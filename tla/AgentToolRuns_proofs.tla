----------------------- MODULE AgentToolRuns_proofs -----------------------
(***************************************************************************)
(* Theorems about AgentToolRuns, for every number of requests that overlap,*)
(* of tool runs, iterations and faults, whatever the model calls.          *)
(***************************************************************************)
EXTENDS AgentToolRuns, SequenceTheorems, FiniteSetTheorems, TLAPS

\* Users' consent and tool runs are not taken back, and a tool run keeps its class.
Grows ==
  /\ Made \subseteq Made' /\ consent \subseteq consent'
  /\ \A t \in Made : tool'[t].class = tool[t].class

\* What a step of p that leaves it in state does to what other requests rely on.
Acts(p, state) ==
  /\ state \in RequestStates /\ Go(p, state)
  /\ Grows
  /\ Trusted(state)'
  /\ \A t \in Made' : Honest(tool[t], t)'

-----------------------------------------------------------------------------
(* What stays true                                                          *)

LEMMA MadeType ==
  ASSUME TypeOK
  PROVE  Made \subseteq ToolRuns /\ \A t \in Made : tool[t] \in Rows
PROOF BY BoundsAssumption DEF TypeOK, Made, ToolRuns

LEMMA ClearedStays ==
  ASSUME TypeOK, Grows, NEW t, Cleared(t)
  PROVE  Cleared(t)'
PROOF
  <1>1. t \in Made /\ t \in Made' /\ tool'[t].class = tool[t].class
    BY DEF Cleared, Grows
  <1>2. tool[t].class \in Classes BY <1>1, MadeType DEF Rows
  <1>3. \A u \in consent : u \in consent' /\ tool'[u].class = tool[u].class
    BY DEF TypeOK, Grows
  <1> QED BY <1>1, <1>2, <1>3 DEF Cleared, Unapproved, Classes

LEMMA HonestStays ==
  ASSUME TypeOK, Grows, NEW t \in Made, NEW row, Honest(row, t)
  PROVE  Honest(row, t)'
PROOF BY ClearedStays DEF Honest, Grows

LEMMA SoundStays ==
  ASSUME TypeOK, Grows, NEW statement, Sound(statement)
  PROVE  Sound(statement)'
PROOF BY ClearedStays DEF Sound, Grows

\* What a request has in hand is right whatever the others do.
LEMMA TrustedStays ==
  ASSUME TypeOK, Grows, NEW state \in RequestStates, Trusted(state)
  PROVE  Trusted(state)'
PROOF
  <1>1. state.pc \in {"execute", "load"} => Cleared(state.tool)'
    BY ClearedStays DEF Trusted
  <1>2. state.pc \in {"write", "store"} =>
          /\ state.todo # <<>> /\ \A i \in 1..Len(state.todo) : Sound(state.todo[i])'
          /\ state.then = "load" => Cleared(state.tool)'
    BY ClearedStays, SoundStays DEF Trusted
  <1>3. state.pc = "store" =>
          Head(state.todo).kind = "tool" /\ Honest(state.row, Head(state.todo).tool)'
    <2> SUFFICES ASSUME state.pc = "store"
                 PROVE  Head(state.todo).kind = "tool" /\ Honest(state.row, Head(state.todo).tool)'
      OBVIOUS
    <2>1. Head(state.todo).kind = "tool" /\ Honest(state.row, Head(state.todo).tool)
      BY DEF Trusted
    <2>2. state.todo \in Seq(Statements) /\ state.todo # <<>> BY DEF Trusted, RequestStates
    <2>3. Head(state.todo) = state.todo[1] /\ 1 \in 1..Len(state.todo) BY <2>2
    <2>4. Head(state.todo).tool \in Made BY <2>1, <2>3 DEF Trusted, Sound
    <2> QED BY <2>1, <2>4, HonestStays
  <1> QED BY <1>1, <1>2, <1>3 DEF Trusted

\* A step that leaves the tool runs alone only has to say what its own request does.
LEMMA QuietActs ==
  ASSUME TypeOK, ApprovalInv, UNCHANGED <<tool, made, consent>>,
         NEW p \in Requests, NEW state \in RequestStates, Go(p, state), Trusted(state)
  PROVE  Acts(p, state)
PROOF
  <1>1. Grows BY DEF Grows, Made
  <1>2. \A t \in Made' : Honest(tool[t], t)'
    <2>1. Made' = Made BY DEF Made
    <2>2. ASSUME NEW t \in Made PROVE Honest(tool[t], t)'
      <3>1. Honest(tool[t], t) BY DEF ApprovalInv
      <3>2. PICK row : row = tool[t] OBVIOUS
      <3>3. Honest(row, t)' BY <1>1, <3>1, <3>2, HonestStays
      <3>4. tool'[t] = row BY <3>2
      <3> QED BY <3>3, <3>4 DEF Honest
    <2> QED BY <2>1, <2>2
  <1> QED BY <1>1, <1>2, TrustedStays DEF Acts

-----------------------------------------------------------------------------
(* What the steps leave in hand                                             *)

LEMMA IdleTrusted == Idle \in RequestStates /\ Trusted(Idle)
PROOF
  <1>1. NoRow \in Rows BY DEF NoRow, Rows, ToolStatuses, Approvals, Classes
  <1>2. <<>> \in Seq(Classes) /\ <<>> \in Seq(Statements) OBVIOUS
  <1> QED BY <1>1, <1>2 DEF Idle, RequestStates, Trusted

LEMMA WriteType ==
  ASSUME NEW state \in RequestStates, NEW todo \in Seq(Statements),
         NEW then \in {"idle", "ask", "call", "load"}
  PROVE  /\ Write(state, todo, then) \in RequestStates
         /\ Write(state, todo, then).pc = IF todo = <<>> THEN then ELSE "write"
         /\ Write(state, todo, then).todo = todo
         /\ Write(state, todo, then).then = then
         /\ Write(state, todo, then).tool = state.tool
PROOF
  <1>1. NoRow \in Rows BY DEF NoRow, Rows, ToolStatuses, Approvals, Classes
  <1> QED BY <1>1 DEF Write, RequestStates

LEMMA WriteTrusted ==
  ASSUME NEW state \in RequestStates, NEW todo \in Seq(Statements),
         NEW then \in {"idle", "ask", "call", "load"},
         \A i \in 1..Len(todo) : Sound(todo[i]),
         then = "load" => Cleared(state.tool)
  PROVE  Trusted(Write(state, todo, then))
PROOF
  <1> DEFINE w == Write(state, todo, then)
  <1>1. /\ w.pc = IF todo = <<>> THEN then ELSE "write"
        /\ w.todo = todo /\ w.then = then /\ w.tool = state.tool
    BY WriteType, SMTT(30)
  <1> SUFFICES Trusted(w) OBVIOUS
  <1> HIDE DEF w
  <1>2. CASE todo = <<>> BY <1>1, <1>2 DEF Trusted
  <1>3. CASE todo # <<>>
    <2>1. w.pc = "write" /\ w.todo # <<>> BY <1>1, <1>3
    <2>2. \A i \in 1..Len(w.todo) : Sound(w.todo[i]) BY <1>1
    <2>3. w.then = "load" => Cleared(w.tool) BY <1>1
    <2> QED BY <2>1, <2>2, <2>3 DEF Trusted
  <1> QED BY <1>2, <1>3

LEMMA OneStatement ==
  ASSUME NEW state \in RequestStates, NEW statement \in Statements, Sound(statement),
         NEW then \in {"idle", "ask", "call", "load"}, then = "load" => Cleared(state.tool)
  PROVE  /\ Write(state, <<statement>>, then) \in RequestStates
         /\ Trusted(Write(state, <<statement>>, then))
PROOF
  <1>0. <<statement>> \in Seq(Statements) OBVIOUS
  <1>1. PICK todo \in Seq(Statements) : todo = <<statement>> BY <1>0
  <1>2. \A i \in 1..Len(todo) : Sound(todo[i]) BY <1>1
  <1>3. Write(state, todo, then) \in RequestStates /\ Trusted(Write(state, todo, then))
    BY <1>2, WriteType, WriteTrusted
  <1> QED BY <1>1, <1>3

LEMMA RunStatement ==
  ASSUME NEW patch \in RunPatches
  PROVE  /\ SetRun(patch) \in Statements /\ Sound(SetRun(patch))
         /\ Best(SetRun(patch)) \in Statements /\ Sound(Best(SetRun(patch)))
PROOF BY DEF SetRun, Best, Statements, Sound

LEMMA ToolStatement ==
  ASSUME NEW t \in ToolRuns, NEW patch \in ToolPatches
  PROVE  /\ SetTool(t, patch) \in Statements /\ Best(SetTool(t, patch)) \in Statements
         /\ SetTool(t, patch).tool = t /\ Best(SetTool(t, patch)).tool = t
         /\ SetTool(t, patch).patch = patch /\ Best(SetTool(t, patch)).patch = patch
PROOF BY DEF SetTool, Best, Statements

LEMMA StopTrusted ==
  ASSUME NEW p, NEW status \in RunStatuses \ {"none"}, NEW n \in Nat
  PROVE  Stop(p, status, n) \in RequestStates /\ Trusted(Stop(p, status, n))
PROOF
  <1> DEFINE patch == [status |-> status, iterations |-> n]
             statement == Best(SetRun(patch))
  <1>1. patch \in RunPatches BY DEF RunPatches, Runs
  <1>2. statement \in Statements /\ Sound(statement) BY <1>1, RunStatement
  <1> HIDE DEF statement
  <1>3. /\ Write(Idle, <<statement>>, "idle") \in RequestStates
        /\ Trusted(Write(Idle, <<statement>>, "idle"))
    BY <1>2, IdleTrusted, OneStatement
  <1>4. Stop(p, status, n) = Write(Idle, <<statement>>, "idle") BY DEF Stop, statement
  <1> QED BY <1>3, <1>4

\* The statements still to come, once the first is done.
LEMMA RestTrusted ==
  ASSUME TypeOK, NEW p \in Requests, Trusted(req[p]), req[p].pc \in {"write", "store"}
  PROVE  Rest(p) \in RequestStates /\ Trusted(Rest(p))
PROOF
  <1> DEFINE r == req[p]  todo == Tail(r.todo)
  <1>1. r \in RequestStates BY DEF TypeOK
  <1>2. r.todo \in Seq(Statements) /\ r.then \in {"idle", "ask", "call", "load"}
    BY <1>1 DEF RequestStates
  <1>3. r.todo # <<>> /\ \A i \in 1..Len(r.todo) : Sound(r.todo[i]) BY DEF Trusted
  <1>4. /\ todo \in Seq(Statements)
        /\ \A i \in 1..Len(todo) : i + 1 \in 1..Len(r.todo) /\ todo[i] = r.todo[i + 1]
    BY <1>2, <1>3
  <1>5. \A i \in 1..Len(todo) : Sound(todo[i]) BY <1>3, <1>4
  <1>6. r.then = "load" => Cleared(r.tool) BY DEF Trusted
  <1> HIDE DEF todo
  <1>7. Write(r, todo, r.then) \in RequestStates /\ Trusted(Write(r, todo, r.then))
    BY <1>1, <1>2, <1>4, <1>5, <1>6, WriteType, WriteTrusted
  <1>8. Rest(p) = Idle \/ Rest(p) = Write(r, todo, r.then) BY DEF Rest, todo
  <1> QED BY <1>7, <1>8, IdleTrusted

LEMMA PatchedRow ==
  ASSUME NEW row \in Rows, NEW patch \in ToolPatches
  PROVE  /\ Patched(row, patch) \in Rows
         /\ Patched(row, patch).class = row.class
         /\ Patched(row, patch).status = patch.status
         /\ Patched(row, patch).approval =
              IF "approval" \in DOMAIN patch THEN patch.approval ELSE row.approval
PROOF BY DEF Patched, Rows, ToolPatches

LEMMA PatchedRun ==
  ASSUME NEW row \in Runs, NEW patch \in RunPatches
  PROVE  Patched(row, patch) \in Runs
PROOF BY DEF Patched, Runs, RunPatches

\* The statement a request is at.
LEMMA CurrentStatement ==
  ASSUME TypeOK, NEW p \in Requests, Trusted(req[p]), req[p].pc \in {"write", "store"}
  PROVE  /\ Statement(p) \in Statements /\ Sound(Statement(p))
         /\ Statement(p) = Head(req[p].todo)
PROOF
  <1>1. req[p].todo \in Seq(Statements) /\ req[p].todo # <<>>
    BY DEF TypeOK, RequestStates, Trusted
  <1>2. Statement(p) = req[p].todo[1] /\ 1 \in 1..Len(req[p].todo) BY <1>1 DEF Statement
  <1> QED BY <1>1, <1>2 DEF Statement, Trusted

-----------------------------------------------------------------------------
(* Statements and faults                                                    *)

LEMMA InHand ==
  ASSUME TypeOK, ApprovalInv, NEW p \in Requests
  PROVE  req[p] \in RequestStates /\ Trusted(req[p])
PROOF BY DEF TypeOK, ApprovalInv

LEMMA StoreRunActs ==
  ASSUME TypeOK, ApprovalInv, NEW p \in Requests, StoreRun(p) \/ Dropped(p)
  PROVE  \E state \in RequestStates : Acts(p, state)
PROOF
  <1>1. req[p].pc = "write" /\ Go(p, Rest(p)) /\ UNCHANGED <<tool, made, consent>>
    BY DEF StoreRun, Dropped, At
  <1>2. Rest(p) \in RequestStates /\ Trusted(Rest(p)) BY <1>1, InHand, RestTrusted
  <1> QED BY <1>1, <1>2, QuietActs

LEMMA ReadToolActs ==
  ASSUME TypeOK, ApprovalInv, NEW p \in Requests, ReadTool(p)
  PROVE  \E state \in RequestStates : Acts(p, state)
PROOF
  <1> DEFINE r == req[p]  t == Statement(p).tool  patch == Statement(p).patch
             row == Patched(tool[t], patch)
             state == [r EXCEPT !.pc = "store", !.row = row]
  <1>1. r \in RequestStates /\ Trusted(r) /\ r.pc = "write" BY InHand DEF ReadTool, At
  <1>2. Statement(p) \in Statements /\ Sound(Statement(p)) /\ Statement(p) = Head(r.todo)
        /\ Statement(p).kind = "tool"
    BY <1>1, CurrentStatement DEF ReadTool
  <1>3. t \in Made /\ patch \in ToolPatches BY <1>2 DEF Statements, Sound
  <1>4. tool[t] \in Rows /\ Honest(tool[t], t) BY <1>3, MadeType DEF ApprovalInv
  <1>5. row \in Rows /\ row.class = tool[t].class /\ row.status = patch.status
        /\ row.approval = IF "approval" \in DOMAIN patch THEN patch.approval ELSE tool[t].approval
    BY <1>3, <1>4, PatchedRow
  <1>6. Honest(row, t) BY <1>2, <1>4, <1>5 DEF Honest, Sound
  <1> HIDE DEF row
  <1>7. state \in RequestStates BY <1>1, <1>5 DEF RequestStates
  <1>8. state.pc = "store" /\ state.row = row /\ state.todo = r.todo /\ state.then = r.then
        /\ state.tool = r.tool
    BY <1>1 DEF RequestStates
  <1> HIDE DEF state
  <1>9. Trusted(state) BY <1>1, <1>2, <1>6, <1>8 DEF Trusted
  <1>10. Go(p, state) /\ UNCHANGED <<tool, made, consent>> BY DEF ReadTool, state, row
  <1> QED BY <1>7, <1>9, <1>10, QuietActs

LEMMA StoreToolActs ==
  ASSUME TypeOK, ApprovalInv, NEW p \in Requests, StoreTool(p)
  PROVE  \E state \in RequestStates : Acts(p, state)
PROOF
  <1> DEFINE r == req[p]  t == Statement(p).tool
  <1>1. r \in RequestStates /\ Trusted(r) /\ r.pc = "store" BY InHand DEF StoreTool, At
  <1>2. Statement(p) = Head(r.todo) /\ Sound(Statement(p)) BY <1>1, CurrentStatement
  <1>3. Statement(p).kind = "tool" /\ Honest(r.row, t) BY <1>1, <1>2 DEF Trusted
  <1>4. t \in Made BY <1>2, <1>3 DEF Sound
  <1>5. tool' = [tool EXCEPT ![t] = r.row] /\ UNCHANGED <<made, consent>> BY DEF StoreTool
  <1>6. tool \in [ToolRuns -> Rows] /\ Made \subseteq ToolRuns BY MadeType DEF TypeOK
  <1>7. tool'[t] = r.row /\ \A u \in Made : u # t => tool'[u] = tool[u] BY <1>4, <1>5, <1>6
  <1>8. Grows BY <1>3, <1>5, <1>7 DEF Grows, Made, Honest
  <1>9. \A u \in Made' : Honest(tool[u], u)'
    <2>1. Made' = Made BY <1>5 DEF Made
    <2>2. ASSUME NEW u \in Made PROVE Honest(tool[u], u)'
      <3>1. PICK row : row = tool'[u] OBVIOUS
      <3>2. Honest(row, u) BY <1>3, <1>7, <3>1 DEF ApprovalInv
      <3>3. Honest(row, u)' BY <1>8, <3>2, HonestStays
      <3> QED BY <3>1, <3>3 DEF Honest
    <2> QED BY <2>1, <2>2
  <1>10. PICK state \in RequestStates : state = Rest(p) /\ Trusted(state)
    BY <1>1, RestTrusted
  <1>11. Trusted(state)' BY <1>8, <1>10, TrustedStays
  <1>12. Go(p, state) BY <1>10 DEF StoreTool
  <1> QED BY <1>8, <1>9, <1>11, <1>12 DEF Acts

LEMMA FaultActs ==
  ASSUME TypeOK, ApprovalInv, NEW p \in Requests, Fault(p) \/ RecordFails(p)
  PROVE  \E state \in RequestStates : Acts(p, state)
PROOF
  <1>1. Go(p, Idle) \/ Go(p, Stop(p, "failed", req[p].at)) BY DEF Fault, RecordFails
  <1>2. UNCHANGED <<tool, made, consent>> BY DEF Fault, RecordFails
  <1>3. req[p].at \in Nat BY InHand DEF RequestStates
  <1>4. Stop(p, "failed", req[p].at) \in RequestStates /\ Trusted(Stop(p, "failed", req[p].at))
    BY <1>3, StopTrusted DEF RunStatuses
  <1> QED BY <1>1, <1>2, <1>4, IdleTrusted, QuietActs

-----------------------------------------------------------------------------
(* The loop                                                                 *)

\* A request that asks or calls has nothing to be trusted with.
LEMMA LoopTrusted ==
  ASSUME NEW state, state.pc \in {"idle", "ask", "call"}
  PROVE  Trusted(state)
PROOF BY DEF Trusted

LEMMA StartActs ==
  ASSUME TypeOK, ApprovalInv, NEW p \in Requests, Start(p)
  PROVE  \E state \in RequestStates : Acts(p, state)
PROOF
  <1> DEFINE state == [Idle EXCEPT !.pc = "ask"]
  <1>1. state \in RequestStates /\ state.pc = "ask" BY IdleTrusted DEF RequestStates
  <1>2. Go(p, state) /\ UNCHANGED <<tool, made, consent>> BY DEF Start
  <1> HIDE DEF state
  <1> QED BY <1>1, <1>2, LoopTrusted, QuietActs

LEMMA NotAskedActs ==
  ASSUME TypeOK, ApprovalInv, NEW p \in Requests, NotAsked(p)
  PROVE  \E state \in RequestStates : Acts(p, state)
PROOF
  <1>1. req[p].iter \in Nat BY InHand DEF RequestStates
  <1>2. PICK status \in {"max_iterations_reached", "failed"} : Go(p, Stop(p, status, req[p].iter))
    BY DEF NotAsked
  <1>3. /\ Stop(p, status, req[p].iter) \in RequestStates
        /\ Trusted(Stop(p, status, req[p].iter))
    BY <1>1, StopTrusted DEF RunStatuses
  <1>4. UNCHANGED <<tool, made, consent>> BY DEF NotAsked
  <1> QED BY <1>2, <1>3, <1>4, QuietActs

LEMMA AskActs ==
  ASSUME TypeOK, ApprovalInv, NEW p \in Requests, Ask(p)
  PROVE  \E state \in RequestStates : Acts(p, state)
PROOF
  <1> DEFINE r == req[p]  next == r.iter + 1
  <1>1. r \in RequestStates /\ next \in Nat BY InHand DEF RequestStates
  <1>2. UNCHANGED <<tool, made, consent>> BY DEF Ask
  <1>3. CASE \E end \in {"failed", "token_budget_exceeded"} : Go(p, Stop(p, end, next))
    <2>1. PICK end \in {"failed", "token_budget_exceeded"} : Go(p, Stop(p, end, next)) BY <1>3
    <2>2. Stop(p, end, next) \in RequestStates /\ Trusted(Stop(p, end, next))
      BY <1>1, StopTrusted DEF RunStatuses
    <2> QED BY <1>2, <2>1, <2>2, QuietActs
  <1>4. CASE Go(p, Write(Idle, <<SetRun([status |-> "completed", iterations |-> next])>>, "idle"))
    <2>1. [status |-> "completed", iterations |-> next] \in RunPatches
      BY <1>1 DEF RunPatches, Runs, RunStatuses
    <2>2. PICK statement \in Statements :
            /\ statement = SetRun([status |-> "completed", iterations |-> next])
            /\ Sound(statement)
      BY <2>1, RunStatement
    <2>3. /\ Write(Idle, <<statement>>, "idle") \in RequestStates
          /\ Trusted(Write(Idle, <<statement>>, "idle"))
      BY <2>2, IdleTrusted, OneStatement
    <2>4. Go(p, Write(Idle, <<statement>>, "idle")) BY <1>4, <2>2
    <2> QED BY <1>2, <2>3, <2>4, QuietActs
  <1>5. CASE \E calls \in Replies : Go(p, [r EXCEPT !.pc = "call", !.calls = calls, !.at = next])
    <2>1. PICK calls \in Replies : Go(p, [r EXCEPT !.pc = "call", !.calls = calls, !.at = next])
      BY <1>5
    <2> DEFINE state == [r EXCEPT !.pc = "call", !.calls = calls, !.at = next]
    <2>2. calls \in Seq(Classes) BY RepliesAssumption
    <2>3. state \in RequestStates /\ state.pc = "call" BY <1>1, <2>2 DEF RequestStates
    <2>4. Go(p, state) BY <2>1
    <2> HIDE DEF state
    <2> QED BY <1>2, <2>3, <2>4, LoopTrusted, QuietActs
  <1> QED BY <1>3, <1>4, <1>5 DEF Ask

LEMMA NextIterationActs ==
  ASSUME TypeOK, ApprovalInv, NEW p \in Requests, NextIteration(p)
  PROVE  \E state \in RequestStates : Acts(p, state)
PROOF
  <1> DEFINE state == [Idle EXCEPT !.pc = "ask", !.iter = req[p].at]
  <1>1. req[p].at \in Nat BY InHand DEF RequestStates
  <1>2. state \in RequestStates /\ state.pc = "ask" BY <1>1, IdleTrusted DEF RequestStates
  <1>3. Go(p, state) /\ UNCHANGED <<tool, made, consent>> BY DEF NextIteration
  <1> HIDE DEF state
  <1> QED BY <1>2, <1>3, LoopTrusted, QuietActs

\* A new tool run leaves those that exist alone.
LEMMA NewRunGrows ==
  ASSUME TypeOK, ApprovalInv, made < MaxTools, made' = made + 1, UNCHANGED consent,
         NEW row \in Rows, tool' = [tool EXCEPT ![made + 1] = row],
         row.status # "failed", row.approval # "approved"
  PROVE  Grows /\ \A t \in Made' : Honest(tool[t], t)'
PROOF
  <1>1. made \in Nat /\ made + 1 \in ToolRuns /\ Made = 1..made /\ Made' = 1..(made + 1)
    BY BoundsAssumption DEF TypeOK, ToolRuns, Made
  <1>2. tool'[made + 1] = row /\ \A t \in Made : t \in ToolRuns /\ tool'[t] = tool[t]
    BY <1>1, MadeType DEF TypeOK
  <1>3. Grows BY <1>1, <1>2 DEF Grows
  <1>4. ASSUME NEW t \in Made PROVE Honest(tool[t], t)'
    <2>1. PICK old : old = tool[t] OBVIOUS
    <2>2. Honest(old, t)' BY <1>3, <2>1, HonestStays DEF ApprovalInv
    <2>3. tool'[t] = old BY <1>2, <2>1
    <2> QED BY <2>2, <2>3 DEF Honest
  <1>5. ASSUME NEW t, t = made + 1 PROVE Honest(tool[t], t)'
    BY <1>2, <1>5 DEF Honest
  <1>6. \A t \in Made' : t \in Made \/ t = made + 1 BY <1>1
  <1> QED BY <1>3, <1>4, <1>5, <1>6

LEMMA CallActs ==
  ASSUME TypeOK, ApprovalInv, NEW p \in Requests, Call(p)
  PROVE  \E state \in RequestStates : Acts(p, state)
PROOF
  <1> DEFINE r == req[p]  class == Head(r.calls)  waits == RequiresApproval(class)
             row == [status |-> IF waits THEN "pending_approval" ELSE "running",
                     approval |-> IF waits THEN "pending" ELSE "not_required", class |-> class]
  <1>1. r \in RequestStates /\ r.calls \in Seq(Classes) /\ r.calls # <<>> /\ r.at \in Nat
    BY InHand DEF RequestStates, Call
  <1>2. class \in Classes BY <1>1
  <1>3. row \in Rows /\ row.status # "failed" /\ row.approval # "approved" /\ row.class = class
    BY <1>2 DEF Rows, ToolStatuses, Approvals
  <1>4. made < MaxTools /\ made' = made + 1 /\ UNCHANGED consent
        /\ tool' = [tool EXCEPT ![made + 1] = row]
    BY DEF Call
  <1> HIDE DEF row
  <1>5. Grows /\ \A t \in Made' : Honest(tool[t], t)' BY <1>3, <1>4, NewRunGrows
  <1>6. CASE waits
    <2>1. WaitingPatch(r.at) \in RunPatches BY <1>1 DEF WaitingPatch, RunPatches, Runs, RunStatuses
    <2>2. PICK statement \in Statements :
            statement = Best(SetRun(WaitingPatch(r.at))) /\ Sound(statement)
      BY <2>1, RunStatement
    <2>3. PICK state \in RequestStates :
            state = Write(Idle, <<statement>>, "idle") /\ Trusted(state)
      BY <2>2, IdleTrusted, OneStatement
    <2>4. Go(p, state) BY <1>6, <2>2, <2>3 DEF Call
    <2>5. Trusted(state)' BY <1>5, <2>3, TrustedStays
    <2> QED BY <1>5, <2>4, <2>5 DEF Acts
  <1>7. CASE ~waits
    <2> DEFINE new == [r EXCEPT !.pc = "execute", !.calls = Tail(@), !.tool = made + 1, !.then = "call"]
    <2>1. made + 1 \in ToolRuns /\ made + 1 \in Made' /\ made + 1 \notin Made /\ Made \subseteq ToolRuns
      BY <1>4, BoundsAssumption DEF TypeOK, ToolRuns, Made
    <2>2. Tail(r.calls) \in Seq(Classes) BY <1>1
    <2>3. new \in RequestStates BY <1>1, <2>1, <2>2 DEF RequestStates
    <2>4. PICK state \in RequestStates : state = new /\ state.pc = "execute" /\ state.tool = made + 1
      BY <1>1, <2>3 DEF RequestStates
    <2>5. Go(p, state) BY <1>7, <2>4 DEF Call
    <2>6. tool'[made + 1].class = class BY <1>3, <1>4, <2>1 DEF TypeOK
    <2>7. class = "safe" \/ (class = "medium" /\ \E u \in consent' : tool'[u].class = "medium")
      <3>1. CASE class = "medium"
        <4>1. PICK u \in Made : tool[u].class = "medium" /\ tool[u].approval = "approved"
          BY <1>7, <3>1 DEF RequiresApproval
        <4>2. u \in consent BY <4>1 DEF ApprovalInv, Honest
        <4> QED BY <1>4, <1>5, <3>1, <4>1, <4>2 DEF Grows
      <3> QED BY <1>2, <1>7, <3>1 DEF RequiresApproval, Classes
    <2>8. \A t : t = made + 1 => Cleared(t)' BY <2>1, <2>6, <2>7 DEF Cleared, Unapproved
    <2>9. Trusted(state)' BY <2>4, <2>8 DEF Trusted
    <2> QED BY <1>5, <2>5, <2>9 DEF Acts
  <1> QED BY <1>6, <1>7

LEMMA Pair ==
  ASSUME NEW S, NEW a \in S, NEW b \in S
  PROVE  <<a>> \o <<b>> = <<a, b>>
PROOF
  <1>1. <<a>> \in Seq(S) /\ <<b>> \in Seq(S) /\ <<a, b>> \in Seq(S) OBVIOUS
  <1>2. PICK x \in Seq(S) : x = <<a>> BY <1>1
  <1>3. PICK y \in Seq(S) : y = <<b>> BY <1>1
  <1>4. PICK z \in Seq(S) : z = <<a, b>> BY <1>1
  <1>5. Len(x) = 1 /\ x[1] = a /\ Len(y) = 1 /\ y[1] = b /\ Len(z) = 2 /\ z[1] = a /\ z[2] = b
    BY <1>2, <1>3, <1>4
  <1>6. x \o y \in Seq(S) /\ Len(x \o y) = 2 BY <1>5, ConcatProperties
  <1>7. (x \o y)[1] = a /\ (x \o y)[2] = b BY <1>5, ConcatProperties, SMTT(30)
  <1>8. \A i \in 1..Len(z) : (x \o y)[i] = z[i]
    <2>1. \A i \in 1..2 : i = 1 \/ i = 2 OBVIOUS
    <2> QED BY <1>5, <1>7, <2>1
  <1>9. x \o y = z BY <1>5, <1>6, <1>8, SeqEqual
  <1> QED BY <1>2, <1>3, <1>4, <1>9

LEMMA ToolAndRun ==
  ASSUME NEW state \in RequestStates, NEW a \in Statements, Sound(a), NEW b \in Statements, Sound(b),
         NEW then \in {"idle", "ask", "call", "load"}, then = "load" => Cleared(state.tool)
  PROVE  /\ Write(state, <<a, b>>, then) \in RequestStates
         /\ Trusted(Write(state, <<a, b>>, then))
PROOF
  <1>0. <<a, b>> \in Seq(Statements) OBVIOUS
  <1>1. PICK todo \in Seq(Statements) : todo = <<a, b>> BY <1>0
  <1>2. Len(todo) = 2 /\ todo[1] = a /\ todo[2] = b BY <1>1
  <1>3. \A i \in 1..Len(todo) : Sound(todo[i])
    <2> SUFFICES ASSUME NEW i \in 1..Len(todo) PROVE Sound(todo[i]) OBVIOUS
    <2>1. i = 1 \/ i = 2 BY <1>2
    <2> QED BY <1>2, <2>1
  <1>4. Write(state, todo, then) \in RequestStates /\ Trusted(Write(state, todo, then))
    BY <1>3, WriteType, WriteTrusted
  <1> QED BY <1>1, <1>4

\* A tool run that a statement takes to a status it has not failed or been approved by.
LEMMA PlainTool ==
  ASSUME TypeOK, NEW t \in Made, NEW patch \in ToolPatches,
         patch.status = "failed" => Cleared(t),
         "approval" \in DOMAIN patch => (patch.approval = "approved" => t \in consent)
  PROVE  /\ SetTool(t, patch) \in Statements /\ Sound(SetTool(t, patch))
         /\ Best(SetTool(t, patch)) \in Statements /\ Sound(Best(SetTool(t, patch)))
PROOF
  <1>1. t \in ToolRuns BY MadeType
  <1> QED BY <1>1, ToolStatement DEF Sound

LEMMA StatusPatch ==
  ASSUME NEW status \in ToolStatuses
  PROVE  /\ [status |-> status] \in ToolPatches
         /\ [status |-> status].status = status
         /\ "approval" \notin DOMAIN [status |-> status]
PROOF BY DEF ToolPatches

LEMMA ExecuteActs ==
  ASSUME TypeOK, ApprovalInv, NEW p \in Requests, Execute(p)
  PROVE  \E state \in RequestStates : Acts(p, state)
PROOF
  <1> DEFINE r == req[p]  t == r.tool
             done == SetTool(t, [status |-> "completed"])
             failed == Best(SetTool(t, [status |-> "failed"]))
             resume == SetRun([status |-> "running"])
             over == Best(SetRun([status |-> "failed", iterations |-> r.at]))
  <1>1. r \in RequestStates /\ Trusted(r) /\ r.pc = "execute" BY InHand DEF Execute, At
  <1>2. Cleared(t) /\ t \in Made /\ r.at \in Nat BY <1>1 DEF Trusted, Cleared, RequestStates
  <1>3. UNCHANGED <<tool, made, consent>> BY DEF Execute
  <1>4. done \in Statements /\ Sound(done) BY <1>2, StatusPatch, PlainTool DEF ToolStatuses
  <1>5. failed \in Statements /\ Sound(failed) BY <1>2, StatusPatch, PlainTool DEF ToolStatuses
  <1>6. resume \in Statements /\ Sound(resume)
    <2>1. [status |-> "running"] \in RunPatches BY DEF RunPatches, RunStatuses
    <2> QED BY <2>1, RunStatement
  <1>7. over \in Statements /\ Sound(over)
    <2>1. [status |-> "failed", iterations |-> r.at] \in RunPatches
      BY <1>2 DEF RunPatches, Runs, RunStatuses
    <2> QED BY <2>1, RunStatement
  <1>8. \/ r.then = "call" /\ Go(p, Write(r, <<done>>, "call"))
        \/ r.then # "call" /\ Go(p, Write(r, <<done>> \o <<resume>>, r.then))
        \/ Go(p, Write(Idle, <<failed, over>>, "idle"))
    BY DEF Execute, AfterFailure
  <1> HIDE DEF done, failed, resume, over
  <1>9. CASE r.then = "call" /\ Go(p, Write(r, <<done>>, "call"))
    BY <1>1, <1>3, <1>4, <1>9, OneStatement, QuietActs
  <1>10. CASE Go(p, Write(Idle, <<failed, over>>, "idle"))
    BY <1>3, <1>5, <1>7, <1>10, IdleTrusted, ToolAndRun, QuietActs
  <1>11. CASE r.then # "call" /\ Go(p, Write(r, <<done>> \o <<resume>>, r.then))
    <2>1. <<done>> \o <<resume>> = <<done, resume>> BY <1>4, <1>6, Pair
    <2>2. r.then \in {"idle", "ask", "call", "load"} BY <1>1 DEF RequestStates
    <2>3. /\ Write(r, <<done, resume>>, r.then) \in RequestStates
          /\ Trusted(Write(r, <<done, resume>>, r.then))
      BY <1>1, <1>2, <1>4, <1>6, <2>2, ToolAndRun
    <2>4. Go(p, Write(r, <<done, resume>>, r.then)) BY <1>11, <2>1
    <2> QED BY <1>3, <2>3, <2>4, QuietActs
  <1> QED BY <1>8, <1>9, <1>10, <1>11

-----------------------------------------------------------------------------
(* Decisions                                                                *)

LEMMA LoadActs ==
  ASSUME TypeOK, ApprovalInv, NEW p \in Requests, Load(p)
  PROVE  \E state \in RequestStates : Acts(p, state)
PROOF
  <1> DEFINE r == req[p]
             new == [r EXCEPT !.pc = "execute", !.iter = run.iterations, !.at = run.iterations,
                              !.then = "ask"]
  <1>1. r \in RequestStates /\ Trusted(r) /\ r.pc = "load" BY InHand DEF Load, At
  <1>2. run.iterations \in Nat BY DEF TypeOK, Runs
  <1>3. new \in RequestStates /\ new.pc = "execute" /\ new.tool = r.tool
    BY <1>1, <1>2 DEF RequestStates
  <1>4. Go(p, new) /\ UNCHANGED <<tool, made, consent>> BY DEF Load
  <1> HIDE DEF new
  <1>5. Trusted(new) BY <1>1, <1>3 DEF Trusted
  <1> QED BY <1>3, <1>4, <1>5, QuietActs

LEMMA BothPatch ==
  ASSUME NEW status \in ToolStatuses, NEW approval \in Approvals
  PROVE  /\ [status |-> status, approval |-> approval] \in ToolPatches
         /\ [status |-> status, approval |-> approval].status = status
         /\ [status |-> status, approval |-> approval].approval = approval
PROOF BY DEF ToolPatches

LEMMA ForTool ==
  ASSUME NEW t \in ToolRuns
  PROVE  [Idle EXCEPT !.tool = t] \in RequestStates /\ [Idle EXCEPT !.tool = t].tool = t
PROOF BY IdleTrusted DEF RequestStates

\* The user's consent clears the tool run: only now.
LEMMA ApproveToolRunActs ==
  ASSUME TypeOK, ApprovalInv, NEW p \in Requests, ApproveToolRun(p)
  PROVE  \E state \in RequestStates : Acts(p, state)
PROOF
  <1> DEFINE Begins(t) ==
        Go(p, Write([Idle EXCEPT !.tool = t],
                    <<SetTool(t, [status |-> "running", approval |-> "approved"])>>, "load"))
  <1>1. PICK t \in Made : Begins(t) /\ consent' = consent \cup {t}
    BY DEF ApproveToolRun, Begin
  <1>2. UNCHANGED <<tool, made>> BY DEF ApproveToolRun, Begin
  <1>3. Made' = Made /\ t \in ToolRuns /\ tool[t] \in Rows BY <1>2, MadeType DEF Made
  <1>4. Grows BY <1>1, <1>2, <1>3 DEF Grows
  <1>5. \A u : u = t => Cleared(u)'
    BY <1>1, <1>2, <1>3 DEF Cleared, Unapproved, Rows, Classes
  <1> DEFINE patch == [status |-> "running", approval |-> "approved"]
  <1>6. patch \in ToolPatches /\ patch.status = "running"
    BY BothPatch DEF ToolStatuses, Approvals
  <1> HIDE DEF patch
  <1>7. PICK statement \in Statements :
          statement = SetTool(t, patch) /\ statement.tool = t /\ statement.patch = patch
    BY <1>3, <1>6, ToolStatement
  <1>8. Sound(statement)' BY <1>1, <1>3, <1>6, <1>7 DEF Sound
  <1>9. <<statement>> \in Seq(Statements) OBVIOUS
  <1>10. PICK todo \in Seq(Statements) : todo = <<statement>> BY <1>9
  <1>11. PICK state \in RequestStates :
           /\ state = Write([Idle EXCEPT !.tool = t], todo, "load")
           /\ state.pc = "write" /\ state.todo = todo /\ state.tool = t
    <2>1. [Idle EXCEPT !.tool = t] \in RequestStates /\ [Idle EXCEPT !.tool = t].tool = t
      BY <1>3, ForTool
    <2>2. PICK base \in RequestStates : base = [Idle EXCEPT !.tool = t] /\ base.tool = t BY <2>1
    <2>3. todo # <<>> BY <1>10
    <2> DEFINE w == Write(base, todo, "load")
    <2>4. w \in RequestStates /\ w.pc = (IF todo = <<>> THEN "load" ELSE "write")
          /\ w.todo = todo /\ w.tool = base.tool
      BY WriteType
    <2>5. w = Write([Idle EXCEPT !.tool = t], todo, "load") BY <2>2
    <2> HIDE DEF w
    <2> QED BY <2>2, <2>3, <2>4, <2>5
  <1>12. Go(p, state) BY <1>1, <1>7, <1>10, <1>11 DEF patch
  <1>13. Trusted(state)'
    <2>0. todo # <<>> /\ Len(todo) = 1 /\ todo[1] = statement BY <1>10
    <2>1. state.todo # <<>> /\ Len(state.todo) = 1 /\ state.todo[1] = statement BY <2>0, <1>11
    <2>2. \A i \in 1..Len(state.todo) : Sound(state.todo[i])' BY <1>8, <2>1
    <2> QED BY <1>5, <1>11, <2>1, <2>2 DEF Trusted
  <1>14. \A u \in Made' : Honest(tool[u], u)'
    <2> SUFFICES ASSUME NEW u \in Made PROVE Honest(tool[u], u)' BY <1>3
    <2>1. PICK row : row = tool[u] OBVIOUS
    <2>2. Honest(row, u)' BY <1>4, <2>1, HonestStays DEF ApprovalInv
    <2>3. tool'[u] = row BY <1>2, <2>1
    <2> QED BY <2>2, <2>3 DEF Honest
  <1> QED BY <1>4, <1>12, <1>13, <1>14 DEF Acts

LEMMA RejectToolRunActs ==
  ASSUME TypeOK, ApprovalInv, NEW p \in Requests, RejectToolRun(p)
  PROVE  \E state \in RequestStates : Acts(p, state)
PROOF
  <1>1. PICK t \in Made :
          Go(p, Write(Idle, <<SetTool(t, [status |-> "rejected", approval |-> "rejected"]),
                              Best(SetRun([status |-> "failed"]))>>, "idle"))
    BY DEF RejectToolRun, Begin
  <1>2. UNCHANGED <<tool, made, consent>> BY DEF RejectToolRun, Begin
  <1> DEFINE a == SetTool(t, [status |-> "rejected", approval |-> "rejected"])
             b == Best(SetRun([status |-> "failed"]))
  <1>3. a \in Statements /\ Sound(a) BY BothPatch, PlainTool DEF ToolStatuses, Approvals
  <1>4. b \in Statements /\ Sound(b)
    <2>1. [status |-> "failed"] \in RunPatches BY DEF RunPatches, RunStatuses
    <2> QED BY <2>1, RunStatement
  <1> HIDE DEF a, b
  <1>5. Write(Idle, <<a, b>>, "idle") \in RequestStates /\ Trusted(Write(Idle, <<a, b>>, "idle"))
    BY <1>3, <1>4, IdleTrusted, ToolAndRun
  <1>6. Go(p, Write(Idle, <<a, b>>, "idle")) BY <1>1 DEF a, b
  <1> QED BY <1>2, <1>5, <1>6, QuietActs

\* A failed tool run was executed, so it is cleared.
LEMMA RetryToolRunActs ==
  ASSUME TypeOK, ApprovalInv, NEW p \in Requests, RetryToolRun(p)
  PROVE  \E state \in RequestStates : Acts(p, state)
PROOF
  <1> DEFINE decide(t) == SetTool(t, [status |-> "pending_approval", approval |-> "pending"])
             again(t) == SetTool(t, [status |-> "running", approval |-> tool[t].approval])
             wait == SetRun([status |-> "pending_approval"])
  <1>1. PICK t \in Made :
          /\ tool[t].status = "failed"
          /\ \/ Go(p, Write(Idle, <<wait, decide(t)>>, "idle"))
             \/ Go(p, Write([Idle EXCEPT !.tool = t], <<again(t)>>, "load"))
    BY DEF RetryToolRun, Begin, MayRetry
  <1>2. UNCHANGED <<tool, made, consent>> BY DEF RetryToolRun, Begin
  <1>3. t \in ToolRuns /\ tool[t] \in Rows /\ Honest(tool[t], t) BY MadeType DEF ApprovalInv
  <1>4. Cleared(t) BY <1>1, <1>3 DEF Honest
  <1>5. decide(t) \in Statements /\ Sound(decide(t))
    BY BothPatch, PlainTool DEF ToolStatuses, Approvals
  <1>6. wait \in Statements /\ Sound(wait)
    <2>1. [status |-> "pending_approval"] \in RunPatches BY DEF RunPatches, RunStatuses
    <2> QED BY <2>1, RunStatement
  <1>7. again(t) \in Statements /\ Sound(again(t))
    <2>1. PICK approval \in Approvals : approval = tool[t].approval BY <1>3 DEF Rows
    <2>2. approval = "approved" => t \in consent BY <1>3, <2>1 DEF Honest
    <2> DEFINE patch == [status |-> "running", approval |-> approval]
    <2>3. patch \in ToolPatches /\ patch.status = "running" /\ patch.approval = approval
      BY BothPatch DEF ToolStatuses
    <2> HIDE DEF patch
    <2>4. SetTool(t, patch) \in Statements /\ Sound(SetTool(t, patch)) BY <2>2, <2>3, PlainTool
    <2> QED BY <2>1, <2>4 DEF patch
  <1> HIDE DEF decide, again, wait
  <1>8. CASE Go(p, Write(Idle, <<wait, decide(t)>>, "idle"))
    BY <1>2, <1>5, <1>6, <1>8, IdleTrusted, ToolAndRun, QuietActs
  <1>9. CASE Go(p, Write([Idle EXCEPT !.tool = t], <<again(t)>>, "load"))
    BY <1>2, <1>3, <1>4, <1>7, <1>9, ForTool, OneStatement, QuietActs
  <1> QED BY <1>1, <1>8, <1>9

LEMMA ContinueActs ==
  ASSUME TypeOK, ApprovalInv, NEW p \in Requests, ContinueRunWithTokenBudget(p)
  PROVE  \E state \in RequestStates : Acts(p, state)
PROOF
  <1> DEFINE state == [Idle EXCEPT !.iter = run.iterations]
             go == SetRun([status |-> "running"])
  <1>1. state \in RequestStates
    <2>1. run.iterations \in Nat BY DEF TypeOK, Runs
    <2> QED BY <2>1, IdleTrusted DEF RequestStates
  <1>2. go \in Statements /\ Sound(go)
    <2>1. [status |-> "running"] \in RunPatches BY DEF RunPatches, RunStatuses
    <2> QED BY <2>1, RunStatement
  <1>3. Go(p, Write(state, <<go>>, "ask")) /\ UNCHANGED <<tool, made, consent>>
    BY DEF ContinueRunWithTokenBudget, Begin
  <1> HIDE DEF state, go
  <1>4. Write(state, <<go>>, "ask") \in RequestStates /\ Trusted(Write(state, <<go>>, "ask"))
    BY <1>1, <1>2, OneStatement
  <1> QED BY <1>3, <1>4, QuietActs

-----------------------------------------------------------------------------
(* Every step                                                               *)

LEMMA StepActs ==
  ASSUME TypeOK, ApprovalInv, [Next]_vars, ~UNCHANGED vars
  PROVE  \E p \in Requests, state \in RequestStates : Acts(p, state)
PROOF BY StartActs, NotAskedActs, AskActs, CallActs, NextIterationActs, ExecuteActs, StoreRunActs,
  ReadToolActs, StoreToolActs, LoadActs, FaultActs, ApproveToolRunActs, RejectToolRunActs,
  RetryToolRunActs, ContinueActs DEF Next

\* The variables that no request relies on.
RestType ==
  /\ run \in Runs
  /\ tool \in [ToolRuns -> Rows]
  /\ made \in 0..MaxTools
  /\ answered \subseteq ToolRuns /\ consent \subseteq Made
  /\ faults \in 0..FaultBound /\ asked \in Nat
  /\ wrong \subseteq {"unanswered", "mixed"}

LEMMA RestStays ==
  ASSUME TypeOK, ApprovalInv, NEW p \in Requests,
    \/ Start(p) \/ NotAsked(p) \/ Ask(p) \/ Call(p) \/ NextIteration(p) \/ Execute(p)
    \/ StoreRun(p) \/ ReadTool(p) \/ StoreTool(p) \/ Load(p)
    \/ Fault(p) \/ Dropped(p) \/ RecordFails(p)
    \/ ApproveToolRun(p) \/ RejectToolRun(p) \/ RetryToolRun(p) \/ ContinueRunWithTokenBudget(p)
  PROVE  RestType'
PROOF
  <1>1. RestType BY DEF TypeOK, ApprovalInv, ApprovedBeforeExecuted, RestType
  <1>2. req[p] \in RequestStates /\ Trusted(req[p]) BY InHand
  <1> USE DEF RestType, Made
  <1>3. CASE Start(p) BY <1>1, <1>3 DEF Start, Runs, RunStatuses
  <1>4. CASE NotAsked(p) \/ NextIteration(p) \/ ReadTool(p) \/ Load(p)
    BY <1>1, <1>4 DEF NotAsked, NextIteration, ReadTool, Load
  <1>5. CASE Ask(p)
    <2>1. asked' = asked + 1 /\ (wrong' = wrong \/ wrong' = wrong \cup {"unanswered"})
      BY <1>5 DEF Ask
    <2>2. UNCHANGED <<run, tool, made, answered, faults, consent>> BY <1>5 DEF Ask
    <2>3. asked' \in Nat BY <1>1, <2>1
    <2>4. wrong' \subseteq {"unanswered", "mixed"} BY <1>1, <2>1
    <2> QED BY <1>1, <2>2, <2>3, <2>4
  <1>6. CASE Call(p)
    <2>1. Head(req[p].calls) \in Classes BY <1>2, <1>6 DEF Call, RequestStates
    <2>2. tool' \in [ToolRuns -> Rows]
      BY <1>1, <1>6, <2>1 DEF Call, Rows, ToolStatuses, Approvals
    <2>3. made' \in 0..MaxTools /\ Made \subseteq Made'
      BY <1>1, <1>6, BoundsAssumption DEF Call
    <2>4. UNCHANGED <<run, answered, faults, asked, consent, wrong>> BY <1>6 DEF Call
    <2> QED BY <1>1, <2>2, <2>3, <2>4
  <1>7. CASE Execute(p)
    <2>1. req[p].tool \in Made /\ ~Unapproved(req[p].tool)
      BY <1>2, <1>7 DEF Execute, At, Trusted, Cleared
    <2>2. wrong' = wrong BY <1>7, <2>1 DEF Execute
    <2>3. answered' \subseteq ToolRuns BY <1>1, <1>7, <2>1, MadeType DEF Execute
    <2>4. UNCHANGED <<run, tool, made, faults, asked, consent>> BY <1>7 DEF Execute
    <2> QED BY <1>1, <2>2, <2>3, <2>4
  <1>8. CASE StoreRun(p)
    <2>1. Statement(p) \in Statements /\ Statement(p).kind = "run"
      BY <1>2, <1>8, CurrentStatement DEF StoreRun, At
    <2>2. Statement(p).patch \in RunPatches BY <2>1 DEF Statements
    <2>3. run' \in Runs BY <1>1, <1>8, <2>2, PatchedRun DEF StoreRun
    <2>4. UNCHANGED <<tool, made, answered, faults, asked, consent, wrong>> BY <1>8 DEF StoreRun
    <2> QED BY <1>1, <2>3, <2>4
  <1>9. CASE StoreTool(p)
    <2>1. req[p].row \in Rows BY <1>2 DEF RequestStates
    <2>2. tool' \in [ToolRuns -> Rows] BY <1>1, <1>9, <2>1 DEF StoreTool
    <2>3. UNCHANGED <<run, made, answered, faults, asked, consent, wrong>> BY <1>9 DEF StoreTool
    <2> QED BY <1>1, <2>2, <2>3
  <1>10. CASE Fault(p) \/ Dropped(p) \/ RecordFails(p)
    <2>1. faults' \in 0..FaultBound
      BY <1>1, <1>10, BoundsAssumption DEF Fault, Dropped, RecordFails, Faulty
    <2>2. UNCHANGED <<run, tool, made, answered, asked, consent, wrong>>
      BY <1>10 DEF Fault, Dropped, RecordFails
    <2> QED BY <1>1, <2>1, <2>2
  <1>11. CASE ApproveToolRun(p)
    BY <1>1, <1>11 DEF ApproveToolRun, Begin
  <1>12. CASE RejectToolRun(p) \/ RetryToolRun(p) \/ ContinueRunWithTokenBudget(p)
    BY <1>1, <1>12 DEF RejectToolRun, RetryToolRun, ContinueRunWithTokenBudget, Begin
  <1> QED BY <1>3, <1>4, <1>5, <1>6, <1>7, <1>8, <1>9, <1>10, <1>11, <1>12

LEMMA StepInv == TypeOK /\ ApprovalInv /\ [Next]_vars => TypeOK' /\ ApprovalInv'
PROOF
  <1> SUFFICES ASSUME TypeOK, ApprovalInv, [Next]_vars PROVE TypeOK' /\ ApprovalInv' OBVIOUS
  <1>1. CASE UNCHANGED vars
    <2>1. UNCHANGED <<run, tool, made, answered, req, faults, asked, consent, wrong>>
      BY <1>1 DEF vars
    <2>2. Made' = Made /\ TypeOK' BY <2>1 DEF TypeOK, Made
    <2>3. Grows BY <2>1, <2>2 DEF Grows
    <2>4. ASSUME NEW t \in Made' PROVE Honest(tool[t], t)'
      <3>1. PICK row : row = tool[t] OBVIOUS
      <3>2. Honest(row, t)' BY <2>2, <2>3, <2>4, <3>1, HonestStays DEF ApprovalInv
      <3> QED BY <2>1, <3>1, <3>2 DEF Honest
    <2>5. ASSUME NEW p \in Requests PROVE Trusted(req[p])'
      <3>1. PICK held \in RequestStates : held = req[p] BY InHand
      <3>2. Trusted(held)' BY <2>3, <3>1, InHand, TrustedStays
      <3> QED BY <2>1, <3>1, <3>2 DEF Trusted
    <2> QED BY <2>1, <2>2, <2>4, <2>5 DEF ApprovalInv, ApprovedBeforeExecuted
  <1>2. CASE ~UNCHANGED vars
    <2>1. PICK p \in Requests, state \in RequestStates : Acts(p, state) BY <1>2, StepActs
    <2>2. RestType' BY <1>2, RestStays DEF Next
    <2>3. /\ req' \in [Requests -> RequestStates] /\ req'[p] = state
          /\ \A q \in Requests : q # p => req'[q] = req[q]
      BY <2>1 DEF Acts, Go, TypeOK
    <2>4. TypeOK' BY <2>2, <2>3 DEF TypeOK, RestType
    <2>5. ASSUME NEW q \in Requests PROVE Trusted(req[q])'
      <3>1. CASE q = p
        <4>1. Trusted(state)' BY <2>1 DEF Acts
        <4> QED BY <2>3, <3>1, <4>1 DEF Trusted
      <3>2. CASE q # p
        <4>1. PICK held \in RequestStates : held = req[q] BY InHand
        <4>2. Trusted(held)' BY <2>1, <4>1, InHand, TrustedStays DEF Acts
        <4> QED BY <2>3, <3>2, <4>1, <4>2 DEF Trusted
      <3> QED BY <3>1, <3>2
    <2>6. ApprovedBeforeExecuted' BY <2>2 DEF RestType, ApprovedBeforeExecuted
    <2> QED BY <2>1, <2>4, <2>5, <2>6 DEF ApprovalInv, Acts
  <1> QED BY <1>1, <1>2

LEMMA InitInv == Init => TypeOK /\ ApprovalInv
PROOF
  <1> SUFFICES ASSUME Init PROVE TypeOK /\ ApprovalInv OBVIOUS
  <1>1. NoRow \in Rows BY DEF NoRow, Rows, ToolStatuses, Approvals, Classes
  <1>2. Made = {} BY DEF Init, Made
  <1>3. TypeOK BY <1>1, IdleTrusted, BoundsAssumption DEF Init, TypeOK, Runs, RunStatuses
  <1>4. \A p \in Requests : Trusted(req[p])
    <2> SUFFICES ASSUME NEW p \in Requests PROVE Trusted(req[p]) OBVIOUS
    <2>1. req[p] = Idle BY DEF Init
    <2> QED BY <2>1, IdleTrusted
  <1> QED BY <1>2, <1>3, <1>4 DEF ApprovalInv, ApprovedBeforeExecuted, Init

-----------------------------------------------------------------------------
(* Requests that nobody disturbs                                            *)

\* What a step of p that leaves it in state does, when nobody else is at work.
ActsAlone(p, state) ==
  /\ state \in RequestStates /\ Go(p, state)
  /\ \A q \in Requests : q # p => At(q, "idle")
  /\ InOrder' /\ Orderly(state)' /\ "unanswered" \notin wrong'

LEMMA AloneKept ==
  ASSUME TypeOK, NEW p \in Requests, NEW state \in RequestStates, ActsAlone(p, state)
  PROVE  /\ \A q, r \in Busy' : q = r
         /\ InOrder' /\ "unanswered" \notin wrong'
         /\ \A q \in Requests : Orderly(req[q])'
PROOF
  <1>1. /\ req'[p] = state
        /\ \A q \in Requests : q # p => req'[q] = req[q] /\ req[q].pc = "idle"
    BY DEF ActsAlone, Go, TypeOK, At
  <1>2. \A q \in Busy' : q = p BY <1>1 DEF Busy, At
  <1>3. ASSUME NEW q \in Requests PROVE Orderly(req[q])'
    <2>1. CASE q = p
      <3>1. Orderly(state)' BY DEF ActsAlone
      <3>2. req'[q] = state BY <1>1, <2>1
      <3> QED BY <3>1, <3>2 DEF Orderly, OrderlyTodo, OrderlyStatement
    <2>2. CASE q # p BY <1>1, <2>2 DEF Orderly
    <2> QED BY <2>1, <2>2
  <1> QED BY <1>2, <1>3 DEF ActsAlone


\* Nobody but p is at work.
Lone(p) ==
  /\ \A q \in Requests : q # p => At(q, "idle")
  /\ InOrder /\ "unanswered" \notin wrong

LEMMA LoneRequest ==
  ASSUME TypeOK, AloneInv, Alone, NEW p \in Requests, req[p].pc # "idle"
  PROVE  Lone(p) /\ Orderly(req[p])
PROOF BY DEF AloneInv, Busy, Lone, At

LEMMA LoneBeginner ==
  ASSUME TypeOK, AloneInv, Alone, NEW p \in Requests, Busy = {}
  PROVE  Lone(p)
PROOF BY DEF AloneInv, Busy, Lone, At

LEMMA OrderlyStays ==
  ASSUME UNCHANGED <<run, tool, made, answered>>, NEW state
  PROVE  /\ Orderly(state)' <=> Orderly(state)
         /\ InOrder' <=> InOrder
PROOF
  <1>1. Made' = Made BY DEF Made
  <1>2. Unfinished' = Unfinished BY <1>1 DEF Unfinished
  <1>3. \A i : OrderlyStatement(state, i)' <=> OrderlyStatement(state, i)
    BY <1>2 DEF OrderlyStatement
  <1>4. OrderlyTodo(state)' <=> OrderlyTodo(state) BY <1>2, <1>3 DEF OrderlyTodo
  <1> QED BY <1>1, <1>2, <1>4 DEF Orderly, InOrder

LEMMA QuietAlone ==
  ASSUME UNCHANGED <<run, tool, made, answered, wrong>>, NEW p \in Requests, Lone(p),
         NEW state \in RequestStates, Go(p, state), Orderly(state)
  PROVE  ActsAlone(p, state)
PROOF BY OrderlyStays DEF ActsAlone, Lone

LEMMA IdleOrderly == Orderly(Idle)
PROOF BY DEF Idle, Orderly

\* What may come after a request's statements.
Thens == {"idle", "ask", "call", "load"}

LEMMA AllThens == \A then \in Thens : then \in {"idle", "ask", "call", "load"}
PROOF BY DEF Thens

LEMMA SomeThens == "idle" \in Thens /\ "ask" \in Thens /\ "call" \in Thens /\ "load" \in Thens
PROOF BY DEF Thens

LEMMA WriteIs ==
  ASSUME NEW base \in RequestStates, NEW todo \in Seq(Statements), NEW then \in Thens
  PROVE  Write(base, todo, then) \in RequestStates
PROOF BY AllThens, WriteType

LEMMA WriteKeeps ==
  ASSUME NEW base \in RequestStates, NEW todo \in Seq(Statements), NEW then \in Thens
  PROVE  Write(base, todo, then).then = then /\ Write(base, todo, then).tool = base.tool
         /\ Write(base, todo, then).iter = base.iter /\ Write(base, todo, then).at = base.at
         /\ Write(base, todo, then).todo = todo
PROOF BY DEF Write, RequestStates

LEMMA WriteGoes ==
  ASSUME NEW base \in RequestStates, NEW todo \in Seq(Statements), NEW then \in Thens
  PROVE  /\ todo # <<>> => Write(base, todo, then).pc = "write"
         /\ todo = <<>> => Write(base, todo, then).pc = then
PROOF BY DEF Write, RequestStates

LEMMA Sends ==
  ASSUME NEW base \in RequestStates, NEW todo \in Seq(Statements), NEW then \in Thens
  PROVE  \E w \in RequestStates :
           /\ w = Write(base, todo, then)
           /\ todo # <<>> => w.pc = "write"
           /\ todo = <<>> => w.pc = then
           /\ w.todo = todo /\ w.then = then /\ w.tool = base.tool
           /\ w.iter = base.iter /\ w.at = base.at
PROOF BY WriteIs, WriteKeeps, WriteGoes

\* A request that is about to send one statement, or two.
LEMMA SendsOne ==
  ASSUME NEW base \in RequestStates, NEW a \in Statements,
         NEW then \in Thens
  PROVE  \E w \in RequestStates :
           /\ w = Write(base, <<a>>, then)
           /\ w.pc = "write" /\ w.then = then /\ w.tool = base.tool
           /\ w.iter = base.iter /\ w.at = base.at
           /\ Len(w.todo) = 1 /\ w.todo[1] = a /\ \A i \in 1..Len(w.todo) : i = 1
PROOF
  <1>0. <<a>> \in Seq(Statements) OBVIOUS
  <1>1. PICK todo \in Seq(Statements) : todo = <<a>> BY <1>0
  <1>2. todo # <<>> /\ Len(todo) = 1 /\ todo[1] = a BY <1>1
  <1>3. PICK w \in RequestStates :
          /\ w = Write(base, todo, then)
          /\ w.pc = "write" /\ w.todo = todo /\ w.then = then /\ w.tool = base.tool
          /\ w.iter = base.iter /\ w.at = base.at
    <2>1. todo # <<>> /\ todo \in Seq(Statements) BY <1>1, <1>2
    <2> QED BY <2>1, Sends
  <1>4. w = Write(base, <<a>>, then) BY <1>1, <1>3
  <1>5. Len(w.todo) = 1 /\ w.todo[1] = a BY <1>2, <1>3
  <1>6. \A i \in 1..1 : i = 1 OBVIOUS
  <1> QED BY <1>3, <1>4, <1>5, <1>6

LEMMA SendsTwo ==
  ASSUME NEW base \in RequestStates, NEW a \in Statements, NEW b \in Statements,
         NEW then \in Thens
  PROVE  \E w \in RequestStates :
           /\ w = Write(base, <<a, b>>, then)
           /\ w.pc = "write" /\ w.then = then /\ w.tool = base.tool
           /\ w.iter = base.iter /\ w.at = base.at
           /\ Len(w.todo) = 2 /\ w.todo[1] = a /\ w.todo[2] = b
           /\ \A i \in 1..Len(w.todo) : i \in {1, 2}
PROOF
  <1>0. <<a, b>> \in Seq(Statements) OBVIOUS
  <1>1. PICK todo \in Seq(Statements) : todo = <<a, b>> BY <1>0
  <1>2. todo # <<>> /\ Len(todo) = 2 /\ todo[1] = a /\ todo[2] = b BY <1>1
  <1>3. PICK w \in RequestStates :
          /\ w = Write(base, todo, then)
          /\ w.pc = "write" /\ w.todo = todo /\ w.then = then /\ w.tool = base.tool
          /\ w.iter = base.iter /\ w.at = base.at
    <2>1. todo # <<>> /\ todo \in Seq(Statements) BY <1>1, <1>2
    <2> QED BY <2>1, Sends
  <1>4. w = Write(base, <<a, b>>, then) BY <1>1, <1>3
  <1>5. Len(w.todo) = 2 /\ w.todo[1] = a /\ w.todo[2] = b BY <1>2, <1>3
  <1>6. \A i \in 1..2 : i \in {1, 2} OBVIOUS
  <1> QED BY <1>3, <1>4, <1>5, <1>6

\* What SetRun and SetTool say.
LEMMA RunParts ==
  ASSUME NEW patch \in RunPatches
  PROVE  /\ SetRun(patch) \in Statements /\ Best(SetRun(patch)) \in Statements
         /\ SetRun(patch).kind = "run" /\ Best(SetRun(patch)).kind = "run"
         /\ SetRun(patch).patch = patch /\ Best(SetRun(patch)).patch = patch
         /\ ~SetRun(patch).best
PROOF BY DEF SetRun, Best, Statements

LEMMA ToolParts ==
  ASSUME NEW t \in ToolRuns, NEW patch \in ToolPatches
  PROVE  /\ SetTool(t, patch) \in Statements /\ Best(SetTool(t, patch)) \in Statements
         /\ SetTool(t, patch).kind = "tool" /\ Best(SetTool(t, patch)).kind = "tool"
         /\ SetTool(t, patch).tool = t /\ Best(SetTool(t, patch)).tool = t
         /\ SetTool(t, patch).patch = patch /\ Best(SetTool(t, patch)).patch = patch
         /\ ~SetTool(t, patch).best
PROOF BY DEF SetTool, Best, Statements

LEMMA StopOrderly ==
  ASSUME NEW p, NEW status \in RunStatuses \ {"none"}, NEW n \in Nat, status \in Over => Unfinished = {}
  PROVE  Stop(p, status, n) \in RequestStates /\ Orderly(Stop(p, status, n))
PROOF
  <1> DEFINE patch == [status |-> status, iterations |-> n]
  <1>1. patch \in RunPatches /\ patch.status = status BY DEF RunPatches
  <1> HIDE DEF patch
  <1>2. PICK a \in Statements : a = Best(SetRun(patch)) /\ a.kind = "run" /\ a.patch = patch
    BY <1>1, RunParts
  <1>3. PICK w \in RequestStates :
          /\ w = Write(Idle, <<a>>, "idle") /\ w.pc = "write" /\ w.then = "idle"
          /\ Len(w.todo) = 1 /\ w.todo[1] = a /\ \A i \in 1..Len(w.todo) : i = 1
    BY <1>2, IdleTrusted, SomeThens, SendsOne
  <1>4. \A i \in 1..Len(w.todo) : OrderlyStatement(w, i)
    BY <1>1, <1>2, <1>3 DEF OrderlyStatement
  <1>5. OrderlyTodo(w) BY <1>3, <1>4 DEF OrderlyTodo
  <1>6. Orderly(w) BY <1>3, <1>5 DEF Orderly
  <1>7. w = Stop(p, status, n) BY <1>2, <1>3 DEF Stop, patch
  <1> QED BY <1>6, <1>7

-----------------------------------------------------------------------------
(* Their statements                                                         *)

\* The rest of a todo list.
RestOf(r, w) ==
  \/ Len(r.todo) = 1 /\ r.then = "idle" /\ w = Idle
  \/ /\ Len(r.todo) = 1 /\ r.then # "idle" /\ w.pc = r.then /\ w.tool = r.tool
     /\ w.iter = r.iter /\ w.at = r.at
  \/ /\ Len(r.todo) > 1 /\ w.pc = "write" /\ w.then = r.then /\ w.tool = r.tool
     /\ w.iter = r.iter /\ w.at = r.at
     /\ Len(w.todo) = Len(r.todo) - 1
     /\ \A i \in 1..Len(w.todo) : i + 1 \in 1..Len(r.todo) /\ w.todo[i] = r.todo[i + 1]

LEMMA RestParts ==
  ASSUME TypeOK, NEW p \in Requests, Trusted(req[p]), req[p].pc \in {"write", "store"}
  PROVE  /\ Len(req[p].todo) \in Nat /\ Len(req[p].todo) >= 1
         /\ \E w \in RequestStates : w = Rest(p) /\ RestOf(req[p], w)
PROOF
  <1>1. PICK r \in RequestStates : r = req[p] BY DEF TypeOK
  <1>2. r.todo \in Seq(Statements) /\ r.todo # <<>> BY <1>1 DEF RequestStates, Trusted
  <1>3. Len(r.todo) \in Nat /\ Len(r.todo) >= 1 BY <1>2
  <1>4. r.then \in Thens BY <1>1 DEF RequestStates, Thens
  <1>5. Tail(r.todo) \in Seq(Statements) BY <1>2
  <1>6. PICK todo \in Seq(Statements) : todo = Tail(r.todo) BY <1>5
  <1>7. /\ Len(todo) = Len(r.todo) - 1
        /\ \A i \in 1..Len(todo) : i + 1 \in 1..Len(r.todo) /\ todo[i] = r.todo[i + 1]
    BY <1>2, <1>6
  <1>8. todo \in Seq(Statements) /\ r \in RequestStates BY <1>1, <1>6
  <1>9. Len(todo) = 0 <=> todo = <<>> BY <1>8, EmptySeq
  <1>10. Len(todo) = 0 <=> Len(r.todo) = 1 BY <1>3, <1>7
  <1>11. todo = <<>> <=> Len(r.todo) = 1 BY <1>9, <1>10
  <1>12. Rest(p) = IF r.then = "idle" /\ Len(r.todo) = 1 THEN Idle ELSE Write(r, todo, r.then)
    BY <1>1, <1>6 DEF Rest
  <1>13. CASE r.then = "idle" /\ Len(r.todo) = 1
    BY <1>1, <1>3, <1>12, <1>13, IdleTrusted DEF RestOf
  <1>14. CASE r.then # "idle" /\ Len(r.todo) = 1
    <2>2. PICK w \in RequestStates :
            /\ w = Write(r, todo, r.then) /\ (todo = <<>> => w.pc = r.then) /\ w.tool = r.tool
            /\ w.iter = r.iter /\ w.at = r.at
      BY <1>8, <1>4, Sends
    <2>3. Rest(p) = w BY <1>12, <1>14, <2>2
    <2>4. RestOf(r, w) BY <1>14, <1>11, <2>2 DEF RestOf
    <2> QED BY <1>1, <1>3, <2>2, <2>3, <2>4
  <1>15. CASE Len(r.todo) # 1
    <2>2. PICK w \in RequestStates :
            /\ w = Write(r, todo, r.then)
            /\ w.pc = "write" /\ w.todo = todo /\ w.then = r.then /\ w.tool = r.tool
            /\ w.iter = r.iter /\ w.at = r.at
      BY <1>8, <1>15, <1>4, <1>11, Sends
    <2>3. /\ Len(w.todo) = Len(r.todo) - 1
          /\ \A i \in 1..Len(w.todo) : i + 1 \in 1..Len(r.todo) /\ w.todo[i] = r.todo[i + 1]
      BY <1>7, <2>2
    <2>4. \A n \in Nat : n >= 1 /\ n # 1 => n > 1 OBVIOUS
    <2>5. Len(r.todo) > 1 BY <1>3, <1>15, <2>4
    <2>6. RestOf(r, w) BY <2>2, <2>3, <2>5 DEF RestOf
    <2> QED BY <1>1, <1>3, <1>12, <1>15, <2>2, <2>6
  <1> QED BY <1>13, <1>14, <1>15

\* What p has to send, when it is orderly.
LEMMA Sending ==
  ASSUME TypeOK, ApprovalInv, AloneInv, Alone, NEW p \in Requests, req[p].pc \in {"write", "store"}
  PROVE  \E r \in RequestStates, w \in RequestStates, s \in Statements :
           /\ r = req[p] /\ w = Rest(p) /\ s = Statement(p)
           /\ Lone(p) /\ Trusted(r) /\ Orderly(r) /\ OrderlyTodo(r) /\ OrderlyStatement(r, 1)
           /\ RestOf(r, w) /\ s = r.todo[1] /\ s = Head(r.todo) /\ Sound(s)
           /\ Len(r.todo) \in Nat /\ Len(r.todo) >= 1
PROOF
  <1>1. PICK r \in RequestStates : r = req[p] /\ Trusted(r) BY InHand
  <1>2. Lone(p) /\ Orderly(r) BY <1>1, LoneRequest
  <1>3. OrderlyTodo(r) BY <1>1, <1>2 DEF Orderly
  <1>4. Len(r.todo) \in Nat /\ Len(r.todo) >= 1 BY <1>1, RestParts
  <1>5. PICK w \in RequestStates : w = Rest(p) /\ RestOf(r, w) BY <1>1, RestParts
  <1>6. 1 \in 1..Len(r.todo) BY <1>4
  <1>7. OrderlyStatement(r, 1) BY <1>3, <1>6 DEF OrderlyTodo
  <1>8. Statement(p) \in Statements /\ Sound(Statement(p)) /\ Statement(p) = Head(r.todo)
    BY <1>1, CurrentStatement
  <1>9. r.todo \in Seq(Statements) /\ r.todo # <<>> BY <1>1 DEF RequestStates, Trusted
  <1>10. Head(r.todo) = r.todo[1] BY <1>9
  <1> QED BY <1>1, <1>2, <1>3, <1>4, <1>5, <1>7, <1>8, <1>10

LEMMA PatchedStatus ==
  ASSUME NEW row \in Runs, NEW patch \in RunPatches
  PROVE  Patched(row, patch).status = patch.status /\ patch.status # "none"
PROOF BY DEF Patched, Runs, RunPatches

LEMMA StoreRunAlone ==
  ASSUME TypeOK, ApprovalInv, AloneInv, Alone, NEW p \in Requests, StoreRun(p)
  PROVE  \E state \in RequestStates : ActsAlone(p, state)
PROOF
  <1>1. PICK r \in RequestStates, w \in RequestStates, s \in Statements :
          /\ r = req[p] /\ w = Rest(p) /\ s = Statement(p)
          /\ Lone(p) /\ Orderly(r) /\ OrderlyTodo(r) /\ OrderlyStatement(r, 1)
          /\ RestOf(r, w) /\ s = r.todo[1]
          /\ Len(r.todo) \in Nat /\ Len(r.todo) >= 1
    BY Sending DEF StoreRun, At
  <1>2. s.kind = "run" /\ s.patch \in RunPatches BY <1>1 DEF StoreRun, Statements
  <1>3. run'.status = s.patch.status BY <1>1, <1>2, PatchedStatus DEF StoreRun, TypeOK
  <1>4. UNCHANGED <<tool, made, answered, wrong>> /\ Go(p, w) BY <1>1 DEF StoreRun
  <1>5. Made' = Made /\ Unfinished' = Unfinished BY <1>4 DEF Made, Unfinished
  <1>6. s.patch.status \in Over => Unfinished = {} BY <1>1, <1>2 DEF OrderlyStatement
  <1>7. InOrder' BY <1>1, <1>3, <1>4, <1>5, <1>6 DEF InOrder, Lone, Over
  <1>8. r.then # "idle" => r.then = "ask" /\ s.patch.status = "running" /\ Len(r.todo) = 1
    BY <1>1, <1>2 DEF OrderlyStatement
  <1>9. r.then = "ask" => Unfinished = {} BY <1>1, <1>2 DEF OrderlyTodo
  <1>10. Orderly(w)'
    <2>1. CASE w = Idle BY <2>1, IdleTrusted DEF Orderly, Idle
    <2>2. CASE r.then # "idle" /\ w.pc = r.then
      BY <1>3, <1>5, <1>8, <1>9, <2>2 DEF Orderly, Over
    <2>3. CASE /\ r.then = "idle" /\ w.pc = "write" /\ w.then = r.then
               /\ \A i \in 1..Len(w.todo) : i + 1 \in 1..Len(r.todo) /\ w.todo[i] = r.todo[i + 1]
      <3>1. ASSUME NEW i \in 1..Len(w.todo) PROVE OrderlyStatement(w, i)'
        <4>1. OrderlyStatement(r, i + 1) /\ w.todo[i] = r.todo[i + 1]
          BY <1>1, <2>3 DEF OrderlyTodo
        <4> QED BY <1>5, <2>3, <4>1 DEF OrderlyStatement
      <3> QED BY <2>3, <3>1 DEF Orderly, OrderlyTodo
    <2> QED BY <1>1, <1>8, <2>1, <2>2, <2>3 DEF RestOf
  <1> QED BY <1>1, <1>4, <1>7, <1>10 DEF ActsAlone, Lone

LEMMA DroppedAlone ==
  ASSUME TypeOK, ApprovalInv, AloneInv, Alone, NEW p \in Requests, Dropped(p)
  PROVE  \E state \in RequestStates : ActsAlone(p, state)
PROOF
  <1>1. PICK r \in RequestStates, w \in RequestStates, s \in Statements :
          /\ r = req[p] /\ w = Rest(p) /\ s = Statement(p)
          /\ Lone(p) /\ OrderlyTodo(r) /\ OrderlyStatement(r, 1)
          /\ RestOf(r, w) /\ s = r.todo[1]
    BY Sending DEF Dropped, At
  <1>2. s.best BY <1>1 DEF Dropped
  <1>3. r.then = "idle" BY <1>1, <1>2 DEF OrderlyStatement
  <1>4. UNCHANGED <<run, tool, made, answered, wrong>> /\ Go(p, w) BY <1>1 DEF Dropped
  <1>5. Orderly(w)
    <2>1. CASE w = Idle BY <2>1, IdleOrderly
    <2>2. CASE /\ w.pc = "write" /\ w.then = r.then
               /\ \A i \in 1..Len(w.todo) : i + 1 \in 1..Len(r.todo) /\ w.todo[i] = r.todo[i + 1]
      <3>1. ASSUME NEW i \in 1..Len(w.todo) PROVE OrderlyStatement(w, i)
        <4>1. OrderlyStatement(r, i + 1) /\ w.todo[i] = r.todo[i + 1]
          BY <1>1, <2>2 DEF OrderlyTodo
        <4> QED BY <1>3, <2>2, <4>1 DEF OrderlyStatement
      <3> QED BY <1>3, <2>2, <3>1 DEF Orderly, OrderlyTodo
    <2> QED BY <1>1, <1>3, <2>1, <2>2 DEF RestOf
  <1> QED BY <1>1, <1>4, <1>5, QuietAlone

LEMMA ReadToolAlone ==
  ASSUME TypeOK, ApprovalInv, AloneInv, Alone, NEW p \in Requests, ReadTool(p)
  PROVE  \E state \in RequestStates : ActsAlone(p, state)
PROOF
  <1>1. PICK r \in RequestStates, w \in RequestStates, s \in Statements :
          /\ r = req[p] /\ s = Statement(p)
          /\ Lone(p) /\ OrderlyTodo(r) /\ s = Head(r.todo) /\ Sound(s)
    BY Sending DEF ReadTool, At
  <1>2. s.kind = "tool" /\ s.patch \in ToolPatches /\ s.tool \in Made
    BY <1>1 DEF ReadTool, Statements, Sound
  <1>3. PICK row \in Rows : row = Patched(tool[s.tool], s.patch) /\ row.status = s.patch.status
    BY <1>2, MadeType, PatchedRow
  <1> DEFINE new == [r EXCEPT !.pc = "store", !.row = row]
  <1>4. new \in RequestStates BY <1>1, <1>3 DEF RequestStates
  <1>5. PICK state \in RequestStates : state = new BY <1>4
  <1>6. state.pc = "store" /\ state.row = row /\ state.todo = r.todo /\ state.then = r.then
        /\ state.tool = r.tool
    BY <1>5 DEF RequestStates
  <1>7. Go(p, state) /\ UNCHANGED <<run, tool, made, answered, wrong>>
    BY <1>1, <1>3, <1>5 DEF ReadTool
  <1>8. OrderlyTodo(state) BY <1>1, <1>6 DEF OrderlyTodo, OrderlyStatement
  <1>9. state.row.status = Head(state.todo).patch.status BY <1>1, <1>3, <1>6
  <1>10. Orderly(state) BY <1>6, <1>8, <1>9 DEF Orderly
  <1> QED BY <1>1, <1>7, <1>10, QuietAlone

LEMMA StoreToolAlone ==
  ASSUME TypeOK, ApprovalInv, AloneInv, Alone, NEW p \in Requests, StoreTool(p)
  PROVE  \E state \in RequestStates : ActsAlone(p, state)
PROOF
  <1>1. PICK r \in RequestStates, w \in RequestStates, s \in Statements :
          /\ r = req[p] /\ w = Rest(p) /\ s = Statement(p)
          /\ Lone(p) /\ Trusted(r) /\ Orderly(r) /\ OrderlyTodo(r) /\ OrderlyStatement(r, 1)
          /\ RestOf(r, w) /\ s = r.todo[1] /\ s = Head(r.todo) /\ Sound(s)
          /\ Len(r.todo) \in Nat /\ Len(r.todo) >= 1
    BY Sending DEF StoreTool, At
  <1>2. r.pc = "store" BY <1>1 DEF StoreTool, At
  <1>3. s.kind = "tool" BY <1>1, <1>2 DEF Trusted
  <1>4. PICK t \in Made : t = s.tool BY <1>1, <1>3 DEF Sound
  <1>5. r.row.status = s.patch.status BY <1>1, <1>2 DEF Orderly
  <1>6. /\ Unfinished = {t}
        /\ s.patch.status = "completed" <=> r.then \in {"ask", "call"}
        /\ s.patch.status = "completed" => t \in answered
    BY <1>1, <1>3, <1>4 DEF OrderlyStatement
  <1>7. /\ tool' = [tool EXCEPT ![t] = r.row] /\ Go(p, w)
        /\ UNCHANGED <<run, made, answered, wrong>>
    BY <1>1, <1>4 DEF StoreTool
  <1>8. Made' = Made /\ Made \subseteq ToolRuns BY <1>7, MadeType DEF Made
  <1>9. tool'[t] = r.row /\ \A u \in Made : u # t => tool'[u] = tool[u]
    BY <1>7, <1>8 DEF TypeOK
  <1>10. s.patch.status = "completed" => Unfinished' = {}
    BY <1>5, <1>6, <1>8, <1>9 DEF Unfinished
  <1>11. s.patch.status # "completed" => Unfinished' = {t}
    BY <1>5, <1>6, <1>8, <1>9 DEF Unfinished
  <1>12. run.status \notin Over BY <1>1, <1>6 DEF Lone, InOrder
  <1>13. InOrder'
    <2>1. \A u, v \in Unfinished' : u = v BY <1>10, <1>11
    <2>2. \A u \in Made' : tool'[u].status = "completed" => u \in answered'
      BY <1>1, <1>5, <1>6, <1>7, <1>8, <1>9 DEF Lone, InOrder
    <2> QED BY <1>7, <1>12, <2>1, <2>2 DEF InOrder
  <1>14. Orderly(w)'
    <2>1. CASE w = Idle BY <2>1, IdleTrusted DEF Orderly, Idle
    <2>2. CASE Len(r.todo) = 1 /\ r.then # "idle" /\ w.pc = r.then /\ w.tool = r.tool
      <3>1. r.then # "ask" BY <1>1, <1>3, <2>2 DEF OrderlyTodo
      <3>2. r.then = "call" => Unfinished' = {} /\ run'.status \notin Over
        BY <1>6, <1>7, <1>10, <1>12
      <3>3. r.then = "load" => Unfinished' = {r.tool}
        BY <1>1, <1>6, <1>11 DEF OrderlyTodo
      <3>4. r.then \in {"call", "load"} BY <1>1, <2>2, <3>1 DEF RequestStates
      <3> QED BY <2>2, <3>2, <3>3, <3>4 DEF Orderly
    <2>3. CASE /\ Len(r.todo) > 1 /\ w.pc = "write" /\ w.then = r.then
               /\ Len(w.todo) = Len(r.todo) - 1
               /\ \A i \in 1..Len(w.todo) : i + 1 \in 1..Len(r.todo) /\ w.todo[i] = r.todo[i + 1]
      <3>1. ASSUME NEW i \in 1..Len(w.todo) PROVE OrderlyStatement(w, i)'
        <4>1. OrderlyStatement(r, i + 1) /\ w.todo[i] = r.todo[i + 1]
          BY <1>1, <2>3 DEF OrderlyTodo
        <4>2. i + 1 # 1 /\ (i + 1 = Len(r.todo) => i = Len(w.todo)) BY <1>1, <2>3
        <4>3. w.todo[i].kind = "tool" =>
                w.todo[i].patch.status # "completed" /\ w.todo[i].tool = t
                /\ r.then \notin {"ask", "call"}
          BY <1>6, <4>1, <4>2 DEF OrderlyStatement
        <4>4. w.todo[i].kind = "tool" => Unfinished' = {w.todo[i].tool} BY <1>6, <1>11, <4>3
        <4>5. w.todo[i].kind = "run" =>
                /\ w.todo[i].patch.status \notin Over
                /\ r.then # "idle" =>
                     r.then = "ask" /\ w.todo[i].patch.status = "running" /\ i = Len(w.todo)
          BY <1>6, <4>1, <4>2 DEF OrderlyStatement
        <4>6. r.then # "idle" => ~w.todo[i].best BY <4>1 DEF OrderlyStatement
        <4> QED BY <2>3, <4>3, <4>4, <4>5, <4>6 DEF OrderlyStatement
      <3>2. r.then # "load" BY <1>1, <2>3 DEF OrderlyTodo
      <3>3. r.then = "ask" =>
              /\ w.todo[Len(w.todo)].kind = "run"
              /\ Unfinished' = {}
        <4>1. Len(w.todo) \in 1..Len(w.todo) /\ Len(w.todo) + 1 = Len(r.todo) BY <1>1, <2>3
        <4>2. w.todo[Len(w.todo)] = r.todo[Len(r.todo)] BY <2>3, <4>1
        <4> QED BY <1>1, <1>6, <1>10, <4>2 DEF OrderlyTodo
      <3>4. OrderlyTodo(w)' BY <1>7, <1>12, <2>3, <3>1, <3>2, <3>3 DEF OrderlyTodo
      <3> QED BY <2>3, <3>4 DEF Orderly
    <2> QED BY <1>1, <2>1, <2>2, <2>3 DEF RestOf
  <1> QED BY <1>1, <1>7, <1>13, <1>14 DEF ActsAlone, Lone

LEMMA FaultAlone ==
  ASSUME TypeOK, ApprovalInv, AloneInv, Alone, NEW p \in Requests, Fault(p) \/ RecordFails(p)
  PROVE  \E state \in RequestStates : ActsAlone(p, state)
PROOF
  <1>1. req[p].pc # "idle" /\ UNCHANGED <<run, tool, made, answered, wrong>>
    BY DEF Fault, RecordFails, Busy, At
  <1>2. Lone(p) BY <1>1, LoneRequest
  <1>3. Go(p, Idle) \/ Go(p, Stop(p, "failed", req[p].at)) BY DEF Fault, RecordFails
  <1>4. req[p].at \in Nat BY InHand DEF RequestStates
  <1>5. Stop(p, "failed", req[p].at) \in RequestStates /\ Orderly(Stop(p, "failed", req[p].at))
    BY <1>4, StopOrderly DEF RunStatuses, Over
  <1> QED BY <1>1, <1>2, <1>3, <1>5, IdleTrusted, IdleOrderly, QuietAlone

-----------------------------------------------------------------------------
(* Their loop                                                               *)

LEMMA StartAlone ==
  ASSUME TypeOK, ApprovalInv, AloneInv, Alone, NEW p \in Requests, Start(p)
  PROVE  \E state \in RequestStates : ActsAlone(p, state)
PROOF
  <1>1. made = 0 /\ Busy = {} BY DEF AloneInv, Start
  <1>2. Lone(p) BY <1>1, LoneBeginner
  <1>3. [Idle EXCEPT !.pc = "ask"] \in RequestStates BY IdleTrusted DEF RequestStates
  <1>4. PICK state \in RequestStates : state = [Idle EXCEPT !.pc = "ask"] BY <1>3
  <1>5. state.pc = "ask" BY <1>4, IdleTrusted DEF RequestStates
  <1>6. /\ Go(p, state) /\ run'.status = "running"
        /\ UNCHANGED <<tool, made, answered, wrong>>
    BY <1>4 DEF Start
  <1>7. Made' = {} /\ Unfinished' = {} BY <1>1, <1>6 DEF Made, Unfinished
  <1>8. InOrder' BY <1>7 DEF InOrder
  <1>9. Orderly(state)' BY <1>5, <1>6, <1>7 DEF Orderly, Over
  <1> QED BY <1>2, <1>6, <1>8, <1>9 DEF ActsAlone, Lone

LEMMA NotAskedAlone ==
  ASSUME TypeOK, ApprovalInv, AloneInv, Alone, NEW p \in Requests, NotAsked(p)
  PROVE  \E state \in RequestStates : ActsAlone(p, state)
PROOF
  <1>1. req[p].pc # "idle" /\ UNCHANGED <<run, tool, made, answered, wrong>>
    BY DEF NotAsked, At
  <1>2. Lone(p) BY <1>1, LoneRequest
  <1>3. req[p].iter \in Nat BY InHand DEF RequestStates
  <1>4. PICK status \in {"max_iterations_reached", "failed"} : Go(p, Stop(p, status, req[p].iter))
    BY DEF NotAsked
  <1>5. /\ Stop(p, status, req[p].iter) \in RequestStates
        /\ Orderly(Stop(p, status, req[p].iter))
    BY <1>3, StopOrderly DEF RunStatuses, Over
  <1> QED BY <1>1, <1>2, <1>4, <1>5, QuietAlone

LEMMA AskAlone ==
  ASSUME TypeOK, ApprovalInv, AloneInv, Alone, NEW p \in Requests, Ask(p)
  PROVE  \E state \in RequestStates : ActsAlone(p, state)
PROOF
  <1>1. PICK r \in RequestStates : r = req[p] /\ r.pc = "ask" BY InHand DEF Ask, At
  <1>2. Lone(p) /\ Orderly(r) BY <1>1, LoneRequest
  <1>3. Unfinished = {} /\ run.status \notin Over BY <1>1, <1>2 DEF Orderly
  <1>4. Made \subseteq answered BY <1>2, <1>3 DEF Lone, InOrder, Unfinished
  <1>5. UNCHANGED <<run, tool, made, answered, wrong>> BY <1>4 DEF Ask
  <1>6. PICK next \in Nat : next = r.iter + 1 BY DEF RequestStates
  <1>7. CASE \E end \in {"failed", "token_budget_exceeded"} : Go(p, Stop(p, end, next))
    <2>1. PICK end \in {"failed", "token_budget_exceeded"} : Go(p, Stop(p, end, next)) BY <1>7
    <2>2. Stop(p, end, next) \in RequestStates /\ Orderly(Stop(p, end, next))
      BY <1>3, StopOrderly DEF RunStatuses
    <2> QED BY <1>2, <1>5, <2>1, <2>2, QuietAlone
  <1>8. CASE Go(p, Write(Idle, <<SetRun([status |-> "completed", iterations |-> next])>>, "idle"))
    <2> DEFINE patch == [status |-> "completed", iterations |-> next]
    <2>1. patch \in RunPatches BY DEF RunPatches, RunStatuses
    <2> HIDE DEF patch
    <2>2. PICK a \in Statements : a = SetRun(patch) /\ a.kind = "run" BY <2>1, RunParts
    <2>3. PICK w \in RequestStates :
            /\ w = Write(Idle, <<a>>, "idle") /\ w.pc = "write" /\ w.then = "idle"
            /\ Len(w.todo) = 1 /\ w.todo[1] = a /\ \A i \in 1..Len(w.todo) : i = 1
      BY <2>2, IdleTrusted, SomeThens, SendsOne, SMTT(30)
    <2>4. \A i \in 1..Len(w.todo) : OrderlyStatement(w, i)
      BY <1>3, <2>2, <2>3 DEF OrderlyStatement
    <2>5. Orderly(w) BY <2>3, <2>4 DEF Orderly, OrderlyTodo
    <2>6. Go(p, w) BY <1>8, <2>2, <2>3 DEF patch
    <2> QED BY <1>2, <1>5, <2>5, <2>6, QuietAlone
  <1>9. CASE \E calls \in Replies : Go(p, [r EXCEPT !.pc = "call", !.calls = calls, !.at = next])
    <2>1. PICK calls \in Replies : Go(p, [r EXCEPT !.pc = "call", !.calls = calls, !.at = next])
      BY <1>9
    <2> DEFINE new == [r EXCEPT !.pc = "call", !.calls = calls, !.at = next]
    <2>2. calls \in Seq(Classes) BY RepliesAssumption
    <2>3. new \in RequestStates /\ new.pc = "call" BY <1>1, <1>6, <2>2 DEF RequestStates
    <2>4. Go(p, new) BY <2>1
    <2> HIDE DEF new
    <2>5. Orderly(new) BY <1>3, <2>3 DEF Orderly
    <2> QED BY <1>2, <1>5, <2>3, <2>4, <2>5, QuietAlone
  <1> QED BY <1>1, <1>6, <1>7, <1>8, <1>9 DEF Ask

LEMMA NextIterationAlone ==
  ASSUME TypeOK, ApprovalInv, AloneInv, Alone, NEW p \in Requests, NextIteration(p)
  PROVE  \E state \in RequestStates : ActsAlone(p, state)
PROOF
  <1>1. req[p].pc = "call" /\ UNCHANGED <<run, tool, made, answered, wrong>>
    BY DEF NextIteration, At
  <1>2. Lone(p) /\ Orderly(req[p]) BY <1>1, LoneRequest
  <1>3. Unfinished = {} /\ run.status \notin Over BY <1>1, <1>2 DEF Orderly
  <1> DEFINE new == [Idle EXCEPT !.pc = "ask", !.iter = req[p].at]
  <1>4. req[p].at \in Nat BY InHand DEF RequestStates
  <1>5. new \in RequestStates /\ new.pc = "ask" BY <1>4, IdleTrusted DEF RequestStates
  <1>6. Go(p, new) BY DEF NextIteration
  <1> HIDE DEF new
  <1>7. Orderly(new) BY <1>3, <1>5 DEF Orderly
  <1> QED BY <1>1, <1>2, <1>5, <1>6, <1>7, QuietAlone

LEMMA CallAlone ==
  ASSUME TypeOK, ApprovalInv, AloneInv, Alone, NEW p \in Requests, Call(p)
  PROVE  \E state \in RequestStates : ActsAlone(p, state)
PROOF
  <1>1. PICK r \in RequestStates : r = req[p] /\ r.pc = "call" BY InHand DEF Call, At
  <1>2. Lone(p) /\ Orderly(r) BY <1>1, LoneRequest
  <1>3. Unfinished = {} /\ run.status \notin Over BY <1>1, <1>2 DEF Orderly
  <1> DEFINE class == Head(r.calls)  waits == RequiresApproval(class)
             row == [status |-> IF waits THEN "pending_approval" ELSE "running",
                     approval |-> IF waits THEN "pending" ELSE "not_required", class |-> class]
  <1>4. row.status # "completed" OBVIOUS
  <1>5. /\ made < MaxTools /\ made' = made + 1
        /\ tool' = [tool EXCEPT ![made + 1] = row]
        /\ UNCHANGED <<run, answered, wrong>>
    BY <1>1 DEF Call
  <1> HIDE DEF row
  <1>6. made \in Nat /\ made + 1 \in ToolRuns /\ Made' = Made \cup {made + 1}
        /\ made + 1 \notin Made /\ Made \subseteq ToolRuns
    BY <1>5, BoundsAssumption DEF TypeOK, ToolRuns, Made
  <1>7. tool'[made + 1] = row /\ \A t \in Made : tool'[t] = tool[t] BY <1>5, <1>6 DEF TypeOK
  <1>8. Unfinished' = {made + 1} BY <1>3, <1>4, <1>6, <1>7 DEF Unfinished
  <1>9. InOrder'
    <2>1. \A t, u \in Unfinished' : t = u BY <1>8
    <2>2. \A t \in Made' : tool'[t].status = "completed" => t \in answered'
      BY <1>2, <1>4, <1>5, <1>6, <1>7 DEF Lone, InOrder
    <2> QED BY <1>3, <1>5, <2>1, <2>2 DEF InOrder
  <1>10. CASE waits
    <2>1. r.at \in Nat BY DEF RequestStates
    <2> DEFINE patch == WaitingPatch(r.at)
    <2>2. patch \in RunPatches /\ patch.status = "pending_approval"
      BY <2>1 DEF WaitingPatch, RunPatches, RunStatuses
    <2> HIDE DEF patch
    <2>3. PICK a \in Statements : a = Best(SetRun(patch)) /\ a.kind = "run" /\ a.patch = patch
      BY <2>2, RunParts
    <2>4. PICK w \in RequestStates :
            /\ w = Write(Idle, <<a>>, "idle") /\ w.pc = "write" /\ w.then = "idle"
            /\ Len(w.todo) = 1 /\ w.todo[1] = a /\ \A i \in 1..Len(w.todo) : i = 1
      BY <2>3, IdleTrusted, SomeThens, SendsOne, SMTT(30)
    <2>5. Go(p, w) BY <1>1, <1>10, <2>3, <2>4 DEF Call, patch
    <2>6. \A i \in 1..Len(w.todo) : OrderlyStatement(w, i)'
      BY <2>2, <2>3, <2>4 DEF OrderlyStatement, Over
    <2>7. Orderly(w)' BY <2>4, <2>6 DEF Orderly, OrderlyTodo
    <2> QED BY <1>2, <1>5, <1>9, <2>5, <2>7 DEF ActsAlone, Lone
  <1>11. CASE ~waits
    <2> DEFINE new == [r EXCEPT !.pc = "execute", !.calls = Tail(@), !.tool = made + 1, !.then = "call"]
    <2>1. r.calls \in Seq(Classes) /\ r.calls # <<>> BY <1>1 DEF RequestStates, Call
    <2>2. Tail(r.calls) \in Seq(Classes) BY <2>1
    <2>3. new \in RequestStates BY <1>6, <2>2 DEF RequestStates
    <2>4. PICK state \in RequestStates :
            state = new /\ state.pc = "execute" /\ state.tool = made + 1 /\ state.then = "call"
      BY <2>3 DEF RequestStates
    <2>5. Go(p, state) BY <1>1, <1>11, <2>4 DEF Call
    <2>6. Orderly(state)' BY <1>8, <2>4 DEF Orderly
    <2> QED BY <1>2, <1>5, <1>9, <2>5, <2>6 DEF ActsAlone, Lone
  <1> QED BY <1>10, <1>11

LEMMA ExecuteAlone ==
  ASSUME TypeOK, ApprovalInv, AloneInv, Alone, NEW p \in Requests, Execute(p)
  PROVE  \E state \in RequestStates : ActsAlone(p, state)
PROOF
  <1>1. PICK r \in RequestStates : r = req[p] /\ r.pc = "execute" /\ Trusted(r)
    BY InHand DEF Execute, At
  <1>2. Lone(p) /\ Orderly(r) BY <1>1, LoneRequest
  <1>3. PICK t \in Made : t = r.tool /\ Cleared(t) BY <1>1 DEF Trusted, Cleared
  <1>4. Unfinished = {t} /\ r.then \in {"ask", "call"} BY <1>1, <1>2, <1>3 DEF Orderly
  <1>5. run.status \notin Over BY <1>2, <1>4 DEF Lone, InOrder
  <1>6. UNCHANGED <<run, tool, made, wrong>> BY <1>1, <1>3 DEF Execute, Cleared
  <1>7. Made' = Made /\ Unfinished' = Unfinished BY <1>6 DEF Made, Unfinished
  <1>8. t \in ToolRuns /\ r.at \in Nat BY MadeType DEF RequestStates
  <1> DEFINE done == SetTool(t, [status |-> "completed"])
             failed == Best(SetTool(t, [status |-> "failed"]))
             resume == SetRun([status |-> "running"])
             over == Best(SetRun([status |-> "failed", iterations |-> r.at]))
  <1>9. \/ /\ answered' = answered \cup {t}
           /\ \/ r.then = "call" /\ Go(p, Write(r, <<done>>, "call"))
              \/ r.then = "ask" /\ Go(p, Write(r, <<done>> \o <<resume>>, "ask"))
        \/ answered' = answered /\ Go(p, Write(Idle, <<failed, over>>, "idle"))
    BY <1>1, <1>3, <1>4 DEF Execute, AfterFailure
  <1>10. /\ done \in Statements /\ done.kind = "tool" /\ done.tool = t
         /\ done.patch.status = "completed" /\ ~done.best
    BY <1>8, StatusPatch, ToolParts DEF ToolStatuses
  <1>11. /\ failed \in Statements /\ failed.kind = "tool" /\ failed.tool = t
         /\ failed.patch.status = "failed"
    BY <1>8, StatusPatch, ToolParts DEF ToolStatuses
  <1>12. /\ resume \in Statements /\ resume.kind = "run"
         /\ resume.patch.status = "running" /\ ~resume.best
    <2>1. [status |-> "running"] \in RunPatches BY DEF RunPatches, RunStatuses
    <2> QED BY <2>1, RunParts
  <1>13. /\ over \in Statements /\ over.kind = "run" /\ over.patch.status = "failed"
    <2>1. [status |-> "failed", iterations |-> r.at] \in RunPatches
      BY <1>8 DEF RunPatches, RunStatuses
    <2> QED BY <2>1, RunParts
  <1> HIDE DEF done, failed, resume, over
  <1>14. InOrder' BY <1>2, <1>6, <1>7, <1>9 DEF Lone, InOrder
  <1>15. CASE answered' = answered \cup {t} /\ r.then = "call" /\ Go(p, Write(r, <<done>>, "call"))
    <2>1. PICK w \in RequestStates :
            /\ w = Write(r, <<done>>, "call") /\ w.pc = "write" /\ w.then = "call"
            /\ Len(w.todo) = 1 /\ w.todo[1] = done /\ \A i \in 1..Len(w.todo) : i = 1
      BY <1>10, SomeThens, SendsOne
    <2>2. \A i \in 1..Len(w.todo) : OrderlyStatement(w, i)'
      BY <1>4, <1>7, <1>10, <1>15, <2>1 DEF OrderlyStatement
    <2>3. Orderly(w)' BY <1>5, <1>6, <2>1, <2>2 DEF Orderly, OrderlyTodo
    <2>4. Go(p, w) BY <1>15, <2>1
    <2> QED BY <1>2, <1>6, <1>14, <2>3, <2>4 DEF ActsAlone, Lone
  <1>16. CASE /\ answered' = answered \cup {t} /\ r.then = "ask"
              /\ Go(p, Write(r, <<done>> \o <<resume>>, "ask"))
    <2>1. PICK w \in RequestStates :
            /\ w = Write(r, <<done, resume>>, "ask") /\ w.pc = "write" /\ w.then = "ask"
            /\ Len(w.todo) = 2 /\ w.todo[1] = done /\ w.todo[2] = resume
            /\ \A i \in 1..Len(w.todo) : i \in {1, 2}
      BY <1>10, <1>12, SomeThens, SendsTwo
    <2>2. OrderlyStatement(w, 1)' BY <1>4, <1>7, <1>10, <1>16, <2>1 DEF OrderlyStatement
    <2>3. OrderlyStatement(w, 2)' BY <1>12, <2>1 DEF OrderlyStatement, Over
    <2>4. \A i \in 1..Len(w.todo) : OrderlyStatement(w, i)' BY <2>1, <2>2, <2>3
    <2>5. Orderly(w)' BY <1>10, <1>12, <2>1, <2>4 DEF Orderly, OrderlyTodo
    <2>6. <<done>> \o <<resume>> = <<done, resume>> BY <1>10, <1>12, Pair
    <2>7. Go(p, w) BY <1>16, <2>1, <2>6
    <2> QED BY <1>2, <1>6, <1>14, <2>5, <2>7 DEF ActsAlone, Lone
  <1>17. CASE answered' = answered /\ Go(p, Write(Idle, <<failed, over>>, "idle"))
    <2>1. PICK w \in RequestStates :
            /\ w = Write(Idle, <<failed, over>>, "idle") /\ w.pc = "write" /\ w.then = "idle"
            /\ Len(w.todo) = 2 /\ w.todo[1] = failed /\ w.todo[2] = over
            /\ \A i \in 1..Len(w.todo) : i \in {1, 2}
      BY <1>11, <1>13, IdleTrusted, SomeThens, SendsTwo
    <2>2. OrderlyStatement(w, 1)' BY <1>4, <1>7, <1>11, <2>1 DEF OrderlyStatement
    <2>3. OrderlyStatement(w, 2)' BY <1>13, <2>1 DEF OrderlyStatement, Over
    <2>4. \A i \in 1..Len(w.todo) : OrderlyStatement(w, i)' BY <2>1, <2>2, <2>3
    <2>5. Orderly(w)' BY <2>1, <2>4 DEF Orderly, OrderlyTodo
    <2>6. Go(p, w) BY <1>17, <2>1
    <2> QED BY <1>2, <1>6, <1>14, <2>5, <2>6 DEF ActsAlone, Lone
  <1> QED BY <1>9, <1>15, <1>16, <1>17

LEMMA LoadAlone ==
  ASSUME TypeOK, ApprovalInv, AloneInv, Alone, NEW p \in Requests, Load(p)
  PROVE  \E state \in RequestStates : ActsAlone(p, state)
PROOF
  <1>1. PICK r \in RequestStates : r = req[p] /\ r.pc = "load" BY InHand DEF Load, At
  <1>2. Lone(p) /\ Orderly(r) BY <1>1, LoneRequest
  <1> DEFINE new == [r EXCEPT !.pc = "execute", !.iter = run.iterations, !.at = run.iterations,
                              !.then = "ask"]
  <1>3. run.iterations \in Nat BY DEF TypeOK, Runs
  <1>4. new \in RequestStates /\ new.pc = "execute" /\ new.tool = r.tool /\ new.then = "ask"
    BY <1>3 DEF RequestStates
  <1>5. Go(p, new) /\ UNCHANGED <<run, tool, made, answered, wrong>> BY <1>1 DEF Load
  <1> HIDE DEF new
  <1>6. Orderly(new) BY <1>1, <1>2, <1>4 DEF Orderly
  <1> QED BY <1>2, <1>4, <1>5, <1>6, QuietAlone

-----------------------------------------------------------------------------
(* Their decisions                                                          *)

LEMMA BeginsAlone ==
  ASSUME TypeOK, AloneInv, Alone, Alone', NEW p \in Requests,
         \/ ApproveToolRun(p) \/ RejectToolRun(p) \/ RetryToolRun(p)
         \/ ContinueRunWithTokenBudget(p)
  PROVE  Lone(p) /\ UNCHANGED <<run, tool, made, answered, wrong>> /\ run.status # "none"
PROOF
  <1>1. /\ wrong' = wrong \cup IF Busy # {} THEN {"mixed"} ELSE {}
        /\ UNCHANGED <<run, tool, made, answered>> /\ run.status # "none"
    BY DEF ApproveToolRun, RejectToolRun, RetryToolRun, ContinueRunWithTokenBudget, Begin
  <1>2. Busy = {} BY <1>1 DEF Alone
  <1> QED BY <1>1, <1>2, LoneBeginner

\* A request that goes on with the one tool run that is not finished.
LEMMA ResumesAlone ==
  ASSUME NEW t \in ToolRuns, Unfinished = {t}, NEW approval \in Approvals
  PROVE  \E w \in RequestStates :
           /\ w = Write([Idle EXCEPT !.tool = t],
                        <<SetTool(t, [status |-> "running", approval |-> approval])>>, "load")
           /\ Orderly(w)
PROOF
  <1> DEFINE patch == [status |-> "running", approval |-> approval]
  <1>1. patch \in ToolPatches /\ patch.status = "running" BY BothPatch DEF ToolStatuses
  <1> HIDE DEF patch
  <1>2. PICK a \in Statements :
          /\ a = SetTool(t, patch) /\ a.kind = "tool" /\ a.tool = t
          /\ a.patch = patch /\ ~a.best
    BY <1>1, ToolParts
  <1>3. PICK base \in RequestStates : base = [Idle EXCEPT !.tool = t] /\ base.tool = t BY ForTool
  <1>4. PICK w \in RequestStates :
          /\ w = Write(base, <<a>>, "load")
          /\ w.pc = "write" /\ w.then = "load" /\ w.tool = base.tool
          /\ Len(w.todo) = 1 /\ w.todo[1] = a /\ \A i \in 1..Len(w.todo) : i = 1
    <2>1. base \in RequestStates /\ a \in Statements BY <1>2, <1>3
    <2> QED BY <2>1, SomeThens, SendsOne
  <1>5. \A i \in 1..Len(w.todo) : OrderlyStatement(w, i)
    BY <1>1, <1>2, <1>4 DEF OrderlyStatement
  <1>6. Orderly(w) BY <1>3, <1>4, <1>5 DEF Orderly, OrderlyTodo
  <1>7. w = Write([Idle EXCEPT !.tool = t], <<SetTool(t, patch)>>, "load") BY <1>2, <1>3, <1>4
  <1> QED BY <1>6, <1>7 DEF patch

LEMMA ApproveAlone ==
  ASSUME TypeOK, ApprovalInv, AloneInv, Alone, Alone', NEW p \in Requests, ApproveToolRun(p)
  PROVE  \E state \in RequestStates : ActsAlone(p, state)
PROOF
  <1>1. Lone(p) /\ UNCHANGED <<run, tool, made, answered, wrong>> BY BeginsAlone
  <1>2. PICK t \in Made :
          /\ tool[t].status = "pending_approval"
          /\ Go(p, Write([Idle EXCEPT !.tool = t],
                         <<SetTool(t, [status |-> "running", approval |-> "approved"])>>, "load"))
    BY DEF ApproveToolRun, Begin
  <1>3. Unfinished = {t} /\ t \in ToolRuns BY <1>1, <1>2, MadeType DEF Lone, InOrder, Unfinished
  <1>4. PICK w \in RequestStates :
          /\ w = Write([Idle EXCEPT !.tool = t],
                       <<SetTool(t, [status |-> "running", approval |-> "approved"])>>, "load")
          /\ Orderly(w)
    BY <1>3, ResumesAlone DEF Approvals
  <1>5. Go(p, w) BY <1>2, <1>4
  <1> QED BY <1>1, <1>4, <1>5, QuietAlone

LEMMA RejectAlone ==
  ASSUME TypeOK, ApprovalInv, AloneInv, Alone, Alone', NEW p \in Requests, RejectToolRun(p)
  PROVE  \E state \in RequestStates : ActsAlone(p, state)
PROOF
  <1>1. Lone(p) /\ UNCHANGED <<run, tool, made, answered, wrong>> BY BeginsAlone
  <1>2. PICK t \in Made :
          /\ tool[t].status = "pending_approval"
          /\ Go(p, Write(Idle, <<SetTool(t, [status |-> "rejected", approval |-> "rejected"]),
                                 Best(SetRun([status |-> "failed"]))>>, "idle"))
    BY DEF RejectToolRun, Begin
  <1>3. Unfinished = {t} /\ t \in ToolRuns BY <1>1, <1>2, MadeType DEF Lone, InOrder, Unfinished
  <1> DEFINE a == SetTool(t, [status |-> "rejected", approval |-> "rejected"])
             b == Best(SetRun([status |-> "failed"]))
  <1>4. a \in Statements /\ a.kind = "tool" /\ a.tool = t /\ a.patch.status = "rejected"
    BY <1>3, BothPatch, ToolParts DEF ToolStatuses, Approvals
  <1>5. b \in Statements /\ b.kind = "run" /\ b.patch.status = "failed"
    <2>1. [status |-> "failed"] \in RunPatches BY DEF RunPatches, RunStatuses
    <2> QED BY <2>1, RunParts
  <1> HIDE DEF a, b
  <1>6. PICK w \in RequestStates :
          /\ w = Write(Idle, <<a, b>>, "idle") /\ w.pc = "write" /\ w.then = "idle"
          /\ Len(w.todo) = 2 /\ w.todo[1] = a /\ w.todo[2] = b
          /\ \A i \in 1..Len(w.todo) : i \in {1, 2}
    BY <1>4, <1>5, IdleTrusted, SomeThens, SendsTwo
  <1>7. OrderlyStatement(w, 1) BY <1>3, <1>4, <1>6 DEF OrderlyStatement
  <1>8. OrderlyStatement(w, 2) BY <1>5, <1>6 DEF OrderlyStatement, Over
  <1>9. \A i \in 1..Len(w.todo) : OrderlyStatement(w, i) BY <1>6, <1>7, <1>8
  <1>10. Orderly(w) BY <1>6, <1>9 DEF Orderly, OrderlyTodo
  <1>11. Go(p, w) BY <1>2, <1>6 DEF a, b
  <1> QED BY <1>1, <1>10, <1>11, QuietAlone

LEMMA RetryAlone ==
  ASSUME TypeOK, ApprovalInv, AloneInv, Alone, Alone', NEW p \in Requests, RetryToolRun(p)
  PROVE  \E state \in RequestStates : ActsAlone(p, state)
PROOF
  <1>1. Lone(p) /\ UNCHANGED <<run, tool, made, answered, wrong>> BY BeginsAlone
  <1> DEFINE decide(t) == SetTool(t, [status |-> "pending_approval", approval |-> "pending"])
             wait == SetRun([status |-> "pending_approval"])
  <1>2. PICK t \in Made :
          /\ tool[t].status = "failed"
          /\ \/ Go(p, Write(Idle, <<wait, decide(t)>>, "idle"))
             \/ Go(p, Write([Idle EXCEPT !.tool = t],
                            <<SetTool(t, [status |-> "running", approval |-> tool[t].approval])>>,
                            "load"))
    BY DEF RetryToolRun, Begin, MayRetry
  <1>3. Unfinished = {t} /\ t \in ToolRuns BY <1>1, <1>2, MadeType DEF Lone, InOrder, Unfinished
  <1>4. decide(t) \in Statements /\ decide(t).kind = "tool" /\ decide(t).tool = t
        /\ decide(t).patch.status = "pending_approval"
    BY <1>3, BothPatch, ToolParts DEF ToolStatuses, Approvals
  <1>5. wait \in Statements /\ wait.kind = "run" /\ wait.patch.status = "pending_approval"
    <2>1. [status |-> "pending_approval"] \in RunPatches BY DEF RunPatches, RunStatuses
    <2> QED BY <2>1, RunParts
  <1> HIDE DEF decide, wait
  <1>6. CASE Go(p, Write(Idle, <<wait, decide(t)>>, "idle"))
    <2>1. PICK w \in RequestStates :
            /\ w = Write(Idle, <<wait, decide(t)>>, "idle") /\ w.pc = "write" /\ w.then = "idle"
            /\ Len(w.todo) = 2 /\ w.todo[1] = wait /\ w.todo[2] = decide(t)
            /\ \A i \in 1..Len(w.todo) : i \in {1, 2}
      BY <1>4, <1>5, IdleTrusted, SomeThens, SendsTwo
    <2>2. OrderlyStatement(w, 1) BY <1>5, <2>1 DEF OrderlyStatement, Over
    <2>3. OrderlyStatement(w, 2) BY <1>3, <1>4, <2>1 DEF OrderlyStatement
    <2>4. \A i \in 1..Len(w.todo) : OrderlyStatement(w, i) BY <2>1, <2>2, <2>3
    <2>5. Orderly(w) BY <2>1, <2>4 DEF Orderly, OrderlyTodo
    <2>6. Go(p, w) BY <1>6, <2>1
    <2> QED BY <1>1, <2>5, <2>6, QuietAlone
  <1>7. CASE Go(p, Write([Idle EXCEPT !.tool = t],
                         <<SetTool(t, [status |-> "running", approval |-> tool[t].approval])>>,
                         "load"))
    <2>1. PICK approval \in Approvals : approval = tool[t].approval BY MadeType DEF Rows
    <2>2. PICK w \in RequestStates :
            /\ w = Write([Idle EXCEPT !.tool = t],
                         <<SetTool(t, [status |-> "running", approval |-> approval])>>, "load")
            /\ Orderly(w)
      BY <1>3, ResumesAlone
    <2>3. Go(p, w) BY <1>7, <2>1, <2>2
    <2> QED BY <1>1, <2>2, <2>3, QuietAlone
  <1> QED BY <1>2, <1>6, <1>7

LEMMA ContinueAlone ==
  ASSUME TypeOK, ApprovalInv, AloneInv, Alone, Alone', NEW p \in Requests,
         ContinueRunWithTokenBudget(p)
  PROVE  \E state \in RequestStates : ActsAlone(p, state)
PROOF
  <1>1. Lone(p) /\ UNCHANGED <<run, tool, made, answered, wrong>> BY BeginsAlone
  <1>2. Unfinished = {} BY <1>1 DEF ContinueRunWithTokenBudget, Lone, InOrder, Over
  <1> DEFINE new == [Idle EXCEPT !.iter = run.iterations]
             go == SetRun([status |-> "running"])
  <1>3. new \in RequestStates
    <2>1. run.iterations \in Nat BY DEF TypeOK, Runs
    <2> QED BY <2>1, IdleTrusted DEF RequestStates
  <1>4. go \in Statements /\ go.kind = "run" /\ go.patch.status = "running" /\ ~go.best
    <2>1. [status |-> "running"] \in RunPatches BY DEF RunPatches, RunStatuses
    <2> QED BY <2>1, RunParts
  <1>5. Go(p, Write(new, <<go>>, "ask")) BY DEF ContinueRunWithTokenBudget, Begin
  <1> HIDE DEF new, go
  <1>6. PICK w \in RequestStates :
          /\ w = Write(new, <<go>>, "ask") /\ w.pc = "write" /\ w.then = "ask"
          /\ Len(w.todo) = 1 /\ w.todo[1] = go /\ \A i \in 1..Len(w.todo) : i = 1
    BY <1>3, <1>4, SomeThens, SendsOne
  <1>7. \A i \in 1..Len(w.todo) : OrderlyStatement(w, i)
    BY <1>4, <1>6 DEF OrderlyStatement, Over
  <1>8. Orderly(w) BY <1>2, <1>4, <1>6, <1>7 DEF Orderly, OrderlyTodo
  <1>9. Go(p, w) BY <1>5, <1>6
  <1> QED BY <1>1, <1>8, <1>9, QuietAlone

-----------------------------------------------------------------------------
(* Every step of theirs                                                     *)

LEMMA StepAlone ==
  ASSUME TypeOK, ApprovalInv, AloneInv, [Next]_vars, ~UNCHANGED vars, Alone, Alone'
  PROVE  \E p \in Requests, state \in RequestStates : ActsAlone(p, state)
PROOF BY StartAlone, NotAskedAlone, AskAlone, CallAlone, NextIterationAlone, ExecuteAlone,
  StoreRunAlone, ReadToolAlone, StoreToolAlone, LoadAlone, FaultAlone, DroppedAlone, ApproveAlone,
  RejectAlone, RetryAlone, ContinueAlone DEF Next

LEMMA WrongGrows ==
  ASSUME [Next]_vars, Alone'
  PROVE  Alone
PROOF
  <1>1. CASE UNCHANGED vars BY <1>1 DEF vars, Alone
  <1>2. ASSUME NEW p \in Requests, ApproveToolRun(p) \/ RejectToolRun(p) \/ RetryToolRun(p)
                                     \/ ContinueRunWithTokenBudget(p)
        PROVE  Alone
    BY <1>2 DEF ApproveToolRun, RejectToolRun, RetryToolRun, ContinueRunWithTokenBudget, Begin, Alone
  <1>3. ASSUME NEW p \in Requests, Ask(p) \/ Execute(p) PROVE Alone
    BY <1>3 DEF Ask, Execute, Alone
  <1>4. ASSUME NEW p \in Requests,
               \/ Start(p) \/ NotAsked(p) \/ Call(p) \/ NextIteration(p)
               \/ StoreRun(p) \/ ReadTool(p) \/ StoreTool(p) \/ Load(p)
               \/ Fault(p) \/ Dropped(p) \/ RecordFails(p)
        PROVE  Alone
    BY <1>4 DEF Start, NotAsked, Call, NextIteration, StoreRun, ReadTool, StoreTool, Load, Fault,
      Dropped, RecordFails, Alone
  <1> QED BY <1>1, <1>2, <1>3, <1>4 DEF Next

\* A run that was started stays started.
LEMMA Started ==
  ASSUME TypeOK, ApprovalInv, AloneInv, [Next]_vars, ~UNCHANGED vars
  PROVE  run'.status # "none"
PROOF
  <1>1. PICK p \in Requests :
          \/ Start(p) \/ NotAsked(p) \/ Ask(p) \/ Call(p) \/ NextIteration(p) \/ Execute(p)
          \/ StoreRun(p) \/ ReadTool(p) \/ StoreTool(p) \/ Load(p)
          \/ Fault(p) \/ Dropped(p) \/ RecordFails(p)
          \/ ApproveToolRun(p) \/ RejectToolRun(p) \/ RetryToolRun(p)
          \/ ContinueRunWithTokenBudget(p)
    BY DEF Next
  <1>2. CASE Start(p) BY <1>2 DEF Start
  <1>3. CASE StoreRun(p)
    <2>1. req[p].pc = "write" /\ Trusted(req[p]) BY <1>3, InHand DEF StoreRun, At
    <2>2. PICK s \in Statements : s = Statement(p) /\ s.kind = "run"
      BY <1>3, <2>1, CurrentStatement DEF StoreRun
    <2>3. s.patch \in RunPatches BY <2>2 DEF Statements
    <2> QED BY <1>3, <2>2, <2>3, PatchedStatus DEF StoreRun, TypeOK
  <1>4. CASE ApproveToolRun(p) \/ RejectToolRun(p) \/ RetryToolRun(p) \/ ContinueRunWithTokenBudget(p)
    BY <1>4 DEF ApproveToolRun, RejectToolRun, RetryToolRun, ContinueRunWithTokenBudget, Begin
  <1>5. CASE \/ NotAsked(p) \/ Ask(p) \/ Call(p) \/ NextIteration(p) \/ Execute(p)
             \/ ReadTool(p) \/ StoreTool(p) \/ Load(p) \/ Fault(p) \/ Dropped(p) \/ RecordFails(p)
    <2>1. p \in Busy /\ run' = run
      BY <1>5 DEF NotAsked, Ask, Call, NextIteration, Execute, ReadTool, StoreTool, Load, Fault,
        Dropped, RecordFails, Busy, At
    <2> QED BY <2>1 DEF AloneInv
  <1> QED BY <1>1, <1>2, <1>3, <1>4, <1>5

LEMMA AloneStep == TypeOK /\ ApprovalInv /\ AloneInv /\ [Next]_vars => AloneInv'
PROOF
  <1> SUFFICES ASSUME TypeOK, ApprovalInv, AloneInv, [Next]_vars PROVE AloneInv' OBVIOUS
  <1>1. CASE UNCHANGED vars
    <2>1. UNCHANGED <<run, tool, made, answered, req, faults, asked, consent, wrong>>
      BY <1>1 DEF vars
    <2>2. Busy' = Busy /\ (Alone' <=> Alone) BY <2>1 DEF Busy, At, Alone
    <2>3. ASSUME Alone, NEW p \in Requests PROVE Orderly(req[p])'
      <3>1. PICK held \in RequestStates : held = req[p] /\ Orderly(held)
        BY <2>3, InHand DEF AloneInv
      <3>2. Orderly(held)' BY <2>1, <3>1, OrderlyStays
      <3> QED BY <2>1, <3>1, <3>2 DEF Orderly, OrderlyTodo, OrderlyStatement
    <2>4. InOrder' <=> InOrder BY <2>1, OrderlyStays
    <2> QED BY <2>1, <2>2, <2>3, <2>4 DEF AloneInv
  <1>2. CASE ~UNCHANGED vars
    <2>1. run'.status # "none" BY <1>2, Started
    <2>2. ASSUME Alone'
          PROVE  /\ \A q, r \in Busy' : q = r
                 /\ InOrder' /\ "unanswered" \notin wrong'
                 /\ \A q \in Requests : Orderly(req[q])'
      <3>1. Alone BY <2>2, WrongGrows
      <3>2. PICK p \in Requests, state \in RequestStates : ActsAlone(p, state)
        BY <1>2, <2>2, <3>1, StepAlone
      <3> QED BY <3>2, AloneKept
    <2> QED BY <2>1, <2>2 DEF AloneInv
  <1> QED BY <1>1, <1>2

LEMMA AloneInit == Init => AloneInv
PROOF
  <1> SUFFICES ASSUME Init PROVE AloneInv OBVIOUS
  <1>1. Made = {} /\ Unfinished = {} BY DEF Init, Made, Unfinished
  <1>2. Busy = {} BY DEF Init, Busy, At, Idle
  <1>3. \A p \in Requests : Orderly(req[p]) BY IdleOrderly DEF Init
  <1>4. InOrder BY <1>1 DEF InOrder
  <1> QED BY <1>2, <1>3, <1>4 DEF Init, AloneInv

-----------------------------------------------------------------------------
(* Requests that nobody disturbs and nothing fails for                      *)

\* What a step of p that leaves it in state does to what is counted and waited for.
ActsSettled(p, state) ==
  /\ state \in RequestStates /\ Go(p, state)
  /\ \A q \in Requests : q # p => At(q, "idle")
  /\ asked' <= MaxIterations /\ Settled(state)'

LEMMA SettledRequest ==
  ASSUME TypeOK, ApprovalInv, AloneInv, SettledInv, Alone, faults = 0,
         NEW p \in Requests, req[p].pc # "idle"
  PROVE  /\ Lone(p) /\ asked <= MaxIterations
         /\ \E r \in RequestStates : r = req[p] /\ Orderly(r) /\ Trusted(r) /\ Settled(r)
PROOF
  <1>1. Lone(p) /\ Orderly(req[p]) BY LoneRequest
  <1>2. p \in Busy BY DEF Busy, At
  <1> QED BY <1>1, <1>2, InHand DEF SettledInv

LEMMA SettledStays ==
  ASSUME UNCHANGED <<run, tool, made, asked>>, NEW state
  PROVE  Settled(state)' <=> Settled(state)
PROOF
  <1>1. Pending' = Pending /\ (Waits' <=> Waits) BY DEF Pending, Made, Waits
  <1>2. SettledTodo(state)' <=> SettledTodo(state)
    BY <1>1 DEF SettledTodo, WillCount, WillWait, WillPend
  <1> QED BY <1>1, <1>2 DEF Settled

LEMMA QuietSettled ==
  ASSUME UNCHANGED <<run, tool, made, asked>>, NEW p \in Requests, Lone(p),
         asked <= MaxIterations,
         NEW state \in RequestStates, Go(p, state), Settled(state)
  PROVE  ActsSettled(p, state)
PROOF BY SettledStays DEF ActsSettled, Lone

\* Where the statements of one kind are.
LEMMA PlacesOne ==
  ASSUME NEW w, Len(w.todo) = 1, NEW kind
  PROVE  Places(w, kind) = IF w.todo[1].kind = kind THEN {1} ELSE {}
PROOF
  <1>1. 1..Len(w.todo) = {1} OBVIOUS
  <1> QED BY <1>1 DEF Places

LEMMA PlacesTwo ==
  ASSUME NEW w, Len(w.todo) = 2, w.todo[1].kind # w.todo[2].kind
  PROVE  /\ Places(w, w.todo[1].kind) = {1} /\ Places(w, w.todo[2].kind) = {2}
         /\ \A i, j \in 1..Len(w.todo) : w.todo[i].kind = w.todo[j].kind => i = j
PROOF
  <1>1. 1..Len(w.todo) = {1, 2} OBVIOUS
  <1> QED BY <1>1 DEF Places

Apart(state) == \A i, j \in 1..Len(state.todo) : state.todo[i].kind = state.todo[j].kind => i = j
Shifted(r, w) ==
  /\ Len(r.todo) \in Nat /\ Len(r.todo) >= 1 /\ Len(w.todo) = Len(r.todo) - 1
  /\ \A i \in 1..Len(w.todo) : i + 1 \in 1..Len(r.todo) /\ w.todo[i] = r.todo[i + 1]

Follows(r, w, kind, other) ==
  /\ Apart(w) /\ Places(w, kind) = {}
  /\ \A i \in Places(w, other) : i + 1 \in Places(r, other) /\ w.todo[i] = r.todo[i + 1]
  /\ \A j \in Places(r, other) : j - 1 \in Places(w, other) /\ w.todo[j - 1] = r.todo[j]

LEMMA PlacesRest ==
  ASSUME NEW r, NEW w, Shifted(r, w), Apart(r),
         NEW kind, r.todo[1].kind = kind, NEW other, other # kind
  PROVE  Follows(r, w, kind, other)
PROOF
  <1> USE DEF Apart, Shifted, Follows
  <1>1. 1 \in 1..Len(r.todo) /\ \A i \in 1..Len(w.todo) : i + 1 # 1 OBVIOUS
  <1>2. ASSUME NEW i \in 1..Len(w.todo), NEW j \in 1..Len(w.todo), w.todo[i].kind = w.todo[j].kind
        PROVE  i = j
    <2>1. i + 1 = j + 1 BY <1>2, SMTT(30)
    <2> QED BY <2>1
  <1>3. Places(w, kind) = {} BY <1>1 DEF Places
  <1>4. \A i \in Places(w, other) : i + 1 \in Places(r, other) /\ w.todo[i] = r.todo[i + 1]
    BY DEF Places
  <1>5. ASSUME NEW j \in Places(r, other)
        PROVE  j - 1 \in Places(w, other) /\ w.todo[j - 1] = r.todo[j]
    <2>1. j \in 1..Len(r.todo) /\ j # 1 /\ r.todo[j].kind = other BY DEF Places
    <2>2. j - 1 \in 1..Len(w.todo) /\ (j - 1) + 1 = j BY <2>1
    <2>3. w.todo[j - 1] = r.todo[j] BY <2>2
    <2> QED BY <2>1, <2>2, <2>3 DEF Places
  <1> QED BY <1>2, <1>3, <1>4, <1>5

\* What run patches count.
LEMMA PatchCounts ==
  ASSUME NEW status \in RunStatuses \ {"none"}, NEW n \in Nat
  PROVE  /\ [status |-> status, iterations |-> n] \in RunPatches
         /\ [status |-> status, iterations |-> n].status = status
         /\ [status |-> status, iterations |-> n].iterations = n
         /\ "iterations" \in DOMAIN [status |-> status, iterations |-> n]
         /\ [status |-> status] \in RunPatches
         /\ [status |-> status].status = status
         /\ "iterations" \notin DOMAIN [status |-> status]
PROOF BY DEF RunPatches

LEMMA PatchedCount ==
  ASSUME NEW row \in Runs, NEW patch \in RunPatches
  PROVE  Patched(row, patch).iterations =
           IF "iterations" \in DOMAIN patch THEN patch.iterations ELSE row.iterations
PROOF BY DEF Patched, Runs, RunPatches

LEMMA PendingUnfinished ==
  Pending \subseteq Unfinished
PROOF BY DEF Pending, Unfinished

\* A request that ends the run, when no tool run is left to decide.
LEMMA StopSettled ==
  ASSUME NEW p, NEW status \in RunStatuses \ {"none"}, status # "pending_approval",
         NEW n \in Nat, asked' = n, Pending' = {}
  PROVE  \E w \in RequestStates : w = Stop(p, status, n) /\ Settled(w)'
PROOF
  <1> DEFINE patch == [status |-> status, iterations |-> n]
  <1>1. patch \in RunPatches /\ patch.status = status /\ patch.iterations = n
        /\ "iterations" \in DOMAIN patch
    BY PatchCounts
  <1> HIDE DEF patch
  <1>2. PICK a \in Statements : a = Best(SetRun(patch)) /\ a.kind = "run" /\ a.patch = patch
    BY <1>1, RunParts
  <1>3. PICK w \in RequestStates :
          /\ w = Write(Idle, <<a>>, "idle") /\ w.pc = "write" /\ w.then = "idle"
          /\ Len(w.todo) = 1 /\ w.todo[1] = a /\ \A i \in 1..Len(w.todo) : i = 1
    BY <1>2, IdleTrusted, SomeThens, SendsOne
  <1>4. Places(w, "run") = {1} /\ Places(w, "tool") = {} BY <1>2, <1>3, PlacesOne
  <1>5. WillCount(w)' BY <1>1, <1>2, <1>3, <1>4 DEF WillCount, Counts
  <1>6. ~WillWait(w)' /\ ~WillPend(w)'
    BY <1>1, <1>2, <1>3, <1>4 DEF WillWait, WillPend
  <1>7. Settled(w)' BY <1>3, <1>5, <1>6 DEF Settled, SettledTodo
  <1>8. w = Stop(p, status, n) BY <1>2, <1>3 DEF Stop, patch
  <1> QED BY <1>3, <1>7, <1>8

-----------------------------------------------------------------------------
(* Their loop                                                               *)

LEMMA StartSettled ==
  ASSUME TypeOK, ApprovalInv, AloneInv, SettledInv, Alone, NEW p \in Requests, Start(p)
  PROVE  \E state \in RequestStates : ActsSettled(p, state)
PROOF
  <1>1. asked = 0 /\ Busy = {} BY DEF SettledInv, AloneInv, Start
  <1>2. Lone(p) BY <1>1, LoneBeginner
  <1>3. [Idle EXCEPT !.pc = "ask"] \in RequestStates BY IdleTrusted DEF RequestStates
  <1>4. PICK state \in RequestStates : state = [Idle EXCEPT !.pc = "ask"] BY <1>3
  <1>5. state.pc = "ask" /\ state.iter = 0 BY <1>4, IdleTrusted DEF RequestStates, Idle
  <1>6. Go(p, state) /\ run'.status = "running" /\ asked' = 0 BY <1>1, <1>4 DEF Start
  <1>7. Settled(state)' BY <1>5, <1>6 DEF Settled, Waits
  <1> QED BY <1>2, <1>6, <1>7, BoundsAssumption DEF ActsSettled, Lone

LEMMA NotAskedSettled ==
  ASSUME TypeOK, ApprovalInv, AloneInv, SettledInv, Alone, faults = 0,
         NEW p \in Requests, NotAsked(p)
  PROVE  \E state \in RequestStates : ActsSettled(p, state)
PROOF
  <1>1. req[p].pc = "ask" /\ UNCHANGED <<run, tool, made, asked>> BY DEF NotAsked, At
  <1>2. Lone(p) /\ asked <= MaxIterations BY <1>1, SettledRequest
  <1>3. PICK r \in RequestStates : r = req[p] /\ Orderly(r) /\ Settled(r) BY <1>1, SettledRequest
  <1>4. r.iter = asked /\ Unfinished = {} BY <1>1, <1>3 DEF Settled, Orderly
  <1>5. Pending' = {} BY <1>1, <1>4, PendingUnfinished DEF Pending, Made
  <1>6. PICK n \in Nat : n = r.iter BY <1>3 DEF RequestStates
  <1>7. PICK status \in {"max_iterations_reached", "failed"} : Go(p, Stop(p, status, n))
    BY <1>3, <1>6 DEF NotAsked
  <1>8. PICK w \in RequestStates : w = Stop(p, status, n) /\ Settled(w)'
    <2>1. status \in RunStatuses \ {"none"} /\ status # "pending_approval" BY DEF RunStatuses
    <2>2. asked' = n BY <1>1, <1>4, <1>6
    <2> QED BY <1>5, <1>6, <2>1, <2>2, StopSettled
  <1> QED BY <1>1, <1>2, <1>7, <1>8 DEF ActsSettled, Lone

LEMMA NextIterationSettled ==
  ASSUME TypeOK, ApprovalInv, AloneInv, SettledInv, Alone, faults = 0,
         NEW p \in Requests, NextIteration(p)
  PROVE  \E state \in RequestStates : ActsSettled(p, state)
PROOF
  <1>1. req[p].pc = "call" /\ UNCHANGED <<run, tool, made, asked>> BY DEF NextIteration, At
  <1>2. Lone(p) /\ asked <= MaxIterations BY <1>1, SettledRequest
  <1>3. PICK r \in RequestStates : r = req[p] /\ Settled(r) BY <1>1, SettledRequest
  <1>4. r.at = asked /\ ~Waits BY <1>1, <1>3 DEF Settled
  <1>5. r.at \in Nat BY <1>3 DEF RequestStates
  <1>6. [Idle EXCEPT !.pc = "ask", !.iter = r.at] \in RequestStates
    BY <1>5, IdleTrusted DEF RequestStates
  <1>7. PICK state \in RequestStates : state = [Idle EXCEPT !.pc = "ask", !.iter = r.at] BY <1>6
  <1>8. state.pc = "ask" /\ state.iter = r.at BY <1>7, IdleTrusted DEF RequestStates
  <1>9. Settled(state) BY <1>4, <1>8 DEF Settled
  <1>10. Go(p, state) BY <1>3, <1>7 DEF NextIteration
  <1> QED BY <1>1, <1>2, <1>9, <1>10, QuietSettled

LEMMA LoadSettled ==
  ASSUME TypeOK, ApprovalInv, AloneInv, SettledInv, Alone, faults = 0, NEW p \in Requests, Load(p)
  PROVE  \E state \in RequestStates : ActsSettled(p, state)
PROOF
  <1>1. req[p].pc = "load" /\ UNCHANGED <<run, tool, made, asked>> BY DEF Load, At
  <1>2. Lone(p) /\ asked <= MaxIterations BY <1>1, SettledRequest
  <1>3. PICK r \in RequestStates : r = req[p] /\ Settled(r) BY <1>1, SettledRequest
  <1>4. PICK n \in Nat : n = run.iterations BY DEF TypeOK, Runs
  <1>5. n = asked BY <1>1, <1>3, <1>4 DEF Settled
  <1>6. [r EXCEPT !.pc = "execute", !.iter = n, !.at = n, !.then = "ask"] \in RequestStates
    BY <1>3, <1>4 DEF RequestStates
  <1>7. PICK state \in RequestStates :
          state = [r EXCEPT !.pc = "execute", !.iter = n, !.at = n, !.then = "ask"]
    BY <1>6
  <1>8. state.pc = "execute" /\ state.iter = n /\ state.at = n /\ state.then = "ask"
    BY <1>7 DEF RequestStates
  <1>9. Settled(state) BY <1>5, <1>8 DEF Settled
  <1>10. Go(p, state) BY <1>3, <1>4, <1>7 DEF Load
  <1> QED BY <1>1, <1>2, <1>9, <1>10, QuietSettled

LEMMA AskSettled ==
  ASSUME TypeOK, ApprovalInv, AloneInv, SettledInv, Alone, faults = 0, NEW p \in Requests, Ask(p)
  PROVE  \E state \in RequestStates : ActsSettled(p, state)
PROOF
  <1>1. req[p].pc = "ask" /\ UNCHANGED <<run, tool, made>> BY DEF Ask, At
  <1>2. Lone(p) BY <1>1, SettledRequest
  <1>3. PICK r \in RequestStates : r = req[p] /\ Orderly(r) /\ Settled(r) BY <1>1, SettledRequest
  <1>4. r.iter = asked /\ ~Waits /\ Unfinished = {} BY <1>1, <1>3 DEF Settled, Orderly
  <1>5. Pending' = {} /\ ~Waits' BY <1>1, <1>4, PendingUnfinished DEF Pending, Made, Waits
  <1>6. PICK next \in Nat : next = r.iter + 1 BY <1>3 DEF RequestStates
  <1>7. asked' = next /\ r.iter < MaxIterations BY <1>3, <1>4, <1>6 DEF Ask
  <1>8. asked' <= MaxIterations
    <2>1. r.iter \in Nat BY <1>3 DEF RequestStates
    <2> QED BY <1>6, <1>7, <2>1, BoundsAssumption
  <1> SUFFICES \E state \in RequestStates : Go(p, state) /\ Settled(state)'
    BY <1>2, <1>8 DEF ActsSettled, Lone
  <1>9. CASE \E end \in {"failed", "token_budget_exceeded"} : Go(p, Stop(p, end, next))
    <2>1. PICK end \in {"failed", "token_budget_exceeded"} : Go(p, Stop(p, end, next)) BY <1>9
    <2>2. end \in RunStatuses \ {"none"} /\ end # "pending_approval" BY DEF RunStatuses
    <2>3. PICK w \in RequestStates : w = Stop(p, end, next) /\ Settled(w)'
      BY <1>5, <1>6, <1>7, <2>2, StopSettled
    <2> QED BY <2>1, <2>3
  <1>10. CASE Go(p, Write(Idle, <<SetRun([status |-> "completed", iterations |-> next])>>, "idle"))
    <2> DEFINE patch == [status |-> "completed", iterations |-> next]
    <2>1. patch \in RunPatches /\ patch.status = "completed" /\ patch.iterations = next
          /\ "iterations" \in DOMAIN patch
      BY <1>6, PatchCounts DEF RunStatuses
    <2> HIDE DEF patch
    <2>2. PICK a \in Statements : a = SetRun(patch) /\ a.kind = "run" /\ a.patch = patch
      BY <2>1, RunParts
    <2>3. PICK w \in RequestStates :
            /\ w = Write(Idle, <<a>>, "idle") /\ w.pc = "write" /\ w.then = "idle"
            /\ Len(w.todo) = 1 /\ w.todo[1] = a /\ \A i \in 1..Len(w.todo) : i = 1
      BY <2>2, IdleTrusted, SomeThens, SendsOne, SMTT(30)
    <2>4. Places(w, "run") = {1} /\ Places(w, "tool") = {} BY <2>2, <2>3, PlacesOne
    <2>5. WillCount(w)' BY <1>7, <2>1, <2>2, <2>3, <2>4 DEF WillCount, Counts
    <2>6. ~WillWait(w)' /\ ~WillPend(w)'
      BY <1>5, <2>1, <2>2, <2>3, <2>4 DEF WillWait, WillPend
    <2>7. Settled(w)' BY <2>3, <2>5, <2>6 DEF Settled, SettledTodo
    <2>8. Go(p, w) BY <1>10, <2>2, <2>3 DEF patch
    <2> QED BY <2>3, <2>7, <2>8
  <1>11. CASE \E calls \in Replies : Go(p, [r EXCEPT !.pc = "call", !.calls = calls, !.at = next])
    <2>1. PICK calls \in Replies : Go(p, [r EXCEPT !.pc = "call", !.calls = calls, !.at = next])
      BY <1>11
    <2> DEFINE new == [r EXCEPT !.pc = "call", !.calls = calls, !.at = next]
    <2>2. calls \in Seq(Classes) BY RepliesAssumption
    <2>3. new \in RequestStates /\ new.pc = "call" /\ new.at = next
      BY <1>3, <1>6, <2>2 DEF RequestStates
    <2>4. Go(p, new) BY <2>1
    <2> HIDE DEF new
    <2>5. PICK state \in RequestStates : state = new BY <2>3
    <2>6. Settled(state)' BY <1>5, <1>7, <2>3, <2>5 DEF Settled
    <2> QED BY <2>4, <2>5, <2>6
  <1> QED BY <1>3, <1>6, <1>9, <1>10, <1>11 DEF Ask

LEMMA CallSettled ==
  ASSUME TypeOK, ApprovalInv, AloneInv, SettledInv, Alone, faults = 0, NEW p \in Requests, Call(p)
  PROVE  \E state \in RequestStates : ActsSettled(p, state)
PROOF
  <1>1. req[p].pc = "call" /\ UNCHANGED <<run, asked>> BY DEF Call, At
  <1>2. Lone(p) /\ asked <= MaxIterations BY <1>1, SettledRequest
  <1>3. PICK r \in RequestStates : r = req[p] /\ Settled(r) BY <1>1, SettledRequest
  <1>4. r.at = asked /\ ~Waits BY <1>1, <1>3 DEF Settled
  <1>5. PICK at \in Nat : at = r.at BY <1>3 DEF RequestStates
  <1>6. made \in Nat /\ made + 1 \in ToolRuns /\ made + 1 \in Made'
    BY BoundsAssumption DEF TypeOK, ToolRuns, Made, Call
  <1> DEFINE class == Head(r.calls)  waits == RequiresApproval(class)
  <1> SUFFICES \E state \in RequestStates : Go(p, state) /\ Settled(state)'
    BY <1>1, <1>2 DEF ActsSettled, Lone
  <1>7. CASE waits
    <2> DEFINE patch == WaitingPatch(at)
    <2>1. patch \in RunPatches /\ patch.status = "pending_approval" /\ patch.iterations = at
          /\ "iterations" \in DOMAIN patch
      BY <1>5, PatchCounts DEF WaitingPatch, RunStatuses
    <2> HIDE DEF patch
    <2>2. PICK a \in Statements : a = Best(SetRun(patch)) /\ a.kind = "run" /\ a.patch = patch
      BY <2>1, RunParts
    <2>3. PICK w \in RequestStates :
            /\ w = Write(Idle, <<a>>, "idle") /\ w.pc = "write" /\ w.then = "idle"
            /\ Len(w.todo) = 1 /\ w.todo[1] = a /\ \A i \in 1..Len(w.todo) : i = 1
      BY <2>2, IdleTrusted, SomeThens, SendsOne, SMTT(30)
    <2>4. Places(w, "run") = {1} /\ Places(w, "tool") = {} BY <2>2, <2>3, PlacesOne
    <2>5. Go(p, w) BY <1>3, <1>5, <1>7, <2>2, <2>3 DEF Call, patch
    <2>6. made + 1 \in Pending'
      <3>1. tool'[made + 1].status = "pending_approval"
        BY <1>3, <1>6, <1>7 DEF Call, TypeOK
      <3> QED BY <1>6, <3>1 DEF Pending
    <2>7. WillCount(w)' BY <1>1, <1>4, <1>5, <2>1, <2>2, <2>3, <2>4 DEF WillCount, Counts
    <2>8. WillWait(w)' /\ WillPend(w)'
      BY <2>1, <2>2, <2>3, <2>4, <2>6 DEF WillWait, WillPend
    <2>9. Settled(w)' BY <2>3, <2>7, <2>8 DEF Settled, SettledTodo
    <2> QED BY <2>3, <2>5, <2>9
  <1>8. CASE ~waits
    <2> DEFINE new == [r EXCEPT !.pc = "execute", !.calls = Tail(@), !.tool = made + 1, !.then = "call"]
    <2>1. r.calls \in Seq(Classes) /\ r.calls # <<>> BY <1>3 DEF RequestStates, Call
    <2>2. Tail(r.calls) \in Seq(Classes) BY <2>1
    <2>3. new \in RequestStates BY <1>3, <1>6, <2>2 DEF RequestStates
    <2>4. PICK state \in RequestStates :
            state = new /\ state.pc = "execute" /\ state.at = r.at /\ state.then = "call"
      BY <1>3, <2>3 DEF RequestStates
    <2>5. Go(p, state) BY <1>3, <1>8, <2>4 DEF Call
    <2>6. Settled(state)' BY <1>1, <1>4, <2>4 DEF Settled, Waits
    <2> QED BY <2>5, <2>6
  <1> QED BY <1>7, <1>8

LEMMA ExecuteSettled ==
  ASSUME TypeOK, ApprovalInv, AloneInv, SettledInv, Alone, faults = 0,
         NEW p \in Requests, Execute(p)
  PROVE  \E state \in RequestStates : ActsSettled(p, state)
PROOF
  <1>1. req[p].pc = "execute" /\ UNCHANGED <<run, tool, made, asked>> BY DEF Execute, At
  <1>2. Lone(p) /\ asked <= MaxIterations BY <1>1, SettledRequest
  <1>3. PICK r \in RequestStates : r = req[p] /\ Orderly(r) /\ Trusted(r) /\ Settled(r)
    BY <1>1, SettledRequest
  <1>4. PICK t \in Made : t = r.tool BY <1>1, <1>3 DEF Trusted, Cleared
  <1>5. r.then \in {"ask", "call"} BY <1>1, <1>3 DEF Orderly
  <1>6. r.at = asked /\ (r.then = "call" => ~Waits) /\ (r.then = "ask" => r.iter = asked)
    BY <1>1, <1>3 DEF Settled
  <1>7. t \in ToolRuns /\ r.at \in Nat BY <1>3, MadeType DEF RequestStates
  <1> DEFINE done == SetTool(t, [status |-> "completed"])
             failed == Best(SetTool(t, [status |-> "failed"]))
             resume == SetRun([status |-> "running"])
             stop == [status |-> "failed", iterations |-> r.at]
             over == Best(SetRun(stop))
  <1>8. \/ r.then = "call" /\ Go(p, Write(r, <<done>>, "call"))
        \/ r.then = "ask" /\ Go(p, Write(r, <<done>> \o <<resume>>, "ask"))
        \/ Go(p, Write(Idle, <<failed, over>>, "idle"))
    BY <1>3, <1>4, <1>5 DEF Execute, AfterFailure
  <1>9. done \in Statements /\ done.kind = "tool"
    BY <1>7, StatusPatch, ToolParts DEF ToolStatuses
  <1>10. failed \in Statements /\ failed.kind = "tool" /\ failed.patch.status = "failed"
    BY <1>7, StatusPatch, ToolParts DEF ToolStatuses
  <1>11. resume \in Statements /\ resume.kind = "run"
    <2>1. [status |-> "running"] \in RunPatches BY DEF RunPatches, RunStatuses
    <2> QED BY <2>1, RunParts
  <1>12. stop \in RunPatches /\ stop.status = "failed" /\ stop.iterations = r.at
         /\ "iterations" \in DOMAIN stop
    BY <1>7, PatchCounts DEF RunStatuses
  <1> HIDE DEF stop
  <1>13. over \in Statements /\ over.kind = "run" /\ over.patch = stop BY <1>12, RunParts
  <1> HIDE DEF done, failed, resume, over
  <1> SUFFICES \E state \in RequestStates : Go(p, state) /\ Settled(state)
    BY <1>1, <1>2, QuietSettled
  <1>14. CASE r.then = "call" /\ Go(p, Write(r, <<done>>, "call"))
    <2>1. r \in RequestStates /\ done \in Statements BY <1>3, <1>9
    <2>2. PICK w \in RequestStates :
            /\ w = Write(r, <<done>>, "call") /\ w.pc = "write" /\ w.then = "call"
            /\ w.at = r.at /\ Len(w.todo) = 1 /\ \A i \in 1..Len(w.todo) : i = 1
      BY <2>1, SomeThens, SendsOne
    <2>3. Settled(w) BY <1>6, <1>14, <2>2 DEF Settled, SettledTodo
    <2> QED BY <1>14, <2>2, <2>3
  <1>15. CASE r.then = "ask" /\ Go(p, Write(r, <<done>> \o <<resume>>, "ask"))
    <2>1. r \in RequestStates /\ done \in Statements /\ resume \in Statements
      BY <1>3, <1>9, <1>11
    <2>2. PICK w \in RequestStates :
            /\ w = Write(r, <<done, resume>>, "ask") /\ w.pc = "write" /\ w.then = "ask"
            /\ w.iter = r.iter
            /\ Len(w.todo) = 2 /\ w.todo[1] = done /\ w.todo[2] = resume
      BY <2>1, SomeThens, SendsTwo
    <2>3. \A i, j \in 1..Len(w.todo) : w.todo[i].kind = w.todo[j].kind => i = j
      BY <1>9, <1>11, <2>2, PlacesTwo
    <2>4. Settled(w) BY <1>6, <1>15, <2>2, <2>3 DEF Settled, SettledTodo
    <2>5. <<done>> \o <<resume>> = <<done, resume>> BY <1>9, <1>11, Pair
    <2> QED BY <1>15, <2>2, <2>4, <2>5
  <1>16. CASE Go(p, Write(Idle, <<failed, over>>, "idle"))
    <2>1. PICK w \in RequestStates :
            /\ w = Write(Idle, <<failed, over>>, "idle") /\ w.pc = "write" /\ w.then = "idle"
            /\ Len(w.todo) = 2 /\ w.todo[1] = failed /\ w.todo[2] = over
      BY <1>10, <1>13, IdleTrusted, SomeThens, SendsTwo
    <2>2. /\ Places(w, "tool") = {1} /\ Places(w, "run") = {2}
          /\ \A i, j \in 1..Len(w.todo) : w.todo[i].kind = w.todo[j].kind => i = j
      BY <1>10, <1>13, <2>1, PlacesTwo
    <2>3. WillCount(w) BY <1>6, <1>12, <1>13, <2>1, <2>2 DEF WillCount, Counts
    <2>4. ~WillWait(w) /\ ~WillPend(w)
      BY <1>10, <1>12, <1>13, <2>1, <2>2 DEF WillWait, WillPend
    <2>5. Settled(w) BY <2>1, <2>2, <2>3, <2>4 DEF Settled, SettledTodo
    <2> QED BY <1>16, <2>1, <2>5
  <1> QED BY <1>8, <1>14, <1>15, <1>16

-----------------------------------------------------------------------------
(* Their statements                                                         *)

\* What p has to send, when it is settled.
LEMMA SettledSending ==
  ASSUME TypeOK, ApprovalInv, AloneInv, SettledInv, Alone, faults = 0,
         NEW p \in Requests, req[p].pc \in {"write", "store"}
  PROVE  \E r \in RequestStates, w \in RequestStates, s \in Statements :
           /\ r = req[p] /\ w = Rest(p) /\ s = Statement(p)
           /\ Lone(p) /\ asked <= MaxIterations
           /\ Trusted(r) /\ Orderly(r) /\ SettledTodo(r)
           /\ RestOf(r, w) /\ s = r.todo[1] /\ Sound(s)
           /\ Len(r.todo) \in Nat /\ Len(r.todo) >= 1
PROOF
  <1>1. PICK r \in RequestStates, w \in RequestStates, s \in Statements :
          /\ r = req[p] /\ w = Rest(p) /\ s = Statement(p)
          /\ Trusted(r) /\ Orderly(r)
          /\ RestOf(r, w) /\ s = r.todo[1] /\ Sound(s)
          /\ Len(r.todo) \in Nat /\ Len(r.todo) >= 1
    BY Sending
  <1>2. Lone(p) /\ asked <= MaxIterations BY SettledRequest
  <1>3. Settled(r) BY <1>1, SettledRequest
  <1>4. SettledTodo(r) BY <1>1, <1>3 DEF Settled
  <1> QED BY <1>1, <1>2, <1>4

\* The run's row as StoreRun leaves it is what the rest of the request relies on.
LEMMA StoreRunSettled ==
  ASSUME TypeOK, ApprovalInv, AloneInv, SettledInv, Alone, faults = 0,
         NEW p \in Requests, StoreRun(p)
  PROVE  \E state \in RequestStates : ActsSettled(p, state)
PROOF
  <1>1. PICK r \in RequestStates, w \in RequestStates, s \in Statements :
          /\ r = req[p] /\ w = Rest(p) /\ s = Statement(p)
          /\ Lone(p) /\ asked <= MaxIterations
          /\ Orderly(r) /\ SettledTodo(r)
          /\ RestOf(r, w) /\ s = r.todo[1]
          /\ Len(r.todo) \in Nat /\ Len(r.todo) >= 1
    BY SettledSending DEF StoreRun, At
  <1>2. s.kind = "run" /\ s.patch \in RunPatches BY <1>1 DEF StoreRun, Statements
  <1>3. run'.status = s.patch.status BY <1>1, <1>2, PatchedStatus DEF StoreRun, TypeOK
  <1>4. run'.iterations = IF Counts(r, 1) THEN s.patch.iterations ELSE run.iterations
    BY <1>1, <1>2, PatchedCount DEF StoreRun, TypeOK, Counts
  <1>5. UNCHANGED <<tool, made, asked>> /\ Go(p, w) BY <1>1 DEF StoreRun
  <1>6. Pending' = Pending BY <1>5 DEF Pending, Made
  <1>7. 1 \in 1..Len(r.todo) BY <1>1
  <1>8. r.then # "idle" => r.then = "ask" /\ s.patch.status = "running" /\ Len(r.todo) = 1
    <2>1. OrderlyTodo(r) BY <1>1 DEF Orderly, StoreRun, At
    <2>2. OrderlyStatement(r, 1) BY <1>7, <2>1 DEF OrderlyTodo
    <2> QED BY <1>1, <1>2, <2>2 DEF OrderlyStatement
  <1>9. Places(r, "run") = {1}
    BY <1>1, <1>2, <1>7 DEF SettledTodo, Places
  <1>10. r.then = "idle" => run'.iterations = asked BY <1>1, <1>4, <1>9 DEF SettledTodo, WillCount
  <1>11. r.then = "idle" => (run'.status = "pending_approval" <=> WillPend(r))
    BY <1>1, <1>3, <1>9 DEF SettledTodo, WillWait
  <1>12. Settled(w)'
    <2>1. CASE Len(r.todo) = 1 /\ r.then = "idle" /\ w = Idle
      <3>1. w.pc = "idle" BY <2>1 DEF Idle
      <3>2. Places(r, "tool") = {} BY <1>1, <1>2, <2>1, PlacesOne
      <3>3. WillPend(r) <=> Pending # {} BY <3>2 DEF WillPend
      <3> QED BY <1>5, <1>6, <1>10, <1>11, <2>1, <3>1, <3>3 DEF Settled, Waits
    <2>2. CASE Len(r.todo) = 1 /\ r.then # "idle" /\ w.pc = r.then /\ w.iter = r.iter
      BY <1>1, <1>3, <1>5, <1>8, <2>2 DEF Settled, SettledTodo, Waits
    <2>3. CASE /\ Len(r.todo) > 1 /\ w.pc = "write" /\ w.then = r.then
               /\ Len(w.todo) = Len(r.todo) - 1
               /\ \A i \in 1..Len(w.todo) : i + 1 \in 1..Len(r.todo) /\ w.todo[i] = r.todo[i + 1]
      <3>0. \A n \in Nat : n > 1 => n # 1 OBVIOUS
      <3>1. r.then = "idle"
        <4>1. Len(r.todo) # 1 BY <1>1, <2>3, <3>0
        <4> QED BY <1>8, <4>1
      <3>2. Apart(r) BY <1>1 DEF SettledTodo, Apart
      <3>3. /\ Apart(w)
            /\ Places(w, "run") = {}
            /\ \A i \in Places(w, "tool") : i + 1 \in Places(r, "tool") /\ w.todo[i] = r.todo[i + 1]
            /\ \A j \in Places(r, "tool") : j - 1 \in Places(w, "tool") /\ w.todo[j - 1] = r.todo[j]
        <4>1. r.todo[1].kind = "run" BY <1>1, <1>2
        <4>2. Shifted(r, w) BY <1>1, <2>3 DEF Shifted
        <4>3. "tool" # "run" OBVIOUS
        <4>4. Follows(r, w, "run", "tool") BY <3>2, <4>1, <4>2, <4>3, PlacesRest
        <4> QED BY <4>4 DEF Follows
      <3>5. WillPend(w)' <=> WillPend(r)
        BY <1>6, <3>3 DEF WillPend
      <3>6. WillCount(w)' BY <1>5, <1>10, <3>1, <3>3 DEF WillCount
      <3>7. WillWait(w)' <=> run'.status = "pending_approval" BY <3>3 DEF WillWait, Waits
      <3> QED BY <1>11, <2>3, <3>1, <3>3, <3>5, <3>6, <3>7 DEF Settled, SettledTodo, Apart
    <2> QED BY <1>1, <2>1, <2>2, <2>3 DEF RestOf
  <1> QED BY <1>1, <1>5, <1>12 DEF ActsSettled, Lone

LEMMA ReadToolSettled ==
  ASSUME TypeOK, ApprovalInv, AloneInv, SettledInv, Alone, faults = 0,
         NEW p \in Requests, ReadTool(p)
  PROVE  \E state \in RequestStates : ActsSettled(p, state)
PROOF
  <1>1. PICK r \in RequestStates, w \in RequestStates, s \in Statements :
          /\ r = req[p] /\ s = Statement(p)
          /\ Lone(p) /\ asked <= MaxIterations /\ SettledTodo(r) /\ Sound(s)
    BY SettledSending DEF ReadTool, At
  <1>2. s.kind = "tool" /\ s.patch \in ToolPatches /\ s.tool \in Made
    BY <1>1 DEF ReadTool, Statements, Sound
  <1>3. PICK row \in Rows : row = Patched(tool[s.tool], s.patch)
    BY <1>2, MadeType, PatchedRow
  <1>4. [r EXCEPT !.pc = "store", !.row = row] \in RequestStates BY <1>1, <1>3 DEF RequestStates
  <1>5. PICK state \in RequestStates : state = [r EXCEPT !.pc = "store", !.row = row] BY <1>4
  <1>6. state.pc = "store" /\ state.todo = r.todo /\ state.then = r.then
        /\ state.iter = r.iter /\ state.at = r.at
    BY <1>1, <1>5 DEF RequestStates
  <1>7. Go(p, state) /\ UNCHANGED <<run, tool, made, asked>>
    BY <1>1, <1>3, <1>5 DEF ReadTool
  <1>8. SettledTodo(state)
    BY <1>1, <1>6 DEF SettledTodo, WillCount, WillWait, WillPend, Places, Counts
  <1>9. Settled(state) BY <1>6, <1>8 DEF Settled
  <1> QED BY <1>1, <1>7, <1>9, QuietSettled

\* So is the tool run's row as StoreTool leaves it.
LEMMA StoreToolSettled ==
  ASSUME TypeOK, ApprovalInv, AloneInv, SettledInv, Alone, faults = 0,
         NEW p \in Requests, StoreTool(p)
  PROVE  \E state \in RequestStates : ActsSettled(p, state)
PROOF
  <1>1. PICK r \in RequestStates, w \in RequestStates, s \in Statements :
          /\ r = req[p] /\ w = Rest(p) /\ s = Statement(p)
          /\ Lone(p) /\ asked <= MaxIterations
          /\ Trusted(r) /\ Orderly(r) /\ SettledTodo(r)
          /\ RestOf(r, w) /\ s = r.todo[1] /\ Sound(s)
          /\ Len(r.todo) \in Nat /\ Len(r.todo) >= 1
    BY SettledSending DEF StoreTool, At
  <1>2. r.pc = "store" /\ s = Head(r.todo)
    BY <1>1 DEF StoreTool, At, Statement
  <1>3. s.kind = "tool" /\ r.row.status = s.patch.status BY <1>1, <1>2 DEF Trusted, Orderly
  <1>4. PICK t \in Made : t = s.tool BY <1>1, <1>3 DEF Sound
  <1>5. 1 \in 1..Len(r.todo) BY <1>1
  <1>6. OrderlyTodo(r) BY <1>1, <1>2 DEF Orderly
  <1>7. Unfinished = {t}
    BY <1>1, <1>3, <1>4, <1>5, <1>6 DEF OrderlyTodo, OrderlyStatement
  <1>8. /\ tool' = [tool EXCEPT ![t] = r.row] /\ Go(p, w)
        /\ UNCHANGED <<run, made, asked>>
    BY <1>1, <1>4 DEF StoreTool
  <1>9. tool'[t] = r.row /\ \A u \in Made : u # t => tool'[u] = tool[u]
    BY <1>8, MadeType DEF TypeOK
  <1>10. Pending' # {} <=> s.patch.status = "pending_approval"
    <2>1. \A u \in Pending' : u = t
      BY <1>7, <1>8, <1>9 DEF Pending, Unfinished, Made
    <2>2. t \in Pending' <=> s.patch.status = "pending_approval"
      BY <1>3, <1>4, <1>8, <1>9 DEF Pending, Made
    <2> QED BY <2>1, <2>2
  <1>11. Waits' <=> Waits BY <1>8 DEF Waits
  <1>12. Places(r, "tool") = {1} BY <1>1, <1>3, <1>5 DEF SettledTodo, Places
  <1>13. Pending' # {} <=> WillPend(r) BY <1>1, <1>10, <1>12 DEF WillPend
  <1>14. Settled(w)'
    <2>1. CASE Len(r.todo) = 1 /\ r.then = "idle" /\ w = Idle
      <3>1. w.pc = "idle" BY <2>1 DEF Idle
      <3>2. Places(r, "run") = {} BY <1>1, <1>3, <2>1, PlacesOne
      <3>3. (WillWait(r) <=> Waits) /\ run.iterations = asked
        BY <1>1, <2>1, <3>2 DEF SettledTodo, WillWait, WillCount
      <3>4. WillWait(r) <=> WillPend(r) BY <1>1, <2>1 DEF SettledTodo
      <3> QED BY <1>8, <1>11, <1>13, <2>1, <3>1, <3>3, <3>4 DEF Settled
    <2>2. CASE Len(r.todo) = 1 /\ r.then # "idle" /\ w.pc = r.then /\ w.at = r.at
      <3>1. r.then # "ask" BY <1>1, <1>3, <1>6, <2>2 DEF OrderlyTodo
      <3>2. r.then \in {"call", "load"} BY <1>1, <2>2, <3>1 DEF RequestStates
      <3> QED BY <1>1, <1>8, <1>11, <2>2, <3>2 DEF Settled, SettledTodo
    <2>3. CASE /\ Len(r.todo) > 1 /\ w.pc = "write" /\ w.then = r.then
               /\ w.iter = r.iter /\ w.at = r.at
               /\ Len(w.todo) = Len(r.todo) - 1
               /\ \A i \in 1..Len(w.todo) : i + 1 \in 1..Len(r.todo) /\ w.todo[i] = r.todo[i + 1]
      <3>2. Apart(r) BY <1>1 DEF SettledTodo, Apart
      <3>3. /\ Apart(w)
            /\ Places(w, "tool") = {}
            /\ \A i \in Places(w, "run") : i + 1 \in Places(r, "run") /\ w.todo[i] = r.todo[i + 1]
            /\ \A j \in Places(r, "run") : j - 1 \in Places(w, "run") /\ w.todo[j - 1] = r.todo[j]
        <4>1. r.todo[1].kind = "tool" BY <1>1, <1>3
        <4>2. Shifted(r, w) BY <1>1, <2>3 DEF Shifted
        <4>3. "run" # "tool" OBVIOUS
        <4>4. Follows(r, w, "tool", "run") BY <3>2, <4>1, <4>2, <4>3, PlacesRest
        <4> QED BY <4>4 DEF Follows
      <3>5. WillWait(w)' <=> WillWait(r)
        BY <1>11, <3>3 DEF WillWait
      <3>6. WillCount(r) => WillCount(w)' BY <1>8, <3>3 DEF WillCount, Counts
      <3>7. WillPend(w)' <=> WillPend(r) BY <1>13, <3>3 DEF WillPend
      <3> QED BY <1>1, <1>8, <1>11, <2>3, <3>3, <3>5, <3>6, <3>7 DEF Settled, SettledTodo, Apart
    <2> QED BY <1>1, <2>1, <2>2, <2>3 DEF RestOf
  <1> QED BY <1>1, <1>8, <1>14 DEF ActsSettled, Lone

-----------------------------------------------------------------------------
(* Their decisions                                                          *)

LEMMA BeginsSettled ==
  ASSUME TypeOK, AloneInv, SettledInv, Alone, Alone', faults = 0, NEW p \in Requests,
         \/ ApproveToolRun(p) \/ RejectToolRun(p) \/ RetryToolRun(p)
         \/ ContinueRunWithTokenBudget(p)
  PROVE  /\ Lone(p) /\ UNCHANGED <<run, tool, made, asked>>
         /\ run.iterations = asked /\ asked <= MaxIterations
PROOF
  <1>1. Lone(p) /\ UNCHANGED <<run, tool, made, wrong>> BY BeginsAlone
  <1>2. UNCHANGED asked
    BY DEF ApproveToolRun, RejectToolRun, RetryToolRun, ContinueRunWithTokenBudget, Begin
  <1>3. Busy = {}
    BY DEF ApproveToolRun, RejectToolRun, RetryToolRun, ContinueRunWithTokenBudget, Begin, Alone
  <1>4. asked <= MaxIterations /\ Settled(Idle) BY <1>3 DEF SettledInv
  <1>5. run.iterations = asked BY <1>4 DEF Settled, Idle
  <1> QED BY <1>1, <1>2, <1>4, <1>5

\* A request that goes on with a tool run counts on from what the run's row says.
LEMMA ResumesSettled ==
  ASSUME NEW t \in ToolRuns, run.iterations = asked, NEW approval \in Approvals
  PROVE  \E w \in RequestStates :
           /\ w = Write([Idle EXCEPT !.tool = t],
                        <<SetTool(t, [status |-> "running", approval |-> approval])>>, "load")
           /\ Settled(w)
PROOF
  <1> DEFINE patch == [status |-> "running", approval |-> approval]
  <1>1. patch \in ToolPatches BY BothPatch DEF ToolStatuses
  <1> HIDE DEF patch
  <1>2. PICK a \in Statements : a = SetTool(t, patch) BY <1>1, ToolParts
  <1>3. PICK base \in RequestStates : base = [Idle EXCEPT !.tool = t] BY ForTool
  <1>4. PICK w \in RequestStates :
          /\ w = Write(base, <<a>>, "load") /\ w.pc = "write" /\ w.then = "load"
          /\ Len(w.todo) = 1 /\ \A i \in 1..Len(w.todo) : i = 1
    <2>1. base \in RequestStates /\ a \in Statements BY <1>2, <1>3
    <2> QED BY <2>1, SomeThens, SendsOne
  <1>5. Settled(w) BY <1>4 DEF Settled, SettledTodo
  <1>6. w = Write([Idle EXCEPT !.tool = t], <<SetTool(t, patch)>>, "load") BY <1>2, <1>3, <1>4
  <1> QED BY <1>5, <1>6 DEF patch

LEMMA ApproveSettled ==
  ASSUME TypeOK, ApprovalInv, AloneInv, SettledInv, Alone, Alone', faults = 0,
         NEW p \in Requests, ApproveToolRun(p)
  PROVE  \E state \in RequestStates : ActsSettled(p, state)
PROOF
  <1>1. /\ Lone(p) /\ UNCHANGED <<run, tool, made, asked>>
        /\ run.iterations = asked /\ asked <= MaxIterations
    BY BeginsSettled
  <1>2. PICK t \in Made :
          Go(p, Write([Idle EXCEPT !.tool = t],
                      <<SetTool(t, [status |-> "running", approval |-> "approved"])>>, "load"))
    BY DEF ApproveToolRun, Begin
  <1>3. t \in ToolRuns BY <1>2, MadeType
  <1>4. PICK w \in RequestStates :
          /\ w = Write([Idle EXCEPT !.tool = t],
                       <<SetTool(t, [status |-> "running", approval |-> "approved"])>>, "load")
          /\ Settled(w)
    BY <1>1, <1>3, ResumesSettled DEF Approvals
  <1>5. Go(p, w) BY <1>2, <1>4
  <1> QED BY <1>1, <1>4, <1>5, QuietSettled

LEMMA RejectSettled ==
  ASSUME TypeOK, ApprovalInv, AloneInv, SettledInv, Alone, Alone', faults = 0,
         NEW p \in Requests, RejectToolRun(p)
  PROVE  \E state \in RequestStates : ActsSettled(p, state)
PROOF
  <1>1. /\ Lone(p) /\ UNCHANGED <<run, tool, made, asked>>
        /\ run.iterations = asked /\ asked <= MaxIterations
    BY BeginsSettled
  <1> DEFINE a(t) == SetTool(t, [status |-> "rejected", approval |-> "rejected"])
             b == Best(SetRun([status |-> "failed"]))
  <1>2. PICK t \in Made : Go(p, Write(Idle, <<a(t), b>>, "idle")) BY DEF RejectToolRun, Begin
  <1>3. t \in ToolRuns BY <1>2, MadeType
  <1>4. a(t) \in Statements /\ a(t).kind = "tool" /\ a(t).patch.status = "rejected"
    BY <1>3, BothPatch, ToolParts DEF ToolStatuses, Approvals
  <1>5. b \in Statements /\ b.kind = "run" /\ b.patch.status = "failed"
        /\ "iterations" \notin DOMAIN b.patch
    <2> DEFINE patch == [status |-> "failed"]
    <2>1. patch \in RunPatches /\ patch.status = "failed" /\ "iterations" \notin DOMAIN patch
      BY DEF RunPatches, RunStatuses
    <2> HIDE DEF patch
    <2>2. Best(SetRun(patch)) \in Statements /\ Best(SetRun(patch)).kind = "run"
          /\ Best(SetRun(patch)).patch = patch
      BY <2>1, RunParts
    <2> QED BY <2>1, <2>2 DEF patch
  <1>6. PICK done \in Statements : done = a(t) BY <1>4
  <1> HIDE DEF a, b
  <1>7. PICK w \in RequestStates :
          /\ w = Write(Idle, <<done, b>>, "idle") /\ w.pc = "write" /\ w.then = "idle"
          /\ Len(w.todo) = 2 /\ w.todo[1] = done /\ w.todo[2] = b
    BY <1>5, <1>6, IdleTrusted, SomeThens, SendsTwo
  <1>8. /\ Places(w, "tool") = {1} /\ Places(w, "run") = {2}
        /\ \A i, j \in 1..Len(w.todo) : w.todo[i].kind = w.todo[j].kind => i = j
    <2>1. w.todo[1].kind = "tool" /\ w.todo[2].kind = "run" BY <1>4, <1>5, <1>6, <1>7
    <2> QED BY <1>7, <2>1, PlacesTwo
  <1>9. WillCount(w) BY <1>1, <1>5, <1>7, <1>8 DEF WillCount, Counts
  <1>10. ~WillWait(w) /\ ~WillPend(w)
    BY <1>4, <1>5, <1>6, <1>7, <1>8 DEF WillWait, WillPend
  <1>11. Settled(w) BY <1>7, <1>8, <1>9, <1>10 DEF Settled, SettledTodo
  <1>12. Go(p, w) BY <1>2, <1>6, <1>7
  <1> QED BY <1>1, <1>7, <1>11, <1>12, QuietSettled

LEMMA RetrySettled ==
  ASSUME TypeOK, ApprovalInv, AloneInv, SettledInv, Alone, Alone', faults = 0,
         NEW p \in Requests, RetryToolRun(p)
  PROVE  \E state \in RequestStates : ActsSettled(p, state)
PROOF
  <1>1. /\ Lone(p) /\ UNCHANGED <<run, tool, made, asked>>
        /\ run.iterations = asked /\ asked <= MaxIterations
    BY BeginsSettled
  <1> DEFINE decide(t) == SetTool(t, [status |-> "pending_approval", approval |-> "pending"])
             wait == SetRun([status |-> "pending_approval"])
  <1>2. PICK t \in Made :
          \/ Go(p, Write(Idle, <<wait, decide(t)>>, "idle"))
          \/ Go(p, Write([Idle EXCEPT !.tool = t],
                         <<SetTool(t, [status |-> "running", approval |-> tool[t].approval])>>,
                         "load"))
    BY DEF RetryToolRun, Begin
  <1>3. t \in ToolRuns BY <1>2, MadeType
  <1>4. decide(t) \in Statements /\ decide(t).kind = "tool"
        /\ decide(t).patch.status = "pending_approval"
    BY <1>3, BothPatch, ToolParts DEF ToolStatuses, Approvals
  <1>5. wait \in Statements /\ wait.kind = "run" /\ wait.patch.status = "pending_approval"
        /\ "iterations" \notin DOMAIN wait.patch
    <2> DEFINE patch == [status |-> "pending_approval"]
    <2>1. patch \in RunPatches /\ patch.status = "pending_approval"
          /\ "iterations" \notin DOMAIN patch
      BY DEF RunPatches, RunStatuses
    <2> HIDE DEF patch
    <2>2. SetRun(patch) \in Statements /\ SetRun(patch).kind = "run" /\ SetRun(patch).patch = patch
      BY <2>1, RunParts
    <2> QED BY <2>1, <2>2 DEF patch
  <1>6. PICK pend \in Statements : pend = decide(t) BY <1>4
  <1> HIDE DEF decide, wait
  <1>7. CASE Go(p, Write(Idle, <<wait, decide(t)>>, "idle"))
    <2>1. PICK w \in RequestStates :
            /\ w = Write(Idle, <<wait, pend>>, "idle") /\ w.pc = "write" /\ w.then = "idle"
            /\ Len(w.todo) = 2 /\ w.todo[1] = wait /\ w.todo[2] = pend
      BY <1>5, <1>6, IdleTrusted, SomeThens, SendsTwo
    <2>2. /\ Places(w, "run") = {1} /\ Places(w, "tool") = {2}
          /\ \A i, j \in 1..Len(w.todo) : w.todo[i].kind = w.todo[j].kind => i = j
      <3>1. w.todo[1].kind = "run" /\ w.todo[2].kind = "tool" BY <1>4, <1>5, <1>6, <2>1
      <3> QED BY <2>1, <3>1, PlacesTwo
    <2>3. WillCount(w) BY <1>1, <1>5, <2>1, <2>2 DEF WillCount, Counts
    <2>4. WillWait(w) /\ WillPend(w)
      BY <1>4, <1>5, <1>6, <2>1, <2>2 DEF WillWait, WillPend
    <2>5. Settled(w) BY <2>1, <2>2, <2>3, <2>4 DEF Settled, SettledTodo
    <2>6. Go(p, w) BY <1>6, <1>7, <2>1
    <2> QED BY <1>1, <2>1, <2>5, <2>6, QuietSettled
  <1>8. CASE Go(p, Write([Idle EXCEPT !.tool = t],
                         <<SetTool(t, [status |-> "running", approval |-> tool[t].approval])>>,
                         "load"))
    <2>1. PICK approval \in Approvals : approval = tool[t].approval BY <1>2, MadeType DEF Rows
    <2>2. PICK w \in RequestStates :
            /\ w = Write([Idle EXCEPT !.tool = t],
                         <<SetTool(t, [status |-> "running", approval |-> approval])>>, "load")
            /\ Settled(w)
      BY <1>1, <1>3, <2>1, ResumesSettled
    <2>3. Go(p, w) BY <1>8, <2>1, <2>2
    <2> QED BY <1>1, <2>2, <2>3, QuietSettled
  <1> QED BY <1>2, <1>7, <1>8

LEMMA ContinueSettled ==
  ASSUME TypeOK, ApprovalInv, AloneInv, SettledInv, Alone, Alone', faults = 0,
         NEW p \in Requests, ContinueRunWithTokenBudget(p)
  PROVE  \E state \in RequestStates : ActsSettled(p, state)
PROOF
  <1>1. /\ Lone(p) /\ UNCHANGED <<run, tool, made, asked>>
        /\ run.iterations = asked /\ asked <= MaxIterations
    BY BeginsSettled
  <1> DEFINE new == [Idle EXCEPT !.iter = run.iterations]
             go == SetRun([status |-> "running"])
  <1>2. new \in RequestStates /\ new.iter = run.iterations
    <2>1. run.iterations \in Nat BY DEF TypeOK, Runs
    <2> QED BY <2>1, IdleTrusted DEF RequestStates
  <1>3. go \in Statements
    <2>1. [status |-> "running"] \in RunPatches BY DEF RunPatches, RunStatuses
    <2> QED BY <2>1, RunParts
  <1>4. Go(p, Write(new, <<go>>, "ask")) BY DEF ContinueRunWithTokenBudget, Begin
  <1> HIDE DEF new, go
  <1>5. PICK w \in RequestStates :
          /\ w = Write(new, <<go>>, "ask") /\ w.pc = "write" /\ w.then = "ask"
          /\ w.iter = new.iter /\ Len(w.todo) = 1 /\ \A i \in 1..Len(w.todo) : i = 1
    BY <1>2, <1>3, SomeThens, SendsOne
  <1>6. Settled(w) BY <1>1, <1>2, <1>5 DEF Settled, SettledTodo
  <1>7. Go(p, w) BY <1>4, <1>5
  <1> QED BY <1>1, <1>5, <1>6, <1>7, QuietSettled

-----------------------------------------------------------------------------
(* Every step of theirs, when nothing fails                                 *)

LEMMA StepSettled ==
  ASSUME TypeOK, ApprovalInv, AloneInv, SettledInv, [Next]_vars, ~UNCHANGED vars, Alone, Alone',
         faults = 0, faults' = 0
  PROVE  \E p \in Requests, state \in RequestStates : ActsSettled(p, state)
PROOF
  <1>1. \A p \in Requests : ~Fault(p) /\ ~Dropped(p) /\ ~RecordFails(p)
    BY DEF Fault, Dropped, RecordFails, Faulty
  <1> QED BY <1>1, StartSettled, NotAskedSettled, AskSettled, CallSettled, NextIterationSettled,
    ExecuteSettled, StoreRunSettled, ReadToolSettled, StoreToolSettled, LoadSettled,
    ApproveSettled, RejectSettled, RetrySettled, ContinueSettled DEF Next

LEMMA FaultsGrow ==
  ASSUME TypeOK, [Next]_vars, faults' = 0
  PROVE  faults = 0
PROOF
  <1>1. faults \in Nat BY BoundsAssumption DEF TypeOK
  <1>2. faults' = faults \/ faults' = faults + 1
    BY DEF Next, vars, Start, NotAsked, Ask, Call, NextIteration, Execute, StoreRun, ReadTool,
      StoreTool, Load, Fault, Dropped, RecordFails, Faulty, ApproveToolRun, RejectToolRun,
      RetryToolRun, ContinueRunWithTokenBudget, Begin
  <1> QED BY <1>1, <1>2

\* What p leaves holds of whoever is at work, and of everybody when nobody is.
LEMMA SettledKept ==
  ASSUME TypeOK, NEW p \in Requests, NEW state \in RequestStates, ActsSettled(p, state)
  PROVE  /\ asked' <= MaxIterations
         /\ Busy' = {} => Settled(Idle)'
         /\ \A q \in Busy' : Settled(req[q])'
PROOF
  <1>1. /\ req'[p] = state
        /\ \A q \in Requests : q # p => req'[q] = req[q] /\ req[q].pc = "idle"
    BY DEF ActsSettled, Go, TypeOK, At
  <1>2. \A q \in Busy' : q = p BY <1>1 DEF Busy, At
  <1>3. Settled(req[p])' BY <1>1 DEF ActsSettled, Settled, SettledTodo, WillCount, WillWait,
      WillPend, Places, Counts
  <1>4. ASSUME Busy' = {} PROVE Settled(Idle)'
    <2>1. state.pc = "idle" BY <1>1, <1>4 DEF Busy, At
    <2>2. run'.iterations = asked' /\ (Waits' <=> Pending' # {})
      BY <2>1 DEF ActsSettled, Settled
    <2> QED BY <2>2 DEF Settled, Idle
  <1> QED BY <1>2, <1>3, <1>4 DEF ActsSettled

LEMMA SettledStep ==
  TypeOK /\ ApprovalInv /\ AloneInv /\ SettledInv /\ [Next]_vars => SettledInv'
PROOF
  <1> SUFFICES ASSUME TypeOK, ApprovalInv, AloneInv, SettledInv, [Next]_vars PROVE SettledInv'
    OBVIOUS
  <1>1. CASE UNCHANGED vars
    <2>1. UNCHANGED <<run, tool, made, req, faults, asked, wrong>> BY <1>1 DEF vars
    <2>2. Busy' = Busy /\ (Alone' <=> Alone) BY <2>1 DEF Busy, At, Alone
    <2>3. Settled(Idle)' <=> Settled(Idle) BY <2>1, SettledStays
    <2>4. ASSUME NEW p \in Requests, Settled(req[p]) PROVE Settled(req[p])'
      <3>1. PICK held : held = req[p] /\ Settled(held) BY <2>4
      <3>2. Settled(held)' BY <2>1, <3>1, SettledStays
      <3>3. req'[p] = held BY <2>1, <3>1
      <3> QED BY <3>2, <3>3 DEF Settled, SettledTodo, WillCount, WillWait, WillPend, Places, Counts
    <2>5. Busy \subseteq Requests BY DEF Busy
    <2> QED BY <2>1, <2>2, <2>3, <2>4, <2>5 DEF SettledInv
  <1>2. CASE ~UNCHANGED vars
    <2>1. run'.status # "none" BY <1>2, Started
    <2>2. ASSUME Alone', faults' = 0
          PROVE  /\ asked' <= MaxIterations
                 /\ Busy' = {} => Settled(Idle)'
                 /\ \A q \in Busy' : Settled(req[q])'
      <3>1. Alone /\ faults = 0 BY <2>2, WrongGrows, FaultsGrow
      <3>2. PICK p \in Requests, state \in RequestStates : ActsSettled(p, state)
        BY <1>2, <2>2, <3>1, StepSettled
      <3> QED BY <3>2, SettledKept
    <2> QED BY <2>1, <2>2 DEF SettledInv
  <1> QED BY <1>1, <1>2

LEMMA SettledInit == Init => SettledInv
PROOF
  <1> SUFFICES ASSUME Init PROVE SettledInv OBVIOUS
  <1>1. Pending = {} /\ ~Waits BY DEF Init, Made, Pending, Waits
  <1>2. Busy = {} BY DEF Init, Busy, At, Idle
  <1>3. run.iterations = asked /\ asked = 0 BY DEF Init
  <1>4. Settled(Idle) BY <1>1, <1>3 DEF Settled, Idle
  <1> QED BY <1>2, <1>3, <1>4, BoundsAssumption DEF SettledInv

\* A run that nobody is at work on and nothing failed for waits when a tool run does.
LEMMA SettledDecides ==
  AloneInv /\ SettledInv => WaitingIsDecidable
PROOF
  <1> SUFFICES ASSUME AloneInv, SettledInv, Quiet, Alone, faults = 0
               PROVE  /\ run.status = "pending_approval" <=> Pending # {}
                      /\ Cardinality(Pending) <= 1
    BY DEF WaitingIsDecidable
  <1>1. Settled(Idle) BY DEF SettledInv, Quiet
  <1>2. run.status = "pending_approval" <=> Pending # {} BY <1>1 DEF Settled, Idle, Waits
  <1>3. \A t, u \in Pending : t = u BY PendingUnfinished DEF AloneInv, InOrder
  <1>4. CASE Pending = {}
    <2>1. Cardinality({}) = 0 BY FS_EmptySet
    <2> QED BY <1>2, <1>4, <2>1
  <1>5. CASE Pending # {}
    <2>1. PICK t : Pending = {t} BY <1>3, <1>5
    <2>2. Cardinality({t}) = 1 BY FS_Singleton
    <2> QED BY <1>2, <2>1, <2>2
  <1> QED BY <1>2, <1>4, <1>5

-----------------------------------------------------------------------------
(* Theorems                                                                 *)

\* The inductive invariant: types, the places an approval passes, and the order of a run
\* whose requests do not overlap.
THEOREM RunInvariant == Spec => [](TypeOK /\ ApprovalInv /\ AloneInv)
PROOF
  <1>1. Init => TypeOK /\ ApprovalInv /\ AloneInv BY InitInv, AloneInit
  <1>2. TypeOK /\ ApprovalInv /\ AloneInv /\ [Next]_vars => (TypeOK /\ ApprovalInv /\ AloneInv)'
    BY StepInv, AloneStep
  <1> QED BY <1>1, <1>2, PTL DEF Spec

\* Every variable has its type in every state.
THEOREM TypeCorrect == Spec => []TypeOK
PROOF BY RunInvariant, PTL

\* However many requests approve, reject and retry at once, and whatever fails between
\* the reading of a tool run and the writing of it: a tool that decideToolApproval holds
\* back is executed only after a user approved it.
THEOREM ApprovedFirst == Spec => []ApprovedBeforeExecuted
PROOF
  <1>1. ApprovalInv => ApprovedBeforeExecuted BY DEF ApprovalInv
  <1> QED BY <1>1, RunInvariant, PTL

\* However often requests that do not overlap fail, die, are decided and retried: when
\* RunWithTools asks the model again, the result of every tool run is in the conversation.
THEOREM AnsweredFirst == Spec => []AnsweredBeforeAsked
PROOF
  <1>1. AloneInv => AnsweredBeforeAsked BY DEF AloneInv, AnsweredBeforeAsked
  <1> QED BY <1>1, RunInvariant, PTL

\* The same for a run that is recorded as completed: all its tool runs are.
THEOREM CompletedFinished == Spec => []CompletedIsFinished
PROOF
  <1>1. AloneInv => CompletedIsFinished
    BY DEF AloneInv, CompletedIsFinished, InOrder, Over, Unfinished
  <1> QED BY <1>1, RunInvariant, PTL

\* What is counted and waited for stays right when nothing overlaps or fails.
THEOREM SettledInvariant == Spec => [](AloneInv /\ SettledInv)
PROOF
  <1>1. Init => SettledInv BY SettledInit
  <1>2. TypeOK /\ ApprovalInv /\ AloneInv /\ SettledInv /\ [Next]_vars => SettledInv'
    BY SettledStep
  <1> QED BY <1>1, <1>2, RunInvariant, PTL DEF Spec

\* Without faults and overlapping requests, when nobody is at work on the run it waits for
\* approval exactly when one tool run can be decided.
THEOREM WaitingDecidable == Spec => []WaitingIsDecidable
PROOF BY SettledInvariant, SettledDecides, PTL

\* Nor do approvals, retries and raised budgets let a run ask the model more often than its
\* agent allows.
THEOREM AsksBounded == Spec => []AsksAreBounded
PROOF
  <1>1. SettledInv => AsksAreBounded BY DEF SettledInv, AsksAreBounded
  <1> QED BY <1>1, SettledInvariant, PTL
=============================================================================
