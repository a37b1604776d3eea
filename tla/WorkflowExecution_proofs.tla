---------------------- MODULE WorkflowExecution_proofs ----------------------
(***************************************************************************)
(* Theorems about WorkflowExecution, for any executions, processes, finite *)
(* set of nodes, definitions and limits.                                   *)
(***************************************************************************)
EXTENDS WorkflowExecution, FiniteSetTheorems, TLAPS

-----------------------------------------------------------------------------
(* The rows                                                                 *)

NodeType == [Executions -> [NodeIds -> NodeRecords]]

\* What happens to rows: none disappears, what is ready or branched to stays so, attempts
\* stay within the bound, only a node with a row waits, and a node gets its first row after its parents or as a branch.
Grows ==
  /\ node' \in NodeType
  /\ decisions \in Nat /\ decisions' \in Nat /\ decisions <= decisions'
  /\ snapshot' = snapshot
  /\ \A e \in Executions : \A n \in NodeIds :
       /\ Exists(e, n) => Exists(e, n)'
       /\ node[e][n].ready => node'[e][n].ready
       /\ node[e][n].branched => node'[e][n].branched
       /\ node'[e][n].attempt <= Bound(decisions')
       /\ node'[e][n].waited => Exists(e, n)'
  /\ \A e \in Executions : \A n \in Nodes :
       Exists(e, n)' /\ ~Exists(e, n) =>
         node'[e][n].branched \/ \A m \in Parents(e, n) : node[e][m].ready

LEMMA TypeFacts ==
  ASSUME TypeOK
  PROVE  /\ node \in NodeType
         /\ \A e \in Executions : \A n \in NodeIds : node[e][n] \in NodeRecords
         /\ \A p \in Processes : proc[p] \in ProcRecords
         /\ \A e \in Executions : /\ snapshot[e].branch \in Nodes
                                  /\ snapshot[e].edges \in SUBSET (Nodes \X Nodes)
                                  /\ snapshot[e].policy \in [Nodes -> Strategies]
                                  /\ snapshot[e].forms \in SUBSET Nodes
         /\ decisions \in Nat /\ faults \in Nat
PROOF
  <1>1. \A d \in Definitions : /\ d.branch \in Nodes /\ d.edges \in SUBSET (Nodes \X Nodes)
                               /\ d.policy \in [Nodes -> Strategies] /\ d.forms \in SUBSET Nodes
    BY DefinitionsAssumption
  <1> QED BY <1>1, BoundsAssumption DEF TypeOK, NodeType

LEMMA BoundType ==
  ASSUME NEW a \in Nat, NEW b \in Nat, a <= b
  PROVE  /\ Bound(a) \in Nat /\ Bound(b) \in Nat /\ Bound(a) <= Bound(b) /\ 1 <= Bound(a)
         /\ MaxRetries + 1 <= Bound(a)
PROOF BY LimitsAssumption DEF Bound

LEMMA RowsKept ==
  ASSUME TypeOK, RowInv, UNCHANGED <<snapshot, node>>, decisions' \in Nat, decisions <= decisions'
  PROVE  Grows
PROOF
  <1>1. \A e \in Executions : \A n \in NodeIds : node[e][n].attempt \in Nat
    BY TypeFacts DEF NodeRecords
  <1>2. decisions \in Nat BY TypeFacts
  <1>3. Bound(decisions) \in Nat /\ Bound(decisions') \in Nat /\ Bound(decisions) <= Bound(decisions')
    BY <1>2, BoundType
  <1>4. \A e \in Executions : \A n \in NodeIds : node[e][n].attempt <= Bound(decisions')
    BY <1>1, <1>3 DEF RowInv
  <1>5. node' \in NodeType BY TypeFacts
  <1> QED BY <1>2, <1>4, <1>5 DEF Grows, Exists, RowInv

LEMMA WithRowFacts ==
  ASSUME NEW r \in NodeRecords, NEW st \in Latest \ {"none"}, NEW attempt \in Nat, NEW waits \in BOOLEAN
  PROVE  /\ WithRow(r, st, attempt, waits) \in NodeRecords
         /\ WithRow(r, st, attempt, waits).latest = st
         /\ r.ready => WithRow(r, st, attempt, waits).ready
         /\ WithRow(r, st, attempt, waits).branched = r.branched
         /\ WithRow(r, st, attempt, waits).attempt \in {r.attempt, attempt}
PROOF BY DEF WithRow, NodeRecords, Larger, Latest

\* A row of one node, and how it changes what is said of the node.
LEMMA OneRow ==
  ASSUME TypeOK, RowInv, UNCHANGED <<snapshot, decisions>>,
         NEW e \in Executions, NEW n \in NodeIds, NEW r \in NodeRecords,
         node' = [node EXCEPT ![e][n] = r],
         r.latest # "none", node[e][n].ready => r.ready, node[e][n].branched => r.branched,
         r.attempt <= Bound(decisions),
         n \in Nodes /\ ~Exists(e, n) => r.branched \/ \A m \in Parents(e, n) : node[e][m].ready
  PROVE  Grows
PROOF
  <1>1. /\ \A x \in Executions : \A k \in NodeIds : x # e \/ k # n => node'[x][k] = node[x][k]
        /\ node'[e][n] = r /\ node' \in NodeType
    BY TypeFacts DEF NodeType
  <1>2. decisions \in Nat /\ decisions' = decisions BY TypeFacts
  <1>3. \A x \in Executions : \A k \in NodeIds :
          /\ Exists(x, k) => Exists(x, k)'
          /\ node[x][k].ready => node'[x][k].ready
          /\ node[x][k].branched => node'[x][k].branched
          /\ node'[x][k].attempt <= Bound(decisions')
          /\ node'[x][k].waited => Exists(x, k)'
    <2> SUFFICES ASSUME NEW x \in Executions, NEW k \in NodeIds
                 PROVE  /\ Exists(x, k) => Exists(x, k)'
                        /\ node[x][k].ready => node'[x][k].ready
                        /\ node[x][k].branched => node'[x][k].branched
                        /\ node'[x][k].attempt <= Bound(decisions')
                        /\ node'[x][k].waited => Exists(x, k)'
      OBVIOUS
    <2>1. CASE x = e /\ k = n BY <1>1, <1>2, <2>1 DEF Exists
    <2>2. CASE x # e \/ k # n
      <3>1. node'[x][k] = node[x][k] BY <1>1, <2>2
      <3> QED BY <1>2, <3>1 DEF Exists, RowInv
    <2> QED BY <2>1, <2>2
  <1>4. ASSUME NEW x \in Executions, NEW k \in Nodes, Exists(x, k)', ~Exists(x, k)
        PROVE  node'[x][k].branched \/ \A m \in Parents(x, k) : node[x][m].ready
    <2>1. k \in NodeIds BY DEF NodeIds
    <2>2. x = e /\ k = n BY <1>1, <1>4, <2>1 DEF Exists
    <2> QED BY <1>1, <1>4, <2>2
  <1> QED BY <1>1, <1>2, <1>3, <1>4 DEF Grows

\* CreateNodeExecution for a node that has a row, or whose parents are ready.
LEMMA AddRowGrows ==
  ASSUME TypeOK, RowInv, UNCHANGED <<snapshot, decisions>>,
         NEW e \in Executions, NEW n \in NodeIds, NEW st \in Latest \ {"none"},
         NEW attempt \in Nat, NEW waits \in BOOLEAN,
         AddRow(e, n, st, attempt, waits), attempt <= Bound(decisions),
         n \in Nodes /\ ~Exists(e, n) => \A m \in Parents(e, n) : node[e][m].ready
  PROVE  Grows /\ rows' \in [Executions -> Nat]
PROOF
  <1> DEFINE r == WithRow(node[e][n], st, attempt, waits)
  <1>1. node[e][n] \in NodeRecords BY TypeFacts
  <1>2. /\ r \in NodeRecords /\ r.latest = st /\ r.branched = node[e][n].branched
        /\ node[e][n].ready => r.ready
        /\ r.attempt \in {node[e][n].attempt, attempt}
    <2>1. PICK k \in NodeRecords : k = node[e][n] BY <1>1
    <2>2. /\ WithRow(k, st, attempt, waits) \in NodeRecords
          /\ WithRow(k, st, attempt, waits).latest = st
          /\ k.ready => WithRow(k, st, attempt, waits).ready
          /\ WithRow(k, st, attempt, waits).branched = k.branched
          /\ WithRow(k, st, attempt, waits).attempt \in {k.attempt, attempt}
      BY WithRowFacts, Zenon
    <2> QED BY <2>1, <2>2, Zenon
  <1>3. node' = [node EXCEPT ![e][n] = r] BY DEF AddRow
  <1>4. r.attempt <= Bound(decisions) BY <1>2 DEF RowInv
  <1> HIDE DEF r
  <1>5. Grows BY <1>2, <1>3, <1>4, OneRow
  <1>6. rows' \in [Executions -> Nat] BY DEF AddRow, TypeOK
  <1> QED BY <1>5, <1>6

-----------------------------------------------------------------------------
(* What a process has in hand                                               *)

\* It stays in hand while others add rows and ask for things.
LEMMA FitsKept ==
  ASSUME TypeOK, Grows, NEW r \in ProcRecords, NEW asked \in Nat, asked <= decisions',
         Fits(r, asked)
  PROVE  Fits(r, decisions)'
PROOF
  <1>1. decisions' \in Nat BY DEF Grows
  <1>2. Bound(asked) \in Nat /\ Bound(decisions') \in Nat /\ Bound(asked) <= Bound(decisions')
    BY <1>1, BoundType
  <1>3. r.attempt \in Nat BY DEF ProcRecords
  <1>4. r.pc \in {"check", "insert"} =>
          /\ r.kind \notin {"retry", "continue"} => r.attempt <= Bound(decisions')
          /\ r.kind \in {"retry", "continue"} => r.attempt + 1 <= Bound(decisions') /\ r.then # "none"
    BY <1>2, <1>3 DEF Fits
  <1>5. r.pc \in {"execute", "check", "insert"} => r.node \in NodeIds /\ Exists(r.exec, r.node)'
    BY DEF Fits, Grows
  <1>6. r.pc = "child" => \A c \in r.kids : AllParentsReady(r.exec, c)'
    <2> SUFFICES ASSUME r.pc = "child", NEW c \in r.kids PROVE AllParentsReady(r.exec, c)' OBVIOUS
    <2>1. r.exec \in Executions /\ AllParentsReady(r.exec, c) BY DEF Fits
    <2>2. Parents(r.exec, c)' = Parents(r.exec, c) BY DEF Grows, Parents
    <2>3. Parents(r.exec, c) \subseteq NodeIds BY DEF Parents, NodeIds
    <2> QED BY <2>1, <2>2, <2>3 DEF AllParentsReady, Grows
  <1> QED BY <1>4, <1>5, <1>6 DEF Fits, Bound

\* What every action of a process p does.
Acts(p) ==
  /\ \E r \in ProcRecords : Go(p, r) /\ Fits(r, decisions')
  /\ Grows
  /\ rows' \in [Executions -> Nat]
  /\ wins' \in [Executions -> [NodeIds -> Nat]]
  /\ decisions' \in 0 .. EventBound /\ faults' \in 0 .. EventBound
  /\ overlapped' \subseteq Executions /\ faulted' \subseteq Executions

\* What every step does to an execution's status.
Moves == UNCHANGED status \/ Lifecycle!Next

LEMMA StatusType ==
  ASSUME TypeOK, Moves
  PROVE  status' \in [Executions -> Lifecycle!Statuses]
PROOF
  <1>1. CASE UNCHANGED status BY <1>1 DEF TypeOK
  <1>2. ASSUME NEW e \in Executions, Lifecycle!Create(e) PROVE status' \in [Executions -> Lifecycle!Statuses]
    BY <1>2 DEF Lifecycle!Create, Lifecycle!Statuses, TypeOK
  <1>3. ASSUME NEW e \in Executions, Lifecycle!Move(e) PROVE status' \in [Executions -> Lifecycle!Statuses]
    <2>1. PICK t \in Lifecycle!Transitions : status' = [status EXCEPT ![e] = t[3]]
      BY <1>3 DEF Lifecycle!Move
    <2>2. t[3] \in Lifecycle!Statuses
      BY DEF Lifecycle!Transitions, Lifecycle!Statuses, Lifecycle!Final
    <2> QED BY <2>1, <2>2 DEF TypeOK
  <1> QED BY <1>1, <1>2, <1>3 DEF Moves, Lifecycle!Next

LEMMA GrowsKeeps ==
  ASSUME ExecutionInv, Grows
  PROVE  RowInv' /\ ChildrenAfterParents'
PROOF
  <1>1. RowInv' BY DEF Grows, RowInv, Bound
  <1>2. ASSUME NEW e \in Executions, NEW c \in Nodes, Exists(e, c)', ~node'[e][c].branched,
               NEW m \in Parents(e, c)'
        PROVE  node'[e][m].ready
    <2>1. c \in NodeIds /\ m \in NodeIds /\ m \in Parents(e, c)
      BY <1>2 DEF NodeIds, Parents, Grows
    <2>2. node[e][m].ready BY <1>2, <2>1 DEF Grows, ExecutionInv, ChildrenAfterParents
    <2> QED BY <2>1, <2>2 DEF Grows
  <1> QED BY <1>1, <1>2 DEF ChildrenAfterParents

LEMMA ActsKeeps ==
  ASSUME ExecutionInv, NEW p \in Processes, Acts(p), Moves
  PROVE  ExecutionInv'
PROOF
  <1>0. TypeOK /\ ProcInv /\ Grows BY DEF ExecutionInv, Acts
  <1>1. PICK r \in ProcRecords : Go(p, r) /\ Fits(r, decisions') BY DEF Acts
  <1>2. /\ proc' \in [Processes -> ProcRecords] /\ proc'[p] = r
        /\ \A q \in Processes : q # p => proc'[q] = proc[q]
    BY <1>0, <1>1 DEF Go, TypeOK
  <1>3. snapshot' \in [Executions -> Definitions] /\ node' \in NodeType BY <1>0 DEF Grows, TypeOK
  <1>4. TypeOK' BY <1>0, <1>2, <1>3, StatusType DEF Acts, TypeOK, NodeType
  <1>5. ProcInv'
    <2> SUFFICES ASSUME NEW q \in Processes PROVE Fits(proc[q], decisions)' BY DEF ProcInv
    <2>1. decisions' \in Nat /\ decisions \in Nat /\ decisions <= decisions' BY <1>0 DEF Grows
    <2>2. PICK x \in ProcRecords : x = proc'[q] BY <1>2
    <2>3. CASE q = p
      <3>1. Fits(x, decisions') BY <1>1, <1>2, <2>2, <2>3
      <3>2. Fits(x, decisions)' BY <1>0, <2>1, <3>1, FitsKept
      <3> QED BY <2>2, <3>2
    <2>4. CASE q # p
      <3>1. Fits(x, decisions) BY <1>0, <1>2, <2>2, <2>4 DEF ProcInv
      <3>2. Fits(x, decisions)' BY <1>0, <2>1, <3>1, FitsKept
      <3> QED BY <2>2, <3>2
    <2> QED BY <2>3, <2>4
  <1>6. RowInv' /\ ChildrenAfterParents' BY <1>0, GrowsKeeps
  <1> QED BY <1>4, <1>5, <1>6 DEF ExecutionInv

-----------------------------------------------------------------------------
(* Steps that write no row                                                  *)

LEMMA EventsAre ==
  {"pause", "complete", "fail", "partial_success", "timeout", "max_iterations", "cancel",
   "resume", "start"} \subseteq Lifecycle!Events
PROOF BY DEF Lifecycle!Events, Lifecycle!Transitions

LEMMA Names ==
  /\ \A pc \in {"idle", "look", "execute", "check", "insert", "seed", "child", "branch",
                "read", "write", "back", "limits"} : pc \in Pcs
  /\ \A kind \in {"run", "resume", "retry", "continue", "branch", "fail", "pause", "cancel"} :
       kind \in Kinds
  /\ "absent" \in Lifecycle!Statuses
PROOF BY DEF Pcs, Kinds, Lifecycle!Statuses

LEMMA IdleFits ==
  ASSUME NEW asked \in Nat
  PROVE  Idle \in ProcRecords /\ Fits(Idle, asked)
PROOF BY DEF Idle, ProcRecords, Pcs, Kinds, Lifecycle!Statuses, Fits

LEMMA FailedFits ==
  ASSUME TypeOK, NEW p \in Processes, proc[p].pc # "idle", Fits(proc[p], decisions)
  PROVE  Failed(p) \in ProcRecords /\ Fits(Failed(p), decisions)
PROOF
  <1>1. proc[p] \in ProcRecords /\ decisions \in Nat BY TypeFacts
  <1>2. Idle \in ProcRecords /\ Fits(Idle, decisions) BY <1>1, IdleFits
  <1> DEFINE r == [proc[p] EXCEPT !.pc = "back", !.err = TRUE, !.event = "none", !.seen = "absent", !.kids = {}]
  <1>3. r \in ProcRecords /\ r.pc = "back" /\ r.exec = proc[p].exec
    BY <1>1 DEF ProcRecords, Pcs, Lifecycle!Statuses
  <1>4. Fits(r, decisions) BY <1>3 DEF Fits
  <1> QED BY <1>2, <1>3, <1>4 DEF Failed

\* A process that goes on to ask the state machine.
LEMMA TransitFits ==
  ASSUME TypeOK, NEW p \in Processes, proc[p].pc # "idle", Fits(proc[p], decisions),
         NEW event \in Lifecycle!Events, NEW then \in {"end", "look", "seed", "back"}
  PROVE  /\ Transit(p, event, then) \in ProcRecords /\ Fits(Transit(p, event, then), decisions)
         /\ End(p, event) \in ProcRecords /\ Fits(End(p, event), decisions)
PROOF
  <1>1. proc[p] \in ProcRecords /\ proc[p].exec \in Executions /\ Idle \in ProcRecords
    BY TypeFacts, IdleFits DEF Fits
  <1>2. /\ Transit(p, event, then) \in ProcRecords
        /\ Transit(p, event, then).pc = "read" /\ Transit(p, event, then).then = then
        /\ Transit(p, event, then).exec = proc[p].exec
    BY <1>1, Names DEF Transit, ProcRecords
  <1>3. /\ End(p, event) \in ProcRecords
        /\ End(p, event).pc = "read" /\ End(p, event).then = "end"
        /\ End(p, event).exec = proc[p].exec
    BY <1>1, Names DEF End, ProcRecords
  <1>4. Fits(Transit(p, event, then), decisions) BY <1>1, <1>2 DEF Fits
  <1>5. Fits(End(p, event), decisions) BY <1>1, <1>3 DEF Fits
  <1> QED BY <1>2, <1>3, <1>4, <1>5

LEMMA HeadFits ==
  ASSUME TypeOK, NEW p \in Processes, proc[p].pc # "idle", Fits(proc[p], decisions),
         NEW lastErr \in BOOLEAN, NEW r \in Head(p, lastErr)
  PROVE  r \in ProcRecords /\ Fits(r, decisions)
PROOF
  <1>1. proc[p] \in ProcRecords /\ proc[p].exec \in Executions /\ decisions \in Nat BY TypeFacts DEF Fits
  <1>2. Idle \in ProcRecords /\ Fits(Idle, decisions) BY <1>1, IdleFits
  <1>3. \A event \in {"complete", "partial_success", "max_iterations"} :
          End(p, event) \in ProcRecords /\ Fits(End(p, event), decisions)
    BY EventsAre, TransitFits
  <1>4. ASSUME NEW n \in NextNodes(proc[p].exec),
               r = [Idle EXCEPT !.pc = "execute", !.kind = "run", !.exec = proc[p].exec, !.node = n, !.then = "back",
                      !.lastErr = lastErr, !.ran = proc[p].ran, !.before = rows[proc[p].exec]]
        PROVE  r \in ProcRecords /\ Fits(r, decisions)
    <2>1. n \in NodeIds /\ Exists(proc[p].exec, n)
      BY <1>4 DEF NextNodes, PendingNodes, DueNodes, Exists
    <2>2. rows[proc[p].exec] \in Nat /\ proc[p].ran \in Nat BY <1>1 DEF TypeOK, ProcRecords
    <2>3. /\ r \in ProcRecords /\ r.pc = "execute" /\ r.kind = "run"
          /\ r.exec = proc[p].exec /\ r.node = n
      BY <1>1, <1>2, <1>4, <2>1, <2>2, Names DEF ProcRecords
    <2> QED BY <1>1, <2>1, <2>3 DEF Fits
  <1>5. \/ r = Idle
        \/ r \in {End(p, event) : event \in {"complete", "partial_success", "max_iterations"}}
        \/ \E n \in NextNodes(proc[p].exec) :
             r = [Idle EXCEPT !.pc = "execute", !.kind = "run", !.exec = proc[p].exec, !.node = n, !.then = "back",
                    !.lastErr = lastErr, !.ran = proc[p].ran, !.before = rows[proc[p].exec]]
    BY DEF Head, CompletionEvent
  <1> QED BY <1>2, <1>3, <1>4, <1>5

\* A step that writes no row and puts a fitting record in p's hand.
LEMMA KeepActs ==
  ASSUME ExecutionInv, NEW p \in Processes, NEW r \in ProcRecords, Go(p, r), Fits(r, decisions'),
         UNCHANGED <<snapshot, rows, node, wins>>, decisions' \in 0 .. EventBound, decisions <= decisions',
         faults' \in 0 .. EventBound, overlapped' \subseteq Executions, faulted' \subseteq Executions
  PROVE  Acts(p)
PROOF
  <1>1. decisions' \in Nat BY BoundsAssumption
  <1>2. Grows BY <1>1, RowsKept DEF ExecutionInv
  <1> QED BY <1>2 DEF Acts, ExecutionInv, TypeOK

\* ... and changes nothing else.
LEMMA QuietActs ==
  ASSUME ExecutionInv, NEW p \in Processes, NEW r \in ProcRecords, Go(p, r), Fits(r, decisions),
         UNCHANGED <<snapshot, rows, node, wins, decisions, faults, overlapped, faulted>>
  PROVE  Acts(p)
PROOF
  <1>1. decisions \in Nat BY TypeFacts DEF ExecutionInv
  <1> QED BY <1>1, KeepActs DEF ExecutionInv, TypeOK

LEMMA LookActs ==
  ASSUME ExecutionInv, NEW p \in Processes, Look(p), UNCHANGED snapshot
  PROVE  Acts(p)
PROOF
  <1>1. PICK r \in Head(p, FALSE) : Go(p, r) BY DEF Look
  <1>2. r \in ProcRecords /\ Fits(r, decisions)
    BY HeadFits DEF Look, At, ExecutionInv, ProcInv
  <1> QED BY <1>1, <1>2, QuietActs DEF Look, Unhurt

LEMMA ExecuteActs ==
  ASSUME ExecutionInv, NEW p \in Processes, Execute(p), UNCHANGED snapshot
  PROVE  Acts(p)
PROOF
  <1>1. /\ TypeOK /\ proc[p] \in ProcRecords /\ Fits(proc[p], decisions) /\ proc[p].pc = "execute"
        /\ decisions \in Nat
    BY TypeFacts DEF ExecutionInv, ProcInv, Execute, At
  <1>2. /\ proc[p].exec \in Executions /\ proc[p].node \in NodeIds
        /\ Exists(proc[p].exec, proc[p].node) /\ proc[p].kind = "run"
    BY <1>1 DEF Fits
  <1> DEFINE a == node[proc[p].exec][proc[p].node].attempt
             done == [proc[p] EXCEPT !.pc = "check", !.ran = @ + 1, !.attempt = a]
  <1>3. a \in Nat /\ a <= Bound(decisions) /\ proc[p].ran + 1 \in Nat
    <2>1. proc[p].ran \in Nat BY <1>1 DEF ProcRecords
    <2>2. a \in Nat /\ a <= Bound(decisions)
      BY <1>1, <1>2, TypeFacts DEF ExecutionInv, RowInv, NodeRecords
    <2> QED BY <2>1, <2>2
  <1> HIDE DEF a
  <1>4. /\ done \in ProcRecords /\ done.exec = proc[p].exec /\ done.node = proc[p].node
        /\ done.attempt = a /\ done.kind = "run"
    BY <1>1, <1>2, <1>3, Names DEF ProcRecords
  <1>5. \/ Go(p, [done EXCEPT !.pc = "back", !.attempt = 0, !.err = TRUE])
        \/ \E pc \in {"check", "insert"} : \E o \in {"succeeded", "failed", "waiting"} :
             Go(p, [done EXCEPT !.pc = pc, !.outcome = o])
    BY <1>4 DEF Execute, ProcRecords, a
  <1> HIDE DEF done
  <1>6. CASE Go(p, [done EXCEPT !.pc = "back", !.attempt = 0, !.err = TRUE])
    <2>1. PICK r : r = [done EXCEPT !.pc = "back", !.attempt = 0, !.err = TRUE] OBVIOUS
    <2>2. r \in ProcRecords /\ r.pc = "back" /\ r.exec = proc[p].exec
      BY <1>4, <2>1 DEF ProcRecords, Pcs
    <2>3. Fits(r, decisions) BY <1>2, <2>2 DEF Fits
    <2> QED BY <1>6, <2>1, <2>2, <2>3, QuietActs DEF Execute, Unhurt
  <1>7. ASSUME NEW pc \in {"check", "insert"}, NEW o \in {"succeeded", "failed", "waiting"},
               Go(p, [done EXCEPT !.pc = pc, !.outcome = o])
        PROVE  Acts(p)
    <2>1. PICK r : r = [done EXCEPT !.pc = pc, !.outcome = o] OBVIOUS
    <2>2. /\ r \in ProcRecords /\ r.pc = pc /\ r.exec = proc[p].exec /\ r.node = proc[p].node
          /\ r.attempt = a /\ r.kind = "run"
      BY <1>1, <1>4, <2>1 DEF ProcRecords, Pcs
    <2>3. Fits(r, decisions) BY <1>1, <1>2, <1>3, <2>2 DEF Fits
    <2> QED BY <1>7, <2>1, <2>2, <2>3, QuietActs DEF Execute, Unhurt
  <1> QED BY <1>5, <1>6, <1>7

LEMMA CheckActs ==
  ASSUME ExecutionInv, NEW p \in Processes, Check(p), UNCHANGED snapshot
  PROVE  Acts(p)
PROOF
  <1>1. /\ TypeOK /\ proc[p] \in ProcRecords /\ Fits(proc[p], decisions) /\ proc[p].pc = "check"
        /\ proc[p].exec \in Executions
    BY TypeFacts DEF ExecutionInv, ProcInv, Check, At, Fits
  <1>2. Failed(p) \in ProcRecords /\ Fits(Failed(p), decisions) BY <1>1, FailedFits
  <1>3. CASE Go(p, Failed(p)) BY <1>2, <1>3, QuietActs DEF Check, Unhurt
  <1>4. ASSUME NEW kids \in SUBSET Nodes,
               Go(p, [proc[p] EXCEPT !.pc = "insert", !.seen = status[proc[p].exec], !.kids = kids])
        PROVE  Acts(p)
    <2>1. PICK r : r = [proc[p] EXCEPT !.pc = "insert", !.seen = status[proc[p].exec], !.kids = kids] OBVIOUS
    <2>2. status[proc[p].exec] \in Lifecycle!Statuses BY <1>1 DEF TypeOK
    <2>3. /\ r \in ProcRecords /\ r.pc = "insert" /\ r.exec = proc[p].exec /\ r.node = proc[p].node
          /\ r.attempt = proc[p].attempt /\ r.kind = proc[p].kind /\ r.then = proc[p].then
      BY <1>1, <2>1, <2>2, Names DEF ProcRecords
    <2>4. Fits(r, decisions) BY <1>1, <2>3 DEF Fits
    <2> QED BY <1>4, <2>1, <2>3, <2>4, QuietActs DEF Check, Unhurt
  <1>5. Branch(proc[p].exec) \in Nodes BY <1>1, TypeFacts DEF Branch
  <1>6. \/ Go(p, Failed(p))
        \/ Go(p, [proc[p] EXCEPT !.pc = "insert", !.seen = status[proc[p].exec], !.kids = {Branch(proc[p].exec)}])
        \/ Go(p, [proc[p] EXCEPT !.pc = "insert", !.seen = status[proc[p].exec], !.kids = {}])
    BY DEF Check
  <1>7. {Branch(proc[p].exec)} \in SUBSET Nodes /\ {} \in SUBSET Nodes BY <1>5
  <1>8. \E kids \in SUBSET Nodes :
          \/ Go(p, Failed(p))
          \/ Go(p, [proc[p] EXCEPT !.pc = "insert", !.seen = status[proc[p].exec], !.kids = kids])
    BY <1>6, <1>7, Zenon
  <1> QED BY <1>3, <1>4, <1>8

LEMMA SeedActs ==
  ASSUME ExecutionInv, NEW p \in Processes, Seed(p), UNCHANGED snapshot
  PROVE  Acts(p)
PROOF
  <1>1. /\ proc[p] \in ProcRecords /\ proc[p].exec \in Executions
    BY TypeFacts DEF ExecutionInv, ProcInv, Seed, At, Fits
  <1>2. PICK kids \in SUBSET Nodes :
          /\ Go(p, [proc[p] EXCEPT !.pc = "child", !.kids = kids])
          /\ \A c \in kids : AllParentsReady(proc[p].exec, c)
    <2>1. /\ ReadyChildren(proc[p].exec, proc[p].node) \in SUBSET Nodes
          /\ \A c \in ReadyChildren(proc[p].exec, proc[p].node) : AllParentsReady(proc[p].exec, c)
      BY DEF ReadyChildren
    <2> QED BY <2>1 DEF Seed
  <1>3. PICK r : r = [proc[p] EXCEPT !.pc = "child", !.kids = kids] OBVIOUS
  <1>4. /\ r \in ProcRecords /\ r.pc = "child" /\ r.exec = proc[p].exec /\ r.kids = kids
    BY <1>1, <1>3, Names DEF ProcRecords
  <1>5. Fits(r, decisions) BY <1>1, <1>2, <1>4 DEF Fits
  <1> QED BY <1>2, <1>3, <1>4, <1>5, QuietActs DEF Seed, Quiet, Unhurt

LEMMA ReadActs ==
  ASSUME ExecutionInv, NEW p \in Processes, Read(p), UNCHANGED snapshot
  PROVE  Acts(p)
PROOF
  <1>1. /\ TypeOK /\ proc[p] \in ProcRecords /\ Fits(proc[p], decisions) /\ proc[p].pc = "read"
        /\ proc[p].exec \in Executions
    BY TypeFacts DEF ExecutionInv, ProcInv, Read, At, Fits
  <1>2. Failed(p) \in ProcRecords /\ Fits(Failed(p), decisions) BY <1>1, FailedFits
  <1>3. CASE Go(p, Failed(p)) BY <1>2, <1>3, QuietActs DEF Read, Quiet, Unhurt
  <1>4. CASE /\ Lifecycle!Allowed(status[proc[p].exec], proc[p].event)
             /\ Go(p, [proc[p] EXCEPT !.pc = "write", !.seen = status[proc[p].exec]])
    <2>1. PICK r : r = [proc[p] EXCEPT !.pc = "write", !.seen = status[proc[p].exec]] OBVIOUS
    <2>2. status[proc[p].exec] \in Lifecycle!Statuses BY <1>1 DEF TypeOK
    <2>3. /\ r \in ProcRecords /\ r.pc = "write" /\ r.exec = proc[p].exec
          /\ r.seen = status[proc[p].exec] /\ r.event = proc[p].event /\ r.then = proc[p].then
      BY <1>1, <2>1, <2>2, Names DEF ProcRecords
    <2>4. Lifecycle!Allowed(r.seen, r.event) BY <1>4, <2>3
    <2>5. Fits(r, decisions) BY <1>1, <2>3, <2>4 DEF Fits
    <2> QED BY <1>4, <2>1, <2>3, <2>5, QuietActs DEF Read, Quiet, Unhurt
  <1> QED BY <1>3, <1>4 DEF Read

LEMMA WriteActs ==
  ASSUME ExecutionInv, NEW p \in Processes, Write(p), UNCHANGED snapshot
  PROVE  Acts(p)
PROOF
  <1>1. /\ TypeOK /\ proc[p] \in ProcRecords /\ Fits(proc[p], decisions) /\ proc[p].pc = "write"
        /\ proc[p].exec \in Executions /\ proc[p].then # "none" /\ decisions \in Nat
    BY TypeFacts DEF ExecutionInv, ProcInv, Write, At, Fits
  <1>2. Failed(p) \in ProcRecords /\ Fits(Failed(p), decisions) BY <1>1, FailedFits
  <1>3. CASE Go(p, Failed(p)) BY <1>2, <1>3, QuietActs DEF Write, Unhurt
  <1>4. CASE Go(p, Idle) BY <1>1, <1>4, IdleFits, QuietActs DEF Write, Unhurt
  <1>5. CASE /\ proc[p].then # "end"
             /\ Go(p, [proc[p] EXCEPT !.pc = proc[p].then, !.event = "none", !.seen = "absent"])
    <2>1. PICK r : r = [proc[p] EXCEPT !.pc = proc[p].then, !.event = "none", !.seen = "absent"] OBVIOUS
    <2>2. proc[p].then \in {"look", "seed", "back"} BY <1>1, <1>5 DEF ProcRecords
    <2>3. proc[p].then \in Pcs BY <2>2, Names
    <2>4. r \in ProcRecords /\ r.pc \in {"look", "seed", "back"} /\ r.exec = proc[p].exec
      BY <1>1, <2>1, <2>2, <2>3, Names DEF ProcRecords
    <2>5. Fits(r, decisions) BY <1>1, <2>4 DEF Fits
    <2> QED BY <1>5, <2>1, <2>4, <2>5, QuietActs DEF Write, Unhurt
  <1> QED BY <1>3, <1>4, <1>5 DEF Write

LEMMA BackActs ==
  ASSUME ExecutionInv, NEW p \in Processes, Back(p), UNCHANGED snapshot
  PROVE  Acts(p)
PROOF
  <1>1. /\ TypeOK /\ proc[p] \in ProcRecords /\ Fits(proc[p], decisions) /\ proc[p].pc = "back"
        /\ proc[p].exec \in Executions /\ decisions \in Nat
    BY TypeFacts DEF ExecutionInv, ProcInv, Back, At, Fits
  <1>2. CASE Go(p, Idle) BY <1>1, <1>2, IdleFits, QuietActs DEF Back, Quiet, Unhurt
  <1>3. ASSUME NEW lastErr \in BOOLEAN, NEW r \in Head(p, lastErr), Go(p, r) PROVE Acts(p)
    <2>1. r \in ProcRecords /\ Fits(r, decisions) BY <1>1, HeadFits
    <2> QED BY <1>3, <2>1, QuietActs DEF Back, Quiet, Unhurt
  <1>4. CASE Go(p, [proc[p] EXCEPT !.pc = "limits", !.node = NoNode, !.outcome = "none", !.before = 0])
    <2>1. PICK r : r = [proc[p] EXCEPT !.pc = "limits", !.node = NoNode, !.outcome = "none", !.before = 0]
      OBVIOUS
    <2>2. r \in ProcRecords /\ r.pc = "limits" /\ r.exec = proc[p].exec
      BY <1>1, <2>1, Names DEF ProcRecords
    <2>3. Fits(r, decisions) BY <1>1, <2>2 DEF Fits
    <2> QED BY <1>4, <2>1, <2>2, <2>3, QuietActs DEF Back, Quiet, Unhurt
  <1>5. \/ Go(p, Idle)
        \/ \E lastErr \in BOOLEAN : \E r \in Head(p, lastErr) : Go(p, r)
        \/ Go(p, [proc[p] EXCEPT !.pc = "limits", !.node = NoNode, !.outcome = "none", !.before = 0])
    BY DEF Back
  <1> QED BY <1>2, <1>3, <1>4, <1>5

-----------------------------------------------------------------------------
(* Steps that write rows                                                    *)

LEMMA RowActs ==
  ASSUME ExecutionInv, NEW p \in Processes, NEW r \in ProcRecords, Go(p, r), Fits(r, decisions),
         UNCHANGED <<decisions, faults, overlapped, faulted>>, Grows,
         rows' \in [Executions -> Nat], wins' \in [Executions -> [NodeIds -> Nat]]
  PROVE  Acts(p)
PROOF
  <1>1. decisions' = decisions OBVIOUS
  <1> QED BY <1>1 DEF Acts, ExecutionInv, TypeOK

\* What a process that is about to insert holds.
LEMMA Inserting ==
  ASSUME ExecutionInv, NEW p \in Processes, proc[p].pc = "insert"
  PROVE  /\ TypeOK /\ RowInv /\ proc[p] \in ProcRecords /\ Fits(proc[p], decisions)
         /\ proc[p].exec \in Executions /\ proc[p].node \in NodeIds
         /\ Exists(proc[p].exec, proc[p].node)
         /\ proc[p].attempt \in Nat /\ proc[p].attempt <= Bound(decisions)
         /\ decisions \in Nat /\ wins \in [Executions -> [NodeIds -> Nat]]
PROOF
  <1>1. /\ TypeOK /\ RowInv /\ proc[p] \in ProcRecords /\ Fits(proc[p], decisions)
        /\ decisions \in Nat /\ Bound(decisions) \in Nat
    BY TypeFacts, BoundType DEF ExecutionInv, ProcInv
  <1>2. /\ proc[p].exec \in Executions /\ proc[p].node \in NodeIds
        /\ Exists(proc[p].exec, proc[p].node)
    BY <1>1 DEF Fits
  <1>3. proc[p].attempt \in Nat BY <1>1 DEF ProcRecords
  <1>4. proc[p].attempt <= Bound(decisions) \/ proc[p].attempt + 1 <= Bound(decisions)
    BY <1>1 DEF Fits
  <1>5. proc[p].attempt <= Bound(decisions) BY <1>1, <1>3, <1>4
  <1> QED BY <1>1, <1>2, <1>3, <1>5 DEF TypeOK

LEMMA InsertSuccessActs ==
  ASSUME ExecutionInv, NEW p \in Processes, InsertSuccess(p), UNCHANGED snapshot
  PROVE  Acts(p)
PROOF
  <1>1. /\ TypeOK /\ RowInv /\ proc[p] \in ProcRecords
        /\ proc[p].exec \in Executions /\ proc[p].node \in NodeIds
        /\ Exists(proc[p].exec, proc[p].node)
        /\ proc[p].attempt \in Nat /\ proc[p].attempt <= Bound(decisions)
        /\ wins \in [Executions -> [NodeIds -> Nat]]
    BY Inserting DEF InsertSuccess, At
  <1>2. UNCHANGED <<decisions, faults, overlapped, faulted>> BY DEF InsertSuccess, Quiet, Unhurt
  <1>3. AddRow(proc[p].exec, proc[p].node, "succeeded", proc[p].attempt, FALSE) BY DEF InsertSuccess
  <1>4. "succeeded" \in Latest \ {"none"} BY DEF Latest
  <1>5. Grows /\ rows' \in [Executions -> Nat] BY <1>1, <1>2, <1>3, <1>4, AddRowGrows
  <1>6. wins' \in [Executions -> [NodeIds -> Nat]] BY <1>1 DEF InsertSuccess
  <1>7. PICK r : r = [proc[p] EXCEPT !.pc = "seed", !.attempt = 0, !.seen = "absent"] OBVIOUS
  <1>8. r \in ProcRecords /\ r.pc = "seed" /\ r.exec = proc[p].exec
    BY <1>1, <1>7, Names DEF ProcRecords
  <1>9. Fits(r, decisions) BY <1>1, <1>8 DEF Fits
  <1>10. Go(p, r) BY <1>7 DEF InsertSuccess
  <1> QED BY <1>2, <1>5, <1>6, <1>8, <1>9, <1>10, RowActs

LEMMA InsertWaitActs ==
  ASSUME ExecutionInv, NEW p \in Processes, InsertWait(p), UNCHANGED snapshot
  PROVE  Acts(p)
PROOF
  <1>1. /\ TypeOK /\ RowInv /\ proc[p] \in ProcRecords /\ Fits(proc[p], decisions)
        /\ proc[p].exec \in Executions /\ proc[p].node \in NodeIds
        /\ Exists(proc[p].exec, proc[p].node) /\ proc[p].pc = "insert"
        /\ proc[p].attempt \in Nat /\ proc[p].attempt <= Bound(decisions)
        /\ wins \in [Executions -> [NodeIds -> Nat]]
    BY Inserting DEF InsertWait, At
  <1>2. UNCHANGED <<decisions, faults, overlapped, faulted, wins>> BY DEF InsertWait, Quiet, Unhurt
  <1>3. AddRow(proc[p].exec, proc[p].node, "pending", proc[p].attempt, TRUE) BY DEF InsertWait
  <1>4. "pending" \in Latest \ {"none"} BY DEF Latest
  <1>5. Grows /\ rows' \in [Executions -> Nat] BY <1>1, <1>2, <1>3, <1>4, AddRowGrows
  <1>6. PICK t : t = Transit(p, "pause", "back") OBVIOUS
  <1>7. t \in ProcRecords /\ t.pc = "read" /\ t.exec = proc[p].exec /\ t.then = "back"
    <2>1. t \in ProcRecords BY <1>1, <1>6, EventsAre, TransitFits
    <2>2. t.pc = "read" /\ t.exec = proc[p].exec /\ t.then = "back"
      BY <1>1, <1>6 DEF Transit, ProcRecords
    <2> QED BY <2>1, <2>2
  <1>8. PICK r : r = [t EXCEPT !.err = TRUE, !.attempt = 0] OBVIOUS
  <1>9. r \in ProcRecords /\ r.pc = "read" /\ r.exec = proc[p].exec /\ r.then = "back"
    BY <1>7, <1>8 DEF ProcRecords
  <1>10. Fits(r, decisions) BY <1>1, <1>9 DEF Fits
  <1>11. Go(p, r) BY <1>6, <1>8 DEF InsertWait
  <1>12. wins' \in [Executions -> [NodeIds -> Nat]] BY <1>1, <1>2
  <1> QED BY <1>2, <1>5, <1>9, <1>10, <1>11, <1>12, RowActs

LEMMA InsertDecisionActs ==
  ASSUME ExecutionInv, NEW p \in Processes, InsertDecision(p), UNCHANGED snapshot
  PROVE  Acts(p)
PROOF
  <1>1. /\ TypeOK /\ RowInv /\ proc[p] \in ProcRecords /\ Fits(proc[p], decisions)
        /\ proc[p].exec \in Executions /\ proc[p].node \in NodeIds
        /\ Exists(proc[p].exec, proc[p].node) /\ proc[p].pc = "insert"
        /\ proc[p].attempt \in Nat /\ proc[p].attempt <= Bound(decisions)
        /\ wins \in [Executions -> [NodeIds -> Nat]]
    BY Inserting DEF InsertDecision, At
  <1>2. UNCHANGED <<decisions, faults, overlapped, faulted, wins>> BY DEF InsertDecision, Quiet, Unhurt
  <1>3. /\ proc[p].kind \in {"retry", "continue"}
        /\ \E st \in {"pending", "skipped"}, a \in {proc[p].attempt, proc[p].attempt + 1} :
             AddRow(proc[p].exec, proc[p].node, st, a, FALSE)
    BY DEF InsertDecision
  <1>4. PICK st \in {"pending", "skipped"}, a \in {proc[p].attempt, proc[p].attempt + 1} :
          AddRow(proc[p].exec, proc[p].node, st, a, FALSE)
    BY <1>3
  <1>5. proc[p].attempt + 1 <= Bound(decisions) /\ proc[p].then # "none" BY <1>1, <1>3 DEF Fits
  <1>6. st \in Latest \ {"none"} /\ a \in Nat /\ a <= Bound(decisions) BY <1>1, <1>5 DEF Latest
  <1>7. Grows /\ rows' \in [Executions -> Nat] BY <1>1, <1>2, <1>4, <1>6, AddRowGrows
  <1>8. PICK r : r = [proc[p] EXCEPT !.pc = "read"] OBVIOUS
  <1>9. r \in ProcRecords /\ r.pc = "read" /\ r.exec = proc[p].exec /\ r.then = proc[p].then
    BY <1>1, <1>8, Names DEF ProcRecords
  <1>10. Fits(r, decisions) BY <1>1, <1>5, <1>9 DEF Fits
  <1>11. Go(p, r) BY <1>8 DEF InsertDecision
  <1>12. wins' \in [Executions -> [NodeIds -> Nat]] BY <1>1, <1>2
  <1> QED BY <1>2, <1>7, <1>9, <1>10, <1>11, <1>12, RowActs

LEMMA InsertFailureActs ==
  ASSUME ExecutionInv, NEW p \in Processes, InsertFailure(p), UNCHANGED snapshot
  PROVE  Acts(p)
PROOF
  <1>1. /\ TypeOK /\ RowInv /\ proc[p] \in ProcRecords /\ Fits(proc[p], decisions)
        /\ proc[p].exec \in Executions /\ proc[p].node \in NodeIds
        /\ Exists(proc[p].exec, proc[p].node) /\ proc[p].pc = "insert"
        /\ proc[p].attempt \in Nat /\ proc[p].attempt <= Bound(decisions)
        /\ wins \in [Executions -> [NodeIds -> Nat]] /\ decisions \in Nat
    BY Inserting DEF InsertFailure, At
  <1>2. UNCHANGED <<decisions, faults, overlapped, faulted, wins>> BY DEF InsertFailure, Quiet, Unhurt
  <1>3. PICK st \in {"failed", "retrying", "skipped"}, a \in {proc[p].attempt, proc[p].attempt + 1} :
          /\ AddRow(proc[p].exec, proc[p].node, st, a, FALSE)
          /\ a # proc[p].attempt => proc[p].attempt <= MaxRetries
    <2>1. \/ AddRow(proc[p].exec, proc[p].node, "failed", proc[p].attempt, FALSE)
          \/ /\ AddRow(proc[p].exec, proc[p].node, "retrying", proc[p].attempt + 1, FALSE)
             /\ ~Exhausted(proc[p].attempt)
          \/ AddRow(proc[p].exec, proc[p].node, "skipped", proc[p].attempt, FALSE)
      BY DEF InsertFailure
    <2>2. ~Exhausted(proc[p].attempt) => proc[p].attempt <= MaxRetries
      BY <1>1, LimitsAssumption DEF Exhausted
    <2> QED BY <2>1, <2>2
  <1>4. st \in Latest \ {"none"} /\ a \in Nat /\ a <= Bound(decisions)
    BY <1>1, <1>3, LimitsAssumption DEF Latest, Bound
  <1>5. Grows /\ rows' \in [Executions -> Nat] BY <1>1, <1>2, <1>3, <1>4, AddRowGrows
  <1>6. ASSUME NEW next \in ProcRecords, next.pc \in {"read", "back", "branch", "seed"},
               next.exec = proc[p].exec, next.pc = "read" => next.then # "none",
               Go(p, [next EXCEPT !.err = TRUE, !.attempt = 0, !.outcome = "none", !.seen = "absent"])
        PROVE  Acts(p)
    <2>1. PICK r : r = [next EXCEPT !.err = TRUE, !.attempt = 0, !.outcome = "none", !.seen = "absent"]
      OBVIOUS
    <2>2. /\ r \in ProcRecords /\ r.pc = next.pc /\ r.exec = proc[p].exec /\ r.then = next.then
      BY <1>6, <2>1, Names DEF ProcRecords
    <2>3. Fits(r, decisions) BY <1>1, <1>6, <2>2 DEF Fits
    <2>4. wins' \in [Executions -> [NodeIds -> Nat]] BY <1>1, <1>2
    <2> QED BY <1>2, <1>5, <1>6, <2>1, <2>2, <2>3, <2>4, RowActs
  <1>7. \A event \in {"fail", "start", "partial_success", "pause"}, then \in {"back", "seed"} :
          /\ Transit(p, event, then) \in ProcRecords /\ Transit(p, event, then).pc = "read"
          /\ Transit(p, event, then).exec = proc[p].exec /\ Transit(p, event, then).then = then
    <2> SUFFICES ASSUME NEW event \in {"fail", "start", "partial_success", "pause"},
                        NEW then \in {"back", "seed"}
                 PROVE  /\ Transit(p, event, then) \in ProcRecords /\ Transit(p, event, then).pc = "read"
                        /\ Transit(p, event, then).exec = proc[p].exec /\ Transit(p, event, then).then = then
      OBVIOUS
    <2>1. Transit(p, event, then) \in ProcRecords BY <1>1, EventsAre, TransitFits
    <2> QED BY <1>1, <2>1 DEF Transit, ProcRecords
  <1>8. \A pc \in {"back", "branch"} :
          /\ [proc[p] EXCEPT !.pc = pc] \in ProcRecords /\ [proc[p] EXCEPT !.pc = pc].pc = pc
          /\ [proc[p] EXCEPT !.pc = pc].exec = proc[p].exec
    BY <1>1, Names DEF ProcRecords
  <1>9. \E next \in {Transit(p, "fail", "back"), Transit(p, "start", "back"), Transit(p, "pause", "back"),
                     Transit(p, "partial_success", "seed"),
                     [proc[p] EXCEPT !.pc = "back"], [proc[p] EXCEPT !.pc = "branch"]} :
          Go(p, [next EXCEPT !.err = TRUE, !.attempt = 0, !.outcome = "none", !.seen = "absent"])
    BY DEF InsertFailure
  <1>10. PICK next \in {Transit(p, "fail", "back"), Transit(p, "start", "back"), Transit(p, "pause", "back"),
                        Transit(p, "partial_success", "seed"),
                        [proc[p] EXCEPT !.pc = "back"], [proc[p] EXCEPT !.pc = "branch"]} :
           Go(p, [next EXCEPT !.err = TRUE, !.attempt = 0, !.outcome = "none", !.seen = "absent"])
    BY <1>9
  <1>11. /\ next \in ProcRecords /\ next.pc \in {"read", "back", "branch", "seed"}
         /\ next.exec = proc[p].exec /\ (next.pc = "read" => next.then # "none")
    <2>1. CASE \E event \in {"fail", "start", "partial_success", "pause"}, then \in {"back", "seed"} :
                 next = Transit(p, event, then)
      <3>1. PICK event \in {"fail", "start", "partial_success", "pause"}, then \in {"back", "seed"} :
              next = Transit(p, event, then)
        BY <2>1
      <3> QED BY <1>7, <3>1
    <2>2. CASE \E pc \in {"back", "branch"} : next = [proc[p] EXCEPT !.pc = pc]
      <3>1. PICK pc \in {"back", "branch"} : next = [proc[p] EXCEPT !.pc = pc] BY <2>2
      <3> QED BY <1>8, <3>1
    <2> QED BY <1>10, <2>1, <2>2
  <1> QED BY <1>6, <1>10, <1>11

LEMMA InsertedFits ==
  ASSUME TypeOK, NEW p \in Processes, proc[p].pc # "idle", Fits(proc[p], decisions)
  PROVE  /\ Inserted(p) \in ProcRecords /\ Inserted(p).pc \in {"back", "look", "read"}
         /\ Inserted(p).exec = proc[p].exec
         /\ Inserted(p).pc = "read" => Inserted(p).then # "none"
         /\ Fits(Inserted(p), decisions)
PROOF
  <1>1. proc[p] \in ProcRecords /\ proc[p].exec \in Executions BY TypeFacts DEF Fits
  <1>2. \A pc \in {"back", "look"} :
          /\ [proc[p] EXCEPT !.pc = pc] \in ProcRecords /\ [proc[p] EXCEPT !.pc = pc].pc = pc
          /\ [proc[p] EXCEPT !.pc = pc].exec = proc[p].exec
    BY <1>1, Names DEF ProcRecords
  <1>3. Transit(p, "resume", "look") \in ProcRecords BY EventsAre, TransitFits
  <1>4. /\ Transit(p, "resume", "look").pc = "read" /\ Transit(p, "resume", "look").then = "look"
        /\ Transit(p, "resume", "look").exec = proc[p].exec
    BY <1>1 DEF Transit, ProcRecords
  <1>5. Inserted(p) \in {[proc[p] EXCEPT !.pc = "back"], [proc[p] EXCEPT !.pc = "look"],
                         Transit(p, "resume", "look")}
    BY DEF Inserted
  <1>6. PICK r : r = Inserted(p) OBVIOUS
  <1>7. /\ r \in ProcRecords /\ r.pc \in {"back", "look", "read"} /\ r.exec = proc[p].exec
        /\ r.pc = "read" => r.then # "none"
    <2>1. CASE r = Transit(p, "resume", "look") BY <1>3, <1>4, <2>1
    <2>2. CASE r = [proc[p] EXCEPT !.pc = "back"] BY <1>2, <2>2
    <2>3. CASE r = [proc[p] EXCEPT !.pc = "look"] BY <1>2, <2>3
    <2> QED BY <1>5, <1>6, <2>1, <2>2, <2>3
  <1>8. Fits(r, decisions) BY <1>1, <1>7 DEF Fits
  <1> QED BY <1>6, <1>7, <1>8

LEMMA ChildActs ==
  ASSUME ExecutionInv, NEW p \in Processes, Child(p), UNCHANGED snapshot
  PROVE  Acts(p)
PROOF
  <1>1. /\ TypeOK /\ RowInv /\ proc[p] \in ProcRecords /\ Fits(proc[p], decisions)
        /\ proc[p].exec \in Executions /\ proc[p].pc = "child" /\ decisions \in Nat
        /\ wins \in [Executions -> [NodeIds -> Nat]]
    BY TypeFacts DEF Child, At, ExecutionInv, ProcInv, Fits, TypeOK
  <1>2. UNCHANGED <<decisions, faults, overlapped, faulted, wins>> BY DEF Child, Quiet, Unhurt
  <1>3. CASE Go(p, Inserted(p)) /\ UNCHANGED <<rows, node>>
    <2>1. Inserted(p) \in ProcRecords /\ Fits(Inserted(p), decisions) BY <1>1, InsertedFits
    <2> QED BY <1>2, <1>3, <2>1, QuietActs
  <1>4. ASSUME NEW c \in proc[p].kids, AddRow(proc[p].exec, c, "pending", 1, FALSE),
               Go(p, [proc[p] EXCEPT !.kids = @ \ {c}])
        PROVE  Acts(p)
    <2>1. c \in Nodes /\ c \in NodeIds BY <1>1 DEF ProcRecords, NodeIds
    <2>2. \A m \in Parents(proc[p].exec, c) : node[proc[p].exec][m].ready
      BY <1>1 DEF Fits, AllParentsReady
    <2>3. "pending" \in Latest \ {"none"} /\ 1 <= Bound(decisions) BY <1>1, BoundType DEF Latest
    <2>4. Grows /\ rows' \in [Executions -> Nat] BY <1>1, <1>2, <1>4, <2>1, <2>2, <2>3, AddRowGrows
    <2>5. PICK r : r = [proc[p] EXCEPT !.kids = @ \ {c}] OBVIOUS
    <2>6. /\ r \in ProcRecords /\ r.pc = "child" /\ r.exec = proc[p].exec
          /\ r.kids = proc[p].kids \ {c}
      BY <1>1, <2>5 DEF ProcRecords
    <2>7. Fits(r, decisions) BY <1>1, <2>6 DEF Fits
    <2>8. wins' \in [Executions -> [NodeIds -> Nat]] BY <1>1, <1>2
    <2> QED BY <1>2, <1>4, <2>4, <2>5, <2>6, <2>7, <2>8, RowActs
  <1> QED BY <1>3, <1>4 DEF Child

LEMMA SeedBranchActs ==
  ASSUME ExecutionInv, NEW p \in Processes, SeedBranch(p), UNCHANGED snapshot
  PROVE  Acts(p)
PROOF
  <1>1. /\ TypeOK /\ RowInv /\ proc[p] \in ProcRecords /\ Fits(proc[p], decisions)
        /\ proc[p].exec \in Executions /\ proc[p].pc = "branch" /\ decisions \in Nat
        /\ wins \in [Executions -> [NodeIds -> Nat]]
    BY TypeFacts DEF SeedBranch, At, ExecutionInv, ProcInv, Fits, TypeOK
  <1>2. UNCHANGED <<decisions, faults, overlapped, faulted, wins>> BY DEF SeedBranch, Quiet, Unhurt
  <1>3. PICK i : i = Inserted(p) OBVIOUS
  <1>4. /\ i \in ProcRecords /\ i.pc \in {"back", "look", "read"} /\ i.exec = proc[p].exec
        /\ i.pc = "read" => i.then # "none"
    BY <1>1, <1>3, InsertedFits
  <1>5. PICK r : r = [i EXCEPT !.kids = {}] OBVIOUS
  <1>6. r \in ProcRecords /\ r.pc = i.pc /\ r.exec = proc[p].exec /\ r.then = i.then
    BY <1>4, <1>5 DEF ProcRecords
  <1>7. Fits(r, decisions) BY <1>1, <1>4, <1>6 DEF Fits
  <1>8. Go(p, r) BY <1>3, <1>5 DEF SeedBranch
  <1>9. Grows /\ rows' \in [Executions -> Nat]
    <2>1. CASE UNCHANGED <<rows, node>>
      <3>1. decisions' \in Nat /\ decisions <= decisions' BY <1>1, <1>2
      <3>2. Grows BY <1>1, <2>1, <3>1, RowsKept
      <3> QED BY <1>1, <2>1, <3>2 DEF TypeOK
    <2>2. ASSUME NEW c \in proc[p].kids,
                 node' = [node EXCEPT ![proc[p].exec][c] = [WithRow(@, "pending", 1, FALSE) EXCEPT !.branched = TRUE]],
                 rows' = [rows EXCEPT ![proc[p].exec] = @ + 1]
          PROVE  Grows /\ rows' \in [Executions -> Nat]
      <3>1. c \in Nodes /\ c \in NodeIds BY <1>1 DEF ProcRecords, NodeIds
      <3>2. PICK k \in NodeRecords : k = node[proc[p].exec][c] BY <1>1, <3>1, TypeFacts
      <3>3. PICK x : x = WithRow(k, "pending", 1, FALSE) OBVIOUS
      <3>4. /\ x \in NodeRecords /\ x.latest = "pending" /\ (k.ready => x.ready)
            /\ x.branched = k.branched /\ x.attempt \in {k.attempt, 1}
        <4>1. "pending" \in Latest \ {"none"} BY DEF Latest
        <4>2. /\ WithRow(k, "pending", 1, FALSE) \in NodeRecords
              /\ WithRow(k, "pending", 1, FALSE).latest = "pending"
              /\ k.ready => WithRow(k, "pending", 1, FALSE).ready
              /\ WithRow(k, "pending", 1, FALSE).branched = k.branched
              /\ WithRow(k, "pending", 1, FALSE).attempt \in {k.attempt, 1}
          BY <4>1, WithRowFacts
        <4> QED BY <3>3, <4>2, Zenon
      <3>5. PICK y : y = [x EXCEPT !.branched = TRUE] OBVIOUS
      <3>6. /\ y \in NodeRecords /\ y.latest = "pending" /\ y.branched
            /\ y.ready = x.ready /\ y.attempt = x.attempt
        BY <3>4, <3>5 DEF NodeRecords
      <3>7. node' = [node EXCEPT ![proc[p].exec][c] = y] BY <2>2, <3>2, <3>3, <3>5
      <3>8. y.attempt <= Bound(decisions) BY <1>1, <3>1, <3>2, <3>4, <3>6, BoundType DEF RowInv
      <3>9. Grows
        <4>1. node[proc[p].exec][c].ready => y.ready BY <3>2, <3>4, <3>6
        <4>2. UNCHANGED <<snapshot, decisions>> BY <1>2
        <4> QED BY <1>1, <3>1, <3>6, <3>7, <3>8, <4>1, <4>2, OneRow
      <3> QED BY <1>1, <2>2, <3>9 DEF TypeOK
    <2> QED BY <2>1, <2>2 DEF SeedBranch
  <1>10. wins' \in [Executions -> [NodeIds -> Nat]] BY <1>1, <1>2
  <1> QED BY <1>2, <1>6, <1>7, <1>8, <1>9, <1>10, RowActs

LEMMA LimitsActs ==
  ASSUME ExecutionInv, NEW p \in Processes, Limits(p), UNCHANGED snapshot
  PROVE  Acts(p)
PROOF
  <1>1. /\ TypeOK /\ RowInv /\ proc[p] \in ProcRecords /\ Fits(proc[p], decisions)
        /\ proc[p].exec \in Executions /\ proc[p].pc = "limits" /\ decisions \in Nat
        /\ wins \in [Executions -> [NodeIds -> Nat]]
    BY TypeFacts DEF Limits, At, ExecutionInv, ProcInv, Fits, TypeOK
  <1>2. UNCHANGED <<decisions, faults, overlapped, faulted, wins>> BY DEF Limits, Quiet, Unhurt
  <1>3. ASSUME NEW r \in Head(p, proc[p].lastErr), Go(p, r), UNCHANGED <<rows, node>> PROVE Acts(p)
    <2>1. proc[p].lastErr \in BOOLEAN BY <1>1 DEF ProcRecords
    <2>2. r \in ProcRecords /\ Fits(r, decisions) BY <1>1, <2>1, HeadFits
    <2> QED BY <1>2, <1>3, <2>2, QuietActs
  <1>4. \A event \in {"timeout", "max_iterations", "pause"} :
          End(p, event) \in ProcRecords /\ Fits(End(p, event), decisions)
    BY <1>1, EventsAre, TransitFits
  <1>5. ASSUME NEW event \in {"timeout", "max_iterations"}, Go(p, End(p, event)), UNCHANGED <<rows, node>>
        PROVE  Acts(p)
    BY <1>2, <1>4, <1>5, QuietActs
  <1>6. CASE AddRow(proc[p].exec, Guard, "failed", 1, FALSE) /\ Go(p, End(p, "pause"))
    <2>1. Guard \in NodeIds /\ Guard \notin Nodes BY NamesAssumption DEF NodeIds
    <2>2. "failed" \in Latest \ {"none"} /\ 1 <= Bound(decisions) BY <1>1, BoundType DEF Latest
    <2>3. Grows /\ rows' \in [Executions -> Nat] BY <1>1, <1>2, <1>6, <2>1, <2>2, AddRowGrows
    <2>4. wins' \in [Executions -> [NodeIds -> Nat]] BY <1>1, <1>2
    <2> QED BY <1>2, <1>4, <1>6, <2>3, <2>4, RowActs
  <1> QED BY <1>3, <1>5, <1>6 DEF Limits

-----------------------------------------------------------------------------
(* Requests and faults                                                      *)

LEMMA AskedFacts ==
  ASSUME ExecutionInv, NEW p \in Processes, NEW e \in Executions, Asked(p, e)
  PROVE  /\ decisions' \in 0 .. EventBound /\ decisions' = decisions + 1
         /\ decisions \in Nat /\ decisions + 1 \in Nat /\ decisions <= decisions'
PROOF
  <1>1. decisions \in Nat /\ faults \in Nat BY TypeFacts DEF ExecutionInv
  <1> QED BY <1>1, BoundsAssumption DEF Asked

LEMMA OverlapType ==
  ASSUME ExecutionInv, NEW p \in Processes, NEW e \in Executions, Overlap(p, e)
  PROVE  overlapped' \subseteq Executions
PROOF BY DEF Overlap, ExecutionInv, TypeOK

LEMMA RequestActs ==
  ASSUME ExecutionInv, NEW p \in Processes, NEW e \in Executions, Asked(p, e),
         NEW r \in ProcRecords, Go(p, r), Fits(r, decisions + 1),
         UNCHANGED <<snapshot, rows, node, wins, faults, faulted>>, overlapped' \subseteq Executions
  PROVE  Acts(p)
PROOF
  <1>1. faults' \in 0 .. EventBound /\ faulted' \subseteq Executions BY DEF ExecutionInv, TypeOK
  <1>2. decisions' \in 0 .. EventBound /\ decisions <= decisions' /\ Fits(r, decisions')
    BY AskedFacts
  <1> QED BY <1>1, <1>2, KeepActs

LEMMA AskStatusActs ==
  ASSUME ExecutionInv, NEW p \in Processes, NEW e \in Executions, NEW event \in {"pause", "cancel"},
         AskStatus(p, e, event), UNCHANGED snapshot
  PROVE  Acts(p)
PROOF
  <1>1. Asked(p, e) /\ decisions + 1 \in Nat BY AskedFacts DEF AskStatus
  <1>2. PICK i : i = Idle OBVIOUS
  <1>3. i \in ProcRecords BY <1>1, <1>2, IdleFits
  <1>4. PICK r : r = [i EXCEPT !.pc = "read", !.kind = event, !.exec = e, !.event = event, !.then = "end"]
    OBVIOUS
  <1>5. event \in Kinds /\ event \in Lifecycle!Events BY Names, EventsAre
  <1>6. r \in ProcRecords /\ r.pc = "read" /\ r.exec = e /\ r.then = "end"
    BY <1>3, <1>4, <1>5, Names DEF ProcRecords
  <1>7. Fits(r, decisions + 1) BY <1>6 DEF Fits
  <1>8. Go(p, r) BY <1>2, <1>4 DEF AskStatus
  <1>9. overlapped' \subseteq Executions BY DEF AskStatus, ExecutionInv, TypeOK
  <1> QED BY <1>1, <1>6, <1>7, <1>8, <1>9, RequestActs DEF AskStatus, Unhurt

LEMMA ResumeActs ==
  ASSUME ExecutionInv, NEW p \in Processes, NEW e \in Executions, Resume(p, e), UNCHANGED snapshot
  PROVE  Acts(p)
PROOF
  <1>1. Asked(p, e) /\ decisions + 1 \in Nat BY AskedFacts DEF Resume
  <1>2. PICK i : i = Idle OBVIOUS
  <1>3. i \in ProcRecords BY <1>1, <1>2, IdleFits
  <1>4. PICK r : r = [i EXCEPT !.pc = "read", !.kind = "resume", !.exec = e, !.event = "resume", !.then = "look"]
    OBVIOUS
  <1>5. "resume" \in Kinds /\ "resume" \in Lifecycle!Events BY Names, EventsAre
  <1>6. r \in ProcRecords /\ r.pc = "read" /\ r.exec = e /\ r.then = "look"
    BY <1>3, <1>4, <1>5, Names DEF ProcRecords
  <1>7. Fits(r, decisions + 1) BY <1>6 DEF Fits
  <1>8. Go(p, r) BY <1>2, <1>4 DEF Resume
  <1>9. overlapped' \subseteq Executions BY OverlapType DEF Resume
  <1> QED BY <1>1, <1>6, <1>7, <1>8, <1>9, RequestActs DEF Resume, Unhurt

LEMMA AttemptFits ==
  ASSUME ExecutionInv, NEW e \in Executions, NEW n \in NodeIds
  PROVE  /\ node[e][n].attempt \in Nat /\ node[e][n].attempt <= Bound(decisions + 1)
         /\ node[e][n].attempt + 1 <= Bound(decisions + 1)
PROOF
  <1>1. node[e][n] \in NodeRecords /\ decisions \in Nat BY TypeFacts DEF ExecutionInv
  <1>2. node[e][n].attempt \in Nat BY <1>1 DEF NodeRecords
  <1>3. node[e][n].attempt <= Bound(decisions) BY DEF ExecutionInv, RowInv
  <1> QED BY <1>1, <1>2, <1>3, LimitsAssumption DEF Bound

LEMMA SubmitActs ==
  ASSUME ExecutionInv, NEW p \in Processes, NEW e \in Executions, NEW n \in Nodes,
         Submit(p, e, n), UNCHANGED snapshot
  PROVE  Acts(p)
PROOF
  <1>1. Asked(p, e) /\ decisions + 1 \in Nat BY AskedFacts DEF Submit
  <1>2. n \in NodeIds /\ Exists(e, n) BY DEF Submit, ExecutionInv, RowInv, NodeIds
  <1>3. PICK i : i = Idle OBVIOUS
  <1>4. PICK a : a = node[e][n].attempt OBVIOUS
  <1>5. i \in ProcRecords BY <1>1, <1>3, IdleFits
  <1>6. a \in Nat /\ a <= Bound(decisions + 1) BY <1>2, <1>4, AttemptFits
  <1>7. PICK r : r = [i EXCEPT !.pc = "check", !.kind = "resume", !.exec = e, !.node = n,
                        !.attempt = a, !.outcome = "succeeded"]
    OBVIOUS
  <1>8. /\ r \in ProcRecords /\ r.pc = "check" /\ r.exec = e /\ r.node = n
        /\ r.attempt = a /\ r.kind = "resume"
    BY <1>2, <1>5, <1>6, <1>7, Names DEF ProcRecords
  <1>9. Fits(r, decisions + 1) BY <1>2, <1>6, <1>8 DEF Fits
  <1>10. Go(p, r) BY <1>3, <1>4, <1>7 DEF Submit
  <1>11. overlapped' \subseteq Executions BY OverlapType DEF Submit
  <1> QED BY <1>1, <1>8, <1>9, <1>10, <1>11, RequestActs DEF Submit, Unhurt

LEMMA DecideActs ==
  ASSUME ExecutionInv, NEW p \in Processes, NEW e \in Executions, NEW n \in NodeIds,
         NEW action \in {"retry", "continue", "fail", "branch"},
         Decide(p, e, n, action), UNCHANGED snapshot
  PROVE  Acts(p)
PROOF
  <1>1. Asked(p, e) /\ decisions + 1 \in Nat
    <2>1. Asked(p, e) BY Zenon DEF Decide
    <2> QED BY <2>1, AskedFacts
  <1>2. Exists(e, n) BY DEF Decide, Exists
  <1>3. PICK i : i = Idle OBVIOUS
  <1>4. PICK a : a = node[e][n].attempt OBVIOUS
  <1>5. i \in ProcRecords BY <1>1, <1>3, IdleFits
  <1>6. a \in Nat /\ a <= Bound(decisions + 1) /\ a + 1 <= Bound(decisions + 1) BY <1>4, AttemptFits
  <1>7. PICK base : base = [i EXCEPT !.kind = action, !.exec = e, !.node = n, !.attempt = a,
                              !.event = "resume", !.then = "look"]
    OBVIOUS
  <1>8. action \in Kinds /\ "resume" \in Lifecycle!Events /\ "fail" \in Lifecycle!Events
    BY Names, EventsAre
  <1>9. /\ base \in ProcRecords /\ base.exec = e /\ base.node = n
        /\ base.attempt = a /\ base.then = "look"
    BY <1>5, <1>6, <1>7, <1>8 DEF ProcRecords
  <1>10. overlapped' \subseteq Executions
    <2>1. Overlap(p, e) BY Zenon DEF Decide
    <2> QED BY <2>1, OverlapType
  <1>11. UNCHANGED <<snapshot, rows, node, wins, faults, faulted>>
    <2>1. Unhurt /\ UNCHANGED <<status, rows, node, wins>> BY Zenon DEF Decide
    <2> QED BY <2>1 DEF Unhurt
  <1>12. ASSUME NEW r \in ProcRecords, Go(p, r), Fits(r, decisions + 1) PROVE Acts(p)
    BY <1>1, <1>10, <1>11, <1>12, RequestActs
  <1>13. base = [Idle EXCEPT !.kind = action, !.exec = e, !.node = n, !.attempt = node[e][n].attempt,
                   !.event = "resume", !.then = "look"]
    BY <1>3, <1>4, <1>7
  <1>14. \/ Go(p, [base EXCEPT !.pc = "read", !.event = "fail", !.then = "end"])
         \/ Go(p, [base EXCEPT !.pc = "insert"])
         \/ Go(p, [base EXCEPT !.pc = "insert", !.then = "seed"])
         \/ \E c \in Nodes : Go(p, [base EXCEPT !.pc = "branch", !.kids = IF Exists(e, c) THEN {} ELSE {c}])
    BY <1>13 DEF Decide
  <1>15. CASE Go(p, [base EXCEPT !.pc = "read", !.event = "fail", !.then = "end"])
    <2>1. PICK r : r = [base EXCEPT !.pc = "read", !.event = "fail", !.then = "end"] OBVIOUS
    <2>2. r \in ProcRecords /\ r.pc = "read" /\ r.exec = e /\ r.then = "end"
      BY <1>8, <1>9, <2>1, Names DEF ProcRecords
    <2>3. Fits(r, decisions + 1) BY <2>2 DEF Fits
    <2> QED BY <1>12, <1>15, <2>1, <2>2, <2>3
  <1>16. ASSUME NEW then \in {"look", "seed"}, Go(p, [base EXCEPT !.pc = "insert", !.then = then])
         PROVE  Acts(p)
    <2>1. PICK r : r = [base EXCEPT !.pc = "insert", !.then = then] OBVIOUS
    <2>2. /\ r \in ProcRecords /\ r.pc = "insert" /\ r.exec = e /\ r.node = n
          /\ r.attempt = a /\ r.then = then
      BY <1>9, <2>1, Names DEF ProcRecords
    <2>3. Fits(r, decisions + 1) BY <1>2, <1>6, <2>2 DEF Fits
    <2> QED BY <1>12, <1>16, <2>1, <2>2, <2>3
  <1>17. CASE Go(p, [base EXCEPT !.pc = "insert"])
    <2>1. [base EXCEPT !.pc = "insert"] = [base EXCEPT !.pc = "insert", !.then = "look"]
      BY <1>9 DEF ProcRecords
    <2> QED BY <1>16, <1>17, <2>1
  <1>18. ASSUME NEW kids \in SUBSET Nodes, Go(p, [base EXCEPT !.pc = "branch", !.kids = kids])
         PROVE  Acts(p)
    <2>1. PICK r : r = [base EXCEPT !.pc = "branch", !.kids = kids] OBVIOUS
    <2>2. r \in ProcRecords /\ r.pc = "branch" /\ r.exec = e BY <1>9, <2>1, Names DEF ProcRecords
    <2>3. Fits(r, decisions + 1) BY <2>2 DEF Fits
    <2> QED BY <1>12, <1>18, <2>1, <2>2, <2>3
  <1>19. \A c \in Nodes : (IF Exists(e, c) THEN {} ELSE {c}) \in SUBSET Nodes OBVIOUS
  <1>20. CASE \E c \in Nodes : Go(p, [base EXCEPT !.pc = "branch", !.kids = IF Exists(e, c) THEN {} ELSE {c}])
    BY <1>18, <1>19, <1>20
  <1> QED BY <1>14, <1>15, <1>16, <1>17, <1>20

LEMMA StartActs ==
  ASSUME ExecutionInv, NEW p \in Processes, NEW e \in Executions, Start(p, e), UNCHANGED snapshot
  PROVE  Acts(p)
PROOF
  <1>1. TypeOK /\ RowInv /\ decisions \in Nat /\ node \in NodeType BY TypeFacts DEF ExecutionInv
  <1>2. UNCHANGED <<decisions, faults, faulted, wins>> BY DEF Start, Unhurt
  <1>3. overlapped' \subseteq Executions BY OverlapType DEF Start
  <1>4. rows' \in [Executions -> Nat]
    <2>1. StartNodes(e) \in SUBSET Nodes BY DEF StartNodes
    <2>2. IsFiniteSet(StartNodes(e)) BY <2>1, NodesAssumption, FS_Subset
    <2>3. Cardinality(StartNodes(e)) \in Nat BY <2>2, FS_CardinalityType
    <2> QED BY <1>1, <2>3 DEF Start, TypeOK
  <1>5. /\ \A x \in Executions : x # e => node'[x] = node[x]
        /\ node'[e] = [n \in NodeIds |->
             IF n \in StartNodes(e) THEN WithRow(node[e][n], "pending", 1, FALSE) ELSE node[e][n]]
        /\ node' = [x \in Executions |-> node'[x]]
    BY <1>1 DEF Start, NodeType
  <1>6. \A k \in NodeRecords :
          /\ WithRow(k, "pending", 1, FALSE) \in NodeRecords
          /\ WithRow(k, "pending", 1, FALSE).latest = "pending"
          /\ k.ready => WithRow(k, "pending", 1, FALSE).ready
          /\ WithRow(k, "pending", 1, FALSE).branched = k.branched
          /\ WithRow(k, "pending", 1, FALSE).attempt \in {k.attempt, 1}
    <2>1. "pending" \in Latest \ {"none"} BY DEF Latest
    <2> QED BY <2>1, WithRowFacts
  <1>7. \A x \in Executions, n \in NodeIds :
          \/ node'[x][n] = node[x][n]
          \/ x = e /\ n \in StartNodes(e) /\ node'[x][n] = WithRow(node[x][n], "pending", 1, FALSE)
    BY <1>5
  <1>8. \A x \in Executions, n \in NodeIds : node[x][n] \in NodeRecords BY <1>1 DEF NodeType
  <1>9. \A x \in Executions, n \in NodeIds :
          /\ node'[x][n] \in NodeRecords
          /\ Exists(x, n) => Exists(x, n)'
          /\ node[x][n].ready => node'[x][n].ready
          /\ node[x][n].branched => node'[x][n].branched
          /\ node'[x][n].attempt <= Bound(decisions')
          /\ node'[x][n].waited => Exists(x, n)'
    <2> SUFFICES ASSUME NEW x \in Executions, NEW n \in NodeIds
                 PROVE  /\ node'[x][n] \in NodeRecords
                        /\ Exists(x, n) => Exists(x, n)'
                        /\ node[x][n].ready => node'[x][n].ready
                        /\ node[x][n].branched => node'[x][n].branched
                        /\ node'[x][n].attempt <= Bound(decisions')
                        /\ node'[x][n].waited => Exists(x, n)'
      OBVIOUS
    <2>1. node[x][n].attempt <= Bound(decisions) /\ decisions' = decisions
          /\ 1 <= Bound(decisions) /\ (node[x][n].waited => Exists(x, n))
      BY <1>1, <1>2, BoundType DEF RowInv
    <2>2. CASE node'[x][n] = node[x][n] BY <1>8, <2>1, <2>2 DEF Exists
    <2>3. CASE node'[x][n] = WithRow(node[x][n], "pending", 1, FALSE)
      <3>1. PICK k \in NodeRecords : k = node[x][n] BY <1>8
      <3>2. PICK y : y = node'[x][n] OBVIOUS
      <3>3. /\ y \in NodeRecords /\ y.latest = "pending" /\ (k.ready => y.ready)
            /\ y.branched = k.branched /\ y.attempt \in {k.attempt, 1}
        BY <1>6, <2>3, <3>1, <3>2
      <3> QED BY <2>1, <3>1, <3>2, <3>3 DEF Exists
    <2> QED BY <1>7, <2>2, <2>3
  <1>10. node' \in NodeType
    <2>1. \A x \in Executions : node'[x] \in [NodeIds -> NodeRecords]
      <3> SUFFICES ASSUME NEW x \in Executions PROVE node'[x] \in [NodeIds -> NodeRecords] OBVIOUS
      <3>1. CASE x = e BY <1>5, <1>9, <3>1
      <3>2. CASE x # e BY <1>1, <1>5, <3>2 DEF NodeType
      <3> QED BY <3>1, <3>2
    <2> QED BY <1>5, <2>1 DEF NodeType
  <1>11. ASSUME NEW x \in Executions, NEW n \in Nodes, Exists(x, n)', ~Exists(x, n)
         PROVE  \A m \in Parents(x, n) : node[x][m].ready
    <2>1. n \in NodeIds BY DEF NodeIds
    <2>2. node'[x][n] # node[x][n] BY <1>11 DEF Exists
    <2>3. x = e /\ n \in StartNodes(e) BY <1>7, <2>1, <2>2
    <2> QED BY <2>3 DEF StartNodes
  <1>12. Grows BY <1>1, <1>2, <1>9, <1>10, <1>11 DEF Grows
  <1>13. PICK i : i = Idle OBVIOUS
  <1>14. i \in ProcRecords /\ Fits(i, decisions) BY <1>1, <1>13, IdleFits
  <1>15. PICK r : r = [i EXCEPT !.pc = "look", !.kind = "run", !.exec = e] OBVIOUS
  <1>16. r \in ProcRecords /\ r.pc = "look" /\ r.exec = e BY <1>14, <1>15, Names DEF ProcRecords
  <1>17. Fits(r, decisions) BY <1>16 DEF Fits
  <1>18. Go(p, i) \/ Go(p, r)
    <2>1. \E auto \in BOOLEAN :
            Go(p, IF auto THEN [Idle EXCEPT !.pc = "look", !.kind = "run", !.exec = e] ELSE Idle)
      BY DEF Start
    <2> QED BY <1>13, <1>15, <2>1
  <1>19. /\ decisions' \in 0 .. EventBound /\ faults' \in 0 .. EventBound
         /\ faulted' \subseteq Executions /\ wins' \in [Executions -> [NodeIds -> Nat]]
    BY <1>1, <1>2 DEF TypeOK
  <1>20. \E x \in ProcRecords : Go(p, x) /\ Fits(x, decisions')
    BY <1>2, <1>14, <1>16, <1>17, <1>18
  <1> QED BY <1>3, <1>4, <1>12, <1>19, <1>20 DEF Acts

LEMMA FaultActs ==
  ASSUME ExecutionInv, NEW p \in Processes, StatementFails(p) \/ Crash(p), UNCHANGED snapshot
  PROVE  Acts(p)
PROOF
  <1>1. /\ TypeOK /\ Fits(proc[p], decisions) /\ proc[p].pc # "idle"
        /\ decisions \in Nat /\ faults \in Nat /\ proc[p].exec \in Executions
    BY TypeFacts DEF ExecutionInv, ProcInv, StatementFails, Crash, At, Fits
  <1>2. Idle \in ProcRecords /\ Fits(Idle, decisions) BY <1>1, IdleFits
  <1>3. Failed(p) \in ProcRecords /\ Fits(Failed(p), decisions) BY <1>1, FailedFits
  <1>4. faults' \in 0 .. EventBound /\ faulted' \subseteq Executions
    BY <1>1, BoundsAssumption DEF StatementFails, Crash, Hurt, TypeOK
  <1>5. UNCHANGED <<rows, node, decisions, wins, overlapped>> BY DEF StatementFails, Crash
  <1>6. decisions' \in 0 .. EventBound /\ decisions <= decisions' /\ overlapped' \subseteq Executions
    BY <1>1, <1>5 DEF TypeOK
  <1>7. Go(p, Idle) \/ Go(p, Failed(p)) BY DEF StatementFails, Crash
  <1>8. \E r \in ProcRecords : Go(p, r) /\ Fits(r, decisions) BY <1>2, <1>3, <1>7
  <1>9. PICK r \in ProcRecords : Go(p, r) /\ Fits(r, decisions) BY <1>8
  <1>10. Fits(r, decisions') BY <1>5, <1>9
  <1> QED BY <1>4, <1>5, <1>6, <1>9, <1>10, KeepActs

-----------------------------------------------------------------------------
(* The invariant and the state machine                                      *)

LEMMA InitInv == Init => ExecutionInv
PROOF
  <1> SUFFICES ASSUME Init PROVE ExecutionInv OBVIOUS
  <1>1. NoRow \in NodeRecords /\ NoRow.latest = "none" /\ NoRow.attempt = 0 /\ ~NoRow.waited
    BY DEF NoRow, NodeRecords, Latest
  <1>2. \A e \in Executions : \A n \in NodeIds : node[e][n] = NoRow BY DEF Init
  <1>3. decisions = 0 /\ 0 \in Nat BY DEF Init
  <1>4. Idle \in ProcRecords /\ Fits(Idle, decisions) BY <1>3, IdleFits
  <1>5. TypeOK
    <2>1. node \in [Executions -> [NodeIds -> NodeRecords]] BY <1>1 DEF Init
    <2>2. proc \in [Processes -> ProcRecords] BY <1>4 DEF Init
    <2>3. status \in [Executions -> Lifecycle!Statuses] BY Names DEF Init
    <2>4. decisions \in 0 .. EventBound /\ faults \in 0 .. EventBound BY BoundsAssumption DEF Init
    <2>5. /\ snapshot \in [Executions -> Definitions] /\ rows \in [Executions -> Nat]
          /\ wins \in [Executions -> [NodeIds -> Nat]]
          /\ overlapped \subseteq Executions /\ faulted \subseteq Executions
      BY DEF Init
    <2> QED BY <2>1, <2>2, <2>3, <2>4, <2>5 DEF TypeOK
  <1>6. ProcInv
    <2>1. \A p \in Processes : proc[p] = Idle BY DEF Init
    <2> QED BY <1>4, <2>1 DEF ProcInv
  <1>7. RowInv BY <1>1, <1>2, <1>3, LimitsAssumption DEF RowInv, Bound
  <1>8. ChildrenAfterParents BY <1>1, <1>2 DEF ChildrenAfterParents, Exists, NodeIds
  <1> QED BY <1>5, <1>6, <1>7, <1>8 DEF ExecutionInv

\* A write that finds the status it read moves along the state machine.
LEMMA WriteMoves ==
  ASSUME ExecutionInv, NEW p \in Processes, Write(p)
  PROVE  Moves
PROOF
  <1>1. CASE UNCHANGED status BY <1>1 DEF Moves
  <1>2. CASE /\ Unmoved(p)
             /\ status' = [status EXCEPT ![proc[p].exec] = Lifecycle!Target(proc[p].seen, proc[p].event)]
    <2>1. proc[p].exec \in Executions /\ Lifecycle!Allowed(proc[p].seen, proc[p].event)
      BY DEF ExecutionInv, ProcInv, Fits, Write, At
    <2>2. \E t \in Lifecycle!Transitions : t[1] = proc[p].seen /\ t[2] = proc[p].event
      BY <2>1, Zenon DEF Lifecycle!Allowed
    <2>3. PICK t \in Lifecycle!Transitions :
            t[1] = proc[p].seen /\ Lifecycle!Target(proc[p].seen, proc[p].event) = t[3]
      BY <2>2, Zenon DEF Lifecycle!Target
    <2>4. Lifecycle!Move(proc[p].exec) BY <1>2, <2>3 DEF Lifecycle!Move, Unmoved
    <2> QED BY <2>1, <2>4 DEF Moves, Lifecycle!Next
  <1> QED BY <1>1, <1>2 DEF Write

LEMMA StepActs ==
  ASSUME ExecutionInv, NEW p \in Processes, Step(p) \/ StatementFails(p) \/ Crash(p), UNCHANGED snapshot
  PROVE  Acts(p) /\ Moves
PROOF
  <1>1. CASE Look(p) BY <1>1, LookActs DEF Look, Moves
  <1>2. CASE Execute(p) BY <1>2, ExecuteActs DEF Execute, Moves
  <1>3. CASE Check(p) BY <1>3, CheckActs DEF Check, Moves
  <1>4. CASE InsertSuccess(p) BY <1>4, InsertSuccessActs DEF InsertSuccess, Quiet, Moves
  <1>5. CASE InsertWait(p) BY <1>5, InsertWaitActs DEF InsertWait, Quiet, Moves
  <1>6. CASE InsertFailure(p) BY <1>6, InsertFailureActs DEF InsertFailure, Quiet, Moves
  <1>7. CASE InsertDecision(p) BY <1>7, InsertDecisionActs DEF InsertDecision, Quiet, Moves
  <1>8. CASE Seed(p) BY <1>8, SeedActs DEF Seed, Quiet, Moves
  <1>9. CASE Child(p) BY <1>9, ChildActs DEF Child, Quiet, Moves
  <1>10. CASE SeedBranch(p) BY <1>10, SeedBranchActs DEF SeedBranch, Quiet, Moves
  <1>11. CASE Read(p) BY <1>11, ReadActs DEF Read, Quiet, Moves
  <1>12. CASE Write(p) BY <1>12, WriteActs, WriteMoves
  <1>13. CASE Back(p) BY <1>13, BackActs DEF Back, Quiet, Moves
  <1>14. CASE Limits(p) BY <1>14, LimitsActs DEF Limits, Quiet, Moves
  <1>15. CASE StatementFails(p) \/ Crash(p) BY <1>15, FaultActs DEF StatementFails, Crash, Moves
  <1> QED BY <1>1, <1>2, <1>3, <1>4, <1>5, <1>6, <1>7, <1>8, <1>9, <1>10, <1>11, <1>12,
             <1>13, <1>14, <1>15 DEF Step

LEMMA RequestsAct ==
  ASSUME ExecutionInv, NEW p \in Processes, NEW e \in Executions, Request(p, e), UNCHANGED snapshot
  PROVE  Acts(p) /\ Moves
PROOF
  <1>1. CASE Start(p, e)
    <2>1. Lifecycle!Create(e) BY <1>1 DEF Start, Lifecycle!Create
    <2> QED BY <1>1, <2>1, StartActs DEF Moves, Lifecycle!Next
  <1>2. ASSUME NEW event \in {"pause", "cancel"}, AskStatus(p, e, event) PROVE Acts(p) /\ Moves
    BY <1>2, AskStatusActs DEF AskStatus, Moves
  <1>3. CASE Resume(p, e) BY <1>3, ResumeActs DEF Resume, Moves
  <1>4. ASSUME NEW n \in Nodes, Submit(p, e, n) PROVE Acts(p) /\ Moves
    BY <1>4, SubmitActs DEF Submit, Moves
  <1>5. ASSUME NEW n \in NodeIds, NEW action \in {"retry", "continue", "fail", "branch"},
               Decide(p, e, n, action)
        PROVE  Acts(p) /\ Moves
    <2>1. UNCHANGED status BY <1>5, Zenon DEF Decide
    <2> QED BY <1>5, <2>1, DecideActs DEF Moves
  <1> QED BY <1>1, <1>2, <1>3, <1>4, <1>5 DEF Request

\* Steps of nobody: no process changes what it has in hand.
LEMMA OthersKeep ==
  ASSUME ExecutionInv, Grows, Moves,
         UNCHANGED <<rows, proc, decisions, faults, wins, overlapped, faulted>>
  PROVE  ExecutionInv'
PROOF
  <1>1. TypeOK /\ ProcInv /\ decisions \in Nat /\ decisions <= decisions'
    BY DEF ExecutionInv, Grows
  <1>2. status' \in [Executions -> Lifecycle!Statuses] BY <1>1, StatusType
  <1>3. TypeOK' BY <1>1, <1>2 DEF TypeOK, Grows, NodeType
  <1>4. ProcInv'
    <2> SUFFICES ASSUME NEW q \in Processes PROVE Fits(proc[q], decisions)' BY DEF ProcInv
    <2>1. PICK r \in ProcRecords : r = proc[q] /\ r = proc'[q] BY <1>1, TypeFacts
    <2>2. Fits(r, decisions) BY <1>1, <2>1 DEF ProcInv
    <2>3. Fits(r, decisions)' BY <1>1, <2>2, FitsKept
    <2> QED BY <2>1, <2>3
  <1>5. RowInv' /\ ChildrenAfterParents' BY GrowsKeeps
  <1> QED BY <1>3, <1>4, <1>5 DEF ExecutionInv

LEMMA PromoteStep ==
  ASSUME ExecutionInv, NEW e \in Executions, Promote(e), UNCHANGED snapshot
  PROVE  Moves /\ ExecutionInv'
PROOF
  <1>1. <<"queued", "start", "running">> \in Lifecycle!Transitions BY DEF Lifecycle!Transitions
  <1>2. Lifecycle!Move(e) BY <1>1 DEF Promote, Lifecycle!Move
  <1>3. Moves BY <1>2 DEF Moves, Lifecycle!Next
  <1>4. TypeOK /\ RowInv /\ decisions' \in Nat /\ decisions <= decisions'
    BY TypeFacts DEF ExecutionInv, Promote
  <1>5. Grows BY <1>4, RowsKept DEF Promote
  <1> QED BY <1>3, <1>5, OthersKeep DEF Promote

LEMMA RetryDueStep ==
  ASSUME ExecutionInv, NEW e \in Executions, NEW n \in NodeIds, RetryDue(e, n), UNCHANGED snapshot
  PROVE  Moves /\ ExecutionInv'
PROOF
  <1>1. Moves BY DEF RetryDue, Moves
  <1>2. TypeOK /\ RowInv BY DEF ExecutionInv
  <1>3. node[e][n] \in NodeRecords BY <1>2, TypeFacts
  <1>4. PICK r : r = [node[e][n] EXCEPT !.latest = "due"] OBVIOUS
  <1>5. /\ r \in NodeRecords /\ r.latest = "due" /\ r.ready = node[e][n].ready
        /\ r.branched = node[e][n].branched /\ r.attempt = node[e][n].attempt
    BY <1>3, <1>4 DEF NodeRecords, Latest
  <1>6. node' = [node EXCEPT ![e][n] = r] BY <1>4 DEF RetryDue
  <1>7. r.attempt <= Bound(decisions) /\ Exists(e, n) BY <1>2, <1>5 DEF RowInv, RetryDue, Exists
  <1>8. UNCHANGED <<snapshot, decisions>> BY DEF RetryDue
  <1>9. Grows BY <1>2, <1>5, <1>6, <1>7, <1>8, OneRow
  <1> QED BY <1>1, <1>9, OthersKeep DEF RetryDue

LEMMA StepInv ==
  ASSUME ExecutionInv, [Next]_vars
  PROVE  Moves /\ ExecutionInv'
PROOF
  <1>1. CASE UNCHANGED vars
    <2>1. Moves BY <1>1 DEF vars, Moves
    <2>2. TypeOK /\ RowInv /\ decisions' \in Nat /\ decisions <= decisions'
      BY <1>1, TypeFacts DEF ExecutionInv, vars
    <2>3. Grows BY <1>1, <2>2, RowsKept DEF vars
    <2> QED BY <1>1, <2>1, <2>3, OthersKeep DEF vars
  <1>2. ASSUME NEW p \in Processes, Step(p) \/ StatementFails(p) \/ Crash(p), UNCHANGED snapshot
        PROVE  Moves /\ ExecutionInv'
    <2>1. Acts(p) /\ Moves BY <1>2, StepActs
    <2> QED BY <2>1, ActsKeeps
  <1>3. ASSUME NEW p \in Processes, NEW e \in Executions, Request(p, e), UNCHANGED snapshot
        PROVE  Moves /\ ExecutionInv'
    <2>1. Acts(p) /\ Moves BY <1>3, RequestsAct
    <2> QED BY <2>1, ActsKeeps
  <1> QED BY <1>1, <1>2, <1>3, PromoteStep, RetryDueStep DEF Next

-----------------------------------------------------------------------------
(* Theorems                                                                 *)

\* What the processes have in hand fits the rows and statuses at every point, whatever
\* requests, retries and faults interleave (service.go, RunExecutionUntilBlocked and the
\* requests beside it).
THEOREM ExecutionInvariant == Spec => []ExecutionInv
PROOF
  <1>1. Init => ExecutionInv BY InitInv
  <1>2. ExecutionInv /\ [Next]_vars => ExecutionInv' BY StepInv
  <1> QED BY <1>1, <1>2, PTL DEF Spec

\* Every variable keeps its type.
THEOREM TypeCorrect == Spec => []TypeOK
PROOF
  <1>1. ExecutionInv => TypeOK BY DEF ExecutionInv
  <1> QED BY <1>1, ExecutionInvariant, PTL

\* A join never gets a row before all its parents are ready, whatever number of runs and
\* requests seed its execution at once (allParentsReady, seedReadyDownstreamNodes).
THEOREM JoinsWait == Spec => []ChildrenAfterParents
PROOF
  <1>1. ExecutionInv => ChildrenAfterParents BY DEF ExecutionInv
  <1> QED BY <1>1, ExecutionInvariant, PTL

\* auto_retry ends: the attempts of a node are at most MaxRetries + 1 and one more for each
\* decision, even if two runs retry it at once (recordFailedNodeStatus).
THEOREM RetriesEnd == Spec => []AttemptsBounded
PROOF
  <1>1. ExecutionInv => AttemptsBounded
    BY DEF ExecutionInv, RowInv, AttemptsBounded, Bound, NodeIds
  <1> QED BY <1>1, ExecutionInvariant, PTL

\* Executions implement the life cycle: a status read some statements ago is never written
\* over a newer one so as to leave the state machine or a final status
\* (transitionExecutionStatus, UpdateExecutionStatusIfCurrent).
THEOREM LifecycleIsKept == Spec => LifecycleKept
PROOF
  <1>1. Init => Lifecycle!Init BY DEF Init, Lifecycle!Init
  <1>2. ExecutionInv /\ [Next]_vars => [Lifecycle!Next]_status BY StepInv DEF Moves
  <1> QED BY <1>1, <1>2, ExecutionInvariant, PTL DEF Spec, LifecycleKept, Lifecycle!Spec

-----------------------------------------------------------------------------
(* Once per node                                                            *)

Mutators == {"run", "resume", "retry", "continue", "branch"}

\* p takes r in its hand and goes on with the execution it works on, or is done.
Takes(p, r) ==
  /\ Go(p, r) /\ Shaped(r)
  /\ r.pc # "idle" => r.exec = proc[p].exec
  /\ r.kind \in Mutators => Mutating(p)

LEMMA Taken ==
  ASSUME TypeOK, NEW p \in Processes, NEW r \in ProcRecords, Go(p, r)
  PROVE  /\ proc'[p] = r
         /\ \A q \in Processes : q # p => proc'[q] = proc[q]
PROOF BY DEF TypeOK, Go

LEMMA OnceStep ==
  ASSUME ExecutionInv, OnceInv, NEW p \in Processes, proc[p].pc # "idle",
         NEW r \in ProcRecords, Takes(p, r), UNCHANGED overlapped,
         NEW e \in Executions, e = proc[p].exec,
         \A x \in Executions : status[x] # "absent" => status'[x] # "absent",
         \A x \in Executions \ {e} : node'[x] = node[x] /\ wins'[x] = wins[x],
         wins'[e][Guard] = 0,
         Mutating(p) \/ UNCHANGED <<node, wins>>,
         e \notin overlapped /\ Mutating(p) =>
           /\ r.kind \in Mutators => Clean(r, e)'
           /\ \A n \in NodeIds :
                wins'[e][n] <= 1 /\ (wins'[e][n] # 0 => node'[e][n].latest = "succeeded")
  PROVE  OnceInv'
PROOF
  <1>0. TypeOK BY DEF ExecutionInv
  <1>1. /\ proc'[p] = r
        /\ \A q \in Processes : q # p => proc'[q] = proc[q]
    BY <1>0, Taken DEF Takes
  <1>2. status[e] # "absent" BY DEF OnceInv
  <1>3. ASSUME NEW q \in Processes
        PROVE  /\ Shaped(proc[q])'
               /\ proc'[q].pc # "idle" => status'[proc'[q].exec] # "absent"
    <2>1. CASE q = p
      <3>1. Shaped(r)' <=> Shaped(r) BY DEF Shaped
      <3> QED BY <1>1, <1>2, <2>1, <3>1 DEF Takes, Shaped
    <2>2. CASE q # p
      <3>1. proc[q].pc # "idle" => proc[q].exec \in Executions
        BY DEF ExecutionInv, ProcInv, Fits
      <3> QED BY <1>1, <2>2, <3>1 DEF OnceInv, Shaped
    <2> QED BY <2>1, <2>2
  <1>4. ASSUME NEW x \in Executions, status'[x] = "absent" PROVE \A n \in NodeIds : wins'[x][n] = 0
    <2>1. status[x] = "absent" /\ x # e BY <1>2, <1>4
    <2> QED BY <2>1 DEF OnceInv
  <1>5. \A x \in Executions : wins'[x][Guard] = 0 BY DEF OnceInv
  <1>6. \A q \in Processes, x \in Executions : Works(q, x)' => Works(q, x)
    <2> SUFFICES ASSUME NEW q \in Processes, NEW x \in Executions, Works(q, x)' PROVE Works(q, x)
      OBVIOUS
    <2>1. CASE q # p BY <1>1, <2>1 DEF Works, Mutating
    <2>2. CASE q = p
      <3>1. r.kind \in Mutators /\ r.exec = x
        BY <1>1, <2>2 DEF Works, Mutating, Mutators
      <3>2. r.pc # "idle" BY <3>1 DEF Takes, Shaped, Mutators
      <3> QED BY <2>2, <3>1, <3>2 DEF Takes, Works
    <2> QED BY <2>1, <2>2
  <1>7. ASSUME NEW x \in Executions \ overlapped
        PROVE  /\ \A q, s \in Processes : Works(q, x)' /\ Works(s, x)' => q = s
               /\ \A q \in Processes : Works(q, x)' => Clean(proc[q], x)'
               /\ \A n \in NodeIds :
                    wins'[x][n] <= 1 /\ (wins'[x][n] # 0 => node'[x][n].latest = "succeeded")
    <2>1. \A q, s \in Processes : Works(q, x)' /\ Works(s, x)' => q = s BY <1>6 DEF OnceInv
    <2>2. ASSUME NEW q \in Processes, Works(q, x)' PROVE Clean(proc[q], x)'
      <3>1. Works(q, x) BY <1>6, <2>2
      <3>2. CASE q = p
        <4>1. x = e /\ Mutating(p) /\ r.kind \in Mutators
          BY <1>1, <2>2, <3>1, <3>2 DEF Works, Mutating, Mutators
        <4>2. Clean(r, e)' BY <4>1
        <4> QED BY <1>1, <3>2, <4>1, <4>2 DEF Clean, Exists
      <3>3. CASE q # p
        <4>1. node'[x] = node[x] /\ wins'[x] = wins[x]
          <5>1. CASE x # e BY <5>1
          <5>2. CASE x = e
            <6>1. ~Works(p, e) BY <3>1, <3>3, <5>2 DEF OnceInv
            <6> QED BY <6>1 DEF Works
          <5> QED BY <5>1, <5>2
        <4>2. Clean(proc[q], x) BY <3>1 DEF OnceInv
        <4> QED BY <1>1, <3>3, <4>1, <4>2 DEF Clean, Exists
      <3> QED BY <3>2, <3>3
    <2>3. \A n \in NodeIds :
            wins'[x][n] <= 1 /\ (wins'[x][n] # 0 => node'[x][n].latest = "succeeded")
      <3>1. CASE x = e /\ Mutating(p) BY <3>1
      <3>2. CASE x # e \/ ~Mutating(p)
        <4>1. node'[x] = node[x] /\ wins'[x] = wins[x] BY <3>2
        <4> QED BY <4>1 DEF OnceInv
      <3> QED BY <3>1, <3>2
    <2> QED BY <2>1, <2>2, <2>3
  <1> QED BY <1>3, <1>4, <1>5, <1>7 DEF OnceInv

\* A step that writes no row.
LEMMA QuietOnce ==
  ASSUME ExecutionInv, OnceInv, NEW p \in Processes, proc[p].pc # "idle",
         NEW r \in ProcRecords, Takes(p, r), UNCHANGED <<overlapped, node, wins>>,
         \A x \in Executions : status[x] # "absent" => status'[x] # "absent",
         Works(p, proc[p].exec) /\ proc[p].exec \notin overlapped => Clean(r, proc[p].exec)
  PROVE  OnceInv'
PROOF
  <1>1. PICK e \in Executions : e = proc[p].exec BY DEF ExecutionInv, ProcInv, Fits
  <1>2. e \notin overlapped /\ Mutating(p) => Clean(r, e)'
    BY <1>1 DEF Works, Clean, Exists
  <1>3. wins'[e][Guard] = 0 BY DEF OnceInv
  <1>4. e \notin overlapped => \A n \in NodeIds :
          wins'[e][n] <= 1 /\ (wins'[e][n] # 0 => node'[e][n].latest = "succeeded")
    BY DEF OnceInv
  <1> QED BY <1>1, <1>2, <1>3, <1>4, OnceStep

\* A step that writes a row of a node that was not run to success.
LEMMA RowOnce ==
  ASSUME ExecutionInv, OnceInv, NEW p \in Processes, proc[p].pc # "idle", Mutating(p),
         NEW r \in ProcRecords, Takes(p, r), UNCHANGED <<overlapped, wins, status>>,
         NEW e \in Executions, e = proc[p].exec, NEW n \in NodeIds, NEW k,
         node' = [node EXCEPT ![e][n] = k],
         e \notin overlapped => wins[e][n] = 0 \/ k.latest = "succeeded",
         e \notin overlapped =>
           /\ r.pc \notin {"execute", "check", "insert"}
           /\ r.pc \in {"child", "branch"} => \A c \in r.kids : c \in NodeIds \ {n} /\ ~Exists(e, c)
  PROVE  OnceInv'
PROOF
  <1>1. node \in NodeType BY TypeFacts DEF ExecutionInv
  <1>2. /\ \A x \in Executions \ {e} : node'[x] = node[x]
        /\ \A m \in NodeIds \ {n} : node'[e][m] = node[e][m]
        /\ node'[e][n] = k
    BY <1>1 DEF NodeType
  <1>3. wins'[e][Guard] = 0 BY DEF OnceInv
  <1>4. ASSUME e \notin overlapped
        PROVE  /\ Clean(r, e)'
               /\ \A m \in NodeIds :
                    wins'[e][m] <= 1 /\ (wins'[e][m] # 0 => node'[e][m].latest = "succeeded")
    <2>1. Clean(r, e)' BY <1>2, <1>4 DEF Clean, Exists
    <2>2. \A m \in NodeIds : wins[e][m] <= 1 /\ (wins[e][m] # 0 => node[e][m].latest = "succeeded")
      BY <1>4 DEF OnceInv
    <2> QED BY <1>2, <1>4, <2>1, <2>2
  <1> QED BY <1>2, <1>3, <1>4, OnceStep

\* Whoever is past reading a status, and not done, inserts rows.
LEMMA Busy ==
  ASSUME ExecutionInv, OnceInv, NEW p \in Processes, proc[p].pc \notin {"idle", "read", "write"}
  PROVE  /\ Mutating(p) /\ proc[p].kind \in Mutators
         /\ proc[p] \in ProcRecords /\ proc[p].exec \in Executions
PROOF
  <1>1. proc[p] \in ProcRecords /\ proc[p].exec \in Executions
    BY TypeFacts DEF ExecutionInv, ProcInv, Fits
  <1>2. proc[p].kind \in Kinds BY <1>1 DEF ProcRecords
  <1>3. Shaped(proc[p]) BY DEF OnceInv
  <1> QED BY <1>1, <1>2, <1>3 DEF Shaped, Mutating, Mutators, Kinds

\* p is done, or goes on without a node or children in its hand.
Plain(p, r) ==
  \/ r = Idle
  \/ /\ Mutating(p) /\ r.kind \in Mutators /\ r.exec = proc[p].exec
     /\ r.pc \in {"look", "seed", "read", "write", "back", "limits"}
  \/ /\ r.kind = proc[p].kind /\ r.then = proc[p].then /\ r.exec = proc[p].exec
     /\ r.pc \in {"read", "write"}

LEMMA PlainTakes ==
  ASSUME OnceInv, NEW p \in Processes, proc[p].pc # "idle", NEW r \in ProcRecords,
         Go(p, r), Plain(p, r)
  PROVE  Takes(p, r) /\ r.pc \notin {"execute", "check", "insert", "child", "branch"}
PROOF
  <1>1. Shaped(proc[p]) BY DEF OnceInv
  <1>2. CASE r = Idle BY <1>2 DEF Takes, Idle, Shaped, Mutators
  <1>3. CASE /\ Mutating(p) /\ r.kind \in Mutators /\ r.exec = proc[p].exec
             /\ r.pc \in {"look", "seed", "read", "write", "back", "limits"}
    BY <1>3 DEF Takes, Shaped, Mutators
  <1>4. CASE /\ r.kind = proc[p].kind /\ r.then = proc[p].then /\ r.exec = proc[p].exec
             /\ r.pc \in {"read", "write"}
    BY <1>1, <1>4 DEF Takes, Shaped, Mutators, Mutating
  <1> QED BY <1>2, <1>3, <1>4 DEF Plain

LEMMA PlainOnce ==
  ASSUME ExecutionInv, OnceInv, NEW p \in Processes, proc[p].pc # "idle", NEW r \in ProcRecords,
         Go(p, r), Plain(p, r), UNCHANGED <<overlapped, node, wins>>,
         \A x \in Executions : status[x] # "absent" => status'[x] # "absent"
  PROVE  OnceInv'
PROOF
  <1>1. Takes(p, r) /\ r.pc \notin {"execute", "check", "insert", "child", "branch"} BY PlainTakes
  <1>2. Clean(r, proc[p].exec) BY <1>1 DEF Clean
  <1> QED BY <1>1, <1>2, QuietOnce

LEMMA FailedPlain ==
  ASSUME ExecutionInv, NEW p \in Processes, proc[p].pc # "idle"
  PROVE  Failed(p) \in ProcRecords /\ Plain(p, Failed(p))
PROOF
  <1>1. proc[p] \in ProcRecords BY TypeFacts DEF ExecutionInv
  <1>2. Failed(p) \in ProcRecords BY FailedFits DEF ExecutionInv, ProcInv
  <1>3. CASE proc[p].kind = "run" /\ proc[p].then # "end"
    <2>1. PICK r : r = [proc[p] EXCEPT !.pc = "back", !.err = TRUE, !.event = "none", !.seen = "absent", !.kids = {}]
      OBVIOUS
    <2>2. r.kind = "run" /\ r.exec = proc[p].exec /\ r.pc = "back"
      BY <1>1, <1>3, <2>1 DEF ProcRecords
    <2>3. Failed(p) = r BY <1>3, <2>1 DEF Failed
    <2> QED BY <1>2, <1>3, <2>2, <2>3 DEF Plain, Mutating, Mutators
  <1>4. CASE ~(proc[p].kind = "run" /\ proc[p].then # "end") BY <1>2, <1>4 DEF Failed, Plain
  <1> QED BY <1>3, <1>4

\* The head of the loop never chooses a node that was run to success.
LEMMA HeadOnce ==
  ASSUME ExecutionInv, OnceInv, NEW p \in Processes, proc[p].pc \notin {"idle", "read", "write"},
         NEW lastErr \in BOOLEAN, NEW r \in Head(p, lastErr), Go(p, r),
         UNCHANGED <<overlapped, node, wins, status>>
  PROVE  OnceInv'
PROOF
  <1>1. /\ Mutating(p) /\ proc[p] \in ProcRecords /\ proc[p].exec \in Executions
    BY Busy
  <1>2. r \in ProcRecords BY HeadFits DEF ExecutionInv, ProcInv
  <1>3. ASSUME NEW event, r = End(p, event) PROVE OnceInv'
    <2>1. PICK i : i = Idle OBVIOUS
    <2>2. i \in ProcRecords BY <2>1, IdleFits, TypeFacts DEF ExecutionInv
    <2>3. r = [i EXCEPT !.pc = "read", !.kind = "run", !.exec = proc[p].exec, !.event = event, !.then = "end"]
      BY <1>3, <2>1 DEF End
    <2>4. r.pc = "read" /\ r.kind = "run" /\ r.exec = proc[p].exec BY <2>2, <2>3 DEF ProcRecords
    <2>5. Plain(p, r) BY <1>1, <2>4 DEF Plain, Mutators
    <2> QED BY <1>2, <2>5, PlainOnce
  <1>4. CASE r = Idle
    <2>1. Plain(p, r) BY <1>4 DEF Plain
    <2> QED BY <1>2, <2>1, PlainOnce
  <1>5. ASSUME NEW n \in NextNodes(proc[p].exec),
               r = [Idle EXCEPT !.pc = "execute", !.kind = "run", !.exec = proc[p].exec, !.node = n, !.then = "back",
                      !.lastErr = lastErr, !.ran = proc[p].ran, !.before = rows[proc[p].exec]]
        PROVE  OnceInv'
    <2>1. PICK i : i = Idle OBVIOUS
    <2>2. i \in ProcRecords BY <2>1, IdleFits, TypeFacts DEF ExecutionInv
    <2>3. i.kids = {} BY <2>1 DEF Idle
    <2>4. r.pc = "execute" /\ r.kind = "run" /\ r.exec = proc[p].exec /\ r.node = n /\ r.kids = {}
      BY <1>5, <2>1, <2>2, <2>3 DEF ProcRecords
    <2>5. Takes(p, r) BY <1>1, <2>4 DEF Takes, Shaped, Mutators
    <2>6. n \in NodeIds /\ node[proc[p].exec][n].latest \in {"pending", "due"}
      BY <1>5 DEF NextNodes, PendingNodes, DueNodes
    <2>7. proc[p].exec \notin overlapped => Clean(r, proc[p].exec)
      BY <1>1, <2>4, <2>6 DEF Clean, OnceInv
    <2> QED BY <1>2, <2>5, <2>7, QuietOnce
  <1>6. \/ r = Idle
        \/ \E event \in {"complete", "partial_success", "max_iterations"} : r = End(p, event)
        \/ \E n \in NextNodes(proc[p].exec) :
             r = [Idle EXCEPT !.pc = "execute", !.kind = "run", !.exec = proc[p].exec, !.node = n, !.then = "back",
                    !.lastErr = lastErr, !.ran = proc[p].ran, !.before = rows[proc[p].exec]]
    BY DEF Head, CompletionEvent
  <1> QED BY <1>3, <1>4, <1>5, <1>6

LEMMA LookOnce ==
  ASSUME ExecutionInv, OnceInv, NEW p \in Processes, Look(p), UNCHANGED snapshot
  PROVE  OnceInv'
PROOF
  <1>1. PICK r \in Head(p, FALSE) : Go(p, r) BY DEF Look
  <1>2. proc[p].pc \notin {"idle", "read", "write"} BY DEF Look, At
  <1>3. UNCHANGED <<overlapped, node, wins, status>> BY DEF Look
  <1> QED BY <1>1, <1>2, <1>3, HeadOnce

LEMMA BackOnce ==
  ASSUME ExecutionInv, OnceInv, NEW p \in Processes, Back(p), UNCHANGED snapshot
  PROVE  OnceInv'
PROOF
  <1>1. proc[p].pc \notin {"idle", "read", "write"} BY DEF Back, At
  <1>2. UNCHANGED <<overlapped, node, wins, status>> BY DEF Back, Quiet
  <1>3. CASE Go(p, Idle)
    <2>1. Idle \in ProcRecords BY IdleFits, TypeFacts DEF ExecutionInv
    <2> QED BY <1>1, <1>2, <1>3, <2>1, PlainOnce DEF Plain
  <1>4. ASSUME NEW lastErr \in BOOLEAN, NEW r \in Head(p, lastErr), Go(p, r) PROVE OnceInv'
    BY <1>1, <1>2, <1>4, HeadOnce
  <1>5. CASE Go(p, [proc[p] EXCEPT !.pc = "limits", !.node = NoNode, !.outcome = "none", !.before = 0])
    <2>1. PICK r : r = [proc[p] EXCEPT !.pc = "limits", !.node = NoNode, !.outcome = "none", !.before = 0]
      OBVIOUS
    <2>2. /\ Mutating(p) /\ proc[p].kind \in Mutators /\ proc[p] \in ProcRecords BY <1>1, Busy
    <2>3. r \in ProcRecords /\ r.pc = "limits" /\ r.exec = proc[p].exec /\ r.kind = proc[p].kind
      BY <2>1, <2>2, Names DEF ProcRecords
    <2>4. Plain(p, r) BY <2>2, <2>3 DEF Plain
    <2> QED BY <1>1, <1>2, <1>5, <2>1, <2>3, <2>4, PlainOnce
  <1>6. \/ Go(p, Idle)
        \/ \E lastErr \in BOOLEAN : \E r \in Head(p, lastErr) : Go(p, r)
        \/ Go(p, [proc[p] EXCEPT !.pc = "limits", !.node = NoNode, !.outcome = "none", !.before = 0])
    BY DEF Back
  <1> QED BY <1>3, <1>4, <1>5, <1>6

LEMMA ExecuteOnce ==
  ASSUME ExecutionInv, OnceInv, NEW p \in Processes, Execute(p), UNCHANGED snapshot
  PROVE  OnceInv'
PROOF
  <1>1. /\ proc[p] \in ProcRecords /\ Fits(proc[p], decisions) /\ proc[p].pc = "execute"
        /\ proc[p].exec \in Executions /\ Mutating(p)
    BY Busy DEF ExecutionInv, ProcInv, Execute, At
  <1>2. proc[p].node \in NodeIds /\ proc[p].kind = "run" BY <1>1 DEF Fits
  <1>3. UNCHANGED <<overlapped, node, wins, status>> BY DEF Execute
  <1> DEFINE a == node[proc[p].exec][proc[p].node].attempt
             done == [proc[p] EXCEPT !.pc = "check", !.ran = @ + 1, !.attempt = a]
  <1>4. a \in Nat /\ proc[p].ran + 1 \in Nat
    <2>1. proc[p].ran \in Nat BY <1>1 DEF ProcRecords
    <2>2. a \in Nat BY <1>1, <1>2, TypeFacts DEF ExecutionInv, NodeRecords
    <2> QED BY <2>1, <2>2
  <1>5. \/ Go(p, [done EXCEPT !.pc = "back", !.attempt = 0, !.err = TRUE])
        \/ /\ proc[p].node # Guard
           /\ \E pc \in {"check", "insert"} : \E o \in {"succeeded", "failed", "waiting"} :
                Go(p, [done EXCEPT !.pc = pc, !.outcome = o])
    <2> HIDE DEF done
    <2>1. Guard \notin snapshot[proc[p].exec].forms
      BY <1>1, TypeFacts, NamesAssumption DEF ExecutionInv
    <2>2. done = [proc[p] EXCEPT !.pc = "check", !.ran = @ + 1, !.attempt = a] BY DEF done
    <2>3. CASE Go(p, [done EXCEPT !.pc = "back", !.attempt = 0, !.err = TRUE]) BY <2>3
    <2>4. CASE /\ proc[p].node \in snapshot[proc[p].exec].forms
               /\ Go(p, [done EXCEPT !.pc = "insert", !.outcome = "waiting"])
      BY <2>1, <2>4
    <2>5. ASSUME proc[p].node # Guard, NEW o \in {"succeeded", "failed"}, Go(p, [done EXCEPT !.outcome = o])
          PROVE  \E pc \in {"check", "insert"} : \E x \in {"succeeded", "failed", "waiting"} :
                   Go(p, [done EXCEPT !.pc = pc, !.outcome = x])
      <3>1. [done EXCEPT !.outcome = o] = [done EXCEPT !.pc = "check", !.outcome = o]
        BY <1>1, <1>4, <2>2 DEF ProcRecords
      <3> QED BY <2>5, <3>1
    <2> QED BY <2>2, <2>3, <2>4, <2>5 DEF Execute
  <1> HIDE DEF a
  <1>6. /\ done \in ProcRecords /\ done.exec = proc[p].exec /\ done.node = proc[p].node
        /\ done.kind = "run" /\ done.kids = proc[p].kids
    BY <1>1, <1>2, <1>4, Names DEF ProcRecords
  <1> HIDE DEF done
  <1>7. CASE Go(p, [done EXCEPT !.pc = "back", !.attempt = 0, !.err = TRUE])
    <2>1. PICK r : r = [done EXCEPT !.pc = "back", !.attempt = 0, !.err = TRUE] OBVIOUS
    <2>2. r \in ProcRecords /\ r.pc = "back" /\ r.exec = proc[p].exec /\ r.kind = "run"
      BY <1>6, <2>1 DEF ProcRecords, Pcs
    <2>3. Plain(p, r) BY <1>1, <2>2 DEF Plain, Mutators
    <2> QED BY <1>1, <1>3, <1>7, <2>1, <2>2, <2>3, PlainOnce
  <1>8. ASSUME proc[p].node # Guard, NEW pc \in {"check", "insert"}, NEW o \in {"succeeded", "failed", "waiting"},
               Go(p, [done EXCEPT !.pc = pc, !.outcome = o])
        PROVE  OnceInv'
    <2>1. PICK r : r = [done EXCEPT !.pc = pc, !.outcome = o] OBVIOUS
    <2>2. /\ r \in ProcRecords /\ r.pc = pc /\ r.exec = proc[p].exec /\ r.node = proc[p].node
          /\ r.kind = "run" /\ r.kids = proc[p].kids
      BY <1>1, <1>6, <2>1 DEF ProcRecords, Pcs
    <2>3. Takes(p, r) BY <1>1, <1>8, <2>1, <2>2 DEF Takes, Shaped, Mutators
    <2>4. proc[p].exec \notin overlapped => Clean(proc[p], proc[p].exec)
      BY <1>1 DEF OnceInv, Works
    <2>5. proc[p].exec \notin overlapped => Clean(r, proc[p].exec)
      BY <1>1, <1>2, <2>2, <2>4 DEF Clean
    <2> QED BY <1>1, <1>3, <2>2, <2>3, <2>5, QuietOnce
  <1> QED BY <1>5, <1>7, <1>8

LEMMA CheckOnce ==
  ASSUME ExecutionInv, OnceInv, NEW p \in Processes, Check(p), UNCHANGED snapshot
  PROVE  OnceInv'
PROOF
  <1>1. /\ proc[p] \in ProcRecords /\ proc[p].pc = "check" /\ proc[p].exec \in Executions
        /\ Mutating(p) /\ Shaped(proc[p])
    BY Busy DEF Check, At, OnceInv
  <1>2. UNCHANGED <<overlapped, node, wins, status>> BY DEF Check
  <1>3. CASE Go(p, Failed(p)) BY <1>1, <1>2, <1>3, FailedPlain, PlainOnce
  <1>4. ASSUME NEW kids \in SUBSET Nodes, \A c \in kids : ~Exists(proc[p].exec, c),
               Go(p, [proc[p] EXCEPT !.pc = "insert", !.seen = status[proc[p].exec], !.kids = kids])
        PROVE  OnceInv'
    <2>1. PICK r : r = [proc[p] EXCEPT !.pc = "insert", !.seen = status[proc[p].exec], !.kids = kids] OBVIOUS
    <2>2. status[proc[p].exec] \in Lifecycle!Statuses BY <1>1 DEF ExecutionInv, TypeOK
    <2>3. /\ r \in ProcRecords /\ r.pc = "insert" /\ r.exec = proc[p].exec /\ r.node = proc[p].node
          /\ r.kind = proc[p].kind /\ r.outcome = proc[p].outcome /\ r.kids = kids
      BY <1>1, <2>1, <2>2, Names DEF ProcRecords
    <2>4. Takes(p, r) BY <1>1, <1>4, <2>1, <2>3 DEF Takes, Shaped
    <2>5. proc[p].exec \notin overlapped => Clean(proc[p], proc[p].exec)
      BY <1>1 DEF OnceInv, Works
    <2>6. proc[p].exec \notin overlapped => Clean(r, proc[p].exec)
      BY <1>1, <1>4, <2>3, <2>5 DEF Clean
    <2> QED BY <1>1, <1>2, <2>3, <2>4, <2>6, QuietOnce
  <1>5. \E kids \in {{Branch(proc[p].exec)} \ {c \in Nodes : Exists(proc[p].exec, c)}, {}} :
          \/ Go(p, Failed(p))
          \/ Go(p, [proc[p] EXCEPT !.pc = "insert", !.seen = status[proc[p].exec], !.kids = kids])
    <2>1. Branch(proc[p].exec) \in Nodes BY <1>1, TypeFacts DEF Branch, ExecutionInv
    <2>2. ~Exists(proc[p].exec, Branch(proc[p].exec)) =>
            {Branch(proc[p].exec)} = {Branch(proc[p].exec)} \ {c \in Nodes : Exists(proc[p].exec, c)}
      BY <2>1
    <2>3. \/ Go(p, Failed(p))
          \/ /\ ~Exists(proc[p].exec, Branch(proc[p].exec))
             /\ Go(p, [proc[p] EXCEPT !.pc = "insert", !.seen = status[proc[p].exec], !.kids = {Branch(proc[p].exec)}])
          \/ Go(p, [proc[p] EXCEPT !.pc = "insert", !.seen = status[proc[p].exec], !.kids = {}])
      BY DEF Check
    <2> QED BY <2>2, <2>3
  <1>6. \A kids \in {{Branch(proc[p].exec)} \ {c \in Nodes : Exists(proc[p].exec, c)}, {}} :
          kids \in SUBSET Nodes /\ \A c \in kids : ~Exists(proc[p].exec, c)
    <2>1. Branch(proc[p].exec) \in Nodes BY <1>1, TypeFacts DEF Branch, ExecutionInv
    <2> QED BY <2>1
  <1> QED BY <1>3, <1>4, <1>5, <1>6

LEMMA SeedOnce ==
  ASSUME ExecutionInv, OnceInv, NEW p \in Processes, Seed(p), UNCHANGED snapshot
  PROVE  OnceInv'
PROOF
  <1>1. /\ proc[p] \in ProcRecords /\ proc[p].pc = "seed" /\ proc[p].exec \in Executions
        /\ Mutating(p) /\ proc[p].kind \in Mutators
    BY Busy DEF Seed, At
  <1>2. UNCHANGED <<overlapped, node, wins, status>> BY DEF Seed, Quiet
  <1>3. PICK kids \in SUBSET Nodes :
          /\ Go(p, [proc[p] EXCEPT !.pc = "child", !.kids = kids])
          /\ \A c \in kids : ~Exists(proc[p].exec, c)
    <2>1. /\ ReadyChildren(proc[p].exec, proc[p].node) \in SUBSET Nodes
          /\ \A c \in ReadyChildren(proc[p].exec, proc[p].node) : ~Exists(proc[p].exec, c)
      BY DEF ReadyChildren
    <2> QED BY <2>1 DEF Seed
  <1>4. PICK r : r = [proc[p] EXCEPT !.pc = "child", !.kids = kids] OBVIOUS
  <1>5. /\ r \in ProcRecords /\ r.pc = "child" /\ r.exec = proc[p].exec /\ r.kids = kids
        /\ r.kind = proc[p].kind
    BY <1>1, <1>4, Names DEF ProcRecords
  <1>6. Takes(p, r) BY <1>1, <1>3, <1>4, <1>5 DEF Takes, Shaped, Mutators
  <1>7. Clean(r, proc[p].exec) BY <1>3, <1>5 DEF Clean
  <1> QED BY <1>1, <1>2, <1>5, <1>6, <1>7, QuietOnce

LEMMA ReadOnce ==
  ASSUME ExecutionInv, OnceInv, NEW p \in Processes, Read(p), UNCHANGED snapshot
  PROVE  OnceInv'
PROOF
  <1>1. proc[p] \in ProcRecords /\ proc[p].pc = "read" /\ proc[p].exec \in Executions
    BY TypeFacts DEF ExecutionInv, ProcInv, Fits, Read, At
  <1>2. UNCHANGED <<overlapped, node, wins, status>> BY DEF Read, Quiet
  <1>3. CASE Go(p, Failed(p)) BY <1>1, <1>2, <1>3, FailedPlain, PlainOnce
  <1>4. CASE Go(p, [proc[p] EXCEPT !.pc = "write", !.seen = status[proc[p].exec]])
    <2>1. PICK r : r = [proc[p] EXCEPT !.pc = "write", !.seen = status[proc[p].exec]] OBVIOUS
    <2>2. status[proc[p].exec] \in Lifecycle!Statuses BY <1>1 DEF ExecutionInv, TypeOK
    <2>3. /\ r \in ProcRecords /\ r.pc = "write" /\ r.exec = proc[p].exec
          /\ r.kind = proc[p].kind /\ r.then = proc[p].then
      BY <1>1, <2>1, <2>2, Names DEF ProcRecords
    <2>4. Plain(p, r) BY <2>3 DEF Plain
    <2> QED BY <1>1, <1>2, <1>4, <2>1, <2>3, <2>4, PlainOnce
  <1> QED BY <1>3, <1>4 DEF Read

LEMMA WriteOnce ==
  ASSUME ExecutionInv, OnceInv, NEW p \in Processes, Write(p), UNCHANGED snapshot
  PROVE  OnceInv'
PROOF
  <1>1. /\ proc[p] \in ProcRecords /\ proc[p].pc = "write" /\ proc[p].exec \in Executions
        /\ proc[p].then # "none" /\ Shaped(proc[p]) /\ proc[p].kind \in Kinds
    BY TypeFacts DEF ExecutionInv, ProcInv, Fits, Write, At, OnceInv, ProcRecords
  <1>2. UNCHANGED <<overlapped, node, wins>> BY DEF Write
  <1>3. \A x \in Executions : status[x] # "absent" => status'[x] # "absent"
    <2>1. CASE UNCHANGED status BY <2>1
    <2>2. CASE status' = [status EXCEPT ![proc[p].exec] = Lifecycle!Target(proc[p].seen, proc[p].event)]
      <3>1. Lifecycle!Allowed(proc[p].seen, proc[p].event)
        BY DEF ExecutionInv, ProcInv, Fits, Write, At
      <3>2. \E t \in Lifecycle!Transitions : t[1] = proc[p].seen /\ t[2] = proc[p].event
        BY <3>1, Zenon DEF Lifecycle!Allowed
      <3>3. PICK t \in Lifecycle!Transitions : Lifecycle!Target(proc[p].seen, proc[p].event) = t[3]
        BY <3>2, Zenon DEF Lifecycle!Target
      <3>4. t[3] # "absent" BY DEF Lifecycle!Transitions, Lifecycle!Final
      <3> QED BY <1>1, <2>2, <3>3, <3>4 DEF ExecutionInv, TypeOK
    <2> QED BY <2>1, <2>2 DEF Write
  <1>4. CASE Go(p, Failed(p)) BY <1>1, <1>2, <1>3, <1>4, FailedPlain, PlainOnce
  <1>5. CASE Go(p, Idle)
    <2>1. Idle \in ProcRecords BY IdleFits, TypeFacts DEF ExecutionInv
    <2> QED BY <1>1, <1>2, <1>3, <1>5, <2>1, PlainOnce DEF Plain
  <1>6. CASE /\ proc[p].then # "end"
             /\ Go(p, [proc[p] EXCEPT !.pc = proc[p].then, !.event = "none", !.seen = "absent"])
    <2>1. PICK r : r = [proc[p] EXCEPT !.pc = proc[p].then, !.event = "none", !.seen = "absent"] OBVIOUS
    <2>2. proc[p].then \in {"look", "seed", "back"} BY <1>1, <1>6 DEF ProcRecords
    <2>3. proc[p].then \in Pcs BY <2>2, Names
    <2>4. /\ r \in ProcRecords /\ r.pc \in {"look", "seed", "back"} /\ r.exec = proc[p].exec
          /\ r.kind = proc[p].kind
      BY <1>1, <2>1, <2>2, <2>3, Names DEF ProcRecords
    <2>5. proc[p].kind \in Mutators BY <1>1, <1>6 DEF Shaped, Mutators, Kinds
    <2>6. Plain(p, r) BY <2>4, <2>5 DEF Plain, Mutators, Mutating
    <2> QED BY <1>1, <1>2, <1>3, <1>6, <2>1, <2>4, <2>6, PlainOnce
  <1> QED BY <1>4, <1>5, <1>6 DEF Write

LEMMA FaultOnce ==
  ASSUME ExecutionInv, OnceInv, NEW p \in Processes, StatementFails(p) \/ Crash(p), UNCHANGED snapshot
  PROVE  OnceInv'
PROOF
  <1>1. proc[p].pc # "idle" BY DEF StatementFails, Crash, At
  <1>2. UNCHANGED <<overlapped, node, wins, status>> BY DEF StatementFails, Crash
  <1>3. CASE Go(p, Failed(p)) BY <1>1, <1>2, <1>3, FailedPlain, PlainOnce
  <1>4. CASE Go(p, Idle)
    <2>1. Idle \in ProcRecords BY IdleFits, TypeFacts DEF ExecutionInv
    <2> QED BY <1>1, <1>2, <1>4, <2>1, PlainOnce DEF Plain
  <1> QED BY <1>3, <1>4 DEF StatementFails, Crash

\* A row of n, whose status is now the latest.
NewRow(e, n, st) == \E k \in NodeRecords : node' = [node EXCEPT ![e][n] = k] /\ k.latest = st

LEMMA RowLatest ==
  ASSUME TypeOK, NEW e \in Executions, NEW n \in NodeIds, NEW st \in Latest \ {"none"},
         NEW attempt \in Nat, NEW waits \in BOOLEAN, AddRow(e, n, st, attempt, waits)
  PROVE  NewRow(e, n, st)
PROOF
  <1>1. PICK b \in NodeRecords : b = node[e][n] BY TypeFacts
  <1>2. PICK k : k = WithRow(b, st, attempt, waits) OBVIOUS
  <1>3. k \in NodeRecords /\ k.latest = st BY <1>2, WithRowFacts
  <1>4. node' = [node EXCEPT ![e][n] = k] BY <1>1, <1>2 DEF AddRow
  <1> QED BY <1>3, <1>4 DEF NewRow

LEMMA EndPlain ==
  ASSUME ExecutionInv, OnceInv, NEW p \in Processes, proc[p].pc \notin {"idle", "read", "write"},
         NEW event \in Lifecycle!Events
  PROVE  End(p, event) \in ProcRecords /\ Plain(p, End(p, event))
PROOF
  <1>1. Mutating(p) /\ proc[p].exec \in Executions BY Busy
  <1>2. PICK i : i = Idle OBVIOUS
  <1>3. i \in ProcRecords BY <1>2, IdleFits, TypeFacts DEF ExecutionInv
  <1>4. PICK r : r = [i EXCEPT !.pc = "read", !.kind = "run", !.exec = proc[p].exec, !.event = event, !.then = "end"]
    OBVIOUS
  <1>5. r \in ProcRecords /\ r.pc = "read" /\ r.kind = "run" /\ r.exec = proc[p].exec
    BY <1>1, <1>3, <1>4, Names DEF ProcRecords
  <1>6. End(p, event) = r BY <1>2, <1>4 DEF End
  <1> QED BY <1>1, <1>5, <1>6 DEF Plain, Mutators

\* What a process that is about to insert knows, if it works alone.
LEMMA InsertingOnce ==
  ASSUME ExecutionInv, OnceInv, NEW p \in Processes, proc[p].pc = "insert"
  PROVE  /\ Mutating(p) /\ proc[p].kind \in Mutators /\ Shaped(proc[p])
         /\ proc[p].exec \notin overlapped => Clean(proc[p], proc[p].exec)
PROOF BY Busy DEF OnceInv, Works

LEMMA InsertSuccessOnce ==
  ASSUME ExecutionInv, OnceInv, NEW p \in Processes, InsertSuccess(p), UNCHANGED snapshot
  PROVE  OnceInv'
PROOF
  <1>0. proc[p].pc = "insert" BY DEF InsertSuccess, At
  <1>1. /\ TypeOK /\ proc[p] \in ProcRecords /\ proc[p].exec \in Executions /\ proc[p].node \in NodeIds
        /\ proc[p].attempt \in Nat /\ wins \in [Executions -> [NodeIds -> Nat]]
    BY <1>0, Inserting
  <1>2. /\ Mutating(p) /\ proc[p].kind \in Mutators /\ Shaped(proc[p])
        /\ proc[p].exec \notin overlapped => Clean(proc[p], proc[p].exec)
    BY <1>0, InsertingOnce
  <1>3. UNCHANGED <<overlapped, status>> BY DEF InsertSuccess, Quiet
  <1>4. PICK k \in NodeRecords : node' = [node EXCEPT ![proc[p].exec][proc[p].node] = k] /\ k.latest = "succeeded"
    <2>1. "succeeded" \in Latest \ {"none"} BY DEF Latest
    <2>2. AddRow(proc[p].exec, proc[p].node, "succeeded", proc[p].attempt, FALSE) BY DEF InsertSuccess
    <2>3. NewRow(proc[p].exec, proc[p].node, "succeeded") BY <1>1, <2>1, <2>2, RowLatest
    <2> QED BY <2>3 DEF NewRow
  <1>5. PICK r : r = [proc[p] EXCEPT !.pc = "seed", !.attempt = 0, !.seen = "absent"] OBVIOUS
  <1>6. r \in ProcRecords /\ r.pc = "seed" /\ r.exec = proc[p].exec /\ r.kind = proc[p].kind
    BY <1>1, <1>5, Names DEF ProcRecords
  <1>7. Go(p, r) BY <1>5 DEF InsertSuccess
  <1>8. Takes(p, r) BY <1>2, <1>6, <1>7 DEF Takes, Shaped, Mutators
  <1>9. PICK e \in Executions, n \in NodeIds : e = proc[p].exec /\ n = proc[p].node BY <1>1
  <1>10. Clean(r, e)' BY <1>6 DEF Clean
  <1>11. /\ \A x \in Executions \ {e} : node'[x] = node[x] /\ wins'[x] = wins[x]
         /\ \A m \in NodeIds \ {n} : node'[e][m] = node[e][m] /\ wins'[e][m] = wins[e][m]
         /\ node'[e][n] = k
         /\ wins'[e][n] = wins[e][n] \/ (proc[p].kind = "run" /\ wins'[e][n] = wins[e][n] + 1)
    <2>1. node \in NodeType BY <1>1, TypeFacts
    <2>2. wins' = wins \/ (proc[p].kind = "run" /\ wins' = [wins EXCEPT ![e][n] = wins[e][n] + 1])
      BY <1>9 DEF InsertSuccess
    <2> QED BY <1>1, <1>4, <1>9, <2>1, <2>2 DEF NodeType
  <1>12. wins'[e][Guard] = 0
    <2>1. proc[p].kind = "run" => n # Guard BY <1>0, <1>2, <1>9 DEF Shaped
    <2>2. Guard \in NodeIds BY DEF NodeIds
    <2> QED BY <1>11, <2>1, <2>2 DEF OnceInv
  <1>13. ASSUME e \notin overlapped, NEW m \in NodeIds
         PROVE  wins'[e][m] <= 1 /\ (wins'[e][m] # 0 => node'[e][m].latest = "succeeded")
    <2>1. wins[e][m] <= 1 /\ (wins[e][m] # 0 => node[e][m].latest = "succeeded")
      BY <1>13 DEF OnceInv
    <2>2. proc[p].kind = "run" => wins[e][n] = 0 BY <1>0, <1>2, <1>9, <1>13 DEF Clean
    <2> QED BY <1>4, <1>11, <2>1, <2>2
  <1>14. proc[p].pc # "idle" BY <1>0
  <1>15. \A x \in Executions : status[x] # "absent" => status'[x] # "absent" BY <1>3
  <1> QED BY <1>2, <1>3, <1>6, <1>8, <1>10, <1>9, <1>11, <1>12, <1>13, <1>14, <1>15, OnceStep

LEMMA InsertWaitOnce ==
  ASSUME ExecutionInv, OnceInv, NEW p \in Processes, InsertWait(p), UNCHANGED snapshot
  PROVE  OnceInv'
PROOF
  <1>0. proc[p].pc = "insert" BY DEF InsertWait, At
  <1>1. /\ TypeOK /\ proc[p] \in ProcRecords /\ proc[p].exec \in Executions /\ proc[p].node \in NodeIds
        /\ proc[p].attempt \in Nat /\ Fits(proc[p], decisions)
    BY <1>0, Inserting
  <1>2. /\ Mutating(p) /\ proc[p].kind \in Mutators /\ Shaped(proc[p])
        /\ proc[p].exec \notin overlapped => Clean(proc[p], proc[p].exec)
    BY <1>0, InsertingOnce
  <1>3. UNCHANGED <<overlapped, wins, status>> BY DEF InsertWait, Quiet
  <1>4. PICK k \in NodeRecords : node' = [node EXCEPT ![proc[p].exec][proc[p].node] = k]
    <2>1. "pending" \in Latest \ {"none"} BY DEF Latest
    <2>2. AddRow(proc[p].exec, proc[p].node, "pending", proc[p].attempt, TRUE) BY DEF InsertWait
    <2>3. NewRow(proc[p].exec, proc[p].node, "pending") BY <1>1, <2>1, <2>2, RowLatest
    <2> QED BY <2>3 DEF NewRow
  <1>5. PICK t : t = Transit(p, "pause", "back") OBVIOUS
  <1>6. t \in ProcRecords /\ t.pc = "read" /\ t.exec = proc[p].exec /\ t.kind = proc[p].kind
    <2>1. t \in ProcRecords BY <1>0, <1>1, <1>5, EventsAre, TransitFits
    <2>2. t.pc = "read" /\ t.exec = proc[p].exec /\ t.kind = proc[p].kind
      BY <1>1, <1>5 DEF Transit, ProcRecords
    <2> QED BY <2>1, <2>2
  <1>7. PICK r : r = [t EXCEPT !.err = TRUE, !.attempt = 0] OBVIOUS
  <1>8. r \in ProcRecords /\ r.pc = "read" /\ r.exec = proc[p].exec /\ r.kind = proc[p].kind
    BY <1>6, <1>7 DEF ProcRecords
  <1>9. Go(p, r) BY <1>5, <1>7 DEF InsertWait
  <1>10. Takes(p, r)
    <2>1. Plain(p, r) BY <1>2, <1>8 DEF Plain
    <2> QED BY <1>0, <1>8, <1>9, <2>1, PlainTakes
  <1>11. proc[p].exec \notin overlapped => wins[proc[p].exec][proc[p].node] = 0
    <2>1. proc[p].kind = "run" BY <1>0, <1>2 DEF InsertWait, Shaped
    <2> QED BY <1>0, <1>2, <2>1 DEF Clean
  <1>12. proc[p].pc # "idle" BY <1>0
  <1> QED BY <1>1, <1>2, <1>3, <1>4, <1>8, <1>10, <1>11, <1>12, RowOnce

LEMMA InsertDecisionOnce ==
  ASSUME ExecutionInv, OnceInv, NEW p \in Processes, InsertDecision(p), UNCHANGED snapshot
  PROVE  OnceInv'
PROOF
  <1>0. proc[p].pc = "insert" BY DEF InsertDecision, At
  <1>1. /\ TypeOK /\ proc[p] \in ProcRecords /\ proc[p].exec \in Executions /\ proc[p].node \in NodeIds
        /\ proc[p].attempt \in Nat /\ proc[p].attempt + 1 \in Nat
    BY <1>0, Inserting
  <1>2. /\ Mutating(p) /\ proc[p].kind \in Mutators
        /\ proc[p].exec \notin overlapped => Clean(proc[p], proc[p].exec)
    BY <1>0, InsertingOnce
  <1>3. UNCHANGED <<overlapped, wins, status>> BY DEF InsertDecision, Quiet
  <1>4. proc[p].kind \in {"retry", "continue"} BY DEF InsertDecision
  <1>5. PICK k \in NodeRecords : node' = [node EXCEPT ![proc[p].exec][proc[p].node] = k]
    <2>1. \E st \in {"pending", "skipped"}, a \in {proc[p].attempt, proc[p].attempt + 1} :
            AddRow(proc[p].exec, proc[p].node, st, a, FALSE)
      BY DEF InsertDecision
    <2>2. PICK st \in {"pending", "skipped"}, a \in {proc[p].attempt, proc[p].attempt + 1} :
            AddRow(proc[p].exec, proc[p].node, st, a, FALSE)
      BY <2>1
    <2>3. st \in Latest \ {"none"} /\ a \in Nat BY <1>1 DEF Latest
    <2>4. NewRow(proc[p].exec, proc[p].node, st) BY <1>1, <2>2, <2>3, RowLatest
    <2> QED BY <2>4 DEF NewRow
  <1>6. PICK r : r = [proc[p] EXCEPT !.pc = "read"] OBVIOUS
  <1>7. r \in ProcRecords /\ r.pc = "read" /\ r.exec = proc[p].exec /\ r.kind = proc[p].kind
    BY <1>1, <1>6, Names DEF ProcRecords
  <1>8. Go(p, r) BY <1>6 DEF InsertDecision
  <1>9. Takes(p, r)
    <2>1. Plain(p, r) BY <1>2, <1>7 DEF Plain
    <2> QED BY <1>0, <1>7, <1>8, <2>1, PlainTakes
  <1>10. proc[p].exec \notin overlapped => wins[proc[p].exec][proc[p].node] = 0
    BY <1>0, <1>2, <1>4 DEF Clean
  <1>11. proc[p].pc # "idle" BY <1>0
  <1> QED BY <1>1, <1>2, <1>3, <1>5, <1>7, <1>9, <1>10, <1>11, RowOnce

LEMMA InsertFailureOnce ==
  ASSUME ExecutionInv, OnceInv, NEW p \in Processes, InsertFailure(p), UNCHANGED snapshot
  PROVE  OnceInv'
PROOF
  <1>0. proc[p].pc = "insert" BY DEF InsertFailure, At
  <1>1. /\ TypeOK /\ proc[p] \in ProcRecords /\ proc[p].exec \in Executions /\ proc[p].node \in NodeIds
        /\ proc[p].attempt \in Nat /\ proc[p].attempt + 1 \in Nat /\ Fits(proc[p], decisions)
        /\ Exists(proc[p].exec, proc[p].node)
    BY <1>0, Inserting
  <1>2. /\ Mutating(p) /\ Shaped(proc[p])
        /\ proc[p].exec \notin overlapped => Clean(proc[p], proc[p].exec)
    BY <1>0, InsertingOnce
  <1>3. UNCHANGED <<overlapped, wins, status>> BY DEF InsertFailure, Quiet
  <1>4. proc[p].kind = "run" BY <1>0, <1>2 DEF InsertFailure, Shaped
  <1>5. PICK k \in NodeRecords : node' = [node EXCEPT ![proc[p].exec][proc[p].node] = k]
    <2>1. \E st \in {"failed", "retrying", "skipped"}, a \in {proc[p].attempt, proc[p].attempt + 1} :
            AddRow(proc[p].exec, proc[p].node, st, a, FALSE)
      BY DEF InsertFailure
    <2>2. PICK st \in {"failed", "retrying", "skipped"}, a \in {proc[p].attempt, proc[p].attempt + 1} :
            AddRow(proc[p].exec, proc[p].node, st, a, FALSE)
      BY <2>1
    <2>3. st \in Latest \ {"none"} /\ a \in Nat BY <1>1 DEF Latest
    <2>4. NewRow(proc[p].exec, proc[p].node, st) BY <1>1, <2>2, <2>3, RowLatest
    <2> QED BY <2>4 DEF NewRow
  <1>6. \A event \in {"fail", "start", "partial_success", "pause"}, then \in {"back", "seed"} :
          /\ Transit(p, event, then) \in ProcRecords /\ Transit(p, event, then).pc = "read"
          /\ Transit(p, event, then).exec = proc[p].exec /\ Transit(p, event, then).kind = "run"
    <2> SUFFICES ASSUME NEW event \in {"fail", "start", "partial_success", "pause"},
                        NEW then \in {"back", "seed"}
                 PROVE  /\ Transit(p, event, then) \in ProcRecords /\ Transit(p, event, then).pc = "read"
                        /\ Transit(p, event, then).exec = proc[p].exec /\ Transit(p, event, then).kind = "run"
      OBVIOUS
    <2>1. Transit(p, event, then) \in ProcRecords BY <1>0, <1>1, EventsAre, TransitFits
    <2> QED BY <1>1, <1>4, <2>1 DEF Transit, ProcRecords
  <1>7. \A pc \in {"back", "branch"} :
          /\ [proc[p] EXCEPT !.pc = pc] \in ProcRecords /\ [proc[p] EXCEPT !.pc = pc].pc = pc
          /\ [proc[p] EXCEPT !.pc = pc].exec = proc[p].exec /\ [proc[p] EXCEPT !.pc = pc].kind = "run"
          /\ [proc[p] EXCEPT !.pc = pc].kids = proc[p].kids
    BY <1>1, <1>4, Names DEF ProcRecords
  <1>8. \E next \in {Transit(p, "fail", "back"), Transit(p, "start", "back"), Transit(p, "pause", "back"),
                     Transit(p, "partial_success", "seed"),
                     [proc[p] EXCEPT !.pc = "back"], [proc[p] EXCEPT !.pc = "branch"]} :
          Go(p, [next EXCEPT !.err = TRUE, !.attempt = 0, !.outcome = "none", !.seen = "absent"])
    BY DEF InsertFailure
  <1>9. PICK next \in {Transit(p, "fail", "back"), Transit(p, "start", "back"), Transit(p, "pause", "back"),
                       Transit(p, "partial_success", "seed"),
                       [proc[p] EXCEPT !.pc = "back"], [proc[p] EXCEPT !.pc = "branch"]} :
          Go(p, [next EXCEPT !.err = TRUE, !.attempt = 0, !.outcome = "none", !.seen = "absent"])
    BY <1>8
  <1>10. /\ next \in ProcRecords /\ next.pc \in {"read", "back", "branch"}
         /\ next.exec = proc[p].exec /\ next.kind = "run"
         /\ next.pc = "branch" => next.kids = proc[p].kids
    <2>1. CASE \E event \in {"fail", "start", "partial_success", "pause"}, then \in {"back", "seed"} :
                 next = Transit(p, event, then)
      <3>1. PICK event \in {"fail", "start", "partial_success", "pause"}, then \in {"back", "seed"} :
              next = Transit(p, event, then)
        BY <2>1
      <3> QED BY <1>6, <3>1
    <2>2. CASE \E pc \in {"back", "branch"} : next = [proc[p] EXCEPT !.pc = pc]
      <3>1. PICK pc \in {"back", "branch"} : next = [proc[p] EXCEPT !.pc = pc] BY <2>2
      <3> QED BY <1>7, <3>1
    <2> QED BY <1>9, <2>1, <2>2
  <1>11. PICK r : r = [next EXCEPT !.err = TRUE, !.attempt = 0, !.outcome = "none", !.seen = "absent"]
    OBVIOUS
  <1>12. /\ r \in ProcRecords /\ r.pc = next.pc /\ r.exec = proc[p].exec /\ r.kind = "run"
         /\ r.pc = "branch" => r.kids = proc[p].kids
    BY <1>10, <1>11, Names DEF ProcRecords
  <1>13. Go(p, r) BY <1>9, <1>11
  <1>14. Takes(p, r) BY <1>2, <1>10, <1>12, <1>13 DEF Takes, Shaped
  <1>15. proc[p].exec \notin overlapped =>
           /\ wins[proc[p].exec][proc[p].node] = 0
           /\ r.pc \notin {"execute", "check", "insert"}
           /\ r.pc \in {"child", "branch"} =>
                \A c \in r.kids : c \in NodeIds \ {proc[p].node} /\ ~Exists(proc[p].exec, c)
    <2> SUFFICES ASSUME proc[p].exec \notin overlapped
                 PROVE  /\ wins[proc[p].exec][proc[p].node] = 0
                        /\ r.pc \notin {"execute", "check", "insert"}
                        /\ r.pc \in {"child", "branch"} =>
                             \A c \in r.kids : c \in NodeIds \ {proc[p].node} /\ ~Exists(proc[p].exec, c)
      OBVIOUS
    <2>1. Clean(proc[p], proc[p].exec) BY <1>2
    <2>2. wins[proc[p].exec][proc[p].node] = 0 /\ \A c \in proc[p].kids : ~Exists(proc[p].exec, c)
      BY <1>0, <1>4, <2>1 DEF Clean
    <2>3. proc[p].kids \in SUBSET NodeIds BY <1>1 DEF ProcRecords, NodeIds
    <2> QED BY <1>1, <1>10, <1>12, <2>2, <2>3
  <1>16. proc[p].pc # "idle" BY <1>0
  <1> QED BY <1>1, <1>2, <1>3, <1>5, <1>12, <1>14, <1>15, <1>16, RowOnce

LEMMA InsertedPlain ==
  ASSUME ExecutionInv, OnceInv, NEW p \in Processes, proc[p].pc \notin {"idle", "read", "write"}
  PROVE  /\ Inserted(p) \in ProcRecords /\ Inserted(p).pc \in {"back", "look", "read"}
         /\ Inserted(p).exec = proc[p].exec /\ Inserted(p).kind = proc[p].kind
         /\ Plain(p, Inserted(p))
PROOF
  <1>1. /\ Mutating(p) /\ proc[p].kind \in Mutators /\ proc[p] \in ProcRecords BY Busy
  <1>2. /\ Inserted(p) \in ProcRecords /\ Inserted(p).pc \in {"back", "look", "read"}
        /\ Inserted(p).exec = proc[p].exec
    BY InsertedFits DEF ExecutionInv, ProcInv
  <1>3. \A pc \in {"back", "look"} : [proc[p] EXCEPT !.pc = pc].kind = proc[p].kind
    BY <1>1 DEF ProcRecords
  <1>4. Transit(p, "resume", "look").kind = proc[p].kind BY <1>1 DEF Transit, ProcRecords
  <1>5. Inserted(p) \in {[proc[p] EXCEPT !.pc = "back"], [proc[p] EXCEPT !.pc = "look"],
                         Transit(p, "resume", "look")}
    BY DEF Inserted
  <1>6. Inserted(p).kind = proc[p].kind BY <1>3, <1>4, <1>5
  <1> QED BY <1>1, <1>2, <1>6 DEF Plain

LEMMA ChildOnce ==
  ASSUME ExecutionInv, OnceInv, NEW p \in Processes, Child(p), UNCHANGED snapshot
  PROVE  OnceInv'
PROOF
  <1>1. /\ TypeOK /\ proc[p] \in ProcRecords /\ proc[p].exec \in Executions /\ proc[p].pc = "child"
        /\ Mutating(p) /\ proc[p].kind \in Mutators
    BY Busy DEF Child, At, ExecutionInv
  <1>2. UNCHANGED <<overlapped, wins, status>> BY DEF Child, Quiet
  <1>3. CASE Go(p, Inserted(p)) /\ UNCHANGED <<rows, node>>
    <2>1. Inserted(p) \in ProcRecords /\ Plain(p, Inserted(p)) BY <1>1, InsertedPlain
    <2> QED BY <1>1, <1>2, <1>3, <2>1, PlainOnce
  <1>4. ASSUME NEW c \in proc[p].kids, AddRow(proc[p].exec, c, "pending", 1, FALSE),
               Go(p, [proc[p] EXCEPT !.kids = @ \ {c}])
        PROVE  OnceInv'
    <2>1. c \in NodeIds /\ proc[p].kids \in SUBSET NodeIds BY <1>1 DEF ProcRecords, NodeIds
    <2>2. "pending" \in Latest \ {"none"} BY DEF Latest
    <2>3. NewRow(proc[p].exec, c, "pending") BY <1>1, <1>4, <2>1, <2>2, RowLatest
    <2>4. PICK k \in NodeRecords : node' = [node EXCEPT ![proc[p].exec][c] = k] BY <2>3 DEF NewRow
    <2>5. PICK r : r = [proc[p] EXCEPT !.kids = @ \ {c}] OBVIOUS
    <2>6. /\ r \in ProcRecords /\ r.pc = "child" /\ r.exec = proc[p].exec
          /\ r.kids = proc[p].kids \ {c} /\ r.kind = proc[p].kind
      BY <1>1, <2>5 DEF ProcRecords
    <2>7. Takes(p, r) BY <1>1, <1>4, <2>5, <2>6 DEF Takes, Shaped, Mutators
    <2>8. proc[p].exec \notin overlapped =>
            \A x \in proc[p].kids : ~Exists(proc[p].exec, x)
      BY <1>1 DEF OnceInv, Works, Clean
    <2>9. proc[p].exec \notin overlapped => wins[proc[p].exec][c] = 0
      BY <1>1, <1>4, <2>1, <2>8 DEF OnceInv, Exists
    <2>10. proc[p].exec \notin overlapped =>
             \A x \in r.kids : x \in NodeIds \ {c} /\ ~Exists(proc[p].exec, x)
      BY <2>1, <2>6, <2>8
    <2>11. proc[p].pc # "idle" BY <1>1
    <2> QED BY <1>1, <1>2, <2>1, <2>4, <2>6, <2>7, <2>9, <2>10, <2>11, RowOnce
  <1> QED BY <1>3, <1>4 DEF Child

LEMMA SeedBranchOnce ==
  ASSUME ExecutionInv, OnceInv, NEW p \in Processes, SeedBranch(p), UNCHANGED snapshot
  PROVE  OnceInv'
PROOF
  <1>1. /\ TypeOK /\ proc[p] \in ProcRecords /\ proc[p].exec \in Executions /\ proc[p].pc = "branch"
        /\ Mutating(p) /\ proc[p].kind \in Mutators
    BY Busy DEF SeedBranch, At, ExecutionInv
  <1>2. UNCHANGED <<overlapped, wins, status>> BY DEF SeedBranch, Quiet
  <1>3. PICK i : i = Inserted(p) OBVIOUS
  <1>4. /\ i \in ProcRecords /\ i.pc \in {"back", "look", "read"} /\ i.exec = proc[p].exec
        /\ i.kind = proc[p].kind
    BY <1>1, <1>3, InsertedPlain
  <1>5. PICK r : r = [i EXCEPT !.kids = {}] OBVIOUS
  <1>6. r \in ProcRecords /\ r.pc = i.pc /\ r.exec = proc[p].exec /\ r.kind = proc[p].kind
    BY <1>4, <1>5 DEF ProcRecords
  <1>7. Go(p, r) BY <1>3, <1>5 DEF SeedBranch
  <1>8. Plain(p, r) BY <1>1, <1>4, <1>6 DEF Plain
  <1>9. CASE UNCHANGED <<rows, node>> BY <1>1, <1>2, <1>6, <1>7, <1>8, <1>9, PlainOnce
  <1>10. ASSUME NEW c \in proc[p].kids,
                node' = [node EXCEPT ![proc[p].exec][c] = [WithRow(@, "pending", 1, FALSE) EXCEPT !.branched = TRUE]]
         PROVE  OnceInv'
    <2>1. c \in NodeIds BY <1>1 DEF ProcRecords, NodeIds
    <2>2. PICK k : k = [WithRow(node[proc[p].exec][c], "pending", 1, FALSE) EXCEPT !.branched = TRUE] OBVIOUS
    <2>3. node' = [node EXCEPT ![proc[p].exec][c] = k] BY <1>10, <2>2
    <2>4. proc[p].exec \notin overlapped => ~Exists(proc[p].exec, c)
      BY <1>1, <1>10 DEF OnceInv, Works, Clean
    <2>5. proc[p].exec \notin overlapped => wins[proc[p].exec][c] = 0
      BY <1>1, <2>1, <2>4 DEF OnceInv, Exists
    <2>6. Takes(p, r) /\ r.pc \notin {"execute", "check", "insert", "child", "branch"}
      BY <1>1, <1>6, <1>7, <1>8, PlainTakes
    <2>7. proc[p].pc # "idle" BY <1>1
    <2> QED BY <1>1, <1>2, <1>6, <2>1, <2>3, <2>5, <2>6, <2>7, RowOnce
  <1> QED BY <1>9, <1>10 DEF SeedBranch

LEMMA LimitsOnce ==
  ASSUME ExecutionInv, OnceInv, NEW p \in Processes, Limits(p), UNCHANGED snapshot
  PROVE  OnceInv'
PROOF
  <1>1. /\ TypeOK /\ proc[p] \in ProcRecords /\ proc[p].exec \in Executions /\ proc[p].pc = "limits"
        /\ Mutating(p)
    BY Busy DEF Limits, At, ExecutionInv
  <1>2. UNCHANGED <<overlapped, wins, status>> BY DEF Limits, Quiet
  <1>3. ASSUME NEW r \in Head(p, proc[p].lastErr), Go(p, r), UNCHANGED <<rows, node>> PROVE OnceInv'
    <2>1. proc[p].lastErr \in BOOLEAN BY <1>1 DEF ProcRecords
    <2> QED BY <1>1, <1>2, <1>3, <2>1, HeadOnce
  <1>4. \A event \in {"timeout", "max_iterations", "pause"} :
          End(p, event) \in ProcRecords /\ Plain(p, End(p, event))
    BY <1>1, EventsAre, EndPlain
  <1>5. ASSUME NEW event \in {"timeout", "max_iterations"}, Go(p, End(p, event)), UNCHANGED <<rows, node>>
        PROVE  OnceInv'
    BY <1>1, <1>2, <1>4, <1>5, PlainOnce
  <1>6. CASE AddRow(proc[p].exec, Guard, "failed", 1, FALSE) /\ Go(p, End(p, "pause"))
    <2>1. Guard \in NodeIds /\ "failed" \in Latest \ {"none"} BY DEF NodeIds, Latest
    <2>2. NewRow(proc[p].exec, Guard, "failed") BY <1>1, <1>6, <2>1, RowLatest
    <2>3. PICK k \in NodeRecords : node' = [node EXCEPT ![proc[p].exec][Guard] = k] BY <2>2 DEF NewRow
    <2>4. PICK r : r = End(p, "pause") OBVIOUS
    <2>5. r \in ProcRecords /\ Plain(p, r) BY <1>4, <2>4
    <2>6. Takes(p, r) /\ r.pc \notin {"execute", "check", "insert", "child", "branch"}
      BY <1>1, <1>6, <2>4, <2>5, PlainTakes
    <2>7. wins[proc[p].exec][Guard] = 0 BY <1>1 DEF OnceInv
    <2>8. proc[p].pc # "idle" BY <1>1
    <2> QED BY <1>1, <1>2, <2>1, <2>3, <2>5, <2>6, <2>7, <2>8, RowOnce
  <1> QED BY <1>3, <1>5, <1>6 DEF Limits

LEMMA StepOnce ==
  ASSUME ExecutionInv, OnceInv, NEW p \in Processes, Step(p) \/ StatementFails(p) \/ Crash(p),
         UNCHANGED snapshot
  PROVE  OnceInv'
PROOF BY LookOnce, ExecuteOnce, CheckOnce, InsertSuccessOnce, InsertWaitOnce, InsertFailureOnce,
         InsertDecisionOnce, SeedOnce, ChildOnce, SeedBranchOnce, ReadOnce, WriteOnce, BackOnce,
         LimitsOnce, FaultOnce
      DEF Step

\* A request that begins: alone, or its execution is marked.
LEMMA RequestOnce ==
  ASSUME ExecutionInv, OnceInv, NEW p \in Processes, NEW e \in Executions, proc[p].pc = "idle",
         NEW r \in ProcRecords, Go(p, r), Shaped(r), r.pc # "idle" => r.exec = e,
         UNCHANGED wins, status'[e] # "absent",
         \A x \in Executions \ {e} : status'[x] = status[x] /\ node'[x] = node[x],
         UNCHANGED node \/ status[e] = "absent",
         Overlap(p, e) \/ (r.kind \notin Mutators /\ UNCHANGED overlapped),
         e \notin overlapped' => Clean(r, e)'
  PROVE  OnceInv'
PROOF
  <1>0. TypeOK BY DEF ExecutionInv
  <1>1. /\ proc'[p] = r
        /\ \A q \in Processes : q # p => proc'[q] = proc[q]
    BY <1>0, Taken
  <1>2. overlapped \subseteq overlapped' BY DEF Overlap
  <1>3. \A x \in Executions : status[x] # "absent" => status'[x] # "absent" OBVIOUS
  <1>4. ASSUME NEW q \in Processes
        PROVE  /\ Shaped(proc[q])'
               /\ proc'[q].pc # "idle" => status'[proc'[q].exec] # "absent"
    <2>1. CASE q = p
      <3>1. Shaped(r)' <=> Shaped(r) BY DEF Shaped
      <3> QED BY <1>1, <2>1, <3>1 DEF Shaped
    <2>2. CASE q # p
      <3>1. proc[q].pc # "idle" => proc[q].exec \in Executions
        BY DEF ExecutionInv, ProcInv, Fits
      <3> QED BY <1>1, <1>3, <2>2, <3>1 DEF OnceInv, Shaped
    <2> QED BY <2>1, <2>2
  <1>5. \A x \in Executions : status'[x] = "absent" => \A n \in NodeIds : wins'[x][n] = 0
    BY <1>3 DEF OnceInv
  <1>6. \A x \in Executions : wins'[x][Guard] = 0 BY DEF OnceInv
  <1>7. ASSUME NEW q \in Processes, NEW x \in Executions, q # p, Works(q, x)'
        PROVE  Works(q, x) /\ status[x] # "absent"
    <2>1. Works(q, x) BY <1>1, <1>7 DEF Works, Mutating
    <2>2. Shaped(proc[q]) /\ (proc[q].pc # "idle" => status[proc[q].exec] # "absent") BY DEF OnceInv
    <2> QED BY <2>1, <2>2 DEF Works, Mutating, Shaped
  <1>8. ASSUME Works(p, e)' PROVE \A q \in Processes \ {p} : Works(q, e) => e \in overlapped'
    <2>1. r.kind \in Mutators BY <1>1, <1>8 DEF Works, Mutating, Mutators
    <2> QED BY <2>1 DEF Overlap, Works
  <1>9. ASSUME NEW x \in Executions, Works(p, x)' PROVE x = e
    <2>1. r.kind \in Mutators /\ r.exec = x BY <1>1, <1>9 DEF Works, Mutating, Mutators
    <2> QED BY <2>1 DEF Shaped, Mutators
  <1>10. ASSUME NEW x \in Executions \ overlapped'
         PROVE  /\ \A q, s \in Processes : Works(q, x)' /\ Works(s, x)' => q = s
                /\ \A q \in Processes : Works(q, x)' => Clean(proc[q], x)'
                /\ \A n \in NodeIds :
                     wins'[x][n] <= 1 /\ (wins'[x][n] # 0 => node'[x][n].latest = "succeeded")
    <2>0. x \notin overlapped BY <1>2
    <2>1. \A q, s \in Processes : Works(q, x)' /\ Works(s, x)' => q = s
      <3> SUFFICES ASSUME NEW q \in Processes, NEW s \in Processes, Works(q, x)', Works(s, x)', q # s
                   PROVE  FALSE
        OBVIOUS
      <3>1. CASE q # p /\ s # p
        <4>1. Works(q, x) /\ Works(s, x) BY <1>7, <3>1
        <4> QED BY <2>0, <4>1 DEF OnceInv
      <3>2. CASE q = p
        <4>1. x = e /\ Works(s, x) BY <1>7, <1>9, <3>2
        <4> QED BY <1>8, <3>2, <4>1
      <3>3. CASE s = p
        <4>1. x = e /\ Works(q, x) BY <1>7, <1>9, <3>3
        <4> QED BY <1>8, <3>3, <4>1
      <3> QED BY <3>1, <3>2, <3>3
    <2>2. ASSUME NEW q \in Processes, Works(q, x)' PROVE Clean(proc[q], x)'
      <3>1. CASE q = p
        <4>1. x = e BY <1>9, <2>2, <3>1
        <4>2. Clean(r, e)' BY <4>1
        <4> QED BY <1>1, <3>1, <4>1, <4>2 DEF Clean, Exists
      <3>2. CASE q # p
        <4>1. Works(q, x) /\ status[x] # "absent" BY <1>7, <2>2, <3>2
        <4>2. node'[x] = node[x] BY <4>1
        <4>3. Clean(proc[q], x) BY <2>0, <4>1 DEF OnceInv
        <4> QED BY <1>1, <3>2, <4>2, <4>3 DEF Clean, Exists
      <3> QED BY <3>1, <3>2
    <2>3. \A n \in NodeIds : wins'[x][n] <= 1 /\ (wins'[x][n] # 0 => node'[x][n].latest = "succeeded")
      <3>1. CASE node'[x] = node[x] BY <2>0, <3>1 DEF OnceInv
      <3>2. CASE status[x] = "absent" BY <3>2 DEF OnceInv
      <3> QED BY <3>1, <3>2
    <2> QED BY <2>1, <2>2, <2>3
  <1> QED BY <1>4, <1>5, <1>6, <1>10 DEF OnceInv

LEMMA StartOnce ==
  ASSUME ExecutionInv, OnceInv, NEW p \in Processes, NEW e \in Executions, Start(p, e), UNCHANGED snapshot
  PROVE  OnceInv'
PROOF
  <1>1. /\ proc[p].pc = "idle" /\ status[e] = "absent" /\ Overlap(p, e) /\ UNCHANGED wins
    BY DEF Start, At
  <1>2. /\ status'[e] # "absent"
        /\ \A x \in Executions \ {e} : status'[x] = status[x] /\ node'[x] = node[x]
    BY DEF Start, ExecutionInv, TypeOK
  <1>3. PICK i : i = Idle OBVIOUS
  <1>4. i \in ProcRecords /\ i.pc = "idle" /\ i.kind = "none"
    BY <1>3, IdleFits, TypeFacts DEF ExecutionInv, Idle
  <1>5. PICK r : r = [i EXCEPT !.pc = "look", !.kind = "run", !.exec = e] OBVIOUS
  <1>6. r \in ProcRecords /\ r.pc = "look" /\ r.exec = e /\ r.kind = "run"
    BY <1>4, <1>5, Names DEF ProcRecords
  <1>7. Go(p, i) \/ Go(p, r)
    <2>1. \E auto \in BOOLEAN :
            Go(p, IF auto THEN [Idle EXCEPT !.pc = "look", !.kind = "run", !.exec = e] ELSE Idle)
      BY DEF Start
    <2> QED BY <1>3, <1>5, <2>1
  <1>8. \A x \in {i, r} : /\ x \in ProcRecords /\ Shaped(x) /\ (x.pc # "idle" => x.exec = e)
                          /\ Clean(x, e)'
    BY <1>4, <1>6 DEF Shaped, Clean
  <1> QED BY <1>1, <1>2, <1>7, <1>8, RequestOnce

\* Requests about an execution that exists change neither statuses nor rows.
LEMMA AskedOnce ==
  ASSUME ExecutionInv, OnceInv, NEW p \in Processes, NEW e \in Executions, Asked(p, e),
         NEW r \in ProcRecords, Go(p, r), Shaped(r), r.exec = e, UNCHANGED <<status, node, wins>>,
         Overlap(p, e) \/ (r.kind \notin Mutators /\ UNCHANGED overlapped),
         e \notin overlapped => Clean(r, e)
  PROVE  OnceInv'
PROOF
  <1>1. proc[p].pc = "idle" /\ status[e] # "absent" BY DEF Asked, At
  <1>2. e \notin overlapped' => Clean(r, e)' BY DEF Overlap, Clean, Exists
  <1> QED BY <1>1, <1>2, RequestOnce

LEMMA AskStatusOnce ==
  ASSUME ExecutionInv, OnceInv, NEW p \in Processes, NEW e \in Executions,
         NEW event \in {"pause", "cancel"}, AskStatus(p, e, event), UNCHANGED snapshot
  PROVE  OnceInv'
PROOF
  <1>1. Asked(p, e) /\ UNCHANGED <<status, node, wins, overlapped>> BY DEF AskStatus
  <1>2. PICK i : i = Idle OBVIOUS
  <1>3. i \in ProcRecords BY <1>2, IdleFits, TypeFacts DEF ExecutionInv
  <1>4. PICK r : r = [i EXCEPT !.pc = "read", !.kind = event, !.exec = e, !.event = event, !.then = "end"]
    OBVIOUS
  <1>5. event \in Kinds /\ event \in Lifecycle!Events BY Names, EventsAre
  <1>6. r \in ProcRecords /\ r.pc = "read" /\ r.exec = e /\ r.then = "end" /\ r.kind = event
    BY <1>3, <1>4, <1>5, Names DEF ProcRecords
  <1>7. Shaped(r) /\ Clean(r, e) /\ r.kind \notin Mutators BY <1>6 DEF Shaped, Clean, Mutators
  <1>8. Go(p, r) BY <1>2, <1>4 DEF AskStatus
  <1> QED BY <1>1, <1>6, <1>7, <1>8, AskedOnce

LEMMA ResumeOnce ==
  ASSUME ExecutionInv, OnceInv, NEW p \in Processes, NEW e \in Executions, Resume(p, e), UNCHANGED snapshot
  PROVE  OnceInv'
PROOF
  <1>1. Asked(p, e) /\ UNCHANGED <<status, node, wins>> /\ Overlap(p, e) BY DEF Resume
  <1>2. PICK i : i = Idle OBVIOUS
  <1>3. i \in ProcRecords BY <1>2, IdleFits, TypeFacts DEF ExecutionInv
  <1>4. PICK r : r = [i EXCEPT !.pc = "read", !.kind = "resume", !.exec = e, !.event = "resume", !.then = "look"]
    OBVIOUS
  <1>5. "resume" \in Kinds /\ "resume" \in Lifecycle!Events BY Names, EventsAre
  <1>6. r \in ProcRecords /\ r.pc = "read" /\ r.exec = e /\ r.kind = "resume"
    BY <1>3, <1>4, <1>5, Names DEF ProcRecords
  <1>7. Shaped(r) /\ Clean(r, e) BY <1>6 DEF Shaped, Clean
  <1>8. Go(p, r) BY <1>2, <1>4 DEF Resume
  <1> QED BY <1>1, <1>6, <1>7, <1>8, AskedOnce

LEMMA SubmitOnce ==
  ASSUME ExecutionInv, OnceInv, NEW p \in Processes, NEW e \in Executions, NEW n \in Nodes,
         Submit(p, e, n), UNCHANGED snapshot
  PROVE  OnceInv'
PROOF
  <1>1. Asked(p, e) /\ UNCHANGED <<status, node, wins>> /\ Overlap(p, e) BY DEF Submit
  <1>2. PICK i : i = Idle OBVIOUS
  <1>3. PICK a : a = node[e][n].attempt OBVIOUS
  <1>4. i \in ProcRecords BY <1>2, IdleFits, TypeFacts DEF ExecutionInv
  <1>5. n \in NodeIds BY DEF NodeIds
  <1>6. a \in Nat BY <1>3, <1>5, AttemptFits
  <1>7. PICK r : r = [i EXCEPT !.pc = "check", !.kind = "resume", !.exec = e, !.node = n,
                        !.attempt = a, !.outcome = "succeeded"]
    OBVIOUS
  <1>8. /\ r \in ProcRecords /\ r.pc = "check" /\ r.exec = e /\ r.kind = "resume" /\ r.outcome = "succeeded"
    BY <1>4, <1>5, <1>6, <1>7, Names DEF ProcRecords
  <1>9. Shaped(r) /\ Clean(r, e) BY <1>8 DEF Shaped, Clean
  <1>10. Go(p, r) BY <1>2, <1>3, <1>7 DEF Submit
  <1> QED BY <1>1, <1>8, <1>9, <1>10, AskedOnce

LEMMA DecideOnce ==
  ASSUME ExecutionInv, OnceInv, NEW p \in Processes, NEW e \in Executions, NEW n \in NodeIds,
         NEW action \in {"retry", "continue", "fail", "branch"},
         Decide(p, e, n, action), UNCHANGED snapshot
  PROVE  OnceInv'
PROOF
  <1>1. /\ Asked(p, e) /\ Overlap(p, e) /\ node[e][n].latest = "failed"
        /\ UNCHANGED <<status, rows, node, wins>>
    BY Zenon DEF Decide
  <1>2. PICK i : i = Idle OBVIOUS
  <1>3. PICK a : a = node[e][n].attempt OBVIOUS
  <1>4. i \in ProcRecords /\ i.outcome = "none" /\ i.kids = {}
    BY <1>2, IdleFits, TypeFacts DEF ExecutionInv, Idle
  <1>5. a \in Nat BY <1>3, AttemptFits
  <1>6. PICK base : base = [i EXCEPT !.kind = action, !.exec = e, !.node = n, !.attempt = a,
                              !.event = "resume", !.then = "look"]
    OBVIOUS
  <1>7. action \in Kinds /\ "resume" \in Lifecycle!Events /\ "fail" \in Lifecycle!Events
    BY Names, EventsAre
  <1>8. /\ base \in ProcRecords /\ base.exec = e /\ base.node = n /\ base.kind = action
        /\ base.then = "look" /\ base.outcome = "none" /\ base.kids = {}
    BY <1>4, <1>5, <1>6, <1>7 DEF ProcRecords
  <1>9. base = [Idle EXCEPT !.kind = action, !.exec = e, !.node = n, !.attempt = node[e][n].attempt,
                  !.event = "resume", !.then = "look"]
    BY <1>2, <1>3, <1>6
  <1>10. \/ action = "fail" /\ Go(p, [base EXCEPT !.pc = "read", !.event = "fail", !.then = "end"])
         \/ action = "retry" /\ Go(p, [base EXCEPT !.pc = "insert"])
         \/ action = "continue" /\ Go(p, [base EXCEPT !.pc = "insert", !.then = "seed"])
         \/ /\ action = "branch"
            /\ \E c \in Nodes : Go(p, [base EXCEPT !.pc = "branch", !.kids = IF Exists(e, c) THEN {} ELSE {c}])
    BY <1>9 DEF Decide
  <1>11. ASSUME NEW r \in ProcRecords, Go(p, r), Shaped(r), r.exec = e, e \notin overlapped => Clean(r, e)
         PROVE  OnceInv'
    BY <1>1, <1>11, AskedOnce
  <1>12. CASE action = "fail" /\ Go(p, [base EXCEPT !.pc = "read", !.event = "fail", !.then = "end"])
    <2>1. PICK r : r = [base EXCEPT !.pc = "read", !.event = "fail", !.then = "end"] OBVIOUS
    <2>2. r \in ProcRecords /\ r.pc = "read" /\ r.exec = e /\ r.then = "end" /\ r.kind = "fail"
      BY <1>7, <1>8, <1>12, <2>1, Names DEF ProcRecords
    <2>3. Shaped(r) /\ Clean(r, e) BY <2>2 DEF Shaped, Clean
    <2> QED BY <1>11, <1>12, <2>1, <2>2, <2>3
  <1>13. ASSUME NEW then \in {"look", "seed"}, action \in {"retry", "continue"},
                Go(p, [base EXCEPT !.pc = "insert", !.then = then])
         PROVE  OnceInv'
    <2>1. PICK r : r = [base EXCEPT !.pc = "insert", !.then = then] OBVIOUS
    <2>2. /\ r \in ProcRecords /\ r.pc = "insert" /\ r.exec = e /\ r.node = n /\ r.kind = action
          /\ r.outcome = "none" /\ r.kids = {}
      BY <1>8, <2>1, Names DEF ProcRecords
    <2>3. e \notin overlapped => wins[e][n] = 0 BY <1>1 DEF OnceInv
    <2>4. Shaped(r) /\ (e \notin overlapped => Clean(r, e)) BY <1>13, <2>2, <2>3 DEF Shaped, Clean
    <2> QED BY <1>11, <1>13, <2>1, <2>2, <2>4
  <1>14. CASE action = "retry" /\ Go(p, [base EXCEPT !.pc = "insert"])
    <2>1. [base EXCEPT !.pc = "insert"] = [base EXCEPT !.pc = "insert", !.then = "look"]
      BY <1>8 DEF ProcRecords
    <2> QED BY <1>13, <1>14, <2>1
  <1>15. ASSUME NEW c \in Nodes, action = "branch", NEW kids \in SUBSET Nodes,
                kids = (IF Exists(e, c) THEN {} ELSE {c}),
                Go(p, [base EXCEPT !.pc = "branch", !.kids = kids])
         PROVE  OnceInv'
    <2>1. PICK r : r = [base EXCEPT !.pc = "branch", !.kids = kids] OBVIOUS
    <2>2. r \in ProcRecords /\ r.pc = "branch" /\ r.exec = e /\ r.kind = "branch" /\ r.kids = kids
      BY <1>8, <1>15, <2>1, Names DEF ProcRecords
    <2>3. Shaped(r) /\ Clean(r, e) BY <1>15, <2>2 DEF Shaped, Clean
    <2> QED BY <1>11, <1>15, <2>1, <2>2, <2>3
  <1>16. CASE /\ action = "branch"
              /\ \E c \in Nodes : Go(p, [base EXCEPT !.pc = "branch", !.kids = IF Exists(e, c) THEN {} ELSE {c}])
    <2>1. \A c \in Nodes : (IF Exists(e, c) THEN {} ELSE {c}) \in SUBSET Nodes OBVIOUS
    <2> QED BY <1>15, <1>16, <2>1
  <1> QED BY <1>10, <1>12, <1>13, <1>14, <1>16

LEMMA RequestsOnce ==
  ASSUME ExecutionInv, OnceInv, NEW p \in Processes, NEW e \in Executions, Request(p, e), UNCHANGED snapshot
  PROVE  OnceInv'
PROOF BY StartOnce, AskStatusOnce, ResumeOnce, SubmitOnce, DecideOnce DEF Request

\* Steps of nobody: a queued execution starts, a retry is due.
LEMMA OthersOnce ==
  ASSUME OnceInv, UNCHANGED <<proc, wins, overlapped>>, ExecutionInv,
         \A x \in Executions : status[x] = "absent" <=> status'[x] = "absent",
         \A x \in Executions : \A n \in NodeIds :
           node'[x][n] = node[x][n] \/ (node[x][n].latest = "retrying" /\ node'[x][n].latest = "due")
  PROVE  OnceInv'
PROOF
  <1>1. \A x \in Executions : \A n \in NodeIds :
          /\ Exists(x, n) <=> Exists(x, n)'
          /\ node[x][n].latest = "succeeded" => node'[x][n].latest = "succeeded"
    BY DEF Exists
  <1>2. \A q \in Processes : proc[q].kids \subseteq NodeIds
    BY TypeFacts DEF ExecutionInv, ProcRecords, NodeIds
  <1>3. ASSUME NEW q \in Processes
        PROVE  /\ Shaped(proc[q])'
               /\ proc'[q].pc # "idle" => status'[proc'[q].exec] # "absent"
    <2>1. proc[q].pc # "idle" => proc[q].exec \in Executions BY DEF ExecutionInv, ProcInv, Fits
    <2> QED BY <2>1 DEF OnceInv, Shaped
  <1>4. \A q \in Processes, x \in Executions : Works(q, x)' => Works(q, x) BY DEF Works, Mutating
  <1>5. ASSUME NEW q \in Processes, NEW x \in Executions \ overlapped, Works(q, x)'
        PROVE  Clean(proc[q], x)'
    <2>1. Clean(proc[q], x) BY <1>4, <1>5 DEF OnceInv
    <2>2. \A c \in proc[q].kids : Exists(x, c) <=> Exists(x, c)' BY <1>1, <1>2
    <2> QED BY <2>1, <2>2 DEF Clean
  <1>6. \A x \in Executions \ overlapped :
          /\ \A q, s \in Processes : Works(q, x)' /\ Works(s, x)' => q = s
          /\ \A n \in NodeIds : wins'[x][n] <= 1 /\ (wins'[x][n] # 0 => node'[x][n].latest = "succeeded")
    BY <1>1, <1>4 DEF OnceInv
  <1>7. /\ \A x \in Executions : status'[x] = "absent" => \A n \in NodeIds : wins'[x][n] = 0
        /\ \A x \in Executions : wins'[x][Guard] = 0
    BY DEF OnceInv
  <1> QED BY <1>3, <1>5, <1>6, <1>7 DEF OnceInv

LEMMA NextOnce ==
  ASSUME ExecutionInv, OnceInv, [Next]_vars
  PROVE  OnceInv'
PROOF
  <1>1. CASE UNCHANGED vars
    <2>1. UNCHANGED <<proc, wins, overlapped, status, node>> BY <1>1 DEF vars
    <2> QED BY <2>1, OthersOnce
  <1>2. ASSUME NEW e \in Executions, Promote(e) PROVE OnceInv'
    <2>1. UNCHANGED <<proc, wins, overlapped, node>> BY <1>2 DEF Promote
    <2>2. \A x \in Executions : status[x] = "absent" <=> status'[x] = "absent"
      BY <1>2 DEF Promote, ExecutionInv, TypeOK
    <2> QED BY <2>1, <2>2, OthersOnce
  <1>3. ASSUME NEW e \in Executions, NEW n \in NodeIds, RetryDue(e, n) PROVE OnceInv'
    <2>1. UNCHANGED <<proc, wins, overlapped, status>> BY <1>3 DEF RetryDue
    <2>2. node \in NodeType /\ node[e][n] \in NodeRecords BY TypeFacts DEF ExecutionInv
    <2>3. PICK k : k = [node[e][n] EXCEPT !.latest = "due"] OBVIOUS
    <2>4. k.latest = "due" BY <2>2, <2>3 DEF NodeRecords
    <2>5. node' = [node EXCEPT ![e][n] = k] BY <1>3, <2>3 DEF RetryDue
    <2>6. \A x \in Executions : \A m \in NodeIds :
            node'[x][m] = node[x][m] \/ (node[x][m].latest = "retrying" /\ node'[x][m].latest = "due")
      BY <1>3, <2>2, <2>4, <2>5 DEF NodeType, RetryDue
    <2> QED BY <2>1, <2>6, OthersOnce
  <1> QED BY <1>1, <1>2, <1>3, StepOnce, RequestsOnce DEF Next

LEMMA InitOnce == Init => OnceInv
PROOF
  <1> SUFFICES ASSUME Init PROVE OnceInv OBVIOUS
  <1>1. Idle.pc = "idle" /\ Idle.kind = "none" BY DEF Idle
  <1>2. \A p \in Processes : proc[p] = Idle BY DEF Init
  <1>3. \A p \in Processes : Shaped(proc[p]) /\ proc[p].pc = "idle" BY <1>1, <1>2 DEF Shaped
  <1>4. \A p \in Processes, e \in Executions : ~Works(p, e) BY <1>1, <1>2 DEF Works, Mutating
  <1>5. \A e \in Executions : \A n \in NodeIds : wins[e][n] = 0 BY DEF Init
  <1>6. Guard \in NodeIds BY DEF NodeIds
  <1> QED BY <1>3, <1>4, <1>5, <1>6 DEF OnceInv

LEMMA OnceInvariant == Spec => []OnceInv
PROOF
  <1>1. Init => OnceInv BY InitOnce
  <1>2. ExecutionInv /\ OnceInv /\ [Next]_vars => OnceInv' BY NextOnce
  <1> QED BY <1>1, <1>2, ExecutionInvariant, PTL DEF Spec

\* No node is run to success twice by one process at a time, whatever pauses, answers,
\* decisions, retries, faults and crashes come between its rows: a success is the last row
\* of its node, and only a node with another last row is run (nextRunnableWorkflowNodeID,
\* RunReadyNode, RecordNodeStatus).
THEOREM OnceEach == Spec => []OncePerNode
PROOF
  <1>1. OnceInv => OncePerNode BY DEF OnceInv, OncePerNode, NodeIds
  <1> QED BY <1>1, OnceInvariant, PTL

-----------------------------------------------------------------------------
(* A success is complete                                                     *)

\* What SuccessInv says of one execution, for who works on it alone and without fault.
Covered(e) ==
  /\ \A c \in Nodes : Missing(e, c) =>
       PassedBy(e, c) \/ \E p \in Processes : Works(p, e) /\ Owes(proc[p], e, c)
  /\ \A p \in Processes : proc[p].event = "complete" /\ proc[p].exec = e => Finished(e)
  /\ status[e] = "succeeded" => Finished(e) /\ \A p \in Processes : ~Works(p, e)

\* An execution nobody touched: it stays covered if its workers stay.
LEMMA CoveredStays ==
  ASSUME NEW e \in Executions, Covered(e), UNCHANGED snapshot, node'[e] = node[e],
         status'[e] = "succeeded" => status[e] = "succeeded",
         \A q \in Processes : Works(q, e)' => Works(q, e),
         \A q \in Processes : Works(q, e) => proc'[q] = proc[q],
         \A q \in Processes : proc'[q].event = "complete" /\ proc'[q].exec = e =>
           proc[q].event = "complete" /\ proc[q].exec = e
  PROVE  Covered(e)'
PROOF
  <1>1. \A c \in Nodes : Parents(e, c)' = Parents(e, c) BY DEF Parents
  <1>2. \A c \in Nodes : /\ Missing(e, c)' <=> Missing(e, c)
                         /\ PassedBy(e, c)' <=> PassedBy(e, c)
    BY <1>1 DEF Missing, PassedBy, AllParentsReady, Exists
  <1>3. Finished(e)' <=> Finished(e) BY <1>2 DEF Finished
  <1>4. ASSUME NEW c \in Nodes, Missing(e, c)'
        PROVE  PassedBy(e, c)' \/ \E q \in Processes : Works(q, e)' /\ Owes(proc[q], e, c)'
    <2>1. PassedBy(e, c) \/ \E q \in Processes : Works(q, e) /\ Owes(proc[q], e, c)
      BY <1>2, <1>4 DEF Covered
    <2>2. ASSUME NEW q \in Processes, Works(q, e), Owes(proc[q], e, c)
          PROVE  Works(q, e)' /\ Owes(proc[q], e, c)'
      <3>1. proc'[q] = proc[q] BY <2>2
      <3> QED BY <1>1, <2>2, <3>1 DEF Works, Mutating, Owes
    <2> QED BY <1>2, <2>1, <2>2
  <1>5. \A q \in Processes : proc'[q].event = "complete" /\ proc'[q].exec = e => Finished(e)'
    BY <1>3 DEF Covered
  <1>6. status'[e] = "succeeded" => Finished(e)' /\ \A q \in Processes : ~Works(q, e)'
    BY <1>3 DEF Covered
  <1> QED BY <1>4, <1>5, <1>6 DEF Covered

LEMMA FormsStay ==
  ASSUME NEW e \in Executions, Forms(e), UNCHANGED snapshot, node'[e] = node[e]
  PROVE  Forms(e)'
PROOF BY DEF Forms

\* A step of a process at work.
LEMMA CompleteStep ==
  ASSUME ExecutionInv, OnceInv, SuccessInv, NEW p \in Processes, proc[p].pc # "idle",
         NEW r \in ProcRecords, Takes(p, r), UNCHANGED <<snapshot, overlapped>>, faulted \subseteq faulted',
         NEW e \in Executions, e = proc[p].exec,
         \A x \in Executions \ {e} : node'[x] = node[x] /\ status'[x] = status[x],
         Asks(r), Forms(e)', status'[e] # "absent", Mutating(p) \/ UNCHANGED node,
         e \notin overlapped /\ Mutating(p) /\ r.kind \in Mutators => Unskipped(r, e)',
         e \notin overlapped \cup faulted' /\ Mutating(p) =>
           \A c \in Nodes : Missing(e, c)' => PassedBy(e, c)' \/ (r.kind \in Mutators /\ Owes(r, e, c)'),
         e \notin overlapped \cup faulted' /\ r.event = "complete" => Finished(e)',
         e \notin overlapped \cup faulted' /\ status'[e] = "succeeded" =>
           status[e] = "succeeded" \/ (Finished(e)' /\ Mutating(p) /\ r.kind \notin Mutators)
  PROVE  SuccessInv'
PROOF
  <1>0. TypeOK BY DEF ExecutionInv
  <1>1. /\ proc'[p] = r
        /\ \A q \in Processes : q # p => proc'[q] = proc[q]
    BY <1>0, Taken DEF Takes
  <1>2. ASSUME NEW q \in Processes PROVE Asks(proc[q])'
    <2>1. Asks(proc[q]) BY DEF SuccessInv
    <2>2. CASE q = p BY <1>1, <2>2 DEF Asks
    <2>3. CASE q # p BY <1>1, <2>1, <2>3 DEF Asks
    <2> QED BY <2>2, <2>3
  <1>3. ASSUME NEW x \in Executions
        PROVE  Forms(x)' /\ (status'[x] = "absent" => \A n \in NodeIds : node'[x][n] = NoRow)
    <2>1. CASE x = e BY <2>1
    <2>2. CASE x # e
      <3>1. Forms(x) /\ (status[x] = "absent" => \A n \in NodeIds : node[x][n] = NoRow)
        BY DEF SuccessInv
      <3>2. node'[x] = node[x] /\ status'[x] = status[x] BY <2>2
      <3> QED BY <3>1, <3>2, FormsStay
    <2> QED BY <2>1, <2>2
  <1>4. \A q \in Processes, x \in Executions : Works(q, x)' => Works(q, x)
    <2> SUFFICES ASSUME NEW q \in Processes, NEW x \in Executions, Works(q, x)' PROVE Works(q, x)
      OBVIOUS
    <2>1. CASE q # p BY <1>1, <2>1 DEF Works, Mutating
    <2>2. CASE q = p
      <3>1. r.kind \in Mutators /\ r.exec = x BY <1>1, <2>2 DEF Works, Mutating, Mutators
      <3>2. r.pc # "idle" BY <3>1 DEF Takes, Shaped, Mutators
      <3> QED BY <2>2, <3>1, <3>2 DEF Takes, Works
    <2> QED BY <2>1, <2>2
  <1>5. Works(p, e) <=> Mutating(p) BY DEF Works
  <1>6. ASSUME NEW x \in Executions \ overlapped, NEW q \in Processes, Works(q, x)'
        PROVE  Unskipped(proc[q], x)'
    <2>1. Works(q, x) BY <1>4, <1>6
    <2>2. CASE q = p
      <3>1. x = e /\ Mutating(p) /\ r.kind \in Mutators
        BY <1>1, <1>6, <2>1, <2>2 DEF Works, Mutating, Mutators
      <3>2. Unskipped(r, e)' BY <3>1
      <3> QED BY <1>1, <2>2, <3>1, <3>2 DEF Unskipped
    <2>3. CASE q # p
      <3>1. Unskipped(proc[q], x) BY <2>1 DEF SuccessInv
      <3>2. x = e => ~Mutating(p) BY <1>5, <2>1, <2>3 DEF OnceInv
      <3>3. node'[x] = node[x] BY <3>2
      <3> QED BY <1>1, <2>3, <3>1, <3>3 DEF Unskipped
    <2> QED BY <2>2, <2>3
  <1>7. ASSUME NEW x \in Executions \ (overlapped \cup faulted') PROVE Covered(x)'
    <2>0. x \in Executions \ (overlapped \cup faulted) OBVIOUS
    <2>1. Covered(x) BY <2>0 DEF SuccessInv, Covered
    <2>2. r.event = "complete" => r.exec = e
      BY DEF Takes, Asks
    <2>3. CASE x # e
      <3>1. \A q \in Processes : Works(q, x) => q # p BY <2>3 DEF Works
      <3>2. \A q \in Processes : Works(q, x) => proc'[q] = proc[q] BY <1>1, <3>1
      <3>3. \A q \in Processes : proc'[q].event = "complete" /\ proc'[q].exec = x =>
              proc[q].event = "complete" /\ proc[q].exec = x
        BY <1>1, <2>2, <2>3
      <3>4. node'[x] = node[x] /\ status'[x] = status[x] BY <2>3
      <3> QED BY <1>4, <2>1, <3>2, <3>3, <3>4, CoveredStays
    <2>4. CASE x = e /\ Mutating(p)
      <3>1. \A q \in Processes : Works(q, e)' => q = p BY <1>4, <1>5, <2>4 DEF OnceInv
      <3>2. status[e] # "succeeded" BY <1>5, <2>1, <2>4 DEF Covered
      <3>3. ASSUME NEW c \in Nodes, Missing(e, c)'
            PROVE  PassedBy(e, c)' \/ \E q \in Processes : Works(q, e)' /\ Owes(proc[q], e, c)'
        <4>1. PassedBy(e, c)' \/ (r.kind \in Mutators /\ Owes(r, e, c)') BY <1>7, <2>4, <3>3
        <4>2. ASSUME r.kind \in Mutators, Owes(r, e, c)' PROVE Works(p, e)' /\ Owes(proc[p], e, c)'
          <5>1. r.exec = e BY <4>2 DEF Takes, Shaped, Mutators
          <5> QED BY <1>1, <4>2, <5>1 DEF Works, Mutating, Mutators, Owes
        <4> QED BY <4>1, <4>2
      <3>4. ASSUME NEW q \in Processes, proc'[q].event = "complete", proc'[q].exec = e PROVE Finished(e)'
        <4>1. q # p => Works(q, e)
          <5> SUFFICES ASSUME q # p PROVE Works(q, e) OBVIOUS
          <5>1. proc[q].event = "complete" /\ proc[q].exec = e BY <1>1, <3>4
          <5>2. Asks(proc[q]) BY DEF SuccessInv
          <5> QED BY <5>1, <5>2 DEF Asks, Works, Mutating
        <4>2. q = p BY <1>5, <2>4, <4>1 DEF OnceInv
        <4> QED BY <1>1, <1>7, <2>4, <3>4, <4>2
      <3>5. status'[e] = "succeeded" => Finished(e)' /\ \A q \in Processes : ~Works(q, e)'
        <4> SUFFICES ASSUME status'[e] = "succeeded" PROVE Finished(e)' /\ ~Works(p, e)' BY <3>1
        <4>1. Finished(e)' /\ r.kind \notin Mutators BY <1>7, <2>4, <3>2
        <4> QED BY <1>1, <4>1 DEF Works, Mutating, Mutators
      <3> QED BY <2>4, <3>3, <3>4, <3>5 DEF Covered
    <2>5. CASE x = e /\ ~Mutating(p)
      <3>1. \A q \in Processes : Works(q, e) => proc'[q] = proc[q] BY <1>1, <1>5, <2>5
      <3>2. r.event # "complete"
        <4>1. r.kind \notin Mutators BY <2>5 DEF Takes
        <4> QED BY <4>1 DEF Asks, Mutators
      <3>3. \A q \in Processes : proc'[q].event = "complete" /\ proc'[q].exec = e =>
              proc[q].event = "complete" /\ proc[q].exec = e
        BY <1>1, <3>2
      <3>4. status'[e] = "succeeded" => status[e] = "succeeded" BY <1>7, <2>5
      <3>5. node'[e] = node[e] BY <2>5
      <3>6. Covered(e)' BY <1>4, <2>1, <2>5, <3>1, <3>3, <3>4, <3>5, CoveredStays
      <3> QED BY <2>5, <3>6
    <2> QED BY <2>3, <2>4, <2>5
  <1> QED BY <1>2, <1>3, <1>6, <1>7 DEF SuccessInv, Covered

\* A process that does not seed owes nothing: what is missing was passed by.
LEMMA Calm ==
  ASSUME OnceInv, SuccessInv, NEW p \in Processes, NEW e \in Executions \ (overlapped \cup faulted),
         Works(p, e), \A c \in Nodes : ~Owes(proc[p], e, c)
  PROVE  \A c \in Nodes : Missing(e, c) => PassedBy(e, c)
PROOF
  <1>1. \A q \in Processes : Works(q, e) => q = p BY DEF OnceInv
  <1> QED BY <1>1 DEF SuccessInv

LEMMA OwesNothing ==
  ASSUME NEW p \in Processes, proc[p].pc \notin {"seed", "child"}
  PROVE  \A e \in Executions, c \in Nodes : ~Owes(proc[p], e, c)
PROOF BY DEF Owes

\* A step that writes no row.
LEMMA QuietComplete ==
  ASSUME ExecutionInv, OnceInv, SuccessInv, NEW p \in Processes, proc[p].pc # "idle",
         NEW r \in ProcRecords, Takes(p, r), UNCHANGED <<snapshot, overlapped, node>>, faulted \subseteq faulted',
         NEW e \in Executions, e = proc[p].exec,
         \A x \in Executions \ {e} : status'[x] = status[x],
         Asks(r), status'[e] # "absent",
         e \notin overlapped /\ r.kind \in Mutators => Unskipped(r, e),
         e \in faulted' \/ \A c \in Nodes : ~Owes(proc[p], e, c),
         e \notin overlapped \cup faulted /\ r.event = "complete" => Finished(e),
         e \notin overlapped \cup faulted /\ status'[e] = "succeeded" =>
           status[e] = "succeeded" \/ (Finished(e) /\ Mutating(p) /\ r.kind \notin Mutators)
  PROVE  SuccessInv'
PROOF
  <1>1. \A c \in Nodes : Parents(e, c)' = Parents(e, c) BY DEF Parents
  <1>2. \A c \in Nodes : /\ Missing(e, c)' <=> Missing(e, c)
                         /\ PassedBy(e, c)' <=> PassedBy(e, c)
    BY <1>1 DEF Missing, PassedBy, AllParentsReady, Exists
  <1>3. Finished(e)' <=> Finished(e) BY <1>2 DEF Finished
  <1>4. Forms(e)'
    <2>1. Forms(e) BY DEF SuccessInv
    <2> QED BY <2>1, FormsStay
  <1>5. Unskipped(r, e)' <=> Unskipped(r, e) BY DEF Unskipped
  <1>6. ASSUME e \notin overlapped \cup faulted', Mutating(p)
        PROVE  \A c \in Nodes : Missing(e, c)' => PassedBy(e, c)'
    <2>1. \A c \in Nodes : Missing(e, c) => PassedBy(e, c) BY <1>6, Calm DEF Works
    <2> QED BY <1>2, <2>1
  <1> QED BY <1>3, <1>4, <1>5, <1>6, CompleteStep

\* ... and puts no node and no children in hand.
LEMMA PlainComplete ==
  ASSUME ExecutionInv, OnceInv, SuccessInv, NEW p \in Processes, proc[p].pc # "idle",
         NEW r \in ProcRecords, Go(p, r), Plain(p, r),
         UNCHANGED <<snapshot, overlapped, node, status>>, faulted \subseteq faulted',
         proc[p].exec \in faulted' \/ \A c \in Nodes : ~Owes(proc[p], proc[p].exec, c),
         r.event # "complete"
  PROVE  SuccessInv'
PROOF
  <1>1. PICK e \in Executions : e = proc[p].exec BY DEF ExecutionInv, ProcInv, Fits
  <1>2. Takes(p, r) /\ r.pc \notin {"execute", "check", "insert", "child", "branch"} BY PlainTakes
  <1>3. Asks(r) /\ Unskipped(r, e) BY <1>2 DEF Asks, Unskipped
  <1>4. status[e] # "absent" BY <1>1 DEF OnceInv
  <1> QED BY <1>1, <1>2, <1>3, <1>4, QuietComplete

\* A row of n.
RowStep(p, r, e, n, k) ==
  /\ proc[p].pc # "idle" /\ Mutating(p) /\ r \in ProcRecords /\ Takes(p, r)
  /\ UNCHANGED <<snapshot, overlapped, status>> /\ faulted \subseteq faulted'
  /\ e = proc[p].exec /\ node' = [node EXCEPT ![e][n] = k] /\ k.latest # "none"
  /\ r.pc \notin {"execute", "check", "insert"} /\ r.event # "complete"
  /\ e \notin overlapped => n \notin Nodes \/ node[e][n].latest # "skipped"
  /\ k.waited => node[e][n].waited \/ n \in snapshot[e].forms
  /\ n \in snapshot[e].forms => k.latest \in {"pending", "succeeded"}
  /\ k.ready => node[e][n].ready \/ k.latest = "skipped" \/ (r.pc = "seed" /\ r.node = n /\ r.kind \in Mutators)
  /\ \A c \in Nodes : Owes(proc[p], e, c) => c = n \/ (r.kind \in Mutators /\ Owes(r, e, c))

LEMMA RowComplete ==
  ASSUME ExecutionInv, OnceInv, SuccessInv, NEW p \in Processes, NEW r, NEW e \in Executions,
         NEW n \in NodeIds, NEW k, RowStep(p, r, e, n, k)
  PROVE  SuccessInv'
PROOF
  <1> USE DEF RowStep
  <1>1. node \in NodeType BY TypeFacts DEF ExecutionInv
  <1>2. /\ \A x \in Executions \ {e} : node'[x] = node[x]
        /\ \A m \in NodeIds \ {n} : node'[e][m] = node[e][m]
        /\ node'[e][n] = k
    BY <1>1 DEF NodeType
  <1>3. Asks(r) BY DEF Asks
  <1>4. Forms(e)'
    <2>1. Forms(e) BY DEF SuccessInv
    <2> SUFFICES ASSUME NEW m \in NodeIds
                 PROVE  /\ node'[e][m].waited => m \in snapshot[e].forms
                        /\ m \in snapshot[e].forms => node'[e][m].latest \in {"none", "pending", "succeeded"}
      BY DEF Forms
    <2>2. CASE m = n BY <1>2, <2>1, <2>2 DEF Forms
    <2>3. CASE m # n BY <1>2, <2>1, <2>3 DEF Forms
    <2> QED BY <2>2, <2>3
  <1>5. status'[e] # "absent" BY DEF OnceInv
  <1>6. Unskipped(r, e)' BY DEF Unskipped
  <1>7. \A c \in Nodes : Parents(e, c)' = Parents(e, c) /\ Parents(e, c) \subseteq Nodes BY DEF Parents
  <1>8. Nodes \subseteq NodeIds BY DEF NodeIds
  <1>9. ASSUME e \notin overlapped \cup faulted', NEW c \in Nodes, Missing(e, c)'
        PROVE  PassedBy(e, c)' \/ (r.kind \in Mutators /\ Owes(r, e, c)')
    <2>1. Parents(e, c) # {} /\ \A m \in Parents(e, c) : node'[e][m].ready
      BY <1>7, <1>9 DEF Missing, AllParentsReady
    <2>2. ~Exists(e, c) /\ c # n BY <1>2, <1>8, <1>9 DEF Missing, Exists
    <2>3. CASE \A m \in Parents(e, c) : node[e][m].ready
      <3>1. Missing(e, c) BY <2>1, <2>2, <2>3 DEF Missing, AllParentsReady
      <3>2. e \in Executions \ (overlapped \cup faulted) BY <1>9
      <3>3. PassedBy(e, c) \/ \E q \in Processes : Works(q, e) /\ Owes(proc[q], e, c)
        BY <3>1, <3>2 DEF SuccessInv
      <3>4. \A q \in Processes : Works(q, e) => q = p BY <3>2 DEF OnceInv, Works
      <3>5. CASE PassedBy(e, c)
        <4>1. PICK m \in Parents(e, c) : node[e][m].latest = "skipped" BY <3>5 DEF PassedBy
        <4>2. m # n BY <1>7, <1>9, <4>1
        <4> QED BY <1>2, <1>7, <1>8, <4>1, <4>2 DEF PassedBy
      <3>6. CASE Owes(proc[p], e, c) BY <1>7, <2>2, <3>6 DEF Owes
      <3> QED BY <3>3, <3>4, <3>5, <3>6
    <2>4. CASE \E m \in Parents(e, c) : ~node[e][m].ready
      <3>1. n \in Parents(e, c) /\ k.ready /\ ~node[e][n].ready BY <1>2, <1>7, <1>8, <2>1, <2>4
      <3>2. CASE k.latest = "skipped" BY <1>2, <1>7, <3>1, <3>2 DEF PassedBy
      <3>3. CASE r.pc = "seed" /\ r.node = n /\ r.kind \in Mutators BY <1>7, <3>1, <3>3 DEF Owes
      <3> QED BY <3>1, <3>2, <3>3
    <2> QED BY <2>3, <2>4
  <1> QED BY <1>2, <1>3, <1>4, <1>5, <1>6, <1>9, CompleteStep

\* A request.
RequestStep(p, e, r) ==
  /\ proc[p].pc = "idle" /\ r \in ProcRecords /\ Go(p, r) /\ (r.kind # "none" => r.exec = e)
  /\ Asks(r) /\ r.event # "complete" /\ UNCHANGED <<snapshot, faulted>> /\ status'[e] # "absent"
  /\ \A x \in Executions \ {e} : status'[x] = status[x] /\ node'[x] = node[x]
  /\ UNCHANGED <<node, status>> \/ (status[e] = "absent" /\ Forms(e)' /\ Covered(e)')
  /\ Overlap(p, e) \/ (r.kind \notin Mutators /\ UNCHANGED overlapped)
  /\ r.kind \in Mutators => Unskipped(r, e)' /\ status'[e] # "succeeded"

LEMMA RequestComplete ==
  ASSUME ExecutionInv, OnceInv, SuccessInv, NEW p \in Processes, NEW e \in Executions, NEW r,
         RequestStep(p, e, r)
  PROVE  SuccessInv'
PROOF
  <1> USE DEF RequestStep
  <1>0. TypeOK BY DEF ExecutionInv
  <1>1. /\ proc'[p] = r
        /\ \A q \in Processes : q # p => proc'[q] = proc[q]
    BY <1>0, Taken
  <1>2. overlapped \subseteq overlapped' BY DEF Overlap
  <1>3. ASSUME NEW q \in Processes PROVE Asks(proc[q])'
    <2>1. Asks(proc[q]) BY DEF SuccessInv
    <2>2. CASE q = p BY <1>1, <2>2 DEF Asks
    <2>3. CASE q # p BY <1>1, <2>1, <2>3 DEF Asks
    <2> QED BY <2>2, <2>3
  <1>4. ASSUME NEW x \in Executions
        PROVE  Forms(x)' /\ (status'[x] = "absent" => \A n \in NodeIds : node'[x][n] = NoRow)
    <2>1. Forms(x) /\ (status[x] = "absent" => \A n \in NodeIds : node[x][n] = NoRow)
      BY DEF SuccessInv
    <2>2. CASE node'[x] = node[x] /\ (x = e \/ status'[x] = status[x]) BY <2>1, <2>2, FormsStay
    <2>3. CASE x = e /\ Forms(e)' BY <2>3
    <2> QED BY <2>2, <2>3
  <1>5. ASSUME NEW q \in Processes, NEW x \in Executions, Works(q, x)
        PROVE  q # p /\ proc'[q] = proc[q] /\ Works(q, x)' /\ status[x] # "absent" /\ node'[x] = node[x]
    <2>1. Shaped(proc[q]) /\ Shaped(proc[p]) BY DEF OnceInv
    <2>2. proc[q].pc # "idle" BY <1>5, <2>1 DEF Shaped, Works, Mutating
    <2>3. q # p BY <2>2
    <2>4. status[x] # "absent" BY <1>5, <2>2 DEF OnceInv, Works
    <2>5. node'[x] = node[x] BY <2>4
    <2> QED BY <1>1, <1>5, <2>3, <2>4, <2>5 DEF Works, Mutating
  <1>6. ASSUME NEW q \in Processes, NEW x \in Executions, q # p, Works(q, x)' PROVE Works(q, x)
    BY <1>1, <1>6 DEF Works, Mutating
  <1>7. ASSUME NEW x \in Executions, Works(p, x)' PROVE x = e /\ r.kind \in Mutators
    BY <1>1, <1>7 DEF Works, Mutating, Mutators
  <1>8. ASSUME NEW x \in Executions \ overlapped', NEW q \in Processes, Works(q, x)'
        PROVE  Unskipped(proc[q], x)'
    <2>1. CASE q = p
      <3>1. x = e /\ Unskipped(r, e)' BY <1>7, <1>8, <2>1
      <3> QED BY <1>1, <2>1, <3>1 DEF Unskipped
    <2>2. CASE q # p
      <3>1. Works(q, x) BY <1>6, <1>8, <2>2
      <3>2. Unskipped(proc[q], x) BY <1>2, <3>1 DEF SuccessInv
      <3>3. node'[x] = node[x] BY <1>5, <3>1
      <3> QED BY <1>1, <2>2, <3>2, <3>3 DEF Unskipped
    <2> QED BY <2>1, <2>2
  <1>9. ASSUME NEW x \in Executions \ (overlapped' \cup faulted') PROVE Covered(x)'
    <2>1. Covered(x) BY <1>2, <1>9 DEF SuccessInv, Covered
    <2>2. CASE x = e /\ status[e] = "absent" /\ Covered(e)' BY <2>2
    <2>3. CASE node'[x] = node[x] /\ status'[x] = status[x]
      <3>1. \A q \in Processes : proc'[q].event = "complete" /\ proc'[q].exec = x =>
              proc[q].event = "complete" /\ proc[q].exec = x
        BY <1>1
      <3>2. \A c \in Nodes : Parents(x, c)' = Parents(x, c) BY DEF Parents
      <3>3. \A c \in Nodes : /\ Missing(x, c)' <=> Missing(x, c)
                             /\ PassedBy(x, c)' <=> PassedBy(x, c)
        BY <2>3, <3>2 DEF Missing, PassedBy, AllParentsReady, Exists
      <3>4. Finished(x)' <=> Finished(x) BY <3>3 DEF Finished
      <3>5. ASSUME NEW c \in Nodes, Missing(x, c)'
            PROVE  PassedBy(x, c)' \/ \E q \in Processes : Works(q, x)' /\ Owes(proc[q], x, c)'
        <4>1. PassedBy(x, c) \/ \E q \in Processes : Works(q, x) /\ Owes(proc[q], x, c)
          BY <2>1, <3>3, <3>5 DEF Covered
        <4>2. ASSUME NEW q \in Processes, Works(q, x), Owes(proc[q], x, c)
              PROVE  Works(q, x)' /\ Owes(proc[q], x, c)'
          BY <1>5, <3>2, <4>2 DEF Owes
        <4> QED BY <3>3, <4>1, <4>2
      <3>6. \A q \in Processes : proc'[q].event = "complete" /\ proc'[q].exec = x => Finished(x)'
        BY <2>1, <3>1, <3>4 DEF Covered
      <3>7. status'[x] = "succeeded" => Finished(x)' /\ \A q \in Processes : ~Works(q, x)'
        <4>1. status'[x] = "succeeded" => ~Works(p, x)' BY <1>7
        <4>2. status'[x] = "succeeded" => \A q \in Processes : q # p => ~Works(q, x)'
          BY <1>6, <2>1, <2>3 DEF Covered
        <4> QED BY <2>1, <2>3, <3>4, <4>1, <4>2 DEF Covered
      <3> QED BY <3>5, <3>6, <3>7 DEF Covered
    <2> QED BY <2>2, <2>3
  <1> QED BY <1>3, <1>4, <1>8, <1>9 DEF SuccessInv, Covered

\* Steps of nobody.
LEMMA OthersComplete ==
  ASSUME ExecutionInv, SuccessInv, UNCHANGED <<snapshot, proc, overlapped, faulted>>,
         \A x \in Executions : /\ status'[x] = "succeeded" => status[x] = "succeeded"
                               /\ status'[x] = "absent" => status[x] = "absent",
         \A x \in Executions : \A n \in NodeIds :
           \/ node'[x][n] = node[x][n]
           \/ /\ node[x][n].latest = "retrying" /\ node'[x][n].latest = "due"
              /\ node'[x][n].ready = node[x][n].ready /\ node'[x][n].waited = node[x][n].waited
  PROVE  SuccessInv'
PROOF
  <1>1. \A q \in Processes : Asks(proc[q])' BY DEF SuccessInv, Asks
  <1>2. ASSUME NEW x \in Executions
        PROVE  Forms(x)' /\ (status'[x] = "absent" => \A n \in NodeIds : node'[x][n] = NoRow)
    <2>1. Forms(x) /\ (status[x] = "absent" => \A n \in NodeIds : node[x][n] = NoRow)
      BY DEF SuccessInv
    <2>2. Forms(x)' BY <2>1 DEF Forms
    <2>3. NoRow.latest = "none" BY DEF NoRow
    <2> QED BY <2>1, <2>2, <2>3
  <1>3. \A q \in Processes, x \in Executions : Works(q, x)' <=> Works(q, x) BY DEF Works, Mutating
  <1>4. ASSUME NEW x \in Executions \ overlapped', NEW q \in Processes, Works(q, x)'
        PROVE  Unskipped(proc[q], x)'
    <2>1. Unskipped(proc[q], x) BY <1>3, <1>4 DEF SuccessInv
    <2>2. proc[q].pc \in {"execute", "check", "insert"} => proc[q].node \in NodeIds
      BY DEF ExecutionInv, ProcInv, Fits
    <2> QED BY <2>1, <2>2 DEF Unskipped
  <1>5. ASSUME NEW x \in Executions \ (overlapped' \cup faulted') PROVE Covered(x)'
    <2>1. Covered(x) BY <1>5 DEF SuccessInv, Covered
    <2>2. \A c \in Nodes : Parents(x, c)' = Parents(x, c) /\ Parents(x, c) \subseteq NodeIds /\ c \in NodeIds
      BY DEF Parents, NodeIds
    <2>3. \A n \in NodeIds : /\ node'[x][n].ready = node[x][n].ready
                             /\ node'[x][n].latest = "none" <=> node[x][n].latest = "none"
                             /\ node'[x][n].latest = "skipped" <=> node[x][n].latest = "skipped"
      OBVIOUS
    <2>4. \A c \in Nodes : /\ Missing(x, c)' <=> Missing(x, c)
                           /\ PassedBy(x, c)' <=> PassedBy(x, c)
      BY <2>2, <2>3 DEF Missing, PassedBy, AllParentsReady, Exists
    <2>5. Finished(x)' <=> Finished(x) BY <2>4 DEF Finished
    <2>6. \A q \in Processes, c \in Nodes : Owes(proc[q], x, c)' <=> Owes(proc[q], x, c) BY <2>2 DEF Owes
    <2> QED BY <1>3, <2>1, <2>4, <2>5, <2>6 DEF Covered
  <1> QED BY <1>1, <1>2, <1>4, <1>5 DEF SuccessInv, Covered

\* Once past the end of a run, nobody is about to complete.
LEMMA NotCompleting ==
  ASSUME SuccessInv, NEW p \in Processes, proc[p].pc \notin {"read", "write"}
  PROVE  proc[p].event # "complete"
PROOF BY DEF SuccessInv, Asks

LEMMA IdleAsks == Asks(Idle) /\ Idle.event = "none" /\ Idle.kind = "none"
PROOF BY DEF Asks, Idle

LEMMA FailedEvent ==
  ASSUME ExecutionInv, NEW p \in Processes
  PROVE  Failed(p).event = "none"
PROOF
  <1>1. proc[p] \in ProcRecords BY TypeFacts DEF ExecutionInv
  <1>2. PICK r : r = [proc[p] EXCEPT !.pc = "back", !.err = TRUE, !.event = "none", !.seen = "absent", !.kids = {}]
    OBVIOUS
  <1>3. r.event = "none" BY <1>1, <1>2 DEF ProcRecords
  <1>4. Failed(p) = r \/ Failed(p) = Idle BY <1>2 DEF Failed
  <1> QED BY <1>3, <1>4, IdleAsks

LEMMA EndEvent ==
  ASSUME ExecutionInv, NEW p \in Processes, NEW event
  PROVE  /\ End(p, event).event = event /\ End(p, event).pc = "read"
         /\ End(p, event).kind = "run" /\ End(p, event).then = "end"
PROOF
  <1>1. PICK i : i = Idle OBVIOUS
  <1>2. i \in ProcRecords BY <1>1, IdleFits, TypeFacts DEF ExecutionInv
  <1>3. PICK r : r = [i EXCEPT !.pc = "read", !.kind = "run", !.exec = proc[p].exec, !.event = event, !.then = "end"]
    OBVIOUS
  <1>4. r.event = event /\ r.pc = "read" /\ r.kind = "run" /\ r.then = "end" BY <1>2, <1>3 DEF ProcRecords
  <1>5. End(p, event) = r BY <1>1, <1>3 DEF End
  <1> QED BY <1>4, <1>5

LEMMA FailedComplete ==
  ASSUME ExecutionInv, OnceInv, SuccessInv, NEW p \in Processes, proc[p].pc # "idle",
         UNCHANGED <<snapshot, overlapped, node, status>>, faulted \subseteq faulted',
         proc[p].exec \in faulted' \/ \A c \in Nodes : ~Owes(proc[p], proc[p].exec, c),
         Go(p, Failed(p)) \/ Go(p, Idle)
  PROVE  SuccessInv'
PROOF
  <1>1. CASE Go(p, Failed(p))
    <2>1. PICK r : r = Failed(p) OBVIOUS
    <2>2. r \in ProcRecords /\ Plain(p, r) BY <2>1, FailedPlain
    <2>3. r.event # "complete" BY <2>1, FailedEvent
    <2> QED BY <1>1, <2>1, <2>2, <2>3, PlainComplete
  <1>2. CASE Go(p, Idle)
    <2>1. PICK r : r = Idle OBVIOUS
    <2>2. r \in ProcRecords BY <2>1, IdleFits, TypeFacts DEF ExecutionInv
    <2>3. Plain(p, r) /\ r.event # "complete" BY <2>1, IdleAsks DEF Plain
    <2> QED BY <1>2, <2>1, <2>2, <2>3, PlainComplete
  <1> QED BY <1>1, <1>2

\* A run that finds nothing to run, every node ready and none skipped, has finished.
LEMMA HeadFinished ==
  ASSUME ExecutionInv, OnceInv, SuccessInv, NEW p \in Processes,
         NEW e \in Executions \ (overlapped \cup faulted), Works(p, e),
         \A c \in Nodes : ~Owes(proc[p], e, c), CompletionEvent(e) = "complete"
  PROVE  Finished(e)
PROOF
  <1>1. \A n \in NodeIds : node[e][n].latest # "skipped" BY DEF CompletionEvent
  <1>2. \A c \in Nodes : Parents(e, c) \subseteq NodeIds BY DEF Parents, NodeIds
  <1>3. \A c \in Nodes : Missing(e, c) => PassedBy(e, c) BY Calm
  <1> QED BY <1>1, <1>2, <1>3 DEF Finished, PassedBy

\* The head of the loop chooses a node that was not skipped.
LEMMA HeadComplete ==
  ASSUME ExecutionInv, OnceInv, SuccessInv, NEW p \in Processes,
         proc[p].pc \notin {"idle", "read", "write", "seed", "child"},
         NEW lastErr \in BOOLEAN, NEW r \in Head(p, lastErr), Go(p, r),
         UNCHANGED <<snapshot, overlapped, faulted, node, status>>
  PROVE  SuccessInv'
PROOF
  <1>1. /\ Mutating(p) /\ proc[p].kind \in Mutators /\ proc[p] \in ProcRecords /\ proc[p].exec \in Executions
    BY Busy
  <1>2. PICK e \in Executions : e = proc[p].exec BY <1>1
  <1>3. \A c \in Nodes : ~Owes(proc[p], e, c) BY OwesNothing
  <1>4. r \in ProcRecords BY HeadFits DEF ExecutionInv, ProcInv
  <1>5. CASE r = Idle BY <1>2, <1>3, <1>5, FailedComplete
  <1>6. ASSUME NEW event \in {"partial_success", "max_iterations"}, r = End(p, event) PROVE SuccessInv'
    <2>1. event \in Lifecycle!Events BY EventsAre
    <2>2. Plain(p, r) BY <1>6, <2>1, EndPlain
    <2>3. r.event = event BY <1>6, EndEvent
    <2> QED BY <1>2, <1>3, <1>4, <1>6, <2>2, <2>3, PlainComplete
  <1>7. CASE r = End(p, "complete") /\ CompletionEvent(e) = "complete"
    <2>1. "complete" \in Lifecycle!Events BY EventsAre
    <2>2. Plain(p, r) BY <1>7, <2>1, EndPlain
    <2>3. r.event = "complete" /\ r.pc = "read" /\ r.kind = "run" /\ r.then = "end" BY <1>7, EndEvent
    <2>4. Takes(p, r) BY <1>4, <2>2, PlainTakes
    <2>5. Asks(r) /\ Unskipped(r, e) BY <2>3 DEF Asks, Unskipped
    <2>6. e \notin overlapped \cup faulted => Finished(e)
      BY <1>1, <1>2, <1>3, <1>7, HeadFinished DEF Works
    <2>7. status'[e] # "absent" BY <1>2 DEF OnceInv
    <2> QED BY <1>2, <1>3, <1>4, <2>4, <2>5, <2>6, <2>7, QuietComplete
  <1>8. ASSUME NEW n \in NextNodes(e),
               r = [Idle EXCEPT !.pc = "execute", !.kind = "run", !.exec = e, !.node = n, !.then = "back",
                      !.lastErr = lastErr, !.ran = proc[p].ran, !.before = rows[e]]
        PROVE  SuccessInv'
    <2>1. PICK i : i = Idle OBVIOUS
    <2>2. i \in ProcRecords BY <2>1, IdleFits, TypeFacts DEF ExecutionInv
    <2>3. i.event = "none" BY <2>1, IdleAsks
    <2>4. r.pc = "execute" /\ r.kind = "run" /\ r.exec = e /\ r.node = n /\ r.event = "none"
      BY <1>8, <2>1, <2>2, <2>3 DEF ProcRecords
    <2>5. Takes(p, r) BY <1>1, <1>2, <2>4 DEF Takes, Shaped, Mutators
    <2>6. node[e][n].latest \in {"pending", "due"} BY <1>8 DEF NextNodes, PendingNodes, DueNodes
    <2>7. Asks(r) /\ Unskipped(r, e) BY <2>4, <2>6 DEF Asks, Unskipped
    <2>8. status'[e] # "absent" BY <1>2 DEF OnceInv
    <2> QED BY <1>2, <1>3, <1>4, <2>4, <2>5, <2>7, <2>8, QuietComplete
  <1>9. \/ r = Idle
        \/ \E event \in {"partial_success", "max_iterations"} : r = End(p, event)
        \/ r = End(p, "complete") /\ CompletionEvent(e) = "complete"
        \/ \E n \in NextNodes(e) :
             r = [Idle EXCEPT !.pc = "execute", !.kind = "run", !.exec = e, !.node = n, !.then = "back",
                    !.lastErr = lastErr, !.ran = proc[p].ran, !.before = rows[e]]
    BY <1>2 DEF Head, CompletionEvent
  <1> QED BY <1>5, <1>6, <1>7, <1>8, <1>9

LEMMA LookComplete ==
  ASSUME ExecutionInv, OnceInv, SuccessInv, NEW p \in Processes, Look(p), UNCHANGED snapshot
  PROVE  SuccessInv'
PROOF
  <1>1. PICK r \in Head(p, FALSE) : Go(p, r) BY DEF Look
  <1>2. proc[p].pc \notin {"idle", "read", "write", "seed", "child"} BY DEF Look, At
  <1>3. UNCHANGED <<overlapped, faulted, node, status>> BY DEF Look, Unhurt
  <1> QED BY <1>1, <1>2, <1>3, HeadComplete

LEMMA BackComplete ==
  ASSUME ExecutionInv, OnceInv, SuccessInv, NEW p \in Processes, Back(p), UNCHANGED snapshot
  PROVE  SuccessInv'
PROOF
  <1>1. proc[p].pc = "back" BY DEF Back, At
  <1>2. UNCHANGED <<overlapped, faulted, node, status>> BY DEF Back, Quiet, Unhurt
  <1>3. Mutating(p) /\ proc[p].kind \in Mutators /\ proc[p] \in ProcRecords /\ proc[p].exec \in Executions
    BY <1>1, Busy
  <1>4. \A c \in Nodes : ~Owes(proc[p], proc[p].exec, c) BY <1>1, <1>3, OwesNothing
  <1>5. CASE Go(p, Idle) BY <1>1, <1>2, <1>4, <1>5, FailedComplete
  <1>6. ASSUME NEW lastErr \in BOOLEAN, NEW r \in Head(p, lastErr), Go(p, r) PROVE SuccessInv'
    BY <1>1, <1>2, <1>6, HeadComplete
  <1>7. CASE Go(p, [proc[p] EXCEPT !.pc = "limits", !.node = NoNode, !.outcome = "none", !.before = 0])
    <2>1. PICK r : r = [proc[p] EXCEPT !.pc = "limits", !.node = NoNode, !.outcome = "none", !.before = 0]
      OBVIOUS
    <2>2. /\ r \in ProcRecords /\ r.pc = "limits" /\ r.exec = proc[p].exec /\ r.kind = proc[p].kind
          /\ r.event = proc[p].event
      BY <1>3, <2>1, Names DEF ProcRecords
    <2>3. Plain(p, r) BY <1>3, <2>2 DEF Plain
    <2>4. r.event # "complete" BY <1>1, <2>2, NotCompleting
    <2> QED BY <1>1, <1>2, <1>4, <1>7, <2>1, <2>2, <2>3, <2>4, PlainComplete
  <1>8. \/ Go(p, Idle)
        \/ \E lastErr \in BOOLEAN : \E r \in Head(p, lastErr) : Go(p, r)
        \/ Go(p, [proc[p] EXCEPT !.pc = "limits", !.node = NoNode, !.outcome = "none", !.before = 0])
    BY DEF Back
  <1> QED BY <1>5, <1>6, <1>7, <1>8

LEMMA FaultComplete ==
  ASSUME ExecutionInv, OnceInv, SuccessInv, NEW p \in Processes, StatementFails(p) \/ Crash(p), UNCHANGED snapshot
  PROVE  SuccessInv'
PROOF
  <1>1. proc[p].pc # "idle" BY DEF StatementFails, Crash, At
  <1>2. UNCHANGED <<overlapped, node, status>> BY DEF StatementFails, Crash
  <1>3. faulted \subseteq faulted' /\ proc[p].exec \in faulted' BY DEF StatementFails, Crash, Hurt
  <1>4. Go(p, Failed(p)) \/ Go(p, Idle) BY DEF StatementFails, Crash
  <1> QED BY <1>1, <1>2, <1>3, <1>4, FailedComplete

LEMMA ReadComplete ==
  ASSUME ExecutionInv, OnceInv, SuccessInv, NEW p \in Processes, Read(p), UNCHANGED snapshot
  PROVE  SuccessInv'
PROOF
  <1>1. proc[p] \in ProcRecords /\ proc[p].pc = "read" /\ proc[p].exec \in Executions
    BY TypeFacts DEF ExecutionInv, ProcInv, Fits, Read, At
  <1>2. UNCHANGED <<overlapped, faulted, node, status>> BY DEF Read, Quiet, Unhurt
  <1>3. \A c \in Nodes : ~Owes(proc[p], proc[p].exec, c) BY <1>1, OwesNothing
  <1>4. CASE Go(p, Failed(p)) BY <1>1, <1>2, <1>3, <1>4, FailedComplete
  <1>5. CASE Go(p, [proc[p] EXCEPT !.pc = "write", !.seen = status[proc[p].exec]])
    <2>1. PICK r : r = [proc[p] EXCEPT !.pc = "write", !.seen = status[proc[p].exec]] OBVIOUS
    <2>2. status[proc[p].exec] \in Lifecycle!Statuses BY <1>1 DEF ExecutionInv, TypeOK
    <2>3. /\ r \in ProcRecords /\ r.pc = "write" /\ r.exec = proc[p].exec
          /\ r.kind = proc[p].kind /\ r.then = proc[p].then /\ r.event = proc[p].event
      BY <1>1, <2>1, <2>2, Names DEF ProcRecords
    <2>4. Plain(p, r) BY <2>3 DEF Plain
    <2>5. Takes(p, r) BY <1>1, <1>5, <2>1, <2>3, <2>4, PlainTakes
    <2>6. PICK e \in Executions : e = proc[p].exec BY <1>1
    <2>7. Asks(r) /\ Unskipped(r, e) BY <1>1, <2>3 DEF SuccessInv, Asks, Unskipped
    <2>8. e \notin overlapped \cup faulted /\ r.event = "complete" => Finished(e)
      BY <2>3, <2>6 DEF SuccessInv
    <2>9. status'[e] # "absent" BY <1>1, <1>2, <2>6 DEF OnceInv
    <2> QED BY <1>1, <1>2, <1>3, <2>3, <2>5, <2>6, <2>7, <2>8, <2>9, QuietComplete
  <1> QED BY <1>4, <1>5 DEF Read

\* Only the event "complete" leads to "succeeded".
LEMMA TargetSucceeded ==
  ASSUME NEW seen, NEW event, Lifecycle!Allowed(seen, event)
  PROVE  /\ Lifecycle!Target(seen, event) = "succeeded" => event = "complete"
         /\ Lifecycle!Target(seen, event) # "absent"
PROOF
  <1>1. \E t \in Lifecycle!Transitions : t[1] = seen /\ t[2] = event BY Zenon DEF Lifecycle!Allowed
  <1>2. PICK t \in Lifecycle!Transitions : t[2] = event /\ Lifecycle!Target(seen, event) = t[3]
    BY <1>1, Zenon DEF Lifecycle!Target
  <1>3. \A x \in Lifecycle!Transitions : (x[3] = "succeeded" => x[2] = "complete") /\ x[3] # "absent"
    BY DEF Lifecycle!Transitions, Lifecycle!Final
  <1> QED BY <1>2, <1>3

LEMMA WriteComplete ==
  ASSUME ExecutionInv, OnceInv, SuccessInv, NEW p \in Processes, Write(p), UNCHANGED snapshot
  PROVE  SuccessInv'
PROOF
  <1>1. /\ proc[p] \in ProcRecords /\ proc[p].pc = "write" /\ proc[p].exec \in Executions
        /\ proc[p].then # "none" /\ Shaped(proc[p]) /\ proc[p].kind \in Kinds /\ Asks(proc[p])
        /\ Lifecycle!Allowed(proc[p].seen, proc[p].event)
    BY TypeFacts DEF ExecutionInv, ProcInv, Fits, Write, At, OnceInv, SuccessInv, ProcRecords
  <1>2. UNCHANGED <<overlapped, faulted, node>> BY DEF Write, Unhurt
  <1>3. \A c \in Nodes : ~Owes(proc[p], proc[p].exec, c) BY <1>1, OwesNothing
  <1>4. CASE Go(p, Failed(p)) /\ UNCHANGED status BY <1>1, <1>2, <1>3, <1>4, FailedComplete
  <1>5. PICK e \in Executions : e = proc[p].exec BY <1>1
  <1>6. CASE /\ status' = [status EXCEPT ![e] = Lifecycle!Target(proc[p].seen, proc[p].event)]
             /\ Go(p, IF proc[p].then = "end" THEN Idle
                      ELSE [proc[p] EXCEPT !.pc = proc[p].then, !.event = "none", !.seen = "absent"])
    <2>1. /\ \A x \in Executions \ {e} : status'[x] = status[x]
          /\ status'[e] # "absent" /\ (status'[e] = "succeeded" => proc[p].event = "complete")
      BY <1>1, <1>6, TargetSucceeded DEF ExecutionInv, TypeOK
    <2>2. proc[p].event = "complete" => Mutating(p) /\ proc[p].then = "end"
      BY <1>1 DEF Asks, Mutating
    <2>3. e \notin overlapped \cup faulted /\ proc[p].event = "complete" => Finished(e)
      BY <1>5 DEF SuccessInv
    <2>4. CASE proc[p].then = "end"
      <3>1. PICK r : r = Idle OBVIOUS
      <3>2. r \in ProcRecords BY <3>1, IdleFits, TypeFacts DEF ExecutionInv
      <3>3. Plain(p, r) /\ Asks(r) /\ r.event = "none" /\ r.kind \notin Mutators
        BY <3>1, IdleAsks DEF Plain, Mutators
      <3>4. Go(p, r) BY <1>6, <2>4, <3>1
      <3>5. Takes(p, r) BY <1>1, <3>2, <3>3, <3>4, PlainTakes
      <3> QED BY <1>1, <1>2, <1>3, <1>5, <2>1, <2>2, <2>3, <3>2, <3>3, <3>5, QuietComplete
    <2>5. CASE proc[p].then # "end"
      <3>1. PICK r : r = [proc[p] EXCEPT !.pc = proc[p].then, !.event = "none", !.seen = "absent"] OBVIOUS
      <3>2. proc[p].then \in {"look", "seed", "back"} BY <1>1, <2>5 DEF ProcRecords
      <3>3. proc[p].then \in Pcs BY <3>2, Names
      <3>4. /\ r \in ProcRecords /\ r.pc \in {"look", "seed", "back"} /\ r.exec = proc[p].exec
            /\ r.kind = proc[p].kind /\ r.event = "none"
        BY <1>1, <3>1, <3>2, <3>3, Names DEF ProcRecords
      <3>5. proc[p].kind \in Mutators BY <1>1, <2>5 DEF Shaped, Mutators, Kinds
      <3>6. Plain(p, r) BY <3>4, <3>5 DEF Plain, Mutators, Mutating
      <3>7. Go(p, r) BY <1>6, <2>5, <3>1
      <3>8. Takes(p, r) BY <1>1, <3>4, <3>6, <3>7, PlainTakes
      <3>9. Asks(r) /\ Unskipped(r, e) BY <3>4 DEF Asks, Unskipped
      <3>10. status'[e] # "succeeded" BY <2>1, <2>2, <2>5
      <3> QED BY <1>1, <1>2, <1>3, <1>5, <2>1, <3>4, <3>8, <3>9, <3>10, QuietComplete
    <2> QED BY <2>4, <2>5
  <1> QED BY <1>4, <1>5, <1>6 DEF Write

LEMMA ExecuteComplete ==
  ASSUME ExecutionInv, OnceInv, SuccessInv, NEW p \in Processes, Execute(p), UNCHANGED snapshot
  PROVE  SuccessInv'
PROOF
  <1>1. /\ proc[p] \in ProcRecords /\ Fits(proc[p], decisions) /\ proc[p].pc = "execute"
        /\ proc[p].exec \in Executions /\ Mutating(p)
    BY Busy DEF ExecutionInv, ProcInv, Execute, At
  <1>2. proc[p].node \in NodeIds /\ proc[p].kind = "run" BY <1>1 DEF Fits
  <1>3. UNCHANGED <<overlapped, faulted, node, status>> BY DEF Execute, Unhurt
  <1>4. PICK e \in Executions : e = proc[p].exec BY <1>1
  <1>5. /\ \A c \in Nodes : ~Owes(proc[p], e, c)
        /\ proc[p].event # "complete" /\ status'[e] # "absent"
    BY <1>1, <1>3, <1>4, OwesNothing, NotCompleting DEF OnceInv
  <1> DEFINE a == node[proc[p].exec][proc[p].node].attempt
             done == [proc[p] EXCEPT !.pc = "check", !.ran = @ + 1, !.attempt = a]
  <1>6. a \in Nat /\ proc[p].ran + 1 \in Nat
    <2>1. proc[p].ran \in Nat BY <1>1 DEF ProcRecords
    <2>2. a \in Nat BY <1>1, <1>2, TypeFacts DEF ExecutionInv, NodeRecords
    <2> QED BY <2>1, <2>2
  <1>7. \/ Go(p, [done EXCEPT !.pc = "back", !.attempt = 0, !.err = TRUE])
        \/ \E pc \in {"check", "insert"} : \E o \in {"succeeded", "failed", "waiting"} :
             /\ proc[p].node # Guard
             /\ o = "waiting" <=> proc[p].node \in snapshot[e].forms
             /\ Go(p, [done EXCEPT !.pc = pc, !.outcome = o])
    <2> HIDE DEF done
    <2>1. Guard \notin snapshot[e].forms
      BY TypeFacts, NamesAssumption DEF ExecutionInv
    <2>2. done = [proc[p] EXCEPT !.pc = "check", !.ran = @ + 1, !.attempt = a] BY DEF done
    <2>3. CASE Go(p, [done EXCEPT !.pc = "back", !.attempt = 0, !.err = TRUE]) BY <2>3
    <2>4. CASE /\ proc[p].node \in snapshot[e].forms
               /\ Go(p, [done EXCEPT !.pc = "insert", !.outcome = "waiting"])
      BY <2>1, <2>4
    <2>5. ASSUME proc[p].node # Guard, proc[p].node \notin snapshot[e].forms,
                 NEW o \in {"succeeded", "failed"}, Go(p, [done EXCEPT !.outcome = o])
          PROVE  Go(p, [done EXCEPT !.pc = "check", !.outcome = o])
      <3>1. [done EXCEPT !.outcome = o] = [done EXCEPT !.pc = "check", !.outcome = o]
        BY <1>1, <1>6, <2>2 DEF ProcRecords
      <3> QED BY <2>5, <3>1
    <2>6. \/ Go(p, [done EXCEPT !.pc = "back", !.attempt = 0, !.err = TRUE])
          \/ /\ proc[p].node \in snapshot[e].forms
             /\ Go(p, [done EXCEPT !.pc = "insert", !.outcome = "waiting"])
          \/ /\ proc[p].node # Guard /\ proc[p].node \notin snapshot[e].forms
             /\ \E o \in {"succeeded", "failed"} : Go(p, [done EXCEPT !.outcome = o])
      BY <1>4, <2>2 DEF Execute
    <2> QED BY <2>3, <2>4, <2>5, <2>6
  <1> HIDE DEF a
  <1>8. /\ done \in ProcRecords /\ done.exec = proc[p].exec /\ done.node = proc[p].node
        /\ done.kind = "run" /\ done.event = proc[p].event
    BY <1>1, <1>2, <1>6, Names DEF ProcRecords
  <1> HIDE DEF done
  <1>9. CASE Go(p, [done EXCEPT !.pc = "back", !.attempt = 0, !.err = TRUE])
    <2>1. PICK r : r = [done EXCEPT !.pc = "back", !.attempt = 0, !.err = TRUE] OBVIOUS
    <2>2. /\ r \in ProcRecords /\ r.pc = "back" /\ r.exec = proc[p].exec /\ r.kind = "run"
          /\ r.event = proc[p].event
      BY <1>8, <2>1 DEF ProcRecords, Pcs
    <2>3. Plain(p, r) BY <1>1, <2>2 DEF Plain, Mutators
    <2> QED BY <1>1, <1>3, <1>4, <1>5, <1>9, <2>1, <2>2, <2>3, PlainComplete
  <1>10. ASSUME NEW pc \in {"check", "insert"}, NEW o \in {"succeeded", "failed", "waiting"},
                proc[p].node # Guard, o = "waiting" <=> proc[p].node \in snapshot[e].forms,
                Go(p, [done EXCEPT !.pc = pc, !.outcome = o])
         PROVE  SuccessInv'
    <2>1. PICK r : r = [done EXCEPT !.pc = pc, !.outcome = o] OBVIOUS
    <2>2. /\ r \in ProcRecords /\ r.pc = pc /\ r.exec = e /\ r.node = proc[p].node
          /\ r.kind = "run" /\ r.outcome = o /\ r.event = proc[p].event
      BY <1>1, <1>4, <1>8, <2>1 DEF ProcRecords, Pcs
    <2>3. Takes(p, r) BY <1>1, <1>4, <1>10, <2>1, <2>2 DEF Takes, Shaped, Mutators
    <2>4. Asks(r) BY <1>5, <1>10, <2>2 DEF Asks
    <2>5. e \notin overlapped => Unskipped(proc[p], e) BY <1>1, <1>4 DEF SuccessInv, Works
    <2>6. e \notin overlapped => Unskipped(r, e) BY <1>1, <2>2, <2>5 DEF Unskipped
    <2> QED BY <1>1, <1>3, <1>4, <1>5, <2>2, <2>3, <2>4, <2>6, QuietComplete
  <1> QED BY <1>7, <1>9, <1>10

LEMMA CheckComplete ==
  ASSUME ExecutionInv, OnceInv, SuccessInv, NEW p \in Processes, Check(p), UNCHANGED snapshot
  PROVE  SuccessInv'
PROOF
  <1>1. /\ proc[p] \in ProcRecords /\ proc[p].pc = "check" /\ proc[p].exec \in Executions
        /\ Mutating(p) /\ Shaped(proc[p]) /\ Asks(proc[p])
    BY Busy DEF Check, At, OnceInv, SuccessInv
  <1>2. UNCHANGED <<overlapped, faulted, node, status>> BY DEF Check, Unhurt
  <1>3. PICK e \in Executions : e = proc[p].exec BY <1>1
  <1>4. /\ \A c \in Nodes : ~Owes(proc[p], e, c)
        /\ proc[p].event # "complete" /\ status'[e] # "absent"
    BY <1>1, <1>2, <1>3, OwesNothing, NotCompleting DEF OnceInv
  <1>5. CASE Go(p, Failed(p)) BY <1>1, <1>2, <1>3, <1>4, <1>5, FailedComplete
  <1>6. ASSUME NEW kids \in SUBSET Nodes,
               Go(p, [proc[p] EXCEPT !.pc = "insert", !.seen = status[e], !.kids = kids])
        PROVE  SuccessInv'
    <2>1. PICK r : r = [proc[p] EXCEPT !.pc = "insert", !.seen = status[e], !.kids = kids] OBVIOUS
    <2>2. status[e] \in Lifecycle!Statuses BY DEF ExecutionInv, TypeOK
    <2>3. /\ r \in ProcRecords /\ r.pc = "insert" /\ r.exec = e /\ r.node = proc[p].node
          /\ r.kind = proc[p].kind /\ r.outcome = proc[p].outcome /\ r.event = proc[p].event
      BY <1>1, <1>3, <2>1, <2>2, Names DEF ProcRecords
    <2>4. Takes(p, r) BY <1>1, <1>3, <1>6, <2>1, <2>3 DEF Takes, Shaped
    <2>5. Asks(r) BY <1>1, <1>3, <1>4, <2>3 DEF Asks
    <2>6. e \notin overlapped => Unskipped(proc[p], e) BY <1>1, <1>3 DEF SuccessInv, Works
    <2>7. e \notin overlapped => Unskipped(r, e) BY <1>1, <2>3, <2>6 DEF Unskipped
    <2> QED BY <1>1, <1>2, <1>3, <1>4, <2>3, <2>4, <2>5, <2>7, QuietComplete
  <1>7. \E kids \in {{Branch(e)}, {}} :
          \/ Go(p, Failed(p))
          \/ Go(p, [proc[p] EXCEPT !.pc = "insert", !.seen = status[e], !.kids = kids])
    BY <1>3 DEF Check
  <1>8. {Branch(e)} \in SUBSET Nodes /\ {} \in SUBSET Nodes
    BY TypeFacts DEF Branch, ExecutionInv
  <1> QED BY <1>5, <1>6, <1>7, <1>8

LEMMA SeedComplete ==
  ASSUME ExecutionInv, OnceInv, SuccessInv, NEW p \in Processes, Seed(p), UNCHANGED snapshot
  PROVE  SuccessInv'
PROOF
  <1>1. /\ proc[p] \in ProcRecords /\ proc[p].pc = "seed" /\ proc[p].exec \in Executions
        /\ Mutating(p) /\ proc[p].kind \in Mutators
    BY Busy DEF Seed, At
  <1>2. UNCHANGED <<overlapped, faulted, node, status>> BY DEF Seed, Quiet, Unhurt
  <1>3. PICK e \in Executions : e = proc[p].exec BY <1>1
  <1>4. PICK kids : kids = ReadyChildren(e, proc[p].node) OBVIOUS
  <1>5. kids \in SUBSET Nodes BY <1>4 DEF ReadyChildren
  <1>6. PICK r : r = [proc[p] EXCEPT !.pc = "child", !.kids = kids] OBVIOUS
  <1>7. /\ r \in ProcRecords /\ r.pc = "child" /\ r.exec = e /\ r.kids = kids
        /\ r.kind = proc[p].kind /\ r.event = proc[p].event
    BY <1>1, <1>3, <1>5, <1>6, Names DEF ProcRecords
  <1>8. Go(p, r) BY <1>3, <1>4, <1>6 DEF Seed
  <1>9. Takes(p, r) BY <1>1, <1>3, <1>7, <1>8 DEF Takes, Shaped, Mutators
  <1>10. r.event # "complete" BY <1>1, <1>7, NotCompleting
  <1>11. Asks(r) /\ Unskipped(r, e)' BY <1>7, <1>10 DEF Asks, Unskipped
  <1>12. Forms(e)'
    <2>1. Forms(e) BY DEF SuccessInv
    <2> QED BY <1>2, <2>1, FormsStay
  <1>13. status'[e] # "absent" BY <1>1, <1>2, <1>3 DEF OnceInv
  <1>14. ASSUME e \notin overlapped \cup faulted', NEW c \in Nodes, Missing(e, c)'
         PROVE  PassedBy(e, c)' \/ Owes(r, e, c)'
    <2>1. Missing(e, c) BY <1>2, <1>14 DEF Missing, AllParentsReady, Parents, Exists
    <2>2. e \in Executions \ (overlapped \cup faulted) BY <1>2, <1>14
    <2>3. PassedBy(e, c) \/ \E q \in Processes : Works(q, e) /\ Owes(proc[q], e, c)
      BY <2>1, <2>2 DEF SuccessInv
    <2>4. \A q \in Processes : Works(q, e) => q = p BY <1>1, <1>3, <2>2 DEF OnceInv, Works
    <2>5. CASE PassedBy(e, c) BY <1>2, <2>5 DEF PassedBy, Parents
    <2>6. CASE Owes(proc[p], e, c)
      <3>1. proc[p].node \in Parents(e, c) BY <1>1, <2>6 DEF Owes
      <3>2. c \in kids BY <1>4, <2>1, <3>1 DEF ReadyChildren, Parents, Missing
      <3> QED BY <1>7, <3>2 DEF Owes
    <2> QED BY <2>3, <2>4, <2>5, <2>6
  <1>15. proc[p].pc # "idle" BY <1>1
  <1> QED BY <1>1, <1>2, <1>3, <1>7, <1>9, <1>10, <1>11, <1>12, <1>13, <1>14, <1>15, CompleteStep

\* What WithRow leaves of a row.
LEMMA RowFields ==
  ASSUME NEW r \in NodeRecords, NEW st \in Latest \ {"none"}, NEW attempt \in Nat, NEW waits \in BOOLEAN
  PROVE  /\ WithRow(r, st, attempt, waits).waited <=> r.waited \/ waits
         /\ WithRow(r, st, attempt, waits).ready <=> r.ready \/ st \in Ready
PROOF BY DEF WithRow, NodeRecords, Larger, Latest

\* AddRow, as RowComplete wants it.
RowOf(e, n, st, waits) ==
  \E k \in NodeRecords :
    /\ node' = [node EXCEPT ![e][n] = k] /\ k.latest = st
    /\ k.waited <=> node[e][n].waited \/ waits
    /\ k.ready <=> node[e][n].ready \/ st \in Ready

LEMMA AddedRow ==
  ASSUME TypeOK, NEW e \in Executions, NEW n \in NodeIds, NEW st \in Latest \ {"none"},
         NEW attempt \in Nat, NEW waits \in BOOLEAN, AddRow(e, n, st, attempt, waits)
  PROVE  RowOf(e, n, st, waits)
PROOF
  <1>1. PICK b \in NodeRecords : b = node[e][n] BY TypeFacts
  <1>2. PICK k : k = WithRow(b, st, attempt, waits) OBVIOUS
  <1>3. k \in NodeRecords /\ k.latest = st BY <1>2, WithRowFacts
  <1>4. (k.waited <=> b.waited \/ waits) /\ (k.ready <=> b.ready \/ st \in Ready) BY <1>2, RowFields
  <1>5. node' = [node EXCEPT ![e][n] = k] BY <1>1, <1>2 DEF AddRow
  <1> QED BY <1>1, <1>3, <1>4, <1>5 DEF RowOf

\* What a process that is about to insert knows of its node.
LEMMA InsertingComplete ==
  ASSUME ExecutionInv, OnceInv, SuccessInv, NEW p \in Processes, proc[p].pc = "insert"
  PROVE  /\ Mutating(p) /\ proc[p].kind \in Mutators /\ Shaped(proc[p]) /\ Asks(proc[p])
         /\ proc[p].event # "complete"
         /\ \A e \in Executions, c \in Nodes : ~Owes(proc[p], e, c)
         /\ proc[p].exec \notin overlapped => node[proc[p].exec][proc[p].node].latest # "skipped"
PROOF
  <1>1. /\ Mutating(p) /\ proc[p].kind \in Mutators /\ Shaped(proc[p]) /\ proc[p].exec \in Executions
    BY Busy, InsertingOnce
  <1>2. proc[p].exec \notin overlapped => Unskipped(proc[p], proc[p].exec)
    BY <1>1 DEF SuccessInv, Works
  <1> QED BY <1>1, <1>2, NotCompleting, OwesNothing DEF SuccessInv, Unskipped

LEMMA InsertSuccessComplete ==
  ASSUME ExecutionInv, OnceInv, SuccessInv, NEW p \in Processes, InsertSuccess(p), UNCHANGED snapshot
  PROVE  SuccessInv'
PROOF
  <1>0. proc[p].pc = "insert" BY DEF InsertSuccess, At
  <1>1. /\ TypeOK /\ proc[p] \in ProcRecords /\ proc[p].exec \in Executions /\ proc[p].node \in NodeIds
        /\ proc[p].attempt \in Nat
    BY <1>0, Inserting
  <1>2. /\ Mutating(p) /\ proc[p].kind \in Mutators /\ Shaped(proc[p]) /\ proc[p].event # "complete"
        /\ \A x \in Executions, c \in Nodes : ~Owes(proc[p], x, c)
        /\ proc[p].exec \notin overlapped => node[proc[p].exec][proc[p].node].latest # "skipped"
    BY <1>0, InsertingComplete
  <1>3. UNCHANGED <<overlapped, faulted, status>> BY DEF InsertSuccess, Quiet, Unhurt
  <1>4. PICK e \in Executions, n \in NodeIds : e = proc[p].exec /\ n = proc[p].node BY <1>1
  <1>5. PICK k \in NodeRecords :
          /\ node' = [node EXCEPT ![e][n] = k] /\ k.latest = "succeeded"
          /\ k.waited <=> node[e][n].waited \/ FALSE
    <2>1. "succeeded" \in Latest \ {"none"} BY DEF Latest
    <2>2. AddRow(e, n, "succeeded", proc[p].attempt, FALSE) BY <1>4 DEF InsertSuccess
    <2>3. RowOf(e, n, "succeeded", FALSE) BY <1>1, <2>1, <2>2, AddedRow
    <2> QED BY <2>3 DEF RowOf
  <1>6. PICK r : r = [proc[p] EXCEPT !.pc = "seed", !.attempt = 0, !.seen = "absent"] OBVIOUS
  <1>7. /\ r \in ProcRecords /\ r.pc = "seed" /\ r.exec = proc[p].exec /\ r.kind = proc[p].kind
        /\ r.node = n /\ r.event = proc[p].event
    BY <1>1, <1>4, <1>6, Names DEF ProcRecords
  <1>8. Go(p, r) BY <1>6 DEF InsertSuccess
  <1>9. Takes(p, r) BY <1>2, <1>7, <1>8 DEF Takes, Shaped, Mutators
  <1>10. proc[p].pc # "idle" BY <1>0
  <1>11. /\ k.latest # "none" /\ (k.waited => node[e][n].waited \/ n \in snapshot[e].forms)
         /\ n \in snapshot[e].forms => k.latest \in {"pending", "succeeded"}
         /\ k.ready => node[e][n].ready \/ k.latest = "skipped"
                         \/ (r.pc = "seed" /\ r.node = n /\ r.kind \in Mutators)
         /\ \A c \in Nodes : Owes(proc[p], e, c) => c = n \/ (r.kind \in Mutators /\ Owes(r, e, c))
         /\ r.pc \notin {"execute", "check", "insert"} /\ r.event # "complete"
         /\ e \notin overlapped => n \notin Nodes \/ node[e][n].latest # "skipped"
    BY <1>2, <1>4, <1>5, <1>7
  <1>12. RowStep(p, r, e, n, k)
    BY <1>2, <1>3, <1>4, <1>5, <1>7, <1>9, <1>10, <1>11 DEF RowStep
  <1> QED BY <1>4, <1>12, RowComplete

LEMMA InsertWaitComplete ==
  ASSUME ExecutionInv, OnceInv, SuccessInv, NEW p \in Processes, InsertWait(p), UNCHANGED snapshot
  PROVE  SuccessInv'
PROOF
  <1>0. proc[p].pc = "insert" BY DEF InsertWait, At
  <1>1. /\ TypeOK /\ proc[p] \in ProcRecords /\ proc[p].exec \in Executions /\ proc[p].node \in NodeIds
        /\ proc[p].attempt \in Nat /\ Fits(proc[p], decisions)
    BY <1>0, Inserting
  <1>2. /\ Mutating(p) /\ proc[p].kind \in Mutators /\ Asks(proc[p])
        /\ \A x \in Executions, c \in Nodes : ~Owes(proc[p], x, c)
        /\ proc[p].exec \notin overlapped => node[proc[p].exec][proc[p].node].latest # "skipped"
    BY <1>0, InsertingComplete
  <1>3. UNCHANGED <<overlapped, faulted, status>> BY DEF InsertWait, Quiet, Unhurt
  <1>4. PICK e \in Executions, n \in NodeIds : e = proc[p].exec /\ n = proc[p].node BY <1>1
  <1>5. n \in snapshot[e].forms BY <1>0, <1>2, <1>4 DEF InsertWait, Asks
  <1>6. PICK k \in NodeRecords :
          /\ node' = [node EXCEPT ![e][n] = k] /\ k.latest = "pending"
          /\ k.ready <=> node[e][n].ready \/ "pending" \in Ready
    <2>1. "pending" \in Latest \ {"none"} BY DEF Latest
    <2>2. AddRow(e, n, "pending", proc[p].attempt, TRUE) BY <1>4 DEF InsertWait
    <2>3. RowOf(e, n, "pending", TRUE) BY <1>1, <2>1, <2>2, AddedRow
    <2> QED BY <2>3 DEF RowOf
  <1>7. k.ready => node[e][n].ready BY <1>6 DEF Ready
  <1>8. PICK t : t = Transit(p, "pause", "back") OBVIOUS
  <1>9. /\ t \in ProcRecords /\ t.pc = "read" /\ t.exec = proc[p].exec /\ t.kind = proc[p].kind
        /\ t.event = "pause"
    <2>1. t \in ProcRecords BY <1>0, <1>1, <1>8, EventsAre, TransitFits
    <2>2. t.pc = "read" /\ t.exec = proc[p].exec /\ t.kind = proc[p].kind /\ t.event = "pause"
      BY <1>1, <1>8 DEF Transit, ProcRecords
    <2> QED BY <2>1, <2>2
  <1>10. PICK r : r = [t EXCEPT !.err = TRUE, !.attempt = 0] OBVIOUS
  <1>11. /\ r \in ProcRecords /\ r.pc = "read" /\ r.exec = proc[p].exec /\ r.kind = proc[p].kind
         /\ r.event = "pause"
    BY <1>9, <1>10 DEF ProcRecords
  <1>12. Go(p, r) BY <1>8, <1>10 DEF InsertWait
  <1>13. Takes(p, r)
    <2>1. Plain(p, r) BY <1>2, <1>11 DEF Plain
    <2> QED BY <1>0, <1>11, <1>12, <2>1, PlainTakes
  <1>14. proc[p].pc # "idle" BY <1>0
  <1>15. RowStep(p, r, e, n, k)
    BY <1>2, <1>3, <1>4, <1>5, <1>6, <1>7, <1>11, <1>13, <1>14 DEF RowStep
  <1> QED BY <1>4, <1>15, RowComplete

LEMMA InsertDecisionComplete ==
  ASSUME ExecutionInv, OnceInv, SuccessInv, NEW p \in Processes, InsertDecision(p), UNCHANGED snapshot
  PROVE  SuccessInv'
PROOF
  <1>0. proc[p].pc = "insert" BY DEF InsertDecision, At
  <1>1. /\ TypeOK /\ proc[p] \in ProcRecords /\ proc[p].exec \in Executions /\ proc[p].node \in NodeIds
        /\ proc[p].attempt \in Nat /\ proc[p].attempt + 1 \in Nat
    BY <1>0, Inserting
  <1>2. /\ Mutating(p) /\ proc[p].kind \in Mutators /\ Asks(proc[p]) /\ proc[p].event # "complete"
        /\ \A x \in Executions, c \in Nodes : ~Owes(proc[p], x, c)
        /\ proc[p].exec \notin overlapped => node[proc[p].exec][proc[p].node].latest # "skipped"
    BY <1>0, InsertingComplete
  <1>3. UNCHANGED <<overlapped, faulted, status>> BY DEF InsertDecision, Quiet, Unhurt
  <1>4. PICK e \in Executions, n \in NodeIds : e = proc[p].exec /\ n = proc[p].node BY <1>1
  <1>5. n \notin snapshot[e].forms BY <1>0, <1>2, <1>4 DEF InsertDecision, Asks
  <1>6. PICK k \in NodeRecords :
          /\ node' = [node EXCEPT ![e][n] = k] /\ k.latest \in {"pending", "skipped"}
          /\ k.waited <=> node[e][n].waited \/ FALSE
          /\ k.ready <=> node[e][n].ready \/ k.latest \in Ready
    <2>1. \E st \in {"pending", "skipped"}, a \in {proc[p].attempt, proc[p].attempt + 1} :
            AddRow(e, n, st, a, FALSE)
      BY <1>4 DEF InsertDecision
    <2>2. PICK st \in {"pending", "skipped"}, a \in {proc[p].attempt, proc[p].attempt + 1} :
            AddRow(e, n, st, a, FALSE)
      BY <2>1
    <2>3. st \in Latest \ {"none"} /\ a \in Nat BY <1>1 DEF Latest
    <2>4. RowOf(e, n, st, FALSE) BY <1>1, <2>2, <2>3, AddedRow
    <2> QED BY <2>4 DEF RowOf
  <1>7. k.ready => node[e][n].ready \/ k.latest = "skipped" BY <1>6 DEF Ready
  <1>8. PICK r : r = [proc[p] EXCEPT !.pc = "read"] OBVIOUS
  <1>9. /\ r \in ProcRecords /\ r.pc = "read" /\ r.exec = proc[p].exec /\ r.kind = proc[p].kind
        /\ r.event = proc[p].event
    BY <1>1, <1>8, Names DEF ProcRecords
  <1>10. Go(p, r) BY <1>8 DEF InsertDecision
  <1>11. Takes(p, r)
    <2>1. Plain(p, r) BY <1>2, <1>9 DEF Plain
    <2> QED BY <1>0, <1>9, <1>10, <2>1, PlainTakes
  <1>12. proc[p].pc # "idle" BY <1>0
  <1>13. /\ k.latest # "none" /\ (k.waited => node[e][n].waited \/ n \in snapshot[e].forms)
         /\ n \in snapshot[e].forms => k.latest \in {"pending", "succeeded"}
         /\ k.ready => node[e][n].ready \/ k.latest = "skipped"
                         \/ (r.pc = "seed" /\ r.node = n /\ r.kind \in Mutators)
         /\ \A c \in Nodes : Owes(proc[p], e, c) => c = n \/ (r.kind \in Mutators /\ Owes(r, e, c))
         /\ r.pc \notin {"execute", "check", "insert"} /\ r.event # "complete"
         /\ e \notin overlapped => n \notin Nodes \/ node[e][n].latest # "skipped"
    BY <1>2, <1>4, <1>5, <1>6, <1>7, <1>9
  <1>14. RowStep(p, r, e, n, k)
    BY <1>2, <1>3, <1>4, <1>6, <1>9, <1>11, <1>12, <1>13 DEF RowStep
  <1> QED BY <1>4, <1>14, RowComplete

LEMMA InsertFailureComplete ==
  ASSUME ExecutionInv, OnceInv, SuccessInv, NEW p \in Processes, InsertFailure(p), UNCHANGED snapshot
  PROVE  SuccessInv'
PROOF
  <1>0. proc[p].pc = "insert" BY DEF InsertFailure, At
  <1>1. /\ TypeOK /\ proc[p] \in ProcRecords /\ proc[p].exec \in Executions /\ proc[p].node \in NodeIds
        /\ proc[p].attempt \in Nat /\ proc[p].attempt + 1 \in Nat /\ Fits(proc[p], decisions)
    BY <1>0, Inserting
  <1>2. /\ Mutating(p) /\ proc[p].kind \in Mutators /\ Shaped(proc[p]) /\ Asks(proc[p])
        /\ proc[p].event # "complete"
        /\ \A x \in Executions, c \in Nodes : ~Owes(proc[p], x, c)
        /\ proc[p].exec \notin overlapped => node[proc[p].exec][proc[p].node].latest # "skipped"
    BY <1>0, InsertingComplete
  <1>3. UNCHANGED <<overlapped, faulted, status>> BY DEF InsertFailure, Quiet, Unhurt
  <1>4. proc[p].kind = "run" BY <1>0, <1>2 DEF InsertFailure, Shaped
  <1>5. PICK e \in Executions, n \in NodeIds : e = proc[p].exec /\ n = proc[p].node BY <1>1
  <1>6. n \notin snapshot[e].forms BY <1>0, <1>2, <1>5 DEF InsertFailure, Asks
  <1>7. PICK k \in NodeRecords :
          /\ node' = [node EXCEPT ![e][n] = k] /\ k.latest \in {"failed", "retrying", "skipped"}
          /\ k.waited <=> node[e][n].waited \/ FALSE
          /\ k.ready <=> node[e][n].ready \/ k.latest \in Ready
    <2>1. \E st \in {"failed", "retrying", "skipped"}, a \in {proc[p].attempt, proc[p].attempt + 1} :
            AddRow(e, n, st, a, FALSE)
      BY <1>5 DEF InsertFailure
    <2>2. PICK st \in {"failed", "retrying", "skipped"}, a \in {proc[p].attempt, proc[p].attempt + 1} :
            AddRow(e, n, st, a, FALSE)
      BY <2>1
    <2>3. st \in Latest \ {"none"} /\ a \in Nat BY <1>1 DEF Latest
    <2>4. RowOf(e, n, st, FALSE) BY <1>1, <2>2, <2>3, AddedRow
    <2> QED BY <2>2, <2>4 DEF RowOf
  <1>8. k.ready => node[e][n].ready \/ k.latest = "skipped" BY <1>7 DEF Ready
  <1>9. \A event \in {"fail", "start", "partial_success", "pause"}, then \in {"back", "seed"} :
          /\ Transit(p, event, then) \in ProcRecords /\ Transit(p, event, then).pc = "read"
          /\ Transit(p, event, then).exec = proc[p].exec /\ Transit(p, event, then).kind = "run"
          /\ Transit(p, event, then).event # "complete"
    <2> SUFFICES ASSUME NEW event \in {"fail", "start", "partial_success", "pause"},
                        NEW then \in {"back", "seed"}
                 PROVE  /\ Transit(p, event, then) \in ProcRecords /\ Transit(p, event, then).pc = "read"
                        /\ Transit(p, event, then).exec = proc[p].exec /\ Transit(p, event, then).kind = "run"
                        /\ Transit(p, event, then).event # "complete"
      OBVIOUS
    <2>1. Transit(p, event, then) \in ProcRecords BY <1>0, <1>1, EventsAre, TransitFits
    <2> QED BY <1>1, <1>4, <2>1 DEF Transit, ProcRecords
  <1>10. \A pc \in {"back", "branch"} :
          /\ [proc[p] EXCEPT !.pc = pc] \in ProcRecords /\ [proc[p] EXCEPT !.pc = pc].pc = pc
          /\ [proc[p] EXCEPT !.pc = pc].exec = proc[p].exec /\ [proc[p] EXCEPT !.pc = pc].kind = "run"
          /\ [proc[p] EXCEPT !.pc = pc].event = proc[p].event
    BY <1>1, <1>4, Names DEF ProcRecords
  <1>11. \E next \in {Transit(p, "fail", "back"), Transit(p, "start", "back"), Transit(p, "pause", "back"),
                     Transit(p, "partial_success", "seed"),
                     [proc[p] EXCEPT !.pc = "back"], [proc[p] EXCEPT !.pc = "branch"]} :
          Go(p, [next EXCEPT !.err = TRUE, !.attempt = 0, !.outcome = "none", !.seen = "absent"])
    BY DEF InsertFailure
  <1>12. PICK next \in {Transit(p, "fail", "back"), Transit(p, "start", "back"), Transit(p, "pause", "back"),
                       Transit(p, "partial_success", "seed"),
                       [proc[p] EXCEPT !.pc = "back"], [proc[p] EXCEPT !.pc = "branch"]} :
          Go(p, [next EXCEPT !.err = TRUE, !.attempt = 0, !.outcome = "none", !.seen = "absent"])
    BY <1>11
  <1>13. /\ next \in ProcRecords /\ next.pc \in {"read", "back", "branch"}
         /\ next.exec = proc[p].exec /\ next.kind = "run" /\ next.event # "complete"
    <2>1. CASE \E event \in {"fail", "start", "partial_success", "pause"}, then \in {"back", "seed"} :
                 next = Transit(p, event, then)
      <3>1. PICK event \in {"fail", "start", "partial_success", "pause"}, then \in {"back", "seed"} :
              next = Transit(p, event, then)
        BY <2>1
      <3> QED BY <1>9, <3>1
    <2>2. CASE \E pc \in {"back", "branch"} : next = [proc[p] EXCEPT !.pc = pc]
      <3>1. PICK pc \in {"back", "branch"} : next = [proc[p] EXCEPT !.pc = pc] BY <2>2
      <3> QED BY <1>2, <1>10, <3>1
    <2> QED BY <1>12, <2>1, <2>2
  <1>14. PICK r : r = [next EXCEPT !.err = TRUE, !.attempt = 0, !.outcome = "none", !.seen = "absent"]
    OBVIOUS
  <1>15. /\ r \in ProcRecords /\ r.pc = next.pc /\ r.exec = proc[p].exec /\ r.kind = "run"
         /\ r.event = next.event
    BY <1>13, <1>14, Names DEF ProcRecords
  <1>16. Go(p, r) BY <1>12, <1>14
  <1>17. Takes(p, r) BY <1>2, <1>13, <1>15, <1>16 DEF Takes, Shaped
  <1>18. /\ k.latest # "none" /\ (k.waited => node[e][n].waited \/ n \in snapshot[e].forms)
         /\ n \in snapshot[e].forms => k.latest \in {"pending", "succeeded"}
         /\ k.ready => node[e][n].ready \/ k.latest = "skipped"
                         \/ (r.pc = "seed" /\ r.node = n /\ r.kind \in Mutators)
         /\ \A c \in Nodes : Owes(proc[p], e, c) => c = n \/ (r.kind \in Mutators /\ Owes(r, e, c))
         /\ r.pc \notin {"execute", "check", "insert"} /\ r.event # "complete"
         /\ e \notin overlapped => n \notin Nodes \/ node[e][n].latest # "skipped"
    BY <1>2, <1>5, <1>6, <1>7, <1>8, <1>13, <1>15
  <1>19. proc[p].pc # "idle" BY <1>0
  <1>20. RowStep(p, r, e, n, k)
    BY <1>2, <1>3, <1>5, <1>7, <1>15, <1>17, <1>18, <1>19 DEF RowStep
  <1> QED BY <1>5, <1>20, RowComplete

LEMMA InsertedEvent ==
  ASSUME ExecutionInv, OnceInv, SuccessInv, NEW p \in Processes, proc[p].pc \in {"child", "branch"}
  PROVE  Inserted(p).event # "complete"
PROOF
  <1>1. proc[p] \in ProcRecords /\ proc[p].event # "complete"
    BY TypeFacts, NotCompleting DEF ExecutionInv
  <1>2. \A pc \in {"back", "look"} : [proc[p] EXCEPT !.pc = pc].event = proc[p].event
    BY <1>1 DEF ProcRecords
  <1>3. Transit(p, "resume", "look").event = "resume" BY <1>1 DEF Transit, ProcRecords
  <1>4. Inserted(p) \in {[proc[p] EXCEPT !.pc = "back"], [proc[p] EXCEPT !.pc = "look"],
                         Transit(p, "resume", "look")}
    BY DEF Inserted
  <1> QED BY <1>1, <1>2, <1>3, <1>4

LEMMA ChildComplete ==
  ASSUME ExecutionInv, OnceInv, SuccessInv, NEW p \in Processes, Child(p), UNCHANGED snapshot
  PROVE  SuccessInv'
PROOF
  <1>1. /\ TypeOK /\ proc[p] \in ProcRecords /\ proc[p].exec \in Executions /\ proc[p].pc = "child"
        /\ Mutating(p) /\ proc[p].kind \in Mutators /\ proc[p].event # "complete"
    BY Busy, NotCompleting DEF Child, At, ExecutionInv
  <1>2. UNCHANGED <<overlapped, faulted, status>> BY DEF Child, Quiet, Unhurt
  <1>3. PICK e \in Executions : e = proc[p].exec BY <1>1
  <1>4. CASE proc[p].kids = {} /\ Go(p, Inserted(p)) /\ UNCHANGED <<rows, node>>
    <2>1. PICK r : r = Inserted(p) OBVIOUS
    <2>2. r \in ProcRecords /\ Plain(p, r) BY <1>1, <2>1, InsertedPlain
    <2>3. r.event # "complete" BY <1>1, <2>1, InsertedEvent
    <2>4. \A c \in Nodes : ~Owes(proc[p], proc[p].exec, c) BY <1>1, <1>4 DEF Owes
    <2> QED BY <1>1, <1>2, <1>4, <2>1, <2>2, <2>3, <2>4, PlainComplete
  <1>5. ASSUME NEW c \in proc[p].kids, AddRow(proc[p].exec, c, "pending", 1, FALSE),
               Go(p, [proc[p] EXCEPT !.kids = @ \ {c}])
        PROVE  SuccessInv'
    <2>1. c \in NodeIds BY <1>1 DEF ProcRecords, NodeIds
    <2>2. "pending" \in Latest \ {"none"} BY DEF Latest
    <2>3. RowOf(e, c, "pending", FALSE) BY <1>1, <1>3, <1>5, <2>1, <2>2, AddedRow
    <2>4. PICK k \in NodeRecords :
            /\ node' = [node EXCEPT ![e][c] = k] /\ k.latest = "pending"
            /\ k.waited <=> node[e][c].waited \/ FALSE
            /\ k.ready <=> node[e][c].ready \/ "pending" \in Ready
      BY <2>3 DEF RowOf
    <2>5. PICK r : r = [proc[p] EXCEPT !.kids = @ \ {c}] OBVIOUS
    <2>6. /\ r \in ProcRecords /\ r.pc = "child" /\ r.exec = proc[p].exec
          /\ r.kids = proc[p].kids \ {c} /\ r.kind = proc[p].kind /\ r.event = proc[p].event
      BY <1>1, <2>5 DEF ProcRecords
    <2>7. Takes(p, r) BY <1>1, <1>5, <2>5, <2>6 DEF Takes, Shaped, Mutators
    <2>8. e \notin overlapped => ~Exists(e, c)
      BY <1>1, <1>3, <1>5 DEF OnceInv, Works, Clean
    <2>9. \A x \in Nodes : Owes(proc[p], e, x) => x = c \/ (r.kind \in Mutators /\ Owes(r, e, x))
      BY <1>1, <2>6 DEF Owes
    <2>10. /\ k.latest # "none" /\ (k.waited => node[e][c].waited \/ c \in snapshot[e].forms)
           /\ c \in snapshot[e].forms => k.latest \in {"pending", "succeeded"}
           /\ k.ready => node[e][c].ready \/ k.latest = "skipped"
                           \/ (r.pc = "seed" /\ r.node = c /\ r.kind \in Mutators)
           /\ r.pc \notin {"execute", "check", "insert"} /\ r.event # "complete"
           /\ e \notin overlapped => c \notin Nodes \/ node[e][c].latest # "skipped"
      BY <1>1, <2>4, <2>6, <2>8 DEF Exists, Ready
    <2>11. proc[p].pc # "idle" /\ Mutating(p) /\ node' = [node EXCEPT ![e][c] = k] BY <1>1, <2>4
    <2>12. PICK n \in NodeIds : n = c BY <2>1
    <2>13. node' = [node EXCEPT ![e][n] = k] /\ k.latest # "none" BY <2>12, <2>6, <2>7, <2>9, <2>10, <2>11
    <2>14. r.pc \notin {"execute", "check", "insert"} /\ r.event # "complete" BY <2>6, <2>7, <2>9, <2>10, <2>11
    <2>15. e \notin overlapped => n \notin Nodes \/ node[e][n].latest # "skipped" BY <2>12, <2>6, <2>7, <2>9, <2>10, <2>11
    <2>16. k.waited => node[e][n].waited \/ n \in snapshot[e].forms BY <2>12, <2>6, <2>7, <2>9, <2>10, <2>11
    <2>17. n \in snapshot[e].forms => k.latest \in {"pending", "succeeded"} BY <2>12, <2>6, <2>7, <2>9, <2>10, <2>11
    <2>18. k.ready => node[e][n].ready \/ k.latest = "skipped" \/ (r.pc = "seed" /\ r.node = n /\ r.kind \in Mutators)
      BY <2>12, <2>6, <2>7, <2>9, <2>10, <2>11
    <2>19. \A x \in Nodes : Owes(proc[p], e, x) => x = n \/ (r.kind \in Mutators /\ Owes(r, e, x))
      BY <2>12, <2>6, <2>7, <2>9, <2>10, <2>11
    <2>20. proc[p].pc # "idle" /\ Mutating(p) /\ r \in ProcRecords /\ Takes(p, r) BY <2>6, <2>7, <2>9, <2>10, <2>11
    <2>21. UNCHANGED <<snapshot, overlapped, status>> /\ faulted \subseteq faulted' BY <1>2
    <2>22. RowStep(p, r, e, n, k)
      BY <1>3, <2>12, <2>13, <2>14, <2>15, <2>16, <2>17, <2>18, <2>19, <2>20, <2>21 DEF RowStep
    <2> QED BY <1>3, <2>12, <2>22, RowComplete
  <1> QED BY <1>4, <1>5 DEF Child

LEMMA SeedBranchComplete ==
  ASSUME ExecutionInv, OnceInv, SuccessInv, NEW p \in Processes, SeedBranch(p), UNCHANGED snapshot
  PROVE  SuccessInv'
PROOF
  <1>1. /\ TypeOK /\ proc[p] \in ProcRecords /\ proc[p].exec \in Executions /\ proc[p].pc = "branch"
        /\ Mutating(p) /\ proc[p].kind \in Mutators
    BY Busy DEF SeedBranch, At, ExecutionInv
  <1>2. UNCHANGED <<overlapped, faulted, status>> BY DEF SeedBranch, Quiet, Unhurt
  <1>3. PICK e \in Executions : e = proc[p].exec BY <1>1
  <1>4. \A c \in Nodes : ~Owes(proc[p], e, c) BY <1>1, OwesNothing
  <1>5. PICK i : i = Inserted(p) OBVIOUS
  <1>6. /\ i \in ProcRecords /\ i.pc \in {"back", "look", "read"} /\ i.exec = proc[p].exec
        /\ i.kind = proc[p].kind /\ i.event # "complete"
    BY <1>1, <1>5, InsertedPlain, InsertedEvent
  <1>7. PICK r : r = [i EXCEPT !.kids = {}] OBVIOUS
  <1>8. /\ r \in ProcRecords /\ r.pc = i.pc /\ r.exec = proc[p].exec /\ r.kind = proc[p].kind
        /\ r.event = i.event
    BY <1>6, <1>7 DEF ProcRecords
  <1>9. Go(p, r) BY <1>5, <1>7 DEF SeedBranch
  <1>10. Plain(p, r) BY <1>1, <1>6, <1>8 DEF Plain
  <1>11. CASE UNCHANGED <<rows, node>>
    BY <1>1, <1>2, <1>3, <1>4, <1>6, <1>8, <1>9, <1>10, <1>11, PlainComplete
  <1>12. ASSUME NEW c \in proc[p].kids,
                node' = [node EXCEPT ![proc[p].exec][c] = [WithRow(@, "pending", 1, FALSE) EXCEPT !.branched = TRUE]]
         PROVE  SuccessInv'
    <2>1. c \in NodeIds BY <1>1 DEF ProcRecords, NodeIds
    <2>2. PICK b \in NodeRecords : b = node[e][c] BY <1>1, <2>1, TypeFacts
    <2>3. PICK w : w = WithRow(b, "pending", 1, FALSE) OBVIOUS
    <2>4. "pending" \in Latest \ {"none"} BY DEF Latest
    <2>5. w \in NodeRecords /\ w.latest = "pending"
      <3>1. 1 \in Nat /\ FALSE \in BOOLEAN OBVIOUS
      <3> QED BY <2>3, <2>4, <3>1, WithRowFacts
    <2>6. (w.waited <=> b.waited \/ FALSE) /\ (w.ready <=> b.ready \/ "pending" \in Ready)
      BY <2>3, <2>4, RowFields
    <2>7. PICK k : k = [w EXCEPT !.branched = TRUE] OBVIOUS
    <2>8. k.latest = "pending" /\ k.waited = w.waited /\ k.ready = w.ready BY <2>5, <2>7 DEF NodeRecords
    <2>9. node' = [node EXCEPT ![e][c] = k] BY <1>3, <1>12, <2>2, <2>3, <2>7
    <2>10. e \notin overlapped => ~Exists(e, c)
      BY <1>1, <1>3, <1>12 DEF OnceInv, Works, Clean
    <2>11. Takes(p, r) /\ r.pc \notin {"execute", "check", "insert", "child", "branch"}
      BY <1>1, <1>8, <1>9, <1>10, PlainTakes
    <2>12. /\ k.latest # "none" /\ (k.waited => node[e][c].waited \/ c \in snapshot[e].forms)
           /\ c \in snapshot[e].forms => k.latest \in {"pending", "succeeded"}
           /\ k.ready => node[e][c].ready \/ k.latest = "skipped"
                           \/ (r.pc = "seed" /\ r.node = c /\ r.kind \in Mutators)
           /\ \A x \in Nodes : Owes(proc[p], e, x) => x = c \/ (r.kind \in Mutators /\ Owes(r, e, x))
           /\ r.event # "complete"
           /\ e \notin overlapped => c \notin Nodes \/ node[e][c].latest # "skipped"
      BY <1>4, <1>6, <1>8, <2>2, <2>6, <2>8, <2>10 DEF Exists, Ready
    <2>13. proc[p].pc # "idle" /\ Mutating(p) BY <1>1
    <2>14. PICK n \in NodeIds : n = c BY <2>1
    <2>15. node' = [node EXCEPT ![e][n] = k] /\ k.latest # "none" BY <2>14, <1>8, <2>9, <2>11, <2>12, <2>13
    <2>16. r.pc \notin {"execute", "check", "insert"} /\ r.event # "complete" BY <1>8, <2>9, <2>11, <2>12, <2>13
    <2>17. e \notin overlapped => n \notin Nodes \/ node[e][n].latest # "skipped" BY <2>14, <1>8, <2>9, <2>11, <2>12, <2>13
    <2>18. k.waited => node[e][n].waited \/ n \in snapshot[e].forms BY <2>14, <1>8, <2>9, <2>11, <2>12, <2>13
    <2>19. n \in snapshot[e].forms => k.latest \in {"pending", "succeeded"} BY <2>14, <1>8, <2>9, <2>11, <2>12, <2>13
    <2>20. k.ready => node[e][n].ready \/ k.latest = "skipped" \/ (r.pc = "seed" /\ r.node = n /\ r.kind \in Mutators)
      BY <2>14, <1>8, <2>9, <2>11, <2>12, <2>13
    <2>21. \A x \in Nodes : Owes(proc[p], e, x) => x = n \/ (r.kind \in Mutators /\ Owes(r, e, x))
      BY <2>14, <1>8, <2>9, <2>11, <2>12, <2>13
    <2>22. proc[p].pc # "idle" /\ Mutating(p) /\ r \in ProcRecords /\ Takes(p, r) BY <1>8, <2>9, <2>11, <2>12, <2>13
    <2>23. UNCHANGED <<snapshot, overlapped, status>> /\ faulted \subseteq faulted' BY <1>2
    <2>24. RowStep(p, r, e, n, k)
      BY <1>3, <2>14, <2>15, <2>16, <2>17, <2>18, <2>19, <2>20, <2>21, <2>22, <2>23 DEF RowStep
    <2> QED BY <1>3, <2>14, <2>24, RowComplete
  <1> QED BY <1>11, <1>12 DEF SeedBranch

LEMMA LimitsComplete ==
  ASSUME ExecutionInv, OnceInv, SuccessInv, NEW p \in Processes, Limits(p), UNCHANGED snapshot
  PROVE  SuccessInv'
PROOF
  <1>1. /\ TypeOK /\ proc[p] \in ProcRecords /\ proc[p].exec \in Executions /\ proc[p].pc = "limits"
        /\ Mutating(p)
    BY Busy DEF Limits, At, ExecutionInv
  <1>2. UNCHANGED <<overlapped, faulted, status>> BY DEF Limits, Quiet, Unhurt
  <1>3. PICK e \in Executions : e = proc[p].exec BY <1>1
  <1>4. \A c \in Nodes : ~Owes(proc[p], e, c) BY <1>1, OwesNothing
  <1>5. ASSUME NEW r \in Head(p, proc[p].lastErr), Go(p, r), UNCHANGED <<rows, node>> PROVE SuccessInv'
    <2>1. proc[p].lastErr \in BOOLEAN BY <1>1 DEF ProcRecords
    <2> QED BY <1>1, <1>2, <1>5, <2>1, HeadComplete
  <1>6. \A event \in {"timeout", "max_iterations", "pause"} :
          /\ End(p, event) \in ProcRecords /\ Plain(p, End(p, event))
          /\ End(p, event).event = event
    BY <1>1, EventsAre, EndPlain, EndEvent
  <1>7. ASSUME NEW event \in {"timeout", "max_iterations"}, Go(p, End(p, event)), UNCHANGED <<rows, node>>
        PROVE  SuccessInv'
    <2>1. PICK r : r = End(p, event) OBVIOUS
    <2>2. r \in ProcRecords /\ Plain(p, r) /\ r.event # "complete" BY <1>6, <2>1
    <2> QED BY <1>1, <1>2, <1>3, <1>4, <1>7, <2>1, <2>2, PlainComplete
  <1>8. CASE AddRow(proc[p].exec, Guard, "failed", 1, FALSE) /\ Go(p, End(p, "pause"))
    <2>1. Guard \in NodeIds /\ "failed" \in Latest \ {"none"} BY DEF NodeIds, Latest
    <2>2. RowOf(e, Guard, "failed", FALSE) BY <1>1, <1>3, <1>8, <2>1, AddedRow
    <2>3. PICK k \in NodeRecords :
            /\ node' = [node EXCEPT ![e][Guard] = k] /\ k.latest = "failed"
            /\ k.waited <=> node[e][Guard].waited \/ FALSE
            /\ k.ready <=> node[e][Guard].ready \/ "failed" \in Ready
      BY <2>2 DEF RowOf
    <2>4. PICK r : r = End(p, "pause") OBVIOUS
    <2>5. r \in ProcRecords /\ Plain(p, r) /\ r.event = "pause" BY <1>6, <2>4
    <2>6. Takes(p, r) /\ r.pc \notin {"execute", "check", "insert", "child", "branch"}
      BY <1>1, <1>8, <2>4, <2>5, PlainTakes
    <2>7. Guard \notin Nodes /\ Guard \notin snapshot[e].forms
      BY <1>1, TypeFacts, NamesAssumption
    <2>8. /\ k.latest # "none" /\ (k.waited => node[e][Guard].waited \/ Guard \in snapshot[e].forms)
          /\ Guard \in snapshot[e].forms => k.latest \in {"pending", "succeeded"}
          /\ k.ready => node[e][Guard].ready \/ k.latest = "skipped"
                          \/ (r.pc = "seed" /\ r.node = Guard /\ r.kind \in Mutators)
          /\ \A x \in Nodes : Owes(proc[p], e, x) => x = Guard \/ (r.kind \in Mutators /\ Owes(r, e, x))
          /\ r.event # "complete"
          /\ e \notin overlapped => Guard \notin Nodes \/ node[e][Guard].latest # "skipped"
      BY <1>4, <2>3, <2>5, <2>7 DEF Ready
    <2>9. proc[p].pc # "idle" /\ Mutating(p) /\ node' = [node EXCEPT ![e][Guard] = k] BY <1>1, <2>3
    <2>10. PICK n \in NodeIds : n = Guard BY <2>1
    <2>11. node' = [node EXCEPT ![e][n] = k] /\ k.latest # "none" BY <2>10, <2>5, <2>6, <2>8, <2>9
    <2>12. r.pc \notin {"execute", "check", "insert"} /\ r.event # "complete" BY <2>5, <2>6, <2>8, <2>9
    <2>13. e \notin overlapped => n \notin Nodes \/ node[e][n].latest # "skipped" BY <2>10, <2>5, <2>6, <2>8, <2>9
    <2>14. k.waited => node[e][n].waited \/ n \in snapshot[e].forms BY <2>10, <2>5, <2>6, <2>8, <2>9
    <2>15. n \in snapshot[e].forms => k.latest \in {"pending", "succeeded"} BY <2>10, <2>5, <2>6, <2>8, <2>9
    <2>16. k.ready => node[e][n].ready \/ k.latest = "skipped" \/ (r.pc = "seed" /\ r.node = n /\ r.kind \in Mutators)
      BY <2>10, <2>5, <2>6, <2>8, <2>9
    <2>17. \A x \in Nodes : Owes(proc[p], e, x) => x = n \/ (r.kind \in Mutators /\ Owes(r, e, x))
      BY <2>10, <2>5, <2>6, <2>8, <2>9
    <2>18. proc[p].pc # "idle" /\ Mutating(p) /\ r \in ProcRecords /\ Takes(p, r) BY <2>5, <2>6, <2>8, <2>9
    <2>19. UNCHANGED <<snapshot, overlapped, status>> /\ faulted \subseteq faulted' BY <1>2
    <2>20. RowStep(p, r, e, n, k)
      BY <1>3, <2>10, <2>11, <2>12, <2>13, <2>14, <2>15, <2>16, <2>17, <2>18, <2>19 DEF RowStep
    <2> QED BY <1>3, <2>10, <2>20, RowComplete
  <1> QED BY <1>5, <1>7, <1>8 DEF Limits

LEMMA StepComplete ==
  ASSUME ExecutionInv, OnceInv, SuccessInv, NEW p \in Processes, Step(p), UNCHANGED snapshot
  PROVE  SuccessInv'
PROOF
  <1>1. CASE Look(p) \/ Execute(p) \/ Check(p)
    BY <1>1, LookComplete, ExecuteComplete, CheckComplete
  <1>2. CASE InsertSuccess(p) \/ InsertWait(p) \/ InsertFailure(p) \/ InsertDecision(p)
    BY <1>2, InsertSuccessComplete, InsertWaitComplete, InsertFailureComplete, InsertDecisionComplete
  <1>3. CASE Seed(p) \/ Child(p) \/ SeedBranch(p)
    BY <1>3, SeedComplete, ChildComplete, SeedBranchComplete
  <1>4. CASE Read(p) \/ Write(p) \/ Back(p) \/ Limits(p)
    BY <1>4, ReadComplete, WriteComplete, BackComplete, LimitsComplete
  <1> QED BY <1>1, <1>2, <1>3, <1>4 DEF Step

\* An execution begins with pending rows of its start nodes, so no child has a ready parent.
LEMMA StartComplete ==
  ASSUME ExecutionInv, OnceInv, SuccessInv, NEW p \in Processes, NEW e \in Executions, Start(p, e), UNCHANGED snapshot
  PROVE  SuccessInv'
PROOF
  <1>1. /\ proc[p].pc = "idle" /\ status[e] = "absent" /\ Overlap(p, e) /\ UNCHANGED faulted
    BY DEF Start, At, Unhurt
  <1>2. \A n \in NodeIds : node[e][n] = NoRow BY <1>1 DEF SuccessInv
  <1>3. PICK w : w = WithRow(NoRow, "pending", 1, FALSE) OBVIOUS
  <1>4. NoRow \in NodeRecords /\ NoRow.latest = "none" /\ ~NoRow.ready /\ ~NoRow.waited
    BY DEF NoRow, NodeRecords, Latest
  <1>5. "pending" \in Latest \ {"none"} BY DEF Latest
  <1>6. w.latest = "pending"
    <2>1. PICK b : b = NoRow OBVIOUS
    <2>2. b \in NodeRecords BY <1>4, <2>1
    <2>3. 1 \in Nat /\ FALSE \in BOOLEAN OBVIOUS
    <2>4. WithRow(b, "pending", 1, FALSE).latest = "pending" BY <1>5, <2>2, <2>3, WithRowFacts
    <2> QED BY <1>3, <2>1, <2>4
  <1>7. ~w.ready /\ ~w.waited
    <2>1. (w.waited <=> NoRow.waited \/ FALSE) /\ (w.ready <=> NoRow.ready \/ "pending" \in Ready)
      BY <1>3, <1>4, <1>5, RowFields
    <2> QED BY <1>4, <2>1 DEF Ready
  <1>8. \A n \in NodeIds : node'[e][n] = NoRow \/ node'[e][n] = w
    BY <1>2, <1>3, TypeFacts DEF Start, ExecutionInv, NodeType
  <1>9. \A n \in NodeIds : ~node'[e][n].ready /\ ~node'[e][n].waited /\ node'[e][n].latest \in {"none", "pending"}
    BY <1>4, <1>6, <1>7, <1>8
  <1>10. Forms(e)' BY <1>9 DEF Forms
  <1>11. Finished(e)'
    <2>1. \A c \in Nodes : Parents(e, c)' \subseteq NodeIds BY DEF Parents, NodeIds
    <2> QED BY <1>9, <2>1 DEF Finished, Missing, AllParentsReady
  <1>12. /\ status'[e] \in {"running", "queued"}
         /\ \A x \in Executions \ {e} : status'[x] = status[x] /\ node'[x] = node[x]
    BY DEF Start, ExecutionInv, TypeOK
  <1>13. Covered(e)' BY <1>11, <1>12 DEF Covered, Finished
  <1>14. PICK i : i = Idle OBVIOUS
  <1>15. i \in ProcRecords /\ i.pc = "idle" /\ i.kind = "none" /\ i.event = "none"
    BY <1>14, IdleFits, TypeFacts DEF ExecutionInv, Idle
  <1>16. PICK r : r = [i EXCEPT !.pc = "look", !.kind = "run", !.exec = e] OBVIOUS
  <1>17. r \in ProcRecords /\ r.pc = "look" /\ r.exec = e /\ r.kind = "run" /\ r.event = "none"
    BY <1>15, <1>16, Names DEF ProcRecords
  <1>18. Go(p, i) \/ Go(p, r)
    <2>1. \E auto \in BOOLEAN :
            Go(p, IF auto THEN [Idle EXCEPT !.pc = "look", !.kind = "run", !.exec = e] ELSE Idle)
      BY DEF Start
    <2> QED BY <1>14, <1>16, <2>1
  <1>19. ASSUME NEW x \in {i, r}, Go(p, x) PROVE SuccessInv'
    <2>1. /\ x \in ProcRecords /\ (x.kind # "none" => x.exec = e) /\ x.event # "complete"
          /\ x.pc \in {"idle", "look"}
      BY <1>15, <1>17
    <2>2. Asks(x) /\ Unskipped(x, e)' BY <2>1 DEF Asks, Unskipped
    <2>3. RequestStep(p, e, x) BY <1>1, <1>10, <1>12, <1>13, <1>19, <2>1, <2>2 DEF RequestStep
    <2> QED BY <2>3, RequestComplete
  <1> QED BY <1>18, <1>19

\* Requests about an execution that exists change neither statuses nor rows.
LEMMA AskedComplete ==
  ASSUME ExecutionInv, OnceInv, SuccessInv, NEW p \in Processes, NEW e \in Executions, Asked(p, e),
         NEW r \in ProcRecords, Go(p, r), r.exec = e, Asks(r), r.event # "complete",
         UNCHANGED <<snapshot, status, node, faulted>>,
         Overlap(p, e) \/ (r.kind \notin Mutators /\ UNCHANGED overlapped),
         r.kind \in Mutators => Unskipped(r, e) /\ status[e] = "paused"
  PROVE  SuccessInv'
PROOF
  <1>1. proc[p].pc = "idle" /\ status[e] # "absent" BY DEF Asked, At
  <1>2. Unskipped(r, e)' <=> Unskipped(r, e) BY DEF Unskipped
  <1>3. RequestStep(p, e, r) BY <1>1, <1>2 DEF RequestStep
  <1> QED BY <1>3, RequestComplete

LEMMA AskStatusComplete ==
  ASSUME ExecutionInv, OnceInv, SuccessInv, NEW p \in Processes, NEW e \in Executions,
         NEW event \in {"pause", "cancel"}, AskStatus(p, e, event), UNCHANGED snapshot
  PROVE  SuccessInv'
PROOF
  <1>1. Asked(p, e) /\ UNCHANGED <<status, node, faulted, overlapped>> BY DEF AskStatus, Unhurt
  <1>2. PICK i : i = Idle OBVIOUS
  <1>3. i \in ProcRecords BY <1>2, IdleFits, TypeFacts DEF ExecutionInv
  <1>4. PICK r : r = [i EXCEPT !.pc = "read", !.kind = event, !.exec = e, !.event = event, !.then = "end"]
    OBVIOUS
  <1>5. event \in Kinds /\ event \in Lifecycle!Events BY Names, EventsAre
  <1>6. r \in ProcRecords /\ r.pc = "read" /\ r.exec = e /\ r.event = event /\ r.kind = event
    BY <1>3, <1>4, <1>5, Names DEF ProcRecords
  <1>7. Asks(r) /\ r.event # "complete" /\ r.kind \notin Mutators BY <1>6 DEF Asks, Mutators
  <1>8. Go(p, r) BY <1>2, <1>4 DEF AskStatus
  <1> QED BY <1>1, <1>6, <1>7, <1>8, AskedComplete

LEMMA ResumeComplete ==
  ASSUME ExecutionInv, OnceInv, SuccessInv, NEW p \in Processes, NEW e \in Executions, Resume(p, e), UNCHANGED snapshot
  PROVE  SuccessInv'
PROOF
  <1>1. Asked(p, e) /\ UNCHANGED <<status, node, faulted>> /\ Overlap(p, e) /\ status[e] = "paused"
    BY DEF Resume, Unhurt
  <1>2. PICK i : i = Idle OBVIOUS
  <1>3. i \in ProcRecords BY <1>2, IdleFits, TypeFacts DEF ExecutionInv
  <1>4. PICK r : r = [i EXCEPT !.pc = "read", !.kind = "resume", !.exec = e, !.event = "resume", !.then = "look"]
    OBVIOUS
  <1>5. "resume" \in Kinds /\ "resume" \in Lifecycle!Events BY Names, EventsAre
  <1>6. r \in ProcRecords /\ r.pc = "read" /\ r.exec = e /\ r.kind = "resume" /\ r.event = "resume"
    BY <1>3, <1>4, <1>5, Names DEF ProcRecords
  <1>7. Asks(r) /\ Unskipped(r, e) BY <1>6 DEF Asks, Unskipped
  <1>8. Go(p, r) BY <1>2, <1>4 DEF Resume
  <1> QED BY <1>1, <1>6, <1>7, <1>8, AskedComplete

\* Forms are never skipped, so an answer cannot undo a skip.
LEMMA SubmitComplete ==
  ASSUME ExecutionInv, OnceInv, SuccessInv, NEW p \in Processes, NEW e \in Executions, NEW n \in Nodes,
         Submit(p, e, n), UNCHANGED snapshot
  PROVE  SuccessInv'
PROOF
  <1>1. /\ Asked(p, e) /\ UNCHANGED <<status, node, faulted>> /\ Overlap(p, e) /\ status[e] = "paused"
        /\ node[e][n].waited
    BY DEF Submit, Unhurt
  <1>2. PICK i : i = Idle OBVIOUS
  <1>3. PICK a : a = node[e][n].attempt OBVIOUS
  <1>4. i \in ProcRecords /\ i.event = "none" BY <1>2, IdleFits, TypeFacts DEF ExecutionInv, Idle
  <1>5. n \in NodeIds BY DEF NodeIds
  <1>6. a \in Nat BY <1>3, <1>5, AttemptFits
  <1>7. PICK r : r = [i EXCEPT !.pc = "check", !.kind = "resume", !.exec = e, !.node = n,
                        !.attempt = a, !.outcome = "succeeded"]
    OBVIOUS
  <1>8. /\ r \in ProcRecords /\ r.pc = "check" /\ r.exec = e /\ r.kind = "resume" /\ r.outcome = "succeeded"
        /\ r.event = "none" /\ r.node = n
    BY <1>4, <1>5, <1>6, <1>7, Names DEF ProcRecords
  <1>9. Asks(r) BY <1>8 DEF Asks
  <1>10. Unskipped(r, e) BY <1>1, <1>5, <1>8 DEF Unskipped, SuccessInv, Forms
  <1>11. Go(p, r) BY <1>2, <1>3, <1>7 DEF Submit
  <1>12. r.event # "complete" /\ r.exec = e BY <1>8
  <1> QED BY <1>1, <1>8, <1>9, <1>10, <1>11, <1>12, AskedComplete

\* A decision is about a failure, and forms do not fail.
LEMMA DecideComplete ==
  ASSUME ExecutionInv, OnceInv, SuccessInv, NEW p \in Processes, NEW e \in Executions, NEW n \in NodeIds,
         NEW action \in {"retry", "continue", "fail", "branch"},
         Decide(p, e, n, action), UNCHANGED snapshot
  PROVE  SuccessInv'
PROOF
  <1>1. /\ Asked(p, e) /\ Overlap(p, e) /\ node[e][n].latest = "failed" /\ status[e] = "paused"
        /\ Unhurt /\ UNCHANGED <<status, rows, node, wins>>
    BY Zenon DEF Decide
  <1>2. UNCHANGED faulted BY <1>1 DEF Unhurt
  <1>3. n \notin snapshot[e].forms BY <1>1 DEF SuccessInv, Forms
  <1>4. PICK i : i = Idle OBVIOUS
  <1>5. PICK a : a = node[e][n].attempt OBVIOUS
  <1>6. i \in ProcRecords /\ i.outcome = "none" BY <1>4, IdleFits, TypeFacts DEF ExecutionInv, Idle
  <1>7. a \in Nat BY <1>5, AttemptFits
  <1>8. PICK base : base = [i EXCEPT !.kind = action, !.exec = e, !.node = n, !.attempt = a,
                              !.event = "resume", !.then = "look"]
    OBVIOUS
  <1>9. action \in Kinds /\ "resume" \in Lifecycle!Events /\ "fail" \in Lifecycle!Events
    BY Names, EventsAre
  <1>10. /\ base \in ProcRecords /\ base.exec = e /\ base.node = n /\ base.kind = action
         /\ base.event = "resume" /\ base.outcome = "none"
    BY <1>6, <1>7, <1>8, <1>9 DEF ProcRecords
  <1>11. base = [Idle EXCEPT !.kind = action, !.exec = e, !.node = n, !.attempt = node[e][n].attempt,
                  !.event = "resume", !.then = "look"]
    BY <1>4, <1>5, <1>8
  <1>12. \/ action = "fail" /\ Go(p, [base EXCEPT !.pc = "read", !.event = "fail", !.then = "end"])
         \/ action = "retry" /\ Go(p, [base EXCEPT !.pc = "insert"])
         \/ action = "continue" /\ Go(p, [base EXCEPT !.pc = "insert", !.then = "seed"])
         \/ /\ action = "branch"
            /\ \E c \in Nodes : Go(p, [base EXCEPT !.pc = "branch", !.kids = IF Exists(e, c) THEN {} ELSE {c}])
    BY <1>11 DEF Decide
  <1>13. ASSUME NEW r \in ProcRecords, Go(p, r), r.exec = e, r.node = n, r.event \in {"resume", "fail"},
                r.outcome = "none"
         PROVE  SuccessInv'
    <2>1. Asks(r) BY <1>3, <1>13 DEF Asks
    <2>2. Unskipped(r, e) BY <1>1, <1>13 DEF Unskipped
    <2>3. r.event # "complete" BY <1>13
    <2> QED BY <1>1, <1>2, <1>13, <2>1, <2>2, <2>3, AskedComplete
  <1>14. CASE action = "fail" /\ Go(p, [base EXCEPT !.pc = "read", !.event = "fail", !.then = "end"])
    <2>1. PICK r : r = [base EXCEPT !.pc = "read", !.event = "fail", !.then = "end"] OBVIOUS
    <2>2. r \in ProcRecords /\ r.exec = e /\ r.node = n /\ r.event = "fail" /\ r.outcome = "none"
      BY <1>9, <1>10, <2>1, Names DEF ProcRecords
    <2> QED BY <1>13, <1>14, <2>1, <2>2
  <1>15. ASSUME NEW then \in {"look", "seed"}, Go(p, [base EXCEPT !.pc = "insert", !.then = then])
         PROVE  SuccessInv'
    <2>1. PICK r : r = [base EXCEPT !.pc = "insert", !.then = then] OBVIOUS
    <2>2. r \in ProcRecords /\ r.exec = e /\ r.node = n /\ r.event = "resume" /\ r.outcome = "none"
      BY <1>10, <2>1, Names DEF ProcRecords
    <2> QED BY <1>13, <1>15, <2>1, <2>2
  <1>16. CASE action = "retry" /\ Go(p, [base EXCEPT !.pc = "insert"])
    <2>1. PICK r : r = [base EXCEPT !.pc = "insert"] OBVIOUS
    <2>2. r \in ProcRecords /\ r.exec = e /\ r.node = n /\ r.event = "resume" /\ r.outcome = "none"
      BY <1>10, <2>1, Names DEF ProcRecords
    <2> QED BY <1>13, <1>16, <2>1, <2>2
  <1>17. ASSUME NEW kids \in SUBSET Nodes, Go(p, [base EXCEPT !.pc = "branch", !.kids = kids])
         PROVE  SuccessInv'
    <2>1. PICK r : r = [base EXCEPT !.pc = "branch", !.kids = kids] OBVIOUS
    <2>2. r \in ProcRecords /\ r.exec = e /\ r.node = n /\ r.event = "resume" /\ r.outcome = "none"
      BY <1>10, <2>1, Names DEF ProcRecords
    <2> QED BY <1>13, <1>17, <2>1, <2>2
  <1>18. CASE /\ action = "branch"
              /\ \E c \in Nodes : Go(p, [base EXCEPT !.pc = "branch", !.kids = IF Exists(e, c) THEN {} ELSE {c}])
    <2>1. \A c \in Nodes : (IF Exists(e, c) THEN {} ELSE {c}) \in SUBSET Nodes OBVIOUS
    <2> QED BY <1>17, <1>18, <2>1
  <1> QED BY <1>12, <1>14, <1>15, <1>16, <1>18

LEMMA RequestsComplete ==
  ASSUME ExecutionInv, OnceInv, SuccessInv, NEW p \in Processes, NEW e \in Executions, Request(p, e), UNCHANGED snapshot
  PROVE  SuccessInv'
PROOF BY StartComplete, AskStatusComplete, ResumeComplete, SubmitComplete, DecideComplete DEF Request

LEMMA NextComplete ==
  ASSUME ExecutionInv, OnceInv, SuccessInv, [Next]_vars
  PROVE  SuccessInv'
PROOF
  <1>1. CASE UNCHANGED vars
    <2>1. UNCHANGED <<snapshot, proc, overlapped, faulted, status, node>> BY <1>1 DEF vars
    <2> QED BY <2>1, OthersComplete
  <1>2. ASSUME NEW e \in Executions, Promote(e), UNCHANGED snapshot PROVE SuccessInv'
    <2>1. UNCHANGED <<snapshot, proc, overlapped, faulted, node>> BY <1>2 DEF Promote
    <2>2. \A x \in Executions : /\ status'[x] = "succeeded" => status[x] = "succeeded"
                                /\ status'[x] = "absent" => status[x] = "absent"
      BY <1>2 DEF Promote, ExecutionInv, TypeOK
    <2> QED BY <2>1, <2>2, OthersComplete
  <1>3. ASSUME NEW e \in Executions, NEW n \in NodeIds, RetryDue(e, n), UNCHANGED snapshot PROVE SuccessInv'
    <2>1. UNCHANGED <<snapshot, proc, overlapped, faulted, status>> BY <1>3 DEF RetryDue
    <2>2. node \in NodeType /\ node[e][n] \in NodeRecords BY TypeFacts DEF ExecutionInv
    <2>3. PICK k : k = [node[e][n] EXCEPT !.latest = "due"] OBVIOUS
    <2>4. k.latest = "due" /\ k.ready = node[e][n].ready /\ k.waited = node[e][n].waited
      BY <2>2, <2>3 DEF NodeRecords
    <2>5. node' = [node EXCEPT ![e][n] = k] BY <1>3, <2>3 DEF RetryDue
    <2>6. \A x \in Executions : \A m \in NodeIds :
            \/ node'[x][m] = node[x][m]
            \/ /\ node[x][m].latest = "retrying" /\ node'[x][m].latest = "due"
               /\ node'[x][m].ready = node[x][m].ready /\ node'[x][m].waited = node[x][m].waited
      BY <1>3, <2>2, <2>4, <2>5 DEF NodeType, RetryDue
    <2> QED BY <2>1, <2>6, OthersComplete
  <1>4. ASSUME NEW p \in Processes, StatementFails(p) \/ Crash(p), UNCHANGED snapshot PROVE SuccessInv'
    BY <1>4, FaultComplete
  <1> QED BY <1>1, <1>2, <1>3, <1>4, StepComplete, RequestsComplete DEF Next

LEMMA InitComplete == Init => SuccessInv
PROOF
  <1> SUFFICES ASSUME Init PROVE SuccessInv OBVIOUS
  <1>1. /\ \A p \in Processes : proc[p] = Idle
        /\ \A e \in Executions : status[e] = "absent"
        /\ \A e \in Executions, n \in NodeIds : node[e][n] = NoRow
    BY DEF Init
  <1>2. NoRow.latest = "none" /\ ~NoRow.ready /\ ~NoRow.waited BY DEF NoRow
  <1>3. \A e \in Executions : Forms(e) BY <1>1, <1>2 DEF Forms
  <1>4. \A e \in Executions : Finished(e)
    <2>1. \A e \in Executions, c \in Nodes : Parents(e, c) \subseteq NodeIds BY DEF Parents, NodeIds
    <2> QED BY <1>1, <1>2, <2>1 DEF Finished, Missing, AllParentsReady
  <1>5. \A p \in Processes : Asks(proc[p]) /\ proc[p].event # "complete" BY <1>1, IdleAsks
  <1>6. \A p \in Processes, e \in Executions : ~Works(p, e) BY <1>1, IdleAsks DEF Works, Mutating
  <1> QED BY <1>1, <1>3, <1>4, <1>5, <1>6 DEF SuccessInv, Finished

\* Nothing is missing when a run decides to complete an execution, nor from then on: who
\* has recorded a ready node still owes its children (seedReadyDownstreamNodes), unless a
\* fault or an overlapping request took them away, or a skipped node completes the
\* execution only in part.
THEOREM SuccessInvariant == Spec => []SuccessInv
PROOF
  <1>1. Init => SuccessInv BY InitComplete
  <1>2. ExecutionInv /\ OnceInv /\ SuccessInv /\ [Next]_vars => SuccessInv' BY NextComplete
  <1> QED BY <1>1, <1>2, ExecutionInvariant, OnceInvariant, PTL DEF Spec

\* completedWorkflowExecutionStatus calls an execution complete only when no child of
\* ready parents was left without a row, for any graph, any number of servers and any
\* interleaving of requests; only faults and overlapping requests can break it.
THEOREM SuccessComplete == Spec => []SuccessIsComplete
PROOF
  <1>1. SuccessInv => SuccessIsComplete
    BY DEF SuccessInv, SuccessIsComplete, Finished, Missing
  <1> QED BY <1>1, SuccessInvariant, PTL
=============================================================================
