-------------------------- MODULE AgentPlan_proofs --------------------------
(***************************************************************************)
(* What AgentPlan keeps to, for any requests, tools, plans, policies and   *)
(* bounds: the type of the state; that a tool which needs approval runs    *)
(* only where a user approved it; that a completed run has no open step.   *)
(* The plan and the order of its steps follow in AgentPlanEdits_proofs.    *)
(*                                                                         *)
(* They rest on what each kind of request may have left to write (Shape),  *)
(* on requests which did not mix holding different steps (Apart), on the   *)
(* row a request has read being the one in the table (InHand), and on      *)
(* approved rows naming the approved tool (Approved).                      *)
(***************************************************************************)
EXTENDS AgentPlan, FiniteSetTheorems, SequenceTheorems, TLAPS
-----------------------------------------------------------------------------
(* The statements of a request and what each kind of request may hold       *)

\* No two requests mixed that the code does not keep apart.
Clean == "mixed" \notin wrong

Editors == {"start", "edit"}
Workers == Work \cup {"continue"}

\* A statement that sets the field f, puts the step s at an index, makes it leave one.
Sets(w, f) == w.kind = "set" /\ f \in w.fields
Puts(w, s) == w.step = s /\ (w.kind = "create" \/ Sets(w, "index"))
Leaves(w, s) == w.step = s /\ (w.kind = "delete" \/ Sets(w, "index"))

\* It is of a step unless it is of the run, and puts no step at index 0.
WellFormed(w) ==
  /\ w.kind # "run" => w.step \in Steps
  /\ w.kind = "create" \/ Sets(w, "index") => w.row.index > 0
  /\ w.kind = "create" => w.row.status = "pending"
  /\ w.kind = "run" => w.run # "none"

\* A worker's statements are of the run, or of the status and the approval of its own step.
WorksOn(w, s) == w.kind = "run" \/ (w.kind = "set" /\ w.step = s /\ w.fields \subseteq {"status", "approval"})
DoneBy(w) == Sets(w, "status") /\ w.row.status \in {"completed", "skipped"}
Completes(w) == w.kind = "run" /\ w.run = "completed"

\* An edit ends no step and does not complete the run.
EditorShape(r) ==
  /\ r.pc \in {"write", "store"} /\ r.then = "idle"
  /\ \A k \in DOMAIN r.todo : ~DoneBy(r.todo[k]) /\ ~Completes(r.todo[k])

\* A worker sets its step at most once, ends it only to look whether the run is done, and
\* completes the run with nothing left to write.
WorkerShape(r) ==
  /\ r.pc # "pick" => r.step \in Steps
  /\ r.pc \in {"work"} => r.op \in {"execute", "continue"}
  /\ r.pc = "pick" => r.op = "continue"
  /\ r.pc = "execute" => r.op \in {"retry", "continue"}
  /\ \A k \in DOMAIN r.todo :
       /\ WorksOn(r.todo[k], r.step)
       /\ DoneBy(r.todo[k]) => Len(r.todo) = 1 /\ r.then = "settle"
       /\ Completes(r.todo[k]) => Len(r.todo) = 1
       /\ \A j \in DOMAIN r.todo : r.todo[j].kind = "set" /\ r.todo[k].kind = "set" => j = k
  /\ r.pc \in {"write", "store"} /\ r.then = "work" =>
       r.op \in {"execute", "continue"} /\ r.todo = <<SetStatus(r.step, "running")>>
  /\ r.pc \in {"write", "store"} /\ r.then = "execute" => r.op = "retry"
  /\ r.pc \in {"write", "store"} /\ r.then = "pick" => r.op = "continue"

ShapeOf(r) ==
  /\ \A k \in DOMAIN r.todo : WellFormed(r.todo[k])
  /\ r.op = "none" <=> r.pc = "idle"
  /\ r.pc = "idle" => r = Idle
  /\ r.pc \in {"write", "store"} <=> r.todo # <<>>
  /\ r.pc = "store" => r.todo[1].kind = "set"
  /\ r.op \in Editors => EditorShape(r)
  /\ r.op \in Workers => WorkerShape(r)
Shape == \A p \in Requests : ShapeOf(req[p])

-----------------------------------------------------------------------------
(* What the rows and the requests keep to                                   *)

\* The unique index of agent_plan_steps.
Unique == \A s, t \in Live : Index(s) = Index(t) => s = t

\* An id that was not named yet is nowhere.
Fresh == /\ \A s \in Live : s <= made
         /\ \A k \in DOMAIN plan : plan[k] <= made
         /\ \A p \in Requests : req[p].step <= made /\ \A k \in DOMAIN req[p].todo : req[p].todo[k].step <= made
         /\ run = "none" => Busy = {} /\ made = 0 /\ plan = <<>>

\* A continued run between two steps: it holds nothing.
Light(p) == req[p].op = "continue" /\ req[p].pc \in {"pick", "execute"}

\* Requests that did not mix: two work on different steps, or one is between two steps.
Apart == Clean =>
  \A p, q \in Busy : p # q =>
    \/ req[p].op \in Work /\ req[q].op \in Work /\ req[p].step # req[q].step
    \/ Light(p) \/ Light(q)

\* The row a request has read is still the one in the table.
InHand == Clean =>
  \A p \in Requests : At(p, "store") =>
    Next1(p).step \in Live /\ req[p].row = Patched(steps[Next1(p).step], Next1(p))

\* The step of a worker that is yet to write it, or runs it, is there and not done.
SetPending(p) == \E k \in DOMAIN req[p].todo : req[p].todo[k].kind = "set"
AtWork == Clean =>
  \A p \in Requests : req[p].op \in Workers /\ (SetPending(p) \/ At(p, "work")) =>
    req[p].step \in Live /\ ~Done(req[p].step)

-----------------------------------------------------------------------------
(* Approvals                                                                *)

\* A row that says "approved" names the tool the user approved.
ApprovedRow(row) == "approved" \in {row.status, row.approval}
Consented(s, row) == ApprovedRow(row) => consent[s] = row.tool

\* A statement that approves nothing and leaves the tool alone.
Harmless(w) ==
  /\ "tool" \notin w.fields
  /\ "status" \in w.fields => w.row.status # "approved"
  /\ "approval" \in w.fields => w.row.approval # "approved"

\* Any other one is the last of its request, with nothing but the run's status before it, and
\* leaves a row that names the approved tool.
Approving(p) == \A k \in DOMAIN req[p].todo :
  LET w == req[p].todo[k] IN
  w.kind = "set" =>
    \/ Harmless(w)
    \/ /\ k = Len(req[p].todo) /\ (\A j \in 1..(k - 1) : req[p].todo[j].kind = "run")
       /\ Consented(w.step, Patched(steps[w.step], w))
MayRun(s, tool) == tool \in Risky => consent[s] = tool
Approved == Clean =>
  /\ \A s \in Steps : Consented(s, steps[s])
  /\ \A p \in Requests : Approving(p)
  /\ \A p \in Requests : req[p].pc \in {"write", "store"} /\ req[p].then = "work" => MayRun(req[p].step, steps[req[p].step].tool)
  /\ \A p \in Requests : At(p, "work") => MayRun(req[p].step, req[p].row.tool)
  /\ "unapproved" \notin wrong

\* While the run is completed, or about to be, every step is done and nobody edits the plan.
Finishing == run = "completed" \/ \E p \in Requests : \E k \in DOMAIN req[p].todo : Completes(req[p].todo[k])
Finished == Clean /\ Finishing => AllDone /\ \A p \in Requests : req[p].op \notin Editors

-----------------------------------------------------------------------------
(* Steps in the order of their indices                                      *)

\* Every rank is taken, by the number of elements below.
Ranked(S, f) ==
  /\ Cardinality(S) \in Nat
  /\ \A s \in S : Cardinality({t \in S : f[t] < f[s]}) \in 0..(Cardinality(S) - 1)
  /\ \A s, t \in S : f[s] < f[t] => Cardinality({u \in S : f[u] < f[s]}) < Cardinality({u \in S : f[u] < f[t]})
  /\ \A k \in 0..(Cardinality(S) - 1) : \E s \in S : Cardinality({t \in S : f[t] < f[s]}) = k

\* In a finite set whose elements have different numbers, each rank is taken by one element.
LEMMA RanksTaken ==
  ASSUME NEW S, IsFiniteSet(S), NEW f \in [S -> Nat], \A s, t \in S : f[s] = f[t] => s = t
  PROVE  Ranked(S, f)
PROOF
  <1> DEFINE Below(s) == {t \in S : f[t] < f[s]}
             n == Cardinality(S)
             rank == [s \in S |-> Cardinality(Below(s))]
  <1>1. n \in Nat BY FS_CardinalityType
  <1>2. \A s \in S : Below(s) \in SUBSET S /\ s \notin Below(s) OBVIOUS
  <1>3. \A s \in S : IsFiniteSet(Below(s)) /\ Cardinality(Below(s)) \in Nat
    <2> TAKE s \in S
    <2> HIDE DEF Below
    <2>1. Below(s) \in SUBSET S BY <1>2
    <2>2. IsFiniteSet(Below(s)) BY <2>1, FS_Subset
    <2> QED BY <2>2, FS_CardinalityType
  <1>4. \A s \in S : Cardinality(Below(s)) \in 0..(n - 1)
    <2> TAKE s \in S
    <2> HIDE DEF Below
    <2>1. Below(s) \in SUBSET S /\ s \notin Below(s) BY <1>2
    <2>2. Cardinality(Below(s)) <= n /\ (n = Cardinality(Below(s)) => S = Below(s)) BY <2>1, FS_Subset
    <2>3. Cardinality(Below(s)) # n BY <2>1, <2>2
    <2>4. Cardinality(Below(s)) \in Nat BY <1>3
    <2> HIDE DEF n
    <2> QED BY <1>1, <2>2, <2>3, <2>4
  <1>5. ASSUME NEW s \in S, NEW t \in S, f[s] < f[t] PROVE Cardinality(Below(s)) < Cardinality(Below(t))
    <2>1. Below(s) \in SUBSET Below(t)
      <3>1. ASSUME NEW u \in S, f[u] < f[s] PROVE f[u] < f[t] BY <1>5, <3>1
      <3> QED BY <3>1
    <2>2. s \in Below(t) BY <1>5
    <2>3. s \notin Below(s) BY <1>2
    <2> HIDE DEF Below
    <2>4. /\ Cardinality(Below(s)) <= Cardinality(Below(t))
          /\ Cardinality(Below(t)) = Cardinality(Below(s)) => Below(t) = Below(s)
      BY <2>1, <1>3, FS_Subset
    <2> QED BY <1>3, <2>2, <2>3, <2>4
  <1>6. rank \in Injection(S, 0..(n - 1))
    <2>1. rank \in [S -> 0..(n - 1)] BY <1>4
    <2>2. ASSUME NEW a \in S, NEW b \in S, rank[a] = rank[b] PROVE a = b
      <3>1. Cardinality(Below(a)) = Cardinality(Below(b)) BY <2>2
      <3>2. Cardinality(Below(a)) \in Nat /\ Cardinality(Below(b)) \in Nat BY <1>3
      <3> HIDE DEF Below
      <3>3. ~(f[a] < f[b]) BY <1>5, <3>1, <3>2
      <3>4. ~(f[b] < f[a]) BY <1>5, <3>1, <3>2
      <3>5. f[a] \in Nat /\ f[b] \in Nat OBVIOUS
      <3>6. f[a] = f[b] BY <3>3, <3>4, <3>5
      <3> QED BY <3>6
    <2> HIDE DEF rank, Below, n
    <2> QED BY <2>1, <2>2 DEF Injection, IsInjective
  <1>7. rank \in Surjection(S, 0..(n - 1))
    <2> HIDE DEF rank, n
    <2>1. IsFiniteSet(0..(n - 1)) /\ Cardinality(0..(n - 1)) = n
      <3>1. n - 1 \in Int BY <1>1
      <3>2. IsFiniteSet(0..(n - 1)) /\ Cardinality(0..(n - 1)) = IF 0 > n - 1 THEN 0 ELSE (n - 1) - 0 + 1
        BY <3>1, FS_Interval
      <3>3. (IF 0 > n - 1 THEN 0 ELSE (n - 1) - 0 + 1) = n BY <1>1
      <3> QED BY <3>2, <3>3
    <2>2. Cardinality(S) = Cardinality(0..(n - 1)) BY <2>1 DEF n
    <2> QED BY <1>6, <2>1, <2>2, FS_Injection
  <1>8. \A k \in 0..(n - 1) : \E s \in S : Cardinality(Below(s)) = k
    <2> TAKE k \in 0..(n - 1)
    <2>1. PICK s \in S : rank[s] = k BY <1>7 DEF Surjection
    <2> QED BY <2>1
  <1> QED BY <1>1, <1>4, <1>5, <1>8 DEF Ranked

LEMMA StepsFinite == IsFiniteSet(Steps) /\ Steps \subseteq Nat /\ MaxSteps \in Nat
PROOF
  <1>1. MaxSteps \in Nat /\ 1 \in Int /\ MaxSteps \in Int BY BoundsAssumption
  <1> QED BY <1>1, FS_Interval DEF Steps

LEMMA RowType ==
  ASSUME TypeOK, NEW s \in Steps
  PROVE  /\ steps[s] \in Row /\ Index(s) = steps[s].index /\ Index(s) \in Nat
         /\ steps[s].deps \subseteq Nat \ {0} /\ steps[s].tool \in Tools \cup {NoTool}
         /\ steps[s].status \in Statuses /\ steps[s].approval \in Approvals
PROOF BY DEF TypeOK, Row, Index

LEMMA LiveSteps == Live \subseteq Steps /\ \A s \in Steps : s \in Live <=> Index(s) > 0
PROOF BY DEF Live, Index

\* A list of the elements of S by index, without repetitions.
Sorted(list, S) ==
  /\ list \in Seq(S)
  /\ \A i, j \in 1..Len(list) : i < j => Index(list[i]) < Index(list[j])
  /\ \A s \in S : \E k \in 1..Len(list) : list[k] = s

LEMMA InOrderSorted ==
  ASSUME TypeOK, Unique, NEW S \in SUBSET Live
  PROVE  Sorted(InOrder(S), S) /\ Cardinality(S) \in Nat /\ Len(InOrder(S)) = Cardinality(S)
PROOF
  <1> DEFINE f == [s \in S |-> Index(s)]
             Before_(s) == {t \in S : Index(t) < Index(s)}
             n == Cardinality(S)
             list == InOrder(S)
  <1>1. S \subseteq Steps /\ IsFiniteSet(S)
    <2>1. S \in SUBSET Steps BY LiveSteps
    <2> QED BY <2>1, StepsFinite, FS_Subset
  <1>2. f \in [S -> Nat] BY <1>1, RowType
  <1>3. \A s, t \in S : f[s] = f[t] => s = t BY DEF Unique
  <1>4. /\ n \in Nat
        /\ \A s \in S : Cardinality({t \in S : f[t] < f[s]}) \in 0..(n - 1)
        /\ \A s, t \in S : f[s] < f[t] => Cardinality({u \in S : f[u] < f[s]}) < Cardinality({u \in S : f[u] < f[t]})
        /\ \A k \in 0..(n - 1) : \E s \in S : Cardinality({t \in S : f[t] < f[s]}) = k
    <2> HIDE DEF f
    <2>1. Ranked(S, f) BY <1>1, <1>2, <1>3, RanksTaken
    <2> QED BY <2>1 DEF Ranked
  <1>5. \A s \in S : Before_(s) = {t \in S : f[t] < f[s]} OBVIOUS
  <1>6. \A s \in S : Cardinality(Before_(s)) \in 0..(n - 1)
    <2> HIDE DEF n
    <2> QED BY <1>4, <1>5
  <1>7. ASSUME NEW s \in S, NEW t \in S, Index(s) < Index(t) PROVE Cardinality(Before_(s)) < Cardinality(Before_(t))
    <2>1. f[s] < f[t] BY <1>7
    <2> HIDE DEF n
    <2> QED BY <1>4, <1>5, <2>1
  <1>8. \A k \in 0..(n - 1) : \E s \in S : Cardinality(Before_(s)) = k
    <2> TAKE k \in 0..(n - 1)
    <2>1. PICK s \in S : Cardinality({t \in S : f[t] < f[s]}) = k BY <1>4
    <2> QED BY <2>1, <1>5
  <1> HIDE DEF n
  <1>9. list = [k \in 1..n |-> CHOOSE s \in S : Cardinality(Before_(s)) = k - 1] BY DEF InOrder, n
  <1>10. \A k \in 1..n : list[k] \in S /\ Cardinality(Before_(list[k])) = k - 1
    <2> TAKE k \in 1..n
    <2>1. k - 1 \in 0..(n - 1) BY <1>4
    <2>2. \E s \in S : Cardinality(Before_(s)) = k - 1 BY <1>8, <2>1
    <2>3. list[k] = CHOOSE s \in S : Cardinality(Before_(s)) = k - 1 BY <1>9
    <2> HIDE DEF list, Before_
    <2> QED BY <2>2, <2>3
  <1>11. list \in Seq(S) /\ Len(list) = n
    <2>1. list \in [1..n -> S] BY <1>9, <1>10
    <2> HIDE DEF list
    <2> QED BY <2>1, <1>4, SeqDef
  <1> HIDE DEF list, Before_
  <1>12. ASSUME NEW i \in 1..n, NEW j \in 1..n, i < j PROVE Index(list[i]) < Index(list[j])
    <2>1. /\ list[i] \in S /\ Cardinality(Before_(list[i])) = i - 1
          /\ list[j] \in S /\ Cardinality(Before_(list[j])) = j - 1
      BY <1>10
    <2>2. Index(list[i]) \in Nat /\ Index(list[j]) \in Nat BY <1>1, <2>1, RowType
    <2>3. ~(Index(list[j]) < Index(list[i]))
      <3>1. SUFFICES ASSUME Index(list[j]) < Index(list[i]) PROVE FALSE OBVIOUS
      <3>2. j - 1 < i - 1 BY <1>7, <2>1, <3>1
      <3> QED BY <3>2, <1>12, <1>4
    <2>4. Index(list[j]) # Index(list[i])
      <3>1. SUFFICES ASSUME Index(list[j]) = Index(list[i]) PROVE FALSE OBVIOUS
      <3>2. list[j] = list[i] BY <3>1, <2>1 DEF Unique
      <3>3. i - 1 = j - 1 BY <3>2, <2>1
      <3> QED BY <3>3, <1>12, <1>4
    <2> QED BY <2>2, <2>3, <2>4
  <1>13. ASSUME NEW s \in S PROVE \E k \in 1..n : list[k] = s
    <2>1. Cardinality(Before_(s)) \in 0..(n - 1) BY <1>6
    <2> DEFINE k == Cardinality(Before_(s)) + 1
    <2>2. k \in 1..n /\ k - 1 = Cardinality(Before_(s)) BY <2>1, <1>4
    <2> HIDE DEF k
    <2>3. list[k] \in S /\ Cardinality(Before_(list[k])) = k - 1 BY <1>10, <2>2
    <2>4. Index(list[k]) \in Nat /\ Index(s) \in Nat BY <1>1, <2>3, RowType
    <2>5. ~(Index(list[k]) < Index(s)) BY <1>7, <2>2, <2>3, <2>1
    <2>6. ~(Index(s) < Index(list[k])) BY <1>7, <2>2, <2>3, <2>1
    <2>7. Index(s) = Index(list[k]) BY <2>4, <2>5, <2>6
    <2>8. list[k] = s BY <2>3, <2>7 DEF Unique
    <2> QED BY <2>2, <2>8
  <1>14. Cardinality(S) = n BY DEF n
  <1> QED BY <1>4, <1>11, <1>12, <1>13, <1>14 DEF Sorted, list

\* A list that is sorted is the one InOrder returns.
LEMMA SortedIsInOrder ==
  ASSUME TypeOK, Unique, NEW S \in SUBSET Live, NEW list, Sorted(list, S)
  PROVE  InOrder(S) = list /\ Cardinality(S) = Len(list)
PROOF
  <1> DEFINE n == Len(list)
             Before_(s) == {t \in S : Index(t) < Index(s)}
  <1>1. /\ list \in Seq(S) /\ n \in Nat /\ list \in [1..n -> S]
        /\ \A i, j \in 1..n : i < j => Index(list[i]) < Index(list[j])
        /\ \A s \in S : \E k \in 1..n : list[k] = s
    BY LenProperties DEF Sorted
  <1>2. S \subseteq Steps BY LiveSteps
  <1>3. \A k \in 1..n : Index(list[k]) \in Nat /\ list[k] \in S BY <1>1, <1>2, RowType
  <1> HIDE DEF n
  <1>4. \A i, j \in 1..n : list[i] = list[j] => i = j
    <2> TAKE i, j \in 1..n
    <2>1. i < j => Index(list[i]) < Index(list[j]) BY <1>1
    <2>2. j < i => Index(list[j]) < Index(list[i]) BY <1>1
    <2>3. Index(list[i]) \in Nat /\ Index(list[j]) \in Nat BY <1>3
    <2>4. list[i] = list[j] => ~(i < j) /\ ~(j < i) BY <2>1, <2>2, <2>3
    <2> QED BY <2>4, <1>1
  <1>5. Cardinality(S) = n
    <2>1. list \in Bijection(1..n, S) BY <1>1, <1>4 DEF Bijection, Injection, Surjection, IsInjective
    <2>2. ExistsBijection(1..n, S) BY <2>1 DEF ExistsBijection
    <2> QED BY <2>2, <1>1, FS_CountingElements
  <1>6. ASSUME NEW k \in 1..n PROVE Cardinality(Before_(list[k])) = k - 1
    <2> DEFINE g == [i \in 1..(k - 1) |-> list[i]]
               B == Before_(list[k])
    <2>1. \A i \in 1..(k - 1) : i \in 1..n /\ i < k BY <1>1
    <2>2. g \in [1..(k - 1) -> B] BY <2>1, <1>1, <1>3
    <2>3. \A a, b \in 1..(k - 1) : g[a] = g[b] => a = b BY <2>1, <1>4
    <2>4. \A t \in B : \E i \in 1..(k - 1) : g[i] = t
      <3> TAKE t \in B
      <3>1. PICK i \in 1..n : list[i] = t BY <1>1
      <3>2. Index(list[i]) < Index(list[k]) BY <3>1
      <3>3. ~(k < i) /\ i # k
        <4>1. k < i => Index(list[k]) < Index(list[i]) BY <1>1
        <4>2. Index(list[k]) \in Nat /\ Index(list[i]) \in Nat BY <1>3
        <4> QED BY <4>1, <4>2, <3>2
      <3>4. i \in 1..(k - 1) BY <3>3, <1>1
      <3> QED BY <3>1, <3>4
    <2> HIDE DEF g, B
    <2>5. g \in Bijection(1..(k - 1), B) BY <2>2, <2>3, <2>4 DEF Bijection, Injection, Surjection, IsInjective
    <2>6. ExistsBijection(1..(k - 1), B) BY <2>5 DEF ExistsBijection
    <2>7. k - 1 \in Nat BY <1>1
    <2>8. Cardinality(B) = k - 1 BY <2>6, <2>7, FS_CountingElements
    <2> QED BY <2>8 DEF B
  <1>7. InOrder(S) = [k \in 1..n |-> CHOOSE s \in S : Cardinality(Before_(s)) = k - 1] BY <1>5 DEF InOrder
  <1>8. ASSUME NEW k \in 1..n PROVE (CHOOSE s \in S : Cardinality(Before_(s)) = k - 1) = list[k]
    <2> HIDE DEF Before_
    <2>1. list[k] \in S /\ Cardinality(Before_(list[k])) = k - 1 BY <1>3, <1>6
    <2>2. ASSUME NEW s \in S, Cardinality(Before_(s)) = k - 1 PROVE s = list[k]
      <3>1. PICK j \in 1..n : list[j] = s BY <1>1
      <3>2. Cardinality(Before_(list[j])) = j - 1 BY <1>6
      <3>3. j - 1 = k - 1 BY <3>1, <3>2, <2>2
      <3>4. j = k BY <3>3, <1>1
      <3> QED BY <3>1, <3>4
    <2> QED BY <2>1, <2>2
  <1>9. InOrder(S) = [k \in 1..n |-> list[k]] BY <1>7, <1>8
  <1>10. list = [k \in 1..n |-> list[k]] BY <1>1
  <1> QED BY <1>5, <1>9, <1>10 DEF n

-----------------------------------------------------------------------------
(* Statements                                                               *)

\* The statements that no approval and no end of a step or of the run comes from.
PlainStatements ==
  {w \in StatementType : WellFormed(w) /\ ~DoneBy(w) /\ ~Completes(w) /\ Harmless(w)}

LEMMA ToolTypes == Tools \subseteq Tools \cup {NoTool} /\ NoTool \in Tools \cup {NoTool}
PROOF OBVIOUS

LEMMA NoRowType == NoRow \in Row
PROOF BY DEF NoRow, Row, Statuses, Approvals

LEMMA SeqOf ==
  ASSUME NEW S, NEW n \in Nat, NEW f, f = [k \in 1..n |-> f[k]], \A k \in 1..n : f[k] \in S
  PROVE  f \in Seq(S) /\ Len(f) = n /\ DOMAIN f = 1..n
PROOF
  <1>1. f \in [1..n -> S] OBVIOUS
  <1> QED BY <1>1, SeqDef, LenProperties

LEMMA SetType ==
  ASSUME NEW s \in Steps, NEW fields \in SUBSET {"index", "status", "approval", "deps", "tool"}, NEW row \in Row
  PROVE  Set(s, fields, row) \in StatementType
PROOF BY DEF Set, StatementType, RunStatuses

LEMMA RunType ==
  ASSUME NEW status \in RunStatuses
  PROVE  /\ SetRun(status) \in StatementType
         /\ status # "none" => WellFormed(SetRun(status)) /\ Harmless(SetRun(status))
         /\ ~DoneBy(SetRun(status)) /\ (Completes(SetRun(status)) <=> status = "completed")
         /\ SetRun(status).kind = "run"
PROOF
  <1>1. SetRun(status) \in StatementType BY NoRowType DEF SetRun, StatementType
  <1>2. /\ SetRun(status).kind = "run" /\ SetRun(status).run = status /\ SetRun(status).fields = {}
    BY DEF SetRun
  <1> QED BY <1>1, <1>2 DEF WellFormed, Harmless, DoneBy, Completes, Sets

\* What Move makes.
Moving(w, s, i) ==
  /\ w \in PlainStatements
  /\ w.kind = "set" /\ w.step = s /\ "index" \in w.fields /\ w.row.index = i
  /\ "deps" \notin w.fields /\ "tool" \notin w.fields

LEMMA MoveFacts ==
  ASSUME NEW s \in Steps, NEW i \in Nat \ {0}
  PROVE  Moving(Move(s, i), s, i)
PROOF
  <1> DEFINE fields == {"index"} \cup IF steps[s].approval = "approved" THEN {"status", "approval"} ELSE {}
             row == [NoRow EXCEPT !.index = i]
             w == Set(s, fields, row)
  <1>1. fields \in SUBSET {"index", "status", "approval", "deps", "tool"} OBVIOUS
  <1>2. row \in Row /\ row.index = i /\ row.status = "pending" /\ row.approval = "pending"
    BY DEF NoRow, Row, Statuses, Approvals
  <1>3. "index" \in fields /\ "tool" \notin fields /\ "deps" \notin fields OBVIOUS
  <1> HIDE DEF fields, row
  <1>4. w \in StatementType BY <1>1, <1>2, SetType
  <1>5. w.kind = "set" /\ w.step = s /\ w.fields = fields /\ w.row = row BY DEF Set
  <1> HIDE DEF w
  <1>6. WellFormed(w) /\ ~DoneBy(w) /\ ~Completes(w) /\ Harmless(w)
    BY <1>2, <1>3, <1>5 DEF WellFormed, DoneBy, Completes, Harmless, Sets
  <1>7. w \in PlainStatements BY <1>4, <1>6 DEF PlainStatements
  <1>8. Move(s, i) = w BY DEF Move, w, fields, row
  <1> QED BY <1>2, <1>3, <1>5, <1>7, <1>8 DEF Moving

\* What a rewriting of dependencies makes.
Rewriting(w, s, deps) ==
  /\ w \in PlainStatements
  /\ w.kind = "set" /\ w.step = s /\ w.fields = {"deps"} /\ w.row.deps = deps

LEMMA RewriteFacts ==
  ASSUME NEW s \in Steps, NEW deps \in SUBSET (Nat \ {0})
  PROVE  Rewriting(Set(s, {"deps"}, [NoRow EXCEPT !.deps = deps]), s, deps)
PROOF
  <1> DEFINE row == [NoRow EXCEPT !.deps = deps]
             w == Set(s, {"deps"}, row)
  <1>2. row \in Row /\ row.deps = deps BY DEF NoRow, Row, Statuses, Approvals
  <1> HIDE DEF row
  <1>4. w \in StatementType BY <1>2, SetType
  <1>5. w.kind = "set" /\ w.step = s /\ w.fields = {"deps"} /\ w.row = row BY DEF Set
  <1> HIDE DEF w
  <1>6. WellFormed(w) /\ ~DoneBy(w) /\ ~Completes(w) /\ Harmless(w)
    BY <1>5 DEF WellFormed, DoneBy, Completes, Harmless, Sets
  <1>7. w \in PlainStatements BY <1>4, <1>6 DEF PlainStatements
  <1> QED BY <1>2, <1>5, <1>7 DEF Rewriting, w, row

\* What Insert makes.
Inserting(w, s, i, tool, deps) ==
  /\ w \in PlainStatements
  /\ w.kind = "create" /\ w.step = s /\ w.row.index = i /\ w.row.tool = tool /\ w.row.deps = deps
  /\ w.row.status = "pending"

LEMMA InsertFacts ==
  ASSUME NEW s \in Steps, NEW i \in Nat \ {0}, NEW tool \in Tools, NEW deps \in SUBSET (Nat \ {0})
  PROVE  Inserting(Insert(s, i, tool, deps), s, i, tool, deps)
PROOF
  <1> DEFINE row == [NoRow EXCEPT !.index = i, !.tool = tool, !.deps = deps]
             w == Insert(s, i, tool, deps)
  <1>2. row \in Row /\ row.deps = deps /\ row.index = i /\ row.tool = tool /\ row.status = "pending"
    BY DEF NoRow, Row, Statuses, Approvals
  <1>5. w.kind = "create" /\ w.step = s /\ w.fields = {} /\ w.row = row BY DEF Insert
  <1>4. w \in StatementType
    <2>1. w = [kind |-> "create", step |-> s, fields |-> {}, run |-> "none", row |-> row] BY DEF Insert
    <2> HIDE DEF w, row
    <2> QED BY <1>2, <2>1 DEF StatementType, RunStatuses
  <1> HIDE DEF w, row
  <1>6. WellFormed(w) /\ ~DoneBy(w) /\ ~Completes(w) /\ Harmless(w)
    BY <1>2, <1>5 DEF WellFormed, DoneBy, Completes, Harmless, Sets
  <1>7. w \in PlainStatements BY <1>4, <1>6 DEF PlainStatements
  <1> QED BY <1>2, <1>5, <1>7 DEF Inserting, w

Deleting(w, s) == w \in PlainStatements /\ w.kind = "delete" /\ w.step = s

LEMMA DeleteFacts ==
  ASSUME NEW s \in Steps
  PROVE  Deleting(Delete(s), s)
PROOF
  <1> DEFINE w == Delete(s)
  <1>1. w \in StatementType BY NoRowType DEF Delete, StatementType, RunStatuses
  <1>2. w.kind = "delete" /\ w.step = s /\ w.fields = {} BY DEF Delete
  <1> HIDE DEF w
  <1>3. WellFormed(w) /\ ~DoneBy(w) /\ ~Completes(w) /\ Harmless(w)
    BY <1>2 DEF WellFormed, DoneBy, Completes, Harmless, Sets
  <1> QED BY <1>1, <1>2, <1>3 DEF PlainStatements, Deleting, w

\* The statement that a run waits for its user, or has no answer.
Pausing(w, status) == w \in PlainStatements /\ w.kind = "run" /\ w.run = status /\ w.step = 0

LEMMA PauseFacts ==
  ASSUME NEW status \in {"pending_approval", "failed", "token_budget_exceeded"}
  PROVE  Pausing(SetRun(status), status)
PROOF
  <1>1. status \in RunStatuses /\ status # "none" /\ status # "completed" BY DEF RunStatuses
  <1>2. SetRun(status) \in PlainStatements BY <1>1, RunType DEF PlainStatements
  <1> QED BY <1>2 DEF Pausing, SetRun

-----------------------------------------------------------------------------
(* Lists of statements                                                      *)

LEMMA MaxIndexFacts ==
  ASSUME TypeOK, Unique
  PROVE  MaxIndex \in Nat /\ \A s \in Live : Index(s) <= MaxIndex
PROOF
  <1>1. CASE Live = {} BY <1>1 DEF MaxIndex
  <1>2. CASE Live # {}
    <2> DEFINE list == InOrder(Live)
               n == Len(list)
    <2>1. Sorted(list, Live) BY InOrderSorted
    <2>2. /\ list \in Seq(Live) /\ n \in Nat /\ \A k \in 1..n : list[k] \in Live
          /\ \A i, j \in 1..n : i < j => Index(list[i]) < Index(list[j])
          /\ \A s \in Live : \E k \in 1..n : list[k] = s
      <3> HIDE DEF list
      <3> QED BY <2>1, LenProperties DEF Sorted
    <2> HIDE DEF list, n
    <2>3. n \in 1..n BY <1>2, <2>2
    <2>4. ASSUME NEW s \in Live PROVE Index(s) <= Index(list[n])
      <3>1. PICK k \in 1..n : list[k] = s BY <2>2
      <3>2. k < n => Index(list[k]) < Index(list[n]) BY <2>2, <2>3
      <3>3. Index(list[k]) \in Nat /\ Index(list[n]) \in Nat BY <2>2, <2>3, LiveSteps, RowType
      <3>4. k = n \/ k < n BY <2>2
      <3> QED BY <3>1, <3>2, <3>3, <3>4
    <2>5. list[n] \in Live /\ \A t \in Live : Index(t) <= Index(list[n]) BY <2>2, <2>3, <2>4
    <2> DEFINE top == CHOOSE s \in Live : \A t \in Live : Index(t) <= Index(s)
    <2>6. top \in Live /\ \A t \in Live : Index(t) <= Index(top) BY <2>5
    <2>7. MaxIndex = Index(top) BY <1>2 DEF MaxIndex
    <2> HIDE DEF top
    <2> QED BY <2>6, <2>7, LiveSteps, RowType
  <1> QED BY <1>1, <1>2

LEMMA SortedFacts ==
  ASSUME TypeOK, NEW S \in SUBSET Live, NEW list, Sorted(list, S)
  PROVE  /\ Len(list) \in Nat /\ list = [k \in 1..Len(list) |-> list[k]]
         /\ \A k \in 1..Len(list) : list[k] \in S /\ list[k] \in Steps /\ Index(list[k]) \in Nat \ {0}
         /\ \A i, j \in 1..Len(list) : i < j => Index(list[i]) < Index(list[j])
         /\ \A i, j \in 1..Len(list) : list[i] = list[j] => i = j
         /\ \A s \in S : \E k \in 1..Len(list) : list[k] = s
PROOF
  <1>1. /\ list \in Seq(S) /\ Len(list) \in Nat /\ list \in [1..Len(list) -> S]
        /\ \A i, j \in 1..Len(list) : i < j => Index(list[i]) < Index(list[j])
        /\ \A s \in S : \E k \in 1..Len(list) : list[k] = s
    BY LenProperties DEF Sorted
  <1>2. S \subseteq Steps /\ \A s \in S : Index(s) > 0 BY LiveSteps
  <1>3. \A k \in 1..Len(list) : list[k] \in S /\ list[k] \in Steps /\ Index(list[k]) \in Nat \ {0}
    <2> TAKE k \in 1..Len(list)
    <2>1. list[k] \in S BY <1>1
    <2>2. list[k] \in Steps /\ Index(list[k]) > 0 BY <2>1, <1>2
    <2>3. Index(list[k]) \in Nat BY <2>2, RowType
    <2> QED BY <2>1, <2>2, <2>3
  <1>4. \A i, j \in 1..Len(list) : list[i] = list[j] => i = j
    <2> TAKE i, j \in 1..Len(list)
    <2>1. i < j => Index(list[i]) < Index(list[j]) BY <1>1
    <2>2. j < i => Index(list[j]) < Index(list[i]) BY <1>1
    <2>3. Index(list[i]) \in Nat /\ Index(list[j]) \in Nat BY <1>3
    <2>4. list[i] = list[j] => ~(i < j) /\ ~(j < i) BY <2>1, <2>2, <2>3
    <2> QED BY <2>4, <1>1
  <1> QED BY <1>1, <1>3, <1>4

\* A list of plain statements, with what each is.
BufferOf(td, list) ==
  /\ td \in Seq(PlainStatements) /\ Len(td) = Len(list)
  /\ \A k \in 1..Len(list) : Moving(td[k], list[k], MaxIndex + k)

LEMMA BufferFacts ==
  ASSUME TypeOK, Unique, NEW S \in SUBSET Live, NEW list, Sorted(list, S)
  PROVE  BufferOf(Buffer(list), list)
PROOF
  <1> DEFINE td == Buffer(list)
             n == Len(list)
  <1>1. n \in Nat /\ MaxIndex \in Nat BY SortedFacts, MaxIndexFacts
  <1>2. td = [k \in 1..n |-> Move(list[k], MaxIndex + k)] BY DEF Buffer
  <1>3. ASSUME NEW k \in 1..n PROVE Moving(td[k], list[k], MaxIndex + k)
    <2>1. list[k] \in Steps BY SortedFacts
    <2>2. MaxIndex + k \in Nat \ {0} BY <1>1
    <2>3. td[k] = Move(list[k], MaxIndex + k) BY <1>2
    <2> QED BY <2>1, <2>2, <2>3, MoveFacts
  <1>4. td = [k \in 1..n |-> td[k]] BY <1>2
  <1> HIDE DEF td, n
  <1>5. \A k \in 1..n : td[k] \in PlainStatements BY <1>3 DEF Moving
  <1>6. td \in Seq(PlainStatements) /\ Len(td) = n BY <1>1, <1>4, <1>5, SeqOf
  <1> QED BY <1>3, <1>6 DEF BufferOf, td, n

ShiftOf(td, list, by) ==
  /\ td \in Seq(PlainStatements) /\ Len(td) = Len(list)
  /\ \A k \in 1..Len(list) : Moving(td[k], list[k], Index(list[k]) + by)

LEMMA ShiftFacts ==
  ASSUME TypeOK, NEW S \in SUBSET Live, NEW list, Sorted(list, S), NEW by \in Int,
         \A s \in S : Index(s) + by > 0
  PROVE  ShiftOf(Shift(list, by), list, by)
PROOF
  <1> DEFINE td == Shift(list, by)
             n == Len(list)
  <1>1. n \in Nat BY SortedFacts
  <1>2. td = [k \in 1..n |-> Move(list[k], Index(list[k]) + by)] BY DEF Shift
  <1>3. ASSUME NEW k \in 1..n PROVE Moving(td[k], list[k], Index(list[k]) + by)
    <2>1. list[k] \in Steps /\ list[k] \in S /\ Index(list[k]) \in Nat BY SortedFacts
    <2>2. Index(list[k]) + by \in Nat \ {0} BY <2>1
    <2>3. td[k] = Move(list[k], Index(list[k]) + by) BY <1>2
    <2> QED BY <2>1, <2>2, <2>3, MoveFacts
  <1>4. td = [k \in 1..n |-> td[k]] BY <1>2
  <1> HIDE DEF td, n
  <1>5. \A k \in 1..n : td[k] \in PlainStatements BY <1>3 DEF Moving
  <1>6. td \in Seq(PlainStatements) /\ Len(td) = n BY <1>1, <1>4, <1>5, SeqOf
  <1> QED BY <1>3, <1>6 DEF ShiftOf, td, n

\* An index that a step has becomes an index.
Renumbering(to) == to = [i \in Nat |-> to[i]] /\ \A i \in Nat \ {0} : to[i] \in Nat \ {0}

LEMMA NewDepsType ==
  ASSUME NEW to, Renumbering(to), NEW deps \in SUBSET (Nat \ {0})
  PROVE  NewDeps(deps, to) \in SUBSET (Nat \ {0})
PROOF BY DEF Renumbering, NewDeps

RewriteOf(td, S, to) ==
  /\ td \in Seq(PlainStatements)
  /\ \A k \in 1..Len(td) : td[k].step \in S /\ Rewriting(td[k], td[k].step, NewDeps(steps[td[k].step].deps, to))
  /\ \A s \in S : NewDeps(steps[s].deps, to) # steps[s].deps => \E k \in 1..Len(td) : td[k].step = s

LEMMA RewriteListFacts ==
  ASSUME TypeOK, Unique, NEW S \in SUBSET Live, NEW to, Renumbering(to)
  PROVE  RewriteOf(Rewrite(S, to), S, to)
PROOF
  <1> DEFINE T == {s \in S : NewDeps(steps[s].deps, to) # steps[s].deps}
             list == InOrder(T)
             td == Rewrite(S, to)
             n == Len(list)
  <1>1. T \in SUBSET Live OBVIOUS
  <1>2. Sorted(list, T)
    <2> HIDE DEF T
    <2> QED BY <1>1, InOrderSorted
  <1>3. td = [k \in 1..n |-> Set(list[k], {"deps"}, [NoRow EXCEPT !.deps = NewDeps(steps[list[k]].deps, to)])]
    BY DEF Rewrite
  <1>4. /\ n \in Nat /\ \A k \in 1..n : list[k] \in T /\ list[k] \in Steps
        /\ \A s \in T : \E k \in 1..n : list[k] = s
    <2> HIDE DEF T, list
    <2> QED BY <1>1, <1>2, SortedFacts
  <1>5. T \subseteq S /\ \A s \in S : NewDeps(steps[s].deps, to) # steps[s].deps => s \in T OBVIOUS
  <1> HIDE DEF T, list, n, td
  <1>6. ASSUME NEW k \in 1..n PROVE td[k].step = list[k] /\ Rewriting(td[k], list[k], NewDeps(steps[list[k]].deps, to))
    <2>1. list[k] \in Steps BY <1>4
    <2>2. steps[list[k]].deps \in SUBSET (Nat \ {0}) BY <2>1, RowType
    <2>3. NewDeps(steps[list[k]].deps, to) \in SUBSET (Nat \ {0}) BY <2>2, NewDepsType
    <2>4. td[k] = Set(list[k], {"deps"}, [NoRow EXCEPT !.deps = NewDeps(steps[list[k]].deps, to)]) BY <1>3
    <2>5. Rewriting(td[k], list[k], NewDeps(steps[list[k]].deps, to)) BY <2>1, <2>3, <2>4, RewriteFacts
    <2> QED BY <2>5 DEF Rewriting
  <1>7. td = [k \in 1..n |-> td[k]] BY <1>3
  <1>8. \A k \in 1..n : td[k] \in PlainStatements BY <1>6 DEF Rewriting
  <1>9. td \in Seq(PlainStatements) /\ Len(td) = n BY <1>4, <1>7, <1>8, SeqOf
  <1>10. \A k \in 1..n : td[k].step \in S /\ Rewriting(td[k], td[k].step, NewDeps(steps[td[k].step].deps, to))
    <2> TAKE k \in 1..n
    <2>1. td[k].step = list[k] /\ list[k] \in S BY <1>4, <1>5, <1>6
    <2> QED BY <1>6, <2>1
  <1>11. \A s \in S : NewDeps(steps[s].deps, to) # steps[s].deps => \E k \in 1..n : td[k].step = s
    <2> TAKE s \in S
    <2> HAVE NewDeps(steps[s].deps, to) # steps[s].deps
    <2>1. PICK k \in 1..n : list[k] = s BY <1>4, <1>5
    <2> QED BY <1>6, <2>1
  <1>12. RewriteOf(td, S, to) BY <1>9, <1>10, <1>11 DEF RewriteOf
  <1> QED BY <1>12 DEF td

InsertsOf(td, first, specs) ==
  /\ td \in Seq(PlainStatements) /\ Len(td) = Len(specs)
  /\ \A k \in 1..Len(specs) : Inserting(td[k], made + k, first + k - 1, specs[k].tool, specs[k].deps)

LEMMA PlanFacts ==
  ASSUME NEW specs \in Plans
  PROVE  /\ specs \in Seq([tool : Tools, deps : SUBSET (Nat \ {0})])
         /\ Len(specs) \in Nat /\ Len(specs) <= MaxSteps /\ DOMAIN specs = 1..Len(specs)
         /\ \A k \in 1..Len(specs) : specs[k].tool \in Tools /\ specs[k].deps \in SUBSET (Nat \ {0})
PROOF
  <1>1. specs \in Seq([tool : Tools, deps : SUBSET (Nat \ {0})]) /\ Len(specs) <= MaxSteps BY PlansAssumption
  <1>2. /\ Len(specs) \in Nat /\ DOMAIN specs = 1..Len(specs)
        /\ \A k \in 1..Len(specs) : specs[k] \in [tool : Tools, deps : SUBSET (Nat \ {0})]
    BY <1>1, LenProperties, ElementOfSeq
  <1> QED BY <1>1, <1>2

LEMMA InsertAllFacts ==
  ASSUME TypeOK, NEW specs \in Plans, made + Len(specs) <= MaxSteps, NEW first \in Nat \ {0}
  PROVE  InsertsOf(InsertAll(first, specs), first, specs)
PROOF
  <1> DEFINE td == InsertAll(first, specs)
             n == Len(specs)
  <1>1. n \in Nat /\ made \in Nat /\ made + n <= MaxSteps BY PlanFacts, BoundsAssumption DEF TypeOK
  <1>2. td = [k \in 1..n |-> Insert(made + k, first + k - 1, specs[k].tool, specs[k].deps)] BY DEF InsertAll
  <1>3. ASSUME NEW k \in 1..n PROVE Inserting(td[k], made + k, first + k - 1, specs[k].tool, specs[k].deps)
    <2>1. specs[k].tool \in Tools /\ specs[k].deps \in SUBSET (Nat \ {0}) BY PlanFacts
    <2>2. made + k \in Steps /\ first + k - 1 \in Nat \ {0} BY <1>1, BoundsAssumption DEF Steps
    <2>3. td[k] = Insert(made + k, first + k - 1, specs[k].tool, specs[k].deps) BY <1>2
    <2> HIDE DEF td
    <2>4. Inserting(Insert(made + k, first + k - 1, specs[k].tool, specs[k].deps), made + k, first + k - 1, specs[k].tool, specs[k].deps)
      BY <2>1, <2>2, InsertFacts
    <2> QED BY <2>3, <2>4
  <1>4. td = [k \in 1..n |-> td[k]] BY <1>2
  <1> HIDE DEF td, n
  <1>5. \A k \in 1..n : td[k] \in PlainStatements BY <1>3 DEF Inserting
  <1>6. td \in Seq(PlainStatements) /\ Len(td) = n BY <1>1, <1>4, <1>5, SeqOf
  <1> QED BY <1>3, <1>6 DEF InsertsOf, td, n

-----------------------------------------------------------------------------
(* Requests                                                                 *)

Base == TypeOK /\ Shape /\ Unique /\ Fresh

Request(op, s, td, then) ==
  [pc |-> "write", op |-> op, step |-> s, todo |-> td, row |-> NoRow, then |-> then]

LEMMA HandleIsRequest ==
  ASSUME NEW p, NEW op, NEW s, NEW td, NEW then
  PROVE  Handle(p, op, s, td, then) <=> req' = [req EXCEPT ![p] = Request(op, s, td, then)]
PROOF BY DEF Handle, Go, Idle, Request

LEMMA IdleType == Idle \in RequestType /\ ShapeOf(Idle)
PROOF
  <1>1. Idle \in RequestType
    <2>1. <<>> \in Seq(StatementType) OBVIOUS
    <2> QED BY <2>1, NoRowType DEF Idle, RequestType
  <1>2. Idle.todo = <<>> /\ DOMAIN Idle.todo = {} /\ Idle.pc = "idle" /\ Idle.op = "none" BY DEF Idle
  <1>3. ShapeOf(Idle) BY <1>2 DEF ShapeOf, Editors, Workers, Work
  <1> QED BY <1>1, <1>3

\* The statements of an edit: they end no step and no run.
EditStatements == {w \in StatementType : WellFormed(w) /\ ~DoneBy(w) /\ ~Completes(w)}

LEMMA PlainIsEdit == PlainStatements \subseteq EditStatements /\ EditStatements \subseteq StatementType
PROOF BY DEF PlainStatements, EditStatements

LEMMA EditorType ==
  ASSUME NEW op \in Editors, NEW s \in Steps \cup {0}, NEW td \in Seq(EditStatements), td # <<>>
  PROVE  Request(op, s, td, "idle") \in RequestType /\ ShapeOf(Request(op, s, td, "idle"))
PROOF
  <1> DEFINE r == Request(op, s, td, "idle")
  <1>1. /\ r.pc = "write" /\ r.op = op /\ r.step = s /\ r.todo = td /\ r.row = NoRow /\ r.then = "idle"
    BY DEF Request
  <1>2. td \in Seq(StatementType)
    <2>1. Len(td) \in Nat /\ td \in [1..Len(td) -> EditStatements] BY LenProperties
    <2>2. td \in [1..Len(td) -> StatementType] BY <2>1, PlainIsEdit
    <2> QED BY <2>1, <2>2, SeqDef
  <1>3. op \in {"none", "start", "edit", "continue"} \cup Work BY DEF Editors
  <1>4. r \in RequestType BY <1>2, <1>3, NoRowType DEF Request, RequestType
  <1>5. \A k \in DOMAIN td : WellFormed(td[k]) /\ ~DoneBy(td[k]) /\ ~Completes(td[k])
    <2> TAKE k \in DOMAIN td
    <2>1. td[k] \in EditStatements BY LenProperties, ElementOfSeq
    <2> QED BY <2>1 DEF EditStatements
  <1> HIDE DEF r
  <1>6. EditorShape(r) BY <1>1, <1>5 DEF EditorShape
  <1>7. ShapeOf(r) BY <1>1, <1>5, <1>6 DEF ShapeOf, Editors, Workers, Work
  <1> QED BY <1>4, <1>7 DEF r

\* p's request becomes r.
LEMMA GoType ==
  ASSUME TypeOK, Shape, NEW p \in Requests, NEW r \in RequestType, ShapeOf(r), req' = [req EXCEPT ![p] = r]
  PROVE  req' \in [Requests -> RequestType] /\ Shape'
PROOF
  <1>1. req \in [Requests -> RequestType] BY DEF TypeOK
  <1>2. req' \in [Requests -> RequestType] BY <1>1
  <1>3. \A q \in Requests : req'[q] = IF q = p THEN r ELSE req[q] BY <1>1
  <1>4. \A q \in Requests : ShapeOf(req'[q])
    <2> TAKE q \in Requests
    <2>1. CASE q = p BY <2>1, <1>3
    <2>2. CASE q # p BY <2>2, <1>3 DEF Shape
    <2> QED BY <2>1, <2>2
  <1> QED BY <1>2, <1>4 DEF Shape

LEMMA RequestFacts ==
  ASSUME TypeOK, Shape, NEW p \in Requests
  PROVE  /\ req[p] \in RequestType /\ ShapeOf(req[p]) /\ req[p].todo \in Seq(StatementType)
         /\ Len(req[p].todo) \in Nat /\ DOMAIN req[p].todo = 1..Len(req[p].todo)
         /\ \A k \in 1..Len(req[p].todo) : req[p].todo[k] \in StatementType /\ WellFormed(req[p].todo[k])
         /\ p \in Busy <=> req[p].op # "none"
         /\ req[p].row \in Row
PROOF
  <1>1. req[p] \in RequestType /\ ShapeOf(req[p]) BY DEF TypeOK, Shape
  <1>2. req[p].todo \in Seq(StatementType) /\ req[p].row \in Row BY <1>1 DEF RequestType
  <1>3. /\ Len(req[p].todo) \in Nat /\ DOMAIN req[p].todo = 1..Len(req[p].todo)
        /\ \A k \in 1..Len(req[p].todo) : req[p].todo[k] \in StatementType
    BY <1>2, LenProperties, ElementOfSeq
  <1>4. \A k \in 1..Len(req[p].todo) : WellFormed(req[p].todo[k]) BY <1>1, <1>3 DEF ShapeOf
  <1>5. p \in Busy <=> req[p].op # "none" BY <1>1 DEF ShapeOf, Busy, At
  <1> QED BY <1>1, <1>2, <1>3, <1>4, <1>5

\* A request that has statements to execute: its first, and the rest.
LEMMA HeadFacts ==
  ASSUME TypeOK, Shape, NEW p \in Requests, req[p].pc \in {"write", "store"}
  PROVE  /\ req[p].todo # <<>> /\ 1 \in DOMAIN req[p].todo /\ Next1(p) = req[p].todo[1] /\ Len(req[p].todo) \in Nat \ {0}
         /\ Next1(p) \in StatementType /\ WellFormed(Next1(p)) /\ p \in Busy
         /\ Len(Tail(req[p].todo)) = Len(req[p].todo) - 1
         /\ Tail(req[p].todo) \in Seq(StatementType)
         /\ \A k \in 1..(Len(req[p].todo) - 1) : Tail(req[p].todo)[k] = req[p].todo[k + 1]
PROOF
  <1> DEFINE td == req[p].todo
  <1>1. /\ td \in Seq(StatementType) /\ Len(td) \in Nat /\ DOMAIN td = 1..Len(td) /\ ShapeOf(req[p])
        /\ \A k \in 1..Len(td) : td[k] \in StatementType /\ WellFormed(td[k])
    BY RequestFacts
  <1>2. td # <<>> BY <1>1 DEF ShapeOf
  <1>3. p \in Busy BY DEF Busy, At
  <1>4. Next1(p) = Head(td) BY DEF Next1
  <1> HIDE DEF td
  <1>5. Len(td) # 0 BY <1>1, <1>2, EmptySeq
  <1>6. /\ Head(td) = td[1] /\ Tail(td) \in Seq(StatementType) /\ Len(Tail(td)) = Len(td) - 1
        /\ \A k \in 1..(Len(td) - 1) : Tail(td)[k] = td[k + 1]
    BY <1>1, <1>2, HeadTailProperties
  <1>7. 1 \in 1..Len(td) BY <1>1, <1>5
  <1> QED BY <1>1, <1>2, <1>3, <1>4, <1>5, <1>6, <1>7 DEF td

LEMMA LastOne ==
  ASSUME NEW S, NEW td \in Seq(S), td # <<>>
  PROVE  Tail(td) = <<>> <=> Len(td) = 1
PROOF
  <1>1. Tail(td) \in Seq(S) /\ Len(Tail(td)) = Len(td) - 1 /\ Len(td) \in Nat BY HeadTailProperties, LenProperties
  <1>2. Tail(td) = <<>> <=> Len(Tail(td)) = 0 BY <1>1, EmptySeq
  <1> QED BY <1>1, <1>2

LEMMA ThenFacts ==
  ASSUME TypeOK, Shape, NEW p \in Requests, req[p].pc \in {"write", "store"}
  PROVE  /\ Then(p) \in RequestType /\ ShapeOf(Then(p))
         /\ Then(p).todo = Tail(req[p].todo)
         /\ Then(p).todo = <<>> \/ Then(p).pc = "write"
         /\ Then(p).pc # "store"
         /\ Then(p).op = req[p].op \/ Then(p) = Idle
         /\ Then(p) # Idle => Then(p).step = req[p].step /\ Then(p).then = req[p].then
         /\ Then(p).pc = "write" => Len(req[p].todo) > 1
         /\ Then(p).pc \in {"work", "settle", "pick", "execute"} => Then(p).pc = req[p].then /\ Len(req[p].todo) = 1
         /\ Then(p).pc = "work" => Then(p).row = req[p].row
PROOF
  <1> DEFINE r == req[p]
             td == req[p].todo
             n == Len(td)
  <1>1. /\ td # <<>> /\ n \in Nat \ {0} /\ Tail(td) \in Seq(StatementType) /\ Len(Tail(td)) = n - 1
        /\ \A k \in 1..(n - 1) : Tail(td)[k] = td[k + 1]
    BY HeadFacts
  <1>2. /\ r \in RequestType /\ ShapeOf(r) /\ DOMAIN td = 1..n /\ td \in Seq(StatementType)
        /\ r.op \in {"none", "start", "edit", "continue"} \cup Work
    BY RequestFacts DEF RequestType
  <1>3. r.op \in Editors \/ r.op \in Workers BY <1>2 DEF ShapeOf, Editors, Workers, Work
  <1>4. r.op \in Editors => r.op \notin Workers BY DEF Editors, Workers, Work
  <1>5. r.op # "none" BY <1>3 DEF Editors, Workers, Work
  <1>9. Tail(td) = <<>> <=> n = 1 BY <1>1, <1>2, LastOne
  <1>6. CASE n > 1
    <2> DEFINE x == [pc |-> "write", op |-> r.op, step |-> r.step, todo |-> Tail(td), row |-> NoRow, then |-> r.then]
    <2>1. Then(p) = x BY <1>2, <1>6 DEF Then, RequestType
    <2>2. x \in RequestType BY <1>1, <1>2, NoRowType DEF RequestType
    <2>3. DOMAIN Tail(td) = 1..(n - 1) BY <1>1, LenProperties
    <2>4. \A k \in DOMAIN Tail(td) : k + 1 \in DOMAIN td /\ Tail(td)[k] = td[k + 1] BY <1>1, <1>2, <2>3
    <2>5. \A k \in DOMAIN Tail(td) : WellFormed(Tail(td)[k]) BY <1>2, <2>4 DEF ShapeOf
    <2>6. Tail(td) # <<>>
      <3>1. n # 1
        <4> HIDE DEF n
        <4> QED BY <1>1, <1>6
      <3> QED BY <1>9, <3>1
    <2>7. /\ x.pc = "write" /\ x.op = r.op /\ x.todo = Tail(td) /\ x.then = r.then /\ x.step = r.step
      OBVIOUS
    <2> HIDE DEF x, td, r
    <2>8. x.op \in Editors => EditorShape(x)
      <3>1. SUFFICES ASSUME r.op \in Editors PROVE EditorShape(x) BY <2>7
      <3>2. EditorShape(r) BY <1>2, <3>1 DEF ShapeOf
      <3>3. r.todo = td BY DEF r, td
      <3> QED BY <2>4, <2>7, <3>2, <3>3 DEF EditorShape
    <2>9. x.op \in Workers => WorkerShape(x)
      <3>1. SUFFICES ASSUME r.op \in Workers PROVE WorkerShape(x) BY <2>7
      <3>2. WorkerShape(r) /\ r.todo = td /\ r.pc \in {"write", "store"} BY <1>2, <3>1 DEF ShapeOf, r, td
      <3>3. \A k \in DOMAIN td : WorksOn(td[k], r.step) /\ ~DoneBy(td[k]) /\ ~Completes(td[k])
        <4>1. n # 1 BY <1>1, <1>6
        <4> QED BY <3>2, <4>1 DEF WorkerShape, n
      <3>4. \A j, k \in DOMAIN td : td[j].kind = "set" /\ td[k].kind = "set" => j = k BY <3>2 DEF WorkerShape
      <3>5. \A k \in DOMAIN Tail(td) : WorksOn(Tail(td)[k], r.step) /\ ~DoneBy(Tail(td)[k]) /\ ~Completes(Tail(td)[k])
        BY <2>4, <3>3
      <3>6. \A j, k \in DOMAIN Tail(td) : Tail(td)[j].kind = "set" /\ Tail(td)[k].kind = "set" => j = k
        <4> TAKE j, k \in DOMAIN Tail(td)
        <4> HAVE Tail(td)[j].kind = "set" /\ Tail(td)[k].kind = "set"
        <4>1. j + 1 = k + 1 BY <2>4, <3>4
        <4>2. j \in Int /\ k \in Int BY <2>3
        <4> QED BY <4>1, <4>2
      <3>7. r.then # "work"
        <4>1. SUFFICES ASSUME r.then = "work" PROVE FALSE OBVIOUS
        <4>2. td = <<SetStatus(r.step, "running")>> BY <3>2, <4>1 DEF WorkerShape
        <4>3. n = 1 BY <4>2 DEF n
        <4> QED BY <4>3, <1>6
      <3>8. r.step \in Steps /\ (r.then = "execute" => r.op = "retry") /\ (r.then = "pick" => r.op = "continue")
        BY <3>2 DEF WorkerShape
      <3> QED BY <2>7, <3>5, <3>6, <3>7, <3>8 DEF WorkerShape
    <2>10. ShapeOf(x) BY <1>5, <2>5, <2>6, <2>7, <2>8, <2>9 DEF ShapeOf
    <2>11. x # Idle BY <2>7 DEF Idle
    <2>12. req[p] = r /\ req[p].todo = td BY DEF r, td
    <2> HIDE DEF n
    <2>13. Len(req[p].todo) = n BY DEF n, td
    <2> QED BY <1>6, <2>1, <2>2, <2>7, <2>10, <2>11, <2>12, <2>13
  <1>7. CASE n = 1 /\ r.then = "idle"
    <2>1. Then(p) = Idle BY <1>7 DEF Then
    <2>2. Tail(td) = <<>> BY <1>7, <1>9
    <2>3. Idle.todo = <<>> /\ Idle.pc = "idle" BY DEF Idle
    <2> QED BY <2>1, <2>2, <2>3, IdleType
  <1>8. CASE n = 1 /\ r.then # "idle"
    <2> DEFINE x == [pc |-> r.then, op |-> r.op, step |-> r.step, todo |-> <<>>,
                     row |-> IF r.then = "work" THEN r.row ELSE NoRow, then |-> r.then]
    <2>1. Then(p) = x
      <3>1. r = [pc |-> r.pc, op |-> r.op, step |-> r.step, todo |-> r.todo, row |-> r.row, then |-> r.then]
        BY <1>2 DEF RequestType
      <3>2. Then(p) = [r EXCEPT !.pc = r.then, !.todo = <<>>, !.row = IF r.then = "work" THEN @ ELSE NoRow]
        BY <1>8 DEF Then
      <3> HIDE DEF r
      <3> QED BY <3>1, <3>2
    <2>2. /\ r.then \in {"idle", "work", "settle", "pick", "execute"} /\ r.row \in Row /\ r.step \in Steps \cup {0}
      BY <1>2 DEF RequestType
    <2>3. x \in RequestType
      <3>1. <<>> \in Seq(StatementType) OBVIOUS
      <3> HIDE DEF r
      <3> QED BY <1>2, <2>2, <3>1, NoRowType DEF RequestType
    <2>4. Tail(td) = <<>> BY <1>8, <1>9
    <2>5. r.op \in Workers
      <3>1. r.op \in Editors => r.then = "idle" BY <1>2 DEF ShapeOf, EditorShape
      <3> QED BY <1>3, <1>8, <3>1
    <2>6. WorkerShape(r) BY <1>2, <2>5 DEF ShapeOf
    <2>7. /\ x.pc = r.then /\ x.op = r.op /\ x.todo = <<>> /\ DOMAIN x.todo = {} /\ x.step = r.step /\ x.then = r.then
          /\ x.row = IF r.then = "work" THEN r.row ELSE NoRow
      OBVIOUS
    <2>8. /\ r.pc \in {"write", "store"} /\ r.step \in Steps
      <3>1. r.pc \in {"write", "store"} OBVIOUS
      <3> HIDE DEF r
      <3> QED BY <2>6, <3>1 DEF WorkerShape
    <2> HIDE DEF x, r
    <2>9. WorkerShape(x) BY <1>8, <2>2, <2>6, <2>7, <2>8 DEF WorkerShape
    <2>10. x.op \notin Editors BY <2>5, <2>7 DEF Editors, Workers, Work
    <2>11. x.op # "none" /\ x.pc # "idle" /\ x.pc \notin {"write", "store"} BY <1>5, <1>8, <2>2, <2>7
    <2>12. ShapeOf(x) BY <2>7, <2>9, <2>10, <2>11 DEF ShapeOf
    <2>13. x # Idle BY <2>11 DEF Idle
    <2>14. req[p] = r BY DEF r
    <2> HIDE DEF n, td
    <2>15. Len(req[p].todo) = n /\ req[p].todo = td BY DEF n, td
    <2> QED BY <1>8, <2>1, <2>2, <2>3, <2>4, <2>7, <2>11, <2>12, <2>14, <2>15
  <1>10. n > 1 \/ n = 1
    <2> HIDE DEF n
    <2> QED BY <1>1
  <1> QED BY <1>6, <1>7, <1>8, <1>10

-----------------------------------------------------------------------------
(* The type of the state                                                    *)

Faulty == {"mixed", "loose", "trimmed", "early", "unapproved"}

\* p's request becomes r.
Becomes(p, r) ==
  /\ r \in RequestType /\ ShapeOf(r) /\ req' = [req EXCEPT ![p] = r]
  /\ r.step <= made' /\ \A k \in DOMAIN r.todo : r.todo[k].step <= made'

\* What a step does besides is of the right type.
Typed ==
  /\ run' \in RunStatuses \ {"none"} /\ steps' \in [Steps -> Row] /\ Unique'
  /\ made' \in 0..MaxSteps /\ made <= made' /\ policy' \in DOMAIN Policies
  /\ edits' \in Nat /\ faults' \in Nat
  /\ plan' \in Seq(Steps) /\ needs' \in [Steps -> SUBSET Steps] /\ consent' \in [Steps -> Tools \cup {NoTool}]
  /\ wrong' \subseteq Faulty
  /\ \A s \in Live' : s <= made'
  /\ \A k \in DOMAIN plan' : plan'[k] <= made'

LEMMA BaseKept ==
  ASSUME Base, NEW p \in Requests, NEW r, Becomes(p, r), Typed
  PROVE  Base'
PROOF
  <1>1. req' \in [Requests -> RequestType] /\ Shape' BY GoType DEF Base, Becomes
  <1>2. TypeOK' BY <1>1 DEF TypeOK, Typed, Faulty
  <1>5. made \in Nat /\ made' \in Nat /\ made <= made' BY BoundsAssumption DEF Typed, Base, TypeOK
  <1>6. \A q \in Requests : req'[q].step <= made'
    <2> TAKE q \in Requests
    <2>1. CASE q = p
      <3>1. req'[q] = r BY <2>1 DEF Becomes, Base, TypeOK
      <3> QED BY <3>1 DEF Becomes
    <2>2. CASE q # p
      <3>1. req'[q] = req[q] BY <2>2 DEF Becomes, Base, TypeOK
      <3>2. req[q].step <= made BY DEF Base, Fresh
      <3>3. req[q].step \in Steps \cup {0}
        <4>1. req[q] \in RequestType BY DEF Base, TypeOK
        <4> QED BY <4>1 DEF RequestType
      <3>4. req[q].step \in Nat BY <3>3, BoundsAssumption DEF Steps
      <3> QED BY <1>5, <3>1, <3>2, <3>4
    <2> QED BY <2>1, <2>2
  <1>3. \A q \in Requests : \A k \in DOMAIN req'[q].todo : req'[q].todo[k].step <= made'
    <2> TAKE q \in Requests
    <2>1. CASE q = p
      <3>1. req'[q] = r BY <2>1 DEF Becomes, Base, TypeOK
      <3> QED BY <3>1 DEF Becomes
    <2>2. CASE q # p
      <3>1. req'[q] = req[q] BY <2>2 DEF Becomes, Base, TypeOK
      <3> TAKE k \in DOMAIN req'[q].todo
      <3>2. req[q].todo[k].step <= made BY <3>1 DEF Base, Fresh
      <3>3. req[q].todo[k].step \in Nat
        <4>1. req[q].todo[k] \in StatementType BY <3>1, RequestFacts DEF Base
        <4>2. req[q].todo[k].step \in Steps \cup {0} BY <4>1 DEF StatementType
        <4> QED BY <4>2, BoundsAssumption DEF Steps
      <3>4. made \in Nat /\ made' \in Nat /\ made <= made' BY BoundsAssumption DEF Typed, Base, TypeOK
      <3> QED BY <3>1, <3>2, <3>3, <3>4
    <2> QED BY <2>1, <2>2
  <1>4. Fresh' BY <1>3, <1>6 DEF Fresh, Typed
  <1> QED BY <1>1, <1>2, <1>4 DEF Base, Typed

\* Nothing but requests changes.
LEMMA SameTyped ==
  ASSUME Base, run # "none", UNCHANGED <<run, steps, made, policy, edits, plan, needs, consent>>, faults' \in Nat,
         wrong' \subseteq Faulty
  PROVE  Typed
PROOF
  <1>1. Live' = Live BY DEF Live
  <1>2. Unique' <=> Unique BY <1>1 DEF Unique, Index
  <1> QED BY <1>1, <1>2 DEF Typed, Base, TypeOK, Fresh, Faulty

LEMMA InitBase == Init => Base
PROOF
  <1> SUFFICES ASSUME Init PROVE Base OBVIOUS
  <1>1. Live = {} BY DEF Init, Live, NoRow
  <1>2. \A p \in Requests : req[p] = Idle BY DEF Init
  <1>3. Shape BY <1>2, IdleType DEF Shape
  <1>4. Busy = {} BY <1>2 DEF Busy, At, Idle
  <1>5. Unique BY <1>1 DEF Unique
  <1>6. Fresh BY <1>1, <1>2, <1>4 DEF Fresh, Init, Idle
  <1>7. TypeOK
    <2>1. plan \in Seq(Steps) BY DEF Init
    <2>2. policy \in DOMAIN Policies
      <3>1. Len(Policies) \in Nat /\ DOMAIN Policies = 1..Len(Policies) BY PoliciesAssumption, LenProperties
      <3>2. Len(Policies) # 0 BY PoliciesAssumption, EmptySeq
      <3> QED BY <3>1, <3>2 DEF Init
    <2>3. MaxSteps \in Nat BY BoundsAssumption
    <2>4. req \in [Requests -> RequestType] BY IdleType DEF Init
    <2>5. steps \in [Steps -> Row] BY NoRowType DEF Init
    <2> QED BY <2>1, <2>2, <2>3, <2>4, <2>5 DEF Init, TypeOK, RunStatuses
  <1> QED BY <1>3, <1>5, <1>6, <1>7 DEF Base

LEMMA BusyRuns ==
  ASSUME Base, NEW p \in Requests, ~At(p, "idle")
  PROVE  run # "none"
PROOF BY DEF Base, Fresh, Busy

LEMMA IdleBecomes ==
  ASSUME NEW p, made' \in Nat, req' = [req EXCEPT ![p] = Idle]
  PROVE  Becomes(p, Idle)
PROOF
  <1>1. DOMAIN Idle.todo = {} /\ Idle.step = 0 BY DEF Idle
  <1> QED BY <1>1, IdleType DEF Becomes

LEMMA ThenBecomes ==
  ASSUME Base, NEW p \in Requests, req[p].pc \in {"write", "store"}, req' = [req EXCEPT ![p] = Then(p)], made' = made
  PROVE  Becomes(p, Then(p))
PROOF
  <1>1. TypeOK /\ Shape /\ Fresh BY DEF Base
  <1>2. Then(p) \in RequestType /\ ShapeOf(Then(p)) /\ Then(p).todo = Tail(req[p].todo) BY <1>1, ThenFacts
  <1>3. /\ Tail(req[p].todo) \in Seq(StatementType) /\ Len(Tail(req[p].todo)) = Len(req[p].todo) - 1
        /\ \A k \in 1..(Len(req[p].todo) - 1) : Tail(req[p].todo)[k] = req[p].todo[k + 1]
        /\ Len(req[p].todo) \in Nat \ {0}
    BY <1>1, HeadFacts
  <1>4. DOMAIN req[p].todo = 1..Len(req[p].todo) BY <1>1, RequestFacts
  <1> DEFINE t == Tail(req[p].todo)
             n == Len(req[p].todo)
  <1>5. DOMAIN t = 1..(n - 1) BY <1>3, LenProperties
  <1>6. \A k \in DOMAIN t : k + 1 \in DOMAIN req[p].todo /\ t[k] = req[p].todo[k + 1]
    <2> HIDE DEF t, n
    <2>1. n \in Nat \ {0} /\ DOMAIN req[p].todo = 1..n /\ \A k \in 1..(n - 1) : t[k] = req[p].todo[k + 1]
      BY <1>3, <1>4 DEF t, n
    <2> QED BY <1>5, <2>1
  <1>7. \A k \in DOMAIN t : t[k].step <= made BY <1>1, <1>6 DEF Fresh
  <1>8. Then(p).step <= made
    <2>1. CASE Then(p) = Idle
      <3>1. Idle.step = 0 BY DEF Idle
      <3> QED BY <2>1, <3>1, BoundsAssumption DEF Base, TypeOK
    <2>2. CASE Then(p) # Idle
      <3>1. Then(p).step = req[p].step BY <1>1, <2>2, ThenFacts
      <3> QED BY <1>1, <3>1 DEF Fresh
    <2> QED BY <2>1, <2>2
  <1> QED BY <1>2, <1>7, <1>8 DEF Becomes

-----------------------------------------------------------------------------
(* Steps of requests, one by one                                            *)

LEMMA PatchedType ==
  ASSUME NEW old \in Row, NEW w \in StatementType
  PROVE  Patched(old, w) \in Row
PROOF
  <1>1. w.row \in Row BY DEF StatementType
  <1> QED BY <1>1 DEF Patched, Row

LEMMA StepLive == \A s \in Live : s \in Steps /\ Index(s) > 0
PROOF BY DEF Live, Index

\* Idle requests end a request with nothing else changed.
LEMMA EndBase ==
  ASSUME Base, NEW p \in Requests, ~At(p, "idle"), End(p), faults' \in Nat,
         UNCHANGED <<run, steps, made, policy, edits, history>>
  PROVE  Base'
PROOF
  <1>1. run # "none" BY BusyRuns
  <1>2. Typed BY <1>1, SameTyped DEF history, Base, TypeOK, Faulty
  <1>4. made' \in Nat BY BoundsAssumption DEF Base, TypeOK
  <1>3. Becomes(p, Idle) BY <1>4, IdleBecomes DEF End, Go
  <1> QED BY <1>2, <1>3, BaseKept

\* A request goes on, with nothing else changed.
LEMMA GoBase ==
  ASSUME Base, NEW p \in Requests, run # "none", NEW r \in RequestType, ShapeOf(r), req' = [req EXCEPT ![p] = r],
         r.step <= made, \A k \in DOMAIN r.todo : r.todo[k].step <= made, faults' \in Nat, wrong' \subseteq Faulty,
         UNCHANGED <<run, steps, made, policy, edits, plan, needs, consent>>
  PROVE  Base'
PROOF
  <1>1. Typed BY SameTyped
  <1>2. Becomes(p, r) BY DEF Becomes
  <1> QED BY <1>1, <1>2, BaseKept

\* What a request is when it has read the row.
InStore(p) == [pc |-> "store", op |-> req[p].op, step |-> req[p].step, todo |-> req[p].todo,
               row |-> Patched(steps[Next1(p).step], Next1(p)), then |-> req[p].then]

LEMMA WithRow ==
  ASSUME NEW r \in RequestType, NEW pc, NEW row
  PROVE  [r EXCEPT !.pc = pc, !.row = row] =
           [pc |-> pc, op |-> r.op, step |-> r.step, todo |-> r.todo, row |-> row, then |-> r.then]
PROOF
  <1>1. PICK a, b, c, d, e, f : r = [pc |-> a, op |-> b, step |-> c, todo |-> d, row |-> e, then |-> f]
    BY DEF RequestType
  <1>2. r.op = b /\ r.step = c /\ r.todo = d /\ r.then = f BY <1>1
  <1>3. [r EXCEPT !.pc = pc] = [pc |-> pc, op |-> b, step |-> c, todo |-> d, row |-> e, then |-> f] BY <1>1
  <1>4. [[pc |-> pc, op |-> b, step |-> c, todo |-> d, row |-> e, then |-> f] EXCEPT !.row = row] =
          [pc |-> pc, op |-> b, step |-> c, todo |-> d, row |-> row, then |-> f]
    OBVIOUS
  <1> QED BY <1>2, <1>3, <1>4

LEMMA WithTodo ==
  ASSUME NEW r \in RequestType, NEW pc, NEW td, NEW row, NEW then
  PROVE  [r EXCEPT !.pc = pc, !.todo = td, !.row = row, !.then = then] =
           [pc |-> pc, op |-> r.op, step |-> r.step, todo |-> td, row |-> row, then |-> then]
PROOF
  <1>1. PICK a, b, c, d, e, f : r = [pc |-> a, op |-> b, step |-> c, todo |-> d, row |-> e, then |-> f]
    BY DEF RequestType
  <1>2. r.op = b /\ r.step = c BY <1>1
  <1>3. [r EXCEPT !.pc = pc] = [pc |-> pc, op |-> b, step |-> c, todo |-> d, row |-> e, then |-> f] BY <1>1
  <1>4. [[pc |-> pc, op |-> b, step |-> c, todo |-> d, row |-> e, then |-> f] EXCEPT !.todo = td] =
          [pc |-> pc, op |-> b, step |-> c, todo |-> td, row |-> e, then |-> f]
    OBVIOUS
  <1>5. [[pc |-> pc, op |-> b, step |-> c, todo |-> td, row |-> e, then |-> f] EXCEPT !.row = row] =
          [pc |-> pc, op |-> b, step |-> c, todo |-> td, row |-> row, then |-> f]
    OBVIOUS
  <1>6. [[pc |-> pc, op |-> b, step |-> c, todo |-> td, row |-> row, then |-> f] EXCEPT !.then = then] =
          [pc |-> pc, op |-> b, step |-> c, todo |-> td, row |-> row, then |-> then]
    OBVIOUS
  <1>7. [r EXCEPT !.pc = pc, !.todo = td] = [pc |-> pc, op |-> b, step |-> c, todo |-> td, row |-> e, then |-> f]
    BY <1>3, <1>4
  <1>8. [r EXCEPT !.pc = pc, !.todo = td, !.row = row] =
          [pc |-> pc, op |-> b, step |-> c, todo |-> td, row |-> row, then |-> f]
    BY <1>7, <1>5
  <1> QED BY <1>2, <1>6, <1>8

LEMMA ReadRowFacts ==
  ASSUME Base, NEW p \in Requests, ReadRow(p), Next1(p).step \in Live
  PROVE  /\ req' = [req EXCEPT ![p] = InStore(p)]
         /\ InStore(p) \in RequestType /\ ShapeOf(InStore(p))
PROOF
  <1> DEFINE r == req[p]
             x == InStore(p)
  <1>1. TypeOK /\ Shape /\ r.pc = "write" BY DEF Base, ReadRow, At
  <1>2. r \in RequestType /\ ShapeOf(r) BY <1>1, RequestFacts
  <1>3. Next1(p) \in StatementType /\ r.todo # <<>> /\ Next1(p) = r.todo[1] BY <1>1, HeadFacts
  <1>4. steps[Next1(p).step] \in Row BY <1>1, StepLive, RowType
  <1>5. Patched(steps[Next1(p).step], Next1(p)) \in Row BY <1>3, <1>4, PatchedType
  <1>6. req' = [req EXCEPT ![p] = [r EXCEPT !.pc = "store", !.row = Patched(steps[Next1(p).step], Next1(p))]]
    BY DEF ReadRow, Go
  <1> HIDE DEF r
  <1>7. [r EXCEPT !.pc = "store", !.row = Patched(steps[Next1(p).step], Next1(p))] = x
    <2>1. req[p] = r BY DEF r
    <2> QED BY <1>2, <2>1, WithRow DEF InStore
  <1>8. x \in RequestType
    <2>1. req[p] = r BY DEF r
    <2> QED BY <1>2, <1>5, <2>1 DEF InStore, RequestType
  <1>9. /\ x.pc = "store" /\ x.op = r.op /\ x.step = r.step /\ x.todo = r.todo /\ x.then = r.then
    BY DEF InStore, r
  <1>10. Next1(p).kind = "set" BY DEF ReadRow
  <1> HIDE DEF x
  <1>11. EditorShape(r) => EditorShape(x) BY <1>9 DEF EditorShape
  <1>12. WorkerShape(r) => WorkerShape(x) BY <1>1, <1>9 DEF WorkerShape
  <1>14. r.op # "none" BY <1>1, <1>2 DEF ShapeOf
  <1>13. ShapeOf(x) BY <1>1, <1>2, <1>3, <1>9, <1>10, <1>11, <1>12, <1>14 DEF ShapeOf
  <1> QED BY <1>6, <1>7, <1>8, <1>13 DEF x

LEMMA ReadRowBase ==
  ASSUME Base, NEW p \in Requests, ReadRow(p)
  PROVE  Base'
PROOF
  <1>1. ~At(p, "idle") /\ run # "none" BY BusyRuns DEF ReadRow, At
  <1>2. faults' \in Nat /\ UNCHANGED <<run, steps, made, policy, edits, history>> BY DEF ReadRow, Base, TypeOK
  <1>3. CASE Next1(p).step \in Live
    <2>1. /\ req' = [req EXCEPT ![p] = InStore(p)]
          /\ InStore(p) \in RequestType /\ ShapeOf(InStore(p))
      BY <1>3, ReadRowFacts
    <2>2. InStore(p).todo = req[p].todo /\ InStore(p).step = req[p].step BY DEF InStore
    <2>3. InStore(p).step <= made /\ \A k \in DOMAIN InStore(p).todo : InStore(p).todo[k].step <= made BY <2>2 DEF Base, Fresh
    <2>4. wrong' \subseteq Faulty BY <1>2 DEF history, Base, TypeOK, Faulty
    <2> QED BY <1>1, <1>2, <2>1, <2>3, <2>4, GoBase DEF history
  <1>4. CASE Next1(p).step \notin Live
    <2>1. End(p) BY <1>4 DEF ReadRow, End, Go
    <2> QED BY <1>1, <1>2, <2>1, EndBase
  <1> QED BY <1>3, <1>4

\* A statement that writes rows: the request goes on, or ends.
LEMMA WriteBase ==
  ASSUME Base, NEW p \in Requests, req[p].pc \in {"write", "store"},
         req' = [req EXCEPT ![p] = Then(p)] \/ req' = [req EXCEPT ![p] = Idle],
         Typed, made' = made
  PROVE  Base'
PROOF
  <1>1. CASE req' = [req EXCEPT ![p] = Then(p)]
    <2>1. Becomes(p, Then(p)) BY <1>1, ThenBecomes
    <2> QED BY <2>1, BaseKept
  <1>2. CASE req' = [req EXCEPT ![p] = Idle]
    <2>2. made' \in Nat BY BoundsAssumption DEF Typed
    <2>1. Becomes(p, Idle) BY <1>2, <2>2, IdleBecomes
    <2> QED BY <2>1, BaseKept
  <1> QED BY <1>1, <1>2

\* A row written where no other step stands.
LEMMA PutTyped ==
  ASSUME Base, run # "none", NEW s \in Steps, s <= made, NEW row \in Row, steps' = [steps EXCEPT ![s] = row],
         AtIndex(row.index) \subseteq {s}, UNCHANGED <<run, made, policy, edits, faults, history>>
  PROVE  Typed
PROOF
  <1>1. steps \in [Steps -> Row] BY DEF Base, TypeOK
  <1>2. \A t \in Steps : steps'[t] = IF t = s THEN row ELSE steps[t] BY <1>1
  <1>3. \A t \in Live' : t = s \/ (t \in Live /\ steps'[t] = steps[t]) BY <1>2 DEF Live
  <1>4. Unique'
    <2> SUFFICES ASSUME NEW t \in Live', NEW u \in Live', steps'[t].index = steps'[u].index PROVE t = u
      BY DEF Unique, Index
    <2>1. t \in Steps /\ u \in Steps BY DEF Live
    <2>2. CASE t = s
      <3>1. u # s => u \in AtIndex(row.index) BY <1>2, <1>3, <2>1, <2>2 DEF AtIndex, Index
      <3> QED BY <2>2, <3>1
    <2>3. CASE u = s
      <3>1. t # s => t \in AtIndex(row.index) BY <1>2, <1>3, <2>1, <2>3 DEF AtIndex, Index
      <3> QED BY <2>3, <3>1
    <2>4. CASE t # s /\ u # s BY <1>2, <1>3, <2>1, <2>4 DEF Base, Unique, Index
    <2> QED BY <2>2, <2>3, <2>4
  <1>5. steps' \in [Steps -> Row] BY <1>1
  <1>6. \A t \in Live' : t <= made' BY <1>3 DEF Base, Fresh
  <1> QED BY <1>4, <1>5, <1>6 DEF Typed, Base, TypeOK, Fresh, history, Faulty

\* The step of a statement that is none of a run.
LEMMA StatementStep ==
  ASSUME Base, NEW p \in Requests, req[p].pc \in {"write", "store"}, Next1(p).kind # "run"
  PROVE  Next1(p).step \in Steps /\ Next1(p).step <= made
PROOF
  <1>1. WellFormed(Next1(p)) /\ 1 \in DOMAIN req[p].todo /\ Next1(p) = req[p].todo[1] BY HeadFacts DEF Base
  <1> QED BY <1>1 DEF WellFormed, Base, Fresh

LEMMA StoreRowBase ==
  ASSUME Base, NEW p \in Requests, StoreRow(p)
  PROVE  Base'
PROOF
  <1> DEFINE s == Next1(p).step
  <1>1. req[p].pc = "store" /\ ~At(p, "idle") /\ run # "none" BY BusyRuns DEF StoreRow, At
  <1>2. Next1(p).kind = "set"
    <2>1. ShapeOf(req[p]) /\ Next1(p) = req[p].todo[1] BY <1>1, RequestFacts, HeadFacts DEF Base
    <2> QED BY <1>1, <2>1 DEF ShapeOf
  <1>3. s \in Steps /\ s <= made BY <1>1, <1>2, StatementStep
  <1>4. req[p].row \in Row BY RequestFacts DEF Base
  <1>5. UNCHANGED <<run, made, policy, edits, faults, history>> BY DEF StoreRow
  <1>6. faults' \in Nat /\ wrong' \subseteq Faulty BY <1>5 DEF history, Base, TypeOK, Faulty
  <1>7. UNCHANGED steps => Typed BY <1>1, <1>5, <1>6, SameTyped DEF history
  <1> HIDE DEF s
  <1>8. CASE AtIndex(req[p].row.index) \subseteq {s}
    <2>1. req' = [req EXCEPT ![p] = Then(p)] \/ req' = [req EXCEPT ![p] = Idle] BY <1>8 DEF StoreRow, Go, s
    <2>2. Typed
      <3>1. CASE s \in Live
        <4>1. steps' = [steps EXCEPT ![s] = req[p].row] BY <1>8, <3>1 DEF StoreRow, s
        <4> QED BY <1>1, <1>3, <1>4, <1>5, <1>8, <4>1, PutTyped
      <3>2. CASE s \notin Live BY <1>7, <1>8, <3>2 DEF StoreRow, s
      <3> QED BY <3>1, <3>2
    <2> QED BY <1>1, <1>5, <2>1, <2>2, WriteBase
  <1>9. CASE ~(AtIndex(req[p].row.index) \subseteq {s})
    <2>1. End(p) /\ UNCHANGED steps BY <1>9 DEF StoreRow, s
    <2> QED BY <1>1, <1>5, <1>6, <2>1, EndBase
  <1> QED BY <1>8, <1>9

LEMMA StoreRunBase ==
  ASSUME Base, NEW p \in Requests, StoreRun(p)
  PROVE  Base'
PROOF
  <1>1. req[p].pc = "write" /\ ~At(p, "idle") /\ run # "none" BY BusyRuns DEF StoreRun, At
  <1>2. Next1(p) \in StatementType /\ WellFormed(Next1(p)) /\ Next1(p).kind = "run" BY <1>1, HeadFacts DEF Base, StoreRun
  <1>3. run' \in RunStatuses \ {"none"} BY <1>2 DEF StoreRun, WellFormed, StatementType
  <1>4. UNCHANGED <<steps, made, policy, edits, faults, history>> BY DEF StoreRun
  <1>5. Live' = Live /\ (Unique' <=> Unique)
    <2>1. Live' = Live BY <1>4 DEF Live
    <2> QED BY <1>4, <2>1 DEF Unique, Index
  <1>6. Typed BY <1>3, <1>4, <1>5 DEF Typed, Base, TypeOK, Fresh, history, Faulty
  <1> QED BY <1>1, <1>4, <1>6, WriteBase DEF StoreRun, Go

LEMMA DeleteRowBase ==
  ASSUME Base, NEW p \in Requests, DeleteRow(p)
  PROVE  Base'
PROOF
  <1>1. req[p].pc = "write" /\ ~At(p, "idle") /\ run # "none" /\ Next1(p).kind = "delete" BY BusyRuns DEF DeleteRow, At
  <1>2. Next1(p).step \in Steps /\ Next1(p).step <= made BY <1>1, StatementStep
  <1>3. NoRow \in Row /\ AtIndex(NoRow.index) = {} BY NoRowType, StepLive DEF NoRow, AtIndex
  <1>4. Typed BY <1>1, <1>2, <1>3, PutTyped DEF DeleteRow
  <1>5. req' = [req EXCEPT ![p] = Then(p)] \/ req' = [req EXCEPT ![p] = Idle] BY DEF DeleteRow, Go
  <1> QED BY <1>1, <1>4, <1>5, WriteBase DEF DeleteRow

\* The row that a statement inserts.
NewRow(row) == [row EXCEPT !.approval = FirstApproval(row.tool)]

LEMMA NewRowFacts ==
  ASSUME NEW row \in Row
  PROVE  /\ NewRow(row) \in Row /\ NewRow(row).index = row.index /\ NewRow(row).status = row.status
         /\ NewRow(row).deps = row.deps /\ NewRow(row).tool = row.tool
         /\ NewRow(row).approval \in {"pending", "not_required"}
PROOF BY DEF NewRow, Row, FirstApproval, Approvals

LEMMA CreateRowBase ==
  ASSUME Base, NEW p \in Requests, CreateRow(p)
  PROVE  Base'
PROOF
  <1> DEFINE row == Next1(p).row
  <1>1. req[p].pc = "write" /\ ~At(p, "idle") /\ run # "none" /\ Next1(p).kind = "create" BY BusyRuns DEF CreateRow, At
  <1>2. Next1(p).step \in Steps /\ Next1(p).step <= made BY <1>1, StatementStep
  <1>3. row \in Row
    <2>1. Next1(p) \in StatementType BY <1>1, HeadFacts DEF Base
    <2> QED BY <2>1 DEF StatementType
  <1>4. UNCHANGED <<run, made, policy, edits, faults, history>> BY DEF CreateRow
  <1>5. faults' \in Nat BY <1>4 DEF Base, TypeOK
  <1> HIDE DEF row
  <1>6. NewRow(row) \in Row /\ NewRow(row).index = row.index BY <1>3, NewRowFacts
  <1>7. CASE AtIndex(row.index) = {}
    <2>1. /\ req' = [req EXCEPT ![p] = Then(p)]
          /\ steps' = [steps EXCEPT ![Next1(p).step] = NewRow(row)]
      BY <1>7 DEF CreateRow, Go, row, NewRow
    <2>2. AtIndex(NewRow(row).index) \subseteq {Next1(p).step} BY <1>6, <1>7
    <2>3. Typed BY <1>1, <1>2, <1>4, <1>6, <2>1, <2>2, PutTyped
    <2> QED BY <1>1, <1>4, <2>1, <2>3, WriteBase
  <1>8. CASE AtIndex(row.index) # {}
    <2>1. End(p) /\ UNCHANGED steps BY <1>8 DEF CreateRow, row
    <2> QED BY <1>1, <1>4, <1>5, <2>1, EndBase
  <1> QED BY <1>7, <1>8

\* A list of one statement, or of two.
LEMMA OneOf ==
  ASSUME NEW S, NEW w \in S
  PROVE  <<w>> \in Seq(S) /\ Len(<<w>>) = 1 /\ DOMAIN <<w>> = {1} /\ <<w>>[1] = w /\ <<w>> # <<>>
PROOF
  <1>1. DOMAIN <<w>> = 1..1 OBVIOUS
  <1>2. 1..1 = {1} OBVIOUS
  <1> QED BY <1>1, <1>2

LEMMA TwoOf ==
  ASSUME NEW S, NEW v \in S, NEW w \in S
  PROVE  /\ <<v, w>> \in Seq(S) /\ Len(<<v, w>>) = 2 /\ DOMAIN <<v, w>> = {1, 2}
         /\ <<v, w>>[1] = v /\ <<v, w>>[2] = w /\ <<v, w>> # <<>>
PROOF
  <1>1. DOMAIN <<v, w>> = 1..2 OBVIOUS
  <1>2. 1..2 = {1, 2} OBVIOUS
  <1> QED BY <1>1, <1>2

\* A worker's statement on its step.
OnStep(w, s, fields, row) ==
  /\ w \in StatementType /\ WellFormed(w) /\ WorksOn(w, s) /\ ~Completes(w)
  /\ w.kind = "set" /\ w.step = s /\ w.fields = fields /\ w.row = row
  /\ DoneBy(w) <=> "status" \in fields /\ row.status \in {"completed", "skipped"}

LEMMA OnStepFacts ==
  ASSUME NEW s \in Steps, NEW fields \in SUBSET {"status", "approval"}, NEW row \in Row
  PROVE  OnStep(Set(s, fields, row), s, fields, row)
PROOF
  <1> DEFINE w == Set(s, fields, row)
  <1>1. w \in StatementType BY SetType
  <1>2. w.kind = "set" /\ w.step = s /\ w.fields = fields /\ w.row = row BY DEF Set
  <1> HIDE DEF w
  <1>3. OnStep(w, s, fields, row) BY <1>1, <1>2 DEF OnStep, WellFormed, WorksOn, Completes, DoneBy, Sets
  <1> QED BY <1>3 DEF w

StatusRow(status) == [NoRow EXCEPT !.status = status]
LEMMA StatusRowType ==
  ASSUME NEW status \in Statuses
  PROVE  StatusRow(status) \in Row /\ StatusRow(status).status = status
PROOF BY DEF StatusRow, NoRow, Row, Statuses, Approvals

\* The statement SetStatus makes.
LEMMA SetStatusFacts ==
  ASSUME NEW s \in Steps, NEW status \in Statuses
  PROVE  OnStep(SetStatus(s, status), s, {"status"}, StatusRow(status))
PROOF
  <1>1. StatusRow(status) \in Row BY StatusRowType
  <1>2. SetStatus(s, status) = Set(s, {"status"}, StatusRow(status)) BY DEF SetStatus, StatusRow
  <1> QED BY <1>1, <1>2, OnStepFacts

LEMMA StatusTypes ==
  /\ {"pending", "approved", "running", "completed", "skipped", "failed"} = Statuses
  /\ "completed" \in Statuses /\ "skipped" \in Statuses /\ "failed" \in Statuses /\ "running" \in Statuses
PROOF BY DEF Statuses

\* A worker's request with one statement.
LEMMA OneStatementType ==
  ASSUME NEW op \in Workers, NEW s \in Steps, NEW w \in StatementType, WellFormed(w), WorksOn(w, s),
         NEW then \in {"idle", "work", "settle", "pick", "execute"},
         NEW row \in Row,
         DoneBy(w) => then = "settle",
         then = "work" => op \in {"execute", "continue"} /\ w = SetStatus(s, "running"),
         then = "execute" => op = "retry",
         then = "pick" => op = "continue",
         NEW r, r = [pc |-> "write", op |-> op, step |-> s, todo |-> <<w>>, row |-> row, then |-> then]
  PROVE  r \in RequestType /\ ShapeOf(r)
PROOF
  <1> DEFINE td == <<w>>
  <1>1. td \in Seq(StatementType) /\ Len(td) = 1 /\ DOMAIN td = {1} /\ td[1] = w /\ td # <<>> BY OneOf
  <1>2. op \in {"none", "start", "edit", "continue"} \cup Work BY DEF Workers
  <1>3. r.pc = "write" /\ r.op = op /\ r.step = s /\ r.todo = td /\ r.then = then OBVIOUS
  <1> HIDE DEF td
  <1>4. r \in RequestType BY <1>1, <1>2 DEF RequestType, td
  <1>5. WorkerShape(r)
    <2>1. r.then = "work" => r.op \in {"execute", "continue"} /\ r.todo = <<SetStatus(r.step, "running")>>
      BY <1>3 DEF td
    <2> QED BY <1>1, <1>3, <2>1 DEF WorkerShape
  <1>6. op \notin Editors /\ op # "none" BY DEF Editors, Workers, Work
  <1>7. ShapeOf(r) BY <1>1, <1>3, <1>5, <1>6 DEF ShapeOf
  <1> QED BY <1>4, <1>7

\* A worker's request with one or two statements, of which one is of the step.
LEMMA TwoStatementsType ==
  ASSUME NEW op \in Workers, NEW s \in Steps, NEW v \in StatementType, NEW w \in StatementType,
         WellFormed(v), WorksOn(v, s), ~DoneBy(v), ~Completes(v),
         WellFormed(w), WorksOn(w, s), ~DoneBy(w), ~Completes(w),
         v.kind # "set" \/ w.kind # "set",
         NEW then \in {"idle", "execute"}, then = "execute" => op = "retry",
         NEW row \in Row,
         NEW r, r = [pc |-> "write", op |-> op, step |-> s, todo |-> <<v, w>>, row |-> row, then |-> then]
  PROVE  r \in RequestType /\ ShapeOf(r)
PROOF
  <1> DEFINE td == <<v, w>>
  <1>1. /\ td \in Seq(StatementType) /\ Len(td) = 2 /\ DOMAIN td = {1, 2} /\ td[1] = v /\ td[2] = w /\ td # <<>>
    BY TwoOf
  <1>2. op \in {"none", "start", "edit", "continue"} \cup Work BY DEF Workers
  <1>3. r.pc = "write" /\ r.op = op /\ r.step = s /\ r.todo = td /\ r.then = then OBVIOUS
  <1> HIDE DEF td
  <1>4. r \in RequestType BY <1>1, <1>2 DEF RequestType, td
  <1>5. WorkerShape(r) BY <1>1, <1>3 DEF WorkerShape
  <1>6. op \notin Editors /\ op # "none" BY DEF Editors, Workers, Work
  <1>7. ShapeOf(r) BY <1>1, <1>3, <1>5, <1>6 DEF ShapeOf
  <1> QED BY <1>4, <1>7

\* A worker's request without statements.
LEMMA NoStatementType ==
  ASSUME NEW pc \in {"settle", "pick", "execute"}, NEW op \in Workers, NEW s \in Steps \cup {0}, NEW row \in Row,
         NEW then \in {"idle", "work", "settle", "pick", "execute"},
         pc # "pick" => s \in Steps, pc = "pick" => op = "continue", pc = "execute" => op \in {"retry", "continue"},
         NEW r, r = [pc |-> pc, op |-> op, step |-> s, todo |-> <<>>, row |-> row, then |-> then]
  PROVE  r \in RequestType /\ ShapeOf(r)
PROOF
  <1>1. <<>> \in Seq(StatementType) /\ DOMAIN <<>> = {} OBVIOUS
  <1>2. op \in {"none", "start", "edit", "continue"} \cup Work BY DEF Workers
  <1>3. r.pc = pc /\ r.op = op /\ r.step = s /\ r.todo = <<>> /\ r.then = then OBVIOUS
  <1>4. r \in RequestType BY <1>1, <1>2 DEF RequestType
  <1>5. WorkerShape(r) BY <1>1, <1>3 DEF WorkerShape
  <1>6. op \notin Editors /\ op # "none" BY DEF Editors, Workers, Work
  <1>7. ShapeOf(r) BY <1>1, <1>3, <1>5, <1>6 DEF ShapeOf
  <1> QED BY <1>4, <1>7

-----------------------------------------------------------------------------
(* Work on a step                                                           *)

\* p begins or goes on with work on s, which is open.
Works(p, op, s, td, then) ==
  /\ s \in Live /\ ~Done(s) /\ op \in Workers
  /\ run \notin {"none", "completed"} /\ (At(p, "idle") \/ At(p, "execute"))
  /\ req' = [req EXCEPT ![p] = Request(op, s, td, then)]
  /\ Request(op, s, td, then) \in RequestType /\ ShapeOf(Request(op, s, td, then))
  /\ td # <<>> /\ \A k \in DOMAIN td : td[k].step \in {0, s} /\ ~Completes(td[k])
  /\ wrong' = wrong \cup Mixes(p, op, s)
  /\ UNCHANGED <<run, steps, made, policy, edits, faults, plan, needs, consent>>

LEMMA MixesType == \A p, op, s : Mixes(p, op, s) \subseteq {"mixed"}
PROOF BY DEF Mixes

LEMMA WorksBase ==
  ASSUME Base, NEW p \in Requests, NEW op, NEW s, NEW td, NEW then, Works(p, op, s, td, then)
  PROVE  Base'
PROOF
  <1> DEFINE r == Request(op, s, td, then)
  <1>1. r.todo = td /\ r.step = s BY DEF Request
  <1>2. s \in Steps /\ s <= made /\ 0 <= made BY StepLive, BoundsAssumption DEF Works, Base, Fresh, TypeOK
  <1>3. wrong' \subseteq Faulty
    <2>1. wrong \subseteq Faulty BY DEF Base, TypeOK, Faulty
    <2>2. "mixed" \in Faulty BY DEF Faulty
    <2> QED BY <2>1, <2>2, MixesType DEF Works
  <1>4. r \in RequestType /\ ShapeOf(r) /\ req' = [req EXCEPT ![p] = r] BY DEF Works
  <1>5. \A k \in DOMAIN td : td[k].step <= made BY <1>2 DEF Works
  <1>6. faults' \in Nat /\ run # "none" BY DEF Works, Base, TypeOK
  <1>7. UNCHANGED <<run, steps, made, policy, edits, plan, needs, consent>> BY DEF Works
  <1> HIDE DEF r
  <1> QED BY <1>1, <1>2, <1>3, <1>4, <1>5, <1>6, <1>7, GoBase

\* The statements with which a step is asked to be approved, is started and is skipped.
ToApprove(s) == Set(s, {"approval"}, NoRow)

LEMMA OpenStatuses ==
  \A s \in Live : (Executable(s) \/ Replaceable(s) \/ steps[s].status = "failed") => ~Done(s)
PROOF BY DEF Executable, Replaceable, Done

\* A request that looks at a step before it executes it.
LEMMA AtExecute ==
  ASSUME Base, NEW p \in Requests, At(p, "execute")
  PROVE  req[p].op \in {"retry", "continue"} /\ req[p].step \in Steps /\ req[p].todo = <<>> /\ run # "none"
PROOF
  <1>1. ShapeOf(req[p]) /\ req[p] \in RequestType /\ run # "none" BY BusyRuns DEF Base, Shape, TypeOK, At
  <1>2. req[p].pc = "execute" BY DEF At
  <1>3. req[p].op \in Editors \cup Workers
    <2>1. req[p].op # "none" BY <1>1, <1>2 DEF ShapeOf
    <2>2. req[p].op \in {"none", "start", "edit", "continue"} \cup Work BY <1>1 DEF RequestType
    <2> QED BY <2>1, <2>2 DEF Editors, Workers, Work
  <1>4. req[p].op \notin Editors BY <1>1, <1>2 DEF ShapeOf, EditorShape
  <1>5. WorkerShape(req[p]) BY <1>1, <1>3, <1>4 DEF ShapeOf
  <1>6. req[p].todo = <<>> BY <1>1, <1>2 DEF ShapeOf
  <1> QED BY <1>1, <1>2, <1>5, <1>6 DEF WorkerShape

LEMMA ExecuteFacts ==
  ASSUME Base, NEW p \in Requests, ExecutePlanStep(p)
  PROVE  \E s \in Live :
           /\ Executable(s)
           /\ \/ Rejudge(s) /\ Works(p, "execute", s, <<ToApprove(s)>>, "idle")
              \/ /\ ~Rejudge(s) /\ PriorDone(s)
                 /\ \E op \in {"execute", "continue"} : Works(p, op, s, <<SetStatus(s, "running")>>, "work")
PROOF
  <1>1. PICK s \in Live :
          /\ Executable(s)
          /\ \/ /\ Rejudge(s)
                /\ Begin(p, "execute", s, <<Set(s, {"approval"}, NoRow)>>, "idle")
             \/ /\ ~Rejudge(s) /\ PriorDone(s)
                /\ Begin(p, IF req[p].op = "continue" THEN "continue" ELSE "execute", s, <<SetStatus(s, "running")>>, "work")
    BY DEF ExecutePlanStep
  <1>2. /\ run = "pending_approval" /\ (At(p, "idle") \/ At(p, "execute"))
        /\ UNCHANGED <<run, steps, made, policy, edits, faults, plan, needs, consent>>
    BY DEF ExecutePlanStep
  <1>3. s \in Steps /\ ~Done(s) BY <1>1, StepLive, OpenStatuses
  <1>4. CASE Rejudge(s) /\ Begin(p, "execute", s, <<ToApprove(s)>>, "idle")
    <2> DEFINE w == ToApprove(s)
               r == Request("execute", s, <<w>>, "idle")
    <2>1. OnStep(w, s, {"approval"}, NoRow) BY <1>3, NoRowType, OnStepFacts DEF ToApprove
    <2>2. "execute" \in Workers BY DEF Workers, Work
    <2> HIDE DEF w
    <2>3. w \in StatementType /\ WellFormed(w) /\ WorksOn(w, s) /\ ~DoneBy(w) /\ ~Completes(w) /\ w.step = s BY <2>1 DEF OnStep
    <2>4. r \in RequestType /\ ShapeOf(r) BY <1>3, <2>2, <2>3, NoRowType, OneStatementType DEF Request
    <2>5. <<w>> # <<>> /\ \A k \in DOMAIN <<w>> : <<w>>[k].step \in {0, s} /\ ~Completes(<<w>>[k]) BY <2>3, OneOf
    <2>6. req' = [req EXCEPT ![p] = r] /\ wrong' = wrong \cup Mixes(p, "execute", s)
      BY <1>4, HandleIsRequest DEF Begin, w
    <2> HIDE DEF r
    <2>7. Works(p, "execute", s, <<w>>, "idle") BY <1>1, <1>2, <1>3, <2>2, <2>4, <2>5, <2>6 DEF Works, r
    <2> QED BY <1>1, <1>4, <2>7 DEF w
  <1>5. ASSUME ~Rejudge(s), PriorDone(s), NEW op \in {"execute", "continue"}, Begin(p, op, s, <<SetStatus(s, "running")>>, "work")
        PROVE Works(p, op, s, <<SetStatus(s, "running")>>, "work")
    <2> DEFINE w == SetStatus(s, "running")
               r == Request(op, s, <<w>>, "work")
    <2>1. OnStep(w, s, {"status"}, StatusRow("running")) BY <1>3, StatusTypes, SetStatusFacts
    <2>2. op \in Workers BY DEF Workers, Work
    <2>3. w \in StatementType /\ WellFormed(w) /\ WorksOn(w, s) /\ ~DoneBy(w) /\ ~Completes(w) /\ w.step = s
      <3> HIDE DEF w
      <3> QED BY <2>1, StatusRowType, StatusTypes DEF OnStep
    <2>4. r \in RequestType /\ ShapeOf(r) BY <1>3, <2>2, <2>3, NoRowType, OneStatementType DEF Request
    <2> HIDE DEF w
    <2>5. <<w>> # <<>> /\ \A k \in DOMAIN <<w>> : <<w>>[k].step \in {0, s} /\ ~Completes(<<w>>[k]) BY <2>3, OneOf
    <2>6. req' = [req EXCEPT ![p] = r] /\ wrong' = wrong \cup Mixes(p, op, s)
      BY <1>5, HandleIsRequest DEF Begin, w
    <2> HIDE DEF r
    <2>7. Works(p, op, s, <<w>>, "work") BY <1>1, <1>2, <1>3, <2>2, <2>4, <2>5, <2>6 DEF Works, r
    <2> QED BY <2>7 DEF w
  <1>6. \/ Rejudge(s) /\ Begin(p, "execute", s, <<ToApprove(s)>>, "idle")
        \/ ~Rejudge(s) /\ PriorDone(s) /\ \E op \in {"execute", "continue"} : Begin(p, op, s, <<SetStatus(s, "running")>>, "work")
    BY <1>1 DEF ToApprove
  <1> QED BY <1>1, <1>3, <1>4, <1>5, <1>6

LEMMA SkipFacts ==
  ASSUME Base, NEW p \in Requests, SkipPlanStep(p)
  PROVE  \E s \in Live : PriorDone(s) /\ Works(p, "skip", s, <<SetStatus(s, "skipped")>>, "settle") /\ At(p, "idle")
PROOF
  <1>1. PICK s \in Live :
          /\ Replaceable(s) /\ PriorDone(s)
          /\ Begin(p, "skip", s, <<SetStatus(s, "skipped")>>, "settle")
    BY DEF SkipPlanStep
  <1>2. /\ run = "pending_approval" /\ At(p, "idle")
        /\ UNCHANGED <<run, steps, made, policy, edits, faults, plan, needs, consent>>
    BY DEF SkipPlanStep
  <1>3. s \in Steps /\ ~Done(s) BY <1>1, StepLive, OpenStatuses
  <1> DEFINE w == SetStatus(s, "skipped")
             r == Request("skip", s, <<w>>, "settle")
  <1>4. OnStep(w, s, {"status"}, StatusRow("skipped")) BY <1>3, StatusTypes, SetStatusFacts
  <1>5. "skip" \in Workers BY DEF Workers, Work
  <1> HIDE DEF w
  <1>6. w \in StatementType /\ WellFormed(w) /\ WorksOn(w, s) /\ ~Completes(w) /\ w.step = s BY <1>4 DEF OnStep
  <1>7. r \in RequestType /\ ShapeOf(r) BY <1>3, <1>5, <1>6, NoRowType, OneStatementType DEF Request
  <1>8. <<w>> # <<>> /\ \A k \in DOMAIN <<w>> : <<w>>[k].step \in {0, s} /\ ~Completes(<<w>>[k]) BY <1>6, OneOf
  <1>9. req' = [req EXCEPT ![p] = r] /\ wrong' = wrong \cup Mixes(p, "skip", s)
    BY <1>1, HandleIsRequest DEF Begin, w
  <1> HIDE DEF r
  <1>10. Works(p, "skip", s, <<w>>, "settle") BY <1>1, <1>2, <1>3, <1>5, <1>7, <1>8, <1>9 DEF Works, r
  <1> QED BY <1>1, <1>2, <1>10 DEF w

\* What a retry makes of a failed step.
RetryApproval(s) == IF steps[s].approval \in {"approved", "not_required"} THEN steps[s].approval ELSE "pending"
RetryStatus(s) == IF RetryApproval(s) = "approved" THEN "approved" ELSE "pending"
RetryRow(s) == [NoRow EXCEPT !.status = RetryStatus(s), !.approval = RetryApproval(s)]
ToRetry(s) == Set(s, {"status", "approval"}, RetryRow(s))

LEMMA RetryRowFacts ==
  ASSUME NEW s
  PROVE  /\ RetryRow(s) \in Row /\ RetryRow(s).status = RetryStatus(s) /\ RetryRow(s).approval = RetryApproval(s)
         /\ RetryRow(s).status \in {"approved", "pending"} /\ RetryApproval(s) \in Approvals
PROOF
  <1>1. RetryApproval(s) \in Approvals /\ RetryStatus(s) \in {"approved", "pending"} BY DEF RetryApproval, RetryStatus, Approvals
  <1> QED BY <1>1 DEF RetryRow, NoRow, Row, Statuses

LEMMA RetryFacts ==
  ASSUME Base, NEW p \in Requests, RetryPlanStep(p)
  PROVE  \E s \in Live, then \in {"idle", "execute"} :
           /\ steps[s].status = "failed"
           /\ Works(p, "retry", s, <<SetRun("pending_approval"), ToRetry(s)>>, then) /\ At(p, "idle")
PROOF
  <1>1. PICK s \in Live :
          /\ steps[s].status = "failed"
          /\ RetryApproval(s) # "pending" => PriorDone(s)
          /\ Begin(p, "retry", s, <<SetRun("pending_approval"), ToRetry(s)>>,
                   IF RetryApproval(s) = "pending" THEN "idle" ELSE "execute")
          /\ UNCHANGED <<run, steps, made, policy, edits, faults, plan, needs, consent>>
    BY DEF RetryPlanStep, RetryApproval, RetryStatus, RetryRow, ToRetry
  <1>2. /\ run \in {"pending_approval", "failed", "token_budget_exceeded"} /\ At(p, "idle")
    BY DEF RetryPlanStep
  <1>3. s \in Steps /\ ~Done(s) BY <1>1, StepLive, OpenStatuses
  <1> DEFINE v == SetRun("pending_approval")
             w == ToRetry(s)
  <1>4. PICK then \in {"idle", "execute"} : Begin(p, "retry", s, <<v, w>>, then) BY <1>1
  <1> DEFINE r == Request("retry", s, <<v, w>>, then)
  <1>5. OnStep(w, s, {"status", "approval"}, RetryRow(s)) BY <1>3, RetryRowFacts, OnStepFacts DEF ToRetry
  <1>6. "retry" \in Workers BY DEF Workers, Work
  <1>7. "pending_approval" \in RunStatuses BY DEF RunStatuses
  <1>8. v \in StatementType /\ WellFormed(v) /\ ~DoneBy(v) /\ ~Completes(v) /\ v.kind = "run" BY <1>7, RunType
  <1>9. v.step = 0 BY DEF SetRun
  <1> HIDE DEF v, w
  <1>10. WorksOn(v, s) BY <1>8 DEF WorksOn
  <1>11. w \in StatementType /\ WellFormed(w) /\ WorksOn(w, s) /\ ~DoneBy(w) /\ ~Completes(w) /\ w.step = s
    BY <1>5, RetryRowFacts DEF OnStep
  <1>12. r \in RequestType /\ ShapeOf(r)
    <2>1. v.kind # "set" \/ w.kind # "set" BY <1>8
    <2> QED BY <1>3, <1>6, <1>8, <1>10, <1>11, <2>1, NoRowType, TwoStatementsType DEF Request
  <1>13. <<v, w>> # <<>> /\ \A k \in DOMAIN <<v, w>> : <<v, w>>[k].step \in {0, s} /\ ~Completes(<<v, w>>[k]) BY <1>8, <1>9, <1>11, TwoOf
  <1>14. req' = [req EXCEPT ![p] = r] /\ wrong' = wrong \cup Mixes(p, "retry", s)
    BY <1>4, HandleIsRequest DEF Begin, w
  <1> HIDE DEF r
  <1>15. Works(p, "retry", s, <<v, w>>, then) BY <1>1, <1>2, <1>3, <1>6, <1>12, <1>13, <1>14 DEF Works, r
  <1> QED BY <1>1, <1>2, <1>15 DEF v, w

\* A request that has no statement to execute is at work on a step, or on its way to one.
LEMMA Between ==
  ASSUME Base, NEW p \in Requests, req[p].pc \in {"work", "settle", "pick", "execute"}
  PROVE  /\ req[p].op \in Workers /\ req[p].todo = <<>> /\ WorkerShape(req[p]) /\ run # "none" /\ req[p].step <= made
         /\ req[p].step \in Steps \cup {0} /\ ~At(p, "idle") /\ p \in Busy
PROOF
  <1>1. ShapeOf(req[p]) /\ req[p] \in RequestType /\ run # "none" /\ ~At(p, "idle")
    BY BusyRuns DEF Base, Shape, TypeOK, At
  <1>2. req[p].op \in Editors \cup Workers
    <2>1. req[p].op # "none" BY <1>1 DEF ShapeOf
    <2>2. req[p].op \in {"none", "start", "edit", "continue"} \cup Work BY <1>1 DEF RequestType
    <2> QED BY <2>1, <2>2 DEF Editors, Workers, Work
  <1>3. req[p].op \notin Editors BY <1>1 DEF ShapeOf, EditorShape
  <1>4. WorkerShape(req[p]) BY <1>1, <1>2, <1>3 DEF ShapeOf
  <1>5. req[p].todo = <<>> BY <1>1 DEF ShapeOf
  <1>6. req[p].step <= made BY DEF Base, Fresh
  <1>7. req[p].step \in Steps \cup {0} BY <1>1 DEF RequestType
  <1> QED BY <1>1, <1>2, <1>3, <1>4, <1>5, <1>6, <1>7 DEF Busy

\* What a request is after the step's tool: how the step ends.
Ended(p, td, then) ==
  [pc |-> "write", op |-> req[p].op, step |-> req[p].step, todo |-> td, row |-> NoRow, then |-> then]
Endings(s) ==
  {<<<<SetStatus(s, "completed")>>, "settle">>, <<<<SetStatus(s, "failed")>>, "idle">>,
   <<<<SetStatus(s, "failed"), SetRun("token_budget_exceeded")>>, "idle">>}

LEMMA EndedType ==
  ASSUME Base, NEW p \in Requests, At(p, "work"), NEW e \in Endings(req[p].step)
  PROVE  /\ Ended(p, e[1], e[2]) \in RequestType /\ ShapeOf(Ended(p, e[1], e[2]))
         /\ Ended(p, e[1], e[2]).step <= made
         /\ \A k \in DOMAIN e[1] : e[1][k].step <= made
         /\ req[p].op \in {"execute", "continue"} /\ req[p].step \in Steps
PROOF
  <1> DEFINE s == req[p].step
             op == req[p].op
  <1>1. req[p].pc = "work" BY DEF At
  <1>2. WorkerShape(req[p]) /\ s <= made /\ op \in Workers BY <1>1, Between
  <1>3. s \in Steps /\ op \in {"execute", "continue"} BY <1>1, <1>2 DEF WorkerShape
  <1>4. made \in Nat BY BoundsAssumption DEF Base, TypeOK
  <1> HIDE DEF s, op
  <1>5. OnStep(SetStatus(s, "completed"), s, {"status"}, StatusRow("completed")) BY <1>3, StatusTypes, SetStatusFacts
  <1>6. OnStep(SetStatus(s, "failed"), s, {"status"}, StatusRow("failed")) BY <1>3, StatusTypes, SetStatusFacts
  <1>7. StatusRow("failed").status = "failed" BY StatusRowType, StatusTypes
  <1>8. CASE e = <<<<SetStatus(s, "completed")>>, "settle">>
    <2> DEFINE w == SetStatus(s, "completed")
               r == Ended(p, <<w>>, "settle")
    <2>1. w \in StatementType /\ WellFormed(w) /\ WorksOn(w, s) /\ w.step = s
      <3> HIDE DEF w
      <3> QED BY <1>5 DEF OnStep, w
    <2>2. r = [pc |-> "write", op |-> op, step |-> s, todo |-> <<w>>, row |-> NoRow, then |-> "settle"]
      BY DEF Ended, s, op
    <2> HIDE DEF w
    <2>3. r.step = s BY <2>2
    <2> HIDE DEF r
    <2>4. r \in RequestType /\ ShapeOf(r) BY <1>2, <1>3, <2>1, <2>2, NoRowType, OneStatementType
    <2>5. \A k \in DOMAIN <<w>> : <<w>>[k].step <= made BY <1>2, <2>1, OneOf
    <2>6. e[1] = <<w>> /\ e[2] = "settle" BY <1>8 DEF w
    <2> QED BY <1>2, <1>3, <2>3, <2>4, <2>5, <2>6 DEF r, s, op
  <1>9. CASE e = <<<<SetStatus(s, "failed")>>, "idle">>
    <2> DEFINE w == SetStatus(s, "failed")
               r == Ended(p, <<w>>, "idle")
    <2>1. w \in StatementType /\ WellFormed(w) /\ WorksOn(w, s) /\ w.step = s /\ ~DoneBy(w)
      <3> HIDE DEF w
      <3> QED BY <1>6, <1>7 DEF OnStep, w
    <2>2. r = [pc |-> "write", op |-> op, step |-> s, todo |-> <<w>>, row |-> NoRow, then |-> "idle"]
      BY DEF Ended, s, op
    <2> HIDE DEF w
    <2>3. r.step = s BY <2>2
    <2> HIDE DEF r
    <2>4. r \in RequestType /\ ShapeOf(r) BY <1>2, <1>3, <2>1, <2>2, NoRowType, OneStatementType
    <2>5. \A k \in DOMAIN <<w>> : <<w>>[k].step <= made BY <1>2, <2>1, OneOf
    <2>6. e[1] = <<w>> /\ e[2] = "idle" BY <1>9 DEF w
    <2> QED BY <1>2, <1>3, <2>3, <2>4, <2>5, <2>6 DEF r, s, op
  <1>10. CASE e = <<<<SetStatus(s, "failed"), SetRun("token_budget_exceeded")>>, "idle">>
    <2> DEFINE w == SetStatus(s, "failed")
               v == SetRun("token_budget_exceeded")
               r == Ended(p, <<w, v>>, "idle")
    <2>1. w \in StatementType /\ WellFormed(w) /\ WorksOn(w, s) /\ w.step = s /\ ~DoneBy(w) /\ ~Completes(w)
      <3> HIDE DEF w
      <3> QED BY <1>6, <1>7 DEF OnStep, w
    <2>2. "token_budget_exceeded" \in RunStatuses BY DEF RunStatuses
    <2>3. v \in StatementType /\ WellFormed(v) /\ ~DoneBy(v) /\ ~Completes(v) /\ v.kind = "run" BY <2>2, RunType
    <2>4. v.step = 0 BY DEF SetRun
    <2>5. r = [pc |-> "write", op |-> op, step |-> s, todo |-> <<w, v>>, row |-> NoRow, then |-> "idle"]
      BY DEF Ended, s, op
    <2> HIDE DEF w, v
    <2>6. r.step = s BY <2>5
    <2>7. WorksOn(v, s) BY <2>3 DEF WorksOn
    <2> HIDE DEF r
    <2>8. v.kind # "set" \/ w.kind # "set" BY <2>3
    <2>9. r \in RequestType /\ ShapeOf(r) BY <1>2, <1>3, <2>1, <2>3, <2>5, <2>7, <2>8, NoRowType, TwoStatementsType
    <2>10. \A k \in DOMAIN <<w, v>> : <<w, v>>[k].step <= made BY <1>2, <1>4, <2>1, <2>4, TwoOf
    <2>11. e[1] = <<w, v>> /\ e[2] = "idle" BY <1>10 DEF w, v
    <2> QED BY <1>2, <1>3, <2>6, <2>9, <2>10, <2>11 DEF r, s, op
  <1> QED BY <1>8, <1>9, <1>10 DEF Endings, s

LEMMA RunFacts ==
  ASSUME NEW p \in Requests, Run(p)
  PROVE  \E e \in Endings(req[p].step) : req' = [req EXCEPT ![p] = Ended(p, e[1], e[2])]
PROOF
  <1> DEFINE s == req[p].step
  <1>1. \A td, then : <<td, then>>[1] = td /\ <<td, then>>[2] = then OBVIOUS
  <1>2. \A td, then : Request(req[p].op, s, td, then) = Ended(p, td, then) BY DEF Request, Ended
  <1>3. \/ Handle(p, req[p].op, s, <<SetStatus(s, "completed")>>, "settle")
        \/ Handle(p, req[p].op, s, <<SetStatus(s, "failed")>>, "idle")
        \/ Handle(p, req[p].op, s, <<SetStatus(s, "failed"), SetRun("token_budget_exceeded")>>, "idle")
    BY DEF Run
  <1> HIDE DEF s
  <1>4. \/ req' = [req EXCEPT ![p] = Ended(p, <<SetStatus(s, "completed")>>, "settle")]
        \/ req' = [req EXCEPT ![p] = Ended(p, <<SetStatus(s, "failed")>>, "idle")]
        \/ req' = [req EXCEPT ![p] = Ended(p, <<SetStatus(s, "failed"), SetRun("token_budget_exceeded")>>, "idle")]
    BY <1>2, <1>3, HandleIsRequest
  <1>8. CASE req' = [req EXCEPT ![p] = Ended(p, <<SetStatus(s, "completed")>>, "settle")]
    BY <1>1, <1>8 DEF Endings, s
  <1>9. CASE req' = [req EXCEPT ![p] = Ended(p, <<SetStatus(s, "failed")>>, "idle")]
    BY <1>1, <1>9 DEF Endings, s
  <1>10. CASE req' = [req EXCEPT ![p] = Ended(p, <<SetStatus(s, "failed"), SetRun("token_budget_exceeded")>>, "idle")]
    BY <1>1, <1>10 DEF Endings, s
  <1> QED BY <1>4, <1>8, <1>9, <1>10

LEMMA RunBase ==
  ASSUME Base, NEW p \in Requests, Run(p)
  PROVE  Base'
PROOF
  <1>1. PICK e \in Endings(req[p].step) : req' = [req EXCEPT ![p] = Ended(p, e[1], e[2])] BY RunFacts
  <1>2. At(p, "work") /\ UNCHANGED <<run, steps, made, policy, edits, faults, plan, needs, consent>> BY DEF Run
  <1>3. /\ Ended(p, e[1], e[2]) \in RequestType /\ ShapeOf(Ended(p, e[1], e[2]))
        /\ Ended(p, e[1], e[2]).step <= made
        /\ \A k \in DOMAIN e[1] : e[1][k].step <= made
    BY <1>2, EndedType
  <1>4. Ended(p, e[1], e[2]).todo = e[1] BY DEF Ended
  <1>5. faults' \in Nat /\ run # "none" BY <1>2, Between DEF Base, TypeOK, At
  <1>6. wrong' \subseteq Faulty
    <2>1. wrong \subseteq Faulty /\ "early" \in Faulty /\ "unapproved" \in Faulty BY DEF Base, TypeOK, Faulty
    <2> QED BY <2>1 DEF Run
  <1> QED BY <1>1, <1>2, <1>3, <1>4, <1>5, <1>6, GoBase

-----------------------------------------------------------------------------
(* The loop of ContinuePlanningRun, and what ends a request                 *)

LEMMA LoopIs ==
  /\ Loop = [pc |-> "pick", op |-> "continue", step |-> 0, todo |-> <<>>, row |-> NoRow, then |-> "idle"]
  /\ \A s : [Loop EXCEPT !.pc = "execute", !.step = s] =
             [pc |-> "execute", op |-> "continue", step |-> s, todo |-> <<>>, row |-> NoRow, then |-> "idle"]
PROOF
  <1> DEFINE R(pc, op, s) == [pc |-> pc, op |-> op, step |-> s, todo |-> <<>>, row |-> NoRow, then |-> "idle"]
  <1>1. Idle = R("idle", "none", 0) BY DEF Idle
  <1>2. [R("idle", "none", 0) EXCEPT !.pc = "pick"] = R("pick", "none", 0) OBVIOUS
  <1>3. [R("pick", "none", 0) EXCEPT !.op = "continue"] = R("pick", "continue", 0) OBVIOUS
  <1>4. [R("pick", "continue", 0) EXCEPT !.pc = "execute"] = R("execute", "continue", 0) OBVIOUS
  <1>5. \A s : [R("execute", "continue", 0) EXCEPT !.step = s] = R("execute", "continue", s) OBVIOUS
  <1> HIDE DEF R
  <1>6. [Idle EXCEPT !.pc = "pick"] = R("pick", "none", 0) BY <1>1, <1>2
  <1>7. [Idle EXCEPT !.pc = "pick", !.op = "continue"] = R("pick", "continue", 0) BY <1>3, <1>6
  <1>8. Loop = R("pick", "continue", 0) BY <1>7 DEF Loop
  <1>9. [Loop EXCEPT !.pc = "execute"] = R("execute", "continue", 0) BY <1>4, <1>8
  <1>10. ASSUME NEW s PROVE [Loop EXCEPT !.pc = "execute", !.step = s] = R("execute", "continue", s) BY <1>5, <1>9
  <1> QED BY <1>8, <1>10 DEF R

LEMMA LoopType == Loop \in RequestType /\ ShapeOf(Loop) /\ Loop.todo = <<>> /\ Loop.step = 0
PROOF
  <1>1. Loop = [pc |-> "pick", op |-> "continue", step |-> 0, todo |-> <<>>, row |-> NoRow, then |-> "idle"]
    BY LoopIs
  <1>2. "continue" \in Workers BY DEF Workers
  <1> HIDE DEF Loop
  <1>3. Loop.todo = <<>> /\ Loop.step = 0 BY <1>1
  <1> QED BY <1>1, <1>2, <1>3, NoRowType, NoStatementType

\* p looks for a step to execute.
LEMMA ToLoopBase ==
  ASSUME Base, NEW p \in Requests, run # "none", Go(p, Loop),
         UNCHANGED <<run, steps, made, policy, edits, faults, history>>
  PROVE  Base'
PROOF
  <1>1. Loop \in RequestType /\ ShapeOf(Loop) /\ DOMAIN Loop.todo = {} /\ Loop.step <= made
    BY LoopType, BoundsAssumption DEF Base, TypeOK
  <1>2. faults' \in Nat /\ wrong' \subseteq Faulty BY DEF history, Base, TypeOK, Faulty
  <1> QED BY <1>1, <1>2, GoBase DEF Go, history

LEMMA ContinueBase ==
  ASSUME Base, NEW p \in Requests, ContinuePlanningRun(p)
  PROVE  Base'
PROOF BY ToLoopBase DEF ContinuePlanningRun

\* The step that Pick picks.
Picked(s) == [pc |-> "execute", op |-> "continue", step |-> s, todo |-> <<>>, row |-> NoRow, then |-> "idle"]

LEMMA FirstExists ==
  ASSUME TypeOK, Unique, NEW S \in SUBSET Live, S # {}
  PROVE  \E s \in S : \A t \in S : Index(s) <= Index(t)
PROOF
  <1> DEFINE list == InOrder(S)
             n == Len(list)
  <1>1. Sorted(list, S) BY InOrderSorted
  <1> HIDE DEF list
  <1>2. /\ n \in Nat
        /\ \A k \in 1..n : list[k] \in S /\ Index(list[k]) \in Nat \ {0}
        /\ \A i, j \in 1..n : i < j => Index(list[i]) < Index(list[j])
        /\ \A s \in S : \E k \in 1..n : list[k] = s
    BY <1>1, SortedFacts
  <1> HIDE DEF n
  <1>3. 1 \in 1..n BY <1>2
  <1>4. \A t \in S : Index(list[1]) <= Index(t)
    <2> TAKE t \in S
    <2>1. PICK k \in 1..n : list[k] = t BY <1>2
    <2>2. 1 < k => Index(list[1]) < Index(list[k]) BY <1>2, <1>3
    <2>3. Index(list[1]) \in Nat /\ Index(list[k]) \in Nat BY <1>2, <1>3
    <2>4. k = 1 \/ 1 < k BY <1>2
    <2> QED BY <2>1, <2>2, <2>3, <2>4
  <1> QED BY <1>2, <1>3, <1>4

LEMMA PickFacts ==
  ASSUME Base, NEW p \in Requests, Pick(p)
  PROVE  /\ req[p].op = "continue" /\ run # "none"
         /\ End(p) \/ \E s \in Live : Executable(s) /\ PriorDone(s) /\ req' = [req EXCEPT ![p] = Picked(s)]
PROOF
  <1>1. req[p].pc = "pick" BY DEF Pick, At
  <1>2. req[p].op = "continue" /\ run # "none" BY <1>1, Between DEF WorkerShape
  <1> DEFINE stops == {s \in Live : ~Done(s) /\ ~Waits(s) /\ ~(Executable(s) /\ Deferred(s))}
             first == CHOOSE s \in stops : \A t \in stops : Index(s) <= Index(t)
  <1>3. CASE stops # {} /\ Executable(first) /\ PriorDone(first)
    <2>1. first \in stops
      <3>1. stops \in SUBSET Live OBVIOUS
      <3> HIDE DEF stops
      <3>2. \E s \in stops : \A t \in stops : Index(s) <= Index(t) BY <1>3, <3>1, FirstExists DEF Base
      <3> QED BY <3>2
    <2>2. req' = [req EXCEPT ![p] = [Loop EXCEPT !.pc = "execute", !.step = first]] BY <1>3 DEF Pick, Go
    <2>3. stops \subseteq Live OBVIOUS
    <2> HIDE DEF stops, first
    <2>4. [Loop EXCEPT !.pc = "execute", !.step = first] = Picked(first) BY LoopIs DEF Picked
    <2> QED BY <1>2, <1>3, <2>1, <2>2, <2>3, <2>4
  <1>4. CASE ~(stops # {} /\ Executable(first) /\ PriorDone(first))
    BY <1>2, <1>4 DEF Pick, End, Go
  <1> QED BY <1>3, <1>4

LEMMA PickBase ==
  ASSUME Base, NEW p \in Requests, Pick(p)
  PROVE  Base'
PROOF
  <1>1. ~At(p, "idle") /\ UNCHANGED <<run, steps, made, policy, edits, faults, history>> BY DEF Pick, At
  <1>2. faults' \in Nat /\ wrong' \subseteq Faulty BY <1>1 DEF history, Base, TypeOK, Faulty
  <1>3. CASE End(p) BY <1>1, <1>2, <1>3, EndBase
  <1>4. ASSUME NEW s \in Live, req' = [req EXCEPT ![p] = Picked(s)] PROVE Base'
    <2>1. s \in Steps /\ s <= made /\ run # "none" BY StepLive, PickFacts DEF Base, Fresh
    <2>2. "continue" \in Workers BY DEF Workers
    <2>3. Picked(s) \in RequestType /\ ShapeOf(Picked(s)) BY <2>1, <2>2, NoRowType, NoStatementType DEF Picked
    <2>4. Picked(s).step = s /\ DOMAIN Picked(s).todo = {} BY DEF Picked
    <2> QED BY <1>1, <1>2, <1>4, <2>1, <2>3, <2>4, GoBase DEF history
  <1> QED BY <1>3, <1>4, PickFacts

LEMMA RefusedBase ==
  ASSUME Base, NEW p \in Requests, ExecuteRefused(p)
  PROVE  Base'
PROOF
  <1>1. ~At(p, "idle") /\ End(p) /\ UNCHANGED <<run, steps, made, policy, edits, faults, history>>
    BY DEF ExecuteRefused, At
  <1>2. faults' \in Nat BY <1>1 DEF Base, TypeOK
  <1> QED BY <1>1, <1>2, EndBase

LEMMA FaultBase ==
  ASSUME Base, NEW p \in Requests, Fault(p)
  PROVE  Base'
PROOF
  <1>1. ~At(p, "idle") /\ End(p) /\ UNCHANGED <<run, steps, made, policy, edits, history>>
    BY DEF Fault, Busy
  <1>2. faults' \in Nat BY DEF Fault, Base, TypeOK
  <1> QED BY <1>1, <1>2, EndBase

\* What completeRunWhenAllPlanStepsDone makes of a request: it completes the run, or not.
Completing(p) ==
  Request(req[p].op, req[p].step, <<SetRun("completed")>>, IF req[p].op = "continue" THEN "pick" ELSE "idle")

LEMMA SettleFacts ==
  ASSUME Base, NEW p \in Requests, Settle(p)
  PROVE  /\ run # "none" /\ req[p].op \in Workers /\ req[p].step \in Steps /\ req[p].step <= made
         /\ \/ MustComplete /\ req' = [req EXCEPT ![p] = Completing(p)]
            \/ ~MustComplete /\ req[p].op = "continue" /\ Go(p, Loop)
            \/ ~MustComplete /\ req[p].op # "continue" /\ End(p)
PROOF
  <1>1. req[p].pc = "settle" BY DEF Settle, At
  <1>2. run # "none" /\ req[p].op \in Workers /\ req[p].step \in Steps /\ req[p].step <= made
    BY <1>1, Between DEF WorkerShape
  <1>3. CASE MustComplete BY <1>2, <1>3, HandleIsRequest DEF Settle, Completing
  <1>4. CASE ~MustComplete BY <1>2, <1>4 DEF Settle, End, Go
  <1> QED BY <1>3, <1>4

LEMMA CompletingType ==
  ASSUME Base, NEW p \in Requests, req[p].op \in Workers, req[p].step \in Steps
  PROVE  /\ Completing(p) \in RequestType /\ ShapeOf(Completing(p)) /\ Completing(p).step = req[p].step
         /\ \A k \in DOMAIN Completing(p).todo : Completing(p).todo[k].step = 0
PROOF
  <1> DEFINE then == IF req[p].op = "continue" THEN "pick" ELSE "idle"
             v == SetRun("completed")
             r == Completing(p)
  <1>1. then \in {"idle", "pick"} /\ (then = "pick" => req[p].op = "continue") OBVIOUS
  <1>2. r = [pc |-> "write", op |-> req[p].op, step |-> req[p].step, todo |-> <<v>>, row |-> NoRow, then |-> then]
    BY DEF Completing, Request
  <1> HIDE DEF then, r
  <1>3. "completed" \in RunStatuses BY DEF RunStatuses
  <1>4. v \in StatementType /\ WellFormed(v) /\ ~DoneBy(v) /\ v.kind = "run" BY <1>3, RunType
  <1>5. v.step = 0 BY DEF SetRun
  <1> HIDE DEF v
  <1>6. WorksOn(v, req[p].step) BY <1>4 DEF WorksOn
  <1>7. r \in RequestType /\ ShapeOf(r) BY <1>1, <1>2, <1>4, <1>6, NoRowType, OneStatementType
  <1>8. r.step = req[p].step /\ r.todo = <<v>> BY <1>2
  <1>9. \A k \in DOMAIN r.todo : r.todo[k].step = 0 BY <1>4, <1>5, <1>8, OneOf
  <1> QED BY <1>7, <1>8, <1>9 DEF r

LEMMA SettleBase ==
  ASSUME Base, NEW p \in Requests, Settle(p)
  PROVE  Base'
PROOF
  <1>1. ~At(p, "idle") /\ UNCHANGED <<run, steps, made, policy, edits, faults, history>> BY DEF Settle, At
  <1>2. faults' \in Nat /\ wrong' \subseteq Faulty BY <1>1 DEF history, Base, TypeOK, Faulty
  <1>3. run # "none" /\ req[p].op \in Workers /\ req[p].step \in Steps /\ req[p].step <= made BY SettleFacts
  <1>4. CASE req' = [req EXCEPT ![p] = Completing(p)]
    <2>1. /\ Completing(p) \in RequestType /\ ShapeOf(Completing(p)) /\ Completing(p).step = req[p].step
          /\ \A k \in DOMAIN Completing(p).todo : Completing(p).todo[k].step = 0
      BY <1>3, CompletingType
    <2>2. 0 <= made BY BoundsAssumption DEF Base, TypeOK
    <2> QED BY <1>1, <1>2, <1>3, <1>4, <2>1, <2>2, GoBase DEF history
  <1>5. CASE Go(p, Loop) BY <1>1, <1>3, <1>5, ToLoopBase
  <1>6. CASE End(p) BY <1>1, <1>2, <1>6, EndBase
  <1> QED BY <1>4, <1>5, <1>6, SettleFacts

LEMMA EditAgentBase ==
  ASSUME Base, EditAgent
  PROVE  Base'
PROOF
  <1>1. UNCHANGED <<run, steps, made, req, edits, faults, plan, needs, consent>> BY DEF EditAgent
  <1>2. policy' \in DOMAIN Policies
    <2>1. Len(Policies) \in Nat /\ DOMAIN Policies = 1..Len(Policies) BY PoliciesAssumption, LenProperties
    <2> QED BY <2>1 DEF EditAgent, Base, TypeOK
  <1>3. wrong' \subseteq Faulty
    <2>1. wrong \subseteq Faulty /\ "mixed" \in Faulty BY DEF Base, TypeOK, Faulty
    <2> QED BY <2>1 DEF EditAgent
  <1>4. Live' = Live /\ Busy' = Busy BY <1>1 DEF Live, Busy, At
  <1>5. Unique' /\ Shape' /\ Fresh' BY <1>1, <1>4 DEF Base, Unique, Index, Shape, Fresh
  <1>6. TypeOK' BY <1>1, <1>2, <1>3 DEF Base, TypeOK, Faulty
  <1> QED BY <1>5, <1>6 DEF Base

-----------------------------------------------------------------------------
(* The statements of edits                                                  *)

LEMMA ConcatAt ==
  ASSUME NEW S, NEW a \in Seq(S), NEW b \in Seq(S)
  PROVE  /\ a \o b \in Seq(S) /\ Len(a \o b) = Len(a) + Len(b) /\ Len(a) \in Nat /\ Len(b) \in Nat
         /\ \A i \in 1..Len(a) : (a \o b)[i] = a[i]
         /\ \A i \in 1..Len(b) : (a \o b)[Len(a) + i] = b[i]
PROOF
  <1>1. /\ a \o b \in Seq(S) /\ Len(a \o b) = Len(a) + Len(b)
        /\ \A i \in 1..(Len(a) + Len(b)) : (a \o b)[i] = IF i <= Len(a) THEN a[i] ELSE b[i - Len(a)]
    BY ConcatProperties
  <1>2. Len(a) \in Nat /\ Len(b) \in Nat BY LenProperties
  <1> DEFINE c == a \o b
             m == Len(a)
             n == Len(b)
  <1> HIDE DEF c, m, n
  <1>3. m \in Nat /\ n \in Nat /\ \A i \in 1..(m + n) : c[i] = IF i <= m THEN a[i] ELSE b[i - m]
    BY <1>1, <1>2 DEF c, m, n
  <1>4. \A i \in 1..m : c[i] = a[i] BY <1>3
  <1>5. \A i \in 1..n : c[m + i] = b[i]
    <2> TAKE i \in 1..n
    <2>1. m + i \in 1..(m + n) /\ ~(m + i <= m) /\ m + i - m = i BY <1>3
    <2> QED BY <1>3, <2>1
  <1> QED BY <1>1, <1>2, <1>4, <1>5 DEF c, m, n

\* From a place on, the rewritten dependencies of steps of S.
Rewrites(td, from, S, to) ==
  /\ \A k \in (from + 1)..Len(td) : td[k].step \in S /\ Rewriting(td[k], td[k].step, NewDeps(steps[td[k].step].deps, to))
  /\ \A s \in S : NewDeps(steps[s].deps, to) # steps[s].deps => \E k \in (from + 1)..Len(td) : td[k].step = s

LEMMA RewritesAfter ==
  ASSUME NEW a \in Seq(PlainStatements), NEW b, NEW S, NEW to, RewriteOf(b, S, to)
  PROVE  Rewrites(a \o b, Len(a), S, to) /\ a \o b \in Seq(PlainStatements) /\ Len(a \o b) >= Len(a)
PROOF
  <1> DEFINE c == a \o b
             m == Len(a)
             n == Len(b)
  <1>1. b \in Seq(PlainStatements) BY DEF RewriteOf
  <1>2. /\ c \in Seq(PlainStatements) /\ Len(c) = m + n /\ m \in Nat /\ n \in Nat
        /\ \A i \in 1..n : c[m + i] = b[i]
    BY <1>1, ConcatAt
  <1>3. /\ \A k \in 1..n : b[k].step \in S /\ Rewriting(b[k], b[k].step, NewDeps(steps[b[k].step].deps, to))
        /\ \A s \in S : NewDeps(steps[s].deps, to) # steps[s].deps => \E k \in 1..n : b[k].step = s
    BY DEF RewriteOf
  <1> HIDE DEF c, m, n
  <1>4. \A k \in (m + 1)..(m + n) : k - m \in 1..n /\ c[k] = b[k - m]
    <2> TAKE k \in (m + 1)..(m + n)
    <2>1. k - m \in 1..n /\ m + (k - m) = k BY <1>2
    <2> QED BY <1>2, <2>1
  <1>5. \A k \in (m + 1)..(m + n) : c[k].step \in S /\ Rewriting(c[k], c[k].step, NewDeps(steps[c[k].step].deps, to))
    BY <1>3, <1>4
  <1>6. \A s \in S : NewDeps(steps[s].deps, to) # steps[s].deps => \E k \in (m + 1)..(m + n) : c[k].step = s
    <2> TAKE s \in S
    <2> HAVE NewDeps(steps[s].deps, to) # steps[s].deps
    <2>1. PICK k \in 1..n : b[k].step = s BY <1>3
    <2>2. m + k \in (m + 1)..(m + n) BY <1>2
    <2> QED BY <1>2, <2>1, <2>2
  <1>7. Rewrites(c, m, S, to) BY <1>2, <1>5, <1>6 DEF Rewrites
  <1>8. Len(c) >= m BY <1>2
  <1> QED BY <1>2, <1>7, <1>8 DEF c, m

\* The statements of CreatePlanStepDraft.
CreateLayout(td, list, new, at, tool, deps, to) ==
  LET n == Len(list) IN
  /\ td \in Seq(PlainStatements) /\ Len(td) >= n + 1 + n
  /\ \A k \in 1..n : Moving(td[k], list[k], MaxIndex + k)
  /\ Inserting(td[n + 1], new, at, tool, deps)
  /\ \A k \in 1..n : Moving(td[n + 1 + k], list[k], Index(list[k]) + 1)
  /\ Rewrites(td, n + 1 + n, Live, to)

LEMMA CreateLayoutFacts ==
  ASSUME TypeOK, Unique, NEW S \in SUBSET Live, NEW to, Renumbering(to),
         NEW new \in Steps, NEW at \in Nat \ {0}, NEW tool \in Tools, NEW deps \in SUBSET (Nat \ {0})
  PROVE  CreateLayout(Buffer(InOrder(S)) \o <<Insert(new, at, tool, deps)>> \o Shift(InOrder(S), 1) \o Rewrite(Live, to),
                      InOrder(S), new, at, tool, deps, to)
PROOF
  <1> DEFINE list == InOrder(S)
             n == Len(list)
             a == Buffer(list)
             i == Insert(new, at, tool, deps)
             c == Shift(list, 1)
             r == Rewrite(Live, to)
  <1>1. Sorted(list, S) BY InOrderSorted
  <1>2. \A s \in S : Index(s) + 1 > 0 BY LiveSteps, RowType
  <1>3. Inserting(i, new, at, tool, deps) BY InsertFacts
  <1>4. RewriteOf(r, Live, to) BY RewriteListFacts
  <1> HIDE DEF list, i, r
  <1>5. BufferOf(a, list) /\ ShiftOf(c, list, 1) BY <1>1, <1>2, BufferFacts, ShiftFacts
  <1> HIDE DEF a, c
  <1>6. /\ a \in Seq(PlainStatements) /\ Len(a) = n /\ \A k \in 1..n : Moving(a[k], list[k], MaxIndex + k)
        /\ c \in Seq(PlainStatements) /\ Len(c) = n /\ \A k \in 1..n : Moving(c[k], list[k], Index(list[k]) + 1)
    BY <1>5 DEF BufferOf, ShiftOf
  <1>7. i \in PlainStatements BY <1>3 DEF Inserting
  <1>8. <<i>> \in Seq(PlainStatements) /\ Len(<<i>>) = 1 /\ <<i>>[1] = i BY <1>7, OneOf
  <1> DEFINE d == a \o <<i>>
             e == d \o c
             td == e \o r
  <1>9. /\ d \in Seq(PlainStatements) /\ Len(d) = n + 1 /\ n \in Nat
        /\ \A k \in 1..n : d[k] = a[k]
        /\ d[n + 1] = i
    <2>1. /\ d \in Seq(PlainStatements) /\ Len(d) = Len(a) + Len(<<i>>) /\ Len(a) \in Nat
          /\ \A k \in 1..Len(a) : d[k] = a[k]
          /\ \A k \in 1..Len(<<i>>) : d[Len(a) + k] = <<i>>[k]
      BY <1>6, <1>8, ConcatAt
    <2>2. 1 \in 1..Len(<<i>>) BY <1>8
    <2> HIDE DEF d, n
    <2> QED BY <1>6, <1>8, <2>1, <2>2
  <1> HIDE DEF d, n
  <1>10. /\ e \in Seq(PlainStatements) /\ Len(e) = n + 1 + n
         /\ \A k \in 1..(n + 1) : e[k] = d[k]
         /\ \A k \in 1..n : e[n + 1 + k] = c[k]
    <2>1. /\ e \in Seq(PlainStatements) /\ Len(e) = Len(d) + Len(c)
          /\ \A k \in 1..Len(d) : e[k] = d[k]
          /\ \A k \in 1..Len(c) : e[Len(d) + k] = c[k]
      <3>1. d \in Seq(PlainStatements) /\ c \in Seq(PlainStatements) BY <1>6, <1>9
      <3> QED BY <3>1, ConcatAt
    <2> HIDE DEF e
    <2> QED BY <1>6, <1>9, <2>1
  <1> HIDE DEF e
  <1>11. /\ td \in Seq(PlainStatements) /\ Len(td) >= Len(e) /\ Rewrites(td, Len(e), Live, to)
         /\ \A k \in 1..Len(e) : td[k] = e[k]
    <2>1. r \in Seq(PlainStatements) BY <1>4 DEF RewriteOf
    <2>2. \A k \in 1..Len(e) : td[k] = e[k] BY <1>10, <2>1, ConcatAt
    <2> QED BY <1>4, <1>10, <2>2, RewritesAfter
  <1> HIDE DEF td
  <1>12. \A k \in 1..n : td[k] = a[k] /\ td[n + 1 + k] = c[k]
    <2> TAKE k \in 1..n
    <2>1. k \in 1..(n + 1) /\ k \in 1..Len(e) /\ n + 1 + k \in 1..Len(e) BY <1>9, <1>10
    <2> QED BY <1>9, <1>10, <1>11, <2>1
  <1>13. td[n + 1] = i
    <2>1. n + 1 \in 1..(n + 1) /\ n + 1 \in 1..Len(e) BY <1>9, <1>10
    <2> QED BY <1>9, <1>10, <1>11, <2>1
  <1>14. CreateLayout(td, list, new, at, tool, deps, to)
    BY <1>3, <1>6, <1>10, <1>11, <1>12, <1>13 DEF CreateLayout, n
  <1>15. td = Buffer(InOrder(S)) \o <<Insert(new, at, tool, deps)>> \o Shift(InOrder(S), 1) \o Rewrite(Live, to)
    BY DEF td, e, d, a, c, i, r, list
  <1> QED BY <1>14, <1>15 DEF list

\* The statements of DeletePlanStepDraft.
DeleteLayout(td, s, list, to) ==
  LET n == Len(list) IN
  /\ td \in Seq(PlainStatements) /\ Len(td) >= 1 + n + n
  /\ Deleting(td[1], s)
  /\ \A k \in 1..n : Moving(td[1 + k], list[k], MaxIndex + k)
  /\ \A k \in 1..n : Moving(td[1 + n + k], list[k], Index(list[k]) - 1)
  /\ Rewrites(td, 1 + n + n, Live \ {s}, to)

LEMMA DeleteLayoutFacts ==
  ASSUME TypeOK, Unique, NEW S \in SUBSET Live, NEW to, Renumbering(to), NEW s \in Steps, \A t \in S : Index(t) > 1
  PROVE  DeleteLayout(<<Delete(s)>> \o Buffer(InOrder(S)) \o Shift(InOrder(S), -1) \o Rewrite(Live \ {s}, to),
                      s, InOrder(S), to)
PROOF
  <1> DEFINE list == InOrder(S)
             n == Len(list)
             a == Buffer(list)
             i == Delete(s)
             c == Shift(list, -1)
             r == Rewrite(Live \ {s}, to)
  <1>1. Sorted(list, S) BY InOrderSorted
  <1>2. \A t \in S : Index(t) + (-1) > 0 /\ Index(t) \in Nat BY LiveSteps, RowType
  <1>3. Deleting(i, s) BY DeleteFacts
  <1>4. RewriteOf(r, Live \ {s}, to)
    <2>1. Live \ {s} \in SUBSET Live OBVIOUS
    <2> QED BY <2>1, RewriteListFacts
  <1> HIDE DEF list, i, r
  <1>5. BufferOf(a, list) /\ ShiftOf(c, list, -1)
    <2>1. -1 \in Int OBVIOUS
    <2> QED BY <1>1, <1>2, <2>1, BufferFacts, ShiftFacts
  <1> HIDE DEF a, c
  <1>6. /\ a \in Seq(PlainStatements) /\ Len(a) = n /\ \A k \in 1..n : Moving(a[k], list[k], MaxIndex + k)
        /\ c \in Seq(PlainStatements) /\ Len(c) = n /\ \A k \in 1..n : Moving(c[k], list[k], Index(list[k]) + (-1))
    BY <1>5 DEF BufferOf, ShiftOf
  <1>16. n \in Nat /\ \A k \in 1..n : list[k] \in S BY <1>1, SortedFacts
  <1>17. \A k \in 1..n : Index(list[k]) + (-1) = Index(list[k]) - 1 BY <1>2, <1>16
  <1>7. i \in PlainStatements BY <1>3 DEF Deleting
  <1>8. <<i>> \in Seq(PlainStatements) /\ Len(<<i>>) = 1 /\ <<i>>[1] = i BY <1>7, OneOf
  <1> DEFINE d == <<i>> \o a
             e == d \o c
             td == e \o r
  <1>9. /\ d \in Seq(PlainStatements) /\ Len(d) = 1 + n
        /\ d[1] = i
        /\ \A k \in 1..n : d[1 + k] = a[k]
    <2>1. /\ d \in Seq(PlainStatements) /\ Len(d) = Len(<<i>>) + Len(a) /\ Len(a) \in Nat
          /\ \A k \in 1..Len(<<i>>) : d[k] = <<i>>[k]
          /\ \A k \in 1..Len(a) : d[Len(<<i>>) + k] = a[k]
      BY <1>6, <1>8, ConcatAt
    <2>2. 1 \in 1..Len(<<i>>) BY <1>8
    <2> HIDE DEF d, n
    <2> QED BY <1>6, <1>8, <2>1, <2>2
  <1> HIDE DEF d, n
  <1>10. /\ e \in Seq(PlainStatements) /\ Len(e) = 1 + n + n
         /\ \A k \in 1..(1 + n) : e[k] = d[k]
         /\ \A k \in 1..n : e[1 + n + k] = c[k]
    <2>1. /\ e \in Seq(PlainStatements) /\ Len(e) = Len(d) + Len(c)
          /\ \A k \in 1..Len(d) : e[k] = d[k]
          /\ \A k \in 1..Len(c) : e[Len(d) + k] = c[k]
      <3>1. d \in Seq(PlainStatements) /\ c \in Seq(PlainStatements) BY <1>6, <1>9
      <3> QED BY <3>1, ConcatAt
    <2> HIDE DEF e
    <2> QED BY <1>6, <1>9, <2>1
  <1> HIDE DEF e
  <1>11. /\ td \in Seq(PlainStatements) /\ Len(td) >= Len(e) /\ Rewrites(td, Len(e), Live \ {s}, to)
         /\ \A k \in 1..Len(e) : td[k] = e[k]
    <2>1. r \in Seq(PlainStatements) BY <1>4 DEF RewriteOf
    <2>2. \A k \in 1..Len(e) : td[k] = e[k] BY <1>10, <2>1, ConcatAt
    <2> QED BY <1>4, <1>10, <2>2, RewritesAfter
  <1> HIDE DEF td
  <1>12. \A k \in 1..n : td[1 + k] = a[k] /\ td[1 + n + k] = c[k]
    <2> TAKE k \in 1..n
    <2>1. 1 + k \in 1..(1 + n) /\ 1 + k \in 1..Len(e) /\ 1 + n + k \in 1..Len(e) BY <1>10, <1>16
    <2> QED BY <1>9, <1>10, <1>11, <2>1
  <1>13. td[1] = i
    <2>1. 1 \in 1..(1 + n) /\ 1 \in 1..Len(e) BY <1>10, <1>16
    <2> QED BY <1>9, <1>10, <1>11, <2>1
  <1>14. DeleteLayout(td, s, list, to)
    BY <1>3, <1>6, <1>10, <1>11, <1>12, <1>13, <1>17 DEF DeleteLayout, n
  <1>15. td = <<Delete(s)>> \o Buffer(InOrder(S)) \o Shift(InOrder(S), -1) \o Rewrite(Live \ {s}, to)
    BY DEF td, e, d, a, c, i, r, list
  <1> QED BY <1>14, <1>15 DEF list

LEMMA ThreeOf ==
  ASSUME NEW S, NEW u \in S, NEW v \in S, NEW w \in S
  PROVE  /\ <<u, v, w>> \in Seq(S) /\ Len(<<u, v, w>>) = 3
         /\ <<u, v, w>>[1] = u /\ <<u, v, w>>[2] = v /\ <<u, v, w>>[3] = w
PROOF OBVIOUS

\* The statements of MovePlanStep.
MoveLayout(td, s, t, to) ==
  /\ td \in Seq(PlainStatements) /\ Len(td) >= 3
  /\ Moving(td[1], s, MaxIndex + 1) /\ Moving(td[2], t, Index(s)) /\ Moving(td[3], s, Index(t))
  /\ Rewrites(td, 3, Live, to)

LEMMA MoveLayoutFacts ==
  ASSUME TypeOK, Unique, NEW s \in Live, NEW t \in Live, NEW to, Renumbering(to)
  PROVE  MoveLayout(<<Move(s, MaxIndex + 1), Move(t, Index(s)), Move(s, Index(t))>> \o Rewrite(Live, to), s, t, to)
PROOF
  <1> DEFINE u == Move(s, MaxIndex + 1)
             v == Move(t, Index(s))
             w == Move(s, Index(t))
             a == <<u, v, w>>
             r == Rewrite(Live, to)
             td == a \o r
  <1>1. /\ s \in Steps /\ t \in Steps /\ Index(s) \in Nat \ {0} /\ Index(t) \in Nat \ {0}
        /\ MaxIndex + 1 \in Nat \ {0}
    BY StepLive, RowType, MaxIndexFacts
  <1>2. Moving(u, s, MaxIndex + 1) /\ Moving(v, t, Index(s)) /\ Moving(w, s, Index(t)) BY <1>1, MoveFacts
  <1>3. RewriteOf(r, Live, to) BY RewriteListFacts
  <1> HIDE DEF u, v, w, r
  <1>4. u \in PlainStatements /\ v \in PlainStatements /\ w \in PlainStatements BY <1>2 DEF Moving
  <1>5. a \in Seq(PlainStatements) /\ Len(a) = 3 /\ a[1] = u /\ a[2] = v /\ a[3] = w BY <1>4, ThreeOf
  <1> HIDE DEF a
  <1>6. td \in Seq(PlainStatements) /\ Len(td) >= Len(a) /\ Rewrites(td, Len(a), Live, to) BY <1>3, <1>5, RewritesAfter
  <1>7. \A k \in 1..Len(a) : td[k] = a[k]
    <2>1. r \in Seq(PlainStatements) BY <1>3 DEF RewriteOf
    <2> QED BY <1>5, <2>1, ConcatAt
  <1> HIDE DEF td
  <1>8. td[1] = u /\ td[2] = v /\ td[3] = w BY <1>5, <1>7
  <1>9. MoveLayout(td, s, t, to) BY <1>2, <1>5, <1>6, <1>8 DEF MoveLayout
  <1>10. td = <<Move(s, MaxIndex + 1), Move(t, Index(s)), Move(s, Index(t))>> \o Rewrite(Live, to) BY DEF td, a, u, v, w, r
  <1> QED BY <1>9, <1>10

\* The statements of StartPlanningRun that has an answer.
StartLayout(td, specs) ==
  /\ td \in Seq(PlainStatements) /\ Len(td) = Len(specs) + 1
  /\ \A k \in 1..Len(specs) : Inserting(td[k], made + k, 1 + k - 1, specs[k].tool, specs[k].deps)
  /\ Pausing(td[Len(specs) + 1], "pending_approval")

LEMMA StartLayoutFacts ==
  ASSUME TypeOK, NEW specs \in Plans, made + Len(specs) <= MaxSteps
  PROVE  StartLayout(InsertAll(1, specs) \o <<SetRun("pending_approval")>>, specs)
PROOF
  <1> DEFINE a == InsertAll(1, specs)
             v == SetRun("pending_approval")
             n == Len(specs)
             td == a \o <<v>>
  <1>1. InsertsOf(a, 1, specs) BY InsertAllFacts
  <1>2. Pausing(v, "pending_approval") BY PauseFacts
  <1> HIDE DEF a, v
  <1>3. <<v>> \in Seq(PlainStatements) /\ Len(<<v>>) = 1 /\ <<v>>[1] = v BY <1>2, OneOf DEF Pausing
  <1>4. /\ a \in Seq(PlainStatements) /\ Len(a) = n
        /\ \A k \in 1..n : Inserting(a[k], made + k, 1 + k - 1, specs[k].tool, specs[k].deps)
    BY <1>1 DEF InsertsOf
  <1>5. /\ td \in Seq(PlainStatements) /\ Len(td) = n + 1 /\ n \in Nat
        /\ \A k \in 1..n : td[k] = a[k]
        /\ td[n + 1] = v
    <2>1. /\ td \in Seq(PlainStatements) /\ Len(td) = Len(a) + Len(<<v>>) /\ Len(a) \in Nat
          /\ \A k \in 1..Len(a) : td[k] = a[k]
          /\ \A k \in 1..Len(<<v>>) : td[Len(a) + k] = <<v>>[k]
      BY <1>3, <1>4, ConcatAt
    <2>2. 1 \in 1..Len(<<v>>) BY <1>3
    <2> HIDE DEF td, n
    <2> QED BY <1>3, <1>4, <2>1, <2>2
  <1> HIDE DEF td
  <1>6. StartLayout(td, specs) BY <1>2, <1>4, <1>5 DEF StartLayout
  <1> QED BY <1>6 DEF td, a, v

\* The statements of AdjustPlanSteps.
AdjustLayout(td, rest, first, specs) ==
  LET n == Len(rest) IN
  /\ td \in Seq(PlainStatements) /\ Len(td) = n + Len(specs) + 1
  /\ \A k \in 1..n : Deleting(td[k], rest[k])
  /\ \A k \in 1..Len(specs) : Inserting(td[n + k], made + k, first + k - 1, specs[k].tool, specs[k].deps)
  /\ Pausing(td[n + Len(specs) + 1], "pending_approval")

LEMMA AdjustLayoutFacts ==
  ASSUME TypeOK, NEW specs \in Plans, made + Len(specs) <= MaxSteps, NEW first \in Nat \ {0},
         NEW S \in SUBSET Live, NEW rest, Sorted(rest, S)
  PROVE  AdjustLayout([k \in 1..Len(rest) |-> Delete(rest[k])] \o InsertAll(first, specs) \o <<SetRun("pending_approval")>>,
                      rest, first, specs)
PROOF
  <1> DEFINE a == [k \in 1..Len(rest) |-> Delete(rest[k])]
             b == InsertAll(first, specs)
             v == SetRun("pending_approval")
             n == Len(rest)
             l == Len(specs)
             c == a \o b
             td == c \o <<v>>
  <1>1. n \in Nat /\ \A k \in 1..n : rest[k] \in Steps BY SortedFacts
  <1>2. \A k \in 1..n : Deleting(a[k], rest[k])
    <2> TAKE k \in 1..n
    <2>1. a[k] = Delete(rest[k]) OBVIOUS
    <2> QED BY <1>1, <2>1, DeleteFacts
  <1>3. a = [k \in 1..n |-> a[k]] OBVIOUS
  <1>4. Pausing(v, "pending_approval") BY PauseFacts
  <1>5. InsertsOf(b, first, specs) BY InsertAllFacts
  <1>6. l \in Nat BY PlanFacts
  <1> HIDE DEF a, b, v
  <1>7. a \in Seq(PlainStatements) /\ Len(a) = n
    <2>1. \A k \in 1..n : a[k] \in PlainStatements BY <1>2 DEF Deleting
    <2> HIDE DEF n
    <2> QED BY <1>1, <1>3, <2>1, SeqOf
  <1>8. <<v>> \in Seq(PlainStatements) /\ Len(<<v>>) = 1 /\ <<v>>[1] = v BY <1>4, OneOf DEF Pausing
  <1>9. /\ b \in Seq(PlainStatements) /\ Len(b) = l
        /\ \A k \in 1..l : Inserting(b[k], made + k, first + k - 1, specs[k].tool, specs[k].deps)
    BY <1>5 DEF InsertsOf
  <1>10. /\ c \in Seq(PlainStatements) /\ Len(c) = n + l
         /\ \A k \in 1..n : c[k] = a[k]
         /\ \A k \in 1..l : c[n + k] = b[k]
    <2>1. a \in Seq(PlainStatements) /\ b \in Seq(PlainStatements) BY <1>7, <1>9
    <2>2. /\ c \in Seq(PlainStatements) /\ Len(c) = Len(a) + Len(b)
          /\ \A k \in 1..Len(a) : c[k] = a[k]
          /\ \A k \in 1..Len(b) : c[Len(a) + k] = b[k]
      BY <2>1, ConcatAt
    <2> HIDE DEF c, n, l
    <2> QED BY <1>7, <1>9, <2>2
  <1> HIDE DEF c, n, l
  <1>11. /\ td \in Seq(PlainStatements) /\ Len(td) = n + l + 1
         /\ \A k \in 1..(n + l) : td[k] = c[k]
         /\ td[n + l + 1] = v
    <2>1. c \in Seq(PlainStatements) /\ <<v>> \in Seq(PlainStatements) BY <1>8, <1>10
    <2>2. /\ td \in Seq(PlainStatements) /\ Len(td) = Len(c) + Len(<<v>>)
          /\ \A k \in 1..Len(c) : td[k] = c[k]
          /\ \A k \in 1..Len(<<v>>) : td[Len(c) + k] = <<v>>[k]
      BY <2>1, ConcatAt
    <2>3. 1 \in 1..Len(<<v>>) BY <1>8
    <2> HIDE DEF td
    <2> QED BY <1>8, <1>10, <2>2, <2>3
  <1> HIDE DEF td
  <1>12. \A k \in 1..n : td[k] = a[k]
    <2> TAKE k \in 1..n
    <2>1. k \in 1..(n + l) BY <1>1, <1>6 DEF n, l
    <2> QED BY <1>10, <1>11, <2>1
  <1>13. \A k \in 1..l : td[n + k] = b[k]
    <2> TAKE k \in 1..l
    <2>1. n + k \in 1..(n + l) BY <1>1, <1>6 DEF n, l
    <2> QED BY <1>10, <1>11, <2>1
  <1>14. AdjustLayout(td, rest, first, specs) BY <1>2, <1>4, <1>9, <1>11, <1>12, <1>13 DEF AdjustLayout, n, l
  <1> QED BY <1>14 DEF td, c, a, b, v, n

\* What UpdatePlanStepDraft writes.
Updating(w, s, tool, deps) ==
  /\ w \in EditStatements /\ w.kind = "set" /\ w.step = s /\ w.row.tool = tool /\ w.row.deps = deps
  /\ "index" \notin w.fields /\ {"tool", "deps", "approval"} \subseteq w.fields
  /\ w.row.approval \in {"pending", "not_required"} /\ w.row.status = "pending"
  /\ ApprovedRow(steps[s]) => "status" \in w.fields

LEMMA UpdateFacts ==
  ASSUME TypeOK, NEW s \in Steps, NEW tool \in Tools, NEW deps \in SUBSET (Nat \ {0})
  PROVE  Updating(UpdatePatch(s, tool, deps), s, tool, deps)
PROOF
  <1> DEFINE row == [NoRow EXCEPT !.tool = tool, !.deps = deps]
             row2 == [row EXCEPT !.approval = FirstApproval(tool)]
             w == UpdatePatch(s, tool, deps)
  <1>1. row \in Row /\ row.tool = tool /\ row.deps = deps /\ row.approval = "pending" /\ row.status = "pending"
    BY DEF NoRow, Row, Statuses, Approvals
  <1> HIDE DEF row
  <1>2. FirstApproval(tool) \in {"pending", "not_required"} BY DEF FirstApproval
  <1>3. row2 \in Row /\ row2.tool = tool /\ row2.deps = deps /\ row2.approval = FirstApproval(tool) /\ row2.status = "pending"
    BY <1>1, <1>2 DEF Row, Approvals
  <1> HIDE DEF row2
  <1>4. w = IF "approved" \in {steps[s].status, steps[s].approval}
            THEN Set(s, {"tool", "deps", "status", "approval"}, row) ELSE Set(s, {"tool", "deps", "approval"}, row2)
    BY DEF UpdatePatch, row, row2
  <1>5. ASSUME NEW fields \in SUBSET {"index", "status", "approval", "deps", "tool"}, NEW r \in Row,
               r.status = "pending", "index" \notin fields
        PROVE /\ Set(s, fields, r) \in EditStatements /\ Set(s, fields, r).kind = "set" /\ Set(s, fields, r).step = s
              /\ Set(s, fields, r).fields = fields /\ Set(s, fields, r).row = r
    <2> DEFINE x == Set(s, fields, r)
    <2>1. x \in StatementType BY SetType
    <2>2. x.kind = "set" /\ x.step = s /\ x.fields = fields /\ x.row = r BY DEF Set
    <2> HIDE DEF x
    <2>3. WellFormed(x) /\ ~DoneBy(x) /\ ~Completes(x) BY <1>5, <2>2 DEF WellFormed, DoneBy, Completes, Sets
    <2>4. x \in EditStatements BY <2>1, <2>3 DEF EditStatements
    <2> QED BY <2>2, <2>4 DEF x
  <1> HIDE DEF w
  <1>6. CASE "approved" \in {steps[s].status, steps[s].approval}
    <2> DEFINE f == {"tool", "deps", "status", "approval"}
    <2>1. f \in SUBSET {"index", "status", "approval", "deps", "tool"} /\ "index" \notin f /\ "status" \in f
          /\ {"tool", "deps", "approval"} \subseteq f
      OBVIOUS
    <2>2. w = Set(s, f, row) BY <1>4, <1>6
    <2> HIDE DEF f
    <2>3. w \in EditStatements /\ w.kind = "set" /\ w.step = s /\ w.fields = f /\ w.row = row BY <1>1, <1>5, <2>1, <2>2
    <2>4. Updating(w, s, tool, deps) BY <1>1, <2>1, <2>3 DEF Updating
    <2> QED BY <2>4 DEF w
  <1>7. CASE ~("approved" \in {steps[s].status, steps[s].approval})
    <2> DEFINE f == {"tool", "deps", "approval"}
    <2>1. f \in SUBSET {"index", "status", "approval", "deps", "tool"} /\ "index" \notin f
          /\ {"tool", "deps", "approval"} \subseteq f
      OBVIOUS
    <2>2. w = Set(s, f, row2) BY <1>4, <1>7
    <2> HIDE DEF f
    <2>3. w \in EditStatements /\ w.kind = "set" /\ w.step = s /\ w.fields = f /\ w.row = row2 BY <1>3, <1>5, <2>1, <2>2
    <2>4. ~ApprovedRow(steps[s]) BY <1>7 DEF ApprovedRow
    <2>5. Updating(w, s, tool, deps) BY <1>2, <1>3, <2>1, <2>3, <2>4 DEF Updating
    <2> QED BY <2>5 DEF w
  <1> QED BY <1>6, <1>7

\* What ApprovePlanStep writes.
ToAccept(s) == Set(s, {"status", "approval"}, [NoRow EXCEPT !.status = "approved", !.approval = "approved"])
Accepting(w, s) ==
  /\ w \in EditStatements /\ w.kind = "set" /\ w.step = s /\ w.fields = {"status", "approval"}
  /\ w.row.status = "approved" /\ w.row.approval = "approved"

LEMMA AcceptFacts ==
  ASSUME NEW s \in Steps
  PROVE  Accepting(ToAccept(s), s)
PROOF
  <1> DEFINE row == [NoRow EXCEPT !.status = "approved", !.approval = "approved"]
             f == {"status", "approval"}
             w == Set(s, f, row)
  <1>1. row \in Row /\ row.approval = "approved" /\ row.status = "approved" BY DEF NoRow, Row, Statuses, Approvals
  <1>2. f \in SUBSET {"index", "status", "approval", "deps", "tool"} /\ "index" \notin f OBVIOUS
  <1> HIDE DEF row
  <1>3. w \in StatementType BY <1>1, <1>2, SetType
  <1>4. w.kind = "set" /\ w.step = s /\ w.fields = f /\ w.row = row BY DEF Set
  <1>5. ToAccept(s) = w BY DEF ToAccept, row
  <1> HIDE DEF w
  <1>6. WellFormed(w) /\ ~DoneBy(w) /\ ~Completes(w) BY <1>1, <1>2, <1>4 DEF WellFormed, DoneBy, Completes, Sets
  <1>7. w \in EditStatements BY <1>3, <1>6 DEF EditStatements
  <1> QED BY <1>1, <1>4, <1>5, <1>7 DEF Accepting

-----------------------------------------------------------------------------
(* Edits, one by one                                                        *)

Edits(p, op, s, td) ==
  /\ At(p, "idle") /\ s \in Steps \cup {0} /\ s <= made
  /\ \/ op = "start" /\ run = "none" /\ run' = "running"
     \/ op = "edit" /\ run = "pending_approval" /\ run' = run
  /\ td \in Seq(EditStatements) /\ td # <<>> /\ \A k \in DOMAIN td : td[k].step <= made'
  /\ req' = [req EXCEPT ![p] = Request(op, s, td, "idle")]
  /\ wrong \cup Mixes(p, op, s) \subseteq wrong' /\ wrong' \subseteq wrong \cup {"mixed", "loose", "trimmed"}
  /\ steps' = steps /\ policy' = policy /\ faults' = faults
  /\ edits' \in Nat /\ made' \in 0..MaxSteps /\ made <= made'
  /\ plan' \in Seq(Steps) /\ \A k \in DOMAIN plan' : plan'[k] <= made'
  /\ needs' \in [Steps -> SUBSET Steps] /\ consent' \in [Steps -> Tools \cup {NoTool}]

LEMMA EditsBase ==
  ASSUME Base, NEW p \in Requests, NEW op, NEW s, NEW td, Edits(p, op, s, td)
  PROVE  Base'
PROOF
  <1> DEFINE r == Request(op, s, td, "idle")
  <1>1. op \in Editors /\ run' \in RunStatuses \ {"none"} BY DEF Edits, Editors, RunStatuses
  <1>2. s \in Steps \cup {0} /\ td \in Seq(EditStatements) /\ td # <<>> /\ req' = [req EXCEPT ![p] = r]
        /\ \A k \in DOMAIN td : td[k].step <= made'
    BY DEF Edits
  <1>3. r \in RequestType /\ ShapeOf(r) BY <1>1, <1>2, EditorType
  <1>4. r.step = s /\ r.todo = td BY DEF Request
  <1>5. s <= made'
    <2>1. s \in Nat /\ made \in Nat /\ made' \in Nat BY <1>2, BoundsAssumption DEF Steps, Edits, Base, TypeOK
    <2>2. s <= made /\ made <= made' BY DEF Edits
    <2> QED BY <2>1, <2>2
  <1> HIDE DEF r
  <1>6. Becomes(p, r) BY <1>2, <1>3, <1>4, <1>5 DEF Becomes
  <1>7. steps' = steps BY DEF Edits
  <1>8. Live' = Live /\ (Unique' <=> Unique)
    <2>1. Live' = Live BY <1>7 DEF Live
    <2> QED BY <1>7, <2>1 DEF Unique, Index
  <1>9. \A t \in Live' : t <= made'
    <2> TAKE t \in Live'
    <2>1. t \in Nat /\ made \in Nat /\ made' \in Nat
      BY <1>8, StepLive, BoundsAssumption DEF Steps, Edits, Base, TypeOK
    <2>2. t <= made /\ made <= made' BY <1>8 DEF Edits, Base, Fresh
    <2> QED BY <2>1, <2>2
  <1>10. wrong' \subseteq Faulty
    <2>1. wrong \subseteq Faulty BY DEF Base, TypeOK, Faulty
    <2>2. {"mixed", "loose", "trimmed"} \subseteq Faulty BY DEF Faulty
    <2> QED BY <2>1, <2>2 DEF Edits
  <1>11. Typed
    <2>1. policy' \in DOMAIN Policies /\ faults' \in Nat /\ steps' \in [Steps -> Row] BY DEF Edits, Base, TypeOK
    <2>2. Unique' BY <1>8 DEF Base
    <2>3. /\ made' \in 0..MaxSteps /\ made <= made' /\ edits' \in Nat
          /\ plan' \in Seq(Steps) /\ needs' \in [Steps -> SUBSET Steps] /\ consent' \in [Steps -> Tools \cup {NoTool}]
          /\ \A k \in DOMAIN plan' : plan'[k] <= made'
      BY DEF Edits
    <2> QED BY <1>1, <1>9, <1>10, <2>1, <2>2, <2>3 DEF Typed
  <1> QED BY <1>6, <1>11, BaseKept

\* A plan's steps.
LEMMA PlanType ==
  ASSUME Base
  PROVE  /\ plan \in Seq(Steps) /\ Len(plan) \in Nat /\ DOMAIN plan = 1..Len(plan)
         /\ \A k \in 1..Len(plan) : plan[k] \in Steps /\ plan[k] <= made
         /\ made \in Nat /\ made <= MaxSteps
PROOF
  <1>1. plan \in Seq(Steps) /\ made \in 0..MaxSteps BY DEF Base, TypeOK
  <1>2. Len(plan) \in Nat /\ DOMAIN plan = 1..Len(plan) /\ \A k \in 1..Len(plan) : plan[k] \in Steps
    BY <1>1, LenProperties, ElementOfSeq
  <1>3. \A k \in DOMAIN plan : plan[k] <= made BY DEF Base, Fresh
  <1> QED BY <1>1, <1>2, <1>3, BoundsAssumption

LEMMA WithFacts ==
  ASSUME Base, NEW s \in Steps, NEW at \in 1..(Len(plan) + 1)
  PROVE  /\ With(s, at) \in Seq(Steps) /\ Len(With(s, at)) = Len(plan) + 1 /\ DOMAIN With(s, at) = 1..(Len(plan) + 1)
         /\ \A k \in 1..(Len(plan) + 1) :
              With(s, at)[k] = IF k < at THEN plan[k] ELSE IF k = at THEN s ELSE plan[k - 1]
PROOF
  <1> DEFINE n == Len(plan)
             l == With(s, at)
  <1>1. n \in Nat /\ \A k \in 1..n : plan[k] \in Steps BY PlanType
  <1>2. l = [k \in 1..(n + 1) |-> IF k < at THEN plan[k] ELSE IF k = at THEN s ELSE plan[k - 1]] BY DEF With
  <1> HIDE DEF n, l
  <1>3. ASSUME NEW k \in 1..(n + 1) PROVE l[k] \in Steps
    <2>1. k < at => k \in 1..n BY <1>1 DEF n
    <2>2. ~(k < at) /\ k # at => k - 1 \in 1..n BY <1>1 DEF n
    <2> QED BY <1>1, <1>2, <2>1, <2>2
  <1>4. l = [k \in 1..(n + 1) |-> l[k]] /\ n + 1 \in Nat BY <1>1, <1>2
  <1>5. l \in Seq(Steps) /\ Len(l) = n + 1 /\ DOMAIN l = 1..(n + 1) BY <1>3, <1>4, SeqOf
  <1>6. \A k \in 1..(n + 1) : l[k] = IF k < at THEN plan[k] ELSE IF k = at THEN s ELSE plan[k - 1] BY <1>2
  <1> QED BY <1>5, <1>6 DEF n, l

\* Statements whose steps are ids that have been named.
Named(td, n) == \A k \in DOMAIN td : td[k].step <= n

LEMMA MapSet ==
  ASSUME NEW S \in SUBSET Live, NEW list, TypeOK, Base, Sorted(list, S)
  PROVE  \A k \in 1..Len(list) : list[k] <= made
PROOF
  <1>1. \A k \in 1..Len(list) : list[k] \in S BY SortedFacts
  <1> QED BY <1>1 DEF Base, Fresh

\* A place of a list lies in the part before from, at it, or in the part after it.
LEMMA DomainOf ==
  ASSUME NEW S, NEW td \in Seq(S)
  PROVE  DOMAIN td = 1..Len(td) /\ Len(td) \in Nat
PROOF BY LenProperties

LEMMA EditSeq ==
  ASSUME NEW td \in Seq(PlainStatements)
  PROVE  td \in Seq(EditStatements) /\ td \in Seq(StatementType)
PROOF
  <1>1. Len(td) \in Nat /\ td \in [1..Len(td) -> PlainStatements] BY LenProperties
  <1>2. td \in [1..Len(td) -> EditStatements] /\ td \in [1..Len(td) -> StatementType] BY <1>1, PlainIsEdit
  <1> QED BY <1>1, <1>2, SeqDef

\* The index that CreatePlanStepDraft gives a step, and what that makes of others.
Moved(at) == {s \in Live : Index(s) >= at}
UpFrom(at) == [i \in Nat |-> IF \E s \in Moved(at) : Index(s) = i THEN i + 1 ELSE i]

LEMMA UpFromType == \A at : Renumbering(UpFrom(at))
PROOF BY DEF Renumbering, UpFrom

Created(p, at, tool, deps, td) ==
  /\ \/ Live = {} /\ at = 1
     \/ \E anchor \in Live : at = Index(anchor) + 1
  /\ tool \in Tools /\ deps \in SUBSET {Index(s) : s \in Live}
  /\ \A s \in Moved(at) : Adjustable(s)
  /\ made' = made + 1 /\ made + 1 \in Steps
  /\ CreateLayout(td, InOrder(Moved(at)), made + 1, at, tool, NewDeps(deps, UpFrom(at)), UpFrom(at))
  /\ plan' = With(made + 1, IF at <= Len(plan) + 1 THEN at ELSE Len(plan) + 1)
  /\ needs' = [needs EXCEPT ![made + 1] = ById(deps)]
  /\ consent' = consent
  /\ Edits(p, "edit", 0, td)

LEMMA IndexTypes ==
  ASSUME TypeOK
  PROVE  {Index(s) : s \in Live} \subseteq Nat \ {0}
PROOF
  <1>1. \A s \in Live : Index(s) \in Nat \ {0}
    <2> TAKE s \in Live
    <2>1. s \in Steps /\ Index(s) > 0 BY StepLive
    <2>2. Index(s) \in Nat BY <2>1, RowType
    <2> QED BY <2>1, <2>2
  <1> QED BY <1>1

LEMMA ByIdType == \A deps : ById(deps) \subseteq Steps
PROOF BY StepLive DEF ById, AtIndex

LEMMA CreateNamed ==
  ASSUME Base, made' = made + 1, NEW S \in SUBSET Live, NEW td, NEW at, NEW tool, NEW deps, NEW to,
         CreateLayout(td, InOrder(S), made + 1, at, tool, deps, to)
  PROVE  Named(td, made') /\ td # <<>>
PROOF
  <1> DEFINE list == InOrder(S)
             n == Len(list)
             l == Len(td)
  <1>1. Sorted(list, S) BY InOrderSorted DEF Base
  <1> HIDE DEF list
  <1>2. n \in Nat /\ \A k \in 1..n : list[k] \in Live BY <1>1, SortedFacts DEF Base
  <1>3. /\ td \in Seq(PlainStatements) /\ l >= n + 1 + n
        /\ \A k \in 1..n : td[k].step = list[k]
        /\ td[n + 1].step = made + 1
        /\ \A k \in 1..n : td[n + 1 + k].step = list[k]
        /\ \A k \in (n + 1 + n + 1)..l : td[k].step \in Live
    BY DEF CreateLayout, Moving, Inserting, Rewrites, list
  <1>4. DOMAIN td = 1..l /\ l \in Nat BY <1>3, DomainOf
  <1> HIDE DEF n, l
  <1>5. made \in Nat /\ \A s \in Live : s <= made /\ s \in Nat
    BY PlanType, StepLive, BoundsAssumption DEF Base, Fresh, Steps
  <1>6. \A s \in Live : s <= made + 1 BY <1>5
  <1>7. ASSUME NEW k \in 1..l PROVE td[k].step <= made + 1
    <2>1. CASE k <= n
      <3>1. k \in 1..n BY <2>1, <1>2
      <3> QED BY <1>2, <1>3, <1>6, <3>1
    <2>2. CASE k = n + 1 BY <1>3, <1>5, <2>2
    <2>3. CASE k > n + 1 /\ k <= n + 1 + n
      <3>1. k - (n + 1) \in 1..n /\ n + 1 + (k - (n + 1)) = k BY <2>3, <1>2
      <3>2. td[k].step = list[k - (n + 1)] BY <1>3, <3>1
      <3> QED BY <1>2, <1>6, <3>1, <3>2
    <2>4. CASE k > n + 1 + n
      <3>1. k \in (n + 1 + n + 1)..l BY <2>4, <1>2, <1>4
      <3> QED BY <1>3, <1>6, <3>1
    <2> QED BY <1>2, <2>1, <2>2, <2>3, <2>4
  <1>8. td # <<>>
    <2>1. l >= 1 BY <1>2, <1>3, <1>4
    <2>2. Len(<<>>) = 0 OBVIOUS
    <2> QED BY <2>1, <2>2 DEF l
  <1> QED BY <1>4, <1>7, <1>8 DEF Named

LEMMA CreateFacts ==
  ASSUME Base, NEW p \in Requests, CreatePlanStepDraft(p)
  PROVE  \E at \in Nat \ {0} : \E tool, deps, td : Created(p, at, tool, deps, td)
PROOF
  <1>1. PICK anchor \in IF Live = {} THEN {0} ELSE Live, tool \in Tools, deps \in DepChoices(0) :
          LET at == IF anchor = 0 THEN 1 ELSE Index(anchor) + 1
              shifted == {s \in Live : Index(s) >= at}
              to == [i \in Nat |-> IF \E s \in shifted : Index(s) = i THEN i + 1 ELSE i]
          IN
          /\ anchor # 0 => Adjustable(anchor)
          /\ \A s \in shifted : Adjustable(s)
          /\ Begin(p, "edit", 0,
               Buffer(InOrder(shifted)) \o <<Insert(made + 1, at, tool, NewDeps(deps, to))>>
                 \o Shift(InOrder(shifted), 1) \o Rewrite(Live, to),
               "idle")
          /\ plan' = With(made + 1, IF at <= Len(plan) + 1 THEN at ELSE Len(plan) + 1)
          /\ needs' = [needs EXCEPT ![made + 1] = ById(deps)]
          /\ UNCHANGED <<run, steps, policy, faults, consent>>
    BY DEF CreatePlanStepDraft
  <1> DEFINE at == IF anchor = 0 THEN 1 ELSE Index(anchor) + 1
             new == made + 1
             to == UpFrom(at)
             td == Buffer(InOrder(Moved(at))) \o <<Insert(new, at, tool, NewDeps(deps, to))>>
                     \o Shift(InOrder(Moved(at)), 1) \o Rewrite(Live, to)
  <1>2. /\ \A s \in Moved(at) : Adjustable(s)
        /\ Begin(p, "edit", 0, td, "idle")
        /\ plan' = With(new, IF at <= Len(plan) + 1 THEN at ELSE Len(plan) + 1)
        /\ needs' = [needs EXCEPT ![new] = ById(deps)]
        /\ UNCHANGED <<run, steps, policy, faults, consent>>
    BY <1>1 DEF Moved, UpFrom
  <1>3. /\ At(p, "idle") /\ run = "pending_approval" /\ edits' = edits + 1 /\ made + 1 <= MaxSteps /\ made' = made + 1
    BY DEF CreatePlanStepDraft, Edit, Spare
  <1>4. new \in Steps /\ made' \in 0..MaxSteps /\ made <= made' /\ edits' \in Nat /\ made \in Nat
    BY <1>3, BoundsAssumption DEF Steps, Base, TypeOK
  <1>5. at \in Nat \ {0} /\ ((Live = {} /\ at = 1) \/ \E a \in Live : at = Index(a) + 1)
    <2>1. CASE anchor = 0
      <3>1. 0 \notin Live BY StepLive, BoundsAssumption DEF Steps
      <3> QED BY <1>1, <2>1, <3>1
    <2>2. CASE anchor # 0
      <3>1. anchor \in Live BY <1>1, <2>2
      <3>2. anchor \in Steps BY <3>1, StepLive
      <3>3. Index(anchor) \in Nat BY <3>2, RowType DEF Base
      <3> QED BY <2>2, <3>1, <3>3
    <2> QED BY <2>1, <2>2
  <1>6. deps \in SUBSET {Index(s) : s \in Live} /\ deps \in SUBSET (Nat \ {0})
    <2>1. deps \in SUBSET {Index(s) : s \in Live \ {0}} BY DEF DepChoices
    <2>2. deps \in SUBSET {Index(s) : s \in Live} BY <2>1
    <2> QED BY <2>2, IndexTypes DEF Base
  <1> HIDE DEF at
  <1>7. Renumbering(to) BY UpFromType
  <1>8. NewDeps(deps, to) \in SUBSET (Nat \ {0}) BY <1>6, <1>7, NewDepsType
  <1>9. Moved(at) \in SUBSET Live BY DEF Moved
  <1> HIDE DEF to, new
  <1>10. CreateLayout(td, InOrder(Moved(at)), new, at, tool, NewDeps(deps, to), to)
    BY <1>1, <1>4, <1>5, <1>7, <1>8, <1>9, CreateLayoutFacts DEF Base
  <1> HIDE DEF td
  <1>11. Named(td, made') /\ td # <<>> BY <1>3, <1>9, <1>10, CreateNamed DEF new
  <1>12. td \in Seq(EditStatements)
    <2>1. td \in Seq(PlainStatements) BY <1>10 DEF CreateLayout
    <2> QED BY <2>1, EditSeq
  <1>13. plan' \in Seq(Steps) /\ \A k \in DOMAIN plan' : plan'[k] <= made'
    <2> DEFINE i == IF at <= Len(plan) + 1 THEN at ELSE Len(plan) + 1
    <2>1. Len(plan) \in Nat /\ \A k \in 1..Len(plan) : plan[k] <= made /\ plan[k] \in Steps BY PlanType
    <2>2. i \in 1..(Len(plan) + 1) BY <1>5, <2>1
    <2>3. plan' = With(new, i) BY <1>2
    <2> HIDE DEF i
    <2>4. /\ plan' \in Seq(Steps) /\ DOMAIN plan' = 1..(Len(plan) + 1)
          /\ \A k \in 1..(Len(plan) + 1) : plan'[k] = IF k < i THEN plan[k] ELSE IF k = i THEN new ELSE plan[k - 1]
      BY <1>4, <2>2, <2>3, WithFacts
    <2> DEFINE n == Len(plan)
    <2> HIDE DEF n
    <2>5. n \in Nat /\ i \in 1..(n + 1) /\ \A k \in 1..n : plan[k] <= made /\ plan[k] \in Nat
      BY <2>1, <2>2, BoundsAssumption DEF n, Steps
    <2>6. ASSUME NEW k \in 1..(n + 1) PROVE plan'[k] <= made'
      <3>1. plan'[k] = IF k < i THEN plan[k] ELSE IF k = i THEN new ELSE plan[k - 1] BY <2>4 DEF n
      <3>2. CASE k < i
        <4>1. k \in 1..n BY <3>2, <2>5
        <4>2. plan[k] <= made /\ plan[k] \in Nat BY <2>5, <4>1
        <4> QED BY <1>3, <1>4, <3>1, <3>2, <4>2
      <3>3. CASE k = i BY <1>3, <1>4, <3>1, <3>3 DEF new
      <3>4. CASE ~(k < i) /\ k # i
        <4>1. k - 1 \in 1..n BY <3>4, <2>5
        <4>2. plan[k - 1] <= made /\ plan[k - 1] \in Nat BY <2>5, <4>1
        <4> QED BY <1>3, <1>4, <3>1, <3>4, <4>2
      <3> QED BY <3>2, <3>3, <3>4
    <2> QED BY <2>4, <2>6 DEF n
  <1>14. needs' \in [Steps -> SUBSET Steps] /\ consent' \in [Steps -> Tools \cup {NoTool}]
    BY <1>2, ByIdType DEF Base, TypeOK
  <1>15. /\ req' = [req EXCEPT ![p] = Request("edit", 0, td, "idle")] /\ wrong' = wrong \cup Mixes(p, "edit", 0)
    BY <1>2, HandleIsRequest DEF Begin
  <1>16. Edits(p, "edit", 0, td)
    <2>1. 0 <= made BY <1>4
    <2>2. wrong' \subseteq wrong \cup {"mixed", "loose", "trimmed"} BY <1>15, MixesType
    <2> QED BY <1>2, <1>3, <1>4, <1>11, <1>12, <1>13, <1>14, <1>15, <2>1, <2>2 DEF Edits, Named
  <1>17. Created(p, at, tool, deps, td)
    BY <1>1, <1>2, <1>3, <1>4, <1>5, <1>6, <1>10, <1>16 DEF Created, new, to
  <1> QED BY <1>5, <1>17

\* A list whose statements are of named steps, rewritings at the end.
LEMMA RewritesNamed ==
  ASSUME Base, NEW S \in SUBSET Live, NEW td, NEW from, NEW to, Rewrites(td, from, S, to)
  PROVE  \A k \in (from + 1)..Len(td) : td[k].step <= made
PROOF
  <1>1. \A s \in S : s <= made BY DEF Base, Fresh
  <1> QED BY <1>1 DEF Rewrites

\* An edit that names no step.
LEMMA EditsSame ==
  ASSUME Base, NEW p, NEW s \in Steps, s <= made, NEW td, NEW extra,
         At(p, "idle"), Edit, td \in Seq(EditStatements), td # <<>>, Named(td, made), Handle(p, "edit", s, td, "idle"),
         wrong' = wrong \cup Mixes(p, "edit", s) \cup extra, extra \subseteq {"loose", "trimmed"},
         UNCHANGED <<run, steps, made, policy, faults>>,
         plan' \in Seq(Steps), \A k \in DOMAIN plan' : plan'[k] <= made,
         needs' \in [Steps -> SUBSET Steps], consent' \in [Steps -> Tools \cup {NoTool}]
  PROVE  Edits(p, "edit", s, td)
PROOF
  <1>1. run = "pending_approval" /\ edits' \in Nat /\ made' \in 0..MaxSteps /\ made' = made /\ made <= made'
    BY BoundsAssumption DEF Edit, Base, TypeOK
  <1>2. req' = [req EXCEPT ![p] = Request("edit", s, td, "idle")] BY HandleIsRequest
  <1>3. wrong \cup Mixes(p, "edit", s) \subseteq wrong' /\ wrong' \subseteq wrong \cup {"mixed", "loose", "trimmed"}
    BY MixesType
  <1> QED BY <1>1, <1>2, <1>3 DEF Edits, Named

\* What MovePlanStep does with s and its neighbour t.
Swap(s, t) == [i \in Nat |-> IF i = Index(s) THEN Index(t) ELSE IF i = Index(t) THEN Index(s) ELSE i]

Swapped(p, s, t, td) ==
  /\ s \in Live /\ t \in Live /\ s # t /\ Adjustable(s) /\ Adjustable(t)
  /\ MoveLayout(td, s, t, Swap(s, t))
  /\ plan' = [k \in DOMAIN plan |-> IF plan[k] = s THEN t ELSE IF plan[k] = t THEN s ELSE plan[k]]
  /\ UNCHANGED <<made, needs, consent>>
  /\ Edits(p, "edit", s, td)

LEMMA SwapType ==
  ASSUME TypeOK, NEW s \in Live, NEW t \in Live
  PROVE  Renumbering(Swap(s, t))
PROOF
  <1>1. Index(s) \in Nat \ {0} /\ Index(t) \in Nat \ {0} BY StepLive, RowType
  <1> QED BY <1>1 DEF Renumbering, Swap

LEMMA MoveFactsOfPlan ==
  ASSUME Base, NEW p \in Requests, MovePlanStep(p)
  PROVE  \E s, t, td : Swapped(p, s, t, td)
PROOF
  <1>1. PICK s \in Live, t \in Live :
          LET to == [i \in Nat |-> IF i = Index(s) THEN Index(t) ELSE IF i = Index(t) THEN Index(s) ELSE i] IN
          /\ s # t /\ \A u \in Live : ~(Index(u) > Index(s) /\ Index(u) < Index(t)) /\ ~(Index(u) < Index(s) /\ Index(u) > Index(t))
          /\ Adjustable(s) /\ Adjustable(t)
          /\ Begin(p, "edit", s,
               <<Move(s, MaxIndex + 1), Move(t, Index(s)), Move(s, Index(t))>> \o Rewrite(Live, to),
               "idle")
          /\ plan' = [k \in DOMAIN plan |-> IF plan[k] = s THEN t ELSE IF plan[k] = t THEN s ELSE plan[k]]
          /\ UNCHANGED <<run, steps, made, policy, faults, needs, consent>>
    BY DEF MovePlanStep
  <1> DEFINE to == Swap(s, t)
             td == <<Move(s, MaxIndex + 1), Move(t, Index(s)), Move(s, Index(t))>> \o Rewrite(Live, to)
  <1>2. /\ s # t /\ Adjustable(s) /\ Adjustable(t) /\ Begin(p, "edit", s, td, "idle")
        /\ plan' = [k \in DOMAIN plan |-> IF plan[k] = s THEN t ELSE IF plan[k] = t THEN s ELSE plan[k]]
        /\ UNCHANGED <<run, steps, made, policy, faults, needs, consent>>
    BY <1>1 DEF Swap
  <1>3. At(p, "idle") /\ Edit BY DEF MovePlanStep
  <1>4. Renumbering(to) BY SwapType DEF Base
  <1> HIDE DEF to
  <1>5. MoveLayout(td, s, t, to) BY <1>4, MoveLayoutFacts DEF Base
  <1>6. s \in Steps /\ s <= made /\ t <= made /\ t \in Steps BY StepLive DEF Base, Fresh
  <1> HIDE DEF td
  <1>7. td \in Seq(EditStatements) /\ td # <<>> /\ Named(td, made)
    <2>1. /\ td \in Seq(PlainStatements) /\ Len(td) >= 3
          /\ td[1].step = s /\ td[2].step = t /\ td[3].step = s /\ Rewrites(td, 3, Live, to)
      BY <1>5 DEF MoveLayout, Moving
    <2>2. \A k \in (3 + 1)..Len(td) : td[k].step <= made BY <2>1, RewritesNamed
    <2>3. DOMAIN td = 1..Len(td) /\ Len(td) \in Nat BY <2>1, DomainOf
    <2>4. \A k \in 1..Len(td) : k = 1 \/ k = 2 \/ k = 3 \/ k \in (3 + 1)..Len(td) BY <2>3
    <2>5. \A k \in 1..Len(td) : td[k].step <= made BY <1>6, <2>1, <2>2, <2>4
    <2>6. td # <<>>
      <3>1. Len(<<>>) = 0 OBVIOUS
      <3> QED BY <2>1, <3>1
    <2> QED BY <2>1, <2>3, <2>5, <2>6, EditSeq DEF Named
  <1>8. plan' \in Seq(Steps) /\ \A k \in DOMAIN plan' : plan'[k] <= made
    <2>1. Len(plan) \in Nat /\ DOMAIN plan = 1..Len(plan) /\ \A k \in 1..Len(plan) : plan[k] \in Steps /\ plan[k] <= made
      BY PlanType
    <2>2. \A k \in 1..Len(plan) : plan'[k] \in Steps /\ plan'[k] <= made BY <1>2, <1>6, <2>1
    <2>3. plan' = [k \in 1..Len(plan) |-> plan'[k]] BY <1>2, <2>1
    <2>4. plan' \in Seq(Steps) /\ DOMAIN plan' = 1..Len(plan) BY <2>1, <2>2, <2>3, SeqOf
    <2> QED BY <2>2, <2>4
  <1>9. Handle(p, "edit", s, td, "idle") /\ wrong' = wrong \cup Mixes(p, "edit", s) \cup {} BY <1>2 DEF Begin
  <1>10. needs' \in [Steps -> SUBSET Steps] /\ consent' \in [Steps -> Tools \cup {NoTool}] BY <1>2 DEF Base, TypeOK
  <1>11. {} \subseteq {"loose", "trimmed"} OBVIOUS
  <1>12. Edits(p, "edit", s, td)
    <2>1. PICK extra : extra = {} OBVIOUS
    <2>2. wrong' = wrong \cup Mixes(p, "edit", s) \cup extra /\ extra \subseteq {"loose", "trimmed"} BY <1>9, <2>1
    <2>3. UNCHANGED <<run, steps, made, policy, faults>> BY <1>2
    <2> QED BY <1>3, <1>6, <1>7, <1>8, <1>9, <1>10, <2>2, <2>3, EditsSame
  <1>13. Swapped(p, s, t, td) BY <1>2, <1>5, <1>12 DEF Swapped, to
  <1> QED BY <1>13

\* What DeletePlanStepDraft does with s.
Later(s) == {t \in Live : Index(t) > Index(s)}
DownFrom(s) == [i \in Nat |-> IF \E t \in Later(s) : Index(t) = i THEN i - 1 ELSE i]

LEMMA LaterFacts ==
  ASSUME TypeOK, NEW s \in Live
  PROVE  Later(s) \in SUBSET Live /\ Renumbering(DownFrom(s)) /\ \A t \in Later(s) : Index(t) > 1 /\ Index(t) > Index(s)
PROOF
  <1>1. Index(s) \in Nat \ {0} BY StepLive, RowType
  <1>2. \A t \in Later(s) : Index(t) > 1 /\ Index(t) > Index(s)
    <2> TAKE t \in Later(s)
    <2>1. t \in Live /\ Index(t) > Index(s) BY DEF Later
    <2>2. Index(t) \in Nat BY <2>1, StepLive, RowType
    <2> QED BY <1>1, <2>1, <2>2
  <1>3. Renumbering(DownFrom(s))
    <2>1. \A i \in Nat \ {0} : DownFrom(s)[i] \in Nat \ {0}
      <3> TAKE i \in Nat \ {0}
      <3>1. DownFrom(s)[i] = IF \E t \in Later(s) : Index(t) = i THEN i - 1 ELSE i BY DEF DownFrom
      <3>2. CASE \E t \in Later(s) : Index(t) = i
        <4>1. i > 1 BY <1>2, <3>2
        <4> QED BY <3>1, <3>2, <4>1
      <3>3. CASE ~\E t \in Later(s) : Index(t) = i BY <3>1, <3>3
      <3> QED BY <3>2, <3>3
    <2>2. DownFrom(s) = [i \in Nat |-> DownFrom(s)[i]] BY DEF DownFrom
    <2> QED BY <2>1, <2>2 DEF Renumbering
  <1> QED BY <1>2, <1>3 DEF Later

Deleted(p, s, td) ==
  /\ s \in Live /\ Adjustable(s) /\ \A t \in Later(s) : Adjustable(t)
  /\ \A t \in Live \ {s} : Index(s) \notin steps[t].deps
  /\ DeleteLayout(td, s, InOrder(Later(s)), DownFrom(s))
  /\ plan' = Without(s)
  /\ (\A t \in Live \ {s} : Done(t)) => "trimmed" \in wrong'
  /\ UNCHANGED <<made, needs, consent>>
  /\ Edits(p, "edit", s, td)

LEMMA WithoutType ==
  ASSUME Base, NEW s
  PROVE  /\ Without(s) \in Seq(Steps) /\ \A k \in DOMAIN Without(s) : Without(s)[k] <= made
         /\ \A i \in DOMAIN plan :
              plan[i] = s /\ (\A j \in DOMAIN plan : plan[j] = s => j = i) =>
                Without(s) = [k \in 1..(Len(plan) - 1) |-> IF k < i THEN plan[k] ELSE plan[k + 1]]
PROOF
  <1> DEFINE n == Len(plan)
  <1>1. n \in Nat /\ DOMAIN plan = 1..n /\ \A k \in 1..n : plan[k] \in Steps /\ plan[k] <= made BY PlanType
  <1>2. CASE \A k \in DOMAIN plan : plan[k] # s
    <2>1. Without(s) = plan BY <1>2 DEF Without
    <2> QED BY <1>1, <1>2, <2>1 DEF Base, TypeOK
  <1>3. CASE ~\A k \in DOMAIN plan : plan[k] # s
    <2> DEFINE at == CHOOSE k \in DOMAIN plan : plan[k] = s
               l == Without(s)
    <2>1. at \in DOMAIN plan /\ plan[at] = s BY <1>3
    <2>2. l = [k \in 1..(n - 1) |-> IF k < at THEN plan[k] ELSE plan[k + 1]] BY <1>3 DEF Without
    <2> HIDE DEF at, l, n
    <2>3. at \in 1..n /\ n - 1 \in Nat BY <1>1, <2>1
    <2>4. ASSUME NEW k \in 1..(n - 1) PROVE l[k] \in Steps /\ l[k] <= made
      <3>1. k \in 1..n /\ k + 1 \in 1..n BY <1>1, <2>3
      <3>2. l[k] = IF k < at THEN plan[k] ELSE plan[k + 1] BY <2>2
      <3> QED BY <1>1, <3>1, <3>2
    <2>5. l = [k \in 1..(n - 1) |-> l[k]] BY <2>2
    <2>6. l \in Seq(Steps) /\ DOMAIN l = 1..(n - 1) BY <2>3, <2>4, <2>5, SeqOf
    <2>7. \A i \in DOMAIN plan :
            plan[i] = s /\ (\A j \in DOMAIN plan : plan[j] = s => j = i) =>
              l = [k \in 1..(n - 1) |-> IF k < i THEN plan[k] ELSE plan[k + 1]]
      BY <2>1, <2>2
    <2> QED BY <2>4, <2>6, <2>7 DEF l, n
  <1> QED BY <1>2, <1>3

LEMMA DeleteNamed ==
  ASSUME Base, NEW s \in Live, NEW S \in SUBSET Live, NEW td, NEW to, DeleteLayout(td, s, InOrder(S), to)
  PROVE  Named(td, made) /\ td # <<>>
PROOF
  <1> DEFINE list == InOrder(S)
             n == Len(list)
             l == Len(td)
  <1>1. Sorted(list, S) BY InOrderSorted DEF Base
  <1> HIDE DEF list
  <1>2. n \in Nat /\ \A k \in 1..n : list[k] \in Live BY <1>1, SortedFacts DEF Base
  <1>3. /\ td \in Seq(PlainStatements) /\ l >= 1 + n + n
        /\ td[1].step = s
        /\ \A k \in 1..n : td[1 + k].step = list[k]
        /\ \A k \in 1..n : td[1 + n + k].step = list[k]
        /\ \A k \in (1 + n + n + 1)..l : td[k].step \in Live
    BY DEF DeleteLayout, Moving, Deleting, Rewrites, list
  <1>4. DOMAIN td = 1..l /\ l \in Nat BY <1>3, DomainOf
  <1> HIDE DEF n, l
  <1>5. \A t \in Live : t <= made BY DEF Base, Fresh
  <1>7. ASSUME NEW k \in 1..l PROVE td[k].step <= made
    <2>1. CASE k = 1 BY <1>3, <1>5, <2>1
    <2>2. CASE k > 1 /\ k <= 1 + n
      <3>1. k - 1 \in 1..n /\ 1 + (k - 1) = k BY <2>2, <1>2
      <3> QED BY <1>2, <1>3, <1>5, <3>1
    <2>3. CASE k > 1 + n /\ k <= 1 + n + n
      <3>1. k - (1 + n) \in 1..n /\ 1 + n + (k - (1 + n)) = k BY <2>3, <1>2
      <3>2. td[k].step = list[k - (1 + n)] BY <1>3, <3>1
      <3> QED BY <1>2, <1>5, <3>1, <3>2
    <2>4. CASE k > 1 + n + n
      <3>1. k \in (1 + n + n + 1)..l BY <2>4, <1>2, <1>4
      <3> QED BY <1>3, <1>5, <3>1
    <2> QED BY <1>2, <2>1, <2>2, <2>3, <2>4
  <1>8. td # <<>>
    <2>1. l >= 1 BY <1>2, <1>3, <1>4
    <2>2. Len(<<>>) = 0 OBVIOUS
    <2> QED BY <2>1, <2>2 DEF l
  <1> QED BY <1>4, <1>7, <1>8 DEF Named

LEMMA DeleteFactsOfPlan ==
  ASSUME Base, NEW p \in Requests, DeletePlanStepDraft(p)
  PROVE  \E s, td : Deleted(p, s, td)
PROOF
  <1>1. PICK s \in Live :
          LET later == {t \in Live : Index(t) > Index(s)}
              to == [i \in Nat |-> IF \E t \in later : Index(t) = i THEN i - 1 ELSE i]
          IN
          /\ Adjustable(s) /\ \A t \in later : Adjustable(t)
          /\ \A t \in Live \ {s} : Index(s) \notin steps[t].deps
          /\ Handle(p, "edit", s,
               <<Delete(s)>> \o Buffer(InOrder(later)) \o Shift(InOrder(later), -1) \o Rewrite(Live \ {s}, to),
               "idle")
          /\ plan' = Without(s)
          /\ wrong' = wrong \cup Mixes(p, "edit", s) \cup IF \A t \in Live \ {s} : Done(t) THEN {"trimmed"} ELSE {}
          /\ UNCHANGED <<run, steps, made, policy, faults, needs, consent>>
    BY DEF DeletePlanStepDraft
  <1> DEFINE to == DownFrom(s)
             td == <<Delete(s)>> \o Buffer(InOrder(Later(s))) \o Shift(InOrder(Later(s)), -1) \o Rewrite(Live \ {s}, to)
             extra == IF \A t \in Live \ {s} : Done(t) THEN {"trimmed"} ELSE {}
  <1>2. /\ Adjustable(s) /\ \A t \in Later(s) : Adjustable(t)
        /\ \A t \in Live \ {s} : Index(s) \notin steps[t].deps
        /\ Handle(p, "edit", s, td, "idle")
        /\ plan' = Without(s)
        /\ wrong' = wrong \cup Mixes(p, "edit", s) \cup extra
        /\ UNCHANGED <<run, steps, made, policy, faults, needs, consent>>
    BY <1>1 DEF Later, DownFrom
  <1>3. At(p, "idle") /\ Edit BY DEF DeletePlanStepDraft
  <1>4. s \in Steps /\ s <= made BY StepLive DEF Base, Fresh
  <1>5. Later(s) \in SUBSET Live /\ Renumbering(to) /\ \A t \in Later(s) : Index(t) > 1 BY LaterFacts DEF Base
  <1>6. (\A t \in Live \ {s} : Done(t)) => "trimmed" \in wrong' BY <1>2
  <1>7. extra \subseteq {"loose", "trimmed"} OBVIOUS
  <1> HIDE DEF to, extra
  <1>8. DeleteLayout(td, s, InOrder(Later(s)), to) BY <1>4, <1>5, DeleteLayoutFacts DEF Base
  <1> HIDE DEF td
  <1>9. Named(td, made) /\ td # <<>> BY <1>5, <1>8, DeleteNamed
  <1>10. td \in Seq(EditStatements)
    <2>1. td \in Seq(PlainStatements) BY <1>8 DEF DeleteLayout
    <2> QED BY <2>1, EditSeq
  <1>11. plan' \in Seq(Steps) /\ \A k \in DOMAIN plan' : plan'[k] <= made BY <1>2, WithoutType
  <1>12. needs' \in [Steps -> SUBSET Steps] /\ consent' \in [Steps -> Tools \cup {NoTool}] BY <1>2 DEF Base, TypeOK
  <1>13. Edits(p, "edit", s, td) BY <1>2, <1>3, <1>4, <1>7, <1>9, <1>10, <1>11, <1>12, EditsSame
  <1>14. Deleted(p, s, td) BY <1>2, <1>6, <1>8, <1>13 DEF Deleted, to
  <1> QED BY <1>14

\* What UpdatePlanStepDraft does with s.
Updated(p, s, tool, deps, w) ==
  /\ s \in Live /\ Adjustable(s) /\ tool \in Tools /\ deps \in SUBSET (Nat \ {0})
  /\ deps = steps[s].deps \/ deps \subseteq {Index(t) : t \in Live \ {s}}
  /\ Updating(w, s, tool, deps)
  /\ needs' = [needs EXCEPT ![s] = ById(deps)]
  /\ UNCHANGED <<made, plan, consent>>
  /\ Edits(p, "edit", s, <<w>>)

LEMMA PlanSame ==
  ASSUME Base, plan' = plan
  PROVE  plan' \in Seq(Steps) /\ \A k \in DOMAIN plan' : plan'[k] <= made
PROOF BY DEF Base, TypeOK, Fresh

LEMMA OneNamed ==
  ASSUME NEW w \in EditStatements, w.step <= made
  PROVE  <<w>> \in Seq(EditStatements) /\ <<w>> # <<>> /\ Named(<<w>>, made)
PROOF BY OneOf DEF Named

LEMMA UpdateFactsOfPlan ==
  ASSUME Base, NEW p \in Requests, UpdatePlanStepDraft(p)
  PROVE  \E s, tool, deps, w : Updated(p, s, tool, deps, w)
PROOF
  <1>1. PICK s \in Live, tool \in Tools : \E deps \in DepChoices(s) \cup {steps[s].deps} :
          /\ deps = steps[s].deps \/ tool = steps[s].tool
          /\ Adjustable(s)
          /\ Begin(p, "edit", s, <<UpdatePatch(s, tool, deps)>>, "idle")
          /\ needs' = [needs EXCEPT ![s] = ById(deps)]
          /\ UNCHANGED <<run, steps, made, policy, faults, plan, consent>>
    BY DEF UpdatePlanStepDraft
  <1>2. PICK deps \in DepChoices(s) \cup {steps[s].deps} :
          /\ Adjustable(s)
          /\ Begin(p, "edit", s, <<UpdatePatch(s, tool, deps)>>, "idle")
          /\ needs' = [needs EXCEPT ![s] = ById(deps)]
          /\ UNCHANGED <<run, steps, made, policy, faults, plan, consent>>
    BY <1>1
  <1>3. At(p, "idle") /\ Edit BY DEF UpdatePlanStepDraft
  <1>4. s \in Steps /\ s <= made BY StepLive DEF Base, Fresh
  <1>5. deps \in SUBSET (Nat \ {0}) /\ (deps = steps[s].deps \/ deps \subseteq {Index(t) : t \in Live \ {s}})
    <2>1. CASE deps \in DepChoices(s)
      <3>1. deps \subseteq {Index(t) : t \in Live \ {s}} BY <2>1 DEF DepChoices
      <3>2. deps \subseteq {Index(t) : t \in Live} BY <3>1
      <3> QED BY <3>1, <3>2, IndexTypes DEF Base
    <2>2. CASE deps = steps[s].deps BY <1>4, <2>2, RowType DEF Base
    <2> QED BY <2>1, <2>2
  <1> DEFINE w == UpdatePatch(s, tool, deps)
  <1>6. Updating(w, s, tool, deps) BY <1>4, <1>5, UpdateFacts DEF Base
  <1>7. Begin(p, "edit", s, <<w>>, "idle") BY <1>2
  <1> HIDE DEF w
  <1>8. <<w>> \in Seq(EditStatements) /\ <<w>> # <<>> /\ Named(<<w>>, made) BY <1>4, <1>6, OneNamed DEF Updating
  <1>9. plan' \in Seq(Steps) /\ \A k \in DOMAIN plan' : plan'[k] <= made BY <1>2, PlanSame
  <1>10. needs' \in [Steps -> SUBSET Steps] /\ consent' \in [Steps -> Tools \cup {NoTool}]
    BY <1>2, ByIdType DEF Base, TypeOK
  <1>11. Edits(p, "edit", s, <<w>>)
    <2>1. PICK extra : extra = {} OBVIOUS
    <2>2. /\ wrong' = wrong \cup Mixes(p, "edit", s) \cup extra /\ extra \subseteq {"loose", "trimmed"}
          /\ Handle(p, "edit", s, <<w>>, "idle")
      BY <1>7, <2>1 DEF Begin
    <2>3. UNCHANGED <<run, steps, made, policy, faults>> BY <1>2
    <2> QED BY <1>3, <1>4, <1>8, <1>9, <1>10, <2>2, <2>3, EditsSame
  <1>12. Updated(p, s, tool, deps, w) BY <1>2, <1>5, <1>6, <1>11 DEF Updated
  <1> QED BY <1>12

\* What ApprovePlanStep does with s.
Accepted(p, s, w) ==
  /\ s \in Live /\ steps[s].status = "pending"
  /\ Accepting(w, s)
  /\ consent' = [consent EXCEPT ![s] = steps[s].tool]
  /\ UNCHANGED <<made, plan, needs>>
  /\ Edits(p, "edit", s, <<w>>)

LEMMA ApproveFactsOfPlan ==
  ASSUME Base, NEW p \in Requests, ApprovePlanStep(p)
  PROVE  \E s, w : Accepted(p, s, w)
PROOF
  <1>1. PICK s \in Live :
          /\ steps[s].status = "pending"
          /\ Begin(p, "edit", s, <<ToAccept(s)>>, "idle")
          /\ consent' = [consent EXCEPT ![s] = steps[s].tool]
          /\ UNCHANGED <<run, steps, made, policy, edits, faults, plan, needs>>
    BY DEF ApprovePlanStep, ToAccept
  <1>2. At(p, "idle") /\ run = "pending_approval" BY DEF ApprovePlanStep
  <1>3. s \in Steps /\ s <= made /\ steps[s].tool \in Tools \cup {NoTool} BY StepLive, RowType DEF Base, Fresh
  <1> DEFINE w == ToAccept(s)
  <1>4. Accepting(w, s) BY <1>3, AcceptFacts
  <1>5. Begin(p, "edit", s, <<w>>, "idle") BY <1>1
  <1> HIDE DEF w
  <1>6. <<w>> \in Seq(EditStatements) /\ <<w>> # <<>> /\ Named(<<w>>, made) BY <1>3, <1>4, OneNamed DEF Accepting
  <1>7. plan' \in Seq(Steps) /\ \A k \in DOMAIN plan' : plan'[k] <= made BY <1>1, PlanSame
  <1>8. needs' \in [Steps -> SUBSET Steps] /\ consent' \in [Steps -> Tools \cup {NoTool}]
    BY <1>1, <1>3 DEF Base, TypeOK
  <1>9. req' = [req EXCEPT ![p] = Request("edit", s, <<w>>, "idle")] /\ wrong' = wrong \cup Mixes(p, "edit", s)
    BY <1>5, HandleIsRequest DEF Begin
  <1>10. wrong' \subseteq wrong \cup {"mixed", "loose", "trimmed"} BY <1>9, MixesType
  <1>11. edits' \in Nat /\ made' \in 0..MaxSteps /\ made <= made' /\ made' = made
    BY <1>1, BoundsAssumption DEF Base, TypeOK
  <1>12. Edits(p, "edit", s, <<w>>)
    BY <1>1, <1>2, <1>3, <1>6, <1>7, <1>8, <1>9, <1>10, <1>11 DEF Edits, Named
  <1>13. Accepted(p, s, w) BY <1>1, <1>4, <1>12 DEF Accepted
  <1> QED BY <1>13

\* What an answer makes of the needs of steps.
LEMMA AnsweredType ==
  ASSUME Base, NEW specs, NEW list \in Seq(Steps)
  PROVE  Answered(specs, list) \in [Steps -> SUBSET Steps]
PROOF
  <1>1. \A d \in DOMAIN list : list[d] \in Steps BY LenProperties, ElementOfSeq
  <1>2. \A s \in Steps : needs[s] \in SUBSET Steps BY DEF Base, TypeOK
  <1>3. \A s \in Steps : {list[d] : d \in specs[s - made].deps \cap DOMAIN list} \in SUBSET Steps BY <1>1
  <1> QED BY <1>2, <1>3 DEF Answered

LEMMA LooseType == \A specs, list : Loose(specs, list) \subseteq {"loose"}
PROOF BY DEF Loose

\* What AdjustPlanSteps does.
Prefix == {s \in Live : Done(s)}
NewIds(specs) == [k \in 1..Len(specs) |-> made + k]

Adjusted(p, specs, td) ==
  /\ specs \in Plans /\ specs # <<>> /\ made + Len(specs) <= MaxSteps /\ made' = made + Len(specs)
  /\ \A s \in Live \ Prefix : Replaceable(s) /\ \A t \in Prefix : Index(t) < Index(s)
  /\ AdjustLayout(td, InOrder(Live \ Prefix), Cardinality(Prefix) + 1, specs)
  /\ plan' = InOrder(Prefix) \o NewIds(specs)
  /\ needs' = Answered(specs, plan')
  /\ Loose(specs, plan') \subseteq wrong'
  /\ consent' = consent
  /\ Edits(p, "edit", 0, td)

LEMMA AdjustNamed ==
  ASSUME Base, NEW specs \in Plans, made + Len(specs) <= MaxSteps, made' = made + Len(specs),
         NEW S \in SUBSET Live, NEW list, Sorted(list, S), NEW td, NEW first, AdjustLayout(td, list, first, specs)
  PROVE  Named(td, made') /\ td # <<>>
PROOF
  <1> DEFINE n == Len(list)
             m == Len(specs)
             l == Len(td)
  <1>1. n \in Nat /\ \A k \in 1..n : list[k] \in Live BY SortedFacts DEF Base
  <1>2. m \in Nat /\ made \in Nat BY PlanFacts, PlanType
  <1>3. /\ td \in Seq(PlainStatements) /\ l = n + m + 1
        /\ \A k \in 1..n : td[k].step = list[k]
        /\ \A k \in 1..m : td[n + k].step = made + k
        /\ td[n + m + 1].step = 0
    BY DEF AdjustLayout, Deleting, Inserting, Pausing
  <1>4. DOMAIN td = 1..l /\ l \in Nat BY <1>3, DomainOf
  <1> HIDE DEF n, m, l
  <1>5. made' = made + m BY DEF m
  <1>6. \A s \in Live : s <= made /\ s \in Nat BY StepLive, BoundsAssumption DEF Base, Fresh, Steps
  <1>7. ASSUME NEW k \in 1..l PROVE td[k].step <= made'
    <2>1. CASE k <= n
      <3>1. k \in 1..n BY <2>1, <1>1
      <3>2. td[k].step <= made /\ td[k].step \in Nat BY <1>1, <1>3, <1>6, <3>1
      <3> QED BY <1>2, <1>5, <3>2
    <2>2. CASE k > n /\ k <= n + m
      <3>1. k - n \in 1..m /\ n + (k - n) = k BY <2>2, <1>1, <1>2
      <3>2. td[k].step = made + (k - n) BY <1>3, <3>1
      <3> QED BY <1>2, <1>5, <3>1, <3>2
    <2>3. CASE k = n + m + 1
      <3>1. td[k].step = 0 BY <1>3, <2>3
      <3> QED BY <3>1, <1>2, <1>5
    <2>4. l = n + m + 1 BY <1>3
    <2>5. k <= n \/ (k > n /\ k <= n + m) \/ k = n + m + 1 BY <1>1, <1>2, <2>4
    <2> QED BY <2>1, <2>2, <2>3, <2>5
  <1>8. td # <<>>
    <2>1. l >= 1 BY <1>1, <1>2, <1>3
    <2>2. Len(<<>>) = 0 OBVIOUS
    <2> QED BY <2>1, <2>2 DEF l
  <1> QED BY <1>4, <1>7, <1>8 DEF Named

LEMMA AppendedPlan ==
  ASSUME Base, NEW specs \in Plans, made + Len(specs) <= MaxSteps, NEW S \in SUBSET Live, NEW list, Sorted(list, S)
  PROVE  /\ list \o NewIds(specs) \in Seq(Steps) /\ Len(list) \in Nat
         /\ Len(list \o NewIds(specs)) = Len(list) + Len(specs)
         /\ DOMAIN (list \o NewIds(specs)) = 1..(Len(list) + Len(specs))
         /\ \A k \in 1..Len(list) : (list \o NewIds(specs))[k] = list[k]
         /\ \A k \in 1..Len(specs) : (list \o NewIds(specs))[Len(list) + k] = made + k
         /\ \A k \in DOMAIN (list \o NewIds(specs)) : (list \o NewIds(specs))[k] <= made + Len(specs)
PROOF
  <1> DEFINE n == Len(list)
             m == Len(specs)
             b == NewIds(specs)
             c == list \o b
  <1>1. n \in Nat /\ (\A k \in 1..n : list[k] \in Steps /\ list[k] \in Live) /\ list = [k \in 1..n |-> list[k]]
    BY SortedFacts DEF Base
  <1>2. m \in Nat /\ made \in Nat /\ made + m <= MaxSteps /\ MaxSteps \in Nat BY PlanFacts, PlanType, BoundsAssumption
  <1>3. list \in Seq(Steps) /\ Len(list) = n
    <2> HIDE DEF n
    <2> QED BY <1>1, SeqOf DEF n
  <1>4. b = [k \in 1..m |-> made + k] BY DEF NewIds
  <1> HIDE DEF b, n, m
  <1>5. \A k \in 1..m : b[k] = made + k /\ b[k] \in Steps BY <1>2, <1>4 DEF Steps
  <1>6. b = [k \in 1..m |-> b[k]] BY <1>4
  <1>7. b \in Seq(Steps) /\ Len(b) = m BY <1>2, <1>5, <1>6, SeqOf
  <1>8. /\ c \in Seq(Steps) /\ Len(c) = Len(list) + Len(b)
        /\ \A k \in 1..Len(list) : c[k] = list[k]
        /\ \A k \in 1..Len(b) : c[Len(list) + k] = b[k]
    <2>1. list \in Seq(Steps) /\ b \in Seq(Steps) BY <1>3, <1>7
    <2> QED BY <2>1, ConcatAt
  <1> HIDE DEF c
  <1>9. DOMAIN c = 1..Len(c)
    <2>1. c \in Seq(Steps) BY <1>8
    <2> QED BY <2>1, DomainOf
  <1>10. /\ c \in Seq(Steps) /\ Len(c) = n + m /\ DOMAIN c = 1..(n + m)
         /\ \A k \in 1..n : c[k] = list[k]
         /\ \A k \in 1..m : c[n + k] = made + k
    BY <1>3, <1>5, <1>7, <1>8, <1>9
  <1>11. \A s \in Live : s <= made /\ s \in Nat BY StepLive, BoundsAssumption DEF Base, Fresh, Steps
  <1>12. ASSUME NEW k \in 1..(n + m) PROVE c[k] <= made + m
    <2>1. CASE k <= n
      <3>1. k \in 1..n BY <2>1, <1>1
      <3>2. c[k] <= made /\ c[k] \in Nat BY <1>1, <1>10, <1>11, <3>1
      <3> QED BY <1>2, <3>2
    <2>2. CASE k > n
      <3>1. k - n \in 1..m /\ n + (k - n) = k BY <2>2, <1>1, <1>2
      <3>2. c[k] = made + (k - n) BY <1>10, <3>1
      <3> QED BY <1>2, <3>1, <3>2
    <2> QED BY <1>1, <2>1, <2>2
  <1> QED BY <1>1, <1>10, <1>12 DEF c, b, n, m

LEMMA AdjustFactsOfPlan ==
  ASSUME Base, NEW p \in Requests, AdjustPlanSteps(p)
  PROVE  \E specs, td : Adjusted(p, specs, td)
PROOF
  <1> DEFINE rest == InOrder(Live \ Prefix)
             first == Cardinality(Prefix) + 1
  <1>1. PICK specs \in Plans :
          /\ Live # Prefix /\ specs # <<>>
          /\ \A s \in Live \ Prefix : Replaceable(s) /\ \A t \in Prefix : Index(t) < Index(s)
          /\ Spare(Len(specs))
          /\ Handle(p, "edit", 0,
               [k \in 1..Len(rest) |-> Delete(rest[k])] \o InsertAll(first, specs) \o <<SetRun("pending_approval")>>,
               "idle")
          /\ plan' = InOrder(Prefix) \o NewIds(specs)
          /\ needs' = Answered(specs, plan')
          /\ wrong' = wrong \cup Mixes(p, "edit", 0) \cup Loose(specs, plan')
          /\ UNCHANGED <<run, steps, policy, faults, consent>>
    BY DEF AdjustPlanSteps, Prefix, NewIds
  <1>2. At(p, "idle") /\ Edit BY DEF AdjustPlanSteps
  <1>3. /\ made + Len(specs) <= MaxSteps /\ made' = made + Len(specs) /\ Len(specs) \in Nat /\ made \in Nat
    BY <1>1, PlanFacts, PlanType DEF Spare
  <1>4. Prefix \in SUBSET Live /\ Live \ Prefix \in SUBSET Live BY DEF Prefix
  <1>5. Sorted(rest, Live \ Prefix) /\ Sorted(InOrder(Prefix), Prefix) /\ Cardinality(Prefix) \in Nat
    BY <1>4, InOrderSorted DEF Base
  <1>6. first \in Nat \ {0} BY <1>5
  <1> DEFINE td == [k \in 1..Len(rest) |-> Delete(rest[k])] \o InsertAll(first, specs) \o <<SetRun("pending_approval")>>
  <1> HIDE DEF first, rest
  <1>7. AdjustLayout(td, rest, first, specs) BY <1>3, <1>4, <1>5, <1>6, AdjustLayoutFacts DEF Base
  <1>8. Handle(p, "edit", 0, td, "idle") BY <1>1
  <1> HIDE DEF td
  <1>9. Named(td, made') /\ td # <<>> BY <1>3, <1>4, <1>5, <1>7, AdjustNamed
  <1>10. td \in Seq(EditStatements)
    <2>1. td \in Seq(PlainStatements) BY <1>7 DEF AdjustLayout
    <2> QED BY <2>1, EditSeq
  <1>11. plan' \in Seq(Steps) /\ \A k \in DOMAIN plan' : plan'[k] <= made'
    <2> DEFINE x == InOrder(Prefix) \o NewIds(specs)
    <2>1. x \in Seq(Steps) /\ \A k \in DOMAIN x : x[k] <= made + Len(specs) BY <1>3, <1>4, <1>5, AppendedPlan
    <2>2. plan' = x BY <1>1
    <2> HIDE DEF x
    <2> QED BY <1>3, <2>1, <2>2
  <1>12. needs' \in [Steps -> SUBSET Steps] /\ consent' \in [Steps -> Tools \cup {NoTool}]
    <2>1. needs' = Answered(specs, plan') /\ consent' = consent BY <1>1
    <2>2. PICK l : l = plan' OBVIOUS
    <2>3. l \in Seq(Steps) BY <1>11, <2>2
    <2>4. Answered(specs, l) \in [Steps -> SUBSET Steps] BY <2>3, AnsweredType DEF Base, TypeOK
    <2>5. consent \in [Steps -> Tools \cup {NoTool}] BY DEF Base, TypeOK
    <2> QED BY <2>1, <2>2, <2>4, <2>5
  <1>13. req' = [req EXCEPT ![p] = Request("edit", 0, td, "idle")] BY <1>8, HandleIsRequest
  <1>14. /\ wrong \cup Mixes(p, "edit", 0) \subseteq wrong' /\ Loose(specs, plan') \subseteq wrong'
         /\ wrong' \subseteq wrong \cup {"mixed", "loose", "trimmed"}
    BY <1>1, MixesType, LooseType
  <1>15. edits' \in Nat /\ made' \in 0..MaxSteps /\ made <= made' /\ 0 <= made /\ run = "pending_approval"
    BY <1>2, <1>3, BoundsAssumption DEF Edit, Base, TypeOK
  <1>16. Edits(p, "edit", 0, td)
    BY <1>1, <1>2, <1>9, <1>10, <1>11, <1>12, <1>13, <1>14, <1>15 DEF Edits, Named
  <1>17. Adjusted(p, specs, td) BY <1>1, <1>3, <1>7, <1>14, <1>16 DEF Adjusted, rest, first
  <1> QED BY <1>17

\* What StartPlanningRun does with an answer, and without one.
Started(p, specs, td) ==
  /\ specs \in Plans /\ made = 0 /\ Live = {} /\ Busy = {} /\ made' = Len(specs)
  /\ StartLayout(td, specs)
  /\ plan' = [k \in 1..Len(specs) |-> k]
  /\ needs' = Answered(specs, plan')
  /\ Loose(specs, plan') \subseteq wrong'
  /\ consent' = consent
  /\ Edits(p, "start", 0, td)

Unanswered(p, w) ==
  /\ w \in PlainStatements /\ w.kind = "run" /\ w.run \in {"failed", "token_budget_exceeded"}
  /\ Live = {} /\ Busy = {} /\ plan = <<>>
  /\ UNCHANGED <<made, plan, needs, consent>>
  /\ Edits(p, "start", 0, <<w>>)

LEMMA NoneYet ==
  ASSUME Base, run = "none"
  PROVE  Busy = {} /\ made = 0 /\ plan = <<>> /\ Live = {} /\ \A p \in Requests : At(p, "idle")
PROOF
  <1>1. Busy = {} /\ made = 0 /\ plan = <<>> BY DEF Base, Fresh
  <1>2. \A s \in Live : s <= 0 /\ s \in Steps BY <1>1, StepLive DEF Base, Fresh
  <1>3. Live = {} BY <1>2, BoundsAssumption DEF Steps
  <1> QED BY <1>1, <1>3 DEF Busy

LEMMA StartFactsOfPlan ==
  ASSUME Base, NEW p \in Requests, Start(p)
  PROVE  (\E specs, td : Started(p, specs, td)) \/ \E w : Unanswered(p, w)
PROOF
  <1>1. run = "none" /\ run' = "running" /\ UNCHANGED <<steps, policy, edits, faults, consent>> BY DEF Start
  <1>2. Busy = {} /\ made = 0 /\ plan = <<>> /\ Live = {} /\ At(p, "idle") BY <1>1, NoneYet
  <1>3. edits' \in Nat /\ consent' \in [Steps -> Tools \cup {NoTool}] BY <1>1 DEF Base, TypeOK
  <1>4. ASSUME NEW specs \in Plans,
               Handle(p, "start", 0, InsertAll(1, specs) \o <<SetRun("pending_approval")>>, "idle"),
               made' = Len(specs), plan' = [k \in 1..Len(specs) |-> k], needs' = Answered(specs, plan'),
               wrong' = wrong \cup Mixes(p, "start", 0) \cup Loose(specs, plan')
        PROVE \E td : Started(p, specs, td)
    <2> DEFINE td == InsertAll(1, specs) \o <<SetRun("pending_approval")>>
               n == Len(specs)
    <2>1. n \in Nat /\ n <= MaxSteps /\ made + n <= MaxSteps BY <1>2, PlanFacts, BoundsAssumption
    <2>2. StartLayout(td, specs) BY <2>1, StartLayoutFacts DEF Base
    <2>3. req' = [req EXCEPT ![p] = Request("start", 0, td, "idle")] BY <1>4, HandleIsRequest
    <2> HIDE DEF td, n
    <2>4. /\ td \in Seq(PlainStatements) /\ Len(td) = n + 1
          /\ \A k \in 1..n : td[k].step = made + k
          /\ td[n + 1].step = 0
      BY <2>2 DEF StartLayout, Inserting, Pausing, n
    <2>5. DOMAIN td = 1..(n + 1) BY <2>4, DomainOf
    <2>6. \A k \in DOMAIN td : td[k].step <= n
      <3> TAKE k \in DOMAIN td
      <3>1. CASE k = n + 1 BY <2>1, <2>4, <3>1
      <3>2. CASE k # n + 1
        <4>1. k \in 1..n BY <2>1, <2>5, <3>2
        <4> QED BY <1>2, <2>1, <2>4, <4>1
      <3> QED BY <3>1, <3>2
    <2>7. td # <<>>
      <3>1. Len(<<>>) = 0 OBVIOUS
      <3> QED BY <2>1, <2>4, <3>1
    <2>8. plan' \in Seq(Steps) /\ \A k \in DOMAIN plan' : plan'[k] <= n
      <3>1. \A k \in 1..n : k \in Steps BY <2>1, BoundsAssumption DEF Steps
      <3>2. \A k \in 1..n : plan'[k] = k BY <1>4 DEF n
      <3>3. plan' = [k \in 1..n |-> plan'[k]] BY <1>4 DEF n
      <3>4. \A k \in 1..n : plan'[k] \in Steps BY <3>1, <3>2
      <3>5. plan' \in Seq(Steps) /\ DOMAIN plan' = 1..n BY <2>1, <3>3, <3>4, SeqOf
      <3> QED BY <2>1, <3>2, <3>5
    <2>9. needs' \in [Steps -> SUBSET Steps] BY <1>4, <2>8, AnsweredType
    <2>10. td \in Seq(EditStatements) BY <2>4, EditSeq
    <2>11. /\ wrong \cup Mixes(p, "start", 0) \subseteq wrong' /\ Loose(specs, plan') \subseteq wrong'
           /\ wrong' \subseteq wrong \cup {"mixed", "loose", "trimmed"}
      BY <1>4, MixesType, LooseType
    <2>12. made' = n BY <1>4 DEF n
    <2>13. made' \in 0..MaxSteps /\ made <= made' /\ 0 <= made BY <1>2, <2>1, <2>12, BoundsAssumption
    <2>14. Edits(p, "start", 0, td)
      BY <1>1, <1>2, <1>3, <2>3, <2>6, <2>7, <2>8, <2>9, <2>10, <2>11, <2>12, <2>13 DEF Edits
    <2>15. Started(p, specs, td) BY <1>1, <1>2, <1>4, <2>2, <2>11, <2>14 DEF Started
    <2> QED BY <2>15
  <1>5. ASSUME NEW end \in {"failed", "token_budget_exceeded"}, Begin(p, "start", 0, <<SetRun(end)>>, "idle"),
               UNCHANGED <<made, plan, needs>>
        PROVE \E w : Unanswered(p, w)
    <2> DEFINE w == SetRun(end)
    <2>1. Pausing(w, end) BY PauseFacts
    <2>2. Begin(p, "start", 0, <<w>>, "idle") BY <1>5
    <2> HIDE DEF w
    <2>3. w \in PlainStatements /\ w.kind = "run" /\ w.run = end /\ w.step = 0 BY <2>1 DEF Pausing
    <2>4. w \in EditStatements /\ w.step <= made BY <1>2, <2>3, PlainIsEdit
    <2>5. <<w>> \in Seq(EditStatements) /\ <<w>> # <<>> /\ Named(<<w>>, made) BY <2>4, OneNamed
    <2>6. req' = [req EXCEPT ![p] = Request("start", 0, <<w>>, "idle")] /\ wrong' = wrong \cup Mixes(p, "start", 0)
      BY <2>2, HandleIsRequest DEF Begin
    <2>7. wrong' \subseteq wrong \cup {"mixed", "loose", "trimmed"} BY <2>6, MixesType
    <2>8. plan' \in Seq(Steps) /\ \A k \in DOMAIN plan' : plan'[k] <= made BY <1>5, PlanSame
    <2>9. made' \in 0..MaxSteps /\ made <= made' /\ made' = made /\ 0 <= made BY <1>2, <1>5, BoundsAssumption
    <2>10. needs' \in [Steps -> SUBSET Steps] BY <1>5 DEF Base, TypeOK
    <2>11. Edits(p, "start", 0, <<w>>)
      BY <1>1, <1>2, <1>3, <2>5, <2>6, <2>7, <2>8, <2>9, <2>10 DEF Edits, Named
    <2>12. Unanswered(p, w) BY <1>1, <1>2, <1>5, <2>3, <2>11 DEF Unanswered
    <2> QED BY <2>12
  <1> QED BY <1>4, <1>5 DEF Start

LEMMA StartFailsBase ==
  ASSUME Base, NEW p \in Requests, StartFails(p)
  PROVE  Base'
PROOF
  <1> DEFINE w == SetRun("failed")
             r == Request("start", 0, <<w>>, "idle")
  <1>1. /\ At(p, "write") /\ faults' = faults + 1 /\ Handle(p, "start", 0, <<w>>, "idle")
        /\ UNCHANGED <<run, steps, made, policy, edits, history>>
    BY DEF StartFails
  <1>2. run # "none" BY <1>1, BusyRuns DEF At
  <1>3. Pausing(w, "failed") BY PauseFacts
  <1> HIDE DEF w
  <1>4. w \in EditStatements /\ w.step = 0 BY <1>3, PlainIsEdit DEF Pausing
  <1>5. <<w>> \in Seq(EditStatements) /\ <<w>> # <<>> /\ \A k \in DOMAIN <<w>> : <<w>>[k].step = 0 BY <1>4, OneOf
  <1>6. "start" \in Editors /\ 0 \in Steps \cup {0} BY DEF Editors
  <1>7. r \in RequestType /\ ShapeOf(r) BY <1>5, <1>6, EditorType
  <1>8. r.step = 0 /\ r.todo = <<w>> BY DEF Request
  <1>9. req' = [req EXCEPT ![p] = r] BY <1>1, HandleIsRequest
  <1> HIDE DEF r
  <1>10. 0 <= made /\ faults' \in Nat /\ wrong' \subseteq Faulty BY <1>1, BoundsAssumption DEF history, Base, TypeOK, Faulty
  <1>11. r.step <= made /\ \A k \in DOMAIN r.todo : r.todo[k].step <= made BY <1>5, <1>8, <1>10
  <1> QED BY <1>1, <1>2, <1>7, <1>9, <1>10, <1>11, GoBase DEF history

-----------------------------------------------------------------------------
(* The type of the state is kept                                            *)

\* An edit is one of these.
EditStep(p) == Start(p) \/ Draft(p)

LEMMA EditStepFacts ==
  ASSUME Base, NEW p \in Requests, EditStep(p)
  PROVE  \/ \E specs, td : Started(p, specs, td)
         \/ \E w : Unanswered(p, w)
         \/ \E at \in Nat \ {0} : \E tool, deps, td : Created(p, at, tool, deps, td)
         \/ \E s, t, td : Swapped(p, s, t, td)
         \/ \E s, td : Deleted(p, s, td)
         \/ \E s, tool, deps, w : Updated(p, s, tool, deps, w)
         \/ \E specs, td : Adjusted(p, specs, td)
         \/ \E s, w : Accepted(p, s, w)
PROOF BY StartFactsOfPlan, CreateFacts, MoveFactsOfPlan, DeleteFactsOfPlan, UpdateFactsOfPlan, AdjustFactsOfPlan,
         ApproveFactsOfPlan DEF EditStep, Draft

LEMMA EditStepEdits ==
  ASSUME Base, NEW p \in Requests, EditStep(p)
  PROVE  \E op, s, td : Edits(p, op, s, td)
PROOF
  <1>1. CASE \E specs, td : Started(p, specs, td) BY <1>1 DEF Started
  <1>2. CASE \E w : Unanswered(p, w) BY <1>2 DEF Unanswered
  <1>3. CASE \E at \in Nat \ {0} : \E tool, deps, td : Created(p, at, tool, deps, td) BY <1>3 DEF Created
  <1>4. CASE \E s, t, td : Swapped(p, s, t, td) BY <1>4 DEF Swapped
  <1>5. CASE \E s, td : Deleted(p, s, td) BY <1>5 DEF Deleted
  <1>6. CASE \E s, tool, deps, w : Updated(p, s, tool, deps, w) BY <1>6 DEF Updated
  <1>7. CASE \E specs, td : Adjusted(p, specs, td) BY <1>7 DEF Adjusted
  <1>8. CASE \E s, w : Accepted(p, s, w) BY <1>8 DEF Accepted
  <1> QED BY <1>1, <1>2, <1>3, <1>4, <1>5, <1>6, <1>7, <1>8, EditStepFacts

\* The steps of a request, by what they do.
LEMMA NextCases ==
  ASSUME Next
  PROVE  \/ \E p \in Requests :
              \/ EditStep(p) \/ StartFails(p) \/ Statement(p) \/ Fault(p)
              \/ ExecutePlanStep(p) \/ ExecuteRefused(p) \/ Run(p) \/ Settle(p) \/ Pick(p)
              \/ SkipPlanStep(p) \/ RetryPlanStep(p) \/ ContinuePlanningRun(p)
         \/ EditAgent
PROOF BY DEF Next, EditStep

LEMMA BaseStep == Base /\ [Next]_vars => Base'
PROOF
  <1> SUFFICES ASSUME Base, [Next]_vars PROVE Base' OBVIOUS
  <1>1. CASE UNCHANGED vars
    <2>1. UNCHANGED <<run, steps, made, policy, req, edits, faults, plan, needs, consent, wrong>> BY <1>1 DEF vars
    <2>2. Live' = Live /\ Busy' = Busy BY <2>1 DEF Live, Busy, At
    <2>3. Unique' /\ Shape' /\ Fresh' BY <2>1, <2>2 DEF Base, Unique, Index, Shape, Fresh
    <2>4. TypeOK' BY <2>1 DEF Base, TypeOK
    <2> QED BY <2>3, <2>4 DEF Base
  <1>2. ASSUME NEW p \in Requests, EditStep(p) PROVE Base' BY <1>2, EditStepEdits, EditsBase
  <1>3. ASSUME NEW p \in Requests, Statement(p) PROVE Base'
    BY <1>3, ReadRowBase, StoreRowBase, StoreRunBase, DeleteRowBase, CreateRowBase DEF Statement
  <1>4. ASSUME NEW p \in Requests, ExecutePlanStep(p) PROVE Base' BY <1>4, ExecuteFacts, WorksBase
  <1>5. ASSUME NEW p \in Requests, SkipPlanStep(p) PROVE Base' BY <1>5, SkipFacts, WorksBase
  <1>6. ASSUME NEW p \in Requests, RetryPlanStep(p) PROVE Base' BY <1>6, RetryFacts, WorksBase
  <1>7. CASE Next
    BY <1>2, <1>3, <1>4, <1>5, <1>6, <1>7, NextCases, StartFailsBase, FaultBase, RefusedBase, RunBase, SettleBase, PickBase,
       ContinueBase, EditAgentBase
  <1> QED BY <1>1, <1>7

\* Every statement that is left is of the kind its request may write, two rows never stand at one
\* index, and an id is on one row only.
THEOREM SpecBase == Spec => []Base
PROOF
  <1>1. Init => Base BY InitBase
  <1>2. Base /\ [Next]_vars => Base' BY BaseStep
  <1> QED BY <1>1, <1>2, PTL DEF Spec

\* A row has one of the statuses and approvals of agent/store.go, a request one of these next
\* things to do: for any requests, plans, policies and bounds.
THEOREM TypeCorrect == Spec => []TypeOK
PROOF
  <1>1. Base => TypeOK BY DEF Base
  <1> QED BY <1>1, SpecBase, PTL

-----------------------------------------------------------------------------
(* Requests that the code keeps apart                                       *)

LightOf(r) == r.op = "continue" /\ r.pc \in {"pick", "execute"}

\* p's request becomes r: none, one that looks for a step, one that goes on as it was, or one that
\* begins and is seen to mix.
Goes(p, r) ==
  /\ req' = [req EXCEPT ![p] = r] /\ wrong \subseteq wrong'
  /\ \/ r = Idle
     \/ LightOf(r)
     \/ /\ r.op = req[p].op /\ r.op # "none" /\ ~LightOf(req[p])
        /\ r.op \in Work => r.step = req[p].step
     \/ Mixes(p, r.op, r.step) \subseteq wrong'

LEMMA Unmixed ==
  ASSUME NEW p, NEW op, NEW s, "mixed" \notin Mixes(p, op, s)
  PROVE  \A q \in Busy \ {p} : op \in Work /\ req[q].op \in Work /\ req[q].step # s
PROOF BY DEF Mixes

LEMMA GoesApart ==
  ASSUME Base, Apart, NEW p \in Requests, NEW r, Goes(p, r)
  PROVE  Apart'
PROOF
  <1>1. \A q \in Requests : req'[q] = IF q = p THEN r ELSE req[q] BY DEF Goes, Base, TypeOK
  <1>2. SUFFICES ASSUME Clean', NEW a \in Busy', NEW b \in Busy', a # b
                 PROVE  \/ req'[a].op \in Work /\ req'[b].op \in Work /\ req'[a].step # req'[b].step
                        \/ Light(a)' \/ Light(b)'
    BY DEF Apart
  <1>3. Clean BY <1>2 DEF Clean, Goes
  <1>4. a \in Requests /\ b \in Requests BY <1>2 DEF Busy
  <1>5. ASSUME NEW q \in Busy', q # p PROVE q \in Busy /\ req'[q] = req[q] /\ (Light(q)' <=> Light(q))
    BY <1>1, <1>5 DEF Busy, At, Light
  <1>6. ASSUME NEW q \in Busy', q # p, p \in Busy'
        PROVE  \/ req'[p].op \in Work /\ req'[q].op \in Work /\ req'[p].step # req'[q].step
               \/ Light(p)' \/ Light(q)'
    <2>1. q \in Busy /\ req'[q] = req[q] /\ (Light(q)' <=> Light(q)) BY <1>5, <1>6
    <2>2. req'[p] = r BY <1>1
    <2>3. CASE r = Idle BY <1>6, <2>2, <2>3 DEF Busy, At, Idle
    <2>4. CASE LightOf(r) BY <2>2, <2>4 DEF Light, LightOf
    <2>5. CASE r.op = req[p].op /\ (r.op \in Work => r.step = req[p].step) /\ r.op # "none" /\ ~LightOf(req[p])
      <3>1. p \in Busy BY <2>5, RequestFacts DEF Base
      <3>2. \/ req[p].op \in Work /\ req[q].op \in Work /\ req[p].step # req[q].step
            \/ Light(p) \/ Light(q)
        BY <1>3, <1>6, <2>1, <3>1 DEF Apart
      <3> QED BY <2>1, <2>2, <2>5, <3>2 DEF Light, LightOf
    <2>6. CASE Mixes(p, r.op, r.step) \subseteq wrong'
      <3>1. "mixed" \notin Mixes(p, r.op, r.step) BY <1>2, <2>6 DEF Clean
      <3>2. r.op \in Work /\ req[q].op \in Work /\ req[q].step # r.step BY <1>6, <2>1, <3>1, Unmixed
      <3> QED BY <2>1, <2>2, <3>2
    <2> QED BY <2>3, <2>4, <2>5, <2>6 DEF Goes
  <1>7. CASE a = p BY <1>2, <1>6, <1>7
  <1>8. CASE b = p
    <2>1. \/ req'[p].op \in Work /\ req'[a].op \in Work /\ req'[p].step # req'[a].step
          \/ Light(p)' \/ Light(a)'
      BY <1>2, <1>6, <1>8
    <2> QED BY <1>8, <2>1
  <1>9. CASE a # p /\ b # p
    <2>1. a \in Busy /\ b \in Busy /\ req'[a] = req[a] /\ req'[b] = req[b] BY <1>5, <1>9
    <2> QED BY <1>2, <1>3, <1>5, <1>9, <2>1 DEF Apart
  <1> QED BY <1>7, <1>8, <1>9

\* A statement's request goes on, or ends.
LEMMA StatementGoes ==
  ASSUME Base, NEW p \in Requests, Statement(p)
  PROVE  \E r : Goes(p, r)
PROOF
  <1>1. req[p].pc \in {"write", "store"} /\ wrong' = wrong
    BY DEF Statement, ReadRow, StoreRow, StoreRun, DeleteRow, CreateRow, At, history
  <1>2. ~LightOf(req[p]) BY <1>1 DEF LightOf
  <1>3. p \in Busy BY <1>1 DEF Busy, At
  <1>4. req[p].op # "none" BY <1>3, RequestFacts DEF Base
  <1>5. \/ req' = [req EXCEPT ![p] = Idle] \/ req' = [req EXCEPT ![p] = Then(p)]
        \/ req' = [req EXCEPT ![p] = InStore(p)]
    <2>1. CASE ReadRow(p)
      <3>1. CASE Next1(p).step \in Live BY <2>1, <3>1, ReadRowFacts
      <3>2. CASE Next1(p).step \notin Live BY <2>1, <3>2 DEF ReadRow, Go
      <3> QED BY <3>1, <3>2
    <2>2. CASE StoreRow(p) BY <2>2 DEF StoreRow, Go, End
    <2>3. CASE StoreRun(p) BY <2>3 DEF StoreRun, Go
    <2>4. CASE DeleteRow(p) BY <2>4 DEF DeleteRow, Go
    <2>5. CASE CreateRow(p) BY <2>5 DEF CreateRow, Go, End
    <2> QED BY <2>1, <2>2, <2>3, <2>4, <2>5 DEF Statement
  <1>6. CASE req' = [req EXCEPT ![p] = Idle] BY <1>1, <1>6 DEF Goes
  <1>7. CASE req' = [req EXCEPT ![p] = Then(p)]
    <2>1. Then(p) = Idle \/ (Then(p).op = req[p].op /\ Then(p).step = req[p].step) BY <1>1, ThenFacts DEF Base
    <2>2. Goes(p, Then(p)) BY <1>1, <1>2, <1>4, <1>7, <2>1 DEF Goes
    <2> QED BY <2>2
  <1>8. CASE req' = [req EXCEPT ![p] = InStore(p)]
    <2>1. InStore(p).op = req[p].op /\ InStore(p).step = req[p].step BY DEF InStore
    <2>2. Goes(p, InStore(p)) BY <1>1, <1>2, <1>4, <1>8, <2>1 DEF Goes
    <2> QED BY <2>2
  <1> QED BY <1>5, <1>6, <1>7, <1>8

LEMMA EditGoes ==
  ASSUME NEW p, NEW op, NEW s, NEW td, Edits(p, op, s, td)
  PROVE  \E r : Goes(p, r)
PROOF
  <1> DEFINE r == Request(op, s, td, "idle")
  <1>1. r.op = op /\ r.step = s BY DEF Request
  <1>2. Goes(p, r) BY <1>1 DEF Goes, Edits
  <1> QED BY <1>2

LEMMA WorkGoes ==
  ASSUME NEW p, NEW op, NEW s, NEW td, NEW then, Works(p, op, s, td, then)
  PROVE  \E r : Goes(p, r)
PROOF
  <1> DEFINE r == Request(op, s, td, then)
  <1>1. r.op = op /\ r.step = s BY DEF Request
  <1>2. Goes(p, r) BY <1>1 DEF Goes, Works
  <1> QED BY <1>2

LEMMA LoopLight == LightOf(Loop) /\ \A s : LightOf(Picked(s))
PROOF BY LoopIs DEF LightOf, Picked

\* A request between its statements.
LEMMA BetweenGoes ==
  ASSUME Base, NEW p \in Requests,
         StartFails(p) \/ Fault(p) \/ ExecuteRefused(p) \/ Run(p) \/ Settle(p) \/ Pick(p) \/ ContinuePlanningRun(p)
  PROVE  \E r : Goes(p, r)
PROOF
  <1>1. CASE StartFails(p)
    <2> DEFINE r == Request("start", 0, <<SetRun("failed")>>, "idle")
    <2>1. Handle(p, "start", 0, <<SetRun("failed")>>, "idle") /\ wrong' = wrong /\ At(p, "write") /\ req[p].op = "start"
      BY <1>1 DEF StartFails, history
    <2>2. req' = [req EXCEPT ![p] = r] BY <2>1, HandleIsRequest
    <2>3. r.op = "start" BY DEF Request
    <2>4. ~LightOf(req[p]) BY <2>1 DEF LightOf
    <2>5. r.op \notin Work BY <2>3 DEF Work
    <2>6. Goes(p, r) BY <2>1, <2>2, <2>3, <2>4, <2>5 DEF Goes
    <2> QED BY <2>6
  <1>2. CASE Fault(p) \/ ExecuteRefused(p)
    <2>1. Goes(p, Idle) BY <1>2 DEF Goes, Fault, ExecuteRefused, End, Go, history
    <2> QED BY <2>1
  <1>3. CASE Run(p)
    <2>1. PICK e \in Endings(req[p].step) : req' = [req EXCEPT ![p] = Ended(p, e[1], e[2])] BY <1>3, RunFacts
    <2>2. /\ Ended(p, e[1], e[2]).op = req[p].op /\ Ended(p, e[1], e[2]).step = req[p].step BY DEF Ended
    <2>3. req[p].pc = "work" /\ wrong \subseteq wrong' BY <1>3 DEF Run, At
    <2>4. req[p].op # "none" /\ ~LightOf(req[p]) BY <2>3, Between DEF Workers, Work, LightOf
    <2>5. Goes(p, Ended(p, e[1], e[2])) BY <2>1, <2>2, <2>3, <2>4 DEF Goes
    <2> QED BY <2>5
  <1>4. CASE Settle(p)
    <2>1. wrong' = wrong /\ req[p].pc = "settle" BY <1>4 DEF Settle, history, At
    <2>2. req[p].op # "none" /\ ~LightOf(req[p]) BY <2>1, Between DEF Workers, Work, LightOf
    <2>3. CASE req' = [req EXCEPT ![p] = Completing(p)]
      <3>1. Completing(p).op = req[p].op /\ Completing(p).step = req[p].step BY DEF Completing, Request
      <3>2. Goes(p, Completing(p)) BY <2>1, <2>2, <2>3, <3>1 DEF Goes
      <3> QED BY <3>2
    <2>4. CASE Go(p, Loop)
      <3>1. Goes(p, Loop) BY <2>1, <2>4, LoopLight DEF Goes, Go
      <3> QED BY <3>1
    <2>5. CASE End(p)
      <3>1. Goes(p, Idle) BY <2>1, <2>5 DEF Goes, End, Go
      <3> QED BY <3>1
    <2> QED BY <1>4, <2>3, <2>4, <2>5, SettleFacts
  <1>5. CASE Pick(p)
    <2>1. wrong' = wrong BY <1>5 DEF Pick, history
    <2>2. CASE End(p)
      <3>1. Goes(p, Idle) BY <2>1, <2>2 DEF Goes, End, Go
      <3> QED BY <3>1
    <2>3. ASSUME NEW s, req' = [req EXCEPT ![p] = Picked(s)] PROVE \E r : Goes(p, r)
      <3>1. Goes(p, Picked(s)) BY <2>1, <2>3, LoopLight DEF Goes
      <3> QED BY <3>1
    <2> QED BY <1>5, <2>2, <2>3, PickFacts
  <1>6. CASE ContinuePlanningRun(p)
    <2>1. Goes(p, Loop) BY <1>6, LoopLight DEF Goes, Go, ContinuePlanningRun, history
    <2> QED BY <2>1
  <1> QED BY <1>1, <1>2, <1>3, <1>4, <1>5, <1>6

LEMMA NextGoes ==
  ASSUME Base, Next
  PROVE  (\E p \in Requests : \E r : Goes(p, r)) \/ EditAgent
PROOF
  <1>1. ASSUME NEW p \in Requests, EditStep(p) PROVE \E r : Goes(p, r) BY <1>1, EditStepEdits, EditGoes
  <1>2. ASSUME NEW p \in Requests, ExecutePlanStep(p) PROVE \E r : Goes(p, r) BY <1>2, ExecuteFacts, WorkGoes
  <1>3. ASSUME NEW p \in Requests, SkipPlanStep(p) PROVE \E r : Goes(p, r) BY <1>3, SkipFacts, WorkGoes
  <1>4. ASSUME NEW p \in Requests, RetryPlanStep(p) PROVE \E r : Goes(p, r) BY <1>4, RetryFacts, WorkGoes
  <1> QED BY <1>1, <1>2, <1>3, <1>4, NextCases, StatementGoes, BetweenGoes

LEMMA ApartStep == Base /\ Apart /\ [Next]_vars => Apart'
PROOF
  <1> SUFFICES ASSUME Base, Apart, [Next]_vars PROVE Apart' OBVIOUS
  <1>1. CASE UNCHANGED vars \/ EditAgent
    <2>1. req' = req /\ wrong \subseteq wrong' BY <1>1 DEF vars, EditAgent
    <2>2. Busy' = Busy /\ (Clean' => Clean) BY <2>1 DEF Busy, At, Clean
    <2> QED BY <2>1, <2>2 DEF Apart, Light
  <1>2. CASE Next BY <1>1, <1>2, NextGoes, GoesApart
  <1> QED BY <1>1, <1>2

\* Two requests of which one executes statements or works on a step.
LEMMA Elsewhere ==
  ASSUME Apart, Clean, NEW p \in Busy, NEW q \in Busy, p # q, ~Light(p)
  PROVE  \/ Light(q)
         \/ req[p].op \in Work /\ req[q].op \in Work /\ req[p].step # req[q].step
PROOF BY DEF Apart

\* What a worker's next statement is.
LEMMA WorkerHead ==
  ASSUME Base, NEW p \in Requests, req[p].pc \in {"write", "store"}, req[p].op \in Workers
  PROVE  /\ WorksOn(Next1(p), req[p].step) /\ req[p].step \in Steps
         /\ DoneBy(Next1(p)) => Len(req[p].todo) = 1 /\ req[p].then = "settle"
         /\ Completes(Next1(p)) => Len(req[p].todo) = 1
         /\ req[p].then = "work" => Next1(p) = SetStatus(req[p].step, "running") /\ Len(req[p].todo) = 1
PROOF
  <1>1. 1 \in DOMAIN req[p].todo /\ Next1(p) = req[p].todo[1] BY HeadFacts DEF Base
  <1>2. ShapeOf(req[p]) BY DEF Base, Shape
  <1>3. WorkerShape(req[p]) BY <1>2 DEF ShapeOf
  <1>4. \A w : Len(<<w>>) = 1 /\ <<w>>[1] = w OBVIOUS
  <1>5. req[p].then = "work" => req[p].todo = <<SetStatus(req[p].step, "running")>> BY <1>3 DEF WorkerShape
  <1>6. req[p].then = "work" => Next1(p) = SetStatus(req[p].step, "running") /\ Len(req[p].todo) = 1
    BY <1>1, <1>4, <1>5
  <1> QED BY <1>1, <1>3, <1>6 DEF WorkerShape

\* The tail of a worker's statements holds a "set" only if its head does not.
LEMMA WorkerTail ==
  ASSUME Base, NEW p \in Requests, req[p].pc \in {"write", "store"}, req[p].op \in Workers, Next1(p).kind = "set"
  PROVE  \A k \in DOMAIN Tail(req[p].todo) : Tail(req[p].todo)[k].kind # "set"
PROOF
  <1> DEFINE td == req[p].todo
             t == Tail(td)
  <1>1. 1 \in DOMAIN td /\ Next1(p) = td[1] /\ Len(td) \in Nat \ {0} /\ Len(t) = Len(td) - 1 /\ t \in Seq(StatementType)
        /\ \A k \in 1..(Len(td) - 1) : t[k] = td[k + 1]
    BY HeadFacts DEF Base
  <1>2. DOMAIN td = 1..Len(td) BY RequestFacts DEF Base
  <1>3. DOMAIN t = 1..(Len(td) - 1) BY <1>1, LenProperties
  <1>4. \A j, k \in DOMAIN td : td[j].kind = "set" /\ td[k].kind = "set" => j = k BY DEF Base, Shape, ShapeOf, WorkerShape
  <1> HIDE DEF td, t
  <1>5. ASSUME NEW k \in DOMAIN t, t[k].kind = "set" PROVE FALSE
    <2>1. k \in 1..(Len(td) - 1) /\ k + 1 \in 1..Len(td) /\ k + 1 # 1 BY <1>1, <1>3
    <2>2. t[k] = td[k + 1] /\ k + 1 \in DOMAIN td BY <1>1, <1>2, <2>1
    <2>3. td[1].kind = "set" BY <1>1
    <2> QED BY <1>1, <1>4, <1>5, <2>1, <2>2, <2>3
  <1> QED BY <1>5 DEF td, t

-----------------------------------------------------------------------------
(* A row read is the row written; a step at work is open                    *)

Held == InHand /\ AtWork

\* What a request holds on to.
HeldOf(r) ==
  /\ r.pc = "store" => Head(r.todo).step \in Live /\ r.row = Patched(steps[Head(r.todo).step], Head(r.todo))
  /\ r.op \in Workers /\ ((\E k \in DOMAIN r.todo : r.todo[k].kind = "set") \/ r.pc = "work") =>
       r.step \in Live /\ ~Done(r.step)

LEMMA HeldOfAll == Held <=> (Clean => \A q \in Requests : HeldOf(req[q]))
PROOF BY DEF Held, InHand, AtWork, HeldOf, At, Next1, SetPending

LEMMA HeldKept ==
  ASSUME Base, Held, NEW p \in Requests, NEW r, req' = [req EXCEPT ![p] = r], wrong \subseteq wrong', steps' = steps,
         Clean => HeldOf(r)
  PROVE  Held'
PROOF
  <1>1. \A q \in Requests : req'[q] = IF q = p THEN r ELSE req[q] BY DEF Base, TypeOK
  <1>2. Clean' => Clean BY DEF Clean
  <1>3. Clean => \A q \in Requests : HeldOf(req[q]) BY HeldOfAll
  <1>4. Live' = Live /\ \A s : Done(s)' <=> Done(s) BY DEF Live, Done
  <1>5. Clean' => \A q \in Requests : HeldOf(req'[q]) BY <1>1, <1>2, <1>3
  <1>6. InHand'
    <2> SUFFICES ASSUME Clean', NEW q \in Requests, At(q, "store")'
                 PROVE  (Next1(q).step \in Live /\ req[q].row = Patched(steps[Next1(q).step], Next1(q)))'
      BY DEF InHand
    <2>1. HeldOf(req'[q]) /\ req'[q].pc = "store" BY <1>5 DEF At
    <2>2. Next1(q)' = Head(req'[q].todo) BY DEF Next1
    <2>3. Next1(q)'.step \in Live /\ req'[q].row = Patched(steps[Next1(q)'.step], Next1(q)') BY <2>1, <2>2 DEF HeldOf
    <2> QED BY <1>4, <2>3 DEF Patched
  <1>7. AtWork'
    <2> SUFFICES ASSUME Clean', NEW q \in Requests, (req[q].op \in Workers /\ (SetPending(q) \/ At(q, "work")))'
                 PROVE  (req[q].step \in Live /\ ~Done(req[q].step))'
      BY DEF AtWork
    <2>1. HeldOf(req'[q]) BY <1>5
    <2>2. req'[q].step \in Live /\ ~Done(req'[q].step) BY <2>1 DEF HeldOf, SetPending, At
    <2> QED BY <1>4, <2>2
  <1> QED BY <1>6, <1>7 DEF Held

LEMMA IdleHeld == HeldOf(Idle)
PROOF
  <1>1. Idle.pc = "idle" /\ Idle.op = "none" BY DEF Idle
  <1> QED BY <1>1 DEF HeldOf, Workers, Work

LEMMA EditHeld ==
  ASSUME Base, Held, NEW p \in Requests, NEW op, NEW s, NEW td, Edits(p, op, s, td)
  PROVE  Held'
PROOF
  <1> DEFINE r == Request(op, s, td, "idle")
  <1>1. r.op = op /\ r.pc = "write" BY DEF Request
  <1>2. op \notin Workers BY DEF Edits, Workers, Work
  <1>3. HeldOf(r) BY <1>1, <1>2 DEF HeldOf
  <1>4. req' = [req EXCEPT ![p] = r] /\ wrong \subseteq wrong' /\ steps' = steps BY DEF Edits
  <1> HIDE DEF r
  <1> QED BY <1>3, <1>4, HeldKept

LEMMA WorkHeld ==
  ASSUME Base, Held, NEW p \in Requests, NEW op, NEW s, NEW td, NEW then, Works(p, op, s, td, then)
  PROVE  Held'
PROOF
  <1> DEFINE r == Request(op, s, td, then)
  <1>1. r.step = s /\ r.pc = "write" BY DEF Request
  <1>3. HeldOf(r) BY <1>1 DEF HeldOf, Works
  <1>4. req' = [req EXCEPT ![p] = r] /\ wrong \subseteq wrong' /\ steps' = steps BY DEF Works
  <1> HIDE DEF r
  <1> QED BY <1>3, <1>4, HeldKept

LEMMA BetweenHeld ==
  ASSUME Base, Held, NEW p \in Requests,
         StartFails(p) \/ Fault(p) \/ ExecuteRefused(p) \/ Run(p) \/ Settle(p) \/ Pick(p) \/ ContinuePlanningRun(p)
  PROVE  Held'
PROOF
  <1>1. steps' = steps /\ wrong \subseteq wrong'
    BY DEF StartFails, Fault, ExecuteRefused, Run, Settle, Pick, ContinuePlanningRun, history
  <1>2. ASSUME NEW r, req' = [req EXCEPT ![p] = r], Clean => HeldOf(r) PROVE Held' BY <1>1, <1>2, HeldKept
  <1>3. ASSUME NEW r, req' = [req EXCEPT ![p] = r], LightOf(r), r.todo = <<>> PROVE Held'
    <2>1. HeldOf(r) BY <1>3 DEF LightOf, HeldOf
    <2> QED BY <1>2, <1>3, <2>1
  <1>4. End(p) => Held' BY <1>2, IdleHeld DEF End, Go
  <1>5. Go(p, Loop) => Held' BY <1>3, LoopLight, LoopType DEF Go
  <1>6. CASE StartFails(p)
    <2> DEFINE r == Request("start", 0, <<SetRun("failed")>>, "idle")
    <2>1. req' = [req EXCEPT ![p] = r] BY <1>6, HandleIsRequest DEF StartFails
    <2>2. r.op = "start" /\ r.pc = "write" BY DEF Request
    <2>3. HeldOf(r) BY <2>2 DEF HeldOf, Workers, Work
    <2> QED BY <1>2, <2>1, <2>3
  <1>7. CASE Fault(p) \/ ExecuteRefused(p) BY <1>4, <1>7 DEF Fault, ExecuteRefused
  <1>8. CASE Run(p)
    <2>1. PICK e \in Endings(req[p].step) : req' = [req EXCEPT ![p] = Ended(p, e[1], e[2])] BY <1>8, RunFacts
    <2>2. /\ Ended(p, e[1], e[2]).op = req[p].op /\ Ended(p, e[1], e[2]).step = req[p].step
          /\ Ended(p, e[1], e[2]).pc = "write"
      BY DEF Ended
    <2>3. req[p].pc = "work" BY <1>8 DEF Run, At
    <2>4. req[p].op \in Workers BY <2>3, Between
    <2>5. Clean => req[p].step \in Live /\ ~Done(req[p].step) BY <2>3, <2>4 DEF Held, AtWork, At
    <2>6. Clean => HeldOf(Ended(p, e[1], e[2])) BY <2>2, <2>5 DEF HeldOf
    <2> QED BY <1>2, <2>1, <2>6
  <1>9. CASE Settle(p)
    <2>1. ASSUME req' = [req EXCEPT ![p] = Completing(p)] PROVE Held'
      <3> DEFINE v == SetRun("completed")
      <3>1. Completing(p).pc = "write" /\ Completing(p).todo = <<v>> BY DEF Completing, Request
      <3>2. v.kind = "run" BY DEF SetRun
      <3> HIDE DEF v
      <3>3. \A k \in DOMAIN <<v>> : <<v>>[k].kind # "set" BY <3>2, OneOf
      <3>4. HeldOf(Completing(p)) BY <3>1, <3>3 DEF HeldOf
      <3> QED BY <1>2, <2>1, <3>4
    <2> QED BY <1>4, <1>5, <1>9, <2>1, SettleFacts
  <1>10. CASE Pick(p)
    <2>1. ASSUME NEW s, req' = [req EXCEPT ![p] = Picked(s)] PROVE Held'
      <3>1. Picked(s).todo = <<>> BY DEF Picked
      <3> QED BY <1>3, <2>1, <3>1, LoopLight
    <2> QED BY <1>4, <1>10, <2>1, PickFacts
  <1>11. CASE ContinuePlanningRun(p) BY <1>5, <1>11 DEF ContinuePlanningRun
  <1> QED BY <1>6, <1>7, <1>8, <1>9, <1>10, <1>11

-----------------------------------------------------------------------------
(* What a statement does when requests are kept apart                       *)

RestSame == UNCHANGED <<made, policy, edits, faults, plan, needs, consent, wrong>>

ReadIn(p) ==
  /\ req[p].pc = "write" /\ Next1(p).kind = "set" /\ Next1(p).step \in Live
  /\ req' = [req EXCEPT ![p] = InStore(p)] /\ steps' = steps /\ run' = run
Stored(p) ==
  /\ req[p].pc = "store" /\ Next1(p).kind = "set" /\ Next1(p).step \in Live
  /\ req[p].row = Patched(steps[Next1(p).step], Next1(p))
  /\ AtIndex(req[p].row.index) \subseteq {Next1(p).step}
  /\ steps' = [steps EXCEPT ![Next1(p).step] = Patched(steps[Next1(p).step], Next1(p))]
  /\ req' = [req EXCEPT ![p] = Then(p)] /\ run' = run
Turned(p) ==
  /\ req[p].pc = "write" /\ Next1(p).kind = "run" /\ run' = Next1(p).run
  /\ req' = [req EXCEPT ![p] = Then(p)] /\ steps' = steps
Dropped(p) ==
  /\ req[p].pc = "write" /\ Next1(p).kind = "delete" /\ Next1(p).step \in Live
  /\ steps' = [steps EXCEPT ![Next1(p).step] = NoRow]
  /\ req' = [req EXCEPT ![p] = Then(p)] /\ run' = run
Inserted(p) ==
  /\ req[p].pc = "write" /\ Next1(p).kind = "create" /\ AtIndex(Next1(p).row.index) = {}
  /\ steps' = [steps EXCEPT ![Next1(p).step] = NewRow(Next1(p).row)]
  /\ req' = [req EXCEPT ![p] = Then(p)] /\ run' = run

\* A statement that cannot be executed ends its request.
Refused(p) ==
  \/ Next1(p).kind \in {"set", "delete"} /\ req[p].pc = "write" /\ Next1(p).step \notin Live
  \/ req[p].pc = "store" /\ ~(AtIndex(req[p].row.index) \subseteq {Next1(p).step})
  \/ Next1(p).kind = "create" /\ AtIndex(Next1(p).row.index) # {}
Stopped(p) ==
  /\ req[p].pc \in {"write", "store"} /\ Refused(p)
  /\ req' = [req EXCEPT ![p] = Idle] /\ run' = run
  /\ \A t \in Steps : steps'[t] = steps[t] \/ (t \notin Live /\ steps'[t] = NoRow)

LEMMA StatementFacts ==
  ASSUME Base, Clean, InHand, NEW p \in Requests, Statement(p)
  PROVE  RestSame /\ (ReadIn(p) \/ Stored(p) \/ Turned(p) \/ Dropped(p) \/ Inserted(p) \/ Stopped(p))
PROOF
  <1>1. RestSame BY DEF Statement, ReadRow, StoreRow, StoreRun, DeleteRow, CreateRow, history, RestSame
  <1>2. steps \in [Steps -> Row] BY DEF Base, TypeOK
  <1>3. CASE ReadRow(p)
    <2>1. req[p].pc = "write" /\ Next1(p).kind = "set" /\ steps' = steps /\ run' = run BY <1>3 DEF ReadRow, At
    <2>2. CASE Next1(p).step \in Live
      <3>1. req' = [req EXCEPT ![p] = InStore(p)] BY <1>3, <2>2, ReadRowFacts
      <3> QED BY <1>1, <2>1, <2>2, <3>1 DEF ReadIn
    <2>3. CASE Next1(p).step \notin Live
      <3>1. req' = [req EXCEPT ![p] = Idle] BY <1>3, <2>3 DEF ReadRow, Go
      <3> QED BY <1>1, <2>1, <2>3, <3>1 DEF Stopped, Refused
    <2> QED BY <2>2, <2>3
  <1>4. CASE StoreRow(p)
    <2>1. req[p].pc = "store" /\ run' = run BY <1>4 DEF StoreRow, At
    <2>2. Next1(p).kind = "set"
      <3>1. ShapeOf(req[p]) /\ Next1(p) = req[p].todo[1] BY <2>1, RequestFacts, HeadFacts DEF Base
      <3> QED BY <2>1, <3>1 DEF ShapeOf
    <2>3. Next1(p).step \in Live /\ req[p].row = Patched(steps[Next1(p).step], Next1(p)) BY <2>1 DEF InHand, At
    <2>4. CASE AtIndex(req[p].row.index) \subseteq {Next1(p).step}
      <3>1. steps' = [steps EXCEPT ![Next1(p).step] = req[p].row] /\ req' = [req EXCEPT ![p] = Then(p)]
        BY <1>4, <2>3, <2>4 DEF StoreRow, Go
      <3> QED BY <1>1, <2>1, <2>2, <2>3, <2>4, <3>1 DEF Stored
    <2>5. CASE ~(AtIndex(req[p].row.index) \subseteq {Next1(p).step})
      <3>1. steps' = steps /\ req' = [req EXCEPT ![p] = Idle] BY <1>4, <2>5 DEF StoreRow, End, Go
      <3> QED BY <1>1, <2>1, <2>5, <3>1 DEF Stopped, Refused
    <2> QED BY <2>4, <2>5
  <1>5. CASE StoreRun(p) BY <1>1, <1>5 DEF StoreRun, At, Go, Turned
  <1>6. CASE DeleteRow(p)
    <2>1. /\ req[p].pc = "write" /\ run' = run /\ Next1(p).kind = "delete"
          /\ steps' = [steps EXCEPT ![Next1(p).step] = NoRow]
      BY <1>6 DEF DeleteRow, At
    <2>2. CASE Next1(p).step \in Live BY <1>1, <1>6, <2>1, <2>2 DEF DeleteRow, Go, Dropped
    <2>3. CASE Next1(p).step \notin Live
      <3>1. req' = [req EXCEPT ![p] = Idle] BY <1>6, <2>3 DEF DeleteRow, Go
      <3>2. \A t \in Steps : steps'[t] = steps[t] \/ (t \notin Live /\ steps'[t] = NoRow) BY <1>2, <2>1, <2>3
      <3> QED BY <1>1, <2>1, <2>3, <3>1, <3>2 DEF Stopped, Refused
    <2> QED BY <2>2, <2>3
  <1>7. CASE CreateRow(p)
    <2>1. req[p].pc = "write" /\ run' = run /\ Next1(p).kind = "create" BY <1>7 DEF CreateRow, At
    <2>2. CASE AtIndex(Next1(p).row.index) = {} BY <1>1, <1>7, <2>1, <2>2 DEF CreateRow, Go, Inserted, NewRow
    <2>3. CASE AtIndex(Next1(p).row.index) # {}
      <3>1. steps' = steps /\ req' = [req EXCEPT ![p] = Idle] BY <1>7, <2>3 DEF CreateRow, End, Go
      <3> QED BY <1>1, <2>1, <2>3, <3>1 DEF Stopped, Refused
    <2> QED BY <2>2, <2>3
  <1> QED BY <1>3, <1>4, <1>5, <1>6, <1>7 DEF Statement

\* A statement touches the row of its step only; the step of another request's is another.
LEMMA Touches ==
  ASSUME Base, Clean, Apart, InHand, NEW p \in Requests, Statement(p)
  PROVE  /\ \A t \in Live : t # Next1(p).step => steps'[t] = steps[t] /\ t \in Live'
         /\ \A q \in Requests \ {p} :
              /\ req'[q] = req[q]
              /\ req[q].op \in Workers /\ ~Light(q) => req[q].step # Next1(p).step \/ steps' = steps
              /\ req[q].op \in Editors => FALSE
         /\ p \in Busy
PROOF
  <1>1. ReadIn(p) \/ Stored(p) \/ Turned(p) \/ Dropped(p) \/ Inserted(p) \/ Stopped(p) BY StatementFacts
  <1>2. req[p].pc \in {"write", "store"} BY <1>1 DEF ReadIn, Stored, Turned, Dropped, Inserted, Stopped
  <1>3. p \in Busy /\ ~Light(p) BY <1>2 DEF Busy, At, Light
  <1>4. steps \in [Steps -> Row] /\ req \in [Requests -> RequestType] BY DEF Base, TypeOK
  <1>5. \A t \in Live : t # Next1(p).step => steps'[t] = steps[t] /\ t \in Live'
    <2> TAKE t \in Live
    <2> HAVE t # Next1(p).step
    <2>1. t \in Steps BY StepLive
    <2>2. steps'[t] = steps[t]
      BY <1>1, <1>4, <2>1 DEF ReadIn, Stored, Turned, Dropped, Inserted, Stopped
    <2> QED BY <2>1, <2>2 DEF Live
  <1>6. ASSUME NEW q \in Requests \ {p}
        PROVE  /\ req'[q] = req[q]
               /\ req[q].op \in Workers /\ ~Light(q) => req[q].step # Next1(p).step \/ steps' = steps
               /\ req[q].op \in Editors => FALSE
    <2>1. req'[q] = req[q] BY <1>1, <1>4 DEF ReadIn, Stored, Turned, Dropped, Inserted, Stopped
    <2>2. CASE q \notin Busy
      <3>1. req[q].op = "none" BY <2>2, RequestFacts DEF Base
      <3> QED BY <2>1, <3>1 DEF Workers, Work, Editors
    <2>3. CASE q \in Busy
      <3>1. Light(q) \/ (req[p].op \in Work /\ req[q].op \in Work /\ req[p].step # req[q].step)
        BY <1>3, <2>3, Elsewhere
      <3>2. CASE Light(q) BY <2>1, <3>2 DEF Light, Editors
      <3>3. CASE req[p].op \in Work /\ req[q].op \in Work /\ req[p].step # req[q].step
        <4>1. req[p].op \in Workers /\ req[q].op \notin Editors BY <3>3 DEF Workers, Work, Editors
        <4>2. WorksOn(Next1(p), req[p].step) BY <1>2, <4>1, WorkerHead
        <4>3. CASE Next1(p).kind = "run"
          <5>1. Next1(p).kind \notin {"set", "delete", "create"} BY <4>3
          <5>2. Turned(p) \/ Stopped(p) BY <1>1, <5>1 DEF ReadIn, Stored, Dropped, Inserted
          <5>3. ~Stopped(p)
            <6>1. SUFFICES ASSUME Stopped(p) PROVE FALSE OBVIOUS
            <6>2. req[p].pc = "store" BY <5>1, <6>1 DEF Stopped, Refused
            <6>3. ShapeOf(req[p]) /\ Next1(p) = req[p].todo[1] BY <1>2, RequestFacts, HeadFacts DEF Base
            <6> QED BY <4>3, <6>2, <6>3 DEF ShapeOf
          <5> QED BY <2>1, <4>1, <5>2, <5>3 DEF Turned
        <4>4. CASE Next1(p).step = req[p].step BY <2>1, <3>3, <4>1, <4>4
        <4> QED BY <4>2, <4>3, <4>4 DEF WorksOn
      <3> QED BY <3>1, <3>2, <3>3
    <2> QED BY <2>2, <2>3
  <1> QED BY <1>3, <1>5, <1>6

\* The rest of a request's statements.
LEMMA TailIn ==
  ASSUME TypeOK, Shape, NEW p \in Requests, req[p].pc \in {"write", "store"}
  PROVE  /\ \A k \in DOMAIN Tail(req[p].todo) :
              k + 1 \in DOMAIN req[p].todo /\ req[p].todo[k + 1] = Tail(req[p].todo)[k] /\ k \in Nat \ {0}
         /\ DOMAIN Tail(req[p].todo) = 1..(Len(req[p].todo) - 1)
PROOF
  <1> DEFINE td == req[p].todo
             t == Tail(td)
  <1>1. Len(td) \in Nat \ {0} /\ Len(t) = Len(td) - 1 /\ t \in Seq(StatementType) /\ \A k \in 1..(Len(td) - 1) : t[k] = td[k + 1]
    BY HeadFacts
  <1>2. DOMAIN td = 1..Len(td) BY RequestFacts
  <1>3. DOMAIN t = 1..(Len(td) - 1) BY <1>1, LenProperties
  <1> HIDE DEF td, t
  <1>4. \A k \in DOMAIN t : k + 1 \in DOMAIN td /\ td[k + 1] = t[k] /\ k \in Nat \ {0}
    <2> TAKE k \in DOMAIN t
    <2>1. k \in 1..(Len(td) - 1) /\ k + 1 \in 1..Len(td) BY <1>1, <1>3
    <2> QED BY <1>1, <1>2, <2>1
  <1> QED BY <1>3, <1>4 DEF td, t

LEMMA StatementHeld ==
  ASSUME Base, Apart, Held, NEW p \in Requests, Statement(p)
  PROVE  Held'
PROOF
  <1>1. SUFFICES ASSUME Clean PROVE Held'
    <2>1. wrong' = wrong BY DEF Statement, ReadRow, StoreRow, StoreRun, DeleteRow, CreateRow, history
    <2> QED BY <1>1, <2>1 DEF Held, InHand, AtWork, Clean
  <1>2. InHand BY DEF Held
  <1>3. RestSame /\ (ReadIn(p) \/ Stored(p) \/ Turned(p) \/ Dropped(p) \/ Inserted(p) \/ Stopped(p))
    BY <1>1, <1>2, StatementFacts
  <1>4. /\ \A t \in Live : t # Next1(p).step => steps'[t] = steps[t] /\ t \in Live'
        /\ \A q \in Requests \ {p} :
              /\ req'[q] = req[q]
              /\ req[q].op \in Workers /\ ~Light(q) => req[q].step # Next1(p).step \/ steps' = steps
              /\ req[q].op \in Editors => FALSE
    BY <1>1, <1>2, Touches
  <1>5. req \in [Requests -> RequestType] /\ steps \in [Steps -> Row] BY DEF Base, TypeOK
  <1>6. req[p].pc \in {"write", "store"} BY <1>3 DEF ReadIn, Stored, Turned, Dropped, Inserted, Stopped
  <1>7. InHand'
    <2> SUFFICES ASSUME NEW q \in Requests, At(q, "store")'
                 PROVE  (Next1(q).step \in Live /\ req[q].row = Patched(steps[Next1(q).step], Next1(q)))'
      BY DEF InHand
    <2>1. req'[q].pc = "store" BY DEF At
    <2>2. CASE q = p
      <3>1. req'[p] = InStore(p) /\ steps' = steps /\ Next1(p).step \in Live
        <4>1. Then(p).pc # "store" /\ Idle.pc # "store" BY <1>6, ThenFacts DEF Idle, Base
        <4> QED BY <1>3, <1>5, <2>1, <2>2, <4>1 DEF ReadIn, Stored, Turned, Dropped, Inserted, Stopped
      <3>2. Next1(p)' = Next1(p) /\ req'[p].row = Patched(steps[Next1(p).step], Next1(p)) BY <3>1 DEF Next1, InStore
      <3>3. Live' = Live BY <3>1 DEF Live
      <3> QED BY <2>2, <3>1, <3>2, <3>3 DEF Patched
    <2>3. CASE q # p
      <3>1. req'[q] = req[q] BY <1>4, <2>3
      <3>2. req[q].pc = "store" /\ Next1(q)' = Next1(q) BY <2>1, <3>1 DEF Next1
      <3>3. Next1(q).step \in Live /\ req[q].row = Patched(steps[Next1(q).step], Next1(q)) BY <1>1, <1>2, <3>2 DEF InHand, At
      <3>4. ~Light(q) /\ req[q].op # "none"
        <4>1. q \in Busy BY <3>2 DEF Busy, At
        <4> QED BY <3>2, <4>1, RequestFacts DEF Light, Base
      <3>5. req[q].op \in Workers
        <4>1. req[q].op \in {"none", "start", "edit", "continue"} \cup Work BY <1>5 DEF RequestType
        <4>2. req[q].op \notin Editors BY <1>4, <2>3
        <4> QED BY <3>4, <4>1, <4>2 DEF Editors, Workers, Work
      <3>6. Next1(q).step = req[q].step
        <4>1. Next1(q).kind = "set"
          <5>1. ShapeOf(req[q]) /\ Next1(q) = req[q].todo[1] BY <3>2, RequestFacts, HeadFacts DEF Base
          <5> QED BY <3>2, <5>1 DEF ShapeOf
        <4> QED BY <3>2, <3>5, <4>1, WorkerHead DEF WorksOn
      <3>7. steps'[Next1(q).step] = steps[Next1(q).step] /\ Next1(q).step \in Live'
        <4>1. req[q].step # Next1(p).step \/ steps' = steps BY <1>4, <2>3, <3>4, <3>5
        <4>2. CASE steps' = steps BY <3>3, <4>2 DEF Live
        <4> QED BY <1>4, <3>3, <3>6, <4>1, <4>2
      <3> QED BY <3>1, <3>2, <3>3, <3>7 DEF Patched
    <2> QED BY <2>2, <2>3
  <1>8. AtWork'
    <2> SUFFICES ASSUME NEW q \in Requests, (req[q].op \in Workers /\ (SetPending(q) \/ At(q, "work")))'
                 PROVE  (req[q].step \in Live /\ ~Done(req[q].step))'
      BY DEF AtWork
    <2>1. req'[q].op \in Workers /\ (req'[q].pc = "work" \/ \E k \in DOMAIN req'[q].todo : req'[q].todo[k].kind = "set")
      BY DEF SetPending, At
    <2> SUFFICES /\ req'[q].step \in Live'
                 /\ steps'[req'[q].step].status \notin {"completed", "skipped"}
      BY DEF Done
    <2>2. CASE q # p
      <3>1. req'[q] = req[q] BY <1>4, <2>2
      <3>2. req[q].step \in Live /\ ~Done(req[q].step) BY <1>1, <2>1, <3>1 DEF Held, AtWork, SetPending, At
      <3>3. ~Light(q)
        <4>1. ShapeOf(req[q]) BY RequestFacts DEF Base
        <4>2. Light(q) => req[q].todo = <<>> /\ DOMAIN req[q].todo = {} BY <4>1 DEF Light, ShapeOf
        <4> QED BY <2>1, <3>1, <4>2 DEF Light
      <3>4. steps'[req[q].step] = steps[req[q].step] /\ req[q].step \in Live'
        <4>1. req[q].step # Next1(p).step \/ steps' = steps BY <1>4, <2>1, <2>2, <3>1, <3>3
        <4>2. CASE steps' = steps BY <3>2, <4>2 DEF Live
        <4> QED BY <1>4, <3>2, <4>1, <4>2
      <3> QED BY <3>1, <3>2, <3>4 DEF Done
    <2>3. CASE q = p
      <3>1. CASE ReadIn(p)
        <4>1. req'[p] = InStore(p) /\ steps' = steps BY <1>5, <3>1 DEF ReadIn
        <4>2. /\ req'[p].op = req[p].op /\ req'[p].todo = req[p].todo /\ req'[p].step = req[p].step
              /\ req'[p].pc = "store"
          BY <4>1 DEF InStore
        <4>3. req[p].step \in Live /\ ~Done(req[p].step) BY <1>1, <2>1, <2>3, <4>2 DEF Held, AtWork, SetPending
        <4> QED BY <2>3, <4>1, <4>2, <4>3 DEF Live, Done
      <3>2. CASE Stopped(p)
        <4>1. req'[p] = Idle BY <1>5, <3>2 DEF Stopped
        <4> QED BY <2>1, <2>3, <4>1 DEF Idle, Workers, Work
      <3>3. CASE Stored(p) \/ Turned(p) \/ Dropped(p) \/ Inserted(p)
        <4>1. req'[p] = Then(p) BY <1>5, <3>3 DEF Stored, Turned, Dropped, Inserted
        <4>2. Then(p) # Idle BY <2>1, <2>3, <4>1 DEF Idle, Workers, Work
        <4>3. /\ Then(p).op = req[p].op /\ Then(p).step = req[p].step /\ Then(p).todo = Tail(req[p].todo)
              /\ Then(p).pc = "work" => req[p].then = "work"
          BY <1>6, <4>2, ThenFacts DEF Base
        <4>4. req[p].op \in Workers BY <2>1, <2>3, <4>1, <4>3
        <4>5. /\ WorksOn(Next1(p), req[p].step) /\ req[p].step \in Steps
              /\ req[p].then = "work" => Next1(p) = SetStatus(req[p].step, "running") /\ Len(req[p].todo) = 1
          BY <1>6, <4>4, WorkerHead
        <4>6. CASE Next1(p).kind = "run"
          <5>1. steps' = steps BY <3>3, <4>6 DEF Stored, Turned, Dropped, Inserted
          <5>2. SetPending(p) \/ req[p].then = "work"
            <6>1. CASE Then(p).pc = "work" BY <4>3, <6>1
            <6>2. CASE \E k \in DOMAIN Tail(req[p].todo) : Tail(req[p].todo)[k].kind = "set"
              <7>1. PICK k \in DOMAIN Tail(req[p].todo) : Tail(req[p].todo)[k].kind = "set" BY <6>2
              <7>2. k + 1 \in DOMAIN req[p].todo /\ req[p].todo[k + 1] = Tail(req[p].todo)[k] BY <1>6, TailIn DEF Base
              <7> QED BY <7>1, <7>2 DEF SetPending
            <6> QED BY <2>1, <2>3, <4>1, <4>3, <6>1, <6>2
          <5>3. req[p].then = "work" => FALSE
            <6>1. SetStatus(req[p].step, "running").kind = "set" BY DEF SetStatus, Set
            <6> QED BY <4>5, <4>6, <6>1
          <5>4. req[p].step \in Live /\ ~Done(req[p].step) BY <1>1, <4>4, <5>2, <5>3 DEF Held, AtWork
          <5> QED BY <2>3, <4>1, <4>3, <5>1, <5>4 DEF Live, Done
        <4>7. CASE Next1(p).kind = "set" /\ Next1(p).step = req[p].step
          <5>1. \A k \in DOMAIN Tail(req[p].todo) : Tail(req[p].todo)[k].kind # "set" BY <1>6, <4>4, <4>7, WorkerTail
          <5>2. Then(p).pc = "work" BY <2>1, <2>3, <4>1, <4>3, <5>1
          <5>3. Next1(p) = SetStatus(req[p].step, "running") BY <4>3, <4>5, <5>2
          <5>4. Stored(p) BY <3>3, <4>7 DEF Turned, Dropped, Inserted
          <5> DEFINE s == req[p].step
                     w == SetStatus(s, "running")
          <5>5. OnStep(w, s, {"status"}, StatusRow("running")) /\ StatusRow("running").status = "running"
            BY <4>5, StatusTypes, SetStatusFacts, StatusRowType
          <5>6. s \in Live /\ s \in Steps /\ steps' = [steps EXCEPT ![s] = Patched(steps[s], w)]
            BY <4>7, <5>3, <5>4, StepLive DEF Stored
          <5> HIDE DEF w
          <5>7. Patched(steps[s], w).index = steps[s].index /\ Patched(steps[s], w).status = "running"
            BY <5>5 DEF Patched, OnStep
          <5>8. steps'[s].index = steps[s].index /\ steps'[s].status = "running" BY <1>5, <5>6, <5>7
          <5> QED BY <2>3, <4>1, <4>3, <5>6, <5>8 DEF Live
        <4> QED BY <4>5, <4>6, <4>7 DEF WorksOn
      <3> QED BY <1>3, <3>1, <3>2, <3>3
    <2> QED BY <2>2, <2>3
  <1> QED BY <1>7, <1>8 DEF Held

LEMMA HeldStep == Base /\ Apart /\ Held /\ [Next]_vars => Held'
PROOF
  <1> SUFFICES ASSUME Base, Apart, Held, [Next]_vars PROVE Held' OBVIOUS
  <1>1. CASE UNCHANGED vars \/ EditAgent
    <2>1. req' = req /\ wrong \subseteq wrong' /\ steps' = steps BY <1>1 DEF vars, EditAgent
    <2>2. Live' = Live /\ (Clean' => Clean) BY <2>1 DEF Live, Clean
    <2>3. InHand'
      <3> SUFFICES ASSUME Clean', NEW q \in Requests, At(q, "store")'
                   PROVE  (Next1(q).step \in Live /\ req[q].row = Patched(steps[Next1(q).step], Next1(q)))'
        BY DEF InHand
      <3>1. At(q, "store") /\ Next1(q)' = Next1(q) BY <2>1 DEF At, Next1
      <3>2. Next1(q).step \in Live /\ req[q].row = Patched(steps[Next1(q).step], Next1(q)) BY <2>2, <3>1 DEF Held, InHand
      <3> QED BY <2>1, <2>2, <3>1, <3>2 DEF Patched
    <2>4. AtWork'
      <3> SUFFICES ASSUME Clean', NEW q \in Requests, (req[q].op \in Workers /\ (SetPending(q) \/ At(q, "work")))'
                   PROVE  (req[q].step \in Live /\ ~Done(req[q].step))'
        BY DEF AtWork
      <3>1. req[q].op \in Workers /\ (SetPending(q) \/ At(q, "work")) BY <2>1 DEF SetPending, At
      <3>2. req[q].step \in Live /\ ~Done(req[q].step) BY <2>2, <3>1 DEF Held, AtWork
      <3> QED BY <2>1, <2>2, <3>2 DEF Done
    <2> QED BY <2>3, <2>4 DEF Held
  <1>2. ASSUME NEW p \in Requests, EditStep(p) PROVE Held' BY <1>2, EditStepEdits, EditHeld
  <1>3. ASSUME NEW p \in Requests, ExecutePlanStep(p) PROVE Held' BY <1>3, ExecuteFacts, WorkHeld
  <1>4. ASSUME NEW p \in Requests, SkipPlanStep(p) PROVE Held' BY <1>4, SkipFacts, WorkHeld
  <1>5. ASSUME NEW p \in Requests, RetryPlanStep(p) PROVE Held' BY <1>5, RetryFacts, WorkHeld
  <1>6. CASE Next BY <1>1, <1>2, <1>3, <1>4, <1>5, <1>6, NextCases, StatementHeld, BetweenHeld
  <1> QED BY <1>1, <1>6

-----------------------------------------------------------------------------
(* What a user has approved                                                 *)

AllowedStatement(td, k) ==
  \/ Harmless(td[k])
  \/ /\ k = Len(td) /\ (\A j \in 1..(k - 1) : td[j].kind = "run")
     /\ Consented(td[k].step, Patched(steps[td[k].step], td[k]))
AllowedOf(r) ==
  /\ \A k \in DOMAIN r.todo : r.todo[k].kind = "set" => AllowedStatement(r.todo, k)
  /\ r.pc \in {"write", "store"} /\ r.then = "work" => MayRun(r.step, steps[r.step].tool)
  /\ r.pc = "work" => MayRun(r.step, r.row.tool)
Allowed ==
  /\ \A s \in Steps : Consented(s, steps[s])
  /\ \A p \in Requests : AllowedOf(req[p])
  /\ "unapproved" \notin wrong

LEMMA ApprovedIs == Approved <=> (Clean => Allowed)
PROOF BY DEF Approved, Allowed, AllowedOf, AllowedStatement, Approving, At

\* What a request may do depends on the rows, the policy and the users' consent.
LEMMA AllowedSame ==
  ASSUME NEW x, AllowedOf(x), steps' = steps, policy' = policy, consent' = consent
  PROVE  AllowedOf(x)'
PROOF
  <1>1. \A td, k : AllowedStatement(td, k)' <=> AllowedStatement(td, k) BY DEF AllowedStatement, Consented, Patched
  <1>2. \A s : (MayRun(s, steps[s].tool))' <=> MayRun(s, steps[s].tool) BY DEF MayRun, Risky
  <1>3. \A s, tool : MayRun(s, tool)' <=> MayRun(s, tool) BY DEF MayRun, Risky
  <1>4. \A k \in DOMAIN x.todo : x.todo[k].kind = "set" => AllowedStatement(x.todo, k)' BY <1>1 DEF AllowedOf
  <1>5. x.pc \in {"write", "store"} /\ x.then = "work" => (MayRun(x.step, steps[x.step].tool))' BY <1>2 DEF AllowedOf
  <1>6. x.pc = "work" => MayRun(x.step, x.row.tool)' BY <1>3 DEF AllowedOf
  <1> QED BY <1>4, <1>5, <1>6 DEF AllowedOf

\* A request changes, and what it may do is right.
LEMMA AllowedKept ==
  ASSUME Base, Allowed, NEW p \in Requests, NEW r, req' = [req EXCEPT ![p] = r], AllowedOf(r),
         steps' = steps, policy' = policy, consent' = consent, "unapproved" \notin wrong'
  PROVE  Allowed'
PROOF
  <1>1. \A q \in Requests : req'[q] = IF q = p THEN r ELSE req[q] BY DEF Base, TypeOK
  <1>2. \A q \in Requests : AllowedOf(req'[q]) BY <1>1 DEF Allowed
  <1>3. \A s, row : Consented(s, row)' <=> Consented(s, row) BY DEF Consented
  <1>4. \A s, tool : MayRun(s, tool)' <=> MayRun(s, tool) BY DEF MayRun, Risky
  <1>5. \A s \in Steps : Consented(s, steps[s])' BY DEF Allowed, Consented
  <1>6. \A q \in Requests : AllowedOf(req[q])'
    <2> TAKE q \in Requests
    <2>1. PICK x : x = req'[q] OBVIOUS
    <2>2. AllowedOf(x) BY <1>2, <2>1
    <2>3. AllowedOf(x)' BY <2>2, AllowedSame
    <2> QED BY <2>1, <2>3 DEF AllowedOf, AllowedStatement
  <1> QED BY <1>5, <1>6 DEF Allowed

LEMMA IdleAllowed == AllowedOf(Idle) /\ AllowedOf(Loop) /\ \A s : AllowedOf(Picked(s))
PROOF
  <1>1. Idle.todo = <<>> /\ Idle.pc = "idle" BY DEF Idle
  <1>2. Loop.todo = <<>> /\ Loop.pc = "pick" BY LoopIs
  <1>3. \A s : Picked(s).todo = <<>> /\ Picked(s).pc = "execute" BY DEF Picked
  <1>4. DOMAIN <<>> = {} OBVIOUS
  <1> HIDE DEF Loop
  <1> QED BY <1>1, <1>2, <1>3, <1>4 DEF AllowedOf

\* An edit without approvals.
LEMMA HarmlessEdit ==
  ASSUME Base, Allowed, NEW p \in Requests, NEW op, NEW s, NEW td, Edits(p, op, s, td), consent' = consent,
         \A k \in DOMAIN td : td[k].kind = "set" => AllowedStatement(td, k)
  PROVE  Allowed'
PROOF
  <1> DEFINE r == Request(op, s, td, "idle")
  <1>1. r.todo = td /\ r.pc = "write" /\ r.then = "idle" BY DEF Request
  <1>2. AllowedOf(r) BY <1>1 DEF AllowedOf
  <1>3. req' = [req EXCEPT ![p] = r] /\ steps' = steps /\ policy' = policy BY DEF Edits
  <1>4. "unapproved" \notin wrong' BY DEF Edits, Allowed
  <1> HIDE DEF r
  <1> QED BY <1>2, <1>3, <1>4, AllowedKept

LEMMA PlainAllowed ==
  ASSUME NEW td \in Seq(PlainStatements)
  PROVE  \A k \in DOMAIN td : AllowedStatement(td, k)
PROOF
  <1> TAKE k \in DOMAIN td
  <1>1. td[k] \in PlainStatements BY LenProperties, ElementOfSeq
  <1> QED BY <1>1 DEF PlainStatements, AllowedStatement

\* What ApprovePlanStep does: the one edit that consents.
LEMMA AcceptAllowed ==
  ASSUME Base, Allowed, Clean', NEW p \in Requests, NEW s, NEW w, Accepted(p, s, w)
  PROVE  Allowed'
PROOF
  <1> DEFINE r == Request("edit", s, <<w>>, "idle")
  <1>1. /\ s \in Live /\ Accepting(w, s) /\ consent' = [consent EXCEPT ![s] = steps[s].tool]
        /\ Edits(p, "edit", s, <<w>>)
    BY DEF Accepted
  <1>2. s \in Steps BY <1>1, StepLive
  <1>3. req' = [req EXCEPT ![p] = r] /\ steps' = steps /\ Mixes(p, "edit", s) \subseteq wrong' /\ "unapproved" \notin wrong'
    BY <1>1 DEF Edits, Allowed
  <1>4. consent'[s] = steps[s].tool /\ \A t \in Steps \ {s} : consent'[t] = consent[t] BY <1>1, <1>2 DEF Base, TypeOK
  <1>5. "mixed" \notin Mixes(p, "edit", s) BY <1>3 DEF Clean
  <1>6. \A q \in Busy \ {p} : FALSE BY <1>5, Unmixed DEF Work
  <1>7. \A q \in Requests \ {p} : req'[q] = Idle
    <2> TAKE q \in Requests \ {p}
    <2>1. req'[q] = req[q] BY <1>3 DEF Base, TypeOK
    <2>2. req[q].pc = "idle" BY <1>6 DEF Busy, At
    <2>3. ShapeOf(req[q]) BY RequestFacts DEF Base
    <2> QED BY <2>1, <2>2, <2>3 DEF ShapeOf
  <1>8. req'[p] = r /\ r.todo = <<w>> /\ r.pc = "write" /\ r.then = "idle" BY <1>3 DEF Request, Base, TypeOK
  <1>9. /\ w.kind = "set" /\ w.step = s /\ w.fields = {"status", "approval"}
    BY <1>1 DEF Accepting
  <1>10. Patched(steps[s], w).tool = steps[s].tool BY <1>9 DEF Patched
  <1>11. Consented(s, Patched(steps[s], w))' BY <1>3, <1>4, <1>10 DEF Consented, ApprovedRow, Patched
  <1>12. \A t \in Steps : Consented(t, steps[t])' BY <1>3, <1>4 DEF Allowed, Consented
  <1>13. \A q \in Requests : AllowedOf(req[q])'
    <2> TAKE q \in Requests
    <2>1. CASE q = p
      <3>1. AllowedStatement(<<w>>, 1)'
        <4>1. Len(<<w>>) = 1 /\ <<w>>[1] = w /\ 1..(1 - 1) = {} OBVIOUS
        <4>2. Consented(<<w>>[1].step, Patched(steps[<<w>>[1].step], <<w>>[1]))' BY <1>9, <1>11, <4>1
        <4> QED BY <4>1, <4>2 DEF AllowedStatement
      <3>2. \A k \in DOMAIN r.todo : k = 1 BY <1>8, OneOf
      <3>3. \A k \in DOMAIN req'[p].todo : k = 1 BY <1>8, <3>2
      <3> QED BY <1>8, <2>1, <3>1, <3>3 DEF AllowedOf
    <2>2. CASE q # p
      <3>1. req'[q].todo = <<>> /\ req'[q].pc = "idle" BY <1>7, <2>2 DEF Idle
      <3>2. DOMAIN <<>> = {} OBVIOUS
      <3> QED BY <3>1, <3>2 DEF AllowedOf
    <2> QED BY <2>1, <2>2
  <1> QED BY <1>3, <1>12, <1>13 DEF Allowed

LEMMA UpdateAllowed ==
  ASSUME Base, Allowed, NEW p \in Requests, NEW s, NEW tool, NEW deps, NEW w, Updated(p, s, tool, deps, w)
  PROVE  Allowed'
PROOF
  <1>1. /\ s \in Live /\ Updating(w, s, tool, deps) /\ consent' = consent /\ Edits(p, "edit", s, <<w>>)
    BY DEF Updated
  <1>2. ~ApprovedRow(Patched(steps[s], w))
    <2>1. /\ "approval" \in w.fields /\ w.row.approval \in {"pending", "not_required"} /\ w.row.status = "pending"
          /\ ApprovedRow(steps[s]) => "status" \in w.fields
      BY <1>1 DEF Updating
    <2> QED BY <2>1 DEF Patched, ApprovedRow
  <1>3. AllowedStatement(<<w>>, 1)
    <2>1. Len(<<w>>) = 1 /\ <<w>>[1] = w /\ 1..(1 - 1) = {} OBVIOUS
    <2>2. w.step = s BY <1>1 DEF Updating
    <2> QED BY <1>2, <2>1, <2>2 DEF AllowedStatement, Consented
  <1>4. \A k \in DOMAIN <<w>> : k = 1 BY OneOf
  <1> QED BY <1>1, <1>3, <1>4, HarmlessEdit

LEMMA EditAllowed ==
  ASSUME Base, Allowed, Clean', NEW p \in Requests, EditStep(p)
  PROVE  Allowed'
PROOF
  <1>1. ASSUME NEW op, NEW s, NEW td \in Seq(PlainStatements), consent' = consent, Edits(p, op, s, td) PROVE Allowed'
    BY <1>1, PlainAllowed, HarmlessEdit
  <1>2. ASSUME NEW specs, NEW td, Started(p, specs, td) PROVE Allowed'
    BY <1>1, <1>2 DEF Started, StartLayout
  <1>3. ASSUME NEW w, Unanswered(p, w) PROVE Allowed'
    <2>1. w \in PlainStatements /\ consent' = consent /\ Edits(p, "start", 0, <<w>>) BY <1>3 DEF Unanswered
    <2> QED BY <1>1, <2>1, OneOf
  <1>4. ASSUME NEW at \in Nat \ {0}, NEW tool, NEW deps, NEW td, Created(p, at, tool, deps, td) PROVE Allowed'
    BY <1>1, <1>4 DEF Created, CreateLayout
  <1>5. ASSUME NEW s, NEW t, NEW td, Swapped(p, s, t, td) PROVE Allowed' BY <1>1, <1>5 DEF Swapped, MoveLayout
  <1>6. ASSUME NEW s, NEW td, Deleted(p, s, td) PROVE Allowed' BY <1>1, <1>6 DEF Deleted, DeleteLayout
  <1>7. ASSUME NEW specs, NEW td, Adjusted(p, specs, td) PROVE Allowed' BY <1>1, <1>7 DEF Adjusted, AdjustLayout
  <1> QED BY <1>2, <1>3, <1>4, <1>5, <1>6, <1>7, UpdateAllowed, AcceptAllowed, EditStepFacts

\* A worker's statement that is harmless, on its own.
LEMMA SetStatusHarmless ==
  ASSUME NEW s \in Steps, NEW status \in Statuses \ {"approved"}
  PROVE  Harmless(SetStatus(s, status))
PROOF
  <1> DEFINE w == SetStatus(s, status)
  <1>1. OnStep(w, s, {"status"}, StatusRow(status)) /\ StatusRow(status).status = status BY SetStatusFacts, StatusRowType
  <1> HIDE DEF w
  <1>2. Harmless(w) BY <1>1 DEF OnStep, Harmless
  <1> QED BY <1>2 DEF w

LEMMA OneAllowed ==
  ASSUME NEW r, NEW w, r.todo = <<w>>, Harmless(w) \/ w.kind # "set", r.pc = "write", r.then # "work"
  PROVE  AllowedOf(r)
PROOF
  <1>1. \A k \in DOMAIN <<w>> : <<w>>[k] = w BY OneOf
  <1> QED BY <1>1 DEF AllowedOf, AllowedStatement

\* What is executable and is not judged again may run.
LEMMA ExecutableMayRun ==
  ASSUME Base, Allowed, NEW s \in Live, Executable(s), ~Rejudge(s)
  PROVE  MayRun(s, steps[s].tool)
PROOF
  <1>1. s \in Steps BY StepLive
  <1>2. Consented(s, steps[s]) BY <1>1 DEF Allowed
  <1> QED BY <1>2 DEF Executable, Rejudge, MayRun, Consented, ApprovedRow

LEMMA ExecuteAllowed ==
  ASSUME Base, Allowed, NEW p \in Requests, ExecutePlanStep(p)
  PROVE  Allowed'
PROOF
  <1>1. PICK s \in Live :
           /\ Executable(s)
           /\ \/ Rejudge(s) /\ Works(p, "execute", s, <<ToApprove(s)>>, "idle")
              \/ /\ ~Rejudge(s) /\ PriorDone(s)
                 /\ \E op \in {"execute", "continue"} : Works(p, op, s, <<SetStatus(s, "running")>>, "work")
    BY ExecuteFacts
  <1>2. s \in Steps BY StepLive
  <1>3. CASE Rejudge(s) /\ Works(p, "execute", s, <<ToApprove(s)>>, "idle")
    <2> DEFINE w == ToApprove(s)
               r == Request("execute", s, <<w>>, "idle")
    <2>1. OnStep(w, s, {"approval"}, NoRow) /\ NoRow.approval = "pending"
      BY <1>2, NoRowType, OnStepFacts DEF ToApprove, NoRow
    <2>2. /\ req' = [req EXCEPT ![p] = r] /\ UNCHANGED <<steps, policy, consent>> /\ "unapproved" \notin wrong'
      BY <1>3, MixesType DEF Works, Allowed
    <2>3. r.todo = <<w>> /\ r.pc = "write" /\ r.then = "idle" BY DEF Request
    <2> HIDE DEF w, r
    <2>4. Harmless(w) BY <2>1 DEF OnStep, Harmless
    <2>5. AllowedOf(r) BY <2>3, <2>4, OneAllowed
    <2> QED BY <2>2, <2>5, AllowedKept
  <1>4. ASSUME ~Rejudge(s), NEW op, Works(p, op, s, <<SetStatus(s, "running")>>, "work") PROVE Allowed'
    <2> DEFINE w == SetStatus(s, "running")
               r == Request(op, s, <<w>>, "work")
    <2>1. Harmless(w) BY <1>2, SetStatusHarmless, StatusTypes
    <2>2. /\ req' = [req EXCEPT ![p] = r] /\ UNCHANGED <<steps, policy, consent>> /\ "unapproved" \notin wrong'
      BY <1>4, MixesType DEF Works, Allowed
    <2>3. r.todo = <<w>> /\ r.pc = "write" /\ r.then = "work" /\ r.step = s BY DEF Request
    <2> HIDE DEF w, r
    <2>4. MayRun(s, steps[s].tool) BY <1>1, <1>4, ExecutableMayRun
    <2>5. \A k \in DOMAIN <<w>> : <<w>>[k] = w BY OneOf
    <2>6. AllowedOf(r) BY <2>1, <2>3, <2>4, <2>5 DEF AllowedOf, AllowedStatement
    <2> QED BY <2>2, <2>6, AllowedKept
  <1> QED BY <1>1, <1>3, <1>4

LEMMA SkipAllowed ==
  ASSUME Base, Allowed, NEW p \in Requests, SkipPlanStep(p)
  PROVE  Allowed'
PROOF
  <1>1. PICK s \in Live : Works(p, "skip", s, <<SetStatus(s, "skipped")>>, "settle") BY SkipFacts
  <1>2. s \in Steps BY StepLive
  <1> DEFINE w == SetStatus(s, "skipped")
             r == Request("skip", s, <<w>>, "settle")
  <1>3. Harmless(w) BY <1>2, SetStatusHarmless, StatusTypes
  <1>4. /\ req' = [req EXCEPT ![p] = r] /\ UNCHANGED <<steps, policy, consent>> /\ "unapproved" \notin wrong'
    BY <1>1, MixesType DEF Works, Allowed
  <1>5. r.todo = <<w>> /\ r.pc = "write" /\ r.then = "settle" BY DEF Request
  <1> HIDE DEF w, r
  <1>6. AllowedOf(r) BY <1>3, <1>5, OneAllowed
  <1> QED BY <1>4, <1>6, AllowedKept

LEMMA RetryAllowed ==
  ASSUME Base, Allowed, NEW p \in Requests, RetryPlanStep(p)
  PROVE  Allowed'
PROOF
  <1>1. PICK s \in Live, then \in {"idle", "execute"} :
           /\ steps[s].status = "failed"
           /\ Works(p, "retry", s, <<SetRun("pending_approval"), ToRetry(s)>>, then)
    BY RetryFacts
  <1>2. s \in Steps BY StepLive
  <1> DEFINE v == SetRun("pending_approval")
             w == ToRetry(s)
             r == Request("retry", s, <<v, w>>, then)
  <1>3. /\ req' = [req EXCEPT ![p] = r] /\ UNCHANGED <<steps, policy, consent>> /\ "unapproved" \notin wrong'
    BY <1>1, MixesType DEF Works, Allowed
  <1>4. r.todo = <<v, w>> /\ r.pc = "write" /\ r.then = then BY DEF Request
  <1>5. OnStep(w, s, {"status", "approval"}, RetryRow(s)) BY <1>2, RetryRowFacts, OnStepFacts DEF ToRetry
  <1>6. v.kind = "run" BY DEF SetRun
  <1>7. Consented(s, steps[s]) BY <1>2 DEF Allowed
  <1> HIDE DEF v, w, r
  <1>8. Patched(steps[s], w).approval = RetryApproval(s) /\ Patched(steps[s], w).status = RetryStatus(s)
        /\ Patched(steps[s], w).tool = steps[s].tool
    BY <1>5, RetryRowFacts DEF OnStep, Patched
  <1>9. Consented(s, Patched(steps[s], w))
    <2>1. ApprovedRow(Patched(steps[s], w)) => steps[s].approval = "approved"
      BY <1>8 DEF ApprovedRow, RetryApproval, RetryStatus
    <2> QED BY <1>7, <1>8, <2>1 DEF Consented, ApprovedRow
  <1>10. /\ Len(<<v, w>>) = 2 /\ DOMAIN <<v, w>> = {1, 2} /\ <<v, w>>[1] = v /\ <<v, w>>[2] = w /\ 1..(2 - 1) = {1}
    BY TwoOf
  <1>11. w.step = s BY <1>5 DEF OnStep
  <1>12. AllowedStatement(<<v, w>>, 2) BY <1>6, <1>9, <1>10, <1>11 DEF AllowedStatement
  <1>13. AllowedOf(r) BY <1>1, <1>4, <1>6, <1>10, <1>12 DEF AllowedOf
  <1> QED BY <1>3, <1>13, AllowedKept

LEMMA BetweenAllowed ==
  ASSUME Base, Allowed, NEW p \in Requests,
         StartFails(p) \/ Fault(p) \/ ExecuteRefused(p) \/ Run(p) \/ Settle(p) \/ Pick(p) \/ ContinuePlanningRun(p)
  PROVE  Allowed'
PROOF
  <1>1. UNCHANGED <<steps, policy, consent>>
    BY DEF StartFails, Fault, ExecuteRefused, Run, Settle, Pick, ContinuePlanningRun, history
  <1>2. "unapproved" \notin wrong'
    <2>1. CASE Run(p)
      <3>1. MayRun(req[p].step, req[p].row.tool) BY <2>1 DEF Allowed, AllowedOf, Run, At
      <3> QED BY <2>1, <3>1 DEF Run, Unapproved, MayRun, Allowed
    <2>2. CASE StartFails(p) \/ Fault(p) \/ ExecuteRefused(p) \/ Settle(p) \/ Pick(p) \/ ContinuePlanningRun(p)
      BY <2>2 DEF StartFails, Fault, ExecuteRefused, Settle, Pick, ContinuePlanningRun, history, Allowed
    <2> QED BY <2>1, <2>2
  <1>3. ASSUME NEW r, req' = [req EXCEPT ![p] = r], AllowedOf(r) PROVE Allowed' BY <1>1, <1>2, <1>3, AllowedKept
  <1>4. End(p) => Allowed' BY <1>3, IdleAllowed DEF End, Go
  <1>5. Go(p, Loop) => Allowed' BY <1>3, IdleAllowed DEF Go
  <1>6. CASE StartFails(p)
    <2> DEFINE v == SetRun("failed")
               r == Request("start", 0, <<v>>, "idle")
    <2>1. req' = [req EXCEPT ![p] = r] BY <1>6, HandleIsRequest DEF StartFails
    <2>2. r.todo = <<v>> /\ r.pc = "write" /\ r.then = "idle" BY DEF Request
    <2>3. v.kind = "run" BY DEF SetRun
    <2> HIDE DEF v, r
    <2>4. AllowedOf(r) BY <2>2, <2>3, OneAllowed
    <2> QED BY <1>3, <2>1, <2>4
  <1>7. CASE Fault(p) \/ ExecuteRefused(p) BY <1>4, <1>7 DEF Fault, ExecuteRefused
  <1>8. CASE Run(p)
    <2>1. PICK e \in Endings(req[p].step) : req' = [req EXCEPT ![p] = Ended(p, e[1], e[2])] BY <1>8, RunFacts
    <2>2. At(p, "work") BY <1>8 DEF Run
    <2>3. req[p].step \in Steps BY <2>2, EndedType
    <2>4. Harmless(SetStatus(req[p].step, "completed")) /\ Harmless(SetStatus(req[p].step, "failed"))
      BY <2>3, SetStatusHarmless, StatusTypes
    <2>5. SetRun("token_budget_exceeded").kind = "run" BY DEF SetRun
    <2> DEFINE v == SetRun("token_budget_exceeded")
               c == SetStatus(req[p].step, "completed")
               f == SetStatus(req[p].step, "failed")
    <2>6. \/ e[1] = <<c>> /\ e[2] = "settle"
          \/ e[1] = <<f>> /\ e[2] = "idle"
          \/ e[1] = <<f, v>> /\ e[2] = "idle"
      BY DEF Endings
    <2>7. Harmless(c) /\ Harmless(f) /\ v.kind = "run" BY <2>4, <2>5
    <2> HIDE DEF c, f, v
    <2>8. \A td, then : Ended(p, td, then).todo = td /\ Ended(p, td, then).pc = "write" /\ Ended(p, td, then).then = then
      BY DEF Ended
    <2>9. AllowedOf(Ended(p, e[1], e[2]))
      <3>1. CASE e[1] = <<c>> /\ e[2] = "settle" BY <2>7, <2>8, <3>1, OneAllowed
      <3>2. CASE e[1] = <<f>> /\ e[2] = "idle" BY <2>7, <2>8, <3>2, OneAllowed
      <3>3. CASE e[1] = <<f, v>> /\ e[2] = "idle"
        <4>1. DOMAIN <<f, v>> = {1, 2} /\ <<f, v>>[1] = f /\ <<f, v>>[2] = v BY TwoOf
        <4> QED BY <2>7, <2>8, <3>3, <4>1 DEF AllowedOf, AllowedStatement
      <3> QED BY <2>6, <3>1, <3>2, <3>3
    <2> QED BY <1>3, <2>1, <2>9
  <1>9. CASE Settle(p)
    <2>1. ASSUME req' = [req EXCEPT ![p] = Completing(p)] PROVE Allowed'
      <3> DEFINE v == SetRun("completed")
      <3>1. Completing(p).pc = "write" /\ Completing(p).todo = <<v>> /\ Completing(p).then # "work"
        BY DEF Completing, Request
      <3>2. v.kind = "run" BY DEF SetRun
      <3> HIDE DEF v
      <3>3. AllowedOf(Completing(p)) BY <3>1, <3>2, OneAllowed
      <3> QED BY <1>3, <2>1, <3>3
    <2> QED BY <1>4, <1>5, <1>9, <2>1, SettleFacts
  <1>10. CASE Pick(p)
    <2>1. ASSUME NEW s, req' = [req EXCEPT ![p] = Picked(s)] PROVE Allowed' BY <1>3, <2>1, IdleAllowed
    <2> QED BY <1>4, <1>10, <2>1, PickFacts
  <1>11. CASE ContinuePlanningRun(p) BY <1>5, <1>11 DEF ContinuePlanningRun
  <1> QED BY <1>6, <1>7, <1>8, <1>9, <1>10, <1>11

LEMMA AgentAllowed ==
  ASSUME Base, Allowed, Clean', EditAgent
  PROVE  Allowed'
PROOF
  <1>1. Busy = {} /\ UNCHANGED <<steps, req, consent>> /\ "unapproved" \notin wrong' BY DEF EditAgent, Clean, Allowed
  <1>2. \A q \in Requests : req[q] = Idle
    <2> TAKE q \in Requests
    <2>1. ShapeOf(req[q]) BY RequestFacts DEF Base
    <2> QED BY <1>1, <2>1 DEF Busy, At, ShapeOf
  <1>3. \A q \in Requests : AllowedOf(req[q])'
    <2> TAKE q \in Requests
    <2>1. req'[q].todo = <<>> /\ req'[q].pc = "idle" BY <1>1, <1>2 DEF Idle
    <2>2. DOMAIN <<>> = {} OBVIOUS
    <2> QED BY <2>1, <2>2 DEF AllowedOf
  <1>4. \A t \in Steps : Consented(t, steps[t])' BY <1>1 DEF Allowed, Consented
  <1> QED BY <1>1, <1>3, <1>4 DEF Allowed

\* A request that has something to do is an edit or work.
LEMMA BusyOp ==
  ASSUME Base, NEW p \in Requests, p \in Busy
  PROVE  req[p].op \in Editors \/ req[p].op \in Workers
PROOF
  <1>1. req[p] \in RequestType /\ req[p].op # "none" BY RequestFacts DEF Base
  <1>2. req[p].op \in {"none", "start", "edit", "continue"} \cup Work BY <1>1 DEF RequestType
  <1> QED BY <1>1, <1>2 DEF Editors, Workers, Work

LEMMA ThenWork ==
  ASSUME Base, NEW p \in Requests, req[p].pc \in {"write", "store"}, req[p].then = "work"
  PROVE  req[p].op \in Workers /\ Next1(p) = SetStatus(req[p].step, "running") /\ Len(req[p].todo) = 1 /\ req[p].step \in Steps
PROOF
  <1>1. p \in Busy BY DEF Busy, At
  <1>2. ShapeOf(req[p]) BY RequestFacts DEF Base
  <1>3. req[p].op \in Workers BY <1>1, <1>2, BusyOp DEF ShapeOf, EditorShape
  <1> QED BY <1>3, WorkerHead

\* What another request does with its step is not touched by p's statement.
LEMMA OtherAllowed ==
  ASSUME Base, Apart, InHand, Clean, Allowed, NEW p \in Requests, Statement(p), NEW q \in Requests, q # p
  PROVE  AllowedOf(req[q])'
PROOF
  <1>1. /\ req'[q] = req[q]
        /\ req[q].op \in Workers /\ ~Light(q) => req[q].step # Next1(p).step \/ steps' = steps
        /\ req[q].op \notin Editors
        /\ \A t \in Live : t # Next1(p).step => steps'[t] = steps[t]
    BY Touches
  <1>2. RestSame BY StatementFacts
  <1>3. ShapeOf(req[q]) /\ DOMAIN <<>> = {} BY RequestFacts DEF Base
  <1>4. AllowedOf(req[q]) BY DEF Allowed
  <1>5. CASE req[q].todo = <<>>
    <2>1. req[q].pc \notin {"write", "store"} BY <1>3, <1>5 DEF ShapeOf
    <2> QED BY <1>1, <1>2, <1>3, <1>4, <1>5, <2>1 DEF AllowedOf, MayRun, Risky, RestSame
  <1>6. CASE req[q].todo # <<>>
    <2>1. req[q].pc \in {"write", "store"} /\ q \in Busy BY <1>3, <1>6 DEF ShapeOf, Busy, At
    <2>2. req[q].op \in Workers /\ ~Light(q) BY <1>1, <2>1, BusyOp DEF Light
    <2>3. WorkerShape(req[q]) BY <1>3, <2>2 DEF ShapeOf
    <2>4. steps'[req[q].step] = steps[req[q].step]
      <3>1. CASE steps' = steps BY <3>1
      <3>2. CASE req[q].step # Next1(p).step
        <4>1. req[q].step \in Steps BY <2>1, <2>2, WorkerHead
        <4>2. ReadIn(p) \/ Stored(p) \/ Turned(p) \/ Dropped(p) \/ Inserted(p) \/ Stopped(p) BY StatementFacts
        <4>3. CASE Stopped(p)
          <5>1. steps' = steps \/ \A t \in Live : t # Next1(p).step => steps'[t] = steps[t] BY <1>1
          <5>2. CASE req[q].step \in Live BY <1>1, <3>2, <5>2
          <5>3. CASE req[q].step \notin Live
            <6>1. Statement(p) OBVIOUS
            <6>2. steps \in [Steps -> Row] BY DEF Base, TypeOK
            <6> QED BY <3>2, <4>1, <6>1, <6>2 DEF Statement, ReadRow, StoreRow, StoreRun, DeleteRow, CreateRow
          <5> QED BY <5>2, <5>3
        <4>4. steps \in [Steps -> Row] BY DEF Base, TypeOK
        <4> QED BY <3>2, <4>1, <4>2, <4>3, <4>4 DEF ReadIn, Stored, Turned, Dropped, Inserted
      <3> QED BY <1>1, <2>2, <3>1, <3>2
    <2>5. \A k \in DOMAIN req[q].todo : req[q].todo[k].kind = "set" => req[q].todo[k].step = req[q].step
      BY <2>3 DEF WorkerShape, WorksOn
    <2>6. consent' = consent /\ policy' = policy BY <1>2 DEF RestSame
    <2>7. ASSUME NEW k \in DOMAIN req[q].todo, req[q].todo[k].kind = "set" PROVE AllowedStatement(req[q].todo, k)'
      <3>1. AllowedStatement(req[q].todo, k) BY <1>4, <2>7 DEF AllowedOf
      <3>2. steps'[req[q].todo[k].step] = steps[req[q].todo[k].step] BY <2>4, <2>5, <2>7
      <3>3. req'[q].todo = req[q].todo BY <1>1
      <3> QED BY <2>6, <3>1, <3>2, <3>3 DEF AllowedStatement, Consented, Patched
    <2>8. req[q].then = "work" => MayRun(req[q].step, steps[req[q].step].tool)' BY <1>1, <1>4, <2>1, <2>4, <2>6 DEF AllowedOf, MayRun, Risky
    <2> QED BY <1>1, <2>1, <2>7, <2>8 DEF AllowedOf
  <1> QED BY <1>5, <1>6

LEMMA StatementAllowed ==
  ASSUME Base, Apart, InHand, Clean, Allowed, NEW p \in Requests, Statement(p)
  PROVE  Allowed'
PROOF
  <1>1. RestSame /\ (ReadIn(p) \/ Stored(p) \/ Turned(p) \/ Dropped(p) \/ Inserted(p) \/ Stopped(p))
    BY StatementFacts
  <1>2. consent' = consent /\ policy' = policy /\ wrong' = wrong BY <1>1 DEF RestSame
  <1>3. steps \in [Steps -> Row] /\ req \in [Requests -> RequestType] BY DEF Base, TypeOK
  <1>4. req[p].pc \in {"write", "store"} BY <1>1 DEF ReadIn, Stored, Turned, Dropped, Inserted, Stopped
  <1>5. /\ 1 \in DOMAIN req[p].todo /\ Next1(p) = req[p].todo[1] /\ Next1(p) \in StatementType /\ WellFormed(Next1(p))
        /\ Len(req[p].todo) \in Nat \ {0} /\ Len(Tail(req[p].todo)) = Len(req[p].todo) - 1
    BY <1>4, HeadFacts DEF Base
  <1>6. AllowedOf(req[p]) BY DEF Allowed
  <1>7. ~ApprovedRow(NoRow) BY DEF ApprovedRow, NoRow
  <1>8. ASSUME NEW s \in Steps PROVE Consented(s, steps[s])'
    <2>1. Consented(s, steps[s]) BY DEF Allowed
    <2>2. CASE steps'[s] = steps[s] BY <1>2, <2>1, <2>2 DEF Consented
    <2>3. CASE steps'[s] = NoRow BY <1>2, <1>7, <2>3 DEF Consented
    <2>4. CASE Stored(p) /\ s = Next1(p).step
      <3>1. steps'[s] = Patched(steps[s], Next1(p)) BY <1>3, <2>4 DEF Stored
      <3>2. AllowedStatement(req[p].todo, 1) BY <1>5, <1>6, <2>4 DEF AllowedOf, Stored
      <3>3. Consented(s, Patched(steps[s], Next1(p)))
        <4>1. CASE Harmless(Next1(p)) BY <2>1, <4>1 DEF Harmless, Consented, ApprovedRow, Patched
        <4>2. CASE ~Harmless(Next1(p)) BY <1>5, <2>4, <3>2, <4>2 DEF AllowedStatement
        <4> QED BY <4>1, <4>2
      <3> QED BY <1>2, <3>1, <3>3 DEF Consented
    <2>5. CASE Inserted(p) /\ s = Next1(p).step
      <3>1. steps'[s] = NewRow(Next1(p).row) BY <1>3, <2>5 DEF Inserted
      <3>2. Next1(p).row \in Row /\ Next1(p).row.status = "pending" BY <1>5, <2>5 DEF Inserted, WellFormed, StatementType
      <3>3. ~ApprovedRow(NewRow(Next1(p).row)) BY <3>2, NewRowFacts DEF ApprovedRow
      <3> QED BY <3>1, <3>3 DEF Consented
    <2>6. \/ steps'[s] = steps[s] \/ steps'[s] = NoRow \/ (Stored(p) /\ s = Next1(p).step)
          \/ (Inserted(p) /\ s = Next1(p).step)
      BY <1>1, <1>3 DEF ReadIn, Stored, Turned, Dropped, Inserted, Stopped
    <2> QED BY <2>2, <2>3, <2>4, <2>5, <2>6
  <1>9. AllowedOf(req[p])'
    <2>1. CASE ReadIn(p)
      <3>1. req'[p] = InStore(p) /\ steps' = steps BY <1>3, <2>1 DEF ReadIn
      <3>2. /\ req'[p].todo = req[p].todo /\ req'[p].step = req[p].step /\ req'[p].pc = "store"
            /\ req'[p].then = req[p].then
        BY <3>1 DEF InStore
      <3>3. PICK x : x = req'[p] OBVIOUS
      <3>4. AllowedOf(x)
        <4>1. x.todo = req[p].todo /\ x.step = req[p].step /\ x.pc = "store" /\ x.then = req[p].then BY <3>2, <3>3
        <4>2. req[p].pc = "write" BY <2>1 DEF ReadIn
        <4> QED BY <1>6, <4>1, <4>2 DEF AllowedOf
      <3>5. AllowedOf(x)' BY <1>2, <3>1, <3>4, AllowedSame
      <3> QED BY <3>3, <3>5 DEF AllowedOf, AllowedStatement
    <2>2. CASE Stopped(p)
      <3>1. req'[p].todo = <<>> /\ req'[p].pc = "idle" BY <1>3, <2>2 DEF Stopped, Idle
      <3>2. DOMAIN <<>> = {} OBVIOUS
      <3> QED BY <3>1, <3>2 DEF AllowedOf
    <2>3. CASE Stored(p) \/ Turned(p) \/ Dropped(p) \/ Inserted(p)
      <3>0. PICK td, t : td = req[p].todo /\ t = Tail(req[p].todo) OBVIOUS
      <3>1. req'[p] = Then(p) BY <1>3, <2>3 DEF Stored, Turned, Dropped, Inserted
      <3>2. /\ req'[p].todo = t
            /\ Then(p) # Idle => req'[p].step = req[p].step /\ req'[p].then = req[p].then
            /\ req'[p].pc = "write" => Len(req[p].todo) > 1
            /\ req'[p].pc # "store"
            /\ req'[p].pc = "work" => req'[p].row = req[p].row /\ req[p].then = "work"
        BY <1>4, <3>0, <3>1, ThenFacts DEF Base
      <3>3. /\ \A k \in DOMAIN t : k + 1 \in DOMAIN td /\ td[k + 1] = t[k] /\ k \in Nat \ {0}
            /\ DOMAIN t = 1..Len(t) /\ Len(t) = Len(td) - 1 /\ Len(td) \in Nat \ {0}
        BY <1>4, <1>5, <3>0, TailIn DEF Base
      <3>4. ASSUME NEW k \in DOMAIN t, t[k].kind = "set" PROVE AllowedStatement(t, k)'
        <4>1. AllowedStatement(td, k + 1) /\ td[k + 1] = t[k] BY <1>6, <3>0, <3>3, <3>4 DEF AllowedOf
        <4>2. CASE Harmless(t[k]) BY <4>2 DEF AllowedStatement
        <4>3. CASE ~Harmless(t[k])
          <5>1. /\ k + 1 = Len(td) /\ (\A j \in 1..k : td[j].kind = "run")
                /\ Consented(t[k].step, Patched(steps[t[k].step], t[k]))
            <6>1. PICK i : i = k + 1 OBVIOUS
            <6>2. AllowedStatement(td, i) /\ td[i] = t[k] /\ 1..(i - 1) = 1..k BY <3>3, <4>1, <6>1
            <6>3. ~Harmless(td[i]) BY <4>3, <6>2
            <6>4. /\ i = Len(td) /\ (\A j \in 1..(i - 1) : td[j].kind = "run")
                  /\ Consented(td[i].step, Patched(steps[td[i].step], td[i]))
              BY <6>2, <6>3 DEF AllowedStatement
            <6> QED BY <6>1, <6>2, <6>4
          <5>2. k = Len(t) /\ \A j \in 1..(k - 1) : j \in DOMAIN t /\ j + 1 \in 1..k BY <3>3, <5>1
          <5>3. \A j \in 1..(k - 1) : t[j].kind = "run" BY <3>3, <5>1, <5>2
          <5>4. steps' = steps
            <6>1. 1 \in 1..k BY <3>3
            <6>2. Next1(p).kind = "run" BY <1>5, <3>0, <5>1, <6>1
            <6> QED BY <2>3, <6>2 DEF Stored, Turned, Dropped, Inserted
          <5> QED BY <1>2, <5>1, <5>2, <5>3, <5>4 DEF AllowedStatement, Consented, Patched
        <4> QED BY <4>2, <4>3
      <3>5. ~(req'[p].pc = "write" /\ req'[p].then = "work")
        <4>1. SUFFICES ASSUME req'[p].pc = "write", req'[p].then = "work" PROVE FALSE OBVIOUS
        <4>2. Then(p) # Idle BY <3>1, <4>1 DEF Idle
        <4>3. req[p].then = "work" /\ Len(req[p].todo) > 1 BY <3>2, <4>1, <4>2
        <4>4. Len(req[p].todo) = 1 BY <1>4, <4>3, ThenWork
        <4> QED BY <4>3, <4>4
      <3>6. ASSUME req'[p].pc = "work" PROVE MayRun(req[p].step, req[p].row.tool)'
        <4>1. Then(p) # Idle BY <3>1, <3>6 DEF Idle
        <4>2. req[p].then = "work" /\ req'[p].row = req[p].row /\ req'[p].step = req[p].step BY <3>2, <3>6, <4>1
        <4>3. Next1(p) = SetStatus(req[p].step, "running") /\ req[p].step \in Steps BY <1>4, <4>2, ThenWork
        <4>4. OnStep(Next1(p), req[p].step, {"status"}, StatusRow("running")) BY <4>3, StatusTypes, SetStatusFacts
        <4>5. Next1(p).kind = "set" /\ Next1(p).step = req[p].step /\ Next1(p).fields = {"status"} BY <4>4 DEF OnStep
        <4>6. Stored(p) BY <2>3, <4>5 DEF Turned, Dropped, Inserted
        <4>7. req[p].row.tool = steps[req[p].step].tool BY <4>5, <4>6 DEF Stored, Patched
        <4>8. MayRun(req[p].step, steps[req[p].step].tool) BY <1>4, <1>6, <4>2 DEF AllowedOf
        <4> QED BY <1>2, <4>2, <4>7, <4>8 DEF MayRun, Risky
      <3> QED BY <3>2, <3>4, <3>5, <3>6 DEF AllowedOf
    <2> QED BY <1>1, <2>1, <2>2, <2>3
  <1> QED BY <1>2, <1>8, <1>9, OtherAllowed DEF Allowed

LEMMA ApprovedStep == Base /\ Apart /\ Held /\ Approved /\ [Next]_vars => Approved'
PROOF
  <1> SUFFICES ASSUME Base, Apart, Held, Approved, [Next]_vars, Clean' PROVE Allowed'
    BY DEF Approved, Allowed, AllowedOf, AllowedStatement, Approving, At
  <1>1. CASE UNCHANGED vars
    <2>1. UNCHANGED <<steps, policy, req, consent, wrong>> BY <1>1 DEF vars
    <2>2. Allowed BY <2>1, ApprovedIs DEF Clean
    <2>3. \A q \in Requests : AllowedOf(req[q])'
      <3> TAKE q \in Requests
      <3>1. PICK x : x = req[q] OBVIOUS
      <3>2. AllowedOf(x) BY <2>2, <3>1 DEF Allowed
      <3>3. AllowedOf(x)' BY <2>1, <3>2, AllowedSame
      <3>4. req'[q] = x BY <2>1, <3>1
      <3> QED BY <3>3, <3>4 DEF AllowedOf, AllowedStatement
    <2> QED BY <2>1, <2>2, <2>3 DEF Allowed, Consented
  <1>2. CASE Next
    <2>1. Clean
      <3>1. wrong \subseteq wrong' BY <1>2, NextGoes DEF Goes, EditAgent
      <3> QED BY <3>1 DEF Clean
    <2>2. Allowed /\ InHand BY <2>1, ApprovedIs DEF Held
    <2> QED BY <1>2, <2>1, <2>2, NextCases, EditAllowed, StatementAllowed, BetweenAllowed, ExecuteAllowed, SkipAllowed,
               RetryAllowed, AgentAllowed
  <1> QED BY <1>1, <1>2

-----------------------------------------------------------------------------
(* A completed run                                                          *)

CompletesAny(td) == \E k \in DOMAIN td : Completes(td[k])
NoEditors == \A q \in Requests : req[q].op \notin Editors

LEMMA FinishingIs == Finishing <=> run = "completed" \/ \E q \in Requests : CompletesAny(req[q].todo)
PROOF BY DEF Finishing, CompletesAny

LEMMA FinishedKept ==
  ASSUME Base, Finished, NEW p \in Requests, NEW r, req' = [req EXCEPT ![p] = r], steps' = steps, wrong \subseteq wrong',
         run' = "completed" => Finishing,
         Clean' /\ Finishing => r.op \notin Editors,
         Clean' /\ CompletesAny(r.todo) => AllDone /\ r.op \notin Editors /\ \A q \in Requests \ {p} : req[q].op \notin Editors
  PROVE  Finished'
PROOF
  <1> SUFFICES ASSUME Clean', Finishing' PROVE AllDone' /\ NoEditors' BY DEF Finished, NoEditors
  <1>1. \A q \in Requests : req'[q] = IF q = p THEN r ELSE req[q] BY DEF Base, TypeOK
  <1>2. Clean BY DEF Clean
  <1>3. AllDone <=> AllDone' BY DEF AllDone, Live, Done
  <1>4. Finishing \/ CompletesAny(r.todo)
    <2>1. run' = "completed" \/ \E q \in Requests : CompletesAny(req'[q].todo) BY DEF Finishing, CompletesAny
    <2>2. ASSUME NEW q \in Requests, CompletesAny(req'[q].todo) PROVE Finishing \/ CompletesAny(r.todo)
      BY <1>1, <2>2, FinishingIs
    <2> QED BY <2>1, <2>2
  <1>5. AllDone /\ r.op \notin Editors /\ \A q \in Requests \ {p} : req[q].op \notin Editors
    BY <1>2, <1>4 DEF Finished
  <1> QED BY <1>1, <1>3, <1>5 DEF NoEditors

LEMMA CompletesOne == \A w : CompletesAny(<<w>>) <=> Completes(w)
PROOF BY OneOf DEF CompletesAny

LEMMA EditFinished ==
  ASSUME Base, Finished, NEW p \in Requests, NEW op, NEW s, NEW td, Edits(p, op, s, td)
  PROVE  Finished'
PROOF
  <1> DEFINE r == Request(op, s, td, "idle")
  <1>1. req' = [req EXCEPT ![p] = r] /\ steps' = steps /\ wrong \subseteq wrong' /\ run # "completed" /\ run' # "completed"
        /\ At(p, "idle") /\ op \notin Work /\ Mixes(p, op, s) \subseteq wrong'
    BY DEF Edits, Work
  <1>2. r.todo = td BY DEF Request
  <1>3. ~CompletesAny(td)
    <2>1. td \in Seq(EditStatements) BY DEF Edits
    <2>2. \A k \in DOMAIN td : td[k] \in EditStatements BY <2>1, LenProperties, ElementOfSeq
    <2> QED BY <2>2 DEF CompletesAny, EditStatements
  <1>4. ~(Clean' /\ Finishing)
    <2> SUFFICES ASSUME Clean', Finishing PROVE FALSE OBVIOUS
    <2>1. PICK q \in Requests : CompletesAny(req[q].todo) BY <1>1, FinishingIs
    <2>2. DOMAIN <<>> = {} OBVIOUS
    <2>3. req[q].todo # <<>> BY <2>1, <2>2 DEF CompletesAny
    <2>4. ShapeOf(req[q]) BY RequestFacts DEF Base
    <2>5. q \in Busy \ {p} BY <1>1, <2>3, <2>4 DEF ShapeOf, Busy, At
    <2>6. "mixed" \notin Mixes(p, op, s) BY <1>1 DEF Clean
    <2> QED BY <1>1, <2>5, <2>6, Unmixed
  <1> HIDE DEF r
  <1> QED BY <1>1, <1>2, <1>3, <1>4, FinishedKept

LEMMA WorkFinished ==
  ASSUME Base, Finished, NEW p \in Requests, NEW op, NEW s, NEW td, NEW then, Works(p, op, s, td, then)
  PROVE  Finished'
PROOF
  <1> DEFINE r == Request(op, s, td, then)
  <1>1. req' = [req EXCEPT ![p] = r] /\ steps' = steps /\ wrong \subseteq wrong' /\ run' # "completed" /\ op \in Workers
        /\ ~CompletesAny(td)
    BY DEF Works, CompletesAny
  <1>2. r.todo = td /\ r.op = op BY DEF Request
  <1>3. op \notin Editors BY <1>1 DEF Editors, Workers, Work
  <1> HIDE DEF r
  <1> QED BY <1>1, <1>2, <1>3, FinishedKept

LEMMA BetweenFinished ==
  ASSUME Base, Apart, Finished, NEW p \in Requests,
         StartFails(p) \/ Fault(p) \/ ExecuteRefused(p) \/ Run(p) \/ Settle(p) \/ Pick(p) \/ ContinuePlanningRun(p)
  PROVE  Finished'
PROOF
  <1>1. steps' = steps /\ wrong \subseteq wrong' /\ (run' = "completed" => Finishing)
    BY DEF StartFails, Fault, ExecuteRefused, Run, Settle, Pick, ContinuePlanningRun, history, Finishing
  <1>2. ASSUME NEW r, req' = [req EXCEPT ![p] = r], r.op \notin Editors, ~CompletesAny(r.todo) PROVE Finished'
    BY <1>1, <1>2, FinishedKept
  <1>3. ASSUME NEW r, req' = [req EXCEPT ![p] = r], r.op \in {"none", "continue"}, r.todo = <<>> PROVE Finished'
    <2>1. DOMAIN <<>> = {} OBVIOUS
    <2>2. ~CompletesAny(r.todo) BY <1>3, <2>1 DEF CompletesAny
    <2>3. r.op \notin Editors BY <1>3 DEF Editors
    <2> QED BY <1>2, <1>3, <2>2, <2>3
  <1>4. End(p) => Finished'
    <2>1. Idle.op = "none" /\ Idle.todo = <<>> BY DEF Idle
    <2> QED BY <1>3, <2>1 DEF End, Go
  <1>5. Go(p, Loop) => Finished'
    <2>1. Loop.op = "continue" /\ Loop.todo = <<>> BY LoopLight, LoopType DEF LightOf
    <2> QED BY <1>3, <2>1 DEF Go
  <1>6. CASE StartFails(p)
    <2> DEFINE v == SetRun("failed")
               r == Request("start", 0, <<v>>, "idle")
    <2>1. req' = [req EXCEPT ![p] = r] /\ req[p].op = "start" BY <1>6, HandleIsRequest DEF StartFails
    <2>2. r.todo = <<v>> BY DEF Request
    <2>3. ~Completes(v) BY DEF SetRun, Completes
    <2> HIDE DEF v, r
    <2>4. ~CompletesAny(r.todo) BY <2>2, <2>3, CompletesOne
    <2>5. ~(Clean' /\ Finishing)
      <3>1. Clean' => Clean BY <1>1 DEF Clean
      <3> QED BY <2>1, <3>1 DEF Finished, Editors
    <2> QED BY <1>1, <2>1, <2>4, <2>5, FinishedKept
  <1>7. CASE Fault(p) \/ ExecuteRefused(p) BY <1>4, <1>7 DEF Fault, ExecuteRefused
  <1>8. CASE Run(p)
    <2>1. PICK e \in Endings(req[p].step) : req' = [req EXCEPT ![p] = Ended(p, e[1], e[2])] BY <1>8, RunFacts
    <2>2. Ended(p, e[1], e[2]).op = req[p].op /\ Ended(p, e[1], e[2]).todo = e[1] BY DEF Ended
    <2>3. At(p, "work") BY <1>8 DEF Run
    <2>4. req[p].op \notin Editors BY <2>3, Between DEF At, Editors, Workers, Work
    <2>5. ~CompletesAny(e[1])
      <3> DEFINE v == SetRun("token_budget_exceeded")
                 c == SetStatus(req[p].step, "completed")
                 f == SetStatus(req[p].step, "failed")
      <3>1. ~Completes(v) /\ ~Completes(c) /\ ~Completes(f) BY DEF SetRun, SetStatus, Set, Completes
      <3>2. e[1] = <<c>> \/ e[1] = <<f>> \/ e[1] = <<f, v>> BY DEF Endings
      <3> HIDE DEF c, f, v
      <3>3. DOMAIN <<f, v>> = {1, 2} /\ <<f, v>>[1] = f /\ <<f, v>>[2] = v BY TwoOf
      <3> QED BY <3>1, <3>2, <3>3, CompletesOne DEF CompletesAny
    <2> QED BY <1>2, <2>1, <2>2, <2>4, <2>5
  <1>9. CASE Settle(p)
    <2>1. ASSUME MustComplete, req' = [req EXCEPT ![p] = Completing(p)] PROVE Finished'
      <3>1. req[p].pc = "settle" BY <1>9 DEF Settle, At
      <3>2. req[p].op \in Workers /\ p \in Busy /\ ~Light(p) BY <3>1, Between DEF Light
      <3>3. Completing(p).op = req[p].op BY DEF Completing, Request
      <3>4. req[p].op \notin Editors BY <3>2 DEF Editors, Workers, Work
      <3>5. Clean' => \A q \in Requests \ {p} : req[q].op \notin Editors
        <4> SUFFICES ASSUME Clean', NEW q \in Requests \ {p}, req[q].op \in Editors PROVE FALSE OBVIOUS
        <4>1. Clean BY <1>1 DEF Clean
        <4>2. q \in Busy
          <5>1. req[q].op # "none" BY DEF Editors
          <5> QED BY <5>1, RequestFacts DEF Base
        <4>3. Light(q) \/ req[q].op \in Work BY <3>2, <4>1, <4>2, Elsewhere
        <4> QED BY <4>3 DEF Light, Work, Editors
      <3>6. AllDone BY <2>1 DEF MustComplete
      <3> QED BY <1>1, <2>1, <3>3, <3>4, <3>5, <3>6, FinishedKept
    <2> QED BY <1>4, <1>5, <1>9, <2>1, SettleFacts
  <1>10. CASE Pick(p)
    <2>1. ASSUME NEW s, req' = [req EXCEPT ![p] = Picked(s)] PROVE Finished'
      <3>1. Picked(s).op = "continue" /\ Picked(s).todo = <<>> BY DEF Picked
      <3> QED BY <1>3, <2>1, <3>1
    <2> QED BY <1>4, <1>10, <2>1, PickFacts
  <1>11. CASE ContinuePlanningRun(p) BY <1>5, <1>11 DEF ContinuePlanningRun
  <1> QED BY <1>6, <1>7, <1>8, <1>9, <1>10, <1>11

LEMMA StatementFinished ==
  ASSUME Base, Apart, Held, Finished, NEW p \in Requests, Statement(p)
  PROVE  Finished'
PROOF
  <1>1. wrong' = wrong BY DEF Statement, ReadRow, StoreRow, StoreRun, DeleteRow, CreateRow, history
  <1>2. SUFFICES ASSUME Clean PROVE Finished' BY <1>1 DEF Finished, Clean
  <1>3. InHand BY DEF Held
  <1>4. ReadIn(p) \/ Stored(p) \/ Turned(p) \/ Dropped(p) \/ Inserted(p) \/ Stopped(p)
    BY <1>2, <1>3, StatementFacts
  <1>5. req[p].pc \in {"write", "store"} BY <1>4 DEF ReadIn, Stored, Turned, Dropped, Inserted, Stopped
  <1>6. 1 \in DOMAIN req[p].todo /\ Next1(p) = req[p].todo[1] BY <1>5, HeadFacts DEF Base
  <1>7. PICK r : req' = [req EXCEPT ![p] = r] /\ r \in {Idle, Then(p), InStore(p)}
    BY <1>4 DEF ReadIn, Stored, Turned, Dropped, Inserted, Stopped
  <1>8. r.op \in {"none", req[p].op} /\ (CompletesAny(r.todo) => CompletesAny(req[p].todo))
    <2>1. CASE r = Idle
      <3>1. r.op = "none" /\ DOMAIN r.todo = {} BY <2>1 DEF Idle
      <3> QED BY <3>1 DEF CompletesAny
    <2>2. CASE r = InStore(p) BY <2>2 DEF InStore
    <2>3. CASE r = Then(p)
      <3>1. Then(p).todo = Tail(req[p].todo) /\ (Then(p).op = req[p].op \/ Then(p) = Idle) BY <1>5, ThenFacts DEF Base
      <3>2. Idle.op = "none" BY DEF Idle
      <3>3. \A k \in DOMAIN Tail(req[p].todo) : k + 1 \in DOMAIN req[p].todo /\ req[p].todo[k + 1] = Tail(req[p].todo)[k]
        BY <1>5, TailIn DEF Base
      <3> QED BY <2>3, <3>1, <3>2, <3>3 DEF CompletesAny
    <2> QED BY <1>7, <2>1, <2>2, <2>3
  <1>9. run' = "completed" => Finishing
    <2>1. CASE Turned(p)
      <3>1. run' = "completed" => Completes(req[p].todo[1]) BY <1>6, <2>1 DEF Turned, Completes
      <3> QED BY <1>6, <3>1 DEF Finishing
    <2>2. CASE run' = run BY <2>2 DEF Finishing
    <2> QED BY <1>4, <2>1, <2>2 DEF ReadIn, Stored, Dropped, Inserted, Stopped
  <1>10. Finishing => steps' = steps /\ req[p].op \notin Editors
    <2> SUFFICES ASSUME Finishing PROVE steps' = steps /\ req[p].op \notin Editors OBVIOUS
    <2>1. AllDone /\ req[p].op \notin Editors BY <1>2 DEF Finished
    <2>2. p \in Busy BY <1>5 DEF Busy, At
    <2>3. req[p].op \in Workers BY <2>1, <2>2, BusyOp
    <2>4. WorksOn(Next1(p), req[p].step) BY <1>5, <2>3, WorkerHead
    <2>5. Next1(p).kind # "set"
      <3> SUFFICES ASSUME Next1(p).kind = "set" PROVE FALSE OBVIOUS
      <3>1. SetPending(p) BY <1>6 DEF SetPending
      <3>2. req[p].step \in Live /\ ~Done(req[p].step) BY <1>2, <2>3, <3>1 DEF Held, AtWork
      <3> QED BY <2>1, <3>2 DEF AllDone
    <2>6. Next1(p).kind = "run" BY <2>4, <2>5 DEF WorksOn
    <2>7. ~Stopped(p)
      <3>1. req[p].pc = "store" => Next1(p).kind = "set"
        <4>1. ShapeOf(req[p]) BY RequestFacts DEF Base
        <4> QED BY <1>6, <4>1 DEF ShapeOf
      <3> QED BY <2>6, <3>1 DEF Stopped, Refused
    <2>8. Turned(p) BY <1>4, <2>6, <2>7 DEF ReadIn, Stored, Dropped, Inserted
    <2> QED BY <2>1, <2>8 DEF Turned
  <1>11. CASE Finishing
    <2>1. r.op \notin Editors BY <1>8, <1>10, <1>11 DEF Editors
    <2>2. AllDone /\ \A q \in Requests \ {p} : req[q].op \notin Editors BY <1>2, <1>11 DEF Finished
    <2> QED BY <1>1, <1>7, <1>9, <1>10, <1>11, <2>1, <2>2, FinishedKept
  <1>12. CASE ~Finishing
    <2>1. ~Finishing'
      <3>1. \A q \in Requests : req'[q] = IF q = p THEN r ELSE req[q] BY <1>7 DEF Base, TypeOK
      <3>2. ASSUME NEW q \in Requests, CompletesAny(req'[q].todo) PROVE FALSE
        BY <1>8, <1>12, <3>1, <3>2, FinishingIs
      <3> QED BY <1>9, <1>12, <3>2 DEF Finishing, CompletesAny
    <2> QED BY <2>1 DEF Finished
  <1> QED BY <1>11, <1>12

LEMMA FinishedStep == Base /\ Apart /\ Held /\ Finished /\ [Next]_vars => Finished'
PROOF
  <1> SUFFICES ASSUME Base, Apart, Held, Finished, [Next]_vars PROVE Finished' OBVIOUS
  <1>1. CASE UNCHANGED vars \/ EditAgent
    <2>1. req' = req /\ wrong \subseteq wrong' /\ steps' = steps /\ run' = run BY <1>1 DEF vars, EditAgent
    <2>2. (Clean' => Clean) /\ (AllDone' <=> AllDone) /\ (Finishing' <=> Finishing) BY <2>1 DEF Clean, AllDone, Live, Done, Finishing
    <2> QED BY <2>1, <2>2 DEF Finished
  <1>2. ASSUME NEW p \in Requests, EditStep(p) PROVE Finished' BY <1>2, EditStepEdits, EditFinished
  <1>3. ASSUME NEW p \in Requests, ExecutePlanStep(p) PROVE Finished' BY <1>3, ExecuteFacts, WorkFinished
  <1>4. ASSUME NEW p \in Requests, SkipPlanStep(p) PROVE Finished' BY <1>4, SkipFacts, WorkFinished
  <1>5. ASSUME NEW p \in Requests, RetryPlanStep(p) PROVE Finished' BY <1>5, RetryFacts, WorkFinished
  <1>6. CASE Next BY <1>1, <1>2, <1>3, <1>4, <1>5, <1>6, NextCases, StatementFinished, BetweenFinished
  <1> QED BY <1>1, <1>6

-----------------------------------------------------------------------------
Guarded == Base /\ Apart /\ Held /\ Approved /\ Finished

LEMMA GuardedInit == Init => Guarded
PROOF
  <1> SUFFICES ASSUME Init PROVE Guarded OBVIOUS
  <1>1. Base BY InitBase
  <1>2. \A p \in Requests : req[p] = Idle BY DEF Init
  <1>3. Idle.pc = "idle" /\ Idle.op = "none" /\ Idle.todo = <<>> /\ DOMAIN Idle.todo = {} BY DEF Idle
  <1>4. Busy = {} /\ Live = {} /\ wrong = {} /\ run = "none" BY <1>2, <1>3 DEF Busy, At, Init, Live, NoRow
  <1>5. Apart BY <1>4 DEF Apart
  <1>6. Held BY <1>2, <1>3 DEF Held, InHand, AtWork, At, SetPending, Workers, Work
  <1>7. Approved
    <2>1. \A s \in Steps : steps[s] = NoRow BY DEF Init
    <2>2. \A s \in Steps : Consented(s, steps[s]) BY <2>1 DEF Consented, ApprovedRow, NoRow
    <2>3. \A p \in Requests : AllowedOf(req[p]) BY <1>2, IdleAllowed
    <2> QED BY <1>4, <2>2, <2>3, ApprovedIs DEF Allowed
  <1>8. Finished BY <1>2, <1>3, <1>4 DEF Finished, Finishing
  <1> QED BY <1>1, <1>5, <1>6, <1>7, <1>8 DEF Guarded

LEMMA GuardedStep == Guarded /\ [Next]_vars => Guarded'
PROOF BY BaseStep, ApartStep, HeldStep, ApprovedStep, FinishedStep DEF Guarded

\* The rows requests have read are the ones in the table, workers hold open steps of their own,
\* approved rows name the approved tool, a completed run is done: while no requests mixed.
THEOREM SpecGuarded == Spec => []Guarded
PROOF BY GuardedInit, GuardedStep, PTL DEF Spec

\* ExecutePlanStep runs a tool that needs approval only where ApprovePlanStep approved that tool
\* in that step, whatever edits, retries and requests that died came in between.
THEOREM ApprovedIsRun == Spec => []ApprovedBeforeRun
PROOF
  <1>1. Guarded => ApprovedBeforeRun BY DEF Guarded, Approved, ApprovedBeforeRun, Clean
  <1> QED BY <1>1, SpecGuarded, PTL

\* completeRunWhenAllPlanStepsDone: a run that says "completed" has no step that is not done.
THEOREM CompletedDone == Spec => []CompletedIsDone
PROOF
  <1>1. Guarded => CompletedIsDone BY DEF Guarded, Finished, Finishing, CompletedIsDone, Clean
  <1> QED BY <1>1, SpecGuarded, PTL

=============================================================================
