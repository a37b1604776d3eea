----------------------- MODULE AgentPlanEdits_proofs -----------------------
(***************************************************************************)
(* What AgentPlan keeps to while users edit the plan, for any requests,    *)
(* tools, plans, policies and bounds: edits leave the plan as the users    *)
(* asked for; steps run in order; the run is completed when its last step  *)
(* is done.                                                                *)
(*                                                                         *)
(* The plan is carried by Structure: the statements an edit has left add   *)
(* up to the plan (Fits).  A chain of lemmas, one per kind of edit, shows  *)
(* that the list of statements it begins with does, and one that executing *)
(* the head of a list that does leaves a tail that does.  The order is     *)
(* carried by Orderly, the end of the run by Openness and LastDone.        *)
(***************************************************************************)
EXTENDS AgentPlan_proofs

-----------------------------------------------------------------------------
(* The plan, and the statements that are left of an edit of it              *)

\* The indices deps are places of the plan, of the steps that s was made to depend on.
DepsRight(s, deps) == deps \subseteq DOMAIN plan /\ {plan[d] : d \in deps} = needs[s]

\* Each statement finds what it needs: a row to set or to delete, none to create.  It sets and
\* creates steps of the plan, and deletes others.
Applies(td) ==
  \A k \in DOMAIN td :
    /\ td[k].kind = "set" => td[k].step \in Live /\ \E i \in DOMAIN plan : plan[i] = td[k].step
    /\ td[k].kind = "create" => td[k].step \notin Live /\ \E i \in DOMAIN plan : plan[i] = td[k].step
    /\ td[k].kind = "delete" => td[k].step \in Live /\ \A i \in DOMAIN plan : plan[i] # td[k].step
    /\ td[k].kind \in {"create", "delete"} => \A j \in DOMAIN td : td[j].kind = td[k].kind /\ td[j].step = td[k].step => j = k

\* A step that is at an index, or is put there, leaves it before another one is put there.
FreeNow(td) ==
  \A k \in DOMAIN td : \A s, t \in Steps :
     Puts(td[k], s) /\ t \in Live \ {s} /\ Index(t) = td[k].row.index => \E j \in 1..(k - 1) : Leaves(td[j], t)
FreeLater(td) ==
  \A k \in DOMAIN td : \A j \in 1..(k - 1) : \A s, t \in Steps :
     Puts(td[k], s) /\ Puts(td[j], t) /\ s # t /\ td[k].row.index = td[j].row.index =>
        \E l \in (j + 1)..(k - 1) : Leaves(td[l], t)

\* The step s ends at the index i: it is there and stays, or is put there last.
Lands(td, s, i) ==
  \/ s \in Live /\ Index(s) = i /\ \A k \in DOMAIN td : ~Leaves(td[k], s)
  \/ \E k \in DOMAIN td : Puts(td[k], s) /\ td[k].row.index = i /\ \A l \in (k + 1)..Len(td) : ~Leaves(td[l], s)

\* The steps of the plan end at its places, the others are deleted.
Landing(td) ==
  /\ \A i \in DOMAIN plan : Lands(td, plan[i], i)
  /\ \A s \in Live : (\E i \in DOMAIN plan : plan[i] = s) \/ \E k \in DOMAIN td : td[k].kind = "delete" /\ td[k].step = s
  /\ \A i, j \in DOMAIN plan : plan[i] = plan[j] => i = j

\* The dependencies of each step are the right ones, or are set to those.
SetsDeps(w, s) == w.step = s /\ (w.kind = "create" \/ Sets(w, "deps"))
Depending(td) ==
  \A i \in DOMAIN plan :
    /\ \A k \in DOMAIN td : SetsDeps(td[k], plan[i]) => DepsRight(plan[i], td[k].row.deps)
    /\ (\A k \in DOMAIN td : ~SetsDeps(td[k], plan[i])) => DepsRight(plan[i], steps[plan[i]].deps)

\* The statements td add up to the plan.
Fits(td) == Applies(td) /\ FreeNow(td) /\ FreeLater(td) /\ Landing(td) /\ Depending(td)

Fitting(p) == \A td \in {req[p].todo} : Fits(td)

\* What is left of an edit adds up to the plan; without an edit the steps stand as planned.
Structure == Undisturbed =>
  /\ \A p \in Requests : req[p].op \in Editors => Fitting(p)
  /\ (\A p \in Requests : req[p].op \notin Editors) => Fits(<<>>)

-----------------------------------------------------------------------------
(* Executing a statement                                                    *)

\* What the statement w does to indices and dependencies.
Effect(w) ==
  /\ \A t \in Steps : w.kind = "run" \/ t # w.step => steps'[t].index = steps[t].index /\ steps'[t].deps = steps[t].deps
  /\ w.kind = "set" =>
       /\ steps'[w.step].index = IF "index" \in w.fields THEN w.row.index ELSE steps[w.step].index
       /\ steps'[w.step].deps = IF "deps" \in w.fields THEN w.row.deps ELSE steps[w.step].deps
  /\ w.kind = "create" => steps'[w.step].index = w.row.index /\ steps'[w.step].deps = w.row.deps
  /\ w.kind = "delete" => steps'[w.step].index = 0

LEMMA EffectOf ==
  ASSUME Base, NEW p \in Requests, Stored(p) \/ Turned(p) \/ Dropped(p) \/ Inserted(p), NEW w, w = Next1(p)
  PROVE  Effect(w)
PROOF
  <1>1. steps \in [Steps -> Row] BY DEF Base, TypeOK
  <1>2. req[p].pc \in {"write", "store"} BY DEF Stored, Turned, Dropped, Inserted
  <1>3. w \in StatementType /\ WellFormed(w) BY <1>2, HeadFacts DEF Base
  <1>4. w.kind # "run" => w.step \in Steps BY <1>3 DEF WellFormed
  <1>5. CASE Stored(p)
    <2>1. w.kind = "set" /\ w.step \in Steps /\ steps' = [steps EXCEPT ![w.step] = Patched(steps[w.step], w)]
      BY <1>4, <1>5 DEF Stored
    <2>2. steps'[w.step] = Patched(steps[w.step], w) /\ \A t \in Steps : t # w.step => steps'[t] = steps[t] BY <1>1, <2>1
    <2>3. /\ Patched(steps[w.step], w).index = IF "index" \in w.fields THEN w.row.index ELSE steps[w.step].index
          /\ Patched(steps[w.step], w).deps = IF "deps" \in w.fields THEN w.row.deps ELSE steps[w.step].deps
      BY DEF Patched
    <2> QED BY <2>1, <2>2, <2>3 DEF Effect
  <1>6. CASE Turned(p) BY <1>6 DEF Turned, Effect
  <1>7. CASE Dropped(p)
    <2>1. w.kind = "delete" /\ w.step \in Steps /\ steps' = [steps EXCEPT ![w.step] = NoRow] BY <1>4, <1>7 DEF Dropped
    <2>2. steps'[w.step] = NoRow /\ \A t \in Steps : t # w.step => steps'[t] = steps[t] BY <1>1, <2>1
    <2> QED BY <2>1, <2>2 DEF Effect, NoRow
  <1>8. CASE Inserted(p)
    <2>1. w.kind = "create" /\ w.step \in Steps /\ steps' = [steps EXCEPT ![w.step] = NewRow(w.row)] BY <1>4, <1>8 DEF Inserted
    <2>2. steps'[w.step] = NewRow(w.row) /\ \A t \in Steps : t # w.step => steps'[t] = steps[t] BY <1>1, <2>1
    <2>3. w.row \in Row BY <1>3 DEF StatementType
    <2>4. NewRow(w.row).index = w.row.index /\ NewRow(w.row).deps = w.row.deps BY <2>3 DEF NewRow, Row
    <2> QED BY <2>1, <2>2, <2>4 DEF Effect
  <1> QED BY <1>5, <1>6, <1>7, <1>8

\* The statements td are executed up to the rest t.
Executing(td, t) ==
  /\ 1 \in DOMAIN td /\ Len(td) \in Nat \ {0} /\ DOMAIN td = 1..Len(td) /\ DOMAIN t = 1..(Len(td) - 1) /\ Len(t) = Len(td) - 1
  /\ \A k \in 1..(Len(td) - 1) : t[k] = td[k + 1]
  /\ \A k \in DOMAIN td : td[k] \in StatementType /\ WellFormed(td[k])
  /\ Effect(td[1]) /\ plan' = plan /\ needs' = needs

LEMMA ExecutingFacts ==
  ASSUME NEW td, NEW t, Executing(td, t)
  PROVE  \A k \in DOMAIN t : k \in Nat \ {0} /\ k + 1 \in DOMAIN td /\ t[k] = td[k + 1] /\ k < Len(td)
PROOF
  <1> DEFINE n == Len(td)
  <1>1. n \in Nat \ {0} /\ DOMAIN td = 1..n /\ DOMAIN t = 1..(n - 1) /\ \A k \in 1..(n - 1) : t[k] = td[k + 1] BY DEF Executing
  <1> HIDE DEF n
  <1> SUFFICES ASSUME NEW k \in 1..(n - 1) PROVE k \in Nat \ {0} /\ k + 1 \in 1..n /\ k < n BY <1>1 DEF n
  <1> QED BY <1>1

\* The rows there are then, and where they are.
After(w) ==
  /\ w.kind = "set" => w.step \in Live
  /\ w.kind = "set" \/ w.kind = "run" => Live' = Live
  /\ w.kind = "create" => Live' = Live \cup {w.step} /\ w.step \notin Live
  /\ w.kind = "delete" => Live' = Live \ {w.step} /\ w.step \in Live
  /\ \A s \in Steps : w.kind = "run" \/ s # w.step => (Index(s))' = Index(s)
  /\ \A s \in Steps : Puts(w, s) => (Index(s))' = w.row.index
  /\ \A s \in Steps : s \in Live /\ ~Leaves(w, s) => (Index(s))' = Index(s) /\ s \in Live'
  /\ Live \subseteq Steps /\ Live' \subseteq Steps

LEMMA AfterHead ==
  ASSUME TypeOK, TypeOK', NEW td, NEW t, Executing(td, t), Applies(td), NEW w, w = td[1]
  PROVE  After(w)
PROOF
  <1>1. w \in StatementType /\ WellFormed(w) /\ Effect(w) /\ 1 \in DOMAIN td BY DEF Executing
  <1>2. w.kind \in {"set", "run", "create", "delete"} /\ (w.kind # "run" => w.step \in Steps) BY <1>1 DEF StatementType, WellFormed
  <1>3. \A s \in Steps : steps[s].index \in Nat /\ steps'[s].index \in Nat /\ w.row.index \in Nat
    <2>1. \A s \in Steps : steps[s] \in Row /\ steps'[s] \in Row BY DEF TypeOK
    <2>2. w.row \in Row BY <1>1 DEF StatementType
    <2> QED BY <2>1, <2>2 DEF Row
  <1>4. /\ w.kind = "set" => w.step \in Live
        /\ w.kind = "create" => w.step \notin Live
        /\ w.kind = "delete" => w.step \in Live
    BY <1>1 DEF Applies
  <1>5. \A s : s \in Live <=> s \in Steps /\ steps[s].index > 0 BY DEF Live
  <1>6. \A s : s \in Live' <=> s \in Steps /\ steps'[s].index > 0 BY DEF Live
  <1>7. \A s \in Steps : w.kind = "run" \/ s # w.step => steps'[s].index = steps[s].index BY <1>1 DEF Effect
  <1>8. \A s \in Steps : Puts(w, s) => steps'[s].index = w.row.index BY <1>1 DEF Effect, Puts, Sets
  <1>9. w.kind = "create" \/ Sets(w, "index") => w.row.index > 0 BY <1>1 DEF WellFormed
  <1>10. CASE w.kind = "set"
    <2>1. steps'[w.step].index > 0
      <3>1. steps[w.step].index > 0 BY <1>4, <1>5, <1>10
      <3>2. CASE "index" \in w.fields BY <1>1, <1>9, <1>10, <3>2 DEF Effect, Sets
      <3>3. CASE "index" \notin w.fields BY <1>1, <1>10, <3>1, <3>3 DEF Effect
      <3> QED BY <3>2, <3>3
    <2>2. Live' = Live BY <1>2, <1>4, <1>5, <1>6, <1>7, <1>10, <2>1
    <2>3. \A s \in Steps : s \in Live /\ ~Leaves(w, s) => steps'[s].index = steps[s].index
      BY <1>1, <1>7, <1>10 DEF Leaves, Sets, Effect
    <2> QED BY <1>4, <1>5, <1>6, <1>7, <1>8, <1>10, <2>2, <2>3 DEF After, Index
  <1>11. CASE w.kind = "run"
    <2>1. Live' = Live BY <1>5, <1>6, <1>7, <1>11
    <2> QED BY <1>5, <1>6, <1>7, <1>8, <1>11, <2>1 DEF After, Index
  <1>12. CASE w.kind = "create"
    <2>1. steps'[w.step].index > 0 BY <1>1, <1>9, <1>12 DEF Effect
    <2>2. Live' = Live \cup {w.step} BY <1>2, <1>5, <1>6, <1>7, <1>12, <2>1
    <2>3. \A s \in Steps : s \in Live => s # w.step BY <1>4, <1>12
    <2> QED BY <1>4, <1>5, <1>6, <1>7, <1>8, <1>12, <2>2, <2>3 DEF After, Index
  <1>13. CASE w.kind = "delete"
    <2>1. ~(steps'[w.step].index > 0) BY <1>1, <1>13 DEF Effect
    <2>2. Live' = Live \ {w.step} BY <1>2, <1>5, <1>6, <1>7, <1>13, <2>1
    <2>3. \A s \in Steps : s \in Live /\ ~Leaves(w, s) => s # w.step BY <1>13 DEF Leaves
    <2> QED BY <1>4, <1>5, <1>6, <1>7, <1>8, <1>13, <2>2, <2>3 DEF After, Index
  <1> QED BY <1>2, <1>10, <1>11, <1>12, <1>13

LEMMA AppliesTail ==
  ASSUME NEW td, NEW t, Executing(td, t), Applies(td), NEW w, w = td[1], After(w)
  PROVE  Applies(t)'
PROOF
  <1>1. \A k \in DOMAIN t : k \in Nat \ {0} /\ k + 1 \in DOMAIN td /\ t[k] = td[k + 1] BY ExecutingFacts
  <1>2. plan' = plan /\ 1 \in DOMAIN td BY DEF Executing
  <1>3. SUFFICES ASSUME NEW k \in DOMAIN t
        PROVE  /\ t[k].kind = "set" => t[k].step \in Live' /\ \E i \in DOMAIN plan : plan[i] = t[k].step
               /\ t[k].kind = "create" => t[k].step \notin Live' /\ \E i \in DOMAIN plan : plan[i] = t[k].step
               /\ t[k].kind = "delete" => t[k].step \in Live' /\ \A i \in DOMAIN plan : plan[i] # t[k].step
               /\ t[k].kind \in {"create", "delete"} => \A j \in DOMAIN t : t[j].kind = t[k].kind /\ t[j].step = t[k].step => j = k
    BY <1>2, <1>3 DEF Applies
  <1>4. PICK m : m = k + 1 OBVIOUS
  <1>5. m \in DOMAIN td /\ t[k] = td[m] /\ m # 1 BY <1>1, <1>4
  <1>6. /\ td[m].kind = "set" => td[m].step \in Live /\ \E i \in DOMAIN plan : plan[i] = td[m].step
        /\ td[m].kind = "create" => td[m].step \notin Live /\ \E i \in DOMAIN plan : plan[i] = td[m].step
        /\ td[m].kind = "delete" => td[m].step \in Live /\ \A i \in DOMAIN plan : plan[i] # td[m].step
        /\ td[m].kind \in {"create", "delete"} => \A j \in DOMAIN td : td[j].kind = td[m].kind /\ td[j].step = td[m].step => j = m
    BY <1>5 DEF Applies
  <1>7. /\ w.kind = "delete" => \A i \in DOMAIN plan : plan[i] # w.step
        /\ w.kind \in {"create", "delete"} /\ td[m].kind = w.kind => td[m].step # w.step
    BY <1>2, <1>5 DEF Applies
  <1>8. w.kind \in {"set", "run", "create", "delete"} BY <1>2 DEF Executing, StatementType
  <1>9. \A j \in DOMAIN t : t[j].kind = td[m].kind /\ t[j].step = td[m].step /\ td[m].kind \in {"create", "delete"} => j = k
    <2> TAKE j \in DOMAIN t
    <2> HAVE t[j].kind = td[m].kind /\ t[j].step = td[m].step /\ td[m].kind \in {"create", "delete"}
    <2>1. j + 1 \in DOMAIN td /\ t[j] = td[j + 1] /\ j \in Nat /\ k \in Nat BY <1>1
    <2>2. j + 1 = m BY <1>6, <2>1
    <2> QED BY <1>4, <2>1, <2>2
  <1>10. w.kind = "set" \/ w.kind = "run" => Live' = Live BY DEF After
  <1>11. w.kind = "create" => Live' = Live \cup {w.step} BY DEF After
  <1>12. w.kind = "delete" => Live' = Live \ {w.step} BY DEF After
  <1>13. td[m].kind = "set" => td[m].step \in Live' BY <1>6, <1>7, <1>8, <1>10, <1>11, <1>12
  <1>14. td[m].kind = "create" => td[m].step \notin Live' BY <1>6, <1>7, <1>8, <1>10, <1>11, <1>12
  <1>15. td[m].kind = "delete" => td[m].step \in Live' BY <1>6, <1>7, <1>8, <1>10, <1>11, <1>12
  <1> QED BY <1>5, <1>6, <1>9, <1>13, <1>14, <1>15

LEMMA FreeNowTail ==
  ASSUME TypeOK, NEW td, NEW t, Executing(td, t), FreeNow(td), FreeLater(td), NEW w, w = td[1], After(w)
  PROVE  FreeNow(t)'
PROOF
  <1>1. \A k \in DOMAIN t : k \in Nat \ {0} /\ k + 1 \in DOMAIN td /\ t[k] = td[k + 1] /\ k < Len(td) BY ExecutingFacts
  <1>2. 1 \in DOMAIN td BY DEF Executing
  <1>3. SUFFICES ASSUME NEW k \in DOMAIN t, NEW s \in Steps, NEW u \in Steps,
                        Puts(t[k], s), u \in Live', u # s, (Index(u))' = t[k].row.index
                 PROVE  \E j \in 1..(k - 1) : Leaves(t[j], u)
    BY <1>3 DEF FreeNow
  <1>4. k \in Nat \ {0} /\ DOMAIN t = 1..(Len(td) - 1) /\ Len(td) \in Nat BY <1>1 DEF Executing
  <1>5. PICK m : m = k + 1 OBVIOUS
  <1>6. m \in DOMAIN td /\ t[k] = td[m] BY <1>1, <1>5
  \* What leaves between two statements, counted in the rest.
  <1>7. ASSUME NEW l \in 2..(m - 1), Leaves(td[l], u) PROVE \E j \in 1..(k - 1) : Leaves(t[j], u)
    <2>1. PICK j : j = l - 1 OBVIOUS
    <2>2. j \in 1..(k - 1) /\ j \in 1..(Len(td) - 1) /\ l = j + 1
      BY <1>1, <1>4, <1>5, <2>1
    <2>3. t[j] = td[l] BY <1>1, <1>4, <2>2
    <2> QED BY <1>7, <2>2, <2>3
  <1>8. CASE Puts(w, u)
    <2>1. td[m].row.index = w.row.index BY <1>3, <1>6, <1>8 DEF After
    <2>2. 1 \in 1..(m - 1) BY <1>4, <1>5
    <2>3. PICK l \in 2..(m - 1) : Leaves(td[l], u)
      <3>1. \E l \in (1 + 1)..(m - 1) : Leaves(td[l], u)
        BY <1>3, <1>6, <1>8, <2>1, <2>2 DEF FreeLater
      <3> QED BY <3>1
    <2> QED BY <1>7, <2>3
  <1>9. CASE ~Puts(w, u)
    <2>1. w.kind # "create" \/ w.step # u BY <1>9 DEF Puts
    <2>2. u \in Live /\ ~Leaves(w, u)
      <3>1. w.kind \in {"set", "run", "create", "delete"} BY <1>2 DEF Executing, StatementType
      <3>2. u \in Live BY <1>3, <2>1, <3>1 DEF After
      <3>3. w.kind = "delete" => u # w.step BY <1>3 DEF After
      <3> QED BY <1>9, <3>2, <3>3 DEF Leaves, Puts
    <2>3. Index(u) = td[m].row.index BY <1>3, <1>6, <2>2 DEF After
    <2>4. PICK l \in 1..(m - 1) : Leaves(td[l], u) BY <1>3, <1>6, <2>2, <2>3 DEF FreeNow
    <2>5. l # 1 BY <2>2, <2>4
    <2>6. l \in 2..(m - 1) BY <1>4, <1>5, <2>5
    <2> QED BY <1>7, <2>4, <2>6
  <1> QED BY <1>8, <1>9

LEMMA FreeLaterTail ==
  ASSUME NEW td, NEW t, Executing(td, t), FreeLater(td)
  PROVE  FreeLater(t)'
PROOF
  <1>1. \A k \in DOMAIN t : k \in Nat \ {0} /\ k + 1 \in DOMAIN td /\ t[k] = td[k + 1] BY ExecutingFacts
  <1>2. DOMAIN t = 1..(Len(td) - 1) /\ Len(td) \in Nat BY DEF Executing
  <1>3. SUFFICES ASSUME NEW k \in DOMAIN t, NEW i \in 1..(k - 1), NEW s \in Steps, NEW u \in Steps,
                        Puts(t[k], s), Puts(t[i], u), s # u, t[k].row.index = t[i].row.index
                 PROVE  \E j \in (i + 1)..(k - 1) : Leaves(t[j], u)
    BY <1>3 DEF FreeLater
  <1>4. PICK m : m = k + 1 OBVIOUS
  <1>5. PICK h : h = i + 1 OBVIOUS
  <1>6. m \in DOMAIN td /\ t[k] = td[m] /\ k \in Nat BY <1>1, <1>4
  <1>7. i \in DOMAIN t BY <1>1, <1>2
  <1>8. t[i] = td[h] /\ h \in 1..(m - 1) BY <1>1, <1>4, <1>5, <1>6, <1>7
  <1>9. PICK l \in (h + 1)..(m - 1) : Leaves(td[l], u) BY <1>3, <1>6, <1>8 DEF FreeLater
  <1>10. PICK j : j = l - 1 OBVIOUS
  <1>11. j \in (i + 1)..(k - 1) /\ j \in DOMAIN t /\ l = j + 1 BY <1>1, <1>2, <1>4, <1>5, <1>6, <1>8, <1>10
  <1>12. t[j] = td[l] BY <1>1, <1>11
  <1> QED BY <1>9, <1>11, <1>12

LEMMA LandsTail ==
  ASSUME NEW td, NEW t, Executing(td, t), NEW w, w = td[1], After(w), NEW s \in Steps, NEW i, Lands(td, s, i)
  PROVE  Lands(t, s, i)'
PROOF
  <1>1. \A k \in DOMAIN t : k \in Nat \ {0} /\ k + 1 \in DOMAIN td /\ t[k] = td[k + 1] BY ExecutingFacts
  <1>2. DOMAIN t = 1..(Len(td) - 1) /\ Len(td) \in Nat \ {0} /\ 1 \in DOMAIN td /\ Len(t) = Len(td) - 1
        /\ DOMAIN td = 1..Len(td)
    BY DEF Executing
  <1>3. CASE s \in Live /\ Index(s) = i /\ \A k \in DOMAIN td : ~Leaves(td[k], s)
    <2>1. (Index(s))' = i /\ s \in Live' BY <1>2, <1>3 DEF After
    <2>2. \A k \in DOMAIN t : ~Leaves(t[k], s) BY <1>1, <1>3
    <2> QED BY <2>1, <2>2 DEF Lands
  <1>4. CASE \E k \in DOMAIN td : Puts(td[k], s) /\ td[k].row.index = i /\ \A l \in (k + 1)..Len(td) : ~Leaves(td[l], s)
    <2>1. PICK k \in DOMAIN td : Puts(td[k], s) /\ td[k].row.index = i /\ \A l \in (k + 1)..Len(td) : ~Leaves(td[l], s)
      BY <1>4
    <2>2. CASE k = 1
      <3>1. (Index(s))' = i BY <2>1, <2>2 DEF After
      <3>2. s \in Live' BY <2>1, <2>2 DEF After, Puts, Sets
      <3>3. \A l \in DOMAIN t : ~Leaves(t[l], s)
        <4> TAKE l \in DOMAIN t
        <4>1. l + 1 \in (k + 1)..Len(td) BY <1>1, <1>2, <2>2
        <4> QED BY <1>1, <2>1, <4>1
      <3> QED BY <3>1, <3>2, <3>3 DEF Lands
    <2>3. CASE k # 1
      <3>1. PICK j : j = k - 1 OBVIOUS
      <3>2. j \in DOMAIN t /\ k = j + 1 BY <1>2, <2>3, <3>1
      <3>3. t[j] = td[k] BY <1>1, <3>2
      <3>4. \A l \in (j + 1)..Len(t) : ~Leaves(t[l], s)
        <4> TAKE l \in (j + 1)..Len(t)
        <4>1. l \in DOMAIN t /\ l + 1 \in (k + 1)..Len(td) BY <1>2, <3>2
        <4> QED BY <1>1, <2>1, <4>1
      <3> QED BY <2>1, <3>2, <3>3, <3>4 DEF Lands
    <2> QED BY <2>2, <2>3
  <1> QED BY <1>3, <1>4 DEF Lands

LEMMA LandingTail ==
  ASSUME TypeOK, NEW td, NEW t, Executing(td, t), Applies(td), Landing(td), NEW w, w = td[1], After(w)
  PROVE  Landing(t)'
PROOF
  <1>1. \A k \in DOMAIN t : k \in Nat \ {0} /\ k + 1 \in DOMAIN td /\ t[k] = td[k + 1] BY ExecutingFacts
  <1>2. DOMAIN t = 1..(Len(td) - 1) /\ Len(td) \in Nat \ {0} /\ 1 \in DOMAIN td /\ DOMAIN td = 1..Len(td) /\ plan' = plan
    BY DEF Executing
  <1>3. \A i \in DOMAIN plan : plan[i] \in Steps BY DEF TypeOK
  <1>4. ASSUME NEW i \in DOMAIN plan PROVE Lands(t, plan[i], i)'
    <2>1. PICK s : s = plan[i] OBVIOUS
    <2>2. Lands(td, s, i) /\ s \in Steps BY <1>3, <2>1 DEF Landing
    <2>3. Lands(t, s, i)' BY <2>2, LandsTail
    <2> QED BY <1>2, <2>1, <2>3
  <1>5. ASSUME NEW s \in Live', \A i \in DOMAIN plan : plan[i] # s PROVE \E k \in DOMAIN t : t[k].kind = "delete" /\ t[k].step = s
    <2>1. w.kind = "create" => s # w.step BY <1>2, <1>5 DEF Applies
    <2>2. w.kind \in {"set", "run", "create", "delete"} BY <1>2 DEF Executing, StatementType
    <2>3. s \in Live /\ ~(w.kind = "delete" /\ s = w.step) BY <2>1, <2>2 DEF After
    <2>4. PICK k \in DOMAIN td : td[k].kind = "delete" /\ td[k].step = s BY <1>5, <2>3 DEF Landing
    <2>5. k # 1 BY <2>3, <2>4
    <2>6. PICK j : j = k - 1 OBVIOUS
    <2>7. j \in DOMAIN t /\ k = j + 1 BY <1>2, <2>5, <2>6
    <2> QED BY <1>1, <2>4, <2>7
  <1>6. \A i, j \in DOMAIN plan : plan[i] = plan[j] => i = j BY DEF Landing
  <1> QED BY <1>2, <1>4, <1>5, <1>6 DEF Landing

LEMMA DependingTail ==
  ASSUME TypeOK, NEW td, NEW t, Executing(td, t), Applies(td), Depending(td), NEW w, w = td[1]
  PROVE  Depending(t)'
PROOF
  <1>1. \A k \in DOMAIN t : k \in Nat \ {0} /\ k + 1 \in DOMAIN td /\ t[k] = td[k + 1] BY ExecutingFacts
  <1>2. DOMAIN t = 1..(Len(td) - 1) /\ Len(td) \in Nat \ {0} /\ 1 \in DOMAIN td /\ DOMAIN td = 1..Len(td)
        /\ plan' = plan /\ needs' = needs /\ Effect(w)
    BY DEF Executing
  <1>3. \A i \in DOMAIN plan : plan[i] \in Steps BY DEF TypeOK
  <1>4. \A s, deps : DepsRight(s, deps)' <=> DepsRight(s, deps) BY <1>2 DEF DepsRight
  <1>5. SUFFICES ASSUME NEW i \in DOMAIN plan, NEW s \in Steps, s = plan[i]
        PROVE  /\ \A k \in DOMAIN t : SetsDeps(t[k], s) => DepsRight(s, t[k].row.deps)
               /\ (\A k \in DOMAIN t : ~SetsDeps(t[k], s)) => DepsRight(s, steps'[s].deps)
    <2>1. ASSUME NEW i \in DOMAIN plan
          PROVE  /\ \A k \in DOMAIN t : SetsDeps(t[k], plan[i]) => DepsRight(plan[i], t[k].row.deps)'
                 /\ (\A k \in DOMAIN t : ~SetsDeps(t[k], plan[i])) => DepsRight(plan[i], steps[plan[i]].deps)'
      <3>1. PICK s \in Steps : s = plan[i] BY <1>3
      <3>2. /\ \A k \in DOMAIN t : SetsDeps(t[k], s) => DepsRight(s, t[k].row.deps)
            /\ (\A k \in DOMAIN t : ~SetsDeps(t[k], s)) => DepsRight(s, steps'[s].deps)
        BY <1>5, <3>1
      <3> QED BY <1>2, <1>4, <3>1, <3>2 DEF DepsRight
    <2> QED BY <1>2, <2>1 DEF Depending
  <1>6. /\ \A k \in DOMAIN td : SetsDeps(td[k], s) => DepsRight(s, td[k].row.deps)
        /\ (\A k \in DOMAIN td : ~SetsDeps(td[k], s)) => DepsRight(s, steps[s].deps)
    BY <1>5 DEF Depending
  <1>7. ASSUME \A k \in DOMAIN t : ~SetsDeps(t[k], s) PROVE DepsRight(s, steps'[s].deps)
    <2>1. CASE SetsDeps(w, s)
      <3>1. steps'[s].deps = w.row.deps BY <1>2, <2>1 DEF SetsDeps, Sets, Effect
      <3> QED BY <1>2, <1>6, <2>1, <3>1
    <2>2. CASE ~SetsDeps(w, s)
      <3>1. \A k \in DOMAIN td : ~SetsDeps(td[k], s)
        <4> TAKE k \in DOMAIN td
        <4>1. CASE k = 1 BY <2>2, <4>1
        <4>2. CASE k # 1
          <5>1. PICK j : j = k - 1 OBVIOUS
          <5>2. j \in DOMAIN t /\ k = j + 1 BY <1>2, <4>2, <5>1
          <5> QED BY <1>1, <1>7, <5>2
        <4> QED BY <4>1, <4>2
      <3>2. w.kind \in {"set", "run", "create", "delete"} BY <1>2 DEF Executing, StatementType
      <3>3. w.kind = "delete" => w.step # s BY <1>2, <1>5 DEF Applies
      <3>4. steps'[s].deps = steps[s].deps BY <1>2, <2>2, <3>2, <3>3 DEF SetsDeps, Sets, Effect
      <3> QED BY <1>6, <3>1, <3>4
    <2> QED BY <2>1, <2>2
  <1> QED BY <1>1, <1>6, <1>7

LEMMA FitsTail ==
  ASSUME TypeOK, TypeOK', NEW td, NEW t, Executing(td, t), Fits(td)
  PROVE  Fits(t)'
PROOF
  <1>1. PICK w : w = td[1] OBVIOUS
  <1>2. After(w) BY <1>1, AfterHead DEF Fits
  <1>3. Applies(t)' BY <1>1, <1>2, AppliesTail DEF Fits
  <1>4. FreeNow(t)' BY <1>1, <1>2, FreeNowTail DEF Fits
  <1>5. FreeLater(t)' BY FreeLaterTail DEF Fits
  <1>6. Landing(t)' BY <1>1, <1>2, LandingTail DEF Fits
  <1>7. Depending(t)' BY <1>1, DependingTail DEF Fits
  <1> QED BY <1>3, <1>4, <1>5, <1>6, <1>7 DEF Fits

\* What the plan says of statements depends on the indices, the dependencies and the users' plan.
LEMMA SameFits ==
  ASSUME plan' = plan, needs' = needs, \A s \in Steps : steps'[s].index = steps[s].index /\ steps'[s].deps = steps[s].deps,
         TypeOK, NEW td, Fits(td)
  PROVE  Fits(td)'
PROOF
  <1>1. Live' = Live /\ Live \subseteq Steps BY DEF Live
  <1>2. \A s \in Steps : (Index(s))' = Index(s) BY DEF Index
  <1>3. \A s, deps : DepsRight(s, deps)' <=> DepsRight(s, deps) BY DEF DepsRight
  <1>4. \A i \in DOMAIN plan : plan[i] \in Steps BY DEF TypeOK
  <1>5. Applies(td)' BY <1>1 DEF Fits, Applies
  <1>6. FreeNow(td)' BY <1>1, <1>2 DEF Fits, FreeNow
  <1>7. FreeLater(td)' BY DEF Fits, FreeLater
  <1>8. Landing(td)'
    <2>1. \A s \in Steps : \A i : Lands(td, s, i)' <=> Lands(td, s, i) BY <1>1, <1>2 DEF Lands
    <2>2. ASSUME NEW i \in DOMAIN plan PROVE Lands(td, plan[i], i)'
      <3>1. PICK s \in Steps : s = plan[i] BY <1>4
      <3>2. Lands(td, s, i) BY <3>1 DEF Fits, Landing
      <3>3. Lands(td, s, i)' BY <2>1, <3>2
      <3> QED BY <3>1, <3>3
    <2> QED BY <1>1, <2>2 DEF Fits, Landing
  <1>9. Depending(td)'
    <2>1. ASSUME NEW i \in DOMAIN plan
          PROVE  /\ \A k \in DOMAIN td : SetsDeps(td[k], plan[i]) => DepsRight(plan[i], td[k].row.deps)'
                 /\ (\A k \in DOMAIN td : ~SetsDeps(td[k], plan[i])) => DepsRight(plan[i], steps[plan[i]].deps)'
      <3>1. PICK s \in Steps : s = plan[i] BY <1>4
      <3>2. /\ \A k \in DOMAIN td : SetsDeps(td[k], s) => DepsRight(s, td[k].row.deps)
            /\ (\A k \in DOMAIN td : ~SetsDeps(td[k], s)) => DepsRight(s, steps[s].deps)
        BY <3>1 DEF Fits, Depending
      <3>3. steps'[s].deps = steps[s].deps OBVIOUS
      <3> QED BY <1>3, <3>1, <3>2, <3>3 DEF DepsRight
    <2> QED BY <2>1 DEF Depending
  <1> QED BY <1>5, <1>6, <1>7, <1>8, <1>9 DEF Fits

\* A worker's statement moves no step and changes no dependencies.
LEMMA WorkerMovesNone ==
  ASSUME Base, Clean, InHand, NEW p \in Requests, Statement(p), req[p].op \in Workers
  PROVE  \A s \in Steps : steps'[s].index = steps[s].index /\ steps'[s].deps = steps[s].deps
PROOF
  <1>1. steps \in [Steps -> Row] BY DEF Base, TypeOK
  <1>2. req[p].pc \in {"write", "store"} BY DEF Statement, ReadRow, StoreRow, StoreRun, DeleteRow, CreateRow, At
  <1>3. WorksOn(Next1(p), req[p].step) BY <1>2, WorkerHead
  <1>4. CASE ReadRow(p) \/ StoreRun(p) BY <1>4 DEF ReadRow, StoreRun
  <1>5. CASE DeleteRow(p) \/ CreateRow(p) BY <1>3, <1>5 DEF DeleteRow, CreateRow, WorksOn
  <1>6. CASE StoreRow(p)
    <2>1. PICK s : s = Next1(p).step OBVIOUS
    <2>2. Next1(p).kind = "set"
      <3>1. ShapeOf(req[p]) /\ Next1(p) = req[p].todo[1] /\ req[p].pc = "store" BY <1>2, <1>6, RequestFacts, HeadFacts DEF Base, StoreRow, At
      <3> QED BY <3>1 DEF ShapeOf
    <2>3. "index" \notin Next1(p).fields /\ "deps" \notin Next1(p).fields BY <1>3, <2>2 DEF WorksOn
    <2>4. s \in Live /\ req[p].row = Patched(steps[s], Next1(p)) BY <1>6, <2>1 DEF StoreRow, At, InHand
    <2>5. req[p].row.index = steps[s].index /\ req[p].row.deps = steps[s].deps BY <2>3, <2>4 DEF Patched
    <2>6. steps' = steps \/ steps' = [steps EXCEPT ![s] = req[p].row] BY <1>6, <2>1 DEF StoreRow
    <2> QED BY <1>1, <2>5, <2>6
  <1> QED BY <1>4, <1>5, <1>6 DEF Statement

\* A statement that fits is executed.
LEMMA NotStopped ==
  ASSUME Base, Clean, InHand, NEW p \in Requests, Fits(req[p].todo)
  PROVE  ~Stopped(p)
PROOF
  <1>1. SUFFICES ASSUME Stopped(p) PROVE FALSE OBVIOUS
  <1>2. req[p].pc \in {"write", "store"} /\ Refused(p) BY <1>1 DEF Stopped
  <1>3. PICK w : w = Next1(p) OBVIOUS
  <1>4. PICK td : td = req[p].todo OBVIOUS
  <1>5. 1 \in DOMAIN td /\ w = td[1] /\ w \in StatementType /\ WellFormed(w) BY <1>2, <1>3, <1>4, HeadFacts DEF Base
  <1>6. Applies(td) /\ FreeNow(td) BY <1>4 DEF Fits
  <1>7. \A j : j \notin 1..(1 - 1) OBVIOUS
  <1>8. \A s, t \in Steps : Puts(w, s) /\ t \in Live \ {s} => Index(t) # w.row.index BY <1>5, <1>6, <1>7 DEF FreeNow
  <1>9. w.kind \in {"set", "delete"} => w.step \in Live BY <1>5, <1>6 DEF Applies
  <1>10. CASE req[p].pc = "store" /\ ~(AtIndex(req[p].row.index) \subseteq {w.step})
    <2>1. w.kind = "set" BY <1>4, <1>5, <1>10, RequestFacts DEF Base, ShapeOf
    <2>2. w.step \in Live /\ w.step \in Steps BY <1>9, <2>1, StepLive
    <2>3. req[p].row = Patched(steps[w.step], w) BY <1>3, <1>10 DEF InHand, At
    <2>4. PICK t \in Live : Index(t) = req[p].row.index /\ t # w.step BY <1>10 DEF AtIndex
    <2>5. t \in Steps BY StepLive
    <2>6. CASE "index" \in w.fields
      <3>1. Index(t) = w.row.index BY <2>3, <2>4, <2>6 DEF Patched
      <3>2. Puts(w, w.step) BY <2>1, <2>6 DEF Puts, Sets
      <3> QED BY <1>8, <2>2, <2>4, <2>5, <3>1, <3>2
    <2>7. CASE "index" \notin w.fields
      <3>1. Index(t) = Index(w.step) BY <2>3, <2>4, <2>7 DEF Patched, Index
      <3> QED BY <2>2, <2>4, <3>1 DEF Base, Unique
    <2> QED BY <2>6, <2>7
  <1>11. CASE w.kind = "create" /\ AtIndex(w.row.index) # {}
    <2>1. w.step \notin Live /\ w.step \in Steps BY <1>5, <1>6, <1>11 DEF Applies, WellFormed
    <2>2. PICK t \in Live : Index(t) = w.row.index BY <1>11 DEF AtIndex
    <2>3. t \in Steps /\ Puts(w, w.step) BY <1>11, StepLive DEF Puts
    <2> QED BY <1>8, <2>1, <2>2, <2>3
  <1> QED BY <1>2, <1>3, <1>9, <1>10, <1>11 DEF Refused

LEMMA EditorStatement ==
  ASSUME Base, Base', Clean, InHand, NEW p \in Requests, Statement(p), req[p].op \in Editors, Fits(req[p].todo)
  PROVE  /\ req'[p].op \in Editors => Fitting(p)'
         /\ req'[p].op \notin Editors => Fits(<<>>)'
PROOF
  <1>1. RestSame /\ (ReadIn(p) \/ Stored(p) \/ Turned(p) \/ Dropped(p) \/ Inserted(p))
    BY StatementFacts, NotStopped
  <1>2. plan' = plan /\ needs' = needs BY <1>1 DEF RestSame
  <1>3. req \in [Requests -> RequestType] BY DEF Base, TypeOK
  <1>4. PICK td : td = req[p].todo OBVIOUS
  <1>5. CASE ReadIn(p)
    <2>1. req'[p].op = req[p].op /\ req'[p].todo = td BY <1>3, <1>4, <1>5 DEF ReadIn, InStore
    <2>2. steps' = steps BY <1>5 DEF ReadIn
    <2>3. Fits(td)' BY <1>2, <1>4, <2>2, SameFits DEF Base
    <2> QED BY <2>1, <2>3 DEF Fitting
  <1>6. CASE Stored(p) \/ Turned(p) \/ Dropped(p) \/ Inserted(p)
    <2>1. req[p].pc \in {"write", "store"} /\ req'[p] = Then(p) BY <1>3, <1>6 DEF Stored, Turned, Dropped, Inserted
    <2>2. PICK t : t = Tail(td) OBVIOUS
    <2>3. Then(p).todo = t /\ (Then(p).op = req[p].op \/ Then(p) = Idle) BY <1>4, <2>1, <2>2, ThenFacts DEF Base
    <2>4. Executing(td, t)
      <3>1. /\ 1 \in DOMAIN td /\ Next1(p) = td[1] /\ Len(td) \in Nat \ {0} /\ t \in Seq(StatementType) /\ Len(t) = Len(td) - 1
            /\ \A k \in 1..(Len(td) - 1) : t[k] = td[k + 1]
        BY <1>4, <2>1, <2>2, HeadFacts DEF Base
      <3>2. DOMAIN td = 1..Len(td) /\ \A k \in 1..Len(td) : td[k] \in StatementType /\ WellFormed(td[k])
        BY <1>4, RequestFacts DEF Base
      <3>3. DOMAIN t = 1..(Len(td) - 1) BY <3>1, LenProperties
      <3>4. PICK w : w = Next1(p) OBVIOUS
      <3>5. Effect(w) /\ w = td[1] BY <1>6, <3>1, <3>4, EffectOf
      <3> QED BY <1>2, <3>1, <3>2, <3>3, <3>5 DEF Executing
    <2>5. Fits(t)' BY <1>4, <2>4, FitsTail DEF Base
    <2>6. req'[p].op \notin Editors => t = <<>> BY <2>1, <2>3 DEF Idle
    <2>7. req'[p].todo = t BY <2>1, <2>3
    <2> QED BY <2>5, <2>6, <2>7 DEF Fitting
  <1> QED BY <1>1, <1>5, <1>6

LEMMA StatementStructure ==
  ASSUME Base, Base', Apart, InHand, Structure, NEW p \in Requests, Statement(p)
  PROVE  Structure'
PROOF
  <1>1. faults' = faults /\ wrong' = wrong /\ plan' = plan /\ needs' = needs
    BY DEF Statement, ReadRow, StoreRow, StoreRun, DeleteRow, CreateRow, history
  <1>2. SUFFICES ASSUME Undisturbed
                 PROVE  /\ \A q \in Requests : req'[q].op \in Editors => Fitting(q)'
                        /\ (\A q \in Requests : req'[q].op \notin Editors) => Fits(<<>>)'
    BY <1>1 DEF Structure, Undisturbed
  <1>3. Clean BY <1>2 DEF Undisturbed, Clean
  <1>4. \A q \in Requests \ {p} : req'[q] = req[q] /\ req[q].op \notin Editors BY <1>3, Touches
  <1>5. CASE req[p].op \in Editors
    <2>1. Fits(req[p].todo) BY <1>2, <1>5 DEF Structure, Fitting
    <2>2. /\ req'[p].op \in Editors => Fitting(p)'
          /\ req'[p].op \notin Editors => Fits(<<>>)'
      BY <1>3, <1>5, <2>1, EditorStatement
    <2> QED BY <1>4, <2>2
  <1>6. CASE req[p].op \notin Editors
    <2>1. Fits(<<>>) BY <1>2, <1>4, <1>6 DEF Structure
    <2>2. req[p].pc \in {"write", "store"} BY DEF Statement, ReadRow, StoreRow, StoreRun, DeleteRow, CreateRow, At
    <2>3. req[p].op \in Workers
      <3>1. p \in Busy /\ req[p] \in RequestType /\ req[p].op # "none" BY <2>2, HeadFacts, RequestFacts DEF Base
      <3>2. req[p].op \in {"none", "start", "edit", "continue"} \cup Work BY <3>1 DEF RequestType
      <3> QED BY <1>6, <3>1, <3>2 DEF Workers, Editors
    <2>4. Fits(<<>>)' BY <1>1, <1>3, <2>1, <2>3, WorkerMovesNone, SameFits DEF Base
    <2>5. req'[p].op \notin Editors
      <3>1. ReadIn(p) \/ Stored(p) \/ Turned(p) \/ Dropped(p) \/ Inserted(p) \/ Stopped(p) BY <1>3, StatementFacts
      <3>2. req \in [Requests -> RequestType] BY DEF Base, TypeOK
      <3>3. req'[p] = InStore(p) \/ req'[p] = Then(p) \/ req'[p] = Idle
        BY <3>1, <3>2 DEF ReadIn, Stored, Turned, Dropped, Inserted, Stopped
      <3>4. Then(p).op = req[p].op \/ Then(p) = Idle BY <2>2, ThenFacts DEF Base
      <3>5. Idle.op = "none" /\ InStore(p).op = req[p].op BY DEF Idle, InStore
      <3> QED BY <1>6, <3>3, <3>4, <3>5 DEF Editors
    <2> QED BY <1>4, <2>4, <2>5
  <1> QED BY <1>5, <1>6

-----------------------------------------------------------------------------
(* An edit: its statements add up to the plan it asks for                   *)

\* The statements td add up to the plan pl, of steps that depend on nd.
RightIn(pl, nd, s, deps) == deps \subseteq DOMAIN pl /\ {pl[d] : d \in deps} = nd[s]
AppliesTo(td, pl) ==
  \A k \in DOMAIN td :
    /\ td[k].kind = "set" => td[k].step \in Live /\ \E i \in DOMAIN pl : pl[i] = td[k].step
    /\ td[k].kind = "create" => td[k].step \notin Live /\ \E i \in DOMAIN pl : pl[i] = td[k].step
    /\ td[k].kind = "delete" => td[k].step \in Live /\ \A i \in DOMAIN pl : pl[i] # td[k].step
    /\ td[k].kind \in {"create", "delete"} => \A j \in DOMAIN td : td[j].kind = td[k].kind /\ td[j].step = td[k].step => j = k
LandingOn(td, pl) ==
  /\ \A i \in DOMAIN pl : Lands(td, pl[i], i)
  /\ \A s \in Live : (\E i \in DOMAIN pl : pl[i] = s) \/ \E k \in DOMAIN td : td[k].kind = "delete" /\ td[k].step = s
  /\ \A i, j \in DOMAIN pl : pl[i] = pl[j] => i = j
DependingOn(td, pl, nd) ==
  \A i \in DOMAIN pl :
    /\ \A k \in DOMAIN td : SetsDeps(td[k], pl[i]) => RightIn(pl, nd, pl[i], td[k].row.deps)
    /\ (\A k \in DOMAIN td : ~SetsDeps(td[k], pl[i])) => RightIn(pl, nd, pl[i], steps[pl[i]].deps)

LEMMA FitsNext ==
  ASSUME steps' = steps, NEW td, NEW pl, NEW nd, pl = plan', nd = needs',
         AppliesTo(td, pl), FreeNow(td), FreeLater(td), LandingOn(td, pl), DependingOn(td, pl, nd)
  PROVE  Fits(td)'
PROOF
  <1>1. Live' = Live BY DEF Live
  <1>2. \A s : (Index(s))' = Index(s) BY DEF Index
  <1>3. \A s, deps : DepsRight(s, deps)' <=> RightIn(pl, nd, s, deps) BY DEF DepsRight, RightIn
  <1>4. Applies(td)' BY <1>1 DEF Applies, AppliesTo
  <1>5. FreeNow(td)' BY <1>1, <1>2 DEF FreeNow
  <1>6. FreeLater(td)' BY DEF FreeLater
  <1>7. Landing(td)'
    <2>1. \A s, i : Lands(td, s, i)' <=> Lands(td, s, i) BY <1>1, <1>2 DEF Lands
    <2>2. \A i \in DOMAIN pl : Lands(td, pl[i], i)' BY <2>1 DEF LandingOn
    <2>3. ASSUME NEW i \in DOMAIN plan' PROVE Lands(td, plan[i], i)'
      <3>1. PICK s : s = pl[i] OBVIOUS
      <3>2. Lands(td, s, i)' BY <2>1, <3>1 DEF LandingOn
      <3> QED BY <3>1, <3>2 DEF Lands
    <2> QED BY <1>1, <2>3 DEF Landing, LandingOn
  <1>8. Depending(td)'
    <2>1. ASSUME NEW i \in DOMAIN plan'
          PROVE  /\ \A k \in DOMAIN td : SetsDeps(td[k], plan[i])' => DepsRight(plan[i], td[k].row.deps)'
                 /\ (\A k \in DOMAIN td : ~SetsDeps(td[k], plan[i])') => DepsRight(plan[i], steps[plan[i]].deps)'
      <3>1. PICK s : s = pl[i] OBVIOUS
      <3>2. /\ \A k \in DOMAIN td : SetsDeps(td[k], s) => RightIn(pl, nd, s, td[k].row.deps)
            /\ (\A k \in DOMAIN td : ~SetsDeps(td[k], s)) => RightIn(pl, nd, s, steps[s].deps)
        BY <3>1 DEF DependingOn
      <3> QED BY <3>1, <3>2 DEF DepsRight, RightIn, SetsDeps
    <2> QED BY <2>1 DEF Depending, SetsDeps
  <1> QED BY <1>4, <1>5, <1>6, <1>7, <1>8 DEF Fits

\* The steps stand as planned.
LaidOut(n) ==
  /\ n \in Nat /\ n = Len(plan) /\ DOMAIN plan = 1..n
  /\ \A i \in 1..n : plan[i] \in Live /\ Index(plan[i]) = i
  /\ \A s \in Live : Index(s) \in 1..n /\ plan[Index(s)] = s /\ s \in Steps
  /\ \A i, j \in 1..n : plan[i] = plan[j] => i = j
  /\ \A s \in Live : RightIn(plan, needs, s, steps[s].deps)
  /\ MaxIndex = n

LEMMA LaidOutFacts ==
  ASSUME Base, Fits(<<>>)
  PROVE  \E n : LaidOut(n)
PROOF
  <1>1. PICK n : n = Len(plan) OBVIOUS
  <1>2. n \in Nat /\ DOMAIN plan = 1..n BY <1>1, PlanType
  <1>3. \A k : k \notin DOMAIN <<>> OBVIOUS
  <1>4. \A i \in 1..n : plan[i] \in Live /\ Index(plan[i]) = i BY <1>2, <1>3 DEF Fits, Landing, Lands
  <1>5. \A s \in Live : Index(s) \in 1..n /\ plan[Index(s)] = s /\ s \in Steps
    <2> TAKE s \in Live
    <2>1. PICK i \in 1..n : plan[i] = s BY <1>2, <1>3 DEF Fits, Landing
    <2> QED BY <1>4, <2>1, StepLive
  <1>6. \A i, j \in 1..n : plan[i] = plan[j] => i = j BY <1>2 DEF Fits, Landing
  <1>7. \A s \in Live : RightIn(plan, needs, s, steps[s].deps)
    <2> TAKE s \in Live
    <2>1. PICK i \in 1..n : plan[i] = s BY <1>5
    <2> QED BY <1>2, <1>3, <2>1 DEF Fits, Depending, DepsRight, RightIn
  <1>8. MaxIndex = n
    <2>1. CASE Live = {}
      <3>1. n = 0
        <4>1. SUFFICES ASSUME n # 0 PROVE FALSE OBVIOUS
        <4>2. 1 \in 1..n BY <1>2, <4>1
        <4> QED BY <1>4, <2>1, <4>2
      <3> QED BY <2>1, <3>1 DEF MaxIndex
    <2>2. CASE Live # {}
      <3> DEFINE last == CHOOSE s \in Live : \A t \in Live : Index(t) <= Index(s)
      <3>1. n \in 1..n
        <4>1. PICK s \in Live : TRUE BY <2>2
        <4>2. Index(s) \in 1..n BY <1>5
        <4> QED BY <1>2, <4>2
      <3>2. \A t \in Live : Index(t) <= Index(plan[n]) BY <1>2, <1>4, <1>5, <3>1
      <3>3. last \in Live /\ \A t \in Live : Index(t) <= Index(last) BY <1>4, <3>1, <3>2
      <3>4. MaxIndex = Index(last) BY <2>2 DEF MaxIndex
      <3> HIDE DEF last
      <3>5. Index(plan[n]) <= Index(last) /\ Index(plan[n]) = n /\ Index(last) \in 1..n BY <1>4, <1>5, <3>1, <3>3
      <3> QED BY <1>2, <3>4, <3>5
    <2> QED BY <2>1, <2>2
  <1> QED BY <1>1, <1>2, <1>4, <1>5, <1>6, <1>7, <1>8 DEF LaidOut

\* The steps at some indices are those of the plan.
LEMMA ByIdIs ==
  ASSUME NEW n, LaidOut(n), NEW deps, deps \subseteq 1..n
  PROVE  ById(deps) = {plan[d] : d \in deps}
PROOF
  <1>1. ASSUME NEW d \in deps PROVE AtIndex(d) = {plan[d]}
    <2>1. d \in 1..n OBVIOUS
    <2>2. plan[d] \in Live /\ Index(plan[d]) = d BY <2>1 DEF LaidOut
    <2>3. \A s \in Live : Index(s) = d => s = plan[d] BY DEF LaidOut
    <2> QED BY <2>2, <2>3 DEF AtIndex
  <1>2. ById(deps) = UNION {{plan[d]} : d \in deps} BY <1>1 DEF ById
  <1> QED BY <1>2

\* A statement of one step that moves nothing.
LEMMA FitsOne ==
  ASSUME Base, NEW n, LaidOut(n), NEW w \in StatementType, NEW nd,
         w.kind = "run" \/ (w.kind = "set" /\ w.step \in Live /\ "index" \notin w.fields),
         \A s \in Live : IF SetsDeps(w, s) THEN RightIn(plan, nd, s, w.row.deps) ELSE RightIn(plan, nd, s, steps[s].deps),
         steps' = steps, plan' = plan, nd = needs', NEW td, td = <<w>>
  PROVE  Fits(td)'
PROOF
  <1>1. DOMAIN td = {1} /\ td[1] = w /\ Len(td) = 1 /\ 1 \in DOMAIN td OBVIOUS
  <1>2. \A s : ~Puts(w, s) /\ ~Leaves(w, s) BY DEF Puts, Leaves, Sets
  <1>3. DOMAIN plan = 1..n BY DEF LaidOut
  <1>4. AppliesTo(td, plan)
    <2>1. w.kind = "set" => \E i \in DOMAIN plan : plan[i] = w.step BY <1>3 DEF LaidOut
    <2> QED BY <1>1, <2>1 DEF AppliesTo
  <1>5. FreeNow(td) /\ FreeLater(td) BY <1>1, <1>2 DEF FreeNow, FreeLater
  <1>6. LandingOn(td, plan) BY <1>1, <1>2, <1>3 DEF LandingOn, Lands, LaidOut
  <1>7. DependingOn(td, plan, nd) BY <1>1, <1>3 DEF DependingOn, LaidOut
  <1>8. PICK pl : pl = plan' OBVIOUS
  <1> QED BY <1>4, <1>5, <1>6, <1>7, <1>8, FitsNext

LEMMA AcceptFits ==
  ASSUME Base, NEW n, LaidOut(n), NEW p \in Requests, NEW s, NEW w, Accepted(p, s, w), NEW td, td = <<w>>
  PROVE  Fits(td)'
PROOF
  <1>1. s \in Live /\ w \in StatementType /\ w.kind = "set" /\ w.step = s /\ w.fields = {"status", "approval"}
    BY PlainIsEdit DEF Accepted, Accepting
  <1>2. plan' = plan /\ needs' = needs /\ steps' = steps BY DEF Accepted, Edits
  <1>3. \A t : ~SetsDeps(w, t) BY <1>1 DEF SetsDeps, Sets
  <1>4. PICK nd : nd = needs' OBVIOUS
  <1>5. \A t \in Live : RightIn(plan, nd, t, steps[t].deps) BY <1>2, <1>4 DEF LaidOut
  <1> QED BY <1>1, <1>2, <1>3, <1>4, <1>5, FitsOne

LEMMA UnansweredFits ==
  ASSUME Base, NEW n, LaidOut(n), NEW p \in Requests, NEW w, Unanswered(p, w), NEW td, td = <<w>>
  PROVE  Fits(td)'
PROOF
  <1>1. w \in StatementType /\ w.kind = "run" BY PlainIsEdit DEF Unanswered
  <1>2. plan' = plan /\ needs' = needs /\ steps' = steps BY DEF Unanswered, Edits
  <1>3. \A t : ~SetsDeps(w, t) BY <1>1 DEF SetsDeps, Sets
  <1>4. PICK nd : nd = needs' OBVIOUS
  <1>5. \A t \in Live : RightIn(plan, nd, t, steps[t].deps) BY <1>2, <1>4 DEF LaidOut
  <1> QED BY <1>1, <1>2, <1>3, <1>4, <1>5, FitsOne

LEMMA UpdateFits ==
  ASSUME Base, NEW n, LaidOut(n), NEW p \in Requests, NEW s, NEW tool, NEW deps, NEW w, Updated(p, s, tool, deps, w),
         NEW td, td = <<w>>
  PROVE  Fits(td)'
PROOF
  <1>1. /\ s \in Live /\ w \in StatementType /\ w.kind = "set" /\ w.step = s /\ "index" \notin w.fields /\ "deps" \in w.fields
        /\ w.row.deps = deps
    BY PlainIsEdit DEF Updated, Updating
  <1>2. plan' = plan /\ needs' = [needs EXCEPT ![s] = ById(deps)] /\ steps' = steps BY DEF Updated, Edits
  <1>3. PICK nd : nd = needs' OBVIOUS
  <1>4. needs \in [Steps -> SUBSET Steps] /\ s \in Steps /\ Live \subseteq Steps BY <1>1, StepLive DEF Base, TypeOK, Live
  <1>5. nd[s] = ById(deps) /\ \A t \in Live : t # s => nd[t] = needs[t] BY <1>2, <1>3, <1>4
  <1>6. \A t : SetsDeps(w, t) <=> t = s BY <1>1 DEF SetsDeps, Sets
  <1>7. deps \subseteq 1..n
    <2>1. CASE deps = steps[s].deps BY <1>1, <2>1 DEF LaidOut, RightIn
    <2>2. CASE deps \subseteq {Index(t) : t \in Live \ {s}} BY <2>2 DEF LaidOut
    <2> QED BY <2>1, <2>2 DEF Updated
  <1>8. RightIn(plan, nd, s, deps) BY <1>5, <1>7, ByIdIs DEF RightIn, LaidOut
  <1>9. \A t \in Live : t # s => RightIn(plan, nd, t, steps[t].deps) BY <1>5 DEF RightIn, LaidOut
  <1>10. \A t \in Live : IF SetsDeps(w, t) THEN RightIn(plan, nd, t, w.row.deps) ELSE RightIn(plan, nd, t, steps[t].deps)
    BY <1>1, <1>6, <1>8, <1>9
  <1> QED BY <1>1, <1>2, <1>3, <1>10, FitsOne

\* What a plain statement of the plan does and does not.
LEMMA InsertingIs ==
  ASSUME NEW w, NEW s, NEW i, NEW tool, NEW deps, Inserting(w, s, i, tool, deps)
  PROVE  /\ w.kind = "create" /\ w.step = s /\ w.row.index = i /\ w.row.deps = deps
         /\ \A t : Puts(w, t) <=> t = s
         /\ \A t : ~Leaves(w, t)
         /\ \A t : SetsDeps(w, t) <=> t = s
PROOF BY DEF Inserting, Puts, Leaves, SetsDeps, Sets

LEMMA MovingIs ==
  ASSUME NEW w, NEW s, NEW i, Moving(w, s, i)
  PROVE  /\ w.kind = "set" /\ w.step = s /\ w.row.index = i
         /\ \A t : Puts(w, t) <=> t = s
         /\ \A t : Leaves(w, t) <=> t = s
         /\ \A t : ~SetsDeps(w, t)
PROOF BY DEF Moving, Puts, Leaves, SetsDeps, Sets

LEMMA DeletingIs ==
  ASSUME NEW w, NEW s, Deleting(w, s)
  PROVE  /\ w.kind = "delete" /\ w.step = s
         /\ \A t : ~Puts(w, t)
         /\ \A t : Leaves(w, t) <=> t = s
         /\ \A t : ~SetsDeps(w, t)
PROOF BY DEF Deleting, Puts, Leaves, SetsDeps, Sets

LEMMA RewritingIs ==
  ASSUME NEW w, NEW s, NEW deps, Rewriting(w, s, deps)
  PROVE  /\ w.kind = "set" /\ w.step = s /\ w.row.deps = deps
         /\ \A t : ~Puts(w, t) /\ ~Leaves(w, t)
         /\ \A t : SetsDeps(w, t) <=> t = s
PROOF BY DEF Rewriting, Puts, Leaves, SetsDeps, Sets

LEMMA PausingIs ==
  ASSUME NEW w, NEW status, Pausing(w, status)
  PROVE  /\ w.kind = "run"
         /\ \A t : ~Puts(w, t) /\ ~Leaves(w, t) /\ ~SetsDeps(w, t)
PROOF BY DEF Pausing, Puts, Leaves, SetsDeps, Sets

\* StartPlanningRun: the steps of the answer, one after the other.
LEMMA StartFits ==
  ASSUME Base, NEW p \in Requests, NEW specs, NEW td, Started(p, specs, td), "loose" \notin wrong'
  PROVE  Fits(td)'
PROOF
  <1>1. PICK n : n = Len(specs) OBVIOUS
  <1>2. PICK pl : pl = plan' OBVIOUS
  <1>3. PICK nd : nd = needs' OBVIOUS
  <1>4. /\ n \in Nat /\ DOMAIN specs = 1..n /\ n <= MaxSteps BY <1>1, PlanFacts DEF Started
  <1>5. /\ Live = {} /\ made = 0 /\ steps' = steps
        /\ td \in Seq(PlainStatements) /\ Len(td) = n + 1
        /\ \A k \in 1..n : Inserting(td[k], made + k, 1 + k - 1, specs[k].tool, specs[k].deps)
        /\ Pausing(td[n + 1], "pending_approval")
    BY <1>1 DEF Started, StartLayout, Edits
  <1>6. DOMAIN td = 1..(n + 1) BY <1>5, DomainOf
  <1>7. DOMAIN pl = 1..n /\ \A k \in 1..n : pl[k] = k BY <1>1, <1>2 DEF Started
  <1>8. \A k \in 1..n : made + k = k /\ 1 + k - 1 = k BY <1>4, <1>5
  <1>9. \A k \in 1..n : Inserting(td[k], k, k, specs[k].tool, specs[k].deps) BY <1>5, <1>8
  <1>10. ASSUME NEW k \in 1..n
         PROVE  /\ td[k].kind = "create" /\ td[k].step = k /\ td[k].row.index = k /\ td[k].row.deps = specs[k].deps
                /\ \A t : Puts(td[k], t) <=> t = k
                /\ \A t : ~Leaves(td[k], t)
                /\ \A t : SetsDeps(td[k], t) <=> t = k
    BY <1>9, InsertingIs
  <1>11. /\ td[n + 1].kind = "run"
         /\ \A t : ~Puts(td[n + 1], t) /\ ~Leaves(td[n + 1], t) /\ ~SetsDeps(td[n + 1], t)
    BY <1>5, PausingIs
  <1>12. \A k \in DOMAIN td : k \in 1..n \/ k = n + 1 BY <1>4, <1>6
  <1>13. \A k \in 1..n : k \in DOMAIN td BY <1>4, <1>6
  <1>14. \A k \in DOMAIN td : \A t : ~Leaves(td[k], t) BY <1>10, <1>11, <1>12
  <1>15. AppliesTo(td, pl)
    <2>1. ASSUME NEW k \in 1..n, NEW j \in DOMAIN td, td[j].kind = td[k].kind, td[j].step = td[k].step PROVE j = k
      <3>1. j # n + 1 BY <1>10, <1>11, <2>1
      <3> QED BY <1>10, <1>12, <2>1, <3>1
    <2>2. ASSUME NEW k \in 1..n
          PROVE  td[k].kind = "create" /\ td[k].step \notin Live /\ \E i \in DOMAIN pl : pl[i] = td[k].step
      BY <1>5, <1>7, <1>10
    <2>3. \A k \in DOMAIN td : td[k].kind \in {"create", "delete"} => k \in 1..n BY <1>11, <1>12
    <2> QED BY <1>11, <1>12, <2>1, <2>2, <2>3 DEF AppliesTo
  <1>16. FreeNow(td) BY <1>5 DEF FreeNow
  <1>17. FreeLater(td)
    <2>1. ASSUME NEW k \in DOMAIN td, NEW j \in 1..(k - 1), NEW s \in Steps, NEW t \in Steps,
                 Puts(td[k], s), Puts(td[j], t), s # t, td[k].row.index = td[j].row.index
          PROVE  FALSE
      <3>1. k \in 1..n BY <1>11, <1>12, <2>1
      <3>2. j \in 1..n BY <1>4, <3>1
      <3> QED BY <1>10, <2>1, <3>1, <3>2
    <2> QED BY <2>1 DEF FreeLater
  <1>18. LandingOn(td, pl)
    <2>1. ASSUME NEW i \in 1..n PROVE Lands(td, pl[i], i)
      <3>1. \A l \in (i + 1)..Len(td) : l \in DOMAIN td BY <1>4, <1>5, <1>6
      <3> QED BY <1>7, <1>10, <1>13, <1>14, <3>1 DEF Lands
    <2> QED BY <1>5, <1>7, <2>1 DEF LandingOn
  <1>19. DependingOn(td, pl, nd)
    <2>1. ASSUME NEW i \in 1..n PROVE RightIn(pl, nd, i, specs[i].deps)
      <3>1. specs[i].deps \subseteq DOMAIN pl
        <4>1. Loose(specs, pl) \subseteq wrong' BY <1>2 DEF Started
        <4> QED BY <1>4, <4>1 DEF Loose
      <3>2. i \in Steps /\ i \in made + 1..made + n /\ i - made = i BY <1>4, <1>5, BoundsAssumption DEF Steps
      <3>3. nd = Answered(specs, pl) BY <1>2, <1>3 DEF Started
      <3>4. nd[i] = {pl[d] : d \in specs[i].deps \cap DOMAIN pl} BY <1>1, <3>2, <3>3 DEF Answered
      <3>5. specs[i].deps \cap DOMAIN pl = specs[i].deps BY <3>1
      <3> QED BY <3>1, <3>4, <3>5 DEF RightIn
    <2>2. ASSUME NEW i \in 1..n
          PROVE  /\ \A k \in DOMAIN td : SetsDeps(td[k], i) => RightIn(pl, nd, i, td[k].row.deps)
                 /\ ~\A k \in DOMAIN td : ~SetsDeps(td[k], i)
      <3>1. \A k \in DOMAIN td : SetsDeps(td[k], i) => k = i BY <1>10, <1>11, <1>12
      <3> QED BY <1>10, <1>13, <2>1, <3>1
    <2> QED BY <1>7, <2>2 DEF DependingOn
  <1> QED BY <1>2, <1>3, <1>5, <1>15, <1>16, <1>17, <1>18, <1>19, FitsNext

\* The steps after a place of the plan, in their order.
LEMMA SegmentIs ==
  ASSUME Base, NEW n, LaidOut(n), NEW b \in 0..n, NEW S, S = {s \in Live : Index(s) > b}
  PROVE  Len(InOrder(S)) = n - b /\ \A k \in 1..(n - b) : InOrder(S)[k] = plan[b + k]
PROOF
  <1>1. PICK m : m = n - b OBVIOUS
  <1>2. n \in Nat /\ m \in Nat /\ DOMAIN plan = 1..n BY <1>1 DEF LaidOut
  <1>3. PICK l : l = [k \in 1..m |-> plan[b + k]] OBVIOUS
  <1>4. l = [k \in 1..m |-> l[k]] BY <1>3
  <1>5. ASSUME NEW k \in 1..m PROVE l[k] = plan[b + k] /\ l[k] \in S /\ Index(l[k]) = b + k
    <2>1. b + k \in 1..n /\ b + k > b BY <1>1, <1>2
    <2>2. plan[b + k] \in Live /\ Index(plan[b + k]) = b + k BY <2>1 DEF LaidOut
    <2> QED BY <1>3, <2>1, <2>2
  <1>6. l \in Seq(S) /\ Len(l) = m BY <1>2, <1>4, <1>5, SeqOf
  <1>7. \A i, j \in 1..Len(l) : i < j => Index(l[i]) < Index(l[j])
    <2> TAKE i, j \in 1..Len(l)
    <2> HAVE i < j
    <2>1. Index(l[i]) = b + i /\ Index(l[j]) = b + j BY <1>5, <1>6
    <2>2. b + i < b + j BY <1>2
    <2> QED BY <2>1, <2>2
  <1>8. \A s \in S : \E k \in 1..Len(l) : l[k] = s
    <2> TAKE s \in S
    <2>1. s \in Live /\ Index(s) \in 1..n /\ Index(s) > b /\ plan[Index(s)] = s BY DEF LaidOut
    <2>2. PICK k : k = Index(s) - b OBVIOUS
    <2>3. k \in 1..m /\ b + k = Index(s) BY <1>1, <1>2, <2>1, <2>2
    <2> QED BY <1>5, <1>6, <2>1, <2>3
  <1>9. Sorted(l, S) BY <1>6, <1>7, <1>8 DEF Sorted
  <1>10. S \in SUBSET Live OBVIOUS
  <1>11. InOrder(S) = l BY <1>9, <1>10, SortedIsInOrder DEF Base
  <1> QED BY <1>1, <1>5, <1>6, <1>11

\* Dependencies that are rewritten name the same steps in the new plan.
LEMMA RewritesDepend ==
  ASSUME NEW n, LaidOut(n), NEW td, NEW from \in Nat, NEW S \in SUBSET Live, NEW to, Rewrites(td, from, S, to),
         DOMAIN td = 1..Len(td), Len(td) \in Nat, from <= Len(td),
         NEW pl, NEW nd, \A s \in S : nd[s] = needs[s],
         \A s \in S : \A d \in steps[s].deps : to[d] \in DOMAIN pl /\ pl[to[d]] = plan[d],
         \A k \in 1..from : \A s \in S : ~SetsDeps(td[k], s)
  PROVE  \A s \in S :
           /\ \A k \in DOMAIN td : SetsDeps(td[k], s) => RightIn(pl, nd, s, td[k].row.deps)
           /\ (\A k \in DOMAIN td : ~SetsDeps(td[k], s)) => RightIn(pl, nd, s, steps[s].deps)
PROOF
  <1> TAKE s \in S
  <1>1. RightIn(pl, nd, s, NewDeps(steps[s].deps, to))
    <2>1. PICK deps : deps = steps[s].deps OBVIOUS
    <2>2. {plan[d] : d \in deps} = needs[s] BY <2>1 DEF LaidOut, RightIn
    <2>3. \A d \in deps : to[d] \in DOMAIN pl /\ pl[to[d]] = plan[d] BY <2>1
    <2>4. NewDeps(deps, to) = {to[i] : i \in deps} BY DEF NewDeps
    <2>5. {pl[d] : d \in {to[i] : i \in deps}} = {plan[d] : d \in deps} BY <2>3
    <2>6. {to[i] : i \in deps} \subseteq DOMAIN pl BY <2>3
    <2> QED BY <2>1, <2>2, <2>4, <2>5, <2>6 DEF RightIn
  <1>2. \A k \in DOMAIN td : k \in 1..from \/ k \in (from + 1)..Len(td) OBVIOUS
  <1>3. ASSUME NEW k \in (from + 1)..Len(td), td[k].step = s
        PROVE  SetsDeps(td[k], s) /\ td[k].row.deps = NewDeps(steps[s].deps, to) /\ k \in DOMAIN td
    <2>1. Rewriting(td[k], s, NewDeps(steps[s].deps, to)) BY <1>3 DEF Rewrites
    <2>2. SetsDeps(td[k], s) /\ td[k].row.deps = NewDeps(steps[s].deps, to) BY <2>1, RewritingIs
    <2>3. k \in DOMAIN td OBVIOUS
    <2> QED BY <2>2, <2>3
  <1>4. \A k \in DOMAIN td : SetsDeps(td[k], s) => RightIn(pl, nd, s, td[k].row.deps)
    <2> TAKE k \in DOMAIN td
    <2> HAVE SetsDeps(td[k], s)
    <2>1. td[k].step = s BY DEF SetsDeps
    <2> QED BY <1>1, <1>2, <1>3, <2>1
  <1>5. ASSUME \A k \in DOMAIN td : ~SetsDeps(td[k], s) PROVE RightIn(pl, nd, s, steps[s].deps)
    <2>1. \A k \in (from + 1)..Len(td) : td[k].step # s BY <1>3, <1>5
    <2>2. NewDeps(steps[s].deps, to) = steps[s].deps BY <2>1 DEF Rewrites
    <2> QED BY <1>1, <2>2
  <1> QED BY <1>4, <1>5

\* ... and move nothing.
LEMMA RewritesStay ==
  ASSUME NEW td, NEW from, NEW S, NEW to, Rewrites(td, from, S, to)
  PROVE  \A k \in (from + 1)..Len(td) :
           /\ td[k].kind = "set" /\ td[k].step \in S
           /\ \A t : ~Puts(td[k], t) /\ ~Leaves(td[k], t)
PROOF
  <1> TAKE k \in (from + 1)..Len(td)
  <1>1. td[k].step \in S /\ Rewriting(td[k], td[k].step, NewDeps(steps[td[k].step].deps, to)) BY DEF Rewrites
  <1> QED BY <1>1, RewritingIs

-----------------------------------------------------------------------------
(* CreatePlanStepDraft: the steps after a place make room for another       *)

Moves(w, s, i) ==
  /\ w.kind = "set" /\ w.step = s /\ w.row.index = i
  /\ \A t : (Puts(w, t) <=> t = s) /\ (Leaves(w, t) <=> t = s)
Adds(w, s, i) ==
  /\ w.kind = "create" /\ w.step = s /\ w.row.index = i
  /\ \A t : (Puts(w, t) <=> t = s) /\ ~Leaves(w, t)
Stays(w) == w.kind = "set" /\ w.step \in Live /\ \A t : ~Puts(w, t) /\ ~Leaves(w, t)

\* The m steps after the place b leave for the buffer, the new one is put behind b, they come
\* back one further, dependencies are rewritten.
MakesRoom(td, n, m, b, new, pl) ==
  /\ n \in Nat /\ b \in 0..n /\ m \in Nat /\ m = n - b
  /\ DOMAIN td = 1..Len(td) /\ Len(td) \in Nat /\ Len(td) >= m + 1 + m
  /\ \A k \in 1..m : Moves(td[k], plan[b + k], n + k)
  /\ Adds(td[m + 1], new, b + 1)
  /\ \A k \in 1..m : Moves(td[m + 1 + k], plan[b + k], b + k + 1)
  /\ \A k \in (m + 1 + m + 1)..Len(td) : Stays(td[k])
  /\ new \notin Live
  /\ DOMAIN pl = 1..(n + 1)
  /\ \A k \in 1..(n + 1) : pl[k] = IF k <= b THEN plan[k] ELSE IF k = b + 1 THEN new ELSE plan[k - 1]

LEMMA RoomPlaces ==
  ASSUME NEW n, NEW m, NEW b, NEW td, NEW new, NEW pl, MakesRoom(td, n, m, b, new, pl), NEW k \in DOMAIN td
  PROVE  \/ k \in 1..m
         \/ k = m + 1
         \/ \E c \in 1..m : k = m + 1 + c
         \/ k \in (m + 1 + m + 1)..Len(td)
PROOF
  <1>1. m \in Nat /\ Len(td) \in Nat /\ k \in 1..Len(td) BY DEF MakesRoom
  <1>2. PICK c : c = k - (m + 1) OBVIOUS
  <1>3. k \in 1..m \/ k = m + 1 \/ (c \in 1..m /\ k = m + 1 + c) \/ k \in (m + 1 + m + 1)..Len(td) BY <1>1, <1>2
  <1> QED BY <1>3

LEMMA RoomApplies ==
  ASSUME NEW n, LaidOut(n), NEW m, NEW b, NEW td, NEW new, NEW pl, MakesRoom(td, n, m, b, new, pl)
  PROVE  AppliesTo(td, pl)
PROOF
  <1>1. n \in Nat /\ b \in 0..n /\ m \in Nat /\ m = n - b BY DEF MakesRoom
  <1>2. ASSUME NEW s \in Live PROVE \E i \in DOMAIN pl : pl[i] = s
    <2>1. PICK i : i = Index(s) OBVIOUS
    <2>2. i \in 1..n /\ plan[i] = s BY <2>1 DEF LaidOut
    <2>3. CASE i <= b
      <3>1. i \in 1..(n + 1) BY <1>1, <2>2
      <3> QED BY <2>2, <2>3, <3>1 DEF MakesRoom
    <2>4. CASE i > b
      <3>1. i + 1 \in 1..(n + 1) /\ ~(i + 1 <= b) /\ i + 1 # b + 1 /\ (i + 1) - 1 = i BY <1>1, <2>2, <2>4
      <3>2. pl[i + 1] = s BY <2>2, <3>1 DEF MakesRoom
      <3> QED BY <3>1, <3>2 DEF MakesRoom
    <2> QED BY <1>1, <2>2, <2>3, <2>4
  <1>3. \E i \in DOMAIN pl : pl[i] = new
    <2>1. b + 1 \in 1..(n + 1) /\ ~(b + 1 <= b) BY <1>1
    <2> QED BY <2>1 DEF MakesRoom
  <1>4. \A c \in 1..m : plan[b + c] \in Live
    <2> TAKE c \in 1..m
    <2>1. b + c \in 1..n BY <1>1
    <2> QED BY <2>1 DEF LaidOut
  <1>5. ASSUME NEW k \in DOMAIN td
        PROVE  \/ td[k].kind = "set" /\ td[k].step \in Live
               \/ td[k].kind = "create" /\ td[k].step = new /\ k = m + 1
    <2>1. CASE k \in 1..m BY <1>4, <2>1 DEF MakesRoom, Moves
    <2>2. CASE k = m + 1 BY <2>2 DEF MakesRoom, Adds
    <2>3. ASSUME NEW c \in 1..m, k = m + 1 + c PROVE td[k].kind = "set" /\ td[k].step \in Live
      <3>1. Moves(td[k], plan[b + c], b + c + 1) BY <2>3 DEF MakesRoom
      <3> QED BY <1>4, <3>1 DEF Moves
    <2>4. CASE k \in (m + 1 + m + 1)..Len(td) BY <2>4 DEF MakesRoom, Stays
    <2> QED BY <2>1, <2>2, <2>3, <2>4, RoomPlaces
  <1>6. new \notin Live BY DEF MakesRoom
  <1> QED BY <1>2, <1>3, <1>5, <1>6 DEF AppliesTo

LEMMA RoomFreeNow ==
  ASSUME NEW n, LaidOut(n), NEW m, NEW b, NEW td, NEW new, NEW pl, MakesRoom(td, n, m, b, new, pl)
  PROVE  FreeNow(td)
PROOF
  <1>1. n \in Nat /\ b \in 0..n /\ m \in Nat /\ m = n - b BY DEF MakesRoom
  <1>2. SUFFICES ASSUME NEW k \in DOMAIN td, NEW s \in Steps, NEW t \in Steps,
                        Puts(td[k], s), t \in Live \ {s}, Index(t) = td[k].row.index
                 PROVE  \E j \in 1..(k - 1) : Leaves(td[j], t)
    BY <1>2 DEF FreeNow
  <1>3. PICK i : i = Index(t) OBVIOUS
  <1>4. i \in 1..n /\ plan[i] = t BY <1>2, <1>3 DEF LaidOut
  \* It is behind b: it has left for the buffer.
  <1>5. ASSUME i > b, k > i - b PROVE \E j \in 1..(k - 1) : Leaves(td[j], t)
    <2>1. PICK c : c = i - b OBVIOUS
    <2>2. c \in 1..m /\ b + c = i /\ k \in Int BY <1>1, <1>4, <1>5, <2>1 DEF MakesRoom
    <2>3. c \in 1..(k - 1) BY <1>5, <2>1, <2>2
    <2>4. Leaves(td[c], t) BY <1>4, <2>2 DEF MakesRoom, Moves
    <2> QED BY <2>3, <2>4
  <1>6. CASE k \in 1..m
    <2>1. i = n + k BY <1>2, <1>3, <1>6 DEF MakesRoom, Moves
    <2> QED BY <1>1, <1>4, <1>6, <2>1
  <1>7. CASE k = m + 1
    <2>1. i = b + 1 BY <1>2, <1>3, <1>7 DEF MakesRoom, Adds
    <2>2. i > b /\ k > i - b BY <1>1, <1>4, <1>7, <2>1
    <2> QED BY <1>5, <2>2
  <1>8. ASSUME NEW c \in 1..m, k = m + 1 + c PROVE \E j \in 1..(k - 1) : Leaves(td[j], t)
    <2>1. i = b + c + 1 BY <1>2, <1>3, <1>8 DEF MakesRoom, Moves
    <2>2. i > b /\ k > i - b BY <1>1, <1>4, <1>8, <2>1
    <2> QED BY <1>5, <2>2
  <1>9. CASE k \in (m + 1 + m + 1)..Len(td) BY <1>2, <1>9 DEF MakesRoom, Stays
  <1> QED BY <1>6, <1>7, <1>8, <1>9, RoomPlaces

LEMMA RoomFreeLater ==
  ASSUME NEW n, LaidOut(n), NEW m, NEW b, NEW td, NEW new, NEW pl, MakesRoom(td, n, m, b, new, pl)
  PROVE  FreeLater(td)
PROOF
  <1>1. n \in Nat /\ b \in 0..n /\ m \in Nat /\ m = n - b BY DEF MakesRoom
  <1>2. SUFFICES ASSUME NEW k \in DOMAIN td, NEW j \in 1..(k - 1), NEW s \in Steps, NEW t \in Steps,
                        Puts(td[k], s), Puts(td[j], t), s # t, td[k].row.index = td[j].row.index
                 PROVE  \E l \in (j + 1)..(k - 1) : Leaves(td[l], t)
    BY <1>2 DEF FreeLater
  <1>3. j \in DOMAIN td /\ j < k /\ k \in Nat /\ j \in Nat BY DEF MakesRoom
  \* The index each of them puts a step at.
  <1>4. ASSUME NEW h \in DOMAIN td, NEW u, Puts(td[h], u)
        PROVE  \/ h \in 1..m /\ td[h].row.index = n + h /\ u = plan[b + h]
               \/ h = m + 1 /\ td[h].row.index = b + 1
               \/ \E c \in 1..m : h = m + 1 + c /\ td[h].row.index = b + c + 1 /\ u = plan[b + c]
    <2>1. CASE h \in 1..m BY <1>4, <2>1 DEF MakesRoom, Moves
    <2>2. CASE h = m + 1 BY <1>4, <2>2 DEF MakesRoom, Adds
    <2>3. ASSUME NEW c \in 1..m, h = m + 1 + c PROVE td[h].row.index = b + c + 1 /\ u = plan[b + c]
      <3>1. Moves(td[h], plan[b + c], b + c + 1) BY <2>3 DEF MakesRoom
      <3> QED BY <1>4, <3>1 DEF Moves
    <2>4. CASE h \in (m + 1 + m + 1)..Len(td) BY <1>4, <2>4 DEF MakesRoom, Stays
    <2> QED BY <2>1, <2>2, <2>3, <2>4, RoomPlaces
  <1>5. PICK x : x = td[k].row.index OBVIOUS
  <1>6. \/ k \in 1..m /\ x = n + k /\ s = plan[b + k]
        \/ k = m + 1 /\ x = b + 1
        \/ \E c \in 1..m : k = m + 1 + c /\ x = b + c + 1 /\ s = plan[b + c]
    BY <1>2, <1>4, <1>5
  <1>7. \/ j \in 1..m /\ x = n + j /\ t = plan[b + j]
        \/ j = m + 1 /\ x = b + 1
        \/ \E c \in 1..m : j = m + 1 + c /\ x = b + c + 1 /\ t = plan[b + c]
    BY <1>2, <1>3, <1>4, <1>5
  \* Only the last one that comes back takes the first place of the buffer.
  <1>8. ASSUME j \in 1..m, x = n + j, t = plan[b + j], NEW c \in 1..m, k = m + 1 + c, x = b + c + 1, s = plan[b + c]
        PROVE  \E l \in (j + 1)..(k - 1) : Leaves(td[l], t)
    <2>1. j = 1 /\ c = m BY <1>1, <1>8
    <2>2. c # 1 BY <1>2, <1>8, <2>1
    <2>3. m + 2 \in (j + 1)..(k - 1) BY <1>1, <1>8, <2>1, <2>2
    <2>4. 1 \in 1..m /\ m + 1 + 1 = m + 2 BY <1>1, <1>8, <2>1
    <2>5. Leaves(td[m + 1 + 1], plan[b + 1]) BY <2>4 DEF MakesRoom, Moves
    <2> QED BY <1>8, <2>1, <2>3, <2>4, <2>5
  <1>9. CASE j \in 1..m /\ x = n + j /\ t = plan[b + j]
    <2>1. ~(k \in 1..m /\ x = n + k) BY <1>1, <1>3, <1>9
    <2>2. ~(k = m + 1 /\ x = b + 1) BY <1>1, <1>3, <1>9
    <2> QED BY <1>6, <1>8, <1>9, <2>1, <2>2
  <1>10. CASE j = m + 1 /\ x = b + 1
    <2>1. ~(k \in 1..m) /\ k # m + 1 BY <1>1, <1>3, <1>10
    <2>2. \A c \in 1..m : x # b + c + 1 BY <1>1, <1>10
    <2> QED BY <1>6, <2>1, <2>2
  <1>11. ASSUME NEW c \in 1..m, j = m + 1 + c, x = b + c + 1 PROVE FALSE
    <2>1. ~(k \in 1..m) /\ k # m + 1 BY <1>1, <1>3, <1>11
    <2>2. PICK e \in 1..m : k = m + 1 + e /\ x = b + e + 1 BY <1>6, <2>1
    <2> QED BY <1>1, <1>3, <1>11, <2>2
  <1> QED BY <1>7, <1>9, <1>10, <1>11

LEMMA RoomLeaves ==
  ASSUME NEW n, NEW m, NEW b, NEW td, NEW new, NEW pl, MakesRoom(td, n, m, b, new, pl),
         NEW k \in DOMAIN td, NEW u, Leaves(td[k], u)
  PROVE  \E c \in 1..m : u = plan[b + c] /\ (k = c \/ k = m + 1 + c)
PROOF
  <1>1. CASE k \in 1..m BY <1>1 DEF MakesRoom, Moves
  <1>2. CASE k = m + 1 BY <1>2 DEF MakesRoom, Adds
  <1>3. ASSUME NEW c \in 1..m, k = m + 1 + c PROVE u = plan[b + c]
    <2>1. Moves(td[k], plan[b + c], b + c + 1) BY <1>3 DEF MakesRoom
    <2> QED BY <2>1 DEF Moves
  <1>4. CASE k \in (m + 1 + m + 1)..Len(td) BY <1>4 DEF MakesRoom, Stays
  <1> QED BY <1>1, <1>2, <1>3, <1>4, RoomPlaces

LEMMA RoomLanding ==
  ASSUME NEW n, LaidOut(n), NEW m, NEW b, NEW td, NEW new, NEW pl, MakesRoom(td, n, m, b, new, pl)
  PROVE  LandingOn(td, pl)
PROOF
  <1>1. n \in Nat /\ b \in 0..n /\ m \in Nat /\ m = n - b /\ DOMAIN pl = 1..(n + 1) BY DEF MakesRoom
  <1>2. \A c \in 1..m : b + c \in 1..n /\ plan[b + c] \in Live /\ Index(plan[b + c]) = b + c
    <2> TAKE c \in 1..m
    <2>1. b + c \in 1..n BY <1>1
    <2> QED BY <2>1 DEF LaidOut
  <1>3. \A i \in 1..(n + 1) : pl[i] = IF i <= b THEN plan[i] ELSE IF i = b + 1 THEN new ELSE plan[i - 1] BY DEF MakesRoom
  <1>4. \A i \in 1..(n + 1) : i <= b => pl[i] = plan[i] /\ pl[i] \in Live /\ Index(pl[i]) = i
    <2> TAKE i \in 1..(n + 1)
    <2> HAVE i <= b
    <2>1. i \in 1..n BY <1>1
    <2> QED BY <1>3, <2>1 DEF LaidOut
  <1>5. \A i \in 1..(n + 1) : i > b + 1 => pl[i] = plan[i - 1] /\ pl[i] \in Live /\ Index(pl[i]) = i - 1
    <2> TAKE i \in 1..(n + 1)
    <2> HAVE i > b + 1
    <2>1. i - 1 \in 1..n /\ ~(i <= b) /\ i # b + 1 BY <1>1
    <2> QED BY <1>3, <2>1 DEF LaidOut
  <1>6. new \notin Live /\ pl[b + 1] = new
    <2>1. b + 1 \in 1..(n + 1) /\ ~(b + 1 <= b) BY <1>1
    <2> QED BY <1>3, <2>1 DEF MakesRoom
  <1>7. ASSUME NEW i \in 1..(n + 1) PROVE Lands(td, pl[i], i)
    <2>1. CASE i <= b
      <3>1. ASSUME NEW k \in DOMAIN td, Leaves(td[k], pl[i]) PROVE FALSE
        <4>1. PICK c \in 1..m : pl[i] = plan[b + c] BY <3>1, RoomLeaves
        <4>2. i = b + c BY <1>2, <1>4, <2>1, <4>1
        <4> QED BY <1>1, <2>1, <4>2
      <3> QED BY <1>4, <2>1, <3>1 DEF Lands
    <2>2. CASE i = b + 1
      <3>1. \A k \in DOMAIN td : ~Leaves(td[k], new) BY <1>2, <1>6, RoomLeaves
      <3>2. m + 1 \in DOMAIN td /\ \A l \in (m + 1 + 1)..Len(td) : l \in DOMAIN td BY <1>1 DEF MakesRoom
      <3>3. Puts(td[m + 1], new) /\ td[m + 1].row.index = i BY <2>2 DEF MakesRoom, Adds
      <3> QED BY <1>6, <2>2, <3>1, <3>2, <3>3 DEF Lands
    <2>3. CASE i > b + 1
      <3>1. PICK c : c = i - 1 - b OBVIOUS
      <3>2. c \in 1..m /\ b + c = i - 1 /\ b + c + 1 = i BY <1>1, <2>3, <3>1
      <3>3. PICK h : h = m + 1 + c OBVIOUS
      <3>4. h \in DOMAIN td /\ \A l \in (h + 1)..Len(td) : l \in DOMAIN td BY <1>1, <3>2, <3>3 DEF MakesRoom
      <3>5. Moves(td[h], plan[b + c], b + c + 1) BY <3>2, <3>3 DEF MakesRoom
      <3>6. pl[i] = plan[b + c] BY <1>5, <2>3, <3>2
      <3>7. ASSUME NEW l \in (h + 1)..Len(td), Leaves(td[l], pl[i]) PROVE FALSE
        <4>1. PICK e \in 1..m : pl[i] = plan[b + e] /\ (l = e \/ l = m + 1 + e) BY <3>4, <3>7, RoomLeaves
        <4>2. b + e = b + c BY <1>2, <3>2, <3>6, <4>1
        <4> QED BY <1>1, <3>2, <3>3, <4>1, <4>2
      <3> QED BY <3>2, <3>4, <3>5, <3>6, <3>7 DEF Lands, Moves
    <2> QED BY <1>1, <2>1, <2>2, <2>3
  <1>8. ASSUME NEW s \in Live PROVE \E i \in DOMAIN pl : pl[i] = s
    <2>1. PICK i : i = Index(s) OBVIOUS
    <2>2. i \in 1..n /\ plan[i] = s BY <2>1 DEF LaidOut
    <2>3. CASE i <= b
      <3>1. i \in 1..(n + 1) BY <1>1, <2>2
      <3> QED BY <1>1, <1>4, <2>2, <2>3, <3>1
    <2>4. CASE i > b
      <3>1. i + 1 \in 1..(n + 1) /\ i + 1 > b + 1 /\ (i + 1) - 1 = i BY <1>1, <2>2, <2>4
      <3>2. pl[i + 1] = s BY <1>5, <2>2, <3>1
      <3> QED BY <1>1, <3>1, <3>2
    <2> QED BY <1>1, <2>2, <2>3, <2>4
  <1>9. ASSUME NEW i \in 1..(n + 1), NEW j \in 1..(n + 1), pl[i] = pl[j] PROVE i = j
    <2>1. CASE i = b + 1 \/ j = b + 1
      <3>1. pl[i] \notin Live BY <1>6, <1>9, <2>1
      <3>2. i <= b \/ i = b + 1 \/ i > b + 1 BY <1>1
      <3>3. j <= b \/ j = b + 1 \/ j > b + 1 BY <1>1
      <3> QED BY <1>4, <1>5, <1>9, <3>1, <3>2, <3>3
    <2>2. CASE i # b + 1 /\ j # b + 1
      <3>1. i <= b \/ i > b + 1 BY <1>1, <2>2
      <3>2. j <= b \/ j > b + 1 BY <1>1, <2>2
      <3>3. CASE i <= b /\ j <= b BY <1>4, <1>9, <3>3
      <3>4. CASE i <= b /\ j > b + 1
        <4>1. i = j - 1 BY <1>4, <1>5, <1>9, <3>4
        <4> QED BY <1>1, <3>4, <4>1
      <3>5. CASE i > b + 1 /\ j <= b
        <4>1. j = i - 1 BY <1>4, <1>5, <1>9, <3>5
        <4> QED BY <1>1, <3>5, <4>1
      <3>6. CASE i > b + 1 /\ j > b + 1
        <4>1. i - 1 = j - 1 BY <1>5, <1>9, <3>6
        <4> QED BY <4>1
      <3> QED BY <3>1, <3>2, <3>3, <3>4, <3>5, <3>6
    <2> QED BY <2>1, <2>2
  <1> QED BY <1>1, <1>7, <1>8, <1>9 DEF LandingOn

\* What CreatePlanStepDraft writes makes room for the new step.
LEMMA CreatedMakesRoom ==
  ASSUME Base, NEW n, LaidOut(n), NEW p \in Requests, NEW at \in Nat \ {0}, NEW tool, NEW deps, NEW td,
         Created(p, at, tool, deps, td), NEW pl, pl = plan', NEW b, b = at - 1, NEW m, m = n - b, NEW new, new = made + 1
  PROVE  /\ MakesRoom(td, n, m, b, new, pl) /\ new \in Steps
         /\ SetsDeps(td[m + 1], new) /\ td[m + 1].row.deps = NewDeps(deps, UpFrom(at))
         /\ \A k \in 1..(m + 1 + m) : \A s \in Live : ~SetsDeps(td[k], s)
         /\ \A k \in 1..(m + 1 + m) : SetsDeps(td[k], new) => k = m + 1
         /\ Rewrites(td, m + 1 + m, Live, UpFrom(at))
PROOF
  <1>1. n \in Nat /\ n = Len(plan) /\ DOMAIN plan = 1..n BY DEF LaidOut
  <1>2. at \in 1..(n + 1)
    <2>1. CASE Live = {} /\ at = 1 BY <1>1, <2>1
    <2>2. CASE \E anchor \in Live : at = Index(anchor) + 1 BY <1>1, <2>2 DEF LaidOut
    <2> QED BY <2>1, <2>2 DEF Created
  <1>3. b \in 0..n /\ m \in Nat /\ m = n - b /\ at = b + 1 BY <1>1, <1>2
  <1>4. Moved(at) = {s \in Live : Index(s) > b}
    <2>1. \A s \in Live : Index(s) >= at <=> Index(s) > b
      <3> TAKE s \in Live
      <3>1. Index(s) \in Nat BY <1>1 DEF LaidOut
      <3> QED BY <1>3, <3>1
    <2> QED BY <2>1 DEF Moved
  <1>5. PICK list : list = InOrder(Moved(at)) OBVIOUS
  <1>6. Len(list) = m /\ \A k \in 1..m : list[k] = plan[b + k] BY <1>3, <1>4, <1>5, SegmentIs
  <1>7. \A k \in 1..m : plan[b + k] \in Live /\ Index(plan[b + k]) = b + k
    <2> TAKE k \in 1..m
    <2>1. b + k \in 1..n BY <1>1, <1>3
    <2> QED BY <2>1 DEF LaidOut
  <1>8. /\ td \in Seq(PlainStatements) /\ Len(td) >= m + 1 + m
        /\ \A k \in 1..m : Moving(td[k], list[k], MaxIndex + k)
        /\ Inserting(td[m + 1], new, at, tool, NewDeps(deps, UpFrom(at)))
        /\ \A k \in 1..m : Moving(td[m + 1 + k], list[k], Index(list[k]) + 1)
        /\ Rewrites(td, m + 1 + m, Live, UpFrom(at))
    BY <1>5, <1>6 DEF Created, CreateLayout
  <1>9. DOMAIN td = 1..Len(td) /\ Len(td) \in Nat BY <1>8, DomainOf
  <1>10. MaxIndex = n BY DEF LaidOut
  <1>11. \A k \in 1..m : Moves(td[k], plan[b + k], n + k) /\ \A t : ~SetsDeps(td[k], t)
    <2> TAKE k \in 1..m
    <2>1. Moving(td[k], plan[b + k], n + k) BY <1>6, <1>8, <1>10
    <2> QED BY <2>1, MovingIs DEF Moves
  <1>12. \A k \in 1..m : Moves(td[m + 1 + k], plan[b + k], b + k + 1) /\ \A t : ~SetsDeps(td[m + 1 + k], t)
    <2> TAKE k \in 1..m
    <2>1. Moving(td[m + 1 + k], plan[b + k], b + k + 1) BY <1>6, <1>7, <1>8
    <2> QED BY <2>1, MovingIs DEF Moves
  <1>13. /\ Adds(td[m + 1], new, b + 1) /\ SetsDeps(td[m + 1], new) /\ td[m + 1].row.deps = NewDeps(deps, UpFrom(at))
         /\ \A t : SetsDeps(td[m + 1], t) => t = new
    BY <1>3, <1>8, InsertingIs DEF Adds
  <1>14. \A k \in (m + 1 + m + 1)..Len(td) : Stays(td[k]) BY <1>8, RewritesStay DEF Stays
  <1>15. new \notin Live
    <2>1. \A s \in Live : s <= made /\ s \in Nat BY StepLive, StepsFinite DEF Base, Fresh
    <2>2. made \in Nat BY PlanType
    <2> QED BY <2>1, <2>2
  <1>16. new \in Steps BY DEF Created
  <1>17. DOMAIN pl = 1..(n + 1) /\ \A k \in 1..(n + 1) : pl[k] = IF k <= b THEN plan[k] ELSE IF k = b + 1 THEN new ELSE plan[k - 1]
    <2>1. at <= n + 1 BY <1>1, <1>2
    <2>2. pl = With(new, at) BY <1>1, <2>1 DEF Created
    <2>3. at \in 1..(Len(plan) + 1) BY <1>1, <1>2
    <2>4. DOMAIN pl = 1..(n + 1) /\ \A k \in 1..(n + 1) : pl[k] = IF k < at THEN plan[k] ELSE IF k = at THEN new ELSE plan[k - 1]
      BY <1>1, <1>16, <2>2, <2>3, WithFacts
    <2>5. \A k \in 1..(n + 1) : k < at <=> k <= b BY <1>1, <1>3
    <2> QED BY <1>3, <2>4, <2>5
  <1>18. MakesRoom(td, n, m, b, new, pl)
    BY <1>1, <1>3, <1>8, <1>9, <1>11, <1>12, <1>13, <1>14, <1>15, <1>17 DEF MakesRoom
  <1>19. \A k \in 1..(m + 1 + m) : \A s : SetsDeps(td[k], s) => k = m + 1 /\ s = new
    <2> TAKE k \in 1..(m + 1 + m)
    <2>1. k \in DOMAIN td BY <1>3, <1>8, <1>9
    <2>2. k \in 1..m \/ k = m + 1 \/ \E c \in 1..m : k = m + 1 + c
      <3>1. k \notin (m + 1 + m + 1)..Len(td) BY <1>3, <1>9
      <3> QED BY <1>18, <2>1, <3>1, RoomPlaces
    <2> QED BY <1>11, <1>12, <1>13, <2>2
  <1> QED BY <1>8, <1>13, <1>15, <1>16, <1>18, <1>19

\* What a step becomes the index of, when others make room.
LEMMA RoomNames ==
  ASSUME NEW n, LaidOut(n), NEW m, NEW b, NEW td, NEW new, NEW pl, MakesRoom(td, n, m, b, new, pl),
         NEW at, at = b + 1, NEW to, to = UpFrom(at), NEW d \in 1..n
  PROVE  to[d] \in DOMAIN pl /\ pl[to[d]] = plan[d]
PROOF
  <1>1. n \in Nat /\ b \in 0..n /\ DOMAIN pl = 1..(n + 1) BY DEF MakesRoom
  <1>2. plan[d] \in Live /\ Index(plan[d]) = d BY DEF LaidOut
  <1>3. d \in Nat /\ to[d] = IF \E s \in Moved(at) : Index(s) = d THEN d + 1 ELSE d BY DEF UpFrom
  <1>4. CASE d >= at
    <2>1. to[d] = d + 1 BY <1>2, <1>3, <1>4 DEF Moved
    <2>2. d + 1 \in 1..(n + 1) /\ ~(d + 1 <= b) /\ d + 1 # b + 1 /\ (d + 1) - 1 = d BY <1>1, <1>4
    <2>3. pl[d + 1] = plan[d] BY <2>2 DEF MakesRoom
    <2> QED BY <1>1, <2>1, <2>2, <2>3
  <1>5. CASE ~(d >= at)
    <2>1. to[d] = d BY <1>2, <1>3, <1>5 DEF Moved
    <2>2. d \in 1..(n + 1) /\ d <= b BY <1>1, <1>5
    <2>3. pl[d] = plan[d] BY <2>2 DEF MakesRoom
    <2> QED BY <1>1, <2>1, <2>2, <2>3
  <1> QED BY <1>4, <1>5

\* Dependencies named by the new indices are the same steps.
LEMMA Renamed ==
  ASSUME NEW n, LaidOut(n), NEW pl, NEW to, NEW deps \in SUBSET (1..n),
         \A d \in deps : to[d] \in DOMAIN pl /\ pl[to[d]] = plan[d], NEW nd, NEW s, nd[s] = ById(deps)
  PROVE  RightIn(pl, nd, s, NewDeps(deps, to))
PROOF
  <1>1. ById(deps) = {plan[d] : d \in deps} BY ByIdIs
  <1>2. {pl[d] : d \in {to[i] : i \in deps}} = {plan[d] : d \in deps} OBVIOUS
  <1>3. {to[i] : i \in deps} \subseteq DOMAIN pl OBVIOUS
  <1> QED BY <1>1, <1>2, <1>3 DEF RightIn, NewDeps

LEMMA CreateFits ==
  ASSUME Base, NEW n, LaidOut(n), NEW p \in Requests, NEW at \in Nat \ {0}, NEW tool, NEW deps, NEW td,
         Created(p, at, tool, deps, td)
  PROVE  Fits(td)'
PROOF
  <1>1. PICK pl : pl = plan' OBVIOUS
  <1>2. PICK nd : nd = needs' OBVIOUS
  <1>3. PICK b : b = at - 1 OBVIOUS
  <1>4. PICK m : m = n - b OBVIOUS
  <1>5. PICK new : new = made + 1 OBVIOUS
  <1>6. PICK to : to = UpFrom(at) OBVIOUS
  <1>7. /\ MakesRoom(td, n, m, b, new, pl) /\ new \in Steps
        /\ SetsDeps(td[m + 1], new) /\ td[m + 1].row.deps = NewDeps(deps, to)
        /\ \A k \in 1..(m + 1 + m) : \A s \in Live : ~SetsDeps(td[k], s)
        /\ \A k \in 1..(m + 1 + m) : SetsDeps(td[k], new) => k = m + 1
        /\ Rewrites(td, m + 1 + m, Live, to)
    BY <1>1, <1>3, <1>4, <1>5, <1>6, CreatedMakesRoom
  <1>8. /\ n \in Nat /\ b \in 0..n /\ m \in Nat /\ DOMAIN td = 1..Len(td) /\ Len(td) \in Nat /\ m + 1 + m <= Len(td)
        /\ DOMAIN pl = 1..(n + 1) /\ new \notin Live
    BY <1>7 DEF MakesRoom
  <1>9. at = b + 1 BY <1>3
  <1>10. \A d \in 1..n : to[d] \in DOMAIN pl /\ pl[to[d]] = plan[d] BY <1>6, <1>7, <1>9, RoomNames
  <1>11. needs \in [Steps -> SUBSET Steps] BY DEF Base, TypeOK
  <1>12. nd[new] = ById(deps) /\ \A s \in Live : nd[s] = needs[s]
    <2>1. nd = [needs EXCEPT ![new] = ById(deps)] BY <1>2, <1>5 DEF Created
    <2>2. \A s \in Live : s \in Steps /\ s # new BY <1>8, StepLive
    <2> QED BY <1>7, <1>11, <2>1, <2>2
  <1>13. deps \in SUBSET (1..n) BY DEF Created, LaidOut
  <1>14. RightIn(pl, nd, new, NewDeps(deps, to)) BY <1>10, <1>12, <1>13, Renamed
  <1>15. \A s \in Live :
           /\ \A k \in DOMAIN td : SetsDeps(td[k], s) => RightIn(pl, nd, s, td[k].row.deps)
           /\ (\A k \in DOMAIN td : ~SetsDeps(td[k], s)) => RightIn(pl, nd, s, steps[s].deps)
    <2>1. m + 1 + m \in Nat BY <1>8
    <2>2. \A s \in Live : \A d \in steps[s].deps : to[d] \in DOMAIN pl /\ pl[to[d]] = plan[d]
      <3>1. \A s \in Live : steps[s].deps \subseteq 1..n BY DEF LaidOut, RightIn
      <3> QED BY <1>10, <3>1
    <2>3. Live \in SUBSET Live OBVIOUS
    <2>4. PICK from : from = m + 1 + m OBVIOUS
    <2>5. from \in Nat /\ from <= Len(td) /\ Rewrites(td, from, Live, to) BY <1>7, <1>8, <2>1, <2>4
    <2>6. \A k \in 1..from : \A s \in Live : ~SetsDeps(td[k], s) BY <1>7, <2>4
    <2> QED BY <1>8, <1>12, <2>2, <2>3, <2>5, <2>6, RewritesDepend
  <1>16. /\ \A k \in DOMAIN td : SetsDeps(td[k], new) => RightIn(pl, nd, new, td[k].row.deps)
         /\ ~\A k \in DOMAIN td : ~SetsDeps(td[k], new)
    <2>1. m + 1 \in DOMAIN td BY <1>8
    <2>2. ASSUME NEW k \in DOMAIN td, SetsDeps(td[k], new) PROVE k = m + 1
      <3>1. k \in 1..(m + 1 + m) \/ k \in (m + 1 + m + 1)..Len(td) BY <1>8
      <3>2. CASE k \in (m + 1 + m + 1)..Len(td)
        <4>1. td[k].step \in Live BY <1>7, <3>2, RewritesStay
        <4> QED BY <1>8, <2>2, <4>1 DEF SetsDeps
      <3> QED BY <1>7, <2>2, <3>1, <3>2
    <2> QED BY <1>7, <1>14, <2>1, <2>2
  <1>17. DependingOn(td, pl, nd)
    <2>1. \A i \in DOMAIN pl : pl[i] \in Live \/ pl[i] = new
      <3> TAKE i \in DOMAIN pl
      <3>1. i \in 1..(n + 1) /\ pl[i] = IF i <= b THEN plan[i] ELSE IF i = b + 1 THEN new ELSE plan[i - 1]
        BY <1>7, <1>8 DEF MakesRoom
      <3>2. i <= b => i \in 1..n BY <1>8, <3>1
      <3>3. i > b + 1 => i - 1 \in 1..n BY <1>8, <3>1
      <3>4. i <= b \/ i = b + 1 \/ i > b + 1 BY <1>8, <3>1
      <3>5. i > b + 1 => ~(i <= b) /\ i # b + 1 BY <1>8, <3>1
      <3> QED BY <3>1, <3>2, <3>3, <3>4, <3>5 DEF LaidOut
    <2> QED BY <1>15, <1>16, <2>1 DEF DependingOn
  <1>18. AppliesTo(td, pl) /\ FreeNow(td) /\ FreeLater(td) /\ LandingOn(td, pl)
    BY <1>7, RoomApplies, RoomFreeNow, RoomFreeLater, RoomLanding
  <1>19. steps' = steps BY DEF Created, Edits
  <1> QED BY <1>1, <1>2, <1>17, <1>18, <1>19, FitsNext

-----------------------------------------------------------------------------
(* MovePlanStep: two steps change places                                    *)

\* s leaves its place a for the buffer, t takes it, s takes the place c of t.
ChangesPlaces(td, n, s, a, t, c, pl) ==
  /\ s \in Live /\ t \in Live /\ s # t /\ s \in Steps /\ t \in Steps
  /\ a \in 1..n /\ c \in 1..n /\ a # c /\ plan[a] = s /\ plan[c] = t /\ Index(s) = a /\ Index(t) = c
  /\ DOMAIN td = 1..Len(td) /\ Len(td) \in Nat /\ Len(td) >= 3
  /\ Moves(td[1], s, n + 1) /\ Moves(td[2], t, a) /\ Moves(td[3], s, c)
  /\ \A k \in 4..Len(td) : Stays(td[k])
  /\ DOMAIN pl = 1..n
  /\ \A k \in 1..n : pl[k] = IF k = a THEN t ELSE IF k = c THEN s ELSE plan[k]

LEMMA PlacesOfSwap ==
  ASSUME NEW n, NEW s, NEW a, NEW t, NEW c, NEW td, NEW pl, ChangesPlaces(td, n, s, a, t, c, pl), NEW k \in DOMAIN td
  PROVE  k = 1 \/ k = 2 \/ k = 3 \/ k \in 4..Len(td)
PROOF BY DEF ChangesPlaces

LEMMA SwapApplies ==
  ASSUME NEW n, LaidOut(n), NEW s, NEW a, NEW t, NEW c, NEW td, NEW pl, ChangesPlaces(td, n, s, a, t, c, pl)
  PROVE  AppliesTo(td, pl)
PROOF
  <1>1. ASSUME NEW u \in Live PROVE \E i \in DOMAIN pl : pl[i] = u
    <2>1. PICK i : i = Index(u) OBVIOUS
    <2>2. i \in 1..n /\ plan[i] = u BY <2>1 DEF LaidOut
    <2>3. CASE i = a
      <3>1. pl[c] = u BY <2>2, <2>3 DEF ChangesPlaces
      <3> QED BY <3>1 DEF ChangesPlaces
    <2>4. CASE i = c
      <3>1. pl[a] = u BY <2>2, <2>4 DEF ChangesPlaces
      <3> QED BY <3>1 DEF ChangesPlaces
    <2>5. CASE i # a /\ i # c BY <2>2, <2>5 DEF ChangesPlaces
    <2> QED BY <2>3, <2>4, <2>5
  <1>2. \A k \in DOMAIN td : td[k].kind = "set" /\ td[k].step \in Live BY PlacesOfSwap DEF ChangesPlaces, Moves, Stays
  <1> QED BY <1>1, <1>2 DEF AppliesTo

LEMMA SwapFree ==
  ASSUME NEW n, LaidOut(n), NEW s, NEW a, NEW t, NEW c, NEW td, NEW pl, ChangesPlaces(td, n, s, a, t, c, pl)
  PROVE  FreeNow(td) /\ FreeLater(td)
PROOF
  <1>1. n \in Nat /\ a \in 1..n /\ c \in 1..n /\ a # c BY DEF ChangesPlaces, LaidOut
  <1>2. /\ td[1].row.index = n + 1 /\ \A u : (Puts(td[1], u) <=> u = s) /\ (Leaves(td[1], u) <=> u = s)
        /\ td[2].row.index = a /\ \A u : (Puts(td[2], u) <=> u = t) /\ (Leaves(td[2], u) <=> u = t)
        /\ td[3].row.index = c /\ \A u : (Puts(td[3], u) <=> u = s) /\ (Leaves(td[3], u) <=> u = s)
        /\ \A k \in 4..Len(td) : \A u : ~Puts(td[k], u)
    BY DEF ChangesPlaces, Moves, Stays
  <1>3. \A u \in Live : Index(u) \in 1..n /\ plan[Index(u)] = u BY DEF LaidOut
  <1>4. plan[a] = s /\ plan[c] = t BY DEF ChangesPlaces
  <1>5. ASSUME NEW k \in DOMAIN td, NEW u \in Steps, NEW v \in Steps, Puts(td[k], u), v \in Live \ {u}, Index(v) = td[k].row.index
        PROVE  \E j \in 1..(k - 1) : Leaves(td[j], v)
    <2>1. CASE k = 1 BY <1>1, <1>2, <1>3, <1>5, <2>1
    <2>2. CASE k = 2
      <3>1. v = s BY <1>2, <1>3, <1>4, <1>5, <2>2
      <3>2. 1 \in 1..(k - 1) BY <2>2
      <3> QED BY <1>2, <3>1, <3>2
    <2>3. CASE k = 3
      <3>1. v = t BY <1>2, <1>3, <1>4, <1>5, <2>3
      <3>2. 2 \in 1..(k - 1) BY <2>3
      <3> QED BY <1>2, <3>1, <3>2
    <2>4. CASE k \in 4..Len(td) BY <1>2, <1>5, <2>4
    <2> QED BY <2>1, <2>2, <2>3, <2>4, PlacesOfSwap
  <1>6. ASSUME NEW k \in DOMAIN td, NEW j \in 1..(k - 1), NEW u \in Steps, NEW v \in Steps,
               Puts(td[k], u), Puts(td[j], v), u # v, td[k].row.index = td[j].row.index
        PROVE  FALSE
    <2>1. k \in 1..3
      <3>1. k \notin 4..Len(td) BY <1>2, <1>6
      <3> QED BY <3>1, PlacesOfSwap
    <2>2. (k = 2 /\ j = 1) \/ (k = 3 /\ j = 1) \/ (k = 3 /\ j = 2) BY <2>1
    <2> QED BY <1>1, <1>2, <1>6, <2>2
  <1> QED BY <1>5, <1>6 DEF FreeNow, FreeLater

LEMMA SwapLanding ==
  ASSUME NEW n, LaidOut(n), NEW s, NEW a, NEW t, NEW c, NEW td, NEW pl, ChangesPlaces(td, n, s, a, t, c, pl)
  PROVE  LandingOn(td, pl)
PROOF
  <1>1. /\ n \in Nat /\ a \in 1..n /\ c \in 1..n /\ a # c /\ plan[a] = s /\ plan[c] = t /\ s # t
        /\ DOMAIN pl = 1..n /\ \A k \in 1..n : pl[k] = IF k = a THEN t ELSE IF k = c THEN s ELSE plan[k]
        /\ DOMAIN td = 1..Len(td) /\ Len(td) \in Nat /\ Len(td) >= 3
    BY DEF ChangesPlaces, LaidOut
  <1>2. /\ td[1].row.index = n + 1 /\ \A u : (Puts(td[1], u) <=> u = s) /\ (Leaves(td[1], u) <=> u = s)
        /\ td[2].row.index = a /\ \A u : (Puts(td[2], u) <=> u = t) /\ (Leaves(td[2], u) <=> u = t)
        /\ td[3].row.index = c /\ \A u : (Puts(td[3], u) <=> u = s) /\ (Leaves(td[3], u) <=> u = s)
        /\ \A k \in 4..Len(td) : \A u : ~Leaves(td[k], u)
    BY DEF ChangesPlaces, Moves, Stays
  <1>3. \A i, j \in 1..n : plan[i] = plan[j] => i = j BY DEF LaidOut
  <1>4. ASSUME NEW i \in 1..n PROVE Lands(td, pl[i], i)
    <2>1. CASE i = a
      <3>1. pl[i] = t BY <1>1, <2>1
      <3>2. \A l \in (2 + 1)..Len(td) : ~Leaves(td[l], t)
        <4> TAKE l \in (2 + 1)..Len(td)
        <4>1. l = 3 \/ l \in 4..Len(td) BY <1>1
        <4> QED BY <1>1, <1>2, <4>1
      <3>3. 2 \in DOMAIN td BY <1>1
      <3> QED BY <1>2, <2>1, <3>1, <3>2, <3>3 DEF Lands
    <2>2. CASE i = c
      <3>1. pl[i] = s BY <1>1, <2>2
      <3>2. 3 \in DOMAIN td /\ 3 + 1 = 4 BY <1>1
      <3> QED BY <1>2, <2>2, <3>1, <3>2 DEF Lands
    <2>3. CASE i # a /\ i # c
      <3>1. pl[i] = plan[i] BY <1>1, <2>3
      <3>2. plan[i] # s /\ plan[i] # t BY <1>1, <1>3, <2>3
      <3>3. \A k \in DOMAIN td : ~Leaves(td[k], plan[i]) BY <1>2, <3>2, PlacesOfSwap
      <3> QED BY <3>1, <3>3 DEF Lands, LaidOut
    <2> QED BY <2>1, <2>2, <2>3
  <1>5. ASSUME NEW u \in Live PROVE \E i \in DOMAIN pl : pl[i] = u
    <2>1. PICK i : i = Index(u) OBVIOUS
    <2>2. i \in 1..n /\ plan[i] = u BY <2>1 DEF LaidOut
    <2> QED BY <1>1, <2>2
  <1>6. ASSUME NEW i \in 1..n, NEW j \in 1..n, pl[i] = pl[j] PROVE i = j
    <2>1. pl[i] = IF i = a THEN plan[c] ELSE IF i = c THEN plan[a] ELSE plan[i] BY <1>1
    <2>2. pl[j] = IF j = a THEN plan[c] ELSE IF j = c THEN plan[a] ELSE plan[j] BY <1>1
    <2> QED BY <1>1, <1>3, <1>6, <2>1, <2>2
  <1> QED BY <1>1, <1>4, <1>5, <1>6 DEF LandingOn

LEMMA MoveFits ==
  ASSUME Base, NEW n, LaidOut(n), NEW p \in Requests, NEW s, NEW t, NEW td, Swapped(p, s, t, td)
  PROVE  Fits(td)'
PROOF
  <1>1. PICK pl : pl = plan' OBVIOUS
  <1>2. PICK nd : nd = needs' OBVIOUS
  <1>3. PICK a : a = Index(s) OBVIOUS
  <1>4. PICK c : c = Index(t) OBVIOUS
  <1>5. PICK to : to = Swap(s, t) OBVIOUS
  <1>6. /\ s \in Live /\ t \in Live /\ s # t /\ nd = needs /\ steps' = steps
        /\ pl = [k \in DOMAIN plan |-> IF plan[k] = s THEN t ELSE IF plan[k] = t THEN s ELSE plan[k]]
        /\ td \in Seq(PlainStatements) /\ Len(td) >= 3
        /\ Moving(td[1], s, MaxIndex + 1) /\ Moving(td[2], t, a) /\ Moving(td[3], s, c)
        /\ Rewrites(td, 3, Live, to)
    BY <1>1, <1>2, <1>3, <1>4, <1>5 DEF Swapped, MoveLayout, Edits
  <1>7. n \in Nat /\ DOMAIN plan = 1..n /\ a \in 1..n /\ c \in 1..n /\ plan[a] = s /\ plan[c] = t /\ a # c /\ MaxIndex = n
    BY <1>3, <1>4, <1>6 DEF LaidOut
  <1>8. DOMAIN td = 1..Len(td) /\ Len(td) \in Nat BY <1>6, DomainOf
  <1>9. \A k \in 1..n : (plan[k] = s <=> k = a) /\ (plan[k] = t <=> k = c) BY <1>7 DEF LaidOut
  <1>10. DOMAIN pl = 1..n /\ \A k \in 1..n : pl[k] = IF k = a THEN t ELSE IF k = c THEN s ELSE plan[k] BY <1>6, <1>7, <1>9
  <1>11. /\ Moves(td[1], s, n + 1) /\ Moves(td[2], t, a) /\ Moves(td[3], s, c)
         /\ \A u : ~SetsDeps(td[1], u) /\ ~SetsDeps(td[2], u) /\ ~SetsDeps(td[3], u)
    BY <1>6, <1>7, MovingIs DEF Moves
  <1>12. \A k \in 4..Len(td) : Stays(td[k])
    <2>1. \A k \in (3 + 1)..Len(td) : Stays(td[k]) BY <1>6, RewritesStay DEF Stays
    <2> QED BY <2>1
  <1>13. s \in Steps /\ t \in Steps BY <1>6, StepLive
  <1>14. ChangesPlaces(td, n, s, a, t, c, pl)
    BY <1>3, <1>4, <1>6, <1>7, <1>8, <1>10, <1>11, <1>12, <1>13 DEF ChangesPlaces
  <1>15. \A d \in 1..n : to[d] \in DOMAIN pl /\ pl[to[d]] = plan[d]
    <2> TAKE d \in 1..n
    <2>1. to[d] = IF d = a THEN c ELSE IF d = c THEN a ELSE d BY <1>3, <1>4, <1>5 DEF Swap
    <2> QED BY <1>7, <1>10, <2>1
  <1>16. \A u \in Live :
           /\ \A k \in DOMAIN td : SetsDeps(td[k], u) => RightIn(pl, nd, u, td[k].row.deps)
           /\ (\A k \in DOMAIN td : ~SetsDeps(td[k], u)) => RightIn(pl, nd, u, steps[u].deps)
    <2>1. \A u \in Live : \A d \in steps[u].deps : to[d] \in DOMAIN pl /\ pl[to[d]] = plan[d]
      <3>1. \A u \in Live : steps[u].deps \subseteq 1..n BY <1>7 DEF LaidOut, RightIn
      <3> QED BY <1>15, <3>1
    <2>2. Live \in SUBSET Live /\ 3 \in Nat /\ 3 <= Len(td) BY <1>6
    <2>3. \A u \in Live : nd[u] = needs[u] BY <1>6
    <2>4. \A k \in 1..3 : \A u \in Live : ~SetsDeps(td[k], u)
      <3>1. \A k \in 1..3 : k = 1 \/ k = 2 \/ k = 3 OBVIOUS
      <3> QED BY <1>11, <3>1
    <2>5. PICK from : from = 3 OBVIOUS
    <2>6. from \in Nat /\ from <= Len(td) /\ Rewrites(td, from, Live, to) BY <1>6, <1>8, <2>5
    <2>7. \A k \in 1..from : \A u \in Live : ~SetsDeps(td[k], u) BY <2>4, <2>5
    <2> QED BY <1>8, <2>1, <2>2, <2>3, <2>6, <2>7, RewritesDepend
  <1>17. DependingOn(td, pl, nd)
    <2>1. \A i \in DOMAIN pl : pl[i] \in Live BY <1>6, <1>10 DEF LaidOut
    <2> QED BY <1>16, <2>1 DEF DependingOn
  <1>18. AppliesTo(td, pl) /\ FreeNow(td) /\ FreeLater(td) /\ LandingOn(td, pl)
    BY <1>14, SwapApplies, SwapFree, SwapLanding
  <1> QED BY <1>1, <1>2, <1>6, <1>17, <1>18, FitsNext

-----------------------------------------------------------------------------
(* DeletePlanStepDraft: the steps after a place close the gap               *)

Removes(w, s) ==
  /\ w.kind = "delete" /\ w.step = s
  /\ \A t : ~Puts(w, t) /\ (Leaves(w, t) <=> t = s)

\* The step at a is deleted, the m steps after it leave for the buffer and come back one earlier.
ClosesGap(td, n, m, a, s, pl) ==
  /\ n \in Nat /\ a \in 1..n /\ m \in Nat /\ m = n - a
  /\ s \in Live /\ plan[a] = s /\ Index(s) = a
  /\ DOMAIN td = 1..Len(td) /\ Len(td) \in Nat /\ Len(td) >= 1 + m + m
  /\ Removes(td[1], s)
  /\ \A k \in 1..m : Moves(td[1 + k], plan[a + k], n + k)
  /\ \A k \in 1..m : Moves(td[1 + m + k], plan[a + k], a + k - 1)
  /\ \A k \in (1 + m + m + 1)..Len(td) : Stays(td[k]) /\ td[k].step # s
  /\ DOMAIN pl = 1..(n - 1)
  /\ \A k \in 1..(n - 1) : pl[k] = IF k < a THEN plan[k] ELSE plan[k + 1]

LEMMA GapPlaces ==
  ASSUME NEW n, NEW m, NEW a, NEW s, NEW td, NEW pl, ClosesGap(td, n, m, a, s, pl), NEW k \in DOMAIN td
  PROVE  \/ k = 1
         \/ \E c \in 1..m : k = 1 + c
         \/ \E c \in 1..m : k = 1 + m + c
         \/ k \in (1 + m + m + 1)..Len(td)
PROOF
  <1>1. m \in Nat /\ Len(td) \in Nat /\ k \in 1..Len(td) BY DEF ClosesGap
  <1>2. PICK c : c = k - 1 OBVIOUS
  <1>3. PICK e : e = k - (1 + m) OBVIOUS
  <1>4. k # 1 /\ k <= 1 + m => c \in 1..m /\ k = 1 + c BY <1>1, <1>2
  <1>5. k > 1 + m /\ k <= 1 + m + m => e \in 1..m /\ k = 1 + m + e BY <1>1, <1>3
  <1>6. k > 1 + m + m => k \in (1 + m + m + 1)..Len(td) BY <1>1
  <1>7. k <= 1 + m \/ (k > 1 + m /\ k <= 1 + m + m) \/ k > 1 + m + m BY <1>1
  <1> QED BY <1>4, <1>5, <1>6, <1>7

LEMMA GapLeaves ==
  ASSUME NEW n, NEW m, NEW a, NEW s, NEW td, NEW pl, ClosesGap(td, n, m, a, s, pl),
         NEW k \in DOMAIN td, NEW u, Leaves(td[k], u)
  PROVE  \/ k = 1 /\ u = s
         \/ \E c \in 1..m : u = plan[a + c] /\ (k = 1 + c \/ k = 1 + m + c)
PROOF
  <1>1. CASE k = 1 BY <1>1 DEF ClosesGap, Removes
  <1>2. ASSUME NEW c \in 1..m, k = 1 + c PROVE u = plan[a + c]
    <2>1. Moves(td[k], plan[a + c], n + c) BY <1>2 DEF ClosesGap
    <2> QED BY <2>1 DEF Moves
  <1>3. ASSUME NEW c \in 1..m, k = 1 + m + c PROVE u = plan[a + c]
    <2>1. Moves(td[k], plan[a + c], a + c - 1) BY <1>3 DEF ClosesGap
    <2> QED BY <2>1 DEF Moves
  <1>4. CASE k \in (1 + m + m + 1)..Len(td) BY <1>4 DEF ClosesGap, Stays
  <1> QED BY <1>1, <1>2, <1>3, <1>4, GapPlaces

LEMMA GapPuts ==
  ASSUME NEW n, NEW m, NEW a, NEW s, NEW td, NEW pl, ClosesGap(td, n, m, a, s, pl),
         NEW k \in DOMAIN td, NEW u, Puts(td[k], u)
  PROVE  \E c \in 1..m : /\ u = plan[a + c]
                         /\ \/ k = 1 + c /\ td[k].row.index = n + c
                            \/ k = 1 + m + c /\ td[k].row.index = a + c - 1
PROOF
  <1>1. k # 1 BY DEF ClosesGap, Removes
  <1>2. ASSUME NEW c \in 1..m, k = 1 + c PROVE u = plan[a + c] /\ td[k].row.index = n + c
    <2>1. Moves(td[k], plan[a + c], n + c) BY <1>2 DEF ClosesGap
    <2> QED BY <2>1 DEF Moves
  <1>3. ASSUME NEW c \in 1..m, k = 1 + m + c PROVE u = plan[a + c] /\ td[k].row.index = a + c - 1
    <2>1. Moves(td[k], plan[a + c], a + c - 1) BY <1>3 DEF ClosesGap
    <2> QED BY <2>1 DEF Moves
  <1>4. k \notin (1 + m + m + 1)..Len(td) BY DEF ClosesGap, Stays
  <1> QED BY <1>1, <1>2, <1>3, <1>4, GapPlaces

\* Where the steps other than s are.
LEMMA GapPlan ==
  ASSUME NEW n, LaidOut(n), NEW m, NEW a, NEW s, NEW td, NEW pl, ClosesGap(td, n, m, a, s, pl)
  PROVE  /\ \A i \in 1..(n - 1) : i < a => pl[i] = plan[i] /\ pl[i] \in Live /\ Index(pl[i]) = i
         /\ \A i \in 1..(n - 1) : i >= a => pl[i] = plan[i + 1] /\ pl[i] \in Live /\ Index(pl[i]) = i + 1
         /\ \A u \in Live \ {s} : \E i \in 1..(n - 1) : pl[i] = u
         /\ \A i \in 1..(n - 1) : pl[i] # s
PROOF
  <1>1. n \in Nat /\ a \in 1..n /\ plan[a] = s /\ Index(s) = a BY DEF ClosesGap
  <1>2. ASSUME NEW i \in 1..(n - 1), i < a PROVE pl[i] = plan[i] /\ pl[i] \in Live /\ Index(pl[i]) = i
    <2>1. i \in 1..n BY <1>1
    <2>2. pl[i] = plan[i] BY <1>2 DEF ClosesGap
    <2> QED BY <2>1, <2>2 DEF LaidOut
  <1>3. ASSUME NEW i \in 1..(n - 1), i >= a PROVE pl[i] = plan[i + 1] /\ pl[i] \in Live /\ Index(pl[i]) = i + 1
    <2>1. i + 1 \in 1..n /\ ~(i < a) BY <1>1, <1>3
    <2>2. pl[i] = plan[i + 1] BY <2>1 DEF ClosesGap
    <2> QED BY <2>1, <2>2 DEF LaidOut
  <1>4. ASSUME NEW u \in Live \ {s} PROVE \E i \in 1..(n - 1) : pl[i] = u
    <2>1. PICK i : i = Index(u) OBVIOUS
    <2>2. i \in 1..n /\ plan[i] = u /\ i # a BY <1>1, <2>1 DEF LaidOut
    <2>3. CASE i < a
      <3>1. i \in 1..(n - 1) BY <1>1, <2>2, <2>3
      <3> QED BY <1>2, <2>2, <2>3, <3>1
    <2>4. CASE i > a
      <3>1. PICK h : h = i - 1 OBVIOUS
      <3>2. h \in 1..(n - 1) /\ h >= a /\ h + 1 = i BY <1>1, <2>2, <2>4, <3>1
      <3>3. pl[h] = plan[h + 1] BY <1>3, <3>2
      <3> QED BY <2>2, <3>2, <3>3
    <2> QED BY <1>1, <2>2, <2>3, <2>4
  <1>5. ASSUME NEW i \in 1..(n - 1), pl[i] = s PROVE FALSE
    <2>1. i < a \/ i >= a BY <1>1
    <2>2. i = a \/ i + 1 = a BY <1>1, <1>2, <1>3, <1>5, <2>1
    <2>3. i < a BY <1>1, <1>2, <1>3, <1>5, <2>2
    <2> QED BY <1>1, <1>2, <1>5, <2>3
  <1> QED BY <1>2, <1>3, <1>4, <1>5

LEMMA GapApplies ==
  ASSUME NEW n, LaidOut(n), NEW m, NEW a, NEW s, NEW td, NEW pl, ClosesGap(td, n, m, a, s, pl)
  PROVE  AppliesTo(td, pl)
PROOF
  <1>1. n \in Nat /\ a \in 1..n /\ m \in Nat /\ m = n - a /\ DOMAIN pl = 1..(n - 1) /\ Index(s) = a /\ s \in Live
    BY DEF ClosesGap
  <1>2. \A c \in 1..m : plan[a + c] \in Live \ {s}
    <2> TAKE c \in 1..m
    <2>1. a + c \in 1..n /\ a + c # a BY <1>1
    <2> QED BY <1>1, <2>1 DEF LaidOut
  <1>3. ASSUME NEW k \in DOMAIN td PROVE (k = 1 /\ td[k].kind = "delete" /\ td[k].step = s) \/ (td[k].kind = "set" /\ td[k].step \in Live \ {s})
    <2>1. CASE k = 1 BY <2>1 DEF ClosesGap, Removes
    <2>2. ASSUME NEW c \in 1..m, k = 1 + c PROVE td[k].kind = "set" /\ td[k].step \in Live \ {s}
      <3>1. Moves(td[k], plan[a + c], n + c) BY <2>2 DEF ClosesGap
      <3> QED BY <1>2, <3>1 DEF Moves
    <2>3. ASSUME NEW c \in 1..m, k = 1 + m + c PROVE td[k].kind = "set" /\ td[k].step \in Live \ {s}
      <3>1. Moves(td[k], plan[a + c], a + c - 1) BY <2>3 DEF ClosesGap
      <3> QED BY <1>2, <3>1 DEF Moves
    <2>4. CASE k \in (1 + m + m + 1)..Len(td) BY <2>4 DEF ClosesGap, Stays
    <2> QED BY <2>1, <2>2, <2>3, <2>4, GapPlaces
  <1>4. /\ \A u \in Live \ {s} : \E i \in DOMAIN pl : pl[i] = u
        /\ \A i \in DOMAIN pl : pl[i] # s
    <2>1. /\ \A u \in Live \ {s} : \E i \in 1..(n - 1) : pl[i] = u
          /\ \A i \in 1..(n - 1) : pl[i] # s
      BY GapPlan
    <2> QED BY <1>1, <2>1
  <1> QED BY <1>1, <1>3, <1>4 DEF AppliesTo

LEMMA GapFree ==
  ASSUME NEW n, LaidOut(n), NEW m, NEW a, NEW s, NEW td, NEW pl, ClosesGap(td, n, m, a, s, pl)
  PROVE  FreeNow(td) /\ FreeLater(td)
PROOF
  <1>1. n \in Nat /\ a \in 1..n /\ m \in Nat /\ m = n - a /\ plan[a] = s BY DEF ClosesGap
  <1>2. ASSUME NEW k \in DOMAIN td, NEW u \in Steps, NEW t \in Steps,
               Puts(td[k], u), t \in Live \ {u}, Index(t) = td[k].row.index
        PROVE  \E j \in 1..(k - 1) : Leaves(td[j], t)
    <2>1. PICK i : i = Index(t) OBVIOUS
    <2>2. i \in 1..n /\ plan[i] = t BY <1>2, <2>1 DEF LaidOut
    <2>3. PICK c \in 1..m : /\ u = plan[a + c]
                            /\ \/ k = 1 + c /\ i = n + c
                               \/ k = 1 + m + c /\ i = a + c - 1
      BY <1>2, <2>1, GapPuts
    <2>4. k = 1 + m + c /\ i = a + c - 1 BY <1>1, <2>2, <2>3
    <2>5. CASE c = 1
      <3>1. t = s /\ 1 \in 1..(k - 1) BY <1>1, <2>2, <2>4, <2>5
      <3>2. Leaves(td[1], s) BY DEF ClosesGap, Removes
      <3> QED BY <3>1, <3>2
    <2>6. CASE c # 1
      <3>1. PICK e : e = c - 1 OBVIOUS
      <3>2. e \in 1..m /\ a + e = i /\ 1 + e \in 1..(k - 1) BY <1>1, <2>4, <2>6, <3>1
      <3>3. Leaves(td[1 + e], plan[a + e]) BY <3>2 DEF ClosesGap, Moves
      <3> QED BY <2>2, <3>2, <3>3
    <2> QED BY <2>5, <2>6
  <1>3. ASSUME NEW k \in DOMAIN td, NEW j \in 1..(k - 1), NEW u \in Steps, NEW t \in Steps,
               Puts(td[k], u), Puts(td[j], t), u # t, td[k].row.index = td[j].row.index
        PROVE  FALSE
    <2>1. j \in DOMAIN td /\ j < k BY DEF ClosesGap
    <2>2. PICK x : x = td[k].row.index OBVIOUS
    <2>3. PICK c \in 1..m : /\ u = plan[a + c]
                            /\ \/ k = 1 + c /\ x = n + c
                               \/ k = 1 + m + c /\ x = a + c - 1
      BY <1>3, <2>2, GapPuts
    <2>4. PICK e \in 1..m : /\ t = plan[a + e]
                            /\ \/ j = 1 + e /\ x = n + e
                               \/ j = 1 + m + e /\ x = a + e - 1
      BY <1>3, <2>1, <2>2, GapPuts
    <2>5. c = e BY <1>1, <2>3, <2>4
    <2> QED BY <1>3, <2>3, <2>4, <2>5
  <1> QED BY <1>2, <1>3 DEF FreeNow, FreeLater

LEMMA GapLanding ==
  ASSUME NEW n, LaidOut(n), NEW m, NEW a, NEW s, NEW td, NEW pl, ClosesGap(td, n, m, a, s, pl)
  PROVE  LandingOn(td, pl)
PROOF
  <1>1. /\ n \in Nat /\ a \in 1..n /\ m \in Nat /\ m = n - a /\ DOMAIN pl = 1..(n - 1) /\ Index(s) = a
        /\ DOMAIN td = 1..Len(td) /\ Len(td) \in Nat /\ Len(td) >= 1 + m + m
    BY DEF ClosesGap
  <1>2. /\ \A i \in 1..(n - 1) : i < a => pl[i] = plan[i] /\ pl[i] \in Live /\ Index(pl[i]) = i
        /\ \A i \in 1..(n - 1) : i >= a => pl[i] = plan[i + 1] /\ pl[i] \in Live /\ Index(pl[i]) = i + 1
        /\ \A u \in Live \ {s} : \E i \in 1..(n - 1) : pl[i] = u
        /\ \A i \in 1..(n - 1) : pl[i] # s
    BY GapPlan
  <1>3. \A c \in 1..m : Index(plan[a + c]) = a + c
    <2> TAKE c \in 1..m
    <2>1. a + c \in 1..n BY <1>1
    <2> QED BY <2>1 DEF LaidOut
  <1>4. ASSUME NEW i \in 1..(n - 1) PROVE Lands(td, pl[i], i)
    <2>1. CASE i < a
      <3>1. ASSUME NEW k \in DOMAIN td, Leaves(td[k], pl[i]) PROVE FALSE
        <4>1. pl[i] # s BY <1>2
        <4>2. PICK c \in 1..m : pl[i] = plan[a + c] BY <3>1, <4>1, GapLeaves
        <4>3. i = a + c BY <1>2, <1>3, <2>1, <4>2
        <4> QED BY <1>1, <2>1, <4>3
      <3> QED BY <1>2, <2>1, <3>1 DEF Lands
    <2>2. CASE i >= a
      <3>1. PICK c : c = i + 1 - a OBVIOUS
      <3>2. c \in 1..m /\ a + c = i + 1 /\ a + c - 1 = i BY <1>1, <2>2, <3>1
      <3>3. PICK h : h = 1 + m + c OBVIOUS
      <3>4. h \in DOMAIN td /\ \A l \in (h + 1)..Len(td) : l \in DOMAIN td /\ l > h BY <1>1, <3>2, <3>3
      <3>5. Moves(td[h], plan[a + c], a + c - 1) BY <3>2, <3>3 DEF ClosesGap
      <3>6. pl[i] = plan[a + c] /\ pl[i] # s BY <1>2, <2>2, <3>2
      <3>7. ASSUME NEW l \in (h + 1)..Len(td), Leaves(td[l], pl[i]) PROVE FALSE
        <4>1. PICK e \in 1..m : pl[i] = plan[a + e] /\ (l = 1 + e \/ l = 1 + m + e) BY <3>4, <3>6, <3>7, GapLeaves
        <4>2. a + e = a + c BY <1>3, <3>2, <3>6, <4>1
        <4> QED BY <1>1, <3>2, <3>3, <3>4, <4>1, <4>2
      <3> QED BY <3>2, <3>4, <3>5, <3>6, <3>7 DEF Lands, Moves
    <2> QED BY <1>1, <2>1, <2>2
  <1>5. ASSUME NEW u \in Live
        PROVE  (\E i \in DOMAIN pl : pl[i] = u) \/ \E k \in DOMAIN td : td[k].kind = "delete" /\ td[k].step = u
    <2>1. 1 \in DOMAIN td /\ td[1].kind = "delete" /\ td[1].step = s BY <1>1 DEF ClosesGap, Removes
    <2> QED BY <1>1, <1>2, <2>1
  <1>6. ASSUME NEW i \in 1..(n - 1), NEW j \in 1..(n - 1), pl[i] = pl[j] PROVE i = j
    <2>1. i < a \/ i >= a BY <1>1
    <2>2. j < a \/ j >= a BY <1>1
    <2>3. CASE i < a /\ j < a BY <1>2, <1>6, <2>3
    <2>4. CASE i < a /\ j >= a
      <3>1. i = j + 1 BY <1>2, <1>6, <2>4
      <3> QED BY <1>1, <2>4, <3>1
    <2>5. CASE i >= a /\ j < a
      <3>1. j = i + 1 BY <1>2, <1>6, <2>5
      <3> QED BY <1>1, <2>5, <3>1
    <2>6. CASE i >= a /\ j >= a
      <3>1. i + 1 = j + 1 BY <1>2, <1>6, <2>6
      <3> QED BY <1>1, <3>1
    <2> QED BY <2>1, <2>2, <2>3, <2>4, <2>5, <2>6
  <1> QED BY <1>1, <1>4, <1>5, <1>6 DEF LandingOn

LEMMA DeleteFits ==
  ASSUME Base, NEW n, LaidOut(n), NEW p \in Requests, NEW s, NEW td, Deleted(p, s, td)
  PROVE  Fits(td)'
PROOF
  <1>1. PICK pl : pl = plan' OBVIOUS
  <1>2. PICK nd : nd = needs' OBVIOUS
  <1>3. PICK a : a = Index(s) OBVIOUS
  <1>4. PICK to : to = DownFrom(s) OBVIOUS
  <1>5. PICK m : m = n - a OBVIOUS
  <1>6. /\ s \in Live /\ nd = needs /\ steps' = steps /\ pl = Without(s)
        /\ \A t \in Live \ {s} : a \notin steps[t].deps
        /\ DeleteLayout(td, s, InOrder(Later(s)), to)
    BY <1>1, <1>2, <1>3, <1>4 DEF Deleted, Edits
  <1>7. n \in Nat /\ DOMAIN plan = 1..n /\ n = Len(plan) /\ a \in 1..n /\ plan[a] = s /\ m \in Nat /\ MaxIndex = n
    BY <1>3, <1>5, <1>6 DEF LaidOut
  <1>8. PICK list : list = InOrder(Later(s)) OBVIOUS
  <1>9. Len(list) = m /\ \A k \in 1..m : list[k] = plan[a + k]
    <2>1. Later(s) = {t \in Live : Index(t) > a} BY <1>3 DEF Later
    <2>2. a \in 0..n BY <1>7
    <2> QED BY <1>5, <1>8, <2>1, <2>2, SegmentIs
  <1>10. /\ td \in Seq(PlainStatements) /\ Len(td) >= 1 + m + m
         /\ Deleting(td[1], s)
         /\ \A k \in 1..m : Moving(td[1 + k], list[k], MaxIndex + k)
         /\ \A k \in 1..m : Moving(td[1 + m + k], list[k], Index(list[k]) - 1)
         /\ Rewrites(td, 1 + m + m, Live \ {s}, to)
    BY <1>6, <1>8, <1>9 DEF DeleteLayout
  <1>11. DOMAIN td = 1..Len(td) /\ Len(td) \in Nat BY <1>10, DomainOf
  <1>12. \A k \in 1..m : Index(plan[a + k]) = a + k
    <2> TAKE k \in 1..m
    <2>1. a + k \in 1..n BY <1>5, <1>7
    <2> QED BY <2>1 DEF LaidOut
  <1>13. Removes(td[1], s) /\ \A t : ~SetsDeps(td[1], t) BY <1>10, DeletingIs DEF Removes
  <1>14. \A k \in 1..m : Moves(td[1 + k], plan[a + k], n + k) /\ \A t : ~SetsDeps(td[1 + k], t)
    <2> TAKE k \in 1..m
    <2>1. Moving(td[1 + k], plan[a + k], n + k) BY <1>7, <1>9, <1>10
    <2> QED BY <2>1, MovingIs DEF Moves
  <1>15. \A k \in 1..m : Moves(td[1 + m + k], plan[a + k], a + k - 1) /\ \A t : ~SetsDeps(td[1 + m + k], t)
    <2> TAKE k \in 1..m
    <2>1. Moving(td[1 + m + k], list[k], Index(list[k]) - 1) BY <1>10
    <2>2. list[k] = plan[a + k] /\ Index(list[k]) = a + k BY <1>9, <1>12
    <2>3. Moving(td[1 + m + k], plan[a + k], a + k - 1) BY <1>7, <2>1, <2>2
    <2> QED BY <2>3, MovingIs DEF Moves
  <1>16. \A k \in (1 + m + m + 1)..Len(td) : Stays(td[k]) /\ td[k].step # s BY <1>10, RewritesStay DEF Stays
  <1>17. DOMAIN pl = 1..(n - 1) /\ \A k \in 1..(n - 1) : pl[k] = IF k < a THEN plan[k] ELSE plan[k + 1]
    <2>1. \A j \in DOMAIN plan : plan[j] = s => j = a BY <1>7 DEF LaidOut
    <2>2. Without(s) = [k \in 1..(Len(plan) - 1) |-> IF k < a THEN plan[k] ELSE plan[k + 1]] BY <1>7, <2>1, WithoutType
    <2> QED BY <1>6, <1>7, <2>2
  <1>18. ClosesGap(td, n, m, a, s, pl)
    BY <1>3, <1>5, <1>6, <1>7, <1>10, <1>11, <1>13, <1>14, <1>15, <1>16, <1>17 DEF ClosesGap
  <1>19. \A t \in Live \ {s} : \A d \in steps[t].deps : to[d] \in DOMAIN pl /\ pl[to[d]] = plan[d]
    <2> TAKE t \in Live \ {s}
    <2> TAKE d \in steps[t].deps
    <2>1. d \in 1..n /\ d # a BY <1>6, <1>7 DEF LaidOut, RightIn
    <2>2. plan[d] \in Live /\ Index(plan[d]) = d BY <2>1 DEF LaidOut
    <2>3. d \in Nat /\ to[d] = IF \E u \in Later(s) : Index(u) = d THEN d - 1 ELSE d BY <1>4, <2>1 DEF DownFrom
    <2>4. (\E u \in Later(s) : Index(u) = d) <=> d > a BY <1>3, <2>2 DEF Later
    <2>5. CASE d > a
      <3>1. to[d] = d - 1 /\ d - 1 \in 1..(n - 1) /\ ~(d - 1 < a) /\ (d - 1) + 1 = d BY <1>7, <2>1, <2>3, <2>4, <2>5
      <3>2. pl[d - 1] = plan[d] BY <1>17, <3>1
      <3> QED BY <1>17, <3>1, <3>2
    <2>6. CASE d < a
      <3>1. to[d] = d /\ d \in 1..(n - 1) BY <1>7, <2>1, <2>3, <2>4, <2>6
      <3> QED BY <1>17, <2>6, <3>1
    <2> QED BY <1>7, <2>1, <2>5, <2>6
  <1>20. \A k \in 1..(1 + m + m) : \A t : ~SetsDeps(td[k], t)
    <2> TAKE k \in 1..(1 + m + m)
    <2>1. k \in DOMAIN td /\ k \notin (1 + m + m + 1)..Len(td) BY <1>7, <1>10, <1>11
    <2>2. k = 1 \/ (\E c \in 1..m : k = 1 + c) \/ (\E c \in 1..m : k = 1 + m + c) BY <1>18, <2>1, GapPlaces
    <2> QED BY <1>13, <1>14, <1>15, <2>2
  <1>21. \A t \in Live \ {s} :
           /\ \A k \in DOMAIN td : SetsDeps(td[k], t) => RightIn(pl, nd, t, td[k].row.deps)
           /\ (\A k \in DOMAIN td : ~SetsDeps(td[k], t)) => RightIn(pl, nd, t, steps[t].deps)
    <2>1. PICK from : from = 1 + m + m OBVIOUS
    <2>2. PICK S : S = Live \ {s} OBVIOUS
    <2>8. S \in SUBSET Live BY <2>2
    <2>3. from \in Nat /\ from <= Len(td) /\ Rewrites(td, from, S, to) BY <1>7, <1>10, <1>11, <2>1, <2>2
    <2>4. \A k \in 1..from : \A t \in S : ~SetsDeps(td[k], t) BY <1>20, <2>1
    <2>5. \A t \in S : nd[t] = needs[t] BY <1>6
    <2>6. \A t \in S : \A d \in steps[t].deps : to[d] \in DOMAIN pl /\ pl[to[d]] = plan[d] BY <1>19, <2>2
    <2>7. \A t \in S :
            /\ \A k \in DOMAIN td : SetsDeps(td[k], t) => RightIn(pl, nd, t, td[k].row.deps)
            /\ (\A k \in DOMAIN td : ~SetsDeps(td[k], t)) => RightIn(pl, nd, t, steps[t].deps)
      BY <1>11, <2>3, <2>4, <2>5, <2>6, <2>8, RewritesDepend, SMTT(30)
    <2> QED BY <2>2, <2>7
  <1>22. DependingOn(td, pl, nd)
    <2>1. \A i \in DOMAIN pl : pl[i] \in Live \ {s}
      <3>1. \A i \in 1..(n - 1) : i < a \/ i >= a BY <1>7
      <3> QED BY <1>17, <1>18, <3>1, GapPlan
    <2> QED BY <1>21, <2>1 DEF DependingOn
  <1>23. AppliesTo(td, pl) /\ FreeNow(td) /\ FreeLater(td) /\ LandingOn(td, pl)
    BY <1>18, GapApplies, GapFree, GapLanding
  <1> QED BY <1>1, <1>2, <1>6, <1>22, <1>23, FitsNext

-----------------------------------------------------------------------------
(* AdjustPlanSteps: the steps after a place are replaced                    *)

\* The steps that are done are those up to some place of the plan.
LEMMA PrefixIs ==
  ASSUME Base, NEW n, LaidOut(n), \A s \in Live \ Prefix : \A t \in Prefix : Index(t) < Index(s)
  PROVE  \E c \in 0..n :
           /\ \A s \in Live : s \in Prefix <=> Index(s) <= c
           /\ Cardinality(Prefix) = c /\ Len(InOrder(Prefix)) = c /\ \A k \in 1..c : InOrder(Prefix)[k] = plan[k]
           /\ Sorted(InOrder(Prefix), Prefix)
           /\ Live \ Prefix = {s \in Live : Index(s) > c}
PROOF
  <1>1. n \in Nat /\ \A s \in Live : Index(s) \in 1..n BY DEF LaidOut
  <1>2. Prefix \in SUBSET Live /\ Live \ Prefix \in SUBSET Live BY DEF Prefix
  <1>3. \E c \in 0..n : \A s \in Live : s \in Prefix <=> Index(s) <= c
    <2>1. CASE Live \ Prefix = {}
      <3>1. n \in 0..n BY <1>1
      <3> QED BY <1>1, <2>1, <3>1
    <2>2. CASE Live \ Prefix # {}
      <3>1. PICK rest : rest = InOrder(Live \ Prefix) OBVIOUS
      <3>2. Sorted(rest, Live \ Prefix) BY <1>2, <3>1, InOrderSorted DEF Base
      <3>3. /\ Len(rest) \in Nat /\ \A k \in 1..Len(rest) : rest[k] \in Live \ Prefix
            /\ \A i, j \in 1..Len(rest) : i < j => Index(rest[i]) < Index(rest[j])
            /\ \A s \in Live \ Prefix : \E k \in 1..Len(rest) : rest[k] = s
        BY <1>2, <3>2, SortedFacts DEF Base
      <3>4. PICK s \in Live \ Prefix : TRUE BY <2>2
      <3>5. 1 \in 1..Len(rest) BY <3>3, <3>4
      <3>6. PICK f \in Live \ Prefix : f = rest[1] BY <3>3, <3>5
      <3>7. \A t \in Live \ Prefix : Index(f) <= Index(t)
        <4> TAKE t \in Live \ Prefix
        <4>1. PICK k \in 1..Len(rest) : rest[k] = t BY <3>3
        <4>2. k = 1 \/ 1 < k BY <3>3
        <4> QED BY <1>1, <3>3, <3>5, <3>6, <4>1, <4>2
      <3>8. PICK c : c = Index(f) - 1 OBVIOUS
      <3>9. c \in 0..n /\ Index(f) = c + 1 BY <1>1, <3>8
      <3>10. \A t \in Live : t \in Prefix <=> Index(t) <= c
        <4> TAKE t \in Live
        <4>1. t \in Prefix => Index(t) < Index(f) BY <3>6
        <4>2. t \notin Prefix => Index(f) <= Index(t) BY <3>7
        <4>3. Index(t) \in 1..n BY <1>1
        <4> QED BY <3>9, <4>1, <4>2, <4>3
      <3> QED BY <3>9, <3>10
    <2> QED BY <2>1, <2>2
  <1>4. PICK c \in 0..n : \A s \in Live : s \in Prefix <=> Index(s) <= c BY <1>3
  <1>5. PICK l : l = [k \in 1..c |-> plan[k]] OBVIOUS
  <1>6. l = [k \in 1..c |-> l[k]] BY <1>5
  <1>7. ASSUME NEW k \in 1..c PROVE l[k] = plan[k] /\ l[k] \in Prefix /\ Index(l[k]) = k
    <2>1. k \in 1..n BY <1>1
    <2>2. plan[k] \in Live /\ Index(plan[k]) = k BY <2>1 DEF LaidOut
    <2> QED BY <1>4, <1>5, <2>2
  <1>8. l \in Seq(Prefix) /\ Len(l) = c
    <2>1. c \in Nat BY <1>1
    <2> QED BY <1>6, <1>7, <2>1, SeqOf
  <1>9. \A i, j \in 1..Len(l) : i < j => Index(l[i]) < Index(l[j]) BY <1>7, <1>8
  <1>10. \A s \in Prefix : \E k \in 1..Len(l) : l[k] = s
    <2> TAKE s \in Prefix
    <2>1. s \in Live /\ Index(s) \in 1..n /\ plan[Index(s)] = s /\ Index(s) <= c BY <1>2, <1>4 DEF LaidOut
    <2>2. Index(s) \in 1..c BY <1>1, <2>1
    <2> QED BY <1>7, <1>8, <2>1, <2>2
  <1>11. Sorted(l, Prefix) BY <1>8, <1>9, <1>10 DEF Sorted
  <1>12. InOrder(Prefix) = l /\ Cardinality(Prefix) = c BY <1>2, <1>8, <1>11, SortedIsInOrder DEF Base
  <1>13. Live \ Prefix = {s \in Live : Index(s) > c}
    <2>1. \A s \in Live : s \notin Prefix <=> Index(s) > c BY <1>1, <1>4
    <2> QED BY <1>2, <2>1
  <1> QED BY <1>4, <1>7, <1>8, <1>11, <1>12, <1>13

\* The r steps after the place c are deleted, l others are created there: x + 1, x + 2, ...
ReplacesRest(td, n, r, c, l, x, pl) ==
  /\ n \in Nat /\ c \in 0..n /\ r \in Nat /\ r = n - c /\ l \in Nat /\ x \in Nat
  /\ DOMAIN td = 1..Len(td) /\ Len(td) = r + l + 1
  /\ \A k \in 1..r : Removes(td[k], plan[c + k]) /\ \A u : ~SetsDeps(td[k], u)
  /\ \A k \in 1..l : Adds(td[r + k], x + k, c + k) /\ \A u : SetsDeps(td[r + k], u) <=> u = x + k
  /\ td[r + l + 1].kind = "run"
  /\ \A u : ~Puts(td[r + l + 1], u) /\ ~Leaves(td[r + l + 1], u) /\ ~SetsDeps(td[r + l + 1], u)
  /\ \A s \in Live : s \in Nat /\ s <= x
  /\ DOMAIN pl = 1..(c + l)
  /\ \A k \in 1..c : pl[k] = plan[k]
  /\ \A k \in 1..l : pl[c + k] = x + k

LEMMA RestPlaces ==
  ASSUME NEW n, NEW r, NEW c, NEW l, NEW x, NEW td, NEW pl, ReplacesRest(td, n, r, c, l, x, pl)
  PROVE  /\ \A k \in DOMAIN td : k \in 1..r \/ (\E e \in 1..l : k = r + e) \/ k = r + l + 1
         /\ \A i \in DOMAIN pl : i \in 1..c \/ \E e \in 1..l : i = c + e
PROOF
  <1>1. r \in Nat /\ l \in Nat /\ c \in Nat /\ DOMAIN td = 1..(r + l + 1) /\ DOMAIN pl = 1..(c + l) BY DEF ReplacesRest
  <1>2. ASSUME NEW k \in 1..(r + l + 1) PROVE k \in 1..r \/ (\E e \in 1..l : k = r + e) \/ k = r + l + 1
    <2>1. PICK e : e = k - r OBVIOUS
    <2>2. k > r /\ k <= r + l => e \in 1..l /\ k = r + e BY <1>1, <2>1
    <2>3. k <= r => k \in 1..r BY <1>1
    <2>4. k <= r \/ (k > r /\ k <= r + l) \/ k = r + l + 1 BY <1>1
    <2> QED BY <2>2, <2>3, <2>4
  <1>3. ASSUME NEW i \in 1..(c + l) PROVE i \in 1..c \/ \E e \in 1..l : i = c + e
    <2>1. PICK e : e = i - c OBVIOUS
    <2>2. i > c => e \in 1..l /\ i = c + e BY <1>1, <2>1
    <2>3. i <= c => i \in 1..c BY <1>1
    <2>4. i <= c \/ i > c BY <1>1
    <2> QED BY <2>2, <2>3, <2>4
  <1> QED BY <1>1, <1>2, <1>3

LEMMA RestApplies ==
  ASSUME NEW n, LaidOut(n), NEW r, NEW c, NEW l, NEW x, NEW td, NEW pl, ReplacesRest(td, n, r, c, l, x, pl)
  PROVE  AppliesTo(td, pl)
PROOF
  <1>1. /\ n \in Nat /\ c \in 0..n /\ r \in Nat /\ r = n - c /\ l \in Nat /\ x \in Nat
        /\ DOMAIN td = 1..(r + l + 1) /\ DOMAIN pl = 1..(c + l)
        /\ \A s \in Live : s \in Nat /\ s <= x
    BY DEF ReplacesRest
  <1>2. ASSUME NEW k \in 1..r
        PROVE  td[k].kind = "delete" /\ td[k].step = plan[c + k] /\ plan[c + k] \in Live /\ c + k \in 1..n
    <2>1. c + k \in 1..n BY <1>1
    <2> QED BY <2>1 DEF ReplacesRest, Removes, LaidOut
  <1>3. ASSUME NEW e \in 1..l
        PROVE  td[r + e].kind = "create" /\ td[r + e].step = x + e /\ x + e \notin Live /\ c + e \in DOMAIN pl /\ pl[c + e] = x + e
    <2>1. x + e \notin Live BY <1>1
    <2>2. c + e \in DOMAIN pl BY <1>1
    <2> QED BY <2>1, <2>2 DEF ReplacesRest, Adds
  <1>4. td[r + l + 1].kind = "run" BY DEF ReplacesRest
  <1>5. ASSUME NEW k \in 1..r, NEW i \in DOMAIN pl, pl[i] = plan[c + k] PROVE FALSE
    <2>1. CASE i \in 1..c
      <3>1. i \in 1..n /\ pl[i] = plan[i] BY <1>1, <2>1 DEF ReplacesRest
      <3>2. i = c + k BY <1>2, <1>5, <3>1 DEF LaidOut
      <3> QED BY <1>1, <2>1, <3>2
    <2>2. ASSUME NEW e \in 1..l, i = c + e PROVE FALSE BY <1>2, <1>3, <1>5, <2>2
    <2> QED BY <2>1, <2>2, RestPlaces
  <1>6. ASSUME NEW k \in DOMAIN td, NEW j \in DOMAIN td, td[k].kind \in {"create", "delete"},
               td[j].kind = td[k].kind, td[j].step = td[k].step
        PROVE  j = k
    <2>1. CASE k \in 1..r
      <3>1. j \in 1..r
        <4>1. j # r + l + 1 BY <1>4, <1>6
        <4>2. \A e \in 1..l : j # r + e BY <1>2, <1>3, <1>6, <2>1
        <4> QED BY <4>1, <4>2, RestPlaces
      <3>2. plan[c + j] = plan[c + k] BY <1>2, <1>6, <2>1, <3>1
      <3>3. c + j = c + k BY <1>2, <2>1, <3>1, <3>2 DEF LaidOut
      <3> QED BY <1>1, <2>1, <3>1, <3>3
    <2>2. ASSUME NEW e \in 1..l, k = r + e PROVE j = k
      <3>1. j # r + l + 1 /\ j \notin 1..r BY <1>2, <1>3, <1>4, <1>6, <2>2
      <3>2. PICK f \in 1..l : j = r + f BY <3>1, RestPlaces
      <3>3. x + f = x + e BY <1>3, <1>6, <2>2, <3>2
      <3> QED BY <1>1, <2>2, <3>2, <3>3
    <2>3. k # r + l + 1 BY <1>4, <1>6
    <2> QED BY <2>1, <2>2, <2>3, RestPlaces
  <1>7. ASSUME NEW k \in DOMAIN td
        PROVE  /\ td[k].kind # "set"
               /\ td[k].kind = "create" => td[k].step \notin Live /\ \E i \in DOMAIN pl : pl[i] = td[k].step
               /\ td[k].kind = "delete" => td[k].step \in Live /\ \A i \in DOMAIN pl : pl[i] # td[k].step
    <2>1. CASE k \in 1..r BY <1>2, <1>5, <2>1
    <2>2. ASSUME NEW e \in 1..l, k = r + e
          PROVE td[k].kind = "create" /\ td[k].step \notin Live /\ \E i \in DOMAIN pl : pl[i] = td[k].step
      BY <1>3, <2>2
    <2>3. CASE k = r + l + 1 BY <1>4, <2>3
    <2> QED BY <2>1, <2>2, <2>3, RestPlaces
  <1> QED BY <1>6, <1>7 DEF AppliesTo

\* Only the steps behind the place c leave, and only new ones are put.
LEMMA RestLeaves ==
  ASSUME NEW n, NEW r, NEW c, NEW l, NEW x, NEW td, NEW pl, ReplacesRest(td, n, r, c, l, x, pl), NEW k \in DOMAIN td, NEW u
  PROVE  /\ Leaves(td[k], u) => k \in 1..r /\ u = plan[c + k]
         /\ Puts(td[k], u) => \E e \in 1..l : k = r + e /\ u = x + e /\ td[k].row.index = c + e
         /\ SetsDeps(td[k], u) => \E e \in 1..l : k = r + e /\ u = x + e
PROOF
  <1>1. CASE k \in 1..r BY <1>1 DEF ReplacesRest, Removes
  <1>2. ASSUME NEW e \in 1..l, k = r + e
        PROVE  ~Leaves(td[k], u) /\ (Puts(td[k], u) => u = x + e /\ td[k].row.index = c + e) /\ (SetsDeps(td[k], u) => u = x + e)
    BY <1>2 DEF ReplacesRest, Adds
  <1>3. CASE k = r + l + 1 BY <1>3 DEF ReplacesRest
  <1> QED BY <1>1, <1>2, <1>3, RestPlaces

LEMMA RestFree ==
  ASSUME NEW n, LaidOut(n), NEW r, NEW c, NEW l, NEW x, NEW td, NEW pl, ReplacesRest(td, n, r, c, l, x, pl)
  PROVE  FreeNow(td) /\ FreeLater(td)
PROOF
  <1>1. n \in Nat /\ c \in 0..n /\ r \in Nat /\ r = n - c /\ l \in Nat /\ x \in Nat /\ DOMAIN td = 1..(r + l + 1)
    BY DEF ReplacesRest
  <1>2. ASSUME NEW k \in DOMAIN td, NEW u \in Steps, NEW t \in Steps,
               Puts(td[k], u), t \in Live \ {u}, Index(t) = td[k].row.index
        PROVE  \E j \in 1..(k - 1) : Leaves(td[j], t)
    <2>1. PICK e \in 1..l : k = r + e /\ td[k].row.index = c + e BY <1>2, RestLeaves
    <2>2. PICK i : i = Index(t) OBVIOUS
    <2>3. i \in 1..n /\ plan[i] = t /\ i = c + e BY <1>2, <2>1, <2>2 DEF LaidOut
    <2>4. e \in 1..r /\ e \in 1..(k - 1) BY <1>1, <2>1, <2>3, SMTT(30)
    <2>5. Leaves(td[e], plan[c + e]) BY <2>4 DEF ReplacesRest, Removes
    <2> QED BY <2>3, <2>4, <2>5
  <1>3. ASSUME NEW k \in DOMAIN td, NEW j \in 1..(k - 1), NEW u \in Steps, NEW t \in Steps,
               Puts(td[k], u), Puts(td[j], t), u # t, td[k].row.index = td[j].row.index
        PROVE  FALSE
    <2>1. j \in DOMAIN td BY <1>1
    <2>2. PICK e \in 1..l : u = x + e /\ td[k].row.index = c + e BY <1>3, RestLeaves
    <2>3. PICK f \in 1..l : t = x + f /\ td[j].row.index = c + f BY <1>3, <2>1, RestLeaves
    <2>4. c + e = c + f BY <1>3, <2>2, <2>3
    <2>5. e = f BY <1>1, <2>4
    <2> QED BY <1>3, <2>2, <2>3, <2>5
  <1> QED BY <1>2, <1>3 DEF FreeNow, FreeLater

LEMMA RestLanding ==
  ASSUME NEW n, LaidOut(n), NEW r, NEW c, NEW l, NEW x, NEW td, NEW pl, ReplacesRest(td, n, r, c, l, x, pl)
  PROVE  LandingOn(td, pl)
PROOF
  <1>1. /\ n \in Nat /\ c \in 0..n /\ r \in Nat /\ r = n - c /\ l \in Nat /\ x \in Nat
        /\ DOMAIN td = 1..(r + l + 1) /\ Len(td) = r + l + 1 /\ DOMAIN pl = 1..(c + l)
        /\ \A s \in Live : s \in Nat /\ s <= x
    BY DEF ReplacesRest
  <1>2. \A i \in 1..c : i \in 1..n /\ pl[i] = plan[i] /\ pl[i] \in Live /\ Index(pl[i]) = i
    <2> TAKE i \in 1..c
    <2>1. i \in 1..n BY <1>1
    <2> QED BY <2>1 DEF ReplacesRest, LaidOut
  <1>3. \A e \in 1..l : pl[c + e] = x + e /\ x + e \notin Live /\ Adds(td[r + e], x + e, c + e)
    <2> TAKE e \in 1..l
    <2>1. x + e \notin Live BY <1>1
    <2> QED BY <2>1 DEF ReplacesRest
  <1>4. \A k \in 1..r : plan[c + k] \in Live /\ Index(plan[c + k]) = c + k
    <2> TAKE k \in 1..r
    <2>1. c + k \in 1..n BY <1>1
    <2> QED BY <2>1 DEF LaidOut
  <1>5. ASSUME NEW i \in 1..c PROVE Lands(td, pl[i], i)
    <2>1. ASSUME NEW k \in DOMAIN td, Leaves(td[k], pl[i]) PROVE FALSE
      <3>1. k \in 1..r /\ pl[i] = plan[c + k] BY <2>1, RestLeaves
      <3>2. i = c + k BY <1>2, <1>4, <3>1
      <3> QED BY <1>1, <3>1, <3>2
    <2> QED BY <1>2, <2>1 DEF Lands
  <1>6. ASSUME NEW e \in 1..l PROVE Lands(td, x + e, c + e)
    <2>1. PICK h : h = r + e OBVIOUS
    <2>2. h \in DOMAIN td /\ \A k \in (h + 1)..Len(td) : k \in DOMAIN td /\ k \notin 1..r BY <1>1, <2>1
    <2>3. Adds(td[h], x + e, c + e) BY <1>3, <2>1
    <2>4. \A k \in (h + 1)..Len(td) : ~Leaves(td[k], x + e) BY <2>2, RestLeaves
    <2> QED BY <2>2, <2>3, <2>4 DEF Lands, Adds
  <1>7. ASSUME NEW i \in DOMAIN pl PROVE Lands(td, pl[i], i)
    <2>1. ASSUME NEW e \in 1..l, i = c + e PROVE Lands(td, pl[i], i) BY <1>3, <1>6, <2>1
    <2> QED BY <1>5, <2>1, RestPlaces
  <1>8. ASSUME NEW u \in Live
        PROVE  (\E i \in DOMAIN pl : pl[i] = u) \/ \E k \in DOMAIN td : td[k].kind = "delete" /\ td[k].step = u
    <2>1. PICK i : i = Index(u) OBVIOUS
    <2>2. i \in 1..n /\ plan[i] = u BY <2>1 DEF LaidOut
    <2>3. CASE i <= c
      <3>1. i \in 1..c /\ i \in DOMAIN pl BY <1>1, <2>2, <2>3
      <3> QED BY <1>2, <2>2, <3>1
    <2>4. CASE i > c
      <3>1. PICK k : k = i - c OBVIOUS
      <3>2. k \in 1..r /\ k \in DOMAIN td /\ c + k = i BY <1>1, <2>2, <2>4, <3>1
      <3>3. td[k].kind = "delete" /\ td[k].step = plan[c + k] BY <3>2 DEF ReplacesRest, Removes
      <3> QED BY <2>2, <3>2, <3>3
    <2> QED BY <1>1, <2>2, <2>3, <2>4
  <1>9. ASSUME NEW i \in DOMAIN pl, NEW j \in DOMAIN pl, pl[i] = pl[j] PROVE i = j
    <2>1. CASE i \in 1..c
      <3>1. \A e \in 1..l : j # c + e BY <1>2, <1>3, <1>9, <2>1
      <3>2. j \in 1..c BY <3>1, RestPlaces
      <3> QED BY <1>2, <1>9, <2>1, <3>2
    <2>2. ASSUME NEW e \in 1..l, i = c + e PROVE i = j
      <3>1. j \notin 1..c BY <1>2, <1>3, <1>9, <2>2
      <3>2. PICK f \in 1..l : j = c + f BY <3>1, RestPlaces
      <3>3. x + e = x + f BY <1>3, <1>9, <2>2, <3>2
      <3> QED BY <1>1, <2>2, <3>2, <3>3
    <2> QED BY <2>1, <2>2, RestPlaces
  <1> QED BY <1>7, <1>8, <1>9 DEF LandingOn

\* What a done step was made to depend on is done.
Settled == \A s \in Live : Done(s) => \A t \in needs[s] : t \in Live /\ Done(t)

LEMMA AppendedIds ==
  ASSUME NEW T, NEW list \in Seq(T), made \in Nat, NEW specs, Len(specs) \in Nat
  PROVE  /\ DOMAIN (list \o NewIds(specs)) = 1..(Len(list) + Len(specs))
         /\ \A k \in 1..Len(list) : (list \o NewIds(specs))[k] = list[k]
         /\ \A k \in 1..Len(specs) : (list \o NewIds(specs))[Len(list) + k] = made + k
PROOF
  <1> DEFINE m == Len(specs)
             b == NewIds(specs)
             c == list \o b
             U == T \cup Nat
  <1>1. b = [k \in 1..m |-> made + k] BY DEF NewIds
  <1> HIDE DEF b, m
  <1>2. \A k \in 1..m : b[k] = made + k /\ b[k] \in Nat BY <1>1 DEF m
  <1>3. b \in Seq(Nat) /\ Len(b) = m
    <2>1. b = [k \in 1..m |-> b[k]] BY <1>1
    <2>2. m \in Nat BY DEF m
    <2> QED BY <1>2, <2>1, <2>2, SeqOf
  <1>4. list \in Seq(U) /\ b \in Seq(U) BY <1>3
  <1> HIDE DEF U, c
  <1>5. c \in Seq(U) /\ Len(c) = Len(list) + Len(b) /\ Len(list) \in Nat
        /\ (\A i \in 1..Len(list) : c[i] = list[i]) /\ \A i \in 1..Len(b) : c[Len(list) + i] = b[i]
    BY <1>4, ConcatAt DEF c
  <1>6. DOMAIN c = 1..Len(c) BY <1>5, DomainOf
  <1> QED BY <1>2, <1>3, <1>5, <1>6 DEF c, b, m

LEMMA PrefixAppended ==
  ASSUME Base, NEW specs \in Plans, made + Len(specs) <= MaxSteps, Sorted(InOrder(Prefix), Prefix)
  PROVE  /\ DOMAIN (InOrder(Prefix) \o NewIds(specs)) = 1..(Len(InOrder(Prefix)) + Len(specs))
         /\ \A k \in 1..Len(InOrder(Prefix)) : (InOrder(Prefix) \o NewIds(specs))[k] = InOrder(Prefix)[k]
         /\ \A k \in 1..Len(specs) : (InOrder(Prefix) \o NewIds(specs))[Len(InOrder(Prefix)) + k] = made + k
PROOF
  <1>1. InOrder(Prefix) \in Seq(Prefix) BY DEF Sorted
  <1>2. made \in Nat /\ Len(specs) \in Nat BY PlanFacts, PlanType
  <1> QED BY <1>1, <1>2, AppendedIds

LEMMA AdjustReplaces ==
  ASSUME Base, NEW n, LaidOut(n), NEW p \in Requests, NEW specs, NEW td, Adjusted(p, specs, td), NEW pl, pl = plan',
         NEW c \in 0..n, Live \ Prefix = {s \in Live : Index(s) > c},
         Cardinality(Prefix) = c, Len(InOrder(Prefix)) = c, \A k \in 1..c : InOrder(Prefix)[k] = plan[k],
         Sorted(InOrder(Prefix), Prefix), NEW r, r = n - c, NEW l, l = Len(specs)
  PROVE  /\ ReplacesRest(td, n, r, c, l, made, pl)
         /\ \A k \in 1..l : td[r + k].row.deps = specs[k].deps
PROOF
  <1>1. n \in Nat /\ n = Len(plan) /\ DOMAIN plan = 1..n BY DEF LaidOut
  <1>2. r \in Nat /\ l \in Nat /\ made \in Nat /\ c \in Nat BY <1>1, PlanFacts, PlanType DEF Adjusted
  <1>3. PICK rest : rest = InOrder(Live \ Prefix) OBVIOUS
  <1>4. Len(rest) = r /\ \A k \in 1..r : rest[k] = plan[c + k] BY <1>3, SegmentIs
  <1>5. AdjustLayout(td, rest, c + 1, specs) BY <1>3 DEF Adjusted
  <1>6. /\ td \in Seq(PlainStatements) /\ Len(td) = r + l + 1
        /\ \A k \in 1..r : Deleting(td[k], rest[k])
        /\ \A k \in 1..l : Inserting(td[r + k], made + k, c + 1 + k - 1, specs[k].tool, specs[k].deps)
        /\ Pausing(td[r + l + 1], "pending_approval")
    BY <1>4, <1>5 DEF AdjustLayout
  <1>7. DOMAIN td = 1..Len(td) BY <1>6, DomainOf
  <1>8. \A k \in 1..r : Removes(td[k], plan[c + k]) /\ \A u : ~SetsDeps(td[k], u)
    <2> TAKE k \in 1..r
    <2>1. Deleting(td[k], plan[c + k]) BY <1>4, <1>6
    <2> QED BY <2>1, DeletingIs DEF Removes
  <1>9. \A k \in 1..l :
          /\ Adds(td[r + k], made + k, c + k) /\ \A u : SetsDeps(td[r + k], u) <=> u = made + k
          /\ td[r + k].row.deps = specs[k].deps
    <2> TAKE k \in 1..l
    <2>1. c + 1 + k - 1 = c + k BY <1>2
    <2>2. Inserting(td[r + k], made + k, c + k, specs[k].tool, specs[k].deps) BY <1>6, <2>1
    <2> QED BY <2>2, InsertingIs DEF Adds
  <1>10. /\ td[r + l + 1].kind = "run"
         /\ \A u : ~Puts(td[r + l + 1], u) /\ ~Leaves(td[r + l + 1], u) /\ ~SetsDeps(td[r + l + 1], u)
    BY <1>6, PausingIs
  <1>11. \A s \in Live : s \in Nat /\ s <= made BY StepLive, StepsFinite DEF Base, Fresh
  <1>12. DOMAIN pl = 1..(c + l) /\ (\A k \in 1..c : pl[k] = plan[k]) /\ \A k \in 1..l : pl[c + k] = made + k
    <2> DEFINE x == InOrder(Prefix) \o NewIds(specs)
    <2>3. /\ DOMAIN x = 1..(Len(InOrder(Prefix)) + Len(specs))
          /\ \A k \in 1..Len(InOrder(Prefix)) : x[k] = InOrder(Prefix)[k]
          /\ \A k \in 1..Len(specs) : x[Len(InOrder(Prefix)) + k] = made + k
      BY PrefixAppended DEF Adjusted
    <2>4. pl = x BY DEF Adjusted
    <2> HIDE DEF x
    <2> QED BY <2>3, <2>4
  <1> QED BY <1>1, <1>2, <1>6, <1>7, <1>8, <1>9, <1>10, <1>11, <1>12 DEF ReplacesRest

LEMMA AdjustFits ==
  ASSUME Base, NEW n, LaidOut(n), Settled, NEW p \in Requests, NEW specs, NEW td, Adjusted(p, specs, td), "loose" \notin wrong'
  PROVE  Fits(td)'
PROOF
  <1>1. PICK pl : pl = plan' OBVIOUS
  <1>2. PICK nd : nd = needs' OBVIOUS
  <1>3. \A s \in Live \ Prefix : \A t \in Prefix : Index(t) < Index(s) BY DEF Adjusted
  <1>4. PICK c \in 0..n :
          /\ \A s \in Live : s \in Prefix <=> Index(s) <= c
          /\ Cardinality(Prefix) = c /\ Len(InOrder(Prefix)) = c /\ \A k \in 1..c : InOrder(Prefix)[k] = plan[k]
          /\ Sorted(InOrder(Prefix), Prefix)
          /\ Live \ Prefix = {s \in Live : Index(s) > c}
    BY <1>3, PrefixIs
  <1>5. PICK r : r = n - c OBVIOUS
  <1>6. PICK l : l = Len(specs) OBVIOUS
  <1>7. PICK x : x = made OBVIOUS
  <1>8. /\ ReplacesRest(td, n, r, c, l, x, pl)
        /\ \A k \in 1..l : td[r + k].row.deps = specs[k].deps
    BY <1>1, <1>4, <1>5, <1>6, <1>7, AdjustReplaces
  <1>9. /\ n \in Nat /\ c \in 0..n /\ r \in Nat /\ r = n - c /\ l \in Nat /\ x \in Nat
        /\ DOMAIN td = 1..(r + l + 1) /\ DOMAIN pl = 1..(c + l)
        /\ \A s \in Live : s \in Nat /\ s <= x
    BY <1>8 DEF ReplacesRest
  <1>10. nd = Answered(specs, pl) /\ steps' = steps /\ Loose(specs, pl) \subseteq wrong' /\ specs \in Plans /\ x + l <= MaxSteps
    BY <1>1, <1>2, <1>6, <1>7 DEF Adjusted, Edits
  <1>11. ASSUME NEW s \in Live PROVE nd[s] = needs[s]
    <2>1. s \in Steps /\ s <= x /\ s \in Nat BY <1>9, StepLive
    <2>2. s \notin x + 1..x + l BY <1>9, <2>1
    <2> QED BY <1>6, <1>7, <1>10, <2>1, <2>2 DEF Answered
  <1>12. ASSUME NEW e \in 1..l PROVE RightIn(pl, nd, x + e, specs[e].deps)
    <2>1. PICK u : u = x + e OBVIOUS
    <2>2. u \in Steps /\ u \in x + 1..x + l /\ u - x = e BY <1>9, <1>10, <2>1, BoundsAssumption DEF Steps
    <2>3. DOMAIN specs = 1..l BY <1>6, <1>10, PlanFacts
    <2>4. specs[e].deps \subseteq DOMAIN pl
      <3>1. "loose" \notin Loose(specs, pl) BY <1>10
      <3> QED BY <2>3, <3>1 DEF Loose
    <2>5. nd[u] = {pl[d] : d \in specs[e].deps \cap DOMAIN pl} BY <1>6, <1>7, <1>10, <2>2 DEF Answered
    <2>6. specs[e].deps \cap DOMAIN pl = specs[e].deps BY <2>4
    <2> QED BY <2>1, <2>4, <2>5, <2>6 DEF RightIn
  <1>13. ASSUME NEW i \in 1..c
         PROVE  pl[i] = plan[i] /\ plan[i] \in Live /\ RightIn(pl, nd, plan[i], steps[plan[i]].deps)
    <2>1. i \in 1..n /\ pl[i] = plan[i] BY <1>8, <1>9 DEF ReplacesRest
    <2>2. PICK s : s = plan[i] OBVIOUS
    <2>3. s \in Live /\ Index(s) = i BY <2>1, <2>2 DEF LaidOut
    <2>4. s \in Prefix BY <1>4, <1>9, <2>3
    <2>5. Done(s) BY <2>4 DEF Prefix
    <2>6. PICK deps : deps = steps[s].deps OBVIOUS
    <2>7. deps \subseteq 1..n /\ {plan[d] : d \in deps} = needs[s] BY <2>3, <2>6 DEF LaidOut, RightIn
    <2>8. \A d \in deps : d \in DOMAIN pl /\ pl[d] = plan[d]
      <3> TAKE d \in deps
      <3>1. plan[d] \in needs[s] /\ d \in 1..n BY <2>7
      <3>2. plan[d] \in Live /\ Done(plan[d]) /\ Index(plan[d]) = d BY <2>3, <2>5, <3>1 DEF Settled, LaidOut
      <3>3. d <= c BY <1>4, <3>2 DEF Prefix
      <3>4. d \in 1..c /\ d \in 1..(c + l) BY <1>9, <3>1, <3>3
      <3> QED BY <1>8, <1>9, <3>4 DEF ReplacesRest
    <2>9. {pl[d] : d \in deps} = {plan[d] : d \in deps} BY <2>8
    <2>10. nd[s] = needs[s] BY <1>11, <2>3
    <2>11. RightIn(pl, nd, s, deps) BY <2>7, <2>8, <2>9, <2>10 DEF RightIn
    <2> QED BY <2>1, <2>2, <2>3, <2>6, <2>11
  <1>14. DependingOn(td, pl, nd)
    <2>1. ASSUME NEW i \in 1..c
          PROVE  /\ \A k \in DOMAIN td : ~SetsDeps(td[k], pl[i])
                 /\ RightIn(pl, nd, pl[i], steps[pl[i]].deps)
      <3>1. \A e \in 1..l : pl[i] # x + e BY <1>9, <1>13
      <3> QED BY <1>8, <1>13, <3>1, RestLeaves
    <2>2. ASSUME NEW e \in 1..l
          PROVE  /\ pl[c + e] = x + e
                 /\ \A k \in DOMAIN td : SetsDeps(td[k], x + e) => RightIn(pl, nd, x + e, td[k].row.deps)
                 /\ ~\A k \in DOMAIN td : ~SetsDeps(td[k], x + e)
      <3>1. pl[c + e] = x + e /\ SetsDeps(td[r + e], x + e) BY <1>8 DEF ReplacesRest
      <3>2. r + e \in DOMAIN td BY <1>9
      <3>3. ASSUME NEW k \in DOMAIN td, SetsDeps(td[k], x + e) PROVE k = r + e
        <4>1. PICK f \in 1..l : k = r + f /\ x + e = x + f BY <1>8, <3>3, RestLeaves
        <4>2. e = f BY <1>9, <4>1
        <4> QED BY <4>1, <4>2
      <3> QED BY <1>8, <1>12, <3>1, <3>2, <3>3
    <2>3. ASSUME NEW i \in DOMAIN pl
          PROVE  /\ \A k \in DOMAIN td : SetsDeps(td[k], pl[i]) => RightIn(pl, nd, pl[i], td[k].row.deps)
                 /\ (\A k \in DOMAIN td : ~SetsDeps(td[k], pl[i])) => RightIn(pl, nd, pl[i], steps[pl[i]].deps)
      <3>1. CASE i \in 1..c BY <2>1, <3>1
      <3>2. ASSUME NEW e \in 1..l, i = c + e
            PROVE  /\ \A k \in DOMAIN td : SetsDeps(td[k], pl[i]) => RightIn(pl, nd, pl[i], td[k].row.deps)
                   /\ ~\A k \in DOMAIN td : ~SetsDeps(td[k], pl[i])
        BY <2>2, <3>2
      <3> QED BY <1>8, <3>1, <3>2, RestPlaces
    <2> QED BY <2>3 DEF DependingOn
  <1>15. AppliesTo(td, pl) /\ FreeNow(td) /\ FreeLater(td) /\ LandingOn(td, pl)
    BY <1>8, RestApplies, RestFree, RestLanding
  <1> QED BY <1>1, <1>2, <1>10, <1>14, <1>15, FitsNext

-----------------------------------------------------------------------------
(* Every step keeps the structure                                           *)

\* An edit that mixes with nothing begins when the steps stand as planned.
LEMMA EditAlone ==
  ASSUME Base, Structure, NEW p \in Requests, NEW op, NEW s, NEW td, Edits(p, op, s, td), Undisturbed'
  PROVE  /\ Undisturbed /\ "loose" \notin wrong' /\ Clean'
         /\ \A q \in Requests : req[q].op = "none"
         /\ \A q \in Requests \ {p} : req'[q] = req[q]
         /\ req'[p].todo = td /\ req'[p].op = op /\ req'[p].op \in Editors
         /\ \E n : LaidOut(n)
PROOF
  <1>1. wrong \subseteq wrong' /\ faults' = faults /\ Mixes(p, op, s) \subseteq wrong' /\ op \in {"start", "edit"}
    BY DEF Edits
  <1>2. Undisturbed /\ "loose" \notin wrong' /\ "mixed" \notin wrong' BY <1>1 DEF Undisturbed
  <1>3. \A q \in Busy \ {p} : op \in Work BY <1>1, <1>2, Unmixed
  <1>4. op \notin Work BY <1>1 DEF Work
  <1>5. ASSUME NEW q \in Requests PROVE req[q].op = "none"
    <2>1. p \notin Busy BY DEF Edits, Busy
    <2>2. q \notin Busy BY <1>3, <1>4, <2>1
    <2> QED BY <2>2, RequestFacts DEF Base
  <1>6. Fits(<<>>) BY <1>2, <1>5 DEF Structure, Editors
  <1>7. \E n : LaidOut(n) BY <1>6, LaidOutFacts
  <1>8. req' = [req EXCEPT ![p] = Request(op, s, td, "idle")] /\ req \in [Requests -> RequestType]
    BY DEF Edits, Base, TypeOK
  <1>9. Request(op, s, td, "idle").todo = td /\ Request(op, s, td, "idle").op = op BY DEF Request
  <1>10. op \in Editors BY <1>1 DEF Editors
  <1> QED BY <1>2, <1>5, <1>7, <1>8, <1>9, <1>10 DEF Clean

LEMMA EditKeeps ==
  ASSUME Base, Structure, NEW p \in Requests, NEW op, NEW s, NEW td, Edits(p, op, s, td), Undisturbed' => Fits(td)'
  PROVE  Structure'
PROOF
  <1> SUFFICES ASSUME Undisturbed'
               PROVE  /\ \A q \in Requests : req'[q].op \in Editors => Fitting(q)'
                      /\ (\A q \in Requests : req'[q].op \notin Editors) => Fits(<<>>)'
    BY DEF Structure
  <1>1. /\ \A q \in Requests : req[q].op = "none"
        /\ \A q \in Requests \ {p} : req'[q] = req[q]
        /\ req'[p].todo = td /\ req'[p].op \in Editors
    BY EditAlone
  <1>2. \A q \in Requests \ {p} : req'[q].op \notin Editors BY <1>1 DEF Editors
  <1>3. Fitting(p)' BY <1>1 DEF Fitting
  <1> QED BY <1>1, <1>2, <1>3

LEMMA EditStructure ==
  ASSUME Base, Structure, Undisturbed => Settled, NEW p \in Requests, EditStep(p)
  PROVE  Structure'
PROOF
  <1>1. ASSUME NEW specs, NEW td, Started(p, specs, td) PROVE Structure'
    <2>1. Edits(p, "start", 0, td) BY <1>1 DEF Started
    <2>2. Undisturbed' => Fits(td)' BY <1>1, <2>1, EditAlone, StartFits
    <2> QED BY <2>1, <2>2, EditKeeps
  <1>2. ASSUME NEW w, Unanswered(p, w) PROVE Structure'
    <2>1. PICK td : td = <<w>> OBVIOUS
    <2>2. Edits(p, "start", 0, td) BY <1>2, <2>1 DEF Unanswered
    <2>3. Undisturbed' => Fits(td)' BY <1>2, <2>1, <2>2, EditAlone, UnansweredFits
    <2> QED BY <2>2, <2>3, EditKeeps
  <1>3. ASSUME NEW at \in Nat \ {0}, NEW tool, NEW deps, NEW td, Created(p, at, tool, deps, td) PROVE Structure'
    <2>1. Edits(p, "edit", 0, td) BY <1>3 DEF Created
    <2>2. Undisturbed' => Fits(td)' BY <1>3, <2>1, EditAlone, CreateFits
    <2> QED BY <2>1, <2>2, EditKeeps
  <1>4. ASSUME NEW s, NEW t, NEW td, Swapped(p, s, t, td) PROVE Structure'
    <2>1. Edits(p, "edit", s, td) BY <1>4 DEF Swapped
    <2>2. Undisturbed' => Fits(td)' BY <1>4, <2>1, EditAlone, MoveFits
    <2> QED BY <2>1, <2>2, EditKeeps
  <1>5. ASSUME NEW s, NEW td, Deleted(p, s, td) PROVE Structure'
    <2>1. Edits(p, "edit", s, td) BY <1>5 DEF Deleted
    <2>2. Undisturbed' => Fits(td)' BY <1>5, <2>1, EditAlone, DeleteFits
    <2> QED BY <2>1, <2>2, EditKeeps
  <1>6. ASSUME NEW s, NEW tool, NEW deps, NEW w, Updated(p, s, tool, deps, w) PROVE Structure'
    <2>1. PICK td : td = <<w>> OBVIOUS
    <2>2. Edits(p, "edit", s, td) BY <1>6, <2>1 DEF Updated
    <2>3. Undisturbed' => Fits(td)' BY <1>6, <2>1, <2>2, EditAlone, UpdateFits
    <2> QED BY <2>2, <2>3, EditKeeps
  <1>7. ASSUME NEW specs, NEW td, Adjusted(p, specs, td) PROVE Structure'
    <2>1. Edits(p, "edit", 0, td) BY <1>7 DEF Adjusted
    <2>2. Undisturbed' => Fits(td)' BY <1>7, <2>1, EditAlone, AdjustFits
    <2> QED BY <2>1, <2>2, EditKeeps
  <1>8. ASSUME NEW s, NEW w, Accepted(p, s, w) PROVE Structure'
    <2>1. PICK td : td = <<w>> OBVIOUS
    <2>2. Edits(p, "edit", s, td) BY <1>8, <2>1 DEF Accepted
    <2>3. Undisturbed' => Fits(td)' BY <1>8, <2>1, <2>2, EditAlone, AcceptFits
    <2> QED BY <2>2, <2>3, EditKeeps
  <1> QED BY <1>1, <1>2, <1>3, <1>4, <1>5, <1>6, <1>7, <1>8, EditStepFacts

\* A step that writes no row and begins no edit.
LEMMA ElseKeeps ==
  ASSUME Base, Structure, steps' = steps, plan' = plan, needs' = needs, Undisturbed' => Undisturbed,
         \A q \in Requests : req'[q] = req[q] \/ (req'[q].op \notin Editors /\ req[q].op \notin Editors)
  PROVE  Structure'
PROOF
  <1> SUFFICES ASSUME Undisturbed
               PROVE  /\ \A q \in Requests : req'[q].op \in Editors => Fitting(q)'
                      /\ (\A q \in Requests : req'[q].op \notin Editors) => Fits(<<>>)'
    BY DEF Structure
  <1>1. ASSUME NEW td, Fits(td) PROVE Fits(td)' BY <1>1, SameFits DEF Base
  <1>2. ASSUME NEW q \in Requests, req'[q].op \in Editors PROVE Fitting(q)'
    <2>1. req'[q] = req[q] BY <1>2
    <2>2. PICK td : td = req[q].todo OBVIOUS
    <2>3. Fits(td) BY <1>2, <2>1, <2>2 DEF Structure, Fitting
    <2>4. Fits(td)' /\ req'[q].todo = td BY <1>1, <2>1, <2>2, <2>3
    <2> QED BY <2>4 DEF Fitting
  <1>3. ASSUME \A q \in Requests : req'[q].op \notin Editors PROVE Fits(<<>>)'
    <2>1. \A q \in Requests : req[q].op \notin Editors BY <1>3
    <2>2. Fits(<<>>) BY <2>1 DEF Structure
    <2> QED BY <1>1, <2>2
  <1> QED BY <1>2, <1>3

LEMMA WorkStructure ==
  ASSUME Base, Structure, NEW p \in Requests, NEW op, NEW s, NEW td, NEW then, Works(p, op, s, td, then)
  PROVE  Structure'
PROOF
  <1>1. /\ steps' = steps /\ plan' = plan /\ needs' = needs /\ faults' = faults /\ wrong \subseteq wrong'
        /\ req' = [req EXCEPT ![p] = Request(op, s, td, then)] /\ op \in Workers /\ (At(p, "idle") \/ At(p, "execute"))
    BY DEF Works
  <1>2. Undisturbed' => Undisturbed BY <1>1 DEF Undisturbed
  <1>3. Request(op, s, td, then).op = op /\ op \notin Editors BY <1>1 DEF Request, Workers, Editors, Work
  <1>4. req[p].op \notin Editors
    <2>1. CASE At(p, "idle") BY <2>1, RequestFacts DEF Base, Busy, Editors
    <2>2. CASE At(p, "execute") BY <2>2, AtExecute DEF Editors
    <2> QED BY <1>1, <2>1, <2>2
  <1>5. req \in [Requests -> RequestType] BY DEF Base, TypeOK
  <1>6. \A q \in Requests : req'[q] = req[q] \/ (req'[q].op \notin Editors /\ req[q].op \notin Editors)
    BY <1>1, <1>3, <1>4, <1>5
  <1> QED BY <1>1, <1>2, <1>6, ElseKeeps

LEMMA BetweenStructure ==
  ASSUME Base, Structure, NEW p \in Requests,
         StartFails(p) \/ Fault(p) \/ ExecuteRefused(p) \/ Run(p) \/ Settle(p) \/ Pick(p) \/ ContinuePlanningRun(p)
  PROVE  Structure'
PROOF
  <1>1. CASE StartFails(p) \/ Fault(p)
    <2>1. faults' = faults + 1 /\ faults \in Nat BY <1>1 DEF StartFails, Fault, Base, TypeOK
    <2>2. ~(faults + 1 = 0) BY <2>1
    <2> QED BY <2>1, <2>2 DEF Structure, Undisturbed
  <1>2. CASE ExecuteRefused(p) \/ Run(p) \/ Settle(p) \/ Pick(p) \/ ContinuePlanningRun(p)
    <2>1. /\ steps' = steps /\ plan' = plan /\ needs' = needs /\ faults' = faults /\ wrong \subseteq wrong'
          /\ req[p].pc \in {"work", "settle", "pick", "execute", "idle"}
      BY <1>2 DEF ExecuteRefused, Run, Settle, Pick, ContinuePlanningRun, history, At
    <2>2. Undisturbed' => Undisturbed BY <2>1 DEF Undisturbed
    <2>3. req[p].op \notin Editors
      <3>1. CASE req[p].pc = "idle" BY <3>1, RequestFacts DEF Base, Busy, Editors, At
      <3>2. CASE req[p].pc # "idle" BY <2>1, <3>2, Between DEF Editors, Workers, Work
      <3> QED BY <3>1, <3>2
    <2>4. ASSUME NEW r, req' = [req EXCEPT ![p] = r], r.op \notin Editors PROVE Structure'
      <3>1. req \in [Requests -> RequestType] BY DEF Base, TypeOK
      <3>2. \A q \in Requests : req'[q] = req[q] \/ (req'[q].op \notin Editors /\ req[q].op \notin Editors)
        BY <2>3, <2>4, <3>1
      <3> QED BY <2>1, <2>2, <3>2, ElseKeeps
    <2>5. End(p) => Structure' BY <2>4 DEF End, Go, Idle, Editors
    <2>6. Go(p, Loop) => Structure' BY <2>4 DEF Go, Loop, Idle, Editors
    <2>7. CASE ExecuteRefused(p) BY <2>5, <2>7 DEF ExecuteRefused
    <2>8. CASE Run(p)
      <3>1. PICK e \in Endings(req[p].step) : req' = [req EXCEPT ![p] = Ended(p, e[1], e[2])] BY <2>8, RunFacts
      <3>2. Ended(p, e[1], e[2]).op = req[p].op BY DEF Ended
      <3> QED BY <2>3, <2>4, <3>1, <3>2
    <2>9. CASE Settle(p)
      <3>1. Completing(p).op = req[p].op BY DEF Completing, Request
      <3> QED BY <2>3, <2>4, <2>5, <2>6, <2>9, <3>1, SettleFacts
    <2>10. CASE Pick(p)
      <3>1. \A s : Picked(s).op \notin Editors BY DEF Picked, Editors
      <3> QED BY <2>4, <2>5, <2>10, <3>1, PickFacts
    <2>11. CASE ContinuePlanningRun(p) BY <2>6, <2>11 DEF ContinuePlanningRun
    <2> QED BY <1>2, <2>7, <2>8, <2>9, <2>10, <2>11
  <1> QED BY <1>1, <1>2

LEMMA StructureStep == Base /\ Apart /\ Held /\ Structure /\ (Undisturbed => Settled) /\ [Next]_vars => Structure'
PROOF
  <1> SUFFICES ASSUME Base, Apart, Held, Structure, Undisturbed => Settled, [Next]_vars PROVE Structure' OBVIOUS
  <1>1. CASE UNCHANGED vars \/ EditAgent
    <2>1. /\ steps' = steps /\ plan' = plan /\ needs' = needs /\ faults' = faults /\ wrong \subseteq wrong' /\ req' = req
      BY <1>1 DEF vars, EditAgent
    <2>2. Undisturbed' => Undisturbed BY <2>1 DEF Undisturbed
    <2> QED BY <2>1, <2>2, ElseKeeps
  <1>2. ASSUME NEW p \in Requests, EditStep(p) PROVE Structure' BY <1>2, EditStructure
  <1>3. ASSUME NEW p \in Requests, ExecutePlanStep(p) PROVE Structure' BY <1>3, ExecuteFacts, WorkStructure
  <1>4. ASSUME NEW p \in Requests, SkipPlanStep(p) PROVE Structure' BY <1>4, SkipFacts, WorkStructure
  <1>5. ASSUME NEW p \in Requests, RetryPlanStep(p) PROVE Structure' BY <1>5, RetryFacts, WorkStructure
  <1>6. ASSUME NEW p \in Requests, Statement(p) PROVE Structure'
    <2>1. Base' BY BaseStep
    <2> QED BY <1>6, <2>1, StatementStructure DEF Held
  <1>7. CASE Next BY <1>1, <1>2, <1>3, <1>4, <1>5, <1>6, <1>7, NextCases, BetweenStructure
  <1> QED BY <1>1, <1>7

-----------------------------------------------------------------------------
(* What a step waits for                                                    *)

Prerequisites(s) == IF needs[s] # {} THEN needs[s] ELSE Before(s)
Ready(s) == \A t \in Prerequisites(s) : t \in Live /\ Done(t)

\* A request that is going to run its step, runs it or ends it.
Commits(r) ==
  \/ r.pc = "work" \/ (r.pc \in {"write", "store"} /\ r.then = "work")
  \/ \E k \in DOMAIN r.todo : DoneBy(r.todo[k])

\* An edit deletes, and changes the status of, steps that are not done.
Gentle(w) == w.kind = "delete" \/ Sets(w, "status") => ~Done(w.step)
Spares(td) == \A k \in DOMAIN td : Gentle(td[k])
Spared == \A q \in Requests : req[q].op \in Editors => Spares(req[q].todo)
Waited == \A q \in Requests : Commits(req[q]) => Ready(req[q].step)

\* Without faults, edits leave done steps alone, what a done step depends on is done, and a
\* request that runs a step has waited for those before it.
Orderly == Undisturbed => Spared /\ Settled /\ Waited /\ "early" \notin wrong

LEMMA SameReady ==
  ASSUME steps' = steps, plan' = plan, needs' = needs
  PROVE  /\ \A s : Ready(s) => Ready(s)'
         /\ \A td : Spares(td) => Spares(td)'
         /\ Settled => Settled'
PROOF
  <1>1. Live' = Live /\ \A s : Done(s)' <=> Done(s) BY DEF Live, Done
  <1>2. ASSUME NEW s, Ready(s) PROVE Ready(s)' BY <1>1, <1>2 DEF Ready, Prerequisites, Before
  <1>3. ASSUME NEW td, Spares(td) PROVE Spares(td)' BY <1>1, <1>3 DEF Spares, Gentle
  <1>4. Settled => Settled' BY <1>1 DEF Settled
  <1> QED BY <1>2, <1>3, <1>4

\* A step that writes no row and begins no edit.
LEMMA ElseOrderly ==
  ASSUME Base, Orderly, steps' = steps, plan' = plan, needs' = needs, Undisturbed' => Undisturbed,
         NEW p \in Requests, NEW r, req' = [req EXCEPT ![p] = r], r.op \notin Editors,
         Undisturbed' /\ Commits(r) => Ready(r.step), Undisturbed' => "early" \notin wrong'
  PROVE  Orderly'
PROOF
  <1> SUFFICES ASSUME Undisturbed' PROVE Spared' /\ Settled' /\ Waited' BY DEF Orderly
  <1>1. Spared /\ Settled /\ Waited BY DEF Orderly
  <1>2. req \in [Requests -> RequestType] BY DEF Base, TypeOK
  <1>3. \A q \in Requests : req'[q] = req[q] \/ (q = p /\ req'[q] = r) BY <1>2
  <1>4. ASSUME NEW q \in Requests, req'[q].op \in Editors PROVE Spares(req[q].todo)'
    <2>1. req'[q] = req[q] BY <1>3, <1>4
    <2>2. PICK td : td = req[q].todo OBVIOUS
    <2>3. Spares(td) BY <1>1, <1>4, <2>1, <2>2 DEF Spared
    <2>4. Spares(td)' /\ req'[q].todo = td BY <2>1, <2>2, <2>3, SameReady
    <2> QED BY <2>4 DEF Spares
  <1>5. ASSUME NEW q \in Requests, Commits(req'[q]) PROVE Ready(req[q].step)'
    <2>1. PICK x : x = req'[q].step OBVIOUS
    <2>2. Ready(x)
      <3>1. CASE req'[q] = req[q] BY <1>1, <1>5, <2>1, <3>1 DEF Waited
      <3>2. CASE q = p /\ req'[q] = r BY <1>5, <2>1, <3>2
      <3> QED BY <1>3, <3>1, <3>2
    <2>3. Ready(x)' BY <2>2, SameReady
    <2> QED BY <2>1, <2>3 DEF Ready, Prerequisites, Before
  <1>6. Settled' BY <1>1, SameReady
  <1>7. Spared' BY <1>4 DEF Spared
  <1>8. Waited'
    <2>1. ASSUME NEW q \in Requests, Commits(req[q])' PROVE Ready(req[q].step)'
      <3>1. Commits(req'[q]) BY <2>1 DEF Commits, DoneBy, Sets
      <3> QED BY <1>5, <3>1
    <2> QED BY <2>1 DEF Waited
  <1> QED BY <1>6, <1>7, <1>8

\* ensurePriorPlanStepsDone, read from the indices, is about the steps the user meant.
LEMMA PriorIsReady ==
  ASSUME NEW n, LaidOut(n), NEW s \in Live, PriorDone(s)
  PROVE  Ready(s)
PROOF
  <1>1. n \in Nat /\ DOMAIN plan = 1..n /\ Index(s) \in 1..n BY DEF LaidOut
  <1>2. PICK deps : deps = steps[s].deps OBVIOUS
  <1>3. deps \subseteq 1..n /\ {plan[d] : d \in deps} = needs[s] BY <1>1, <1>2 DEF LaidOut, RightIn
  <1>4. ASSUME NEW i \in 1..n, i \in Wanted(s) PROVE plan[i] \in Live /\ Done(plan[i])
    <2>1. PICK t \in AtIndex(i) : Done(t) BY <1>4 DEF PriorDone
    <2>2. t \in Live /\ Index(t) = i BY <2>1 DEF AtIndex
    <2>3. plan[i] = t BY <2>2 DEF LaidOut
    <2> QED BY <2>1, <2>2, <2>3
  <1>5. CASE needs[s] # {}
    <2>1. deps # {} BY <1>3, <1>5
    <2>2. Wanted(s) = deps BY <1>2, <2>1 DEF Wanted
    <2>3. \A t \in needs[s] : \E d \in deps : t = plan[d] BY <1>3
    <2>4. \A t \in needs[s] : t \in Live /\ Done(t) BY <1>3, <1>4, <2>2, <2>3
    <2> QED BY <1>5, <2>4 DEF Ready, Prerequisites
  <1>6. CASE needs[s] = {}
    <2>1. deps = {} BY <1>3, <1>6
    <2>2. Wanted(s) = {Index(t) : t \in {u \in Live : Index(u) < Index(s)}} BY <1>2, <2>1 DEF Wanted
    <2>3. ASSUME NEW j \in DOMAIN plan, NEW k \in DOMAIN plan, plan[k] = s, j < k PROVE plan[j] \in Live /\ Done(plan[j])
      <3>1. j \in 1..n /\ k \in 1..n BY <1>1
      <3>2. Index(s) = k /\ plan[j] \in Live /\ Index(plan[j]) = j BY <2>3, <3>1 DEF LaidOut
      <3>3. j \in Wanted(s) BY <2>2, <2>3, <3>2
      <3> QED BY <1>4, <3>1, <3>3
    <2>4. \A t \in Before(s) : t \in Live /\ Done(t) BY <2>3 DEF Before
    <2> QED BY <1>6, <2>4 DEF Ready, Prerequisites
  <1> QED BY <1>5, <1>6

\* Work that mixes with nothing begins when nobody edits the plan.
LEMMA WorkAlone ==
  ASSUME Base, Structure, NEW p \in Requests, NEW op, NEW s, NEW td, NEW then, Works(p, op, s, td, then), Undisturbed'
  PROVE  Undisturbed /\ \E n : LaidOut(n)
PROOF
  <1>1. wrong' = wrong \cup Mixes(p, op, s) /\ faults' = faults /\ (At(p, "idle") \/ At(p, "execute")) BY DEF Works
  <1>2. Undisturbed /\ "mixed" \notin Mixes(p, op, s) BY <1>1 DEF Undisturbed
  <1>3. \A q \in Busy \ {p} : req[q].op \in Work BY <1>2, Unmixed
  <1>4. req[p].op \notin Editors
    <2>1. CASE At(p, "idle") BY <2>1, RequestFacts DEF Base, Busy, Editors
    <2>2. CASE At(p, "execute") BY <2>2, AtExecute DEF Editors
    <2> QED BY <1>1, <2>1, <2>2
  <1>5. ASSUME NEW q \in Requests PROVE req[q].op \notin Editors
    <2>1. CASE q = p BY <1>4, <2>1
    <2>2. CASE q \in Busy \ {p} BY <1>3, <2>2 DEF Work, Editors
    <2>3. CASE q \notin Busy BY <2>3, RequestFacts DEF Base, Editors
    <2> QED BY <2>1, <2>2, <2>3
  <1>6. Fits(<<>>) BY <1>2, <1>5 DEF Structure
  <1> QED BY <1>2, <1>6, LaidOutFacts

LEMMA WorkOrderly ==
  ASSUME Base, Structure, Orderly, NEW p \in Requests, NEW op, NEW s, NEW td, NEW then, Works(p, op, s, td, then),
         then = "work" \/ (\E k \in DOMAIN td : DoneBy(td[k])) => PriorDone(s)
  PROVE  Orderly'
PROOF
  <1> DEFINE r == Request(op, s, td, then)
  <1>1. /\ steps' = steps /\ plan' = plan /\ needs' = needs /\ faults' = faults /\ wrong' = wrong \cup Mixes(p, op, s)
        /\ req' = [req EXCEPT ![p] = r] /\ op \in Workers /\ s \in Live
    BY DEF Works
  <1>2. Undisturbed' => Undisturbed BY <1>1 DEF Undisturbed
  <1>3. r.op = op /\ op \notin Editors /\ r.pc = "write" /\ r.todo = td /\ r.then = then /\ r.step = s
    BY <1>1 DEF Request, Workers, Editors, Work
  <1>4. Undisturbed' => "early" \notin wrong' BY <1>1, <1>2, MixesType DEF Orderly
  <1> HIDE DEF r
  <1>5. ASSUME Undisturbed', Commits(r) PROVE Ready(s)
    <2>1. PriorDone(s) BY <1>3, <1>5 DEF Commits
    <2> QED BY <1>1, <1>5, <2>1, WorkAlone, PriorIsReady
  <1> QED BY <1>1, <1>2, <1>3, <1>4, <1>5, ElseOrderly

LEMMA ExecuteOrderly ==
  ASSUME Base, Structure, Orderly, NEW p \in Requests, ExecutePlanStep(p)
  PROVE  Orderly'
PROOF
  <1>1. PICK s \in Live :
          /\ Executable(s)
          /\ \/ Rejudge(s) /\ Works(p, "execute", s, <<ToApprove(s)>>, "idle")
             \/ /\ ~Rejudge(s) /\ PriorDone(s)
                /\ \E op \in {"execute", "continue"} : Works(p, op, s, <<SetStatus(s, "running")>>, "work")
    BY ExecuteFacts
  <1>2. CASE Works(p, "execute", s, <<ToApprove(s)>>, "idle")
    <2>1. ~DoneBy(ToApprove(s)) BY DEF ToApprove, Set, DoneBy, Sets
    <2>2. \A k \in DOMAIN <<ToApprove(s)>> : ~DoneBy(<<ToApprove(s)>>[k]) BY <2>1
    <2> QED BY <1>2, <2>2, WorkOrderly
  <1>3. ASSUME NEW op, Works(p, op, s, <<SetStatus(s, "running")>>, "work"), PriorDone(s) PROVE Orderly'
    BY <1>3, WorkOrderly
  <1> QED BY <1>1, <1>2, <1>3

LEMMA SkipOrderly ==
  ASSUME Base, Structure, Orderly, NEW p \in Requests, SkipPlanStep(p)
  PROVE  Orderly'
PROOF BY SkipFacts, WorkOrderly

LEMMA RetryOrderly ==
  ASSUME Base, Structure, Orderly, NEW p \in Requests, RetryPlanStep(p)
  PROVE  Orderly'
PROOF
  <1>1. PICK s \in Live, then \in {"idle", "execute"} :
          Works(p, "retry", s, <<SetRun("pending_approval"), ToRetry(s)>>, then)
    BY RetryFacts
  <1>2. ~DoneBy(ToRetry(s)) BY RetryRowFacts DEF ToRetry, Set, DoneBy
  <1>3. ~DoneBy(SetRun("pending_approval")) BY DEF SetRun, DoneBy, Sets
  <1>4. PICK v : v = SetRun("pending_approval") OBVIOUS
  <1>5. PICK w : w = ToRetry(s) OBVIOUS
  <1>6. \A k \in DOMAIN <<v, w>> : ~DoneBy(<<v, w>>[k])
    <2>1. ~DoneBy(v) /\ ~DoneBy(w) BY <1>2, <1>3, <1>4, <1>5
    <2>2. DOMAIN <<v, w>> = {1, 2} /\ <<v, w>>[1] = v /\ <<v, w>>[2] = w OBVIOUS
    <2> QED BY <2>1, <2>2
  <1>7. Works(p, "retry", s, <<v, w>>, then) BY <1>1, <1>4, <1>5
  <1> QED BY <1>6, <1>7, WorkOrderly

LEMMA BetweenOrderly ==
  ASSUME Base, Orderly, NEW p \in Requests,
         StartFails(p) \/ Fault(p) \/ ExecuteRefused(p) \/ Run(p) \/ Settle(p) \/ Pick(p) \/ ContinuePlanningRun(p)
  PROVE  Orderly'
PROOF
  <1>1. CASE StartFails(p) \/ Fault(p)
    <2>1. faults' = faults + 1 /\ faults \in Nat BY <1>1 DEF StartFails, Fault, Base, TypeOK
    <2>2. ~(faults + 1 = 0) BY <2>1
    <2> QED BY <2>1, <2>2 DEF Orderly, Undisturbed
  <1>2. CASE Run(p)
    <2>1. req[p].pc = "work" BY <1>2 DEF Run, At
    <2>2. /\ steps' = steps /\ plan' = plan /\ needs' = needs /\ faults' = faults /\ wrong \subseteq wrong'
          /\ wrong' \subseteq wrong \cup {"unapproved"} \cup IF Early(req[p].step) THEN {"early"} ELSE {}
      BY <1>2 DEF Run
    <2>3. Undisturbed' => Undisturbed BY <2>2 DEF Undisturbed
    <2>4. Undisturbed => Ready(req[p].step) BY <2>1 DEF Orderly, Waited, Commits
    <2>5. Ready(req[p].step) => ~Early(req[p].step) BY DEF Ready, Prerequisites, Early
    <2>6. Undisturbed' => "early" \notin wrong' BY <2>2, <2>3, <2>4, <2>5 DEF Orderly
    <2>7. PICK e \in Endings(req[p].step) : req' = [req EXCEPT ![p] = Ended(p, e[1], e[2])] BY <1>2, RunFacts
    <2>8. Ended(p, e[1], e[2]).op \notin Editors /\ Ended(p, e[1], e[2]).step = req[p].step
      BY <2>1, Between DEF Ended, Workers, Work, Editors
    <2> QED BY <2>2, <2>3, <2>4, <2>6, <2>7, <2>8, ElseOrderly
  <1>3. CASE ExecuteRefused(p) \/ Settle(p) \/ Pick(p) \/ ContinuePlanningRun(p)
    <2>1. steps' = steps /\ plan' = plan /\ needs' = needs /\ faults' = faults /\ wrong' = wrong
      BY <1>3 DEF ExecuteRefused, Settle, Pick, ContinuePlanningRun, history
    <2>2. Undisturbed' => Undisturbed BY <2>1 DEF Undisturbed
    <2>3. Undisturbed' => "early" \notin wrong' BY <2>1, <2>2 DEF Orderly
    <2>4. ASSUME NEW r, req' = [req EXCEPT ![p] = r], r.op \notin Editors, ~Commits(r) PROVE Orderly'
      BY <2>1, <2>2, <2>3, <2>4, ElseOrderly
    <2>5. /\ ~Commits(Idle) /\ Idle.op \notin Editors
          /\ ~Commits(Loop) /\ Loop.op \notin Editors
          /\ \A s : ~Commits(Picked(s)) /\ Picked(s).op \notin Editors
      <3>1. ASSUME NEW r, r.pc \in {"idle", "pick", "execute"}, r.todo = <<>> PROVE ~Commits(r)
        <4>1. \A k : k \notin DOMAIN r.todo BY <3>1
        <4> QED BY <3>1, <4>1 DEF Commits
      <3>2. Idle.pc = "idle" /\ Idle.todo = <<>> /\ Idle.op = "none" BY DEF Idle
      <3>3. Loop.pc = "pick" /\ Loop.todo = <<>> /\ Loop.op = "continue" BY LoopIs
      <3>4. \A s : Picked(s).pc = "execute" /\ Picked(s).todo = <<>> /\ Picked(s).op = "continue" BY DEF Picked
      <3> QED BY <3>1, <3>2, <3>3, <3>4 DEF Editors
    <2>6. End(p) => Orderly' BY <2>4, <2>5 DEF End, Go
    <2>7. Go(p, Loop) => Orderly' BY <2>4, <2>5 DEF Go
    <2>8. CASE ExecuteRefused(p) BY <2>6, <2>8 DEF ExecuteRefused
    <2>9. CASE Settle(p)
      <3>1. req[p].pc = "settle" BY <2>9 DEF Settle, At
      <3>2. Completing(p).op \notin Editors BY <3>1, Between DEF Completing, Request, Workers, Work, Editors
      <3>3. /\ Completing(p).todo = <<SetRun("completed")>> /\ Completing(p).then \in {"pick", "idle"}
            /\ Completing(p).pc = "write"
        BY DEF Completing, Request
      <3>4. ~DoneBy(SetRun("completed")) BY DEF SetRun, DoneBy, Sets
      <3>5. ~Commits(Completing(p)) BY <3>3, <3>4 DEF Commits
      <3> QED BY <2>4, <2>6, <2>7, <2>9, <3>2, <3>5, SettleFacts
    <2>10. CASE Pick(p) BY <2>4, <2>5, <2>6, <2>10, PickFacts
    <2>11. CASE ContinuePlanningRun(p) BY <2>7, <2>11 DEF ContinuePlanningRun
    <2> QED BY <1>3, <2>8, <2>9, <2>10, <2>11
  <1> QED BY <1>1, <1>2, <1>3

-----------------------------------------------------------------------------
(* An edit leaves done steps alone                                          *)

LEMMA GentleKinds ==
  /\ \A w, s, i : Moving(w, s, i) /\ ~Done(s) => Gentle(w)
  /\ \A w, s, deps : Rewriting(w, s, deps) => Gentle(w)
  /\ \A w, s, i, tool, deps : Inserting(w, s, i, tool, deps) => Gentle(w)
  /\ \A w, s : Deleting(w, s) /\ ~Done(s) => Gentle(w)
  /\ \A w, status : Pausing(w, status) => Gentle(w)
PROOF
  <1>1. \A w, s, i : Moving(w, s, i) /\ ~Done(s) => Gentle(w) BY DEF Moving, Gentle
  <1>2. \A w, s, deps : Rewriting(w, s, deps) => Gentle(w) BY DEF Rewriting, Gentle, Sets
  <1>3. \A w, s, i, tool, deps : Inserting(w, s, i, tool, deps) => Gentle(w) BY DEF Inserting, Gentle, Sets
  <1>4. \A w, s : Deleting(w, s) /\ ~Done(s) => Gentle(w) BY DEF Deleting, Gentle
  <1>5. \A w, status : Pausing(w, status) => Gentle(w) BY DEF Pausing, Gentle, Sets
  <1> QED BY <1>1, <1>2, <1>3, <1>4, <1>5

LEMMA AdjustableIsOpen == \A s : Adjustable(s) \/ Replaceable(s) => ~Done(s)
PROOF BY DEF Adjustable, Replaceable, Done

\* The steps listed from a set are of that set.
LEMMA ListedIn ==
  ASSUME TypeOK, Unique, NEW S \in SUBSET Live, NEW list, list = InOrder(S)
  PROVE  Len(list) \in Nat /\ \A k \in 1..Len(list) : list[k] \in S
PROOF BY InOrderSorted, SortedFacts

LEMMA RewritesGentle ==
  ASSUME NEW td, NEW from, NEW S, NEW to, Rewrites(td, from, S, to)
  PROVE  \A k \in (from + 1)..Len(td) : Gentle(td[k])
PROOF BY GentleKinds DEF Rewrites

LEMMA CreatedSpares ==
  ASSUME Base, NEW p \in Requests, NEW at \in Nat \ {0}, NEW tool, NEW deps, NEW td, Created(p, at, tool, deps, td)
  PROVE  Spares(td)
PROOF
  <1>1. PICK list : list = InOrder(Moved(at)) OBVIOUS
  <1>2. PICK n : n = Len(list) OBVIOUS
  <1>3. n \in Nat /\ \A k \in 1..n : list[k] \in Moved(at)
    <2>1. Moved(at) \in SUBSET Live BY DEF Moved
    <2> QED BY <1>1, <1>2, <2>1, ListedIn DEF Base
  <1>4. \A k \in 1..n : ~Done(list[k]) BY <1>3, AdjustableIsOpen DEF Created
  <1>5. PICK to : to = UpFrom(at) OBVIOUS
  <1>6. PICK d : d = NewDeps(deps, to) OBVIOUS
  <1>7. CreateLayout(td, list, made + 1, at, tool, d, to) BY <1>1, <1>5, <1>6 DEF Created
  <1>8. /\ td \in Seq(PlainStatements)
        /\ \A k \in 1..n : Moving(td[k], list[k], MaxIndex + k)
        /\ Inserting(td[n + 1], made + 1, at, tool, d)
        /\ \A k \in 1..n : Moving(td[n + 1 + k], list[k], Index(list[k]) + 1)
        /\ Rewrites(td, n + 1 + n, Live, to)
    BY <1>2, <1>7 DEF CreateLayout
  <1>9. DOMAIN td = 1..Len(td) /\ Len(td) \in Nat BY <1>8, DomainOf
  <1>10. \A k \in 1..n : Gentle(td[k]) BY <1>4, <1>8, GentleKinds
  <1>11. \A k \in 1..n : Gentle(td[n + 1 + k]) BY <1>4, <1>8, GentleKinds
  <1>12. Gentle(td[n + 1]) BY <1>8, GentleKinds
  <1>13. \A k \in (n + 1 + n + 1)..Len(td) : Gentle(td[k]) BY <1>8, RewritesGentle
  <1>14. ASSUME NEW k \in 1..Len(td) PROVE Gentle(td[k])
    <2>1. k \in Nat /\ (k \in 1..n \/ k = n + 1 \/ k - (n + 1) \in 1..n \/ k \in (n + 1 + n + 1)..Len(td)) BY <1>3, <1>9
    <2>2. CASE k - (n + 1) \in 1..n
      <3>1. n + 1 + (k - (n + 1)) = k BY <1>3, <2>1
      <3> QED BY <1>11, <2>2, <3>1
    <2> QED BY <1>10, <1>12, <1>13, <2>1, <2>2
  <1> QED BY <1>9, <1>14 DEF Spares

LEMMA SwappedSpares ==
  ASSUME Base, NEW p \in Requests, NEW s, NEW t, NEW td, Swapped(p, s, t, td)
  PROVE  Spares(td)
PROOF
  <1>1. ~Done(s) /\ ~Done(t) BY AdjustableIsOpen DEF Swapped
  <1>2. MoveLayout(td, s, t, Swap(s, t)) BY DEF Swapped
  <1>3. /\ td \in Seq(PlainStatements)
        /\ Moving(td[1], s, MaxIndex + 1) /\ Moving(td[2], t, Index(s)) /\ Moving(td[3], s, Index(t))
        /\ Rewrites(td, 3, Live, Swap(s, t))
    BY <1>2 DEF MoveLayout
  <1>4. DOMAIN td = 1..Len(td) /\ Len(td) \in Nat BY <1>3, DomainOf
  <1>5. Gentle(td[1]) /\ Gentle(td[2]) /\ Gentle(td[3]) BY <1>1, <1>3, GentleKinds
  <1>6. PICK from : from = 3 OBVIOUS
  <1>7. Rewrites(td, from, Live, Swap(s, t)) BY <1>3, <1>6
  <1>8. \A k \in (from + 1)..Len(td) : Gentle(td[k]) BY <1>7, RewritesGentle
  <1>9. \A k \in 1..Len(td) : k = 1 \/ k = 2 \/ k = 3 \/ k \in (from + 1)..Len(td) BY <1>4, <1>6
  <1> QED BY <1>4, <1>5, <1>8, <1>9 DEF Spares

LEMMA DeletedSpares ==
  ASSUME Base, NEW p \in Requests, NEW s, NEW td, Deleted(p, s, td)
  PROVE  Spares(td)
PROOF
  <1>1. PICK list : list = InOrder(Later(s)) OBVIOUS
  <1>2. PICK n : n = Len(list) OBVIOUS
  <1>3. n \in Nat /\ \A k \in 1..n : list[k] \in Later(s)
    <2>1. Later(s) \in SUBSET Live BY DEF Later
    <2> QED BY <1>1, <1>2, <2>1, ListedIn DEF Base
  <1>4. ~Done(s) /\ \A k \in 1..n : ~Done(list[k]) BY <1>3, AdjustableIsOpen DEF Deleted
  <1>5. PICK to : to = DownFrom(s) OBVIOUS
  <1>6. PICK S : S = Live \ {s} OBVIOUS
  <1>7. DeleteLayout(td, s, list, to) BY <1>1, <1>5 DEF Deleted
  <1>8. /\ td \in Seq(PlainStatements)
        /\ Deleting(td[1], s)
        /\ \A k \in 1..n : Moving(td[1 + k], list[k], MaxIndex + k)
        /\ \A k \in 1..n : Moving(td[1 + n + k], list[k], Index(list[k]) - 1)
        /\ Rewrites(td, 1 + n + n, S, to)
    BY <1>2, <1>6, <1>7 DEF DeleteLayout
  <1>9. DOMAIN td = 1..Len(td) /\ Len(td) \in Nat BY <1>8, DomainOf
  <1>10. \A k \in 1..n : Gentle(td[1 + k]) BY <1>4, <1>8, GentleKinds
  <1>11. \A k \in 1..n : Gentle(td[1 + n + k]) BY <1>4, <1>8, GentleKinds
  <1>12. Gentle(td[1]) BY <1>4, <1>8, GentleKinds
  <1>13. \A k \in (1 + n + n + 1)..Len(td) : Gentle(td[k]) BY <1>8, RewritesGentle
  <1>14. ASSUME NEW k \in 1..Len(td) PROVE Gentle(td[k])
    <2>1. k \in Nat /\ (k = 1 \/ k - 1 \in 1..n \/ k - (1 + n) \in 1..n \/ k \in (1 + n + n + 1)..Len(td)) BY <1>3, <1>9
    <2>2. CASE k - (1 + n) \in 1..n
      <3>1. 1 + n + (k - (1 + n)) = k BY <1>3, <2>1
      <3> QED BY <1>11, <2>2, <3>1
    <2>3. CASE k - 1 \in 1..n
      <3>1. 1 + (k - 1) = k BY <1>3, <2>1
      <3> QED BY <1>10, <2>3, <3>1
    <2> QED BY <1>12, <1>13, <2>1, <2>2, <2>3
  <1> QED BY <1>9, <1>14 DEF Spares

LEMMA AdjustedSpares ==
  ASSUME Base, NEW p \in Requests, NEW specs, NEW td, Adjusted(p, specs, td)
  PROVE  Spares(td)
PROOF
  <1>1. PICK list : list = InOrder(Live \ Prefix) OBVIOUS
  <1>2. PICK n : n = Len(list) OBVIOUS
  <1>3. n \in Nat /\ \A k \in 1..n : list[k] \in Live \ Prefix
    <2>1. PICK S : S = Live \ Prefix OBVIOUS
    <2>2. S \in SUBSET Live /\ list = InOrder(S) BY <1>1, <2>1
    <2>3. Len(list) \in Nat /\ \A k \in 1..Len(list) : list[k] \in S BY <2>2, ListedIn DEF Base
    <2> QED BY <1>2, <2>1, <2>3
  <1>4. \A k \in 1..n : ~Done(list[k]) BY <1>3 DEF Prefix
  <1>5. PICK first : first = Cardinality(Prefix) + 1 OBVIOUS
  <1>6. AdjustLayout(td, list, first, specs) BY <1>1, <1>5 DEF Adjusted
  <1>7. PICK l : l = Len(specs) OBVIOUS
  <1>8. l \in Nat BY <1>7, PlanFacts DEF Adjusted
  <1>9. /\ td \in Seq(PlainStatements) /\ Len(td) = n + l + 1
        /\ \A k \in 1..n : Deleting(td[k], list[k])
        /\ \A k \in 1..l : Inserting(td[n + k], made + k, first + k - 1, specs[k].tool, specs[k].deps)
        /\ Pausing(td[n + l + 1], "pending_approval")
    BY <1>2, <1>6, <1>7 DEF AdjustLayout
  <1>10. DOMAIN td = 1..Len(td) BY <1>9, DomainOf
  <1>11. \A k \in 1..n : Gentle(td[k]) BY <1>4, <1>9, GentleKinds
  <1>12. \A k \in 1..l : Gentle(td[n + k]) BY <1>9, GentleKinds
  <1>13. Gentle(td[n + l + 1]) BY <1>9, GentleKinds
  <1>14. ASSUME NEW k \in 1..(n + l + 1) PROVE Gentle(td[k])
    <2>1. k \in Nat /\ (k \in 1..n \/ k - n \in 1..l \/ k = n + l + 1) BY <1>3, <1>8
    <2>2. CASE k - n \in 1..l
      <3>1. n + (k - n) = k BY <1>3, <2>1
      <3> QED BY <1>12, <2>2, <3>1
    <2> QED BY <1>11, <1>13, <2>1, <2>2
  <1> QED BY <1>9, <1>10, <1>14 DEF Spares

LEMMA StartedSpares ==
  ASSUME Base, NEW p \in Requests, NEW specs, NEW td, Started(p, specs, td)
  PROVE  Spares(td)
PROOF
  <1>1. PICK l : l = Len(specs) OBVIOUS
  <1>2. l \in Nat BY <1>1, PlanFacts DEF Started
  <1>3. /\ td \in Seq(PlainStatements) /\ Len(td) = l + 1
        /\ \A k \in 1..l : Inserting(td[k], made + k, 1 + k - 1, specs[k].tool, specs[k].deps)
        /\ Pausing(td[l + 1], "pending_approval")
    BY <1>1 DEF Started, StartLayout
  <1>4. DOMAIN td = 1..Len(td) BY <1>3, DomainOf
  <1>5. \A k \in 1..l : Gentle(td[k]) BY <1>3, GentleKinds
  <1>6. Gentle(td[l + 1]) BY <1>3, GentleKinds
  <1>7. \A k \in 1..(l + 1) : k \in 1..l \/ k = l + 1 BY <1>2
  <1> QED BY <1>3, <1>4, <1>5, <1>6, <1>7 DEF Spares

\* Nothing commits while an edit begins, and no done step is given other prerequisites.
LEMMA EditOrder ==
  ASSUME Base, Structure, Orderly, NEW p \in Requests, NEW op, NEW s, NEW td, Edits(p, op, s, td), Spares(td),
         \A t \in Live : Done(t) => needs'[t] = needs[t]
  PROVE  Orderly'
PROOF
  <1> SUFFICES ASSUME Undisturbed' PROVE Spared' /\ Settled' /\ Waited' /\ "early" \notin wrong' BY DEF Orderly
  <1>1. /\ Undisturbed
        /\ \A q \in Requests : req[q].op = "none"
        /\ \A q \in Requests \ {p} : req'[q] = req[q]
        /\ req'[p].todo = td /\ req'[p].op \in Editors
    BY EditAlone
  <1>2. /\ steps' = steps /\ wrong' \subseteq wrong \cup {"mixed", "loose", "trimmed"} /\ td \in Seq(EditStatements)
        /\ req' = [req EXCEPT ![p] = Request(op, s, td, "idle")]
    BY DEF Edits
  <1>3. "early" \notin wrong' BY <1>1, <1>2 DEF Orderly
  <1>4. Live' = Live /\ \A t : Done(t)' <=> Done(t) BY <1>2 DEF Live, Done
  <1>5. Settled' BY <1>1, <1>4 DEF Orderly, Settled
  <1>6. Spared'
    <2>1. Spares(td)' BY <1>4 DEF Spares, Gentle
    <2>2. \A q \in Requests \ {p} : req'[q].op \notin Editors BY <1>1 DEF Editors
    <2> QED BY <1>1, <2>1, <2>2 DEF Spared, Spares
  <1>7. ASSUME NEW q \in Requests PROVE ~Commits(req'[q])
    <2>1. CASE q # p
      <3>1. req'[q] = Idle
        <4>1. req[q].pc = "idle" BY <1>1, RequestFacts DEF Base, Busy, At
        <4>2. ShapeOf(req[q]) BY RequestFacts DEF Base
        <4> QED BY <1>1, <2>1, <4>1, <4>2 DEF ShapeOf
      <3>2. \A k : k \notin DOMAIN Idle.todo BY DEF Idle
      <3>3. Idle.pc = "idle" BY DEF Idle
      <3> QED BY <3>1, <3>2, <3>3 DEF Commits
    <2>2. CASE q = p
      <3>1. req'[q] = Request(op, s, td, "idle") BY <1>2, <2>2 DEF Base, TypeOK
      <3>2. req'[q].pc = "write" /\ req'[q].then = "idle" /\ req'[q].todo = td BY <3>1 DEF Request
      <3>3. \A k \in DOMAIN td : ~DoneBy(td[k])
        <4>1. \A k \in DOMAIN td : td[k] \in EditStatements BY <1>2
        <4> QED BY <4>1 DEF EditStatements
      <3> QED BY <3>2, <3>3 DEF Commits
    <2> QED BY <2>1, <2>2
  <1>8. Waited'
    <2>1. ASSUME NEW q \in Requests, Commits(req[q])' PROVE FALSE
      <3>1. Commits(req'[q]) BY <2>1 DEF Commits, DoneBy, Sets
      <3> QED BY <1>7, <3>1
    <2> QED BY <2>1 DEF Waited
  <1> QED BY <1>3, <1>5, <1>6, <1>8

LEMMA OneSpares ==
  ASSUME NEW w, Gentle(w), NEW td, td = <<w>>
  PROVE  Spares(td)
PROOF BY DEF Spares

LEMMA EditOrderly ==
  ASSUME Base, Structure, Orderly, NEW p \in Requests, EditStep(p)
  PROVE  Orderly'
PROOF
  <1>1. ASSUME NEW specs, NEW td, Started(p, specs, td) PROVE Orderly'
    <2>1. Edits(p, "start", 0, td) /\ Live = {} BY <1>1 DEF Started
    <2> QED BY <1>1, <2>1, StartedSpares, EditOrder
  <1>2. ASSUME NEW w, Unanswered(p, w) PROVE Orderly'
    <2>1. PICK td : td = <<w>> OBVIOUS
    <2>2. Edits(p, "start", 0, td) /\ Live = {} BY <1>2, <2>1 DEF Unanswered
    <2>3. Gentle(w) BY <1>2 DEF Unanswered, Gentle, Sets
    <2> QED BY <2>1, <2>2, <2>3, OneSpares, EditOrder
  <1>3. ASSUME NEW at \in Nat \ {0}, NEW tool, NEW deps, NEW td, Created(p, at, tool, deps, td) PROVE Orderly'
    <2>1. Edits(p, "edit", 0, td) /\ needs' = [needs EXCEPT ![made + 1] = ById(deps)] BY <1>3 DEF Created
    <2>2. \A t \in Live : t # made + 1
      <3>1. \A t \in Live : t <= made /\ t \in Nat BY StepLive, StepsFinite DEF Base, Fresh
      <3>2. made \in Nat BY PlanType
      <3> QED BY <3>1, <3>2
    <2>3. \A t \in Live : needs'[t] = needs[t] BY <2>1, <2>2, StepLive DEF Base, TypeOK
    <2> QED BY <1>3, <2>1, <2>3, CreatedSpares, EditOrder
  <1>4. ASSUME NEW s, NEW t, NEW td, Swapped(p, s, t, td) PROVE Orderly'
    <2>1. Edits(p, "edit", s, td) /\ needs' = needs BY <1>4 DEF Swapped
    <2> QED BY <1>4, <2>1, SwappedSpares, EditOrder
  <1>5. ASSUME NEW s, NEW td, Deleted(p, s, td) PROVE Orderly'
    <2>1. Edits(p, "edit", s, td) /\ needs' = needs BY <1>5 DEF Deleted
    <2> QED BY <1>5, <2>1, DeletedSpares, EditOrder
  <1>6. ASSUME NEW s, NEW tool, NEW deps, NEW w, Updated(p, s, tool, deps, w) PROVE Orderly'
    <2>1. PICK td : td = <<w>> OBVIOUS
    <2>2. Edits(p, "edit", s, td) /\ needs' = [needs EXCEPT ![s] = ById(deps)] /\ w.step = s BY <1>6, <2>1 DEF Updated, Updating
    <2>3. ~Done(s) BY <1>6, AdjustableIsOpen DEF Updated
    <2>4. Gentle(w) BY <2>2, <2>3 DEF Gentle
    <2>5. \A t \in Live : Done(t) => needs'[t] = needs[t] BY <2>2, <2>3, StepLive DEF Base, TypeOK
    <2> QED BY <2>1, <2>2, <2>4, <2>5, OneSpares, EditOrder
  <1>7. ASSUME NEW specs, NEW td, Adjusted(p, specs, td) PROVE Orderly'
    <2>1. Edits(p, "edit", 0, td) /\ needs' = Answered(specs, plan') BY <1>7 DEF Adjusted
    <2>2. Len(specs) \in Nat /\ made \in Nat BY <1>7, PlanFacts, PlanType DEF Adjusted
    <2>3. ASSUME NEW t \in Live PROVE needs'[t] = needs[t]
      <3>1. t <= made /\ t \in Nat /\ t \in Steps BY StepLive, StepsFinite DEF Base, Fresh
      <3>2. t \notin made + 1..made + Len(specs) BY <2>2, <3>1
      <3> QED BY <2>1, <3>1, <3>2 DEF Answered
    <2> QED BY <1>7, <2>1, <2>3, AdjustedSpares, EditOrder
  <1>8. ASSUME NEW s, NEW w, Accepted(p, s, w) PROVE Orderly'
    <2>1. PICK td : td = <<w>> OBVIOUS
    <2>2. Edits(p, "edit", s, td) /\ needs' = needs /\ w.step = s /\ steps[s].status = "pending"
      BY <1>8, <2>1 DEF Accepted, Accepting
    <2>3. Gentle(w) BY <2>2 DEF Gentle, Done
    <2> QED BY <2>1, <2>2, <2>3, OneSpares, EditOrder
  <1> QED BY <1>1, <1>2, <1>3, <1>4, <1>5, <1>6, <1>7, <1>8, EditStepFacts

-----------------------------------------------------------------------------
(* Statements leave done steps done                                         *)

\* What the request p knows of the statement w, of step u, which it executes.
Known(p, w, u) ==
  /\ w \in StatementType /\ WellFormed(w) /\ u = w.step /\ (w.kind # "run" => u \in Steps)
  /\ req[p].op \in Editors \/ req[p].op \in Workers
  /\ req[p].op \in Editors =>
       /\ ~Stopped(p) /\ Gentle(w) /\ ~DoneBy(w)
       /\ w.kind = "create" => u \notin Live
  /\ req[p].op \in Workers =>
       /\ w.kind \in {"set", "run"}
       /\ w.kind = "set" => u \in Live /\ ~Done(u)

LEMMA StatementKnown ==
  ASSUME Base, Clean, Held, Orderly, Undisturbed, Structure, NEW p \in Requests, Statement(p), NEW w, w = Next1(p)
  PROVE  Known(p, w, w.step)
PROOF
  <1>1. req[p].pc \in {"write", "store"} BY DEF Statement, ReadRow, StoreRow, StoreRun, DeleteRow, CreateRow, At
  <1>2. /\ 1 \in DOMAIN req[p].todo /\ w = req[p].todo[1] /\ w \in StatementType /\ WellFormed(w) /\ p \in Busy
    BY <1>1, HeadFacts DEF Base
  <1>3. req[p].op \in Editors \/ req[p].op \in Workers BY <1>2, BusyOp
  <1>4. ASSUME req[p].op \in Editors
        PROVE  /\ ~Stopped(p) /\ Gentle(w) /\ ~DoneBy(w)
               /\ w.kind = "create" => w.step \notin Live
    <2>1. Fits(req[p].todo) BY <1>4 DEF Structure, Fitting
    <2>2. ~Stopped(p) BY <2>1, NotStopped DEF Held
    <2>3. Gentle(w) BY <1>2, <1>4 DEF Orderly, Spared, Spares
    <2>4. EditorShape(req[p]) BY <1>4, RequestFacts DEF Base, ShapeOf
    <2>5. ~DoneBy(w) BY <1>2, <2>4 DEF EditorShape
    <2>6. w.kind = "create" => w.step \notin Live BY <1>2, <2>1 DEF Fits, Applies
    <2> QED BY <2>2, <2>3, <2>5, <2>6
  <1>5. ASSUME req[p].op \in Workers
        PROVE  w.kind \in {"set", "run"} /\ (w.kind = "set" => w.step \in Live /\ ~Done(w.step))
    <2>1. WorksOn(w, req[p].step) BY <1>1, <1>5, WorkerHead
    <2>2. w.kind = "set" => SetPending(p) BY <1>2 DEF SetPending
    <2>3. w.kind = "set" => req[p].step \in Live /\ ~Done(req[p].step) BY <1>5, <2>2 DEF Held, AtWork
    <2> QED BY <2>1, <2>3 DEF WorksOn
  <1>6. w.kind # "run" => w.step \in Steps BY <1>2 DEF WellFormed
  <1> QED BY <1>2, <1>3, <1>4, <1>5, <1>6 DEF Known

\* A done step stays one; a step becomes done only by a worker's statement; an edit ends none.
KeepsDone(p, w, u) ==
  /\ \A t \in Live : Done(t) => t \in Live' /\ Done(t)'
  /\ \A t \in Live' : Done(t)' => (t \in Live /\ Done(t)) \/ (DoneBy(w) /\ t = u)
  /\ req[p].op \in Editors => \A t \in Steps : ~Done(t) => ~Done(t)'

LEMMA StoredKeeps ==
  ASSUME Base, NEW p \in Requests, NEW w, w = Next1(p), NEW u, Known(p, w, u), Stored(p)
  PROVE  KeepsDone(p, w, u)
PROOF
  <1>1. w.kind = "set" /\ u \in Live /\ u \in Steps /\ steps' = [steps EXCEPT ![u] = Patched(steps[u], w)]
    BY StepLive DEF Stored, Known
  <1>2. /\ steps'[u].status = IF "status" \in w.fields THEN w.row.status ELSE steps[u].status
        /\ steps'[u].index = IF "index" \in w.fields THEN w.row.index ELSE steps[u].index
        /\ \A t \in Steps \ {u} : steps'[t] = steps[t]
    BY <1>1 DEF Base, TypeOK, Patched
  <1>3. Sets(w, "status") => ~Done(u)
    <2>1. CASE req[p].op \in Editors BY <2>1 DEF Known, Gentle
    <2>2. CASE req[p].op \in Workers BY <1>1, <2>2 DEF Known
    <2> QED BY <2>1, <2>2 DEF Known
  <1>4. steps'[u].index > 0 BY <1>1, <1>2, StepLive DEF Known, WellFormed, Sets, Index
  <1>5. Done(u) => Done(u)' BY <1>1, <1>2, <1>3 DEF Done, Sets
  <1>6. Done(u)' => Done(u) \/ DoneBy(w) BY <1>1, <1>2 DEF Done, DoneBy, Sets
  <1>7. \A t \in Steps : t \in Live' <=> t \in Live BY <1>1, <1>2, <1>4, StepLive DEF Live, Index
  <1>8. \A t \in Steps : t # u => (Done(t)' <=> Done(t)) BY <1>2 DEF Done
  <1>9. Live' \subseteq Steps BY DEF Live
  <1> QED BY <1>5, <1>6, <1>7, <1>8, <1>9, StepLive DEF KeepsDone, Known

LEMMA StatementKeeps ==
  ASSUME Base, Clean, Held, NEW p \in Requests, Statement(p), NEW w, w = Next1(p), NEW u, Known(p, w, u)
  PROVE  KeepsDone(p, w, u)
PROOF
  <1>1. ReadIn(p) \/ Stored(p) \/ Turned(p) \/ Dropped(p) \/ Inserted(p) \/ Stopped(p) BY StatementFacts DEF Held
  <1>2. steps \in [Steps -> Row] BY DEF Base, TypeOK
  <1>3. Live' \subseteq Steps BY DEF Live
  <1>4. CASE steps' = steps
    <2>1. Live' = Live /\ \A t : Done(t)' <=> Done(t) BY <1>4 DEF Live, Done
    <2> QED BY <2>1 DEF KeepsDone
  <1>5. CASE Stopped(p)
    <2>1. req[p].op \notin Editors BY <1>5 DEF Known
    <2>2. \A t \in Steps : steps'[t] = steps[t] \/ (t \notin Live /\ steps'[t] = NoRow) BY <1>5 DEF Stopped
    <2>3. NoRow.index = 0 BY DEF NoRow
    <2>4. \A t \in Live : t \in Live' /\ (Done(t)' <=> Done(t)) BY <2>2 DEF Live, Done
    <2>5. \A t \in Live' : t \in Live BY <1>3, <2>2, <2>3 DEF Live
    <2> QED BY <2>1, <2>4, <2>5 DEF KeepsDone
  <1>6. CASE Stored(p) BY <1>6, StoredKeeps
  <1>7. CASE Dropped(p)
    <2>1. w.kind = "delete" /\ u \in Live /\ u \in Steps /\ steps' = [steps EXCEPT ![u] = NoRow]
      BY <1>7, StepLive DEF Dropped, Known
    <2>2. ~Done(u) BY <2>1 DEF Known, Gentle
    <2>3. steps'[u] = NoRow /\ \A t \in Steps \ {u} : steps'[t] = steps[t] BY <1>2, <2>1
    <2>4. NoRow.status = "pending" BY DEF NoRow
    <2>5. ~Done(u)' BY <2>3, <2>4 DEF Done
    <2>6. \A t \in Steps : t # u => (Done(t)' <=> Done(t)) /\ (t \in Live' <=> t \in Live) BY <2>3 DEF Done, Live
    <2> QED BY <1>3, <2>2, <2>5, <2>6, StepLive DEF KeepsDone
  <1>8. CASE Inserted(p)
    <2>1. w.kind = "create" /\ u \in Steps /\ steps' = [steps EXCEPT ![u] = NewRow(w.row)]
      BY <1>8 DEF Inserted, Known
    <2>2. u \notin Live BY <2>1 DEF Known
    <2>3. w.row \in Row /\ w.row.status = "pending" BY <2>1 DEF Known, StatementType, WellFormed
    <2>4. steps'[u] = NewRow(w.row) /\ \A t \in Steps \ {u} : steps'[t] = steps[t] BY <1>2, <2>1
    <2>5. ~Done(u)' BY <2>3, <2>4, NewRowFacts DEF Done
    <2>6. \A t \in Steps : t # u => (Done(t)' <=> Done(t)) /\ (t \in Live' <=> t \in Live) BY <2>4 DEF Done, Live
    <2> QED BY <1>3, <2>2, <2>5, <2>6, StepLive DEF KeepsDone
  <1> QED BY <1>1, <1>4, <1>5, <1>6, <1>7, <1>8 DEF ReadIn, Turned

\* The request of a statement commits after it only to what it committed to before.
LEMMA StatementCommits ==
  ASSUME Base, Clean, Held, NEW p \in Requests, Statement(p), Commits(req'[p])
  PROVE  Commits(req[p]) /\ req'[p].step = req[p].step
PROOF
  <1>1. req[p].pc \in {"write", "store"} BY DEF Statement, ReadRow, StoreRow, StoreRun, DeleteRow, CreateRow, At
  <1>2. ReadIn(p) \/ Stored(p) \/ Turned(p) \/ Dropped(p) \/ Inserted(p) \/ Stopped(p) BY StatementFacts DEF Held
  <1>3. req \in [Requests -> RequestType] BY DEF Base, TypeOK
  <1>4. req'[p] = InStore(p) \/ req'[p] = Then(p) \/ req'[p] = Idle
    BY <1>2, <1>3 DEF ReadIn, Stored, Turned, Dropped, Inserted, Stopped
  <1>5. ~Commits(Idle)
    <2>1. Idle.pc = "idle" /\ \A k : k \notin DOMAIN Idle.todo BY DEF Idle
    <2> QED BY <2>1 DEF Commits
  <1>6. CASE req'[p] = InStore(p)
    <2>1. /\ InStore(p).pc = "store" /\ InStore(p).then = req[p].then /\ InStore(p).todo = req[p].todo
          /\ InStore(p).step = req[p].step
      BY DEF InStore
    <2> QED BY <1>1, <1>6, <2>1 DEF Commits
  <1>7. CASE req'[p] = Then(p)
    <2>1. Then(p) # Idle BY <1>5, <1>7
    <2>2. /\ Then(p).todo = Tail(req[p].todo) /\ Then(p).step = req[p].step /\ Then(p).then = req[p].then
          /\ Then(p).pc = "work" => req[p].then = "work"
          /\ Then(p).pc # "store"
      BY <1>1, <2>1, ThenFacts DEF Base
    <2>3. \A k \in DOMAIN Tail(req[p].todo) : k + 1 \in DOMAIN req[p].todo /\ req[p].todo[k + 1] = Tail(req[p].todo)[k]
      BY <1>1, TailIn DEF Base
    <2> QED BY <1>1, <1>7, <2>2, <2>3 DEF Commits
  <1> QED BY <1>4, <1>5, <1>6, <1>7

LEMMA StatementOrderly ==
  ASSUME Base, Apart, Held, Structure, Orderly, NEW p \in Requests, Statement(p)
  PROVE  Orderly'
PROOF
  <1>1. faults' = faults /\ wrong' = wrong /\ plan' = plan /\ needs' = needs
    BY DEF Statement, ReadRow, StoreRow, StoreRun, DeleteRow, CreateRow, history
  <1>2. SUFFICES ASSUME Undisturbed PROVE Spared' /\ Settled' /\ Waited'
    BY <1>1 DEF Orderly, Undisturbed
  <1>3. Clean /\ Spared /\ Settled /\ Waited BY <1>2 DEF Undisturbed, Clean, Orderly
  <1>4. PICK w : w = Next1(p) OBVIOUS
  <1>5. PICK u : u = w.step OBVIOUS
  <1>6. Known(p, w, u) BY <1>2, <1>3, <1>4, <1>5, StatementKnown
  <1>7. KeepsDone(p, w, u) BY <1>3, <1>4, <1>6, StatementKeeps
  <1>8. \A q \in Requests \ {p} : req'[q] = req[q] /\ req[q].op \notin Editors BY <1>3, Touches DEF Held
  <1>9. req[p].pc \in {"write", "store"} BY DEF Statement, ReadRow, StoreRow, StoreRun, DeleteRow, CreateRow, At
  <1>10. 1 \in DOMAIN req[p].todo /\ w = req[p].todo[1] BY <1>4, <1>9, HeadFacts DEF Base
  <1>11. ASSUME NEW s, Ready(s) PROVE Ready(s)'
    <2>1. Prerequisites(s)' = Prerequisites(s) BY <1>1 DEF Prerequisites, Before
    <2>2. \A t \in Prerequisites(s) : t \in Live' /\ Done(t)' BY <1>7, <1>11 DEF Ready, KeepsDone
    <2> QED BY <2>1, <2>2 DEF Ready
  <1>12. Waited'
    <2>1. ASSUME NEW q \in Requests, Commits(req[q])' PROVE Ready(req[q].step)'
      <3>1. Commits(req'[q]) BY <2>1 DEF Commits, DoneBy, Sets
      <3>2. Commits(req[q]) /\ req'[q].step = req[q].step
        <4>1. CASE q = p BY <1>3, <3>1, <4>1, StatementCommits
        <4>2. CASE q # p BY <1>8, <3>1, <4>2
        <4> QED BY <4>1, <4>2
      <3>3. PICK x : x = req[q].step OBVIOUS
      <3>4. Ready(x) BY <1>3, <3>2, <3>3 DEF Waited
      <3>5. Ready(x)' BY <1>11, <3>4
      <3> QED BY <3>2, <3>3, <3>5 DEF Ready, Prerequisites, Before
    <2> QED BY <2>1 DEF Waited
  <1>13. Settled'
    <2>1. ASSUME NEW s \in Live', Done(s)' PROVE \A t \in needs[s] : t \in Live' /\ Done(t)'
      <3>1. CASE s \in Live /\ Done(s)
        <4>1. \A t \in needs[s] : t \in Live /\ Done(t) BY <1>3, <3>1 DEF Settled
        <4> QED BY <1>7, <4>1 DEF KeepsDone
      <3>2. CASE DoneBy(w) /\ s = u
        <4>1. Commits(req[p]) BY <1>10, <3>2 DEF Commits
        <4>2. req[p].op \in Workers BY <1>6, <3>2 DEF Known
        <4>3. WorksOn(w, req[p].step) BY <1>4, <1>9, <4>2, WorkerHead
        <4>4. req[p].step = s BY <1>5, <3>2, <4>3 DEF WorksOn, DoneBy, Sets
        <4>5. Ready(s) BY <1>3, <4>1, <4>4 DEF Waited
        <4>6. \A t \in needs[s] : t \in Live /\ Done(t) BY <4>5 DEF Ready, Prerequisites
        <4> QED BY <1>7, <4>6 DEF KeepsDone
      <3> QED BY <1>7, <2>1, <3>1, <3>2 DEF KeepsDone
    <2> QED BY <1>1, <2>1 DEF Settled
  <1>14. Spared'
    <2>1. ASSUME NEW q \in Requests, req'[q].op \in Editors PROVE Spares(req[q].todo)'
      <3>1. q = p BY <1>8, <2>1
      <3>2. req[p].op \in Editors /\ (req'[p].todo = req[p].todo \/ req'[p].todo = Tail(req[p].todo))
        <4>1. ReadIn(p) \/ Stored(p) \/ Turned(p) \/ Dropped(p) \/ Inserted(p) \/ Stopped(p) BY <1>3, StatementFacts DEF Held
        <4>2. req \in [Requests -> RequestType] BY DEF Base, TypeOK
        <4>3. req'[p] = InStore(p) \/ req'[p] = Then(p) \/ req'[p] = Idle
          BY <4>1, <4>2 DEF ReadIn, Stored, Turned, Dropped, Inserted, Stopped
        <4>4. Then(p).todo = Tail(req[p].todo) /\ (Then(p).op = req[p].op \/ Then(p) = Idle) BY <1>9, ThenFacts DEF Base
        <4>5. Idle.op \notin Editors /\ InStore(p).op = req[p].op /\ InStore(p).todo = req[p].todo BY DEF Idle, InStore, Editors
        <4> QED BY <2>1, <3>1, <4>3, <4>4, <4>5
      <3>3. PICK td : td = req'[p].todo OBVIOUS
      <3>4. \A k \in DOMAIN td : td[k] \in StatementType /\ WellFormed(td[k]) /\ Gentle(td[k])
        <4>1. DOMAIN req[p].todo = 1..Len(req[p].todo) BY RequestFacts DEF Base
        <4>2. \A k \in DOMAIN req[p].todo : req[p].todo[k] \in StatementType /\ WellFormed(req[p].todo[k])
          BY <4>1, RequestFacts DEF Base
        <4>3. \A k \in DOMAIN req[p].todo : Gentle(req[p].todo[k]) BY <1>3, <3>2 DEF Spared, Spares
        <4>4. \A k \in DOMAIN Tail(req[p].todo) : k + 1 \in DOMAIN req[p].todo /\ req[p].todo[k + 1] = Tail(req[p].todo)[k]
          BY <1>9, TailIn DEF Base
        <4> QED BY <3>2, <3>3, <4>2, <4>3, <4>4
      <3>5. \A t \in Steps : ~Done(t) => ~Done(t)' BY <1>7, <3>2 DEF KeepsDone
      <3>6. \A k \in DOMAIN td : td[k].kind = "delete" \/ Sets(td[k], "status") => ~Done(td[k].step)'
        BY <3>4, <3>5 DEF Gentle, WellFormed, Sets
      <3> QED BY <3>1, <3>3, <3>6 DEF Spares, Gentle, Sets
    <2> QED BY <2>1 DEF Spared
  <1> QED BY <1>12, <1>13, <1>14

LEMMA OrderlyStep == Base /\ Apart /\ Held /\ Structure /\ Orderly /\ [Next]_vars => Orderly'
PROOF
  <1> SUFFICES ASSUME Base, Apart, Held, Structure, Orderly, [Next]_vars PROVE Orderly' OBVIOUS
  <1>1. CASE UNCHANGED vars \/ EditAgent
    <2>1. /\ steps' = steps /\ plan' = plan /\ needs' = needs /\ faults' = faults /\ wrong \subseteq wrong' /\ req' = req
          /\ wrong' \subseteq wrong \cup {"mixed"}
      BY <1>1 DEF vars, EditAgent
    <2>2. SUFFICES ASSUME Undisturbed' PROVE Spared' /\ Settled' /\ Waited' /\ "early" \notin wrong' BY DEF Orderly
    <2>3. Undisturbed BY <2>1, <2>2 DEF Undisturbed
    <2>4. Spared /\ Settled /\ Waited /\ "early" \notin wrong BY <2>3 DEF Orderly
    <2>5. Live' = Live /\ \A s : Done(s)' <=> Done(s) BY <2>1 DEF Live, Done
    <2>6. Spared' BY <2>1, <2>4, <2>5 DEF Spared, Spares, Gentle, Sets
    <2>7. Settled' BY <2>1, <2>4, <2>5 DEF Settled
    <2>8. Waited' BY <2>1, <2>4, <2>5 DEF Waited, Commits, DoneBy, Sets, Ready, Prerequisites, Before
    <2> QED BY <2>1, <2>4, <2>6, <2>7, <2>8
  <1>2. ASSUME NEW p \in Requests, EditStep(p) PROVE Orderly' BY <1>2, EditOrderly
  <1>3. ASSUME NEW p \in Requests, ExecutePlanStep(p) PROVE Orderly' BY <1>3, ExecuteOrderly
  <1>4. ASSUME NEW p \in Requests, SkipPlanStep(p) PROVE Orderly' BY <1>4, SkipOrderly
  <1>5. ASSUME NEW p \in Requests, RetryPlanStep(p) PROVE Orderly' BY <1>5, RetryOrderly
  <1>6. ASSUME NEW p \in Requests, Statement(p) PROVE Orderly' BY <1>6, StatementOrderly
  <1>7. CASE Next BY <1>1, <1>2, <1>3, <1>4, <1>5, <1>6, <1>7, NextCases, BetweenOrderly
  <1> QED BY <1>1, <1>7

\* All of it: the invariant that carries the properties of the plan.
Planned == Guarded /\ Structure /\ Orderly

LEMMA PlannedInit == Init => Planned
PROOF
  <1> SUFFICES ASSUME Init PROVE Planned OBVIOUS
  <1>1. Guarded BY GuardedInit
  <1>2. \A p \in Requests : req[p] = Idle BY DEF Init
  <1>3. Idle.op = "none" /\ Idle.pc = "idle" /\ \A k : k \notin DOMAIN Idle.todo BY DEF Idle
  <1>4. plan = <<>> /\ \A k : k \notin DOMAIN plan BY DEF Init
  <1>5. Live = {} BY DEF Init, Live, NoRow
  <1>6. \A p \in Requests : req[p].op \notin Editors /\ ~Commits(req[p]) BY <1>2, <1>3 DEF Editors, Commits
  <1>7. Fits(<<>>)
    <2>1. \A k : k \notin DOMAIN <<>> OBVIOUS
    <2> QED BY <1>4, <1>5, <2>1 DEF Fits, Applies, FreeNow, FreeLater, Landing, Depending
  <1>8. Structure BY <1>6, <1>7 DEF Structure
  <1>9. Orderly BY <1>5, <1>6 DEF Orderly, Spared, Settled, Waited, Init
  <1> QED BY <1>1, <1>8, <1>9 DEF Planned

LEMMA PlannedStep == Planned /\ [Next]_vars => Planned'
PROOF
  <1> SUFFICES ASSUME Planned, [Next]_vars PROVE Planned' OBVIOUS
  <1>1. Guarded' BY GuardedStep DEF Planned
  <1>2. Base /\ Apart /\ Held /\ Structure /\ Orderly BY DEF Planned, Guarded
  <1>3. Undisturbed => Settled BY <1>2 DEF Orderly
  <1>4. Structure' BY <1>2, <1>3, StructureStep
  <1>5. Orderly' BY <1>2, OrderlyStep
  <1> QED BY <1>1, <1>4, <1>5 DEF Planned

\* What is left of an edit always adds up to what the user asked for, done steps rest on done
\* steps, and a step that is about to run has waited for those before it.
THEOREM SpecPlanned == Spec => []Planned
PROOF BY PlannedInit, PlannedStep, PTL DEF Spec

LEMMA PlannedPlan == Planned => PlanIsAsEdited
PROOF
  <1> SUFFICES ASSUME Planned, Quiet, Undisturbed
               PROVE  /\ Order = plan
                      /\ \A i \in DOMAIN plan : steps[plan[i]].index = i /\ ById(steps[plan[i]].deps) = needs[plan[i]]
    BY DEF PlanIsAsEdited
  <1>1. Base /\ Structure BY DEF Planned, Guarded
  <1>2. \A p \in Requests : req[p].op = "none" BY <1>1, RequestFacts DEF Base, Quiet
  <1>3. Fits(<<>>) BY <1>1, <1>2 DEF Structure, Editors
  <1>4. PICK n : LaidOut(n) BY <1>1, <1>3, LaidOutFacts
  <1>5. n \in Nat /\ n = Len(plan) /\ DOMAIN plan = 1..n /\ \A i \in 1..n : plan[i] \in Live /\ Index(plan[i]) = i
    BY <1>4 DEF LaidOut
  <1>6. Sorted(plan, Live)
    <2>1. plan \in Seq(Live)
      <3>1. plan \in Seq(Steps) BY PlanType, <1>1
      <3>2. plan = [k \in 1..n |-> plan[k]] BY <1>5, <3>1
      <3>3. \A k \in 1..n : plan[k] \in Live BY <1>5
      <3> QED BY <1>5, <3>2, <3>3, SeqOf
    <2>2. \A i, j \in 1..Len(plan) : i < j => Index(plan[i]) < Index(plan[j]) BY <1>5
    <2>3. \A s \in Live : \E k \in 1..Len(plan) : plan[k] = s BY <1>4 DEF LaidOut
    <2> QED BY <2>1, <2>2, <2>3 DEF Sorted
  <1>7. Order = plan BY <1>1, <1>6, SortedIsInOrder DEF Order, Base
  <1>8. ASSUME NEW i \in DOMAIN plan PROVE steps[plan[i]].index = i /\ ById(steps[plan[i]].deps) = needs[plan[i]]
    <2>1. PICK s : s = plan[i] OBVIOUS
    <2>2. s \in Live /\ Index(s) = i BY <1>5, <2>1
    <2>3. PICK deps : deps = steps[s].deps OBVIOUS
    <2>4. deps \subseteq 1..n /\ {plan[d] : d \in deps} = needs[s] BY <1>4, <1>5, <2>2, <2>3 DEF LaidOut, RightIn
    <2>5. ById(deps) = needs[s] BY <1>4, <2>4, ByIdIs
    <2> QED BY <2>1, <2>2, <2>3, <2>5 DEF Index
  <1> QED BY <1>7, <1>8

\* The moves to the buffer and back, and rewritePlanStepDependencies after them, leave the steps
\* at 1, 2, ... in the users' order, each depending on the very steps it was made to depend on.
THEOREM PlanAsEdited == Spec => []PlanIsAsEdited
PROOF BY SpecPlanned, PlannedPlan, PTL

\* ensurePriorPlanStepsDone looks at indices, which edits change: still a step runs only when the
\* steps it was made to depend on, or else those before it, are done.
THEOREM StepsInOrder == Spec => []StepsRunInOrder
PROOF
  <1>1. Planned => StepsRunInOrder BY DEF Planned, Orderly, StepsRunInOrder
  <1> QED BY <1>1, SpecPlanned, PTL

-----------------------------------------------------------------------------
(* A run whose steps are all done is completed                              *)

Untrimmed == Undisturbed /\ "trimmed" \notin wrong

\* The run waits for the user again.
Reopens(w) == w.kind = "run" /\ w.run = "pending_approval"

\* A step that is not done and stays.
Opens(td) == \E t \in Live : ~Done(t) /\ \A k \in DOMAIN td : td[k].kind = "delete" => td[k].step # t
Shrinks(td) == \E k \in DOMAIN td : td[k].kind = "delete" \/ Reopens(td[k])
Creates(td) == \E k \in DOMAIN td : td[k].kind = "create"

\* An edit that deletes steps, or says that the run waits, is going to create steps or leaves one
\* open; it turns to the run last.
Awaits(td) ==
  /\ Shrinks(td) => Creates(td) \/ Opens(td) \/ Live = {}
  /\ \A j, k \in DOMAIN td : td[j].kind = "run" /\ td[k].kind = "create" => k < j

\* A retry that says that the run waits is going to open its step.
Resumes(td) == \A k \in DOMAIN td : Reopens(td[k]) => \E j \in DOMAIN td : k < j /\ td[j].kind = "set"

Openness == Untrimmed =>
  \A q \in Requests :
    /\ req[q].op \in Editors => Awaits(req[q].todo)
    /\ req[q].op \in Workers => Resumes(req[q].todo)

\* A request that is going to look whether the run is done, completes it or creates a step.
Closes(r) == r.pc = "settle" \/ \E k \in DOMAIN r.todo : r.todo[k].kind = "create" \/ Completes(r.todo[k])

\* When the last step is done, somebody is going to see that it was the last.
Finale == Live # {} /\ AllDone /\ run = "pending_approval"
LastDone == Untrimmed /\ Finale => \E q \in Requests : Closes(req[q])

-----------------------------------------------------------------------------
LEMMA GrowthAwaits ==
  ASSUME NEW td, \A k \in DOMAIN td : td[k].kind \in {"set", "create"}
  PROVE  Awaits(td)
PROOF
  <1>1. ~Shrinks(td) BY DEF Shrinks, Reopens
  <1> QED BY <1>1 DEF Awaits

LEMMA RewritesSet ==
  ASSUME NEW td, NEW from, NEW S, NEW to, Rewrites(td, from, S, to)
  PROVE  \A k \in (from + 1)..Len(td) : td[k].kind = "set"
PROOF BY DEF Rewrites, Rewriting

LEMMA CreatedAwaits ==
  ASSUME Base, NEW p \in Requests, NEW at \in Nat \ {0}, NEW tool, NEW deps, NEW td, Created(p, at, tool, deps, td)
  PROVE  Awaits(td)
PROOF
  <1>1. PICK list : list = InOrder(Moved(at)) OBVIOUS
  <1>2. PICK n : n = Len(list) OBVIOUS
  <1>3. n \in Nat
    <2>1. Moved(at) \in SUBSET Live BY DEF Moved
    <2> QED BY <1>1, <1>2, <2>1, ListedIn DEF Base
  <1>4. PICK to : to = UpFrom(at) OBVIOUS
  <1>5. PICK d : d = NewDeps(deps, to) OBVIOUS
  <1>6. CreateLayout(td, list, made + 1, at, tool, d, to) BY <1>1, <1>4, <1>5 DEF Created
  <1>7. /\ td \in Seq(PlainStatements)
        /\ \A k \in 1..n : Moving(td[k], list[k], MaxIndex + k)
        /\ Inserting(td[n + 1], made + 1, at, tool, d)
        /\ \A k \in 1..n : Moving(td[n + 1 + k], list[k], Index(list[k]) + 1)
        /\ Rewrites(td, n + 1 + n, Live, to)
    BY <1>2, <1>6 DEF CreateLayout
  <1>8. DOMAIN td = 1..Len(td) /\ Len(td) \in Nat BY <1>7, DomainOf
  <1>9. \A k \in 1..n : td[k].kind = "set" BY <1>7 DEF Moving
  <1>10. \A k \in 1..n : td[n + 1 + k].kind = "set" BY <1>7 DEF Moving
  <1>11. td[n + 1].kind = "create" BY <1>7 DEF Inserting
  <1>12. \A k \in (n + 1 + n + 1)..Len(td) : td[k].kind = "set" BY <1>7, RewritesSet
  <1>13. ASSUME NEW k \in 1..Len(td) PROVE td[k].kind \in {"set", "create"}
    <2>1. k \in Nat /\ (k \in 1..n \/ k = n + 1 \/ k - (n + 1) \in 1..n \/ k \in (n + 1 + n + 1)..Len(td)) BY <1>3, <1>8
    <2>2. CASE k - (n + 1) \in 1..n
      <3>1. n + 1 + (k - (n + 1)) = k BY <1>3, <2>1
      <3> QED BY <1>10, <2>2, <3>1
    <2> QED BY <1>9, <1>11, <1>12, <2>1, <2>2
  <1> QED BY <1>8, <1>13, GrowthAwaits

LEMMA SwappedAwaits ==
  ASSUME Base, NEW p \in Requests, NEW s, NEW t, NEW td, Swapped(p, s, t, td)
  PROVE  Awaits(td)
PROOF
  <1>1. MoveLayout(td, s, t, Swap(s, t)) BY DEF Swapped
  <1>2. /\ td \in Seq(PlainStatements)
        /\ Moving(td[1], s, MaxIndex + 1) /\ Moving(td[2], t, Index(s)) /\ Moving(td[3], s, Index(t))
        /\ Rewrites(td, 3, Live, Swap(s, t))
    BY <1>1 DEF MoveLayout
  <1>3. DOMAIN td = 1..Len(td) /\ Len(td) \in Nat BY <1>2, DomainOf
  <1>4. td[1].kind = "set" /\ td[2].kind = "set" /\ td[3].kind = "set" BY <1>2 DEF Moving
  <1>5. PICK from : from = 3 OBVIOUS
  <1>6. Rewrites(td, from, Live, Swap(s, t)) BY <1>2, <1>5
  <1>7. \A k \in (from + 1)..Len(td) : td[k].kind = "set" BY <1>6, RewritesSet
  <1>8. \A k \in 1..Len(td) : k = 1 \/ k = 2 \/ k = 3 \/ k \in (from + 1)..Len(td) BY <1>3, <1>5
  <1>9. \A k \in DOMAIN td : td[k].kind \in {"set", "create"} BY <1>3, <1>4, <1>7, <1>8
  <1> QED BY <1>9, GrowthAwaits

\* DeletePlanStepDraft leaves another step open, unless it was the last open one.
LEMMA DeletedAwaits ==
  ASSUME Base, NEW p \in Requests, NEW s, NEW td, Deleted(p, s, td), "trimmed" \notin wrong'
  PROVE  Awaits(td)
PROOF
  <1>1. PICK list : list = InOrder(Later(s)) OBVIOUS
  <1>2. PICK n : n = Len(list) OBVIOUS
  <1>3. n \in Nat
    <2>1. Later(s) \in SUBSET Live BY DEF Later
    <2> QED BY <1>1, <1>2, <2>1, ListedIn DEF Base
  <1>4. PICK to : to = DownFrom(s) OBVIOUS
  <1>5. PICK S : S = Live \ {s} OBVIOUS
  <1>6. DeleteLayout(td, s, list, to) BY <1>1, <1>4 DEF Deleted
  <1>7. /\ td \in Seq(PlainStatements)
        /\ Deleting(td[1], s)
        /\ \A k \in 1..n : Moving(td[1 + k], list[k], MaxIndex + k)
        /\ \A k \in 1..n : Moving(td[1 + n + k], list[k], Index(list[k]) - 1)
        /\ Rewrites(td, 1 + n + n, S, to)
    BY <1>2, <1>5, <1>6 DEF DeleteLayout
  <1>8. DOMAIN td = 1..Len(td) /\ Len(td) \in Nat BY <1>7, DomainOf
  <1>9. \A k \in 1..n : td[1 + k].kind = "set" BY <1>7 DEF Moving
  <1>10. \A k \in 1..n : td[1 + n + k].kind = "set" BY <1>7 DEF Moving
  <1>11. td[1].kind = "delete" /\ td[1].step = s BY <1>7 DEF Deleting
  <1>12. \A k \in (1 + n + n + 1)..Len(td) : td[k].kind = "set" BY <1>7, RewritesSet
  <1>13. ASSUME NEW k \in 1..Len(td) PROVE k = 1 \/ td[k].kind = "set"
    <2>1. k \in Nat /\ (k = 1 \/ k - 1 \in 1..n \/ k - (1 + n) \in 1..n \/ k \in (1 + n + n + 1)..Len(td)) BY <1>3, <1>8
    <2>2. CASE k - (1 + n) \in 1..n
      <3>1. 1 + n + (k - (1 + n)) = k BY <1>3, <2>1
      <3> QED BY <1>10, <2>2, <3>1
    <2>3. CASE k - 1 \in 1..n
      <3>1. 1 + (k - 1) = k BY <1>3, <2>1
      <3> QED BY <1>9, <2>3, <3>1
    <2> QED BY <1>12, <2>1, <2>2, <2>3
  <1>14. PICK t \in Live : t # s /\ ~Done(t) BY DEF Deleted
  <1>15. \A k \in DOMAIN td : td[k].kind = "delete" => td[k].step # t BY <1>8, <1>11, <1>13, <1>14
  <1>16. Opens(td) BY <1>14, <1>15 DEF Opens
  <1>17. \A k \in DOMAIN td : td[k].kind # "run" BY <1>8, <1>11, <1>13
  <1> QED BY <1>16, <1>17 DEF Awaits

\* AdjustPlanSteps creates at least one step.
LEMMA AdjustedAwaits ==
  ASSUME Base, NEW p \in Requests, NEW specs, NEW td, Adjusted(p, specs, td)
  PROVE  Awaits(td)
PROOF
  <1>1. PICK list : list = InOrder(Live \ Prefix) OBVIOUS
  <1>2. PICK n : n = Len(list) OBVIOUS
  <1>3. n \in Nat
    <2>1. PICK S : S = Live \ Prefix OBVIOUS
    <2>2. S \in SUBSET Live /\ list = InOrder(S) BY <1>1, <2>1
    <2> QED BY <1>2, <2>2, ListedIn DEF Base
  <1>4. PICK first : first = Cardinality(Prefix) + 1 OBVIOUS
  <1>5. AdjustLayout(td, list, first, specs) BY <1>1, <1>4 DEF Adjusted
  <1>6. PICK l : l = Len(specs) OBVIOUS
  <1>7. l \in Nat \ {0}
    <2>1. specs # <<>> /\ specs \in Seq([tool : Tools, deps : SUBSET (Nat \ {0})]) BY PlanFacts DEF Adjusted
    <2> QED BY <1>6, <2>1, EmptySeq, LenProperties
  <1>8. /\ td \in Seq(PlainStatements) /\ Len(td) = n + l + 1
        /\ \A k \in 1..n : Deleting(td[k], list[k])
        /\ \A k \in 1..l : Inserting(td[n + k], made + k, first + k - 1, specs[k].tool, specs[k].deps)
    BY <1>2, <1>5, <1>6 DEF AdjustLayout
  <1>9. DOMAIN td = 1..(n + l + 1) BY <1>8, DomainOf
  <1>10. \A k \in 1..n : td[k].kind = "delete" BY <1>8 DEF Deleting
  <1>11. \A k \in 1..l : td[n + k].kind = "create" BY <1>8 DEF Inserting
  <1>12. td[n + l + 1].kind = "run" BY <1>2, <1>5, <1>6 DEF AdjustLayout, Pausing
  <1>13. \A k \in 1..(n + l + 1) : k = n + l + 1 \/ td[k].kind # "run"
    <2> SUFFICES ASSUME NEW k \in 1..(n + l + 1) PROVE k = n + l + 1 \/ td[k].kind # "run" OBVIOUS
    <2>1. k \in Nat /\ (k \in 1..n \/ k - n \in 1..l \/ k = n + l + 1) BY <1>3, <1>7
    <2>2. CASE k - n \in 1..l
      <3>1. n + (k - n) = k BY <1>3, <2>1
      <3>2. td[k].kind = "create" BY <1>11, <2>2, <3>1
      <3> QED BY <3>2
    <2>3. CASE k \in 1..n BY <1>10, <2>3
    <2> QED BY <2>1, <2>2, <2>3
  <1>14. \A j, k \in DOMAIN td : td[j].kind = "run" /\ td[k].kind = "create" => k < j
    <2> SUFFICES ASSUME NEW j \in 1..(n + l + 1), NEW k \in 1..(n + l + 1), td[j].kind = "run", td[k].kind = "create"
                 PROVE k < j
      BY <1>9
    <2>1. j = n + l + 1 BY <1>13
    <2>2. k # n + l + 1 BY <1>12
    <2> QED BY <1>3, <1>7, <2>1, <2>2
  <1>15. Creates(td)
    <2>1. n + 1 \in DOMAIN td BY <1>3, <1>7, <1>9
    <2>2. 1 \in 1..l BY <1>7
    <2>3. td[n + 1].kind = "create" BY <1>11, <2>2
    <2> QED BY <2>1, <2>3 DEF Creates
  <1> QED BY <1>14, <1>15 DEF Awaits

LEMMA StartedAwaits ==
  ASSUME Base, NEW p \in Requests, NEW specs, NEW td, Started(p, specs, td)
  PROVE  Awaits(td)
PROOF
  <1>1. PICK l : l = Len(specs) OBVIOUS
  <1>2. l \in Nat BY <1>1, PlanFacts DEF Started
  <1>3. /\ td \in Seq(PlainStatements) /\ Len(td) = l + 1
        /\ \A k \in 1..l : Inserting(td[k], made + k, 1 + k - 1, specs[k].tool, specs[k].deps)
        /\ Pausing(td[l + 1], "pending_approval")
    BY <1>1 DEF Started, StartLayout
  <1>4. DOMAIN td = 1..(l + 1) BY <1>3, DomainOf
  <1>5. \A k \in 1..l : td[k].kind = "create" BY <1>3 DEF Inserting
  <1>6. td[l + 1].kind = "run" BY <1>3 DEF Pausing
  <1>7. ASSUME NEW j \in DOMAIN td, NEW k \in DOMAIN td, td[j].kind = "run", td[k].kind = "create" PROVE k < j
    <2>1. j \notin 1..l
      <3>1. j \in 1..l => td[j].kind = "create" BY <1>5
      <3> QED BY <1>7, <3>1
    <2>2. k # l + 1 BY <1>6, <1>7
    <2> QED BY <1>2, <1>4, <2>1, <2>2
  <1>8. Live = {} BY DEF Started
  <1> QED BY <1>7, <1>8 DEF Awaits

LEMMA SameAwaits ==
  ASSUME steps' = steps
  PROVE  /\ Live' = Live /\ \A t : Done(t)' <=> Done(t)
         /\ \A td : Awaits(td) => Awaits(td)'
PROOF
  <1>1. Live' = Live /\ \A t : Done(t)' <=> Done(t) BY DEF Live, Done
  <1> QED BY <1>1 DEF Awaits, Shrinks, Creates, Opens, Reopens

LEMMA SettingAwaits ==
  ASSUME NEW w, w.kind = "set", NEW td, td = <<w>>
  PROVE  Awaits(td)
PROOF
  <1>1. \A k \in DOMAIN td : td[k].kind \in {"set", "create"} OBVIOUS
  <1> QED BY <1>1, GrowthAwaits

LEMMA IdleCloses ==
  /\ ~Closes(Idle) /\ Idle.op \notin Editors /\ Idle.op \notin Workers
  /\ ~Closes(Loop) /\ ~(\E s : Closes(Picked(s)))
  /\ Resumes(<<>>)
PROOF
  <1>1. \A k : k \notin DOMAIN <<>> OBVIOUS
  <1>2. Idle.pc = "idle" /\ Idle.todo = <<>> /\ Idle.op = "none" BY DEF Idle
  <1>3. Loop.pc = "pick" /\ Loop.todo = <<>> BY LoopIs
  <1>4. \A s : Picked(s).pc = "execute" /\ Picked(s).todo = <<>> BY DEF Picked
  <1> QED BY <1>1, <1>2, <1>3, <1>4 DEF Closes, Resumes, Editors, Workers, Work

\* No request is under way when an edit begins: nothing waits to be closed.
LEMMA EditOpens ==
  ASSUME Base, Structure, Openness, LastDone, NEW p \in Requests, NEW op, NEW s, NEW td, Edits(p, op, s, td),
         "trimmed" \notin wrong' => Awaits(td)
  PROVE  Openness' /\ LastDone'
PROOF
  <1>1. CASE ~Untrimmed' BY <1>1 DEF Openness, LastDone
  <1>2. CASE Untrimmed'
    <2>1. /\ Undisturbed
          /\ \A q \in Requests : req[q].op = "none"
          /\ \A q \in Requests \ {p} : req'[q] = req[q]
          /\ req'[p].todo = td /\ req'[p].op \in Editors
      BY <1>2, EditAlone DEF Untrimmed
    <2>2. /\ steps' = steps /\ (run' = run \/ run' = "running") /\ wrong \subseteq wrong'
      BY DEF Edits
    <2>3. Untrimmed BY <1>2, <2>1, <2>2 DEF Untrimmed
    <2>4. Awaits(td)' BY <1>2, <2>2, SameAwaits DEF Untrimmed
    <2>5. "none" \notin Editors /\ "none" \notin Workers BY DEF Editors, Workers, Work
    <2>6. Openness'
      <3> SUFFICES ASSUME NEW q \in Requests
                   PROVE  /\ req'[q].op \in Editors => Awaits(req[q].todo)'
                          /\ req'[q].op \in Workers => Resumes(req'[q].todo)
        BY DEF Openness, Resumes, Reopens
      <3>1. CASE q # p BY <2>1, <2>5, <3>1
      <3>2. CASE q = p
        <4>1. req'[q].op \notin Workers BY <2>1, <3>2 DEF Editors, Workers, Work
        <4>2. req'[q].todo = td BY <2>1, <3>2
        <4>3. Awaits(req[q].todo)' BY <2>4, <4>2 DEF Awaits, Shrinks, Creates, Opens, Reopens
        <4> QED BY <4>1, <4>3
      <3> QED BY <3>1, <3>2
    <2>7. LastDone'
      <3>1. \A q \in Requests : ~Closes(req[q])
        <4> SUFFICES ASSUME NEW q \in Requests PROVE ~Closes(req[q]) OBVIOUS
        <4>1. ShapeOf(req[q]) /\ req[q].op = "none" BY <2>1, RequestFacts DEF Base
        <4>2. req[q] = Idle BY <4>1 DEF ShapeOf
        <4> QED BY <4>2, IdleCloses
      <3>2. ~Finale BY <2>3, <3>1 DEF LastDone
      <3>3. ~Finale'
        <4>1. Live' = Live /\ \A t : Done(t)' <=> Done(t) BY <2>2, SameAwaits
        <4> QED BY <2>2, <3>2, <4>1 DEF Finale, AllDone
      <3> QED BY <3>3 DEF LastDone
    <2> QED BY <2>6, <2>7
  <1> QED BY <1>1, <1>2

LEMMA EditStepOpens ==
  ASSUME Base, Structure, Openness, LastDone, NEW p \in Requests, EditStep(p)
  PROVE  Openness' /\ LastDone'
PROOF
  <1>1. ASSUME NEW specs, NEW td, Started(p, specs, td) PROVE Openness' /\ LastDone'
    <2>1. Edits(p, "start", 0, td) BY <1>1 DEF Started
    <2> QED BY <1>1, <2>1, StartedAwaits, EditOpens
  <1>2. ASSUME NEW w, Unanswered(p, w) PROVE Openness' /\ LastDone'
    <2>1. PICK td : td = <<w>> OBVIOUS
    <2>2. Edits(p, "start", 0, td) BY <1>2, <2>1 DEF Unanswered
    <2>3. w.kind = "run" /\ w.run # "pending_approval" BY <1>2 DEF Unanswered
    <2>4. DOMAIN td = {1} /\ td[1] = w BY <2>1
    <2>5. Awaits(td) BY <2>3, <2>4 DEF Awaits, Shrinks, Reopens
    <2> QED BY <2>2, <2>5, EditOpens
  <1>3. ASSUME NEW at \in Nat \ {0}, NEW tool, NEW deps, NEW td, Created(p, at, tool, deps, td) PROVE Openness' /\ LastDone'
    <2>1. Edits(p, "edit", 0, td) BY <1>3 DEF Created
    <2> QED BY <1>3, <2>1, CreatedAwaits, EditOpens
  <1>4. ASSUME NEW s, NEW t, NEW td, Swapped(p, s, t, td) PROVE Openness' /\ LastDone'
    <2>1. Edits(p, "edit", s, td) BY <1>4 DEF Swapped
    <2> QED BY <1>4, <2>1, SwappedAwaits, EditOpens
  <1>5. ASSUME NEW s, NEW td, Deleted(p, s, td) PROVE Openness' /\ LastDone'
    <2>1. Edits(p, "edit", s, td) BY <1>5 DEF Deleted
    <2> QED BY <1>5, <2>1, DeletedAwaits, EditOpens
  <1>6. ASSUME NEW s, NEW tool, NEW deps, NEW w, Updated(p, s, tool, deps, w) PROVE Openness' /\ LastDone'
    <2>1. PICK td : td = <<w>> OBVIOUS
    <2>2. Edits(p, "edit", s, td) /\ w.kind = "set" BY <1>6, <2>1 DEF Updated, Updating
    <2> QED BY <2>1, <2>2, SettingAwaits, EditOpens
  <1>7. ASSUME NEW specs, NEW td, Adjusted(p, specs, td) PROVE Openness' /\ LastDone'
    <2>1. Edits(p, "edit", 0, td) BY <1>7 DEF Adjusted
    <2> QED BY <1>7, <2>1, AdjustedAwaits, EditOpens
  <1>8. ASSUME NEW s, NEW w, Accepted(p, s, w) PROVE Openness' /\ LastDone'
    <2>1. PICK td : td = <<w>> OBVIOUS
    <2>2. Edits(p, "edit", s, td) /\ w.kind = "set" BY <1>8, <2>1 DEF Accepted, Accepting
    <2> QED BY <2>1, <2>2, SettingAwaits, EditOpens
  <1> QED BY <1>1, <1>2, <1>3, <1>4, <1>5, <1>6, <1>7, <1>8, EditStepFacts

-----------------------------------------------------------------------------
(* Steps of a request that leave the table alone                            *)

LEMMA ElseOpens ==
  ASSUME Base, Openness, LastDone, steps' = steps, run' = run, Untrimmed' => Untrimmed,
         NEW p \in Requests, NEW r, req' = [req EXCEPT ![p] = r], r.op \notin Editors,
         r.op \in Workers => Resumes(r.todo), ~Closes(req[p]) \/ Closes(r) \/ (Untrimmed => ~Finale)
  PROVE  Openness' /\ LastDone'
PROOF
  <1>1. CASE ~Untrimmed' BY <1>1 DEF Openness, LastDone
  <1>2. CASE Untrimmed'
    <2>1. Untrimmed BY <1>2
    <2>2. req'[p] = r /\ \A q \in Requests \ {p} : req'[q] = req[q] BY DEF Base, TypeOK
    <2>3. Openness'
      <3> SUFFICES ASSUME NEW q \in Requests
                   PROVE  /\ req'[q].op \in Editors => Awaits(req[q].todo)'
                          /\ req'[q].op \in Workers => Resumes(req'[q].todo)
        BY DEF Openness, Resumes, Reopens
      <3>1. CASE q # p
        <4>1. req'[q] = req[q] BY <2>2, <3>1
        <4>2. /\ req[q].op \in Editors => Awaits(req[q].todo)
              /\ req[q].op \in Workers => Resumes(req[q].todo)
          BY <2>1 DEF Openness
        <4>3. PICK td : td = req[q].todo OBVIOUS
        <4>4. Awaits(td) => Awaits(td)' BY SameAwaits
        <4>5. Awaits(td)' => Awaits(req[q].todo)' BY <4>1, <4>3 DEF Awaits, Shrinks, Creates, Opens, Reopens
        <4> QED BY <4>1, <4>2, <4>3, <4>4, <4>5
      <3>2. CASE q = p BY <2>2, <3>2
      <3> QED BY <3>1, <3>2
    <2>4. ASSUME Finale' PROVE \E q \in Requests : Closes(req'[q])
      <3>1. Live' = Live /\ \A t : Done(t)' <=> Done(t) BY SameAwaits
      <3>2. Finale BY <2>4, <3>1 DEF Finale, AllDone
      <3>3. PICK q \in Requests : Closes(req[q]) BY <2>1, <3>2 DEF LastDone
      <3>4. CASE q = p BY <2>1, <2>2, <3>2, <3>3, <3>4
      <3>5. CASE q # p BY <2>2, <3>3, <3>5
      <3> QED BY <3>4, <3>5
    <2>5. LastDone' BY <2>4 DEF LastDone, Closes, Completes
    <2> QED BY <2>3, <2>5
  <1> QED BY <1>1, <1>2

LEMMA NotReopening ==
  /\ \A s, status : ~Reopens(SetStatus(s, status))
  /\ \A s : ~Reopens(ToApprove(s)) /\ ~Reopens(ToRetry(s)) /\ ToRetry(s).kind = "set"
  /\ ~Reopens(SetRun("completed")) /\ ~Reopens(SetRun("token_budget_exceeded"))
PROOF BY DEF Reopens, SetStatus, ToApprove, ToRetry, Set, SetRun

LEMMA OneResumes ==
  ASSUME NEW w, ~Reopens(w), NEW td, td = <<w>>
  PROVE  Resumes(td)
PROOF BY DEF Resumes

LEMMA TwoResume ==
  ASSUME NEW v, NEW w, ~Reopens(w), w.kind = "set" \/ ~Reopens(v), NEW td, td = <<v, w>>
  PROVE  Resumes(td)
PROOF
  <1>1. DOMAIN td = {1, 2} /\ td[1] = v /\ td[2] = w OBVIOUS
  <1>2. ASSUME NEW k \in DOMAIN td, Reopens(td[k]) PROVE \E j \in DOMAIN td : k < j /\ td[j].kind = "set"
    <2>1. k = 1 /\ w.kind = "set" BY <1>1, <1>2
    <2> QED BY <1>1, <2>1
  <1> QED BY <1>2 DEF Resumes

\* Work begins on a step that is not done.
LEMMA WorkOpens ==
  ASSUME Base, Openness, LastDone, NEW p \in Requests, NEW op, NEW s, NEW td, NEW then, Works(p, op, s, td, then),
         Resumes(td)
  PROVE  Openness' /\ LastDone'
PROOF
  <1>1. PICK r : r = Request(op, s, td, then) OBVIOUS
  <1>2. /\ s \in Live /\ ~Done(s) /\ op \in Workers /\ req' = [req EXCEPT ![p] = r]
        /\ steps' = steps /\ run' = run /\ faults' = faults /\ wrong \subseteq wrong'
    BY <1>1 DEF Works
  <1>3. r.op = op /\ r.todo = td BY <1>1 DEF Request
  <1>4. r.op \notin Editors BY <1>2, <1>3 DEF Editors, Workers, Work
  <1>5. ~Finale BY <1>2 DEF Finale, AllDone
  <1>6. Untrimmed' => Untrimmed BY <1>2 DEF Untrimmed, Undisturbed
  <1> QED BY <1>2, <1>3, <1>4, <1>5, <1>6, ElseOpens

LEMMA WorkStepOpens ==
  ASSUME Base, Openness, LastDone, NEW p \in Requests, ExecutePlanStep(p) \/ SkipPlanStep(p) \/ RetryPlanStep(p)
  PROVE  Openness' /\ LastDone'
PROOF
  <1>1. CASE ExecutePlanStep(p)
    <2>1. PICK s \in Live :
            \/ Works(p, "execute", s, <<ToApprove(s)>>, "idle")
            \/ \E op \in {"execute", "continue"} : Works(p, op, s, <<SetStatus(s, "running")>>, "work")
      BY <1>1, ExecuteFacts
    <2>2. Resumes(<<ToApprove(s)>>) /\ Resumes(<<SetStatus(s, "running")>>) BY NotReopening, OneResumes
    <2> QED BY <2>1, <2>2, WorkOpens
  <1>2. CASE SkipPlanStep(p)
    <2>1. PICK s \in Live : Works(p, "skip", s, <<SetStatus(s, "skipped")>>, "settle") BY <1>2, SkipFacts
    <2>2. Resumes(<<SetStatus(s, "skipped")>>) BY NotReopening, OneResumes
    <2> QED BY <2>1, <2>2, WorkOpens
  <1>3. CASE RetryPlanStep(p)
    <2>1. PICK s \in Live, then \in {"idle", "execute"} :
            Works(p, "retry", s, <<SetRun("pending_approval"), ToRetry(s)>>, then)
      BY <1>3, RetryFacts
    <2>2. PICK v : v = SetRun("pending_approval") OBVIOUS
    <2>3. PICK w : w = ToRetry(s) OBVIOUS
    <2>4. ~Reopens(w) /\ w.kind = "set" BY <2>3, NotReopening
    <2>5. Resumes(<<v, w>>) BY <2>4, TwoResume
    <2> QED BY <2>1, <2>2, <2>3, <2>5, WorkOpens
  <1> QED BY <1>1, <1>2, <1>3

LEMMA StatementExecutes ==
  ASSUME Base, Clean, InHand, NEW p \in Requests, Statement(p), Stored(p) \/ Turned(p) \/ Dropped(p) \/ Inserted(p),
         NEW td, td = req[p].todo, NEW t, t = Tail(td)
  PROVE  Executing(td, t)
PROOF
  <1>1. plan' = plan /\ needs' = needs BY StatementFacts DEF RestSame
  <1>2. req[p].pc \in {"write", "store"} BY DEF Stored, Turned, Dropped, Inserted
  <1>3. /\ 1 \in DOMAIN td /\ Next1(p) = td[1] /\ Len(td) \in Nat \ {0} /\ t \in Seq(StatementType) /\ Len(t) = Len(td) - 1
        /\ \A k \in 1..(Len(td) - 1) : t[k] = td[k + 1]
    BY <1>2, HeadFacts DEF Base
  <1>4. DOMAIN td = 1..Len(td) /\ \A k \in 1..Len(td) : td[k] \in StatementType /\ WellFormed(td[k])
    BY RequestFacts DEF Base
  <1>5. DOMAIN t = 1..(Len(td) - 1) BY <1>3, LenProperties
  <1>6. PICK w : w = Next1(p) OBVIOUS
  <1>7. Effect(w) /\ w = td[1] BY <1>3, <1>6, EffectOf
  <1> QED BY <1>1, <1>3, <1>4, <1>5, <1>7 DEF Executing

\* A statement of an edit, and what it leaves open.
LEMMA AwaitsTail ==
  ASSUME NEW td, NEW t, Executing(td, t), Applies(td), Awaits(td), NEW w, w = td[1], After(w),
         \A s \in Steps : ~Done(s) => ~Done(s)', w.kind = "create" => ~Done(w.step)'
  PROVE  Awaits(t)'
PROOF
  <1>1. \A k \in DOMAIN t : k \in Nat \ {0} /\ k + 1 \in DOMAIN td /\ t[k] = td[k + 1] BY ExecutingFacts
  <1>2. 1 \in DOMAIN td /\ DOMAIN td = 1..Len(td) /\ Len(td) \in Nat \ {0} /\ DOMAIN t = 1..(Len(td) - 1)
    BY DEF Executing
  <1>3. ASSUME NEW j \in DOMAIN t, NEW k \in DOMAIN t, t[j].kind = "run", t[k].kind = "create" PROVE k < j
    <2>1. j \in Nat /\ k \in Nat /\ j + 1 \in DOMAIN td /\ k + 1 \in DOMAIN td /\ t[j] = td[j + 1] /\ t[k] = td[k + 1] BY <1>1
    <2>2. k + 1 < j + 1 BY <1>3, <2>1 DEF Awaits
    <2> QED BY <2>1, <2>2
  <1>4. ASSUME Shrinks(t) PROVE Creates(t) \/ Opens(t)' \/ Live' = {}
    <2>1. Shrinks(td) BY <1>1, <1>4 DEF Shrinks
    <2>2. Live \subseteq Steps BY DEF Live
    <2>3. CASE w.kind = "create"
      <3>1. PICK u : u = w.step OBVIOUS
      <3>2. u \in Live' /\ u \notin Live /\ ~Done(u)' BY <2>3, <3>1 DEF After
      <3>3. \A k \in DOMAIN t : t[k].kind = "delete" => t[k].step # u BY <1>1, <3>2 DEF Applies
      <3> QED BY <3>2, <3>3 DEF Opens
    <2>4. CASE Creates(td) /\ w.kind # "create"
      <3>1. PICK k \in DOMAIN td : td[k].kind = "create" BY <2>4 DEF Creates
      <3>2. k # 1 BY <2>4, <3>1
      <3>3. k - 1 \in DOMAIN t /\ (k - 1) + 1 = k BY <1>2, <3>1, <3>2
      <3>4. t[k - 1] = td[k] BY <1>1, <3>3
      <3> QED BY <3>1, <3>3, <3>4 DEF Creates
    <2>5. CASE Opens(td) /\ w.kind # "create"
      <3>1. PICK x \in Live : ~Done(x) /\ \A k \in DOMAIN td : td[k].kind = "delete" => td[k].step # x BY <2>5 DEF Opens
      <3>2. ~Done(x)' BY <2>2, <3>1
      <3>3. w.kind = "delete" => w.step # x BY <1>2, <3>1
      <3>4. w.kind \in {"set", "run", "create", "delete"}
        <4>1. w \in StatementType BY <1>2 DEF Executing
        <4> QED BY <4>1 DEF StatementType
      <3>5. x \in Live' BY <2>5, <3>1, <3>3, <3>4 DEF After
      <3>6. \A k \in DOMAIN t : t[k].kind = "delete" => t[k].step # x BY <1>1, <3>1
      <3> QED BY <3>2, <3>5, <3>6 DEF Opens
    <2>6. CASE Live = {} /\ w.kind # "create"
      <3>1. w.kind \in {"set", "run", "create", "delete"}
        <4>1. w \in StatementType BY <1>2 DEF Executing
        <4> QED BY <4>1 DEF StatementType
      <3>2. Live' = {} BY <2>6, <3>1 DEF After
      <3> QED BY <3>2
    <2> QED BY <2>1, <2>3, <2>4, <2>5, <2>6 DEF Awaits
  <1> QED BY <1>3, <1>4 DEF Awaits, Shrinks, Creates, Opens, Reopens

LEMMA StatementAwaits ==
  ASSUME Base, Base', Clean, Held, NEW p \in Requests, Statement(p), req[p].op \in Editors, Fits(req[p].todo),
         Awaits(req[p].todo), NEW w, w = Next1(p), NEW u, Known(p, w, u), KeepsDone(p, w, u)
  PROVE  req'[p].op \in Editors => Awaits(req[p].todo)'
PROOF
  <1>1. ReadIn(p) \/ Stored(p) \/ Turned(p) \/ Dropped(p) \/ Inserted(p)
    BY StatementFacts, NotStopped DEF Held
  <1>2. req \in [Requests -> RequestType] BY DEF Base, TypeOK
  <1>3. PICK td : td = req[p].todo OBVIOUS
  <1>4. CASE ReadIn(p)
    <2>1. req'[p].todo = td /\ steps' = steps BY <1>2, <1>3, <1>4 DEF ReadIn, InStore
    <2>2. Awaits(td)' BY <1>3, <2>1, SameAwaits
    <2> QED BY <2>1, <2>2 DEF Awaits, Shrinks, Creates, Opens, Reopens
  <1>5. CASE Stored(p) \/ Turned(p) \/ Dropped(p) \/ Inserted(p)
    <2>1. req[p].pc \in {"write", "store"} /\ req'[p] = Then(p) BY <1>2, <1>5 DEF Stored, Turned, Dropped, Inserted
    <2>2. PICK t : t = Tail(td) OBVIOUS
    <2>3. Then(p).todo = t BY <1>3, <2>1, <2>2, ThenFacts DEF Base
    <2>4. Executing(td, t) BY <1>3, <1>5, <2>2, StatementExecutes DEF Held
    <2>5. w = td[1] BY <1>3, <2>1, HeadFacts DEF Base
    <2>6. Applies(td) BY <1>3 DEF Fits
    <2>7. After(w) BY <2>4, <2>5, <2>6, AfterHead DEF Base
    <2>8. \A s \in Steps : ~Done(s) => ~Done(s)' BY DEF KeepsDone
    <2>9. w.kind = "create" => ~Done(w.step)'
      <3>1. ASSUME w.kind = "create" PROVE ~Done(u)'
        <4>1. u \in Live' /\ u \notin Live BY <2>7, <3>1 DEF After, Known
        <4>2. ~DoneBy(w) BY DEF Known
        <4> QED BY <4>1, <4>2 DEF KeepsDone
      <3> QED BY <3>1 DEF Known, Done
    <2>10. Awaits(td) BY <1>3
    <2>11. Awaits(t)' BY <2>4, <2>5, <2>6, <2>7, <2>8, <2>9, <2>10, AwaitsTail
    <2>12. req'[p].todo = t BY <2>1, <2>3
    <2> QED BY <2>11, <2>12 DEF Awaits, Shrinks, Creates, Opens, Reopens
  <1> QED BY <1>1, <1>4, <1>5

LEMMA ResumesTail ==
  ASSUME TypeOK, Shape, NEW p \in Requests, req[p].pc \in {"write", "store"}, Resumes(req[p].todo)
  PROVE  Resumes(Tail(req[p].todo))
PROOF
  <1>1. PICK td : td = req[p].todo OBVIOUS
  <1>2. PICK t : t = Tail(td) OBVIOUS
  <1>3. /\ \A k \in DOMAIN t : k + 1 \in DOMAIN td /\ td[k + 1] = t[k] /\ k \in Nat \ {0}
        /\ DOMAIN t = 1..(Len(td) - 1)
    BY <1>1, <1>2, TailIn
  <1>4. DOMAIN td = 1..Len(td) /\ Len(td) \in Nat BY <1>1, RequestFacts
  <1>5. ASSUME NEW k \in DOMAIN t, Reopens(t[k]) PROVE \E j \in DOMAIN t : k < j /\ t[j].kind = "set"
    <2>1. k + 1 \in DOMAIN td /\ td[k + 1] = t[k] /\ k \in Nat BY <1>3
    <2>2. PICK j \in DOMAIN td : k + 1 < j /\ td[j].kind = "set" BY <1>1, <1>5, <2>1 DEF Resumes
    <2>3. j - 1 \in DOMAIN t /\ k < j - 1 /\ (j - 1) + 1 = j BY <1>3, <1>4, <2>1, <2>2
    <2>4. t[j - 1] = td[j] BY <1>3, <2>3
    <2> QED BY <2>2, <2>3, <2>4
  <1> QED BY <1>1, <1>2, <1>5 DEF Resumes

LEMMA StatementOpenness ==
  ASSUME Base, Base', Apart, Held, Structure, Orderly, Openness, NEW p \in Requests, Statement(p)
  PROVE  Openness'
PROOF
  <1>1. faults' = faults /\ wrong' = wrong
    BY DEF Statement, ReadRow, StoreRow, StoreRun, DeleteRow, CreateRow, history
  <1>2. SUFFICES ASSUME Untrimmed, NEW q \in Requests
                 PROVE  /\ req'[q].op \in Editors => Awaits(req[q].todo)'
                        /\ req'[q].op \in Workers => Resumes(req'[q].todo)
    BY <1>1 DEF Openness, Untrimmed, Undisturbed, Resumes, Reopens
  <1>3. Undisturbed /\ Clean BY <1>2 DEF Untrimmed, Undisturbed, Clean
  <1>4. /\ req[q].op \in Editors => Awaits(req[q].todo)
        /\ req[q].op \in Workers => Resumes(req[q].todo)
    BY <1>2 DEF Openness
  <1>5. CASE q # p
    <2>1. req'[q] = req[q] /\ req[q].op \notin Editors BY <1>3, <1>5, Touches DEF Held
    <2> QED BY <1>4, <2>1
  <1>6. CASE q = p
    <2>1. PICK w : w = Next1(p) OBVIOUS
    <2>2. PICK u : u = w.step OBVIOUS
    <2>3. Known(p, w, u) BY <1>3, <2>1, <2>2, StatementKnown
    <2>4. KeepsDone(p, w, u) BY <1>3, <2>1, <2>3, StatementKeeps
    <2>5. req[p].pc \in {"write", "store"} BY DEF Statement, ReadRow, StoreRow, StoreRun, DeleteRow, CreateRow, At
    <2>6. ReadIn(p) \/ Stored(p) \/ Turned(p) \/ Dropped(p) \/ Inserted(p) \/ Stopped(p) BY <1>3, StatementFacts DEF Held
    <2>7. req \in [Requests -> RequestType] BY DEF Base, TypeOK
    <2>8. req'[p] = InStore(p) \/ req'[p] = Then(p) \/ req'[p] = Idle
      BY <2>6, <2>7 DEF ReadIn, Stored, Turned, Dropped, Inserted, Stopped
    <2>9. Then(p).todo = Tail(req[p].todo) /\ (Then(p).op = req[p].op \/ Then(p) = Idle) BY <2>5, ThenFacts DEF Base
    <2>10. InStore(p).op = req[p].op /\ InStore(p).todo = req[p].todo BY DEF InStore
    <2>11. req'[p].op \in Editors \cup Workers => req'[p].op = req[p].op BY <2>8, <2>9, <2>10, IdleCloses
    <2>12. ASSUME req'[p].op \in Editors PROVE Awaits(req[p].todo)'
      <3>1. req[p].op \in Editors BY <2>11, <2>12
      <3>2. Awaits(req[p].todo) BY <1>4, <1>6, <3>1
      <3>3. Fits(req[p].todo) BY <1>3, <3>1 DEF Structure, Fitting
      <3> QED BY <1>3, <2>1, <2>3, <2>4, <2>12, <3>1, <3>2, <3>3, StatementAwaits
    <2>13. ASSUME req'[p].op \in Workers PROVE Resumes(req'[p].todo)
      <3>1. Resumes(req[p].todo) BY <1>4, <1>6, <2>11, <2>13
      <3>2. Resumes(Tail(req[p].todo)) BY <2>5, <3>1, ResumesTail DEF Base
      <3> QED BY <2>8, <2>9, <2>10, <2>13, <3>1, <3>2, IdleCloses
    <2> QED BY <1>6, <2>12, <2>13
  <1> QED BY <1>5, <1>6

\* A request that creates, or completes the run, with a statement that is not its next one.
LEMMA ClosesAfter ==
  ASSUME Base, NEW p \in Requests, req[p].pc \in {"write", "store"}, NEW k \in DOMAIN req[p].todo, k # 1,
         req[p].todo[k].kind = "create" \/ Completes(req[p].todo[k])
  PROVE  Closes(Then(p))
PROOF
  <1>1. PICK td : td = req[p].todo OBVIOUS
  <1>2. PICK t : t = Tail(td) OBVIOUS
  <1>3. /\ \A j \in DOMAIN t : td[j + 1] = t[j]
        /\ DOMAIN t = 1..(Len(td) - 1)
    BY <1>1, <1>2, TailIn DEF Base
  <1>4. DOMAIN td = 1..Len(td) /\ Len(td) \in Nat BY <1>1, RequestFacts DEF Base
  <1>5. k - 1 \in DOMAIN t /\ (k - 1) + 1 = k BY <1>1, <1>3, <1>4
  <1>6. t[k - 1] = td[k] BY <1>3, <1>5
  <1>7. Then(p).todo = t BY <1>1, <1>2, ThenFacts DEF Base
  <1> QED BY <1>1, <1>5, <1>6, <1>7 DEF Closes

LEMMA StatementFinale ==
  ASSUME Base, Apart, Held, Structure, Orderly, Openness, LastDone, Untrimmed, NEW p \in Requests, Statement(p), Finale'
  PROVE  \E q \in Requests : Closes(req'[q])
PROOF
  <1>1. Undisturbed /\ Clean BY DEF Untrimmed, Undisturbed, Clean
  <1>2. PICK w : w = Next1(p) OBVIOUS
  <1>3. PICK u : u = w.step OBVIOUS
  <1>4. Known(p, w, u) BY <1>1, <1>2, <1>3, StatementKnown
  <1>5. KeepsDone(p, w, u) BY <1>1, <1>2, <1>4, StatementKeeps
  <1>6. req[p].pc \in {"write", "store"} BY DEF Statement, ReadRow, StoreRow, StoreRun, DeleteRow, CreateRow, At
  <1>7. 1 \in DOMAIN req[p].todo /\ w = req[p].todo[1] BY <1>2, <1>6, HeadFacts DEF Base
  <1>8. req \in [Requests -> RequestType] BY DEF Base, TypeOK
  <1>9. \A q \in Requests \ {p} : req'[q] = req[q] BY <1>1, Touches DEF Held
  <1>10. ReadIn(p) \/ Stored(p) \/ Turned(p) \/ Dropped(p) \/ Inserted(p) \/ Stopped(p) BY <1>1, StatementFacts DEF Held
  <1>11. Live' # {} /\ (\A t \in Live' : Done(t)') /\ run' = "pending_approval" BY DEF Finale, AllDone
  <1>12. ASSUME Finale, req'[p] = Then(p), w.kind # "create", ~Completes(w) PROVE \E q \in Requests : Closes(req'[q])
    <2>1. PICK q \in Requests : Closes(req[q]) BY <1>12 DEF LastDone
    <2>2. CASE q # p BY <1>9, <2>1, <2>2
    <2>3. CASE q = p
      <3>1. PICK k \in DOMAIN req[p].todo : req[p].todo[k].kind = "create" \/ Completes(req[p].todo[k])
        BY <1>6, <2>1, <2>3 DEF Closes
      <3>2. k # 1 BY <1>7, <1>12, <3>1
      <3> QED BY <1>6, <1>12, <3>1, <3>2, ClosesAfter
    <2> QED BY <2>2, <2>3
  <1>13. CASE ReadIn(p)
    <2>1. steps' = steps /\ run' = run /\ req'[p] = InStore(p) BY <1>8, <1>13 DEF ReadIn
    <2>2. Live' = Live /\ \A t : Done(t)' <=> Done(t) BY <2>1, SameAwaits
    <2>3. Finale BY <1>11, <2>1, <2>2 DEF Finale, AllDone
    <2>4. PICK q \in Requests : Closes(req[q]) BY <2>3 DEF LastDone
    <2>5. CASE q # p BY <1>9, <2>4, <2>5
    <2>6. CASE q = p
      <3>1. \E k \in DOMAIN req[p].todo : req[p].todo[k].kind = "create" \/ Completes(req[p].todo[k])
        BY <1>6, <2>4, <2>6 DEF Closes
      <3>2. req'[p].todo = req[p].todo BY <2>1 DEF InStore
      <3> QED BY <3>1, <3>2 DEF Closes
    <2> QED BY <2>5, <2>6
  <1>14. CASE Stored(p)
    <2>1. w.kind = "set" /\ u \in Live /\ run' = run /\ req'[p] = Then(p) BY <1>2, <1>3, <1>8, <1>14 DEF Stored
    <2>2. \A t \in Live : t \in Live'
      <3>1. \A t \in Live : t # u => t \in Live' BY <1>1, <1>2, <1>3, Touches DEF Held
      <3>2. u \in Live'
        <4>1. steps' = [steps EXCEPT ![u] = Patched(steps[u], w)] /\ u \in Steps BY <1>2, <1>3, <1>14, <2>1, StepLive DEF Stored
        <4>2. steps'[u].index = IF "index" \in w.fields THEN w.row.index ELSE steps[u].index
          BY <4>1 DEF Base, TypeOK, Patched
        <4>3. steps'[u].index > 0 BY <1>4, <2>1, <4>2, StepLive DEF Known, WellFormed, Sets, Index
        <4> QED BY <4>1, <4>3 DEF Live
      <3> QED BY <3>1, <3>2
    <2>3. CASE DoneBy(w)
      <3>1. req[p].op \in Workers BY <1>4, <2>3 DEF Known
      <3>2. Len(req[p].todo) = 1 /\ req[p].then = "settle" BY <1>2, <1>6, <2>3, <3>1, WorkerHead
      <3>3. Then(p).pc = "settle" BY <3>2 DEF Then
      <3> QED BY <2>1, <3>3 DEF Closes
    <2>4. CASE ~DoneBy(w)
      <3>1. \A t \in Live : Done(t) BY <1>5, <1>11, <2>2, <2>4 DEF KeepsDone
      <3>2. Finale BY <1>11, <2>1, <3>1 DEF Finale, AllDone
      <3> QED BY <1>12, <2>1, <3>2 DEF Completes
    <2> QED BY <2>3, <2>4
  <1>15. CASE Turned(p)
    <2>1. w.kind = "run" /\ run' = w.run /\ steps' = steps BY <1>2, <1>15 DEF Turned
    <2>2. Live' = Live /\ \A t : Done(t)' <=> Done(t) BY <2>1, SameAwaits
    <2>3. Live # {} /\ \A t \in Live : Done(t) BY <1>11, <2>2
    <2>4. Reopens(w) BY <1>11, <2>1 DEF Reopens
    <2>5. CASE req[p].op \in Editors
      <3>1. PICK td : td = req[p].todo OBVIOUS
      <3>2. Awaits(td) BY <2>5, <3>1 DEF Openness
      <3>3. Shrinks(td) BY <1>7, <2>4, <3>1 DEF Shrinks
      <3>4. ~Opens(td) BY <2>3 DEF Opens
      <3>5. PICK k \in DOMAIN td : td[k].kind = "create" BY <2>3, <3>2, <3>3, <3>4 DEF Awaits, Creates
      <3>6. k < 1 BY <1>7, <2>1, <3>1, <3>2, <3>5 DEF Awaits
      <3>7. k \in Nat \ {0} BY <3>1, RequestFacts DEF Base
      <3> QED BY <3>6, <3>7
    <2>6. CASE req[p].op \in Workers
      <3>1. Resumes(req[p].todo) BY <2>6 DEF Openness
      <3>2. SetPending(p) BY <1>7, <2>4, <3>1 DEF Resumes, SetPending
      <3>3. req[p].step \in Live /\ ~Done(req[p].step) BY <1>1, <2>6, <3>2 DEF Held, AtWork
      <3> QED BY <2>3, <3>3
    <2> QED BY <1>4, <2>5, <2>6 DEF Known
  <1>16. CASE Dropped(p)
    <2>1. w.kind = "delete" /\ u \in Live /\ run' = run /\ req'[p] = Then(p) BY <1>2, <1>3, <1>8, <1>16 DEF Dropped
    <2>2. req[p].op \in Editors BY <1>4, <2>1 DEF Known
    <2>3. PICK td : td = req[p].todo OBVIOUS
    <2>4. Awaits(td) /\ Shrinks(td) BY <1>7, <2>1, <2>2, <2>3 DEF Openness, Shrinks
    <2>5. ~Opens(td)
      <3>1. ASSUME NEW x \in Live, ~Done(x), x # u PROVE FALSE
        <4>1. x \in Live' BY <1>1, <1>2, <1>3, <3>1, Touches DEF Held
        <4>2. x \in Steps BY StepLive
        <4>3. ~Done(x)' BY <1>5, <2>2, <3>1, <4>2 DEF KeepsDone
        <4> QED BY <1>11, <4>1, <4>3
      <3> QED BY <1>3, <1>7, <2>1, <2>3, <3>1 DEF Opens
    <2>6. PICK k \in DOMAIN td : td[k].kind = "create" BY <2>1, <2>4, <2>5 DEF Awaits, Creates
    <2>7. k # 1 BY <1>7, <2>1, <2>3, <2>6
    <2> QED BY <1>6, <2>1, <2>3, <2>6, <2>7, ClosesAfter
  <1>17. CASE Inserted(p)
    <2>1. w.kind = "create" /\ req[p].op \in Editors BY <1>2, <1>4, <1>17 DEF Inserted, Known
    <2>2. u \notin Live /\ ~DoneBy(w) /\ u \in Steps /\ w.row \in Row /\ w.row.index > 0
      BY <1>4, <2>1 DEF Known, WellFormed, StatementType
    <2>3. u \in Live'
      <3>1. steps' = [steps EXCEPT ![u] = NewRow(w.row)] BY <1>2, <1>3, <1>17 DEF Inserted
      <3>2. steps'[u] = NewRow(w.row) BY <2>2, <3>1 DEF Base, TypeOK
      <3>3. steps'[u].index > 0 BY <2>2, <3>2, NewRowFacts
      <3> QED BY <2>2, <3>3 DEF Live
    <2>4. ~Done(u)' BY <1>5, <2>2, <2>3 DEF KeepsDone
    <2> QED BY <1>11, <2>3, <2>4
  <1>18. CASE Stopped(p)
    <2>1. Refused(p) BY <1>18 DEF Stopped
    <2>2. req[p].op \in Workers BY <1>4, <1>18 DEF Known
    <2>3. w.kind \in {"set", "run"} /\ (w.kind = "set" => u \in Live) BY <1>4, <2>2 DEF Known
    <2>4. req[p].pc = "store" /\ ~(AtIndex(req[p].row.index) \subseteq {u}) BY <1>2, <1>3, <2>1, <2>3 DEF Refused
    <2>5. u \in Live /\ req[p].row = Patched(steps[u], w) BY <1>1, <1>2, <1>3, <2>4 DEF Held, InHand, At
    <2>6. WorksOn(w, req[p].step) BY <1>2, <1>6, <2>2, WorkerHead
    <2>7. ShapeOf(req[p]) BY RequestFacts DEF Base
    <2>8. w.kind = "set" BY <1>7, <2>4, <2>7 DEF ShapeOf
    <2>9. "index" \notin w.fields BY <2>6, <2>8 DEF WorksOn
    <2>10. req[p].row.index = Index(u) BY <2>5, <2>9 DEF Patched, Index
    <2>11. AtIndex(Index(u)) \subseteq {u} BY <2>5 DEF AtIndex, Base, Unique
    <2> QED BY <2>4, <2>10, <2>11
  <1> QED BY <1>10, <1>13, <1>14, <1>15, <1>16, <1>17, <1>18

LEMMA StatementOpens ==
  ASSUME Base, Base', Apart, Held, Structure, Orderly, Openness, LastDone, NEW p \in Requests, Statement(p)
  PROVE  Openness' /\ LastDone'
PROOF
  <1>1. faults' = faults /\ wrong' = wrong
    BY DEF Statement, ReadRow, StoreRow, StoreRun, DeleteRow, CreateRow, history
  <1>2. Untrimmed' => Untrimmed BY <1>1 DEF Untrimmed, Undisturbed
  <1>3. LastDone'
    <2>1. Untrimmed /\ Finale' => \E q \in Requests : Closes(req'[q]) BY StatementFinale
    <2> QED BY <1>2, <2>1 DEF LastDone, Closes, Completes
  <1> QED BY <1>3, StatementOpenness

LEMMA BetweenOpens ==
  ASSUME Base, Held, Openness, LastDone, NEW p \in Requests,
         StartFails(p) \/ Fault(p) \/ ExecuteRefused(p) \/ Run(p) \/ Settle(p) \/ Pick(p) \/ ContinuePlanningRun(p)
  PROVE  Openness' /\ LastDone'
PROOF
  <1>1. CASE StartFails(p) \/ Fault(p)
    <2>1. faults' = faults + 1 /\ faults \in Nat BY <1>1 DEF StartFails, Fault, Base, TypeOK
    <2>2. ~(faults + 1 = 0) BY <2>1
    <2> QED BY <2>1, <2>2 DEF Openness, LastDone, Untrimmed, Undisturbed
  <1>2. CASE Run(p)
    <2>1. req[p].pc = "work" BY <1>2 DEF Run, At
    <2>2. steps' = steps /\ run' = run /\ faults' = faults /\ wrong \subseteq wrong' BY <1>2 DEF Run
    <2>3. Untrimmed' => Untrimmed BY <2>2 DEF Untrimmed, Undisturbed
    <2>4. PICK e \in Endings(req[p].step) : req' = [req EXCEPT ![p] = Ended(p, e[1], e[2])] BY <1>2, RunFacts
    <2>5. PICK r : r = Ended(p, e[1], e[2]) OBVIOUS
    <2>6. r.op \in Workers /\ r.op \notin Editors /\ r.todo = e[1]
      BY <2>1, <2>5, Between DEF Ended, Workers, Work, Editors
    <2>7. Resumes(e[1])
      <3>1. PICK s : s = req[p].step OBVIOUS
      <3>2. \/ \E status : e[1] = <<SetStatus(s, status)>>
            \/ e[1] = <<SetStatus(s, "failed"), SetRun("token_budget_exceeded")>>
        BY <3>1 DEF Endings
      <3>3. \A status : Resumes(<<SetStatus(s, status)>>) BY NotReopening, OneResumes
      <3>4. PICK v : v = SetStatus(s, "failed") OBVIOUS
      <3>5. PICK w : w = SetRun("token_budget_exceeded") OBVIOUS
      <3>6. ~Reopens(v) /\ ~Reopens(w) BY <3>4, <3>5, NotReopening
      <3>7. Resumes(<<v, w>>) BY <3>6, TwoResume
      <3> QED BY <3>2, <3>3, <3>4, <3>5, <3>7
    <2>8. Untrimmed => ~Finale
      <3>1. req[p].op \in Workers BY <2>1, Between
      <3>2. Untrimmed => req[p].step \in Live /\ ~Done(req[p].step)
        BY <2>1, <3>1 DEF Held, AtWork, At, Untrimmed, Undisturbed, Clean
      <3> QED BY <3>2 DEF Finale, AllDone
    <2> QED BY <2>2, <2>3, <2>4, <2>5, <2>6, <2>7, <2>8, ElseOpens
  <1>3. CASE ExecuteRefused(p) \/ Settle(p) \/ Pick(p) \/ ContinuePlanningRun(p)
    <2>1. steps' = steps /\ run' = run /\ faults' = faults /\ wrong' = wrong
      BY <1>3 DEF ExecuteRefused, Settle, Pick, ContinuePlanningRun, history
    <2>2. Untrimmed' => Untrimmed BY <2>1 DEF Untrimmed, Undisturbed
    <2>3. ASSUME NEW r, req' = [req EXCEPT ![p] = r], r.op \notin Editors, r.op \in Workers => Resumes(r.todo),
                 ~Closes(req[p]) \/ Closes(r) \/ (Untrimmed => ~Finale)
          PROVE  Openness' /\ LastDone'
      BY <2>1, <2>2, <2>3, ElseOpens
    <2>4. /\ Loop.op \notin Editors /\ Resumes(Loop.todo)
          /\ \A s : Picked(s).op \notin Editors /\ Resumes(Picked(s).todo)
      <3>1. Loop.todo = <<>> /\ Loop.op = "continue" BY LoopIs
      <3>2. \A s : Picked(s).todo = <<>> /\ Picked(s).op = "continue" BY DEF Picked
      <3> QED BY <3>1, <3>2, IdleCloses DEF Editors
    <2>5. ASSUME ~Closes(req[p]) \/ (Untrimmed => ~Finale) PROVE End(p) => Openness' /\ LastDone'
      BY <2>3, <2>5, IdleCloses DEF End, Go
    <2>6. ASSUME ~Closes(req[p]) \/ (Untrimmed => ~Finale) PROVE Go(p, Loop) => Openness' /\ LastDone'
      BY <2>3, <2>4, <2>6 DEF Go
    <2>7. req[p].pc \in {"idle", "execute", "pick"} => ~Closes(req[p])
      <3>1. ShapeOf(req[p]) BY RequestFacts DEF Base
      <3>2. req[p].pc \in {"idle", "execute", "pick"} => req[p].todo = <<>> BY <3>1 DEF ShapeOf
      <3>3. \A k : k \notin DOMAIN <<>> OBVIOUS
      <3> QED BY <3>2, <3>3 DEF Closes
    <2>8. CASE ExecuteRefused(p) BY <2>5, <2>7, <2>8 DEF ExecuteRefused, At
    <2>9. CASE Settle(p)
      <3>1. CASE MustComplete /\ req' = [req EXCEPT ![p] = Completing(p)]
        <4>1. PICK r : r = Completing(p) OBVIOUS
        <4>2. req[p].pc = "settle" BY <2>9 DEF Settle, At
        <4>3. r.op \notin Editors /\ r.todo = <<SetRun("completed")>>
          BY <4>1, <4>2, Between DEF Completing, Request, Workers, Work, Editors
        <4>4. Completes(SetRun("completed")) BY DEF Completes, SetRun
        <4>5. Closes(r) BY <4>3, <4>4 DEF Closes
        <4>6. Resumes(r.todo) BY <4>3, NotReopening, OneResumes
        <4> QED BY <2>3, <3>1, <4>1, <4>3, <4>5, <4>6
      <3>2. CASE ~MustComplete
        <4>1. ~Finale BY <3>2 DEF Finale, MustComplete
        <4> QED BY <2>5, <2>6, <2>9, <3>2, <4>1, SettleFacts
      <3> QED BY <2>9, <3>1, <3>2, SettleFacts
    <2>10. CASE Pick(p)
      <3>1. req[p].pc = "pick" BY <2>10 DEF Pick, At
      <3>2. ~Closes(req[p]) BY <2>7, <3>1
      <3>3. End(p) \/ \E s \in Live : req' = [req EXCEPT ![p] = Picked(s)] BY <2>10, PickFacts
      <3>4. ASSUME NEW s \in Live, req' = [req EXCEPT ![p] = Picked(s)] PROVE Openness' /\ LastDone'
        BY <2>3, <2>4, <3>2, <3>4
      <3> QED BY <2>5, <3>2, <3>3, <3>4
    <2>11. CASE ContinuePlanningRun(p)
      <3>1. req[p].pc = "idle" /\ Go(p, Loop) BY <2>11 DEF ContinuePlanningRun, At
      <3>2. ~Closes(req[p]) BY <2>7, <3>1
      <3> QED BY <2>6, <3>1, <3>2
    <2> QED BY <1>3, <2>8, <2>9, <2>10, <2>11
  <1> QED BY <1>1, <1>2, <1>3

LEMMA OpensStep ==
  Base /\ Base' /\ Apart /\ Held /\ Structure /\ Orderly /\ Openness /\ LastDone /\ [Next]_vars => Openness' /\ LastDone'
PROOF
  <1> SUFFICES ASSUME Base, Base', Apart, Held, Structure, Orderly, Openness, LastDone, [Next]_vars
               PROVE  Openness' /\ LastDone'
    OBVIOUS
  <1>1. CASE UNCHANGED vars \/ EditAgent
    <2>1. steps' = steps /\ run' = run /\ faults' = faults /\ wrong \subseteq wrong' /\ req' = req
      BY <1>1 DEF vars, EditAgent
    <2>2. Untrimmed' => Untrimmed BY <2>1 DEF Untrimmed, Undisturbed
    <2>3. Live' = Live /\ \A t : Done(t)' <=> Done(t) BY <2>1, SameAwaits
    <2>4. ASSUME Untrimmed, NEW q \in Requests
          PROVE  /\ req'[q].op \in Editors => Awaits(req[q].todo)'
                 /\ req'[q].op \in Workers => Resumes(req'[q].todo)
      <3>1. PICK td : td = req[q].todo OBVIOUS
      <3>2. /\ req[q].op \in Editors => Awaits(td)
            /\ req[q].op \in Workers => Resumes(td)
        BY <2>4, <3>1 DEF Openness
      <3>3. Awaits(td) => Awaits(td)' BY <2>1, SameAwaits
      <3>4. Awaits(td)' => Awaits(req[q].todo)' BY <2>1, <3>1 DEF Awaits, Shrinks, Creates, Opens, Reopens
      <3> QED BY <2>1, <3>1, <3>2, <3>3, <3>4
    <2>5. Openness' BY <2>2, <2>4 DEF Openness, Resumes, Reopens
    <2>6. Finale' => Finale BY <2>1, <2>3 DEF Finale, AllDone
    <2>7. Untrimmed' /\ Finale' => \E q \in Requests : Closes(req'[q]) BY <2>1, <2>2, <2>6 DEF LastDone
    <2>8. LastDone' BY <2>7 DEF LastDone, Closes, Completes
    <2> QED BY <2>5, <2>8
  <1>2. ASSUME NEW p \in Requests, EditStep(p) PROVE Openness' /\ LastDone' BY <1>2, EditStepOpens
  <1>3. ASSUME NEW p \in Requests, ExecutePlanStep(p) \/ SkipPlanStep(p) \/ RetryPlanStep(p) PROVE Openness' /\ LastDone'
    BY <1>3, WorkStepOpens
  <1>4. ASSUME NEW p \in Requests, Statement(p) PROVE Openness' /\ LastDone' BY <1>4, StatementOpens
  <1>5. CASE Next BY <1>1, <1>2, <1>3, <1>4, <1>5, NextCases, BetweenOpens
  <1> QED BY <1>1, <1>5

\* The invariant that carries LastDoneCompletes.
Watched == Planned /\ Openness /\ LastDone

LEMMA WatchedInit == Init => Watched
PROOF
  <1> SUFFICES ASSUME Init PROVE Watched OBVIOUS
  <1>1. \A q \in Requests : req[q] = Idle BY DEF Init
  <1>2. Openness BY <1>1, IdleCloses DEF Openness
  <1>3. run # "pending_approval" BY DEF Init
  <1>4. LastDone BY <1>3 DEF LastDone, Finale
  <1> QED BY <1>2, <1>4, PlannedInit DEF Watched

LEMMA WatchedStep == Watched /\ [Next]_vars => Watched'
PROOF
  <1> SUFFICES ASSUME Watched, [Next]_vars PROVE Watched' OBVIOUS
  <1>1. Planned' BY PlannedStep DEF Watched
  <1>2. Base' BY <1>1 DEF Planned, Guarded
  <1>3. Base /\ Apart /\ Held /\ Structure /\ Orderly /\ Openness /\ LastDone BY DEF Watched, Planned, Guarded
  <1>4. Openness' /\ LastDone' BY <1>2, <1>3, OpensStep
  <1> QED BY <1>1, <1>4 DEF Watched

\* While a run whose steps are all done still waits for the user, some request is going to look
\* whether it is done, to complete it or to create a step.
THEOREM SpecWatched == Spec => []Watched
PROOF BY WatchedInit, WatchedStep, PTL DEF Spec

\* completeRunWhenAllPlanStepsDone: whichever of several requests ends its step last completes the
\* run, unless the user deleted the last open step.
THEOREM LastDoneIsCompleted == Spec => []LastDoneCompletes
PROOF
  <1>1. Watched => LastDoneCompletes
    <2> SUFFICES ASSUME Watched, "trimmed" \notin wrong, Quiet, Undisturbed, Live # {}, AllDone, run = "pending_approval"
                 PROVE FALSE
      BY DEF LastDoneCompletes, AllDoneIsCompleted
    <2>1. PICK q \in Requests : Closes(req[q]) BY DEF Watched, LastDone, Untrimmed, Finale
    <2>2. ShapeOf(req[q]) BY RequestFacts DEF Watched, Planned, Guarded, Base
    <2>3. req[q] = Idle BY <2>2 DEF ShapeOf, Quiet, Busy, At
    <2> QED BY <2>1, <2>3, IdleCloses
  <1> QED BY <1>1, SpecWatched, PTL

=============================================================================
