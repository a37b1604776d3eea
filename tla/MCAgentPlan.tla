---------------------------- MODULE MCAgentPlan ----------------------------
EXTENDS AgentPlan, TLC

StepOf(tool, deps) == [tool |-> tool, deps |-> deps]

\* Two steps that wait for a third and not for each other; and, as an adjustment, one step.
TwoPlans == {<<StepOf("send", {}), StepOf("read", {1}), StepOf("read", {1})>>, <<StepOf("read", {})>>}

\* At first only "send" needs approval.
Stricter == <<{"send"}, {"send", "read"}>>

\* Nothing is claimed of what follows when requests have mixed: not followed further.  And to
\* bound the run, requests overlap only while the plan is as it was planned, and there is one
\* edit, fault or change of the agent, or two edits as long as no step is approved or executed.
Bounded ==
  /\ "mixed" \notin wrong
  /\ Cardinality(Busy) > 1 => edits = 0
  /\ \/ edits + faults + policy <= 2
     \/ faults = 0 /\ policy = 1 /\ \A s \in Steps : steps[s].status = "pending"

Interchangeable == Permutations(Requests)
=============================================================================
