------------------------ MODULE MCWorkflowExecution ------------------------
(* Instances of WorkflowExecution for TLC.                                  *)
EXTENDS WorkflowExecution, TLC

CONSTANTS e1, p1, p2, a, b, c

\* Two starts, one retried and one skipped, join.
Join == [edges |-> {<<a, c>>, <<b, c>>}, branch |-> c, forms |-> {},
         policy |-> (a :> "auto_retry" @@ b :> "skip_on_failure" @@ c :> "pause_on_failure")]

\* A chain with a form, whose last node is also the failure branch of its first.
Chain == [edges |-> {<<a, b>>, <<b, c>>}, branch |-> c, forms |-> {b},
          policy |-> (a :> "failure_branch" @@ b :> "pause_on_failure" @@ c :> "skip_on_failure")]

\* A fork, one side of which is a form.
Fork == [edges |-> {<<a, b>>, <<a, c>>}, branch |-> c, forms |-> {c},
         policy |-> (a :> "pause_on_failure" @@ b :> "auto_retry" @@ c :> "pause_on_failure")]

AllDefinitions == {Join, Chain, Fork}

Symmetry == Permutations({p1, p2})
=============================================================================
