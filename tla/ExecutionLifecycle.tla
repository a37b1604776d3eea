------------------------- MODULE ExecutionLifecycle -------------------------
(***************************************************************************)
(* What a workflow execution promises to everything that looks at its      *)
(* status: it is created running or queued, moves only along the state     *)
(* machine (workflow/executor/state_machine.go), and never leaves a final  *)
(* status.                                                                 *)
(***************************************************************************)
CONSTANT Executions

VARIABLE status   \* workflow_executions.status

Final == {"succeeded", "failed", "cancelled", "timeout", "max_iterations"}
Statuses == {"absent", "queued", "running", "paused", "partial_success"} \cup Final

\* <<from, event, to>>
Transitions ==
  {<<"running", "pause", "paused">>,
   <<"running", "complete", "succeeded">>,
   <<"running", "fail", "failed">>,
   <<"running", "partial_success", "partial_success">>,
   <<"running", "timeout", "timeout">>,
   <<"running", "max_iterations", "max_iterations">>,
   <<"running", "cancel", "cancelled">>,
   <<"paused", "resume", "running">>,
   <<"paused", "fail", "failed">>,
   <<"paused", "cancel", "cancelled">>,
   <<"queued", "start", "running">>,
   <<"queued", "cancel", "cancelled">>,
   <<"partial_success", "start", "running">>,
   <<"partial_success", "partial_success", "partial_success">>,
   <<"partial_success", "complete", "succeeded">>,
   <<"partial_success", "max_iterations", "max_iterations">>,
   <<"partial_success", "cancel", "cancelled">>}

Events == {t[2] : t \in Transitions}

Allowed(from, event) == \E t \in Transitions : t[1] = from /\ t[2] = event
Target(from, event) == (CHOOSE t \in Transitions : t[1] = from /\ t[2] = event)[3]

\* RunExecutionUntilBlocked goes on in these.
Runnable == {"running", "partial_success"}

Init == status = [e \in Executions |-> "absent"]

Create(e) ==
  /\ status[e] = "absent"
  /\ \E s \in {"running", "queued"} : status' = [status EXCEPT ![e] = s]

Move(e) ==
  \E t \in Transitions : status[e] = t[1] /\ status' = [status EXCEPT ![e] = t[3]]

Next == \E e \in Executions : Create(e) \/ Move(e)

Spec == Init /\ [][Next]_status
=============================================================================
