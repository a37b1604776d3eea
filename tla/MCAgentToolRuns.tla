-------------------------- MODULE MCAgentToolRuns --------------------------
EXTENDS AgentToolRuns, TLC

SomeReplies == {<<"safe">>, <<"medium">>, <<"safe", "dangerous">>, <<"dangerous", "safe">>, <<"medium", "medium">>}

Interchangeable == Permutations(Requests)

\* Bounds: one question more than allowed is enough to be seen, and requests overlap only
\* where nothing has failed.
Bounded == asked <= MaxIterations + 1 /\ (Alone \/ faults = 0)
=============================================================================
