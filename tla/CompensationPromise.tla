------------------------ MODULE CompensationPromise ------------------------
(***************************************************************************)
(* What late-readiness compensation promises (relay/quota_compensation.go):*)
(* every scope of a request that reserved quota is given back once, and a  *)
(* request's job is closed only when all its scopes were given back.       *)
(***************************************************************************)
CONSTANTS
  Requests,
  Scopes,
  Required      \* the scopes each request reserved quota in

VARIABLES
  returned,     \* <<request, scope>> given back
  closed        \* requests whose job is finished

promise == <<returned, closed>>

Init == returned = {} /\ closed = {}

\* A reservation is given back; it happens once.
Return(r, s) ==
  /\ s \in Required[r]
  /\ <<r, s>> \notin returned
  /\ returned' = returned \cup {<<r, s>>}
  /\ UNCHANGED closed

\* A job is finished: nothing of its request is still reserved.
Close(r) ==
  /\ r \notin closed
  /\ \A s \in Required[r] : <<r, s>> \in returned
  /\ closed' = closed \cup {r}
  /\ UNCHANGED returned

Next == \E r \in Requests : Close(r) \/ \E s \in Scopes : Return(r, s)

Spec == Init /\ [][Next]_promise
=============================================================================
