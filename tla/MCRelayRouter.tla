--------------------------- MODULE MCRelayRouter ---------------------------
(* Small instances of RelayRouter: two requests that share a key or not.    *)
EXTENDS RelayRouter, TLC

CONSTANTS q1, q2, k1, k2

OneKey == [q \in Requests |-> k1]
TwoEach == [q \in Requests |-> 2]
OneAndTwo == [q \in Requests |-> IF q = q1 THEN 1 ELSE 2]
=============================================================================
