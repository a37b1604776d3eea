------------------------ MODULE MCQuotaCompensation ------------------------
(***************************************************************************)
(* The instance of QuotaCompensation for TLC: one request that reserved in *)
(* both scopes.  Requests share only a worker's batch, and an exact amount *)
(* allows every refund an inexact one does.                                *)
(***************************************************************************)
EXTENDS QuotaCompensation

CONSTANTS r1

Both == [r \in Requests |-> Scopes]
Exact == [r \in Requests |-> "exact"]
=============================================================================
