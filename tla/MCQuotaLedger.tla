--------------------------- MODULE MCQuotaLedger ---------------------------
(***************************************************************************)
(* Instances of QuotaLedger for TLC.                                       *)
(***************************************************************************)
EXTENDS QuotaLedger, TLC

\* Calls are interchangeable, and so are the session ids they draw.
Symmetry == Permutations(Callers) \cup Permutations(SessionIds)
=============================================================================
