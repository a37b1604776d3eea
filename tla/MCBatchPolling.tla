--------------------------- MODULE MCBatchPolling ---------------------------
(* Instances of BatchPolling for TLC.                                       *)
EXTENDS BatchPolling, TLC

CONSTANTS b1, w1, w2, w3
=============================================================================
