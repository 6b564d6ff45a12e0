--------------------------- MODULE MCChainWatcher ---------------------------
EXTENDS ChainWatcher

(* Empty blocks, and blocks where a proposal that may be missing comes     *)
(* before a log that cannot be parsed.                                     *)
MCLogSets == {<<>>, <<"TransactionProposed", "OffCurve">>}
MCMalformed == {"OffCurve"}
MCFallible == {"TransactionProposed"}
=============================================================================
