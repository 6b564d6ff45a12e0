--------------------------- MODULE MCValidatorFeed ---------------------------
EXTENDS ValidatorFeed

(* Blocks where a proposal comes before another event, and blocks where a  *)
(* log that cannot be parsed stands between two events.                    *)
MCLogSets == {<<"TransactionProposed", "Sign">>, <<"KeyGen", "OffCurve", "Sign">>}
MCMalformed == {"OffCurve"}
MCFallible == {"TransactionProposed"}
=============================================================================
