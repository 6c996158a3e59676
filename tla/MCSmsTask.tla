------------------------------ MODULE MCSmsTask ------------------------------
(* A short message, a long one and one that does not decode, for two slots,  *)
(* the index of one being the beginning of the other's.                      *)
EXTENDS SmsTask

CONSTANTS short, long, bad

MCPartsOf == [m \in Msgs |-> IF m = long THEN 2 ELSE 1]

\* Nothing ever goes wrong with a command.
NoFailures == at = "ok"
=============================================================================
