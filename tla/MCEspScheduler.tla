--------------------------- MODULE MCEspScheduler ---------------------------
(* The tasks run every day and the keep-alive job every other day.          *)
EXTENDS EspScheduler

MCIntervalDays == [j \in Jobs |-> IF j = Keepalive THEN 2 ELSE 1]
MCDaily == [j \in Jobs |-> 1]
=============================================================================
