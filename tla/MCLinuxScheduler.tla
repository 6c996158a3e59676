-------------------------- MODULE MCLinuxScheduler --------------------------
(* An instance of LinuxScheduler: a day of four hours. *)
EXTENDS LinuxScheduler

MCTasks == {1, 2}
MCDays == [j \in MCTasks \cup {0} |-> IF j = 1 THEN 2 ELSE 1]
=============================================================================
