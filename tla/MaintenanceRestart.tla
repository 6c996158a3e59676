-------------------------- MODULE MaintenanceRestart --------------------------
(***************************************************************************)
(* The scheduler's maintenance restart (idf_web.cpp: the low-heap guard    *)
(* and the daily reboot) beside the forwarding worker.  The scheduler asks *)
(* four questions one after the other, each with a lock or an atomic of    *)
(* its own: is the worker busy, is the forward queue empty, the push       *)
(* queue, the e-mail queue; the worker runs at a higher priority and may   *)
(* take any number of steps in between.  The two other questions, the      *)
(* outgoing messages and the cellular jobs, are taken to be answered idle. *)
(***************************************************************************)
EXTENDS ForwardPush

VARIABLE sched   \* the question the scheduler asks next

allVars == <<vars, sched>>

\* s_busy is set before a job is popped and cleared when its processing ends.
JobSteps == LegSteps \cup {"decide", "dispatch", "requeue", "mark", "clear"}
Busy == pc \in JobSteps

MInit == Init /\ sched = "asleep"

\* A maintenance reason turns up: memory is low, or it is the hour of the daily reboot.
Consider ==
  /\ sched = "asleep"
  /\ sched' = "busy?"
  /\ UNCHANGED vars

Ask(question, idle, next) ==
  /\ sched = question
  /\ sched' = IF idle THEN next ELSE "asleep"
  /\ UNCHANGED vars

AskBusy == Ask("busy?", ~Busy, "forward?")
AskForward == Ask("forward?", fwdQ = {}, "push?")
AskPush == Ask("push?", pushQ = {}, "email?")
AskEmail == Ask("email?", emailQ = {}, "restart")

\* 300 ms later the device restarts.
MaintenanceReboot ==
  /\ sched = "restart"
  /\ Restart
  /\ sched' = "asleep"

Scheduler == Consider \/ AskBusy \/ AskForward \/ AskPush \/ AskEmail \/ MaintenanceReboot

MNext == Scheduler \/ ((Worker \/ Others \/ Time) /\ UNCHANGED sched)

MSpec == MInit /\ [][MNext]_allVars

\* The comment at idf_push.cpp:981: busy covers the window between taking a job
\* out and putting it on, so that a maintenance restart does not eat a message
\* under way.  When the last question is answered idle the worker holds no job.
RestartSparesJobInHand == [][AskEmail /\ sched' = "restart" => ~Busy]_allVars
=============================================================================
