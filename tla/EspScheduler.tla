---------------------------- MODULE EspScheduler ----------------------------
(***************************************************************************)
(* The periodic jobs of the ESP-IDF port (components/idf_web, with         *)
(* evaluate_periodic and failure_retry_baseline of core/src/scheduler.cpp).*)
(* The keep-alive job and the user's tasks share the modem: a registry     *)
(* under s_cell_job_mutex lets one of them run at a time, beside jobs      *)
(* started on the web page.  The scheduler looks for due jobs once an hour *)
(* or, after a refused start, at its next tick; a job may switch to        *)
(* another eSIM profile and back, and records the day of its run.          *)
(*                                                                         *)
(* Data abstraction: time is the number of hours since a job's lastRun, as *)
(* far as it matters; the clock is set and does not jump.  The registry is *)
(* the one job whose queued or running flag is set.  The configuration is  *)
(* enabled; the intervals and profiles of the jobs do not change.  A       *)
(* switch of the profile by hand is left out.                              *)
(***************************************************************************)
EXTENDS Naturals, FiniteSets

CONSTANTS
  Keepalive,    \* the keep-alive job
  Tasks,        \* IDF_MAX_SCHED_TASKS of them
  Web,          \* a download, eSIM operation or AT command of the web page
  None,         \* nothing in the registry; no lastRun
  IntervalDays, \* per job
  MaxDays,      \* the longest interval the configuration takes, 3650 days
  DayHours,     \* hours in a day
  WithProfile,  \* the jobs that run on another eSIM profile
  SwitchBack,   \* the tasks that switch back after their action
  MaxRequests,  \* bound of the model: requests of the user
  MaxRestarts   \* bound of the model: restarts

Jobs == {Keepalive} \cup Tasks
Interval(j) == IntervalDays[j] * DayHours
Longest == MaxDays * DayHours

ASSUME TasksAreNat == Tasks \subseteq Nat /\ IsFiniteSet(Tasks)
ASSUME JobsApart == Keepalive \notin Tasks /\ {Web, None} \cap Jobs = {} /\ Web # None
ASSUME IntervalsPositive == MaxDays \in Nat \ {0} /\ DayHours \in Nat \ {0}
ASSUME IntervalsInRange == IntervalDays \in [Jobs -> 1..MaxDays]
ASSUME ProfilesOfJobs == WithProfile \subseteq Jobs /\ SwitchBack \subseteq Tasks

VARIABLES
  enabled,   \* the enabled jobs
  since,     \* the hours since the lastRun of each job
  checkDue,  \* last_ka_check_ms lies an hour back, or was set back
  view,      \* what the scheduler saw at the start of its round: [due, new]
  soon,      \* retry_due_soon
  spc,       \* where the scheduler is
  cand,      \* the task it is about to start
  job,       \* the registry
  step,      \* where its job is
  ok,        \* the success of the action
  switched,  \* EsimJobSwitch::switched
  away,      \* the enabled profile is not the main card
  paid,      \* ghost: the hours since each job's action last succeeded
  ended,     \* ghost: a job ended since the scheduler looked at the job again
  stranded,  \* ghost: since the main card was left, a way back failed, was cut off,
             \* was not possible or not wanted
  misled,    \* ghost: since then a switch reported as failed had taken effect
  requests, restarts

sched == <<view, soon, spc, cand>>
running == <<job, step, ok, switched>>
astray == <<stranded, misled>>
ghosts == <<paid, ended, astray>>
bounds == <<requests, restarts>>
vars == <<enabled, since, checkDue, sched, running, away, ghosts, bounds>>

NoView == [due |-> {}, new |-> {}]
Never == [j \in Jobs |-> Longest]

Init ==
  /\ enabled \in SUBSET Jobs
  /\ since \in [Jobs -> {None, 0}]
  /\ checkDue = TRUE
  /\ view = NoView /\ soon = FALSE /\ spc = "rest" /\ cand = None
  /\ job = None /\ step = "done" /\ ok = FALSE /\ switched = FALSE
  /\ away = FALSE
  /\ paid = Never /\ ended = FALSE /\ stranded = FALSE /\ misled = FALSE
  /\ requests = 0 /\ restarts = 0

-----------------------------------------------------------------------------
\* evaluate_periodic
EstablishBaseline(j) == j \in enabled /\ since[j] = None
Due(j) == j \in enabled /\ since[j] # None /\ since[j] >= Interval(j)

\* A lastRun of this moment; the NVS write may fail.
Stamp(S, hours) == since' = [j \in Jobs |-> IF j \in S THEN hours ELSE since[j]]

\* failure_retry_baseline: due again one day from now.
Tomorrow(j) == Interval(j) - DayHours

-----------------------------------------------------------------------------
(* The scheduler.                                                          *)

Look ==
  /\ spc = "rest" /\ checkDue
  /\ checkDue' = FALSE
  /\ view' = [due |-> {j \in Jobs : Due(j)}, new |-> {j \in Jobs : EstablishBaseline(j)}]
  /\ soon' = FALSE
  /\ spc' = "keepalive"
  /\ UNCHANGED <<enabled, since, cand, running, away, ghosts, bounds>>

\* The job is looked at again just before it is started.
TrustView(j) == j \in view.due   \* mutant
StillDue(j) == j \in view.due /\ Due(j)

CheckKeepalive ==
  /\ spc = "keepalive"
  /\ \E S \in SUBSET (view.new \cap {Keepalive}) : Stamp(S, 0)
  /\ spc' = IF StillDue(Keepalive) THEN "startKeepalive" ELSE "scan"
  /\ ended' = FALSE
  /\ UNCHANGED <<enabled, checkDue, view, soon, cand, running, away, paid, astray, bounds>>

Claim(j) ==
  /\ job = None
  /\ job' = j /\ step' = "queued" /\ ok' = FALSE /\ switched' = FALSE

\* start_keepalive_job
StartKeepalive ==
  /\ spc = "startKeepalive" /\ spc' = "scan"
  /\ Claim(Keepalive)
  /\ UNCHANGED <<enabled, since, checkDue, view, soon, cand, away, paid, ended, astray, bounds>>

\* ... refused: another job is active, the lock is busy or memory is short.
RefuseKeepalive ==
  /\ spc = "startKeepalive" /\ spc' = "scan"
  /\ soon' = TRUE
  /\ UNCHANGED <<enabled, since, checkDue, view, cand, running, away, ghosts, bounds>>

\* The first due task; the tasks before it that have no lastRun get one.
FirstDue(t) == t \in view.due \cap Tasks /\ \A u \in view.due \cap Tasks : t <= u
ScanTasks ==
  /\ spc = "scan"
  /\ \E S \in SUBSET {t \in view.new \cap Tasks : \A u \in view.due \cap Tasks : t < u} : Stamp(S, 0)
  /\ \/ \E t \in Tasks : FirstDue(t) /\ StillDue(t) /\ cand' = t /\ spc' = "startTask"
     \/ /\ ~\E t \in Tasks : FirstDue(t) /\ StillDue(t)
        /\ spc' = "end" /\ UNCHANGED cand
  /\ ended' = FALSE
  /\ UNCHANGED <<enabled, checkDue, view, soon, running, away, paid, astray, bounds>>

\* start_sched_job
StartTask ==
  /\ spc = "startTask" /\ spc' = "end"
  /\ Claim(cand)
  /\ UNCHANGED <<enabled, since, checkDue, view, soon, cand, away, ghosts, bounds>>

RefuseTask ==
  /\ spc = "startTask" /\ spc' = "end"
  /\ soon' = TRUE
  /\ UNCHANGED <<enabled, since, checkDue, view, cand, running, away, ghosts, bounds>>

EndRound ==
  /\ spc = "end" /\ spc' = "rest"
  /\ checkDue' = (checkDue \/ soon)
  /\ view' = NoView /\ soon' = FALSE /\ cand' = None
  /\ UNCHANGED <<enabled, since, running, away, ghosts, bounds>>

-----------------------------------------------------------------------------
(* A job: keepalive_task, sched_task_worker.                               *)

\* esim_prepare_profile.  A job that finds another profile than the main card on uses
\* that one, or goes from there and back to it: to `away` this is the same.
Prepare ==
  /\ step = "queued" /\ job \in Jobs
  /\ \/ /\ job \notin WithProfile \/ away   \* no switch
        /\ step' = "act" /\ UNCHANGED <<away, switched, misled>>
     \/ /\ job \in WithProfile /\ ~away     \* switched, and registered or not
        /\ away' = TRUE /\ switched' = TRUE
        /\ step' \in {"act", "restore"} /\ UNCHANGED misled
     \/ /\ job \in WithProfile             \* not possible, or refused
        /\ step' = "restore" /\ UNCHANGED <<away, switched, misled>>
     \/ /\ job \in WithProfile             \* the card switched and its answer was lost
        /\ away' = TRUE /\ misled' = TRUE
        /\ step' = "restore" /\ UNCHANGED switched
  /\ UNCHANGED <<enabled, since, checkDue, sched, job, ok, paid, ended, stranded, bounds>>

Act ==
  /\ step = "act" /\ step' = "restore"
  /\ ok' \in BOOLEAN
  /\ paid' = [paid EXCEPT ![job] = IF ok' THEN 0 ELSE @]
  /\ UNCHANGED <<enabled, since, checkDue, sched, job, switched, away, ended, astray, bounds>>

\* esim_restore_profile: whatever became of the action, back to the former profile,
\* unless the list did not tell it, the switch fails, or the task is to stay.
BackIfDone == switched /\ ok /\ job \in {Keepalive} \cup SwitchBack   \* mutant
Back == switched /\ job \in {Keepalive} \cup SwitchBack
Restore ==
  /\ step = "restore" /\ step' = "record"
  /\ \/ Back /\ away' = FALSE /\ stranded' = FALSE /\ misled' = FALSE
     \/ Back /\ stranded' = TRUE /\ UNCHANGED <<away, misled>>
     \/ /\ ~Back
        /\ stranded' = (stranded \/ (switched /\ job \in Tasks \ SwitchBack))
        /\ UNCHANGED <<away, misled>>
  /\ UNCHANGED <<enabled, since, checkDue, sched, job, ok, switched, paid, ended, bounds>>

\* A failed keep-alive on the main card keeps its lastRun, any other failure is
\* tried again the next day.
NextRun == IF ok THEN 0 ELSE Tomorrow(job)
RecordsSuccess == ok   \* mutant: a failure leaves lastRun alone
Records == ok \/ job # Keepalive \/ job \in WithProfile
Record ==
  /\ step = "record" /\ step' = "finish"
  /\ Records
  /\ Stamp({job}, NextRun)
  /\ paid' = [paid EXCEPT ![job] = IF ok THEN @ ELSE Longest]
  /\ UNCHANGED <<enabled, checkDue, sched, job, ok, switched, away, ended, astray, bounds>>

\* ... and lastRun stays as it is: not to be changed, or the NVS write failed.
KeepRecord ==
  /\ step = "record" /\ step' = "finish"
  /\ paid' = [paid EXCEPT ![job] = Longest]
  /\ UNCHANGED <<enabled, since, checkDue, sched, job, ok, switched, away, ended, astray, bounds>>

Finish ==
  /\ step = "finish" /\ step' = "done"
  /\ job' = None /\ ok' = FALSE /\ switched' = FALSE
  /\ ended' = TRUE
  /\ UNCHANGED <<enabled, since, checkDue, sched, away, paid, astray, bounds>>

WebDone ==
  /\ job = Web
  /\ job' = None /\ step' = "done"
  /\ UNCHANGED <<enabled, since, checkDue, sched, ok, switched, away, ghosts, bounds>>

-----------------------------------------------------------------------------
(* The user, the clock, and restarts.                                      *)

Request == requests < MaxRequests /\ requests' = requests + 1

\* A job is started on the page.
WebStart(j) ==
  /\ Request
  /\ Claim(j)
  /\ UNCHANGED <<enabled, since, checkDue, sched, away, ghosts, restarts>>

\* The base day of a job is reset on the page.
WebReset(j) ==
  /\ Request
  /\ Stamp({j}, 0)
  /\ UNCHANGED <<enabled, checkDue, sched, running, away, ghosts, restarts>>

\* A job is enabled or disabled; the keep-alive job is looked at when it is enabled.
Toggle(j) ==
  /\ Request
  /\ enabled' = IF j \in enabled THEN enabled \ {j} ELSE enabled \cup {j}
  /\ IF Keepalive \in enabled' \ enabled
     THEN checkDue' = TRUE ELSE UNCHANGED checkDue
  /\ UNCHANGED <<since, sched, running, away, paid, ended, astray, restarts>>

Later(hours) == IF hours < Longest THEN hours + 1 ELSE hours
\* A round takes much less than an hour.
HourPasses ==
  /\ spc = "rest" /\ ~checkDue
  /\ checkDue' = TRUE
  /\ since' = [j \in Jobs |-> IF since[j] = None THEN None ELSE Later(since[j])]
  /\ paid' = [j \in Jobs |-> Later(paid[j])]
  /\ UNCHANGED <<enabled, sched, running, away, ended, astray, bounds>>

Restart ==
  /\ restarts < MaxRestarts /\ restarts' = restarts + 1
  /\ checkDue' = TRUE
  /\ view' = NoView /\ soon' = FALSE /\ spc' = "rest" /\ cand' = None
  /\ job' = None /\ step' = "done" /\ ok' = FALSE /\ switched' = FALSE
  /\ ended' = FALSE
  /\ paid' = [j \in Jobs |-> IF j = job THEN Longest ELSE paid[j]]
  /\ stranded' = (stranded \/ (switched /\ away))
  /\ UNCHANGED <<enabled, since, away, misled, requests>>

Scheduler == \/ Look \/ CheckKeepalive \/ StartKeepalive \/ RefuseKeepalive
             \/ ScanTasks \/ StartTask \/ RefuseTask \/ EndRound
Job == Prepare \/ Act \/ Restore \/ Record \/ KeepRecord \/ Finish \/ WebDone

Next ==
  \/ Scheduler \/ Job \/ HourPasses \/ Restart
  \/ \E j \in Jobs : WebReset(j) \/ Toggle(j)
  \/ \E j \in Jobs \cup {Web} : WebStart(j)

Spec == Init /\ [][Next]_vars

\* Tasks run and hours pass; the registry's lock is busy, memory short and the NVS
\* not writable only for moments: a start tried again and again with a free
\* registry succeeds, and so does a record.
FairSpec == /\ Spec /\ WF_vars(Scheduler) /\ WF_vars(Job) /\ WF_vars(HourPasses)
            /\ SF_vars(StartKeepalive) /\ SF_vars(StartTask)
            /\ \A j \in Jobs : SF_vars(job = j /\ Record)

-----------------------------------------------------------------------------
TypeOK ==
  /\ enabled \subseteq Jobs
  /\ since \in [Jobs -> 0..Longest \cup {None}]
  /\ {checkDue, soon, ok, switched, away, ended, stranded, misled} \subseteq BOOLEAN
  /\ view.due \subseteq Jobs /\ view.new \subseteq Jobs
  /\ spc \in {"rest", "keepalive", "startKeepalive", "scan", "startTask", "end"}
  /\ cand \in Tasks \cup {None} /\ (spc = "startTask" => cand # None)
  /\ job \in Jobs \cup {Web, None}
  /\ step \in {"done", "queued", "act", "restore", "record", "finish"}
  /\ (step = "done") = (job = None)
  /\ paid \in [Jobs -> 0..Longest]

\* The scheduler does not start a job whose action succeeded less than an interval
\* ago, with runs, resets and switches by the user in between; unless that run was
\* not recorded, or it ended in the moment between the last look at the job and its
\* start, which nothing in the code closes (idf_web.cpp:2608-2706, 2878-2960, 3048-3112).
RunsSpaced ==
  [][/\ StartKeepalive => ended \/ paid[Keepalive] >= Interval(Keepalive)
     /\ StartTask => ended \/ paid[cand] >= Interval(cand)]_vars

\* While no job runs the main card is in use, also after a failed action and after a
\* switch that found no network (idf_web.cpp:2528-2599, 2658-2664, 2902-2925).  The
\* exceptions: a way back failed, was cut off by a restart, was not possible or not
\* wanted; or the card obeyed a switch that was reported as failed, after which the
\* code makes no way back (2567-2570).
HomeWhenIdle == job = None /\ ~stranded /\ ~misled => ~away

\* idf_web.cpp:2575 says that the caller still goes back when the switch was made but
\* found no network.  Were every failed preparation followed by a way back, this held;
\* a switch whose answer was lost breaks it.
HomeAfterFailure == job = None /\ ~stranded => ~away

\* Every variable stays in its range, and the device is on its main card while no job
\* runs (idf_web.cpp:2528-2599, 2902-2925).
CardSound == TypeOK /\ HomeWhenIdle

\* What makes these inductive: only a job past its switch is away without a reason; a
\* job's lastRun is no older than its last success, but while a run is not recorded
\* yet; and a start in hand was due when it was looked at.
AwayForJob ==
  /\ away /\ ~stranded /\ ~misled => switched /\ step \in {"act", "restore"}
  /\ step \in {"done", "queued"} => ~switched
  /\ job = Web => step = "queued"
Paced ==
  \A j \in Jobs : \/ job = j /\ step \in {"restore", "record"}
                  \/ since[j] = None
                  \/ since[j] <= paid[j]
StartsSpaced ==
  ~ended =>
    /\ spc = "startKeepalive" => job = Keepalive \/ paid[Keepalive] >= Interval(Keepalive)
    /\ spc = "startTask" => job = cand \/ paid[cand] >= Interval(cand)
ScheduleInv == TypeOK /\ AwayForJob /\ Paced /\ StartsSpaced

\* idf_web.cpp:3106: of the jobs that are due, those not started in this round
\* are looked at in the next one.  A due task gets its turn.
TasksTakeTurns == \A t \in Tasks : []<>(~Due(t) \/ job = t)
=============================================================================
