-------------------------- MODULE EspSchedulerProofs --------------------------
(***************************************************************************)
(* Proofs about EspScheduler, for every value of its constants: the device *)
(* is on its main card while no job runs, and no job is started twice in   *)
(* an interval.                                                            *)
(***************************************************************************)
EXTENDS EspScheduler, TLAPS

\* An interval is at least a day and at most the longest, and a failed job waits for
\* less than that.
LEMMA IntervalRange ==
  /\ Longest \in Nat
  /\ \A j \in Jobs : /\ Interval(j) \in 1..Longest
                     /\ Tomorrow(j) \in 0..Longest
<1>1. MaxDays \in Nat \ {0} /\ DayHours \in Nat \ {0}
  BY IntervalsPositive
<1>2. Longest \in Nat
  BY <1>1 DEF Longest
<1>3. ASSUME NEW j \in Jobs
      PROVE  Interval(j) \in 1..Longest /\ Tomorrow(j) \in 0..Longest
  <2>1. PICK d \in Nat : d = IntervalDays[j] /\ 1 <= d /\ d <= MaxDays
    BY <1>1, IntervalsInRange
  <2>2. DayHours <= d * DayHours /\ d * DayHours <= MaxDays * DayHours /\ d * DayHours \in Nat
    BY <1>1, <2>1
  <2>3. QED
    BY <1>1, <1>2, <2>1, <2>2 DEF Interval, Longest, Tomorrow
<1>4. QED
  BY <1>2, <1>3

LEMMA NotJobs == Web \notin Jobs /\ None \notin Jobs /\ Web # None /\ Keepalive \in Jobs /\ Tasks \subseteq Jobs
BY JobsApart DEF Jobs

\* What the steps on a job's times keep.
Times == since \in [Jobs -> 0..Longest \cup {None}] /\ paid \in [Jobs -> 0..Longest]
Hours(s) == s = None \/ s \in 0..Longest

LEMMA StampTimes ==
  ASSUME Times, NEW S \in SUBSET Jobs, NEW h \in 0..Longest, Stamp(S, h)
  PROVE  /\ since' \in [Jobs -> 0..Longest \cup {None}]
         /\ \A j \in Jobs : since'[j] = IF j \in S THEN h ELSE since[j]
BY DEF Times, Stamp

LEMMA HourTimes ==
  ASSUME Times, HourPasses
  PROVE  /\ since' \in [Jobs -> 0..Longest \cup {None}] /\ paid' \in [Jobs -> 0..Longest]
         /\ \A j \in Jobs : /\ since[j] # None /\ since[j] <= paid[j] => since'[j] <= paid'[j]
                            /\ since[j] = None => since'[j] = None
                            /\ paid[j] <= paid'[j]
<1>1. \A h \in 0..Longest : Later(h) \in 0..Longest /\ h <= Later(h)
  BY IntervalRange DEF Later
<1>2. /\ \A j \in Jobs : since'[j] = IF since[j] = None THEN None ELSE Later(since[j])
      /\ \A j \in Jobs : paid'[j] = Later(paid[j])
      /\ since' = [j \in Jobs |-> IF since[j] = None THEN None ELSE Later(since[j])]
      /\ paid' = [j \in Jobs |-> Later(paid[j])]
  BY DEF HourPasses
<1>3. \A g, h \in 0..Longest : g <= h => Later(g) <= Later(h)
  BY IntervalRange DEF Later
<1>4. since' \in [Jobs -> 0..Longest \cup {None}] /\ paid' \in [Jobs -> 0..Longest]
  BY <1>1, <1>2 DEF Times
<1>5. ASSUME NEW j \in Jobs
      PROVE  /\ since[j] # None /\ since[j] <= paid[j] => since'[j] <= paid'[j]
             /\ since[j] = None => since'[j] = None
             /\ paid[j] <= paid'[j]
  BY <1>1, <1>2, <1>3 DEF Times
<1>6. QED
  BY <1>4, <1>5

LEMMA InitSchedule == Init => ScheduleInv
<1> SUFFICES ASSUME Init PROVE ScheduleInv
  OBVIOUS
<1>1. since \in [Jobs -> 0..Longest \cup {None}] /\ paid \in [Jobs -> 0..Longest]
  BY IntervalRange DEF Init, Never
<1>2. \A j \in Jobs : since[j] = None \/ since[j] <= paid[j]
  BY IntervalRange DEF Init, Never
<1>3. TypeOK
  BY <1>1 DEF Init, TypeOK, NoView
<1>4. AwayForJob /\ StartsSpaced
  BY NotJobs DEF Init, AwayForJob, StartsSpaced
<1>5. QED
  BY <1>2, <1>3, <1>4 DEF ScheduleInv, Paced

LEMMA NextType == TypeOK /\ AwayForJob /\ [Next]_vars => TypeOK'
<1> SUFFICES ASSUME TypeOK, AwayForJob, [Next]_vars PROVE TypeOK'
  OBVIOUS
<1>t. Times /\ NoView.due = {} /\ NoView.new = {} /\ 0 \in 0..Longest /\ Longest \in 0..Longest
  BY IntervalRange DEF TypeOK, Times, NoView
<1>1. CASE Look
  <2>1. view' = [due |-> {j \in Jobs : Due(j)}, new |-> {j \in Jobs : EstablishBaseline(j)}]
    BY <1>1 DEF Look
  <2>2. view'.due \subseteq Jobs /\ view'.new \subseteq Jobs
    BY <2>1
  <2>3. QED
    BY <1>1, <2>2 DEF Look, TypeOK, running, ghosts, astray
<1>2. CASE CheckKeepalive
  <2>1. since' \in [Jobs -> 0..Longest \cup {None}]
    BY <1>2, <1>t, StampTimes DEF CheckKeepalive, TypeOK
  <2>2. QED
    BY <1>2, <2>1 DEF CheckKeepalive, TypeOK, running, astray
<1>3. CASE StartKeepalive
  BY <1>3, NotJobs DEF StartKeepalive, Claim, TypeOK, astray
<1>4. CASE RefuseKeepalive \/ RefuseTask
  BY <1>4, ZenonT(60) DEF RefuseKeepalive, RefuseTask, TypeOK, running, ghosts, astray
<1>5. CASE ScanTasks
  <2>1. since' \in [Jobs -> 0..Longest \cup {None}]
    <3>1. PICK S \in SUBSET {t \in view.new \cap Tasks : \A u \in view.due \cap Tasks : t < u} :
                 Stamp(S, 0)
      BY <1>5 DEF ScanTasks
    <3>2. S \in SUBSET Jobs
      BY DEF TypeOK
    <3>3. QED
      BY <1>t, <3>1, <3>2, StampTimes
  <2>2. cand' \in Tasks \cup {None} /\ (spc' = "startTask" => cand' # None)
    BY <1>5, NotJobs DEF ScanTasks, TypeOK
  <2>3. spc' \in {"startTask", "end"}
    BY <1>5 DEF ScanTasks
  <2>4. QED
    BY <1>5, <2>1, <2>2, <2>3 DEF ScanTasks, TypeOK, running, astray
<1>6. CASE StartTask
  BY <1>6, NotJobs DEF StartTask, Claim, TypeOK, ghosts, astray
<1>7. CASE EndRound
  BY <1>7, <1>t DEF EndRound, TypeOK, running, ghosts, astray
<1>8. CASE Prepare
  BY <1>8, NotJobs DEF Prepare, TypeOK, sched, ghosts, astray
<1>9. CASE Act
  <2>1. paid' \in [Jobs -> 0..Longest]
    BY <1>9, <1>t DEF Act, TypeOK
  <2>2. QED
    BY <1>9, <2>1 DEF Act, TypeOK, sched, astray
<1>10. CASE Restore
  BY <1>10 DEF Restore, TypeOK, sched
<1>11. CASE Record \/ KeepRecord
  <2>1. paid' \in [Jobs -> 0..Longest]
    BY <1>11, <1>t DEF Record, KeepRecord, TypeOK
  <2>2. since' \in [Jobs -> 0..Longest \cup {None}]
    <3>1. CASE Record
      <4>1. job \in Jobs
        BY <3>1 DEF Record, TypeOK, AwayForJob
      <4>2. NextRun \in 0..Longest
        BY <4>1, <1>t, IntervalRange DEF NextRun
      <4>3. QED
        BY <1>t, <3>1, <4>1, <4>2, StampTimes DEF Record
    <3>2. CASE KeepRecord
      BY <3>2 DEF KeepRecord, TypeOK
    <3>3. QED
      BY <1>11, <3>1, <3>2
  <2>3. QED
    BY <1>11, <2>1, <2>2 DEF Record, KeepRecord, TypeOK, sched, astray
<1>12. CASE Finish
  BY <1>12 DEF Finish, TypeOK, sched, astray
<1>13. CASE WebDone
  BY <1>13 DEF WebDone, TypeOK, sched, ghosts, astray
<1>14. ASSUME NEW j \in Jobs, WebReset(j) PROVE TypeOK'
  <2>1. since' \in [Jobs -> 0..Longest \cup {None}]
    BY <1>14, <1>t, StampTimes DEF WebReset
  <2>2. QED
    BY <1>14, <2>1 DEF WebReset, TypeOK, sched, running, ghosts, astray
<1>15. ASSUME NEW j \in Jobs, Toggle(j) PROVE TypeOK'
  BY <1>15 DEF Toggle, TypeOK, sched, running, astray
<1>16. ASSUME NEW j \in Jobs \cup {Web}, WebStart(j) PROVE TypeOK'
  BY <1>16, NotJobs DEF WebStart, Claim, TypeOK, sched, ghosts, astray
<1>17. CASE HourPasses
  BY <1>17, <1>t, HourTimes DEF HourPasses, TypeOK, sched, running, astray
<1>18. CASE Restart
  <2>1. paid' \in [Jobs -> 0..Longest]
    BY <1>18, <1>t DEF Restart, TypeOK
  <2>2. QED
    BY <1>18, <1>t, <2>1 DEF Restart, TypeOK
<1>19. CASE UNCHANGED vars
  BY <1>19 DEF vars, sched, running, ghosts, astray, TypeOK
<1>20. QED
  BY <1>1, <1>2, <1>3, <1>4, <1>5, <1>6, <1>7, <1>8, <1>9, <1>10, <1>11, <1>12, <1>13, <1>14,
     <1>15, <1>16, <1>17, <1>18, <1>19 DEF Next, Scheduler, Job

-----------------------------------------------------------------------------
(* The main card.                                                          *)

LEMMA NextAway == TypeOK /\ AwayForJob /\ [Next]_vars => AwayForJob'
<1> SUFFICES ASSUME TypeOK, AwayForJob, [Next]_vars PROVE AwayForJob'
  OBVIOUS
<1>1. CASE StartKeepalive \/ StartTask \/ \E j \in Jobs \cup {Web} : WebStart(j)
  <2>1. /\ job = None /\ step' = "queued" /\ switched' = FALSE /\ UNCHANGED <<away, astray>>
    BY <1>1 DEF StartKeepalive, StartTask, WebStart, Claim, ghosts
  <2>2. step = "done"
    BY <2>1 DEF TypeOK
  <2>3. QED
    BY <2>1, <2>2 DEF AwayForJob, astray
<1>2. CASE \/ Look \/ CheckKeepalive \/ RefuseKeepalive \/ ScanTasks \/ RefuseTask \/ EndRound
           \/ HourPasses \/ (\E j \in Jobs : WebReset(j) \/ Toggle(j)) \/ UNCHANGED vars
  <2>1. UNCHANGED <<job, step, switched, away, astray>>
    BY <1>2 DEF Look, CheckKeepalive, RefuseKeepalive, ScanTasks, RefuseTask, EndRound,
                HourPasses, WebReset, Toggle, vars, running, ghosts
  <2>2. QED
    BY <2>1 DEF AwayForJob, astray
<1>3. CASE Prepare
  <2>1. job' = job /\ job # Web /\ stranded' = stranded /\ step = "queued"
    BY <1>3, NotJobs DEF Prepare
  <2>2. step' \in {"act", "restore"}
    BY <1>3 DEF Prepare
  <2>3. misled' \/ (away' /\ switched') \/ UNCHANGED <<away, misled>>
    BY <1>3 DEF Prepare
  <2>4. ~away \/ stranded \/ misled
    BY <2>1 DEF AwayForJob
  <2>5. QED
    BY <2>1, <2>2, <2>3, <2>4 DEF AwayForJob
<1>4. CASE Act
  BY <1>4 DEF Act, AwayForJob, astray
\* A profile that was switched to is left, or the way back fails or is not wanted.
<1>5. CASE Restore
  <2>1. job \in Jobs /\ job # Web
    BY <1>5, NotJobs DEF Restore, AwayForJob, TypeOK
  <2>2. ~Back => ~switched \/ job \in Tasks \ SwitchBack
    BY <2>1 DEF Back, Jobs
  <2>3. ~(away' /\ ~stranded' /\ ~misled')
    BY <1>5, <2>2 DEF Restore, AwayForJob, Back, TypeOK
  <2>4. job' = job /\ step' = "record"
    BY <1>5 DEF Restore
  <2>5. QED
    BY <2>1, <2>3, <2>4 DEF AwayForJob
<1>6. CASE Record \/ KeepRecord
  BY <1>6 DEF Record, KeepRecord, AwayForJob, astray
<1>7. CASE Finish \/ WebDone
  BY <1>7, NotJobs DEF Finish, WebDone, AwayForJob, ghosts, astray
<1>8. CASE Restart
  BY <1>8, NotJobs DEF Restart, AwayForJob
<1>9. QED
  BY <1>1, <1>2, <1>3, <1>4, <1>5, <1>6, <1>7, <1>8 DEF Next, Scheduler, Job

\* While no job runs the device is on its main card, unless since it was left a way
\* back failed, was cut off by a restart, was not possible or not wanted, or the card
\* obeyed a switch that was reported as failed (idf_web.cpp:2528-2599, 2902-2925).
THEOREM CardKept == Spec => []CardSound
<1>1. Init => TypeOK /\ AwayForJob
  BY InitSchedule DEF ScheduleInv
<1>2. TypeOK /\ AwayForJob => CardSound
  BY DEF CardSound, HomeWhenIdle, TypeOK, AwayForJob
<1>3. QED
  BY <1>1, <1>2, NextType, NextAway, PTL DEF Spec

-----------------------------------------------------------------------------
(* The spacing of the runs.                                                *)

\* A step that neither makes a success forgotten nor a lastRun older.
LEMMA TimesKept ==
  ASSUME Times, Times', Paced,
         \A j \in Jobs : paid[j] <= paid'[j],
         \A j \in Jobs : since'[j] = since[j] \/ since'[j] = 0,
         \A j \in Jobs : job = j /\ step \in {"restore", "record"} =>
                           (job' = j /\ step' \in {"restore", "record"}) \/ paid'[j] = Longest
  PROVE  Paced'
<1> SUFFICES ASSUME NEW j \in Jobs
             PROVE  \/ job' = j /\ step' \in {"restore", "record"}
                    \/ since'[j] = None
                    \/ since'[j] <= paid'[j]
  BY DEF Paced
<1>1. paid[j] \in 0..Longest /\ paid'[j] \in 0..Longest /\ Hours(since[j]) /\ Hours(since'[j])
  BY DEF Times, Hours
<1>2. QED
  BY <1>1, IntervalRange DEF Paced, Hours

LEMMA NextPaced == ScheduleInv /\ [Next]_vars => Paced'
<1> SUFFICES ASSUME ScheduleInv, [Next]_vars PROVE Paced'
  OBVIOUS
<1>t. Times /\ Times' /\ TypeOK /\ AwayForJob /\ Paced
  BY NextType DEF ScheduleInv, TypeOK, Times
<1>r. \A j \in Jobs : paid[j] <= paid[j] /\ paid[j] <= Longest
  BY <1>t, IntervalRange DEF Times
<1>0. 0 \in 0..Longest
  BY IntervalRange
<1>1. CASE \/ Look \/ StartKeepalive \/ RefuseKeepalive \/ StartTask \/ RefuseTask \/ EndRound
           \/ Prepare \/ Restore \/ WebDone
           \/ (\E j \in Jobs : Toggle(j)) \/ (\E j \in Jobs \cup {Web} : WebStart(j))
           \/ UNCHANGED vars
  <2>1. UNCHANGED <<since, paid>>
    BY <1>1 DEF Look, StartKeepalive, RefuseKeepalive, StartTask, RefuseTask, EndRound, Prepare,
                Restore, WebDone, Toggle, WebStart, vars, ghosts
  <2>2. job \in Jobs /\ step \in {"restore", "record"} =>
          job' = job /\ step' \in {"restore", "record"}
    BY <1>1, NotJobs DEF Look, StartKeepalive, RefuseKeepalive, StartTask, RefuseTask, EndRound,
                Prepare, Restore, WebDone, Toggle, WebStart, vars, running, Claim
  <2>3. QED
    BY <1>t, <1>r, <2>1, <2>2, TimesKept
<1>2. CASE CheckKeepalive \/ ScanTasks \/ (\E j \in Jobs : WebReset(j))
  <2>1. PICK S \in SUBSET Jobs : Stamp(S, 0)
    BY <1>2, <1>t DEF CheckKeepalive, ScanTasks, WebReset, TypeOK
  <2>2. \A j \in Jobs : since'[j] = since[j] \/ since'[j] = 0
    BY <1>t, <1>0, <2>1, StampTimes
  <2>3. UNCHANGED <<paid, job, step>>
    BY <1>2 DEF CheckKeepalive, ScanTasks, WebReset, running, ghosts
  <2>4. QED
    BY <1>t, <1>r, <2>2, <2>3, TimesKept
<1>3. CASE Act
  <2>1. /\ step = "act" /\ step' = "restore" /\ job' = job /\ since' = since
        /\ \A j \in Jobs \ {job} : paid'[j] = paid[j]
    BY <1>3, <1>t DEF Act, Times
  <2>2. QED
    BY <1>t, <2>1 DEF Paced
<1>4. CASE Record
  <2>1. job \in Jobs /\ step = "record"
    BY <1>4, <1>t DEF Record, TypeOK, AwayForJob
  <2>2. NextRun \in 0..Longest /\ (ok => NextRun = 0)
    BY <1>0, <2>1, IntervalRange DEF NextRun
  <2>3. \A j \in Jobs : since'[j] = IF j = job THEN NextRun ELSE since[j]
    BY <1>4, <1>t, <2>1, <2>2, StampTimes DEF Record
  <2>4. \A j \in Jobs : paid'[j] = IF j = job /\ ~ok THEN Longest ELSE paid[j]
    BY <1>4, <1>t DEF Record, Times
  <2>5. \A j \in Jobs \ {job} : since'[j] = None \/ since'[j] <= paid'[j]
    BY <1>t, <2>3, <2>4 DEF Paced
  <2>6. since'[job] <= paid'[job]
    BY <1>t, <2>1, <2>2, <2>3, <2>4, IntervalRange DEF Times
  <2>7. QED
    BY <2>5, <2>6 DEF Paced
<1>5. CASE KeepRecord
  <2>1. since' = since /\ \A j \in Jobs : paid'[j] = IF j = job THEN Longest ELSE paid[j]
    BY <1>5, <1>t DEF KeepRecord, Times
  <2>2. QED
    BY <1>t, <1>r, <2>1, TimesKept
<1>6. CASE Finish
  <2>1. UNCHANGED <<since, paid>> /\ step = "finish"
    BY <1>6 DEF Finish
  <2>2. QED
    BY <1>t, <1>r, <2>1, TimesKept
<1>7. CASE HourPasses
  <2>1. UNCHANGED <<job, step>>
    BY <1>7 DEF HourPasses, running
  <2>2. \A j \in Jobs : /\ since[j] # None /\ since[j] <= paid[j] => since'[j] <= paid'[j]
                        /\ since[j] = None => since'[j] = None
    BY <1>7, <1>t, HourTimes
  <2>3. QED
    BY <1>t, <2>1, <2>2 DEF Paced
<1>8. CASE Restart
  <2>1. since' = since /\ \A j \in Jobs : paid'[j] = IF j = job THEN Longest ELSE paid[j]
    BY <1>8 DEF Restart
  <2>2. QED
    BY <1>t, <1>r, <2>1, TimesKept
<1>9. QED
  BY <1>1, <1>2, <1>3, <1>4, <1>5, <1>6, <1>7, <1>8 DEF Next, Scheduler, Job

\* Between the last look at a job and its start no run of it ends unseen.
LEMMA NextSpaced == ScheduleInv /\ [Next]_vars => StartsSpaced'
<1> SUFFICES ASSUME ScheduleInv, [Next]_vars PROVE StartsSpaced'
  OBVIOUS
<1>t. Times /\ TypeOK /\ AwayForJob /\ Paced /\ StartsSpaced
  BY DEF ScheduleInv, TypeOK, Times
<1> DEFINE Spaced(j) == job = j \/ paid[j] >= Interval(j)
<1>r. \A j \in Jobs : /\ paid[j] \in 0..Longest /\ Interval(j) \in 1..Longest
                      /\ Longest \in Nat
  BY <1>t, IntervalRange DEF Times
\* A job that is due has not succeeded for an interval, or is running.
<1>d. ASSUME NEW j \in Jobs, Due(j) PROVE Spaced(j)
  <2>1. since[j] # None /\ since[j] >= Interval(j) /\ since[j] \in 0..Longest
    BY <1>d, <1>t DEF Due, Times
  <2>2. job = j \/ since[j] <= paid[j]
    BY <1>t, <2>1 DEF Paced
  <2>3. QED
    BY <1>r, <2>1, <2>2
<1>k. ASSUME UNCHANGED <<spc, cand>>, ended' = ended \/ ended' = TRUE,
             \A j \in Jobs : Spaced(j) => Spaced(j)' \/ ended' = TRUE
      PROVE  StartsSpaced'
  <2>1. spc = "startTask" => cand \in Jobs
    BY <1>t, NotJobs DEF TypeOK
  <2>2. QED
    BY <1>k, <1>t, <2>1, NotJobs DEF StartsSpaced
<1>1. CASE \/ Look \/ StartKeepalive \/ RefuseKeepalive \/ StartTask \/ RefuseTask \/ EndRound
           \/ HourPasses \/ Restart
  <2>1. spc' \notin {"startKeepalive", "startTask"}
    BY <1>1 DEF Look, StartKeepalive, RefuseKeepalive, StartTask, RefuseTask, EndRound, HourPasses,
                Restart, sched
  <2>2. QED
    BY <2>1 DEF StartsSpaced
<1>2. CASE CheckKeepalive
  <2>1. /\ spc' = "startKeepalive" => Due(Keepalive)
        /\ spc' # "startTask" /\ UNCHANGED <<job, paid>>
    BY <1>2 DEF CheckKeepalive, StillDue, running
  <2>2. QED
    BY <1>d, <2>1, NotJobs DEF StartsSpaced
<1>3. CASE ScanTasks
  <2>1. /\ spc' = "startTask" => cand' \in Tasks /\ Due(cand')
        /\ spc' # "startKeepalive" /\ UNCHANGED <<job, paid>>
    BY <1>3 DEF ScanTasks, StillDue, running
  <2>2. QED
    BY <1>d, <2>1, NotJobs DEF StartsSpaced
<1>4. CASE Act
  <2>1. UNCHANGED <<spc, cand, ended, job>> /\ \A j \in Jobs \ {job} : paid'[j] = paid[j]
    BY <1>4, <1>t DEF Act, sched, Times
  <2>2. QED
    BY <1>k, <2>1
<1>5. CASE Prepare \/ Restore \/ (\E j \in Jobs : WebReset(j) \/ Toggle(j)) \/ UNCHANGED vars
  <2>1. UNCHANGED <<spc, cand, ended, job, paid>>
    BY <1>5 DEF Prepare, Restore, WebReset, Toggle, vars, sched, running, ghosts
  <2>2. QED
    BY <1>k, <2>1
<1>6. CASE Record \/ KeepRecord
  <2>1. UNCHANGED <<spc, cand, ended, job>>
    BY <1>6 DEF Record, KeepRecord, sched
  <2>2. \A j \in Jobs : paid'[j] \in {paid[j], Longest}
    BY <1>6, <1>t DEF Record, KeepRecord, Times
  <2>3. \A j \in Jobs : paid[j] >= Interval(j) => paid'[j] >= Interval(j)
    BY <1>r, <2>2
  <2>4. QED
    BY <1>k, <2>1, <2>3
<1>7. CASE Finish
  BY <1>7, <1>k DEF Finish, sched
<1>8. CASE WebDone \/ \E j \in Jobs \cup {Web} : WebStart(j)
  <2>1. UNCHANGED <<spc, cand, ended, paid>> /\ (job = Web \/ job = None)
    BY <1>8 DEF WebDone, WebStart, Claim, sched, ghosts
  <2>2. QED
    BY <1>k, <2>1, NotJobs
<1>9. QED
  BY <1>1, <1>2, <1>3, <1>4, <1>5, <1>6, <1>7, <1>8 DEF Next, Scheduler, Job

LEMMA NextSchedule == ScheduleInv /\ [Next]_vars => ScheduleInv'
BY NextType, NextAway, NextPaced, NextSpaced DEF ScheduleInv

\* The scheduler starts no job whose action succeeded less than an interval ago, with
\* runs, resets and switches by the user in between (idf_web.cpp:2608-2706, 3048-3112).
THEOREM RunsAreSpaced == Spec => RunsSpaced
<1>1. ScheduleInv /\ [Next]_vars =>
        [/\ StartKeepalive => ended \/ paid[Keepalive] >= Interval(Keepalive)
         /\ StartTask => ended \/ paid[cand] >= Interval(cand)]_vars
  <2> SUFFICES ASSUME ScheduleInv, [Next]_vars
               PROVE  /\ StartKeepalive => ended \/ paid[Keepalive] >= Interval(Keepalive)
                      /\ StartTask => ended \/ paid[cand] >= Interval(cand)
    OBVIOUS
  <2>1. ASSUME StartKeepalive PROVE ended \/ paid[Keepalive] >= Interval(Keepalive)
    BY <2>1, NotJobs DEF StartKeepalive, Claim, ScheduleInv, StartsSpaced
  <2>2. ASSUME StartTask PROVE ended \/ paid[cand] >= Interval(cand)
    BY <2>2, NotJobs DEF StartTask, Claim, ScheduleInv, StartsSpaced, TypeOK
  <2>3. QED
    BY <2>1, <2>2
<1>2. QED
  BY <1>1, InitSchedule, NextSchedule, PTL DEF Spec, RunsSpaced
=============================================================================
