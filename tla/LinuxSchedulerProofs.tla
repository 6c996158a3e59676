------------------------ MODULE LinuxSchedulerProofs ------------------------
(***************************************************************************)
(* What holds of the periodic work of the Linux service for any set of     *)
(* tasks and intervals, days of any length, and any number of hours,       *)
(* saves, failures and stops.                                              *)
(***************************************************************************)
EXTENDS LinuxScheduler, FiniteSetTheorems, TLAPS

-----------------------------------------------------------------------------
(* Least and greatest numbers, days and intervals.                         *)

\* A set of numbers that is not empty has a least one.
LEMMA LeastNatural ==
  ASSUME NEW S \in SUBSET Nat, S # {}
  PROVE  \E m \in S : \A k \in S : m <= k
<1> DEFINE D == {0 .. m : m \in S}
<1>1. D \subseteq FiniteSubsetsOf(Nat)
  <2> SUFFICES ASSUME NEW m \in S PROVE IsFiniteSet(0 .. m) /\ 0 .. m \in SUBSET Nat
    BY DEF FiniteSubsetsOf
  <2> QED
    BY FS_Interval
<1>2. PICK x \in D : \A y \in D : <<y, x>> \notin StrictSubsetOrdering(Nat)
  <2>1. IsWellFoundedOn(StrictSubsetOrdering(Nat), FiniteSubsetsOf(Nat))
    BY FS_StrictSubsetOrderingWellFounded
  <2>2. D # {}
    OBVIOUS
  <2> HIDE DEF D
  <2> QED
    BY <1>1, <2>1, <2>2, WFMin
<1>3. PICK m \in S : x = 0 .. m
  OBVIOUS
<1>4. ASSUME NEW k \in S, k < m PROVE FALSE
  <2>1. 0 .. k \in D /\ 0 .. k \subseteq 0 .. m /\ 0 .. k # 0 .. m
    BY <1>4
  <2>2. <<0 .. k, 0 .. m>> \in StrictSubsetOrdering(Nat)
    BY <2>1 DEF StrictSubsetOrdering
  <2> QED
    BY <1>2, <1>3, <2>1, <2>2
<1> QED
  BY <1>4

\* A finite one has a greatest.
LEMMA GreatestNatural ==
  ASSUME NEW S \in SUBSET Nat, IsFiniteSet(S), S # {}
  PROVE  \E m \in S : \A k \in S : k <= m
<1> DEFINE Above(m) == {k \in S : k > m}
           D == {Above(m) : m \in S}
<1>1. D \subseteq FiniteSubsetsOf(S)
  <2> SUFFICES ASSUME NEW m \in S PROVE IsFiniteSet(Above(m)) /\ Above(m) \in SUBSET S
    BY DEF FiniteSubsetsOf
  <2> QED
    BY FS_Subset
<1>2. PICK x \in D : \A y \in D : <<y, x>> \notin StrictSubsetOrdering(S)
  <2>1. IsWellFoundedOn(StrictSubsetOrdering(S), FiniteSubsetsOf(S))
    BY FS_StrictSubsetOrderingWellFounded
  <2>2. D # {}
    OBVIOUS
  <2> HIDE DEF D
  <2> QED
    BY <1>1, <2>1, <2>2, WFMin
<1>3. PICK m \in S : x = Above(m)
  OBVIOUS
<1>4. ASSUME NEW k \in S, k > m PROVE FALSE
  <2>1. Above(k) \in D
    OBVIOUS
  <2>2. k \in Above(m) /\ k \notin Above(k)
    BY <1>4
  <2>3. Above(k) \subseteq Above(m)
    <3>1. ASSUME NEW z \in S, z > k PROVE z > m
      BY <1>4, <3>1
    <3> QED
      BY <3>1
  <2>4. <<Above(k), Above(m)>> \in StrictSubsetOrdering(S)
    <3>1. Above(k) \in SUBSET S /\ Above(m) \in SUBSET S /\ Above(k) # Above(m)
      BY <2>2
    <3> HIDE DEF Above
    <3> QED
      BY <2>3, <3>1 DEF StrictSubsetOrdering
  <2> QED
    BY <1>2, <1>3, <2>1, <2>4
<1> QED
  BY <1>4

\* The jobs are finitely many, and the daily duties are neither a job nor the same.
LEMMA JobsAndDaily ==
  /\ Jobs \subseteq Nat /\ IsFiniteSet(Jobs) /\ Keepalive \in Jobs /\ Keepalive \notin Tasks
  /\ Jobs = Tasks \cup {Keepalive} /\ Daily = {Beat, Reboot}
  /\ Beat \notin Jobs /\ Reboot \notin Jobs /\ Beat # Reboot
<1>1. Jobs \subseteq Nat /\ Keepalive \in Jobs /\ Keepalive \notin Tasks
  BY SchedulerAssumption DEF Jobs, Keepalive
<1>2. IsFiniteSet(Jobs)
  BY SchedulerAssumption, FS_AddElement DEF Jobs
<1>3. \E m \in Jobs : \A k \in Jobs : k <= m
  BY <1>1, <1>2, GreatestNatural
<1>4. Max(Jobs) \in Jobs /\ \A k \in Jobs : k <= Max(Jobs)
  BY <1>1, <1>3 DEF Max
<1>5. Beat \notin Jobs /\ Reboot \notin Jobs /\ Beat # Reboot
  <2>1. PICK m \in Nat : m = Max(Jobs) /\ \A k \in Jobs : k <= m
    BY <1>1, <1>4
  <2>2. Beat = m + 1 /\ Reboot = m + 2
    BY <2>1 DEF Beat, Reboot
  <2> QED
    BY <1>1, <2>1, <2>2
<1> QED
  BY <1>1, <1>2, <1>5 DEF Jobs, Daily

\* The calendar: the day and the hour of a time, and days that go by.
LEMMA DaysGoBy ==
  /\ \A t \in Nat : DayOf(t) \in Nat /\ HourOf(t) \in 0 .. DayHours - 1
                    /\ t = DayOf(t) * DayHours + HourOf(t)
  /\ \A t, u \in Nat : t <= u => DayOf(t) <= DayOf(u)
  /\ DayOf(3 * DayHours) = 3
<1> USE SchedulerAssumption DEF DayOf, HourOf
<1>1. \A t \in Nat : DayOf(t) \in Nat /\ HourOf(t) \in 0 .. DayHours - 1
  OBVIOUS
<1>2. \A t \in Nat : t = DayOf(t) * DayHours + HourOf(t)
  OBVIOUS
<1>3. \A t, u \in Nat : t <= u => DayOf(t) <= DayOf(u)
  OBVIOUS
<1>4. DayOf(3 * DayHours) = 3
  OBVIOUS
<1> QED
  BY <1>1, <1>2, <1>3, <1>4

\* The intervals of a job, in hours.
Interval(j) == Days[j] * DayHours
Slack(j) == (Days[j] - 1) * DayHours
LEMMA Intervals ==
  /\ DayHours \in Nat /\ DayHours > 0
  /\ \A j \in Jobs : Slack(j) \in Nat /\ Interval(j) \in Nat /\ Interval(j) = Slack(j) + DayHours
<1>1. DayHours \in Nat /\ DayHours > 0 /\ \A j \in Jobs : Days[j] \in Nat \ {0}
  BY SchedulerAssumption
<1>2. ASSUME NEW d \in Nat \ {0}
      PROVE  (d - 1) * DayHours \in Nat /\ d * DayHours = (d - 1) * DayHours + DayHours
  BY <1>1
<1> QED
  BY <1>1, <1>2 DEF Interval, Slack

-----------------------------------------------------------------------------
(* What the operators return.                                              *)

\* At most one job is chosen; it is due, and there is one when a job is due.
LEMMA ChosenOne ==
  /\ Chosen = {} \/ \E c \in Jobs : Chosen = {c} /\ Due(c)
  /\ (\E j \in Jobs : Due(j)) => Chosen # {}
<1>1. CASE Due(Keepalive)
  BY <1>1, JobsAndDaily DEF Chosen
<1>2. CASE ~Due(Keepalive)
  <2> DEFINE ts == {t \in Tasks : Due(t)}
  <2>1. Chosen = FirstOf(ts) /\ ts \subseteq Nat /\ ts \subseteq Jobs
    BY <1>2, JobsAndDaily DEF Chosen
  <2>2. ASSUME NEW c \in FirstOf(ts), NEW d \in FirstOf(ts) PROVE c = d
    BY <2>1 DEF FirstOf
  <2>3. FirstOf(ts) \subseteq ts
    BY DEF FirstOf
  <2>4. (\E j \in Jobs : Due(j)) => ts # {}
    BY <1>2, JobsAndDaily
  <2>5. ts # {} => FirstOf(ts) # {}
    BY <2>1, LeastNatural DEF FirstOf
  <2>6. \A c \in ts : Due(c)
    OBVIOUS
  <2> HIDE DEF ts
  <2> QED
    BY <2>1, <2>2, <2>3, <2>4, <2>5, <2>6
<1> QED
  BY <1>1, <1>2

\* The times of the jobs, one by one.
LEMMA TimesTyped ==
  ASSUME TypeOK
  PROVE  /\ now \in Nat /\ last \in [Jobs -> 0 .. now] /\ cfgLast \in [Jobs -> 0 .. now]
         /\ conf.last \in [Jobs -> 0 .. now] /\ ran \in [Jobs -> 0 .. now] /\ tried \in [Jobs -> 0 .. now]
BY DEF TypeOK

\* What a start reads.
LEMMA RestoredTimes ==
  ASSUME TypeOK, StoresOK
  PROVE  /\ Restored \in [Jobs -> 0 .. now]
         /\ sidecar = {} => Restored = conf.last
         /\ \A s \in sidecar : sidecar = {s} /\ Restored = s.last
<1>1. CASE sidecar = {}
  BY <1>1, TimesTyped DEF Restored
<1>2. CASE sidecar # {}
  <2>1. PICK s \in sidecar : sidecar = {s}
    BY <1>2 DEF StoresOK
  <2>2. (CHOOSE r \in sidecar : TRUE) = s
    BY <2>1
  <2>3. Restored = s.last
    BY <1>2, <2>2 DEF Restored
  <2>4. s \in [last : [Jobs -> 0 .. now], day : [Daily -> 0 .. Today]]
    BY DEF StoresOK
  <2> QED
    BY <1>2, <2>1, <2>3, <2>4
<1> QED
  BY <1>1, <1>2

\* The settings of a save with the times of the moment.
LEMMA RefreshedTimes ==
  ASSUME TypeOK, StoresOK, NEW s \in web
  PROVE  /\ Refreshed(s) \in [on : SUBSET (Jobs \cup Daily), last : [Jobs -> 0 .. now]]
         /\ Refreshed(s).last = cfgLast /\ Refreshed(s).on = s.on /\ s.on \subseteq Jobs \cup Daily
<1>1. s \in [on : SUBSET (Jobs \cup Daily), last : [Jobs -> 0 .. now]]
  BY DEF StoresOK
<1> QED
  BY <1>1, TimesTyped DEF Refreshed

\* One hourly check: the job it serves, and what becomes of the times.
LEMMA CheckTimes ==
  ASSUME TypeOK, StoresOK, TimesTell, HourlyCheck
  PROVE  /\ last' \in [Jobs -> 0 .. now] /\ ran' \in [Jobs -> 0 .. now] /\ tried' \in [Jobs -> 0 .. now]
         /\ waited' \in [Jobs -> Nat] /\ kaFails' \in [Jobs -> Nat] /\ unsaved' = unsaved \cup Chosen
         /\ \A j \in Jobs : last'[j] >= last[j]
         /\ \A j \in Jobs \ Chosen : ran'[j] = ran[j] /\ tried'[j] = tried[j]
         /\ \A j \in Chosen :
              /\ Due(j) /\ tried'[j] = now /\ ran'[j] \in {ran[j], now}
              /\ ran'[j] <= last'[j] /\ (j # Keepalive => now <= last'[j] + Slack(j))
         /\ \A j \in Jobs : waited'[j] = (IF Due(j) /\ j \notin Chosen THEN waited[j] + 1 ELSE 0)
         /\ \A j \in Jobs : waited'[j] > 0 =>
              /\ kaFails'[j] \in {kaFails[j], kaFails[j] + 1}
              /\ Keepalive \in Chosen => ran'[Keepalive] = now \/ kaFails'[j] = kaFails[j] + 1
<1>1. PICK ok \in BOOLEAN : Attempt(ok)
  BY DEF HourlyCheck
<1>2. /\ now \in Nat /\ last \in [Jobs -> 0 .. now] /\ ran \in [Jobs -> 0 .. now] /\ tried \in [Jobs -> 0 .. now]
      /\ waited \in [Jobs -> Nat] /\ kaFails \in [Jobs -> Nat]
  BY TimesTyped DEF StoresOK
<1>3. ASSUME NEW j \in Jobs, Due(j)
      PROVE  /\ last[j] > 0 /\ now - last[j] >= Interval(j) /\ After(j, ok) \in 0 .. now
             /\ After(j, ok) >= last[j]
             /\ j # Keepalive => now <= After(j, ok) + Slack(j)
             /\ ok => After(j, ok) = now
  <2>1. last[j] > 0 /\ now - last[j] >= Interval(j)
    BY <1>3 DEF Due, IntervalDue, Interval
  <2>2. Slack(j) \in Nat /\ Interval(j) = Slack(j) + DayHours /\ DayHours \in Nat
    BY Intervals
  <2>3. RetryBaseline(j, now) = now - Slack(j)
    BY DEF RetryBaseline, Slack
  <2>4. now - Slack(j) \in 0 .. now /\ now - Slack(j) >= last[j] /\ now <= now - Slack(j) + Slack(j)
    BY <1>2, <2>1, <2>2
  <2>5. After(j, ok) = now \/ After(j, ok) = now - Slack(j) \/ (j = Keepalive /\ After(j, ok) = last[j])
    BY <2>3 DEF After
  <2>6. ok => After(j, ok) = now
    BY DEF After
  <2>7. After(j, ok) \in 0 .. now /\ After(j, ok) >= last[j]
    BY <1>2, <2>4, <2>5
  <2>8. j # Keepalive => now <= After(j, ok) + Slack(j)
    BY <1>2, <2>2, <2>4, <2>5
  <2> QED
    BY <2>1, <2>6, <2>7, <2>8
<1>4. \A j \in Chosen : j \in Jobs /\ Due(j)
  BY ChosenOne
<1>5. /\ last' = [j \in Jobs |-> IF j \in Chosen THEN After(j, ok)
                                 ELSE IF j \in Baselined THEN now ELSE last[j]]
      /\ ran' = [j \in Jobs |-> IF j \in Chosen /\ ok THEN now ELSE ran[j]]
      /\ tried' = [j \in Jobs |-> IF j \in Chosen THEN now ELSE tried[j]]
      /\ waited' = [j \in Jobs |-> IF Due(j) /\ j \notin Chosen THEN waited[j] + 1 ELSE 0]
      /\ kaFails' = [j \in Jobs |-> IF waited'[j] = 0 THEN 0
                                    ELSE IF Keepalive \in Chosen /\ ~ok THEN kaFails[j] + 1 ELSE kaFails[j]]
      /\ unsaved' = unsaved \cup Chosen
  BY <1>1 DEF Attempt
<1>6. last' \in [Jobs -> 0 .. now] /\ \A j \in Jobs : last'[j] >= last[j]
  BY <1>2, <1>3, <1>4, <1>5
<1>7. ran' \in [Jobs -> 0 .. now] /\ tried' \in [Jobs -> 0 .. now]
  BY <1>2, <1>5
<1>8. waited' \in [Jobs -> Nat] /\ kaFails' \in [Jobs -> Nat]
  BY <1>2, <1>5
<1>9. \A j \in Jobs \ Chosen : ran'[j] = ran[j] /\ tried'[j] = tried[j]
  BY <1>5
<1>10. ASSUME NEW j \in Chosen
       PROVE  /\ Due(j) /\ tried'[j] = now /\ ran'[j] \in {ran[j], now}
              /\ ran'[j] <= last'[j] /\ (j # Keepalive => now <= last'[j] + Slack(j))
  <2>1. j \in Jobs /\ Due(j) /\ last'[j] = After(j, ok) /\ tried'[j] = now
        /\ ran'[j] = (IF ok THEN now ELSE ran[j])
    BY <1>4, <1>5
  <2>2. ran[j] <= last[j]
    BY <2>1 DEF TimesTell, Tells
  <2>3. ran'[j] <= last'[j]
    BY <1>2, <1>3, <1>6, <2>1, <2>2
  <2> QED
    BY <1>3, <2>1, <2>3
<1>11. \A j \in Jobs : waited'[j] > 0 =>
         /\ kaFails'[j] \in {kaFails[j], kaFails[j] + 1}
         /\ Keepalive \in Chosen => ran'[Keepalive] = now \/ kaFails'[j] = kaFails[j] + 1
  BY <1>5, JobsAndDaily
<1>12. \A j \in Jobs : waited'[j] = (IF Due(j) /\ j \notin Chosen THEN waited[j] + 1 ELSE 0)
  BY <1>5
<1> QED
  BY <1>5, <1>6, <1>7, <1>8, <1>9, <1>10, <1>11, <1>12

-----------------------------------------------------------------------------
(* Which steps change what.                                                *)

LEMMA WhoChanges ==
  ASSUME [Next]_vars
  PROVE  /\ UNCHANGED now \/ Tick
         /\ UNCHANGED started \/ Start
         /\ UNCHANGED <<last, ran, tried, waited, kaFails, checkAt>> \/ HourlyCheck \/ Start
         /\ UNCHANGED lastDay \/ Heartbeat \/ DailyReboot \/ Start
         /\ UNCHANGED cfgLast \/ Copy \/ EndSave \/ Start
         /\ UNCHANGED conf \/ EndSave
         /\ UNCHANGED sidecar \/ Write
         /\ UNCHANGED <<on, behind>> \/ EndSave \/ Start
         /\ UNCHANGED loopOn \/ Top \/ Start
         /\ UNCHANGED web \/ BeginSave \/ EndSave \/ Start
         /\ UNCHANGED unsaved \/ HourlyCheck \/ Write \/ Heartbeat \/ DailyReboot \/ Start
         /\ UNCHANGED beats \/ Tell \/ Start
         /\ UNCHANGED reboots \/ Reset
<1> USE DEF clock, state, settings, files, runs, ghosts, bounds
<1>1. CASE Top
  BY <1>1 DEF Top
<1>2. CASE NotYet
  BY <1>2 DEF NotYet
<1>3. CASE HourlyCheck
  BY <1>3 DEF HourlyCheck
<1>4. CASE Copy
  BY <1>4 DEF Copy
<1>5. CASE Write
  BY <1>5 DEF Write
<1>6. CASE Heartbeat
  BY <1>6 DEF Heartbeat
<1>7. CASE Tell
  BY <1>7 DEF Tell
<1>8. CASE DailyReboot
  BY <1>8 DEF DailyReboot
<1>9. CASE Reset
  <2>1. Start /\ UNCHANGED <<now, conf, sidecar>>
    BY <1>9 DEF Reset, Start
  <2> QED
    BY <1>9, <2>1
<1>10. CASE Crash
  <2>1. Start /\ UNCHANGED <<now, conf, sidecar, reboots>>
    BY <1>10 DEF Crash, Start
  <2> QED
    BY <2>1
<1>11. CASE Tick
  BY <1>11 DEF Tick
<1>12. CASE BeginSave
  BY <1>12 DEF BeginSave
<1>13. CASE EndSave
  BY <1>13 DEF EndSave
<1>14. CASE UNCHANGED vars
  BY <1>14 DEF vars
<1> QED
  BY <1>1, <1>2, <1>3, <1>4, <1>5, <1>6, <1>7, <1>8, <1>9, <1>10, <1>11, <1>12, <1>13, <1>14 DEF Next, Loop

\* Time goes on, hour by hour and to the bound.
LEMMA StepClock ==
  ASSUME TypeOK, StoresOK, [Next]_vars
  PROVE  /\ now' \in 0 .. 3 * DayHours + MaxHours /\ now <= now' /\ now \in Nat /\ now' \in Nat
         /\ Today \in Nat /\ Today' \in Nat /\ Today <= Today' /\ Today' \in Calendar
<1>1. now \in Nat /\ now <= 3 * DayHours + MaxHours /\ 3 * DayHours + MaxHours \in Nat
  BY SchedulerAssumption DEF TypeOK
<1>2. now' \in Nat /\ now <= now' /\ now' <= 3 * DayHours + MaxHours
  <2>1. now' = now \/ Tick
    BY WhoChanges
  <2>2. Tick => now' = now + 1 /\ now < 3 * DayHours + MaxHours
    BY DEF Tick
  <2> QED
    BY <1>1, <2>1, <2>2
<1>3. Today' = DayOf(now')
  BY DEF Today, DayOf
<1>4. Today \in Nat /\ Today' \in Nat /\ Today <= Today' /\ Today' <= DayOf(3 * DayHours + MaxHours)
  BY <1>1, <1>2, <1>3, DaysGoBy DEF Today
<1>5. Today >= 3 /\ DayOf(3 * DayHours + MaxHours) \in Nat
  BY <1>1, DaysGoBy DEF StoresOK, Calendar
<1>6. Calendar' = Calendar
  BY DEF Calendar, DayOf
<1> QED
  BY <1>1, <1>2, <1>4, <1>5, <1>6 DEF Calendar

\* Where the loop is.
LEMMA StepLoop ==
  ASSUME TypeOK, StoresOK, HourlyRounds, [Next]_vars
  PROVE  /\ pc' \in {"top", "check", "copy", "write", "beat", "tell", "reboot", "reset"}
         /\ then' \in {"beat", "tell", "reset"} /\ rounded' \in BOOLEAN
         /\ checkAt' \in 0 .. now' + 1 /\ started' \in 0 .. now'
<1>1. now \in Nat /\ now' \in Nat /\ now <= now' /\ checkAt \in 0 .. now + 1 /\ started \in 0 .. now
  BY StepClock DEF TypeOK
<1>2. started' \in 0 .. now' /\ checkAt' \in 0 .. now' + 1
  <2>1. /\ started' = started \/ Start
        /\ checkAt' = checkAt \/ HourlyCheck \/ Start
    BY WhoChanges
  <2>2. Start => started' = now /\ checkAt' = now
    BY DEF Start
  <2>3. HourlyCheck => checkAt' = now + 1
    BY DEF HourlyCheck
  <2> QED
    BY <1>1, <2>1, <2>2, <2>3
<1>3. rounded' = rounded \/ rounded' = TRUE \/ rounded' = FALSE
  BY DEF Next, Loop, Top, NotYet, HourlyCheck, Copy, Write, Heartbeat, Mark, Skip, Tell, DailyReboot, Reset,
         Crash, Start, Tick, BeginSave, EndSave, clock, vars
<1>4. rounded' \in BOOLEAN
  BY <1>3, Zenon DEF TypeOK
<1>5. /\ pc' \in {"top", "check", "copy", "write", "beat", "tell", "reboot", "reset"}
      /\ then' \in {"beat", "tell", "reset"}
  BY DEF TypeOK, Next, Loop, Top, NotYet, HourlyCheck, Copy, Write, Heartbeat, Mark, Skip, Tell, DailyReboot,
         Reset, Crash, Start, Tick, BeginSave, EndSave, vars
<1> QED
  BY <1>2, <1>4, <1>5

\* The times of the jobs are not ahead of the clock.
LEMMA StepTimesTyped ==
  ASSUME TypeOK, StoresOK, TimesTell, [Next]_vars
  PROVE  /\ last' \in [Jobs -> 0 .. now'] /\ cfgLast' \in [Jobs -> 0 .. now']
         /\ ran' \in [Jobs -> 0 .. now'] /\ tried' \in [Jobs -> 0 .. now']
         /\ waited' \in [Jobs -> Nat] /\ kaFails' \in [Jobs -> Nat]
<1>1. now \in Nat /\ now' \in Nat /\ now <= now'
  BY StepClock
<1>2. /\ last \in [Jobs -> 0 .. now] /\ cfgLast \in [Jobs -> 0 .. now]
      /\ ran \in [Jobs -> 0 .. now] /\ tried \in [Jobs -> 0 .. now]
      /\ waited \in [Jobs -> Nat] /\ kaFails \in [Jobs -> Nat]
  BY TimesTyped DEF StoresOK
<1>3. ASSUME NEW f \in [Jobs -> 0 .. now] PROVE f \in [Jobs -> 0 .. now']
  BY <1>1
<1>4. /\ last' \in [Jobs -> 0 .. now] /\ ran' \in [Jobs -> 0 .. now] /\ tried' \in [Jobs -> 0 .. now]
      /\ waited' \in [Jobs -> Nat] /\ kaFails' \in [Jobs -> Nat]
  <2>1. CASE HourlyCheck
    BY <2>1, CheckTimes
  <2>2. CASE Start
    <3>1. /\ last' = Restored /\ waited' = Never /\ kaFails' = Never
          /\ ran' = [j \in Jobs |-> IF j \in unsaved THEN 0 ELSE ran[j]]
          /\ tried' = [j \in Jobs |-> IF j \in unsaved THEN 0 ELSE tried[j]]
      BY <2>2 DEF Start
    <3>2. last' \in [Jobs -> 0 .. now]
      BY <3>1, RestoredTimes
    <3>3. 0 \in 0 .. now /\ Never \in [Jobs -> Nat]
      BY <1>1 DEF Never
    <3> QED
      BY <1>2, <3>1, <3>2, <3>3
  <2>3. CASE UNCHANGED <<last, ran, tried, waited, kaFails, checkAt>>
    BY <1>2, <2>3
  <2> QED
    BY <2>1, <2>2, <2>3, WhoChanges
<1>5. cfgLast' \in [Jobs -> 0 .. now]
  <2>1. Copy => cfgLast' = last
    BY DEF Copy
  <2>2. Start => cfgLast' = Restored
    BY DEF Start
  <2>3. ASSUME EndSave PROVE cfgLast' = cfgLast
    <3>1. PICK s \in web : cfgLast' = Refreshed(s).last \/ cfgLast' = cfgLast
      BY <2>3 DEF EndSave, settings
    <3> QED
      BY <3>1, RefreshedTimes
  <2>4. cfgLast' = cfgLast \/ Copy \/ EndSave \/ Start
    BY WhoChanges
  <2>5. Restored \in [Jobs -> 0 .. now]
    BY RestoredTimes
  <2> QED
    BY <1>2, <2>1, <2>2, <2>3, <2>4, <2>5
<1> QED
  BY <1>3, <1>4, <1>5

\* The daily marks are not ahead of the calendar.
LEMMA StepMarksTyped ==
  ASSUME TypeOK, StoresOK, [Next]_vars
  PROVE  lastDay' \in [Daily -> 0 .. Today']
<1>1. Today \in Nat /\ Today' \in Nat /\ Today <= Today'
  BY StepClock
<1>2. lastDay \in [Daily -> 0 .. Today]
  BY DEF TypeOK, Today
<1>3. lastDay' \in [Daily -> 0 .. Today]
  <2>1. ASSUME NEW d \in Daily, NEW step, Mark(d, step) PROVE lastDay' \in [Daily -> 0 .. Today]
    BY <1>1, <1>2, <2>1 DEF Mark, Today
  <2>2. CASE Heartbeat
    BY <1>2, <2>1, <2>2, JobsAndDaily DEF Heartbeat, Skip
  <2>3. CASE DailyReboot
    BY <1>2, <2>1, <2>3, JobsAndDaily DEF DailyReboot, Skip
  <2>4. CASE Start
    <3>1. CASE sidecar = {}
      BY <1>1, <2>4, <3>1 DEF Start, NoDays
    <3>2. CASE sidecar # {}
      <4>1. PICK s \in sidecar : sidecar = {s}
        BY <3>2 DEF StoresOK
      <4>2. (CHOOSE r \in sidecar : TRUE) = s
        BY <4>1
      <4>3. s \in [last : [Jobs -> 0 .. now], day : [Daily -> 0 .. Today]]
        BY DEF StoresOK
      <4> QED
        BY <2>4, <3>2, <4>2, <4>3 DEF Start
    <3> QED
      BY <3>1, <3>2
  <2>5. UNCHANGED lastDay \/ Heartbeat \/ DailyReboot \/ Start
    BY WhoChanges
  <2> QED
    BY <1>2, <2>2, <2>3, <2>4, <2>5
<1> QED
  BY <1>1, <1>3

\* The settings and the two files.
LEMMA StepStores ==
  ASSUME TypeOK, StoresOK, [Next]_vars
  PROVE  /\ {on', loopOn'} \subseteq SUBSET (Jobs \cup Daily)
         /\ conf' \in [on : SUBSET (Jobs \cup Daily), last : [Jobs -> 0 .. now']]
         /\ sidecar' \subseteq [last : [Jobs -> 0 .. now'], day : [Daily -> 0 .. Today']]
         /\ web' \subseteq [on : SUBSET (Jobs \cup Daily), last : [Jobs -> 0 .. now']]
         /\ sidecar' # {} => \E s \in sidecar' : sidecar' = {s}
         /\ web' # {} => \E s \in web' : web' = {s}
<1> DEFINE Confs(n) == [on : SUBSET (Jobs \cup Daily), last : [Jobs -> 0 .. n]]
           Cars(n, d) == [last : [Jobs -> 0 .. n], day : [Daily -> 0 .. d]]
<1>1. /\ now \in Nat /\ now' \in Nat /\ now <= now'
      /\ Today \in Nat /\ Today' \in Nat /\ Today <= Today'
  BY StepClock
<1>2. /\ on \subseteq Jobs \cup Daily /\ loopOn \subseteq Jobs \cup Daily
      /\ conf \in Confs(now) /\ web \subseteq Confs(now) /\ sidecar \subseteq Cars(now, Today)
      /\ last \in [Jobs -> 0 .. now] /\ cfgLast \in [Jobs -> 0 .. now] /\ lastDay \in [Daily -> 0 .. Today]
  BY TimesTyped DEF TypeOK, StoresOK, Today
<1>3. ASSUME NEW c \in Confs(now) PROVE c \in Confs(now')
  BY <1>1, <1>3
<1>4. ASSUME NEW s \in Cars(now, Today) PROVE s \in Cars(now', Today')
  BY <1>1, <1>4
<1>5. on' \subseteq Jobs \cup Daily /\ conf' \in Confs(now)
  <2>1. CASE EndSave
    <3>1. PICK s \in web : \/ conf' = Refreshed(s) /\ on' = s.on
                           \/ UNCHANGED <<conf, on>>
      BY <2>1 DEF EndSave, settings
    <3>2. Refreshed(s) \in Confs(now) /\ s.on \subseteq Jobs \cup Daily
      BY RefreshedTimes
    <3> HIDE DEF Confs
    <3> QED
      BY <1>2, <3>1, <3>2
  <2>2. CASE Start
    <3>1. on' = conf.on /\ conf' = conf
      BY <2>2 DEF Start, files
    <3> QED
      BY <1>2, <3>1
  <2>3. (on' = on \/ EndSave \/ Start) /\ (conf' = conf \/ EndSave)
    BY WhoChanges
  <2> HIDE DEF Confs
  <2> QED
    BY <1>2, <2>1, <2>2, <2>3
<1>6. loopOn' \subseteq Jobs \cup Daily
  <2>1. Top => loopOn' = on
    BY DEF Top
  <2>2. Start => loopOn' = {}
    BY DEF Start
  <2>3. loopOn' = loopOn \/ Top \/ Start
    BY WhoChanges
  <2> QED
    BY <1>2, <2>1, <2>2, <2>3
<1>7. sidecar' = sidecar \/ \E s \in Cars(now, Today) : sidecar' = {s}
  <2>1. Write => sidecar' = {[last |-> last, day |-> lastDay]} \/ sidecar' = sidecar
    BY DEF Write
  <2>2. [last |-> last, day |-> lastDay] \in Cars(now, Today)
    BY <1>2
  <2>3. sidecar' = sidecar \/ Write
    BY WhoChanges
  <2> HIDE DEF Cars
  <2> QED
    BY <2>1, <2>2, <2>3
<1>8. web' = web \/ web' = {} \/ \E s \in Confs(now) : web' = {s}
  <2>1. CASE BeginSave
    <3>1. PICK j \in Jobs \cup Daily :
            web' = {[on |-> IF j \in on THEN on \ {j} ELSE on \cup {j}, last |-> cfgLast]}
      BY <2>1 DEF BeginSave
    <3>2. [on |-> IF j \in on THEN on \ {j} ELSE on \cup {j}, last |-> cfgLast] \in Confs(now)
      BY <1>2
    <3> HIDE DEF Confs
    <3> QED
      BY <3>1, <3>2
  <2>2. EndSave \/ Start => web' = {}
    BY DEF EndSave, Start
  <2>3. web' = web \/ BeginSave \/ EndSave \/ Start
    BY WhoChanges
  <2> HIDE DEF Confs
  <2> QED
    BY <2>1, <2>2, <2>3
<1>9. /\ sidecar' \subseteq Cars(now', Today') /\ web' \subseteq Confs(now')
      /\ sidecar' # {} => \E s \in sidecar' : sidecar' = {s}
      /\ web' # {} => \E s \in web' : web' = {s}
  <2>1. /\ sidecar # {} => \E s \in sidecar : sidecar = {s}
        /\ web # {} => \E s \in web : web = {s}
    BY DEF StoresOK
  <2> HIDE DEF Confs, Cars
  <2>2. sidecar' \subseteq Cars(now', Today') /\ (sidecar' # {} => \E s \in sidecar' : sidecar' = {s})
    BY <1>2, <1>4, <1>7, <2>1
  <2>3. web' \subseteq Confs(now') /\ (web' # {} => \E s \in web' : web' = {s})
    BY <1>2, <1>3, <1>8, <2>1
  <2> QED
    BY <2>2, <2>3
<1>10. conf' \in Confs(now')
  BY <1>3, <1>5
<1> QED
  BY <1>5, <1>6, <1>9, <1>10

\* What is counted day by day.
LEMMA StepCounts ==
  ASSUME TypeOK, StoresOK, [Next]_vars
  PROVE  behind' \in BOOLEAN /\ beats' \in [Calendar -> Nat] /\ reboots' \in [Calendar -> Nat]
<1>1. Today \in Calendar /\ beats \in [Calendar -> Nat] /\ reboots \in [Calendar -> Nat] /\ behind \in BOOLEAN
  BY DEF StoresOK
<1>2. behind' = behind \/ behind' = FALSE \/ behind' = (\E j \in Jobs : Restored[j] < conf.last[j])
  <2>1. EndSave => behind' = FALSE \/ behind' = behind
    BY DEF EndSave
  <2>2. Start => behind' = (\E j \in Jobs : Restored[j] < conf.last[j])
    BY DEF Start
  <2>3. behind' = behind \/ EndSave \/ Start
    BY WhoChanges
  <2> QED
    BY <2>1, <2>2, <2>3
<1>3. behind' \in BOOLEAN
  <2>1. (\E j \in Jobs : Restored[j] < conf.last[j]) \in BOOLEAN
    BY Zenon
  <2> QED
    BY <1>1, <1>2, <2>1, Zenon
<1>4. beats' \in [Calendar -> Nat]
  <2>1. Tell => beats' = [beats EXCEPT ![Today] = @ + 1]
    BY DEF Tell, Today
  <2>2. Start => beats' = [beats EXCEPT ![Today] = 0] \/ beats' = beats
    BY DEF Start, Today
  <2>3. beats' = beats \/ Tell \/ Start
    BY WhoChanges
  <2> QED
    BY <1>1, <2>1, <2>2, <2>3
<1>5. reboots' \in [Calendar -> Nat]
  <2>1. Reset => reboots' = [reboots EXCEPT ![Today] = @ + 1]
    BY DEF Reset, Today
  <2>2. reboots' = reboots \/ Reset
    BY WhoChanges
  <2> QED
    BY <1>1, <2>1, <2>2
<1> QED
  BY <1>3, <1>4, <1>5

LEMMA StepTyped ==
  ASSUME TypeOK, StoresOK, TimesTell, HourlyRounds, [Next]_vars
  PROVE  TypeOK' /\ StoresOK'
<1>1. Today' = DayOf(now')
  BY DEF Today, DayOf
<1>2. Cardinality(sidecar') <= 1 /\ Cardinality(web') <= 1
  <2>1. ASSUME NEW S, S = {} \/ \E s \in S : S = {s} PROVE Cardinality(S) <= 1
    <3>1. CASE S = {}
      BY <3>1, FS_EmptySet
    <3>2. CASE S # {}
      <4>1. PICK s \in S : S = {s}
        BY <2>1, <3>2
      <4>2. Cardinality({s}) = 1
        BY FS_Singleton
      <4> QED
        BY <4>1, <4>2
    <3> QED
      BY <3>1, <3>2
  <2> QED
    BY <2>1, StepStores
<1>3. conf'.last \in [Jobs -> 0 .. now'] /\ conf'.on \subseteq Jobs \cup Daily
  BY StepStores
<1>4. Calendar' = Calendar
  BY DEF Calendar, DayOf
<1>5. now' \in 0 .. 3 * DayHours + MaxHours /\ Today' \in Calendar
  BY StepClock
<1>6. TypeOK'
  <2>1. \A l \in {last', cfgLast', conf'.last, ran', tried'} : l \in [Jobs -> 0 .. now']
    BY <1>3, StepTimesTyped
  <2>2. {on', loopOn', conf'.on} \subseteq SUBSET (Jobs \cup Daily)
    BY <1>3, StepStores
  <2>3. lastDay' \in [Daily -> 0 .. DayOf(now')]
    BY <1>1, StepMarksTyped
  <2>4. /\ checkAt' \in 0 .. now' + 1 /\ started' \in 0 .. now' /\ rounded' \in BOOLEAN
        /\ pc' \in {"top", "check", "copy", "write", "beat", "tell", "reboot", "reset"}
        /\ then' \in {"beat", "tell", "reset"}
    BY StepLoop
  <2> QED
    BY <1>2, <1>5, <2>1, <2>2, <2>3, <2>4 DEF TypeOK, DayOf
<1>7. StoresOK'
  BY <1>4, <1>5, StepStores, StepCounts, StepTimesTyped DEF StoresOK
<1> QED
  BY <1>6, <1>7

-----------------------------------------------------------------------------
(* The parts of the invariant, kept by every step.                         *)

LEMMA StepTimesInOrder ==
  ASSUME TypeOK, StoresOK, TimesInOrder, TimesTell, [Next]_vars
  PROVE  TimesInOrder'
<1>1. /\ \A j \in Jobs : last[j] \in Nat /\ cfgLast[j] \in Nat /\ conf.last[j] \in Nat /\ Restored[j] \in Nat
      /\ sidecar = {} => Restored = conf.last
  BY TimesTyped, RestoredTimes
<1>2. /\ \A j \in Jobs : cfgLast[j] <= last[j]
      /\ behind \/ \A j \in Jobs : conf.last[j] <= cfgLast[j]
      /\ sidecar = {} => ~behind
  BY DEF TimesInOrder
<1>3. CASE HourlyCheck
  <2>1. UNCHANGED <<cfgLast, conf, behind, sidecar>>
    BY <1>3 DEF HourlyCheck, settings, files
  <2>2. \A j \in Jobs : last'[j] >= last[j] /\ last'[j] \in Nat
    BY <1>3, CheckTimes
  <2>3. \A j \in Jobs : cfgLast'[j] <= last'[j]
    BY <1>1, <1>2, <2>1, <2>2
  <2> QED
    BY <1>2, <2>1, <2>3 DEF TimesInOrder
<1>4. CASE Copy
  <2>1. cfgLast' = last /\ UNCHANGED <<last, conf, behind, sidecar>>
    BY <1>4 DEF Copy, files, ghosts, state
  <2>2. \A j \in Jobs : cfgLast'[j] <= last'[j]
    BY <1>1, <2>1
  <2>3. behind' \/ \A j \in Jobs : conf'.last[j] <= cfgLast'[j]
    BY <1>1, <1>2, <2>1
  <2> QED
    BY <1>2, <2>1, <2>2, <2>3 DEF TimesInOrder
<1>5. CASE EndSave
  <2>1. cfgLast' = cfgLast /\ UNCHANGED <<last, sidecar>>
        /\ ((behind' = FALSE /\ conf'.last = cfgLast) \/ UNCHANGED <<conf, behind>>)
    <3>1. PICK s \in web :
            \/ conf' = Refreshed(s) /\ cfgLast' = Refreshed(s).last /\ behind' = FALSE
            \/ UNCHANGED <<conf, cfgLast, behind>>
      BY <1>5 DEF EndSave, settings
    <3>2. UNCHANGED <<last, sidecar>>
      BY <1>5 DEF EndSave, state
    <3> QED
      BY <3>1, <3>2, RefreshedTimes
  <2>2. behind' \/ \A j \in Jobs : conf'.last[j] <= cfgLast'[j]
    BY <1>1, <1>2, <2>1
  <2>3. sidecar' = {} => ~behind'
    BY <1>2, <2>1
  <2> QED
    BY <1>2, <2>1, <2>2, <2>3 DEF TimesInOrder
<1>6. CASE Start
  <2>1. /\ last' = Restored /\ cfgLast' = Restored /\ UNCHANGED <<conf, sidecar>>
        /\ behind' = (\E j \in Jobs : Restored[j] < conf.last[j])
    BY <1>6 DEF Start, files
  <2>2. \A j \in Jobs : cfgLast'[j] <= last'[j]
    BY <1>1, <2>1
  <2>3. behind' \/ \A j \in Jobs : conf'.last[j] <= cfgLast'[j]
    BY <1>1, <2>1
  <2>4. sidecar' = {} => ~behind'
    BY <1>1, <2>1
  <2> QED
    BY <2>2, <2>3, <2>4 DEF TimesInOrder
<1>7. CASE Write
  <2>1. UNCHANGED <<last, cfgLast, conf, behind>> /\ (sidecar' # {} \/ sidecar' = sidecar)
    BY <1>7 DEF Write, state, settings
  <2> QED
    BY <1>2, <2>1 DEF TimesInOrder
<1>8. CASE UNCHANGED <<last, cfgLast, conf, behind, sidecar>>
  BY <1>2, <1>8 DEF TimesInOrder
<1> QED
  BY <1>3, <1>4, <1>5, <1>6, <1>7, <1>8, WhoChanges

LEMMA StepTimesTell ==
  ASSUME TypeOK, StoresOK, TimesInOrder, TimesTell, [Next]_vars
  PROVE  TimesTell'
<1>1. /\ \A j \in Jobs : /\ last[j] \in Nat /\ cfgLast[j] \in Nat /\ conf.last[j] \in Nat /\ Restored[j] \in Nat
                         /\ ran[j] \in Nat /\ tried[j] \in Nat /\ Slack(j) \in Nat
      /\ sidecar = {} => Restored = conf.last
      /\ ran \in [Jobs -> 0 .. now] /\ tried \in [Jobs -> 0 .. now] /\ now \in Nat
  BY TimesTyped, RestoredTimes, Intervals
<1> DEFINE Holds(l, r, t, j) == r[j] <= l[j] /\ (j # Keepalive => t[j] <= l[j] + Slack(j))
<1>2. /\ \A j \in Jobs : Holds(last, ran, tried, j)
      /\ \A j \in Jobs \ unsaved : Holds(Restored, ran, tried, j)
  BY DEF TimesTell, Tells, Slack
<1>3. SUFFICES /\ \A j \in Jobs : Holds(last', ran', tried', j)
               /\ \A j \in Jobs \ unsaved' : Holds(Restored', ran', tried', j)
  BY DEF TimesTell, Tells, Slack, Restored
<1>4. UNCHANGED <<conf, sidecar>> => Restored' = Restored
  BY DEF Restored
<1>5. CASE HourlyCheck
  <2>1. Restored' = Restored /\ unsaved' = unsaved \cup Chosen
    BY <1>4, <1>5, CheckTimes DEF HourlyCheck, files
  <2>2. ASSUME NEW j \in Jobs, j \notin Chosen
        PROVE  ran'[j] = ran[j] /\ tried'[j] = tried[j] /\ Holds(last', ran', tried', j)
    <3>1. ran'[j] = ran[j] /\ tried'[j] = tried[j] /\ last'[j] >= last[j] /\ last'[j] \in Nat
      BY <1>1, <1>5, <2>2, CheckTimes
    <3> QED
      BY <1>1, <1>2, <3>1
  <2>3. ASSUME NEW j \in Jobs, j \in Chosen PROVE Holds(last', ran', tried', j)
    BY <1>5, <2>3, CheckTimes
  <2>4. \A j \in Jobs \ unsaved' : Holds(Restored', ran', tried', j)
    BY <1>2, <2>1, <2>2
  <2> QED
    BY <2>2, <2>3, <2>4
<1>6. CASE Start
  <2>1. /\ last' = Restored /\ Restored' = Restored
        /\ ran' = [j \in Jobs |-> IF j \in unsaved THEN 0 ELSE ran[j]]
        /\ tried' = [j \in Jobs |-> IF j \in unsaved THEN 0 ELSE tried[j]]
    BY <1>4, <1>6 DEF Start, files
  <2>2. ASSUME NEW j \in Jobs PROVE Holds(Restored, ran', tried', j)
    <3>1. CASE j \in unsaved
      BY <1>1, <2>1, <3>1
    <3>2. CASE j \notin unsaved
      BY <1>2, <2>1, <3>2
    <3> QED
      BY <3>1, <3>2
  <2> QED
    BY <2>1, <2>2
<1>7. CASE Write
  <2>1. UNCHANGED <<last, ran, tried, conf>>
    BY <1>7 DEF Write, state, runs
  <2>2. CASE sidecar' = {[last |-> last, day |-> lastDay]}
    <3>1. PICK s : s = [last |-> last, day |-> lastDay]
      OBVIOUS
    <3>2. (CHOOSE r \in sidecar' : TRUE) = s /\ sidecar' # {}
      BY <2>2, <3>1
    <3>3. Restored' = s.last
      BY <3>2 DEF Restored
    <3>4. Restored' = last
      BY <3>1, <3>3
    <3> QED
      BY <1>2, <2>1, <3>4
  <2>3. CASE UNCHANGED <<sidecar, unsaved>>
    BY <1>2, <1>4, <2>1, <2>3
  <2> QED
    BY <1>7, <2>2, <2>3 DEF Write
<1>8. CASE EndSave
  <2>1. UNCHANGED <<last, ran, tried, unsaved, sidecar>>
    BY <1>8 DEF EndSave, state, runs
  <2>2. conf' = conf \/ (conf'.last = cfgLast)
    <3>1. PICK s \in web : conf' = Refreshed(s) \/ conf' = conf
      BY <1>8 DEF EndSave
    <3> QED
      BY <3>1, RefreshedTimes
  <2>3. CASE sidecar = {} /\ conf' # conf
    <3>1. Restored' = cfgLast /\ \A j \in Jobs : Restored[j] <= cfgLast[j]
      BY <1>1, <2>1, <2>2, <2>3 DEF Restored, TimesInOrder
    <3>2. ASSUME NEW j \in Jobs \ unsaved PROVE Holds(cfgLast, ran, tried, j)
      BY <1>1, <1>2, <3>1
    <3> QED
      BY <1>2, <2>1, <3>1, <3>2
  <2>4. CASE sidecar # {} \/ conf' = conf
    <3>1. Restored' = Restored
      BY <2>1, <2>4 DEF Restored
    <3> QED
      BY <1>2, <2>1, <3>1
  <2> QED
    BY <2>3, <2>4
<1>9. CASE UNCHANGED <<last, ran, tried, conf, sidecar>> /\ unsaved \subseteq unsaved'
  BY <1>2, <1>4, <1>9
<1>10. UNCHANGED <<last, ran, tried, conf, sidecar>> \/ HourlyCheck \/ Start \/ Write \/ EndSave
  BY WhoChanges
<1>11. unsaved \subseteq unsaved' \/ Write \/ Start
  <2>1. unsaved' = unsaved \/ HourlyCheck \/ Write \/ Heartbeat \/ DailyReboot \/ Start
    BY WhoChanges
  <2>2. HourlyCheck => unsaved \subseteq unsaved'
    BY CheckTimes
  <2>3. Heartbeat \/ DailyReboot => unsaved \subseteq unsaved'
    BY DEF Heartbeat, DailyReboot, Mark, Skip
  <2> QED
    BY <2>1, <2>2, <2>3
<1> QED
  BY <1>5, <1>6, <1>7, <1>8, <1>9, <1>10, <1>11

LEMMA StepHourlyRounds ==
  ASSUME TypeOK, HourlyRounds, [Next]_vars
  PROVE  HourlyRounds'
<1>1. now \in Nat /\ checkAt \in Nat /\ checkAt <= now + 1
  BY DEF TypeOK
<1> USE DEF HourlyRounds
<1>2. CASE Tick
  BY <1>1, <1>2 DEF Tick
<1>3. CASE HourlyCheck
  BY <1>1, <1>3 DEF HourlyCheck, clock
<1>4. CASE Start
  BY <1>1, <1>4 DEF Start
<1>5. CASE NotYet
  BY <1>1, <1>5 DEF NotYet, clock
<1>6. CASE UNCHANGED <<clock, checkAt>> /\ (pc \in {"top", "check"} => pc' \in {"top", "check"})
  BY <1>1, <1>6 DEF clock
<1>7. CASE DailyReboot
  BY <1>1, <1>7 DEF DailyReboot, Mark, Skip
<1>8. \/ Tick \/ HourlyCheck \/ Start \/ NotYet \/ DailyReboot
      \/ UNCHANGED <<clock, checkAt>> /\ (pc \in {"top", "check"} => pc' \in {"top", "check"})
  BY DEF TypeOK, Next, Loop, Top, Copy, Write, Heartbeat, Mark, Skip, Tell, Reset, Crash, BeginSave, EndSave,
         clock, vars
<1> QED
  BY <1>2, <1>3, <1>4, <1>5, <1>6, <1>7, <1>8

LEMMA StepBeatMarked ==
  ASSUME TypeOK, StoresOK, BeatMarked, [Next]_vars
  PROVE  BeatMarked'
<1>1. /\ Today \in Calendar /\ Calendar' = Calendar /\ Today \in Nat /\ Today' \in Calendar /\ Today' \in Nat
      /\ Today <= Today' /\ now \in Nat /\ Calendar \subseteq Nat
      /\ (now' = now => Today' = Today)
  BY StepClock DEF StoresOK, Calendar, Today, DayOf
<1>2. /\ beats \in [Calendar -> Nat] /\ lastDay \in [Daily -> 0 .. Today] /\ Daily = {Beat, Reboot} /\ Beat # Reboot
  BY JobsAndDaily DEF StoresOK, TypeOK, Today
<1>3. Beat \in Daily /\ lastDay[Beat] \in 0 .. Today
  BY <1>2
<1> DEFINE Marked(b, l, u, c, day) ==
             /\ \A d \in Calendar : b[d] <= 1
             /\ \A d \in Calendar : d > day => b[d] = 0
             /\ b[day] > 0 => l[Beat] = day
             /\ l[Beat] = day => Beat \in u \/ \E s \in c : s.day[Beat] = day
<1>4. Marked(beats, lastDay, unsaved, sidecar, Today) /\ (Pending("tell") => lastDay[Beat] = Today /\ beats[Today] = 0)
  BY DEF BeatMarked, OneBeatADay
<1>5. SUFFICES /\ Marked(beats', lastDay', unsaved', sidecar', Today')
               /\ Pending("tell")' => lastDay'[Beat] = Today' /\ beats'[Today'] = 0
  BY <1>1 DEF BeatMarked, OneBeatADay, Today
<1>6. CASE Tick
  <2>1. UNCHANGED <<beats, lastDay, unsaved, sidecar>> /\ ~Pending("tell")'
    BY <1>6 DEF Tick, Pending, state, ghosts, files
  <2>2. CASE Today' = Today
    BY <1>4, <2>1, <2>2
  <2>3. CASE Today' > Today
    <3>1. beats'[Today'] = 0 /\ lastDay'[Beat] # Today' /\ \A d \in Calendar : d > Today' => d > Today
      BY <1>1, <1>3, <1>4, <2>1, <2>3
    <3> QED
      BY <1>4, <2>1, <3>1
  <2>4. Today' = Today \/ Today' > Today
    BY <1>1
  <2> QED
    BY <2>2, <2>3, <2>4
<1>7. CASE Tell
  <2>1. /\ beats' = [beats EXCEPT ![Today] = @ + 1] /\ Today' = Today /\ UNCHANGED <<lastDay, unsaved, sidecar>>
        /\ Pending("tell") /\ ~Pending("tell")'
    BY <1>1, <1>7 DEF Tell, Pending, clock, state, files, Today
  <2>2. beats[Today] = 0 /\ lastDay[Beat] = Today
    BY <1>4, <2>1
  <2>3. \A d \in Calendar : beats'[d] <= 1 /\ (d > Today => beats'[d] = 0)
    <3> SUFFICES ASSUME NEW d \in Calendar PROVE beats'[d] <= 1 /\ (d > Today => beats'[d] = 0)
      OBVIOUS
    <3>1. CASE d = Today
      BY <1>1, <1>2, <2>1, <2>2, <3>1
    <3>2. CASE d # Today
      BY <1>2, <1>4, <2>1, <3>2
    <3> QED
      BY <3>1, <3>2
  <2> QED
    BY <1>4, <2>1, <2>2, <2>3
<1>8. CASE Heartbeat
  <2>1. Today' = Today /\ UNCHANGED <<beats, sidecar>>
    BY <1>1, <1>8 DEF Heartbeat, runs, files
  <2>2. CASE DailyDue(Beat, BeatHour)
    <3>1. /\ lastDay' = [lastDay EXCEPT ![Beat] = Today] /\ unsaved' = unsaved \cup {Beat} /\ lastDay[Beat] < Today
      BY <1>1, <1>3, <1>8, <2>2 DEF Heartbeat, Mark, DailyDue, Today
    <3>2. lastDay'[Beat] = Today
      BY <1>2, <3>1
    <3>3. lastDay[Beat] # Today
      BY <1>1, <1>3, <3>1
    <3>4. beats[Today] = 0
      BY <1>1, <1>2, <1>4, <3>3
    <3> QED
      BY <1>4, <2>1, <3>1, <3>2, <3>4
  <2>3. CASE ~DailyDue(Beat, BeatHour)
    <3>1. UNCHANGED <<lastDay, unsaved>> /\ pc' = "reboot"
      BY <1>8, <2>3 DEF Heartbeat, Skip
    <3> QED
      BY <1>4, <2>1, <3>1 DEF Pending
  <2> QED
    BY <2>2, <2>3
<1>9. CASE DailyReboot
  <2>1. Today' = Today /\ UNCHANGED <<beats, sidecar>>
    BY <1>1, <1>9 DEF DailyReboot, runs, files
  <2>2. \/ /\ lastDay' = [lastDay EXCEPT ![Reboot] = Today] /\ unsaved' = unsaved \cup {Reboot}
           /\ pc' = "copy" /\ then' = "reset"
        \/ UNCHANGED <<lastDay, unsaved>> /\ pc' = "top"
    BY <1>9 DEF DailyReboot, Mark, Skip, Today
  <2>3. lastDay'[Beat] = lastDay[Beat] /\ unsaved \subseteq unsaved'
        /\ (Beat \in unsaved' => Beat \in unsaved)
    BY <1>2, <2>2
  <2>4. ~Pending("tell")'
    BY <2>2 DEF Pending
  <2> QED
    BY <1>4, <2>1, <2>3, <2>4
<1>10. CASE Start
  <2>1. Today' = Today /\ UNCHANGED sidecar /\ pc' = "top" /\ unsaved' = {}
        /\ beats' = (IF Beat \in unsaved THEN [beats EXCEPT ![Today] = 0] ELSE beats)
    BY <1>1, <1>10 DEF Start, files, Today
  <2>2. ~Pending("tell")'
    BY <2>1 DEF Pending
  <2>3. \A d \in Calendar : beats'[d] <= 1 /\ (d > Today => beats'[d] = 0)
    <3> SUFFICES ASSUME NEW d \in Calendar PROVE beats'[d] <= 1 /\ (d > Today => beats'[d] = 0)
      OBVIOUS
    <3>1. CASE Beat \in unsaved
      BY <1>2, <1>4, <2>1, <3>1
    <3>2. CASE Beat \notin unsaved
      BY <1>4, <2>1, <3>2
    <3> QED
      BY <3>1, <3>2
  <2>4. lastDay'[Beat] = Today' <=> \E s \in sidecar' : s.day[Beat] = Today'
    <3>1. CASE sidecar = {}
      <4>1. lastDay' = NoDays
        BY <1>10, <3>1 DEF Start
      <4>2. lastDay'[Beat] = 0 /\ Today # 0
        BY <1>1, <1>3, <4>1 DEF NoDays, Calendar
      <4> QED
        BY <2>1, <3>1, <4>2
    <3>2. CASE sidecar # {}
      <4>1. PICK s \in sidecar : sidecar = {s}
        BY <3>2 DEF StoresOK
      <4>2. (CHOOSE r \in sidecar : TRUE) = s
        BY <4>1
      <4>3. lastDay' = s.day
        BY <1>10, <3>2, <4>2 DEF Start
      <4> QED
        BY <2>1, <4>1, <4>3
    <3> QED
      BY <3>1, <3>2
  <2>5. beats'[Today] > 0 => \E s \in sidecar : s.day[Beat] = Today
    <3>1. CASE Beat \in unsaved
      BY <1>1, <1>2, <2>1, <3>1
    <3>2. CASE Beat \notin unsaved
      BY <1>4, <2>1, <3>2
    <3> QED
      BY <3>1, <3>2
  <2> QED
    BY <2>1, <2>2, <2>3, <2>4, <2>5
<1>11. CASE Write
  <2>1. Today' = Today /\ UNCHANGED <<beats, lastDay>> /\ pc = "write" /\ pc' = then /\ then' = then
    BY <1>1, <1>11 DEF Write, clock, state
  <2>2. Pending("tell")' => Pending("tell")
    BY <2>1 DEF Pending, TypeOK
  <2>3. CASE sidecar' = {[last |-> last, day |-> lastDay]}
    <3>1. \E s \in sidecar' : s.day[Beat] = lastDay[Beat]
      BY <2>3
    <3> QED
      BY <1>4, <2>1, <2>2, <3>1
  <2>4. CASE UNCHANGED <<sidecar, unsaved>>
    BY <1>4, <2>1, <2>2, <2>4
  <2> QED
    BY <1>11, <2>3, <2>4 DEF Write
<1>12. CASE HourlyCheck
  <2>1. Today' = Today /\ UNCHANGED <<beats, lastDay, sidecar>> /\ unsaved' = unsaved \cup Chosen
    BY <1>1, <1>12, CheckTimes DEF HourlyCheck, Attempt, clock, files
  <2>2. ~Pending("tell")' /\ Beat \notin Chosen
    BY <1>12, ChosenOne, JobsAndDaily DEF HourlyCheck, Pending
  <2> QED
    BY <1>4, <2>1, <2>2
<1>13. CASE /\ UNCHANGED <<now, beats, lastDay, unsaved, sidecar>>
            /\ Pending("tell")' => Pending("tell")
  BY <1>1, <1>4, <1>13
<1>14. \/ Tick \/ Tell \/ Heartbeat \/ DailyReboot \/ Start \/ Write \/ HourlyCheck
       \/ UNCHANGED <<now, beats, lastDay, unsaved, sidecar>>
  BY WhoChanges
<1>15. Tick \/ Tell \/ Heartbeat \/ DailyReboot \/ Start \/ Write \/ HourlyCheck \/ (Pending("tell")' => Pending("tell"))
  BY DEF Pending, Next, Loop, Top, NotYet, Copy, Reset, Crash, BeginSave, EndSave, vars
<1> QED
  BY <1>6, <1>7, <1>8, <1>9, <1>10, <1>11, <1>12, <1>13, <1>14, <1>15

LEMMA StepRebootMarked ==
  ASSUME TypeOK, StoresOK, RebootMarked, [Next]_vars
  PROVE  RebootMarked'
<1>1. /\ Today \in Calendar /\ Calendar' = Calendar /\ Today \in Nat /\ Today' \in Calendar /\ Today' \in Nat
      /\ Today <= Today' /\ now \in Nat /\ Calendar \subseteq Nat /\ reboots \in [Calendar -> Nat]
      /\ (now' = now => Today' = Today)
  BY StepClock DEF StoresOK, Calendar, Today, DayOf
<1>2. /\ now = Today * DayHours + HourOf(now) /\ HourOf(now) \in Nat /\ started \in Nat /\ started <= now
      /\ DayHours \in Nat /\ RebootHour \in Nat /\ MinUptime \in Nat /\ MinUptime > 0
      /\ Today * DayHours + RebootHour \in Nat
  <2>1. now = Today * DayHours + HourOf(now) /\ HourOf(now) \in Nat /\ DayHours \in Nat
    BY <1>1, DaysGoBy, SchedulerAssumption DEF Today
  <2>2. Today * DayHours \in Nat
    BY <1>1, <2>1
  <2> QED
    BY <2>1, <2>2, SchedulerAssumption DEF TypeOK
<1> DEFINE Marked(r, day) ==
             /\ \A d \in Calendar : r[d] <= 1
             /\ \A d \in Calendar : d > day => r[d] = 0
           Up(s, day) == s >= day * DayHours + RebootHour
           Hour == HourOf(now) = RebootHour /\ now - started >= MinUptime
<1>3. Marked(reboots, Today) /\ (reboots[Today] > 0 => Up(started, Today)) /\ (Pending("reset") => Hour)
  BY DEF RebootMarked, OneRebootADay
<1>4. SUFFICES /\ Marked(reboots', Today') /\ (reboots'[Today'] > 0 => Up(started', Today'))
               /\ Pending("reset")' => HourOf(now') = RebootHour /\ now' - started' >= MinUptime
  BY <1>1 DEF RebootMarked, OneRebootADay, Today, HourOf, DayOf
<1>5. CASE Tick
  <2>1. UNCHANGED <<reboots, started>> /\ ~Pending("reset")'
    BY <1>5 DEF Tick, Pending, ghosts
  <2>2. CASE Today' = Today
    BY <1>3, <2>1, <2>2
  <2>3. CASE Today' > Today
    <3>1. reboots'[Today'] = 0 /\ \A d \in Calendar : d > Today' => d > Today
      BY <1>1, <1>3, <2>1, <2>3
    <3> QED
      BY <1>3, <2>1, <3>1
  <2> QED
    BY <1>1, <2>2, <2>3
<1>6. CASE Reset
  <2>1. /\ reboots' = [reboots EXCEPT ![Today] = @ + 1] /\ started' = now /\ now' = now /\ Today' = Today
        /\ Pending("reset") /\ ~Pending("reset")'
    BY <1>1, <1>6 DEF Reset, Start, Pending, Today
  <2>2. Hour
    BY <1>3, <2>1
  <2>3. ~Up(started, Today) /\ Up(started', Today)
    BY <1>2, <2>1, <2>2
  <2>4. reboots[Today] = 0
    BY <1>1, <1>3, <2>3
  <2>5. \A d \in Calendar : reboots'[d] <= 1 /\ (d > Today => reboots'[d] = 0)
    <3> SUFFICES ASSUME NEW d \in Calendar PROVE reboots'[d] <= 1 /\ (d > Today => reboots'[d] = 0)
      OBVIOUS
    <3>1. CASE d = Today
      BY <1>1, <2>1, <2>4, <3>1
    <3>2. CASE d # Today
      BY <1>1, <1>3, <2>1, <3>2
    <3> QED
      BY <3>1, <3>2
  <2> QED
    BY <2>1, <2>3, <2>5
<1>7. CASE Crash
  <2>1. reboots' = reboots /\ started' = now /\ Today' = Today /\ ~Pending("reset")'
    BY <1>1, <1>7 DEF Crash, Start, Pending
  <2>2. Up(started, Today) => Up(started', Today)
    <3>1. \A n \in Nat : started >= n => started' >= n
      BY <1>1, <1>2, <2>1
    <3> QED
      BY <1>2, <3>1
  <2> QED
    BY <1>3, <2>1, <2>2
<1>8. CASE DailyReboot
  <2>1. now' = now /\ Today' = Today /\ UNCHANGED <<reboots, started>>
    BY <1>1, <1>8 DEF DailyReboot, ghosts
  <2>2. Pending("reset")' => Hour
    <3>1. PICK idle \in BOOLEAN : RebootDue(idle) \/ pc' = "top"
      BY <1>8 DEF DailyReboot, Skip
    <3> QED
      BY <3>1 DEF Pending, RebootDue, DailyDue
  <2> QED
    BY <1>3, <2>1, <2>2
<1>9. CASE UNCHANGED <<now, reboots, started>> /\ (Pending("reset")' => Pending("reset"))
  BY <1>1, <1>3, <1>9
<1>10. Tick \/ Reset \/ Crash \/ UNCHANGED <<now, reboots, started>>
  BY DEF Next, Loop, Top, NotYet, HourlyCheck, Copy, Write, Heartbeat, Mark, Skip, Tell, DailyReboot, BeginSave,
         EndSave, vars, clock, ghosts
<1>11. Tick \/ Reset \/ Crash \/ DailyReboot \/ (Pending("reset")' => Pending("reset"))
  BY DEF TypeOK, Pending, Next, Loop, Top, NotYet, HourlyCheck, Copy, Write, Heartbeat, Mark, Skip, Tell,
         BeginSave, EndSave, vars
<1> QED
  BY <1>5, <1>6, <1>7, <1>8, <1>9, <1>10, <1>11

\* A set with one more element than another that it contains has more of them.
LEMMA OneMore ==
  ASSUME NEW S, NEW T, IsFiniteSet(T), S \subseteq T, NEW c, c \in T, c \notin S
  PROVE  Cardinality(S) \in Nat /\ Cardinality(T) \in Nat /\ Cardinality(S) + 1 <= Cardinality(T)
<1>1. IsFiniteSet(S) /\ Cardinality(S) \in Nat /\ Cardinality(T) \in Nat
  BY FS_Subset, FS_CardinalityType
<1>2. S \cup {c} \subseteq T /\ Cardinality(S \cup {c}) = Cardinality(S) + 1
  BY <1>1, FS_AddElement
<1>3. Cardinality(S \cup {c}) <= Cardinality(T)
  BY <1>2, FS_Subset
<1> QED
  BY <1>1, <1>2, <1>3

\* A task is never itself among those ahead of it.
LEMMA AheadOfIt ==
  ASSUME NEW t \in Tasks
  PROVE  /\ IsFiniteSet(Ahead(t)) /\ Cardinality(Ahead(t)) \in Nat /\ Cardinality(Jobs) \in Nat
         /\ Cardinality(Ahead(t)) + 1 <= Cardinality(Jobs)
<1>1. IsFiniteSet(Jobs) /\ Ahead(t) \subseteq Jobs /\ t \in Jobs /\ t \notin Ahead(t)
  BY JobsAndDaily DEF Ahead
<1> QED
  BY <1>1, OneMore, FS_Subset

\* The job that is served was not ahead of a task that waits: it was not served
\* within the hours that the task has waited.
LEMMA StepWaitCounted ==
  ASSUME TypeOK, StoresOK, TimesTell, HourlyRounds, WaitCounted, [Next]_vars
  PROVE  WaitCounted'
<1> DEFINE Served(r, u, j) == IF j = Keepalive THEN r[j] ELSE u[j]
<1>1. SUFFICES ASSUME NEW t \in Tasks, Cardinality(Jobs) + kaFails'[t] <= DayHours
               PROVE  waited'[t] <= Cardinality(Ahead(t)') + kaFails'[t]
  BY DEF WaitCounted
<1>2. /\ now \in Nat /\ \A j \in Jobs : /\ waited[j] \in Nat /\ ran[j] \in 0 .. now /\ tried[j] \in 0 .. now
                                        /\ last[j] \in 0 .. now
      /\ kaFails[t] \in Nat /\ checkAt \in Nat /\ t \in Jobs /\ DayHours \in Nat
  BY TimesTyped, JobsAndDaily, SchedulerAssumption DEF StoresOK, TypeOK
<1>3. PICK S : S = Ahead(t)
  OBVIOUS
<1>4. PICK T : T = Ahead(t)'
  OBVIOUS
<1>5. \A j : j \in S <=> j \in Jobs \ {t} /\ Served(ran, tried, j) + waited[t] >= checkAt
  BY <1>3 DEF Ahead, ServedAt
<1>6. \A j : j \in T <=> j \in Jobs \ {t} /\ Served(ran', tried', j) + waited'[t] >= checkAt'
  BY <1>4 DEF Ahead, ServedAt
<1>7. IsFiniteSet(T) /\ Cardinality(T) \in Nat /\ Cardinality(S) \in Nat /\ Cardinality(Jobs) \in Nat
      /\ Cardinality(S) + 1 <= Cardinality(Jobs)
  BY <1>3, <1>6, AheadOfIt, JobsAndDaily, FS_Subset, FS_CardinalityType
<1> HIDE DEF Served
<1>8. CASE UNCHANGED <<last, ran, tried, waited, kaFails, checkAt>>
  <2>1. T = S
    BY <1>5, <1>6, <1>8
  <2> QED
    BY <1>1, <1>3, <1>4, <1>8, <2>1 DEF WaitCounted
<1>9. CASE Start
  <2>1. waited'[t] = 0 /\ kaFails'[t] = 0
    BY <1>2, <1>9 DEF Start, Never
  <2> QED
    BY <1>4, <1>7, <2>1
<1>10. CASE HourlyCheck
  <2>1. now = checkAt /\ checkAt' = now + 1
    BY <1>2, <1>10 DEF HourlyCheck, HourlyRounds
  <2>2. kaFails'[t] \in Nat /\ waited'[t] \in Nat
    BY <1>2, <1>10, CheckTimes
  <2>3. CASE ~Due(t) \/ t \in Chosen
    <3>1. waited'[t] = 0
      BY <1>2, <1>10, <2>3, CheckTimes
    <3> QED
      BY <1>4, <1>7, <2>2, <3>1
  <2>4. CASE Due(t) /\ t \notin Chosen
    <3>1. PICK c \in Jobs : Chosen = {c} /\ Due(c) /\ c # t
      BY <1>2, <2>4, ChosenOne
    <3>2. waited'[t] = waited[t] + 1 /\ waited'[t] > 0
      BY <1>2, <1>10, <2>4, CheckTimes
    <3>3. kaFails'[t] \in {kaFails[t], kaFails[t] + 1}
      BY <1>2, <1>10, <3>2, CheckTimes
    <3>4. waited[t] <= Cardinality(S) + kaFails[t]
      BY <1>1, <1>2, <1>3, <1>7, <2>2, <3>3 DEF WaitCounted
    <3>5. waited[t] < DayHours
      BY <1>1, <1>2, <1>7, <2>2, <3>4, <3>3
    <3>6. \A j \in Jobs : Served(ran, tried, j) \in 0 .. now
      BY <1>2 DEF Served
    <3>7. \A j \in Jobs \ {c} : Served(ran', tried', j) = Served(ran, tried, j)
      BY <1>10, <3>1, CheckTimes DEF Served
    <3>8. c \notin S
      <4>1. Slack(c) \in Nat /\ now - last[c] >= Slack(c) + DayHours
        BY <3>1, Intervals DEF Due, IntervalDue, Interval
      <4>2. Served(ran, tried, c) <= last[c] + Slack(c)
        BY <1>2, <4>1 DEF TimesTell, Tells, Served, Slack
      <4> QED
        BY <1>2, <1>5, <2>1, <3>5, <3>6, <4>1, <4>2
    <3>9. S \subseteq T
      BY <1>2, <1>5, <1>6, <2>1, <3>2, <3>6, <3>7, <3>8
    <3>10. CASE Served(ran', tried', c) = now
      <4>1. c \in T
        BY <1>2, <1>6, <2>1, <3>1, <3>2, <3>10
      <4>2. Cardinality(S) + 1 <= Cardinality(T)
        BY <1>7, <3>8, <3>9, <4>1, OneMore
      <4> QED
        BY <1>2, <1>4, <1>7, <2>2, <3>2, <3>4, <3>3, <4>2
    <3>11. CASE c = Keepalive /\ kaFails'[t] = kaFails[t] + 1
      <4>1. Cardinality(S) <= Cardinality(T)
        BY <1>7, <3>9, FS_Subset
      <4> QED
        BY <1>2, <1>4, <1>7, <3>2, <3>4, <3>11, <4>1
    <3>12. c # Keepalive => Served(ran', tried', c) = now
      BY <1>10, <3>1, CheckTimes DEF Served
    <3>13. c = Keepalive => Served(ran', tried', c) = now \/ kaFails'[t] = kaFails[t] + 1
      BY <1>2, <1>10, <3>1, <3>2, CheckTimes DEF Served
    <3> QED
      BY <3>10, <3>11, <3>12, <3>13
  <2> QED
    BY <2>3, <2>4
<1> QED
  BY <1>8, <1>9, <1>10, WhoChanges

-----------------------------------------------------------------------------
(* The invariant and what follows from it.                                 *)

LEMMA InitSound == Init => SchedulerInv
<1> SUFFICES ASSUME Init PROVE SchedulerInv
  OBVIOUS
<1>1. /\ now = 3 * DayHours /\ now \in Nat /\ now <= 3 * DayHours + MaxHours /\ DayHours \in Nat /\ DayHours > 0
      /\ 3 * DayHours + MaxHours \in Nat
  BY SchedulerAssumption DEF Init
<1>2. Today = 3 /\ DayOf(now) = 3 /\ 3 \in Calendar /\ Calendar \subseteq Nat
  BY <1>1, DaysGoBy DEF Today, Calendar
<1>3. last \in [Jobs -> 0 .. now]
  BY <1>1 DEF Init, Never, TwoDaysAgo
<1>4. lastDay = NoDays /\ NoDays \in [Daily -> 0 .. 3]
  BY DEF Init, NoDays
<1>5. on \subseteq Jobs \cup Daily
  BY DEF Init
<1>6. Cardinality({}) = 0
  BY FS_EmptySet
<1>7. TypeOK
  <2>1. \A l \in {last, cfgLast, conf.last, ran, tried} : l \in [Jobs -> 0 .. now]
    BY <1>3 DEF Init
  <2>2. {on, loopOn, conf.on} \subseteq SUBSET (Jobs \cup Daily)
    BY <1>5 DEF Init
  <2>3. lastDay \in [Daily -> 0 .. DayOf(now)]
    BY <1>2, <1>4
  <2>4. rounded \in BOOLEAN
    BY Zenon DEF Init
  <2>5. Cardinality(sidecar) <= 1 /\ Cardinality(web) <= 1
    BY <1>6 DEF Init
  <2>6. now \in 0 .. 3 * DayHours + MaxHours /\ checkAt \in 0 .. now + 1 /\ started \in 0 .. now
    BY <1>1 DEF Init
  <2>7. pc = "top" /\ then = "beat"
    BY DEF Init
  <2> QED
    BY <2>1, <2>2, <2>3, <2>4, <2>5, <2>6, <2>7 DEF TypeOK
<1>8. StoresOK
  <2>1. Never \in [Jobs -> Nat] /\ waited = Never /\ kaFails = Never
    BY DEF Init, Never
  <2> QED
    BY <1>1, <1>2, <1>3, <1>5, <2>1 DEF Init, StoresOK
<1>9. Restored = last
  BY DEF Init, Restored
<1>10. TimesInOrder
  BY <1>1, <1>3 DEF Init, TimesInOrder
<1>11. TimesTell
  <2>1. \A j \in Jobs : last[j] \in Nat /\ Slack(j) \in Nat
    BY <1>1, <1>3, Intervals
  <2>2. ran = last /\ tried = last
    BY DEF Init
  <2> QED
    BY <1>9, <2>1, <2>2 DEF TimesTell, Tells, Slack
<1>12. BeatMarked
  <2>1. Beat \in Daily /\ lastDay[Beat] = 0
    BY <1>4, JobsAndDaily DEF NoDays
  <2>2. beats = [d \in Calendar |-> 0] /\ ~Pending("tell")
    BY DEF Init, Pending
  <2> QED
    BY <1>2, <2>1, <2>2 DEF BeatMarked, OneBeatADay
<1>13. RebootMarked
  <2>1. reboots = [d \in Calendar |-> 0] /\ ~Pending("reset")
    BY DEF Init, Pending
  <2> QED
    BY <1>2, <2>1 DEF RebootMarked, OneRebootADay
<1>14. HourlyRounds
  BY <1>1 DEF Init, HourlyRounds
<1>15. WaitCounted
  <2> SUFFICES ASSUME NEW t \in Tasks PROVE waited[t] <= Cardinality(Ahead(t)) + kaFails[t]
    BY DEF WaitCounted
  <2>1. waited[t] = 0 /\ kaFails[t] = 0
    BY JobsAndDaily DEF Init, Never
  <2> QED
    BY <2>1, AheadOfIt
<1> QED
  BY <1>7, <1>8, <1>10, <1>11, <1>12, <1>13, <1>14, <1>15 DEF SchedulerInv

LEMMA StepSound == SchedulerInv /\ [Next]_vars => SchedulerInv'
<1> SUFFICES ASSUME SchedulerInv, [Next]_vars PROVE SchedulerInv'
  OBVIOUS
<1>1. TypeOK /\ StoresOK /\ TimesInOrder /\ TimesTell /\ BeatMarked /\ RebootMarked /\ HourlyRounds /\ WaitCounted
  BY DEF SchedulerInv
<1> QED
  BY <1>1, StepTyped, StepTimesInOrder, StepTimesTell, StepBeatMarked, StepRebootMarked, StepHourlyRounds,
     StepWaitCounted DEF SchedulerInv

LEMMA SchedulerKept == Spec => []SchedulerInv
BY InitSound, StepSound, PTL DEF Spec

LEMMA InvOncePerDay == SchedulerInv => OncePerDay
<1> SUFFICES ASSUME SchedulerInv, NEW t \in Tasks, Cardinality(Jobs) + kaFails[t] <= DayHours
             PROVE  waited[t] <= Cardinality(Jobs) - 1 + kaFails[t]
  BY DEF SchedulerInv, OncePerDay, BeatMarked, RebootMarked, TasksTakeTurns
<1>1. waited[t] <= Cardinality(Ahead(t)) + kaFails[t] /\ waited[t] \in Nat /\ kaFails[t] \in Nat
  BY JobsAndDaily DEF SchedulerInv, WaitCounted, StoresOK
<1> QED
  BY <1>1, AheadOfIt

\* One heartbeat and one restart a day, and no task waits for more than one
\* round of the others and the keep-alives that failed meanwhile, however the writes fail,
\* the service stops and the page saves: for any tasks, intervals and day.
THEOREM SchedulerOncePerDay == Spec => []OncePerDay
BY SchedulerKept, InvOncePerDay, PTL

-----------------------------------------------------------------------------
(* What no step may do.                                                    *)

LEMMA StepNotBack ==
  ASSUME SchedulerInv, [Next]_vars
  PROVE  \/ \A j \in Jobs : cfgLast'[j] >= cfgLast[j] /\ (behind \/ conf'.last[j] >= conf.last[j])
         \/ Start
<1>1. /\ \A j \in Jobs : /\ last[j] \in Nat /\ cfgLast[j] \in Nat /\ conf.last[j] \in Nat
                         /\ cfgLast[j] <= last[j] /\ (behind \/ conf.last[j] <= cfgLast[j])
  BY TimesTyped DEF SchedulerInv, TimesInOrder
<1>2. CASE Copy
  BY <1>1, <1>2 DEF Copy, files
<1>3. CASE EndSave
  <2>1. PICK s \in web : \/ conf' = Refreshed(s) /\ cfgLast' = Refreshed(s).last
                         \/ UNCHANGED <<conf, cfgLast>>
    BY <1>3 DEF EndSave, settings
  <2>2. Refreshed(s).last = cfgLast
    BY RefreshedTimes DEF SchedulerInv
  <2> QED
    BY <1>1, <2>1, <2>2
<1>4. CASE UNCHANGED <<cfgLast, conf>>
  BY <1>1, <1>4
<1>5. UNCHANGED <<cfgLast, conf>> \/ Copy \/ EndSave \/ Start
  BY WhoChanges
<1> QED
  BY <1>2, <1>3, <1>4, <1>5

\* No save of the page takes back a time that the loop has put into cfg, nor one
\* that the configuration file has, but for the save that makes a lost side-car
\* good.
THEOREM TimesNotRolledBack == Spec => NotRolledBack
<1>1. SchedulerInv /\ [Next]_vars =>
        [ \/ \A j \in Jobs : cfgLast'[j] >= cfgLast[j] /\ (behind \/ conf'.last[j] >= conf.last[j])
          \/ Start ]_vars
  BY StepNotBack
<1> QED
  BY <1>1, SchedulerKept, PTL DEF Spec, NotRolledBack

LEMMA StepSpaced ==
  ASSUME SchedulerInv, [Next]_vars, NEW j \in Jobs
  PROVE  /\ 0 < ran[j] /\ ran[j] < ran'[j] => ran'[j] - ran[j] >= Days[j] * DayHours
         /\ 0 < tried[j] /\ tried[j] < tried'[j] /\ j # Keepalive => tried'[j] - tried[j] >= DayHours
<1>1. /\ ran[j] \in Nat /\ tried[j] \in Nat /\ last[j] \in Nat /\ now \in Nat /\ Slack(j) \in Nat
      /\ DayHours \in Nat /\ Interval(j) = Slack(j) + DayHours /\ Interval(j) = Days[j] * DayHours
      /\ ran[j] <= last[j] /\ (j # Keepalive => tried[j] <= last[j] + Slack(j))
  BY TimesTyped, Intervals DEF SchedulerInv, TimesTell, Tells, Slack, Interval
<1>2. CASE UNCHANGED <<last, ran, tried, waited, kaFails, checkAt>>
  BY <1>1, <1>2
<1>3. CASE Start
  <2>1. ran'[j] \in {0, ran[j]} /\ tried'[j] \in {0, tried[j]}
    BY <1>3 DEF Start
  <2> QED
    BY <1>1, <2>1
<1>4. CASE HourlyCheck
  <2>1. CASE j \notin Chosen
    <3>1. ran'[j] = ran[j] /\ tried'[j] = tried[j]
      BY <1>4, <2>1, CheckTimes DEF SchedulerInv
    <3> QED
      BY <1>1, <3>1
  <2>2. CASE j \in Chosen
    <3>1. tried'[j] = now /\ ran'[j] \in {ran[j], now} /\ now - last[j] >= Interval(j)
      BY <1>4, <2>2, CheckTimes DEF SchedulerInv, Due, IntervalDue, Interval
    <3> QED
      BY <1>1, <3>1
  <2> QED
    BY <2>1, <2>2
<1> QED
  BY <1>2, <1>3, <1>4, WhoChanges

\* A job that succeeded keeps its interval, and a task that failed a day,
\* whatever is saved, lost and started again meanwhile.
THEOREM JobsAreSpaced == Spec => RunsSpaced
<1>1. SchedulerInv /\ [Next]_vars =>
        [ \A j \in Jobs :
            /\ 0 < ran[j] /\ ran[j] < ran'[j] => ran'[j] - ran[j] >= Days[j] * DayHours
            /\ 0 < tried[j] /\ tried[j] < tried'[j] /\ j # Keepalive => tried'[j] - tried[j] >= DayHours ]_vars
  BY StepSpaced
<1> QED
  BY <1>1, SchedulerKept, PTL DEF Spec, RunsSpaced
=============================================================================
