--------------------------- MODULE LinuxScheduler ---------------------------
(***************************************************************************)
(* The periodic work of the Linux service (the lower half of the loop of   *)
(* ports/linux/src/main.cpp, core/scheduler): once an hour the keep-alive  *)
(* or else one due task is carried out, and in every round the daily       *)
(* heartbeat and the daily restart are considered.  What was done when is  *)
(* kept three times: in memory, in cfg, from where a settings save writes  *)
(* it into the configuration file, and in the side-car file.  Saves of the *)
(* web page run beside the loop, a write may fail and the service may stop *)
(* between any two steps.                                                  *)
(*                                                                         *)
(* Time is the wall clock in hours; it goes on only between two rounds,    *)
(* and an hour has at least one round.  0 stands for a time before         *)
(* VALID_EPOCH_MIN.  The settings are the set of what is switched on.      *)
(***************************************************************************)
EXTENDS Naturals, FiniteSets, FiniteSetsExt

CONSTANTS
  Tasks,        \* scheduledTasks, by number
  DayHours,     \* hours of a day
  BeatHour, RebootHour,
  Days,         \* intervalDays of each job
  MinUptime,    \* DAILY_REBOOT_MIN_UPTIME_SECONDS, in hours
  MaxOff,       \* bounds of the model: what is off at first,
  MaxHours,     \* hours of a behaviour,
  MaxFailures,  \* writes that fail,
  MaxCrashes,   \* unplanned stops,
  MaxSaves      \* settings saves

Keepalive == 0
Jobs == Tasks \cup {Keepalive}
\* The daily duties are numbered after the jobs.
Beat == Max(Jobs) + 1
Reboot == Max(Jobs) + 2
Daily == {Beat, Reboot}

ASSUME SchedulerAssumption ==
  /\ Tasks \subseteq Nat \ {0} /\ IsFiniteSet(Tasks)
  /\ DayHours \in Nat \ {0} /\ {BeatHour, RebootHour} \subseteq 0 .. DayHours - 1
  /\ Days \in [Jobs -> Nat \ {0}] /\ MinUptime \in Nat \ {0}
  /\ MaxHours \in Nat

Never == [j \in Jobs |-> 0]

VARIABLES
  now,      \* the wall clock
  rounded,  \* the loop has gone round in this hour
  pc, then, \* where the loop is, and where it goes on after the state is saved
  last,     \* scheduler_state: keepaliveLast, taskLast
  lastDay,  \* scheduler_state: heartbeatLastDay, rebootLastDay (+ 1, 0 is none)
  checkAt,  \* next_periodic_check
  started,  \* runtime.started
  on,       \* cfg.portable: what is switched on
  cfgLast,  \* cfg.portable: the lastRun fields
  loopOn,   \* loop_config
  conf,     \* the configuration file: [on, last]
  sidecar,  \* the state file: [last, day], in a set: {} before it is written
  web,      \* a save that has read the settings: [on, last], in a set
  ran,      \* ghost: when each job last succeeded, as far as it was saved
  tried,    \* ghost: when each job was last tried, as far as it was saved
  unsaved,  \* ghost: what was done since the side-car was written
  behind,   \* ghost: a start found the side-car older than the configuration file, and no save since
  waited,   \* ghost: how often a due task found another job carried out
  kaFails,  \* ghost: how many of those jobs were keep-alives that failed
  beats,    \* ghost: heartbeats of each day, without those whose mark was lost
  reboots,  \* ghost: daily restarts of each day
  failures, crashes, saves

files == <<conf, sidecar>>
state == <<last, lastDay>>
settings == <<on, cfgLast>>
runs == <<ran, tried, waited, kaFails>>
ghosts == <<runs, unsaved, behind, beats, reboots>>
bounds == <<failures, crashes, saves>>
clock == <<now, rounded>>
vars == <<clock, pc, then, state, checkAt, started, settings, loopOn, files, web, ghosts, bounds>>

DayOf(t) == t \div DayHours
HourOf(t) == t % DayHours
NoDays == [d \in Daily |-> 0]
Calendar == 3 .. DayOf(3 * DayHours + MaxHours)
TwoDaysAgo == [j \in Jobs |-> DayHours]

Init ==
  /\ now = 3 * DayHours /\ rounded = FALSE
  /\ pc = "top" /\ then = "beat"
  /\ last \in {Never, TwoDaysAgo} /\ lastDay = NoDays
  /\ checkAt = now /\ started = now
  /\ on \in {s \in SUBSET (Jobs \cup Daily) : Cardinality((Jobs \cup Daily) \ s) <= MaxOff}
  /\ cfgLast = last /\ loopOn = {}
  /\ conf = [on |-> on, last |-> last] /\ sidecar = {} /\ web = {}
  /\ ran = last /\ tried = last /\ unsaved = {} /\ behind = FALSE
  /\ waited = Never /\ kaFails = Never
  /\ beats = [d \in Calendar |-> 0] /\ reboots = [d \in Calendar |-> 0]
  /\ failures = 0 /\ crashes = 0 /\ saves = 0

Fails == failures < MaxFailures /\ failures' = failures + 1

-----------------------------------------------------------------------------
(* core/scheduler                                                          *)

\* epoch_valid, interval_due, evaluate_periodic
Overdue(j, t) == t - last[j] >= (Days[j] - 1) * DayHours   \* mutant
IntervalDue(j, t) == t - last[j] >= Days[j] * DayHours
Due(j) == j \in loopOn /\ last[j] > 0 /\ IntervalDue(j, now)
Baseless(j) == j \in loopOn /\ last[j] = 0

\* failure_retry_baseline: it is due again a day later
RetryBaseline(j, t) == t - (Days[j] - 1) * DayHours

\* daily_due
AnyDay(d, hour) == d \in loopOn /\ HourOf(now) = hour   \* mutant
DailyDue(d, hour) == d \in loopOn /\ HourOf(now) = hour /\ DayOf(now) > lastDay[d]

\* daily_reboot_due
RebootDue(idle) ==
  idle /\ now - started >= MinUptime /\ DailyDue(Reboot, RebootHour)

-----------------------------------------------------------------------------
(* The loop.                                                               *)

\* The settings of this round.
Top ==
  /\ pc = "top"
  /\ loopOn' = on /\ pc' = "check"
  /\ UNCHANGED <<clock, then, state, checkAt, started, settings, files, web, ghosts, bounds>>

NotYet ==
  /\ pc = "check" /\ now < checkAt
  /\ pc' = "beat"
  /\ UNCHANGED <<clock, then, state, checkAt, started, settings, loopOn, files, web, ghosts, bounds>>

\* The first that is due, in the order of the slots, unless it is the turn of
\* the keep-alive.
FirstOf(ts) == {t \in ts : \A u \in ts : t <= u}
Chosen == IF Due(Keepalive) THEN {Keepalive} ELSE FirstOf({t \in Tasks : Due(t)})
\* The jobs whose baseline is set on the way.
Baselined ==
  {j \in Jobs : Baseless(j) /\ Chosen # {Keepalive} /\ \A c \in Chosen : j < c}
    \cup {j \in {Keepalive} : Baseless(j)}

\* A keep-alive without a profile that fails leaves its time as it is; a task
\* is set back, and so is a keep-alive with one, left out here.
After(j, ok) ==
  IF ok THEN now ELSE IF j = Keepalive THEN last[j] ELSE RetryBaseline(j, now)

Attempt(ok) ==
  /\ last' = [j \in Jobs |-> IF j \in Chosen THEN After(j, ok)
                             ELSE IF j \in Baselined THEN now ELSE last[j]]
  /\ ran' = [j \in Jobs |-> IF j \in Chosen /\ ok THEN now ELSE ran[j]]
  /\ tried' = [j \in Jobs |-> IF j \in Chosen THEN now ELSE tried[j]]
  /\ waited' = [j \in Jobs |-> IF Due(j) /\ j \notin Chosen THEN waited[j] + 1 ELSE 0]
  /\ kaFails' = [j \in Jobs |-> IF waited'[j] = 0 THEN 0
                                ELSE IF Keepalive \in Chosen /\ ~ok THEN kaFails[j] + 1 ELSE kaFails[j]]
  /\ unsaved' = unsaved \cup Chosen

HourlyCheck ==
  /\ pc = "check" /\ now >= checkAt
  /\ checkAt' = now + 1
  /\ \E ok \in (IF Chosen = {} THEN {TRUE} ELSE BOOLEAN) : Attempt(ok)
  /\ IF last' # last THEN pc' = "copy" /\ then' = "beat" ELSE pc' = "beat" /\ UNCHANGED then
  /\ UNCHANGED <<clock, lastDay, started, settings, loopOn, files, web, behind, beats, reboots,
                 bounds>>

\* persist_scheduler_state: cfg follows under config_mutex, ...
Copy ==
  /\ pc = "copy" /\ pc' = "write"
  /\ cfgLast' = last
  /\ UNCHANGED <<clock, then, state, checkAt, started, on, loopOn, files, web, ghosts, bounds>>

\* ... then the side-car is replaced, or stays as it was.
Write ==
  /\ pc = "write" /\ pc' = then
  /\ \/ sidecar' = {[last |-> last, day |-> lastDay]} /\ unsaved' = {} /\ UNCHANGED failures
     \/ Fails /\ UNCHANGED <<sidecar, unsaved>>
  /\ UNCHANGED <<clock, then, state, checkAt, started, settings, loopOn, conf, web, runs, behind, beats,
                 reboots, crashes, saves>>

\* A daily duty is marked, saved and then done.
Mark(d, next) ==
  /\ lastDay' = [lastDay EXCEPT ![d] = DayOf(now)]
  /\ unsaved' = unsaved \cup {d}
  /\ pc' = "copy" /\ then' = next
  /\ UNCHANGED rounded
Skip(next) == pc' = next /\ UNCHANGED <<lastDay, unsaved, then>>

Heartbeat ==
  /\ pc = "beat"
  /\ IF DailyDue(Beat, BeatHour) THEN Mark(Beat, "tell") ELSE Skip("reboot") /\ UNCHANGED rounded
  /\ UNCHANGED <<now, last, checkAt, started, settings, loopOn, files, web, runs, behind, beats, reboots,
                 bounds>>

Tell ==
  /\ pc = "tell" /\ pc' = "reboot"
  /\ beats' = [beats EXCEPT ![DayOf(now)] = @ + 1]
  /\ UNCHANGED <<clock, then, state, checkAt, started, settings, loopOn, files, web, runs, unsaved, behind,
                 reboots, bounds>>

DailyReboot ==
  /\ pc = "reboot"
  /\ \E idle \in BOOLEAN :
       IF RebootDue(idle) THEN Mark(Reboot, "reset") ELSE Skip("top") /\ rounded' = TRUE
  /\ UNCHANGED <<now, last, checkAt, started, settings, loopOn, files, web, runs, behind, beats, reboots,
                 bounds>>

-----------------------------------------------------------------------------
(* Stop and start: load_config, load_scheduler_state.                      *)

Restored == IF sidecar = {} THEN conf.last ELSE (CHOOSE s \in sidecar : TRUE).last
Start ==
  /\ last' = Restored /\ cfgLast' = Restored
  /\ lastDay' = IF sidecar = {} THEN NoDays ELSE (CHOOSE s \in sidecar : TRUE).day
  /\ on' = conf.on
  /\ pc' = "top" /\ then' = "beat" /\ rounded' = FALSE
  /\ checkAt' = now /\ started' = now /\ web' = {} /\ loopOn' = {}
  /\ ran' = [j \in Jobs |-> IF j \in unsaved THEN 0 ELSE ran[j]]
  /\ tried' = [j \in Jobs |-> IF j \in unsaved THEN 0 ELSE tried[j]]
  /\ waited' = Never /\ kaFails' = Never /\ unsaved' = {}
  /\ behind' = (\E j \in Jobs : Restored[j] < conf.last[j])
  /\ beats' = IF Beat \in unsaved THEN [beats EXCEPT ![DayOf(now)] = 0] ELSE beats
  /\ UNCHANGED <<now, files>>

\* The modem is reset and the service manager starts the service again.
Reset ==
  /\ pc = "reset"
  /\ reboots' = [reboots EXCEPT ![DayOf(now)] = @ + 1]
  /\ Start /\ UNCHANGED bounds

Crash ==
  /\ crashes < MaxCrashes /\ crashes' = crashes + 1
  /\ Start /\ UNCHANGED <<reboots, failures, saves>>

Tick ==
  /\ pc = "top" /\ rounded /\ now < 3 * DayHours + MaxHours
  /\ now' = now + 1 /\ rounded' = FALSE
  /\ UNCHANGED <<pc, then, state, checkAt, started, settings, loopOn, files, web, ghosts, bounds>>

-----------------------------------------------------------------------------
(* A settings save of the page: /save and /import.                         *)

\* It reads the settings and changes some.
BeginSave ==
  /\ saves < MaxSaves /\ saves' = saves + 1
  /\ web = {}
  /\ \E j \in Jobs \cup Daily :
       web' = {[on |-> IF j \in on THEN on \ {j} ELSE on \cup {j}, last |-> cfgLast]}
  /\ UNCHANGED <<clock, pc, then, state, checkAt, started, settings, loopOn, files, ghosts, failures, crashes>>

\* persist_and_apply_config: the times of the moment, not those it has read
SaveAsRead(s) == s   \* mutant
Refreshed(s) == [s EXCEPT !.last = cfgLast]
EndSave ==
  /\ web # {} /\ web' = {}
  /\ \E s \in web :
       \/ conf' = Refreshed(s) /\ on' = s.on /\ cfgLast' = Refreshed(s).last
          /\ behind' = FALSE /\ UNCHANGED failures
       \/ Fails /\ UNCHANGED <<conf, settings, behind>>
  /\ UNCHANGED <<clock, pc, then, state, checkAt, started, loopOn, sidecar, runs, unsaved, beats, reboots,
                 crashes, saves>>

Loop == Top \/ NotYet \/ HourlyCheck \/ Copy \/ Write \/ Heartbeat \/ Tell \/ DailyReboot \/ Reset
Next == Loop \/ Crash \/ Tick \/ BeginSave \/ EndSave

Spec == Init /\ [][Next]_vars

-----------------------------------------------------------------------------
TypeOK ==
  /\ now \in 0 .. 3 * DayHours + MaxHours /\ checkAt \in 0 .. now + 1 /\ started \in 0 .. now
  /\ pc \in {"top", "check", "copy", "write", "beat", "tell", "reboot", "reset"}
  /\ then \in {"beat", "tell", "reset"} /\ rounded \in BOOLEAN
  /\ \A l \in {last, cfgLast, conf.last, ran, tried} : l \in [Jobs -> 0 .. now]
  /\ lastDay \in [Daily -> 0 .. DayOf(now)]
  /\ {on, loopOn, conf.on} \subseteq SUBSET (Jobs \cup Daily)
  /\ Cardinality(sidecar) <= 1 /\ Cardinality(web) <= 1

\* "Never let a settings save roll those timestamps backwards" (main.cpp:1368):
\* however the save and the loop interleave, the time of a job goes back in cfg
\* only at a start, which may find the side-car behind; and in the configuration
\* file only at the first save after such a start, which makes that loss good
\* there too.
NotRolledBack ==
  [][ \/ \A j \in Jobs : cfgLast'[j] >= cfgLast[j] /\ (behind \/ conf'.last[j] >= conf.last[j])
      \/ Start ]_vars

\* A job that succeeded is not carried out again before its interval is over,
\* and a task that failed not before a day is: whatever is saved meanwhile and
\* however often the service starts again, unless it stopped before the
\* side-car had it.
RunsSpaced ==
  [][ \A j \in Jobs :
        /\ 0 < ran[j] /\ ran[j] < ran'[j] => ran'[j] - ran[j] >= Days[j] * DayHours
        /\ 0 < tried[j] /\ tried[j] < tried'[j] /\ j # Keepalive => tried'[j] - tried[j] >= DayHours ]_vars

\* One heartbeat a day, unless its mark was lost with a write and a stop.
OneBeatADay == \A d \in Calendar : beats[d] <= 1

\* One daily restart a day, even when its mark cannot be saved: the service is
\* not up long enough for a second one within the hour.
OneRebootADay == \A d \in Calendar : reboots[d] <= 1

\* One job is carried out an hour, so that a due task waits for the others
\* once each and for every keep-alive that fails meanwhile, as long as these
\* leave hours enough for all before they are due again.
TasksTakeTurns ==
  \A t \in Tasks :
    Cardinality(Jobs) + kaFails[t] <= DayHours => waited[t] <= Cardinality(Jobs) - 1 + kaFails[t]

OncePerDay == TypeOK /\ OneBeatADay /\ OneRebootADay /\ TasksTakeTurns

-----------------------------------------------------------------------------
(* What makes these inductive.                                             *)

Today == DayOf(now)

\* What is held in records, and counted.
StoresOK ==
  /\ conf \in [on : SUBSET (Jobs \cup Daily), last : [Jobs -> 0 .. now]]
  /\ sidecar \subseteq [last : [Jobs -> 0 .. now], day : [Daily -> 0 .. Today]]
  /\ web \subseteq [on : SUBSET (Jobs \cup Daily), last : [Jobs -> 0 .. now]]
  /\ sidecar # {} => \E s \in sidecar : sidecar = {s}
  /\ web # {} => \E s \in web : web = {s}
  /\ Today \in Calendar
  /\ behind \in BOOLEAN /\ {waited, kaFails} \subseteq [Jobs -> Nat]
  /\ beats \in [Calendar -> Nat] /\ reboots \in [Calendar -> Nat]

\* The loop is ahead of cfg, and cfg of the file, unless the start found the
\* side-car behind.
TimesInOrder ==
  /\ \A j \in Jobs : cfgLast[j] <= last[j]
  /\ behind \/ \A j \in Jobs : conf.last[j] <= cfgLast[j]
  /\ sidecar = {} => ~behind

\* A time tells when the job last succeeded, and bounds when a task was last
\* tried; so does the time the next start will find, for what has been saved.
Tells(l, j) == ran[j] <= l[j] /\ (j # Keepalive => tried[j] <= l[j] + (Days[j] - 1) * DayHours)
TimesTell ==
  /\ \A j \in Jobs : Tells(last, j)
  /\ \A j \in Jobs \ unsaved : Tells(Restored, j)

\* A duty that is marked and not yet done.
Pending(step) == pc = step \/ (pc \in {"copy", "write"} /\ then = step)

\* The heartbeat of today is marked before it is sent, and the mark of today is
\* in the side-car or else lost at the next start.
BeatMarked ==
  /\ OneBeatADay /\ \A d \in Calendar : d > Today => beats[d] = 0
  /\ Pending("tell") => lastDay[Beat] = Today /\ beats[Today] = 0
  /\ beats[Today] > 0 => lastDay[Beat] = Today
  /\ lastDay[Beat] = Today => Beat \in unsaved \/ \E s \in sidecar : s.day[Beat] = Today

\* After the restart of today the service has been up since that hour at most.
RebootMarked ==
  /\ OneRebootADay /\ \A d \in Calendar : d > Today => reboots[d] = 0
  /\ Pending("reset") => HourOf(now) = RebootHour /\ now - started >= MinUptime
  /\ reboots[Today] > 0 => started >= Today * DayHours + RebootHour

\* The hourly check comes once in every hour.
HourlyRounds ==
  /\ checkAt >= now
  /\ (pc \notin {"top", "check"} \/ rounded) => checkAt = now + 1

\* While a task waits, every check serves another job: none of them twice, but
\* for a keep-alive that fails.
ServedAt(j) == IF j = Keepalive THEN ran[j] ELSE tried[j]
Ahead(t) == {j \in Jobs \ {t} : ServedAt(j) + waited[t] >= checkAt}
WaitCounted ==
  \A t \in Tasks :
    Cardinality(Jobs) + kaFails[t] <= DayHours => waited[t] <= Cardinality(Ahead(t)) + kaFails[t]

SchedulerInv ==
  /\ TypeOK /\ StoresOK /\ TimesInOrder /\ TimesTell /\ BeatMarked /\ RebootMarked
  /\ HourlyRounds /\ WaitCounted
=============================================================================
