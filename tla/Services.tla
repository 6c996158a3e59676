------------------------------ MODULE Services ------------------------------
(***************************************************************************)
(* The Wi-Fi manager and the jobs of the web server of the ESP-IDF port,   *)
(* and the forwarding worker and the intake of the Linux port, each for    *)
(* itself: a behaviour is one of the component that "runs" names, while    *)
(* the others stay as they are at first.                                   *)
(***************************************************************************)
EXTENDS LinuxPush, Integers, Sequences

CONSTANTS
  Running,                                                  \* the components a behaviour may be of
  Networks, StreakMax, SlowTicks, MaxQueue, MaxWifiEvents,  \* of WifiManager
  MaxRequests, MaxStarts, MaxRestarts,                      \* of WebJobs
  Plain, Parts, Orders, Resets, Garbled, MaxTrouble         \* of LinuxIntake

VARIABLES
  runs,  \* the component of this behaviour
  air, radio, conf, link, scanning, queue, ap, connected, streak, tick, provisioning, timer,
  watch, button, handler, web, dns, crossed, refused, late, wifiEvents,
  flag, at, waiting, page, sched, op, got, serial, outcome, cache, leaving, outside, since,
  requests, starts, restarts,
  coming, modem, batch, intakePc, cur, held, store, file, intakeQueue, smsBusy, resetPending,
  stale, again, done, wiped, gone, given, trouble

wifiVars ==
  <<air, radio, conf, link, scanning, queue, ap, connected, streak, tick, provisioning,
   timer, watch, button, handler, web, dns, crossed, refused, late, wifiEvents>>
jobsVars ==
  <<flag, at, waiting, page, sched, op, got, serial, outcome, cache, leaving, outside, since,
   requests, starts, restarts>>
intakeVars ==
  <<coming, modem, batch, intakePc, cur, held, store, file, intakeQueue, smsBusy, resetPending,
   stale, again, done, wiped, gone, given, trouble>>
sumVars == <<runs, wifiVars, jobsVars, intakeVars, vars>>

Wifi == INSTANCE WifiManager WITH MaxEvents <- MaxWifiEvents, events <- wifiEvents
Jobs == INSTANCE WebJobs
Intake == INSTANCE LinuxIntake WITH pc <- intakePc, queue <- intakeQueue

ASSUME RunningAssumption == Running \subseteq {"Wifi", "Jobs", "Push", "Intake"}
ASSUME WifiAssumption == Wifi!NoneIsNoNetwork /\ Wifi!LimitsPositive
ASSUME JobsAssumption == Jobs!BoundsAreNat
ASSUME IntakeAssumption == Intake!KindsApart /\ Intake!PartsExist

SumInit ==
  /\ runs \in Running
  /\ Wifi!Init
  /\ runs # "Wifi" => air = {} /\ conf = None
  /\ Jobs!Init
  /\ Intake!Init
  /\ Init
  /\ runs # "Push" => cfg = (CHOOSE c \in Configs : TRUE)

\* The others rest.
WifiAlone == runs = "Wifi" /\ UNCHANGED <<runs, jobsVars, intakeVars, vars>>
JobsAlone == runs = "Jobs" /\ UNCHANGED <<runs, wifiVars, intakeVars, vars>>
IntakeAlone == runs = "Intake" /\ UNCHANGED <<runs, wifiVars, jobsVars, vars>>
PushAlone == runs = "Push" /\ UNCHANGED <<runs, wifiVars, jobsVars, intakeVars>>

SumNext ==
  \/ WifiAlone /\ Wifi!Next
  \/ JobsAlone /\ Jobs!Next
  \/ IntakeAlone /\ Intake!Next
  \/ PushAlone /\ Next
SumSpec == SumInit /\ [][SumNext]_sumVars

WifiFairness ==
  /\ WF_wifiVars(runs = "Wifi" /\ (Wifi!Joins \/ Wifi!JoinFails))
  /\ WF_wifiVars(runs = "Wifi" /\ Wifi!EndScan)
  /\ WF_wifiVars(runs = "Wifi" /\ Wifi!Handle)
  /\ WF_wifiVars(runs = "Wifi" /\ Wifi!CloseTimer)
  /\ WF_wifiVars(runs = "Wifi" /\ Wifi!Watchdog)
  /\ WF_wifiVars(runs = "Wifi" /\ Wifi!Open)
  /\ WF_wifiVars(runs = "Wifi" /\ Wifi!ButtonOpens)
  /\ WF_wifiVars(runs = "Wifi" /\ Wifi!DnsLeaves)
  /\ WF_wifiVars(runs = "Wifi" /\ Wifi!DnsEnds)
  /\ WF_wifiVars(runs = "Wifi" /\ Wifi!SetCredentials)
JobsFairness ==
  /\ \A j \in Jobs!Jobs : WF_jobsVars(runs = "Jobs" /\ Jobs!JobSteps(j))
  /\ WF_jobsVars(runs = "Jobs" /\ Jobs!EsimSteps)
  /\ WF_jobsVars(runs = "Jobs" /\ Jobs!PageSteps)
  /\ WF_jobsVars(runs = "Jobs" /\ Jobs!ApplySteps)
  /\ WF_jobsVars(runs = "Jobs" /\ Jobs!CreateDue)
PushFairness ==
  /\ WF_vars(runs = "Push" /\ Worker)
  /\ WF_vars(runs = "Push" /\ Elapse)
  /\ \A t \in Threads : WF_vars(runs = "Push" /\ ClientStep(t))
IntakeFairness ==
  /\ WF_intakeVars(runs = "Intake" /\ Intake!Loop)
  /\ SF_intakeVars(runs = "Intake" /\ Intake!List)
  /\ SF_intakeVars(runs = "Intake" /\ Intake!Expire)
  /\ SF_intakeVars(runs = "Intake" /\ Intake!LookAt)
  /\ SF_intakeVars(runs = "Intake" /\ Intake!CarryOut)

\* With the fairness of the components that may run.
FairSumSpec == SumSpec /\ WifiFairness /\ JobsFairness /\ PushFairness
FairIntakeSpec == SumSpec /\ IntakeFairness

-----------------------------------------------------------------------------
\* Once the events are handled the flag of the Wi-Fi manager says whether the device
\* is connected; a hotspot it opened itself is about to be closed once it is; and no
\* hotspot is open without its DNS task (idf_wifi.cpp:313-370, 461-470).
FlagCurrent ==
  runs = "Wifi" =>
    Wifi!TypeOK /\ Wifi!FlagCurrent /\ Wifi!SomebodyCloses /\ Wifi!PortalUp

\* The device stays in reach: it joins a network that stays there, opens its hotspot
\* when it cannot, closes a hotspot it opened itself once it is connected, and answers
\* DNS while the hotspot is open (idf_wifi.cpp:313-459, 853-1061).
StaysInReach ==
  /\ Wifi!Reconnects /\ Wifi!AutoCloses /\ Wifi!PortalServed
  /\ []<>(runs # "Wifi") \/ Wifi!FallsBack

\* One sequence of AT commands at a time; the profile list that is shown is the
\* card's, and a job reported as done comes with its list; a restart of the scheduler
\* cuts off only what began after it had found the device idle
\* (idf_web.cpp:692-725, 2320-2338, 2763-2784, 3257-3263).
OneOwner ==
  /\ [](runs = "Jobs" =>
          Jobs!TypeOK /\ Jobs!OneOwner /\ Jobs!FlagsOwned /\ Jobs!ListIsTheCards)
  /\ Jobs!StatusFitsList /\ Jobs!RestartCutsNothing

\* Nobody who uses the modem refuses all others for ever (idf_web.cpp:2416, 2694).
JobsMakeRoom == Jobs!MakesRoom

\* A message that left the modem is on disk, but for parts that wait in the assembler,
\* writes that failed and a file that could not be read; a command of the administrator is carried out once, and once
\* more only for each time its message stayed in the modem; one of them waits at a
\* time; and the id of a deleted entry is not given out again
\* (main.cpp:1087-1112, 1273-1340, inbox.cpp:14-54).
IntakeSound ==
  runs = "Intake" =>
    /\ Intake!TypeOK /\ Intake!KeptOnDisk /\ Intake!ObeyedOnce /\ Intake!OneAtATime
    /\ Intake!IdsNotReused

\* Whatever fails a few times, everything that can be decoded is taken in
\* (main.cpp:1087-1112, 1273-1340).
TakenIn == Intake!TakenIn

\* What main.cpp:1182 tells of a state file that cannot be read.
UnreadableKept == Intake!UnreadableKept
=============================================================================
