------------------------------ MODULE WebJobs ------------------------------
(***************************************************************************)
(* Who uses the modem on behalf of the web page and of the scheduler of    *)
(* the ESP-IDF port (components/idf_web): four kinds of job with a task    *)
(* of their own, the task that applies changed SIM settings, and requests  *)
(* that send AT commands themselves.  Flags under s_cell_job_mutex keep    *)
(* them apart.  With them the list of eSIM profiles the page shows, and    *)
(* the restarts of the device, which wait for the flags or do not.         *)
(*                                                                         *)
(* Data abstraction: a list of profiles is fresh or stale, by whether the  *)
(* card was changed since it was read.  The server carries out one request *)
(* at a time.  The lock is held for moments only: to find it busy for      *)
(* 300 ms is possible, to wait for it succeeds.                            *)
(***************************************************************************)
EXTENDS Naturals, FiniteSets

CONSTANTS
  MaxRequests,  \* bounds of the model: requests that start something,
  MaxStarts,    \* jobs the scheduler starts,
  MaxRestarts   \* restarts

BoundsAreNat == {MaxRequests, MaxStarts, MaxRestarts} \subseteq Nat

Jobs == {"ping", "keepalive", "sched", "esim"}
Owners == Jobs \cup {"apply", "page"}

VARIABLES
  flag,     \* queued, running; s_modem_apply_running, s_web_modem_action_running
  at,       \* where the task or the request of each owner is
  waiting,  \* tasks that are to apply SIM settings
  page,     \* the server: [at, what, n], n commands are left or what it has read
  sched,    \* the scheduler: [at, what]
  op, got,  \* the eSIM job: its operation and the list it has read
  serial,   \* the number of this eSIM job
  outcome,  \* of the last eSIM job: [serial, is]
  cache,    \* s_esim_cache: [list, serial], by the job that wrote it
  leaving,  \* a restart was asked for on the page
  outside,  \* ghost: a list is stale, and not through an operation that succeeded
  since,    \* ghost: who began since the scheduler found the device idle
  requests, starts, restarts

esim == <<op, got, serial, outcome, cache>>
bounds == <<requests, starts, restarts>>
vars == <<flag, at, waiting, page, sched, esim, leaving, outside, since, bounds>>

Rest == [at |-> "rest", what |-> "", n |-> 0]
Tick == [at |-> "tick", what |-> ""]
NoOutcome == [serial |-> 0, is |-> "none"]

Init ==
  /\ flag = [o \in Owners |-> "free"] /\ at = [o \in Owners |-> "none"]
  /\ waiting = 0
  /\ page = Rest /\ sched = Tick
  /\ op = "none" /\ got = "none" /\ serial = 0
  /\ outcome = NoOutcome /\ cache = [list |-> "none", serial |-> 0]
  /\ leaving = FALSE /\ outside = FALSE /\ since = {}
  /\ requests = 0 /\ starts = 0 /\ restarts = 0

-----------------------------------------------------------------------------
(* The flags.                                                              *)

RunningOnly == \E o \in Owners : flag[o] = "running"   \* mutant
\* cellular_job_active_locked
Active == \E o \in Owners : flag[o] # "free"

\* The lock is taken in time and nobody uses the modem.
Claim(o, mark) ==
  /\ ~Active
  /\ flag' = [flag EXCEPT ![o] = mark]
  /\ since' = since \cup {o}

\* The card was changed: lists read before are stale.
Aged(list) == IF list = "fresh" THEN "stale" ELSE list
CardChanges(aside) ==
  /\ cache' = [cache EXCEPT !.list = Aged(@)]
  /\ outside' = (outside \/ aside)

-----------------------------------------------------------------------------
(* The jobs.                                                               *)

\* Whoever has claimed a slot creates the task, or writes that it could not.
\* ping is running from its claim on.
Mark(j) == IF j = "ping" THEN "running" ELSE "queued"
Created(j) == at' = [at EXCEPT ![j] = "made"] /\ UNCHANGED <<flag, outcome>>
NotCreated(j) ==
  /\ flag' = [flag EXCEPT ![j] = "free"]
  /\ outcome' = IF j = "esim" THEN [serial |-> serial, is |-> "failed"] ELSE outcome
  /\ UNCHANGED at

Request == requests < MaxRequests /\ requests' = requests + 1

\* handle_ping, handle_keepalive, handle_schedtask
StartJob(j) ==
  /\ page = Rest /\ Request /\ j # "esim"
  /\ Claim(j, Mark(j))
  /\ page' = [Rest EXCEPT !.at = "create", !.what = j]
  /\ UNCHANGED <<at, waiting, sched, esim, leaving, outside, starts, restarts>>

\* start_esim_job: what the page was told of the last job is forgotten.
Reset == NoOutcome
StartEsim(o) ==
  /\ page = Rest /\ Request
  /\ Claim("esim", "queued")
  /\ op' = o /\ got' = "none" /\ serial' = serial + 1 /\ outcome' = Reset
  /\ page' = [Rest EXCEPT !.at = "create", !.what = "esim"]
  /\ UNCHANGED <<at, waiting, sched, cache, leaving, outside, starts, restarts>>

Create ==
  /\ page.at = "create"
  /\ Created(page.what) \/ NotCreated(page.what)
  /\ page' = Rest
  /\ UNCHANGED <<waiting, sched, op, got, serial, cache, leaving, outside, since, bounds>>

\* The scheduler starts a job that is due; refused, it tries again later.
StartDue(j) ==
  /\ sched = Tick /\ j \in {"keepalive", "sched"}
  /\ starts < MaxStarts /\ starts' = starts + 1
  /\ Claim(j, Mark(j))
  /\ sched' = [at |-> "create", what |-> j]
  /\ UNCHANGED <<at, waiting, page, esim, leaving, outside, requests, restarts>>

CreateDue ==
  /\ sched.at = "create"
  /\ Created(sched.what) \/ NotCreated(sched.what)
  /\ sched' = Tick
  /\ UNCHANGED <<waiting, page, op, got, serial, cache, leaving, outside, since, bounds>>

\* The task starts; if it does not get the lock in time the job stays queued.
Begin(j) ==
  /\ at[j] = "made"
  /\ at' = [at EXCEPT ![j] = "works"]
  /\ \/ flag' = [flag EXCEPT ![j] = "running"]
     \/ UNCHANGED flag
  /\ UNCHANGED <<waiting, page, sched, esim, leaving, outside, since, bounds>>

\* A keep-alive or task may switch to another profile, and perhaps not back.
Work(j) ==
  /\ at[j] = "works" /\ j \in {"keepalive", "sched"}
  /\ at' = [at EXCEPT ![j] = "ends"]
  /\ \/ CardChanges(TRUE)
     \/ UNCHANGED <<cache, outside>>
  /\ UNCHANGED <<flag, waiting, page, sched, op, got, serial, outcome, leaving, since, bounds>>

TriesOnce(j) == {"free", flag[j]}   \* mutant: given up when the lock is busy
\* The last state of a job waits for the lock as long as it takes.
Freed(j) == {"free"}
End(j) ==
  /\ j # "esim" /\ at[j] = (IF j = "ping" THEN "works" ELSE "ends")
  /\ at' = [at EXCEPT ![j] = "none"]
  /\ \E f \in Freed(j) : flag' = [flag EXCEPT ![j] = f]
  /\ UNCHANGED <<waiting, page, sched, esim, leaving, outside, since, bounds>>

-----------------------------------------------------------------------------
(* The eSIM job: esim_task.                                                *)

EsimGoesTo(step) == at["esim"] = "works" /\ at' = [at EXCEPT !["esim"] = step]
ReadsList(step) == got' \in {"fresh", "none"} /\ at' = [at EXCEPT !["esim"] = step]

\* refresh: the list is read, or the job has failed.
Refresh ==
  /\ op = "refresh" /\ EsimGoesTo("ends")
  /\ got' \in {"fresh", "failed"}
  /\ UNCHANGED <<flag, waiting, page, sched, op, serial, outcome, cache, leaving, outside,
                 since, bounds>>

\* info: the EID alone.
Info ==
  /\ op = "info" /\ EsimGoesTo("ends")
  /\ got' \in {"eid", "failed"}
  /\ UNCHANGED <<flag, waiting, page, sched, op, serial, outcome, cache, leaving, outside,
                 since, bounds>>

\* enable, disable, delete, nickname, switch: done, then the list is read; or failed,
\* when the card may have been changed all the same.
Change ==
  /\ op = "change"
  /\ \/ EsimGoesTo("lists") /\ CardChanges(FALSE) /\ UNCHANGED got
     \/ /\ EsimGoesTo("ends") /\ got' = "failed"
        /\ CardChanges(TRUE) \/ UNCHANGED <<cache, outside>>
  /\ UNCHANGED <<flag, waiting, page, sched, op, serial, outcome, leaving, since, bounds>>

ListAgain ==
  /\ at["esim"] = "lists"
  /\ ReadsList("ends")
  /\ UNCHANGED <<flag, waiting, page, sched, op, serial, outcome, cache, leaving, outside,
                 since, bounds>>

\* A list that could not be read again after a change is not kept.
NewCache ==
  CASE got = "failed" -> cache
    [] got = "eid"    -> [cache EXCEPT !.serial = serial]
    [] OTHER          -> [list |-> got, serial |-> serial]

EndEsim ==
  /\ at["esim"] = "ends"
  /\ cache' = NewCache
  /\ outside' = (outside /\ got \in {"failed", "eid"})
  /\ outcome' = [serial |-> serial, is |-> IF got = "failed" THEN "failed" ELSE "done"]
  /\ flag' = [flag EXCEPT !["esim"] = "free"]
  /\ at' = [at EXCEPT !["esim"] = "none"]
  /\ op' = "none" /\ got' = "none"
  /\ UNCHANGED <<waiting, page, sched, serial, leaving, since, bounds>>

-----------------------------------------------------------------------------
(* The page.                                                               *)

\* handle_esim, status: first the state of the job is copied, then the cache.
ReadStatus ==
  /\ page = Rest
  /\ page' = [Rest EXCEPT !.at = "status",
                          !.n = IF outcome.is = "done" THEN outcome.serial ELSE 0]
  /\ UNCHANGED <<flag, at, waiting, sched, esim, leaving, outside, since, bounds>>
SendStatus ==
  /\ page.at = "status" /\ page' = Rest
  /\ UNCHANGED <<flag, at, waiting, sched, esim, leaving, outside, since, bounds>>

\* WebModemActionGuard::begin, refused as well while another command is under way.
BeginAction(what, n) ==
  /\ page = Rest /\ Request
  /\ Claim("page", "running")
  /\ at' = [at EXCEPT !["page"] = "works"]
  /\ page' = [at |-> "acts", what |-> what, n |-> n]
  /\ UNCHANGED <<waiting, sched, esim, leaving, outside, starts, restarts>>

\* handle_at, handle_netled: one command.
At == BeginAction("at", 1)
\* handle_flight: a query, and a change if one is wanted.
Flight == BeginAction("flight", 1) \/ BeginAction("flight", 2)
\* handle_modem_control: one or two queries, or a reset that is asked for only.
Control == \E n \in 0 .. 2 : BeginAction("control", n)
\* handle_ussd: one command with a late answer.
Ussd == BeginAction("ussd", 1)

\* A command is answered or times out.  The mode is not changed when it is unknown.
Command ==
  /\ page.at = "acts" /\ page.n > 0
  /\ page' = [page EXCEPT !.n = @ - 1]
  /\ UNCHANGED <<flag, at, waiting, sched, esim, leaving, outside, since, bounds>>
FlightUnknown ==
  /\ page.at = "acts" /\ page.what = "flight" /\ page.n = 2
  /\ page' = [page EXCEPT !.n = 0]
  /\ UNCHANGED <<flag, at, waiting, sched, esim, leaving, outside, since, bounds>>

\* ~WebModemActionGuard
EndAction ==
  /\ page.at = "acts" /\ page.n = 0
  /\ flag' = [flag EXCEPT !["page"] = "free"]
  /\ at' = [at EXCEPT !["page"] = "none"]
  /\ page' = Rest
  /\ UNCHANGED <<waiting, sched, esim, leaving, outside, since, bounds>>

\* Changed SIM settings are saved and a task is created to apply them.
SaveSim ==
  /\ page = Rest /\ Request
  /\ waiting' = waiting + 1
  /\ UNCHANGED <<flag, at, page, sched, esim, leaving, outside, since, starts, restarts>>

\* modem_apply_task: at once or not at all.
Apply ==
  /\ waiting > 0 /\ waiting' = waiting - 1
  /\ Claim("apply", "running")
  /\ at' = [at EXCEPT !["apply"] = "works"]
  /\ UNCHANGED <<page, sched, esim, leaving, outside, bounds>>
ApplyNotNow ==
  /\ waiting > 0 /\ waiting' = waiting - 1
  /\ UNCHANGED <<flag, at, page, sched, esim, leaving, outside, since, bounds>>
EndApply ==
  /\ at["apply"] = "works"
  /\ flag' = [flag EXCEPT !["apply"] = "free"]
  /\ at' = [at EXCEPT !["apply"] = "none"]
  /\ UNCHANGED <<waiting, page, sched, esim, leaving, outside, since, bounds>>

-----------------------------------------------------------------------------
(* Restarts.                                                               *)

BootState ==
  /\ restarts < MaxRestarts /\ restarts' = restarts + 1
  /\ flag' = [o \in Owners |-> "free"] /\ at' = [o \in Owners |-> "none"]
  /\ waiting' = 0 /\ page' = Rest /\ sched' = Tick
  /\ op' = "none" /\ got' = "none" /\ serial' = 0
  /\ outcome' = NoOutcome /\ cache' = [list |-> "none", serial |-> 0]
  /\ leaving' = FALSE /\ outside' = FALSE /\ since' = {}
  /\ UNCHANGED <<requests, starts>>

\* /reboot, a new firmware, a factory reset: 1.2 s later, whatever goes on.
AskRestart ==
  /\ page = Rest /\ Request
  /\ leaving' = TRUE
  /\ UNCHANGED <<flag, at, waiting, page, sched, esim, outside, since, starts, restarts>>
RestartAsked == leaving /\ BootState

\* The daily restart and the one for low memory: system_idle_for_maintenance, which
\* takes a lock it does not get for a job, then 300 ms to write the log.
Idle == ~Active
FoundIdle ==
  /\ sched = Tick /\ restarts < MaxRestarts
  /\ Idle
  /\ sched' = [Tick EXCEPT !.at = "leaves"]
  /\ since' = {}
  /\ UNCHANGED <<flag, at, waiting, page, esim, leaving, outside, bounds>>
RestartIdle == sched.at = "leaves" /\ BootState

JobSteps(j) == Begin(j) \/ Work(j) \/ End(j)
EsimSteps == Refresh \/ Info \/ Change \/ ListAgain \/ EndEsim
PageSteps == Create \/ SendStatus \/ Command \/ FlightUnknown \/ EndAction
ApplySteps == Apply \/ ApplyNotNow \/ EndApply

Next ==
  \/ \E j \in Jobs : StartJob(j) \/ StartDue(j) \/ JobSteps(j)
  \/ \E o \in {"refresh", "info", "change"} : StartEsim(o)
  \/ EsimSteps \/ PageSteps \/ ApplySteps \/ CreateDue
  \/ ReadStatus \/ At \/ Flight \/ Control \/ Ussd \/ SaveSim
  \/ AskRestart \/ RestartAsked \/ FoundIdle \/ RestartIdle

Spec == Init /\ [][Next]_vars

\* The tasks run and the modem answers or times out.
FairSpec ==
  /\ Spec
  /\ \A j \in Jobs : WF_vars(JobSteps(j))
  /\ WF_vars(EsimSteps) /\ WF_vars(PageSteps) /\ WF_vars(ApplySteps) /\ WF_vars(CreateDue)

-----------------------------------------------------------------------------
TypeOK ==
  /\ flag \in [Owners -> {"free", "queued", "running"}]
  /\ at \in [Owners -> {"none", "made", "works", "lists", "ends"}]
  /\ \A o \in Owners : at[o] # "none" => flag[o] # "free"
  /\ waiting \in 0 .. MaxRequests
  /\ page.at \in {"rest", "create", "status", "acts"} /\ page.n \in Nat
  /\ sched.at \in {"tick", "create", "leaves"}
  /\ op \in {"none", "refresh", "info", "change"}
  /\ got \in {"none", "fresh", "eid", "failed"}
  /\ cache.list \in {"none", "fresh", "stale"}
  /\ {leaving, outside} \subseteq BOOLEAN /\ since \subseteq Owners

\* At any time one owner at most sends its commands: a sequence of AT commands of a
\* job is not interrupted by another job, by SIM settings or by a request, between
\* the claim of a job and the start of its task neither (idf_web.cpp:692, 2167).
OneOwner == Cardinality({o \in Owners : at[o] # "none"}) <= 1

\* The list of profiles the page shows is the card's, unless a job that is not the
\* page's, or an operation that failed, changed the card.  A list that could not be
\* read after a change is not shown any more (idf_web.cpp:2283-2326).
ListIsTheCards == cache.list = "stale" => outside \/ at["esim"] \in {"lists", "ends"}

\* A status that reports an eSIM job as done comes with a list that is at least as
\* new as that job (idf_web.cpp:3257-3263).
StatusFitsList == [][SendStatus => page.n <= cache.serial]_vars

\* A restart of the scheduler cuts off only what began after it had found the device
\* idle; that window is open (idf_web.cpp:2763-2784, 3042-3049, 3128-3138).
RestartCutsNothing == [][RestartIdle => {o \in Owners : at[o] # "none"} \subseteq since]_vars

\* Who holds a flag has a step of its own to take, from its claim to the end: no error
\* path leaves a flag behind (idf_web.cpp:2320-2338, 2362-2395,
\* 2694-2706, 2733-2750).
GoesOn(o) ==
  \/ page.at = "create" /\ page.what = o
  \/ sched.at = "create" /\ sched.what = o
  \/ at[o] = "made" /\ o \in Jobs
  \/ at[o] = "works" /\ o \in Jobs \cup {"apply"}
  \/ at[o] = "works" /\ o = "page" /\ page.at = "acts"
  \/ at[o] = "lists" /\ o = "esim"
  \/ at[o] = "ends" /\ o \in {"keepalive", "sched", "esim"}
FlagsOwned ==
  \A o \in Owners : flag[o] # "free" => GoesOn(o) /\ (o = "esim" => op # "none")

\* Whoever uses the modem makes room again: no job stays active for ever and refuses
\* all others (idf_web.cpp:2416, 2694).
MakesRoom == \A o \in Owners : []<>(flag[o] = "free")

-----------------------------------------------------------------------------
(* What makes these inductive.                                             *)

Typed ==
  /\ TypeOK /\ waiting <= requests /\ {requests, starts, serial} \subseteq Nat
  /\ requests <= MaxRequests
  /\ page \in [at : {"rest", "create", "status", "acts"},
               what : Jobs \cup {"", "at", "flight", "control", "ussd"}, n : Nat]
  /\ sched \in [at : {"tick", "create", "leaves"}, what : {"", "keepalive", "sched"}]
  /\ outcome \in [serial : Nat, is : {"none", "failed", "done"}]
  /\ cache \in [list : {"none", "fresh", "stale"}, serial : Nat]

\* One flag is set at most, and whoever is about to create a task holds it.
OneFlag ==
  /\ \A o, p \in Owners : flag[o] # "free" /\ flag[p] # "free" => o = p
  /\ page.at = "create" =>
       page.what \in Jobs /\ flag[page.what] # "free" /\ at[page.what] = "none"
  /\ sched.at = "create" =>
       sched.what # "" /\ flag[sched.what] # "free" /\ at[sched.what] = "none"
  /\ ~(page.at = "create" /\ sched.at = "create")
  /\ sched.at = "leaves" => \A o \in Owners : flag[o] # "free" => o \in since

\* The list is as new as the last job that succeeded; a job that ends with a list that
\* was stale replaces it.
ListFollows ==
  /\ cache.serial <= serial
  /\ outcome.is = "done" => outcome.serial <= cache.serial
  /\ page.at = "status" => page.n <= cache.serial
  /\ cache.list = "stale" =>
       \/ outside \/ at["esim"] = "lists"
       \/ at["esim"] = "ends" /\ got \notin {"failed", "eid"}

JobsInv == Typed /\ OneFlag /\ ListFollows /\ FlagsOwned
=============================================================================
