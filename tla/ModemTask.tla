----------------------------- MODULE ModemTask -----------------------------
(***************************************************************************)
(* The modem task of the ESP-IDF port (components/idf_modem): the start of *)
(* the modem, its resets and the set-up after them, registration, health   *)
(* probes, SIM hot-plug, the identity of the card and the data connection; *)
(* with the modem itself, a download over it, the eSIM worker, the web     *)
(* page's SIM settings and the storage check of the SMS task.              *)
(*                                                                         *)
(* Data abstraction: a command of the task succeeds when the modem answers *)
(* and no download holds the AT channel, save for a bounded number of      *)
(* glitches; one for the data connection may fail at any time.  The        *)
(* identity of a card (ICCID, IMSI, number, operator) is one value.        *)
(* Signal samples, APN, operator lock and the model that skips CGACT are   *)
(* left out.  A card is not swapped faster than the check, and settings    *)
(* are applied in the step that saves them, or not at all.                 *)
(***************************************************************************)
EXTENDS Naturals, FiniteSets

CONSTANTS
  Cards,        \* the SIM cards, or profiles of an eUICC
  None,         \* no card; no identity
  PollsMax,     \* registration polls at the start
  RetryMax,     \* MODEM_DATA_MODE_RETRY_MAX
  FailMax,      \* failed probes before a hard reset
  DeregMax,     \* probes without a network before a hard reset
  MaxEvents     \* bound of the model: resets asked for, hangs, moves, swaps, downloads,
                \* settings saved, commands that fail though the modem answers

ASSUME SomeCard == Cards # {}
ASSUME NoneIsNoCard == None \notin Cards
ASSUME LimitsPositive == {PollsMax, RetryMax, FailMax, DeregMax} \subseteq Nat \ {0}

VARIABLES
  mode,      \* the modem: "booting", "up" or "hung"
  pdp,       \* its data connection is active
  chosen,    \* its message storage has been chosen
  net,       \* its network: 0 none, 1 home, 5 roaming
  card,      \* the card it uses
  dataOn, roamingOn,  \* dataEnabled, roamingEnabled
  phase,     \* IdfModemStatus::phase
  stat,      \* IdfModemStatus::ceregStat
  ident,     \* the identity in IdfModemStatus
  request,   \* s_reset_request: 0 none, 1 soft, 2 hard
  sampling,  \* s_status_sample_requests > 0
  reinit,    \* s_reinit_pending
  pending,   \* s_sms_storage_pending
  retry,     \* attempts left of s_data_mode_retry_pending
  pc, back,  \* where the task is, and where it goes afterwards
  registered, post,  \* registered, post_register_done
  count,     \* registration polls, then health_fail_count
  dereg,     \* dereg_count
  seen,      \* sim_present: "unknown", "card" or "none"
  read,      \* the identity read and not yet written
  download,  \* "none", or what a download does with the connection at its end
  switching, \* the eSIM worker switched the card and did not yet say so
  raced,     \* ghost: the card changed while its identity was read
  untold,    \* ghost: a job switched the card and nothing was told
  unseen,    \* ghost: the modem reset itself
  unapplied, \* ghost: the last command to follow the settings failed and none is to come
  events

modem == <<mode, pdp, chosen, net, card>>
settings == <<dataOn, roamingOn>>
status == <<phase, stat, ident>>
flags == <<request, sampling, reinit, pending, retry>>
local == <<registered, post, count, dereg, seen, read>>
others == <<download, switching>>
ghosts == <<raced, untold, unseen, unapplied>>
vars == <<modem, settings, status, flags, pc, back, local, others, ghosts, events>>

Init ==
  /\ mode = "booting" /\ pdp = TRUE /\ chosen = FALSE /\ net = 0 /\ card = (CHOOSE c \in Cards : TRUE)
  /\ dataOn \in BOOLEAN /\ roamingOn \in {dataOn, FALSE}
  /\ phase = "powering" /\ stat = 0 /\ ident = None
  /\ request = 0 /\ sampling = FALSE /\ reinit = FALSE /\ pending = FALSE /\ retry = 0
  /\ pc = "shake" /\ back = "poll" /\ registered = FALSE /\ post = FALSE
  /\ count = 0 /\ dereg = 0 /\ seen = "unknown" /\ read = None
  /\ download = "none" /\ switching = FALSE
  /\ raced = FALSE /\ untold = FALSE /\ unseen = FALSE /\ unapplied = FALSE
  /\ events = 0

-----------------------------------------------------------------------------
(* What the steps are made of.                                             *)

Idle == download = "none"
Answers == mode = "up" /\ Idle
OnNetwork == net \in {1, 5}

\* A command of the task: the outcome the channel and the modem allow.
Event == events < MaxEvents /\ events' = events + 1
Command(ok) == IF ok = Answers THEN UNCHANGED events ELSE ~ok /\ Event

\* select_sms_storage: the card may not be ready before it is on the network.
SelectStorage(ok) ==
  /\ IF ok = (Answers /\ card # None) THEN UNCHANGED events
     ELSE ~ok /\ IF net = 0 THEN UNCHANGED events ELSE Event
  /\ chosen' = (chosen \/ ok)

\* modem_power_cycle, or CFUN=1,1 where the modem takes it.
ModemRestarts ==
  /\ mode' = "booting" /\ pdp' = TRUE /\ chosen' = FALSE /\ net' = 0
  /\ unseen' = FALSE
  /\ UNCHANGED card

\* idf_modem_invalidate_sim_identity
OnlyResample ==   \* mutant
  /\ sampling' = TRUE /\ untold' = FALSE /\ raced' = (raced /\ pc = "write")
  /\ UNCHANGED ident
Invalidate ==
  /\ ident' = None /\ sampling' = TRUE /\ untold' = FALSE
  /\ raced' = (raced /\ pc = "write")

\* apply_configured_data_mode_once: the command may fail at any time.
Wanted == dataOn /\ (roamingOn \/ stat # 5)
ApplyOnce(ok) ==
  /\ ok => Answers
  /\ IF ok THEN pdp' = Wanted ELSE UNCHANGED pdp

-----------------------------------------------------------------------------
(* The start of the task.                                                  *)

HandshakeOk ==
  /\ pc \in {"shake", "await"} /\ Answers
  /\ phase' = "at_ready" /\ pc' = "setup"
  /\ back' = (IF pc = "shake" THEN "poll" ELSE "rest")
  /\ count' = 0
  /\ UNCHANGED <<modem, settings, stat, ident, flags, registered, post, dereg, seen, read>>
  /\ UNCHANGED <<others, ghosts, events>>

\* The first failure is that of the quick start.
HandshakeFails ==
  /\ pc = "shake" /\ ~Answers
  /\ count' = 1
  /\ IF count = 0 THEN UNCHANGED <<phase, request>> ELSE phase' = "failed" /\ request' = 0
  /\ ModemRestarts
  /\ UNCHANGED <<settings, stat, ident, sampling, reinit, pending, retry, pc, back>>
  /\ UNCHANGED <<registered, post, dereg, seen, read, others, raced, untold, unapplied>>
  /\ UNCHANGED <<events>>

\* configure_sms_and_registration, set_phase("registering")
Setup ==
  /\ pc = "setup" /\ pc' = "data"
  /\ \E ok \in BOOLEAN : SelectStorage(ok) /\ pending' = ~ok
  /\ phase' = "registering"
  /\ UNCHANGED <<mode, pdp, net, card, settings, stat, ident, request, sampling, reinit, retry>>
  /\ UNCHANGED <<back, local, others, ghosts>>

\* apply_startup_data_mode
SetupOnly == retry' = 0   \* mutant
ScheduleRetry == retry' = RetryMax
StartupData ==
  /\ pc = "data" /\ pc' = back
  /\ \E ok \in BOOLEAN : ApplyOnce(ok) /\ IF ok THEN UNCHANGED retry ELSE ScheduleRetry
  /\ unapplied' = FALSE
  /\ reinit' = FALSE
  /\ UNCHANGED <<mode, chosen, net, card, settings, phase, stat, ident, request, sampling, pending>>
  /\ UNCHANGED <<back, local, others, raced, untold, unseen, events>>

PollRegistered ==
  /\ pc = "poll" /\ Answers /\ OnNetwork
  /\ stat' = net /\ phase' = "sampling" /\ registered' = TRUE
  /\ pc' = "post" /\ back' = "reset" /\ count' = 0
  /\ UNCHANGED <<modem, settings, ident, flags, post, dereg, seen, read, others, ghosts>>
  /\ UNCHANGED <<events>>

PollAgain ==
  /\ pc = "poll" /\ ~(Answers /\ OnNetwork)
  /\ IF Answers THEN stat' = net ELSE UNCHANGED stat
  /\ IF count + 1 < PollsMax
     THEN count' = count + 1 /\ pc' = "poll" /\ phase' = (IF Answers THEN "registering" ELSE phase)
     ELSE count' = 0 /\ pc' = "reset" /\ phase' = "failed"
  /\ UNCHANGED <<modem, settings, ident, flags, back, registered, post, dereg, seen, read>>
  /\ UNCHANGED <<others, ghosts, events>>

\* What follows a registration: storage, data policy, then the samples.
\* At the start the storage is chosen again only if that had failed.
AfterRegistration ==
  /\ pc = "post" /\ pc' = "policy"
  /\ \/ back = "reset" /\ ~pending /\ UNCHANGED <<chosen, pending, events>>
     \/ (back = "sim" \/ pending) /\ \E ok \in BOOLEAN : SelectStorage(ok) /\ pending' = ~ok
  /\ UNCHANGED <<mode, pdp, net, card, settings, phase, stat, ident, request, sampling, reinit, retry>>
  /\ UNCHANGED <<back, local, others, ghosts>>

\* enforce_roaming_data_policy: a connection is closed only when its address has just
\* been read, and when the command to close it fails that is all.
CloseRoaming == dataOn /\ ~roamingOn /\ stat = 5
EnforcePolicy ==
  /\ pc = "policy" /\ pc' = "read"
  /\ IF CloseRoaming /\ pdp
     THEN \E ok \in BOOLEAN : (ok => Answers) /\ pdp' = ~ok /\ unapplied' = ~ok
     ELSE UNCHANGED <<pdp, unapplied>>
  /\ UNCHANGED <<mode, chosen, net, card, settings, status, flags, back, local, others>>
  /\ UNCHANGED <<raced, untold, unseen, events>>

\* sample_identity_once: what is known is not read again ...
ReadIdentity ==
  /\ pc = "read" /\ pc' = "write"
  /\ \E ok \in BOOLEAN : Command(ok) /\ read' = (IF ok /\ ident = None THEN card ELSE None)
  /\ UNCHANGED <<modem, settings, status, flags, back, registered, post, count, dereg, seen>>
  /\ UNCHANGED <<others, ghosts>>

\* ... and written once all has been read; startup_info_complete.
Complete == ident' # None
WriteIdentity ==
  /\ pc = "write" /\ pc' = back
  /\ ident' = (IF read # None THEN read ELSE ident)
  /\ IF registered /\ ~post
     THEN /\ post' = Complete
          /\ phase' = (IF Complete THEN "ready" ELSE IF back = "health" THEN phase ELSE "sampling")
     ELSE UNCHANGED <<post, phase>>
  /\ read' = None
  /\ UNCHANGED <<modem, settings, stat, flags, back, registered, count, dereg, seen>>
  /\ UNCHANGED <<others, ghosts, events>>

-----------------------------------------------------------------------------
(* The loop of the task.                                                   *)

NoReset ==
  /\ pc = "reset" /\ request = 0
  /\ pc' = (IF reinit THEN "reinit" ELSE "rest")
  /\ UNCHANGED <<modem, settings, status, flags, back, local, others, ghosts, events>>

HandleReset ==
  /\ pc = "reset" /\ request # 0
  /\ request' = 0 /\ phase' = "powering" /\ pc' = "await"
  /\ IF request = 2 \/ Answers THEN ModemRestarts ELSE UNCHANGED <<modem, unseen>>
  /\ UNCHANGED <<settings, stat, ident, sampling, reinit, pending, retry, back, local>>
  /\ UNCHANGED <<others, raced, untold, unapplied, events>>

WantReinit == reinit' = TRUE
AwaitFails ==
  /\ pc = "await" /\ ~Answers
  /\ phase' = "failed" /\ pc' = "reinit" /\ WantReinit
  /\ UNCHANGED <<modem, settings, stat, ident, request, sampling, pending, retry, back, local>>
  /\ UNCHANGED <<others, ghosts, events>>

\* run_pending_reinit_if_recovered
Reinit ==
  /\ pc = "reinit" /\ Answers
  /\ phase' = "at_ready" /\ pc' = "setup" /\ back' = "rest"
  /\ UNCHANGED <<modem, settings, stat, ident, flags, local, others, ghosts, events>>

NoReinit ==
  /\ pc = "reinit" /\ ~Answers
  /\ pc' = "rest"
  /\ UNCHANGED <<modem, settings, status, flags, back, local, others, ghosts, events>>

\* process_data_mode_retry: the loop starts over; the last failure is final.
RetryData ==
  /\ pc = "rest" /\ retry > 0 /\ Idle
  /\ pc' = "reset"
  /\ \E ok \in BOOLEAN :
       /\ ApplyOnce(ok)
       /\ retry' = (IF ok THEN 0 ELSE retry - 1) /\ unapplied' = (~ok /\ retry = 1)
  /\ UNCHANGED <<mode, chosen, net, card, settings, phase, stat, ident, request, sampling, reinit>>
  /\ UNCHANGED <<pending, back, local, others, raced, untold, unseen, events>>

SampleDue == sampling \/ (registered /\ ~post)
Sample ==
  /\ pc = "rest" /\ SampleDue /\ Idle
  /\ sampling' = FALSE /\ pc' = "read" /\ back' = "health"
  /\ UNCHANGED <<modem, settings, status, request, reinit, pending, retry, local, others>>
  /\ UNCHANGED <<ghosts, events>>

\* The health probe, once a minute.
AtProbe == pc = "health" \/ (pc = "rest" /\ ~(SampleDue /\ Idle))
ProbeRegistered ==
  /\ AtProbe /\ Answers /\ OnNetwork
  /\ count' = 0 /\ dereg' = 0 /\ stat' = net /\ registered' = TRUE
  /\ IF post THEN phase' = "ready" /\ pc' = "sim" /\ UNCHANGED back
             ELSE phase' = "sampling" /\ pc' = "post" /\ back' = "sim"
  /\ UNCHANGED <<modem, settings, ident, flags, post, seen, read, others, ghosts, events>>

\* A modem that takes so long to boot or to find a network is an event of the
\* model.
EscalatesNever == UNCHANGED request   \* mutant
Escalates == request' = 2
ProbeUnregistered ==
  /\ AtProbe /\ Answers /\ ~OnNetwork
  /\ pc' = "sim"
  /\ count' = 0 /\ stat' = net /\ registered' = FALSE /\ post' = FALSE /\ phase' = "registering"
  /\ IF dereg + 1 < DeregMax
     THEN dereg' = dereg + 1 /\ UNCHANGED <<request, events>>
     ELSE dereg' = 0 /\ Escalates /\ IF card = None THEN UNCHANGED events ELSE Event
  /\ UNCHANGED <<modem, settings, ident, sampling, reinit, pending, retry, back, seen, read>>
  /\ UNCHANGED <<others, ghosts>>

ProbeFails ==
  /\ AtProbe /\ Idle
  /\ IF mode = "hung" \/ (mode = "booting" /\ count + 1 < FailMax) THEN UNCHANGED events ELSE Event
  /\ pc' = "sim"
  /\ IF count + 1 < FailMax THEN count' = count + 1 /\ UNCHANGED request
                            ELSE count' = 0 /\ Escalates
  /\ UNCHANGED <<modem, settings, status, sampling, reinit, pending, retry, back>>
  /\ UNCHANGED <<registered, post, dereg, seen, read, others, ghosts>>

NoProbe ==
  /\ AtProbe /\ pc' = "sim"
  /\ UNCHANGED <<modem, settings, status, flags, back, local, others, ghosts, events>>

Probe == ProbeRegistered \/ ProbeUnregistered \/ ProbeFails

\* The card check, every 15 s; AT+CPIN? fails without a card.
Present(ok) == ok /\ card # None
SameCard ==
  /\ pc = "sim" /\ Idle
  /\ \E ok \in BOOLEAN : Command(ok) /\ seen # (IF Present(ok) THEN "none" ELSE "card")
                                     /\ seen' = (IF Present(ok) THEN "card" ELSE "none")
  /\ pc' = "reset"
  /\ UNCHANGED <<modem, settings, status, flags, back, registered, post, count, dereg, read>>
  /\ UNCHANGED <<others, ghosts>>

CardInserted ==
  /\ pc = "sim" /\ Answers /\ card # None /\ seen = "none"
  /\ seen' = "card" /\ pc' = "reset"
  /\ \E ok \in BOOLEAN : SelectStorage(ok) /\ pending' = ~ok
  /\ Invalidate
  /\ registered' = FALSE /\ post' = FALSE /\ dereg' = 0 /\ phase' = "registering"
  /\ UNCHANGED <<mode, pdp, net, card, settings, stat, request, reinit, retry, back, count, read>>
  /\ UNCHANGED <<others, unseen, unapplied>>

CardRemoved ==
  /\ pc = "sim" /\ Idle /\ seen = "card"
  /\ \E ok \in BOOLEAN : Command(ok) /\ ~Present(ok)
  /\ seen' = "none" /\ pc' = "reset"
  /\ Invalidate
  /\ registered' = FALSE /\ post' = FALSE /\ phase' = "registering"
  /\ UNCHANGED <<modem, settings, stat, request, reinit, pending, retry, back, count, dereg, read>>
  /\ UNCHANGED <<others, unseen, unapplied>>

NoCardCheck ==
  /\ pc = "sim" /\ pc' = "reset"
  /\ UNCHANGED <<modem, settings, status, flags, back, local, others, ghosts, events>>

CardCheck == SameCard \/ CardInserted \/ CardRemoved

Task ==
  \/ HandshakeOk \/ HandshakeFails \/ Setup \/ StartupData \/ PollRegistered \/ PollAgain
  \/ AfterRegistration \/ EnforcePolicy \/ ReadIdentity \/ WriteIdentity
  \/ NoReset \/ HandleReset \/ AwaitFails \/ Reinit \/ NoReinit \/ RetryData
  \/ Sample \/ Probe \/ NoProbe \/ CardCheck \/ NoCardCheck

-----------------------------------------------------------------------------
(* The other tasks.                                                        *)

\* idf_modem_request_reset
RequestReset ==
  /\ Event
  /\ request' \in {1, 2} /\ phase' = "powering"
  /\ UNCHANGED <<modem, settings, stat, ident, sampling, reinit, pending, retry, pc, back, local>>
  /\ UNCHANGED <<others, ghosts>>

\* idf_modem_cellular_http_get opens the connection ...
StartDownload ==
  /\ Idle /\ Event
  /\ download' = (IF dataOn THEN "keep" ELSE "close")
  /\ pdp' = (pdp \/ mode = "up")
  /\ UNCHANGED <<mode, chosen, net, card, settings, phase, stat, ident, flags, pc, back, local>>
  /\ UNCHANGED <<switching, ghosts>>

\* ... and closes it, whatever became of the download; a failure is ignored.
Closes == download = "close"
EndDownload ==
  /\ ~Idle /\ download' = "none"
  /\ \/ Closes /\ mode = "up" /\ pdp' = FALSE /\ UNCHANGED unapplied
     \/ Closes /\ unapplied' = TRUE /\ UNCHANGED pdp
     \/ ~Closes /\ UNCHANGED <<pdp, unapplied>>
  /\ UNCHANGED <<mode, chosen, net, card, settings, phase, stat, ident, flags, pc, back, local>>
  /\ UNCHANGED <<switching, raced, untold, unseen, events>>

\* The SIM settings of the web page and modem_apply_task, which gives up when another
\* job is active, the modem is not registered or the command fails.
SaveSettings ==
  /\ Event
  /\ \E d, r, ok \in BOOLEAN :
       /\ <<d, r>> # settings
       /\ ok => Answers /\ phase = "ready"
       /\ dataOn' = d /\ roamingOn' = r
       /\ pdp' = (IF ok THEN d /\ (r \/ stat # 5) ELSE pdp)
       /\ unapplied' = ~ok
  /\ UNCHANGED <<mode, chosen, net, card, status, flags, pc, back, local, others>>
  /\ UNCHANGED <<raced, untold, unseen>>

\* A profile switched on the eUICC: by the eSIM worker, which tells the modem
\* task afterwards, or by a job, which does not.
SwitchProfile ==
  /\ Answers /\ ~switching /\ card # None /\ Event
  /\ \E c \in Cards \ {card} : card' = c
  /\ net' = 0 /\ raced' = (raced \/ read # None)
  /\ \/ switching' = TRUE /\ UNCHANGED untold
     \/ untold' = TRUE /\ UNCHANGED switching
  /\ UNCHANGED <<mode, pdp, chosen, settings, status, flags, pc, back, local, download>>
  /\ UNCHANGED <<unseen, unapplied>>

ProfileSwitched ==
  /\ switching /\ switching' = FALSE
  /\ Invalidate
  /\ UNCHANGED <<modem, settings, phase, stat, request, reinit, pending, retry, pc, back, local>>
  /\ UNCHANGED <<download, unseen, unapplied, events>>

\* idf_modem_reassert_sms_storage, called by the SMS task again and again.
Reassert ==
  /\ Answers /\ card # None /\ OnNetwork /\ ~chosen
  /\ chosen' = TRUE
  /\ UNCHANGED <<mode, pdp, net, card, settings, status, flags, pc, back, local, others>>
  /\ UNCHANGED <<ghosts, events>>

-----------------------------------------------------------------------------
(* The modem and its card.                                                 *)

ModemBoots ==
  /\ mode = "booting" /\ mode' = "up"
  /\ UNCHANGED <<pdp, chosen, net, card, settings, status, flags, pc, back, local, others>>
  /\ UNCHANGED <<ghosts, events>>

ModemHangs ==
  /\ mode = "up" /\ Event
  /\ mode' = "hung"
  /\ UNCHANGED <<pdp, chosen, net, card, settings, status, flags, pc, back, local, others>>
  /\ UNCHANGED <<ghosts>>

ModemResetsItself ==
  /\ mode = "up" /\ Event
  /\ mode' = "booting" /\ pdp' = TRUE /\ chosen' = FALSE /\ net' = 0 /\ unseen' = TRUE
  /\ UNCHANGED <<card, settings, status, flags, pc, back, local, others>>
  /\ UNCHANGED <<raced, untold, unapplied>>

Attach ==
  /\ mode = "up" /\ card # None /\ net = 0
  /\ net' \in {1, 5}
  /\ UNCHANGED <<mode, pdp, chosen, card, settings, status, flags, pc, back, local, others>>
  /\ UNCHANGED <<ghosts, events>>

Move ==
  /\ OnNetwork /\ Event
  /\ net' \in {0, 1, 5} \ {net}
  /\ UNCHANGED <<mode, pdp, chosen, card, settings, status, flags, pc, back, local, others>>
  /\ UNCHANGED <<ghosts>>

RemoveCard ==
  /\ card # None /\ Event
  /\ card' = None /\ net' = 0 /\ raced' = (raced \/ read # None)
  /\ UNCHANGED <<mode, pdp, chosen, settings, status, flags, pc, back, local, others>>
  /\ UNCHANGED <<untold, unseen, unapplied>>

InsertCard ==
  /\ card = None /\ seen = "none"
  /\ card' \in Cards /\ net' = 0
  /\ UNCHANGED <<mode, pdp, chosen, settings, status, flags, pc, back, local, others>>
  /\ UNCHANGED <<ghosts, events>>

Environment ==
  \/ RequestReset \/ StartDownload \/ EndDownload \/ SaveSettings \/ SwitchProfile
  \/ ProfileSwitched \/ Reassert \/ ModemBoots \/ ModemHangs \/ ModemResetsItself
  \/ Attach \/ Move \/ RemoveCard \/ InsertCard

Next == Task \/ Environment

Spec == Init /\ [][Next]_vars

\* The loop never ends, and its timed parts come round; a modem that has been
\* powered boots and finds a network; a download and a switch end; the SMS
\* task checks the storage again and again.
Fairness ==
  /\ WF_vars(Task) /\ SF_vars(Probe) /\ SF_vars(CardCheck) /\ SF_vars(RetryData)
  /\ WF_vars(ModemBoots) /\ SF_vars(Attach)
  /\ WF_vars(EndDownload) /\ WF_vars(ProfileSwitched) /\ WF_vars(Reassert)
FairSpec == Spec /\ Fairness

-----------------------------------------------------------------------------
(* Properties.                                                             *)

FlagsOK ==
  /\ pdp \in BOOLEAN /\ chosen \in BOOLEAN /\ dataOn \in BOOLEAN /\ roamingOn \in BOOLEAN
  /\ sampling \in BOOLEAN /\ reinit \in BOOLEAN /\ pending \in BOOLEAN
  /\ registered \in BOOLEAN /\ post \in BOOLEAN /\ switching \in BOOLEAN
  /\ raced \in BOOLEAN /\ untold \in BOOLEAN /\ unseen \in BOOLEAN /\ unapplied \in BOOLEAN

RangesOK ==
  /\ mode \in {"booting", "up", "hung"} /\ net \in {0, 1, 5} /\ card \in Cards \cup {None}
  /\ phase \in {"powering", "at_ready", "registering", "sampling", "ready", "failed"}
  /\ stat \in {0, 1, 5} /\ ident \in Cards \cup {None} /\ read \in Cards \cup {None}
  /\ request \in 0..2 /\ retry \in 0..RetryMax
  /\ pc \in {"shake", "setup", "data", "poll", "post", "policy", "read", "write",
             "reset", "await", "reinit", "rest", "health", "sim"}
  /\ back \in {"poll", "rest", "reset", "sim", "health"}
  /\ count \in 0..(PollsMax + FailMax) /\ dereg \in 0..(DeregMax - 1)
  /\ seen \in {"unknown", "card", "none"} /\ download \in {"none", "keep", "close"}

TypeOK == FlagsOK /\ RangesOK

\* The identity shown is that of the card in use, however the card came to
\* change, once the change has been noticed or told (idf_modem.cpp:2206); two
\* paths of the code escape it and are named: a change while the old identity
\* is being read, and a switch by a job, which tells nothing.
IdentityCurrent ==
  (ident # None /\ card # None /\ seen = "card" /\ ~switching /\ ~raced /\ ~untold) => ident = card

IdentityShown == TypeOK /\ IdentityCurrent

\* What makes it inductive: an identity is in the hand of the task only between
\* the read and the write, and is that of the card unless the card changed
\* meanwhile; and the identity shown is right from the start on, not only from
\* the first check that found the card.
ReadInHand == read # None => pc = "write" /\ (raced \/ read = card)
CurrentUnlessOut ==
  (ident # None /\ card # None /\ seen # "none" /\ ~switching /\ ~raced /\ ~untold) => ident = card
IdentityInv == TypeOK /\ ReadInHand /\ CurrentUnlessOut

\* With a card in it the modem is ready in the end, its storage chosen, whatever
\* was reset, hung, lost or swapped before (idf_modem.cpp:1862).
ComesBack == <>[](card # None) => <>[](mode = "up" /\ phase = "ready" /\ chosen)

\* With data off in the settings the connection that a modem opens when it starts, or
\* a download opened, is closed in the end, although single commands fail (idf_modem.cpp:
\* 1271, 1471).  The code promises it only while it still tries: left out are a modem that
\* reset itself, and a command that failed for the last time - the retries at the start
\* are used up (1327), or it was that of a save or of a download, which have none.
DataOffInTheEnd ==
  <>[](mode = "up" /\ Idle /\ ~dataOn /\ ~unseen /\ ~unapplied) => <>[]~pdp

\* idf_modem.cpp:1249: with data roaming not allowed, data is made sure to be
\* off while roaming.  Here: after a probe that saw the foreign network.
RoamingDataOff ==
  (pc = "sim" /\ phase = "ready" /\ mode = "up" /\ retry = 0 /\ stat = 5 /\ dataOn /\ ~roamingOn /\ Idle
     /\ ~unapplied /\ ~unseen) => ~pdp
=============================================================================
