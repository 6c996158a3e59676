# OmniSMS in TLA+

OmniSMS receives text messages on a cellular modem and forwards them to push channels
and e-mail. It has a portable C++ core (`core/`), firmware for an ESP32 with a modem
(`ports/esp-idf/`), a Linux service (`ports/linux/`) and an Android shell
(`ports/android/`). This directory models the parts of it whose correctness depends on
interleaving, failures, restarts and full queues, checks the models with TLC on small
instances, and proves the central ones for every instance with TLAPS.

    tlc -workers 2 -config ForwardPush.cfg MCForwardPush     # one run
    tlapm ForwardPushProofs.tla                              # one module of proofs

## 1. The system

| part | source | state it keeps | operations |
|---|---|---|---|
| forwarding worker (ESP) | `components/idf_push` | forward, push and e-mail queues of fixed size, completion table, channel failure counts, `s_busy` | enqueue a message, a notice, a mail, a test; dispatch, deliver, retry, give up, purge |
| due queues | `core/queue` | slots with a due time | enqueue, take a due job, retry with back-off |
| long-message assembler | `core/pdu` | 5 slots of up to 10 parts | `feed`, `expire` |
| receive path (ESP) | `components/idf_sms` | URC line state, index queue, ring of hashes, back-fill flags, stall counters; the modem's storage outside | read announcements, CMGR, CMGL, CMGD, decode, de-duplicate, store, request forwarding |
| message store | `core/inbox`, `components/idf_inbox` | rings of received and sent messages, NVS copies of both | add, mark, delete, evict, restore |
| Linux forwarding | `ports/linux/src/main.cpp` | `jobs_`, `completions_`, the worker's configuration | begin, enqueue, reject, deliver, retry, finish, mark |
| Linux intake | `main.cpp`, `modem_backend.cpp` | the batch listed, the store and its state file, the queue of commands | list, assemble, store or obey, delete, persist, load |
| periodic jobs (ESP) | `components/idf_web`, `core/scheduler` | last-run epochs, job registry, hour tick | keep-alive, user tasks, profile switching, heartbeat, daily reboot, low-heap restart |
| periodic jobs (Linux) | `main.cpp`, `core/scheduler` | last-run epochs in memory, configuration and side-car file | the same rules in the main loop |
| modem task (ESP) | `components/idf_modem` | phase, registration, identity, retry flags | start-up, set-up, probe, reset, SIM hot-plug, data mode |
| AT channel (ESP) | `components/idf_modem` | one mutex, the UART, the URC buffer | commands, submissions, downloads, poll of announcements |
| Wi-Fi (ESP) | `components/idf_wifi` | STA/AP state, retry timers | connect, reconnect, hotspot, provisioning, scan |
| eSIM | `components/idf_esim` | logical channels on the card, cached EID | list, enable, disable, delete, rename, switch |
| settings | `idf_config`, `core/config`, `config_store` | RAM copy, NVS keys or a file | load, save, import, export, reset |
| web jobs | `components/idf_web` | job flags, cached profile list | start, refuse, run, report; apply SIM settings; restart; upload |
| calls, admin commands, rules | `core/` | call window | parse and decide |
| log buffer | `components/idf_logbuf` | ring of lines, ring that survives a reset | add, poll, capture, save |
| PDU codec, builders, web pages | `pdulib`, `core/push`, `core/email`, `web_assets` | none | formatting |

**How the parts interact.** The modem task fills a URC buffer that the SMS task drains.
The SMS task decodes, assembles and de-duplicates, stores a message in the inbox and asks
the worker to forward it. The worker reads a configuration view, selects the targets,
puts one leg per target in the queues and registers a completion; when the last leg
succeeds it marks the inbox entry. The web server's task resends, deletes, saves
settings and starts cellular jobs; the scheduler starts due jobs and, when every queue
looks idle, restarts the device. Jobs switch eSIM profiles, which the modem task
notices as another card. On ESP these are FreeRTOS tasks (modem at priority 4,
SMS, worker and jobs at 3, scheduler at 2) that share state under one mutex per
component; on Linux there are the main loop, the web thread and the worker thread.

**What is hard.** No lock spans two components, so each interaction is a sequence of
steps others may come between. Queues are small and everything must survive their
being full. Delivery fails at any time and is retried. The modem loses announcements
and forgets settings. The device loses power or restarts itself between any two
steps. `PROJECT.json` lists these hazards one by one at the line where each bites.

**What makes it correct.**
* Forwarding: an entry is marked forwarded only if all of one dispatch's targets accepted
  it; nothing is leaked or left in a queue for ever.
* Receiving: a stored message is not lost and is forwarded once; the storage drains;
  an announcement reaches the SMS task once and in order.
* Assembling: no part emitted twice or silently lost; slots come free.
* Storing: newest first; flash or file agrees with memory except where a write failed.
* Scheduling: at most one run per interval; home on the main card; everyone gets a turn;
  one heartbeat and one reboot a day.
* Staying reachable: modem and Wi-Fi come back from any sequence of failures.
* Settings and cards: nothing saved is undone by a stale copy; no operation on a profile
  that was not meant; one user of the modem at a time.

## 2. The modules

| module | models | its steps |
|---|---|---|
| `ForwardLedger` | what forwarding promises the inbox, without queues: dispatches with the targets they are to reach and those that accepted, entries about to be marked | abstract specification |
| `ForwardPush` | `idf_push.cpp` with its callers | one action per critical section: a step ends where `s_mutex` or the inbox lock is released |
| `MaintenanceRestart` | `system_idle_for_maintenance` beside `ForwardPush` (composition by EXTENDS) | one action per question asked |
| `ConcatAssembler` | `ConcatAssembler` of `core/pdu` | `feed` (one action per outcome), `expire`, time |
| `SmsTask` | the receive path of `idf_sms.cpp` and the modem's storage | a pass of the task's loop: the lines that have come in, then at most one AT command after another, new lines arriving meanwhile |
| `InboxFlash` | `core/inbox` under `idf_inbox` and its NVS namespace | an operation on the ring, then each flash write |
| `LinuxPush` | `PushWorker`, `forward_event` and the requests of `main.cpp` | a step ends where `mu_`, the configuration lock or the store's lock is released |
| `EspScheduler` | `scheduler_task`, the job registry, `keepalive_task`, `sched_task_worker` | the stages of a round and of a job |
| `ModemTask` | `modem_task` with the modem, a download, the eSIM worker and saved SIM settings | a command or a stage of the loop; the modem's own changes between them |
| `AtChannel` | the AT mutex, UART and URC buffer of `idf_modem.cpp` | one read of the UART by whoever holds the mutex, which may end inside a line |
| `WifiManager` | `idf_wifi.cpp` with the driver's event queue | an event, a timer, a driver call of each task |
| `ConfigNvs` | `idf_config.cpp` | one flash key; one critical section |
| `EsimSession` | `idf_esim.cpp` with the card | one AT command |
| `WebJobs` | the jobs, direct requests and restarts of `idf_web.cpp` | a critical section of `s_cell_job_mutex`, the work between |
| `OtaUpload` | `handle_ota_update` | one received piece |
| `CallTracker` | `core/call.cpp` and its twin in `idf_sms` | a line, a poll, a tick |
| `LogBuffer` | `idf_logbuf` with the page's poll | one line in stages, one poll, a reset |
| `LinuxIntake` | the upper half of the loop of `main.cpp`, `ThreadSafeMessageStore`, admin commands | a call of the modem backend, a change of the store with its write |
| `LinuxScheduler` | the lower half of that loop, settings saves beside it | a stage of a round, a write |
| `EspParts` | `InboxFlash`, `CallTracker`, `OtaUpload`, `LogBuffer`, `ConfigNvs`, `EsimSession` and `ConcatAssembler`, one of which runs in each behaviour | a step of the one that runs |
| `Services` | `WifiManager`, `WebJobs`, `LinuxPush` and `LinuxIntake`, one of which runs in each behaviour | a step of the one that runs |
| `MC*` | small instances of the above; `ModemTask` and `AtChannel` need none | |
| `ForwardPushProofs`, `ServicesProofs`, `EspSchedulerProofs`, `ModemTaskProofs`, `AtChannelProofs`, `LinuxSchedulerProofs`, `SmsTaskProofs`, `EspPartsProofs` | proofs about the module each is named after | |

`ForwardPush` and `LinuxPush` are two designs of the same thing and both implement
`ForwardLedger`. A promise of the ledger is fulfilled, and only then its entry marked, when
each target it is to reach accepted the message (`Accept`) or was excused (`Excuse`);
a leg that is cancelled, purged, refused by a full queue or given up is neither, and its
promise can only be abandoned. The code keeps no list of who accepted, only counters. So
both modules have history variables of the model's own beside them (`to`, `by` and, on
Linux, `off` of a completion), which no guard reads, and the refinement says that the
counters do their work: when `remaining` reaches zero every target is in `by`. What is
mapped to `Accept` is the step in which a send succeeds and nothing else. On ESP no target
is excused. On Linux `Excuse` is `Discard`, a leg whose channel the settings in force have
made invalid; that the code counts it as served contradicts the documentation (section 4).
The mappings differ where the code does: the ESP worker drops the whole entry when a leg is
lost, so its completions are the open promises; the Linux worker counts failed legs too, so
only entries whose `failed` is false are promises.

The correspondence with the code is in `PROJECT.json` (`map`): every definition that
models code, with its lines. Names follow the code where TLA+ allows; every variable
and every constant is commented with the source's name for it.

**Abstractions.** Texts, numbers and requests are model values; what a forwarding rule
decides is part of a configuration; which of several due jobs comes first, and how long
a back-off is, is left open (a timer is a flag that turns true). Each module's opening
comment names its own: in `SmsTask` the hash of a text is the set of its parts and the
assembler always has a free slot, since `ConcatAssembler` studies what happens when it
has not; a PDU of which only a part has come does not decode; in `ModemTask` the identity
of a card is one value and a slow start is an event; in `ConfigNvs` a few keys stand for
all of a form; in `OtaUpload` bytes are positions and what is pending is an interval of
them. `EspScheduler` counts hours since a job's last run; `LinuxScheduler` has a clock.

**How failures of the modem's answers are modelled.** An answer that times out is not
nothing: the code goes on with what has come. In `SmsTask` a listing may end after any
number of records, between the header of a record and its PDU (a bare record) or inside a
PDU (a damaged one), and the answer to a read may come while the slot of the next one is
read (`late`); three rounds that handle nothing and leave such records make the code erase
them unread. In `AtChannel` an announcement is two pieces and a read of the UART may end
between them; what the code does with the half that names itself and with the half that does
not (`named`), and what a line cut short does to the next one (`joined`), follow its line
splitter and its filter. In `EsimSession`, and in `EspScheduler` which uses it, a card may
obey a request whose answer is lost; opening and closing a channel may fail. In `ModemTask`
each command about the data connection may fail at any time, and a failed one is tried again
only where the code does so.

## 3. The runs

| run | instance | what it shows |
|---|---|---|
| `forward_push` | 2 channels, e-mail, 1 message, queues 1/2/1, 2 attempts, 2 requests | accounting, bounds, free completion entries, refinement of `ForwardLedger`: who accepted before an entry is marked |
| `forward_push_live` | 1 channel, e-mail | the queues drain once the network is back |
| `sms_task` | 2 storage slots, of one and of two digits, a short, a long and an undecodable message, listings of 1 record, 3 rounds to give up, 2 deliveries, 1 restart | nothing vanishes but in two named ways, stored once, the storage drains |
| `esp_scheduler` | a daily task and a keep-alive every other day, both on other profiles, days of 2 hours, 1 request, 1 restart | runs spaced, home when idle but for named failures, the task gets its turn |
| `modem_task` | 2 cards, 1 poll, 2 retries, 2 failed probes, 2 without a network, 1 event of the environment, commands for the data connection that fail without a bound | identity, return to ready, data off in the end while the code still tries |
| `at_channel` | 2 announcements of 2 pieces each, wire, answer and buffer of 3 pieces, 1 command or download | once, in order, none swallowed but in named ways, in the end all the others |
| `esp_parts` | see below | eleven properties of seven components |
| `services` | see below | seven properties of three services |
| `linux_intake` | one message of each kind, a long one of 2 parts, 1 failure, crash or restart that cannot read the state file | on disk before it leaves the modem, obeyed once, everything taken in |
| `linux_scheduler` | 2 tasks, days of 4 hours, 6 hours, 1 failed write, 1 crash, 1 settings save, actions that may always fail | once a day, no time rolled back but by a stop, runs spaced |
| `maintenance_restart` | 1 channel, e-mail | ends in a counterexample, section 4 |
| `modem_roaming` | 1 card | ends in a counterexample, section 4 |

In `esp_parts`, `services` and `linux_intake` the variable `runs` picks one component at the
start and the others stand still, so that the state space is the sum of theirs. Their
components do not interact in these runs; a property of `esp_parts` or `services` joins
what one component, or several small ones, claim. `Services` has four components:
`services` lets three of them run, `linux_intake` the fourth (`Running`), because what is
fair and whether the program may stop differ.

* `esp_parts`: an inbox of 2 with 5 ids and a larger old ring in flash; 2 callers and
  hidden numbers in 3 calls; firmwares of 0 to 6 units in pieces of 3 and a partition of 5;
  a log ring of 2 and a surviving one of 3 with 5 lines and 2 resets; 3 forms of settings
  with 2 saves, a failure and a restart; 2 cards, one with two profiles of the same alias,
  2 operations, a swap and 2 failures; an assembler of 2 slots for 3 keys with 4 deliveries.
* `services`: 2 networks, 2 disconnections in a row, 2 queued events, 2 events; 3 requests,
  1 job of the scheduler and 1 restart; 1 channel and e-mail with a queue of 2 and 2 requests.

**Bounds and why they are enough.** Every bound named `Max...` and documented as a bound of
the model limits events of the environment (requests, deliveries, failures, restarts), never
steps of the code; the others are the code's own capacities made small. Capacities are
chosen so that each queue fills up, each table overflows and each ring wraps: with two
channels and a push queue of two a second message does not fit while the first is under way;
two assembler slots meet three keys; an index queue of one overflows on the second
announcement; a ring of two wraps with five ids and the old flash holds more than the ring;
a buffer of three pieces is full after one announcement and a half; a firmware of six does
not fit a partition of five and one of five just does. Two requests are what a dispatch and
a resend of the same entry need. `StallMax` of `sms_task` is the code's own three rounds, so
that two deliveries are enough to reach the giving up; its slots are 1 and 10 because a
header cut inside its index may name another slot. The retries of `modem_task` (two, for the
code's `MODEM_DATA_MODE_RETRY_MAX`) can all fail, since those failures are not counted as
events. A day of two hours keeps the difference between "in an hour" and "tomorrow"; the six
hours of `linux_scheduler` begin with jobs that never ran or ran two days ago, and pass both
daily hours, a midnight and an interval that ends. One crash and one failed write at every
step are what one recovery can meet; a second one meets the state the first one left, which
is again a state after a start.

A bound can still hide something, and proving shows it: with one save
`linux_scheduler` cannot tell a file rolled back by the save after a crash from one that
was never ahead, and only the attempt to prove `NotRolledBack` brought it out (section 4).
What a theorem of section 5 states holds for all bounds.

**Fairness.** `ForwardPush`: the worker task loops for ever (WF of `Worker`), timers expire
(WF of each), and `NoForward` is strongly fair because a job put back waits for at least 20
s, far longer than a pass of the worker. Nothing is assumed of other tasks or of the outcome
of a send. `ConcatAssembler`: time passes and `expire` is called by the task's loop.
`SmsTask`: the loop runs and, again and again, lists the storage when the 60 s interval has
elapsed; AT commands need not succeed. `LinuxPush`: each thread is scheduled, back-offs end.
`EspScheduler`: tasks run and hours pass; starts and records are strongly fair, since the
registry's lock, memory and NVS fail only for moments. `ModemTask`: the loop runs; what it
does only when an interval has passed (probe, card check, data retry) is strongly fair,
because intervals pass again and again whatever else it does; a modem that was started boots
and finds its network unless it keeps being reset; downloads and switches end. `AtChannel`:
holders read on, tasks that want the mutex get it; the modem task's poll is strongly fair,
for it waits for a mutex that is free again and again. `WifiManager`: the driver answers,
events are handled, timers fire, tasks run. `EsimSession`, `WebJobs`: tasks run; the card
and the jobs may answer anything. `LinuxIntake`: the loop runs, the service manager starts
the service again, a listing succeeds again and again, and the sending of a command, a look
at a message and the expiry of parts are not put off for ever. Where liveness needs a
working network or modem the property says so (`<>[](env = "ok") => ...`, `<>[](conf \in
air) => ...`).

**Deadlock** is checked for `ForwardPush`, `SmsTask`, `EspScheduler`, `ModemTask` and
`LinuxIntake`, whose tasks always have a step. It is switched off where the environment's
events are bounded and the program rightly waits for more of them or the bounded clock
has run down: `AtChannel`, the components of `esp_parts` and `services`, `LinuxScheduler`.

## 4. Where the code and its documentation differ

Two listed runs end in a counterexample; `PROJECT.json` (`findings`) quotes the sentence.

| run | what TLC shows |
|---|---|
| `maintenance_restart` | the idle questions are asked busy-flag first; a job popped after that is lost by the restart that the flag was introduced to prevent (`idf_push.cpp:981`) |
| `modem_roaming` | the roaming policy is enforced at set-up only; a modem that roams later keeps its data connection (`idf_modem.cpp:1249`) |

Nine more configurations end in one; they can be run in the same way:

| configuration, module | what TLC shows |
|---|---|
| `ConcatSilentDrop.cfg`, `MCEspParts` | `find_slot` clears a timed-out slot without emitting it when a part of another message arrives before `expire` ran (`pdu.cpp:216-225`), unlike the eviction below it; `pdu.h:77`: "缺失分段以 "[缺失分段N]" 标记，不静默丢弃" |
| `SmsTwoPaths.cfg`, `MCSmsTask` | a part that was read but could not be erased (the result of AT+CMGD is ignored, `idf_sms.cpp:632-660`) is listed again after its partial text went out, joins the other part and reaches the inbox in two texts; `architecture.md:36`: "去重保证双路径安全" |
| `EspSchedulerStarve.cfg`, `MCEspScheduler` | a refused start shortens the wait to the next tick (`idf_web.cpp:3099-3110`), the next round starts the keep-alive first, and one on the main card that failed kept its `lastRun` (2680-2691): it takes the registry again, for ever; `idf_web.cpp:3106`: "一轮只启动一个任务(蜂窝互斥)，其余下轮再查" |
| `WifiHotspot.cfg`, `WifiManager` | the watch task of the first connection clears the hotspot's state without closing it (`idf_wifi.cpp:881`) after the button opened it; the state is guarded so that an open hotspot is not reported as closed (80-81) |
| `LinuxDiscard.cfg`, `MCServices` | a leg whose channel became invalid after it was queued counts as served (`main.cpp:935-938`), and the entry is marked although that target accepted nothing, where `docs/progress/STATUS.md:50` says an entry is marked after all targets succeeded |
| `EspSchedulerMisled.cfg`, `MCEspScheduler` | a switch of profile the card obeyed but whose answer was lost is reported as failed, and no way back is made (`idf_web.cpp:2567-2570`); the comment at 2575 says the caller goes back when a switch that was made found no network |
| `SmsGiveUp.cfg`, `MCSmsTask` | a listing cut behind a record that does not decode, by its time-out or at its 8 KB, names a good message by its header only; three such rounds erase that message unread; `idf_sms.cpp:738`: "连续三轮无进展=记录本身损坏" |
| `LinuxRestore.cfg`, `MCLinuxIntake` | a state file that cannot be read at the start is overwritten by the next change of the store, where `main.cpp:1182` says it is kept |
| `LogTorn.cfg`, `LogBuffer` | a crash between the new `head` and the new check word makes the whole ring invalid (`idf_log.cpp:94-97`), where the comment says at most this line is lost (80-81) |

Smaller differences and gaps met on the way are modelled as the code has them, without a
run of their own:

* **Inbox ids.** The id counter restarts at the largest id still stored
  (`idf_inbox.cpp:154-180`), so the id of a deleted newest entry is given out again after a
  restart, where `inbox.h:36` says ids only increase; `Load` of `InboxFlash`.
* **ESP scheduler.** A failed keep-alive on the main card is tried again at the next tick,
  not within "every hour" (`idf_web.cpp:2683`), when a refused task shortened the wait.
* **Modem task.** A modem that resets itself without losing its registration is not set
  up again (`unseen`); a job's switch of profile does not invalidate the identity
  (`untold`); an identity sampled before an invalidation may be written after it
  (`raced`). SIM settings saved while a job runs are never applied, and one whose command
  failed is not tried again (`unapplied`, `idf_web.cpp:1170`, 1213-1232); the retries at the
  start end after three failures (`idf_modem.cpp:1327`), and data stays on. The properties
  name these variables.
* **AT channel.** What follows the last content or the error line of a download in the
  same chunk is dropped (`lost`); an answer that comes after its time-out may be read as
  the next command's. A command keeps all it has read if the name of an announcement is
  in it (`idf_modem.cpp:521-527`, comment: "RING/+CLIP 也要保留"), and nothing otherwise: of an
  announcement whose name is cut by the end of a read both halves are dropped (`cut`), and
  so is the PDU of a +CMT whose header came in an earlier read. A half that is kept runs
  into the line after it (`joined`).
* **Receiving (ESP).** The answer to a read that was timed out may be taken for that of the
  next one, whose slot is then erased unread (`Mistaken`; the answer names no slot,
  `idf_sms.cpp:632-660`).
* **ESP inbox.** An entry that cannot be read at the start is erased
  (`idf_inbox.cpp:136-151`), as the code means to.
* **Wi-Fi.** The timer that closes the hotspot is not cancelled by a new provisioning
  within 20 s; an address event queued before a provisioning counts as its success; a
  DNS task wanted while the old one leaves is not started, and one that gets no socket
  ends (`late`); the address that
  comes while a task opens the hotspot leaves it open (`crossed`); a hotspot the driver
  refused is not tried again (`refused`).
* **Settings.** A save of the tasks reads `lastRun`, releases the lock and writes it back
  (`idf_config.cpp:1480`), so a run recorded in between is forgotten, although the
  recording was made a single key to avoid lost updates (925). `httpUrl` of the old
  version is never erased, so a migrated first channel the user empties comes back at the
  next start, although the migration is called once-only (447).
* **Linux intake.** Parts in the assembler and commands that wait are lost
  by a crash; the daily reboot does not ask for held parts. A command whose message could
  not be deleted is obeyed again after each listing that follows.
* **Linux scheduler.** A failing keep-alive without a profile is tried every hour and
  keeps due tasks waiting that long. The side-car file always wins over the configuration
  file at the start, also when the latter is newer: a settings save writes the loop's times
  into the configuration file, and a stop before the side-car is written leaves the
  side-car behind (`behind`). The next start then takes the older times, and the next save
  writes these into the configuration file, which `main.cpp:1368` means to exclude
  ("Never let a settings save roll those timestamps backwards"). `NotRolledBack` excepts
  this one save; it was found by proving, since TLC needs two saves to see it.
* **Web jobs.** Restarts the user asks for do not look at running jobs; between the
  scheduler's idle check and its restart 300 ms later new work may begin
  (`idf_web.cpp:2775`); the check does not know of a firmware upload.
* **eSIM.** A switch by name, and the preparation of a job's profile, take the first
  profile that fits, where the resolver says the first one must never be chosen silently
  (`idf_esim.cpp:823`). A closing or a sweep of channels that fails is ignored (417-422, 449-457),
  so that channels stay open and an operation may find none left.
* **Calls and log.** Another caller within 30 s of the last line of a call is not told. A
  poll that finds the log's lock busy moves the page past lines it has not seen; a restart
  is not noticed when the new numbering has reached the page's cursor.

## 5. The proofs

Every safety invariant and action property the passing runs check is a theorem, and so are
the two refinements: 29 theorems in eight modules, for every value of the constants that
satisfies the assumptions the modules name (`ASSUME`). The assumptions say what the
code's types and sizes say: sets of channels, cards, tasks and slots are finite, sizes
are natural numbers and positive where the array is, "nobody" is none of the names.
Each theorem is stated about `Spec`, or about `SumSpec` of `Services`, without fairness, and
follows from an inductive invariant that stands in the component's module under "What makes
these inductive". Each
of these was checked by TLC on the run's instance before it was proved.

| theorem | property | inductive invariant |
|---|---|---|
| `ForwardPushProofs!TypeCorrect` | `TypeOK` | itself |
| `!AccountingExact` | `CompletionAccounting` | `AccountingInv` |
| `!QueuesStayBounded` | `QueuesBounded` | `BoundedInv` |
| `!EntryAlwaysFree` | `CompletionEntryFree` | both |
| `!ImplementsTheLedger` | `ImplementsLedger` | `LedgerInv` |
| `ServicesProofs!DispatchesCounted` | `DispatchSound` | `DispatchInv` |
| `!ServiceImplementsTheLedger` | `ImplementsLedger` | `LedgerInv` |
| `!FlagSaysTheLink` | `FlagCurrent` | `WifiInv` |
| `!OneUserAtATime` | `OneOwner` | `JobsInv` |
| `!NothingTakenInIsLost` | `IntakeSound` | `IntakeInv` |
| `EspSchedulerProofs!CardKept`, `!RunsAreSpaced` | `CardSound`, `RunsSpaced` | `ScheduleInv` |
| `ModemTaskProofs!IdentityIsCurrent` | `IdentityShown` | `IdentityInv` |
| `AtChannelProofs!AnnouncementsInOrder` | `TakenOnceInOrder` | `OrderInv` |
| `LinuxSchedulerProofs!SchedulerOncePerDay`, `!TimesNotRolledBack`, `!JobsAreSpaced` | `OncePerDay`, `NotRolledBack`, `RunsSpaced` | `SchedulerInv` |
| `SmsTaskProofs!NothingIsLost` | `NothingVanishes` | `IntakeInv` |
| `!MessagesStoredOnce` | `StoreSound` | `IntakeInv`, `Remembered` |
| `EspPartsProofs!BootsOnlyTheUpload` | `UploadExact` | `UploadInv` |
| `!CallsToldOnce` | `EachCallTold` | `CallsInv` |
| `!ChannelsReturnedEidCurrent`, `!EsimActsAsNamed` | `EsimSound`, `EsimActs` | `EsimInv` |
| `!SettingsSurvive` | `SettingsKept` | `ConfigInv` |
| `!PartsInOnePlace` | `PartsOnce` | `ConcatInv` |
| `!ImportsAndEvictionsKeep` | `NothingGivenUp` | `ConfigInv`, `ConcatInv` |
| `!PageAndFlashAgree` | `InboxSound` | `InboxInv` |
| `!PageFollowsTheLog` | `LogInOrder` | `LogInv` |
| `!RestartsGiveBack` | `RestartsKeep` | `InboxInv`, `LogInv` |

The proofs of a module go the same way: lemmas about the operators (what a change of a
leg, a queue or a slot returns and preserves), a lemma that `Init` establishes the
invariant, one lemma per action or family of actions that it keeps it, and the theorem.

**Forwarding on ESP.** That `remaining` is the number of legs owed is not inductive: an id
could be used again, or a target be owed twice. `AccountingInv` adds that ids are fresh
(`FreshIds`), that no two entries share one (`UniqueIds`) and that an id has one leg per
target (`OneLegPerTarget`). The actions fall into families by what they do to the owed
targets: none (`QuietSteps`), a leg moved (`PickSteps`, `ReplaceSteps`, `HandSteps`),
entries cancelled (`CancelSteps`), a leg served (`SuccessStep`), a dispatch
(`DispatchStep`). That a free entry is always there (`EntryAlwaysFree`) is counting: every
entry owes a queued leg, two entries owe different ones. For the refinement each action is
mapped to the step of `ForwardLedger` it is, or to a stutter: a dispatch opens a promise, a
send that succeeds is an acceptance, a cancellation abandons promises, the mark is the
mark. `LedgerInv` adds to the accounting that nobody is forgotten (`NobodyForgotten`): a
target of an entry that has not accepted still has its leg. So a completion that reaches
zero has been accepted by all it was to reach, which is what the ledger asks.

**Forwarding on Linux.** Requests of the main loop and of the web thread run beside the
worker, so `DispatchInv` says that a request has a number of its own (`EvsApart`), what a
thread holds fits its step (`ClientsInOrder`) and a leg is in one place, be it a thread's
hands, the queue or the worker's (`LegsApart`). The refinement needs one thing more: that
the message the main loop is about to store is not in the store (`StoresNew`), for a
deletion or a mark by the web thread would otherwise come between. Both theorems are about
the forwarding alone (`Spec`); a target of an entry that has not failed accepted, was an
invalid channel, or still has its leg (`NobodyForgotten`). The corollary
`ForwardingAmongServices` carries them to `SumSpec`, the specification the run checks.

**Wi-Fi.** That the flag says what the link is once the events are handled needs to know what
the events will do: the last one that waits tells the link (`LastEventTells`). The state of
the hotspot is changed by the event handler, the close timer, the button, the page and the
task that watches the first connection; `WatchMissed` says that the last of these opens the
hotspot of a connected device only if the address came meanwhile (`crossed`). With it,
`SomebodyCloses` (a hotspot that opened by itself is about to be closed while the device is
connected) and `PortalUp` (no open hotspot without its DNS task) are inductive. They are the
safety half of `AutoCloses` and the whole of `PortalServed`, and name the same three orders the
code lets pass.

**Web jobs.** `OneFlag`: one flag at most is set, the task or page that is about to create a
job's task holds that job's flag, and when the scheduler is about to restart every flag set
was set since it found the device idle. `FlagsOwned`: whoever's flag is set has a step to
take, on every error path too; it is the safety half of `JobsMakeRoom`, which adds that steps are
taken and come to an end. `ListFollows` compares numbers of jobs: the list is as new as the
last job
that succeeded, hence a status that reports it done shows its list.

**Linux intake.** `KeptInStore`: what is neither on the way nor still to be looked at is in the
store in memory, held, deleted by the user or lost by a stop (parts in the assembler, or a
state file that cannot be read); the file lags only after a failed
write; `KeptOnDisk` follows. `OnceEach` counts for each command the look that is still to come,
the wait in the queue and the times it was carried out: together at most one, and one more for
each time its message stayed in the modem, which a failed deletion or a stop before it puts
back among those to be looked at. `OneWaits` pairs each waiting command with its flag, so that
`admin_sms_busy` is neither left taken nor taken twice.

**Receiving.** `NothingVanishes` asks at each erasing step where else the record is.
`SlotInHand` says that the record read is kept elsewhere by the time its slot is erased, and
`RoundInHand` that records are given up only at the end of a round that handled nothing, the
last of `StallMax` of them; a slot filled by a new message after a listing could otherwise
be erased unread. Two ways of losing one are in the code and in the property: the answer was
that of another slot (`Mistaken`), or the record was among those given up (`GivenUp`). The
theorem says that there is no third. `StoreSound` has a hypothesis in its theorem,
`RingHoldsAll`: the ring of recent texts (`SEEN_RING_MAX`, 32, `idf_sms.cpp:37`) has room
for all texts. It is what the code relies on and does not ensure: a text that 32 others have
pushed out of the ring is stored again when its record is read again.

**Schedulers.** `ScheduleInv`: only a job past its switch is away without a reason, the
reasons being a way back that failed, was cut off, impossible or unwanted (`stranded`), and a
switch the card made and reported as failed (`misled`); a job's last run is
no older than its last success, and a start in hand was due when it was looked at.
`paid` is bounded by `Longest`, which the code justifies by clamping intervals to 3650
days. `SchedulerInv` relates the loop's times, `cfg`, the configuration file and the
side-car (`TimesInOrder`, `TimesTell`), says when a day's mark is in the side-car
(`BeatMarked`) and how long ago a reboot was (`RebootMarked`), and counts for a waiting
task the jobs served meanwhile (`WaitCounted`): each at most once, but for a keep-alive
that fails.

**Modem and AT channel.** `IdentityInv` adds what the task holds between reading an
identity and writing it (`ReadInHand`). `OrderInv` orders the places an announcement
passes (wire, answer, buffer, taken), each newer than all that is nearer to the SMS
task; a command that is no download holds nothing back (`NothingHeld`). `NoneSwallowed` accounts
for every announcement: the SMS task read it on a line of its own (`told`), both its pieces are
in one of these places, or it is excused, because a piece met a full buffer or the end of a
download (`lost`), was read with nothing that says what it is (`cut`), or its line ran into
one cut short before it (`joined`). It is the safety half of `AllArrive`.

**The parts of `EspParts`.** Only the component that runs changes its variables
(`OneRuns`), so each is proved for itself.
* `UploadInv`: what is on the partition is the interval from the header to what is
  pending, which stays `KeepTail` behind what was received; hence the boundary is whole in
  what is kept back.
* `EsimInv`: an open channel is the session's or a lost one; an answer is of the card it
  was read from, unless cards were swapped; a profile that was resolved is the one named
  and the only one. With it goes that what is reported as done was done: enabled,
  disabled or deleted, on the card and to the profile named (`OkMeansDone`).
* `ConfigInv`: the keys a save has behind it are in flash with its values; an import
  without news of the jobs brings, once it has the lock, what RAM has.
* `ConcatInv`: the texts of two slots are disjoint, a slot at rest is empty, no text is
  anywhere before it was fed.
* `InboxInv`: while a write is under way flash and ring differ in the entry it is about
  only, the one evicted and the one added. What a restart keeps is argued by rank: the
  entries older than an entry are counted, ranks are the numbers from 0 up, and those
  within the capacity from the top are the ones restored, in that order.
* `LogInv`: how far back the ring and the surviving ring reach, at each of the five
  steps of `idf_log_line`; a page that shows a line of this session is not ahead of the
  counter.

**What proving changed.** The models were checked before, and most invariants only had to
be strengthened. Beyond that it brought out the exception in `NotRolledBack` and the
hypothesis `RingHoldsAll`, both described above; precedences that were parsed otherwise
than meant; types too weak to reason with (`OtaUpload` had none for its numbers); and
sequences filtered with `SelectSeq`, about which nothing can be proved without induction,
written as the least index of a set instead (`Left` of `ConfigNvs`).

**Only model-checked.**
* Liveness, because it involves fairness and `ENABLED`, which are out of the prover's reach
  here: `QueuesDrain`, `StorageDrains`, `TasksTakeTurns` of the ESP scheduler, `ComesBack`,
  `DataOffInTheEnd`, `AllArrive`, `Ends`, `StaysInReach`, `JobsMakeRoom`, `DispatchEnds`,
  `TakenIn`.
* The counterexamples of section 4.

Induction is not available to the provers used here. Where a proof needs one, a
well-ordering lemma (`LeastNatural`), a bijection with an interval, or the library's facts
about cardinality take its place; and a definition that only induction could unfold is
avoided. No module has a RECURSIVE operator.

## 6. Not modelled, and the plan

Not modelled for good: vendored and generated code (`pdulib`, `web_assets`), request and
mail formatting, TLS, SMTP and HTTP dialogues, the encoding of APDUs, the pages of the web
server and their authentication, the configuration parser, the matching of rules, socket
and serial drivers. They are sequential, stateless or pure input/output, and what they
decide is an input of the models. The Android shell hands delivery to the platform.
Outgoing messages of the ESP port and its admin commands are left out; the
decisions of `core/admin` are checked in `LinuxIntake`. Left out inside modelled parts are:
a Wi-Fi network built into the firmware (`idf_config.cpp:460-464`) and the switch of profile by
hand (`EspScheduler`); the capacity of the Linux message store and a configuration without
`inbox_file`, with which nothing is persisted; the state 'receiving' of ModemManager's list
(`modem_backend.cpp:371`): a message of which parts are missing would be taken in as it is.
`ModemTask` applies saved SIM settings in the step that saves them, or not at all; the AT
channel's mutex is waited for without a time limit. The ESP port's heartbeat and daily
reboot use the functions of `core/scheduler` that `LinuxScheduler` checks.

Of what the passing runs check only liveness is left without a theorem. Its safety halves
(`FlagsOwned`, `SomebodyCloses`, `PortalUp`, `NoneSwallowed`) are proved; what remains there is
that steps which are possible are taken, which needs `ENABLED`. Next would come a composition of
`SmsTask` with `ForwardPush`, whose interface (store, then enqueue) each of them has on its own
side today, and the hazards without a property that `PROJECT.json` lists with their reasons.
