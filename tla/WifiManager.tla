---------------------------- MODULE WifiManager ----------------------------
(***************************************************************************)
(* The Wi-Fi manager of the ESP-IDF port (components/idf_wifi): the first  *)
(* connection and the hotspot it falls back to, reconnection on events and *)
(* by the watchdog, provisioning from the hotspot, the BOOT button, scans  *)
(* and the DNS task of the captive portal.  The event task, the timer      *)
(* task, the watch task of the first connection, the button task and the   *)
(* web server run concurrently; the driver posts events to a queue.        *)
(*                                                                         *)
(* Data abstraction: credentials are the network they open, and a wrong    *)
(* password is a network that is never on the air.  A time-out may pass at *)
(* any time.  Addresses, the mDNS responder and the time server are left   *)
(* out, and so are other tasks and timers that cannot be created.          *)
(***************************************************************************)
EXTENDS Naturals, Sequences

CONSTANTS
  Networks,   \* what can be configured
  None,       \* no credentials
  StreakMax,  \* disconnections in a row that are answered at once
  SlowTicks,  \* watchdog ticks for one attempt while the hotspot is open
  MaxQueue,   \* bound of the model: events that wait
  MaxEvents   \* bound of the model: networks that come or go, attempts and driver calls
              \* that fail, scans, buttons, provisionings, reconnections asked for

NoneIsNoNetwork == None \notin Networks
LimitsPositive == {StreakMax, SlowTicks} \subseteq Nat \ {0}

VARIABLES
  air,           \* networks in reach whose password is right
  radio,         \* mode of the driver: "STA" or "APSTA"
  conf,          \* credentials in the driver (s_sta_configured, s_has_sta_credentials)
  link,          \* "down", "joining" or "up"
  scanning,      \* a scan runs
  queue,         \* events posted and not handled: "disconnected", "gotIp"
  ap,            \* s_ap_mode and s_ap_manual_mode: "off", "auto" or "manual"
  connected,     \* s_sta_connected
  streak,        \* s_disconnect_streak, no further than StreakMax + 1
  tick,          \* of the watchdog
  provisioning,  \* s_provisioning
  timer,         \* s_ap_close_timer runs
  watch, button, \* where the tasks that open the hotspot are; WIFI_CONNECTED_BIT wakes watch
  handler,       \* the event task: "idle" or "closing" the hotspot
  web,           \* the provisioning handler: None or the credentials to be set
  dns,           \* the DNS task: "off", "on", or "leaving" with its flag still set
  crossed,       \* ghost: an address came while the hotspot was being opened
  refused,       \* ghost: the driver refused a change of mode
  late,          \* ghost: the DNS task was wanted while it was leaving, or has no socket
  events

driver == <<air, radio, conf, link, scanning>>
flags == <<connected, streak, tick, provisioning, timer>>
tasks == <<watch, button, handler, web>>
ghosts == <<crossed, refused, late>>
vars == <<driver, queue, ap, flags, tasks, dns, ghosts, events>>

Init ==
  /\ air \in SUBSET Networks /\ conf \in Networks \cup {None}
  /\ radio = "STA" /\ scanning = FALSE /\ queue = <<>>
  /\ ap = "off" /\ connected = FALSE /\ streak = 0 /\ tick = 0
  /\ provisioning = FALSE /\ timer = FALSE
  /\ link = (IF conf = None THEN "down" ELSE "joining")
  /\ watch = (IF conf = None THEN "opening" ELSE "waiting")
  /\ button = "idle" /\ handler = "idle" /\ web = None /\ dns = "off"
  /\ crossed = FALSE /\ refused = FALSE /\ late = FALSE /\ events = 0

-----------------------------------------------------------------------------
(* The driver.                                                             *)

Event == events < MaxEvents /\ events' = events + 1
Post(e) == Len(queue) < MaxQueue /\ queue' = Append(queue, e)

\* esp_wifi_connect: an error while scanning, nothing while joining or joined.
Connect ==
  IF conf # None /\ link = "down" /\ ~scanning THEN link' = "joining" ELSE UNCHANGED link

Joins ==
  /\ link = "joining" /\ conf \in air
  /\ link' = "up" /\ Post("gotIp")
  /\ UNCHANGED <<air, radio, conf, scanning, ap, flags, tasks, dns, ghosts, events>>

JoinFails ==
  /\ link = "joining"
  /\ IF conf \in air THEN Event ELSE UNCHANGED events
  /\ link' = "down" /\ Post("disconnected")
  /\ UNCHANGED <<air, radio, conf, scanning, ap, flags, tasks, dns, ghosts>>

LinkLost ==
  /\ link = "up"
  /\ IF conf \in air THEN Event ELSE UNCHANGED events
  /\ link' = "down" /\ Post("disconnected")
  /\ UNCHANGED <<air, radio, conf, scanning, ap, flags, tasks, dns, ghosts>>

NetworksChange ==
  /\ Event
  /\ air' \in (SUBSET Networks) \ {air}
  /\ UNCHANGED <<radio, conf, link, scanning, queue, ap, flags, tasks, dns, ghosts>>

\* idf_wifi_scan_json: the driver does not scan while it joins.
StartScan ==
  /\ ~scanning /\ link # "joining" /\ Event
  /\ scanning' = TRUE
  /\ UNCHANGED <<air, radio, conf, link, queue, ap, flags, tasks, dns, ghosts>>

EndScan ==
  /\ scanning /\ scanning' = FALSE
  /\ UNCHANGED <<air, radio, conf, link, queue, ap, flags, tasks, dns, ghosts, events>>

-----------------------------------------------------------------------------
(* The event task: wifi_event_handler.                                     *)

StillConnected == UNCHANGED connected   \* mutant
NotConnected == connected' = FALSE
HandleDisconnected ==
  /\ handler = "idle" /\ queue # <<>> /\ Head(queue) = "disconnected"
  /\ queue' = Tail(queue)
  /\ NotConnected
  /\ streak' = (IF streak > StreakMax THEN streak ELSE streak + 1)
  /\ IF streak' <= StreakMax THEN Connect ELSE UNCHANGED link
  /\ UNCHANGED <<air, radio, conf, scanning, ap, tick, provisioning, timer, tasks, dns, ghosts>>
  /\ UNCHANGED events

\* The hotspot stays a while for the provisioning page, closes at once if it
\* was opened by itself, and stays if the button opened it.
Opening == "opened" \in {watch, button} \/ "opening" \in {watch, button}
ClosesSoon == provisioning
HandleGotIp ==
  /\ handler = "idle" /\ queue # <<>> /\ Head(queue) = "gotIp"
  /\ queue' = Tail(queue)
  /\ connected' = TRUE /\ streak' = 0
  /\ watch' = (IF watch = "waiting" THEN "woken" ELSE watch)
  /\ crossed' = (crossed \/ Opening)
  /\ IF ap = "off" THEN UNCHANGED <<provisioning, timer, handler>>
     ELSE IF ClosesSoon THEN provisioning' = FALSE /\ timer' = TRUE /\ UNCHANGED handler
     ELSE /\ handler' = (IF ap = "auto" THEN "closing" ELSE "idle")
          /\ UNCHANGED <<provisioning, timer>>
  /\ UNCHANGED <<driver, ap, tick, button, web, dns, refused, late, events>>

\* esp_wifi_set_mode(STA), then set_ap_state
Close ==
  \/ radio' = "STA" /\ ap' = "off" /\ UNCHANGED <<refused, events>>
  \/ Event /\ refused' = TRUE /\ UNCHANGED <<radio, ap>>
HandlerCloses ==
  /\ handler = "closing" /\ handler' = "idle"
  /\ Close
  /\ UNCHANGED <<air, conf, link, scanning, queue, flags, watch, button, web, dns, crossed, late>>

-----------------------------------------------------------------------------
(* The timer task.                                                         *)

CloseTimer ==
  /\ timer /\ timer' = FALSE
  /\ IF ap = "off" THEN UNCHANGED <<radio, ap, refused, events>> ELSE Close
  /\ UNCHANGED <<air, conf, link, scanning, queue, connected, streak, tick, provisioning>>
  /\ UNCHANGED <<tasks, dns, crossed, late>>

\* reconnect_watchdog_cb, every 15 s.
NotWhileOpen == ap = "off" /\ Connect   \* mutant
NextTick == (tick + 1) % SlowTicks
Retry == IF ap = "off" \/ tick' = 0 THEN Connect ELSE UNCHANGED link
Watchdog ==
  /\ conf # None /\ ~connected
  /\ tick' = NextTick
  /\ Retry
  /\ UNCHANGED <<air, radio, conf, scanning, queue, ap, connected, streak, provisioning>>
  /\ UNCHANGED <<timer, tasks, dns, ghosts, events>>

-----------------------------------------------------------------------------
(* The tasks that open the hotspot: start_provisioning_ap.                 *)

\* start_dns_task_once; the task ends at once when it gets no socket or port.
StartDns ==
  \/ /\ dns' = (IF dns = "off" THEN "on" ELSE dns)
     /\ late' = (late \/ dns = "leaving") /\ UNCHANGED events
  \/ dns = "off" /\ Event /\ late' = TRUE /\ UNCHANGED dns

WatchConnected ==
  /\ watch = "woken"
  /\ watch' = "done" /\ ap' = "off"
  /\ UNCHANGED <<driver, queue, flags, button, handler, web, dns, ghosts, events>>

GivesUp == watch' = "opening"
WatchTimesOut ==
  /\ watch = "waiting"
  /\ GivesUp
  /\ UNCHANGED <<driver, queue, ap, flags, button, handler, web, dns, ghosts, events>>

PressButton ==
  /\ button = "idle" /\ Event
  /\ button' = "opening"
  /\ UNCHANGED <<driver, queue, ap, flags, watch, handler, web, dns, ghosts>>

\* What is found open is kept; the button makes it its own, even if it has been
\* closed meanwhile.
StaysOpen(task, kind) ==
  /\ task = "opening" /\ ap # "off" /\ (kind = "manual" => ap = "manual")
  /\ StartDns
  /\ UNCHANGED <<radio, link, ap, refused>>

FindsOpen == button = "opening" /\ ap = "auto" /\ UNCHANGED <<radio, ap, link, dns, refused, late, events>>
MakesItsOwn ==
  /\ button = "keeping"
  /\ ap' = "manual"
  /\ StartDns
  /\ UNCHANGED <<radio, link, refused>>

SetsMode(task) ==
  /\ task = "opening" /\ ap = "off"
  /\ radio' = "APSTA"
  /\ UNCHANGED <<ap, link, dns, refused, late, events>>

ModeRefused(task) ==
  /\ task = "opening" /\ ap = "off" /\ Event
  /\ refused' = TRUE
  /\ UNCHANGED <<radio, ap, link, dns, late>>

Opens(task, kind) ==
  /\ task = "opened"
  /\ Connect
  /\ ap' = kind
  /\ StartDns
  /\ UNCHANGED <<radio, refused>>

WatchOpens ==
  /\ \/ (StaysOpen(watch, "auto") \/ ModeRefused(watch) \/ Opens(watch, "auto")) /\ watch' = "done"
     \/ SetsMode(watch) /\ watch' = "opened"
  /\ UNCHANGED <<air, conf, scanning, queue, flags, button, handler, web, crossed>>

ButtonOpens ==
  /\ \/ StaysOpen(button, "manual") /\ button' = "idle"
     \/ FindsOpen /\ button' = "keeping"
     \/ MakesItsOwn /\ button' = "idle"
     \/ ModeRefused(button) /\ button' = "idle"
     \/ SetsMode(button) /\ button' = "opened"
     \/ Opens(button, "manual") /\ button' = "idle"
  /\ UNCHANGED <<air, conf, scanning, queue, flags, watch, handler, web, crossed>>

\* dns_captive_task ends ten seconds after the hotspot.
DnsLeaves ==
  /\ dns = "on" /\ ap = "off"
  /\ dns' = "leaving"
  /\ UNCHANGED <<driver, queue, ap, flags, tasks, ghosts, events>>

DnsEnds ==
  /\ dns = "leaving" /\ dns' = "off"
  /\ UNCHANGED <<driver, queue, ap, flags, tasks, ghosts, events>>

-----------------------------------------------------------------------------
(* The web server.                                                         *)

\* idf_wifi_provision_connect, while the hotspot is open: the old connection is
\* given up ...
Provision ==
  /\ web = None /\ ap # "off" /\ Event
  /\ web' \in Networks
  /\ radio' = "APSTA"
  /\ IF link = "down" THEN UNCHANGED <<link, queue>> ELSE link' = "down" /\ Post("disconnected")
  /\ UNCHANGED <<air, conf, scanning, ap, flags, watch, button, handler, dns, ghosts>>

\* ... and the new one begun, unless the event task was faster: a driver that
\* joins again refuses the new credentials, and one that has joined again stays
\* with the old network for now.
SetCredentials ==
  /\ web # None /\ web' = None
  /\ IF link = "joining"
     THEN UNCHANGED <<conf, link, provisioning>>
     ELSE /\ conf' = web /\ provisioning' = TRUE
          /\ link' = (IF link = "down" /\ ~scanning THEN "joining" ELSE link)
  /\ UNCHANGED <<air, radio, scanning, queue, ap, connected, streak, tick, timer>>
  /\ UNCHANGED <<watch, button, handler, dns, ghosts, events>>

\* idf_wifi_reconnect
Reconnect ==
  /\ conf # None /\ Event
  /\ Connect
  /\ UNCHANGED <<air, radio, conf, scanning, queue, ap, connected, streak, tick, provisioning>>
  /\ UNCHANGED <<timer, tasks, dns, ghosts>>

Handle == HandleDisconnected \/ HandleGotIp \/ HandlerCloses
Open == WatchConnected \/ WatchTimesOut \/ WatchOpens
Driver == Joins \/ JoinFails \/ EndScan
Dns == DnsLeaves \/ DnsEnds
Next ==
  \/ Driver \/ LinkLost \/ NetworksChange \/ StartScan
  \/ Handle \/ CloseTimer \/ Watchdog \/ Open \/ PressButton \/ ButtonOpens \/ Dns
  \/ Provision \/ SetCredentials \/ Reconnect

Spec == Init /\ [][Next]_vars

\* Every task goes on, timers fire, attempts and scans end.
Fairness ==
  /\ WF_vars(Joins \/ JoinFails) /\ WF_vars(EndScan) /\ WF_vars(Handle)
  /\ WF_vars(CloseTimer) /\ WF_vars(Watchdog) /\ WF_vars(Open) /\ WF_vars(ButtonOpens)
  /\ WF_vars(DnsLeaves) /\ WF_vars(DnsEnds) /\ WF_vars(SetCredentials)
FairSpec == Spec /\ Fairness

-----------------------------------------------------------------------------
(* Properties.                                                             *)

Opener == {"opening", "opened"}
TypeOK ==
  /\ air \subseteq Networks /\ radio \in {"STA", "APSTA"} /\ conf \in Networks \cup {None}
  /\ link \in {"down", "joining", "up"} /\ queue \in Seq({"disconnected", "gotIp"})
  /\ ap \in {"off", "auto", "manual"} /\ streak \in 0..(StreakMax + 1) /\ tick \in 0..(SlowTicks - 1)
  /\ {scanning, connected, provisioning, timer, crossed, refused, late} \subseteq BOOLEAN
  /\ watch \in Opener \cup {"waiting", "woken", "done"} /\ button \in Opener \cup {"idle", "keeping"}
  /\ handler \in {"idle", "closing"} /\ web \in Networks \cup {None}
  /\ dns \in {"off", "on", "leaving"}

\* Once all events are handled the flag the watchdog goes by says what the link
\* is: a link that is down and thought up would never be tried again
\* (idf_wifi.cpp:320, 343).
FlagCurrent == queue = <<>> => (connected <=> link = "up")

\* Whatever was lost, refused or scanned before, a network that stays in reach
\* is joined in the end, with the hotspot open or not (idf_wifi.cpp:371).
Reconnects == <>[](conf \in air) => <>[]connected

\* A first connection that does not come about opens the hotspot, unless the
\* driver refuses it (idf_wifi.cpp:882).
FallsBack == <>(ap # "off" \/ connected \/ refused)

\* A hotspot nobody asked for by the button closes once the device is
\* connected for good.  One order escapes: the address comes while a task is
\* opening the hotspot.
AutoCloses ==
  <>[]connected => <>[](ap # "auto") \/ <>(crossed \/ refused)

\* Behind it: while a hotspot that opened by itself is open and the device connected,
\* somebody is about to close it (idf_wifi.cpp:102-126, 356-366, 880-889).
SomebodyCloses ==
  ap = "auto" /\ connected => timer \/ handler = "closing" \/ crossed \/ refused

\* While the hotspot stays open its portal answers names, unless the task was
\* wanted while it was leaving or got no socket (idf_wifi.cpp:387-411, 461).
PortalServed == <>[](ap # "off") => <>[](dns = "on" \/ late)

\* Behind it: no open hotspot without its DNS task (idf_wifi.cpp:461-470, 772-775, 813-814).
PortalUp == ap # "off" => dns = "on" \/ late

\* idf_wifi.cpp:80: an open hotspot must not be reported as closed.
HotspotReported == (radio = "APSTA" /\ watch = "done" /\ button = "idle" /\ web = None) => ap # "off"

-----------------------------------------------------------------------------
\* What makes these inductive: the last event that waits says what the link is, and the
\* task of the first connection opens the hotspot of a connected device only if the
\* address came meanwhile.
LastEventTells == queue # <<>> => (queue[Len(queue)] = "gotIp" <=> link = "up")
WatchMissed == connected => watch # "waiting" /\ (watch \in Opener => crossed)
WifiInv ==
  TypeOK /\ FlagCurrent /\ LastEventTells /\ WatchMissed /\ SomebodyCloses /\ PortalUp
=============================================================================
