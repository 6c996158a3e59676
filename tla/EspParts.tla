------------------------------ MODULE EspParts ------------------------------
(***************************************************************************)
(* Small components of the ESP-IDF port, each for itself: a behaviour is   *)
(* one of the component that "runs" names, while the others stay as they   *)
(* are at first.                                                           *)
(***************************************************************************)
EXTENDS Integers, Sequences

CONSTANTS
  None,
  Capacity, MaxId, OldFlash,                                     \* of InboxFlash
  Callers, Hidden, Gap, Delay, MaxCalls,                         \* of CallTracker
  Headers, Firmwares, Marker, Tails, Slack, Piece, PartSize, HeaderMax, MaxPauses, \* of OtaUpload
  RingSize, PrevSize, MaxLines, MaxResets, MaxShown,             \* of LogBuffer
  Forms, LegacyUrl, MaxSaves, MaxTime, MaxFailures, MaxRestarts, \* of ConfigNvs
  Cards, Content, Aliases, Alias, Swept, OutOfRange, ChainMax, MaxTrouble, MaxSwaps, MaxOps, \* of EsimSession
  Slots, Parts, TimeOut, MessageKeys, NoKey, Inputs, MaxDeliveries      \* of ConcatAssembler

VARIABLES
  runs,  \* the component of this behaviour
  inboxRing, inboxHead, filled, inboxSeq, inboxFlash, ready, inboxPc, victim, fresh, missed,
  age, notified, saw, number, ringing, silence, told, last, callsSince, calls,
  form, sha, lo, hi, inFile, written, otaBroken, pauses, otaPc, boot,
  at, logRing, next, count, logSeq, mirror, buf, logHead, used, check, prev, logFlash,
  toSave, tried, logSince, shown, n, first, gap, resets,
  nvs, ram, legacy, file, persist, save, now, configBroken, saves, failures, restarts,
  card, there, on, open, op, ask, esimPc, channel, parts, answer, read, result, eid, stale,
  unnoticed, lost, swapped, trouble, ops, swaps,
  slots, emitted, delivered, repeated

inboxVars ==
  <<inboxRing, inboxHead, filled, inboxSeq, inboxFlash, ready, inboxPc, victim, fresh, missed>>
callsVars ==
  <<age, notified, saw, number, ringing, silence, told, last, callsSince, calls>>
otaVars ==
  <<form, sha, lo, hi, inFile, written, otaBroken, pauses, otaPc, boot>>
logVars ==
  <<at, logRing, next, count, logSeq, mirror, buf, logHead, used, check, prev, logFlash,
   toSave, tried, logSince, shown, n, first, gap, resets>>
configVars ==
  <<nvs, ram, legacy, file, persist, save, now, configBroken, saves, failures, restarts>>
esimVars ==
  <<card, there, on, open, op, ask, esimPc, channel, parts, answer, read, result, eid, stale,
   unnoticed, lost, swapped, trouble, ops, swaps>>
concatVars ==
  <<slots, emitted, delivered, repeated>>

Inbox == INSTANCE InboxFlash WITH
  ring <- inboxRing, head <- inboxHead, seq <- inboxSeq, flash <- inboxFlash, pc <- inboxPc
Calls == INSTANCE CallTracker WITH since <- callsSince
Ota == INSTANCE OtaUpload WITH broken <- otaBroken, pc <- otaPc
Log == INSTANCE LogBuffer WITH
  ring <- logRing, seq <- logSeq, head <- logHead, flash <- logFlash, since <- logSince
Config == INSTANCE ConfigNvs WITH broken <- configBroken
Esim == INSTANCE EsimSession WITH pc <- esimPc
Concat == INSTANCE ConcatAssembler WITH Keys <- MessageKeys

ASSUME InboxAssumption ==
  Inbox!CapacityPositive /\ Inbox!OldFlashIsFlash /\ Inbox!OldFlashHasKeys /\ Inbox!MaxIdNat
ASSUME CallsAssumption == Calls!DelaysAssumption
ASSUME OtaAssumption == Ota!OtaAssumption
ASSUME LogAssumption == Log!LogAssumption
ASSUME ConfigAssumption == Config!ConfigAssumption
ASSUME EsimAssumption == Esim!EsimAssumption
ASSUME ConcatAssumption ==
  Concat!SizesArePositive /\ Concat!InputsAreHeaders /\ Concat!NoKeyNoKey

vars == <<runs, inboxVars, callsVars, otaVars, logVars, configVars, esimVars, concatVars>>

Init ==
  /\ runs \in {"Inbox", "Calls", "Ota", "Log", "Config", "Esim", "Concat"}
  /\ Inbox!Init
  /\ runs # "Inbox" => inboxFlash = {}
  /\ Calls!Init
  /\ Ota!Init
  /\ runs # "Ota" => form = (CHOOSE f \in Ota!Requests : TRUE) /\ sha = "none"
  /\ Log!Init
  /\ Config!Init
  /\ runs # "Config" => ~legacy
  /\ Esim!Init
  /\ runs # "Esim" => card = (CHOOSE k \in Cards : TRUE) /\ on = [k \in Cards |-> None]
  /\ Concat!Init

\* The others rest.
InboxAlone == runs = "Inbox" /\ UNCHANGED <<runs, callsVars, otaVars, logVars, configVars, esimVars, concatVars>>
CallsAlone == runs = "Calls" /\ UNCHANGED <<runs, inboxVars, otaVars, logVars, configVars, esimVars, concatVars>>
OtaAlone == runs = "Ota" /\ UNCHANGED <<runs, inboxVars, callsVars, logVars, configVars, esimVars, concatVars>>
LogAlone == runs = "Log" /\ UNCHANGED <<runs, inboxVars, callsVars, otaVars, configVars, esimVars, concatVars>>
ConfigAlone == runs = "Config" /\ UNCHANGED <<runs, inboxVars, callsVars, otaVars, logVars, esimVars, concatVars>>
EsimAlone == runs = "Esim" /\ UNCHANGED <<runs, inboxVars, callsVars, otaVars, logVars, configVars, concatVars>>
ConcatAlone == runs = "Concat" /\ UNCHANGED <<runs, inboxVars, callsVars, otaVars, logVars, configVars, esimVars>>

Next ==
  \/ InboxAlone /\ Inbox!Next
  \/ CallsAlone /\ Calls!Next
  \/ OtaAlone /\ Ota!Next
  \/ LogAlone /\ Log!Next
  \/ ConfigAlone /\ Config!Next
  \/ EsimAlone /\ Esim!Next
  \/ ConcatAlone /\ Concat!Next
Spec == Init /\ [][Next]_vars

FairSpec ==
  /\ Spec
  /\ WF_esimVars(runs = "Esim" /\ (Esim!Work))
  /\ WF_concatVars(runs = "Concat" /\ (Concat!Tick))
  /\ WF_concatVars(runs = "Concat" /\ (Concat!Expire))

-----------------------------------------------------------------------------
\* The page lists the newest first, and the flash holds what the page shows, mark for
\* mark, but for the entries whose last write failed (idf_inbox.cpp:80-300).
InboxSound == runs = "Inbox" => Inbox!TypeOK /\ Inbox!NewestFirst /\ Inbox!FlashMirrors

\* Every call is told, once, however long it rings and whether or not a number comes
\* with it, and a number that is told is of who calls (call.cpp:19-55).
EachCallTold ==
  /\ [](runs = "Calls" => Calls!TypeOK /\ Calls!ToldOnce /\ Calls!EveryCallTold)
  /\ Calls!ToldWho

\* The device boots a new firmware only if all of it, and nothing else, is on the
\* partition, in whatever pieces the request came, and a form of one file is not
\* refused for where its pieces end (idf_web.cpp:1775-1875).
UploadExact ==
  runs = "Ota" => Ota!TypeOK /\ Ota!BootsWhatWasSent /\ Ota!BoundaryKept /\ Ota!StaysInside

\* The page shows the lines of the session in order, none twice and none left out,
\* as long as no line passed it by (idf_log.cpp:359-399).
LogInOrder == runs = "Log" => Log!TypeOK /\ Log!ShownInOrder

\* A restart gives back the settings as they were, but for keys whose write failed or
\* was cut off, and the placeholder of a backup replaces no secret
\* (idf_config.cpp:331, 1003-1130).
SettingsKept ==
  runs = "Config" => Config!TypeOK /\ Config!RestartKeeps /\ Config!NoPlaceholder

\* Between two operations no logical channel is left open but those whose answer was
\* lost, and the EID that is kept is the card's (idf_esim.cpp:405-459, 677-718).
EsimSound ==
  runs = "Esim" => Esim!TypeOK /\ Esim!ChannelsReturned /\ Esim!EidCurrent

\* A delivered part is in one slot or in one emission, never in two places, and no two
\* slots collect the same message (pdu.cpp:210-292).
PartsOnce == runs = "Concat" => Concat!TypeOK /\ Concat!SlotsSound /\ Concat!NothingTwice

\* A restart, at whatever step it strikes, gives back the newest entries of the inbox
\* with their marks and the last lines of the session's log in order, and nobody's
\* view of the log goes back without one (idf_inbox.cpp:154-181, idf_log.cpp:82-101).
RestartsKeep ==
  Inbox!RestartKeepsNewest /\ Log!RestartKeepsLog /\ Log!CursorNotBack

\* A backup does not undo the progress the jobs write while it is imported, and no
\* part of a long message leaves its slot without being shown unless the slot had
\* timed out (idf_config.cpp:1095, pdu.cpp:216-245).
NothingGivenUp == Config!ImportKeepsProgress /\ Concat!LeavesEmitted

\* An alias that fits two profiles is refused, and an operation that reports success
\* was carried out by the card on a profile of that name (idf_esim.cpp:796-944).
EsimActs == Esim!NeverGuesses /\ Esim!OkMeansDone

\* pdu.h:77: no part of a long message is dropped silently.
NoSilentDrop == Concat!NoSilentDrop

\* Every eSIM operation ends, whatever the card answers, and every incomplete message
\* leaves its slot (idf_esim.cpp:527-561, pdu.cpp:281-292).
Ends == Esim!OperationEnds /\ Concat!SlotsFreed
=============================================================================
