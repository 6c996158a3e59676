----------------------------- MODULE ConfigNvs -----------------------------
(***************************************************************************)
(* The settings of the ESP-IDF port (components/idf_config): one copy in   *)
(* RAM, one in flash key by key, forms saved by the web server, progress   *)
(* of the periodic jobs written by their tasks, export, import, factory    *)
(* reset, and the load at start-up with its migration of the old single    *)
(* channel.  A write may fail and power may be lost between two keys.      *)
(*                                                                         *)
(* Data abstraction: a value is the number of the save that brought it, 0  *)
(* the default.  A few keys stand for all those of a form, the first       *)
(* channel and the first task for all.  Limits of lengths and numbers are  *)
(* left out, and so is a Wi-Fi network built into the firmware.            *)
(***************************************************************************)
EXTENDS Naturals, Sequences, SequencesExt

CONSTANTS
  Forms,        \* the forms the user saves
  LegacyUrl,    \* flash may come from the version with one channel
  None,
  MaxSaves,     \* bounds of the model: forms saved, exports, imports, resets
  MaxTime,      \* progress written
  MaxFailures,  \* operations of flash that fail
  MaxRestarts

\* A form: its keys in the order they are written, and those a blank field keeps.
Form(keys, kept) == [keys |-> keys, kept |-> kept]
WifiForm == Form(<<"wifiSsid", "wifiPass">>, {})
AccountForm == Form(<<"webUser", "webPass">>, {"webUser", "webPass"})
TimeForm == Form(<<"tzMin", "ntpSrv">>, {})
EmailForm == Form(<<"smtpServer", "smtpPass", "emailEn">>, {"smtpPass"})
PushForm == Form(<<"pushEn", "push0en", "push0url">>, {})
FilterForm == Form(<<"adminPhone", "numBlkList">>, {})
RulesForm == Form(<<"fwdRules">>, {})
KeepaliveForm == Form(<<"kaEn", "kaDays", "kaProfile">>, {"kaDays"})
SystemForm == Form(<<"rbEn", "hbEn">>, {})
SimForm == Form(<<"dataEn", "apn">>, {})
NetLedForm == Form(<<"netLed">>, {})
CallNotifyForm == Form(<<"callNotify">>, {})
\* The form of the tasks brings their progress along.
TaskForm == Form(<<"st0En", "st0Last">>, {})

AllForms == {WifiForm, AccountForm, TimeForm, EmailForm, PushForm, FilterForm, RulesForm,
             KeepaliveForm, SystemForm, SimForm, NetLedForm, CallNotifyForm, TaskForm}

\* The job tasks write one key each.
Progress == {"kaLast", "st0Last"}
Keys == Progress \cup UNION {ToSet(f.keys) : f \in Forms \cup {TaskForm}}
Secrets == Keys \cap {"wifiPass", "webPass", "smtpPass", "push0url"}
NeverBlank == Keys \cap {"webUser", "webPass"}
\* save_config_to_nvs, and so far as they are among the keys.
AllKeys ==
  <<"wifiSsid", "wifiPass", "smtpServer", "smtpPass", "adminPhone", "webUser", "webPass",
    "numBlkList", "fwdRules", "emailEn", "pushEn", "kaEn", "kaDays", "kaProfile", "kaLast",
    "tzMin", "ntpSrv", "rbEn", "hbEn", "netLed", "callNotify", "dataEn", "apn",
    "push0en", "push0url", "st0En", "st0Last">>
Default == [k \in Keys |-> 0]
Legacy == MaxSaves + MaxTime + 1
Redacted == MaxSaves + MaxTime + 2
Settings == [Keys -> 0 .. Redacted]

\* A save under way: its keys in order, how many of them are behind it, and the
\* settings it brings; for an import also those it was made from.
Save == [keys : Seq(ToSet(AllKeys)), value : Settings, base : Settings \cup {None},
         locked : BOOLEAN, at : Nat]

ConfigAssumption ==
  /\ Forms \subseteq AllForms /\ LegacyUrl \in BOOLEAN
  /\ {MaxSaves, MaxTime, MaxFailures, MaxRestarts} \subseteq Nat
  /\ None \notin Save \cup Settings \cup {"web", "job"}

VARIABLES
  nvs, ram,  \* flash, s_config
  legacy,    \* flash holds httpUrl
  file,      \* an exported backup
  persist,   \* who holds s_persist_mutex
  save,      \* the save the web server and the jobs have under way
  now,       \* the progress written last
  broken,    \* ghost: keys flash and RAM may differ in, after a failed write or load
  saves, failures, restarts

bounds == <<saves, failures, restarts>>
vars == <<nvs, ram, legacy, file, persist, save, now, broken, bounds>>

Threads == {"web", "job"}
Waits(t) == save[t] # None /\ ~save[t].locked
Writes(t) == save[t] # None /\ save[t].locked

TypeOK ==
  /\ {nvs, ram} \subseteq Settings /\ file \in Settings \cup {None}
  /\ legacy \in BOOLEAN /\ persist \in Threads \cup {None}
  /\ save \in [Threads -> Save \cup {None}]
  /\ \A t \in Threads : persist = t <=> Writes(t)
  /\ now \in 0 .. MaxTime /\ saves \in 0 .. MaxSaves /\ restarts \in 0 .. MaxRestarts
  /\ broken \subseteq Keys

-----------------------------------------------------------------------------
(* Loading.                                                                *)

\* idf_config_load: an empty first channel takes the old one over.
Migrated == Keys \cap {"push0en", "push0url"}
Load(n) ==
  [k \in Keys |-> IF /\ k \in Migrated /\ legacy
                     /\ n["push0en"] = 0 /\ n["push0url"] = 0
                  THEN Legacy ELSE n[k]]

Init ==
  /\ nvs = Default /\ legacy \in {FALSE, LegacyUrl} /\ ram = Load(nvs) /\ file = None
  /\ persist = None /\ save = [t \in Threads |-> None]
  /\ now = 0 /\ broken = {} /\ saves = 0 /\ failures = 0 /\ restarts = 0

\* Power is lost or the device restarts, at any time; nvs_open may fail.
Restart ==
  /\ restarts < MaxRestarts /\ restarts' = restarts + 1
  /\ \/ ram' = Load(nvs) /\ broken' = {} /\ UNCHANGED failures
     \/ failures < MaxFailures /\ failures' = failures + 1
        /\ ram' = Default /\ broken' = Keys
  /\ persist' = None /\ save' = [t \in Threads |-> None]
  /\ UNCHANGED <<nvs, legacy, file, now, saves>>

-----------------------------------------------------------------------------
(* What is to be saved.                                                    *)

Ask(t, keys, value, base) ==
  /\ save[t] = None
  /\ save' = [save EXCEPT ![t] = [keys |-> keys, value |-> value, base |-> base,
                                  locked |-> FALSE, at |-> 0]]
  /\ UNCHANGED <<nvs, ram, legacy, file, persist, broken, failures, restarts>>

\* One request is served at a time.
UserSaves == saves < MaxSaves /\ saves' = saves + 1 /\ UNCHANGED now

\* A form filled in, or left blank, which that of the Wi-Fi may not be.
SaveForm ==
  /\ UserSaves
  /\ \E form \in Forms \ {TaskForm}, blank \in BOOLEAN :
       (blank => form # WifiForm) /\
       Ask("web", form.keys,
           [k \in Keys |-> IF ~blank THEN saves' ELSE IF k \in form.kept THEN ram[k] ELSE 0],
           None)

\* idf_config_save_sched_tasks: the progress is read before the lock is taken,
\* and counts from now for a task switched on for the first time.
SaveTasks ==
  /\ UserSaves
  /\ \E on \in {0, 1} :
       Ask("web", TaskForm.keys,
           [Default EXCEPT !["st0En"] = on,
                           !["st0Last"] = IF on = 1 /\ ram["st0En"] = 0 /\ ram["st0Last"] = 0
                                          THEN now ELSE ram["st0Last"]],
           None)

Shown(full, k) == IF ~full /\ k \in Secrets /\ ram[k] # 0 THEN Redacted ELSE ram[k]
Export ==
  /\ UserSaves /\ save["web"] = None
  /\ \E full \in BOOLEAN : file' = [k \in Keys |-> Shown(full, k)]
  /\ UNCHANGED <<nvs, ram, legacy, persist, save, broken, failures, restarts>>

\* idf_config_import_json, idf_config_import_text: some keys, and a secret is not
\* replaced by the placeholder.  An account left blank in the backup becomes the
\* default (normalize_config), or, in the text, stays as it is.
Blindly(k) == file[k]   \* mutant
Imported(k) == IF file[k] = Redacted THEN ram[k] ELSE file[k]
Import ==
  /\ file # None /\ UserSaves
  /\ \E some \in {Keys, Keys \ Progress}, blank \in SUBSET NeverBlank, json \in BOOLEAN :
       Ask("web", AllKeys,
           [k \in Keys |-> IF k \in blank THEN (IF json THEN 0 ELSE ram[k])
                          ELSE IF k \in some THEN Imported(k) ELSE ram[k]],
           ram)

\* idf_config_set_keepalive_last, idf_config_set_sched_last
WriteProgress ==
  /\ now < MaxTime /\ now' = now + 1
  /\ \E k \in Progress : Ask("job", <<k>>, [Default EXCEPT ![k] = now'], None)
  /\ UNCHANGED saves

-----------------------------------------------------------------------------
(* Saving.                                                                 *)

Fails == failures < MaxFailures /\ failures' = failures + 1

\* Every way out gives the lock back.
Leave(t) == persist' = None /\ save' = [save EXCEPT ![t] = None]

\* merge_runtime_markers: an import that does not change the progress keeps
\* what has been written meanwhile.
MergeNothing(s) == s.value   \* mutant
Merged(s) ==
  [k \in Keys |-> IF s.base # None /\ k \in Progress /\ s.value[k] = s.base[k]
                  THEN ram[k] ELSE s.value[k]]

\* begin_field_save, commit_config_update
Lock(t) == Waits(t) /\ persist = None /\ persist' = t
Begin(t) ==
  /\ Lock(t)
  /\ save' = [save EXCEPT ![t] = [save[t] EXCEPT !.locked = TRUE, !.value = Merged(save[t])]]
  /\ UNCHANGED <<nvs, ram, legacy, file, now, broken, bounds>>

Left(s) == {i \in s.at + 1 .. Len(s.keys) : s.keys[i] \in Keys}
WriteKey(t) ==
  /\ Writes(t)
  /\ \E i \in Left(save[t]) :
       /\ \A j \in Left(save[t]) : i <= j
       /\ LET k == save[t].keys[i]
          IN  nvs' = [nvs EXCEPT ![k] = save[t].value[k]] /\ broken' = broken \cup {k}
       /\ save' = [save EXCEPT ![t] = [save[t] EXCEPT !.at = i]]
  /\ UNCHANGED <<ram, legacy, file, persist, now, bounds>>

\* nvs_open, a write or the commit fails: RAM stays as it is.
SaveFails(t) ==
  /\ Writes(t) /\ Fails
  /\ Leave(t)
  /\ UNCHANGED <<nvs, ram, legacy, file, now, broken, saves, restarts>>

\* commit_field_save, and the fields of the save go to RAM.
Applied(s) == [k \in Keys |-> IF k \in ToSet(s.keys) THEN s.value[k] ELSE ram[k]]
Apply(t) ==
  /\ Writes(t) /\ Left(save[t]) = {}
  /\ ram' = Applied(save[t])
  /\ broken' = broken \ ToSet(save[t].keys)
  /\ Leave(t)
  /\ UNCHANGED <<nvs, legacy, file, now, bounds>>

\* idf_config_factory_reset erases flash under the same lock; it may fail after
\* some keys are gone, and RAM stays as it is.
FactoryReset ==
  /\ save["web"] = None /\ persist = None /\ UserSaves
  /\ \/ /\ nvs' = Default /\ legacy' = FALSE /\ ram' = Default /\ broken' = {}
        /\ UNCHANGED failures
     \/ /\ Fails /\ UNCHANGED ram
        /\ \E erased \in SUBSET Keys, old \in {legacy, FALSE} :
             /\ nvs' = [k \in Keys |-> IF k \in erased THEN 0 ELSE nvs[k]]
             /\ legacy' = old
             /\ broken' = broken \cup erased \cup (IF old = legacy THEN {} ELSE Migrated)
  /\ UNCHANGED <<file, persist, save, restarts>>

-----------------------------------------------------------------------------
Saves(t) == Begin(t) \/ WriteKey(t) \/ SaveFails(t) \/ Apply(t)

Next ==
  \/ SaveForm \/ SaveTasks \/ Export \/ Import \/ WriteProgress \/ FactoryReset \/ Restart
  \/ \E t \in Threads : Saves(t)

Spec == Init /\ [][Next]_vars
\* A task that waits for a mutex gets it in its turn, and a save runs on.
FairSpec == Spec /\ \A t \in Threads : SF_vars(Begin(t)) /\ WF_vars(WriteKey(t) \/ Apply(t))

-----------------------------------------------------------------------------
\* Restarting changes no setting: whoever reads flash again finds what RAM
\* has, save for the keys of a write that failed or is under way, and for a
\* first channel that was migrated: the user may empty it, but httpUrl stays.
RestartKeeps ==
  \A k \in Keys \ broken :
    ~(legacy /\ k \in Migrated) => ram[k] = Load(nvs)[k]

\* The placeholder of a redacted backup never becomes a password or an
\* address (is_redacted_secret).
NoPlaceholder == \A k \in Secrets : Redacted \notin {ram[k], nvs[k]}

\* A backup without news of the jobs does not undo the progress they write
\* while it is imported (merge_runtime_markers).
Importing == Writes("web") /\ save["web"].base # None
ImportKeepsProgress ==
  [][\A k \in Progress :
       Importing /\ file[k] = save["web"].base[k] /\ save'["web"] = None /\ restarts' = restarts
       => ram'[k] = ram[k]]_vars

-----------------------------------------------------------------------------
(* What makes these inductive.                                             *)

\* No value is the placeholder but in a backup.
NowhereRedacted ==
  /\ \A k \in Keys : Redacted \notin {ram[k], nvs[k]}
  /\ \A t \in Threads : save[t] # None => \A k \in Keys : save[t].value[k] # Redacted

\* What a save has behind it is in flash.
WrittenSoFar ==
  \A t \in Threads : save[t] # None =>
    /\ save[t].locked \/ save[t].at = 0
    /\ \A i \in 1 .. save[t].at : i \in DOMAIN save[t].keys /\ save[t].keys[i] \in Keys
                                    => nvs[save[t].keys[i]] = save[t].value[save[t].keys[i]]

\* An import without news of the jobs brings what it found, or, once it has the
\* lock, what there is.
NoNews ==
  save["web"] # None /\ save["web"].base # None =>
    /\ file # None
    /\ \A k \in Progress : file[k] = save["web"].base[k] =>
         save["web"].value[k] = (IF save["web"].locked THEN ram[k] ELSE save["web"].base[k])

ConfigInv == TypeOK /\ RestartKeeps /\ NowhereRedacted /\ WrittenSoFar /\ NoNews
=============================================================================
