---------------------------- MODULE LinuxIntake ----------------------------
(***************************************************************************)
(* How the Linux service takes messages in (ports/linux/src/main.cpp with  *)
(* modem_backend.cpp, the drivers and ThreadSafeMessageStore): the main    *)
(* loop lists what the modem holds, decodes, assembles, stores or obeys    *)
(* each message and then deletes it from the modem; the store is written   *)
(* to its state file as a whole after every change.  The web server and    *)
(* the worker change the store between the loop's steps, a write or a      *)
(* deletion may fail, and the service may stop anywhere and start again.   *)
(*                                                                         *)
(* Data abstraction: a message is a name.  The store keeps for each entry  *)
(* the names of the parts it shows; its capacity, the sent box and the     *)
(* marks are left out, what they write of the file is not.  One long       *)
(* message is assembled (see ConcatAssembler for its slots).  An inbox     *)
(* file is configured, and ModemManager, where it is used, lists no        *)
(* message of which it still receives parts.                               *)
(***************************************************************************)
EXTENDS Naturals, Sequences, FiniteSets, Functions

CONSTANTS
  Plain,        \* messages by what becomes of them: shown,
  Parts,        \* assembled to one that is shown,
  Orders,       \* commands of the administrator: SMS:number:text,
  Resets,       \* RESET,
  Garbled,      \* not decodable
  MaxTrouble    \* bound of the model: inspections, deletions, writes and reads that fail,
                \* and crashes

Messages == Plain \cup Parts \cup Orders \cup Resets \cup Garbled
Commands == Orders \cup Resets

KindsApart ==
  /\ Garbled \cap (Plain \cup Parts \cup Commands) = {}
  /\ Plain \cap (Parts \cup Commands) = {}
  /\ Parts \cap Commands = {} /\ Orders \cap Resets = {}
PartsExist == Parts # {}

VARIABLES
  coming,   \* messages the network has still to deliver
  modem,    \* messages in the memory of the modem or its card
  batch,    \* what the last listing returned and is still to be looked at
  pc,       \* where the loop is: "collect", "each", "delete", "rest", "stopped"
  cur,      \* the message to be deleted, in a set
  held,     \* the parts in the assembler
  store,    \* store_: [entries, seq]
  file,     \* its state file
  queue,    \* admin_actions: what is to be done, with the message that asked for it
  smsBusy, resetPending,
  stale,    \* ghost: the file lacks a change whose write failed, or was not read
  again,    \* ghost: how often a command was left on the modem after it was looked at
  done,     \* ghost: how often each command was carried out
  wiped,    \* ghost: messages the user deleted or blacklisted
  gone,     \* ghost: messages lost with the memory of the process, or shown no more
            \* because the state file could not be read
  given,    \* ghost: the messages each id was given to, as far as the file knows
  trouble   \* counts them

loop == <<batch, pc, cur>>
admin == <<queue, smsBusy, resetPending>>
ghosts == <<stale, again, done, wiped, gone, given>>
vars == <<coming, modem, loop, held, store, file, admin, ghosts, trouble>>

Empty == [entries |-> {}, seq |-> 0]
ShownIn(s) == UNION {e.shows : e \in s.entries}

Init ==
  /\ coming = Messages \ Garbled /\ modem = Garbled
  /\ batch = {} /\ pc = "collect" /\ cur = {} /\ held = {}
  /\ store = Empty /\ file = Empty
  /\ queue = <<>> /\ smsBusy = FALSE /\ resetPending = FALSE
  /\ stale = FALSE /\ again = [m \in Commands |-> 0] /\ done = [m \in Commands |-> 0]
  /\ wiped = {} /\ gone = {} /\ given = [i \in {} |-> {}]
  /\ trouble = 0

Trouble == trouble < MaxTrouble /\ trouble' = trouble + 1

-----------------------------------------------------------------------------
(* The store.                                                              *)

\* persist_locked: the whole store replaces the file, or the file stays.
WriteNothing(s) == file' = file /\ UNCHANGED <<stale, trouble>>   \* mutant
Persist(s) ==
  \/ file' = s /\ stale' = FALSE /\ UNCHANGED trouble
  \/ Trouble /\ stale' = TRUE /\ UNCHANGED file

\* add_received
NextId(s) == s.seq + 1
Added(s, shows) ==
  [entries |-> s.entries \cup {[id |-> NextId(s), shows |-> shows]}, seq |-> NextId(s)]
Add(shows) ==
  /\ store' = Added(store, shows)
  /\ Persist(Added(store, shows))
  /\ given' = [i \in DOMAIN given \cup {NextId(store)} |->
                 (IF i \in DOMAIN given THEN given[i] ELSE {})
                   \cup (IF i = NextId(store) THEN {shows} ELSE {})]

-----------------------------------------------------------------------------
(* The main loop, while it holds modem_mutex.                              *)

\* The network delivers messages; the loop hears of them when it lists next,
\* so that they come just before it does.
Deliver ==
  /\ pc = "collect"
  /\ \E m \in coming : coming' = coming \ {m} /\ modem' = modem \cup {m}
  /\ UNCHANGED <<loop, held, store, file, admin, ghosts, trouble>>

\* collect_events lists when a poll is due or +CMTI came.  What cannot be decoded is
\* passed over and stays on the modem, and so does what cannot be inspected now.
Listed == modem \ Garbled
List ==
  /\ pc = "collect" /\ pc' = "each"
  /\ \/ batch' = Listed /\ UNCHANGED trouble
     \/ Trouble /\ batch' \in SUBSET Listed
  /\ UNCHANGED <<coming, modem, cur, held, store, file, admin, ghosts>>

\* It is not time to list, or the modem does not answer.
NotListed ==
  /\ pc = "collect" /\ pc' = "rest"
  /\ UNCHANGED <<coming, modem, batch, cur, held, store, file, admin, ghosts, trouble>>
Collect == List \/ NotListed

\* evaluate_admin_command, and the flags taken when the command is accepted.
\* A RESET is refused in the first minute, which is left open here.
Decisions(m) ==
  IF m \in Orders THEN {IF smsBusy THEN "tell" ELSE "send"}
  ELSE IF resetPending THEN {"tell"} ELSE {"tell", "reset"}
Accept(m) ==
  \E act \in Decisions(m) :
    /\ queue' = Append(queue, [act |-> act, of |-> m])
    /\ smsBusy' = (smsBusy \/ act = "send")
    /\ resetPending' = (resetPending \/ act = "reset")

\* concat.feed: the last missing part emits the message.
Complete(m) == held \cup {m} = Parts

\* handle_sms.  Plain messages may come from a number of the blacklist.
Handle(m) ==
  \/ m \in Plain /\ wiped' = wiped \cup {m} /\ UNCHANGED <<store, file, stale, trouble, given, admin>>
  \/ m \in Commands /\ Accept(m) /\ UNCHANGED <<wiped, store, file, stale, trouble, given>>
  \/ m \notin Commands /\ Add(IF m \in Parts THEN Parts ELSE {m}) /\ UNCHANGED <<wiped, admin>>

\* process_modem_result
LookAt ==
  /\ pc = "each"
  /\ \E m \in batch :
       /\ batch' = batch \ {m} /\ cur' = {m} /\ pc' = "delete"
       /\ IF m \in Parts /\ ~Complete(m)
          THEN held' = held \cup {m} /\ UNCHANGED <<wiped, store, file, stale, trouble, given, admin>>
          ELSE Handle(m) /\ held' = IF m \in Parts THEN {} ELSE held
  /\ UNCHANGED <<coming, modem, again, done, gone>>

\* acknowledge_sms
LeaveIt == UNCHANGED modem   \* mutant
DeleteIt == modem' = modem \ cur
Delete ==
  /\ pc = "delete" /\ pc' = "each" /\ cur' = {}
  /\ \/ DeleteIt /\ UNCHANGED <<again, trouble>>
     \/ Trouble /\ again' = [m \in Commands |-> IF m \in cur THEN again[m] + 1 ELSE again[m]]
        /\ UNCHANGED modem
  /\ UNCHANGED <<coming, batch, held, store, file, admin, stale, done, wiped, gone, given>>

AllLookedAt ==
  /\ pc = "each" /\ batch = {}
  /\ pc' = "rest"
  /\ UNCHANGED <<coming, modem, batch, cur, held, store, file, admin, ghosts, trouble>>

-----------------------------------------------------------------------------
(* The rest of the loop.                                                   *)

\* concat.expire: the parts that came are shown without the others.
Expire ==
  /\ pc = "rest" /\ held # {}
  /\ Add(held) /\ held' = {}
  /\ UNCHANGED <<coming, modem, loop, admin, again, done, wiped, gone>>

\* process_admin_action: one command a round.
FreeSms == smsBusy' = FALSE
Pop == queue' = Tail(queue)
CarryOut ==
  /\ pc = "rest" /\ queue # <<>>
  /\ Pop
  /\ LET a == Head(queue) IN
       /\ done' = IF a.act = "tell" THEN done ELSE [done EXCEPT ![a.of] = @ + 1]
       /\ \/ a.act = "send" /\ FreeSms /\ Persist(store) /\ pc' = "collect"   \* add_sent
          \/ a.act = "reset" /\ pc' = "stopped" /\ UNCHANGED <<smsBusy, file, stale, trouble>>
          \/ a.act = "tell" /\ pc' = "collect" /\ UNCHANGED <<smsBusy, file, stale, trouble>>
  /\ UNCHANGED <<coming, modem, batch, cur, held, store, resetPending, again, wiped, gone, given>>

Round ==
  /\ pc = "rest" /\ queue = <<>>
  /\ pc' = "collect"
  /\ UNCHANGED <<coming, modem, batch, cur, held, store, file, admin, ghosts, trouble>>

-----------------------------------------------------------------------------
(* The web server and the worker, at any time.                             *)

Web == pc # "stopped"

\* /delete
DeleteEntry ==
  /\ Web
  /\ \E e \in store.entries :
       LET s == [store EXCEPT !.entries = @ \ {e}] IN
       store' = s /\ Persist(s) /\ wiped' = wiped \cup e.shows
  /\ UNCHANGED <<coming, modem, loop, held, admin, again, done, gone, given>>

\* set_forwarded, add_sent of /sendsms, set_state_path of a settings save
Rewrite ==
  /\ Web
  /\ Persist(store)
  /\ UNCHANGED <<coming, modem, loop, held, store, admin, again, done, wiped, gone, given>>

-----------------------------------------------------------------------------
(* Stop and start.                                                         *)

\* restore_state: a state file that cannot be read stays, and the store is empty.
Restored == \/ store' = file /\ stale' = FALSE
            \/ store' = Empty /\ stale' = TRUE
Start ==
  /\ Restored
  /\ batch' = {} /\ pc' = "collect" /\ cur' = {} /\ held' = {}
  /\ queue' = <<>> /\ smsBusy' = FALSE /\ resetPending' = FALSE
  /\ given' = Restrict(given, {i \in DOMAIN given : i <= store'.seq})
  /\ gone' = gone \cup held \cup (ShownIn(store) \ ShownIn(store'))
  /\ again' = [m \in Commands |-> IF m \in cur THEN again[m] + 1 ELSE again[m]]
  /\ UNCHANGED <<coming, modem, file, done, wiped>>

Crash == Trouble /\ Start
Respawn ==
  /\ pc = "stopped" /\ Start
  /\ \/ Trouble
     \/ ~stale' /\ UNCHANGED trouble

Loop == Collect \/ LookAt \/ Delete \/ AllLookedAt \/ Expire \/ CarryOut \/ Round \/ Respawn
Next == Deliver \/ Loop \/ DeleteEntry \/ Rewrite \/ Crash

Spec == Init /\ [][Next]_vars
\* The loop runs on, the service manager starts the service again, polls fall due
\* and are answered again and again, and parts that wait are timed out.
FairSpec ==
  Spec /\ WF_vars(Loop) /\ SF_vars(List) /\ SF_vars(Expire) /\ SF_vars(LookAt) /\ SF_vars(CarryOut)

-----------------------------------------------------------------------------
TypeOK ==
  /\ coming \subseteq Messages /\ modem \subseteq Messages /\ coming \cap modem = {}
  /\ batch \subseteq modem /\ cur \subseteq modem
  /\ pc \in {"collect", "each", "delete", "rest", "stopped"}
  /\ (pc = "delete") = (cur # {})
  /\ held \subseteq Parts /\ held # Parts
  /\ \A s \in {store, file} : \A e \in s.entries : e.id \in 1 .. s.seq /\ e.shows \subseteq Messages
  /\ \A i \in DOMAIN queue : queue[i].act \in {"tell", "send", "reset"} /\ queue[i].of \in Commands
  /\ {smsBusy, resetPending, stale} \subseteq BOOLEAN

\* A message that left the modem is in the state file, where a restart finds
\* it: process_modem_result deletes it after it was handled.  Excepted are the
\* parts in the assembler, the writes that failed, a state file that could not be
\* read, and what the user deleted.
KeptOnDisk ==
  \A m \in (Plain \cup Parts) \ (coming \cup modem) :
    \/ m \in ShownIn(file)
    \/ m \in held \cup wiped \cup gone
    \/ stale

\* A command is carried out once, and once more only for each time its message
\* could not be deleted or the service stopped before it was: not for each
\* listing, and never in a loop of restarts.
ObeyedOnce == \A m \in Commands : done[m] <= 1 + again[m]

\* admin_sms_busy is set while a command to send waits, and only then; one of
\* them waits at a time, and so does one RESET.
OneAtATime ==
  LET waiting(act) == {i \in DOMAIN queue : queue[i].act = act} IN
  /\ Cardinality(waiting("send")) = (IF smsBusy THEN 1 ELSE 0)
  /\ Cardinality(waiting("reset")) <= 1

\* The id of a deleted entry is not given to another message, not even after a
\* restart, unless the file had missed a change or could not be read: the worker
\* and the page speak of entries by their ids (inboxSeq_ is in the snapshot).
IdsNotReused == \A i \in DOMAIN given : Cardinality(given[i]) = 1

\* Whatever fails a few times, in the end only what cannot be decoded is left
\* on the modem, and no part waits for ever.
TakenIn == <>[](modem \subseteq Garbled) /\ []<>(held = {})

\* What main.cpp:1182 tells of a state file that cannot be read, that it is kept:
\* nothing leaves the file but what the user deleted.
UnreadableKept == [][ShownIn(file) \ ShownIn(file') \subseteq wiped']_vars

-----------------------------------------------------------------------------
(* What makes these inductive.                                             *)

\* A message that is looked at is none of those still to be looked at.
Typed ==
  /\ TypeOK /\ cur \cap batch = {}
  /\ {store, file} \subseteq [entries : SUBSET [id : Nat, shows : SUBSET Messages], seq : Nat]
  /\ queue \in Seq([act : {"tell", "send", "reset"}, of : Commands])
  /\ done \in [Commands -> Nat] /\ again \in [Commands -> Nat]
  /\ DOMAIN given \subseteq 1 .. store.seq

\* What is on the way or still to be looked at; the rest is in the store, which the
\* file lags behind only after a write that failed.
Ahead == coming \cup (modem \ cur)
KeptInStore ==
  /\ \A m \in (Plain \cup Parts) \ Ahead : m \in ShownIn(store) \cup held \cup wiped \cup gone
  /\ ~stale => file = store

\* A command is to be looked at, waits, or was carried out; one at a time waits.
WaitsFor(m) == \E i \in DOMAIN queue : queue[i].of = m /\ queue[i].act # "tell"
OnceEach ==
  \A m \in Commands :
    (IF WaitsFor(m) THEN 1 ELSE 0) + (IF m \in Ahead THEN 1 ELSE 0) + done[m] <= 1 + again[m]
OneWaits ==
  /\ \A i, j \in DOMAIN queue : queue[i].act = queue[j].act /\ queue[i].act # "tell" => i = j
  /\ \A i \in DOMAIN queue : queue[i].act # "tell" =>
                              (queue[i].act = "send" <=> queue[i].of \in Orders)
  /\ smsBusy <=> \E i \in DOMAIN queue : queue[i].act = "send"
  /\ (\E i \in DOMAIN queue : queue[i].act = "reset") => resetPending

IntakeInv == Typed /\ KeptInStore /\ OnceEach /\ OneWaits /\ IdsNotReused
=============================================================================
