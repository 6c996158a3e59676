------------------------------ MODULE LinuxPush ------------------------------
(***************************************************************************)
(* Forwarding in the Linux service (ports/linux/src/main.cpp, PushWorker   *)
(* and forward_event, on the retry queue of core/src/queue.cpp).  The main *)
(* loop stores a received message and forwards it; the web server's thread *)
(* forwards an entry again on request and replaces the configuration; the  *)
(* worker delivers the legs.  mu_ protects the queue and the table of      *)
(* completions, config_mu_ the worker's configuration and the message      *)
(* store has a lock of its own: a step ends wherever one is released.      *)
(*                                                                         *)
(* Data abstraction: a dispatch is the number ev of the request for it;    *)
(* jobs are taken in any order among those that are due, and a dispatch    *)
(* enqueues its targets in any order; the message store is written without *)
(* an error.  A blacklisted sender is a message no target is selected for. *)
(***************************************************************************)
EXTENDS Naturals, FiniteSets

CONSTANTS
  Channels,   \* the push channels
  Email,      \* target -1
  Msgs,       \* the inbox entries
  NoMsg,      \* message_id = 0: a call or a notification
  Configs,    \* the configurations the user may save
  None,       \* no job, no view
  Capacity,   \* capacity_ of ForwardRetryQueue
  RetryMax,   \* PUSH_RETRY_MAX
  MaxEvents   \* bound of the model: requests

Targets == Channels \cup {Email}
Ids == Msgs \cup {NoMsg}

\* selected: the targets pushEnabled and the forwarding rules leave for a message;
\* valid: the targets channel_valid and email_configured accept.
Config == [selected : [Ids -> SUBSET Targets], drop : SUBSET Ids, valid : SUBSET Targets]

Job == [ev : Nat, msg : Ids, target : Targets, attempts : Nat, due : BOOLEAN]

ASSUME ChannelsFinite == IsFiniteSet(Channels)
ASSUME EmailNoChannel == Email \notin Channels
ASSUME NoMsgNoMsg == NoMsg \notin Msgs
ASSUME ConfigsAreConfigs == Configs \subseteq Config /\ Configs # {}
ASSUME SizesAreNat == {Capacity, MaxEvents} \subseteq Nat /\ RetryMax \in Nat \ {0}
ASSUME NoneApart == None \notin Config \cup Targets \cup Job

VARIABLES
  cfg,        \* the configuration
  workerCfg,  \* PushWorker::cfg_
  jobs,       \* jobs_
  comp,       \* completions_
  inbox,      \* per entry: "unseen", "pending", "forwarded" or "gone"
  client,     \* what the main loop and the web server are doing
  pc,         \* where the worker is: "take", "send", "finish" or "mark"
  job,        \* the job in its hands
  ok,         \* what became of it, and then what it is to tell the message store
  events      \* requests so far

worker == <<pc, job, ok>>
vars == <<cfg, workerCfg, jobs, comp, inbox, client, worker, events>>

\* Beside the fields of Completion, four the program has not: the request that made it,
\* the targets it is for, those that accepted and those whose leg was discarded.
Completion == [ev : Nat, msg : Msgs, remaining : Nat, failed : BOOLEAN,
               to : SUBSET Targets, by : SUBSET Targets, off : SUBSET Targets]
Threads == {"main", "web"}
ClientSteps == {"idle", "snapshot", "store", "decide", "begin", "enqueue", "reject", "mark",
                "publish"}
Client == [at : ClientSteps, ev : Nat, msg : Ids, view : Configs \cup {None},
           todo : SUBSET Targets, leg : Targets \cup {None}, ok : BOOLEAN]
Rest == [at |-> "idle", ev |-> 0, msg |-> NoMsg, view |-> None, todo |-> {},
         leg |-> None, ok |-> FALSE]

Init ==
  /\ cfg \in Configs /\ workerCfg = cfg
  /\ jobs = {} /\ comp = {}
  /\ inbox = [m \in Msgs |-> "unseen"]
  /\ client = [c \in Threads |-> Rest]
  /\ pc = "take" /\ job = None /\ ok = FALSE
  /\ events = 0

-----------------------------------------------------------------------------
\* finish_leg_locked: the entry of the message counts the leg and goes with the
\* last one.
EntryOf(m) == {c \in comp : c.msg = m}
LastOnly(m, success) == {c \in EntryOf(m) : c.remaining = 1 /\ success}   \* mutant: failed is not read
Successful(m, success) == {c \in EntryOf(m) : c.remaining = 1 /\ success /\ ~c.failed}
Ready(m) == \E c \in EntryOf(m) : c.remaining = 1
FinishLeg(m, success) ==
  comp' = (comp \ EntryOf(m))
            \cup {[c EXCEPT !.remaining = @ - 1, !.failed = @ \/ ~success] :
                    c \in {d \in EntryOf(m) : d.remaining > 1}}

\* The completion callback: set_forwarded, which a deleted entry ignores.
Mark(m, success) ==
  inbox' = [n \in Msgs |->
              IF n = m /\ inbox[n] \in {"pending", "forwarded"}
              THEN IF success THEN "forwarded" ELSE "pending"
              ELSE inbox[n]]

-----------------------------------------------------------------------------
(* The main loop and the web server.                                       *)

Request(c, m, step) ==
  /\ client[c].at = "idle"
  /\ events < MaxEvents /\ events' = events + 1
  /\ client' = [client EXCEPT ![c] = [Rest EXCEPT !.at = step, !.ev = events + 1, !.msg = m]]

\* handle_sms and, for NoMsg, handle_call and notify_event.
Receive(m) ==
  /\ m # NoMsg => inbox[m] = "unseen"
  /\ Request("main", m, "snapshot")
  /\ UNCHANGED <<cfg, workerCfg, jobs, comp, inbox, worker>>

\* /resend: the entry loses its mark first.
Resend(m) ==
  /\ inbox[m] \in {"pending", "forwarded"}
  /\ Request("web", m, "snapshot")
  /\ inbox' = [inbox EXCEPT ![m] = "pending"]
  /\ UNCHANGED <<cfg, workerCfg, jobs, comp, worker>>

\* /delete by the web server, or eviction by a newer message.
Forget(m) ==
  /\ inbox[m] \in {"pending", "forwarded"}
  /\ inbox' = [inbox EXCEPT ![m] = "gone"]
  /\ UNCHANGED <<cfg, workerCfg, jobs, comp, client, worker, events>>

\* /save and /import: the new configuration reaches the worker a step later.
Save ==
  /\ client["web"].at = "idle"
  /\ \E new \in Configs \ {cfg} : cfg' = new
  /\ client' = [client EXCEPT !["web"].at = "publish"]
  /\ UNCHANGED <<workerCfg, jobs, comp, inbox, worker, events>>

Publish ==
  /\ client["web"].at = "publish"
  /\ workerCfg' = cfg
  /\ client' = [client EXCEPT !["web"] = Rest]
  /\ UNCHANGED <<cfg, jobs, comp, inbox, worker, events>>

Snapshot(c) ==
  /\ client[c].at = "snapshot"
  /\ client' = [client EXCEPT ![c].view = cfg,
                              ![c].at = IF c = "main" THEN "store" ELSE "decide"]
  /\ UNCHANGED <<cfg, workerCfg, jobs, comp, inbox, worker, events>>

\* add_received
Store ==
  /\ client["main"].at = "store"
  /\ inbox' = [m \in Msgs |-> IF m = client["main"].msg THEN "pending" ELSE inbox[m]]
  /\ client' = [client EXCEPT !["main"].at = "decide"]
  /\ UNCHANGED <<cfg, workerCfg, jobs, comp, worker, events>>

Dropped(c) == client[c].msg \in client[c].view.drop
TargetsOf(c) == client[c].view.selected[client[c].msg] \cap client[c].view.valid

\* forward_event: a dropped message is settled, one without targets is left.
Decide(c) ==
  /\ client[c].at = "decide"
  /\ client' = [client EXCEPT
       ![c] = IF Dropped(c) THEN [@ EXCEPT !.at = "mark", !.ok = TRUE]
              ELSE IF TargetsOf(c) = {} THEN Rest
              ELSE [@ EXCEPT !.at = "begin", !.todo = TargetsOf(c)]]
  /\ UNCHANGED <<cfg, workerCfg, jobs, comp, inbox, worker, events>>

\* begin_message: a message whose legs are still under way is not begun again.
NeverUnderWay(c) == FALSE   \* mutant: a second dispatch takes over the entry of the first
UnderWay(c) == EntryOf(client[c].msg) # {}
Begin(c) ==
  /\ client[c].at = "begin"
  /\ IF client[c].msg # NoMsg /\ UnderWay(c)
     THEN /\ client' = [client EXCEPT ![c] = Rest]
          /\ UNCHANGED comp
     ELSE /\ client' = [client EXCEPT ![c].at = "enqueue"]
          /\ comp' = (comp \ EntryOf(client[c].msg)) \cup
               {[ev |-> client[c].ev, msg |-> m, remaining |-> Cardinality(client[c].todo),
                 failed |-> FALSE, to |-> client[c].todo, by |-> {}, off |-> {}] :
                  m \in {client[c].msg} \ {NoMsg}}
  /\ UNCHANGED <<cfg, workerCfg, jobs, inbox, worker, events>>

\* ForwardRetryQueue::enqueue
Full == Cardinality(jobs) >= Capacity
Enqueue(c) ==
  /\ client[c].at = "enqueue"
  /\ \E t \in client[c].todo :
       LET rest == [client[c] EXCEPT !.todo = @ \ {t}]
           next == IF rest.todo = {} THEN Rest ELSE rest
       IN  IF Full
           THEN /\ client' = [client EXCEPT ![c] = [rest EXCEPT !.at = "reject", !.leg = t]]
                /\ UNCHANGED jobs
           ELSE /\ jobs' = jobs \cup {[ev |-> client[c].ev, msg |-> client[c].msg, target |-> t,
                                       attempts |-> 0, due |-> TRUE]}
                /\ client' = [client EXCEPT ![c] = next]
  /\ UNCHANGED <<cfg, workerCfg, comp, inbox, worker, events>>

\* reject_leg: the leg counts as failed.
StopAtFull(c) == Rest   \* mutant: the targets after the rejected one are forgotten
AfterReject(c) == IF client[c].todo = {} THEN Rest ELSE [client[c] EXCEPT !.at = "enqueue", !.leg = None]
Reject(c) ==
  /\ client[c].at = "reject"
  /\ FinishLeg(client[c].msg, FALSE)
  /\ client' = [client EXCEPT
       ![c] = IF Ready(client[c].msg) THEN [@ EXCEPT !.at = "mark", !.leg = None]
              ELSE AfterReject(c)]
  /\ UNCHANGED <<cfg, workerCfg, jobs, inbox, worker, events>>

\* mark_message, or the callback of reject_leg: both come last.
ClientMark(c) ==
  /\ client[c].at = "mark"
  /\ Mark(client[c].msg, client[c].ok)
  /\ client' = [client EXCEPT ![c] = Rest]
  /\ UNCHANGED <<cfg, workerCfg, jobs, comp, worker, events>>

-----------------------------------------------------------------------------
(* The worker.                                                             *)

Take ==
  /\ pc = "take"
  /\ \E j \in jobs :
       /\ j.due
       /\ jobs' = jobs \ {j} /\ job' = j
  /\ pc' = "send"
  /\ UNCHANGED <<cfg, workerCfg, comp, inbox, client, ok, events>>

\* The dispatch the leg in hand is of takes note of who accepted and of whom it let off.
Note(by, off) ==
  comp' = {IF c.msg = job.msg /\ c.ev = job.ev
           THEN [c EXCEPT !.by = @ \cup by, !.off = @ \cup off] ELSE c : c \in comp}

\* process: a target that has an address is sent to, and takes the message or does not.
Send ==
  /\ pc = "send" /\ (job.target = Email \/ job.target \in workerCfg.valid)
  /\ ok' \in (IF job.target \in workerCfg.valid THEN BOOLEAN ELSE {FALSE})
  /\ Note(IF ok' THEN {job.target} ELSE {}, {})
  /\ pc' = "finish"
  /\ UNCHANGED <<cfg, workerCfg, jobs, inbox, client, job, events>>

\* A channel that is no longer valid counts as served.
Discard ==
  /\ pc = "send" /\ job.target \in Channels \ workerCfg.valid
  /\ ok' = TRUE
  /\ Note({}, {job.target})
  /\ pc' = "finish"
  /\ UNCHANGED <<cfg, workerCfg, jobs, inbox, client, job, events>>

\* ForwardRetryQueue::retry: not beyond PUSH_RETRY_MAX, and not into a full queue.
MayRetry == job.attempts + 1 < RetryMax /\ ~Full
Retry ==
  /\ pc = "finish" /\ ~ok /\ MayRetry
  /\ jobs' = jobs \cup {[job EXCEPT !.attempts = @ + 1, !.due = FALSE]}
  /\ pc' = "take" /\ job' = None
  /\ UNCHANGED <<cfg, workerCfg, comp, inbox, client, ok, events>>

Finish ==
  /\ pc = "finish" /\ (ok \/ ~MayRetry)
  /\ FinishLeg(job.msg, ok)
  /\ IF Ready(job.msg)
     THEN pc' = "mark" /\ ok' = (Successful(job.msg, ok) # {}) /\ UNCHANGED job
     ELSE pc' = "take" /\ job' = None /\ ok' = FALSE
  /\ UNCHANGED <<cfg, workerCfg, jobs, inbox, client, events>>

WorkerMark ==
  /\ pc = "mark"
  /\ Mark(job.msg, ok)
  /\ pc' = "take" /\ job' = None /\ ok' = FALSE
  /\ UNCHANGED <<cfg, workerCfg, jobs, comp, client, events>>

\* The back-off of a job ends.
Elapse ==
  /\ \E j \in jobs : ~j.due /\ jobs' = (jobs \ {j}) \cup {[j EXCEPT !.due = TRUE]}
  /\ UNCHANGED <<cfg, workerCfg, comp, inbox, client, worker, events>>

\* The service is restarted; entries and configuration are on disk.
Restart ==
  /\ jobs' = {} /\ comp' = {} /\ workerCfg' = cfg
  /\ client' = [c \in Threads |-> Rest]
  /\ pc' = "take" /\ job' = None /\ ok' = FALSE
  /\ UNCHANGED <<cfg, inbox, events>>

-----------------------------------------------------------------------------
Worker == Take \/ Send \/ Discard \/ Retry \/ Finish \/ WorkerMark
ClientStep(c) == \/ Snapshot(c) \/ Decide(c) \/ Begin(c) \/ Enqueue(c) \/ Reject(c)
                 \/ ClientMark(c)
                 \/ c = "main" /\ Store
                 \/ c = "web" /\ Publish

Next ==
  \/ \E m \in Ids : Receive(m)
  \/ \E m \in Msgs : Resend(m) \/ Forget(m)
  \/ Save \/ Elapse \/ Restart
  \/ Worker
  \/ \E c \in Threads : ClientStep(c)

Spec == Init /\ [][Next]_vars

\* The threads run and back-off times end.
FairSpec == Spec /\ WF_vars(Worker) /\ WF_vars(Elapse) /\ \A c \in Threads : WF_vars(ClientStep(c))

-----------------------------------------------------------------------------
TypeOK ==
  /\ {cfg, workerCfg} \subseteq Configs
  /\ jobs \subseteq Job /\ comp \subseteq Completion
  /\ inbox \in [Msgs -> {"unseen", "pending", "forwarded", "gone"}]
  /\ client \in [Threads -> Client]
  /\ pc \in {"take", "send", "finish", "mark"}
  /\ job \in Job \cup {None} /\ (pc # "take" => job # None)
  /\ ok \in BOOLEAN
  /\ events \in Nat

\* The legs of a dispatch that are not accounted for: queued, in the worker's
\* hands, or still to be enqueued or rejected by the thread that began it.
ClientLegs(c) == IF client[c].at \in {"enqueue", "reject"}
                 THEN client[c].todo \cup ({client[c].leg} \ {None}) ELSE {}
LegsOf(m, e) ==
  {j.target : j \in {k \in jobs \cup (IF pc \in {"send", "finish"} THEN {job} ELSE {}) :
                       k.msg = m /\ k.ev = e}}
    \cup UNION {ClientLegs(c) : c \in {d \in Threads : client[d].msg = m /\ client[d].ev = e}}

\* A message has one dispatch under way at most, its entry counts exactly the legs
\* of that dispatch, and no leg of an earlier one is left to be counted by it,
\* though legs name their message and not their dispatch (main.cpp:784-912).
OneDispatchCounted ==
  /\ \A c, d \in comp : c.msg = d.msg => c = d
  /\ \A c \in comp : c.remaining = Cardinality(LegsOf(c.msg, c.ev)) /\ c.remaining > 0
  /\ \A m \in Msgs : \A e \in 1..events :
       LegsOf(m, e) # {} => \E c \in comp : c.msg = m /\ c.ev = e

DispatchSound == TypeOK /\ OneDispatchCounted

\* What makes the counting inductive: a request has a number of its own, what a
\* thread holds fits the step it is at, and a leg is in one place only.
Begun == {"snapshot", "store", "decide", "begin"}
Holds(c) == client[c].at \in {"enqueue", "reject"}
Busy(c) == client[c].at \notin {"idle", "publish"}
LiveJobs == jobs \cup (IF pc \in {"send", "finish"} THEN {job} ELSE {})
InOrder(r) ==
  /\ r.at \in {"store", "decide"} => r.view \in Configs
  /\ r.at \in {"begin", "enqueue"} => r.todo # {}
  /\ r.leg # None <=> r.at = "reject"
  /\ r.leg \notin r.todo
  /\ r.ok => r.at = "mark"
ClientsInOrder == \A c \in Threads : InOrder(client[c])
EvsApart ==
  /\ \A c \in Threads : Busy(c) => client[c].ev \in 1..events
  /\ \A c, d \in Threads : Busy(c) /\ Busy(d) /\ client[c].ev = client[d].ev => c = d
  /\ \A j \in LiveJobs : j.ev \in 1..events
  /\ \A c \in Threads, j \in LiveJobs : client[c].at \in Begun => j.ev # client[c].ev
SameLeg(j, k) == j.ev = k.ev /\ j.target = k.target
LegsApart ==
  /\ \A j, k \in jobs : SameLeg(j, k) => j = k
  /\ pc \in {"send", "finish"} => \A j \in jobs : ~SameLeg(j, job)
  /\ \A c \in Threads, j \in LiveJobs :
       Holds(c) /\ j.ev = client[c].ev => j.target \notin ClientLegs(c)
DispatchInv == TypeOK /\ ClientsInOrder /\ EvsApart /\ LegsApart /\ OneDispatchCounted

\* A message is stored once: nobody else marks or deletes it before.
StoresNew ==
  client["main"].at \in {"snapshot", "store"} /\ client["main"].msg \in Msgs
    => inbox[client["main"].msg] = "unseen"
\* While no leg of a dispatch failed, a target that neither accepted nor was let off
\* still has its leg, every leg is for one of its targets, and what became of the leg
\* that is about to be counted is on record.
NobodyForgotten ==
  /\ \A c \in comp : LegsOf(c.msg, c.ev) \subseteq c.to
  /\ \A c \in comp : ~c.failed => c.to \ (c.by \cup c.off) \subseteq LegsOf(c.msg, c.ev)
  /\ pc = "finish" /\ ok => \A c \in comp : c.msg = job.msg /\ c.ev = job.ev
                                          => job.target \in c.by \cup c.off
LedgerInv == DispatchInv /\ StoresNew /\ NobodyForgotten

\* An entry is marked forwarded only when every target of one dispatch of it has
\* accepted the message, or is a channel that was invalid when its leg's turn came
\* (935-938), or when a rule dropped it, with legs rejected, retried and given up by two
\* threads at once: the service implements ForwardLedger (main.cpp:784-1031).
Promises == {[id |-> c.ev, msg |-> c.msg, to |-> c.to, by |-> c.by, off |-> c.off] :
               c \in {d \in comp : ~d.failed}}
Settling == {client[c].msg : c \in {d \in Threads :
                 \/ client[d].at \in {"store", "decide"} /\ Dropped(d)
                 \/ client[d].at = "mark" /\ client[d].ok}}
              \cup (IF pc = "mark" /\ ok THEN {job.msg} ELSE {})
Ledger == INSTANCE ForwardLedger WITH
            open <- Promises, settling <- Settling, dropped <- cfg.drop,
            void <- Channels \ workerCfg.valid
ImplementsLedger == Ledger!Spec

\* What docs/progress/STATUS.md:50 says of the Linux service: an entry is marked only
\* after all its targets succeeded.  Discard takes a leg without its target.
MarkedWhenAllSucceeded ==
  pc = "finish" /\ ok
    => \A c \in EntryOf(job.msg) : c.remaining = 1 /\ ~c.failed => c.to \subseteq c.by

\* Every dispatch comes to an end, whatever fails or is turned away (main.cpp:784-912).
DispatchEnds == \A m \in Msgs : []<>(EntryOf(m) = {})
=============================================================================
