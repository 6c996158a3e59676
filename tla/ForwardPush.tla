----------------------------- MODULE ForwardPush -----------------------------
(***************************************************************************)
(* The forwarding core of the ESP-IDF port (components/idf_push): a queue  *)
(* of messages to forward, the queue of push legs and the queue of e-mail  *)
(* legs one message fans out to, the completion table that counts the legs *)
(* still owed to an inbox entry, and the single worker task that moves     *)
(* jobs between them.  The SMS task, the web server and the scheduler run  *)
(* beside the worker; s_mutex protects the queues and the table, and the   *)
(* inbox has a lock of its own, so the worker's steps are cut wherever the *)
(* code releases one of them.                                              *)
(*                                                                         *)
(* Data abstraction: the sender, text and timestamp of a job are the       *)
(* number ev of the request that made it.  The due time of a job is the    *)
(* flag due, which the passing of time raises; a channel's cool-down time  *)
(* is membership in cooling.  Wi-Fi and free heap are env.                 *)
(***************************************************************************)
EXTENDS Naturals, FiniteSets

CONSTANTS
  Channels,   \* the push channels, IDF_MAX_PUSH_CHANNELS of them
  Email,      \* the e-mail target
  Msgs,       \* the inbox entries
  NoMsg,      \* inboxId = 0: a job tied to no inbox entry
  Configs,    \* the configurations the user may save
  None,       \* no job in hand
  FwdMax,     \* FWD_QUEUE_MAX
  PushMax,    \* PUSH_QUEUE_MAX
  EmailMax,   \* EMAIL_QUEUE_MAX
  RetryMax,   \* PUSH_RETRY_MAX
  MaxEvents   \* bound of the model: requests made of the queues

Targets == Channels \cup {Email}

\* What the forwarding rules make of a message (ForwardDecision); a message
\* no rule matches has the decision [drop |-> FALSE, email |-> TRUE, mask |-> Channels].
Decision == [drop : BOOLEAN, email : BOOLEAN, mask : SUBSET Channels]

Config == [pushEnabled : BOOLEAN, emailEnabled : BOOLEAN, emailConfigured : BOOLEAN,
           valid : SUBSET Channels, rule : [Msgs \cup {NoMsg} -> Decision]]

ASSUME ChannelsFinite == IsFiniteSet(Channels)
ASSUME EmailNoChannel == Email \notin Channels
ASSUME NoMsgNoMsg == NoMsg \notin Msgs
ASSUME ConfigsAreConfigs == Configs \subseteq Config /\ Configs # {}
ASSUME SizesAreNat == FwdMax \in Nat /\ PushMax \in Nat /\ EmailMax \in Nat
ASSUME RetryMaxPositive == RetryMax \in Nat \ {0}
ASSUME MaxEventsNat == MaxEvents \in Nat

VARIABLES
  cfg,      \* the saved configuration
  env,      \* "ok", "lowHeap" (no block large enough for TLS) or "offline"
  fwdQ,     \* s_forward_jobs
  pushQ,    \* s_push_jobs
  emailQ,   \* s_email_jobs
  comp,     \* the used entries of s_forward_completions
  nextCid,  \* s_next_completion_id
  cooling,  \* the channels whose s_channel_cool_until_us has not passed
  inbox,    \* per entry: "unseen", "pending" (not forwarded), "forwarded", "gone"
  pc,       \* where the worker is
  fwd,      \* the forward job it holds
  view,     \* the configuration it read for that job
  leg,      \* the push or e-mail job it holds
  subject,  \* the inbox entry it is about to mark or to clear
  events    \* requests made so far

shared == <<fwdQ, pushQ, emailQ, comp, nextCid>>
worker == <<pc, fwd, view, leg, subject>>
vars == <<cfg, env, shared, cooling, inbox, worker, events>>

ForwardJob == [ev : Nat, msg : Msgs \cup {NoMsg}, due : BOOLEAN]
Leg == [ev : Nat, msg : Msgs \cup {NoMsg}, cid : Nat, target : Targets,
        attempts : Nat, due : BOOLEAN]
\* Beside the fields of ForwardCompletion, two the program has not: the targets the
\* message was queued for, and those of them that accepted it.
Completion == [id : Nat \ {0}, msg : Msgs, remaining : Nat,
               to : SUBSET Targets, by : SUBSET Targets]

\* The worker holds a leg whose delivery is not yet accounted for.
LegSteps == {"send", "succeed", "retry", "giveUp"}
WorkerSteps == LegSteps \cup {"forward", "decide", "dispatch", "requeue", "push",
                              "email", "purge", "pickEmail", "mark", "clear"}

Live == pushQ \cup emailQ \cup (IF pc \in LegSteps THEN {leg} ELSE {})
Owed(id) == {j.target : j \in {l \in Live : l.cid = id}}

-----------------------------------------------------------------------------
Init ==
  /\ cfg \in Configs
  /\ env \in {"ok", "lowHeap", "offline"}
  /\ fwdQ = {} /\ pushQ = {} /\ emailQ = {} /\ comp = {} /\ nextCid = 0
  /\ cooling = {}
  /\ inbox = [m \in Msgs |-> "unseen"]
  /\ pc = "forward" /\ fwd = None /\ view = cfg /\ leg = None /\ subject = NoMsg
  /\ events = 0

-----------------------------------------------------------------------------
(* What the other tasks ask of the queues.                                 *)

NewRequest == events < MaxEvents /\ events' = events + 1

\* idf_push_enqueue_forward: a full queue turns the job away.
EnqueueForward(m) ==
  /\ fwdQ' = IF Cardinality(fwdQ) < FwdMax
             THEN fwdQ \cup {[ev |-> events + 1, msg |-> m, due |-> TRUE]}
             ELSE fwdQ
  /\ UNCHANGED <<pushQ, emailQ, comp, nextCid>>

\* The SMS task stores a message in the inbox, then asks for it to be forwarded.
Receive(m) ==
  /\ NewRequest
  /\ inbox[m] = "unseen"
  /\ inbox' = [inbox EXCEPT ![m] = "pending"]
  /\ EnqueueForward(m)
  /\ UNCHANGED <<cfg, env, cooling, worker>>

\* A call notice is forwarded like a message but has no inbox entry.
ForwardCall ==
  /\ NewRequest
  /\ EnqueueForward(NoMsg)
  /\ UNCHANGED <<cfg, env, cooling, inbox, worker>>

\* The web page's manual resend: the entry keeps its mark.
Resend(m) ==
  /\ NewRequest
  /\ inbox[m] \in {"pending", "forwarded"}
  /\ EnqueueForward(m)
  /\ UNCHANGED <<cfg, env, cooling, inbox, worker>>

\* The entry is deleted on the web page or evicted by a newer message.
Forget(m) ==
  /\ inbox[m] \in {"pending", "forwarded"}
  /\ inbox' = [inbox EXCEPT ![m] = "gone"]
  /\ UNCHANGED <<cfg, env, shared, cooling, worker, events>>

NewLeg(e, m, id, t) ==
  [ev |-> e, msg |-> m, cid |-> id, target |-> t, attempts |-> 0, due |-> TRUE]

\* idf_push_enqueue_notify: one leg per valid channel, as many as still fit.
Notify ==
  /\ NewRequest
  /\ cfg.pushEnabled
  /\ \E S \in SUBSET cfg.valid :
       /\ Cardinality(pushQ) + Cardinality(S) <= PushMax
       /\ S # cfg.valid => Cardinality(pushQ) + Cardinality(S) = PushMax
       /\ pushQ' = pushQ \cup {NewLeg(events + 1, NoMsg, 0, c) : c \in S}
  /\ UNCHANGED <<cfg, env, fwdQ, emailQ, comp, nextCid, cooling, inbox, worker>>

\* idf_push_enqueue_email: refused when e-mail is not configured or the queue is full.
MailNotice ==
  /\ NewRequest
  /\ cfg.emailConfigured
  /\ Cardinality(emailQ) < EmailMax
  /\ emailQ' = emailQ \cup {NewLeg(events + 1, NoMsg, 0, Email)}
  /\ UNCHANGED <<cfg, env, fwdQ, pushQ, comp, nextCid, cooling, inbox, worker>>

SaveConfig ==
  /\ cfg' \in Configs
  /\ UNCHANGED <<env, shared, cooling, inbox, worker, events>>

EnvChange ==
  /\ env' \in {"ok", "lowHeap", "offline"}
  /\ UNCHANGED <<cfg, shared, cooling, inbox, worker, events>>

\* A job's backoff elapses; a job is put back to wait for one; a leg has been tried.
Raise(j) == [j EXCEPT !.due = TRUE]
Later(j) == [j EXCEPT !.due = FALSE]
Uncounted(l) == l   \* mutant: a failed attempt is not counted
Again(l) == [l EXCEPT !.attempts = @ + 1]
ForwardDue ==
  /\ \E j \in fwdQ : ~j.due /\ fwdQ' = (fwdQ \ {j}) \cup {Raise(j)}
  /\ UNCHANGED <<cfg, env, pushQ, emailQ, comp, nextCid, cooling, inbox, worker, events>>

PushDue ==
  /\ \E j \in pushQ : ~j.due /\ pushQ' = (pushQ \ {j}) \cup {Raise(j)}
  /\ UNCHANGED <<cfg, env, fwdQ, emailQ, comp, nextCid, cooling, inbox, worker, events>>

EmailDue ==
  /\ \E j \in emailQ : ~j.due /\ emailQ' = (emailQ \ {j}) \cup {Raise(j)}
  /\ UNCHANGED <<cfg, env, fwdQ, pushQ, comp, nextCid, cooling, inbox, worker, events>>

\* A channel's cool-down elapses.
CoolDown ==
  /\ \E c \in cooling : cooling' = cooling \ {c}
  /\ UNCHANGED <<cfg, env, shared, inbox, worker, events>>

\* The device restarts: everything but the configuration and the inbox is in RAM.
Restart ==
  /\ fwdQ' = {} /\ pushQ' = {} /\ emailQ' = {} /\ comp' = {} /\ nextCid' = 0
  /\ cooling' = {}
  /\ pc' = "forward" /\ fwd' = None /\ leg' = None /\ subject' = NoMsg
  /\ UNCHANGED <<cfg, env, view, inbox, events>>

-----------------------------------------------------------------------------
(* The worker (push_task): forward jobs first, then push legs, then e-mail. *)

PopForward ==
  /\ pc = "forward"
  /\ \E j \in fwdQ : j.due /\ fwd' = j /\ fwdQ' = fwdQ \ {j}
  /\ pc' = "decide"
  /\ UNCHANGED <<cfg, env, pushQ, emailQ, comp, nextCid, cooling, inbox, view, leg, subject, events>>

NoForward ==
  /\ pc = "forward"
  /\ \A j \in fwdQ : ~j.due
  /\ pc' = "push"
  /\ UNCHANGED <<cfg, env, shared, cooling, inbox, fwd, view, leg, subject, events>>

\* The configuration is read and the rules applied outside s_mutex.  A message
\* the rules drop counts as dealt with.
Decide ==
  /\ pc = "decide"
  /\ view' = cfg
  /\ IF cfg.rule[fwd.msg].drop
     THEN pc' = "mark" /\ subject' = fwd.msg /\ fwd' = None
     ELSE pc' = "dispatch" /\ UNCHANGED <<subject, fwd>>
  /\ UNCHANGED <<cfg, env, shared, cooling, inbox, leg, events>>

\* The push channels and the e-mail a message goes to under configuration c.
PushTargets(c, m) == IF c.pushEnabled THEN c.rule[m].mask \cap c.valid ELSE {}
WantsEmail(c, m) == c.rule[m].email /\ c.emailEnabled /\ c.emailConfigured
Selected(c, m) == PushTargets(c, m) \cup (IF WantsEmail(c, m) THEN {Email} ELSE {})

LegsFitSome(c, m) ==   \* mutant: one free slot is taken to be enough
  /\ PushTargets(c, m) # {} => Cardinality(pushQ) < PushMax
  /\ WantsEmail(c, m) => Cardinality(emailQ) < EmailMax
TableTooShort == Cardinality(comp) < EmailMax   \* mutant: sized by one queue
\* All legs fit, and there is a completion entry if the message needs one.
LegsFit(c, m) ==
  /\ Cardinality(pushQ) + Cardinality(PushTargets(c, m)) <= PushMax
  /\ WantsEmail(c, m) => Cardinality(emailQ) < EmailMax
NeedsCompletion(c, m) == m # NoMsg /\ Selected(c, m) # {}
EntryFree == Cardinality(comp) < PushMax + EmailMax
CanDispatch(c, m) == LegsFit(c, m) /\ (NeedsCompletion(c, m) => EntryFree)

RegisterFromZero(c, m) ==   \* mutant: the id is taken before it is incremented
  IF NeedsCompletion(c, m)
  THEN /\ nextCid' = nextCid + 1
       /\ comp' = comp \cup {[id |-> nextCid, msg |-> m,
                              remaining |-> Cardinality(Selected(c, m)),
                              to |-> Selected(c, m), by |-> {}]}
  ELSE UNCHANGED <<nextCid, comp>>

\* register_forward_completion_locked, with the first free entry.
Register(c, m) ==
  IF NeedsCompletion(c, m)
  THEN /\ nextCid' = nextCid + 1
       /\ comp' = comp \cup {[id |-> nextCid + 1, msg |-> m,
                              remaining |-> Cardinality(Selected(c, m)),
                              to |-> Selected(c, m), by |-> {}]}
  ELSE UNCHANGED <<nextCid, comp>>

\* One critical section: a message is queued for all its targets or for none.
Dispatch ==
  /\ pc = "dispatch"
  /\ CanDispatch(view, fwd.msg)
  /\ Register(view, fwd.msg)
  /\ LET id == IF NeedsCompletion(view, fwd.msg) THEN nextCid + 1 ELSE 0
     IN  /\ pushQ' = pushQ \cup {NewLeg(fwd.ev, fwd.msg, id, c) : c \in PushTargets(view, fwd.msg)}
         /\ emailQ' = emailQ \cup (IF WantsEmail(view, fwd.msg)
                                   THEN {NewLeg(fwd.ev, fwd.msg, id, Email)} ELSE {})
  /\ pc' = "forward" /\ fwd' = None
  /\ UNCHANGED <<cfg, env, fwdQ, cooling, inbox, view, leg, subject, events>>

DispatchBusy ==
  /\ pc = "dispatch"
  /\ ~CanDispatch(view, fwd.msg)
  /\ pc' = "requeue"
  /\ UNCHANGED <<cfg, env, shared, cooling, inbox, fwd, view, leg, subject, events>>

\* requeue_forward_later(.., count_attempt = false): busy queues cost no attempt,
\* so the give-up branch is dead; a forward queue that filled up meanwhile loses the job.
Requeue ==
  /\ pc = "requeue"
  /\ fwdQ' = IF Cardinality(fwdQ) < FwdMax
             THEN fwdQ \cup {Later(fwd)} ELSE fwdQ
  /\ pc' = "forward" /\ fwd' = None
  /\ UNCHANGED <<cfg, env, pushQ, emailQ, comp, nextCid, cooling, inbox, view, leg, subject, events>>

Ready(j) == j.due /\ j.target \notin cooling

PickPush ==
  /\ pc = "push"
  /\ env = "ok"
  /\ \E j \in pushQ : Ready(j) /\ leg' = j /\ pushQ' = pushQ \ {j}
  /\ pc' = "send"
  /\ UNCHANGED <<cfg, env, fwdQ, emailQ, comp, nextCid, cooling, inbox, fwd, view, subject, events>>

NoPush ==
  /\ pc = "push"
  /\ env = "ok" => \A j \in pushQ : ~Ready(j)
  /\ pc' = "email"
  /\ UNCHANGED <<cfg, env, shared, cooling, inbox, fwd, view, leg, subject, events>>

\* process_email_one reads the configuration before it takes the lock.
ReadEmailConfig ==
  /\ pc = "email"
  /\ pc' = IF env = "offline" THEN "forward"
           ELSE IF ~cfg.emailEnabled THEN "purge"
           ELSE IF env = "lowHeap" THEN "forward" ELSE "pickEmail"
  /\ UNCHANGED <<cfg, env, shared, cooling, inbox, fwd, view, leg, subject, events>>

CancelNothing(ids) == comp' = comp   \* mutant: a lost leg is not cancelled
\* cancel_forward_completion_locked for every id in ids.
Cancel(ids) == comp' = {c \in comp : c.id \notin ids}

\* E-mail was switched off: every queued mail is thrown away and its message
\* stays unforwarded.
PurgeEmail ==
  /\ pc = "purge"
  /\ emailQ' = {}
  /\ Cancel({j.cid : j \in emailQ})
  /\ pc' = "forward"
  /\ UNCHANGED <<cfg, env, fwdQ, pushQ, nextCid, cooling, inbox, fwd, view, leg, subject, events>>

PickEmail ==
  /\ pc = "pickEmail"
  /\ \/ \E j \in emailQ : j.due /\ leg' = j /\ emailQ' = emailQ \ {j} /\ pc' = "send"
     \/ /\ \A j \in emailQ : ~j.due
        /\ pc' = "forward" /\ UNCHANGED <<leg, emailQ>>
  /\ UNCHANGED <<cfg, env, fwdQ, pushQ, comp, nextCid, cooling, inbox, fwd, view, subject, events>>

\* The channel was removed from the configuration after the leg was queued.
SendInvalid ==
  /\ pc = "send"
  /\ leg.target \in Channels \ cfg.valid
  /\ Cancel({leg.cid})
  /\ pc' = "forward" /\ leg' = None
  /\ UNCHANGED <<cfg, env, fwdQ, pushQ, emailQ, nextCid, cooling, inbox, fwd, view, subject, events>>

\* A mail in hand is sent with the settings read before it was picked.
MaySend == pc = "send" /\ leg.target \in cfg.valid \cup {Email}

\* The target has taken the message; the dispatch the leg is of takes note.
Accepted(id, t) == {IF c.id = id THEN [c EXCEPT !.by = @ \cup {t}] ELSE c : c \in comp}
SendOk ==
  /\ MaySend
  /\ cooling' = cooling \ {leg.target}
  /\ comp' = Accepted(leg.cid, leg.target)
  /\ pc' = "succeed"
  /\ UNCHANGED <<cfg, env, fwdQ, pushQ, emailQ, nextCid, inbox, fwd, view, leg, subject, events>>

SendFails ==
  /\ MaySend
  /\ cooling' = cooling \cup ({leg.target} \cap Channels)
  /\ leg' = Again(leg)
  /\ pc' = IF Again(leg).attempts >= RetryMax THEN "giveUp" ELSE "retry"
  /\ UNCHANGED <<cfg, env, shared, inbox, fwd, view, subject, events>>

OneToGo(c) == c.remaining <= 2   \* mutant: off by one
LastLeg(c) == c.remaining <= 1

\* note_forward_target_success: the last leg of an entry frees it, and the inbox
\* is marked after the lock is released.
NoteSuccess ==
  /\ pc = "succeed"
  /\ LET mine == {c \in comp : c.id = leg.cid}
         over == {c \in mine : LastLeg(c)}
     IN  /\ comp' = (comp \ mine) \cup {[c EXCEPT !.remaining = @ - 1] : c \in mine \ over}
         /\ IF over # {}
            THEN pc' = "mark" /\ subject' = (CHOOSE c \in over : TRUE).msg
            ELSE pc' = "forward" /\ UNCHANGED subject
  /\ leg' = None
  /\ UNCHANGED <<cfg, env, fwdQ, pushQ, emailQ, nextCid, cooling, inbox, fwd, view, events>>

\* idf_inbox_set_forwarded does nothing for entry 0 and for one that is gone.
SetForwarded(mark) ==
  inbox' = [m \in Msgs |->
              IF m = subject /\ inbox[m] \in {"pending", "forwarded"} THEN mark ELSE inbox[m]]

Mark ==
  /\ pc = "mark"
  /\ SetForwarded("forwarded")
  /\ pc' = "forward" /\ subject' = NoMsg
  /\ UNCHANGED <<cfg, env, shared, cooling, fwd, view, leg, events>>

\* A failed leg goes back to its queue unless the queue filled up meanwhile.
Retry ==
  /\ pc = "retry"
  /\ \/ /\ leg.target \in Channels /\ Cardinality(pushQ) < PushMax
        /\ pushQ' = pushQ \cup {Later(leg)} /\ UNCHANGED emailQ
        /\ pc' = "forward" /\ leg' = None
     \/ /\ leg.target = Email /\ Cardinality(emailQ) < EmailMax
        /\ emailQ' = emailQ \cup {Later(leg)} /\ UNCHANGED pushQ
        /\ pc' = "forward" /\ leg' = None
     \/ /\ IF leg.target = Email THEN Cardinality(emailQ) >= EmailMax
                                 ELSE Cardinality(pushQ) >= PushMax
        /\ pc' = "giveUp" /\ UNCHANGED <<pushQ, emailQ, leg>>
  /\ UNCHANGED <<cfg, env, fwdQ, comp, nextCid, cooling, inbox, fwd, view, subject, events>>

\* The leg is lost: its completion is cancelled, then the inbox entry is set back.
GiveUp ==
  /\ pc = "giveUp"
  /\ Cancel({leg.cid})
  /\ pc' = "clear" /\ subject' = leg.msg /\ leg' = None
  /\ UNCHANGED <<cfg, env, fwdQ, pushQ, emailQ, nextCid, cooling, inbox, fwd, view, events>>

ClearMark ==
  /\ pc = "clear"
  /\ SetForwarded("pending")
  /\ pc' = "forward" /\ subject' = NoMsg
  /\ UNCHANGED <<cfg, env, shared, cooling, fwd, view, leg, events>>

-----------------------------------------------------------------------------
Worker ==
  \/ PopForward \/ NoForward \/ Decide \/ Dispatch \/ DispatchBusy \/ Requeue
  \/ PickPush \/ NoPush \/ ReadEmailConfig \/ PurgeEmail \/ PickEmail
  \/ SendInvalid \/ SendOk \/ SendFails
  \/ NoteSuccess \/ Mark \/ Retry \/ GiveUp \/ ClearMark

Others ==
  \/ \E m \in Msgs : Receive(m) \/ Resend(m) \/ Forget(m)
  \/ ForwardCall \/ Notify \/ MailNotice \/ SaveConfig \/ EnvChange \/ Restart

Time == ForwardDue \/ PushDue \/ EmailDue \/ CoolDown

Next == Worker \/ Others \/ Time

Spec == Init /\ [][Next]_vars

\* The worker task runs for ever and time passes.  A job the worker puts back
\* waits at least 20 s (backoff_seconds), far longer than one pass of the worker,
\* so the pass that finds no forward job due comes up again and again.
\* Nothing is assumed of the other tasks, of the network or of a send's outcome.
FairSpec ==
  /\ Spec /\ WF_vars(Worker) /\ SF_vars(NoForward)
  /\ WF_vars(ForwardDue) /\ WF_vars(PushDue) /\ WF_vars(EmailDue) /\ WF_vars(CoolDown)

-----------------------------------------------------------------------------
TypeOK ==
  /\ cfg \in Configs /\ view \in Configs
  /\ env \in {"ok", "lowHeap", "offline"}
  /\ fwdQ \in SUBSET ForwardJob
  /\ pushQ \in SUBSET {l \in Leg : l.target \in Channels}
  /\ emailQ \in SUBSET {l \in Leg : l.target = Email}
  /\ comp \in SUBSET Completion
  /\ nextCid \in Nat
  /\ cooling \in SUBSET Channels
  /\ inbox \in [Msgs -> {"unseen", "pending", "forwarded", "gone"}]
  /\ pc \in WorkerSteps
  /\ pc \in {"decide", "dispatch", "requeue"} => fwd \in ForwardJob
  /\ pc \in LegSteps => leg \in Leg
  /\ subject \in Msgs \cup {NoMsg}
  /\ events \in Nat

\* The queues never exceed the fixed arrays they live in, forward, push and e-mail.
QueuesBounded ==
  /\ Cardinality(fwdQ) <= FwdMax
  /\ Cardinality(pushQ) <= PushMax
  /\ Cardinality(emailQ) <= EmailMax

\* Every entry of the completion table counts exactly the legs of its message
\* still in a queue or in the worker's hand, and at least one: no entry is
\* leaked when a leg is cancelled, purged, retried or lost, and none reaches
\* zero while a leg is outstanding (idf_push.cpp:222-277 with all its callers).
CompletionAccounting ==
  \A c \in comp : /\ c.remaining = Cardinality(Owed(c.id))
                  /\ c.remaining > 0

\* What makes the accounting inductive: the ids in use are the ones handed out
\* so far, no two entries share one, and an id has at most one leg per target.
Queued == pushQ \cup emailQ
FreshIds == /\ \A j \in Live : j.cid <= nextCid
            /\ \A c \in comp : c.id <= nextCid
UniqueIds == \A c, d \in comp : c.id = d.id => c = d
SameLeg(j, k) == j.cid = k.cid /\ j.cid # 0 /\ j.target = k.target
OneLegPerTarget == /\ \A j, k \in Queued : SameLeg(j, k) => j = k
                   /\ pc \in LegSteps => \A j \in Queued : ~SameLeg(j, leg)

\* When the legs of a message fit in the queues there is a free completion
\* entry, so the table of PUSH_QUEUE_MAX + EMAIL_QUEUE_MAX entries
\* (idf_push.cpp:150) is never the reason to put a message off.
CompletionEntryFree ==
  pc = "dispatch" /\ LegsFit(view, fwd.msg) /\ NeedsCompletion(view, fwd.msg) => EntryFree

\* The inductive invariant of the accounting.
AccountingInv == /\ TypeOK /\ FreshIds /\ UniqueIds /\ OneLegPerTarget
                 /\ CompletionAccounting

\* A target of a dispatch that has not accepted it still has its leg, every leg is for
\* one of its targets, and the leg that was just delivered is on record as accepted.
NobodyForgotten ==
  /\ \A c \in comp : c.to \ c.by \subseteq Owed(c.id) /\ Owed(c.id) \subseteq c.to
  /\ pc = "succeed" => \A c \in comp : c.id = leg.cid => leg.target \in c.by
LedgerInv == AccountingInv /\ NobodyForgotten

\* An entry is marked forwarded only when every target of one dispatch of it has
\* accepted the message or a rule dropped it, whatever is retried, cancelled, purged or
\* lost meanwhile; no target is ever excused.  The core implements ForwardLedger, whose
\* Accept is the step SendOk and nothing else (idf_push.cpp:203-277, 979-1241).
Promises == {[id |-> c.id, msg |-> c.msg, to |-> c.to, by |-> c.by, off |-> {}] : c \in comp}
Ledger == INSTANCE ForwardLedger WITH
            open <- Promises,
            settling <- IF pc = "mark" THEN {subject} ELSE {},
            dropped <- {m \in Msgs \cup {NoMsg} : cfg.rule[m].drop},
            void <- {}
ImplementsLedger == Ledger!Spec

\* With the network up and memory free for good, every retry is bounded and no
\* job waits for ever for room, a cool-down or another job: the queues drain,
\* whatever settings are saved meanwhile (idf_push.cpp:979-1305).
Idle == fwdQ = {} /\ pushQ = {} /\ emailQ = {}
QueuesDrain == <>[](env = "ok") => <>[]Idle
=============================================================================
