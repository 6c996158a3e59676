--------------------------- MODULE ServicesProofs ---------------------------
(***************************************************************************)
(* Proofs about Services, for every value of the constants.  The Linux     *)
(* forwarding: the counting of dispatches is exact, and the service        *)
(* implements the ledger.  The Wi-Fi manager: its flag says whether the    *)
(* device is connected.  The jobs of the web server: one user of the modem *)
(* at a time, a list of profiles that is the card's, restarts that cut off *)
(* nothing.  The Linux intake: nothing taken in is lost, no command obeyed *)
(* twice.                                                                  *)
(***************************************************************************)
EXTENDS Services, FiniteSetTheorems, SequenceTheorems, TLAPS

-----------------------------------------------------------------------------
(* Types.                                                                  *)

LEMMA NoneFacts == None \notin Targets /\ None \notin Configs /\ None \notin Job
BY NoneApart, ConfigsAreConfigs

LEMMA RestType == /\ Rest \in Client /\ InOrder(Rest)
                  /\ Rest.at = "idle" /\ Rest.ev = 0 /\ Rest.msg = NoMsg
                  /\ Rest.todo = {} /\ Rest.leg = None /\ Rest.ok = FALSE
BY NoneFacts DEF Rest, Client, ClientSteps, Ids, InOrder

\* A thread takes a step of its own.
LEMMA ClientChange ==
  ASSUME client \in [Threads -> Client], NEW c \in Threads, NEW r \in Client,
         client' = [client EXCEPT ![c] = r]
  PROVE  /\ client' \in [Threads -> Client]
         /\ client'[c] = r
         /\ \A d \in Threads \ {c} : client'[d] = client[d]
OBVIOUS

\* What a thread's record is after a step.
Moved(c, r) == r \in Client /\ InOrder(r) /\ client' = [client EXCEPT ![c] = r]

LEMMA RequestMoves ==
  ASSUME TypeOK, NEW c \in Threads, NEW m \in Ids, Request(c, m, "snapshot")
  PROVE  /\ \E r : Moved(c, r) /\ r.at = "snapshot" /\ r.ev = events + 1 /\ r.msg = m
         /\ ~Busy(c) /\ events' = events + 1
<1> DEFINE r == [Rest EXCEPT !.at = "snapshot", !.ev = events + 1, !.msg = m]
<1>1. events + 1 \in Nat /\ "snapshot" \in ClientSteps /\ Rest \in Client
  BY RestType DEF TypeOK, ClientSteps
<1>2. r \in Client
  BY <1>1 DEF Client
<1>3. /\ r.at = "snapshot" /\ r.ev = events + 1 /\ r.msg = m
      /\ r.todo = {} /\ r.leg = None /\ r.ok = FALSE
  BY <1>1, RestType DEF Client
<1>4. client' = [client EXCEPT ![c] = r]
  BY DEF Request
<1> HIDE DEF r
<1>5. InOrder(r)
  BY <1>3 DEF InOrder
<1>6. QED
  BY <1>2, <1>3, <1>4, <1>5 DEF Moved, Busy, Request

LEMMA SaveMoves ==
  ASSUME TypeOK, ClientsInOrder, Save
  PROVE  \E r : Moved("web", r) /\ r.at = "publish"
<1> DEFINE r == [client["web"] EXCEPT !.at = "publish"]
<1>1. client["web"] \in Client /\ InOrder(client["web"]) /\ client["web"].at = "idle"
  BY DEF Save, TypeOK, ClientsInOrder, Threads
<1>2. r \in Client
  BY <1>1 DEF Client, ClientSteps
<1>3. r.at = "publish" /\ r.leg = client["web"].leg /\ r.todo = client["web"].todo /\ r.ok = client["web"].ok
  BY <1>1 DEF Client
<1>4. client' = [client EXCEPT !["web"] = r]
  BY DEF Save
<1> HIDE DEF r
<1>5. InOrder(r)
  BY <1>1, <1>3 DEF InOrder
<1>6. QED
  BY <1>2, <1>3, <1>4, <1>5 DEF Moved

LEMMA SnapshotMoves ==
  ASSUME TypeOK, ClientsInOrder, NEW c \in Threads, Snapshot(c)
  PROVE  \E r : /\ Moved(c, r) /\ r.at = IF c = "main" THEN "store" ELSE "decide"
                /\ r.view = cfg /\ r.ev = client[c].ev /\ r.msg = client[c].msg /\ r.ok = FALSE
<1> DEFINE r == [client[c] EXCEPT !.view = cfg, !.at = IF c = "main" THEN "store" ELSE "decide"]
<1>1. client[c] \in Client /\ InOrder(client[c]) /\ client[c].at = "snapshot" /\ cfg \in Configs
  BY DEF Snapshot, TypeOK, ClientsInOrder
<1>2. r \in Client
  BY <1>1 DEF Client, ClientSteps
<1>3. /\ r.at = IF c = "main" THEN "store" ELSE "decide"
      /\ r.view = cfg /\ r.ev = client[c].ev /\ r.msg = client[c].msg
      /\ r.ok = client[c].ok /\ r.leg = client[c].leg /\ r.todo = client[c].todo
  BY <1>1 DEF Client
<1>4. client' = [client EXCEPT ![c] = r]
  BY DEF Snapshot
<1> HIDE DEF r
<1>5. InOrder(r) /\ r.ok = FALSE
  BY <1>1, <1>2, <1>3 DEF InOrder, Client
<1>6. QED
  BY <1>2, <1>3, <1>4, <1>5 DEF Moved

LEMMA StoreMoves ==
  ASSUME TypeOK, ClientsInOrder, Store
  PROVE  \E r : /\ Moved("main", r) /\ r.at = "decide" /\ r.view = client["main"].view
                /\ r.ev = client["main"].ev /\ r.msg = client["main"].msg /\ r.ok = FALSE
<1> DEFINE r == [client["main"] EXCEPT !.at = "decide"]
<1>1. client["main"] \in Client /\ InOrder(client["main"]) /\ client["main"].at = "store"
  BY DEF Store, TypeOK, ClientsInOrder, Threads
<1>2. r \in Client
  BY <1>1 DEF Client, ClientSteps
<1>3. /\ r.at = "decide" /\ r.view = client["main"].view
      /\ r.ev = client["main"].ev /\ r.msg = client["main"].msg
      /\ r.ok = client["main"].ok /\ r.leg = client["main"].leg /\ r.todo = client["main"].todo
  BY <1>1 DEF Client
<1>4. client' = [client EXCEPT !["main"] = r]
  BY DEF Store
<1> HIDE DEF r
<1>5. InOrder(r) /\ r.ok = FALSE
  BY <1>1, <1>2, <1>3 DEF InOrder, Client
<1>6. QED
  BY <1>2, <1>3, <1>4, <1>5 DEF Moved

LEMMA DecideMoves ==
  ASSUME TypeOK, ClientsInOrder, NEW c \in Threads, Decide(c)
  PROVE  \E r : /\ Moved(c, r) /\ r.at \in {"mark", "idle", "begin"}
                /\ r.at # "idle" => r.ev = client[c].ev /\ r.msg = client[c].msg
                /\ r.at = "mark" <=> Dropped(c)
                /\ r.ok <=> r.at = "mark"
<1>1. client[c] \in Client /\ InOrder(client[c]) /\ client[c].at = "decide"
  BY DEF Decide, TypeOK, ClientsInOrder
<1>2. client[c].view \in Config /\ client[c].msg \in Ids
  BY <1>1, ConfigsAreConfigs DEF InOrder, Client
<1>3. TargetsOf(c) \subseteq Targets
  BY <1>2 DEF Config, TargetsOf
<1>4. client[c].leg = None /\ client[c].ok = FALSE
  BY <1>1 DEF InOrder, Client
<1>5. CASE Dropped(c)
  <2> DEFINE r == [client[c] EXCEPT !.at = "mark", !.ok = TRUE]
  <2>1. r \in Client
    BY <1>1 DEF Client, ClientSteps
  <2>2. /\ r.at = "mark" /\ r.ok = TRUE /\ r.ev = client[c].ev /\ r.msg = client[c].msg
        /\ r.leg = client[c].leg /\ r.todo = client[c].todo
    BY <1>1 DEF Client
  <2>3. client' = [client EXCEPT ![c] = r]
    BY <1>5 DEF Decide
  <2> HIDE DEF r
  <2>4. InOrder(r)
    BY <1>1, <2>2 DEF InOrder
  <2>5. QED
    BY <1>5, <2>1, <2>2, <2>3, <2>4 DEF Moved
<1>6. CASE ~Dropped(c) /\ TargetsOf(c) = {}
  <2>1. client' = [client EXCEPT ![c] = Rest]
    BY <1>6 DEF Decide
  <2>2. QED
    BY <1>6, <2>1, RestType DEF Moved
<1>7. CASE ~Dropped(c) /\ TargetsOf(c) # {}
  <2> DEFINE r == [client[c] EXCEPT !.at = "begin", !.todo = TargetsOf(c)]
  <2>1. r \in Client
    BY <1>1, <1>3 DEF Client, ClientSteps
  <2>2. /\ r.at = "begin" /\ r.ok = client[c].ok /\ r.ev = client[c].ev /\ r.msg = client[c].msg
        /\ r.leg = client[c].leg /\ r.todo = TargetsOf(c)
    BY <1>1 DEF Client
  <2>3. client' = [client EXCEPT ![c] = r]
    BY <1>7 DEF Decide
  <2> HIDE DEF r
  <2>4. InOrder(r)
    BY <1>3, <1>4, <1>7, <2>2, NoneFacts DEF InOrder
  <2>5. QED
    BY <1>4, <1>7, <2>1, <2>2, <2>3, <2>4 DEF Moved
<1>8. QED
  BY <1>5, <1>6, <1>7

LEMMA BeginMoves ==
  ASSUME TypeOK, ClientsInOrder, NEW c \in Threads, client[c].at = "begin",
         client' = [client EXCEPT ![c].at = "enqueue"]
  PROVE  \E r : /\ Moved(c, r) /\ r.at = "enqueue" /\ r.ev = client[c].ev /\ r.msg = client[c].msg
                /\ r.todo = client[c].todo /\ r.leg = None /\ r.ok = FALSE
<1> DEFINE r == [client[c] EXCEPT !.at = "enqueue"]
<1>1. client[c] \in Client /\ InOrder(client[c])
  BY DEF TypeOK, ClientsInOrder
<1>2. r \in Client
  BY <1>1 DEF Client, ClientSteps
<1>3. /\ r.at = "enqueue" /\ r.ev = client[c].ev /\ r.msg = client[c].msg
      /\ r.todo = client[c].todo /\ r.leg = client[c].leg /\ r.ok = client[c].ok
  BY <1>1 DEF Client
<1>4. client' = [client EXCEPT ![c] = r]
  OBVIOUS
<1> HIDE DEF r
<1>5. InOrder(r) /\ r.ok = FALSE /\ r.leg = None
  BY <1>1, <1>2, <1>3 DEF InOrder, Client
<1>6. QED
  BY <1>2, <1>3, <1>4, <1>5 DEF Moved

\* One target of the dispatch is queued or turned away; the thread goes on with
\* the others, if any.
LEMMA EnqueueMoves ==
  ASSUME TypeOK, ClientsInOrder, NEW c \in Threads, Enqueue(c)
  PROVE  \E t \in client[c].todo : \E r :
           /\ Moved(c, r) /\ r.ok = FALSE
           /\ r.at # "idle" => /\ r.ev = client[c].ev /\ r.msg = client[c].msg
                               /\ r.todo = client[c].todo \ {t}
           /\ \/ r.at = "reject" /\ r.leg = t /\ jobs' = jobs
              \/ /\ \/ r.at = "enqueue" /\ r.leg = None
                    \/ r.at = "idle" /\ client[c].todo = {t}
                 /\ jobs' = jobs \cup {[ev |-> client[c].ev, msg |-> client[c].msg, target |-> t,
                                        attempts |-> 0, due |-> TRUE]}
<1>1. client[c] \in Client /\ InOrder(client[c]) /\ client[c].at = "enqueue"
  BY DEF Enqueue, TypeOK, ClientsInOrder
<1>2. client[c].todo \in SUBSET Targets /\ client[c].leg = None /\ client[c].ok = FALSE
  BY <1>1 DEF InOrder, Client
<1>3. PICK t \in client[c].todo :
        LET rest == [client[c] EXCEPT !.todo = @ \ {t}]
            next == IF rest.todo = {} THEN Rest ELSE rest
        IN  IF Full
            THEN /\ client' = [client EXCEPT ![c] = [rest EXCEPT !.at = "reject", !.leg = t]]
                 /\ UNCHANGED jobs
            ELSE /\ jobs' = jobs \cup {[ev |-> client[c].ev, msg |-> client[c].msg, target |-> t,
                                        attempts |-> 0, due |-> TRUE]}
                 /\ client' = [client EXCEPT ![c] = next]
  BY DEF Enqueue
<1> DEFINE rest == [client[c] EXCEPT !.todo = @ \ {t}]
           rejected == [rest EXCEPT !.at = "reject", !.leg = t]
<1>4. rest \in Client
  BY <1>1, <1>2 DEF Client
<1>5. /\ rest.at = "enqueue" /\ rest.ev = client[c].ev /\ rest.msg = client[c].msg
      /\ rest.todo = client[c].todo \ {t} /\ rest.leg = None /\ rest.ok = FALSE
  BY <1>1, <1>2 DEF Client
<1>6. CASE Full
  <2> HIDE DEF rest
  <2>1. rejected \in Client
    BY <1>2, <1>4 DEF Client, ClientSteps
  <2>2. /\ rejected.at = "reject" /\ rejected.ev = rest.ev /\ rejected.msg = rest.msg
        /\ rejected.todo = rest.todo /\ rejected.leg = t /\ rejected.ok = rest.ok
    BY <1>4 DEF Client
  <2>3. client' = [client EXCEPT ![c] = rejected] /\ jobs' = jobs
    BY <1>3, <1>6 DEF rest
  <2> HIDE DEF rejected
  <2>4. InOrder(rejected)
    BY <1>2, <1>5, <2>2, NoneFacts DEF InOrder
  <2>5. QED
    BY <1>5, <2>1, <2>2, <2>3, <2>4 DEF Moved
<1>7. CASE ~Full /\ rest.todo = {}
  <2>1. client' = [client EXCEPT ![c] = Rest] /\ client[c].todo = {t}
    BY <1>3, <1>5, <1>7
  <2>2. QED
    BY <1>3, <1>7, <2>1, RestType DEF Moved
<1>8. CASE ~Full /\ rest.todo # {}
  <2>1. client' = [client EXCEPT ![c] = rest]
    BY <1>3, <1>8
  <2> HIDE DEF rest
  <2>2. InOrder(rest)
    BY <1>2, <1>5, <1>8, NoneFacts DEF InOrder
  <2>3. QED
    BY <1>3, <1>4, <1>5, <1>8, <2>1, <2>2 DEF Moved
<1>9. QED
  BY <1>6, <1>7, <1>8

LEMMA RejectMoves ==
  ASSUME TypeOK, ClientsInOrder, NEW c \in Threads, Reject(c)
  PROVE  \E r : /\ Moved(c, r) /\ r.ok = FALSE
                /\ r.at # "idle" => /\ r.ev = client[c].ev /\ r.msg = client[c].msg
                                    /\ r.todo = client[c].todo
                /\ \/ r.at = "mark" /\ Ready(client[c].msg)
                   \/ r.at = "idle" /\ client[c].todo = {} /\ ~Ready(client[c].msg)
                   \/ r.at = "enqueue" /\ r.leg = None /\ ~Ready(client[c].msg)
<1>1. client[c] \in Client /\ InOrder(client[c]) /\ client[c].at = "reject"
  BY DEF Reject, TypeOK, ClientsInOrder
<1>2. client[c].ok = FALSE /\ client[c].todo \in SUBSET Targets
  BY <1>1 DEF InOrder, Client
<1>3. CASE Ready(client[c].msg)
  <2> DEFINE r == [client[c] EXCEPT !.at = "mark", !.leg = None]
  <2>1. r \in Client
    BY <1>1 DEF Client, ClientSteps
  <2>2. /\ r.at = "mark" /\ r.ev = client[c].ev /\ r.msg = client[c].msg
        /\ r.todo = client[c].todo /\ r.leg = None /\ r.ok = client[c].ok
    BY <1>1 DEF Client
  <2>3. client' = [client EXCEPT ![c] = r]
    BY <1>3 DEF Reject
  <2> HIDE DEF r
  <2>4. InOrder(r)
    BY <1>2, <2>2, NoneFacts DEF InOrder
  <2>5. QED
    BY <1>2, <1>3, <2>1, <2>2, <2>3, <2>4 DEF Moved
<1>4. CASE ~Ready(client[c].msg) /\ client[c].todo = {}
  <2>1. client' = [client EXCEPT ![c] = Rest]
    BY <1>4 DEF Reject, AfterReject
  <2>2. QED
    BY <1>4, <2>1, RestType DEF Moved
<1>5. CASE ~Ready(client[c].msg) /\ client[c].todo # {}
  <2> DEFINE r == [client[c] EXCEPT !.at = "enqueue", !.leg = None]
  <2>1. r \in Client
    BY <1>1 DEF Client, ClientSteps
  <2>2. /\ r.at = "enqueue" /\ r.ev = client[c].ev /\ r.msg = client[c].msg
        /\ r.todo = client[c].todo /\ r.leg = None /\ r.ok = client[c].ok
    BY <1>1 DEF Client
  <2>3. client' = [client EXCEPT ![c] = r]
    BY <1>5 DEF Reject, AfterReject
  <2> HIDE DEF r
  <2>4. InOrder(r)
    BY <1>2, <1>5, <2>2, NoneFacts DEF InOrder
  <2>5. QED
    BY <1>2, <1>5, <2>1, <2>2, <2>3, <2>4 DEF Moved
<1>6. QED
  BY <1>3, <1>4, <1>5

LEMMA FinishType ==
  ASSUME comp \subseteq Completion, NEW m, NEW success \in BOOLEAN, FinishLeg(m, success)
  PROVE  comp' \subseteq Completion
<1> SUFFICES ASSUME NEW x \in comp' PROVE x \in Completion
  OBVIOUS
<1>1. CASE x \in comp
  BY <1>1
<1>2. CASE x \notin comp
  <2>1. PICK c \in EntryOf(m) : /\ c.remaining > 1
                               /\ x = [c EXCEPT !.remaining = @ - 1, !.failed = @ \/ ~success]
    BY <1>2 DEF FinishLeg
  <2>2. c \in Completion
    BY DEF EntryOf
  <2>3. c.remaining - 1 \in Nat /\ (c.failed \/ ~success) \in BOOLEAN
    BY <2>1, <2>2 DEF Completion
  <2>4. QED
    BY <2>1, <2>2, <2>3 DEF Completion
<1>3. QED
  BY <1>1, <1>2

\* A dispatch takes note of what became of a leg.
NotedAs(c, by, off) ==
  IF c.msg = job.msg /\ c.ev = job.ev THEN [c EXCEPT !.by = @ \cup by, !.off = @ \cup off] ELSE c

LEMMA NoteFields ==
  ASSUME comp \subseteq Completion, NEW B \in SUBSET Targets, NEW F \in SUBSET Targets, Note(B, F)
  PROVE  /\ comp' = {NotedAs(c, B, F) : c \in comp}
         /\ comp' \subseteq Completion
         /\ \A c \in comp :
              /\ NotedAs(c, B, F).ev = c.ev /\ NotedAs(c, B, F).msg = c.msg
              /\ NotedAs(c, B, F).remaining = c.remaining
              /\ NotedAs(c, B, F).failed = c.failed /\ NotedAs(c, B, F).to = c.to
              /\ c.msg = job.msg /\ c.ev = job.ev =>
                   NotedAs(c, B, F).by = c.by \cup B /\ NotedAs(c, B, F).off = c.off \cup F
              /\ ~(c.msg = job.msg /\ c.ev = job.ev) => NotedAs(c, B, F) = c
<1>1. comp' = {NotedAs(c, B, F) : c \in comp}
  BY DEF Note, NotedAs
<1>2. ASSUME NEW c \in comp, c.msg = job.msg /\ c.ev = job.ev,
             NEW d, d = [c EXCEPT !.by = @ \cup B, !.off = @ \cup F]
      PROVE  /\ d \in Completion
             /\ d.ev = c.ev /\ d.msg = c.msg /\ d.remaining = c.remaining
             /\ d.failed = c.failed /\ d.to = c.to
             /\ d.by = c.by \cup B /\ d.off = c.off \cup F
  <2>1. c \in Completion /\ c.by \cup B \in SUBSET Targets /\ c.off \cup F \in SUBSET Targets
    BY DEF Completion
  <2>2. QED
    BY <1>2, <2>1 DEF Completion
<1>3. ASSUME NEW c \in comp
      PROVE  /\ NotedAs(c, B, F) \in Completion
             /\ NotedAs(c, B, F).ev = c.ev /\ NotedAs(c, B, F).msg = c.msg
             /\ NotedAs(c, B, F).remaining = c.remaining
             /\ NotedAs(c, B, F).failed = c.failed /\ NotedAs(c, B, F).to = c.to
             /\ c.msg = job.msg /\ c.ev = job.ev =>
                  NotedAs(c, B, F).by = c.by \cup B /\ NotedAs(c, B, F).off = c.off \cup F
             /\ ~(c.msg = job.msg /\ c.ev = job.ev) => NotedAs(c, B, F) = c
  <2>1. CASE c.msg = job.msg /\ c.ev = job.ev
    <3>1. NotedAs(c, B, F) = [c EXCEPT !.by = @ \cup B, !.off = @ \cup F]
      BY <2>1 DEF NotedAs
    <3>2. QED
      BY <1>2, <2>1, <3>1, Zenon
  <2>2. CASE ~(c.msg = job.msg /\ c.ev = job.ev)
    <3>1. NotedAs(c, B, F) = c
      BY <2>2, Zenon DEF NotedAs
    <3>2. QED
      BY <2>2, <3>1
  <2>3. QED
    BY <2>1, <2>2
<1>4. QED
  BY <1>1, <1>3, Zenon

\* What is noted of a leg: its target accepted, or was let off, or neither.
LEMMA NoteIs ==
  ASSUME TypeOK, Send \/ Discard
  PROVE  \E B, F \in SUBSET Targets :
           /\ Note(B, F) /\ job \in Job
           /\ ok' => job.target \in B \cup F
           /\ \/ B = {job.target} /\ F = {}
              \/ B = {} /\ F = {}
              \/ B = {} /\ F = {job.target} /\ job.target \in Channels \ workerCfg.valid
<1>1. job \in Job /\ job.target \in Targets
  BY DEF Send, Discard, TypeOK, Job
<1>2. CASE Send /\ ok'
  <2>1. Note({job.target}, {})
    BY <1>2 DEF Send
  <2>2. QED
    BY <1>1, <2>1
<1>3. CASE Send /\ ~ok'
  <2>1. Note({}, {})
    BY <1>3 DEF Send
  <2>2. QED
    BY <1>1, <1>3, <2>1
<1>4. CASE Discard
  <2>1. Note({}, {job.target}) /\ job.target \in Channels \ workerCfg.valid
    BY <1>4 DEF Discard
  <2>2. QED
    BY <1>1, <2>1
<1>5. QED
  BY <1>2, <1>3, <1>4

LEMMA MarkType ==
  ASSUME inbox \in [Msgs -> {"unseen", "pending", "forwarded", "gone"}],
         NEW m, NEW success, Mark(m, success)
  PROVE  inbox' \in [Msgs -> {"unseen", "pending", "forwarded", "gone"}]
BY DEF Mark

\* A job that waits again, or no longer, is the same leg.
SameJob(j, k) == k.ev = j.ev /\ k.msg = j.msg /\ k.target = j.target

LEMMA JobType ==
  ASSUME NEW j \in Job
  PROVE  /\ [j EXCEPT !.due = TRUE] \in Job /\ SameJob(j, [j EXCEPT !.due = TRUE])
         /\ [j EXCEPT !.attempts = @ + 1, !.due = FALSE] \in Job
         /\ SameJob(j, [j EXCEPT !.attempts = @ + 1, !.due = FALSE])
<1> DEFINE due == [j EXCEPT !.due = TRUE]
           retried == [j EXCEPT !.attempts = @ + 1, !.due = FALSE]
<1>1. due \in Job
  BY DEF Job
<1>a. retried \in Job
  <2>1. j.attempts + 1 \in Nat
    BY DEF Job
  <2>2. QED
    BY <2>1 DEF Job
<1>2. SameJob(j, due)
  BY DEF Job, SameJob
<1>3. SameJob(j, retried)
  BY DEF Job, SameJob
<1>4. QED
  BY <1>1, <1>a, <1>2, <1>3

LEMMA MovedType ==
  ASSUME TypeOK, NEW c \in Threads, NEW r, Moved(c, r)
  PROVE  /\ client' \in [Threads -> Client]
         /\ client'[c] = r /\ \A d \in Threads \ {c} : client'[d] = client[d]
         /\ ClientsInOrder => ClientsInOrder'
<1>1. client' \in [Threads -> Client] /\ client'[c] = r
  BY ClientChange DEF Moved, TypeOK
<1>2. \A d \in Threads \ {c} : client'[d] = client[d]
  BY ClientChange DEF Moved, TypeOK
<1>3. InOrder(r)
  BY DEF Moved
<1>4. ASSUME ClientsInOrder, NEW d \in Threads PROVE InOrder(client[d])'
  BY <1>1, <1>2, <1>3, <1>4 DEF ClientsInOrder, InOrder
<1>5. QED
  BY <1>1, <1>2, <1>4 DEF ClientsInOrder

LEMMA InitType == Init => TypeOK /\ ClientsInOrder
<1> SUFFICES ASSUME Init PROVE TypeOK /\ ClientsInOrder
  OBVIOUS
<1>1. client \in [Threads -> Client]
  BY RestType DEF Init
<1>2. ClientsInOrder
  BY RestType DEF Init, ClientsInOrder
<1>3. QED
  BY <1>1, <1>2 DEF Init, TypeOK

LEMMA NextType == TypeOK /\ ClientsInOrder /\ [Next]_vars => TypeOK'
<1> SUFFICES ASSUME TypeOK, ClientsInOrder, [Next]_vars PROVE TypeOK'
  OBVIOUS
<1>e. events \in Nat /\ events + 1 \in Nat
  BY DEF TypeOK
<1>1. ASSUME NEW m \in Ids, Receive(m) PROVE TypeOK'
  <2>1. client' \in [Threads -> Client]
    BY <1>1, RequestMoves, MovedType DEF Receive, Threads
  <2>2. QED
    BY <1>1, <1>e, <2>1 DEF Receive, Request, TypeOK, worker
<1>2. ASSUME NEW m \in Msgs, Resend(m) PROVE TypeOK'
  <2>1. client' \in [Threads -> Client]
    BY <1>2, RequestMoves, MovedType DEF Resend, Threads, Ids
  <2>2. QED
    BY <1>2, <1>e, <2>1 DEF Resend, Request, TypeOK, worker
<1>3. ASSUME NEW m \in Msgs, Forget(m) PROVE TypeOK'
  BY <1>3 DEF Forget, TypeOK, worker
<1>4. CASE Save
  <2>1. client' \in [Threads -> Client]
    BY <1>4, SaveMoves, MovedType DEF Threads
  <2>2. QED
    BY <1>4, <2>1 DEF Save, TypeOK, worker
<1>5. CASE Elapse
  <2>1. jobs' \subseteq Job
    BY <1>5, JobType DEF Elapse, TypeOK
  <2>2. QED
    BY <1>5, <2>1 DEF Elapse, TypeOK, worker
<1>6. CASE Restart
  <2>1. client' \in [Threads -> Client]
    BY <1>6, RestType DEF Restart
  <2>2. QED
    BY <1>6, <2>1 DEF Restart, TypeOK
<1>7. CASE Take
  BY <1>7, NoneFacts DEF Take, TypeOK
<1>8. CASE Send \/ Discard
  <2>1. comp' \subseteq Completion
    BY <1>8, NoteIs, NoteFields DEF TypeOK
  <2>2. ok' \in BOOLEAN
    BY <1>8 DEF Send, Discard
  <2>3. QED
    BY <1>8, <2>1, <2>2 DEF Send, Discard, TypeOK
<1>9. CASE Retry
  <2>1. job \in Job
    BY <1>9 DEF Retry, TypeOK
  <2>2. jobs' \subseteq Job
    BY <1>9, <2>1, JobType DEF Retry, TypeOK
  <2>3. QED
    BY <1>9, <2>2 DEF Retry, TypeOK
<1>10. CASE Finish
  <2>1. comp' \subseteq Completion
    BY <1>10, FinishType DEF Finish, TypeOK
  <2>2. QED
    BY <1>10, <2>1 DEF Finish, TypeOK
<1>11. CASE WorkerMark
  <2>1. inbox' \in [Msgs -> {"unseen", "pending", "forwarded", "gone"}]
    BY <1>11, MarkType DEF WorkerMark, TypeOK
  <2>2. QED
    BY <1>11, <2>1 DEF WorkerMark, TypeOK
<1>12. ASSUME NEW c \in Threads, ClientStep(c) PROVE TypeOK'
  <2>1. CASE Snapshot(c)
    <3>1. client' \in [Threads -> Client]
      BY <2>1, SnapshotMoves, MovedType
    <3>2. QED
      BY <2>1, <3>1 DEF Snapshot, TypeOK, worker
  <2>2. CASE Store
    <3>1. client' \in [Threads -> Client]
      BY <2>2, StoreMoves, MovedType DEF Threads
    <3>2. QED
      BY <2>2, <3>1 DEF Store, TypeOK, worker
  <2>3. CASE Publish
    <3>1. client' \in [Threads -> Client]
      BY <2>3, RestType DEF Publish, TypeOK, Threads
    <3>2. QED
      BY <2>3, <3>1 DEF Publish, TypeOK, worker
  <2>4. CASE Decide(c)
    <3>1. client' \in [Threads -> Client]
      BY <2>4, DecideMoves, MovedType
    <3>2. QED
      BY <2>4, <3>1 DEF Decide, TypeOK, worker
  <2>5. CASE Begin(c)
    <3>1. client' \in [Threads -> Client]
      BY <2>5, BeginMoves, MovedType, RestType DEF Begin, TypeOK
    <3>2. client[c] \in Client /\ client[c].todo \in SUBSET Targets
      BY DEF TypeOK, Client
    <3>3. Cardinality(client[c].todo) \in Nat
      BY <3>2, ChannelsFinite, FS_AddElement, FS_Subset, FS_CardinalityType DEF Targets
    <3>4. comp' \subseteq Completion
      <4>1. ASSUME NEW m \in {client[c].msg} \ {NoMsg}
            PROVE  [ev |-> client[c].ev, msg |-> m, remaining |-> Cardinality(client[c].todo),
                    failed |-> FALSE, to |-> client[c].todo, by |-> {}, off |-> {}]
                      \in Completion
        BY <3>2, <3>3, <4>1 DEF Completion, Client, Ids
      <4>2. QED
        BY <2>5, <4>1 DEF Begin, TypeOK
    <3>5. QED
      BY <2>5, <3>1, <3>4 DEF Begin, TypeOK, worker
  <2>6. CASE Enqueue(c)
    <3>1. client' \in [Threads -> Client]
      BY <2>6, EnqueueMoves, MovedType
    <3>2. \A t \in client[c].todo : [ev |-> client[c].ev, msg |-> client[c].msg, target |-> t,
                                     attempts |-> 0, due |-> TRUE] \in Job
      BY DEF TypeOK, Client, Job
    <3>3. jobs' \subseteq Job
      BY <2>6, <3>2, EnqueueMoves, ZenonT(60) DEF TypeOK
    <3>4. QED
      BY <2>6, <3>1, <3>3 DEF Enqueue, TypeOK, worker
  <2>7. CASE Reject(c)
    <3>1. client' \in [Threads -> Client]
      BY <2>7, RejectMoves, MovedType
    <3>2. comp' \subseteq Completion
      BY <2>7, FinishType DEF Reject, TypeOK
    <3>3. QED
      BY <2>7, <3>1, <3>2 DEF Reject, TypeOK, worker
  <2>8. CASE ClientMark(c)
    <3>1. client' \in [Threads -> Client]
      BY <2>8, RestType DEF ClientMark, TypeOK
    <3>2. inbox' \in [Msgs -> {"unseen", "pending", "forwarded", "gone"}]
      BY <2>8, MarkType DEF ClientMark, TypeOK
    <3>3. QED
      BY <2>8, <3>1, <3>2 DEF ClientMark, TypeOK, worker
  <2>9. QED
    BY <1>12, <2>1, <2>2, <2>3, <2>4, <2>5, <2>6, <2>7, <2>8 DEF ClientStep
<1>13. CASE UNCHANGED vars
  BY <1>13 DEF vars, worker, TypeOK
<1>14. QED
  BY <1>1, <1>2, <1>3, <1>4, <1>5, <1>6, <1>7, <1>8, <1>9, <1>10, <1>11, <1>12, <1>13
     DEF Next, Worker

-----------------------------------------------------------------------------
(* The counting of dispatches.                                             *)

Sound == ClientsInOrder /\ EvsApart /\ LegsApart /\ OneDispatchCounted
LegsKept == \A m \in Msgs, e \in Nat : LegsOf(m, e)' = LegsOf(m, e)

\* A leg is in the queue, in the worker's hands or still with a thread.
LEMMA InLegs ==
  \A m, e, t :
     /\ t \in LegsOf(m, e) <=>
          \/ \E j \in LiveJobs : j.msg = m /\ j.ev = e /\ j.target = t
          \/ \E c \in Threads : client[c].msg = m /\ client[c].ev = e /\ t \in ClientLegs(c)
     /\ t \in LegsOf(m, e)' <=>
          \/ \E j \in LiveJobs' : j.msg = m /\ j.ev = e /\ j.target = t
          \/ \E c \in Threads :
               client'[c].msg = m /\ client'[c].ev = e /\ t \in ClientLegs(c)'
BY DEF LegsOf, LiveJobs

LEMMA ClientLegsAre ==
  ASSUME NEW c \in Threads
  PROVE  /\ ~Holds(c) => ClientLegs(c) = {}
         /\ Holds(c) => ClientLegs(c) = client[c].todo \cup ({client[c].leg} \ {None})
         /\ ~Holds(c)' => ClientLegs(c)' = {}
         /\ Holds(c)' => ClientLegs(c)' = client'[c].todo \cup ({client'[c].leg} \ {None})
BY DEF ClientLegs, Holds

LEMMA LegsType ==
  ASSUME TypeOK, NEW m, NEW e
  PROVE  /\ LegsOf(m, e) \subseteq Targets
         /\ IsFiniteSet(LegsOf(m, e)) /\ Cardinality(LegsOf(m, e)) \in Nat
<1>1. \A j \in LiveJobs : j.target \in Targets
  BY NoneFacts DEF LiveJobs, TypeOK, Job
<1>2. \A c \in Threads : ClientLegs(c) \subseteq Targets
  BY DEF ClientLegs, TypeOK, Client
<1>3. LegsOf(m, e) \subseteq Targets
  BY <1>1, <1>2, InLegs
<1>4. QED
  BY <1>3, ChannelsFinite, FS_AddElement, FS_Subset, FS_CardinalityType DEF Targets

\* The counting needs no more than that the legs of a message stay where the
\* table does.
LEMMA KeepCounted ==
  ASSUME DispatchInv, comp' = comp, events' \in {events, events + 1}, LegsKept,
         \A m \in Msgs : LegsOf(m, events + 1) = {}
  PROVE  OneDispatchCounted'
<1>1. events \in Nat /\ \A c \in comp : c.msg \in Msgs /\ c.ev \in Nat
  BY DEF DispatchInv, TypeOK, Completion
<1>2. \A c \in comp' : c.remaining = Cardinality(LegsOf(c.msg, c.ev)') /\ c.remaining > 0
  BY <1>1 DEF DispatchInv, OneDispatchCounted, LegsKept
<1>3. \A m \in Msgs : \A e \in 1..events' :
        LegsOf(m, e)' # {} => \E c \in comp' : c.msg = m /\ c.ev = e
  BY <1>1 DEF DispatchInv, OneDispatchCounted, LegsKept
<1>4. QED
  BY <1>2, <1>3 DEF DispatchInv, OneDispatchCounted

\* No leg has the number of a request that is still to come, and none that of a
\* dispatch that is not begun.
LEMMA NoLegsYet ==
  ASSUME DispatchInv, NEW m
  PROVE  /\ LegsOf(m, events + 1) = {}
         /\ \A c \in Threads : client[c].at \in Begun => LegsOf(m, client[c].ev) = {}
<1>1. events \in Nat /\ \A j \in LiveJobs : j.ev \in 1..events
  BY DEF DispatchInv, TypeOK, EvsApart
<1>2. \A c \in Threads : ClientLegs(c) # {} => Busy(c) /\ client[c].ev \in 1..events
  BY ClientLegsAre DEF DispatchInv, EvsApart, Busy, Holds
<1>3. LegsOf(m, events + 1) = {}
  BY <1>1, <1>2, InLegs
<1>4. ASSUME NEW c \in Threads, client[c].at \in Begun PROVE LegsOf(m, client[c].ev) = {}
  <2>1. Busy(c) /\ ~Holds(c)
    BY <1>4 DEF Begun, Busy, Holds
  <2>2. \A j \in LiveJobs : j.ev # client[c].ev
    BY <1>4 DEF DispatchInv, EvsApart
  <2>3. \A d \in Threads : client[d].ev = client[c].ev => ClientLegs(d) = {}
    BY <2>1, <1>2, ClientLegsAre DEF DispatchInv, EvsApart
  <2>4. QED
    BY <2>2, <2>3, InLegs
<1>5. QED
  BY <1>3, <1>4

\* A thread takes a step that moves no leg.
LEMMA QuietMove ==
  ASSUME DispatchInv, NEW c \in Threads, NEW r, Moved(c, r),
         ~Holds(c), r.at \notin {"enqueue", "reject"},
         UNCHANGED <<jobs, comp, pc, job>>,
         \/ /\ events' = events
            /\ \/ r.at \in {"idle", "publish"}
               \/ /\ Busy(c) /\ r.ev = client[c].ev
                  /\ r.at \in Begun => client[c].at \in Begun
         \/ ~Busy(c) /\ events' = events + 1 /\ r.ev = events + 1
  PROVE  Sound' /\ LegsKept
<1>1. /\ client'[c] = r /\ \A d \in Threads \ {c} : client'[d] = client[d]
      /\ ClientsInOrder'
  BY MovedType DEF DispatchInv
<1>2. LiveJobs' = LiveJobs /\ events \in Nat
  BY DEF LiveJobs, DispatchInv, TypeOK
<1>3. ~Holds(c)' /\ \A d \in Threads \ {c} : Holds(d)' = Holds(d)
  BY <1>1 DEF Holds
<1>4. \A d \in Threads : ClientLegs(d)' = ClientLegs(d)
  <2>1. \A d \in Threads \ {c} : ClientLegs(d)' = ClientLegs(d)
    BY <1>1 DEF ClientLegs
  <2>2. QED
    BY <1>3, <2>1, ClientLegsAre
<1>5. \A m, e : LegsOf(m, e)' = LegsOf(m, e)
  <2> SUFFICES ASSUME NEW m, NEW e PROVE LegsOf(m, e)' = LegsOf(m, e)
    OBVIOUS
  <2>1. \A d \in Threads : ClientLegs(d) # {} => d # c /\ client'[d] = client[d]
    BY <1>1, ClientLegsAre
  <2>2. \A t : t \in LegsOf(m, e)' <=> t \in LegsOf(m, e)
    BY <1>2, <1>4, <2>1, InLegs
  <2>3. QED
    BY <2>2
<1>6. OneDispatchCounted'
  BY <1>5, NoLegsYet, KeepCounted DEF LegsKept
<1>7. EvsApart'
  <2>1. \A d \in Threads : Busy(d)' => client'[d].ev \in 1..events'
    BY <1>1, <1>2 DEF DispatchInv, EvsApart, Busy
  <2>2. \A d, f \in Threads : Busy(d)' /\ Busy(f)' /\ client'[d].ev = client'[f].ev => d = f
    BY <1>1, <1>2 DEF DispatchInv, EvsApart, Busy
  <2>3. \A j \in LiveJobs' : j.ev \in 1..events'
    BY <1>2 DEF DispatchInv, EvsApart
  <2>4. \A d \in Threads, j \in LiveJobs' : client'[d].at \in Begun => j.ev # client'[d].ev
    BY <1>1, <1>2 DEF DispatchInv, EvsApart, Begun
  <2>5. QED
    BY <2>1, <2>2, <2>3, <2>4 DEF EvsApart, Begun, Busy
<1>8. LegsApart'
  <2>1. \A d \in Threads, j \in LiveJobs' :
          Holds(d)' /\ j.ev = client'[d].ev => j.target \notin ClientLegs(d)'
    BY <1>1, <1>2, <1>3, <1>4 DEF DispatchInv, LegsApart
  <2>2. QED
    BY <2>1 DEF DispatchInv, LegsApart, SameLeg
<1>9. QED
  BY <1>1, <1>5, <1>6, <1>7, <1>8 DEF Sound, LegsKept

\* The worker, the clock or a deletion takes a step that leaves every leg where
\* the table counts it.
LEMMA QuietWork ==
  ASSUME DispatchInv, UNCHANGED <<client, comp, events>>,
         \A k \in LiveJobs' : \E j \in LiveJobs : SameJob(j, k),
         \A j \in LiveJobs : \E k \in LiveJobs' : SameJob(j, k),
         \A j, k \in jobs' : SameLeg(j, k) => j = k,
         pc' \in {"send", "finish"} => \A j \in jobs' : ~SameLeg(j, job')
  PROVE  Sound' /\ LegsKept
<1>1. \A c \in Threads : ClientLegs(c)' = ClientLegs(c)
  BY DEF ClientLegs
<1>2. \A m, e : LegsOf(m, e)' = LegsOf(m, e)
  <2> SUFFICES ASSUME NEW m, NEW e PROVE LegsOf(m, e)' = LegsOf(m, e)
    OBVIOUS
  <2>1. \A t : t \in LegsOf(m, e)' <=> t \in LegsOf(m, e)
    BY <1>1, InLegs DEF SameJob
  <2>2. QED
    BY <2>1
<1>3. OneDispatchCounted'
  BY <1>2, NoLegsYet, KeepCounted DEF LegsKept
<1>4. ClientsInOrder'
  BY DEF DispatchInv, ClientsInOrder, InOrder
<1>5. EvsApart'
  BY DEF DispatchInv, EvsApart, Begun, Busy, SameJob
<1>6. LegsApart'
  <2>1. \A c \in Threads, j \in LiveJobs' :
          Holds(c)' /\ j.ev = client'[c].ev => j.target \notin ClientLegs(c)'
    BY <1>1 DEF DispatchInv, LegsApart, Holds, SameJob
  <2>2. QED
    BY <2>1 DEF LegsApart, SameLeg
<1>7. QED
  BY <1>2, <1>3, <1>4, <1>5, <1>6 DEF Sound, LegsKept

\* A thread registers its message: the new entry counts the targets it is to
\* enqueue, and no leg has its number yet.
LEMMA RegisterStep ==
  ASSUME DispatchInv, NEW c \in Threads, Begin(c),
         NEW m, NEW e, m = client[c].msg, e = client[c].ev, m = NoMsg \/ ~UnderWay(c)
  PROVE  /\ Sound'
         /\ \A n, f : f # e => LegsOf(n, f)' = LegsOf(n, f)
         /\ LegsOf(m, e)' = client[c].todo
         /\ EntryOf(m) = {}
<1>0. TypeOK /\ ClientsInOrder /\ EvsApart /\ LegsApart /\ OneDispatchCounted
  BY DEF DispatchInv
<1>1. /\ client[c].at = "begin" /\ client' = [client EXCEPT ![c].at = "enqueue"]
      /\ comp' = (comp \ EntryOf(client[c].msg)) \cup
           {[ev |-> client[c].ev, msg |-> n, remaining |-> Cardinality(client[c].todo),
             failed |-> FALSE, to |-> client[c].todo, by |-> {}, off |-> {}] :
              n \in {client[c].msg} \ {NoMsg}}
      /\ UNCHANGED <<jobs, pc, job, events>>
  BY DEF Begin, worker
<1>2. PICK r : /\ Moved(c, r) /\ r.at = "enqueue" /\ r.ev = client[c].ev /\ r.msg = client[c].msg
               /\ r.todo = client[c].todo /\ r.leg = None /\ r.ok = FALSE
  BY <1>0, <1>1, BeginMoves
<1>3. /\ client'[c] = r /\ \A d \in Threads \ {c} : client'[d] = client[d]
      /\ ClientsInOrder'
  BY <1>0, <1>2, MovedType
<1>4. PICK T : m = client[c].msg /\ e = client[c].ev /\ T = client[c].todo
  OBVIOUS
<1>5. /\ m \in Ids /\ e \in 1..events /\ e \in Nat /\ events \in Nat
      /\ T \subseteq Targets /\ T # {} /\ Busy(c) /\ ~Holds(c)
  BY <1>0, <1>1, <1>4 DEF TypeOK, Client, EvsApart, Busy, Holds, ClientsInOrder, InOrder
<1>6. Cardinality(T) \in Nat /\ Cardinality(T) > 0
  <2>1. IsFiniteSet(T)
    BY <1>5, ChannelsFinite, FS_AddElement, FS_Subset DEF Targets
  <2>2. QED
    BY <1>5, <2>1, FS_CardinalityType, FS_EmptySet
<1>7. LiveJobs' = LiveJobs /\ \A j \in LiveJobs : j.ev # e
  BY <1>0, <1>1, <1>4 DEF LiveJobs, EvsApart, Begun
<1>8. /\ ClientLegs(c)' = T /\ ClientLegs(c) = {}
      /\ \A d \in Threads \ {c} : ClientLegs(d)' = ClientLegs(d)
      /\ \A d \in Threads : Holds(d)' <=> d = c \/ Holds(d)
  <2>1. Holds(c)' /\ ClientLegs(c)' = T
    BY <1>2, <1>3, <1>4, ClientLegsAre, ZenonT(60) DEF Holds
  <2>2. \A d \in Threads \ {c} : ClientLegs(d)' = ClientLegs(d) /\ Holds(d)' = Holds(d)
    BY <1>3 DEF ClientLegs, Holds
  <2>3. ClientLegs(c) = {}
    BY <1>5, ClientLegsAre
  <2>4. QED
    BY <2>1, <2>2, <2>3
<1>9. \A d \in Threads \ {c} : ClientLegs(d) # {} => client[d].ev # e
  <2>1. \A d \in Threads : ClientLegs(d) # {} => Busy(d)
    BY ClientLegsAre DEF Holds, Busy
  <2>2. QED
    BY <1>0, <1>4, <1>5, <2>1 DEF EvsApart
<1>10. \A n, f : f # e => LegsOf(n, f)' = LegsOf(n, f)
  <2> SUFFICES ASSUME NEW n, NEW f, f # e PROVE LegsOf(n, f)' = LegsOf(n, f)
    OBVIOUS
  <2>1. client'[c].ev # f /\ client[c].ev # f
    BY <1>2, <1>3, <1>4
  <2>2. \A t : t \in LegsOf(n, f)' <=> t \in LegsOf(n, f)
    BY <1>3, <1>7, <1>8, <2>1, InLegs
  <2>3. QED
    BY <2>2
<1>11. LegsOf(m, e)' = T
  <2>1. \A t : t \in LegsOf(m, e)' <=> t \in T
    BY <1>2, <1>3, <1>4, <1>7, <1>8, <1>9, InLegs
  <2>2. QED
    BY <2>1
<1>12. \A n : n # m => LegsOf(n, e)' = {}
  <2> SUFFICES ASSUME NEW n, n # m PROVE LegsOf(n, e)' = {}
    OBVIOUS
  <2>1. client'[c].msg # n
    BY <1>2, <1>3, <1>4
  <2>2. \A t : t \notin LegsOf(n, e)'
    BY <1>3, <1>7, <1>8, <1>9, <2>1, InLegs
  <2>3. QED
    BY <2>2
<1>13. \A n : LegsOf(n, e) = {}
  BY <1>1, <1>4, NoLegsYet DEF Begun
<1>14. EntryOf(m) = {}
  BY <1>0, <1>4, NoMsgNoMsg DEF UnderWay, EntryOf, TypeOK, Completion
<1>15. OneDispatchCounted'
  <2>1. \A x \in comp : x.msg \in Msgs /\ x.ev # e /\ x.msg # m
    <3>1. \A x \in comp : x.msg \in Msgs
      BY <1>0 DEF TypeOK, Completion
    <3>2. ASSUME NEW x \in comp PROVE x.ev # e
      <4>1. Cardinality(LegsOf(x.msg, x.ev)) > 0
        BY <1>0 DEF OneDispatchCounted
      <4>2. QED
        BY <4>1, <1>13, FS_EmptySet
    <3>3. QED
      BY <1>14, <3>1, <3>2 DEF EntryOf
  <2>2. CASE m = NoMsg
    <3>1. comp' = comp
      BY <1>1, <1>4, <1>14, <2>2
    <3>2. \A n \in Msgs : \A f : LegsOf(n, f)' = LegsOf(n, f)
      BY <1>10, <1>12, <1>13, <2>2, NoMsgNoMsg
    <3>3. QED
      BY <1>1, <3>1, <3>2, NoLegsYet, KeepCounted DEF LegsKept
  <2>3. CASE m # NoMsg
    <3>1. PICK x : x = [ev |-> e, msg |-> m, remaining |-> Cardinality(T), failed |-> FALSE,
                        to |-> T, by |-> {}, off |-> {}]
      OBVIOUS
    <3>2. comp' = comp \cup {x}
      BY <1>1, <1>4, <1>14, <2>3, <3>1
    <3>3. x.ev = e /\ x.msg = m /\ x.remaining = Cardinality(T)
      BY <3>1
    <3>4. \A y, z \in comp' : y.msg = z.msg => y = z
      BY <1>0, <2>1, <3>2, <3>3 DEF OneDispatchCounted
    <3>5. \A y \in comp' : y.remaining = Cardinality(LegsOf(y.msg, y.ev)') /\ y.remaining > 0
      <4>1. \A y \in comp : y.remaining = Cardinality(LegsOf(y.msg, y.ev)') /\ y.remaining > 0
        BY <1>0, <1>10, <2>1 DEF OneDispatchCounted
      <4>2. x.remaining = Cardinality(LegsOf(x.msg, x.ev)') /\ x.remaining > 0
        BY <1>6, <1>11, <3>3
      <4>3. QED
        BY <3>2, <4>1, <4>2
    <3>6. \A n \in Msgs : \A f \in 1..events' :
            LegsOf(n, f)' # {} => \E y \in comp' : y.msg = n /\ y.ev = f
      BY <1>0, <1>1, <1>10, <1>12, <3>2, <3>3 DEF OneDispatchCounted
    <3>7. QED
      BY <3>4, <3>5, <3>6 DEF OneDispatchCounted
  <2>4. QED
    BY <2>2, <2>3
<1>16. EvsApart'
  <2>1. client'[c].ev = client[c].ev /\ client'[c].at = "enqueue"
    BY <1>2, <1>3
  <2>2. \A d \in Threads : Busy(d)' <=> Busy(d)
    BY <1>3, <1>5, <2>1 DEF Busy
  <2>3. \A d \in Threads : client'[d].ev = client[d].ev
    BY <1>3, <2>1
  <2>4. \A d \in Threads, j \in LiveJobs' : client'[d].at \in Begun => j.ev # client'[d].ev
    BY <1>0, <1>3, <1>7, <2>1 DEF EvsApart, Begun
  <2>5. QED
    BY <1>0, <1>1, <1>7, <2>2, <2>3, <2>4 DEF EvsApart
<1>17. LegsApart'
  <2>1. \A d \in Threads, j \in LiveJobs' :
          Holds(d)' /\ j.ev = client'[d].ev => j.target \notin ClientLegs(d)'
    BY <1>0, <1>2, <1>3, <1>4, <1>7, <1>8 DEF LegsApart
  <2>2. QED
    BY <1>0, <1>1, <2>1 DEF LegsApart, SameLeg
<1>18. QED
  BY <1>3, <1>4, <1>10, <1>11, <1>14, <1>15, <1>16, <1>17 DEF Sound

\* A target goes from the thread to the queue, or is put aside as turned away.
LEMMA EnqueueStep ==
  ASSUME DispatchInv, NEW c \in Threads, Enqueue(c)
  PROVE  Sound' /\ LegsKept
<1>0. TypeOK /\ ClientsInOrder /\ EvsApart /\ LegsApart /\ OneDispatchCounted
  BY DEF DispatchInv
<1>1. client[c].at = "enqueue" /\ UNCHANGED <<comp, pc, job, events>>
  BY DEF Enqueue, worker
<1>a. PICK t \in client[c].todo : \E r :
           /\ Moved(c, r) /\ r.ok = FALSE
           /\ r.at # "idle" => /\ r.ev = client[c].ev /\ r.msg = client[c].msg
                               /\ r.todo = client[c].todo \ {t}
           /\ \/ r.at = "reject" /\ r.leg = t /\ jobs' = jobs
              \/ /\ \/ r.at = "enqueue" /\ r.leg = None
                    \/ r.at = "idle" /\ client[c].todo = {t}
                 /\ jobs' = jobs \cup {[ev |-> client[c].ev, msg |-> client[c].msg, target |-> t,
                                        attempts |-> 0, due |-> TRUE]}
  BY <1>0, EnqueueMoves
<1>2. PICK r :
           /\ Moved(c, r) /\ r.ok = FALSE
           /\ r.at # "idle" => /\ r.ev = client[c].ev /\ r.msg = client[c].msg
                               /\ r.todo = client[c].todo \ {t}
           /\ \/ r.at = "reject" /\ r.leg = t /\ jobs' = jobs
              \/ /\ \/ r.at = "enqueue" /\ r.leg = None
                    \/ r.at = "idle" /\ client[c].todo = {t}
                 /\ jobs' = jobs \cup {[ev |-> client[c].ev, msg |-> client[c].msg, target |-> t,
                                        attempts |-> 0, due |-> TRUE]}
  BY <1>a
<1>3. /\ client'[c] = r /\ \A d \in Threads \ {c} : client'[d] = client[d]
      /\ ClientsInOrder'
  BY <1>0, <1>2, MovedType
<1>4. /\ Busy(c) /\ Holds(c) /\ client[c].leg = None /\ t \in Targets /\ t # None
      /\ client[c].ev \in 1..events /\ events \in Nat
      /\ ClientLegs(c) = client[c].todo
  <2>1. Busy(c) /\ Holds(c)
    BY <1>1 DEF Busy, Holds
  <2>2. client[c].ev \in 1..events /\ events \in Nat
    BY <1>0, <2>1 DEF EvsApart, TypeOK
  <2>3. client[c].leg = None /\ client[c].todo \in SUBSET Targets
    BY <1>0, <1>1 DEF TypeOK, Client, ClientsInOrder, InOrder
  <2>4. ClientLegs(c) = client[c].todo
    BY <2>1, <2>3, ClientLegsAre
  <2>5. QED
    BY <2>1, <2>2, <2>3, <2>4, NoneFacts
<1>5. \A d \in Threads \ {c} : /\ ClientLegs(d)' = ClientLegs(d)
                               /\ Holds(d)' = Holds(d)
                               /\ Holds(d) => client[d].ev # client[c].ev
  <2>1. \A d \in Threads \ {c} : ClientLegs(d)' = ClientLegs(d) /\ Holds(d)' = Holds(d)
    BY <1>3 DEF ClientLegs, Holds
  <2>2. \A d \in Threads : Holds(d) => Busy(d)
    BY DEF Holds, Busy
  <2>3. QED
    BY <1>0, <1>4, <2>1, <2>2 DEF EvsApart
<1>6. EvsApart'
  <2>1. \A d \in Threads : Busy(d)' => Busy(d) /\ client'[d].ev = client[d].ev
    BY <1>2, <1>3, <1>4 DEF Busy
  <2>2. \A j \in LiveJobs' : j \in LiveJobs \/ j.ev = client[c].ev
    BY <1>1, <1>2 DEF LiveJobs
  <2>3. ASSUME NEW d \in Threads, client'[d].at \in Begun
        PROVE  d # c /\ client'[d] = client[d] /\ client[d].ev # client[c].ev
    <3>1. r.at \notin Begun
      BY <1>2 DEF Begun
    <3>2. d # c /\ client'[d] = client[d] /\ Busy(d)
      BY <1>3, <2>3, <3>1 DEF Busy, Begun
    <3>3. QED
      BY <1>0, <1>4, <3>2 DEF EvsApart
  <2>4. \A d \in Threads, j \in LiveJobs' : client'[d].at \in Begun => j.ev # client'[d].ev
    BY <1>0, <2>2, <2>3 DEF EvsApart
  <2>5. \A j \in LiveJobs' : j.ev \in 1..events'
    BY <1>0, <1>1, <1>4, <2>2 DEF EvsApart
  <2>6. QED
    BY <1>0, <1>1, <2>1, <2>4, <2>5 DEF EvsApart
<1>7. CASE r.at = "reject" /\ r.leg = t /\ jobs' = jobs
  <2>1. ClientLegs(c)' = ClientLegs(c) /\ Holds(c)'
    BY <1>2, <1>3, <1>4, <1>7, ClientLegsAre DEF Holds
  <2>2. LiveJobs' = LiveJobs
    BY <1>1, <1>7 DEF LiveJobs
  <2>3. client'[c].ev = client[c].ev /\ client'[c].msg = client[c].msg
    BY <1>2, <1>3, <1>7
  <2>4. \A m, e : LegsOf(m, e)' = LegsOf(m, e)
    <3> SUFFICES ASSUME NEW m, NEW e PROVE LegsOf(m, e)' = LegsOf(m, e)
      OBVIOUS
    <3>1. \A s : s \in LegsOf(m, e)' <=> s \in LegsOf(m, e)
      BY <1>3, <1>5, <2>1, <2>2, <2>3, InLegs
    <3>2. QED
      BY <3>1
  <2>5. OneDispatchCounted'
    BY <1>1, <2>4, NoLegsYet, KeepCounted DEF LegsKept
  <2>6. LegsApart'
    <3>1. \A d \in Threads, j \in LiveJobs' :
            Holds(d)' /\ j.ev = client'[d].ev => j.target \notin ClientLegs(d)'
      BY <1>0, <1>3, <1>4, <1>5, <2>1, <2>2, <2>3 DEF LegsApart
    <3>2. QED
      BY <1>0, <1>1, <1>7, <3>1 DEF LegsApart, SameLeg
  <2>7. QED
    BY <1>3, <1>6, <2>4, <2>5, <2>6 DEF Sound, LegsKept
<1>8. CASE r.at # "reject"
  <2>1. PICK k : /\ k = [ev |-> client[c].ev, msg |-> client[c].msg, target |-> t,
                         attempts |-> 0, due |-> TRUE]
                 /\ jobs' = jobs \cup {k}
    BY <1>2, <1>8
  <2>2. k.ev = client[c].ev /\ k.msg = client[c].msg /\ k.target = t
    BY <2>1
  <2>3. LiveJobs' = LiveJobs \cup {k} /\ jobs' = jobs \cup {k}
    BY <1>1, <2>1 DEF LiveJobs
  <2>4. ClientLegs(c)' = ClientLegs(c) \ {t}
    BY <1>2, <1>3, <1>4, <1>8, ClientLegsAre DEF Holds
  <2>5. client'[c].at # "idle" => client'[c].ev = client[c].ev /\ client'[c].msg = client[c].msg
    BY <1>2, <1>3
  <2>6. ClientLegs(c)' # {} => client'[c].at # "idle"
    BY ClientLegsAre DEF Holds
  <2>7. \A m, e : LegsOf(m, e)' = LegsOf(m, e)
    <3> SUFFICES ASSUME NEW m, NEW e PROVE LegsOf(m, e)' = LegsOf(m, e)
      OBVIOUS
    <3>1. \A s : s \in LegsOf(m, e)' => s \in LegsOf(m, e)
      BY <1>3, <1>4, <1>5, <2>2, <2>3, <2>4, <2>5, <2>6, InLegs
    <3>2. \A s : s \in LegsOf(m, e) => s \in LegsOf(m, e)'
      BY <1>3, <1>4, <1>5, <2>2, <2>3, <2>4, <2>5, <2>6, InLegs
    <3>3. QED
      BY <3>1, <3>2
  <2>8. OneDispatchCounted'
    BY <1>1, <2>7, NoLegsYet, KeepCounted DEF LegsKept
  <2>9. \A j \in LiveJobs : ~SameLeg(j, k)
    BY <1>0, <1>4, <2>2 DEF LegsApart, SameLeg
  <2>10. LegsApart'
    <3>1. ASSUME NEW d \in Threads, NEW j \in LiveJobs', Holds(d)', j.ev = client'[d].ev
          PROVE  j.target \notin ClientLegs(d)'
      <4>1. CASE d = c
        <5>1. client'[c].ev = client[c].ev
          BY <2>5, <3>1, <4>1 DEF Holds
        <5>2. QED
          BY <1>0, <1>4, <2>2, <2>3, <2>4, <3>1, <4>1, <5>1 DEF LegsApart
      <4>2. CASE d # c
        BY <1>0, <1>3, <1>5, <2>2, <2>3, <3>1, <4>2 DEF LegsApart
      <4>3. QED
        BY <4>1, <4>2
    <3>2. \A i, j \in jobs' : SameLeg(i, j) => i = j
      BY <1>0, <2>3, <2>9 DEF LegsApart, SameLeg, LiveJobs
    <3>3. pc' \in {"send", "finish"} => \A j \in jobs' : ~SameLeg(j, job')
      BY <1>0, <1>1, <2>3, <2>9 DEF LegsApart, SameLeg, LiveJobs
    <3>4. QED
      BY <3>1, <3>2, <3>3 DEF LegsApart, SameLeg
  <2>11. QED
    BY <1>3, <1>6, <2>7, <2>8, <2>10 DEF Sound, LegsKept
<1>9. QED
  BY <1>7, <1>8, <1>2

\* A leg is accounted for: the entry of its dispatch counts one leg less and
\* goes with the last one.
LEMMA CountedStep ==
  ASSUME DispatchInv, NEW m \in Ids, NEW e \in 1..events, NEW t, NEW success \in BOOLEAN,
         FinishLeg(m, success), events' = events,
         m \in Msgs => t \in LegsOf(m, e) /\ LegsOf(m, e)' = LegsOf(m, e) \ {t},
         \A n, f : n # m \/ f # e => LegsOf(n, f)' = LegsOf(n, f)
  PROVE  /\ OneDispatchCounted'
         /\ m \notin Msgs => comp' = comp /\ EntryOf(m) = {}
         /\ m \in Msgs =>
              \E x \in comp :
                /\ x.msg = m /\ x.ev = e /\ EntryOf(m) = {x}
                /\ x.remaining = Cardinality(LegsOf(m, e)) /\ x.remaining \in Nat
                /\ x.remaining = 1 => comp' = comp \ {x} /\ LegsOf(m, e) = {t}
                /\ x.remaining # 1 =>
                     \E y : /\ comp' = (comp \ {x}) \cup {y} /\ LegsOf(m, e) # {t}
                            /\ y.msg = m /\ y.ev = e
                            /\ y.failed = (x.failed \/ ~success)
                            /\ y.to = x.to /\ y.by = x.by /\ y.off = x.off
<1>0. TypeOK /\ OneDispatchCounted /\ events \in Nat
  BY DEF DispatchInv, TypeOK
<1>1. \A x \in comp : x \in Completion /\ x.msg \in Msgs /\ x.ev \in Nat /\ x.remaining \in Nat
  BY <1>0 DEF TypeOK, Completion
<1>2. CASE m \notin Msgs
  <2>1. EntryOf(m) = {} /\ comp' = comp
    BY <1>1, <1>2 DEF EntryOf, FinishLeg
  <2>2. \A n \in Msgs : \A f : LegsOf(n, f)' = LegsOf(n, f)
    BY <1>2
  <2>3. OneDispatchCounted'
    BY <2>1, <2>2, NoLegsYet, KeepCounted DEF LegsKept
  <2>4. QED
    BY <1>2, <2>1, <2>3
<1>3. CASE m \in Msgs
  <2>1. PICK x \in comp : x.msg = m /\ x.ev = e
    BY <1>0, <1>3 DEF OneDispatchCounted
  <2>2. EntryOf(m) = {x} /\ \A z \in comp \ {x} : z.msg # m
    BY <1>0, <2>1 DEF OneDispatchCounted, EntryOf
  <2>3. x.remaining = Cardinality(LegsOf(m, e)) /\ x.remaining > 0 /\ x.remaining \in Nat
    BY <1>0, <1>1, <2>1 DEF OneDispatchCounted
  <2>4. /\ IsFiniteSet(LegsOf(m, e)) /\ IsFiniteSet(LegsOf(m, e) \ {t})
        /\ Cardinality(LegsOf(m, e) \ {t}) = x.remaining - 1
    BY <1>0, <1>3, <2>3, LegsType, FS_RemoveElement
  <2>5. LegsOf(m, e) = {t} <=> x.remaining = 1
    <3>1. LegsOf(m, e) = {t} <=> LegsOf(m, e) \ {t} = {}
      BY <1>3
    <3>2. LegsOf(m, e) \ {t} = {} <=> x.remaining - 1 = 0
      BY <2>4, FS_EmptySet
    <3>3. QED
      BY <2>3, <3>1, <3>2
  <2>6. \A z \in comp \ {x} : z.remaining = Cardinality(LegsOf(z.msg, z.ev)') /\ z.remaining > 0
    BY <1>0, <2>2 DEF OneDispatchCounted
  <2>7. \A f \in 1..events : f # e => LegsOf(m, f)' = {}
    BY <1>0, <1>3, <2>1, <2>2 DEF OneDispatchCounted, EntryOf
  <2> DEFINE Less(c) == [c EXCEPT !.remaining = @ - 1, !.failed = @ \/ ~success]
  <2>a. comp' = (comp \ EntryOf(m)) \cup {Less(c) : c \in {d \in EntryOf(m) : d.remaining > 1}}
    BY DEF FinishLeg
  <2>b. Less(x) = [x EXCEPT !.remaining = @ - 1, !.failed = @ \/ ~success]
    OBVIOUS
  <2> HIDE DEF Less
  <2>8. CASE x.remaining = 1
    <3>1. comp' = comp \ {x}
      <4>1. {d \in EntryOf(m) : d.remaining > 1} = {}
        BY <2>2, <2>8
      <4>2. QED
        BY <2>2, <2>a, <4>1
    <3>2. LegsOf(m, e)' = {}
      BY <1>3, <2>5, <2>8
    <3>3. \A n \in Msgs : \A f \in 1..events' :
            LegsOf(n, f)' # {} => \E y \in comp' : y.msg = n /\ y.ev = f
      <4> SUFFICES ASSUME NEW n \in Msgs, NEW f \in 1..events', LegsOf(n, f)' # {}
                   PROVE  \E y \in comp' : y.msg = n /\ y.ev = f
        OBVIOUS
      <4>1. n # m
        BY <2>7, <3>2
      <4>2. PICK y \in comp : y.msg = n /\ y.ev = f
        BY <1>0, <4>1 DEF OneDispatchCounted
      <4>3. QED
        BY <2>1, <3>1, <4>1, <4>2
    <3>4. OneDispatchCounted'
      BY <1>0, <2>6, <3>1, <3>3 DEF OneDispatchCounted
    <3>5. QED
      BY <1>3, <2>1, <2>2, <2>3, <2>5, <2>8, <3>1, <3>4
  <2>9. CASE x.remaining # 1
    <3>1. PICK y : y = Less(x)
      OBVIOUS
    <3>2. x.remaining > 1
      BY <2>3, <2>9
    <3>3. comp' = (comp \ {x}) \cup {y}
      <4>1. {d \in EntryOf(m) : d.remaining > 1} = {x}
        BY <2>2, <3>2
      <4>2. QED
        BY <2>2, <2>a, <3>1, <4>1
    <3>4. /\ y.msg = m /\ y.ev = e /\ y.remaining = x.remaining - 1
          /\ y.failed = (x.failed \/ ~success)
          /\ y.to = x.to /\ y.by = x.by /\ y.off = x.off
      BY <1>1, <2>1, <2>b, <3>1 DEF Completion
    <3>5. y.remaining = Cardinality(LegsOf(y.msg, y.ev)') /\ y.remaining > 0
      <4>1. LegsOf(y.msg, y.ev)' = LegsOf(m, e) \ {t}
        BY <1>3, <3>4
      <4>2. QED
        BY <2>3, <2>4, <3>2, <3>4, <4>1
    <3>6. \A n \in Msgs : \A f \in 1..events' :
            LegsOf(n, f)' # {} => \E z \in comp' : z.msg = n /\ z.ev = f
      <4> SUFFICES ASSUME NEW n \in Msgs, NEW f \in 1..events', LegsOf(n, f)' # {}
                   PROVE  \E z \in comp' : z.msg = n /\ z.ev = f
        OBVIOUS
      <4>1. CASE n = m
        BY <2>7, <3>3, <3>4, <4>1
      <4>2. CASE n # m
        <5>1. PICK z \in comp : z.msg = n /\ z.ev = f
          BY <1>0, <4>2 DEF OneDispatchCounted
        <5>2. QED
          BY <2>1, <3>3, <4>2, <5>1
      <4>3. QED
        BY <4>1, <4>2
    <3>7. \A z, w \in comp' : z.msg = w.msg => z = w
      BY <1>0, <2>2, <3>3, <3>4 DEF OneDispatchCounted
    <3>8. OneDispatchCounted'
      BY <2>6, <3>3, <3>5, <3>6, <3>7 DEF OneDispatchCounted
    <3>9. QED
      BY <1>3, <2>1, <2>2, <2>3, <2>5, <2>9, <3>3, <3>4, <3>8
  <2>10. QED
    BY <2>8, <2>9
<1>4. QED
  BY <1>2, <1>3

\* The worker is done with a leg.
LEMMA FinishStep ==
  ASSUME DispatchInv, Finish, NEW m, NEW e, m = job.msg, e = job.ev
  PROVE  /\ Sound' /\ m \in Ids /\ e \in 1..events
         /\ m \in Msgs => /\ job.target \in LegsOf(m, e)
                          /\ LegsOf(m, e)' = LegsOf(m, e) \ {job.target}
         /\ \A n, f : n # m \/ f # e => LegsOf(n, f)' = LegsOf(n, f)
<1>0. TypeOK /\ ClientsInOrder /\ EvsApart /\ LegsApart /\ OneDispatchCounted
  BY DEF DispatchInv
<1>1. /\ pc = "finish" /\ pc' \in {"mark", "take"} /\ UNCHANGED <<jobs, client, events>>
      /\ FinishLeg(job.msg, ok)
  BY DEF Finish
<1>2. job \in Job /\ ok \in BOOLEAN
  BY <1>0, <1>1 DEF TypeOK
<1>3. LiveJobs = jobs \cup {job} /\ LiveJobs' = jobs
  BY <1>1 DEF LiveJobs
<1>4. m \in Ids /\ e \in 1..events
  BY <1>0, <1>2, <1>3 DEF Job, EvsApart
<1>5. PICK t : t = job.target
  OBVIOUS
<1>6. /\ \A j \in jobs : j.ev = e => j.target # t
      /\ \A c \in Threads : client[c].ev = e => t \notin ClientLegs(c)
  BY <1>0, <1>1, <1>3, <1>5, ClientLegsAre DEF LegsApart, SameLeg
<1>7. \A c \in Threads : ClientLegs(c)' = ClientLegs(c)
  BY <1>1 DEF ClientLegs
<1>8. t \in LegsOf(m, e)
  BY <1>3, <1>5, InLegs
<1>9. LegsOf(m, e)' = LegsOf(m, e) \ {t}
  <2>1. \A s : s \in LegsOf(m, e)' <=> s \in LegsOf(m, e) /\ s # t
    BY <1>1, <1>3, <1>5, <1>6, <1>7, InLegs
  <2>2. QED
    BY <2>1
<1>10. \A n, f : n # m \/ f # e => LegsOf(n, f)' = LegsOf(n, f)
  <2> SUFFICES ASSUME NEW n, NEW f, n # m \/ f # e PROVE LegsOf(n, f)' = LegsOf(n, f)
    OBVIOUS
  <2>1. \A s : s \in LegsOf(n, f)' <=> s \in LegsOf(n, f)
    BY <1>1, <1>3, <1>7, InLegs
  <2>2. QED
    BY <2>1
<1>11. OneDispatchCounted'
  BY <1>1, <1>2, <1>4, <1>8, <1>9, <1>10, CountedStep
<1>12. ClientsInOrder' /\ EvsApart'
  BY <1>0, <1>1, <1>3 DEF ClientsInOrder, InOrder, EvsApart, Begun, Busy
<1>13. LegsApart'
  BY <1>0, <1>1, <1>3, <1>7 DEF LegsApart, SameLeg, Holds
<1>14. QED
  BY <1>4, <1>5, <1>8, <1>9, <1>10, <1>11, <1>12, <1>13 DEF Sound

\* A thread accounts for a leg the full queue turned away.
LEMMA RejectStep ==
  ASSUME DispatchInv, NEW c \in Threads, Reject(c),
         NEW m, NEW e, m = client[c].msg, e = client[c].ev
  PROVE  /\ Sound' /\ m \in Ids /\ e \in 1..events
         /\ m \in Msgs => /\ client[c].leg \in LegsOf(m, e)
                          /\ LegsOf(m, e)' = LegsOf(m, e) \ {client[c].leg}
         /\ \A n, f : n # m \/ f # e => LegsOf(n, f)' = LegsOf(n, f)
<1>0. TypeOK /\ ClientsInOrder /\ EvsApart /\ LegsApart /\ OneDispatchCounted
  BY DEF DispatchInv
<1>1. /\ client[c].at = "reject" /\ UNCHANGED <<jobs, pc, job, events>>
      /\ FinishLeg(client[c].msg, FALSE)
  BY DEF Reject, worker
<1>2. PICK r : /\ Moved(c, r) /\ r.ok = FALSE
               /\ r.at # "idle" => /\ r.ev = client[c].ev /\ r.msg = client[c].msg
                                   /\ r.todo = client[c].todo
               /\ \/ r.at = "mark" /\ Ready(client[c].msg)
                  \/ r.at = "idle" /\ client[c].todo = {} /\ ~Ready(client[c].msg)
                  \/ r.at = "enqueue" /\ r.leg = None /\ ~Ready(client[c].msg)
  BY <1>0, RejectMoves
<1>3. /\ client'[c] = r /\ \A d \in Threads \ {c} : client'[d] = client[d]
      /\ ClientsInOrder'
  BY <1>0, <1>2, MovedType
<1>4. PICK t : t = client[c].leg
  OBVIOUS
<1>5. Busy(c) /\ Holds(c)
  BY <1>1 DEF Busy, Holds
<1>6. m \in Ids /\ e \in 1..events /\ events \in Nat
  BY <1>0, <1>5 DEF TypeOK, Client, EvsApart
<1>7. t # None /\ t \notin client[c].todo
  BY <1>0, <1>1, <1>4 DEF ClientsInOrder, InOrder
<1>8. ClientLegs(c) = client[c].todo \cup {t}
  BY <1>4, <1>5, <1>7, ClientLegsAre
<1>9. LiveJobs' = LiveJobs
  BY <1>1 DEF LiveJobs
<1>10. \A d \in Threads \ {c} : /\ ClientLegs(d)' = ClientLegs(d)
                                /\ Holds(d)' = Holds(d)
                                /\ Holds(d) => client[d].ev # e
  <2>1. \A d \in Threads \ {c} : ClientLegs(d)' = ClientLegs(d) /\ Holds(d)' = Holds(d)
    BY <1>3 DEF ClientLegs, Holds
  <2>2. \A d \in Threads : Holds(d) => Busy(d)
    BY DEF Holds, Busy
  <2>3. QED
    BY <1>0, <1>5, <2>1, <2>2 DEF EvsApart
<1>11. t \in LegsOf(m, e) /\ client[c].todo \subseteq LegsOf(m, e)
  BY <1>8, InLegs
\* The callback of reject_leg comes last: the entry counts every leg there is.
<1>12. ClientLegs(c)' = client[c].todo /\ \/ Holds(c)' \/ client[c].todo = {} \/ m \notin Msgs
  <2>1. CASE r.at = "mark"
    <3>1. CASE m \in Msgs
      <4>1. PICK x \in comp : x.msg = m /\ x.remaining = 1
        BY <1>2, <2>1 DEF Ready, EntryOf
      <4>2. PICK y \in comp : y.msg = m /\ y.ev = e
        BY <1>0, <1>6, <1>11, <3>1 DEF OneDispatchCounted
      <4>3. Cardinality(LegsOf(m, e)) = 1
        BY <1>0, <4>1, <4>2 DEF OneDispatchCounted
      <4>4. \E z : LegsOf(m, e) = {z}
        BY <1>0, <4>3, LegsType, FS_Singleton
      <4>5. client[c].todo = {}
        BY <1>7, <1>11, <4>4
      <4>6. ~Holds(c)'
        BY <1>3, <2>1 DEF Holds
      <4>7. QED
        BY <4>5, <4>6, ClientLegsAre
    <3>2. CASE m \notin Msgs
      <4>1. ~Ready(m)
        BY <1>0, <3>2 DEF Ready, EntryOf, TypeOK, Completion
      <4>2. QED
        BY <1>2, <2>1, <4>1
    <3>3. QED
      BY <3>1, <3>2
  <2>2. CASE r.at = "idle"
    <3>1. ~Holds(c)'
      BY <1>3, <2>2 DEF Holds
    <3>2. QED
      BY <1>2, <2>2, <3>1, ClientLegsAre
  <2>3. CASE r.at = "enqueue"
    <3>1. Holds(c)' /\ client'[c].leg = None
      BY <1>2, <1>3, <2>3 DEF Holds
    <3>2. client'[c].todo = client[c].todo /\ None \notin client[c].todo
      BY <1>0, <1>2, <1>3, <2>3, NoneFacts DEF TypeOK, Client
    <3>3. QED
      BY <3>1, <3>2, ClientLegsAre
  <2>4. QED
    BY <1>2, <2>1, <2>2, <2>3
<1>13. ClientLegs(c)' # {} => client'[c].ev = e /\ client'[c].msg = m
  BY <1>2, <1>3, ClientLegsAre DEF Holds
<1>14. /\ \A j \in LiveJobs : j.ev = e => j.target \notin ClientLegs(c)
  BY <1>0, <1>5 DEF LegsApart
<1>15. LegsOf(m, e)' = LegsOf(m, e) \ {t}
  <2>1. \A d \in Threads \ {c} : client[d].ev = e => ClientLegs(d) = {}
    BY <1>10, ClientLegsAre
  <2>2. \A s : s \in LegsOf(m, e)' => s \in LegsOf(m, e) /\ s # t
    BY <1>3, <1>7, <1>8, <1>9, <1>10, <1>12, <1>13, <1>14, <2>1, InLegs
  <2>3. \A s : s \in LegsOf(m, e) /\ s # t => s \in LegsOf(m, e)'
    BY <1>3, <1>8, <1>9, <1>10, <1>12, <1>13, <2>1, InLegs
  <2>4. QED
    BY <2>2, <2>3
<1>16. \A n, f : n # m \/ f # e => LegsOf(n, f)' = LegsOf(n, f)
  <2> SUFFICES ASSUME NEW n, NEW f, n # m \/ f # e PROVE LegsOf(n, f)' = LegsOf(n, f)
    OBVIOUS
  <2>1. \A s : s \in LegsOf(n, f)' <=> s \in LegsOf(n, f)
    BY <1>3, <1>9, <1>10, <1>13, InLegs
  <2>2. QED
    BY <2>1
<1>17. OneDispatchCounted'
  <2>1. FinishLeg(m, FALSE) /\ events' = events /\ FALSE \in BOOLEAN
    BY <1>1
  <2>2. QED
    BY <1>6, <1>11, <1>15, <1>16, <2>1, CountedStep
<1>18. EvsApart'
  <2>1. \A d \in Threads : Busy(d)' => Busy(d) /\ client'[d].ev = client[d].ev
    BY <1>2, <1>3, <1>5 DEF Busy
  <2>2. \A d \in Threads : client'[d].at \in Begun => client'[d] = client[d]
    BY <1>2, <1>3 DEF Begun
  <2>3. QED
    BY <1>0, <1>1, <1>9, <2>1, <2>2 DEF EvsApart
<1>19. LegsApart'
  <2>1. ASSUME NEW d \in Threads, NEW j \in LiveJobs', Holds(d)', j.ev = client'[d].ev
        PROVE  j.target \notin ClientLegs(d)'
    <3>1. CASE d = c
      BY <1>8, <1>9, <1>12, <1>13, <1>14, <2>1, <3>1
    <3>2. CASE d # c
      BY <1>0, <1>3, <1>9, <1>10, <2>1, <3>2 DEF LegsApart
    <3>3. QED
      BY <3>1, <3>2
  <2>2. QED
    BY <1>0, <1>1, <2>1 DEF LegsApart, SameLeg
<1>20. QED
  BY <1>3, <1>4, <1>6, <1>11, <1>15, <1>16, <1>17, <1>18, <1>19 DEF Sound

\* A target takes the message, turns it down or is let off: the leg stays where it is.
LEMMA NoteSound ==
  ASSUME DispatchInv, Send \/ Discard
  PROVE  Sound' /\ LegsKept
<1>0. TypeOK /\ ClientsInOrder /\ EvsApart /\ LegsApart /\ OneDispatchCounted
  BY DEF DispatchInv
<1>1. /\ pc = "send" /\ pc' = "finish" /\ UNCHANGED <<jobs, client, job, events>>
  BY DEF Send, Discard
<1>2. LiveJobs' = LiveJobs /\ \A c \in Threads : ClientLegs(c)' = ClientLegs(c)
  BY <1>1 DEF LiveJobs, ClientLegs
<1>3. \A m, e : LegsOf(m, e)' = LegsOf(m, e)
  <2> SUFFICES ASSUME NEW m, NEW e PROVE LegsOf(m, e)' = LegsOf(m, e)
    OBVIOUS
  <2>1. \A t : t \in LegsOf(m, e)' <=> t \in LegsOf(m, e)
    BY <1>1, <1>2, InLegs
  <2>2. QED
    BY <2>1
<1>4. PICK B \in SUBSET Targets, F \in SUBSET Targets : Note(B, F)
  BY <1>0, NoteIs
<1> DEFINE N(c) == NotedAs(c, B, F)
<1>5. /\ comp' = {N(c) : c \in comp}
      /\ \A c \in comp : N(c).ev = c.ev /\ N(c).msg = c.msg /\ N(c).remaining = c.remaining
  <2>1. comp \subseteq Completion
    BY <1>0 DEF TypeOK
  <2>2. QED
    BY <1>4, <2>1, NoteFields, Zenon
<1> HIDE DEF N
<1>6. OneDispatchCounted'
  <2>1. \A c, d \in comp' : c.msg = d.msg => c = d
    BY <1>0, <1>5 DEF OneDispatchCounted
  <2>2. \A c \in comp' : c.remaining = Cardinality(LegsOf(c.msg, c.ev)') /\ c.remaining > 0
    BY <1>0, <1>3, <1>5 DEF OneDispatchCounted
  <2>3. \A m \in Msgs : \A e \in 1..events' :
          LegsOf(m, e)' # {} => \E c \in comp' : c.msg = m /\ c.ev = e
    BY <1>0, <1>1, <1>3, <1>5 DEF OneDispatchCounted
  <2>4. QED
    BY <2>1, <2>2, <2>3 DEF OneDispatchCounted
<1>7. ClientsInOrder' /\ EvsApart'
  BY <1>0, <1>1, <1>2 DEF ClientsInOrder, InOrder, EvsApart, Begun, Busy
<1>8. LegsApart'
  BY <1>0, <1>1, <1>2 DEF LegsApart, SameLeg, Holds
<1>9. QED
  BY <1>3, <1>6, <1>7, <1>8 DEF Sound, LegsKept

LEMMA WorkSound ==
  ASSUME DispatchInv, Take \/ Retry \/ WorkerMark \/ Elapse
                        \/ (\E m \in Msgs : Forget(m)) \/ UNCHANGED vars
  PROVE  Sound' /\ LegsKept
<1>0. jobs \subseteq Job /\ (pc # "take" => job \in Job) /\ LegsApart
  BY DEF DispatchInv, TypeOK
<1>r. \A j : SameJob(j, j)
  BY DEF SameJob
<1>1. CASE Take
  <2>1. PICK j \in jobs : jobs' = jobs \ {j} /\ job' = j
    BY <1>1 DEF Take
  <2>2. LiveJobs' = LiveJobs
    BY <1>1, <2>1 DEF LiveJobs, Take
  <2>3. \A k \in jobs' : ~SameLeg(k, job')
    BY <1>0, <2>1 DEF LegsApart
  <2>4. UNCHANGED <<client, comp, events>> /\ \A k, l \in jobs' : SameLeg(k, l) => k = l
    BY <1>0, <1>1, <2>1 DEF LegsApart, Take
  <2>5. QED
    BY <1>r, <2>2, <2>3, <2>4, QuietWork
<1>2. CASE WorkerMark \/ (\E m \in Msgs : Forget(m)) \/ UNCHANGED vars
  <2>1. /\ UNCHANGED <<client, comp, events, jobs>> /\ LiveJobs' = LiveJobs
        /\ pc' \in {"send", "finish"} => pc \in {"send", "finish"} /\ job' = job
    BY <1>2 DEF WorkerMark, Forget, vars, worker, LiveJobs
  <2>2. /\ \A k, l \in jobs' : SameLeg(k, l) => k = l
        /\ pc' \in {"send", "finish"} => \A k \in jobs' : ~SameLeg(k, job')
    BY <1>0, <2>1 DEF LegsApart
  <2>3. QED
    BY <1>r, <2>1, <2>2, QuietWork
<1>3. CASE Retry
  <2>1. PICK k : k = [job EXCEPT !.attempts = @ + 1, !.due = FALSE]
    OBVIOUS
  <2>2. SameJob(job, k)
    BY <1>0, <1>3, <2>1, JobType DEF Retry
  <2>3. /\ LiveJobs = jobs \cup {job} /\ LiveJobs' = jobs \cup {k} /\ jobs' = jobs \cup {k}
        /\ pc' = "take" /\ UNCHANGED <<client, comp, events>> /\ pc = "finish"
    BY <1>3, <2>1 DEF Retry, LiveJobs
  <2>4. \A i, l \in jobs' : SameLeg(i, l) => i = l
    BY <1>0, <2>2, <2>3 DEF LegsApart, SameLeg, SameJob
  <2>5. QED
    BY <1>r, <2>2, <2>3, <2>4, QuietWork
<1>4. CASE Elapse
  <2>a. PICK j \in jobs : jobs' = (jobs \ {j}) \cup {[j EXCEPT !.due = TRUE]}
    BY <1>4 DEF Elapse
  <2>1. PICK k : k = [j EXCEPT !.due = TRUE] /\ jobs' = (jobs \ {j}) \cup {k}
    BY <2>a
  <2>2. SameJob(j, k)
    BY <1>0, <2>1, JobType
  <2>3. UNCHANGED <<client, comp, events, pc, job>>
    BY <1>4 DEF Elapse, worker
  <2>4. /\ \A i \in LiveJobs' : i = k \/ i \in LiveJobs
        /\ k \in LiveJobs' /\ j \in LiveJobs
        /\ \A i \in LiveJobs : i = j \/ i \in LiveJobs'
    BY <2>1, <2>3 DEF LiveJobs
  <2>5. \A i, l \in jobs' : SameLeg(i, l) => i = l
    <3>1. jobs' = (jobs \ {j}) \cup {k}
      BY <2>1
    <3>2. \A i \in jobs \ {j} : ~SameLeg(i, k) /\ ~SameLeg(k, i)
      BY <1>0, <2>1, <2>2 DEF LegsApart, SameLeg, SameJob
    <3>3. \A i, l \in jobs : SameLeg(i, l) => i = l
      BY <1>0 DEF LegsApart
    <3>4. QED
      BY <3>1, <3>2, <3>3
  <2>6. pc' \in {"send", "finish"} => \A i \in jobs' : ~SameLeg(i, job')
    BY <1>0, <2>1, <2>2, <2>3 DEF LegsApart, SameLeg, SameJob
  <2>7. QED
    BY <1>r, <2>2, <2>3, <2>4, <2>5, <2>6, QuietWork
<1>5. QED
  BY <1>1, <1>2, <1>3, <1>4

\* The steps of a thread that move no leg.
LEMMA ThreadSound ==
  ASSUME DispatchInv,
         NEW c \in Threads,
         \/ \E m \in Ids : Request(c, m, "snapshot") /\ UNCHANGED <<jobs, comp, worker>>
         \/ c = "web" /\ Save
         \/ c = "web" /\ Publish
         \/ c = "main" /\ Store
         \/ Snapshot(c) \/ Decide(c) \/ ClientMark(c)
         \/ Begin(c) /\ client[c].msg # NoMsg /\ UnderWay(c)
  PROVE  Sound' /\ LegsKept
<1>0. TypeOK /\ ClientsInOrder
  BY DEF DispatchInv
<1>1. CASE \E m \in Ids : Request(c, m, "snapshot") /\ UNCHANGED <<jobs, comp, worker>>
  <2>1. PICK r : Moved(c, r) /\ r.at = "snapshot" /\ r.ev = events + 1
    BY <1>0, <1>1, RequestMoves
  <2>2. ~Busy(c) /\ ~Holds(c) /\ events' = events + 1
    BY <1>1, RequestMoves, <1>0 DEF Request, Holds
  <2>3. QED
    BY <1>1, <2>1, <2>2, QuietMove DEF worker
<1>2. CASE c = "web" /\ Save
  <2>1. PICK r : Moved(c, r) /\ r.at = "publish"
    BY <1>0, <1>2, SaveMoves
  <2>2. ~Holds(c) /\ UNCHANGED <<jobs, comp, pc, job, events>>
    BY <1>2 DEF Save, Holds, worker
  <2>3. QED
    BY <2>1, <2>2, QuietMove
<1>3. CASE \/ (c = "web" /\ Publish) \/ ClientMark(c)
           \/ Begin(c) /\ client[c].msg # NoMsg /\ UnderWay(c)
  <2>1. Moved(c, Rest) /\ Rest.at = "idle"
    BY <1>3, RestType DEF Publish, ClientMark, Begin, Moved
  <2>2. ~Holds(c) /\ UNCHANGED <<jobs, comp, pc, job, events>>
    BY <1>3 DEF Publish, ClientMark, Begin, Holds, worker
  <2>3. QED
    BY <2>1, <2>2, QuietMove
<1>4. CASE c = "main" /\ Store
  <2>1. PICK r : Moved(c, r) /\ r.at = "decide" /\ r.ev = client[c].ev
    BY <1>0, <1>4, StoreMoves
  <2>2. /\ ~Holds(c) /\ Busy(c) /\ client[c].at \in Begun
        /\ UNCHANGED <<jobs, comp, pc, job, events>>
    BY <1>4 DEF Store, Holds, Busy, Begun, worker
  <2>3. QED
    BY <2>1, <2>2, QuietMove
<1>5. CASE Snapshot(c)
  <2>1. PICK r : Moved(c, r) /\ r.at \in {"store", "decide"} /\ r.ev = client[c].ev
    BY <1>0, <1>5, SnapshotMoves
  <2>2. /\ ~Holds(c) /\ Busy(c) /\ client[c].at \in Begun
        /\ UNCHANGED <<jobs, comp, pc, job, events>>
    BY <1>5 DEF Snapshot, Holds, Busy, Begun, worker
  <2>3. QED
    BY <2>1, <2>2, QuietMove
<1>6. CASE Decide(c)
  <2>1. PICK r : /\ Moved(c, r) /\ r.at \in {"mark", "idle", "begin"}
                 /\ r.at # "idle" => r.ev = client[c].ev
    BY <1>0, <1>6, DecideMoves
  <2>2. /\ ~Holds(c) /\ Busy(c) /\ client[c].at \in Begun
        /\ UNCHANGED <<jobs, comp, pc, job, events>>
    BY <1>6 DEF Decide, Holds, Busy, Begun, worker
  <2>3. QED
    BY <2>1, <2>2, QuietMove
<1>7. QED
  BY <1>1, <1>2, <1>3, <1>4, <1>5, <1>6

LEMMA RestartSound ==
  ASSUME TypeOK, Restart
  PROVE  Sound'
<1>1. /\ jobs' = {} /\ comp' = {} /\ pc' = "take"
      /\ \A c \in Threads : client'[c] = Rest
  BY DEF Restart
<1>2. LiveJobs' = {}
  BY <1>1 DEF LiveJobs
<1>3. \A c \in Threads : ~Busy(c)' /\ ~Holds(c)' /\ client'[c].at \notin Begun
  BY <1>1, RestType DEF Busy, Holds, Begun
<1>4. \A m, e : LegsOf(m, e)' = {}
  BY <1>2, <1>3, ClientLegsAre, InLegs
<1>5. ClientsInOrder'
  BY <1>1, RestType DEF ClientsInOrder, InOrder
<1>6. EvsApart' /\ LegsApart'
  BY <1>1, <1>2, <1>3 DEF EvsApart, LegsApart
<1>7. OneDispatchCounted'
  BY <1>1, <1>4 DEF OneDispatchCounted
<1>8. QED
  BY <1>5, <1>6, <1>7 DEF Sound

LEMMA InitSound == Init => DispatchInv
<1> SUFFICES ASSUME Init PROVE DispatchInv
  OBVIOUS
<1>1. /\ jobs = {} /\ comp = {} /\ pc = "take"
      /\ \A c \in Threads : client[c] = Rest
  BY DEF Init
<1>2. LiveJobs = {}
  BY <1>1 DEF LiveJobs
<1>3. \A c \in Threads : ~Busy(c) /\ ~Holds(c) /\ client[c].at \notin Begun
  BY <1>1, RestType DEF Busy, Holds, Begun
<1>4. \A m, e : LegsOf(m, e) = {}
  BY <1>2, <1>3, ClientLegsAre, InLegs
<1>5. EvsApart /\ LegsApart
  BY <1>1, <1>2, <1>3 DEF EvsApart, LegsApart
<1>6. OneDispatchCounted
  BY <1>1, <1>4 DEF OneDispatchCounted
<1>7. QED
  BY <1>5, <1>6, InitType DEF DispatchInv

LEMMA NextSound == DispatchInv /\ [Next]_vars => DispatchInv'
<1> SUFFICES ASSUME DispatchInv, [Next]_vars PROVE Sound'
  BY NextType DEF DispatchInv, Sound
<1>1. ASSUME NEW m \in Ids, Receive(m) PROVE Sound'
  BY <1>1, ThreadSound DEF Receive, Threads
<1>2. ASSUME NEW m \in Msgs, Resend(m) PROVE Sound'
  BY <1>2, ThreadSound DEF Resend, Threads, Ids
<1>3. CASE (\E m \in Msgs : Forget(m)) \/ Elapse \/ UNCHANGED vars
  <2>1. CASE \E m \in Msgs : Forget(m)
    BY <2>1, WorkSound
  <2>2. CASE Elapse
    BY <2>2, WorkSound
  <2>3. CASE UNCHANGED vars
    BY <2>3, WorkSound
  <2>4. QED
    BY <1>3, <2>1, <2>2, <2>3
<1>4. CASE Save
  <2>1. \E c \in Threads : c = "web" /\ Save
    BY <1>4 DEF Threads
  <2>2. QED
    BY <2>1, ThreadSound
<1>5. CASE Restart
  BY <1>5, RestartSound DEF DispatchInv
<1>6. CASE Worker
  <2>1. CASE Finish
    BY <2>1, FinishStep
  <2>2. CASE Send \/ Discard
    BY <2>2, NoteSound
  <2>3. QED
    BY <1>6, <2>1, <2>2, WorkSound DEF Worker
<1>7. ASSUME NEW c \in Threads, ClientStep(c) PROVE Sound'
  <2>1. CASE Begin(c)
    BY <2>1, ThreadSound, RegisterStep
  <2>2. CASE Enqueue(c)
    BY <2>2, EnqueueStep
  <2>3. CASE Reject(c)
    BY <2>3, RejectStep
  <2>4. CASE Snapshot(c) \/ Decide(c) \/ ClientMark(c)
    BY <2>4, ThreadSound
  <2>5. CASE c = "main" /\ Store
    BY <2>5, ThreadSound
  <2>6. CASE c = "web" /\ Publish
    BY <2>6, ThreadSound
  <2>7. QED
    BY <1>7, <2>1, <2>2, <2>3, <2>4, <2>5, <2>6 DEF ClientStep
<1>8. QED
  BY <1>1, <1>2, <1>3, <1>4, <1>5, <1>6, <1>7 DEF Next

\* A message has one dispatch under way at most, and its entry counts exactly the
\* legs of that dispatch, whatever is resent, rejected, retried or given up
\* (main.cpp:784-912).
THEOREM DispatchesCounted == Spec => []DispatchSound
<1>1. DispatchInv => DispatchSound
  BY DEF DispatchInv, DispatchSound
<1>2. QED
  BY <1>1, InitSound, NextSound, PTL DEF Spec

-----------------------------------------------------------------------------
(* The service implements the ledger.                                      *)

\* The parts of the mapped state.
PromiseOf(c) == [id |-> c.ev, msg |-> c.msg, to |-> c.to, by |-> c.by, off |-> c.off]
Void == Channels \ workerCfg.valid
LedgerVars == <<Promises, Settling, cfg.drop, Void, inbox>>

\* A thread is about to mark its message, or will be.
Settles(r) == \/ r.at \in {"store", "decide"} /\ r.msg \in r.view.drop
              \/ r.at = "mark" /\ r.ok

LEMMA InSettling ==
  \A m : /\ m \in Settling <=> \/ \E c \in Threads : client[c].msg = m /\ Settles(client[c])
                               \/ pc = "mark" /\ ok /\ job.msg = m
         /\ m \in Settling' <=> \/ \E c \in Threads : client'[c].msg = m /\ Settles(client'[c])
                                \/ pc' = "mark" /\ ok' /\ job'.msg = m
BY DEF Settling, Settles, Dropped

\* A promise is a promise of the ledger's, and a dispatch has a number of its own.
LEMMA PromiseType ==
  ASSUME LedgerInv
  PROVE  /\ \A c \in comp : PromiseOf(c) \in Ledger!Promise
         /\ Promises = {PromiseOf(c) : c \in {d \in comp : ~d.failed}}
<1>1. ASSUME NEW c \in comp PROVE PromiseOf(c) \in Ledger!Promise
  <2>1. /\ c.ev \in Nat /\ c.msg \in Msgs /\ c.remaining \in Nat
        /\ {c.to, c.by, c.off} \subseteq SUBSET Targets
    BY DEF LedgerInv, DispatchInv, TypeOK, Completion
  <2>2. LegsOf(c.msg, c.ev) # {}
    BY FS_EmptySet DEF LedgerInv, DispatchInv, OneDispatchCounted
  <2>3. c.to # {}
    BY <2>2 DEF LedgerInv, NobodyForgotten
  <2>4. c.ev \in 1..events
    <3>1. PICK t : t \in LegsOf(c.msg, c.ev)
      BY <2>2
    <3>2. CASE \E j \in LiveJobs : j.ev = c.ev
      BY <3>2 DEF LedgerInv, DispatchInv, EvsApart
    <3>3. CASE \E d \in Threads : client[d].ev = c.ev /\ ClientLegs(d) # {}
      BY <3>3, ClientLegsAre DEF LedgerInv, DispatchInv, EvsApart, Holds, Busy
    <3>4. QED
      BY <3>1, <3>2, <3>3, InLegs
  <2>5. c.ev \in Nat \ {0}
    BY <2>1, <2>4 DEF LedgerInv, DispatchInv, TypeOK
  <2>6. QED
    BY <2>1, <2>3, <2>5 DEF PromiseOf, Ledger!Promise
<1>2. QED
  BY <1>1 DEF Promises, PromiseOf

LEMMA KeptPromises ==
  ASSUME comp' = comp
  PROVE  Promises' = Promises
BY DEF Promises

\* What counting a leg does to the promises: the last leg of a dispatch that has not
\* failed fulfils its promise; else the promise is given up or left as it is.
GivenUp(m, success) == Promises' \in SUBSET Promises /\ Successful(m, success) = {}
Fulfilled(m, success) ==
  \E p \in Promises : /\ p.msg = m /\ p.to \subseteq p.by \cup p.off
                      /\ Promises' = Promises \ {p}
                      /\ Successful(m, success) # {}
LEMMA LegStep ==
  ASSUME LedgerInv, NEW m \in Ids, NEW e \in 1..events, NEW t, NEW success \in BOOLEAN,
         FinishLeg(m, success), events' = events,
         m \in Msgs => t \in LegsOf(m, e) /\ LegsOf(m, e)' = LegsOf(m, e) \ {t},
         \A n, f : n # m \/ f # e => LegsOf(n, f)' = LegsOf(n, f),
         success => \A c \in comp : c.msg = m /\ c.ev = e => t \in c.by \cup c.off,
         pc' = "finish" /\ ok' => pc = "finish" /\ ok /\ job' = job
  PROVE  /\ NobodyForgotten'
         /\ GivenUp(m, success) \/ (success /\ Fulfilled(m, success))
<1> DEFINE Sure == {d \in comp : ~d.failed}
<1>0. /\ \A c \in comp : c \in Completion /\ c.msg \in Msgs /\ c.ev \in Nat /\ c.failed \in BOOLEAN
      /\ Promises = {PromiseOf(c) : c \in Sure}
      /\ Promises' = {PromiseOf(c) : c \in {d \in comp' : ~d.failed}}
  BY PromiseType DEF LedgerInv, DispatchInv, TypeOK, Completion, Promises, PromiseOf
<1>d. DispatchInv
  BY DEF LedgerInv
<1>f. /\ \A c \in comp : LegsOf(c.msg, c.ev) \subseteq c.to
      /\ \A c \in comp : ~c.failed => c.to \ (c.by \cup c.off) \subseteq LegsOf(c.msg, c.ev)
      /\ pc' = "finish" /\ ok' => \A c \in comp : c.msg = job'.msg /\ c.ev = job'.ev
                                             => job'.target \in c.by \cup c.off
  BY DEF LedgerInv, NobodyForgotten
<1>1. CASE m \notin Msgs
  <2>1. comp' = comp /\ EntryOf(m) = {}
    BY <1>1, <1>d, CountedStep
  <2>2. \A c \in comp : LegsOf(c.msg, c.ev)' = LegsOf(c.msg, c.ev)
    BY <1>0, <1>1
  <2>3. Promises' = Promises /\ Successful(m, success) = {}
    BY <2>1, KeptPromises DEF Successful
  <2>4. NobodyForgotten'
    BY <1>f, <2>1, <2>2 DEF NobodyForgotten
  <2>5. QED
    BY <2>3, <2>4 DEF GivenUp
<1>2. CASE m \in Msgs
  <2>1. PICK x \in comp :
                /\ x.msg = m /\ x.ev = e /\ EntryOf(m) = {x}
                /\ x.remaining = Cardinality(LegsOf(m, e)) /\ x.remaining \in Nat
                /\ x.remaining = 1 => comp' = comp \ {x} /\ LegsOf(m, e) = {t}
                /\ x.remaining # 1 =>
                     \E y : /\ comp' = (comp \ {x}) \cup {y} /\ LegsOf(m, e) # {t}
                            /\ y.msg = m /\ y.ev = e
                            /\ y.failed = (x.failed \/ ~success)
                            /\ y.to = x.to /\ y.by = x.by /\ y.off = x.off
    BY <1>2, <1>d, CountedStep
  <2> DEFINE p == PromiseOf(x)
             Others == {PromiseOf(d) : d \in Sure \ {x}}
  <2>2. \A d \in comp \ {x} : d.msg # m /\ LegsOf(d.msg, d.ev)' = LegsOf(d.msg, d.ev)
    BY <2>1 DEF EntryOf
  <2>3. /\ p.msg = m /\ p.to = x.to /\ p.by = x.by /\ p.off = x.off /\ p \notin Others
    BY <2>1, <2>2 DEF PromiseOf
  <2>4. /\ x.failed => Promises = Others
        /\ ~x.failed => Promises = Others \cup {p} /\ Promises \ {p} = Others
    BY <1>0, <2>3
  <2>5. CASE x.remaining = 1
    <3>1. Promises' = Others
      BY <1>0, <2>1, <2>5
    <3>2. Successful(m, success) # {} <=> success /\ ~x.failed
      BY <2>1, <2>5 DEF Successful
    <3>3. NobodyForgotten'
      <4>1. \A c \in comp' : c \in comp \ {x}
        BY <2>1, <2>5
      <4>2. QED
        BY <1>f, <2>2, <4>1 DEF NobodyForgotten
    <3>4. success /\ ~x.failed => p.to \subseteq p.by \cup p.off
      BY <1>f, <2>1, <2>3, <2>5
    <3>5. QED
      BY <2>3, <2>4, <3>1, <3>2, <3>3, <3>4 DEF GivenUp, Fulfilled
  <2>6. CASE x.remaining # 1
    <3>1. PICK y : /\ comp' = (comp \ {x}) \cup {y} /\ LegsOf(m, e) # {t}
                   /\ y.msg = m /\ y.ev = e
                   /\ y.failed = (x.failed \/ ~success)
                   /\ y.to = x.to /\ y.by = x.by /\ y.off = x.off
      BY <2>1, <2>6
    <3>2. Successful(m, success) = {}
      BY <2>1, <2>6 DEF Successful
    <3>5. NobodyForgotten'
      <4>1. LegsOf(y.msg, y.ev)' = LegsOf(m, e) \ {t}
        BY <1>2, <3>1
      <4>2. LegsOf(m, e) \subseteq x.to /\ LegsOf(y.msg, y.ev)' \subseteq y.to
        BY <1>f, <2>1, <3>1, <4>1
      <4>3. ~y.failed => y.to \ (y.by \cup y.off) \subseteq LegsOf(y.msg, y.ev)'
        BY <1>f, <2>1, <3>1, <4>1
      <4>4. pc' = "finish" /\ ok' => \A c \in comp' : c.msg = job'.msg /\ c.ev = job'.ev
                                             => job'.target \in c.by \cup c.off
        BY <1>f, <2>1, <3>1
      <4>5. \A c \in comp' : c \in comp \ {x} \/ c = y
        BY <3>1
      <4>6. QED
        BY <1>f, <2>2, <4>2, <4>3, <4>4, <4>5 DEF NobodyForgotten
    <3>3. CASE x.failed \/ ~success
      <4>1. Promises' = Others
        BY <1>0, <3>1, <3>3
      <4>2. QED
        BY <2>4, <3>2, <4>1, <3>5 DEF GivenUp
    <3>4. CASE ~x.failed /\ success
      <4>1. PromiseOf(y) = p
        BY <2>1, <3>1 DEF PromiseOf
      <4>2. Promises' = Others \cup {PromiseOf(y)}
        BY <1>0, <3>1, <3>4
      <4>3. QED
        BY <2>4, <3>2, <3>4, <4>1, <4>2, <3>5 DEF GivenUp
    <3>6. QED
      BY <3>3, <3>4
  <2>7. QED
    BY <2>5, <2>6
<1>3. QED
  BY <1>1, <1>2

\* A step of a thread that settles what it settled before.
LEMMA KeptSettling ==
  ASSUME TypeOK, NEW c \in Threads, NEW r, Moved(c, r),
         Settles(r) <=> Settles(client[c]),
         Settles(r) => r.msg = client[c].msg,
         UNCHANGED <<pc, job, ok>> \/ (~(pc = "mark" /\ ok) /\ ~(pc' = "mark" /\ ok'))
  PROVE  Settling' = Settling
<1>1. client'[c] = r /\ \A d \in Threads \ {c} : client'[d] = client[d]
  BY MovedType
<1>2. \A m : m \in Settling' <=> m \in Settling
  BY <1>1, InSettling
<1>3. QED
  BY <1>2

\* A mark: the message may be settled by another thread still.
LEMMA MarkStep ==
  ASSUME inbox \in [Msgs -> {"unseen", "pending", "forwarded", "gone"}],
         NEW m, NEW success \in BOOLEAN, Mark(m, success), Promises' = Promises,
         UNCHANGED <<cfg, workerCfg>>,
         success => m \in Settling /\ Settling' \in {Settling, Settling \ {m}},
         ~success => Settling' = Settling
  PROVE  Ledger!Next \/ UNCHANGED LedgerVars
<1>1. CASE success
  <2>1. Ledger!Settle(m)
    BY <1>1 DEF Ledger!Settle, Mark
  <2>2. QED
    BY <1>1, <2>1 DEF Ledger!Next
<1>2. CASE ~success /\ m \in Msgs /\ inbox[m] = "forwarded"
  <2>1. inbox' = [inbox EXCEPT ![m] = "pending"]
    BY <1>2 DEF Mark
  <2>2. Ledger!Unmark(m)
    BY <1>2, <2>1 DEF Ledger!Unmark
  <2>3. QED
    BY <1>2, <2>2 DEF Ledger!Next
<1>3. CASE ~success /\ ~(m \in Msgs /\ inbox[m] = "forwarded")
  <2>1. inbox' = inbox
    BY <1>3 DEF Mark
  <2>2. QED
    BY <1>3, <2>1 DEF LedgerVars, Void
<1>4. QED
  BY <1>1, <1>2, <1>3

\* A step that leaves the table and every leg alone.
LEMMA KeptForgotten ==
  ASSUME LedgerInv, comp' = comp, LegsKept,
         pc' = "finish" /\ ok' => pc = "finish" /\ ok /\ job' = job
  PROVE  NobodyForgotten'
<1>1. \A c \in comp : LegsOf(c.msg, c.ev)' = LegsOf(c.msg, c.ev)
  BY DEF LedgerInv, DispatchInv, TypeOK, Completion, LegsKept
<1>2. QED
  BY <1>1 DEF LedgerInv, NobodyForgotten

\* A thread that registers its message opens a promise to every target it is to
\* enqueue.
LEMMA OpenStep ==
  ASSUME LedgerInv, NEW c \in Threads, Begin(c), Settling' = Settling
  PROVE  NobodyForgotten' /\ (Ledger!Next \/ UNCHANGED LedgerVars)
<1>0. UNCHANGED <<cfg, workerCfg, inbox, pc, job, ok>> /\ Void' = Void /\ DispatchInv
  BY DEF Begin, worker, Void, LedgerInv
<1>1. CASE client[c].msg # NoMsg /\ UnderWay(c)
  <2>1. comp' = comp /\ LegsKept
    BY <1>0, <1>1, ThreadSound DEF Begin
  <2>2. QED
    BY <1>0, <2>1, KeptPromises, KeptForgotten DEF LedgerVars
<1>2. CASE ~(client[c].msg # NoMsg /\ UnderWay(c))
  <2>1. PICK m, e, T : m = client[c].msg /\ e = client[c].ev /\ T = client[c].todo
    OBVIOUS
  <2>2. /\ \A n, f : f # e => LegsOf(n, f)' = LegsOf(n, f)
        /\ LegsOf(m, e)' = T /\ EntryOf(m) = {}
    BY <1>0, <1>2, <2>1, RegisterStep
  <2>3. /\ m \in Ids /\ e \in 1..events /\ e \in Nat \ {0} /\ T \subseteq Targets /\ T # {}
        /\ client[c].at \in Begun
    BY <1>0, <2>1
       DEF Begin, DispatchInv, TypeOK, Client, EvsApart, Busy, ClientsInOrder, InOrder, Begun
  <2>4. \A x \in comp : x.ev # e /\ LegsOf(x.msg, x.ev)' = LegsOf(x.msg, x.ev)
    <3>1. ASSUME NEW x \in comp PROVE x.ev # e
      <4>1. Cardinality(LegsOf(x.msg, x.ev)) > 0
        BY <1>0 DEF DispatchInv, OneDispatchCounted
      <4>2. LegsOf(x.msg, e) = {}
        BY <1>0, <2>1, <2>3, NoLegsYet
      <4>3. QED
        BY <4>1, <4>2, FS_EmptySet
    <3>2. QED
      BY <2>2, <3>1
  <2>5. /\ Promises = {PromiseOf(x) : x \in {d \in comp : ~d.failed}}
        /\ Promises' = {PromiseOf(x) : x \in {d \in comp' : ~d.failed}}
    BY DEF Promises, PromiseOf
  <2>6. CASE m = NoMsg
    <3>1. comp' = comp
      BY <1>2, <2>1, <2>2, <2>6 DEF Begin
    <3>2. Promises' = Promises
      BY <2>5, <3>1
    <3>3. NobodyForgotten'
      BY <1>0, <2>4, <3>1 DEF LedgerInv, NobodyForgotten
    <3>4. QED
      BY <1>0, <3>2, <3>3 DEF LedgerVars
  <2>7. CASE m # NoMsg
    <3>1. PICK x : x = [ev |-> e, msg |-> m, remaining |-> Cardinality(T), failed |-> FALSE,
                        to |-> T, by |-> {}, off |-> {}]
      OBVIOUS
    <3>2. comp' = comp \cup {x}
      BY <1>2, <2>1, <2>2, <2>7, <3>1 DEF Begin
    <3>3. PICK p : p = [id |-> e, msg |-> m, to |-> T, by |-> {}, off |-> {}]
      OBVIOUS
    <3>4. x.failed = FALSE /\ PromiseOf(x) = p /\ x.ev = e /\ x.msg = m /\ x.to = T
      BY <3>1, <3>3 DEF PromiseOf
    <3>5. Promises' = Promises \cup {p}
      BY <2>5, <3>2, <3>4
    <3>6. p \in Ledger!Promise /\ p.id = e /\ p.by = {} /\ p.off = {}
      BY <2>3, <2>7, <3>3 DEF Ledger!Promise, Ids
    <3>7. \A q \in Promises : q.id # p.id
      <4>1. \A y \in comp : PromiseOf(y).id # e
        BY <2>4 DEF PromiseOf
      <4>2. QED
        BY <2>5, <3>6, <4>1
    <3>8. Ledger!Open
      BY <1>0, <3>5, <3>6, <3>7 DEF Ledger!Open, Void
    <3>9. NobodyForgotten'
      <4>1. pc = "finish" => ~(x.msg = job.msg /\ x.ev = job.ev)
        <5>1. client[c].at \in Begun /\ e = client[c].ev
          BY <2>1, <2>3
        <5>2. QED
          BY <1>0, <3>4, <5>1 DEF DispatchInv, EvsApart, LiveJobs
      <4>2. LegsOf(x.msg, x.ev)' = x.to
        BY <2>2, <3>4
      <4>3. \A y \in comp' : y \in comp \/ y = x
        BY <3>2
      <4>4. QED
        BY <1>0, <2>4, <4>1, <4>2, <4>3 DEF LedgerInv, NobodyForgotten
    <3>10. QED
      BY <3>8, <3>9 DEF Ledger!Next
  <2>8. QED
    BY <2>6, <2>7
<1>3. QED
  BY <1>1, <1>2

\* A target takes the message, turns it down or is let off: the promise of the leg's
\* dispatch takes note, if there is one.
LEMMA NoteLedger ==
  ASSUME LedgerInv, Send \/ Discard
  PROVE  NobodyForgotten' /\ (Ledger!Next \/ UNCHANGED LedgerVars)
<1>0. /\ pc = "send" /\ pc' = "finish" /\ UNCHANGED <<cfg, workerCfg, jobs, inbox, client, job>>
      /\ DispatchInv /\ TypeOK /\ OneDispatchCounted /\ comp \subseteq Completion
  BY DEF Send, Discard, LedgerInv, DispatchInv, TypeOK
<1>1. PICK B \in SUBSET Targets, F \in SUBSET Targets :
        /\ Note(B, F) /\ job \in Job
        /\ ok' => job.target \in B \cup F
        /\ \/ B = {job.target} /\ F = {}
           \/ B = {} /\ F = {}
           \/ B = {} /\ F = {job.target} /\ job.target \in Channels \ workerCfg.valid
  BY <1>0, NoteIs
<1> DEFINE N(c) == NotedAs(c, B, F)
           Mine(c) == c.msg = job.msg /\ c.ev = job.ev
<1>2. /\ comp' = {N(c) : c \in comp}
      /\ \A c \in comp :
           /\ N(c).ev = c.ev /\ N(c).msg = c.msg /\ N(c).failed = c.failed /\ N(c).to = c.to
           /\ Mine(c) => N(c).by = c.by \cup B /\ N(c).off = c.off \cup F
           /\ ~Mine(c) => N(c) = c
  <2>1. comp \subseteq Completion /\ Note(B, F)
    BY <1>0, <1>1
  <2>2. /\ comp' = {NotedAs(c, B, F) : c \in comp}
        /\ comp' \subseteq Completion
        /\ \A c \in comp :
             /\ NotedAs(c, B, F).ev = c.ev /\ NotedAs(c, B, F).msg = c.msg
             /\ NotedAs(c, B, F).remaining = c.remaining
             /\ NotedAs(c, B, F).failed = c.failed /\ NotedAs(c, B, F).to = c.to
             /\ c.msg = job.msg /\ c.ev = job.ev =>
                  NotedAs(c, B, F).by = c.by \cup B /\ NotedAs(c, B, F).off = c.off \cup F
             /\ ~(c.msg = job.msg /\ c.ev = job.ev) => NotedAs(c, B, F) = c
    BY <2>1, NoteFields, Zenon
  <2>3. /\ comp' = {N(c) : c \in comp}
        /\ \A c \in comp :
             /\ N(c).ev = c.ev /\ N(c).msg = c.msg /\ N(c).failed = c.failed /\ N(c).to = c.to
             /\ Mine(c) => N(c).by = c.by \cup B /\ N(c).off = c.off \cup F
             /\ ~Mine(c) => N(c) = c
    BY <2>2
  <2>4. QED
    BY <2>3
<1> HIDE DEF N
<1>3. LegsKept /\ \A c \in comp : c.msg \in Msgs /\ c.ev \in Nat
  BY <1>0, NoteSound DEF Completion
<1>4. NobodyForgotten'
  <2>1. ASSUME NEW c \in comp
        PROVE  /\ LegsOf(c.msg, c.ev)' \subseteq N(c).to
               /\ ~N(c).failed => N(c).to \ (N(c).by \cup N(c).off) \subseteq LegsOf(c.msg, c.ev)'
               /\ ok' /\ Mine(c) => job.target \in N(c).by \cup N(c).off
    <3>1. LegsOf(c.msg, c.ev)' = LegsOf(c.msg, c.ev) /\ LegsOf(c.msg, c.ev) \subseteq c.to
      BY <1>3 DEF LegsKept, LedgerInv, NobodyForgotten
    <3>2. ~c.failed => c.to \ (c.by \cup c.off) \subseteq LegsOf(c.msg, c.ev)
      BY DEF LedgerInv, NobodyForgotten
    <3>3. N(c).to = c.to /\ N(c).failed = c.failed
          /\ c.by \subseteq N(c).by /\ c.off \subseteq N(c).off
      BY <1>2
    <3>4. ok' /\ Mine(c) => job.target \in N(c).by \cup N(c).off
      BY <1>1, <1>2
    <3>5. QED
      BY <3>1, <3>2, <3>3, <3>4
  <2>2. \A d \in comp' : LegsOf(d.msg, d.ev)' \subseteq d.to
    BY <1>2, <2>1
  <2>3. \A d \in comp' : ~d.failed => d.to \ (d.by \cup d.off) \subseteq LegsOf(d.msg, d.ev)'
    BY <1>2, <2>1
  <2>4. ok' => \A d \in comp' : Mine(d) => job.target \in d.by \cup d.off
    BY <1>2, <2>1
  <2>5. QED
    BY <1>0, <2>2, <2>3, <2>4 DEF NobodyForgotten
<1>5. Settling' = Settling /\ Void' = Void
  BY <1>0 DEF Settling, Dropped, Void
<1>6. /\ Promises = {PromiseOf(c) : c \in {d \in comp : ~d.failed}}
      /\ Promises' = {PromiseOf(N(c)) : c \in {d \in comp : ~d.failed}}
  BY <1>2 DEF Promises, PromiseOf
<1>7. CASE \A c \in comp : ~c.failed => ~Mine(c)
  <2>1. \A c \in comp : ~c.failed => N(c) = c
    BY <1>2, <1>7
  <2>2. Promises' = Promises
    BY <1>6, <2>1
  <2>3. QED
    BY <1>0, <1>4, <1>5, <2>2 DEF LedgerVars
<1>8. ASSUME NEW c \in comp, ~c.failed, Mine(c)
      PROVE  Ledger!Next \/ UNCHANGED LedgerVars
  <2> DEFINE Others == {PromiseOf(d) : d \in {f \in comp : ~f.failed} \ {c}}
  <2>1. \A d \in comp \ {c} : ~Mine(d) /\ N(d) = d /\ PromiseOf(d) # PromiseOf(c)
    BY <1>0, <1>2, <1>8 DEF OneDispatchCounted, PromiseOf
  <2>2. Promises = Others \cup {PromiseOf(c)} /\ PromiseOf(c) \notin Others
    BY <1>6, <1>8, <2>1
  <2>3. Promises' = Others \cup {PromiseOf(N(c))}
    BY <1>6, <1>8, <2>1
  <2>4. Promises' = (Promises \ {PromiseOf(c)}) \cup {PromiseOf(N(c))}
    BY <2>2, <2>3
  <2>5. job.target \in PromiseOf(c).to /\ job.target \in Targets
    <3>1. job \in LiveJobs
      BY <1>0 DEF LiveJobs
    <3>2. job.target \in LegsOf(c.msg, c.ev)
      BY <1>8, <3>1, InLegs
    <3>3. QED
      BY <1>1, <3>2 DEF LedgerInv, NobodyForgotten, PromiseOf, Job
  <2>6. /\ N(c).ev = c.ev /\ N(c).msg = c.msg /\ N(c).to = c.to
        /\ N(c).by = c.by \cup B /\ N(c).off = c.off \cup F
    BY <1>2, <1>8
  <2>7. CASE B = {job.target} /\ F = {}
    <3>1. PromiseOf(N(c)) = [PromiseOf(c) EXCEPT !.by = @ \cup {job.target}]
      BY <2>6, <2>7 DEF PromiseOf
    <3>2. Ledger!Accept(PromiseOf(c), job.target)
      BY <1>0, <1>5, <2>4, <2>5, <3>1 DEF Ledger!Accept, Void
    <3>3. QED
      BY <2>2, <2>5, <3>2 DEF Ledger!Next
  <2>8. CASE B = {} /\ F = {}
    <3>1. PromiseOf(N(c)) = PromiseOf(c)
      BY <2>6, <2>8 DEF PromiseOf
    <3>2. QED
      BY <1>0, <1>5, <2>2, <2>4, <3>1 DEF LedgerVars
  <2>9. CASE B = {} /\ F = {job.target} /\ job.target \in Channels \ workerCfg.valid
    <3>1. PromiseOf(N(c)) = [PromiseOf(c) EXCEPT !.off = @ \cup {job.target}]
      BY <2>6, <2>9 DEF PromiseOf
    <3>2. Ledger!Excuse(PromiseOf(c), job.target)
      BY <1>0, <1>5, <2>4, <2>5, <2>9, <3>1 DEF Ledger!Excuse, Void
    <3>3. QED
      BY <2>2, <2>5, <3>2 DEF Ledger!Next
  <2>10. QED
    BY <1>1, <2>7, <2>8, <2>9
<1>9. QED
  BY <1>4, <1>7, <1>8

\* The worker is done with a leg: the promise is fulfilled, given up or as it was.
LEMMA FinishLedger ==
  ASSUME LedgerInv, Finish
  PROVE  NobodyForgotten' /\ (Ledger!Next \/ UNCHANGED LedgerVars)
<1>1. PICK m, e, t, s : m = job.msg /\ e = job.ev /\ t = job.target /\ s = ok
  OBVIOUS
<1>2. /\ FinishLeg(m, s) /\ UNCHANGED <<cfg, workerCfg, inbox, client, events>> /\ pc = "finish"
      /\ s \in BOOLEAN /\ job \in Job /\ DispatchInv
      /\ Ready(m) => pc' = "mark" /\ ok' = (Successful(m, s) # {}) /\ job' = job
      /\ ~Ready(m) => pc' = "take"
  BY <1>1 DEF Finish, LedgerInv, DispatchInv, TypeOK
<1>3. /\ m \in Ids /\ e \in 1..events
      /\ m \in Msgs => t \in LegsOf(m, e) /\ LegsOf(m, e)' = LegsOf(m, e) \ {t}
      /\ \A n, f : n # m \/ f # e => LegsOf(n, f)' = LegsOf(n, f)
  BY <1>1, <1>2, FinishStep
<1>4. Successful(m, s) # {} => Ready(m)
  BY DEF Successful, Ready
<1>5. \A n : n \in Settling' <=> n \in Settling \/ (Successful(m, s) # {} /\ n = m)
  BY <1>1, <1>2, <1>4, InSettling
<1>6. NobodyForgotten' /\ (GivenUp(m, s) \/ (s /\ Fulfilled(m, s)))
  <2>1. FinishLeg(m, s) /\ events' = events /\ s \in BOOLEAN
    BY <1>2
  <2>2. s => \A c \in comp : c.msg = m /\ c.ev = e => t \in c.by \cup c.off
    BY <1>1, <1>2 DEF LedgerInv, NobodyForgotten
  <2>3. pc' # "finish"
    BY <1>2
  <2>4. QED
    BY <1>3, <2>1, <2>2, <2>3, LegStep
<1>7. CASE GivenUp(m, s)
  <2>1. Settling' = Settling
    BY <1>5, <1>7 DEF GivenUp
  <2>2. Ledger!Abandon
    BY <1>2, <1>7, <2>1 DEF Ledger!Abandon, GivenUp
  <2>3. QED
    BY <1>6, <2>2 DEF Ledger!Next
<1>8. ASSUME NEW p \in Promises, p.msg = m, p.to \subseteq p.by \cup p.off,
             Promises' = Promises \ {p}, Successful(m, s) # {}
      PROVE  Ledger!Next
  <2>1. Settling' = Settling \cup {p.msg}
    BY <1>5, <1>8
  <2>2. Ledger!Fulfil(p)
    BY <1>2, <1>8, <2>1 DEF Ledger!Fulfil
  <2>3. QED
    BY <2>2 DEF Ledger!Next
<1>9. QED
  BY <1>6, <1>7, <1>8 DEF Fulfilled

\* A leg the queue turned away takes the promise with it.
LEMMA RejectLedger ==
  ASSUME LedgerInv, NEW c \in Threads, Reject(c), Settling' = Settling
  PROVE  NobodyForgotten' /\ (Ledger!Next \/ UNCHANGED LedgerVars)
<1>1. PICK m, e, t : m = client[c].msg /\ e = client[c].ev /\ t = client[c].leg
  OBVIOUS
<1>2. /\ FinishLeg(m, FALSE) /\ UNCHANGED <<cfg, workerCfg, inbox, events, pc, job, ok>>
      /\ FALSE \in BOOLEAN /\ DispatchInv
  BY <1>1 DEF Reject, worker, LedgerInv
<1>3. /\ m \in Ids /\ e \in 1..events
      /\ m \in Msgs => t \in LegsOf(m, e) /\ LegsOf(m, e)' = LegsOf(m, e) \ {t}
      /\ \A n, f : n # m \/ f # e => LegsOf(n, f)' = LegsOf(n, f)
  BY <1>1, <1>2, RejectStep
<1>4. NobodyForgotten' /\ GivenUp(m, FALSE)
  BY <1>2, <1>3, LegStep
<1>5. Ledger!Abandon
  BY <1>2, <1>4 DEF Ledger!Abandon, GivenUp
<1>6. QED
  BY <1>4, <1>5 DEF Ledger!Next

LEMMA NextStores == LedgerInv /\ [Next]_vars => StoresNew'
<1> SUFFICES ASSUME LedgerInv, [Next]_vars PROVE StoresNew'
  OBVIOUS
<1>1. /\ StoresNew /\ DispatchInv /\ TypeOK /\ ClientsInOrder
      /\ inbox \in [Msgs -> {"unseen", "pending", "forwarded", "gone"}]
  BY DEF LedgerInv, DispatchInv, TypeOK
<1> DEFINE Awaits(r) == r.at \in {"snapshot", "store"} /\ r.msg \in Msgs
\* What was never stored is neither marked nor deleted.
<1>2. ASSUME \A m \in Msgs : inbox[m] = "unseen" => inbox'[m] = "unseen",
             Awaits(client["main"])' =>
               Awaits(client["main"]) /\ client'["main"].msg = client["main"].msg
      PROVE  StoresNew'
  BY <1>1, <1>2 DEF StoresNew
<1>3. ASSUME NEW c \in Threads, NEW r, Moved(c, r),
             \A m \in Msgs : inbox[m] = "unseen" => inbox'[m] = "unseen",
             c = "web" \/ ~Awaits(r) \/ (Awaits(client[c]) /\ r.msg = client[c].msg)
      PROVE  StoresNew'
  BY <1>1, <1>2, <1>3, MovedType DEF Threads
<1>4. ASSUME NEW m, NEW success, Mark(m, success)
      PROVE  \A n \in Msgs : inbox[n] = "unseen" => inbox'[n] = "unseen"
  BY <1>4 DEF Mark
<1>5. ASSUME NEW m \in Ids, Receive(m) PROVE StoresNew'
  <2>1. PICK r : Moved("main", r) /\ r.msg = m
    BY <1>1, <1>5, RequestMoves DEF Receive, Threads
  <2>2. client'["main"] = r /\ inbox' = inbox /\ (m \in Msgs => inbox[m] = "unseen")
    BY <1>1, <1>5, <2>1, MovedType, NoMsgNoMsg DEF Receive, Threads
  <2>3. QED
    BY <2>1, <2>2 DEF StoresNew
<1>6. ASSUME NEW m \in Msgs, Resend(m) PROVE StoresNew'
  <2>1. PICK r : Moved("web", r)
    BY <1>1, <1>6, RequestMoves DEF Resend, Threads, Ids
  <2>2. \A n \in Msgs : inbox[n] = "unseen" => inbox'[n] = "unseen"
    BY <1>1, <1>6 DEF Resend
  <2>3. QED
    BY <1>3, <2>1, <2>2 DEF Threads
<1>7. ASSUME NEW m \in Msgs, Forget(m) PROVE StoresNew'
  <2>1. client' = client /\ \A n \in Msgs : inbox[n] = "unseen" => inbox'[n] = "unseen"
    BY <1>1, <1>7 DEF Forget
  <2>2. QED
    BY <1>2, <2>1
<1>8. CASE Save
  <2>1. inbox' = inbox /\ \E r : Moved("web", r)
    BY <1>1, <1>8, SaveMoves DEF Save
  <2>2. QED
    BY <1>3, <2>1 DEF Threads
<1>9. CASE Restart
  BY <1>9, RestType DEF Restart, StoresNew, Threads
<1>10. CASE Take \/ Send \/ Discard \/ Retry \/ Finish \/ Elapse \/ UNCHANGED vars
  BY <1>2, <1>10 DEF Take, Send, Discard, Retry, Finish, Elapse, vars
<1>11. CASE WorkerMark
  BY <1>2, <1>4, <1>11 DEF WorkerMark
<1>12. ASSUME NEW c \in Threads, ClientStep(c) PROVE StoresNew'
  <2>1. CASE Snapshot(c)
    <3>1. PICK r : Moved(c, r) /\ r.msg = client[c].msg
      BY <1>1, <2>1, SnapshotMoves
    <3>2. client[c].at = "snapshot" /\ inbox' = inbox
      BY <2>1 DEF Snapshot
    <3>3. QED
      BY <1>3, <3>1, <3>2
  <2>2. CASE c = "main" /\ Store
    <3>1. PICK r : Moved(c, r) /\ r.at = "decide"
      BY <1>1, <2>2, StoreMoves
    <3>2. client'["main"] = r
      BY <1>1, <2>2, <3>1, MovedType
    <3>3. QED
      BY <3>1, <3>2 DEF StoresNew
  <2>3. CASE c = "web" /\ Publish
    <3>1. Moved(c, Rest) /\ inbox' = inbox
      BY <2>3, RestType DEF Publish, Moved
    <3>2. QED
      BY <1>3, <2>3, <3>1
  <2>4. CASE Decide(c)
    <3>1. PICK r : Moved(c, r) /\ r.at \in {"mark", "idle", "begin"}
      BY <1>1, <2>4, DecideMoves
    <3>2. inbox' = inbox
      BY <2>4 DEF Decide
    <3>3. QED
      BY <1>3, <3>1, <3>2
  <2>5. CASE Begin(c)
    <3>1. inbox' = inbox /\ client[c].at = "begin"
      BY <2>5 DEF Begin
    <3>2. CASE client[c].msg # NoMsg /\ UnderWay(c)
      <4>1. Moved(c, Rest) /\ Rest.at = "idle"
        BY <2>5, <3>2, RestType DEF Begin, Moved
      <4>2. QED
        BY <1>3, <3>1, <4>1
    <3>3. CASE ~(client[c].msg # NoMsg /\ UnderWay(c))
      <4>1. PICK r : Moved(c, r) /\ r.at = "enqueue"
        BY <1>1, <2>5, <3>1, <3>3, BeginMoves DEF Begin
      <4>2. QED
        BY <1>3, <3>1, <4>1
    <3>4. QED
      BY <3>2, <3>3
  <2>6. CASE Enqueue(c)
    <3>1. PICK r : Moved(c, r) /\ r.at \in {"idle", "enqueue", "reject"}
      BY <1>1, <2>6, EnqueueMoves
    <3>2. inbox' = inbox
      BY <2>6 DEF Enqueue
    <3>3. QED
      BY <1>3, <3>1, <3>2
  <2>7. CASE Reject(c)
    <3>1. PICK r : Moved(c, r) /\ r.at \in {"idle", "enqueue", "mark"}
      BY <1>1, <2>7, RejectMoves
    <3>2. inbox' = inbox
      BY <2>7 DEF Reject
    <3>3. QED
      BY <1>3, <3>1, <3>2
  <2>8. CASE ClientMark(c)
    <3>1. Moved(c, Rest) /\ Rest.at = "idle"
      BY <2>8, RestType DEF ClientMark, Moved
    <3>2. \A m \in Msgs : inbox[m] = "unseen" => inbox'[m] = "unseen"
      BY <1>4, <2>8 DEF ClientMark
    <3>3. QED
      BY <1>3, <3>1, <3>2
  <2>9. QED
    BY <1>12, <2>1, <2>2, <2>3, <2>4, <2>5, <2>6, <2>7, <2>8 DEF ClientStep
<1>13. QED
  BY <1>5, <1>6, <1>7, <1>8, <1>9, <1>10, <1>11, <1>12 DEF Next, Worker

LEMMA InitLedger == Init => StoresNew /\ NobodyForgotten /\ Ledger!Init
<1> SUFFICES ASSUME Init PROVE StoresNew /\ NobodyForgotten /\ Ledger!Init
  OBVIOUS
<1>1. comp = {} /\ pc = "take" /\ inbox = [m \in Msgs |-> "unseen"] /\ cfg \in Config
  BY ConfigsAreConfigs DEF Init
<1>2. \A c \in Threads : client[c] = Rest
  BY DEF Init
<1>3. Settling = {}
  <2>1. \A m : m \notin Settling
    BY <1>1, <1>2, RestType, InSettling DEF Settles
  <2>2. QED
    BY <2>1
<1>4. Promises = {} /\ cfg.drop \in SUBSET Ids
  BY <1>1 DEF Promises, Config
<1>5. StoresNew
  BY <1>2, RestType DEF StoresNew, Threads
<1>6. NobodyForgotten
  BY <1>1 DEF NobodyForgotten
<1>7. Void \in SUBSET Targets
  BY DEF Void, Targets
<1>8. QED
  BY <1>1, <1>3, <1>4, <1>5, <1>6, <1>7 DEF Ledger!Init, Ids, Void

\* Every step of the service is a step of the ledger or changes nothing there.
LEMMA NextLedger ==
  ASSUME LedgerInv, [Next]_vars
  PROVE  NobodyForgotten' /\ [Ledger!Next]_Ledger!vars
<1> DEFINE Mapped == Ledger!Next \/ UNCHANGED LedgerVars
<1> SUFFICES NobodyForgotten' /\ Mapped
  BY DEF Ledger!vars, LedgerVars, Void
<1>0. /\ DispatchInv /\ StoresNew /\ TypeOK /\ ClientsInOrder
      /\ inbox \in [Msgs -> {"unseen", "pending", "forwarded", "gone"}]
      /\ ok \in BOOLEAN
  BY DEF LedgerInv, DispatchInv, TypeOK
<1>1. ASSUME NEW m \in Ids, Receive(m) PROVE NobodyForgotten' /\ Mapped
  <2>1. PICK r : Moved("main", r) /\ r.at = "snapshot"
    BY <1>0, <1>1, RequestMoves DEF Receive, Threads
  <2>2. client["main"].at = "idle" /\ UNCHANGED <<pc, job, ok, comp, cfg, workerCfg, inbox>>
    BY <1>1 DEF Receive, Request, worker
  <2>3. Settling' = Settling
    BY <1>0, <2>1, <2>2, KeptSettling DEF Settles, Threads
  <2>4. LegsKept
    BY <1>0, <1>1, ThreadSound DEF Receive, Threads
  <2>5. QED
    BY <1>0, <2>2, <2>3, <2>4, KeptPromises, KeptForgotten DEF LedgerVars, Void
<1>2. ASSUME NEW m \in Msgs, Resend(m) PROVE NobodyForgotten' /\ Mapped
  <2>1. PICK r : Moved("web", r) /\ r.at = "snapshot"
    BY <1>0, <1>2, RequestMoves DEF Resend, Threads, Ids
  <2>2. client["web"].at = "idle" /\ UNCHANGED <<pc, job, ok, comp, cfg, workerCfg>>
    BY <1>2 DEF Resend, Request, worker
  <2>3. Settling' = Settling
    BY <1>0, <2>1, <2>2, KeptSettling DEF Settles, Threads
  <2>4. LegsKept
    BY <1>0, <1>2, ThreadSound DEF Resend, Threads, Ids
  <2>5. Promises' = Promises /\ NobodyForgotten'
    BY <1>0, <2>2, <2>4, KeptPromises, KeptForgotten
  <2>6. CASE inbox[m] = "forwarded"
    <3>1. Ledger!Unmark(m)
      BY <1>2, <2>2, <2>3, <2>5, <2>6 DEF Ledger!Unmark, Resend
    <3>2. QED
      BY <2>5, <3>1 DEF Ledger!Next
  <2>7. CASE inbox[m] # "forwarded"
    <3>1. inbox' = inbox
      BY <1>0, <1>2, <2>7 DEF Resend
    <3>2. QED
      BY <2>2, <2>3, <2>5, <3>1 DEF LedgerVars, Void
  <2>8. QED
    BY <2>6, <2>7
<1>3. ASSUME NEW m \in Msgs, Forget(m) PROVE NobodyForgotten' /\ Mapped
  <2>1. Promises' = Promises /\ NobodyForgotten'
    BY <1>0, <1>3, WorkSound, KeptPromises, KeptForgotten DEF Forget, worker
  <2>2. Settling' = Settling /\ cfg' = cfg /\ workerCfg' = workerCfg
    BY <1>3 DEF Forget, Settling, Dropped, worker
  <2>3. Ledger!Delete(m)
    BY <1>3, <2>1, <2>2 DEF Ledger!Delete, Forget
  <2>4. QED
    BY <2>1, <2>3 DEF Ledger!Next
<1>4. CASE Save
  <2>1. PICK r : Moved("web", r) /\ r.at = "publish"
    BY <1>0, <1>4, SaveMoves
  <2>2. /\ client["web"].at = "idle" /\ UNCHANGED <<pc, job, ok, comp, inbox, workerCfg>>
        /\ "web" \in Threads
    BY <1>4 DEF Save, worker, Threads
  <2>3. Settling' = Settling
    BY <1>0, <2>1, <2>2, KeptSettling DEF Settles
  <2>4. \E c \in Threads : c = "web" /\ Save
    BY <1>4 DEF Threads
  <2>5. Promises' = Promises /\ NobodyForgotten'
    BY <1>0, <2>2, <2>4, ThreadSound, KeptPromises, KeptForgotten
  <2>6. cfg'.drop \in SUBSET Ids /\ Void' \in SUBSET Targets
    BY <1>4, ConfigsAreConfigs DEF Save, Config, Void, Targets
  <2>7. Ledger!ChangeSettings
    BY <2>2, <2>3, <2>5, <2>6 DEF Ledger!ChangeSettings, Ids, Void
  <2>8. QED
    BY <2>5, <2>7 DEF Ledger!Next
<1>5. CASE Restart
  <2>1. Promises' = {}
    BY <1>5 DEF Restart, Promises
  <2>2. Settling' = {}
    <3>1. pc' = "take" /\ \A c \in Threads : client'[c] = Rest
      BY <1>5 DEF Restart
    <3>2. \A m : m \notin Settling'
      BY <3>1, RestType, InSettling DEF Settles
    <3>3. QED
      BY <3>2
  <2>3. Void' \in SUBSET Targets
    BY DEF Void, Targets
  <2>4. Ledger!Crash
    BY <1>5, <2>1, <2>2, <2>3 DEF Ledger!Crash, Restart, Void
  <2>5. NobodyForgotten'
    BY <1>5 DEF Restart, NobodyForgotten
  <2>6. QED
    BY <2>4, <2>5 DEF Ledger!Next
<1>6. CASE Take \/ Retry \/ Elapse \/ UNCHANGED vars
  <2>1. LegsKept
    BY <1>0, <1>6, WorkSound
  <2>2. UNCHANGED <<comp, cfg, workerCfg, inbox, client>>
    BY <1>6 DEF Take, Retry, Elapse, vars
  <2>3. UNCHANGED <<pc, job, ok>> \/ (pc # "mark" /\ pc' \notin {"mark", "finish"})
    BY <1>6 DEF Take, Retry, Elapse, vars, worker
  <2>4. Settling' = Settling
    BY <2>2, <2>3 DEF Settling, Dropped
  <2>5. NobodyForgotten'
    BY <2>1, <2>2, <2>3, KeptForgotten
  <2>6. QED
    BY <1>0, <2>2, <2>4, <2>5, KeptPromises DEF LedgerVars, Void
<1>6a. CASE Send \/ Discard
  BY <1>6a, NoteLedger
<1>7. CASE Finish
  BY <1>7, FinishLedger
<1>8. CASE WorkerMark
  <2>1. PICK m, s : m = job.msg /\ s = ok
    OBVIOUS
  <2>2. /\ Mark(m, s) /\ UNCHANGED <<jobs, comp, cfg, workerCfg, client, events>> /\ pc = "mark"
        /\ pc' = "take" /\ s \in BOOLEAN
    BY <1>0, <1>8, <2>1 DEF WorkerMark
  <2>3. Promises' = Promises /\ NobodyForgotten'
    BY <1>0, <1>8, <2>2, WorkSound, KeptPromises, KeptForgotten
  <2>4. s => m \in Settling
    BY <2>1, <2>2, InSettling
  <2>5. /\ \A n : n \in Settling' => n \in Settling
        /\ \A n : n \in Settling => n \in Settling' \/ (s /\ n = m)
    BY <2>1, <2>2, InSettling
  <2>6. /\ s => Settling' \in {Settling, Settling \ {m}}
        /\ ~s => Settling' = Settling
    BY <2>5
  <2>7. QED
    BY <1>0, <2>2, <2>3, <2>4, <2>6, MarkStep
<1>9. ASSUME NEW c \in Threads, ClientStep(c) PROVE NobodyForgotten' /\ Mapped
  <2>1. UNCHANGED <<pc, job, ok, cfg>>
    BY <1>9 DEF ClientStep, Snapshot, Decide, Begin, Enqueue, Reject, ClientMark, Store, Publish, worker
  <2>2. CASE Snapshot(c)
    <3>1. PICK r : /\ Moved(c, r) /\ r.at \in {"store", "decide"}
                   /\ r.view = cfg /\ r.msg = client[c].msg
      BY <1>0, <2>2, SnapshotMoves
    <3>2. client[c].at = "snapshot" /\ UNCHANGED <<comp, inbox, workerCfg>>
      BY <2>2 DEF Snapshot
    <3>3. Promises' = Promises /\ NobodyForgotten'
      BY <1>0, <2>1, <2>2, <3>2, ThreadSound, KeptPromises, KeptForgotten
    <3>4. Settles(r) <=> r.msg \in cfg.drop
      BY <3>1 DEF Settles
    <3>5. ~Settles(client[c])
      BY <3>2 DEF Settles
    <3>6. CASE r.msg \in cfg.drop
      <4>1. \A m : m \in Settling' <=> m \in Settling \/ m = r.msg
        BY <1>0, <2>1, <3>1, <3>4, <3>5, <3>6, MovedType, InSettling
      <4>2. Settling' = Settling \cup {r.msg}
        BY <4>1
      <4>3. Ledger!Drop(r.msg)
        BY <2>1, <3>2, <3>3, <3>6, <4>2 DEF Ledger!Drop
      <4>4. QED
        BY <3>3, <3>6, <4>3 DEF Ledger!Next
    <3>7. CASE r.msg \notin cfg.drop
      <4>1. Settling' = Settling
        BY <1>0, <2>1, <3>1, <3>4, <3>5, <3>7, KeptSettling
      <4>2. QED
        BY <2>1, <3>2, <3>3, <4>1 DEF LedgerVars, Void
    <3>8. QED
      BY <3>6, <3>7
  <2>3. CASE c = "main" /\ Store
    <3>1. PICK r : /\ Moved(c, r) /\ r.at = "decide" /\ r.view = client[c].view
                   /\ r.msg = client[c].msg
      BY <1>0, <2>3, StoreMoves
    <3>2. /\ client[c].at = "store" /\ UNCHANGED <<comp, workerCfg>>
          /\ inbox' = [m \in Msgs |-> IF m = client[c].msg THEN "pending" ELSE inbox[m]]
      BY <2>3 DEF Store
    <3>3. Promises' = Promises /\ NobodyForgotten'
      BY <1>0, <2>1, <2>3, <3>2, ThreadSound, KeptPromises, KeptForgotten
    <3>4. Settling' = Settling
      BY <1>0, <2>1, <3>1, <3>2, KeptSettling DEF Settles
    <3>5. CASE client[c].msg \in Msgs
      <4>1. PICK m \in Msgs : m = client[c].msg
        BY <3>5
      <4>2. inbox[m] = "unseen"
        BY <1>0, <2>3, <3>2, <4>1 DEF StoresNew
      <4>3. inbox' = [inbox EXCEPT ![m] = "pending"]
        BY <1>0, <3>2, <4>1
      <4>4. Ledger!Arrive(m)
        BY <2>1, <3>2, <3>3, <3>4, <4>2, <4>3 DEF Ledger!Arrive
      <4>5. QED
        BY <3>3, <4>4 DEF Ledger!Next
    <3>6. CASE client[c].msg \notin Msgs
      <4>1. inbox' = inbox
        BY <1>0, <3>2, <3>6
      <4>2. QED
        BY <2>1, <3>2, <3>3, <3>4, <4>1 DEF LedgerVars, Void
    <3>7. QED
      BY <3>5, <3>6
  <2>4. CASE c = "web" /\ Publish
    <3>1. /\ Moved(c, Rest) /\ UNCHANGED <<comp, inbox>> /\ ~Settles(Rest) /\ ~Settles(client[c])
      BY <2>4, RestType DEF Publish, Moved, Settles
    <3>2. Promises' = Promises /\ NobodyForgotten'
      BY <1>0, <2>1, <2>4, <3>1, ThreadSound, KeptPromises, KeptForgotten
    <3>3. Settling' = Settling
      BY <1>0, <2>1, <3>1, KeptSettling
    <3>4. cfg'.drop \in SUBSET Ids /\ Void' \in SUBSET Targets
      <4>1. cfg \in Config
        BY <1>0, ConfigsAreConfigs DEF TypeOK
      <4>2. QED
        BY <2>1, <4>1 DEF Config, Void, Targets
    <3>5. Ledger!ChangeSettings
      BY <2>1, <3>1, <3>2, <3>3, <3>4 DEF Ledger!ChangeSettings, Ids, Void
    <3>6. QED
      BY <3>2, <3>5 DEF Ledger!Next
  <2>5. CASE Decide(c)
    <3>1. PICK r : /\ Moved(c, r) /\ r.at \in {"mark", "idle", "begin"}
                   /\ r.at # "idle" => r.msg = client[c].msg
                   /\ r.at = "mark" <=> Dropped(c)
                   /\ r.ok <=> r.at = "mark"
      BY <1>0, <2>5, DecideMoves
    <3>2. client[c].at = "decide" /\ UNCHANGED <<comp, inbox, workerCfg>>
      BY <2>5 DEF Decide
    <3>3. Promises' = Promises /\ NobodyForgotten'
      BY <1>0, <2>1, <2>5, <3>2, ThreadSound, KeptPromises, KeptForgotten
    <3>4. Settling' = Settling
      BY <1>0, <2>1, <3>1, <3>2, KeptSettling DEF Settles, Dropped
    <3>5. QED
      BY <2>1, <3>2, <3>3, <3>4 DEF LedgerVars, Void
  <2>6. CASE Begin(c)
    <3>1. client[c].at = "begin"
      BY <2>6 DEF Begin
    <3>2. \E r : Moved(c, r) /\ r.at \in {"idle", "enqueue"}
      <4>1. CASE client[c].msg # NoMsg /\ UnderWay(c)
        BY <2>6, <4>1, RestType DEF Begin, Moved
      <4>2. CASE ~(client[c].msg # NoMsg /\ UnderWay(c))
        BY <1>0, <2>6, <3>1, <4>2, BeginMoves DEF Begin
      <4>3. QED
        BY <4>1, <4>2
    <3>3. Settling' = Settling
      BY <1>0, <2>1, <3>1, <3>2, KeptSettling DEF Settles
    <3>4. QED
      BY <2>6, <3>3, OpenStep
  <2>7. CASE Enqueue(c)
    <3>1. PICK r : Moved(c, r) /\ r.at \in {"idle", "enqueue", "reject"}
      BY <1>0, <2>7, EnqueueMoves
    <3>2. client[c].at = "enqueue" /\ UNCHANGED <<comp, inbox, workerCfg>>
      BY <2>7 DEF Enqueue
    <3>3. Promises' = Promises /\ NobodyForgotten'
      BY <1>0, <2>1, <2>7, <3>2, EnqueueStep, KeptPromises, KeptForgotten
    <3>4. Settling' = Settling
      BY <1>0, <2>1, <3>1, <3>2, KeptSettling DEF Settles
    <3>5. QED
      BY <2>1, <3>2, <3>3, <3>4 DEF LedgerVars, Void
  <2>8. CASE Reject(c)
    <3>1. PICK r : Moved(c, r) /\ r.ok = FALSE /\ r.at \in {"idle", "enqueue", "mark"}
      BY <1>0, <2>8, RejectMoves
    <3>2. client[c].at = "reject"
      BY <2>8 DEF Reject
    <3>3. Settling' = Settling
      BY <1>0, <2>1, <3>1, <3>2, KeptSettling DEF Settles
    <3>4. QED
      BY <2>8, <3>3, RejectLedger
  <2>9. CASE ClientMark(c)
    <3>1. PICK m, s : m = client[c].msg /\ s = client[c].ok
      OBVIOUS
    <3>2. /\ Mark(m, s) /\ UNCHANGED <<comp, workerCfg>> /\ client[c].at = "mark" /\ Moved(c, Rest)
          /\ s \in BOOLEAN
      BY <1>0, <2>9, <3>1, RestType DEF ClientMark, Moved, TypeOK, Client
    <3>3. Promises' = Promises /\ NobodyForgotten'
      BY <1>0, <2>1, <2>9, <3>2, ThreadSound, KeptPromises, KeptForgotten
    <3>4. (Settles(client[c]) <=> s) /\ ~Settles(Rest)
      BY <3>1, <3>2, RestType DEF Settles
    <3>5. s => m \in Settling
      BY <3>1, <3>4, InSettling
    <3>6. client'[c] = Rest /\ \A d \in Threads \ {c} : client'[d] = client[d]
      BY <1>0, <3>2, MovedType
    <3>7. /\ \A n : n \in Settling' => n \in Settling
          /\ \A n : n \in Settling => n \in Settling' \/ (s /\ n = m)
      BY <2>1, <3>1, <3>4, <3>6, InSettling
    <3>8. /\ s => Settling' \in {Settling, Settling \ {m}}
          /\ ~s => Settling' = Settling
      BY <3>7
    <3>9. QED
      BY <1>0, <2>1, <3>2, <3>3, <3>5, <3>8, MarkStep
  <2>10. QED
    BY <1>9, <2>2, <2>3, <2>4, <2>5, <2>6, <2>7, <2>8, <2>9 DEF ClientStep
<1>10. QED
  BY <1>1, <1>2, <1>3, <1>4, <1>5, <1>6, <1>6a, <1>7, <1>8, <1>9 DEF Next, Worker

\* The service implements the ledger: an entry is marked forwarded only when every target
\* of one dispatch of it accepted the message, or is a channel that was invalid when its
\* leg's turn came, or when a rule dropped it (main.cpp:784-1031).
THEOREM ServiceImplementsTheLedger == Spec => ImplementsLedger
<1>1. Init => LedgerInv /\ Ledger!Init
  BY InitSound, InitLedger DEF LedgerInv
<1>2. LedgerInv /\ [Next]_vars => LedgerInv'
  BY NextSound, NextStores, NextLedger DEF LedgerInv
<1>3. LedgerInv /\ [Next]_vars => [Ledger!Next]_Ledger!vars
  BY NextLedger
<1>4. QED
  BY <1>1, <1>2, <1>3, PTL DEF Spec, ImplementsLedger, Ledger!Spec

-----------------------------------------------------------------------------
(* The services apart.                                                     *)

\* A step is one of the component that runs, and leaves the variables of the others alone.
LEMMA OneServiceRuns ==
  ASSUME [SumNext]_sumVars
  PROVE  /\ runs' = runs
         /\ (runs = "Wifi" /\ Wifi!Next) \/ UNCHANGED wifiVars
         /\ (runs = "Jobs" /\ Jobs!Next) \/ UNCHANGED jobsVars
         /\ (runs = "Intake" /\ Intake!Next) \/ UNCHANGED intakeVars
<1>1. CASE UNCHANGED sumVars
  BY <1>1 DEF sumVars
<1>2. CASE WifiAlone /\ Wifi!Next
  BY <1>2 DEF WifiAlone
<1>3. CASE JobsAlone /\ Jobs!Next
  BY <1>3 DEF JobsAlone
<1>4. CASE IntakeAlone /\ Intake!Next
  BY <1>4 DEF IntakeAlone
<1>5. CASE PushAlone /\ Next
  BY <1>5 DEF PushAlone
<1>6. QED
  BY <1>1, <1>2, <1>3, <1>4, <1>5 DEF SumNext

\* A behaviour of the services is one of the forwarding, which may rest: what is
\* proved of the forwarding holds of it (main.cpp:784-1031).
COROLLARY ForwardingAmongServices == SumSpec => []DispatchSound /\ ImplementsLedger
<1>1. SumInit => Init
  BY DEF SumInit
<1>2. [SumNext]_sumVars => [Next]_vars
  BY DEF SumNext, sumVars, WifiAlone, JobsAlone, IntakeAlone, PushAlone
<1>3. SumSpec => Spec
  BY <1>1, <1>2, PTL DEF SumSpec, Spec
<1>4. QED
  BY <1>3, DispatchesCounted, ServiceImplementsTheLedger

-----------------------------------------------------------------------------
(* The Wi-Fi manager.                                                      *)

LEMMA WifiNumbers ==
  StreakMax \in Nat \ {0} /\ SlowTicks \in Nat \ {0} /\ None \notin Networks
BY WifiAssumption DEF Wifi!LimitsPositive, Wifi!NoneIsNoNetwork

LEMMA WifiInit == SumInit => Wifi!WifiInv
<1> SUFFICES ASSUME SumInit PROVE Wifi!WifiInv
  OBVIOUS
<1>1. Wifi!Init
  BY DEF SumInit
<1>2. {scanning, connected, provisioning, timer, crossed, refused, late} \subseteq BOOLEAN
  BY <1>1, Zenon DEF Wifi!Init
<1>3. queue = <<>> /\ queue \in Seq({"disconnected", "gotIp"})
  BY <1>1 DEF Wifi!Init
<1>4. Wifi!TypeOK
  BY <1>1, <1>2, <1>3, WifiNumbers DEF Wifi!Init, Wifi!TypeOK, Wifi!Opener
<1>5. Wifi!FlagCurrent
  BY <1>1 DEF Wifi!Init, Wifi!FlagCurrent
<1>6. ~connected /\ ap = "off"
  BY <1>1, Zenon DEF Wifi!Init
<1>7. QED
  BY <1>3, <1>4, <1>5, <1>6
  DEF Wifi!WifiInv, Wifi!LastEventTells, Wifi!WatchMissed, Wifi!SomebodyCloses, Wifi!PortalUp

\* An event that is posted is the last one.
LEMMA WifiPosts ==
  ASSUME Wifi!WifiInv, NEW e \in {"disconnected", "gotIp"}, Wifi!Post(e)
  PROVE  /\ queue' \in Seq({"disconnected", "gotIp"}) /\ queue' # <<>>
         /\ queue'[Len(queue')] = e
<1>1. queue \in Seq({"disconnected", "gotIp"}) /\ queue' = Append(queue, e)
  BY DEF Wifi!WifiInv, Wifi!TypeOK, Wifi!Post
<1>2. QED
  BY <1>1, AppendProperties

\* What is left once the first event is taken ends with the same event.
LEMMA WifiTakes ==
  ASSUME Wifi!WifiInv, queue # <<>>, queue' = Tail(queue)
  PROVE  /\ queue' \in Seq({"disconnected", "gotIp"})
         /\ queue' # <<>> => queue'[Len(queue')] = queue[Len(queue)]
         /\ queue' = <<>> => Head(queue) = queue[Len(queue)]
<1>1. queue \in Seq({"disconnected", "gotIp"})
  BY DEF Wifi!WifiInv, Wifi!TypeOK
<1>2. /\ Len(queue) \in Nat \ {0} /\ Len(queue') = Len(queue) - 1
      /\ queue' \in Seq({"disconnected", "gotIp"})
  BY <1>1, HeadTailProperties, EmptySeq
<1>3. queue' = <<>> <=> Len(queue) = 1
  <2>1. queue' = <<>> <=> Len(queue') = 0
    BY <1>2, EmptySeq
  <2>2. QED
    BY <1>2, <2>1
<1>4. \A i \in 1 .. Len(queue) - 1 : queue'[i] = queue[i + 1]
  BY <1>1, <1>2
<1>5. QED
  BY <1>1, <1>2, <1>3, <1>4, HeadTailProperties

\* The flags stay flags.
LEMMA WifiFlags ==
  ASSUME Wifi!TypeOK, Wifi!Next \/ UNCHANGED wifiVars
  PROVE  {scanning, connected, provisioning, timer, crossed, refused, late}' \subseteq BOOLEAN
<1> USE DEF Wifi!TypeOK, Wifi!driver, Wifi!flags, Wifi!tasks, Wifi!ghosts
<1>1. CASE Wifi!Driver \/ Wifi!LinkLost \/ Wifi!NetworksChange \/ Wifi!StartScan
  BY <1>1, Zenon DEF Wifi!Driver, Wifi!LinkLost, Wifi!NetworksChange, Wifi!StartScan, Wifi!Joins,
                     Wifi!JoinFails, Wifi!EndScan
<1>2. CASE Wifi!HandleDisconnected
  BY <1>2, Zenon DEF Wifi!HandleDisconnected, Wifi!NotConnected
<1>3. CASE Wifi!HandleGotIp
  BY <1>3, Zenon DEF Wifi!HandleGotIp, Wifi!Opening, Wifi!ClosesSoon
<1>4. CASE Wifi!HandlerCloses
  BY <1>4, Zenon DEF Wifi!HandlerCloses, Wifi!Close
<1>5. CASE Wifi!CloseTimer
  BY <1>5, Zenon DEF Wifi!CloseTimer, Wifi!Close
<1>6. CASE Wifi!Watchdog \/ Wifi!Dns \/ Wifi!PressButton \/ Wifi!Reconnect
  BY <1>6, Zenon DEF Wifi!Watchdog, Wifi!Dns, Wifi!DnsLeaves, Wifi!DnsEnds, Wifi!PressButton, Wifi!Reconnect
<1>7. CASE Wifi!Open \/ Wifi!ButtonOpens
  BY <1>7, Zenon DEF Wifi!Open, Wifi!ButtonOpens, Wifi!WatchConnected, Wifi!WatchTimesOut,
                     Wifi!WatchOpens, Wifi!StaysOpen, Wifi!FindsOpen, Wifi!MakesItsOwn, Wifi!ModeRefused, Wifi!Opens, Wifi!SetsMode,
                     Wifi!StartDns
<1>8. CASE Wifi!Provision
  BY <1>8, Zenon DEF Wifi!Provision
<1>9. CASE Wifi!SetCredentials
  BY <1>9, Zenon DEF Wifi!SetCredentials
<1>10. CASE UNCHANGED wifiVars
  BY <1>10, Zenon DEF wifiVars
<1>11. QED
  BY <1>1, <1>2, <1>3, <1>4, <1>5, <1>6, <1>7, <1>8, <1>9, <1>10 DEF Wifi!Next, Wifi!Handle

\* The variables other than flags and events keep their types.
LEMMA WifiTyped ==
  ASSUME Wifi!WifiInv, Wifi!Next \/ UNCHANGED wifiVars
  PROVE  /\ air' \subseteq Networks /\ radio' \in {"STA", "APSTA"} /\ conf' \in Networks \cup {None}
         /\ link' \in {"down", "joining", "up"}
         /\ ap' \in {"off", "auto", "manual"}
         /\ streak' \in 0 .. (StreakMax + 1) /\ tick' \in 0 .. (SlowTicks - 1)
         /\ watch' \in Wifi!Opener \cup {"waiting", "woken", "done"}
         /\ button' \in Wifi!Opener \cup {"idle", "keeping"}
         /\ handler' \in {"idle", "closing"} /\ web' \in Networks \cup {None}
         /\ dns' \in {"off", "on", "leaving"}
<1> USE WifiNumbers
    DEF Wifi!WifiInv, Wifi!TypeOK, Wifi!Opener, Wifi!driver, Wifi!flags, Wifi!tasks, Wifi!ghosts, Wifi!Connect
<1>1. CASE Wifi!Driver \/ Wifi!LinkLost \/ Wifi!NetworksChange \/ Wifi!StartScan
  BY <1>1 DEF Wifi!Driver, Wifi!LinkLost, Wifi!NetworksChange, Wifi!StartScan, Wifi!Joins,
              Wifi!JoinFails, Wifi!EndScan
<1>2. CASE Wifi!HandleDisconnected
  BY <1>2 DEF Wifi!HandleDisconnected
<1>3. CASE Wifi!HandleGotIp
  BY <1>3 DEF Wifi!HandleGotIp
<1>4. CASE Wifi!HandlerCloses
  BY <1>4 DEF Wifi!HandlerCloses, Wifi!Close
<1>5. CASE Wifi!CloseTimer
  BY <1>5 DEF Wifi!CloseTimer, Wifi!Close
<1>6. CASE Wifi!Watchdog
  BY <1>6 DEF Wifi!Watchdog, Wifi!NextTick, Wifi!Retry
<1>7. CASE Wifi!Dns \/ Wifi!PressButton \/ Wifi!Reconnect
  BY <1>7 DEF Wifi!Dns, Wifi!DnsLeaves, Wifi!DnsEnds, Wifi!PressButton, Wifi!Reconnect
<1>8. CASE Wifi!WatchConnected \/ Wifi!WatchTimesOut
  BY <1>8 DEF Wifi!WatchConnected, Wifi!WatchTimesOut, Wifi!GivesUp
<1>9. CASE Wifi!WatchOpens
  BY <1>9 DEF Wifi!WatchOpens, Wifi!StaysOpen, Wifi!FindsOpen, Wifi!MakesItsOwn, Wifi!ModeRefused, Wifi!Opens, Wifi!SetsMode, Wifi!StartDns
<1>10. CASE Wifi!ButtonOpens
  BY <1>10 DEF Wifi!ButtonOpens, Wifi!StaysOpen, Wifi!FindsOpen, Wifi!MakesItsOwn, Wifi!ModeRefused, Wifi!Opens, Wifi!SetsMode, Wifi!StartDns
<1>11. CASE Wifi!Provision
  BY <1>11 DEF Wifi!Provision
<1>12. CASE Wifi!SetCredentials
  BY <1>12 DEF Wifi!SetCredentials
<1>13. CASE UNCHANGED wifiVars
  BY <1>13 DEF wifiVars
<1>14. QED
  BY <1>1, <1>2, <1>3, <1>4, <1>5, <1>6, <1>7, <1>8, <1>9, <1>10, <1>11, <1>12, <1>13
  DEF Wifi!Next, Wifi!Handle, Wifi!Open

\* The last event that waits says what the link is; once none waits the flag does.
Tells == /\ queue = <<>> => (connected <=> link = "up")
         /\ queue # <<>> => (queue[Len(queue)] = "gotIp" <=> link = "up")

LEMMA WifiTells ==
  ASSUME Wifi!WifiInv, Wifi!Next \/ UNCHANGED wifiVars
  PROVE  queue' \in Seq({"disconnected", "gotIp"}) /\ Tells'
<1>0. queue \in Seq({"disconnected", "gotIp"}) /\ Tells
  BY DEF Wifi!WifiInv, Wifi!TypeOK, Wifi!FlagCurrent, Wifi!LastEventTells, Tells
<1> USE DEF Wifi!driver, Wifi!flags, Wifi!tasks, Wifi!ghosts
<1>1. CASE Wifi!Joins
  <2>1. link' = "up" /\ Wifi!Post("gotIp")
    BY <1>1 DEF Wifi!Joins
  <2>2. QED
    BY <2>1, WifiPosts DEF Tells
<1>2. ASSUME link' = "down", Wifi!Post("disconnected")
      PROVE  queue' \in Seq({"disconnected", "gotIp"}) /\ Tells'
  BY <1>2, WifiPosts DEF Tells
<1>3. ASSUME queue' = queue, connected' = connected, link' = "up" <=> link = "up"
      PROVE  queue' \in Seq({"disconnected", "gotIp"}) /\ Tells'
  BY <1>0, <1>3 DEF Tells
<1>4. CASE Wifi!HandleDisconnected
  <2>1. /\ queue # <<>> /\ Head(queue) = "disconnected" /\ queue' = Tail(queue)
        /\ connected' = FALSE /\ (link' = "up" <=> link = "up")
    BY <1>4 DEF Wifi!HandleDisconnected, Wifi!NotConnected, Wifi!Connect
  <2>2. QED
    BY <1>0, <2>1, WifiTakes DEF Tells
<1>5. CASE Wifi!HandleGotIp
  <2>1. /\ queue # <<>> /\ Head(queue) = "gotIp" /\ queue' = Tail(queue)
        /\ connected' = TRUE /\ link' = link
    BY <1>5 DEF Wifi!HandleGotIp
  <2>2. QED
    BY <1>0, <2>1, WifiTakes DEF Tells
<1>6. CASE Wifi!Provision
  <2>1. CASE link = "down"
    BY <1>3, <1>6, <2>1 DEF Wifi!Provision
  <2>2. CASE link # "down"
    BY <1>2, <1>6, <2>2 DEF Wifi!Provision
  <2>3. QED
    BY <2>1, <2>2
<1>7. CASE Wifi!JoinFails \/ Wifi!LinkLost
  BY <1>2, <1>7 DEF Wifi!JoinFails, Wifi!LinkLost
<1>8. CASE Wifi!EndScan \/ Wifi!NetworksChange \/ Wifi!StartScan \/ Wifi!Dns \/ Wifi!PressButton
  BY <1>3, <1>8 DEF Wifi!EndScan, Wifi!NetworksChange, Wifi!StartScan, Wifi!Dns, Wifi!DnsLeaves,
                    Wifi!DnsEnds, Wifi!PressButton
<1>9. CASE Wifi!HandlerCloses \/ Wifi!CloseTimer
  BY <1>3, <1>9 DEF Wifi!HandlerCloses, Wifi!CloseTimer
<1>10. CASE Wifi!Watchdog \/ Wifi!Reconnect
  BY <1>3, <1>10 DEF Wifi!Watchdog, Wifi!Retry, Wifi!Reconnect, Wifi!Connect
<1>11. CASE Wifi!Open \/ Wifi!ButtonOpens
  BY <1>3, <1>11 DEF Wifi!Open, Wifi!ButtonOpens, Wifi!WatchConnected, Wifi!WatchTimesOut, Wifi!WatchOpens,
                     Wifi!StaysOpen, Wifi!FindsOpen, Wifi!MakesItsOwn, Wifi!ModeRefused, Wifi!Opens, Wifi!SetsMode, Wifi!Connect
<1>12. CASE Wifi!SetCredentials
  BY <1>3, <1>12 DEF Wifi!SetCredentials
<1>13. CASE UNCHANGED wifiVars
  BY <1>3, <1>13 DEF wifiVars
<1>14. QED
  BY <1>1, <1>4, <1>5, <1>6, <1>7, <1>8, <1>9, <1>10, <1>11, <1>12, <1>13
  DEF Wifi!Next, Wifi!Driver, Wifi!Handle

\* The task of the first connection, the hotspot that opened by itself, the portal.
LEMMA WifiHotspot ==
  ASSUME Wifi!WifiInv, Wifi!Next \/ UNCHANGED wifiVars
  PROVE  Wifi!WatchMissed' /\ Wifi!SomebodyCloses' /\ Wifi!PortalUp'
<1>0. Wifi!WatchMissed /\ Wifi!SomebodyCloses /\ Wifi!PortalUp
  BY DEF Wifi!WifiInv
<1>t. /\ watch \in Wifi!Opener \cup {"waiting", "woken", "done"} /\ ap \in {"off", "auto", "manual"}
      /\ dns \in {"off", "on", "leaving"}
  BY DEF Wifi!WifiInv, Wifi!TypeOK
<1> USE DEF Wifi!driver, Wifi!flags, Wifi!tasks, Wifi!ghosts, Wifi!WatchMissed, Wifi!SomebodyCloses,
            Wifi!PortalUp
<1>1. ASSUME <<connected, timer, crossed, refused, late>>' = <<connected, timer, crossed, refused, late>>,
             <<watch, handler, ap, dns>>' = <<watch, handler, ap, dns>>
      PROVE  Wifi!WatchMissed' /\ Wifi!SomebodyCloses' /\ Wifi!PortalUp'
  BY <1>0, <1>1
<1>d. CASE Wifi!Driver \/ Wifi!LinkLost \/ Wifi!NetworksChange \/ Wifi!StartScan
  BY <1>1, <1>d DEF Wifi!Driver, Wifi!LinkLost, Wifi!NetworksChange, Wifi!StartScan, Wifi!Joins,
                    Wifi!JoinFails, Wifi!EndScan
<1>2. CASE Wifi!HandleDisconnected
  BY <1>0, <1>2, Zenon DEF Wifi!HandleDisconnected, Wifi!NotConnected
<1>3. CASE Wifi!HandleGotIp
  <2>1. /\ watch' = (IF watch = "waiting" THEN "woken" ELSE watch)
        /\ crossed' = (crossed \/ Wifi!Opening) /\ ap' = ap /\ dns' = dns /\ late' = late
    BY <1>3, Zenon DEF Wifi!HandleGotIp
  <2>2. Wifi!WatchMissed'
    <3>1. watch' # "waiting"
      BY <2>1
    <3>2. watch' \in Wifi!Opener => watch \in Wifi!Opener
      BY <2>1 DEF Wifi!Opener
    <3>3. watch \in Wifi!Opener => Wifi!Opening
      BY DEF Wifi!Opener, Wifi!Opening
    <3>4. QED
      BY <2>1, <3>1, <3>2, <3>3, Zenon
  <2>3. Wifi!SomebodyCloses'
    <3>1. ap = "auto" => timer' = TRUE \/ handler' = "closing"
      BY <1>3 DEF Wifi!HandleGotIp
    <3>2. QED
      BY <2>1, <3>1, Zenon
  <2>4. Wifi!PortalUp'
    BY <1>0, <2>1, Zenon
  <2>5. QED
    BY <2>2, <2>3, <2>4
<1>4. CASE Wifi!HandlerCloses
  <2>1. <<crossed, late, connected>>' = <<crossed, late, connected>> /\ <<watch, dns>>' = <<watch, dns>>
    BY <1>4 DEF Wifi!HandlerCloses
  <2>2. ap' = "off" \/ (ap' = ap /\ refused')
    BY <1>4 DEF Wifi!HandlerCloses, Wifi!Close
  <2>3. Wifi!SomebodyCloses'
    BY <2>1, <2>2, Zenon
  <2>4. QED
    BY <1>0, <2>1, <2>2, <2>3
<1>5. CASE Wifi!CloseTimer
  <2>1. <<crossed, late, connected>>' = <<crossed, late, connected>> /\ <<watch, dns>>' = <<watch, dns>>
    BY <1>5 DEF Wifi!CloseTimer
  <2>2. ap' = "off" \/ (ap' = ap /\ refused')
    BY <1>5 DEF Wifi!CloseTimer, Wifi!Close
  <2>3. Wifi!SomebodyCloses'
    BY <2>1, <2>2, Zenon
  <2>4. QED
    BY <1>0, <2>1, <2>2, <2>3
<1>6. CASE Wifi!Watchdog \/ Wifi!PressButton \/ Wifi!Reconnect \/ Wifi!SetCredentials
  <2>1. CASE Wifi!SetCredentials \/ Wifi!PressButton
    BY <1>1, <1>6, <2>1 DEF Wifi!PressButton, Wifi!SetCredentials
  <2>2. CASE Wifi!Watchdog \/ Wifi!Reconnect
    BY <1>1, <1>6, <2>2 DEF Wifi!Watchdog, Wifi!Reconnect
  <2>3. QED
    BY <1>6, <2>1, <2>2
<1>7. CASE Wifi!Dns
  <2>1. <<connected, timer, crossed, refused, late>>' = <<connected, timer, crossed, refused, late>>
    BY <1>7 DEF Wifi!Dns, Wifi!DnsLeaves, Wifi!DnsEnds
  <2>2. <<watch, handler, ap>>' = <<watch, handler, ap>> /\ (ap = "off" \/ (dns = "leaving" /\ dns' = "off"))
    BY <1>7 DEF Wifi!Dns, Wifi!DnsLeaves, Wifi!DnsEnds
  <2>3. QED
    BY <1>0, <2>1, <2>2
<1>8. CASE Wifi!Provision
  BY <1>0, <1>8, Zenon DEF Wifi!Provision
<1>9. ASSUME Wifi!StartDns PROVE dns' = "on" \/ late'
  <2>1. dns = "leaving" => late'
    BY <1>9, Zenon DEF Wifi!StartDns
  <2>2. dns # "leaving" => dns' = "on" \/ late' = TRUE
    BY <1>t, <1>9 DEF Wifi!StartDns
  <2>3. QED
    BY <2>1, <2>2, Zenon
<1>10. CASE Wifi!Open \/ Wifi!ButtonOpens
  <2>1. /\ connected' = connected /\ timer' = timer /\ handler' = handler /\ crossed' = crossed
    BY <1>10, Zenon DEF Wifi!Open, Wifi!ButtonOpens, Wifi!WatchConnected, Wifi!WatchTimesOut, Wifi!WatchOpens
  <2>2. refused => refused'
    BY <1>10, Zenon DEF Wifi!Open, Wifi!ButtonOpens, Wifi!WatchConnected, Wifi!WatchTimesOut, Wifi!WatchOpens,
                        Wifi!StaysOpen, Wifi!FindsOpen, Wifi!MakesItsOwn, Wifi!SetsMode, Wifi!ModeRefused, Wifi!Opens
  <2>3. \/ ap' = "off"
        \/ ap' = ap /\ dns' = dns /\ late' = late
        \/ Wifi!StartDns
    BY <1>10, Zenon DEF Wifi!Open, Wifi!ButtonOpens, Wifi!WatchConnected, Wifi!WatchTimesOut, Wifi!WatchOpens,
                        Wifi!StaysOpen, Wifi!FindsOpen, Wifi!MakesItsOwn, Wifi!SetsMode, Wifi!ModeRefused, Wifi!Opens
  <2>4. Wifi!PortalUp'
    BY <1>0, <1>9, <2>3, Zenon
  <2>5. watch' = watch \/ watch' = "done" \/ (watch' = "opening" /\ watch = "waiting")
          \/ (watch' = "opened" /\ watch = "opening")
    BY <1>10 DEF Wifi!Open, Wifi!ButtonOpens, Wifi!WatchConnected, Wifi!WatchTimesOut, Wifi!GivesUp,
                 Wifi!WatchOpens, Wifi!SetsMode
  <2>6. Wifi!WatchMissed'
    <3>1. watch' = "waiting" => watch = "waiting"
      BY <2>5
    <3>2. watch' \in Wifi!Opener => watch \in Wifi!Opener \/ watch = "waiting"
      BY <2>5 DEF Wifi!Opener
    <3>3. QED
      BY <1>0, <2>1, <3>1, <3>2, Zenon
  <2>7. ap' = "auto" => ap = "auto" \/ watch = "opened"
    BY <1>t, <1>10 DEF Wifi!Open, Wifi!ButtonOpens, Wifi!WatchConnected, Wifi!WatchTimesOut, Wifi!WatchOpens,
                 Wifi!StaysOpen, Wifi!FindsOpen, Wifi!MakesItsOwn, Wifi!SetsMode, Wifi!ModeRefused, Wifi!Opens
  <2>8. Wifi!SomebodyCloses'
    <3>1. watch = "opened" => watch \in Wifi!Opener
      BY DEF Wifi!Opener
    <3>2. QED
      BY <1>0, <2>1, <2>2, <2>7, <3>1, Zenon
  <2>9. QED
    BY <2>4, <2>6, <2>8
<1>11. CASE UNCHANGED wifiVars
  BY <1>0, <1>11, Zenon DEF wifiVars
<1>12. QED
  BY <1>d, <1>2, <1>3, <1>4, <1>5, <1>6, <1>7, <1>8, <1>10, <1>11 DEF Wifi!Next, Wifi!Handle

LEMMA WifiStep ==
  ASSUME Wifi!WifiInv, Wifi!Next \/ UNCHANGED wifiVars
  PROVE  Wifi!WifiInv'
<1>1. {scanning, connected, provisioning, timer, crossed, refused, late}' \subseteq BOOLEAN
  BY WifiFlags DEF Wifi!WifiInv
<1>2. queue' \in Seq({"disconnected", "gotIp"}) /\ Tells'
  BY WifiTells
<1>3. Wifi!TypeOK'
  BY <1>1, <1>2, WifiTyped DEF Wifi!TypeOK
<1>4. QED
  BY <1>2, <1>3, WifiHotspot DEF Wifi!WifiInv, Wifi!FlagCurrent, Wifi!LastEventTells, Tells

\* Once the events are handled the flag the watchdog goes by says what the link is,
\* whatever was lost, scanned, provisioned or refused meanwhile; a hotspot the device
\* opened itself is about to be closed once it is connected; and none is open without
\* its DNS task (idf_wifi.cpp:313-370, 461-470).
THEOREM FlagSaysTheLink == SumSpec => []FlagCurrent
<1>1. SumInit => Wifi!WifiInv
  BY WifiInit
<1>2. Wifi!WifiInv /\ [SumNext]_sumVars => Wifi!WifiInv'
  <2> SUFFICES ASSUME Wifi!WifiInv, [SumNext]_sumVars PROVE Wifi!WifiInv'
    OBVIOUS
  <2>1. Wifi!Next \/ UNCHANGED wifiVars
    BY OneServiceRuns
  <2>2. QED
    BY <2>1, WifiStep
<1>3. Wifi!WifiInv => FlagCurrent
  BY DEF Wifi!WifiInv, FlagCurrent
<1>4. QED
  BY <1>1, <1>2, <1>3, PTL DEF SumSpec

-----------------------------------------------------------------------------
(* The jobs of the web server.                                             *)

\* What the page and the scheduler's records are made of.
Pages == [at : {"rest", "create", "status", "acts"},
          what : Jobs!Jobs \cup {"", "at", "flight", "control", "ussd"}, n : Nat]
Scheds == [at : {"tick", "create", "leaves"}, what : {"", "keepalive", "sched"}]
Outcomes == [serial : Nat, is : {"none", "failed", "done"}]
Caches == [list : {"none", "fresh", "stale"}, serial : Nat]
States == {"none", "made", "works", "lists", "ends"}
Marks == {"free", "queued", "running"}

LEMMA JobsNumbers == MaxRequests \in Nat /\ MaxStarts \in Nat /\ MaxRestarts \in Nat
BY JobsAssumption DEF Jobs!BoundsAreNat

\* Types of everything but the two flags of the page.
JobsTypes ==
  /\ flag \in [Jobs!Owners -> Marks] /\ at \in [Jobs!Owners -> States]
  /\ waiting \in Nat /\ requests \in Nat /\ starts \in Nat /\ serial \in Nat
  /\ waiting <= requests /\ requests <= MaxRequests
  /\ page \in Pages /\ sched \in Scheds /\ outcome \in Outcomes /\ cache \in Caches
  /\ op \in {"none", "refresh", "info", "change"} /\ got \in {"none", "fresh", "eid", "failed"}
  /\ since \subseteq Jobs!Owners

LEMMA JobsTypesAre ==
  Jobs!Typed <=> /\ JobsTypes /\ {leaving, outside} \subseteq BOOLEAN
                 /\ \A o \in Jobs!Owners : at[o] # "none" => flag[o] # "free"
<1>1. ASSUME Jobs!Typed
      PROVE  /\ JobsTypes /\ {leaving, outside} \subseteq BOOLEAN
             /\ \A o \in Jobs!Owners : at[o] # "none" => flag[o] # "free"
  <2>1. {leaving, outside} \subseteq BOOLEAN
    BY <1>1, Zenon DEF Jobs!Typed, Jobs!TypeOK
  <2>2. page \in Pages /\ sched \in Scheds /\ outcome \in Outcomes /\ cache \in Caches
    BY <1>1 DEF Jobs!Typed, Pages, Scheds, Outcomes, Caches
  <2>3. /\ flag \in [Jobs!Owners -> Marks] /\ at \in [Jobs!Owners -> States]
        /\ op \in {"none", "refresh", "info", "change"} /\ got \in {"none", "fresh", "eid", "failed"}
        /\ since \subseteq Jobs!Owners
    BY <1>1 DEF Jobs!Typed, Jobs!TypeOK, States, Marks
  <2>4. /\ waiting \in Nat /\ requests \in Nat /\ starts \in Nat /\ serial \in Nat
        /\ waiting <= requests /\ requests <= MaxRequests
    <3>1. waiting \in 0 .. MaxRequests
      BY <1>1 DEF Jobs!Typed, Jobs!TypeOK
    <3>2. {requests, starts, serial} \subseteq Nat /\ waiting <= requests /\ requests <= MaxRequests
      BY <1>1 DEF Jobs!Typed
    <3>3. QED
      BY <3>1, <3>2, JobsNumbers
  <2>5. JobsTypes
    BY <2>2, <2>3, <2>4 DEF JobsTypes
  <2>6. QED
    BY <1>1, <2>1, <2>5 DEF Jobs!Typed, Jobs!TypeOK
<1>2. ASSUME JobsTypes, {leaving, outside} \subseteq BOOLEAN,
             \A o \in Jobs!Owners : at[o] # "none" => flag[o] # "free"
      PROVE  Jobs!Typed
  <2>1. waiting \in 0 .. MaxRequests
    BY <1>2, JobsNumbers DEF JobsTypes
  <2>2. /\ page.at \in {"rest", "create", "status", "acts"} /\ page.n \in Nat
        /\ sched.at \in {"tick", "create", "leaves"}
        /\ cache.list \in {"none", "fresh", "stale"}
    BY <1>2 DEF JobsTypes, Pages, Scheds, Caches
  <2>3. Jobs!TypeOK
    BY <1>2, <2>1, <2>2 DEF JobsTypes, Jobs!TypeOK, States, Marks
  <2>4. QED
    BY <1>2, <2>3 DEF JobsTypes, Jobs!Typed, Pages, Scheds, Outcomes, Caches
<1>3. QED
  BY <1>1, <1>2

\* Fields of the records that stand for rest.
LEMMA AtRest ==
  /\ Jobs!Rest \in Pages /\ Jobs!Rest.at = "rest" /\ Jobs!Rest.what = "" /\ Jobs!Rest.n = 0
  /\ Jobs!Tick \in Scheds /\ Jobs!Tick.at = "tick" /\ Jobs!Tick.what = ""
  /\ Jobs!NoOutcome \in Outcomes /\ Jobs!NoOutcome.is = "none" /\ Jobs!NoOutcome.serial = 0
BY DEF Jobs!Rest, Jobs!Tick, Jobs!NoOutcome, Pages, Scheds, Outcomes

\* Everything is free and at rest, as after a start.
AtStart ==
  /\ \A o \in Jobs!Owners : flag[o] = "free" /\ at[o] = "none"
  /\ page.at = "rest" /\ sched.at = "tick" /\ outcome.is = "none"
  /\ cache.list = "none" /\ cache.serial <= serial
  /\ JobsTypes /\ {leaving, outside} \subseteq BOOLEAN

LEMMA JobsAtStart == AtStart => Jobs!JobsInv
<1> SUFFICES ASSUME AtStart PROVE Jobs!JobsInv
  OBVIOUS
<1>1. Jobs!Typed
  BY JobsTypesAre DEF AtStart
<1>2. Jobs!OneFlag
  BY DEF AtStart, Jobs!OneFlag
<1>3. Jobs!ListFollows
  BY DEF AtStart, Jobs!ListFollows
<1>4. Jobs!FlagsOwned
  BY DEF AtStart, Jobs!FlagsOwned
<1>5. QED
  BY <1>1, <1>2, <1>3, <1>4 DEF Jobs!JobsInv

LEMMA JobsInit == SumInit => Jobs!JobsInv
<1> SUFFICES ASSUME SumInit PROVE AtStart
  BY JobsAtStart
<1>1. Jobs!Init
  BY DEF SumInit
<1>2. {leaving, outside} \subseteq BOOLEAN
  BY <1>1, Zenon DEF Jobs!Init
<1>3. cache = [list |-> "none", serial |-> 0]
  BY <1>1 DEF Jobs!Init
<1>4. cache \in Caches /\ cache.list = "none" /\ cache.serial = 0
  BY <1>3 DEF Caches
<1>5. page \in Pages /\ sched \in Scheds /\ outcome \in Outcomes
  BY <1>1, AtRest DEF Jobs!Init
<1>6. page.at = "rest" /\ sched.at = "tick" /\ outcome.is = "none" /\ serial = 0
  BY <1>1, AtRest DEF Jobs!Init
<1>7. /\ flag \in [Jobs!Owners -> Marks] /\ at \in [Jobs!Owners -> States]
      /\ \A o \in Jobs!Owners : flag[o] = "free" /\ at[o] = "none"
  BY <1>1 DEF Jobs!Init, Marks, States
<1>8. /\ waiting \in Nat /\ requests \in Nat /\ starts \in Nat /\ serial \in Nat
      /\ waiting <= requests /\ requests <= MaxRequests
      /\ op \in {"none", "refresh", "info", "change"} /\ got \in {"none", "fresh", "eid", "failed"}
      /\ since \subseteq Jobs!Owners
  BY <1>1, JobsNumbers DEF Jobs!Init
<1>9. JobsTypes
  BY <1>4, <1>5, <1>7, <1>8 DEF JobsTypes
<1>10. QED
  BY <1>2, <1>4, <1>6, <1>7, <1>9 DEF AtStart

\* A restart puts everything back.
LEMMA JobsBoot ==
  ASSUME Jobs!JobsInv, Jobs!BootState
  PROVE  Jobs!JobsInv'
<1>1. AtStart' => Jobs!JobsInv'
  BY JobsAtStart, PTL
<1>2. {leaving, outside}' \subseteq BOOLEAN
  BY Zenon DEF Jobs!BootState
<1>3. cache' = [list |-> "none", serial |-> 0]
  BY DEF Jobs!BootState
<1>4. cache' \in Caches /\ cache'.list = "none" /\ cache'.serial = 0
  BY <1>3 DEF Caches
<1>5. page' \in Pages /\ sched' \in Scheds /\ outcome' \in Outcomes
  BY AtRest DEF Jobs!BootState
<1>6. page'.at = "rest" /\ sched'.at = "tick" /\ outcome'.is = "none" /\ serial' = 0
  BY AtRest DEF Jobs!BootState
<1>7. /\ flag' \in [Jobs!Owners -> Marks] /\ at' \in [Jobs!Owners -> States]
      /\ \A o \in Jobs!Owners : flag'[o] = "free" /\ at'[o] = "none"
  BY DEF Jobs!BootState, Marks, States
<1>8. requests \in Nat /\ starts \in Nat /\ requests <= MaxRequests
  BY JobsTypesAre DEF Jobs!JobsInv, JobsTypes
<1>9. /\ waiting' \in Nat /\ requests' \in Nat /\ starts' \in Nat /\ serial' \in Nat
      /\ waiting' <= requests' /\ requests' <= MaxRequests
      /\ op' \in {"none", "refresh", "info", "change"} /\ got' \in {"none", "fresh", "eid", "failed"}
      /\ since' \subseteq Jobs!Owners
  BY <1>8 DEF Jobs!BootState
<1>10. JobsTypes'
  BY <1>4, <1>5, <1>7, <1>9 DEF JobsTypes
<1>11. QED
  BY <1>1, <1>2, <1>4, <1>6, <1>7, <1>10 DEF AtStart

\* The flags of the page stay flags.
LEMMA JobsFlags ==
  ASSUME Jobs!JobsInv, Jobs!Next \/ UNCHANGED jobsVars
  PROVE  {leaving, outside}' \subseteq BOOLEAN
<1>0. {leaving, outside} \subseteq BOOLEAN
  BY JobsTypesAre DEF Jobs!JobsInv
<1>1. ASSUME NEW j \in Jobs!Jobs, Jobs!StartJob(j) \/ Jobs!StartDue(j) \/ Jobs!JobSteps(j)
      PROVE  {leaving, outside}' \subseteq BOOLEAN
  BY <1>0, <1>1, Zenon DEF Jobs!StartJob, Jobs!StartDue, Jobs!JobSteps, Jobs!Begin, Jobs!Work, Jobs!End,
                           Jobs!CardChanges
<1>2. ASSUME NEW o \in {"refresh", "info", "change"}, Jobs!StartEsim(o)
      PROVE  {leaving, outside}' \subseteq BOOLEAN
  BY <1>0, <1>2, Zenon DEF Jobs!StartEsim
<1>3. CASE Jobs!EsimSteps
  BY <1>0, <1>3, Zenon DEF Jobs!EsimSteps, Jobs!Refresh, Jobs!Info, Jobs!Change, Jobs!ListAgain,
                           Jobs!EndEsim, Jobs!CardChanges
<1>4. CASE Jobs!PageSteps \/ Jobs!CreateDue
  BY <1>0, <1>4, Zenon DEF Jobs!PageSteps, Jobs!Create, Jobs!SendStatus, Jobs!Command,
                           Jobs!FlightUnknown, Jobs!EndAction, Jobs!CreateDue
<1>5. CASE Jobs!ApplySteps \/ Jobs!ReadStatus \/ Jobs!SaveSim
  BY <1>0, <1>5, Zenon DEF Jobs!ApplySteps, Jobs!Apply, Jobs!ApplyNotNow, Jobs!EndApply,
                           Jobs!ReadStatus, Jobs!SaveSim
<1>6. CASE Jobs!At \/ Jobs!Flight \/ Jobs!Control \/ Jobs!Ussd
  BY <1>0, <1>6, Zenon DEF Jobs!At, Jobs!Flight, Jobs!Control, Jobs!Ussd, Jobs!BeginAction
<1>7. CASE Jobs!AskRestart \/ Jobs!FoundIdle
  BY <1>0, <1>7, Zenon DEF Jobs!AskRestart, Jobs!FoundIdle
<1>8. CASE Jobs!RestartAsked \/ Jobs!RestartIdle
  BY <1>8, Zenon DEF Jobs!RestartAsked, Jobs!RestartIdle, Jobs!BootState
<1>9. CASE UNCHANGED jobsVars
  BY <1>0, <1>9, Zenon DEF jobsVars
<1>10. QED
  BY <1>1, <1>2, <1>3, <1>4, <1>5, <1>6, <1>7, <1>8, <1>9 DEF Jobs!Next

\* Whoever claims finds nobody; then it alone holds a flag.
LEMMA JobsClaims ==
  ASSUME Jobs!JobsInv, NEW o \in Jobs!Owners, NEW mark \in {"queued", "running"}, Jobs!Claim(o, mark)
  PROVE  /\ flag' \in [Jobs!Owners -> Marks] /\ flag'[o] # "free"
         /\ \A p \in Jobs!Owners : flag[p] = "free" /\ at[p] = "none"
         /\ \A p \in Jobs!Owners : flag'[p] # "free" => p = o
         /\ page.at # "create" /\ sched.at # "create"
         /\ since' = since \cup {o} /\ since' \subseteq Jobs!Owners
<1>1. JobsTypes /\ \A p \in Jobs!Owners : at[p] # "none" => flag[p] # "free"
  BY JobsTypesAre DEF Jobs!JobsInv
<1>2. /\ \A p \in Jobs!Owners : flag[p] = "free"
      /\ flag' = [flag EXCEPT ![o] = mark] /\ since' = since \cup {o}
  BY DEF Jobs!Claim, Jobs!Active
<1>3. flag' \in [Jobs!Owners -> Marks] /\ flag'[o] = mark /\ \A p \in Jobs!Owners \ {o} : flag'[p] = flag[p]
  BY <1>1, <1>2 DEF JobsTypes, Marks
<1>4. page.at # "create"
  BY <1>2 DEF Jobs!JobsInv, Jobs!OneFlag, Jobs!Owners
<1>5. sched.at # "create"
  <2>1. sched.what \in {"", "keepalive", "sched"}
    BY <1>1 DEF JobsTypes, Scheds
  <2>2. QED
    BY <1>2, <2>1 DEF Jobs!JobsInv, Jobs!OneFlag, Jobs!Owners, Jobs!Jobs
<1>6. QED
  BY <1>1, <1>2, <1>3, <1>4, <1>5 DEF JobsTypes

\* A change of one place or of one flag.
LEMMA JobsMoves ==
  ASSUME Jobs!JobsInv, NEW o \in Jobs!Owners
  PROVE  /\ \A s \in States : at' = [at EXCEPT ![o] = s] =>
              /\ at' \in [Jobs!Owners -> States] /\ at'[o] = s
              /\ \A p \in Jobs!Owners \ {o} : at'[p] = at[p]
         /\ \A s \in Marks : flag' = [flag EXCEPT ![o] = s] =>
              /\ flag' \in [Jobs!Owners -> Marks] /\ flag'[o] = s
              /\ \A p \in Jobs!Owners \ {o} : flag'[p] = flag[p]
<1>1. flag \in [Jobs!Owners -> Marks] /\ at \in [Jobs!Owners -> States]
  BY JobsTypesAre DEF Jobs!JobsInv, JobsTypes
<1>2. QED
  BY <1>1

\* Who holds a flag, when a step changes one place and one flag at most.
Held == /\ Jobs!OneFlag
        /\ \A o \in Jobs!Owners : at[o] # "none" => flag[o] # "free"
        /\ flag \in [Jobs!Owners -> Marks] /\ at \in [Jobs!Owners -> States]

LEMMA JobsKeepFlags ==
  ASSUME Jobs!JobsInv, flag' = flag, at' = at, sched' = sched, since \subseteq since',
         page' = page \/ page'.at # "create"
  PROVE  Held'
<1>1. Held
  BY JobsTypesAre DEF Jobs!JobsInv, Held, JobsTypes
<1>2. Jobs!OneFlag'
  BY <1>1 DEF Held, Jobs!OneFlag
<1>3. QED
  BY <1>1, <1>2 DEF Held

LEMMA JobsClaimed ==
  ASSUME Jobs!JobsInv, NEW o \in Jobs!Owners, NEW mark \in {"queued", "running"}, Jobs!Claim(o, mark)
  PROVE  /\ at' = at \/ at' = [at EXCEPT ![o] = "works"]
         /\ page'.at = "create" => page'.what = o /\ o \in Jobs!Jobs /\ at' = at
         /\ sched'.at = "create" => sched'.what = o /\ o # "" /\ at' = at
         /\ ~(page'.at = "create" /\ sched'.at = "create")
         /\ sched'.at = "leaves" => sched.at = "leaves"
         => Held'
<1>1. /\ flag' \in [Jobs!Owners -> Marks] /\ flag'[o] # "free"
      /\ \A p \in Jobs!Owners : flag[p] = "free" /\ at[p] = "none"
      /\ \A p \in Jobs!Owners : flag'[p] # "free" => p = o
      /\ since' = since \cup {o}
  BY JobsClaims
<1> SUFFICES ASSUME at' = at \/ at' = [at EXCEPT ![o] = "works"],
                    page'.at = "create" => page'.what = o /\ o \in Jobs!Jobs /\ at' = at,
                    sched'.at = "create" => sched'.what = o /\ o # "" /\ at' = at,
                    ~(page'.at = "create" /\ sched'.at = "create"),
                    sched'.at = "leaves" => sched.at = "leaves"
             PROVE  Held'
  OBVIOUS
<1>2. /\ at' \in [Jobs!Owners -> States]
      /\ \A p \in Jobs!Owners : at'[p] # "none" => p = o
      /\ at' = at => at'[o] = "none"
  <2>1. CASE at' = at
    BY <1>1, <2>1, JobsTypesAre DEF Jobs!JobsInv, JobsTypes
  <2>2. CASE at' = [at EXCEPT ![o] = "works"]
    <3>1. "works" \in States
      BY DEF States
    <3>2. at' \in [Jobs!Owners -> States] /\ at'[o] = "works" /\ \A p \in Jobs!Owners \ {o} : at'[p] = at[p]
      BY <2>2, <3>1, JobsMoves
    <3>3. at' # at
      BY <1>1, <3>2
    <3>4. QED
      BY <1>1, <3>2, <3>3
  <2>3. QED
    BY <2>1, <2>2
<1>3. Jobs!OneFlag'
  BY <1>1, <1>2 DEF Jobs!OneFlag
<1>4. QED
  BY <1>1, <1>2, <1>3 DEF Held

LEMMA JobsReleased ==
  ASSUME Jobs!JobsInv, NEW o \in Jobs!Owners, flag' = [flag EXCEPT ![o] = "free"],
         (at' = at /\ at[o] = "none") \/ at' = [at EXCEPT ![o] = "none"],
         (page' = page /\ (page.at = "create" => page.what # o)) \/ page'.at # "create",
         (sched' = sched /\ (sched.at = "create" => sched.what # o)) \/ sched'.at = "tick",
         since' = since
  PROVE  Held'
<1>1. /\ flag' \in [Jobs!Owners -> Marks] /\ flag'[o] = "free"
      /\ \A p \in Jobs!Owners \ {o} : flag'[p] = flag[p]
  BY JobsMoves DEF Marks
<1>2. Held
  BY JobsTypesAre DEF Jobs!JobsInv, Held, JobsTypes
<1>3. /\ at' \in [Jobs!Owners -> States] /\ at'[o] = "none"
      /\ \A p \in Jobs!Owners \ {o} : at'[p] = at[p]
  BY <1>2, JobsMoves DEF States, Held
<1>4. Jobs!OneFlag'
  <2>1. \A p \in Jobs!Jobs : p \in Jobs!Owners
    BY DEF Jobs!Owners
  <2>2. sched \in Scheds
    BY JobsTypesAre DEF Jobs!JobsInv, JobsTypes
  <2>3. sched.what # "" => sched.what \in Jobs!Owners
    BY <2>2 DEF Scheds, Jobs!Owners, Jobs!Jobs
  <2>4. \A p, q \in Jobs!Owners : flag'[p] # "free" /\ flag'[q] # "free" => p = q
    BY <1>1, <1>2 DEF Held, Jobs!OneFlag
  <2>5. page'.at = "create" =>
          page'.what \in Jobs!Jobs /\ flag'[page'.what] # "free" /\ at'[page'.what] = "none"
    <3> SUFFICES ASSUME page'.at = "create"
                 PROVE  page'.what \in Jobs!Jobs /\ flag'[page'.what] # "free" /\ at'[page'.what] = "none"
      OBVIOUS
    <3>1. page' = page /\ page.at = "create" /\ page.what # o
      OBVIOUS
    <3>2. page.what \in Jobs!Jobs /\ flag[page.what] # "free" /\ at[page.what] = "none"
      BY <1>2, <3>1 DEF Held, Jobs!OneFlag
    <3>3. page.what \in Jobs!Owners \ {o}
      BY <2>1, <3>1, <3>2
    <3>4. QED
      BY <1>1, <1>3, <3>1, <3>2, <3>3
  <2>6. sched'.at = "create" =>
          sched'.what # "" /\ flag'[sched'.what] # "free" /\ at'[sched'.what] = "none"
    <3> SUFFICES ASSUME sched'.at = "create"
                 PROVE  sched'.what # "" /\ flag'[sched'.what] # "free" /\ at'[sched'.what] = "none"
      OBVIOUS
    <3>1. sched' = sched /\ sched.at = "create" /\ sched.what # o
      OBVIOUS
    <3>2. sched.what # "" /\ flag[sched.what] # "free" /\ at[sched.what] = "none"
      BY <1>2, <3>1 DEF Held, Jobs!OneFlag
    <3>3. sched.what \in Jobs!Owners \ {o}
      BY <2>3, <3>1, <3>2
    <3>4. QED
      BY <1>1, <1>3, <3>1, <3>2, <3>3
  <2>7. ~(page'.at = "create" /\ sched'.at = "create")
    BY <1>1, <1>2 DEF Held, Jobs!OneFlag
  <2>8. sched'.at = "leaves" => \A p \in Jobs!Owners : flag'[p] # "free" => p \in since'
    BY <1>1, <1>2 DEF Held, Jobs!OneFlag
  <2>9. QED
    BY <2>4, <2>5, <2>6, <2>7, <2>8 DEF Jobs!OneFlag
<1>5. QED
  BY <1>1, <1>2, <1>3, <1>4 DEF Held

LEMMA JobsPlaced ==
  ASSUME Jobs!JobsInv, NEW o \in Jobs!Owners, flag[o] # "free", NEW s \in States,
         at' = [at EXCEPT ![o] = s],
         flag' = flag \/ flag' = [flag EXCEPT ![o] = "running"],
         (page' = page /\ (page.at = "create" => page.what # o)) \/ page'.at # "create",
         (sched' = sched /\ (sched.at = "create" => sched.what # o)) \/ sched'.at = "tick",
         since' = since
  PROVE  Held'
<1>1. Held
  BY JobsTypesAre DEF Jobs!JobsInv, Held, JobsTypes
<1>2. /\ flag' \in [Jobs!Owners -> Marks] /\ flag'[o] # "free"
      /\ \A p \in Jobs!Owners \ {o} : flag'[p] = flag[p]
  BY <1>1, JobsMoves DEF Marks, Held
<1>3. /\ at' \in [Jobs!Owners -> States]
      /\ \A p \in Jobs!Owners \ {o} : at'[p] = at[p]
  BY JobsMoves
<1>4. Jobs!OneFlag'
  <2>1. \A p \in Jobs!Jobs : p \in Jobs!Owners
    BY DEF Jobs!Owners
  <2>2. sched \in Scheds
    BY JobsTypesAre DEF Jobs!JobsInv, JobsTypes
  <2>3. sched.what # "" => sched.what \in Jobs!Owners
    BY <2>2 DEF Scheds, Jobs!Owners, Jobs!Jobs
  <2>4. \A p, q \in Jobs!Owners : flag'[p] # "free" /\ flag'[q] # "free" => p = q
    BY <1>1, <1>2 DEF Held, Jobs!OneFlag
  <2>5. page'.at = "create" =>
          page'.what \in Jobs!Jobs /\ flag'[page'.what] # "free" /\ at'[page'.what] = "none"
    BY <1>1, <1>2, <1>3, <2>1 DEF Held, Jobs!OneFlag
  <2>6. sched'.at = "create" =>
          sched'.what # "" /\ flag'[sched'.what] # "free" /\ at'[sched'.what] = "none"
    BY <1>1, <1>2, <1>3, <2>3 DEF Held, Jobs!OneFlag
  <2>7. ~(page'.at = "create" /\ sched'.at = "create")
    BY <1>1, <1>2 DEF Held, Jobs!OneFlag
  <2>8. sched'.at = "leaves" => \A p \in Jobs!Owners : flag'[p] # "free" => p \in since'
    BY <1>1, <1>2 DEF Held, Jobs!OneFlag
  <2>9. QED
    BY <2>4, <2>5, <2>6, <2>7, <2>8 DEF Jobs!OneFlag
<1>5. QED
  BY <1>1, <1>2, <1>3, <1>4 DEF Held

\* An owner whose place is not "none" holds its flag and waits for no task.
LEMMA JobsPlace ==
  ASSUME Jobs!JobsInv, NEW o \in Jobs!Owners, at[o] # "none"
  PROVE  flag[o] # "free" /\ (page.at = "create" => page.what # o) /\ (sched.at = "create" => sched.what # o)
<1>1. \A p \in Jobs!Owners : at[p] # "none" => flag[p] # "free"
  BY JobsTypesAre DEF Jobs!JobsInv
<1>2. QED
  BY <1>1 DEF Jobs!JobsInv, Jobs!OneFlag

\* Fields of the records that requests and the scheduler leave behind.
LEMMA PageFields ==
  /\ \A j \in Jobs!Jobs :
       /\ [Jobs!Rest EXCEPT !.at = "create", !.what = j] \in Pages
       /\ [Jobs!Rest EXCEPT !.at = "create", !.what = j].at = "create"
       /\ [Jobs!Rest EXCEPT !.at = "create", !.what = j].what = j
  /\ \A k \in Nat :
       /\ [Jobs!Rest EXCEPT !.at = "status", !.n = k] \in Pages
       /\ [Jobs!Rest EXCEPT !.at = "status", !.n = k].at = "status"
       /\ [Jobs!Rest EXCEPT !.at = "status", !.n = k].n = k
  /\ [Jobs!Tick EXCEPT !.at = "leaves"] \in Scheds /\ [Jobs!Tick EXCEPT !.at = "leaves"].at = "leaves"
<1>1. ASSUME NEW j \in Jobs!Jobs
      PROVE  /\ [Jobs!Rest EXCEPT !.at = "create", !.what = j] \in Pages
             /\ [Jobs!Rest EXCEPT !.at = "create", !.what = j].at = "create"
             /\ [Jobs!Rest EXCEPT !.at = "create", !.what = j].what = j
  BY DEF Jobs!Rest, Pages
<1>2. ASSUME NEW k \in Nat
      PROVE  /\ [Jobs!Rest EXCEPT !.at = "status", !.n = k] \in Pages
             /\ [Jobs!Rest EXCEPT !.at = "status", !.n = k].at = "status"
             /\ [Jobs!Rest EXCEPT !.at = "status", !.n = k].n = k
  BY DEF Jobs!Rest, Pages
<1>3. [Jobs!Tick EXCEPT !.at = "leaves"] \in Scheds /\ [Jobs!Tick EXCEPT !.at = "leaves"].at = "leaves"
  BY DEF Jobs!Tick, Scheds
<1>4. QED
  BY <1>1, <1>2, <1>3

\* A task that was asked for is created, or its flag is cleared.
LEMMA JobsCreates ==
  ASSUME Jobs!JobsInv, Jobs!Create \/ Jobs!CreateDue
  PROVE  Held'
<1>1. CASE Jobs!Create
  <2>1. /\ page.at = "create" /\ page' = Jobs!Rest /\ sched' = sched /\ since' = since
        /\ Jobs!Created(page.what) \/ Jobs!NotCreated(page.what)
    BY <1>1 DEF Jobs!Create, Jobs!bounds
  <2>2. /\ page.what \in Jobs!Jobs /\ flag[page.what] # "free" /\ at[page.what] = "none"
        /\ sched.at # "create"
    BY <2>1 DEF Jobs!JobsInv, Jobs!OneFlag
  <2>3. page.what \in Jobs!Owners /\ page'.at # "create"
    BY <2>1, <2>2, AtRest DEF Jobs!Owners
  <2>4. CASE Jobs!Created(page.what)
    <3>1. at' = [at EXCEPT ![page.what] = "made"] /\ flag' = flag /\ "made" \in States
      BY <2>4 DEF Jobs!Created, States
    <3>2. QED
      BY <2>1, <2>2, <2>3, <3>1, JobsPlaced
  <2>5. CASE Jobs!NotCreated(page.what)
    <3>1. flag' = [flag EXCEPT ![page.what] = "free"] /\ at' = at
      BY <2>5 DEF Jobs!NotCreated
    <3>2. QED
      BY <2>1, <2>2, <2>3, <3>1, JobsReleased
  <2>6. QED
    BY <2>1, <2>4, <2>5
<1>2. CASE Jobs!CreateDue
  <2>1. /\ sched.at = "create" /\ sched' = Jobs!Tick /\ page' = page /\ since' = since
        /\ Jobs!Created(sched.what) \/ Jobs!NotCreated(sched.what)
    BY <1>2 DEF Jobs!CreateDue, Jobs!bounds
  <2>2. /\ sched.what # "" /\ flag[sched.what] # "free" /\ at[sched.what] = "none"
        /\ page.at # "create"
    BY <2>1 DEF Jobs!JobsInv, Jobs!OneFlag
  <2>3. sched'.at = "tick"
    BY <2>1, AtRest
  <2>4. sched.what \in Jobs!Owners
    <3>1. sched \in Scheds
      BY JobsTypesAre DEF Jobs!JobsInv, JobsTypes
    <3>2. QED
      BY <2>2, <3>1 DEF Scheds, Jobs!Owners, Jobs!Jobs
  <2>5. CASE Jobs!Created(sched.what)
    <3>1. at' = [at EXCEPT ![sched.what] = "made"] /\ flag' = flag /\ "made" \in States
      BY <2>5 DEF Jobs!Created, States
    <3>2. QED
      BY <2>1, <2>2, <2>3, <2>4, <3>1, JobsPlaced
  <2>6. CASE Jobs!NotCreated(sched.what)
    <3>1. flag' = [flag EXCEPT ![sched.what] = "free"] /\ at' = at
      BY <2>6 DEF Jobs!NotCreated
    <3>2. QED
      BY <2>1, <2>2, <2>3, <2>4, <3>1, JobsReleased
  <2>7. QED
    BY <2>1, <2>5, <2>6
<1>3. QED
  BY <1>1, <1>2

\* Starting a job claims the modem for it.
LEMMA JobsStarts ==
  ASSUME Jobs!JobsInv,
         \/ \E j \in Jobs!Jobs : Jobs!StartJob(j) \/ Jobs!StartDue(j)
         \/ \E o \in {"refresh", "info", "change"} : Jobs!StartEsim(o)
         \/ Jobs!At \/ Jobs!Flight \/ Jobs!Control \/ Jobs!Ussd \/ Jobs!Apply
  PROVE  Held'
<1>0. /\ \A j \in Jobs!Jobs : j \in Jobs!Owners
      /\ \A j \in Jobs!Jobs : Jobs!Mark(j) \in {"queued", "running"}
      /\ "esim" \in Jobs!Jobs /\ "keepalive" \in Jobs!Jobs /\ "sched" \in Jobs!Jobs
      /\ "page" \in Jobs!Owners /\ "apply" \in Jobs!Owners
  BY DEF Jobs!Owners, Jobs!Jobs, Jobs!Mark
<1>1. ASSUME NEW j \in Jobs!Jobs, Jobs!StartJob(j)
      PROVE  Held'
  <2>1. /\ Jobs!Claim(j, Jobs!Mark(j)) /\ at' = at /\ sched' = sched
        /\ page' = [Jobs!Rest EXCEPT !.at = "create", !.what = j]
    BY <1>1 DEF Jobs!StartJob
  <2>2. page'.at = "create" /\ page'.what = j
    BY <2>1, PageFields
  <2>3. sched.at # "create"
    BY <1>0, <2>1, JobsClaims
  <2>4. QED
    BY <1>0, <2>1, <2>2, <2>3, JobsClaimed
<1>2. ASSUME NEW o \in {"refresh", "info", "change"}, Jobs!StartEsim(o)
      PROVE  Held'
  <2>1. /\ Jobs!Claim("esim", "queued") /\ at' = at /\ sched' = sched
        /\ page' = [Jobs!Rest EXCEPT !.at = "create", !.what = "esim"]
    BY <1>2 DEF Jobs!StartEsim
  <2>2. page'.at = "create" /\ page'.what = "esim"
    BY <1>0, <2>1, PageFields
  <2>3. sched.at # "create"
    BY <1>0, <2>1, JobsClaims
  <2>4. QED
    BY <1>0, <2>1, <2>2, <2>3, JobsClaimed
<1>3. ASSUME NEW j \in Jobs!Jobs, Jobs!StartDue(j)
      PROVE  Held'
  <2>1. /\ Jobs!Claim(j, Jobs!Mark(j)) /\ at' = at /\ page' = page /\ j # ""
        /\ sched' = [at |-> "create", what |-> j]
    BY <1>3 DEF Jobs!StartDue
  <2>2. sched'.at = "create" /\ sched'.what = j
    BY <2>1
  <2>3. page.at # "create"
    BY <1>0, <2>1, JobsClaims
  <2>4. QED
    BY <1>0, <2>1, <2>2, <2>3, JobsClaimed
<1>4. ASSUME NEW what, NEW k, Jobs!BeginAction(what, k)
      PROVE  Held'
  <2>1. /\ Jobs!Claim("page", "running") /\ at' = [at EXCEPT !["page"] = "works"] /\ sched' = sched
        /\ page' = [at |-> "acts", what |-> what, n |-> k]
    BY <1>4 DEF Jobs!BeginAction
  <2>2. page'.at = "acts"
    BY <2>1
  <2>3. sched.at # "create"
    BY <1>0, <2>1, JobsClaims
  <2>4. QED
    BY <1>0, <2>1, <2>2, <2>3, JobsClaimed
<1>5. CASE Jobs!Apply
  <2>1. /\ Jobs!Claim("apply", "running") /\ at' = [at EXCEPT !["apply"] = "works"]
        /\ sched' = sched /\ page' = page
    BY <1>5 DEF Jobs!Apply
  <2>2. sched.at # "create" /\ page.at # "create"
    BY <1>0, <2>1, JobsClaims
  <2>3. QED
    BY <1>0, <2>1, <2>2, JobsClaimed
<1>6. QED
  BY <1>1, <1>2, <1>3, <1>4, <1>5 DEF Jobs!At, Jobs!Flight, Jobs!Control, Jobs!Ussd

\* A task or an action goes on, or ends and frees its flag.
LEMMA JobsGoOn ==
  ASSUME Jobs!JobsInv,
         \/ \E j \in Jobs!Jobs : Jobs!JobSteps(j)
         \/ Jobs!EsimSteps \/ Jobs!EndAction \/ Jobs!EndApply
  PROVE  Held'
<1>0. /\ \A j \in Jobs!Jobs : j \in Jobs!Owners
      /\ "esim" \in Jobs!Owners /\ "page" \in Jobs!Owners /\ "apply" \in Jobs!Owners
      /\ {"made", "works", "lists", "ends"} \subseteq States
  BY DEF Jobs!Owners, Jobs!Jobs, States
<1> USE DEF Jobs!bounds, Jobs!esim
<1>1. ASSUME NEW o \in Jobs!Owners, at[o] # "none", NEW s \in States, at' = [at EXCEPT ![o] = s],
             flag' = flag \/ flag' = [flag EXCEPT ![o] = "running"],
             page' = page, sched' = sched, since' = since
      PROVE  Held'
  BY <1>1, JobsPlace, JobsPlaced
<1>2. ASSUME NEW o \in Jobs!Owners, at[o] # "none", at' = [at EXCEPT ![o] = "none"],
             flag' = [flag EXCEPT ![o] = "free"],
             page' = page \/ page'.at # "create", sched' = sched, since' = since
      PROVE  Held'
  BY <1>2, JobsPlace, JobsReleased
<1>3. ASSUME NEW j \in Jobs!Jobs, Jobs!Begin(j)
      PROVE  Held'
  <2>1. /\ at[j] # "none" /\ at' = [at EXCEPT ![j] = "works"]
        /\ flag' = flag \/ flag' = [flag EXCEPT ![j] = "running"]
        /\ page' = page /\ sched' = sched /\ since' = since
    BY <1>3 DEF Jobs!Begin
  <2>2. QED
    BY <1>0, <1>1, <2>1
<1>4. ASSUME NEW j \in Jobs!Jobs, Jobs!Work(j)
      PROVE  Held'
  <2>1. /\ at[j] # "none" /\ at' = [at EXCEPT ![j] = "ends"] /\ flag' = flag
        /\ page' = page /\ sched' = sched /\ since' = since
    BY <1>4 DEF Jobs!Work
  <2>2. QED
    BY <1>0, <1>1, <2>1
<1>5. ASSUME NEW j \in Jobs!Jobs, Jobs!End(j)
      PROVE  Held'
  <2>1. /\ at[j] # "none" /\ at' = [at EXCEPT ![j] = "none"] /\ flag' = [flag EXCEPT ![j] = "free"]
        /\ page' = page /\ sched' = sched /\ since' = since
    BY <1>5 DEF Jobs!End, Jobs!Freed
  <2>2. QED
    BY <1>0, <1>2, <2>1
<1>6. CASE Jobs!Refresh \/ Jobs!Info \/ Jobs!Change \/ Jobs!ListAgain
  <2>1. \E s \in {"lists", "ends"} :
          /\ at["esim"] # "none" /\ at' = [at EXCEPT !["esim"] = s] /\ flag' = flag
          /\ page' = page /\ sched' = sched /\ since' = since
    BY <1>6 DEF Jobs!Refresh, Jobs!Info, Jobs!Change, Jobs!ListAgain, Jobs!EsimGoesTo, Jobs!ReadsList
  <2>2. QED
    BY <1>0, <1>1, <2>1
<1>7. CASE Jobs!EndEsim
  <2>1. /\ at["esim"] # "none" /\ at' = [at EXCEPT !["esim"] = "none"]
        /\ flag' = [flag EXCEPT !["esim"] = "free"]
        /\ page' = page /\ sched' = sched /\ since' = since
    BY <1>7 DEF Jobs!EndEsim
  <2>2. QED
    BY <1>0, <1>2, <2>1
<1>8. CASE Jobs!EndApply
  <2>1. /\ at["apply"] # "none" /\ at' = [at EXCEPT !["apply"] = "none"]
        /\ flag' = [flag EXCEPT !["apply"] = "free"]
        /\ page' = page /\ sched' = sched /\ since' = since
    BY <1>8 DEF Jobs!EndApply
  <2>2. QED
    BY <1>0, <1>2, <2>1
<1>9. CASE Jobs!EndAction
  <2>1. /\ page.at = "acts" /\ page' = Jobs!Rest
        /\ at' = [at EXCEPT !["page"] = "none"] /\ flag' = [flag EXCEPT !["page"] = "free"]
        /\ sched' = sched /\ since' = since
    BY <1>9 DEF Jobs!EndAction
  <2>2. page'.at # "create"
    BY <2>1, AtRest
  <2>3. sched.at = "create" => sched.what # "page"
    <3>1. sched \in Scheds
      BY JobsTypesAre DEF Jobs!JobsInv, JobsTypes
    <3>2. QED
      BY <3>1 DEF Scheds
  <2>4. QED
    BY <1>0, <2>1, <2>2, <2>3, JobsReleased
<1>10. QED
  BY <1>3, <1>4, <1>5, <1>6, <1>7, <1>8, <1>9 DEF Jobs!JobSteps, Jobs!EsimSteps

\* The steps that move no flag.
LEMMA JobsQuiet ==
  ASSUME Jobs!JobsInv,
         \/ Jobs!ReadStatus \/ Jobs!SendStatus \/ Jobs!Command \/ Jobs!FlightUnknown
         \/ Jobs!SaveSim \/ Jobs!AskRestart \/ Jobs!ApplyNotNow \/ Jobs!FoundIdle
         \/ UNCHANGED jobsVars
  PROVE  Held'
<1>0. page \in Pages /\ sched \in Scheds
  BY JobsTypesAre DEF Jobs!JobsInv, JobsTypes
<1> USE DEF Jobs!bounds, Jobs!esim
<1>1. CASE Jobs!ReadStatus
  <2>1. page'.at # "create"
    <3>1. page'.at = "status"
      BY <1>1 DEF Jobs!ReadStatus, Jobs!Rest
    <3>2. QED
      BY <3>1
  <2>2. flag' = flag /\ at' = at /\ sched' = sched /\ since' = since
    BY <1>1 DEF Jobs!ReadStatus
  <2>3. QED
    BY <2>1, <2>2, JobsKeepFlags
<1>2. CASE Jobs!SendStatus
  <2>1. page'.at # "create"
    BY <1>2, AtRest DEF Jobs!SendStatus
  <2>2. flag' = flag /\ at' = at /\ sched' = sched /\ since' = since
    BY <1>2 DEF Jobs!SendStatus
  <2>3. QED
    BY <2>1, <2>2, JobsKeepFlags
<1>3. CASE Jobs!Command \/ Jobs!FlightUnknown
  <2>1. page.at = "acts" /\ \E k : page' = [page EXCEPT !.n = k]
    BY <1>3 DEF Jobs!Command, Jobs!FlightUnknown
  <2>2. page'.at = "acts"
    BY <1>0, <2>1 DEF Pages
  <2>3. flag' = flag /\ at' = at /\ sched' = sched /\ since' = since
    BY <1>3 DEF Jobs!Command, Jobs!FlightUnknown
  <2>4. page'.at # "create"
    BY <2>2
  <2>5. QED
    BY <2>3, <2>4, JobsKeepFlags
<1>4. CASE Jobs!SaveSim \/ Jobs!AskRestart \/ Jobs!ApplyNotNow \/ UNCHANGED jobsVars
  <2>1. flag' = flag /\ at' = at /\ sched' = sched /\ since' = since /\ page' = page
    BY <1>4 DEF Jobs!SaveSim, Jobs!AskRestart, Jobs!ApplyNotNow, jobsVars
  <2>2. QED
    BY <2>1, JobsKeepFlags
<1>5. CASE Jobs!FoundIdle
  <2>1. /\ flag' = flag /\ at' = at /\ page' = page
        /\ sched' = [Jobs!Tick EXCEPT !.at = "leaves"]
        /\ \A o \in Jobs!Owners : flag[o] = "free"
    BY <1>5 DEF Jobs!FoundIdle, Jobs!Idle, Jobs!Active
  <2>2. sched'.at = "leaves"
    BY <2>1, PageFields
  <2>3. Held
    BY JobsTypesAre DEF Jobs!JobsInv, Held, JobsTypes
  <2>4. Jobs!OneFlag'
    BY <2>1, <2>2, <2>3 DEF Held, Jobs!OneFlag
  <2>5. QED
    BY <2>1, <2>3, <2>4 DEF Held
<1>6. QED
  BY <1>1, <1>2, <1>3, <1>4, <1>5

\* Every step but a restart leaves the flags with whoever holds them.
LEMMA JobsHeld ==
  ASSUME Jobs!JobsInv, Jobs!Next \/ UNCHANGED jobsVars, ~Jobs!BootState
  PROVE  Held'
<1>1. CASE UNCHANGED jobsVars
  BY <1>1, JobsQuiet
<1>2. CASE Jobs!Next
  BY <1>2, JobsQuiet, JobsGoOn, JobsStarts, JobsCreates
  DEF Jobs!Next, Jobs!PageSteps, Jobs!ApplySteps, Jobs!RestartAsked, Jobs!RestartIdle
<1>3. QED
  BY <1>1, <1>2

\* Whoever holds a flag has a step to take: when one flag changes hands, ...
Owner(o) == flag[o] # "free" => Jobs!GoesOn(o) /\ (o = "esim" => op # "none")

LEMMA OwnedAlone ==
  ASSUME Jobs!JobsInv, NEW o \in Jobs!Owners, flag[o] # "free",
         \A p \in Jobs!Owners \ {o} : flag'[p] = flag[p], Owner(o)'
  PROVE  Jobs!FlagsOwned'
<1>1. \A p \in Jobs!Owners \ {o} : flag'[p] = "free"
  BY DEF Jobs!JobsInv, Jobs!OneFlag
<1>2. QED
  BY <1>1 DEF Jobs!FlagsOwned, Owner

\* ... when one is claimed, ...
LEMMA OwnedClaimed ==
  ASSUME Jobs!JobsInv, NEW o \in Jobs!Owners, NEW mark \in {"queued", "running"}, Jobs!Claim(o, mark),
         Owner(o)'
  PROVE  Jobs!FlagsOwned'
<1>1. \A p \in Jobs!Owners : flag'[p] # "free" => p = o
  BY JobsClaims
<1>2. QED
  BY <1>1 DEF Jobs!FlagsOwned, Owner

\* ... and when none changes.
LEMMA OwnedKept ==
  ASSUME Jobs!JobsInv, flag' = flag, at' = at, op' = op,
         sched' = sched \/ sched.at # "create",
         page' = page \/ page.at \in {"rest", "status"} \/ (page.at = "acts" /\ page'.at = "acts")
  PROVE  Jobs!FlagsOwned'
<1>1. ASSUME NEW o \in Jobs!Owners, flag[o] # "free"
      PROVE  Jobs!GoesOn(o)' /\ (o = "esim" => op' # "none")
  <2>1. Jobs!GoesOn(o) /\ (o = "esim" => op # "none")
    BY <1>1 DEF Jobs!JobsInv, Jobs!FlagsOwned
  <2>2. QED
    BY <2>1 DEF Jobs!GoesOn
<1>2. QED
  BY <1>1 DEF Jobs!FlagsOwned

\* The task that was asked for is there, or nobody holds the flag.
LEMMA OwnedCreates ==
  ASSUME Jobs!JobsInv, NEW w \in Jobs!Jobs, flag[w] # "free",
         Jobs!Created(w) \/ Jobs!NotCreated(w), op' = op
  PROVE  Jobs!FlagsOwned'
<1>1. w \in Jobs!Owners
  BY DEF Jobs!Owners
<1>2. w = "esim" => op # "none"
  BY <1>1 DEF Jobs!JobsInv, Jobs!FlagsOwned
<1>3. \A p \in Jobs!Owners \ {w} : flag'[p] = flag[p]
  BY <1>1, JobsMoves DEF Jobs!Created, Jobs!NotCreated, Marks
<1>4. CASE Jobs!Created(w)
  <2>1. at'[w] = "made"
    BY <1>1, <1>4, JobsMoves DEF Jobs!Created, States
  <2>2. Owner(w)'
    BY <1>2, <2>1 DEF Owner, Jobs!GoesOn
  <2>3. QED
    BY <1>1, <1>3, <2>2, OwnedAlone
<1>5. CASE Jobs!NotCreated(w)
  <2>1. flag'[w] = "free"
    BY <1>1, <1>5, JobsMoves DEF Jobs!NotCreated, Marks
  <2>2. Owner(w)'
    BY <2>1 DEF Owner
  <2>3. QED
    BY <1>1, <1>3, <2>2, OwnedAlone
<1>6. QED
  BY <1>4, <1>5

\* A claim is the first step of whoever made it.
LEMMA OwnedStarts ==
  ASSUME Jobs!JobsInv,
         \/ \E j \in Jobs!Jobs : Jobs!StartJob(j) \/ Jobs!StartDue(j)
         \/ \E o \in {"refresh", "info", "change"} : Jobs!StartEsim(o)
         \/ Jobs!At \/ Jobs!Flight \/ Jobs!Control \/ Jobs!Ussd \/ Jobs!Apply
  PROVE  Jobs!FlagsOwned'
<1>0. /\ \A j \in Jobs!Jobs : j \in Jobs!Owners
      /\ \A j \in Jobs!Jobs : Jobs!Mark(j) \in {"queued", "running"}
      /\ "esim" \in Jobs!Jobs /\ "page" \in Jobs!Owners /\ "apply" \in Jobs!Owners
      /\ "works" \in States
  BY DEF Jobs!Owners, Jobs!Jobs, Jobs!Mark, States
<1>1. ASSUME NEW j \in Jobs!Jobs, Jobs!StartJob(j)
      PROVE  Jobs!FlagsOwned'
  <2>1. /\ Jobs!Claim(j, Jobs!Mark(j)) /\ j # "esim"
        /\ page' = [Jobs!Rest EXCEPT !.at = "create", !.what = j]
    BY <1>1 DEF Jobs!StartJob
  <2>2. page'.at = "create" /\ page'.what = j
    BY <2>1, PageFields
  <2>3. Owner(j)'
    BY <2>1, <2>2 DEF Owner, Jobs!GoesOn
  <2>4. QED
    BY <1>0, <2>1, <2>3, OwnedClaimed
<1>2. ASSUME NEW o \in {"refresh", "info", "change"}, Jobs!StartEsim(o)
      PROVE  Jobs!FlagsOwned'
  <2>1. /\ Jobs!Claim("esim", "queued") /\ op' = o
        /\ page' = [Jobs!Rest EXCEPT !.at = "create", !.what = "esim"]
    BY <1>2 DEF Jobs!StartEsim
  <2>2. page'.at = "create" /\ page'.what = "esim"
    BY <1>0, <2>1, PageFields
  <2>3. Owner("esim")'
    BY <2>1, <2>2 DEF Owner, Jobs!GoesOn
  <2>4. QED
    BY <1>0, <2>1, <2>3, OwnedClaimed
<1>3. ASSUME NEW j \in Jobs!Jobs, Jobs!StartDue(j)
      PROVE  Jobs!FlagsOwned'
  <2>1. /\ Jobs!Claim(j, Jobs!Mark(j)) /\ j # "esim" /\ sched' = [at |-> "create", what |-> j]
    BY <1>3 DEF Jobs!StartDue
  <2>2. sched'.at = "create" /\ sched'.what = j
    BY <2>1
  <2>3. Owner(j)'
    BY <2>1, <2>2 DEF Owner, Jobs!GoesOn
  <2>4. QED
    BY <1>0, <2>1, <2>3, OwnedClaimed
<1>4. ASSUME NEW what, NEW k, Jobs!BeginAction(what, k)
      PROVE  Jobs!FlagsOwned'
  <2>1. /\ Jobs!Claim("page", "running") /\ at' = [at EXCEPT !["page"] = "works"]
        /\ page' = [at |-> "acts", what |-> what, n |-> k]
    BY <1>4 DEF Jobs!BeginAction
  <2>2. page'.at = "acts" /\ at'["page"] = "works"
    BY <1>0, <2>1, JobsMoves
  <2>3. Owner("page")'
    BY <2>2 DEF Owner, Jobs!GoesOn
  <2>4. QED
    BY <1>0, <2>1, <2>3, OwnedClaimed
<1>5. CASE Jobs!Apply
  <2>1. Jobs!Claim("apply", "running") /\ at' = [at EXCEPT !["apply"] = "works"]
    BY <1>5 DEF Jobs!Apply
  <2>2. at'["apply"] = "works"
    BY <1>0, <2>1, JobsMoves
  <2>3. Owner("apply")'
    BY <2>2 DEF Owner, Jobs!GoesOn
  <2>4. QED
    BY <1>0, <2>1, <2>3, OwnedClaimed
<1>6. QED
  BY <1>1, <1>2, <1>3, <1>4, <1>5 DEF Jobs!At, Jobs!Flight, Jobs!Control, Jobs!Ussd

\* Every step of a task leads to its next one, the last one to a free flag.
LEMMA OwnedGoesOn ==
  ASSUME Jobs!JobsInv,
         \/ \E j \in Jobs!Jobs : Jobs!JobSteps(j)
         \/ Jobs!EsimSteps \/ Jobs!EndAction \/ Jobs!EndApply
  PROVE  Jobs!FlagsOwned'
<1>0. /\ \A j \in Jobs!Jobs : j \in Jobs!Owners
      /\ "esim" \in Jobs!Owners /\ "page" \in Jobs!Owners /\ "apply" \in Jobs!Owners
      /\ {"made", "works", "lists", "ends"} \subseteq States /\ {"free", "running"} \subseteq Marks
  BY DEF Jobs!Owners, Jobs!Jobs, States, Marks
<1>1. \A o \in Jobs!Owners : at[o] # "none" => flag[o] # "free"
  BY JobsTypesAre DEF Jobs!JobsInv
<1>2. flag["esim"] # "free" => op # "none"
  BY <1>0 DEF Jobs!JobsInv, Jobs!FlagsOwned
<1>3. ASSUME NEW o \in Jobs!Owners, at[o] # "none", flag' = [flag EXCEPT ![o] = "free"]
      PROVE  Jobs!FlagsOwned'
  <2>1. flag'[o] = "free" /\ \A p \in Jobs!Owners \ {o} : flag'[p] = flag[p]
    BY <1>0, <1>3, JobsMoves
  <2>2. Owner(o)'
    BY <2>1 DEF Owner
  <2>3. QED
    BY <1>1, <1>3, <2>1, <2>2, OwnedAlone
<1>4. ASSUME NEW o \in Jobs!Owners, at[o] # "none", NEW s \in States, at' = [at EXCEPT ![o] = s],
             flag' = flag \/ flag' = [flag EXCEPT ![o] = "running"], op' = op,
             \/ s = "works" /\ o \in Jobs!Jobs
             \/ s = "lists" /\ o = "esim"
             \/ s = "ends" /\ o \in {"keepalive", "sched", "esim"}
      PROVE  Jobs!FlagsOwned'
  <2>1. at'[o] = s
    BY <1>4, JobsMoves
  <2>2. \A p \in Jobs!Owners \ {o} : flag'[p] = flag[p]
    BY <1>0, <1>4, JobsMoves
  <2>3. Owner(o)'
    BY <1>1, <1>2, <1>4, <2>1 DEF Owner, Jobs!GoesOn
  <2>4. QED
    BY <1>1, <1>4, <2>2, <2>3, OwnedAlone
<1> USE DEF Jobs!esim
<1>5. ASSUME NEW j \in Jobs!Jobs, Jobs!Begin(j)
      PROVE  Jobs!FlagsOwned'
  <2>1. /\ at[j] # "none" /\ at' = [at EXCEPT ![j] = "works"] /\ op' = op
        /\ flag' = flag \/ flag' = [flag EXCEPT ![j] = "running"]
    BY <1>5 DEF Jobs!Begin
  <2>2. QED
    BY <1>0, <1>4, <2>1
<1>6. ASSUME NEW j \in Jobs!Jobs, Jobs!Work(j)
      PROVE  Jobs!FlagsOwned'
  <2>1. /\ at[j] # "none" /\ at' = [at EXCEPT ![j] = "ends"] /\ op' = op /\ flag' = flag
        /\ j \in {"keepalive", "sched"}
    BY <1>6 DEF Jobs!Work
  <2>2. QED
    BY <1>0, <1>4, <2>1
<1>7. ASSUME NEW j \in Jobs!Jobs, Jobs!End(j)
      PROVE  Jobs!FlagsOwned'
  <2>1. at[j] # "none" /\ flag' = [flag EXCEPT ![j] = "free"]
    BY <1>7 DEF Jobs!End, Jobs!Freed
  <2>2. QED
    BY <1>0, <1>3, <2>1
<1>8. CASE Jobs!Refresh \/ Jobs!Info \/ Jobs!Change \/ Jobs!ListAgain
  <2>1. \E s \in {"lists", "ends"} :
          at["esim"] # "none" /\ at' = [at EXCEPT !["esim"] = s] /\ flag' = flag /\ op' = op
    BY <1>8 DEF Jobs!Refresh, Jobs!Info, Jobs!Change, Jobs!ListAgain, Jobs!EsimGoesTo, Jobs!ReadsList
  <2>2. QED
    BY <1>0, <1>4, <2>1
<1>9. CASE Jobs!EndEsim
  <2>1. at["esim"] # "none" /\ flag' = [flag EXCEPT !["esim"] = "free"]
    BY <1>9 DEF Jobs!EndEsim
  <2>2. QED
    BY <1>0, <1>3, <2>1
<1>10. CASE Jobs!EndApply
  <2>1. at["apply"] # "none" /\ flag' = [flag EXCEPT !["apply"] = "free"]
    BY <1>10 DEF Jobs!EndApply
  <2>2. QED
    BY <1>0, <1>3, <2>1
<1>11. CASE Jobs!EndAction
  <2>1. page.at = "acts" /\ flag' = [flag EXCEPT !["page"] = "free"]
    BY <1>11 DEF Jobs!EndAction
  <2>2. flag'["page"] = "free" /\ \A p \in Jobs!Owners \ {"page"} : flag'[p] = flag[p]
    BY <1>0, <2>1, JobsMoves
  <2>3. CASE flag["page"] # "free"
    <3>1. Owner("page")'
      BY <2>2 DEF Owner
    <3>2. QED
      BY <1>0, <2>2, <2>3, <3>1, OwnedAlone
  <2>4. CASE flag["page"] = "free"
    <3>1. ASSUME NEW o \in Jobs!Owners, flag'[o] # "free"
          PROVE  Jobs!GoesOn(o)' /\ (o = "esim" => op' # "none")
      <4>1. o # "page" /\ flag[o] # "free"
        BY <2>2, <3>1
      <4>2. Jobs!GoesOn(o) /\ (o = "esim" => op # "none")
        BY <4>1 DEF Jobs!JobsInv, Jobs!FlagsOwned
      <4>3. at'[o] = at[o] /\ sched' = sched /\ op' = op
        BY <1>0, <1>11, <4>1, JobsMoves DEF Jobs!EndAction, States
      <4>4. QED
        BY <2>1, <4>1, <4>2, <4>3 DEF Jobs!GoesOn
    <3>2. QED
      BY <3>1 DEF Jobs!FlagsOwned
  <2>5. QED
    BY <2>3, <2>4
<1>12. QED
  BY <1>5, <1>6, <1>7, <1>8, <1>9, <1>10, <1>11 DEF Jobs!JobSteps, Jobs!EsimSteps

LEMMA OwnedQuiet ==
  ASSUME Jobs!JobsInv,
         \/ Jobs!ReadStatus \/ Jobs!SendStatus \/ Jobs!Command \/ Jobs!FlightUnknown
         \/ Jobs!SaveSim \/ Jobs!AskRestart \/ Jobs!ApplyNotNow \/ Jobs!FoundIdle
         \/ UNCHANGED jobsVars
  PROVE  Jobs!FlagsOwned'
<1> USE DEF Jobs!bounds, Jobs!esim
<1>1. CASE Jobs!ReadStatus \/ Jobs!SendStatus
  <2>1. /\ page.at \in {"rest", "status"} /\ flag' = flag /\ at' = at /\ sched' = sched /\ op' = op
    BY <1>1, AtRest DEF Jobs!ReadStatus, Jobs!SendStatus
  <2>2. QED
    BY <2>1, OwnedKept
<1>2. CASE Jobs!Command \/ Jobs!FlightUnknown
  <2>1. page.at = "acts" /\ \E k : page' = [page EXCEPT !.n = k]
    BY <1>2 DEF Jobs!Command, Jobs!FlightUnknown
  <2>2. page'.at = "acts"
    <3>1. page \in Pages
      BY JobsTypesAre DEF Jobs!JobsInv, JobsTypes
    <3>2. QED
      BY <2>1, <3>1 DEF Pages
  <2>3. flag' = flag /\ at' = at /\ sched' = sched /\ op' = op
    BY <1>2 DEF Jobs!Command, Jobs!FlightUnknown
  <2>4. QED
    BY <2>1, <2>2, <2>3, OwnedKept
<1>3. CASE Jobs!SaveSim \/ Jobs!AskRestart \/ Jobs!ApplyNotNow \/ UNCHANGED jobsVars
  <2>1. flag' = flag /\ at' = at /\ sched' = sched /\ op' = op /\ page' = page
    BY <1>3 DEF Jobs!SaveSim, Jobs!AskRestart, Jobs!ApplyNotNow, jobsVars
  <2>2. QED
    BY <2>1, OwnedKept
<1>4. CASE Jobs!FoundIdle
  <2>1. flag' = flag /\ at' = at /\ page' = page /\ op' = op /\ sched.at # "create"
    BY <1>4, AtRest DEF Jobs!FoundIdle
  <2>2. QED
    BY <2>1, OwnedKept
<1>5. QED
  BY <1>1, <1>2, <1>3, <1>4

LEMMA JobsOwned ==
  ASSUME Jobs!JobsInv, Jobs!Next \/ UNCHANGED jobsVars, ~Jobs!BootState
  PROVE  Jobs!FlagsOwned'
<1>0. \A j \in Jobs!Jobs : j \in Jobs!Owners
  BY DEF Jobs!Owners
<1>1. CASE Jobs!Create
  <2>1. /\ page.at = "create" /\ op' = op
        /\ Jobs!Created(page.what) \/ Jobs!NotCreated(page.what)
    BY <1>1 DEF Jobs!Create
  <2>2. page.what \in Jobs!Jobs /\ flag[page.what] # "free"
    BY <2>1 DEF Jobs!JobsInv, Jobs!OneFlag
  <2>3. QED
    BY <2>1, <2>2, OwnedCreates
<1>2. CASE Jobs!CreateDue
  <2>1. /\ sched.at = "create" /\ op' = op
        /\ Jobs!Created(sched.what) \/ Jobs!NotCreated(sched.what)
    BY <1>2 DEF Jobs!CreateDue
  <2>2. sched.what # "" /\ flag[sched.what] # "free"
    BY <2>1 DEF Jobs!JobsInv, Jobs!OneFlag
  <2>3. sched.what \in Jobs!Jobs
    <3>1. sched \in Scheds
      BY JobsTypesAre DEF Jobs!JobsInv, JobsTypes
    <3>2. QED
      BY <2>2, <3>1 DEF Scheds, Jobs!Jobs
  <2>4. QED
    BY <2>1, <2>2, <2>3, OwnedCreates
<1>3. CASE Jobs!Next
  BY <1>1, <1>2, <1>3, OwnedQuiet, OwnedGoesOn, OwnedStarts
  DEF Jobs!Next, Jobs!PageSteps, Jobs!ApplySteps, Jobs!RestartAsked, Jobs!RestartIdle
<1>4. QED
  BY <1>3, OwnedQuiet

\* The records of the page and of the scheduler, whoever writes them.
LEMMA JobsRecords ==
  ASSUME Jobs!JobsInv, Jobs!Next \/ UNCHANGED jobsVars, ~Jobs!BootState
  PROVE  page' \in Pages /\ sched' \in Scheds
<1>0. page \in Pages /\ sched \in Scheds /\ outcome \in Outcomes
  BY JobsTypesAre DEF Jobs!JobsInv, JobsTypes
<1> USE DEF Jobs!bounds, Jobs!esim
<1>1. ASSUME NEW j \in Jobs!Jobs, Jobs!StartJob(j) \/ Jobs!JobSteps(j)
      PROVE  page' \in Pages /\ sched' \in Scheds
  BY <1>0, <1>1, PageFields
  DEF Jobs!StartJob, Jobs!JobSteps, Jobs!Begin, Jobs!Work, Jobs!End
<1>2. ASSUME NEW j \in Jobs!Jobs, Jobs!StartDue(j)
      PROVE  page' \in Pages /\ sched' \in Scheds
  BY <1>0, <1>2 DEF Jobs!StartDue, Scheds
<1>3. ASSUME NEW o \in {"refresh", "info", "change"}, Jobs!StartEsim(o)
      PROVE  page' \in Pages /\ sched' \in Scheds
  <2>1. "esim" \in Jobs!Jobs
    BY DEF Jobs!Jobs
  <2>2. QED
    BY <1>0, <1>3, <2>1, PageFields DEF Jobs!StartEsim
<1>4. CASE Jobs!EsimSteps
  BY <1>0, <1>4 DEF Jobs!EsimSteps, Jobs!Refresh, Jobs!Info, Jobs!Change, Jobs!ListAgain,
                    Jobs!EndEsim
<1>5. CASE Jobs!Create \/ Jobs!SendStatus \/ Jobs!EndAction \/ Jobs!CreateDue
  BY <1>0, <1>5, AtRest DEF Jobs!Create, Jobs!SendStatus, Jobs!EndAction, Jobs!CreateDue
<1>6. CASE Jobs!Command
  <2>1. page' = [page EXCEPT !.n = page.n - 1] /\ page.n > 0 /\ sched' = sched
    BY <1>6 DEF Jobs!Command
  <2>2. page.n \in Nat
    BY <1>0 DEF Pages
  <2>3. page.n - 1 \in Nat
    BY <2>1, <2>2
  <2>4. QED
    BY <1>0, <2>1, <2>3 DEF Pages
<1>7. CASE Jobs!FlightUnknown
  BY <1>0, <1>7 DEF Jobs!FlightUnknown, Pages
<1>8. CASE Jobs!ReadStatus
  <2>1. outcome.serial \in Nat
    BY <1>0 DEF Outcomes
  <2>2. (IF outcome.is = "done" THEN outcome.serial ELSE 0) \in Nat
    BY <2>1
  <2>3. QED
    BY <1>0, <1>8, <2>2, PageFields DEF Jobs!ReadStatus
<1>9. ASSUME NEW what \in {"at", "flight", "control", "ussd"}, NEW k \in Nat, Jobs!BeginAction(what, k)
      PROVE  page' \in Pages /\ sched' \in Scheds
  BY <1>0, <1>9 DEF Jobs!BeginAction, Pages
<1>10. CASE Jobs!At \/ Jobs!Flight \/ Jobs!Control \/ Jobs!Ussd
  <2>1. \E what \in {"at", "flight", "control", "ussd"}, k \in Nat : Jobs!BeginAction(what, k)
    BY <1>10 DEF Jobs!At, Jobs!Flight, Jobs!Control, Jobs!Ussd
  <2>2. QED
    BY <1>9, <2>1
<1>11. CASE Jobs!ApplySteps \/ Jobs!SaveSim \/ Jobs!AskRestart \/ UNCHANGED jobsVars
  BY <1>0, <1>11 DEF Jobs!ApplySteps, Jobs!Apply, Jobs!ApplyNotNow, Jobs!EndApply,
                     Jobs!SaveSim, Jobs!AskRestart, jobsVars
<1>12. CASE Jobs!FoundIdle
  BY <1>0, <1>12, PageFields DEF Jobs!FoundIdle
<1>13. QED
  BY <1>1, <1>2, <1>3, <1>4, <1>5, <1>6, <1>7, <1>8, <1>10, <1>11, <1>12
  DEF Jobs!Next, Jobs!PageSteps, Jobs!RestartAsked, Jobs!RestartIdle

\* What the eSIM job writes.
LEMMA NewCaches ==
  ASSUME cache \in Caches, got \in {"none", "fresh", "eid", "failed"}, serial \in Nat
  PROVE  /\ [cache EXCEPT !.list = Jobs!Aged(@)] \in Caches
         /\ [cache EXCEPT !.list = Jobs!Aged(@)].serial = cache.serial
         /\ Jobs!NewCache \in Caches
         /\ Jobs!NewCache.serial = (IF got = "failed" THEN cache.serial ELSE serial)
         /\ Jobs!NewCache.list = (IF got \in {"failed", "eid"} THEN cache.list ELSE got)
<1>1. cache.list \in {"none", "fresh", "stale"} /\ cache.serial \in Nat
  BY DEF Caches
<1>2. /\ [cache EXCEPT !.list = Jobs!Aged(@)] \in Caches
      /\ [cache EXCEPT !.list = Jobs!Aged(@)].serial = cache.serial
  BY <1>1 DEF Caches, Jobs!Aged
<1>3. /\ [cache EXCEPT !.serial = serial] \in Caches
      /\ [cache EXCEPT !.serial = serial].serial = serial
      /\ [cache EXCEPT !.serial = serial].list = cache.list
  BY <1>1 DEF Caches
<1>4. got \in {"none", "fresh"} => [list |-> got, serial |-> serial] \in Caches
  BY DEF Caches
<1>5. CASE got = "failed"
  BY <1>1, <1>2, <1>5 DEF Jobs!NewCache
<1>6. CASE got = "eid"
  BY <1>1, <1>2, <1>3, <1>6 DEF Jobs!NewCache
<1>7. CASE got \in {"none", "fresh"}
  BY <1>1, <1>2, <1>4, <1>7 DEF Jobs!NewCache
<1>8. QED
  BY <1>5, <1>6, <1>7

\* What the eSIM job and the card leave behind.
Card ==
  /\ serial \in Nat /\ outcome \in Outcomes /\ cache \in Caches
  /\ op \in {"none", "refresh", "info", "change"} /\ got \in {"none", "fresh", "eid", "failed"}
  /\ Jobs!ListFollows

LEMMA CardIs == Jobs!JobsInv => Card /\ page \in Pages /\ page.n \in Nat
<1>1. Jobs!JobsInv => Card /\ page \in Pages
  BY JobsTypesAre DEF Jobs!JobsInv, JobsTypes, Card
<1>2. page \in Pages => page.n \in Nat
  BY DEF Pages
<1>3. QED
  BY <1>1, <1>2

\* The four parts of ListFollows after a step, when the list and the card are as before.
LEMMA CardKept ==
  ASSUME Jobs!JobsInv, serial' = serial, got' = got, cache' = cache, op' = op, outside' = outside,
         outcome' = outcome \/ (outcome' \in Outcomes /\ outcome'.is # "done"),
         \/ page' = page \/ page'.at # "status"
         \/ page'.n = 0 \/ (outcome.is = "done" /\ page'.n = outcome.serial),
         at'["esim"] = at["esim"] \/ at["esim"] \notin {"lists", "ends"}
  PROVE  Card'
<1>1. Card /\ page.n \in Nat
  BY CardIs
<1>2. cache.serial \in Nat /\ serial \in Nat
  BY <1>1 DEF Card, Caches
<1>3. /\ cache'.serial <= serial'
      /\ outcome'.is = "done" => outcome'.serial <= cache'.serial
      /\ page'.at = "status" => page'.n <= cache'.serial
  BY <1>1, <1>2 DEF Card, Jobs!ListFollows
<1>4. cache'.list = "stale" =>
        \/ outside' \/ at'["esim"] = "lists"
        \/ at'["esim"] = "ends" /\ got' \notin {"failed", "eid"}
  BY <1>1 DEF Card, Jobs!ListFollows
<1>5. Jobs!ListFollows'
  BY <1>3, <1>4 DEF Jobs!ListFollows
<1>6. QED
  BY <1>1, <1>5 DEF Card

\* The steps that are no concern of the card.
LEMMA CardRests ==
  ASSUME Jobs!JobsInv,
         \/ \E j \in Jobs!Jobs : \/ Jobs!StartJob(j) \/ Jobs!StartDue(j)
                                 \/ Jobs!Begin(j) \/ Jobs!End(j)
         \/ Jobs!ApplySteps \/ Jobs!PageSteps \/ Jobs!CreateDue \/ Jobs!ReadStatus
         \/ Jobs!At \/ Jobs!Flight \/ Jobs!Control \/ Jobs!Ussd \/ Jobs!SaveSim
         \/ Jobs!AskRestart \/ Jobs!FoundIdle \/ UNCHANGED jobsVars
  PROVE  Card'
<1>0. /\ at \in [Jobs!Owners -> States] /\ serial \in Nat /\ page \in Pages
      /\ "esim" \in Jobs!Owners /\ \A j \in Jobs!Jobs : j \in Jobs!Owners
  BY JobsTypesAre DEF Jobs!JobsInv, JobsTypes, Jobs!Owners, Jobs!Jobs
<1> USE DEF Jobs!bounds, Jobs!esim
<1>1. ASSUME NEW j \in Jobs!Jobs, Jobs!StartJob(j)
      PROVE  Card'
  <2>1. /\ serial' = serial /\ got' = got /\ cache' = cache /\ op' = op /\ outside' = outside
        /\ outcome' = outcome /\ at' = at
        /\ page' = [Jobs!Rest EXCEPT !.at = "create", !.what = j]
    BY <1>1 DEF Jobs!StartJob
  <2>2. page'.at # "status"
    <3>1. page'.at = "create"
      BY <2>1, PageFields
    <3>2. QED
      BY <3>1
  <2>3. QED
    BY <2>1, <2>2, CardKept
<1>2. ASSUME NEW j \in Jobs!Jobs, Jobs!StartDue(j)
      PROVE  Card'
  <2>1. /\ serial' = serial /\ got' = got /\ cache' = cache /\ op' = op /\ outside' = outside
        /\ outcome' = outcome /\ at' = at /\ page' = page
    BY <1>2 DEF Jobs!StartDue
  <2>2. QED
    BY <2>1, CardKept
<1>3. ASSUME NEW j \in Jobs!Jobs, Jobs!Begin(j)
      PROVE  Card'
  <2>1. /\ serial' = serial /\ got' = got /\ cache' = cache /\ op' = op /\ outside' = outside
        /\ outcome' = outcome /\ page' = page /\ at[j] = "made" /\ at' = [at EXCEPT ![j] = "works"]
    BY <1>3 DEF Jobs!Begin
  <2>2. at'["esim"] = at["esim"] \/ at["esim"] \notin {"lists", "ends"}
    BY <1>0, <2>1
  <2>3. QED
    BY <2>1, <2>2, CardKept
<1>4. ASSUME NEW o, o # "esim", at' = [at EXCEPT ![o] = "none"] \/ at' = [at EXCEPT ![o] = "works"],
             serial' = serial, got' = got, cache' = cache, op' = op, outside' = outside,
             outcome' = outcome, page' = page \/ page'.at # "status"
      PROVE  Card'
  <2>1. at'["esim"] = at["esim"]
    BY <1>0, <1>4
  <2>2. QED
    BY <1>4, <2>1, CardKept
<1>5. ASSUME NEW j \in Jobs!Jobs, Jobs!End(j)
      PROVE  Card'
  <2>1. /\ serial' = serial /\ got' = got /\ cache' = cache /\ op' = op /\ outside' = outside
        /\ outcome' = outcome /\ page' = page /\ j # "esim" /\ at' = [at EXCEPT ![j] = "none"]
    BY <1>5 DEF Jobs!End
  <2>2. QED
    BY <1>4, <2>1
<1>6. CASE Jobs!Apply \/ Jobs!EndApply
  <2>1. /\ serial' = serial /\ got' = got /\ cache' = cache /\ op' = op /\ outside' = outside
        /\ outcome' = outcome /\ page' = page
        /\ at' = [at EXCEPT !["apply"] = "works"] \/ at' = [at EXCEPT !["apply"] = "none"]
    BY <1>6 DEF Jobs!Apply, Jobs!EndApply
  <2>2. QED
    BY <1>4, <2>1
<1>7. CASE Jobs!ApplyNotNow \/ Jobs!SaveSim \/ Jobs!AskRestart \/ Jobs!FoundIdle \/ UNCHANGED jobsVars
  <2>1. /\ serial' = serial /\ got' = got /\ cache' = cache /\ op' = op /\ outside' = outside
        /\ outcome' = outcome /\ page' = page /\ at' = at
    BY <1>7 DEF Jobs!ApplyNotNow, Jobs!SaveSim, Jobs!AskRestart, Jobs!FoundIdle, jobsVars
  <2>2. QED
    BY <2>1, CardKept
<1>8. CASE Jobs!EndAction
  <2>1. /\ serial' = serial /\ got' = got /\ cache' = cache /\ op' = op /\ outside' = outside
        /\ outcome' = outcome /\ page' = Jobs!Rest /\ at' = [at EXCEPT !["page"] = "none"]
    BY <1>8 DEF Jobs!EndAction
  <2>2. page'.at # "status"
    BY <2>1, AtRest
  <2>3. QED
    BY <1>4, <2>1, <2>2
<1>9. CASE Jobs!SendStatus
  <2>1. /\ serial' = serial /\ got' = got /\ cache' = cache /\ op' = op /\ outside' = outside
        /\ outcome' = outcome /\ page' = Jobs!Rest /\ at' = at
    BY <1>9 DEF Jobs!SendStatus
  <2>2. page'.at # "status"
    BY <2>1, AtRest
  <2>3. QED
    BY <2>1, <2>2, CardKept
<1>10. CASE Jobs!Command \/ Jobs!FlightUnknown
  <2>1. /\ serial' = serial /\ got' = got /\ cache' = cache /\ op' = op /\ outside' = outside
        /\ outcome' = outcome /\ at' = at
        /\ page.at = "acts" /\ \E k : page' = [page EXCEPT !.n = k]
    BY <1>10 DEF Jobs!Command, Jobs!FlightUnknown
  <2>2. page'.at = "acts"
    BY <1>0, <2>1 DEF Pages
  <2>3. page'.at # "status"
    BY <2>2
  <2>4. QED
    BY <2>1, <2>3, CardKept
<1>11. CASE Jobs!ReadStatus
  <2>1. /\ serial' = serial /\ got' = got /\ cache' = cache /\ op' = op /\ outside' = outside
        /\ outcome' = outcome /\ at' = at
        /\ page' = [Jobs!Rest EXCEPT !.at = "status",
                                     !.n = IF outcome.is = "done" THEN outcome.serial ELSE 0]
    BY <1>11 DEF Jobs!ReadStatus
  <2>2. (IF outcome.is = "done" THEN outcome.serial ELSE 0) \in Nat
    BY CardIs DEF Card, Outcomes
  <2>3. page'.n = IF outcome.is = "done" THEN outcome.serial ELSE 0
    BY <2>1, <2>2, PageFields
  <2>4. page'.n = 0 \/ (outcome.is = "done" /\ page'.n = outcome.serial)
    BY <2>3
  <2>5. QED
    BY <2>1, <2>4, CardKept
<1>12. ASSUME NEW what, NEW k, Jobs!BeginAction(what, k)
       PROVE  Card'
  <2>1. /\ serial' = serial /\ got' = got /\ cache' = cache /\ op' = op /\ outside' = outside
        /\ outcome' = outcome /\ at' = [at EXCEPT !["page"] = "works"]
        /\ page' = [at |-> "acts", what |-> what, n |-> k]
    BY <1>12 DEF Jobs!BeginAction
  <2>2. page'.at # "status"
    BY <2>1
  <2>3. QED
    BY <1>4, <2>1, <2>2
<1>13. ASSUME NEW j, at[j] = "none", Jobs!Created(j) \/ Jobs!NotCreated(j),
              serial' = serial, got' = got, cache' = cache, op' = op, outside' = outside,
              page' = page \/ page'.at # "status"
       PROVE  Card'
  <2>1. outcome' = outcome \/ (outcome' \in Outcomes /\ outcome'.is # "done")
    BY <1>0, <1>13 DEF Jobs!Created, Jobs!NotCreated, Outcomes
  <2>2. at'["esim"] = at["esim"] \/ at["esim"] \notin {"lists", "ends"}
    BY <1>0, <1>13 DEF Jobs!Created, Jobs!NotCreated
  <2>3. QED
    BY <1>13, <2>1, <2>2, CardKept
<1>14. CASE Jobs!Create
  <2>1. /\ serial' = serial /\ got' = got /\ cache' = cache /\ op' = op /\ outside' = outside
        /\ page' = Jobs!Rest /\ page.at = "create"
        /\ Jobs!Created(page.what) \/ Jobs!NotCreated(page.what)
    BY <1>14 DEF Jobs!Create
  <2>2. page'.at # "status" /\ at[page.what] = "none"
    BY <2>1, AtRest DEF Jobs!JobsInv, Jobs!OneFlag
  <2>3. QED
    BY <1>13, <2>1, <2>2
<1>15. CASE Jobs!CreateDue
  <2>1. /\ serial' = serial /\ got' = got /\ cache' = cache /\ op' = op /\ outside' = outside
        /\ page' = page /\ sched.at = "create"
        /\ Jobs!Created(sched.what) \/ Jobs!NotCreated(sched.what)
    BY <1>15 DEF Jobs!CreateDue
  <2>2. at[sched.what] = "none"
    BY <2>1 DEF Jobs!JobsInv, Jobs!OneFlag
  <2>3. QED
    BY <1>13, <2>1, <2>2
<1>16. QED
  BY <1>1, <1>2, <1>3, <1>5, <1>6, <1>7, <1>8, <1>9, <1>10, <1>11, <1>12, <1>14, <1>15
  DEF Jobs!At, Jobs!Flight, Jobs!Control, Jobs!Ussd, Jobs!ApplySteps, Jobs!PageSteps

\* The steps that change the card, read its list or end with it.
LEMMA CardSteps ==
  ASSUME Jobs!JobsInv,
         \/ \E j \in Jobs!Jobs : Jobs!Work(j)
         \/ \E o \in {"refresh", "info", "change"} : Jobs!StartEsim(o)
         \/ Jobs!EsimSteps
  PROVE  Card'
<1>0. /\ at \in [Jobs!Owners -> States] /\ "esim" \in Jobs!Owners
      /\ \A j \in Jobs!Jobs : j \in Jobs!Owners
  BY JobsTypesAre DEF Jobs!JobsInv, JobsTypes, Jobs!Owners, Jobs!Jobs
<1>c. Card /\ page.n \in Nat
  BY CardIs
<1>n. cache.serial \in Nat /\ serial \in Nat
  BY <1>c DEF Card, Caches
<1>l. /\ cache.serial <= serial
      /\ outcome.is = "done" => outcome.serial <= cache.serial
      /\ page.at = "status" => page.n <= cache.serial
      /\ cache.list = "stale" =>
           \/ outside \/ at["esim"] = "lists"
           \/ at["esim"] = "ends" /\ got \notin {"failed", "eid"}
  BY <1>c DEF Card, Jobs!ListFollows
<1> USE DEF Jobs!bounds, Jobs!esim
<1>1. ASSUME NEW j \in Jobs!Jobs, Jobs!Work(j)
      PROVE  Card'
  <2>1. /\ serial' = serial /\ got' = got /\ op' = op /\ outcome' = outcome /\ page' = page
        /\ at[j] = "works" /\ at' = [at EXCEPT ![j] = "ends"] /\ j # "esim"
        /\ Jobs!CardChanges(TRUE) \/ UNCHANGED <<cache, outside>>
    BY <1>1 DEF Jobs!Work
  <2>2. at'["esim"] = at["esim"]
    BY <1>0, <2>1
  <2>3. CASE UNCHANGED <<cache, outside>>
    BY <2>1, <2>2, <2>3, CardKept
  <2>4. CASE Jobs!CardChanges(TRUE)
    <3>1. cache' = [cache EXCEPT !.list = Jobs!Aged(@)] /\ outside'
      BY <2>4 DEF Jobs!CardChanges
    <3>2. cache' \in Caches /\ cache'.serial = cache.serial
      BY <1>c, <3>1, NewCaches DEF Card
    <3>3. Jobs!ListFollows'
      BY <1>l, <2>1, <3>1, <3>2 DEF Jobs!ListFollows
    <3>4. QED
      BY <1>c, <2>1, <3>2, <3>3 DEF Card
  <2>5. QED
    BY <2>1, <2>3, <2>4
<1>2. ASSUME NEW o \in {"refresh", "info", "change"}, Jobs!StartEsim(o)
      PROVE  Card'
  <2>1. /\ serial' = serial + 1 /\ got' = "none" /\ op' = o /\ outcome' = Jobs!NoOutcome
        /\ cache' = cache /\ outside' = outside /\ at' = at
        /\ page' = [Jobs!Rest EXCEPT !.at = "create", !.what = "esim"]
        /\ Jobs!Claim("esim", "queued")
    BY <1>2 DEF Jobs!StartEsim, Jobs!Reset
  <2>2. page'.at # "status"
    <3>1. page'.at = "create"
      BY <2>1, PageFields DEF Jobs!Jobs
    <3>2. QED
      BY <3>1
  <2>3. outcome' \in Outcomes /\ outcome'.is # "done"
    BY <2>1, AtRest
  <2>4. at["esim"] = "none"
    BY <1>0, <2>1, JobsClaims
  <2>5. cache'.serial <= serial'
    BY <1>l, <1>n, <2>1
  <2>6. cache'.list = "stale" => outside'
    BY <1>l, <2>1, <2>4
  <2>7. Jobs!ListFollows'
    BY <2>2, <2>3, <2>5, <2>6 DEF Jobs!ListFollows
  <2>8. serial' \in Nat
    BY <1>n, <2>1
  <2>9. QED
    BY <1>c, <2>1, <2>3, <2>7, <2>8 DEF Card
<1>3. CASE Jobs!Refresh \/ Jobs!Info
  <2>1. /\ serial' = serial /\ op' = op /\ outcome' = outcome /\ page' = page
        /\ cache' = cache /\ outside' = outside /\ at["esim"] = "works"
        /\ got' \in {"fresh", "failed", "eid"}
    BY <1>3 DEF Jobs!Refresh, Jobs!Info, Jobs!EsimGoesTo
  <2>2. Jobs!ListFollows'
    BY <1>l, <2>1 DEF Jobs!ListFollows
  <2>3. QED
    BY <1>c, <2>1, <2>2 DEF Card
<1>4. CASE Jobs!Change
  <2>1. /\ serial' = serial /\ op' = op /\ outcome' = outcome /\ page' = page
        /\ at["esim"] = "works"
    BY <1>4 DEF Jobs!Change, Jobs!EsimGoesTo
  <2>2. /\ got' \in {"none", "fresh", "eid", "failed"}
        /\ \/ cache' = cache /\ outside' = outside
           \/ cache' = [cache EXCEPT !.list = Jobs!Aged(@)] /\ (outside' \/ at'["esim"] = "lists")
    <3>1. CASE Jobs!EsimGoesTo("lists") /\ Jobs!CardChanges(FALSE) /\ UNCHANGED got
      BY <1>0, <1>c, <3>1 DEF Jobs!EsimGoesTo, Jobs!CardChanges, Card
    <3>2. CASE /\ Jobs!EsimGoesTo("ends") /\ got' = "failed"
               /\ Jobs!CardChanges(TRUE) \/ UNCHANGED <<cache, outside>>
      BY <3>2 DEF Jobs!CardChanges
    <3>3. QED
      BY <1>4, <3>1, <3>2 DEF Jobs!Change
  <2>3. cache' \in Caches /\ cache'.serial = cache.serial
    BY <1>c, <2>2, NewCaches DEF Card
  <2>4. cache'.list = "stale" => outside' \/ at'["esim"] = "lists"
    BY <1>l, <2>1, <2>2
  <2>5. Jobs!ListFollows'
    BY <1>l, <2>1, <2>3, <2>4 DEF Jobs!ListFollows
  <2>6. QED
    BY <1>c, <2>1, <2>2, <2>3, <2>5 DEF Card
<1>5. CASE Jobs!ListAgain
  <2>1. /\ serial' = serial /\ op' = op /\ outcome' = outcome /\ page' = page
        /\ cache' = cache /\ outside' = outside
        /\ got' \in {"fresh", "none"} /\ at' = [at EXCEPT !["esim"] = "ends"]
    BY <1>5 DEF Jobs!ListAgain, Jobs!ReadsList
  <2>2. at'["esim"] = "ends"
    BY <1>0, <2>1
  <2>3. Jobs!ListFollows'
    BY <1>l, <2>1, <2>2 DEF Jobs!ListFollows
  <2>4. QED
    BY <1>c, <2>1, <2>3 DEF Card
<1>6. CASE Jobs!EndEsim
  <2>1. /\ serial' = serial /\ op' = "none" /\ got' = "none" /\ page' = page
        /\ cache' = Jobs!NewCache /\ at["esim"] = "ends"
        /\ outside' = (outside /\ got \in {"failed", "eid"})
        /\ outcome' = [serial |-> serial, is |-> IF got = "failed" THEN "failed" ELSE "done"]
    BY <1>6 DEF Jobs!EndEsim
  <2>2. /\ cache' \in Caches
        /\ cache'.serial = (IF got = "failed" THEN cache.serial ELSE serial)
        /\ cache'.list = (IF got \in {"failed", "eid"} THEN cache.list ELSE got)
    BY <1>c, <2>1, NewCaches DEF Card
  <2>3. outcome' \in Outcomes
    BY <1>n, <2>1 DEF Outcomes
  <2>4. outcome'.serial = serial /\ (outcome'.is = "done" => got # "failed")
    BY <2>1
  <2>5. /\ cache'.serial <= serial'
        /\ outcome'.is = "done" => outcome'.serial <= cache'.serial
        /\ page'.at = "status" => page'.n <= cache'.serial
    BY <1>c, <1>n, <1>l, <2>1, <2>2, <2>4
  <2>6. cache'.list = "stale" => outside'
    <3>1. CASE got \in {"failed", "eid"}
      BY <1>l, <2>1, <2>2, <3>1
    <3>2. CASE got \notin {"failed", "eid"}
      BY <1>c, <2>2, <3>2 DEF Card
    <3>3. QED
      BY <3>1, <3>2
  <2>7. Jobs!ListFollows'
    BY <2>5, <2>6 DEF Jobs!ListFollows
  <2>8. QED
    BY <1>n, <2>1, <2>2, <2>3, <2>7 DEF Card
<1>7. QED
  BY <1>1, <1>2, <1>3, <1>4, <1>5, <1>6 DEF Jobs!EsimSteps

\* The counters and who has begun.
LEMMA JobsCounters ==
  ASSUME Jobs!JobsInv, Jobs!Next \/ UNCHANGED jobsVars, ~Jobs!BootState
  PROVE  /\ waiting' \in Nat /\ requests' \in Nat /\ starts' \in Nat
         /\ waiting' <= requests' /\ requests' <= MaxRequests
         /\ since' \subseteq Jobs!Owners
<1>0. /\ waiting \in Nat /\ requests \in Nat /\ starts \in Nat /\ MaxRequests \in Nat
      /\ waiting <= requests /\ requests <= MaxRequests /\ since \subseteq Jobs!Owners
  BY JobsTypesAre, JobsNumbers DEF Jobs!JobsInv, JobsTypes
<1> DEFINE Counted == /\ waiting' \in Nat /\ requests' \in Nat /\ starts' \in Nat
                      /\ waiting' <= requests' /\ requests' <= MaxRequests
<1>1. Counted
  <2> USE DEF Jobs!bounds, Jobs!esim
  <2>1. ASSUME NEW j \in Jobs!Jobs, Jobs!StartJob(j) \/ Jobs!StartDue(j) \/ Jobs!JobSteps(j)
        PROVE  Counted
    <3>1. CASE Jobs!StartJob(j)
      BY <1>0, <3>1 DEF Jobs!StartJob, Jobs!Request
    <3>2. CASE Jobs!StartDue(j)
      BY <1>0, <3>2 DEF Jobs!StartDue
    <3>3. CASE Jobs!JobSteps(j)
      BY <1>0, <3>3 DEF Jobs!JobSteps, Jobs!Begin, Jobs!Work, Jobs!End
    <3>4. QED
      BY <2>1, <3>1, <3>2, <3>3
  <2>2. ASSUME NEW o \in {"refresh", "info", "change"}, Jobs!StartEsim(o)
        PROVE  Counted
    BY <1>0, <2>2 DEF Jobs!StartEsim, Jobs!Request
  <2>3. CASE Jobs!EsimSteps
    BY <1>0, <2>3 DEF Jobs!EsimSteps, Jobs!Refresh, Jobs!Info, Jobs!Change, Jobs!ListAgain,
                      Jobs!EndEsim
  <2>4. CASE Jobs!PageSteps \/ Jobs!CreateDue \/ Jobs!ReadStatus \/ Jobs!FoundIdle \/ UNCHANGED jobsVars
    BY <1>0, <2>4 DEF Jobs!PageSteps, Jobs!Create, Jobs!SendStatus, Jobs!Command, Jobs!FlightUnknown,
                      Jobs!EndAction, Jobs!CreateDue, Jobs!ReadStatus, Jobs!FoundIdle, jobsVars
  <2>5. CASE Jobs!ApplySteps
    BY <1>0, <2>5 DEF Jobs!ApplySteps, Jobs!Apply, Jobs!ApplyNotNow, Jobs!EndApply
  <2>6. CASE Jobs!At \/ Jobs!Flight \/ Jobs!Control \/ Jobs!Ussd
    BY <1>0, <2>6 DEF Jobs!At, Jobs!Flight, Jobs!Control, Jobs!Ussd, Jobs!BeginAction, Jobs!Request
  <2>7. CASE Jobs!SaveSim \/ Jobs!AskRestart
    BY <1>0, <2>7 DEF Jobs!SaveSim, Jobs!AskRestart, Jobs!Request
  <2>8. QED
    BY <2>1, <2>2, <2>3, <2>4, <2>5, <2>6, <2>7
    DEF Jobs!Next, Jobs!RestartAsked, Jobs!RestartIdle
<1>2. since' = {} \/ since' = since \/ \E o \in Jobs!Owners : since' = since \cup {o}
  <2> USE DEF Jobs!bounds, Jobs!esim, Jobs!Claim
  <2>1. ASSUME NEW j \in Jobs!Jobs, Jobs!StartJob(j) \/ Jobs!StartDue(j) \/ Jobs!JobSteps(j)
        PROVE  since' = since \/ \E o \in Jobs!Owners : since' = since \cup {o}
    BY <2>1 DEF Jobs!StartJob, Jobs!StartDue, Jobs!JobSteps, Jobs!Begin, Jobs!Work, Jobs!End,
                Jobs!Owners
  <2>2. ASSUME NEW o \in {"refresh", "info", "change"}, Jobs!StartEsim(o)
        PROVE  \E p \in Jobs!Owners : since' = since \cup {p}
    BY <2>2 DEF Jobs!StartEsim, Jobs!Owners, Jobs!Jobs
  <2>3. CASE Jobs!EsimSteps
    BY <2>3 DEF Jobs!EsimSteps, Jobs!Refresh, Jobs!Info, Jobs!Change, Jobs!ListAgain, Jobs!EndEsim
  <2>4. CASE Jobs!PageSteps \/ Jobs!CreateDue \/ Jobs!ReadStatus \/ Jobs!FoundIdle \/ UNCHANGED jobsVars
    BY <2>4 DEF Jobs!PageSteps, Jobs!Create, Jobs!SendStatus, Jobs!Command, Jobs!FlightUnknown,
                Jobs!EndAction, Jobs!CreateDue, Jobs!ReadStatus, Jobs!FoundIdle, jobsVars
  <2>5. CASE Jobs!ApplySteps
    BY <2>5 DEF Jobs!ApplySteps, Jobs!Apply, Jobs!ApplyNotNow, Jobs!EndApply, Jobs!Owners
  <2>6. CASE Jobs!At \/ Jobs!Flight \/ Jobs!Control \/ Jobs!Ussd
    BY <2>6 DEF Jobs!At, Jobs!Flight, Jobs!Control, Jobs!Ussd, Jobs!BeginAction, Jobs!Owners
  <2>7. CASE Jobs!SaveSim \/ Jobs!AskRestart
    BY <2>7 DEF Jobs!SaveSim, Jobs!AskRestart
  <2>8. QED
    BY <2>1, <2>2, <2>3, <2>4, <2>5, <2>6, <2>7
    DEF Jobs!Next, Jobs!RestartAsked, Jobs!RestartIdle
<1>3. QED
  BY <1>0, <1>1, <1>2

JobsParts ==
  /\ JobsTypes /\ {leaving, outside} \subseteq BOOLEAN
  /\ \A o \in Jobs!Owners : at[o] # "none" => flag[o] # "free"

LEMMA JobsPartsTyped == JobsParts => Jobs!Typed
BY JobsTypesAre DEF JobsParts

LEMMA JobsStep ==
  ASSUME Jobs!JobsInv, Jobs!Next \/ UNCHANGED jobsVars
  PROVE  Jobs!JobsInv'
<1>1. CASE Jobs!BootState
  BY <1>1, JobsBoot
<1>2. CASE ~Jobs!BootState
  <2>1. Card'
    BY <1>2, CardRests, CardSteps
    DEF Jobs!Next, Jobs!JobSteps, Jobs!RestartAsked, Jobs!RestartIdle
  <2>2. Held' /\ page' \in Pages /\ sched' \in Scheds
    BY <1>2, JobsHeld, JobsRecords
  <2>3. JobsTypes'
    BY <1>2, <2>1, <2>2, JobsCounters DEF JobsTypes, Held, Card
  <2>4. /\ {leaving, outside}' \subseteq BOOLEAN
        /\ \A o \in Jobs!Owners : at'[o] # "none" => flag'[o] # "free"
    BY <2>2, JobsFlags DEF Held
  <2>5. JobsParts' => Jobs!Typed'
    BY JobsPartsTyped, PTL
  <2>6. Jobs!Typed'
    BY <2>3, <2>4, <2>5 DEF JobsParts
  <2>7. Jobs!FlagsOwned'
    BY <1>2, JobsOwned
  <2>8. QED
    BY <2>1, <2>2, <2>6, <2>7 DEF Jobs!JobsInv, Held, Card
<1>3. QED
  BY <1>1, <1>2

\* The cardinality of the module of the web server is the library's.
LEMMA JobsCardinality == \A S : Jobs!Cardinality(S) = Cardinality(S)
BY DEF Jobs!Cardinality, Cardinality

\* What a behaviour of the web server's jobs shows in every state ...
LEMMA JobsShown ==
  Jobs!JobsInv => Jobs!TypeOK /\ Jobs!OneOwner /\ Jobs!FlagsOwned /\ Jobs!ListIsTheCards
<1> SUFFICES ASSUME Jobs!JobsInv
             PROVE  Jobs!TypeOK /\ Jobs!OneOwner /\ Jobs!FlagsOwned /\ Jobs!ListIsTheCards
  OBVIOUS
<1>1. Jobs!TypeOK
  BY DEF Jobs!JobsInv, Jobs!Typed
<1>2. Jobs!OneOwner
  <2> DEFINE atWork == {o \in Jobs!Owners : at[o] # "none"}
  <2>1. \A o, p \in atWork : o = p
    BY JobsTypesAre DEF Jobs!JobsInv, Jobs!OneFlag
  <2>2. atWork = {} \/ \E o : atWork = {o}
    BY <2>1
  <2> HIDE DEF atWork
  <2>3. Cardinality(atWork) <= 1
    <3>1. Cardinality(atWork) = 0 \/ Cardinality(atWork) = 1
      BY <2>2, FS_EmptySet, FS_Singleton
    <3>2. QED
      BY <3>1
  <2> USE DEF atWork
  <2>4. QED
    BY <2>3, JobsCardinality DEF Jobs!OneOwner
<1>3. Jobs!ListIsTheCards
  BY DEF Jobs!JobsInv, Jobs!ListFollows, Jobs!ListIsTheCards
<1>4. Jobs!FlagsOwned
  BY DEF Jobs!JobsInv
<1>5. QED
  BY <1>1, <1>2, <1>3, <1>4

\* ... and with each of its steps.
LEMMA JobsSteps ==
  ASSUME Jobs!JobsInv
  PROVE  /\ Jobs!SendStatus => page.n <= cache.serial
         /\ Jobs!RestartIdle => {o \in Jobs!Owners : at[o] # "none"} \subseteq since
<1>1. Jobs!SendStatus => page.n <= cache.serial
  BY DEF Jobs!SendStatus, Jobs!JobsInv, Jobs!ListFollows
<1>2. Jobs!RestartIdle => {o \in Jobs!Owners : at[o] # "none"} \subseteq since
  BY JobsTypesAre DEF Jobs!RestartIdle, Jobs!JobsInv, Jobs!OneFlag
<1>3. QED
  BY <1>1, <1>2

\* One user of the modem at a time, a list that is the card's, a status that fits the
\* list and restarts that cut off only what began after the device was found idle: in
\* every behaviour of the web server's jobs (idf_web.cpp:692-725, 2320-2338, 2763-2784,
\* 3257-3263).
THEOREM OneUserAtATime == SumSpec => OneOwner
<1>1. SumInit => Jobs!JobsInv
  BY JobsInit
<1>2. Jobs!JobsInv /\ [SumNext]_sumVars => Jobs!JobsInv'
  <2> SUFFICES ASSUME Jobs!JobsInv, [SumNext]_sumVars PROVE Jobs!JobsInv'
    OBVIOUS
  <2>1. Jobs!Next \/ UNCHANGED jobsVars
    BY OneServiceRuns
  <2>2. QED
    BY <2>1, JobsStep
<1>3. Jobs!JobsInv =>
        (runs = "Jobs" =>
           Jobs!TypeOK /\ Jobs!OneOwner /\ Jobs!FlagsOwned /\ Jobs!ListIsTheCards)
  BY JobsShown
<1>4. Jobs!JobsInv => [Jobs!SendStatus => page.n <= cache.serial]_(Jobs!vars)
  BY JobsSteps
<1>5. Jobs!JobsInv => [Jobs!RestartIdle => {o \in Jobs!Owners : at[o] # "none"} \subseteq since]_(Jobs!vars)
  BY JobsSteps
<1>6. QED
  BY <1>1, <1>2, <1>3, <1>4, <1>5, PTL DEF SumSpec, OneOwner, Jobs!StatusFitsList, Jobs!RestartCutsNothing

-----------------------------------------------------------------------------
(* The intake of the Linux port.                                           *)

Stores == [entries : SUBSET [id : Nat, shows : SUBSET Intake!Messages], seq : Nat]
Wishes == [act : {"tell", "send", "reset"}, of : Intake!Commands]
Numbered(s) == \A e \in s.entries : e.id \in 1 .. s.seq

\* The inductive invariant by what it is about: the modem and the loop,
Mailbox ==
  /\ coming \subseteq Intake!Messages /\ modem \subseteq Intake!Messages /\ coming \cap modem = {}
  /\ batch \subseteq modem /\ cur \subseteq modem /\ cur \cap batch = {}
  /\ intakePc \in {"collect", "each", "delete", "rest", "stopped"}
  /\ (intakePc = "delete") <=> (cur # {})
\* the store and its file,
Books ==
  /\ store \in Stores /\ file \in Stores /\ Numbered(store) /\ Numbered(file)
  /\ DOMAIN given \subseteq 1 .. store.seq
  /\ \A i \in DOMAIN given : Cardinality(given[i]) = 1
  /\ held \subseteq Parts /\ held # Parts
  /\ Intake!KeptInStore
\* the commands,
Turns ==
  /\ intakeQueue \in Seq(Wishes)
  /\ done \in [Intake!Commands -> Nat] /\ again \in [Intake!Commands -> Nat]
  /\ Intake!OnceEach /\ Intake!OneWaits
\* and the flags.
Switches == {smsBusy, resetPending, stale} \subseteq BOOLEAN

LEMMA IntakeCardinality == \A S : Intake!Cardinality(S) = Cardinality(S)
BY DEF Intake!Cardinality, Cardinality

LEMMA StoreTypes ==
  ASSUME NEW s
  PROVE  s \in Stores /\ Numbered(s) <=>
           /\ s \in [entries : SUBSET [id : Nat, shows : SUBSET Intake!Messages], seq : Nat]
           /\ \A e \in s.entries : e.id \in 1 .. s.seq /\ e.shows \subseteq Intake!Messages
<1>1. ASSUME s \in Stores PROVE \A e \in s.entries : e.shows \subseteq Intake!Messages
  BY <1>1 DEF Stores
<1>2. QED
  BY <1>1 DEF Stores, Numbered

IntakeParted == Mailbox /\ Books /\ Turns /\ Switches
LEMMA IntakeIsParted == Intake!IntakeInv <=> IntakeParted
<1>1. ASSUME Intake!IntakeInv PROVE IntakeParted
  <2>1. Intake!Typed /\ Intake!TypeOK
    BY <1>1 DEF Intake!IntakeInv, Intake!Typed
  <2>2. Switches
    BY <2>1, Zenon DEF Intake!TypeOK, Switches
  <2>3. Mailbox
    BY <2>1 DEF Intake!Typed, Intake!TypeOK, Mailbox
  <2>4. /\ store \in Stores /\ Numbered(store)
        /\ file \in Stores /\ Numbered(file)
    BY <2>1, StoreTypes DEF Intake!Typed, Intake!TypeOK
  <2>5. Books
    BY <1>1, <2>1, <2>4, IntakeCardinality
    DEF Intake!IntakeInv, Intake!Typed, Intake!TypeOK, Intake!IdsNotReused, Books
  <2>6. Turns
    BY <1>1, <2>1 DEF Intake!IntakeInv, Intake!Typed, Turns, Wishes
  <2>7. QED
    BY <2>2, <2>3, <2>5, <2>6 DEF IntakeParted
<1>2. ASSUME IntakeParted PROVE Intake!IntakeInv
  <2>1. {smsBusy, resetPending, stale} \subseteq BOOLEAN
    BY <1>2, Zenon DEF IntakeParted, Switches
  <2>2. /\ {store, file} \subseteq [entries : SUBSET [id : Nat, shows : SUBSET Intake!Messages], seq : Nat]
        /\ \A s \in {store, file} : \A e \in s.entries : e.id \in 1 .. s.seq /\ e.shows \subseteq Intake!Messages
    BY <1>2, StoreTypes DEF IntakeParted, Books
  <2>3. \A i \in DOMAIN intakeQueue : intakeQueue[i].act \in {"tell", "send", "reset"} /\ intakeQueue[i].of \in Intake!Commands
    <3>1. \A i \in DOMAIN intakeQueue : intakeQueue[i] \in Wishes
      BY <1>2 DEF IntakeParted, Turns
    <3>2. QED
      BY <3>1 DEF Wishes
  <2>4. Intake!TypeOK
    BY <1>2, <2>1, <2>2, <2>3 DEF IntakeParted, Mailbox, Books, Intake!TypeOK
  <2>5. Intake!Typed
    BY <1>2, <2>2, <2>4 DEF IntakeParted, Mailbox, Books, Turns, Intake!Typed, Wishes
  <2>6. Intake!IdsNotReused
    BY <1>2, IntakeCardinality DEF IntakeParted, Books, Intake!IdsNotReused
  <2>7. QED
    BY <1>2, <2>5, <2>6 DEF IntakeParted, Books, Turns, Intake!IntakeInv
<1>3. QED
  BY <1>1, <1>2

LEMMA IntakeInit == SumInit => IntakeParted
<1> SUFFICES ASSUME SumInit PROVE IntakeParted
  OBVIOUS
<1>1. Intake!Init /\ Intake!KindsApart /\ Intake!PartsExist
  BY IntakeAssumption DEF SumInit
<1>2. Mailbox
  BY <1>1 DEF Intake!Init, Intake!Messages, Mailbox
<1>3. Switches
  BY <1>1, Zenon DEF Intake!Init, Switches
<1>4. store = file /\ store.entries = {} /\ store.seq = 0 /\ store \in Stores
  BY <1>1 DEF Intake!Init, Intake!Empty, Stores
<1>5. given = [i \in {} |-> {}]
  BY <1>1 DEF Intake!Init
<1>6. DOMAIN given = {}
  BY <1>5
<1>7. \A m \in Plain \cup Parts : m \in Intake!Ahead
  BY <1>1 DEF Intake!Init, Intake!KindsApart, Intake!Ahead, Intake!Messages
<1>8. Books
  BY <1>1, <1>4, <1>6, <1>7 DEF Intake!Init, Intake!PartsExist, Intake!KeptInStore, Books, Numbered
<1>9. intakeQueue = <<>> /\ done = [m \in Intake!Commands |-> 0] /\ again = [m \in Intake!Commands |-> 0]
      /\ ~smsBusy
  BY <1>1 DEF Intake!Init
<1>10. \A m \in Intake!Commands : ~Intake!WaitsFor(m)
  BY <1>9 DEF Intake!WaitsFor
<1>11. Intake!OnceEach
  BY <1>9, <1>10 DEF Intake!OnceEach
<1>12. Intake!OneWaits
  BY <1>9 DEF Intake!OneWaits
<1>13. intakeQueue \in Seq(Wishes)
  BY <1>9
<1>14. QED
  BY <1>2, <1>3, <1>8, <1>9, <1>11, <1>12, <1>13 DEF Turns, IntakeParted

\* The modem and the loop.
LEMMA MailboxKept ==
  ASSUME Mailbox, Intake!Next \/ UNCHANGED intakeVars
  PROVE  Mailbox'
<1> USE DEF Mailbox, Intake!loop
<1>1. CASE Intake!Deliver
  <2>1. PICK m \in coming : coming' = coming \ {m} /\ modem' = modem \cup {m}
    BY <1>1 DEF Intake!Deliver
  <2>2. /\ intakePc = "collect" /\ intakePc' = intakePc /\ batch' = batch /\ cur' = cur
    BY <1>1 DEF Intake!Deliver
  <2>3. QED
    BY <2>1, <2>2
<1>2. CASE Intake!Collect
  BY <1>2 DEF Intake!Collect, Intake!List, Intake!NotListed, Intake!Listed
<1>3. CASE Intake!LookAt
  <2>1. PICK m \in batch : batch' = batch \ {m} /\ cur' = {m} /\ intakePc' = "delete"
    BY <1>3 DEF Intake!LookAt
  <2>2. coming' = coming /\ modem' = modem
    BY <1>3 DEF Intake!LookAt
  <2>3. QED
    BY <2>1, <2>2
<1>4. CASE Intake!Delete
  BY <1>4 DEF Intake!Delete, Intake!DeleteIt
<1>5. CASE Intake!AllLookedAt \/ Intake!Expire \/ Intake!Round \/ Intake!DeleteEntry \/ Intake!Rewrite
  BY <1>5 DEF Intake!AllLookedAt, Intake!Expire, Intake!Round, Intake!DeleteEntry, Intake!Rewrite
<1>6. CASE Intake!CarryOut
  <2>1. /\ intakePc = "rest" /\ intakePc' \in {"collect", "stopped"}
        /\ UNCHANGED <<coming, modem, batch, cur>>
    BY <1>6 DEF Intake!CarryOut
  <2>2. QED
    BY <2>1
<1>7. CASE Intake!Start
  BY <1>7 DEF Intake!Start
<1>8. CASE UNCHANGED intakeVars
  BY <1>8 DEF intakeVars
<1>9. QED
  BY <1>1, <1>2, <1>3, <1>4, <1>5, <1>6, <1>7, <1>8
  DEF Intake!Next, Intake!Loop, Intake!Crash, Intake!Respawn

\* The flags.
LEMMA SwitchesKept ==
  ASSUME Switches, Intake!Next \/ UNCHANGED intakeVars
  PROVE  Switches'
<1>1. CASE Intake!LookAt
  BY <1>1, Zenon DEF Switches, Intake!LookAt, Intake!Handle, Intake!Accept, Intake!Add, Intake!Persist, Intake!admin
<1>2. CASE Intake!Expire
  BY <1>2, Zenon DEF Switches, Intake!Expire, Intake!Add, Intake!Persist, Intake!admin
<1>3. CASE Intake!CarryOut
  BY <1>3, Zenon DEF Switches, Intake!CarryOut, Intake!FreeSms, Intake!Persist
<1>4. CASE Intake!DeleteEntry
  BY <1>4, Zenon DEF Switches, Intake!DeleteEntry, Intake!Persist, Intake!admin
<1>5. CASE Intake!Rewrite
  BY <1>5, Zenon DEF Switches, Intake!Rewrite, Intake!Persist, Intake!admin
<1>6. CASE Intake!Start
  BY <1>6, Zenon DEF Switches, Intake!Start, Intake!Restored
<1>7. CASE Intake!Deliver \/ Intake!Collect \/ Intake!Delete \/ Intake!AllLookedAt \/ Intake!Round
  BY <1>7, Zenon DEF Switches, Intake!Deliver, Intake!Collect, Intake!List, Intake!NotListed, Intake!Delete,
   Intake!AllLookedAt,
                     Intake!Round, Intake!admin, Intake!ghosts
<1>8. CASE UNCHANGED intakeVars
  BY <1>8, Zenon DEF Switches, intakeVars
<1>9. QED
  BY <1>1, <1>2, <1>3, <1>4, <1>5, <1>6, <1>7, <1>8
  DEF Intake!Next, Intake!Loop, Intake!Crash, Intake!Respawn

\* What a write leaves: the file is the store, or lags behind.
LEMMA Persists ==
  ASSUME Books, NEW s \in Stores, Numbered(s), Intake!Persist(s)
  PROVE  /\ file' \in Stores /\ Numbered(file')
         /\ ~stale' => file' = s
BY DEF Books, Intake!Persist

LEMMA IntakeAdds ==
  ASSUME Books, NEW shows \in SUBSET Intake!Messages, Intake!Add(shows)
  PROVE  /\ store' \in Stores /\ file' \in Stores /\ Numbered(store') /\ Numbered(file')
         /\ DOMAIN given' \subseteq 1 .. store'.seq
         /\ \A i \in DOMAIN given' : Cardinality(given'[i]) = 1
         /\ Intake!ShownIn(store') = Intake!ShownIn(store) \cup shows
         /\ ~stale' => file' = store'
<1> DEFINE new == store.seq + 1
           entry == [id |-> new, shows |-> shows]
<1>1. /\ store' = Intake!Added(store, shows) /\ Intake!Persist(Intake!Added(store, shows))
      /\ given' = [i \in DOMAIN given \cup {new} |->
                     (IF i \in DOMAIN given THEN given[i] ELSE {}) \cup (IF i = new THEN {shows} ELSE {})]
  BY DEF Intake!Add, Intake!NextId
<1>2. store \in Stores /\ Numbered(store) /\ store.seq \in Nat
  BY DEF Books, Stores
<1>3. Intake!Added(store, shows) = [entries |-> store.entries \cup {entry}, seq |-> new]
  BY DEF Intake!Added, Intake!NextId
<1>4. new \in Nat /\ new = store.seq + 1 /\ new \notin DOMAIN given
  BY <1>2 DEF Books
<1>5. entry \in [id : Nat, shows : SUBSET Intake!Messages] /\ entry.id = new /\ entry.shows = shows
  BY <1>4
<1> HIDE DEF new, entry
<1>6. store' = [entries |-> store.entries \cup {entry}, seq |-> new]
  BY <1>1, <1>3
<1>7. store'.entries = store.entries \cup {entry} /\ store'.seq = new
  BY <1>6
<1>8. store' \in Stores
  BY <1>2, <1>4, <1>5, <1>6 DEF Stores
<1>9. Numbered(store')
  <2>1. \A e \in store.entries : e.id \in 1 .. new
    BY <1>2, <1>4 DEF Numbered
  <2>2. entry.id \in 1 .. new
    BY <1>2, <1>4, <1>5
  <2>3. QED
    BY <1>7, <2>1, <2>2 DEF Numbered
<1>10. file' \in Stores /\ Numbered(file') /\ (~stale' => file' = store')
  BY <1>1, <1>8, <1>9, Persists
<1>11. DOMAIN given' = DOMAIN given \cup {new}
  BY <1>1
<1>12. DOMAIN given' \subseteq 1 .. store'.seq
  <2>1. DOMAIN given \subseteq 1 .. new /\ new \in 1 .. new
    BY <1>2, <1>4 DEF Books
  <2>2. QED
    BY <1>7, <1>11, <2>1
<1>13. \A i \in DOMAIN given' : Cardinality(given'[i]) = 1
  <2>1. \A i \in DOMAIN given : given'[i] = given[i]
    BY <1>1, <1>4
  <2>2. given'[new] = {shows}
    BY <1>1, <1>4
  <2>3. Cardinality({shows}) = 1
    BY FS_Singleton
  <2>4. QED
    BY <1>11, <2>1, <2>2, <2>3 DEF Books
<1>14. Intake!ShownIn(store') = Intake!ShownIn(store) \cup shows
  BY <1>5, <1>7 DEF Intake!ShownIn
<1>15. QED
  BY <1>8, <1>9, <1>10, <1>12, <1>13, <1>14

\* What is left out by LookAt is handled, or waits in the assembler.
LEMMA BooksLookAt ==
  ASSUME Mailbox, Books, Intake!LookAt
  PROVE  Books'
<1>1. PICK m \in batch :
        /\ cur' = {m}
        /\ \/ /\ m \in Parts /\ ~Intake!Complete(m) /\ held' = held \cup {m}
              /\ UNCHANGED <<wiped, store, file, stale, given>>
           \/ /\ ~(m \in Parts /\ ~Intake!Complete(m))
              /\ Intake!Handle(m) /\ held' = IF m \in Parts THEN {} ELSE held
  BY DEF Intake!LookAt
<1>2. coming' = coming /\ modem' = modem /\ gone' = gone /\ intakePc = "each"
  BY DEF Intake!LookAt
<1>3. m \in modem /\ m \in Intake!Messages /\ m \notin coming /\ cur = {}
  BY <1>2 DEF Mailbox
<1>4. Intake!Ahead' = Intake!Ahead \ {m}
  BY <1>1, <1>2, <1>3 DEF Intake!Ahead
<1>5. /\ \A n \in (Plain \cup Parts) \ Intake!Ahead : n \in Intake!ShownIn(store) \cup held \cup wiped \cup gone
      /\ ~stale => file = store
  BY DEF Books, Intake!KeptInStore
<1>6. Intake!KindsApart /\ Parts # {}
  BY IntakeAssumption DEF Intake!PartsExist
<1>7. CASE /\ m \in Parts /\ ~Intake!Complete(m) /\ held' = held \cup {m}
           /\ UNCHANGED <<wiped, store, file, stale, given>>
  <2>1. held' \subseteq Parts /\ held' # Parts
    BY <1>7 DEF Books, Intake!Complete
  <2>2. Intake!KeptInStore'
    BY <1>2, <1>4, <1>5, <1>7 DEF Intake!KeptInStore
  <2>3. QED
    BY <1>7, <2>1, <2>2 DEF Books
<1>8. CASE /\ ~(m \in Parts /\ ~Intake!Complete(m))
           /\ Intake!Handle(m) /\ held' = IF m \in Parts THEN {} ELSE held
  <2>1. held' \subseteq Parts /\ held' # Parts
    BY <1>6, <1>8 DEF Books
  <2>2. CASE m \in Plain /\ wiped' = wiped \cup {m} /\ UNCHANGED <<store, file, stale, given>>
    <3>1. m \notin Parts
      BY <1>6, <2>2 DEF Intake!KindsApart
    <3>2. Intake!KeptInStore'
      BY <1>2, <1>4, <1>5, <1>8, <2>2, <3>1 DEF Intake!KeptInStore
    <3>3. QED
      BY <2>1, <2>2, <3>2 DEF Books
  <2>3. CASE m \in Intake!Commands /\ UNCHANGED <<wiped, store, file, stale, given>>
    <3>1. m \notin Parts \cup Plain
      BY <1>6, <2>3 DEF Intake!KindsApart
    <3>2. Intake!KeptInStore'
      BY <1>2, <1>4, <1>5, <1>8, <2>3, <3>1 DEF Intake!KeptInStore
    <3>3. QED
      BY <2>1, <2>3, <3>2 DEF Books
  <2>4. CASE /\ m \notin Intake!Commands /\ wiped' = wiped
             /\ Intake!Add(IF m \in Parts THEN Parts ELSE {m})
    <3> DEFINE shows == IF m \in Parts THEN Parts ELSE {m}
    <3>1. shows \in SUBSET Intake!Messages /\ m \in shows
      BY <1>3 DEF Intake!Messages
    <3>2. held \subseteq held' \cup shows
      BY <1>8 DEF Books
    <3>3. Intake!Add(shows)
      BY <2>4
    <3> HIDE DEF shows
    <3>4. /\ store' \in Stores /\ file' \in Stores /\ Numbered(store') /\ Numbered(file')
          /\ DOMAIN given' \subseteq 1 .. store'.seq
          /\ \A i \in DOMAIN given' : Cardinality(given'[i]) = 1
          /\ Intake!ShownIn(store') = Intake!ShownIn(store) \cup shows
          /\ ~stale' => file' = store'
      BY <3>1, <3>3, IntakeAdds
    <3>5. Intake!KeptInStore'
      BY <1>2, <1>4, <1>5, <2>4, <3>1, <3>2, <3>4 DEF Intake!KeptInStore
    <3>6. QED
      BY <2>1, <3>4, <3>5 DEF Books
  <2>5. QED
    BY <1>8, <2>2, <2>3, <2>4 DEF Intake!Handle
<1>9. QED
  BY <1>1, <1>7, <1>8

\* After a start the store is what the file was, and what it lacks is gone.
LEMMA BooksStart ==
  ASSUME Mailbox, Books, Intake!Start
  PROVE  Books'
<1>1. /\ file' = file /\ cur' = {} /\ held' = {} /\ coming' = coming /\ modem' = modem
      /\ wiped' = wiped
      /\ gone' = gone \cup held \cup (Intake!ShownIn(store) \ Intake!ShownIn(store'))
      /\ given' = Intake!Restrict(given, {i \in DOMAIN given : i <= store'.seq})
      /\ store' = file \/ (store' = Intake!Empty /\ stale')
  BY DEF Intake!Start, Intake!Restored
<1>2. given' = [i \in {i \in DOMAIN given : i <= store'.seq} |-> given[i]]
  BY <1>1 DEF Intake!Restrict
<1>10. Intake!Empty \in Stores /\ Numbered(Intake!Empty)
  BY DEF Intake!Empty, Stores, Numbered
<1>11. store' \in Stores /\ Numbered(store')
  BY <1>1, <1>10 DEF Books
<1>3. store'.seq \in Nat /\ store.seq \in Nat
  BY <1>11 DEF Books, Stores
<1>4. DOMAIN given' \subseteq 1 .. store'.seq
  <2>1. \A i \in DOMAIN given : i \in 1 .. store.seq
    BY DEF Books
  <2>2. \A i \in DOMAIN given' : i \in DOMAIN given /\ i <= store'.seq
    BY <1>2
  <2>3. QED
    BY <1>1, <1>3, <2>1, <2>2
<1>5. \A i \in DOMAIN given' : Cardinality(given'[i]) = 1
  BY <1>2 DEF Books
<1>6. held' \subseteq Parts /\ held' # Parts
  BY <1>1, IntakeAssumption DEF Intake!PartsExist
<1>7. Intake!Ahead \subseteq Intake!Ahead'
  BY <1>1 DEF Intake!Ahead
<1>8. Intake!KeptInStore'
  BY <1>1, <1>7 DEF Books, Intake!KeptInStore
<1>9. QED
  BY <1>1, <1>4, <1>5, <1>6, <1>8, <1>11 DEF Books

LEMMA BooksKept ==
  ASSUME Mailbox, Books, Intake!Next \/ UNCHANGED intakeVars
  PROVE  Books'
<1>0. /\ \A n \in (Plain \cup Parts) \ Intake!Ahead : n \in Intake!ShownIn(store) \cup held \cup wiped \cup gone
      /\ ~stale => file = store
  BY DEF Books, Intake!KeptInStore
<1> USE DEF Intake!loop, Intake!ghosts
<1>1. ASSUME Intake!Ahead \subseteq Intake!Ahead', UNCHANGED <<store, held, wiped, gone, given>>,
             UNCHANGED <<file, stale>> \/ Intake!Persist(store)
      PROVE  Books'
  <2>1. file' \in Stores /\ Numbered(file') /\ (~stale' => file' = store)
    <3>1. CASE Intake!Persist(store)
      BY <3>1, Persists DEF Books
    <3>2. CASE UNCHANGED <<file, stale>>
      BY <1>0, <3>2 DEF Books
    <3>3. QED
      BY <1>1, <3>1, <3>2
  <2>2. Intake!KeptInStore'
    BY <1>0, <1>1, <2>1 DEF Intake!KeptInStore
  <2>3. QED
    BY <1>1, <2>1, <2>2 DEF Books
<1>2. CASE Intake!Deliver
  <2>1. Intake!Ahead \subseteq Intake!Ahead'
    BY <1>2 DEF Intake!Deliver, Intake!Ahead, Mailbox
  <2>2. UNCHANGED <<store, held, wiped, gone, given, file, stale>>
    BY <1>2 DEF Intake!Deliver
  <2>3. QED
    BY <1>1, <2>1, <2>2
<1>3. CASE Intake!Collect \/ Intake!AllLookedAt \/ Intake!Round \/ Intake!Rewrite \/ UNCHANGED intakeVars
  <2>1. UNCHANGED <<coming, modem, cur>>
    BY <1>3 DEF Intake!Collect, Intake!List, Intake!NotListed, Intake!Listed, Intake!AllLookedAt, Intake!Round, Intake!Rewrite, intakeVars
  <2>2. UNCHANGED <<store, held, wiped, gone, given>> /\ (UNCHANGED <<file, stale>> \/ Intake!Persist(store))
    BY <1>3 DEF Intake!Collect, Intake!List, Intake!NotListed, Intake!Listed, Intake!AllLookedAt, Intake!Round, Intake!Rewrite, intakeVars
  <2>3. Intake!Ahead' = Intake!Ahead
    BY <2>1 DEF Intake!Ahead
  <2>4. QED
    BY <1>1, <2>2, <2>3
<1>4. CASE Intake!Delete
  <2>1. Intake!Ahead \subseteq Intake!Ahead'
    BY <1>4 DEF Intake!Delete, Intake!DeleteIt, Intake!Ahead
  <2>2. UNCHANGED <<store, held, wiped, gone, given, file, stale>>
    BY <1>4 DEF Intake!Delete
  <2>3. QED
    BY <1>1, <2>1, <2>2
<1>5. CASE Intake!CarryOut
  <2>1. /\ UNCHANGED <<coming, modem, cur, store, held, wiped, gone, given>>
        /\ UNCHANGED <<file, stale>> \/ Intake!Persist(store)
    BY <1>5 DEF Intake!CarryOut
  <2>2. Intake!Ahead' = Intake!Ahead
    BY <2>1 DEF Intake!Ahead
  <2>3. QED
    BY <1>1, <2>1, <2>2
<1>6. CASE Intake!Expire
  <2>1. /\ Intake!Add(held) /\ held' = {} /\ UNCHANGED <<coming, modem, cur, wiped, gone>>
    BY <1>6 DEF Intake!Expire
  <2>2. held \in SUBSET Intake!Messages
    BY DEF Books, Intake!Messages
  <2>3. /\ store' \in Stores /\ file' \in Stores /\ Numbered(store') /\ Numbered(file')
        /\ DOMAIN given' \subseteq 1 .. store'.seq
        /\ \A i \in DOMAIN given' : Cardinality(given'[i]) = 1
        /\ Intake!ShownIn(store') = Intake!ShownIn(store) \cup held
        /\ ~stale' => file' = store'
    BY <2>1, <2>2, IntakeAdds
  <2>4. Intake!Ahead' = Intake!Ahead
    BY <2>1 DEF Intake!Ahead
  <2>5. Intake!KeptInStore'
    BY <1>0, <2>1, <2>3, <2>4 DEF Intake!KeptInStore
  <2>6. held' \subseteq Parts /\ held' # Parts
    BY <2>1, IntakeAssumption DEF Intake!PartsExist
  <2>7. QED
    BY <2>3, <2>5, <2>6 DEF Books
<1>7. CASE Intake!DeleteEntry
  <2>1. PICK e \in store.entries :
          /\ store' = [store EXCEPT !.entries = @ \ {e}]
          /\ Intake!Persist([store EXCEPT !.entries = @ \ {e}])
          /\ wiped' = wiped \cup e.shows
    BY <1>7 DEF Intake!DeleteEntry
  <2>2. UNCHANGED <<coming, modem, cur, held, gone, given>>
    BY <1>7 DEF Intake!DeleteEntry
  <2>3. store \in Stores /\ Numbered(store)
    BY DEF Books
  <2>4. store' \in Stores /\ store'.seq = store.seq /\ store'.entries = store.entries \ {e}
    BY <2>1, <2>3 DEF Stores
  <2>5. Numbered(store')
    BY <2>3, <2>4 DEF Numbered
  <2>6. file' \in Stores /\ Numbered(file') /\ (~stale' => file' = store')
    BY <2>1, <2>4, <2>5, Persists
  <2>7. Intake!ShownIn(store) \subseteq Intake!ShownIn(store') \cup e.shows
    BY <2>4 DEF Intake!ShownIn
  <2>8. Intake!Ahead' = Intake!Ahead
    BY <2>2 DEF Intake!Ahead
  <2>9. Intake!KeptInStore'
    BY <1>0, <2>1, <2>2, <2>6, <2>7, <2>8 DEF Intake!KeptInStore
  <2>10. QED
    BY <2>2, <2>4, <2>5, <2>6, <2>9 DEF Books
<1>8. QED
  BY <1>2, <1>3, <1>4, <1>5, <1>6, <1>7, BooksLookAt, BooksStart
  DEF Intake!Next, Intake!Loop, Intake!Crash, Intake!Respawn

\* A command that waits at the end of the queue, and one that leaves it.
LEMMA WishJoins ==
  ASSUME intakeQueue \in Seq(Wishes), NEW w \in Wishes, intakeQueue' = Append(intakeQueue, w)
  PROVE  /\ intakeQueue' \in Seq(Wishes) /\ Len(intakeQueue) + 1 \in DOMAIN intakeQueue'
         /\ intakeQueue'[Len(intakeQueue) + 1] = w
         /\ \A i \in DOMAIN intakeQueue : i \in DOMAIN intakeQueue' /\ intakeQueue'[i] = intakeQueue[i]
         /\ \A i \in DOMAIN intakeQueue' : i = Len(intakeQueue) + 1 \/ i \in DOMAIN intakeQueue
<1>1. Len(intakeQueue) \in Nat /\ DOMAIN intakeQueue = 1 .. Len(intakeQueue)
  BY LenProperties
<1>2. /\ intakeQueue' \in Seq(Wishes) /\ Len(intakeQueue') = Len(intakeQueue) + 1
      /\ \A i \in 1 .. Len(intakeQueue) : intakeQueue'[i] = intakeQueue[i]
      /\ intakeQueue'[Len(intakeQueue) + 1] = w
  BY AppendProperties
<1>3. DOMAIN intakeQueue' = 1 .. Len(intakeQueue) + 1
  BY <1>2, LenProperties
<1>4. QED
  BY <1>1, <1>2, <1>3

LEMMA WishLeaves ==
  ASSUME intakeQueue \in Seq(Wishes), intakeQueue # <<>>, intakeQueue' = Tail(intakeQueue)
  PROVE  /\ intakeQueue' \in Seq(Wishes) /\ 1 \in DOMAIN intakeQueue
         /\ intakeQueue[1] \in Wishes /\ Head(intakeQueue) = intakeQueue[1]
         /\ \A i \in DOMAIN intakeQueue' :
              /\ i \in Nat /\ i + 1 \in DOMAIN intakeQueue /\ i + 1 # 1
              /\ intakeQueue'[i] = intakeQueue[i + 1]
         /\ \A i \in DOMAIN intakeQueue :
              i = 1 \/ \E j \in DOMAIN intakeQueue' : i = j + 1 /\ intakeQueue'[j] = intakeQueue[i]
<1>1. Len(intakeQueue) \in Nat \ {0} /\ DOMAIN intakeQueue = 1 .. Len(intakeQueue)
  BY LenProperties, EmptySeq
<1>2. /\ intakeQueue' \in Seq(Wishes) /\ Len(intakeQueue') = Len(intakeQueue) - 1
      /\ \A i \in 1 .. Len(intakeQueue') : intakeQueue'[i] = intakeQueue[i + 1]
      /\ Head(intakeQueue) \in Wishes
  BY HeadTailProperties
<1>3. DOMAIN intakeQueue' = 1 .. Len(intakeQueue) - 1
  BY <1>2, LenProperties
<1>4. Head(intakeQueue) = intakeQueue[1]
  OBVIOUS
<1>5. \A i \in DOMAIN intakeQueue' :
        /\ i \in Nat /\ i + 1 \in DOMAIN intakeQueue /\ i + 1 # 1
        /\ intakeQueue'[i] = intakeQueue[i + 1]
  BY <1>1, <1>2, <1>3
<1>6. ASSUME NEW i \in DOMAIN intakeQueue, i # 1
      PROVE  \E j \in DOMAIN intakeQueue' : i = j + 1 /\ intakeQueue'[j] = intakeQueue[i]
  <2>1. i - 1 \in DOMAIN intakeQueue' /\ i = (i - 1) + 1
    BY <1>1, <1>3, <1>6
  <2>2. intakeQueue'[i - 1] = intakeQueue[i]
    BY <1>5, <2>1
  <2>3. QED
    BY <2>1, <2>2
<1>7. QED
  BY <1>1, <1>2, <1>4, <1>5, <1>6

\* What is said of each command: it is still to be looked at, waits or was carried out.
Once(m) ==
  (IF Intake!WaitsFor(m) THEN 1 ELSE 0) + (IF m \in Intake!Ahead THEN 1 ELSE 0) + done[m]
    <= 1 + again[m]

\* No command is waited for that was not, and none comes back to be looked at unless
\* that is counted.
LEMMA OnceKept ==
  ASSUME Turns, NEW m \in Intake!Commands,
         done' = done, again' \in [Intake!Commands -> Nat],
         Intake!WaitsFor(m)' => Intake!WaitsFor(m) \/ (m \in Intake!Ahead /\ m \notin Intake!Ahead'),
         \/ (m \in Intake!Ahead' => m \in Intake!Ahead) /\ again'[m] >= again[m]
         \/ again'[m] = again[m] + 1
  PROVE  Once(m)'
<1>1. /\ done[m] \in Nat /\ again[m] \in Nat /\ again'[m] \in Nat
      /\ (IF Intake!WaitsFor(m) THEN 1 ELSE 0) + (IF m \in Intake!Ahead THEN 1 ELSE 0) + done[m]
           <= 1 + again[m]
  BY DEF Turns, Intake!OnceEach
<1>2. CASE Intake!WaitsFor(m)
  BY <1>1, <1>2 DEF Once
<1>3. CASE ~Intake!WaitsFor(m)
  BY <1>1, <1>3 DEF Once
<1>4. QED
  BY <1>2, <1>3

\* Nothing happens to the queue.
LEMMA TurnsRest ==
  ASSUME Turns, UNCHANGED <<intakeQueue, smsBusy, resetPending, done>>,
         again' \in [Intake!Commands -> Nat],
         \A m \in Intake!Commands :
           \/ (m \in Intake!Ahead' => m \in Intake!Ahead) /\ again'[m] >= again[m]
           \/ again'[m] = again[m] + 1
  PROVE  Turns'
<1>1. ASSUME NEW m \in Intake!Commands
      PROVE  Once(m)'
  <2>1. Intake!WaitsFor(m)' => Intake!WaitsFor(m)
    BY DEF Intake!WaitsFor
  <2>2. QED
    BY <2>1, OnceKept
<1>2. Intake!OnceEach'
  BY <1>1 DEF Once, Intake!OnceEach
<1>3. Intake!OneWaits'
  BY DEF Turns, Intake!OneWaits
<1>4. QED
  BY <1>2, <1>3 DEF Turns

\* A command is accepted: it takes the flag, or is answered that another one waits.
LEMMA TurnsAccept ==
  ASSUME Turns, NEW m \in Intake!Commands, Intake!Accept(m), UNCHANGED <<done, again>>,
         m \in Intake!Ahead, Intake!Ahead' = Intake!Ahead \ {m}
  PROVE  Turns'
<1> DEFINE last == Len(intakeQueue) + 1
<1>1. PICK act \in Intake!Decisions(m) :
        /\ intakeQueue' = Append(intakeQueue, [act |-> act, of |-> m])
        /\ smsBusy' = (smsBusy \/ act = "send")
        /\ resetPending' = (resetPending \/ act = "reset")
  BY DEF Intake!Accept
<1>2. /\ act \in {"tell", "send", "reset"}
      /\ act = "send" => m \in Orders /\ ~smsBusy
      /\ act = "reset" => m \notin Orders /\ ~resetPending
  BY <1>1 DEF Intake!Decisions
<1>3. intakeQueue \in Seq(Wishes) /\ Intake!OneWaits /\ again \in [Intake!Commands -> Nat]
  BY DEF Turns
<1> DEFINE w == [act |-> act, of |-> m]
<1>4. w \in Wishes /\ w.act = act /\ w.of = m
  BY <1>2 DEF Wishes
<1>5. intakeQueue' = Append(intakeQueue, w)
  BY <1>1
<1> HIDE DEF w
<1>6. /\ intakeQueue' \in Seq(Wishes) /\ last \in DOMAIN intakeQueue' /\ intakeQueue'[last] = w
      /\ \A i \in DOMAIN intakeQueue : i \in DOMAIN intakeQueue' /\ intakeQueue'[i] = intakeQueue[i]
      /\ \A i \in DOMAIN intakeQueue' : i = last \/ i \in DOMAIN intakeQueue
  BY <1>3, <1>4, <1>5, WishJoins
<1> HIDE DEF last
<1>7. \A i \in DOMAIN intakeQueue : intakeQueue[i].act = act => act = "tell"
  <2>1. ASSUME NEW i \in DOMAIN intakeQueue, intakeQueue[i].act = "send" PROVE smsBusy
    BY <1>3, <2>1 DEF Intake!OneWaits
  <2>2. ASSUME NEW i \in DOMAIN intakeQueue, intakeQueue[i].act = "reset" PROVE resetPending
    BY <1>3, <2>2 DEF Intake!OneWaits
  <2>3. QED
    BY <1>2, <2>1, <2>2
<1>8. ASSUME NEW n \in Intake!Commands
      PROVE  Once(n)'
  <2>1. Intake!WaitsFor(n)' => Intake!WaitsFor(n) \/ n = m
    BY <1>4, <1>6 DEF Intake!WaitsFor
  <2>2. again'[n] >= again[n]
    BY <1>3
  <2>3. QED
    BY <1>3, <2>1, <2>2, OnceKept
<1>9. \A i, j \in DOMAIN intakeQueue' :
        intakeQueue'[i].act = intakeQueue'[j].act /\ intakeQueue'[i].act # "tell" => i = j
  BY <1>3, <1>4, <1>6, <1>7 DEF Intake!OneWaits
<1>10. \A i \in DOMAIN intakeQueue' : intakeQueue'[i].act # "tell" =>
         (intakeQueue'[i].act = "send" <=> intakeQueue'[i].of \in Orders)
  BY <1>2, <1>3, <1>4, <1>6 DEF Intake!OneWaits
<1>11. (\E i \in DOMAIN intakeQueue' : intakeQueue'[i].act = "send") <=>
         act = "send" \/ \E i \in DOMAIN intakeQueue : intakeQueue[i].act = "send"
  BY <1>4, <1>6
<1>12. (\E i \in DOMAIN intakeQueue' : intakeQueue'[i].act = "reset") =>
         act = "reset" \/ \E i \in DOMAIN intakeQueue : intakeQueue[i].act = "reset"
  BY <1>4, <1>6
<1>13. Intake!OneWaits'
  BY <1>1, <1>3, <1>9, <1>10, <1>11, <1>12 DEF Intake!OneWaits
<1>14. Intake!OnceEach'
  BY <1>8 DEF Once, Intake!OnceEach
<1>15. QED
  BY <1>6, <1>13, <1>14 DEF Turns

\* The first of the queue is carried out; no other of its kind waits.
LEMMA TurnsCarryOut ==
  ASSUME Turns, Intake!CarryOut
  PROVE  Turns'
<1> DEFINE a == intakeQueue[1]
<1>1. intakeQueue \in Seq(Wishes) /\ Intake!OneWaits /\ Intake!OnceEach
      /\ done \in [Intake!Commands -> Nat] /\ again \in [Intake!Commands -> Nat]
  BY DEF Turns
<1>2. /\ intakeQueue # <<>> /\ intakeQueue' = Tail(intakeQueue)
      /\ done' = IF Head(intakeQueue).act = "tell" THEN done
                 ELSE [done EXCEPT ![Head(intakeQueue).of] = @ + 1]
      /\ \/ Head(intakeQueue).act = "send" /\ smsBusy' = FALSE
         \/ Head(intakeQueue).act \in {"tell", "reset"} /\ smsBusy' = smsBusy
      /\ resetPending' = resetPending /\ again' = again /\ UNCHANGED <<coming, modem, cur>>
  BY DEF Intake!CarryOut, Intake!Pop, Intake!FreeSms
<1>3. /\ intakeQueue' \in Seq(Wishes) /\ 1 \in DOMAIN intakeQueue
      /\ a \in Wishes /\ Head(intakeQueue) = a
      /\ \A i \in DOMAIN intakeQueue' :
           /\ i \in Nat /\ i + 1 \in DOMAIN intakeQueue /\ i + 1 # 1
           /\ intakeQueue'[i] = intakeQueue[i + 1]
      /\ \A i \in DOMAIN intakeQueue :
           i = 1 \/ \E j \in DOMAIN intakeQueue' : i = j + 1 /\ intakeQueue'[j] = intakeQueue[i]
  BY <1>1, <1>2, WishLeaves
<1>4. a.act \in {"tell", "send", "reset"} /\ a.of \in Intake!Commands
  BY <1>3 DEF Wishes
<1>5. Intake!Ahead' = Intake!Ahead
  BY <1>2 DEF Intake!Ahead
<1>6. \A i \in DOMAIN intakeQueue :
        i # 1 /\ a.act # "tell" /\ intakeQueue[i].act # "tell" =>
          intakeQueue[i].act # a.act /\ intakeQueue[i].of # a.of
  <2>1. ASSUME NEW i \in DOMAIN intakeQueue, i # 1, a.act # "tell", intakeQueue[i].act # "tell"
        PROVE  intakeQueue[i].act # a.act
    BY <1>1, <1>3, <2>1 DEF Intake!OneWaits
  <2>2. ASSUME NEW i \in DOMAIN intakeQueue, i # 1, a.act # "tell", intakeQueue[i].act # "tell",
               intakeQueue[i].of = a.of
        PROVE  FALSE
    <3>1. /\ intakeQueue[i].act = "send" <=> a.act = "send"
      BY <1>1, <1>3, <2>2 DEF Intake!OneWaits
    <3>2. intakeQueue[i] \in Wishes
      BY <1>1, <2>2, LenProperties
    <3>3. intakeQueue[i].act \in {"tell", "send", "reset"}
      BY <3>2 DEF Wishes
    <3>4. QED
      BY <1>4, <2>1, <2>2, <3>1, <3>3
  <2>3. QED
    BY <2>1, <2>2
<1> HIDE DEF a
<1>7. \A m \in Intake!Commands : Intake!WaitsFor(m)' => Intake!WaitsFor(m)
  BY <1>3 DEF Intake!WaitsFor
<1>8. done' \in [Intake!Commands -> Nat]
  <2>1. done[a.of] + 1 \in Nat
    BY <1>1, <1>4
  <2>2. QED
    BY <1>1, <1>2, <1>3, <1>4, <2>1
<1>9. ASSUME NEW m \in Intake!Commands
      PROVE  Once(m)'
  <2>1. /\ done[m] \in Nat /\ again[m] \in Nat
        /\ (IF Intake!WaitsFor(m) THEN 1 ELSE 0) + (IF m \in Intake!Ahead THEN 1 ELSE 0) + done[m]
             <= 1 + again[m]
    BY <1>1 DEF Intake!OnceEach
  <2>2. CASE a.act # "tell" /\ m = a.of
    <3>1. done'[m] = done[m] + 1
      BY <1>1, <1>2, <1>3, <1>4, <2>2
    <3>2. Intake!WaitsFor(m)
      BY <1>3, <2>2 DEF Intake!WaitsFor, a
    <3>3. ~Intake!WaitsFor(m)'
      BY <1>3, <1>6, <2>2 DEF Intake!WaitsFor
    <3>4. QED
      BY <1>2, <1>5, <2>1, <3>1, <3>2, <3>3 DEF Once
  <2>3. CASE ~(a.act # "tell" /\ m = a.of)
    <3>1. done'[m] = done[m]
      BY <1>1, <1>2, <1>3, <2>3
    <3>2. QED
      BY <1>2, <1>5, <1>7, <2>1, <3>1 DEF Once
  <2>4. QED
    BY <2>2, <2>3
<1>10. \A i, j \in DOMAIN intakeQueue' :
         intakeQueue'[i].act = intakeQueue'[j].act /\ intakeQueue'[i].act # "tell" => i = j
  <2>1. \A i, j \in DOMAIN intakeQueue :
          intakeQueue[i].act = intakeQueue[j].act /\ intakeQueue[i].act # "tell" => i = j
    BY <1>1 DEF Intake!OneWaits
  <2>2. ASSUME NEW i \in DOMAIN intakeQueue', NEW j \in DOMAIN intakeQueue',
               intakeQueue'[i].act = intakeQueue'[j].act, intakeQueue'[i].act # "tell"
        PROVE  i = j
    <3>1. i \in Nat /\ j \in Nat /\ i + 1 = j + 1
      BY <1>3, <2>1, <2>2
    <3>2. QED
      BY <3>1
  <2>3. QED
    BY <2>2
<1>11. \A i \in DOMAIN intakeQueue' : intakeQueue'[i].act # "tell" =>
         (intakeQueue'[i].act = "send" <=> intakeQueue'[i].of \in Orders)
  BY <1>1, <1>3 DEF Intake!OneWaits
<1>12. smsBusy' <=> \E i \in DOMAIN intakeQueue' : intakeQueue'[i].act = "send"
  <2>1. smsBusy <=> \E i \in DOMAIN intakeQueue : intakeQueue[i].act = "send"
    BY <1>1 DEF Intake!OneWaits
  <2>2. CASE a.act = "send"
    <3>1. \A i \in DOMAIN intakeQueue : i # 1 => intakeQueue[i].act # "send"
      BY <1>6, <2>2
    <3>2. \A i \in DOMAIN intakeQueue' : intakeQueue'[i].act # "send"
      BY <1>3, <3>1
    <3>3. ~smsBusy'
      BY <1>2, <1>3, <2>2
    <3>4. QED
      BY <3>2, <3>3
  <2>3. CASE a.act # "send"
    <3>1. smsBusy' = smsBusy
      BY <1>2, <1>3, <2>3
    <3>2. (\E i \in DOMAIN intakeQueue : intakeQueue[i].act = "send") <=>
            (\E i \in DOMAIN intakeQueue' : intakeQueue'[i].act = "send")
      BY <1>3, <2>3 DEF a
    <3>3. QED
      BY <2>1, <3>1, <3>2
  <2>4. QED
    BY <2>2, <2>3
<1>13. (\E i \in DOMAIN intakeQueue' : intakeQueue'[i].act = "reset") => resetPending'
  BY <1>1, <1>2, <1>3 DEF Intake!OneWaits
<1>14. Intake!OneWaits'
  BY <1>10, <1>11, <1>12, <1>13 DEF Intake!OneWaits
<1>15. Intake!OnceEach'
  BY <1>9 DEF Once, Intake!OnceEach
<1>16. QED
  BY <1>2, <1>3, <1>8, <1>14, <1>15, <1>1 DEF Turns

LEMMA TurnsKept ==
  ASSUME Mailbox, Turns, Intake!Next \/ UNCHANGED intakeVars
  PROVE  Turns'
<1>0. done \in [Intake!Commands -> Nat] /\ again \in [Intake!Commands -> Nat]
  BY DEF Turns
<1> USE DEF Intake!loop, Intake!admin, Intake!ghosts
<1>1. ASSUME UNCHANGED <<intakeQueue, smsBusy, resetPending, done, again>>,
             Intake!Ahead' \subseteq Intake!Ahead
      PROVE  Turns'
  <2>1. \A m \in Intake!Commands : again'[m] >= again[m]
    BY <1>0, <1>1
  <2>2. QED
    BY <1>0, <1>1, <2>1, TurnsRest
<1>2. CASE Intake!Deliver
  <2>1. UNCHANGED <<intakeQueue, smsBusy, resetPending, done, again>>
    BY <1>2 DEF Intake!Deliver
  <2>2. Intake!Ahead' \subseteq Intake!Ahead
    BY <1>2 DEF Intake!Deliver, Intake!Ahead, Mailbox
  <2>3. QED
    BY <1>1, <2>1, <2>2
<1>3. CASE \/ Intake!Collect \/ Intake!AllLookedAt \/ Intake!Round \/ Intake!Rewrite
           \/ Intake!DeleteEntry \/ Intake!Expire \/ UNCHANGED intakeVars
  <2>1. UNCHANGED <<coming, modem, cur, intakeQueue, smsBusy, resetPending, done, again>>
    BY <1>3 DEF Intake!Collect, Intake!List, Intake!NotListed, Intake!Listed, Intake!AllLookedAt, Intake!Round, Intake!Rewrite,
                Intake!DeleteEntry, Intake!Expire, intakeVars
  <2>2. Intake!Ahead' \subseteq Intake!Ahead
    BY <2>1 DEF Intake!Ahead
  <2>3. QED
    BY <1>1, <2>1, <2>2
<1>4. CASE Intake!LookAt
  <2>1. PICK m \in batch :
          /\ cur' = {m}
          /\ \/ UNCHANGED <<intakeQueue, smsBusy, resetPending>>
             \/ m \in Intake!Commands /\ Intake!Accept(m)
    BY <1>4 DEF Intake!LookAt, Intake!Handle
  <2>2. coming' = coming /\ modem' = modem /\ intakePc = "each" /\ UNCHANGED <<done, again>>
    BY <1>4 DEF Intake!LookAt
  <2>3. m \in modem /\ m \notin coming /\ cur = {}
    BY <2>2 DEF Mailbox
  <2>4. m \in Intake!Ahead /\ Intake!Ahead' = Intake!Ahead \ {m}
    BY <2>1, <2>2, <2>3 DEF Intake!Ahead
  <2>5. QED
    BY <1>1, <2>1, <2>2, <2>4, TurnsAccept
<1>5. ASSUME UNCHANGED <<intakeQueue, smsBusy, resetPending, done, coming, modem>>,
             cur' = {}, again' = [m \in Intake!Commands |-> IF m \in cur THEN again[m] + 1 ELSE again[m]]
      PROVE  Turns'
  <2>1. again' \in [Intake!Commands -> Nat]
    BY <1>0, <1>5
  <2>2. ASSUME NEW m \in Intake!Commands
        PROVE  \/ (m \in Intake!Ahead' => m \in Intake!Ahead) /\ again'[m] >= again[m]
               \/ again'[m] = again[m] + 1
    <3>1. CASE m \in cur
      BY <1>5, <3>1
    <3>2. CASE m \notin cur
      BY <1>0, <1>5, <3>2 DEF Intake!Ahead
    <3>3. QED
      BY <3>1, <3>2
  <2>3. QED
    BY <1>5, <2>1, <2>2, TurnsRest
<1>6. CASE Intake!Delete
  <2>1. UNCHANGED <<intakeQueue, smsBusy, resetPending, done, coming>> /\ cur' = {}
    BY <1>6 DEF Intake!Delete
  <2>2. CASE modem' = modem \ cur /\ again' = again
    <3>1. Intake!Ahead' \subseteq Intake!Ahead
      BY <2>1, <2>2 DEF Intake!Ahead
    <3>2. QED
      BY <1>1, <2>1, <2>2, <3>1
  <2>3. CASE /\ again' = [m \in Intake!Commands |-> IF m \in cur THEN again[m] + 1 ELSE again[m]]
             /\ modem' = modem
    BY <1>5, <2>1, <2>3
  <2>4. QED
    BY <1>6, <2>2, <2>3 DEF Intake!Delete, Intake!DeleteIt
<1>7. CASE Intake!Start
  <2>1. /\ intakeQueue' = <<>> /\ smsBusy' = FALSE /\ resetPending' = FALSE
        /\ UNCHANGED <<done, coming, modem>> /\ cur' = {}
        /\ again' = [m \in Intake!Commands |-> IF m \in cur THEN again[m] + 1 ELSE again[m]]
    BY <1>7 DEF Intake!Start
  <2>2. again' \in [Intake!Commands -> Nat] /\ intakeQueue' \in Seq(Wishes)
    BY <1>0, <2>1
  <2>3. ASSUME NEW m \in Intake!Commands
        PROVE  Once(m)'
    <3>1. ~Intake!WaitsFor(m)'
      BY <2>1 DEF Intake!WaitsFor
    <3>2. \/ (m \in Intake!Ahead' => m \in Intake!Ahead) /\ again'[m] >= again[m]
          \/ again'[m] = again[m] + 1
      <4>1. CASE m \in cur
        BY <2>1, <4>1
      <4>2. CASE m \notin cur
        BY <1>0, <2>1, <4>2 DEF Intake!Ahead
      <4>3. QED
        BY <4>1, <4>2
    <3>3. QED
      BY <2>1, <2>2, <3>1, <3>2, OnceKept
  <2>4. Intake!OnceEach'
    BY <2>3 DEF Once, Intake!OnceEach
  <2>5. Intake!OneWaits'
    BY <2>1 DEF Intake!OneWaits
  <2>6. QED
    BY <1>0, <2>1, <2>2, <2>4, <2>5 DEF Turns
<1>8. QED
  BY <1>2, <1>3, <1>4, <1>6, <1>7, TurnsCarryOut
  DEF Intake!Next, Intake!Loop, Intake!Crash, Intake!Respawn

LEMMA IntakeStep == IntakeParted /\ (Intake!Next \/ UNCHANGED intakeVars) => IntakeParted'
BY MailboxKept, BooksKept, TurnsKept, SwitchesKept DEF IntakeParted

\* What the invariant says of the messages, the commands and the ids.
LEMMA IntakeShown ==
  ASSUME Intake!IntakeInv
  PROVE  /\ Intake!TypeOK /\ Intake!KeptOnDisk /\ Intake!ObeyedOnce
         /\ Intake!OneAtATime /\ Intake!IdsNotReused
<1>0. Mailbox /\ Books /\ Turns /\ Switches
  BY IntakeIsParted DEF IntakeParted
<1>1. Intake!TypeOK /\ Intake!IdsNotReused
  BY DEF Intake!IntakeInv, Intake!Typed
<1>2. Intake!KeptOnDisk
  <2>1. ASSUME NEW m \in (Plain \cup Parts) \ (coming \cup modem), ~stale
        PROVE  m \in Intake!ShownIn(file) \cup held \cup wiped \cup gone
    BY <1>0, <2>1 DEF Books, Intake!KeptInStore, Intake!Ahead
  <2>2. QED
    BY <2>1 DEF Intake!KeptOnDisk
<1>3. Intake!ObeyedOnce
  <2>1. ASSUME NEW m \in Intake!Commands
        PROVE  done[m] <= 1 + again[m]
    <3>1. /\ done[m] \in Nat /\ again[m] \in Nat
          /\ (IF Intake!WaitsFor(m) THEN 1 ELSE 0) + (IF m \in Intake!Ahead THEN 1 ELSE 0) + done[m]
               <= 1 + again[m]
      BY <1>0 DEF Turns, Intake!OnceEach
    <3>2. QED
      BY <3>1
  <2>2. QED
    BY <2>1 DEF Intake!ObeyedOnce
<1>4. Intake!OneAtATime
  <2> DEFINE waiters(act) == {i \in DOMAIN intakeQueue : intakeQueue[i].act = act}
  <2>1. \A act \in {"send", "reset"} : \A i, j \in waiters(act) : i = j
    BY <1>0 DEF Turns, Intake!OneWaits
  <2>2. \A act \in {"send", "reset"} : waiters(act) = {} \/ \E i : waiters(act) = {i}
    BY <2>1
  <2>3. smsBusy <=> waiters("send") # {}
    BY <1>0 DEF Turns, Intake!OneWaits
  <2>4. /\ Cardinality(waiters("send")) = (IF smsBusy THEN 1 ELSE 0)
        /\ Cardinality(waiters("reset")) <= 1
    <3> HIDE DEF waiters
    <3>1. \A act \in {"send", "reset"} :
            /\ waiters(act) = {} => Cardinality(waiters(act)) = 0
            /\ waiters(act) # {} => Cardinality(waiters(act)) = 1
      BY <2>2, FS_EmptySet, FS_Singleton
    <3>2. QED
      BY <2>3, <3>1
  <2>5. QED
    BY <2>4, IntakeCardinality DEF Intake!OneAtATime
<1>5. QED
  BY <1>1, <1>2, <1>3, <1>4

\* What left the modem is on disk, a command of the administrator is carried out once
\* for each time its message was looked at, one waits at a time, and no id is given
\* twice (main.cpp:1087-1112, 1273-1340, inbox.cpp:14-54).
THEOREM NothingTakenInIsLost == SumSpec => []IntakeSound
<1>1. SumInit => IntakeParted
  BY IntakeInit
<1>2. IntakeParted /\ [SumNext]_sumVars => IntakeParted'
  <2> SUFFICES ASSUME IntakeParted, [SumNext]_sumVars PROVE IntakeParted'
    OBVIOUS
  <2>1. Intake!Next \/ UNCHANGED intakeVars
    BY OneServiceRuns
  <2>2. QED
    BY <2>1, IntakeStep
<1>3. IntakeParted => IntakeSound
  BY IntakeIsParted, IntakeShown DEF IntakeSound
<1>4. QED
  BY <1>1, <1>2, <1>3, PTL DEF SumSpec

=============================================================================
