------------------------------- MODULE SmsTask -------------------------------
(***************************************************************************)
(* How the ESP-IDF port takes messages in (components/idf_sms).  The modem *)
(* keeps messages in its storage and announces them (+CMTI), or pushes     *)
(* their PDU directly (+CMT); announcements may be lost.  One task drains  *)
(* the announcements, reads announced messages (CMGR), now and then reads  *)
(* the whole storage (CMGL), hands every decoded message on and deletes it *)
(* (CMGD).  The device may restart between any two of these steps; only    *)
(* the storage and the inbox survive.                                      *)
(*                                                                         *)
(* Data abstraction: a stored message is [msg, part]; the text a message   *)
(* reaches the inbox with is the set of its parts, so the de-duplication   *)
(* hash of (sender, timestamp, text) is [msg, parts].  A PDU of which only *)
(* a part has come does not decode: the decoder compares what it has with  *)
(* the lengths the PDU declares.  The assembler of long messages, a module *)
(* of its own, has a slot to spare here; no sender is blacklisted and no   *)
(* text is an administrator's command.                                     *)
(***************************************************************************)
EXTENDS Naturals, FiniteSets, Sequences, SequencesExt

CONSTANTS
  Msgs,           \* messages
  PartsOf,        \* the number of parts of each
  Bad,            \* those whose PDU does not decode
  Slots,          \* the modem's storage slots
  None,           \* an empty slot
  IndexMax,       \* INDEX_QUEUE_MAX
  RingMax,        \* SEEN_RING_MAX
  BatchMax,       \* BATCH_MAX
  ListMax,        \* how many records fit into one answer (MAX_RESPONSE, 8 KB)
  StallMax,       \* 3 rounds without progress
  MaxDeliveries,  \* bound of the model: messages sent to the modem
  MaxLines,       \* bound of the model: announcements not yet read
  MaxRestarts     \* bound of the model: restarts

Record == UNION {[msg : {m}, part : 1..PartsOf[m]] : m \in Msgs}
Good == {r \in Record : r.msg \notin Bad}
Text == UNION {[msg : {m}, parts : (SUBSET (1..PartsOf[m])) \ {{}}] : m \in Msgs \ Bad}

ASSUME PartsPositive == PartsOf \in [Msgs -> Nat \ {0}]
ASSUME BadAreMsgs == Bad \subseteq Msgs
ASSUME SlotsAreIndices == IsFiniteSet(Slots) /\ Slots \subseteq Nat
ASSUME NoneApart == None \notin Record \cup Slots
ASSUME SizesArePositive == {IndexMax, RingMax, BatchMax, ListMax, StallMax} \subseteq Nat \ {0}
ASSUME ListHoldsABatch == BatchMax <= ListMax

VARIABLES
  at,         \* "ok", or "poor": any AT command may fail, its answer be cut short or
              \* come too late, and the PDU decoder be busy
  sim,        \* the modem's storage
  urc,        \* the announcements not yet read
  waiting,    \* s_wait_pdu: a +CMT was read, its PDU is to come
  indexQ,     \* s_index_queue
  pending,    \* s_backfill_pending
  held,       \* the parts waiting in the assembler
  seen,       \* s_seen, oldest first
  inbox,      \* how often each text was stored (and its forwarding requested)
  pc,         \* where the task is
  slot,       \* the slot it is about to erase
  read,       \* the record it read for it
  late,       \* the answer to a read that was timed out, while it may still come
  list,       \* what the last CMGL named that is still to be looked at: [slot, came]
  handled,    \* how many records this CMGL round handed on
  unread,     \* the slots whose PDU it found missing ("bare") or undecodable ("failed")
  stall,      \* s_nopdu_stall_rounds ("bare") and s_decode_stall_rounds ("failed")
  delivered,  \* messages sent to the modem so far
  restarts    \* restarts so far

round == <<list, handled, unread>>
task == <<waiting, indexQ, pending, held, seen, inbox, pc, slot, read, late, round, stall>>
vars == <<at, sim, urc, task, delivered, restarts>>

Line == [kind : {"+CMT", "other"}] \cup [kind : {"+CMTI"}, slot : Slots]
          \cup [kind : {"pdu"}, record : Good]
Kinds == {"bare", "failed"}
Entry == [slot : Slots, came : {"whole", "cut", "bare"}]

Init ==
  /\ at \in {"ok", "poor"}
  /\ sim = [i \in Slots |-> None] /\ urc = <<>>
  /\ waiting = FALSE /\ indexQ = <<>> /\ pending = FALSE
  /\ held = {} /\ seen = <<>> /\ inbox = [t \in Text |-> 0]
  /\ pc = "urc" /\ slot = None /\ read = None /\ late = None
  /\ list = <<>> /\ handled = 0 /\ unread = [k \in Kinds |-> {}] /\ stall = [k \in Kinds |-> 0]
  /\ delivered = 0 /\ restarts = 0

-----------------------------------------------------------------------------
(* The modem and the network.                                              *)

NewDelivery == delivered < MaxDeliveries /\ delivered' = delivered + 1

\* A message is stored; its announcement may be lost.
Arrive(r) ==
  /\ NewDelivery
  /\ \E i \in Slots :
       /\ sim[i] = None
       /\ sim' = [sim EXCEPT ![i] = r]
       /\ urc' \in {urc, Append(urc, [kind |-> "+CMTI", slot |-> i])}
  /\ Len(urc) < MaxLines
  /\ UNCHANGED <<at, task, restarts>>

\* A message is pushed and not stored; its PDU line may be garbled or missing.
Push(r) ==
  /\ NewDelivery
  /\ Len(urc) < MaxLines
  /\ \E pdu \in {<<[kind |-> "pdu", record |-> r]>>, <<[kind |-> "other"]>>, <<>>} :
       urc' = urc \o <<[kind |-> "+CMT"]>> \o pdu
  /\ UNCHANGED <<at, sim, task, restarts>>

AtChange ==
  /\ at' \in {"ok", "poor"}
  /\ UNCHANGED <<sim, urc, task, delivered, restarts>>

Restart ==
  /\ restarts < MaxRestarts /\ restarts' = restarts + 1
  /\ urc' = <<>> /\ waiting' = FALSE /\ indexQ' = <<>> /\ pending' = FALSE
  /\ held' = {} /\ seen' = <<>>
  /\ pc' = "urc" /\ slot' = None /\ read' = None /\ late' = None
  /\ list' = <<>> /\ handled' = 0 /\ unread' = [k \in Kinds |-> {}] /\ stall' = [k \in Kinds |-> 0]
  /\ UNCHANGED <<at, sim, inbox, delivered>>

-----------------------------------------------------------------------------
(* A decoded message.                                                      *)

\* seen_recently: a ring of the last RingMax texts.
SeenMessage(t) == \E u \in ToSet(seen) : u.msg = t.msg   \* mutant: the text is not in the hash
Seen(t) == t \in ToSet(seen)
RememberLast(t) == seen' = <<t>>   \* mutant: the ring never advances
Remember(t) == seen' = IF Len(seen) < RingMax THEN Append(seen, t) ELSE Append(Tail(seen), t)

\* process_sms_content: a text seen recently is ignored; any other is stored in
\* the inbox and its forwarding requested.
Process(t) ==
  IF Seen(t) THEN UNCHANGED <<seen, inbox>>
  ELSE Remember(t) /\ inbox' = [inbox EXCEPT ![t] = @ + 1]

\* handle_decoded_pdu: a part waits for the others; the last one completes the text.
Partners(m) == {p \in 1..PartsOf[m] : [msg |-> m, part |-> p] \in held}
Decoded(r) ==
  IF Partners(r.msg) \cup {r.part} = 1..PartsOf[r.msg]
  THEN /\ held' = {h \in held : h.msg # r.msg}
       /\ Process([msg |-> r.msg, parts |-> 1..PartsOf[r.msg]])
  ELSE /\ held' = held \cup {r}
       /\ UNCHANGED <<seen, inbox>>

\* expire_concat_slots: 30 s after its last part a text goes out as it is.
ExpireParts ==
  /\ pc = "work"
  /\ \E m \in Msgs :
       /\ Partners(m) # {}
       /\ Process([msg |-> m, parts |-> Partners(m)])
       /\ held' = {h \in held : h.msg # m}
  /\ UNCHANGED <<at, sim, urc, waiting, indexQ, pending, pc, slot, read, late, round, stall,
                 delivered, restarts>>

-----------------------------------------------------------------------------
(* The announcements: those that have come in are read before anything else.*)

\* enqueue_index: no slot is queued twice; a full queue asks for a CMGL.
EnqueueIndex(i) ==
  IF i \in ToSet(indexQ) THEN UNCHANGED <<indexQ, pending>>
  ELSE IF Len(indexQ) < IndexMax THEN indexQ' = Append(indexQ, i) /\ UNCHANGED pending
  ELSE pending' = TRUE /\ UNCHANGED indexQ

\* process_urc_line; a PDU the decoder is too busy for is taken for some other line.
ReadLine ==
  /\ pc = "urc" /\ urc # <<>>
  /\ urc' = Tail(urc)
  /\ LET line == Head(urc) IN
       \/ /\ line.kind = "+CMT" /\ waiting' = TRUE
          /\ UNCHANGED <<indexQ, pending, held, seen, inbox>>
       \/ /\ line.kind = "+CMTI" /\ EnqueueIndex(line.slot)
          /\ UNCHANGED <<waiting, held, seen, inbox>>
       \/ /\ line.kind = "pdu" /\ waiting
          /\ Decoded(line.record) /\ waiting' = FALSE
          /\ UNCHANGED <<indexQ, pending>>
       \/ /\ line.kind = "other" \/ (line.kind = "pdu" /\ at = "poor")
          /\ waiting
          /\ waiting' = FALSE /\ pending' = TRUE
          /\ UNCHANGED <<indexQ, held, seen, inbox>>
       \/ /\ line.kind \in {"pdu", "other"} /\ ~waiting
          /\ UNCHANGED <<waiting, indexQ, pending, held, seen, inbox>>
  /\ UNCHANGED <<at, sim, pc, slot, read, late, round, stall, delivered, restarts>>

AllRead ==
  /\ pc = "urc" /\ urc = <<>>
  /\ pc' = "work"
  /\ UNCHANGED <<at, sim, urc, waiting, indexQ, pending, held, seen, inbox, slot, read, late,
                 round, stall, delivered, restarts>>

\* expire_wait_pdu_window: no PDU within 3 s of its +CMT.
CloseWindow ==
  /\ pc = "work" /\ waiting
  /\ waiting' = FALSE /\ pending' = TRUE
  /\ UNCHANGED <<at, sim, urc, indexQ, held, seen, inbox, pc, slot, read, late, round, stall,
                 delivered, restarts>>

-----------------------------------------------------------------------------
(* The storage: an announced slot first, then a requested CMGL, then the   *)
(* periodic one.                                                           *)

\* fetch_stored_sms_by_index: CMGR and the record its answer brings.  The answer says
\* nothing of the slot, so that of an earlier read, timed out by then, may be taken
\* for it.
ReadSlot ==
  /\ pc = "work" /\ indexQ # <<>>
  /\ indexQ' = Tail(indexQ)
  /\ \E answer \in {sim[Head(indexQ)]} \cup (IF at = "poor" THEN {late} ELSE {}) :
       /\ answer \in Good
       /\ Decoded(answer)
       /\ pc' = "erase" /\ slot' = Head(indexQ) /\ read' = answer
  /\ late' = None
  /\ UNCHANGED <<at, sim, urc, waiting, pending, round, stall, delivered, restarts>>

\* A slot that cannot be read or decoded is left to a CMGL.  For an empty one there is
\* an error or a bare OK, which is also what a late answer may leave of another's.
ReadNothing ==
  /\ pc = "work" /\ indexQ # <<>>
  /\ indexQ' = Tail(indexQ)
  /\ LET found == sim[Head(indexQ)] IN
       /\ at = "poor" \/ found \notin Good
       /\ pending' \in {TRUE} \cup (IF found = None \/ late # None THEN {pending} ELSE {})
       /\ late' \in {None} \cup (IF at = "poor" THEN {found} \cap Good ELSE {})
  /\ pc' = "urc"
  /\ UNCHANGED <<at, sim, urc, waiting, held, seen, inbox, slot, read, round, stall,
                 delivered, restarts>>

\* CMGD, whose failure is ignored.
Erase(i) == sim' \in {[sim EXCEPT ![i] = None]} \cup (IF at = "poor" THEN {sim} ELSE {})

EraseSlot ==
  /\ pc = "erase"
  /\ Erase(slot)
  /\ pc' = "urc" /\ slot' = None /\ read' = None
  /\ UNCHANGED <<at, urc, waiting, indexQ, pending, held, seen, inbox, late, round, stall,
                 delivered, restarts>>

Stored == {i \in Slots : sim[i] # None}

\* What the end of a cut answer makes of one more record: a header whose PDU is cut, or
\* one without its PDU, which then may have lost digits of the index, too.
NamedBy(i) == ({i} \cup ({i \div 10^k : k \in 1..4} \ {0})) \cap Slots
Beginning(i) == {[slot |-> i, came |-> "cut"]} \cup {[slot |-> j, came |-> "bare"] : j \in NamedBy(i)}

\* backfill_stored_sms, when it was asked for or 60 s have passed since the last (at any
\* time here): CMGL names the stored messages in some order, as many as fit into the
\* answer and came in time.  With a failure and nothing named the round is over.
ListSlots ==
  /\ pc = "work" /\ indexQ = <<>>
  /\ pending' = FALSE
  /\ \/ /\ \E order \in SetToSeqs(Stored), n \in 0..ListMax :
            /\ n <= Len(order) /\ (at = "ok" => n \in {Len(order), ListMax})
            /\ LET whole == [k \in 1..n |-> [slot |-> order[k], came |-> "whole"]]
               IN  \/ list' = whole
                   \/ n < Len(order) /\ \E e \in Beginning(order[n + 1]) : list' = Append(whole, e)
        /\ pc' = "walk"
     \/ /\ at = "poor"
        /\ pc' = "urc" /\ UNCHANGED list
  /\ late' = None
  /\ UNCHANGED <<at, sim, urc, waiting, indexQ, held, seen, inbox, slot, read, handled, unread, stall,
                 delivered, restarts>>

\* Nothing to do for half a second or until the next announcement.
Wait ==
  /\ pc = "work" /\ indexQ = <<>> /\ ~pending
  /\ pc' = "urc"
  /\ UNCHANGED <<at, sim, urc, waiting, indexQ, pending, held, seen, inbox, slot, read, late,
                 round, stall, delivered, restarts>>

\* The next message of the list: decoded it is handed on, then erased; at most
\* BatchMax of them in one round.
Walking == pc = "walk" /\ list # <<>> /\ handled < BatchMax
WalkGood ==
  /\ Walking
  /\ Head(list).came = "whole" /\ sim[Head(list).slot] \in Good
  /\ Decoded(sim[Head(list).slot])
  /\ pc' = "eraseWalked" /\ slot' = Head(list).slot /\ read' = sim[Head(list).slot]
  /\ list' = Tail(list)
  /\ UNCHANGED <<at, sim, urc, waiting, indexQ, pending, late, handled, unread, stall,
                 delivered, restarts>>

EraseWalked ==
  /\ pc = "eraseWalked"
  /\ Erase(slot)
  /\ handled' = handled + 1
  /\ pc' = "walk" /\ slot' = None /\ read' = None
  /\ UNCHANGED <<at, urc, waiting, indexQ, pending, held, seen, inbox, late, list, unread,
                 stall, delivered, restarts>>

\* A record whose PDU is missing or cannot be decoded: it is damaged, its answer was cut
\* or the decoder is busy.  At most BatchMax slots of a kind are noted.
Kind(e) == IF e.came = "bare" THEN "bare" ELSE "failed"
WalkUnread ==
  /\ Walking
  /\ at = "poor" \/ Head(list).came # "whole" \/ sim[Head(list).slot] \notin Good
  /\ LET k == Kind(Head(list))
     IN  unread' = IF Cardinality(unread[k]) < BatchMax
                   THEN [unread EXCEPT ![k] = @ \cup {Head(list).slot}] ELSE unread
  /\ list' = Tail(list)
  /\ UNCHANGED <<at, sim, urc, waiting, indexQ, pending, held, seen, inbox, pc, slot, read, late,
                 handled, stall, delivered, restarts>>

\* The end of a round: what was not read is tried again, and erased after StallMax
\* rounds in which nothing was handled.
NoMemory(k) == IF unread[k] = {} \/ handled > 0 THEN 0 ELSE 1   \* mutant: each round counts from the start
Stall(k) == IF unread[k] = {} \/ handled > 0 THEN 0 ELSE stall[k] + 1
EndWalk ==
  /\ pc = "walk"
  /\ list = <<>> \/ handled >= BatchMax
  /\ stall' = [k \in Kinds |-> Stall(k)]
  /\ pending' = (pending \/ list # <<>> \/ \E k \in Kinds : unread[k] # {} /\ stall'[k] < StallMax)
  /\ pc' = "giveUp" /\ list' = <<>>
  /\ UNCHANGED <<at, sim, urc, waiting, indexQ, held, seen, inbox, slot, read, late, handled,
                 unread, delivered, restarts>>

\* The records to be erased are erased one by one, the bare ones first.
Doomed(k) == IF stall[k] = StallMax THEN unread[k] ELSE {}
GiveUp ==
  /\ pc = "giveUp"
  /\ \E k \in Kinds :
       /\ k = "failed" => Doomed("bare") = {}
       /\ \E i \in Doomed(k) : Erase(i) /\ unread' = [unread EXCEPT ![k] = @ \ {i}]
  /\ UNCHANGED <<at, urc, waiting, indexQ, pending, held, seen, inbox, pc, slot, read, late,
                 list, handled, stall, delivered, restarts>>

RoundOver ==
  /\ pc = "giveUp" /\ \A k \in Kinds : Doomed(k) = {}
  /\ stall' = [k \in Kinds |-> IF stall[k] = StallMax THEN 0 ELSE stall[k]]
  /\ handled' = 0 /\ unread' = [k \in Kinds |-> {}]
  /\ pc' = "urc"
  /\ UNCHANGED <<at, sim, urc, waiting, indexQ, pending, held, seen, inbox, slot, read, late,
                 list, delivered, restarts>>

-----------------------------------------------------------------------------
Task == \/ ReadLine \/ AllRead \/ CloseWindow \/ ExpireParts \/ ReadSlot \/ ReadNothing \/ EraseSlot
        \/ ListSlots \/ Wait \/ WalkGood \/ EraseWalked \/ WalkUnread \/ EndWalk \/ GiveUp \/ RoundOver

Next ==
  \/ Task \/ AtChange \/ Restart
  \/ \E r \in Record : Arrive(r)
  \/ \E r \in Good : Push(r)

Spec == Init /\ [][Next]_vars

\* The task's loop runs for ever, and again and again the poll interval has elapsed.
FairSpec == Spec /\ WF_vars(Task) /\ SF_vars(ListSlots)

-----------------------------------------------------------------------------
TypeOK ==
  /\ at \in {"ok", "poor"}
  /\ sim \in [Slots -> Record \cup {None}]
  /\ urc \in Seq(Line)
  /\ {waiting, pending} \subseteq BOOLEAN
  /\ indexQ \in Seq(Slots) /\ Len(indexQ) <= IndexMax /\ IsInjective(indexQ)
  /\ held \subseteq Good
  /\ seen \in Seq(Text) /\ Len(seen) <= RingMax
  /\ inbox \in [Text -> Nat]
  /\ pc \in {"urc", "work", "erase", "walk", "eraseWalked", "giveUp"}
  /\ slot \in Slots \cup {None} /\ {read, late} \subseteq Good \cup {None}
  /\ list \in Seq(Entry) /\ handled \in 0..BatchMax /\ unread \in [Kinds -> SUBSET Slots]
  /\ stall \in [Kinds -> 0..StallMax]

\* Where the content of a message is: in the modem, in the assembler, in the inbox.
InInbox(r) == \E t \in Text : inbox[t] > 0 /\ t.msg = r.msg /\ r.part \in t.parts
Somewhere(r) == InInbox(r) \/ r \in held \/ \E i \in Slots : sim[i] = r

\* The two ways a message is erased unread: the answer to an earlier read was taken for
\* that of its slot; or its slot was among those that a round which handled nothing
\* could not read, and so were some in each of the StallMax - 1 rounds before it.
Mistaken(r) == pc = "erase" /\ sim[slot] = r /\ read # r
GivenUp(r) ==
  /\ pc = "giveUp" /\ handled = 0
  /\ \E k \in Kinds : stall[k] = StallMax /\ \E i \in unread[k] : sim[i] = r

\* A message that decodes never vanishes once the modem has stored it, with AT
\* commands failing, cut or late at any point and a restart between any two steps; only
\* a part that waits in the assembler is lost by a restart, and one that was mistaken
\* for another or given up is erased unread (idf_sms.cpp:392-778).
NothingVanishes ==
  [][\A r \in Good : Somewhere(r) => \/ Somewhere(r)'
                                    \/ (r \in held /\ Restart)
                                    \/ Mistaken(r) \/ GivenUp(r)]_vars

\* Read twice, announced twice or sent twice, a message of one part is stored and
\* forwarded once, except once more after a restart, which forgets the ring of recent
\* texts; so does a ring that is too short (idf_sms.cpp:37, 136-146).
StoredOnce ==
  \A t \in Text : PartsOf[t.msg] = 1 => inbox[t] <= 1 + restarts

\* Every variable stays in its range, and a message of one part is stored once.
StoreSound == TypeOK /\ StoredOnce

\* Once AT commands work for good, the storage is emptied, whatever announcements
\* were lost, queues overflowed or records do not decode, and the task stops
\* asking for it (idf_sms.cpp:632-880).
StorageDrains == <>[](at = "ok") => <>[](Stored = {} /\ ~pending)

\* architecture.md:36: de-duplication makes reading a message on two paths safe.
\* The same part never reaches the inbox in two different texts.
TwoPathsSafe ==
  \A t, u \in Text : inbox[t] > 0 /\ inbox[u] > 0 /\ t.msg = u.msg /\ t.parts \cap u.parts # {}
                       => t = u

\* idf_sms.cpp:738: "three rounds in a row without progress = the record itself is
\* damaged".  What is given up does not decode.
DamagedOnly == \A r \in Good : ~GivenUp(r)

-----------------------------------------------------------------------------
(* What makes these inductive.                                             *)

\* What is in hand between reading a slot and erasing it: a record that is kept
\* elsewhere by now.
SlotInHand ==
  /\ slot # None <=> pc \in {"erase", "eraseWalked"}
  /\ slot # None => read \in Good /\ (read \in held \/ InInbox(read))

\* A walked slot still holds what was read of it; and a kind of unread records is given
\* up only at the end of a round which handled nothing.
RoundInHand ==
  /\ pc = "eraseWalked" => sim[slot] = read /\ handled < BatchMax
  /\ \A k \in Kinds : stall[k] = StallMax => pc = "giveUp" /\ handled = 0

\* What the ring remembers was stored.
SeenStored == \A t \in ToSet(seen) : inbox[t] > 0

IntakeInv == TypeOK /\ SlotInHand /\ RoundInHand /\ SeenStored

\* While the ring has room for every text, it has each that was stored since the
\* start, once.
RingHoldsAll == IsFiniteSet(Text) /\ Cardinality(Text) <= RingMax
Remembered ==
  /\ restarts \in Nat /\ IsInjective(seen)
  /\ \A t \in Text : inbox[t] <= restarts + (IF t \in ToSet(seen) THEN 1 ELSE 0)
=============================================================================
