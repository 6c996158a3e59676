--------------------------- MODULE ConcatAssembler ---------------------------
(***************************************************************************)
(* The assembler of long messages (core/src/pdu.cpp, ConcatAssembler).     *)
(* Parts arrive in any order, late, twice or never; a fixed number of      *)
(* slots collects them, and a slot's parts are emitted as one message when *)
(* they are all there, when the slot times out, or when another message    *)
(* needs the slot.                                                         *)
(*                                                                         *)
(* Data abstraction: the text of a part is the number of its delivery, a   *)
(* slot's key stands for (reference, sender), and its lastUs is the age    *)
(* since then in time units, TimeOut of which are TIMEOUT_US.              *)
(***************************************************************************)
EXTENDS Integers, FiniteSetsExt

CONSTANTS
  Slots,         \* SLOTS
  Parts,         \* PARTS
  TimeOut,       \* TIMEOUT_US
  Keys,          \* pairs of a reference and a sender
  NoKey,         \* the key of a cleared slot
  Inputs,        \* the headers of the parts that may arrive
  MaxDeliveries  \* bound of the model: parts delivered

Header == [key : Keys, part : Nat, total : Nat]

SizesArePositive == Slots \in Nat \ {0} /\ Parts \in Nat \ {0} /\ TimeOut \in Nat
InputsAreHeaders == Inputs \subseteq Header
NoKeyNoKey == NoKey \notin Keys

VARIABLES
  slots,      \* slots_
  emitted,    \* what emit_ was called with: [key, text], 0 in text for a gap
  delivered,  \* the number of parts fed so far
  repeated    \* the deliveries ignored because their part was there already

vars == <<slots, emitted, delivered, repeated>>

\* A part's text is 0 while it is not valid.
Blank == [part \in 1..Parts |-> 0]
Slot == [active : BOOLEAN, key : Keys \cup {NoKey}, total : 0..Parts, received : 0..Parts,
         age : 0..TimeOut + 1, parts : [1..Parts -> Nat]]
Clear == [active |-> FALSE, key |-> NoKey, total |-> 0, received |-> 0, age |-> 0, parts |-> Blank]

Valid(s) == {p \in 1..Parts : slots[s].parts[p] # 0}
TimedOut(s) == slots[s].active /\ slots[s].age > TimeOut

Init ==
  /\ slots = [s \in 1..Slots |-> Clear]
  /\ emitted = {} /\ delivered = 0 /\ repeated = {}

-----------------------------------------------------------------------------
\* The texts of the slot's parts in order, with a mark for each one missing.
Assemble(slot) == [key |-> slot.key, text |-> [p \in 1..slot.total |-> slot.parts[p]]]

\* find_slot: the slot of this message; else a slot that is free or timed out,
\* whose parts are dropped; else the oldest one, whose parts are emitted first.
Match(h) == {s \in 1..Slots : /\ slots[s].active
                              /\ slots[s].key = h.key /\ slots[s].total = h.total}
FreeSlots == {s \in 1..Slots : ~slots[s].active \/ slots[s].age > TimeOut}
Oldest == Min({s \in 1..Slots : \A t \in 1..Slots : slots[t].age <= slots[s].age})

FindSlot(h) == IF Match(h) # {} THEN Min(Match(h))
               ELSE IF FreeSlots # {} THEN Min(FreeSlots) ELSE Oldest

Opened(h) == [Clear EXCEPT !.active = TRUE, !.key = h.key, !.total = h.total]

Evicted(h) == IF Match(h) = {} /\ FreeSlots = {} THEN {Assemble(slots[Oldest])} ELSE {}

\* A part that is there already is ignored, and does not make the slot younger.
Store(slot, h, n) ==
  IF slot.parts[h.part] # 0 THEN slot
  ELSE [slot EXCEPT !.parts = [@ EXCEPT ![h.part] = n], !.received = @ + 1, !.age = 0]

IsLong(h) == h.total > 1 /\ h.part > 0
IsInvalid(h) == h.total > Parts \/ h.part > h.total

Arrives == delivered < MaxDeliveries /\ delivered' = delivered + 1

\* A short message, or a part with impossible numbers, is emitted as it is.
FeedSingle(h) ==
  /\ ~IsLong(h) \/ IsInvalid(h)
  /\ Arrives
  /\ emitted' = emitted \cup {[key |-> h.key, text |-> [p \in 1..1 |-> delivered + 1]]}
  /\ UNCHANGED <<slots, repeated>>

IsComplete(slot) == slot.received >= slot.total
FeedPart(h) ==
  /\ IsLong(h) /\ ~IsInvalid(h)
  /\ Arrives
  /\ LET s == FindSlot(h)
         slot == IF Match(h) # {} THEN slots[s] ELSE Opened(h)
         filled == Store(slot, h, delivered + 1)
     IN  /\ repeated' = IF filled = slot THEN repeated \cup {delivered + 1} ELSE repeated
         /\ IF IsComplete(filled)
            THEN /\ slots' = [slots EXCEPT ![s] = Clear]
                 /\ emitted' = emitted \cup Evicted(h) \cup {Assemble(filled)}
            ELSE /\ slots' = [slots EXCEPT ![s] = filled]
                 /\ emitted' = emitted \cup Evicted(h)

\* expire: every slot that timed out is emitted as it stands.
ExpireEmitOnly ==   \* mutant: the slots are emitted and not cleared
  /\ \E s \in 1..Slots : TimedOut(s)
  /\ emitted' = emitted \cup {Assemble(slots[s]) : s \in {t \in 1..Slots : TimedOut(t)}}
  /\ UNCHANGED <<slots, delivered, repeated>>
Expire ==
  /\ \E s \in 1..Slots : TimedOut(s)
  /\ emitted' = emitted \cup {Assemble(slots[s]) : s \in {t \in 1..Slots : TimedOut(t)}}
  /\ slots' = [s \in 1..Slots |-> IF TimedOut(s) THEN Clear ELSE slots[s]]
  /\ UNCHANGED <<delivered, repeated>>

\* Time passes; beyond the time-out it makes no difference how much.
Tick ==
  /\ \E s \in 1..Slots : slots[s].active /\ ~TimedOut(s)
  /\ slots' = [s \in 1..Slots |->
                 IF slots[s].active /\ ~TimedOut(s)
                 THEN [slots[s] EXCEPT !.age = @ + 1] ELSE slots[s]]
  /\ UNCHANGED <<emitted, delivered, repeated>>

Next == Tick \/ Expire \/ \E h \in Inputs : FeedSingle(h) \/ FeedPart(h)

Spec == Init /\ [][Next]_vars

\* Time passes, and the caller's loop calls expire for ever.
FairSpec == Spec /\ WF_vars(Tick) /\ WF_vars(Expire)

-----------------------------------------------------------------------------
Texts(slot) == {slot.parts[p] : p \in 1..Parts} \ {0}
Held == UNION {Texts(slots[s]) : s \in 1..Slots}
TextsOf(e) == {e.text[p] : p \in DOMAIN e.text} \ {0}
Sent == UNION {TextsOf(e) : e \in emitted}

TypeOK ==
  /\ slots \in [1..Slots -> Slot]
  /\ \A e \in emitted : e.key \in Keys /\ \E n \in 1..Parts : e.text \in [1..n -> Nat]
  /\ delivered \in Nat
  /\ repeated \subseteq 1..delivered

\* The count of a slot is the number of its parts, a slot is never complete at
\* rest, and no two slots collect the same message (pdu.cpp:210-279).
SlotsSound ==
  /\ \A s \in 1..Slots : /\ slots[s].received = Cardinality(Valid(s))
                         /\ slots[s].active => slots[s].received \in 1..slots[s].total - 1
                         /\ Valid(s) \subseteq 1..slots[s].total
  /\ \A s, t \in 1..Slots :
       slots[s].active /\ slots[t].active /\ slots[s].key = slots[t].key
         /\ slots[s].total = slots[t].total => s = t

\* A delivered part is in one slot or in one emission, never in two places: a
\* repeated, late or evicted part is never shown twice (pdu.cpp:210-292).
NothingTwice ==
  /\ Held \cap Sent = {}
  /\ \A e, f \in emitted : TextsOf(e) \cap TextsOf(f) # {} => e = f
  /\ (Held \cup Sent) \cap repeated = {}

\* A part leaves its slot without being emitted only if the slot had timed out
\* before another message took it: eviction and expiry lose nothing.
LeavesEmitted ==
  [][\A s \in 1..Slots :
       ~TimedOut(s) => Texts(slots[s]) \subseteq (Held \cup Sent)']_vars

\* The comment at pdu.h:77: a long message is never silently dropped, whatever
\* is missing is marked.  Every part fed is held, was emitted, or was a repeat.
NoSilentDrop == 1..delivered \subseteq Held \cup Sent \cup repeated

\* An incomplete message does not stay in its slot for ever, even if its parts
\* keep being repeated (pdu.cpp:263-270, 281-292).
SlotsFreed == \A s \in 1..Slots : []<>~slots[s].active

-----------------------------------------------------------------------------
(* What makes these inductive: a slot at rest is empty, no text is in two  *)
(* slots, and none is there before it was fed.                             *)
EmptyAtRest == \A s \in 1..Slots : IF slots[s].active THEN slots[s].key \in Keys ELSE Valid(s) = {}
TextsApart == \A s, t \in 1..Slots : s # t => Texts(slots[s]) \cap Texts(slots[t]) = {}
TextsFed == Held \cup Sent \subseteq 1..delivered
ConcatInv == TypeOK /\ SlotsSound /\ NothingTwice /\ EmptyAtRest /\ TextsApart /\ TextsFed
=============================================================================
