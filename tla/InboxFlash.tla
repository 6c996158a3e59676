----------------------------- MODULE InboxFlash -----------------------------
(***************************************************************************)
(* The inbox of the ESP-IDF port: the ring of core/src/inbox.cpp, and its  *)
(* copy in a flash partition kept by components/idf_inbox, one key per     *)
(* entry.  An operation changes the ring, then the flash, under one lock;  *)
(* the device may lose power between any two flash writes, and any of them *)
(* may fail, which the code ignores.                                       *)
(*                                                                         *)
(* Data abstraction: an entry is its id and its mark.  A flash write is    *)
(* atomic, as NVS promises; a start may still find entries it cannot read. *)
(* The outbox, a ring of the same make without deletion, is left out.      *)
(***************************************************************************)
EXTENDS Naturals, FiniteSets

CONSTANTS
  Capacity,   \* INBOX_CAPACITY
  OldFlash,   \* what an earlier firmware may have left in the partition
  MaxId       \* bound of the model: ids

Entry == [id : 1..MaxId, forwarded : BOOLEAN]

CapacityPositive == Capacity \in Nat \ {0}
OldFlashIsFlash == OldFlash \subseteq SUBSET Entry
OldFlashHasKeys == \A old \in OldFlash : \A d, e \in old : d.id = e.id => d = e
MaxIdNat == MaxId \in Nat

VARIABLES
  ring,     \* inbox_
  head,     \* inboxHead_
  filled,   \* inboxFilled_
  seq,      \* inboxSeq_
  flash,    \* the entries in the partition
  ready,    \* s_nvs_ready
  pc,       \* "off", "idle", or the flash write under way: "erase" or "persist"
  victim,   \* the id to erase
  fresh,    \* the id to persist, 0 for none
  missed    \* ghost: the ids whose last flash write failed

store == <<ring, head, filled, seq>>
vars == <<store, flash, ready, pc, victim, fresh, missed>>

Places == 0..Capacity - 1
Hole == [id |-> 0, forwarded |-> FALSE]

Shown == {ring[p] : p \in Places} \ {Hole}
OfId(entries, id) == {e \in entries : e.id = id}
Newest(entries) == CHOOSE n \in {e.id : e \in entries} \cup {0} : \A e \in entries : e.id <= n

Init ==
  /\ ring = [p \in Places |-> Hole] /\ head = 0 /\ filled = 0 /\ seq = 0
  /\ flash \in OldFlash
  /\ ready = FALSE /\ pc = "off" /\ victim = 0 /\ fresh = 0
  /\ missed = {}

-----------------------------------------------------------------------------
(* Start-up and loss of power.                                             *)

Older(entries, e) == {d \in entries : d.id < e.id}
\* The entries a start-up keeps: the newest Capacity of them.
KeepOldest(entries) == {e \in entries : Cardinality(Older(entries, e)) < Capacity}   \* mutant
Keep(entries) == {e \in entries : Cardinality(entries) - Cardinality(Older(entries, e)) <= Capacity}

\* restore_received, from the oldest entry to the newest, into an empty ring.
Restore(entries) ==
  ring' = [p \in Places |->
             IF p < Cardinality(entries)
             THEN CHOOSE e \in entries : Cardinality(Older(entries, e)) = p
             ELSE Hole]

\* load_inbox_from_flash: what cannot be read as an entry (for_each_blob) and what
\* is beyond the capacity is erased, or an erasure fails.
Load(entries, bad) ==
  LET kept == Keep(entries \ bad) IN
    /\ Restore(kept)
    /\ head' = Cardinality(kept) % Capacity /\ filled' = Cardinality(kept)
    /\ seq' = Newest(kept)
    /\ \E stuck \in SUBSET (entries \ kept) :
         flash' = kept \cup stuck /\ missed' = {e.id : e \in stuck}

\* idf_inbox_init: the partition is mounted and some of it may not be readable, it
\* is mounted after it was erased because it was full, or it is not mounted at all.
Mount(bad) == ready' = TRUE /\ Load(flash, bad)
Boot ==
  /\ pc = "off" /\ pc' = "idle"
  /\ \/ \E bad \in SUBSET flash : Mount(bad)
     \/ ready' = TRUE /\ Load({}, {})
     \/ ready' = FALSE /\ UNCHANGED <<store, flash, missed>>
  /\ UNCHANGED <<victim, fresh>>

PowerLoss ==
  /\ pc # "off" /\ pc' = "off"
  /\ ring' = [p \in Places |-> Hole] /\ head' = 0 /\ filled' = 0 /\ seq' = 0
  /\ ready' = FALSE /\ victim' = 0 /\ fresh' = 0 /\ missed' = {}
  /\ UNCHANGED flash

-----------------------------------------------------------------------------
(* The operations: what they do to the ring.                               *)

ToFlash(erase, persist) ==
  /\ pc' = IF ~ready \/ (erase = 0 /\ persist = 0) THEN "idle"
           ELSE IF erase # 0 THEN "erase" ELSE "persist"
  /\ victim' = erase /\ fresh' = persist

\* MessageStore::insert_received; a full ring gives up the entry at its head.
After(h) == (h + 1) % Capacity
NeverEvicts == 0   \* mutant: evictedId is not set
Evicted == IF filled = Capacity THEN ring[head].id ELSE 0
Add ==
  /\ pc = "idle" /\ seq < MaxId
  /\ ring' = [ring EXCEPT ![head] = [id |-> seq + 1, forwarded |-> FALSE]]
  /\ seq' = seq + 1
  /\ head' = After(head)
  /\ filled' = IF filled < Capacity THEN filled + 1 ELSE filled
  /\ ToFlash(Evicted, seq + 1)
  /\ UNCHANGED <<flash, ready, missed>>

\* idf_inbox_set_forwarded: only a mark that changes is written.
SetForwarded(id, forwarded) ==
  /\ pc = "idle"
  /\ \E e \in OfId(Shown, id) : e.forwarded # forwarded
  /\ ring' = [p \in Places |-> IF ring[p].id = id THEN [ring[p] EXCEPT !.forwarded = forwarded]
                               ELSE ring[p]]
  /\ ToFlash(0, id)
  /\ UNCHANGED <<head, filled, seq, flash, ready, missed>>

\* idf_inbox_delete
Delete(id) ==
  /\ pc = "idle"
  /\ OfId(Shown, id) # {}
  /\ ring' = [p \in Places |-> IF ring[p].id = id THEN Hole ELSE ring[p]]
  /\ ToFlash(id, 0)
  /\ UNCHANGED <<head, filled, seq, flash, ready, missed>>

(* The operations: what they do to the flash.                              *)

Failed(id) == UNCHANGED flash /\ missed' = missed \cup {id}
Written(id) == missed' = missed \ {id}

EraseEntry ==
  /\ pc = "erase"
  /\ \/ flash' = flash \ OfId(flash, victim) /\ Written(victim)
     \/ Failed(victim)
  /\ pc' = IF fresh # 0 THEN "persist" ELSE "idle"
  /\ UNCHANGED <<store, ready, victim, fresh>>

PersistEntry ==
  /\ pc = "persist"
  /\ \/ /\ flash' = (flash \ OfId(flash, fresh)) \cup OfId(Shown, fresh) /\ Written(fresh)
     \/ Failed(fresh)
  /\ pc' = "idle"
  /\ UNCHANGED <<store, ready, victim, fresh>>

Next ==
  \/ Boot \/ PowerLoss \/ Add \/ EraseEntry \/ PersistEntry
  \/ \E id \in 1..MaxId : Delete(id) \/ \E b \in BOOLEAN : SetForwarded(id, b)

Spec == Init /\ [][Next]_vars

-----------------------------------------------------------------------------
TypeOK ==
  /\ ring \in [Places -> Entry \cup {Hole}]
  /\ head \in Places /\ filled \in 0..Capacity /\ seq \in 0..MaxId
  /\ flash \subseteq Entry
  /\ ready \in BOOLEAN
  /\ pc \in {"off", "idle", "erase", "persist"}
  /\ {victim, fresh} \subseteq 0..MaxId
  /\ missed \subseteq 1..MaxId

\* The page lists the entries from head backwards as newest first: with holes left
\* by deletions, after any number of turns of the ring and after a restart, the
\* ids decrease from there on, so the entry a full ring gives up is its oldest
\* (inbox.cpp:14-28, 108-121).
At(k) == ring[(head + Capacity - 1 - k) % Capacity]
NewestFirst ==
  /\ filled < Capacity => head = filled
  /\ \A k \in filled..Capacity - 1 : At(k) = Hole
  /\ \A j, k \in 0..filled - 1 : j < k /\ At(j) # Hole /\ At(k) # Hole => At(j).id > At(k).id
  /\ \A e \in Shown : e.id <= seq

\* Between operations the flash holds what the page shows, mark for mark, but for
\* the entries whose last write failed: what is shown survives a restart and what
\* was deleted or evicted does not come back (idf_inbox.cpp:80-300).
FlashMirrors ==
  pc = "idle" /\ ready =>
    \A id \in 1..MaxId \ missed : OfId(flash, id) = OfId(Shown, id)

\* A restart, in the middle of an operation or after an upgrade from a larger ring,
\* takes from the user no entry that can be read but the oldest ones beyond the
\* capacity, and gives each back with its mark (idf_inbox.cpp:154-181).
RestartKeepsNewest ==
  [][\A bad \in SUBSET flash : Boot /\ Mount(bad) =>
       /\ Shown' \subseteq flash \ bad
       /\ \A e \in flash \ (bad \cup Shown') :
            /\ Cardinality(Shown') = Capacity
            /\ \A d \in Shown' : d.id > e.id]_vars

-----------------------------------------------------------------------------
(* What makes these inductive: flash has one entry of an id, as it has one *)
(* key, and during an operation it differs from the ring in no other entry *)
(* than those the operation is about.                                      *)
Keyed == \A d, e \in flash : d.id = e.id => d = e
MirrorsBut(ids) == \A id \in (1..MaxId) \ (missed \cup ids) : OfId(flash, id) = OfId(Shown, id)
UnderWay ==
  /\ pc = "persist" => fresh # 0
  /\ pc = "erase" => victim # 0
  /\ ready /\ pc = "idle" => MirrorsBut({})
  /\ ready /\ pc = "persist" => MirrorsBut({fresh})
  /\ ready /\ pc = "erase" => MirrorsBut({victim, fresh}) /\ OfId(Shown, victim) = {}
InboxInv == TypeOK /\ NewestFirst /\ Keyed /\ UnderWay
=============================================================================
