---------------------------- MODULE ForwardLedger ----------------------------
(***************************************************************************)
(* What the forwarding core promises the inbox, with no queue, worker or   *)
(* retry in sight: an entry is marked forwarded only when every target of  *)
(* one dispatch of it has accepted the message, or was excused because the *)
(* settings had left it without an address by then, or when a forwarding   *)
(* rule dropped the entry.  A dispatch is a promise with the targets it is *)
(* to reach and those that accepted; one that is abandoned marks nothing.  *)
(***************************************************************************)
EXTENDS Naturals

CONSTANTS Msgs, NoMsg, Targets

VARIABLES
  open,      \* the dispatches under way: [id, msg, to, by, off]
  settling,  \* the entries about to be marked
  dropped,   \* the entries the present rules drop
  void,      \* the targets the present settings leave without an address
  inbox      \* the state of each entry

vars == <<open, settling, dropped, void, inbox>>

\* To whom the message is to go, who accepted it and who was excused.
Promise == [id : Nat \ {0}, msg : Msgs, to : (SUBSET Targets) \ {{}},
            by : SUBSET Targets, off : SUBSET Targets]

Init ==
  /\ open = {} /\ settling = {}
  /\ dropped \in SUBSET (Msgs \cup {NoMsg})
  /\ void \in SUBSET Targets
  /\ inbox = [m \in Msgs |-> "unseen"]

Arrive(m) ==
  /\ inbox[m] = "unseen"
  /\ inbox' = [inbox EXCEPT ![m] = "pending"]
  /\ UNCHANGED <<open, settling, dropped, void>>

Delete(m) ==
  /\ inbox[m] \in {"pending", "forwarded"}
  /\ inbox' = [inbox EXCEPT ![m] = "gone"]
  /\ UNCHANGED <<open, settling, dropped, void>>

ChangeSettings ==
  /\ dropped' \in SUBSET (Msgs \cup {NoMsg})
  /\ void' \in SUBSET Targets
  /\ UNCHANGED <<open, settling, inbox>>

Open ==
  /\ \E p \in open' : /\ p \in Promise
                      /\ p.by = {} /\ p.off = {}
                      /\ \A q \in open : q.id # p.id
                      /\ open' = open \cup {p}
  /\ UNCHANGED <<settling, dropped, void, inbox>>

\* A target of the dispatch takes the message.
Accept(p, t) ==
  /\ t \in p.to
  /\ open' = (open \ {p}) \cup {[p EXCEPT !.by = @ \cup {t}]}
  /\ UNCHANGED <<settling, dropped, void, inbox>>

\* A target is let off: there is nowhere left to send to.
Excuse(p, t) ==
  /\ t \in p.to \cap void
  /\ open' = (open \ {p}) \cup {[p EXCEPT !.off = @ \cup {t}]}
  /\ UNCHANGED <<settling, dropped, void, inbox>>

\* The only way from a dispatch to a mark.
Fulfil(p) ==
  /\ p.to \subseteq p.by \cup p.off
  /\ open' = open \ {p}
  /\ settling' = settling \cup {p.msg}
  /\ UNCHANGED <<dropped, void, inbox>>

Abandon ==
  /\ open' \in SUBSET open
  /\ UNCHANGED <<settling, dropped, void, inbox>>

Drop(m) ==
  /\ m \in dropped
  /\ settling' = settling \cup {m}
  /\ UNCHANGED <<open, dropped, void, inbox>>

\* Two threads may be about to mark the same entry.
Settle(m) ==
  /\ settling' \in {settling, settling \ {m}}
  /\ inbox' = [n \in Msgs |->
                 IF n = m /\ inbox[n] \in {"pending", "forwarded"} THEN "forwarded" ELSE inbox[n]]
  /\ UNCHANGED <<open, dropped, void>>

\* A mark may be taken back at any time: the promise is about setting it.
Unmark(m) ==
  /\ inbox[m] = "forwarded"
  /\ inbox' = [inbox EXCEPT ![m] = "pending"]
  /\ UNCHANGED <<open, settling, dropped, void>>

\* The settings are on disk, which is where a restart reads them from.
Crash ==
  /\ open' = {} /\ settling' = {}
  /\ void' \in SUBSET Targets
  /\ UNCHANGED <<dropped, inbox>>

Next ==
  \/ \E m \in Msgs : Arrive(m) \/ Delete(m) \/ Unmark(m)
  \/ ChangeSettings \/ Open \/ Abandon \/ Crash
  \/ \E p \in open : Fulfil(p) \/ \E t \in Targets : Accept(p, t) \/ Excuse(p, t)
  \/ \E m \in dropped : Drop(m)
  \/ \E m \in settling : Settle(m)

Spec == Init /\ [][Next]_vars
=============================================================================
