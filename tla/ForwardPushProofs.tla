-------------------------- MODULE ForwardPushProofs --------------------------
(***************************************************************************)
(* What holds of the forwarding worker for any channels, messages,         *)
(* configurations and sizes: its state is well typed, a completion counts  *)
(* exactly what is owed, no queue exceeds its array and no dispatch lacks  *)
(* an entry, and the worker keeps the promises of ForwardLedger.           *)
(***************************************************************************)
EXTENDS ForwardPush, FiniteSetTheorems, TLAPS

\* What the changes a job goes through keep.
LEMMA LegChanges ==
  ASSUME NEW l \in Leg
  PROVE  /\ Later(l) \in Leg /\ Later(l).cid = l.cid /\ Later(l).target = l.target
         /\ Raise(l) \in Leg /\ Raise(l).cid = l.cid /\ Raise(l).target = l.target
         /\ Again(l) \in Leg /\ Again(l).cid = l.cid /\ Again(l).target = l.target
<1>1. Later(l) \in Leg
  BY DEF Leg, Later
<1>2. Later(l).cid = l.cid /\ Later(l).target = l.target
  BY DEF Leg, Later
<1>3. Raise(l) \in Leg
  BY DEF Leg, Raise
<1>4. Raise(l).cid = l.cid /\ Raise(l).target = l.target
  BY DEF Leg, Raise
<1>5. Again(l) \in Leg
  BY DEF Leg, Again
<1>6. Again(l).cid = l.cid /\ Again(l).target = l.target
  BY DEF Leg, Again
<1>7. QED
  BY <1>1, <1>2, <1>3, <1>4, <1>5, <1>6

LEMMA ForwardJobChanges ==
  /\ \A j \in ForwardJob : Later(j) \in ForwardJob /\ Raise(j) \in ForwardJob
  /\ \A e \in Nat, m \in Msgs \cup {NoMsg}, d \in BOOLEAN :
       [ev |-> e, msg |-> m, due |-> d] \in ForwardJob
<1>1. ASSUME NEW j \in ForwardJob PROVE Later(j) \in ForwardJob
  BY DEF ForwardJob, Later
<1>2. ASSUME NEW j \in ForwardJob PROVE Raise(j) \in ForwardJob
  BY DEF ForwardJob, Raise
<1>3. QED
  BY <1>1, <1>2 DEF ForwardJob

LEMMA NewLegType ==
  \A e \in Nat, m \in Msgs \cup {NoMsg}, id \in Nat, t \in Targets :
     /\ NewLeg(e, m, id, t) \in Leg
     /\ NewLeg(e, m, id, t).cid = id
     /\ NewLeg(e, m, id, t).target = t
BY DEF NewLeg, Leg

LEMMA NoticeLegType ==
  \A e \in Nat, t \in Targets : /\ NewLeg(e, NoMsg, 0, t) \in Leg
                               /\ NewLeg(e, NoMsg, 0, t).cid = 0
                               /\ NewLeg(e, NoMsg, 0, t).target = t
BY DEF NewLeg, Leg

\* The targets of a message are channels and possibly e-mail, a finite set.
LEMMA TargetsFinite == IsFiniteSet(Targets) /\ Cardinality(Targets) \in Nat
BY ChannelsFinite, FS_AddElement, FS_CardinalityType DEF Targets

LEMMA SelectedType ==
  ASSUME NEW c \in Configs, NEW m \in Msgs \cup {NoMsg}
  PROVE  /\ PushTargets(c, m) \subseteq Channels
         /\ Selected(c, m) \subseteq Targets
         /\ IsFiniteSet(Selected(c, m)) /\ Cardinality(Selected(c, m)) \in Nat
         /\ Selected(c, m) # {} => Cardinality(Selected(c, m)) > 0
<1>1. c \in Config
  BY ConfigsAreConfigs
<1>2. PushTargets(c, m) \subseteq Channels
  BY <1>1 DEF Config, PushTargets
<1>3. Selected(c, m) \subseteq Targets
  BY <1>2 DEF Selected, Targets
<1>4. IsFiniteSet(Selected(c, m)) /\ Cardinality(Selected(c, m)) \in Nat
  BY <1>3, TargetsFinite, FS_Subset, FS_CardinalityType
<1>5. QED
  BY <1>2, <1>3, <1>4, FS_EmptySet

LEMMA EnqueueForwardType ==
  ASSUME TypeOK, NEW m \in Msgs \cup {NoMsg}, EnqueueForward(m)
  PROVE  fwdQ' \in SUBSET ForwardJob
<1>1. events + 1 \in Nat /\ TRUE \in BOOLEAN
  BY DEF TypeOK
<1>4. [ev |-> events + 1, msg |-> m, due |-> TRUE] \in ForwardJob
  BY <1>1, ForwardJobChanges
<1>2. fwdQ' \subseteq fwdQ \cup {[ev |-> events + 1, msg |-> m, due |-> TRUE]}
  BY DEF EnqueueForward
<1>3. QED
  BY <1>4, <1>2 DEF TypeOK

\* Noting an acceptance changes an entry in nothing but who accepted.
LEMMA AcceptedFields ==
  ASSUME comp \in SUBSET Completion, NEW id, NEW t \in Targets
  PROVE  \A d \in Accepted(id, t) :
           /\ d \in Completion
           /\ \E c \in comp : /\ d.id = c.id /\ d.msg = c.msg /\ d.remaining = c.remaining
                             /\ d.to = c.to
                             /\ d.by = IF c.id = id THEN c.by \cup {t} ELSE c.by
<1>1. ASSUME NEW c \in comp, NEW d, d = [c EXCEPT !.by = @ \cup {t}]
      PROVE  /\ d \in Completion
             /\ d.id = c.id /\ d.msg = c.msg /\ d.remaining = c.remaining
             /\ d.to = c.to /\ d.by = c.by \cup {t}
  <2>1. c \in Completion
    OBVIOUS
  <2>2. QED
    BY <1>1, <2>1 DEF Completion
<1>2. SUFFICES ASSUME NEW c \in comp, NEW d, d = IF c.id = id THEN [c EXCEPT !.by = @ \cup {t}] ELSE c
               PROVE  /\ d \in Completion
                      /\ d.id = c.id /\ d.msg = c.msg /\ d.remaining = c.remaining
                      /\ d.to = c.to /\ d.by = IF c.id = id THEN c.by \cup {t} ELSE c.by
  BY Zenon DEF Accepted
<1>3. CASE c.id = id
  BY <1>1, <1>2, <1>3
<1>4. CASE c.id # id
  BY <1>2, <1>4
<1>5. QED
  BY <1>3, <1>4

LEMMA InitType == Init => TypeOK
BY SizesAreNat DEF Init, TypeOK, WorkerSteps, LegSteps

LEMMA NextType == TypeOK /\ [Next]_vars => TypeOK'
<1> SUFFICES ASSUME TypeOK, [Next]_vars PROVE TypeOK'
  OBVIOUS
<1> USE DEF TypeOK, WorkerSteps, LegSteps
<1>1. ASSUME NEW m \in Msgs, Receive(m) PROVE TypeOK'
  <2>1. fwdQ' \in SUBSET ForwardJob
    BY <1>1, EnqueueForwardType DEF Receive
  <2>2. QED
    BY <1>1, <2>1 DEF Receive, NewRequest, EnqueueForward, worker
<1>2. ASSUME NEW m \in Msgs, Resend(m) PROVE TypeOK'
  <2>1. fwdQ' \in SUBSET ForwardJob
    BY <1>2, EnqueueForwardType DEF Resend
  <2>2. QED
    BY <1>2, <2>1 DEF Resend, NewRequest, EnqueueForward, worker
<1>3. ASSUME NEW m \in Msgs, Forget(m) PROVE TypeOK'
  BY <1>3 DEF Forget, shared, worker
<1>4. CASE ForwardCall
  <2>1. fwdQ' \in SUBSET ForwardJob
    BY <1>4, EnqueueForwardType DEF ForwardCall
  <2>2. QED
    BY <1>4, <2>1 DEF ForwardCall, NewRequest, EnqueueForward, worker
<1>5. CASE Notify
  <2>1. PICK S \in SUBSET cfg.valid :
               pushQ' = pushQ \cup {NewLeg(events + 1, NoMsg, 0, c) : c \in S}
    BY <1>5 DEF Notify
  <2>2. S \subseteq Channels
    BY <2>1, ConfigsAreConfigs DEF Config
  <2>3. events + 1 \in Nat
    OBVIOUS
  <2>4. \A c \in S : /\ NewLeg(events + 1, NoMsg, 0, c) \in Leg
                     /\ NewLeg(events + 1, NoMsg, 0, c).target \in Channels
    BY <2>2, <2>3, NoticeLegType DEF Targets
  <2>5. pushQ' \in SUBSET {l \in Leg : l.target \in Channels}
    BY <2>1, <2>4
  <2>6. QED
    BY <1>5, <2>5 DEF Notify, NewRequest, worker
<1>6. CASE MailNotice
  <2>1. events + 1 \in Nat
    OBVIOUS
  <2>2. /\ NewLeg(events + 1, NoMsg, 0, Email) \in Leg
        /\ NewLeg(events + 1, NoMsg, 0, Email).target = Email
    BY <2>1, NoticeLegType DEF Targets
  <2>3. emailQ' \in SUBSET {l \in Leg : l.target = Email}
    BY <1>6, <2>2 DEF MailNotice
  <2>4. QED
    BY <1>6, <2>3 DEF MailNotice, NewRequest, worker
<1>7. CASE SaveConfig
  BY <1>7 DEF SaveConfig, shared, worker
<1>8. CASE EnvChange
  BY <1>8 DEF EnvChange, shared, worker
<1>9. CASE Restart
  BY <1>9 DEF Restart
<1>10. CASE ForwardDue
  BY <1>10, ForwardJobChanges DEF ForwardDue, worker
<1>10a. CASE PushDue
  BY <1>10a, LegChanges DEF PushDue, worker
<1>10b. CASE EmailDue
  BY <1>10b, LegChanges DEF EmailDue, worker
<1>11. CASE CoolDown
  BY <1>11 DEF CoolDown, shared, worker
<1>12. CASE PopForward
  BY <1>12 DEF PopForward
<1>13. CASE NoForward
  BY <1>13 DEF NoForward, shared
<1>14. CASE Decide
  BY <1>14 DEF Decide, shared, ForwardJob
<1>15. CASE Dispatch
  <2>1. /\ fwd \in ForwardJob /\ fwd.ev \in Nat /\ fwd.msg \in Msgs \cup {NoMsg}
        /\ view \in Configs
    BY <1>15 DEF Dispatch, ForwardJob
  <2> DEFINE id == IF NeedsCompletion(view, fwd.msg) THEN nextCid + 1 ELSE 0
  <2>2. id \in Nat
    OBVIOUS
  <2>3. \A c \in PushTargets(view, fwd.msg) : /\ NewLeg(fwd.ev, fwd.msg, id, c) \in Leg
                                             /\ NewLeg(fwd.ev, fwd.msg, id, c).target \in Channels
    BY <2>1, <2>2, SelectedType, NewLegType DEF Targets
  <2>4. /\ NewLeg(fwd.ev, fwd.msg, id, Email) \in Leg
        /\ NewLeg(fwd.ev, fwd.msg, id, Email).target = Email
    BY <2>1, <2>2, NewLegType DEF Targets
  <2>5. nextCid' \in Nat /\ comp' \in SUBSET Completion
    <3>1. /\ Cardinality(Selected(view, fwd.msg)) \in Nat
          /\ Selected(view, fwd.msg) \in SUBSET Targets
      BY <2>1, SelectedType
    <3>2. QED
      BY <1>15, <2>1, <3>1 DEF Dispatch, Register, Completion, NeedsCompletion
  <2>6. pushQ' = pushQ \cup {NewLeg(fwd.ev, fwd.msg, id, c) : c \in PushTargets(view, fwd.msg)}
    BY <1>15 DEF Dispatch
  <2>7. emailQ' = emailQ \cup (IF WantsEmail(view, fwd.msg)
                              THEN {NewLeg(fwd.ev, fwd.msg, id, Email)} ELSE {})
    BY <1>15 DEF Dispatch
  <2>8. pushQ' \in SUBSET {l \in Leg : l.target \in Channels}
    BY <2>3, <2>6
  <2>9. emailQ' \in SUBSET {l \in Leg : l.target = Email}
    BY <2>4, <2>7
  <2>10. QED
    BY <1>15, <2>5, <2>8, <2>9 DEF Dispatch
<1>16. CASE DispatchBusy
  BY <1>16 DEF DispatchBusy, shared
<1>17. CASE Requeue
  BY <1>17, ForwardJobChanges DEF Requeue
<1>18. CASE PickPush
  BY <1>18 DEF PickPush
<1>19. CASE NoPush
  BY <1>19 DEF NoPush, shared
<1>20. CASE ReadEmailConfig
  BY <1>20 DEF ReadEmailConfig, shared
<1>21. CASE PurgeEmail
  BY <1>21 DEF PurgeEmail, Cancel
<1>22. CASE PickEmail
  BY <1>22 DEF PickEmail
<1>23. CASE SendInvalid
  BY <1>23 DEF SendInvalid, Cancel
<1>24. CASE SendOk
  <2>1. leg.target \in Targets /\ leg.cid \in Nat
    BY <1>24 DEF SendOk, MaySend, Leg
  <2>2. comp' \in SUBSET Completion
    BY <1>24, <2>1, AcceptedFields DEF SendOk
  <2>3. QED
    BY <1>24, <2>2 DEF SendOk, MaySend
<1>25. CASE SendFails
  BY <1>25, LegChanges DEF SendFails, MaySend, shared, Again
<1>26. CASE NoteSuccess
  BY <1>26 DEF NoteSuccess, Completion, LastLeg
<1>27. CASE Mark
  BY <1>27 DEF Mark, SetForwarded, shared
<1>28. CASE Retry
  BY <1>28, LegChanges DEF Retry
<1>29. CASE GiveUp
  BY <1>29 DEF GiveUp, Cancel, Leg
<1>30. CASE ClearMark
  BY <1>30 DEF ClearMark, SetForwarded, shared
<1>31. CASE UNCHANGED vars
  BY <1>31 DEF vars, shared, worker
<1>32. QED
  BY <1>1, <1>2, <1>3, <1>4, <1>5, <1>6, <1>7, <1>8, <1>9, <1>10, <1>10a, <1>10b, <1>11, <1>12, <1>13,
     <1>14, <1>15, <1>16, <1>17, <1>18, <1>19, <1>20, <1>21, <1>22, <1>23, <1>24, <1>25,
     <1>26, <1>27, <1>28, <1>29, <1>30, <1>31 DEF Next, Worker, Others, Time

\* Type correctness of the forwarding core.
THEOREM TypeCorrect == Spec => []TypeOK
<1>1. Init => TypeOK
  BY InitType
<1>2. TypeOK /\ [Next]_vars => TypeOK'
  BY NextType
<1>3. QED
  BY <1>1, <1>2, PTL DEF Spec

-----------------------------------------------------------------------------
(***************************************************************************)
(* The accounting of the completion table.  The inductive invariant says   *)
(* that ids are fresh, that no two entries share one and that an id has at *)
(* most one leg per target; then a leg that leaves Live takes exactly one  *)
(* target away from what its entry is owed.                                *)
(***************************************************************************)

LEMMA OwedType ==
  ASSUME TypeOK, NEW id
  PROVE  /\ Owed(id) \subseteq Targets
         /\ IsFiniteSet(Owed(id)) /\ Cardinality(Owed(id)) \in Nat
<1>1. \A l \in Live : l \in Leg /\ l.target \in Targets
  BY DEF TypeOK, Live, Leg
<1>2. Owed(id) \subseteq Targets
  BY <1>1 DEF Owed
<1>3. QED
  BY <1>2, TargetsFinite, FS_Subset, FS_CardinalityType

LEMMA CompletionFields ==
  ASSUME NEW c \in Completion
  PROVE  c.id \in Nat /\ c.id # 0 /\ c.msg \in Msgs /\ c.remaining \in Nat
BY DEF Completion

\* No entry is made, and every entry that stays is owed what it was owed.
OwedKept == \A c \in comp' : c \in comp /\ Owed(c.id)' = Owed(c.id)
Accounting == FreshIds /\ UniqueIds /\ OneLegPerTarget /\ CompletionAccounting

\* Every entry that stays keeps its accounting if what it is owed stays.
LEMMA KeepAccounting ==
  ASSUME AccountingInv, OwedKept
  PROVE  UniqueIds' /\ CompletionAccounting'
BY DEF AccountingInv, OwedKept, UniqueIds, CompletionAccounting

\* Steps that touch neither the legs nor the table.
LEMMA QuietSteps ==
  ASSUME AccountingInv,
         UNCHANGED <<pushQ, emailQ, comp, nextCid>>,
         \/ UNCHANGED leg /\ (pc' \in LegSteps <=> pc \in LegSteps)
         \/ pc \notin LegSteps /\ pc' \notin LegSteps
  PROVE  Accounting' /\ OwedKept
<1>1. Live' = Live
  BY DEF Live
<1>2. \A id : Owed(id)' = Owed(id)
  BY <1>1 DEF Owed
<1>3. FreshIds'
  BY <1>1 DEF AccountingInv, FreshIds
<1>4. OneLegPerTarget'
  BY DEF AccountingInv, OneLegPerTarget, Queued, SameLeg
<1>5. QED
  BY <1>2, <1>3, <1>4, KeepAccounting DEF Accounting, OwedKept

\* Notices carry completion id 0 and are owed to nobody.
LEMMA NoticeSteps ==
  ASSUME AccountingInv, NEW N, \A l \in N : l.cid = 0,
         pushQ' \cup emailQ' = pushQ \cup emailQ \cup N,
         Live' = Live \cup N,
         pc' \in LegSteps => pc \in LegSteps /\ leg' = leg,
         UNCHANGED <<comp, nextCid>>
  PROVE  Accounting' /\ OwedKept
<1>2. \A c \in comp : c.id # 0
  BY CompletionFields DEF AccountingInv, TypeOK
<1>3. \A c \in comp : Owed(c.id)' = Owed(c.id)
  BY <1>2 DEF Owed
<1>4. FreshIds'
  BY DEF AccountingInv, FreshIds, TypeOK
<1>5. OneLegPerTarget'
  BY DEF AccountingInv, OneLegPerTarget, Queued, SameLeg
<1>6. QED
  BY <1>3, <1>4, <1>5, KeepAccounting DEF Accounting, OwedKept

\* A queued leg is replaced by one with the same id and target.
LEMMA ReplaceSteps ==
  ASSUME AccountingInv, NEW j \in Queued, NEW k, k.cid = j.cid, k.target = j.target,
         pushQ' \cup emailQ' = ((pushQ \cup emailQ) \ {j}) \cup {k},
         UNCHANGED <<comp, nextCid, leg, pc>>
  PROVE  Accounting' /\ OwedKept
<1>1. \A l \in Live' : \E i \in Live : i.cid = l.cid /\ i.target = l.target
  BY DEF Live, Queued
<1>2. \A l \in Live : \E i \in Live' : i.cid = l.cid /\ i.target = l.target
  BY DEF Live, Queued
<1>3. \A id : Owed(id)' = Owed(id)
  BY <1>1, <1>2 DEF Owed
<1>4. FreshIds'
  BY <1>1 DEF AccountingInv, FreshIds
<1>5. OneLegPerTarget'
  BY DEF AccountingInv, OneLegPerTarget, Queued, SameLeg
<1>6. QED
  BY <1>3, <1>4, <1>5, KeepAccounting DEF Accounting, OwedKept

\* The worker takes a leg from a queue.
LEMMA PickSteps ==
  ASSUME AccountingInv, NEW j \in Queued, leg' = j, pc \notin LegSteps, pc' \in LegSteps,
         pushQ' \cup emailQ' = (pushQ \cup emailQ) \ {j},
         UNCHANGED <<comp, nextCid>>
  PROVE  Accounting' /\ OwedKept
<1>1. Live' = Live
  BY DEF Live, Queued
<1>2. \A id : Owed(id)' = Owed(id)
  BY <1>1 DEF Owed
<1>3. FreshIds'
  BY <1>1 DEF AccountingInv, FreshIds
<1>4. OneLegPerTarget'
  BY DEF AccountingInv, OneLegPerTarget, Queued, SameLeg
<1>5. QED
  BY <1>2, <1>3, <1>4, KeepAccounting DEF Accounting, OwedKept

\* The leg in hand changes, or goes back to its queue changed.
LEMMA HandSteps ==
  ASSUME AccountingInv, pc \in LegSteps, NEW k, k.cid = leg.cid, k.target = leg.target,
         \/ pc' \in LegSteps /\ leg' = k /\ UNCHANGED <<pushQ, emailQ>>
         \/ pc' \notin LegSteps /\ pushQ' \cup emailQ' = pushQ \cup emailQ \cup {k},
         UNCHANGED <<comp, nextCid>>
  PROVE  Accounting' /\ OwedKept
<1>1. Live' = Queued \cup {k} /\ Live = Queued \cup {leg}
  BY DEF Live, Queued
<1>2. \A id : Owed(id)' = Owed(id)
  BY <1>1 DEF Owed
<1>3. FreshIds'
  BY <1>1 DEF AccountingInv, FreshIds
<1>4. OneLegPerTarget'
  BY DEF AccountingInv, OneLegPerTarget, Queued, SameLeg
<1>5. QED
  BY <1>2, <1>3, <1>4, KeepAccounting DEF Accounting, OwedKept

\* Legs leave, and with them every entry that counted one of them.
LEMMA CancelSteps ==
  ASSUME AccountingInv, NEW D, Live' \cup D = Live,
         pc' \notin LegSteps, pushQ' \cup emailQ' \subseteq Queued, nextCid' = nextCid,
         comp' = {c \in comp : c.id \notin {j.cid : j \in D}}
  PROVE  Accounting' /\ OwedKept
<1>1. comp' \subseteq comp /\ \A c \in comp', j \in D : j.cid # c.id
  OBVIOUS
<1>2. \A c \in comp' : Owed(c.id)' = Owed(c.id)
  BY <1>1 DEF Owed
<1>3. FreshIds'
  BY <1>1 DEF AccountingInv, FreshIds
<1>4. OneLegPerTarget'
  BY DEF AccountingInv, OneLegPerTarget, Queued, SameLeg
<1>5. QED
  BY <1>1, <1>2, <1>3, <1>4, KeepAccounting DEF Accounting, OwedKept

\* A leg was delivered: its entry is owed one target less.
LEMMA SuccessStep ==
  ASSUME AccountingInv, NoteSuccess
  PROVE  Accounting'
<1> DEFINE mine == {c \in comp : c.id = leg.cid}
           over == {c \in mine : LastLeg(c)}
           Less(c) == [c EXCEPT !.remaining = @ - 1]
<1>1. /\ comp' = (comp \ mine) \cup {Less(c) : c \in mine \ over}
      /\ UNCHANGED <<pushQ, emailQ, nextCid>>
      /\ pc = "succeed" /\ pc' \in {"mark", "forward"}
  BY DEF NoteSuccess
<1>2. Live = Queued \cup {leg} /\ Live' = Queued /\ leg \in Leg
  BY <1>1 DEF Live, Queued, LegSteps, AccountingInv, TypeOK
<1>3. \A c \in comp : c \in Completion /\ c.id \in Nat /\ c.id # 0 /\ c.remaining \in Nat
  BY CompletionFields DEF AccountingInv, TypeOK
<1>4. \A c \in mine \ over : /\ Less(c).id = c.id /\ Less(c).remaining = c.remaining - 1
                             /\ c.remaining > 1
  <2> SUFFICES ASSUME NEW c \in mine \ over
               PROVE  /\ Less(c).id = c.id /\ Less(c).remaining = c.remaining - 1
                      /\ c.remaining > 1
    OBVIOUS
  <2>1. c \in Completion /\ c.remaining > 1
    BY <1>3 DEF LastLeg
  <2>2. QED
    BY <2>1 DEF Completion
<1>5. \A c \in comp : c.id # leg.cid => Owed(c.id)' = Owed(c.id)
  BY <1>2 DEF Owed
<1>6. ASSUME NEW c \in mine
      PROVE  /\ leg.target \in Owed(c.id)
             /\ Owed(c.id)' = Owed(c.id) \ {leg.target}
  <2>1. c.id = leg.cid /\ leg.cid # 0
    BY <1>3
  <2>2. \A j \in Queued : j.cid = leg.cid => j.target # leg.target
    BY <1>1, <2>1 DEF AccountingInv, OneLegPerTarget, SameLeg, LegSteps
  <2>3. QED
    BY <1>2, <2>1, <2>2 DEF Owed
<1>7. ASSUME NEW c \in mine
      PROVE  Cardinality(Owed(c.id)') = Cardinality(Owed(c.id)) - 1
  <2>1. IsFiniteSet(Owed(c.id))
    BY OwedType DEF AccountingInv
  <2>2. QED
    BY <1>6, <2>1, FS_RemoveElement
<1>8. CompletionAccounting'
  <2> SUFFICES ASSUME NEW d \in comp'
               PROVE  d.remaining = Cardinality(Owed(d.id)') /\ d.remaining > 0
    BY DEF CompletionAccounting
  <2>1. CASE d \in comp \ mine
    BY <2>1, <1>5 DEF AccountingInv, CompletionAccounting
  <2>2. CASE d \notin comp \ mine
    <3>1. PICK c \in mine \ over : d = Less(c)
      BY <1>1, <2>2
    <3>2. c.remaining = Cardinality(Owed(c.id)) /\ c.remaining \in Nat
      BY <1>3 DEF AccountingInv, CompletionAccounting
    <3>3. d.id = c.id /\ d.remaining = c.remaining - 1 /\ c.remaining > 1
      BY <3>1, <1>4
    <3>4. Cardinality(Owed(c.id)') = c.remaining - 1
      BY <3>2, <1>7
    <3>5. QED
      BY <3>2, <3>3, <3>4
  <2>3. QED
    BY <2>1, <2>2
<1>9. UniqueIds'
  <2>1. \A d \in comp' : \E c \in comp : /\ d.id = c.id
                                         /\ d = IF c \in mine THEN Less(c) ELSE c
    BY <1>1, <1>4
  <2>2. QED
    BY <2>1 DEF UniqueIds, AccountingInv
<1>10. FreshIds'
  <2>1. \A d \in comp' : \E c \in comp : d.id = c.id
    BY <1>1, <1>4, ZenonT(60)
  <2>2. QED
    BY <1>1, <1>2, <2>1 DEF FreshIds, AccountingInv
<1>11. OneLegPerTarget'
  BY <1>1 DEF AccountingInv, OneLegPerTarget, Queued, SameLeg, LegSteps
<1>12. QED
  BY <1>8, <1>9, <1>10, <1>11 DEF Accounting

\* A dispatch adds one leg per selected target, under a fresh id.
LEMMA DispatchStep ==
  ASSUME AccountingInv, Dispatch
  PROVE  Accounting' /\ (NeedsCompletion(view, fwd.msg) \/ OwedKept)
<1>0. PICK e, m, T, id : /\ e = fwd.ev /\ m = fwd.msg /\ T = Selected(view, m)
                         /\ id = IF NeedsCompletion(view, m) THEN nextCid + 1 ELSE 0
  OBVIOUS
<1> DEFINE N == {NewLeg(e, m, id, t) : t \in T}
<1>1. /\ pc = "dispatch" /\ pc' = "forward" /\ leg' = leg
      /\ Register(view, m)
      /\ view \in Configs /\ m \in Msgs \cup {NoMsg} /\ e \in Nat
      /\ nextCid \in Nat /\ id \in Nat
  <2>1. pc = "dispatch" /\ pc' = "forward" /\ leg' = leg /\ Register(view, m)
    BY <1>0 DEF Dispatch
  <2>2. fwd \in ForwardJob /\ view \in Configs /\ nextCid \in Nat
    BY <2>1 DEF AccountingInv, TypeOK
  <2>3. m \in Msgs \cup {NoMsg} /\ e \in Nat
    BY <1>0, <2>2 DEF ForwardJob
  <2>4. QED
    BY <1>0, <2>1, <2>2, <2>3
<1>2. pushQ' \cup emailQ' = pushQ \cup emailQ \cup N
  <2>1. pushQ' = pushQ \cup {NewLeg(e, m, id, c) : c \in PushTargets(view, m)}
    BY <1>0 DEF Dispatch
  <2>2. emailQ' = emailQ \cup (IF WantsEmail(view, m)
                             THEN {NewLeg(e, m, id, Email)} ELSE {})
    BY <1>0 DEF Dispatch
  <2>3. QED
    BY <1>0, <2>1, <2>2 DEF Selected
<1>3. /\ T \subseteq Targets /\ IsFiniteSet(T) /\ Cardinality(T) \in Nat
      /\ T # {} => Cardinality(T) > 0
  BY <1>0, <1>1, SelectedType
<1>4. /\ \A l \in N : l.cid = id /\ l.target \in T
      /\ \A t \in T : \E l \in N : l.target = t
      /\ \A j, k \in N : j.target = k.target => j = k
  <2>1. \A t \in T : NewLeg(e, m, id, t).cid = id /\ NewLeg(e, m, id, t).target = t
    BY <1>1, <1>3, NewLegType
  <2>2. \A l \in N : \E t \in T : l = NewLeg(e, m, id, t)
    OBVIOUS
  <2>3. \A t \in T : NewLeg(e, m, id, t) \in N
    OBVIOUS
  <2> HIDE DEF N
  <2>4. QED
    BY <2>1, <2>2, <2>3
<1> HIDE DEF N
<1>5. CASE ~NeedsCompletion(view, m)
  <2>1. UNCHANGED <<comp, nextCid>>
    BY <1>1, <1>5 DEF Register
  <2>2. \A l \in N : l.cid = 0
    BY <1>0, <1>4, <1>5
  <2>3. pc \notin LegSteps /\ pc' \notin LegSteps
    BY <1>1 DEF LegSteps
  <2>4. QED
    <3>1. Live' = Live \cup N
      BY <1>2, <2>3 DEF Live
    <3>2. QED
      BY <1>2, <2>1, <2>2, <2>3, <3>1, NoticeSteps
<1>6. CASE NeedsCompletion(view, m)
  <2> DEFINE new == [id |-> id, msg |-> m, remaining |-> Cardinality(T), to |-> T, by |-> {}]
  <2>1. nextCid' = nextCid + 1 /\ comp' = comp \cup {new} /\ id = nextCid + 1 /\ T # {}
    BY <1>0, <1>1, <1>6 DEF Register, NeedsCompletion
  <2>2. Live = Queued /\ Live' = Queued \cup N /\ Queued' = Queued \cup N
    BY <1>1, <1>2 DEF Live, Queued, LegSteps
  <2>3. \A l \in Queued : l \in Leg /\ l.cid \in Nat /\ l.cid <= nextCid
    <3>1. \A l \in Queued : l \in Leg
      BY DEF AccountingInv, TypeOK, Queued
    <3>2. \A l \in Leg : l.cid \in Nat
      BY DEF Leg
    <3>3. \A l \in Queued : l.cid <= nextCid
      BY <2>2 DEF AccountingInv, FreshIds
    <3>4. QED
      BY <3>1, <3>2, <3>3
  <2>4. \A c \in comp : c.id \in Nat /\ c.id <= nextCid
    <3>1. \A c \in comp : c \in Completion
      BY DEF AccountingInv, TypeOK
    <3>2. \A c \in comp : c.id <= nextCid
      BY DEF AccountingInv, FreshIds
    <3>3. QED
      BY <3>1, <3>2, CompletionFields
  <2>5. \A c \in comp : Owed(c.id)' = Owed(c.id)
    BY <1>4, <2>1, <2>2, <2>4, <1>1 DEF Owed
  <2>6. Owed(id)' = T
    <3>1. \A l \in Live' : l.cid = id <=> l \in N
      BY <1>1, <1>4, <2>1, <2>2, <2>3
    <3>2. Owed(id)' = {l.target : l \in N}
      BY <3>1, <2>2 DEF Owed
    <3>3. {l.target : l \in N} = T
      BY <1>4
    <3>4. QED
      BY <3>2, <3>3
  <2>7. CompletionAccounting'
    <3>1. /\ new.id = id
          /\ new.remaining = Cardinality(T) /\ new.remaining > 0
      BY <1>3, <2>1
    <3>4. Owed(new.id)' = T
      BY <3>1, <2>6
    <3>2. \A c \in comp : /\ c.remaining = Cardinality(Owed(c.id)')
                          /\ c.remaining > 0
      BY <2>5 DEF CompletionAccounting, AccountingInv
    <3>3. QED
      BY <2>1, <3>1, <3>2, <3>4 DEF CompletionAccounting
  <2>8. UniqueIds'
    <3>1. new.id = id
      OBVIOUS
    <3>2. \A c \in comp : c.id # new.id
      BY <2>1, <2>4, <1>1, <3>1
    <3> HIDE DEF new
    <3>3. QED
      BY <2>1, <3>2 DEF UniqueIds, AccountingInv
  <2>9. FreshIds'
    <3>1. \A l \in Live' : l.cid <= nextCid'
      BY <1>4, <2>1, <2>2, <2>3, <1>1
    <3>2. \A c \in comp' : c.id <= nextCid'
      BY <2>1, <2>4, <1>1
    <3>3. QED
      BY <3>1, <3>2 DEF FreshIds
  <2>10. OneLegPerTarget'
    <3>1. ASSUME NEW j \in Queued', NEW k \in Queued', SameLeg(j, k)
          PROVE  j = k
      <4>1. CASE j \in Queued /\ k \in Queued
        BY <3>1, <4>1 DEF AccountingInv, OneLegPerTarget
      <4>2. CASE j \in N /\ k \in N
        BY <3>1, <4>2, <1>4 DEF SameLeg
      <4>3. CASE (j \in Queued /\ k \in N) \/ (j \in N /\ k \in Queued)
        BY <3>1, <4>3, <1>4, <2>1, <2>3, <1>1 DEF SameLeg
      <4>4. QED
        BY <2>2, <4>1, <4>2, <4>3
    <3>2. pc' \notin LegSteps
      BY <1>1 DEF LegSteps
    <3>3. QED
      BY <3>1, <3>2 DEF OneLegPerTarget, SameLeg
  <2>11. QED
    BY <1>0, <1>6, <2>7, <2>8, <2>9, <2>10 DEF Accounting
<1>7. QED
  BY <1>5, <1>6

LEMMA InitAccounting == Init => AccountingInv
<1> SUFFICES ASSUME Init PROVE AccountingInv
  OBVIOUS
<1>1. Live = {} /\ comp = {} /\ Queued = {} /\ pc = "forward"
  BY DEF Init, Live, Queued, LegSteps
<1>2. QED
  BY <1>1, InitType
     DEF AccountingInv, FreshIds, UniqueIds, OneLegPerTarget, CompletionAccounting, LegSteps

LEMMA NotifyStep ==
  ASSUME AccountingInv, Notify
  PROVE  Accounting' /\ OwedKept
<1>0. TypeOK
  BY DEF AccountingInv
<1>1. PICK S, e : /\ S \in SUBSET cfg.valid /\ e = events + 1
                  /\ pushQ' = pushQ \cup {NewLeg(e, NoMsg, 0, c) : c \in S}
  BY DEF Notify
<1> DEFINE N == {NewLeg(e, NoMsg, 0, c) : c \in S}
<1>2. S \subseteq Channels /\ e \in Nat
  BY <1>1, <1>0, ConfigsAreConfigs DEF Config, TypeOK
<1>3. \A l \in N : l.cid = 0
  BY <1>2, NoticeLegType DEF Targets
<1>4. pushQ' \cup emailQ' = pushQ \cup emailQ \cup N
  BY <1>1 DEF Notify
<1>6. UNCHANGED <<comp, nextCid>>
  BY DEF Notify
<1>7. pc' \in LegSteps => pc \in LegSteps /\ leg' = leg
  BY DEF Notify, worker
<1>8. Live' = Live \cup N
  BY <1>4 DEF Live, Notify, worker
<1> HIDE DEF N
<1>5. QED
  BY <1>3, <1>4, <1>6, <1>7, <1>8, NoticeSteps

LEMMA MailNoticeStep ==
  ASSUME AccountingInv, MailNotice
  PROVE  Accounting' /\ OwedKept
<1>0. TypeOK
  BY DEF AccountingInv
<1>1. PICK l : /\ l = NewLeg(events + 1, NoMsg, 0, Email)
               /\ emailQ' = emailQ \cup {l}
  BY DEF MailNotice
<1>2. events + 1 \in Nat
  BY <1>0 DEF TypeOK
<1>3. l.cid = 0
  BY <1>1, <1>2, NoticeLegType DEF Targets
<1>4. UNCHANGED <<comp, nextCid>>
  BY DEF MailNotice
<1>9. pc' \in LegSteps => pc \in LegSteps /\ leg' = leg
  BY DEF MailNotice, worker
<1>5. PICK N : N = {l}
  OBVIOUS
<1>6. \A i \in N : i.cid = 0
  BY <1>3, <1>5
<1>7. pushQ' \cup emailQ' = pushQ \cup emailQ \cup N
  BY <1>1, <1>5 DEF MailNotice
<1>8. Live' = Live \cup N
  BY <1>7 DEF Live, MailNotice, worker
<1>10. QED
  BY <1>4, <1>6, <1>7, <1>8, <1>9, NoticeSteps

\* A target accepted: nobody is owed more or less by it.
LEMMA AcceptAccounting ==
  ASSUME AccountingInv, SendOk
  PROVE  /\ Accounting'
         /\ \A id : Owed(id)' = Owed(id)
<1>1. /\ pc = "send" /\ pc' = "succeed" /\ UNCHANGED <<pushQ, emailQ, leg, nextCid>>
      /\ comp' = Accepted(leg.cid, leg.target) /\ leg \in Leg
  BY DEF SendOk, MaySend, AccountingInv, TypeOK, LegSteps
<1>2. \A d \in comp' :
        /\ d \in Completion
        /\ \E c \in comp : /\ d.id = c.id /\ d.msg = c.msg /\ d.remaining = c.remaining
                          /\ d.to = c.to
                          /\ d.by = IF c.id = leg.cid THEN c.by \cup {leg.target} ELSE c.by
  <2>1. comp \in SUBSET Completion /\ leg.target \in Targets
    BY <1>1 DEF AccountingInv, TypeOK, Leg
  <2>2. QED
    BY <1>1, <2>1, AcceptedFields
<1>3. Live' = Live /\ \A id : Owed(id)' = Owed(id)
  BY <1>1 DEF Live, LegSteps, Owed
<1>9. \A d \in comp' : \E c \in comp : d.id = c.id /\ d.remaining = c.remaining
  BY <1>2
<1>4. FreshIds'
  BY <1>1, <1>9, <1>3 DEF FreshIds, AccountingInv
<1>5. UniqueIds'
  <2> SUFFICES ASSUME NEW d \in comp', NEW e \in comp', d.id = e.id PROVE d = e
    BY DEF UniqueIds
  <2>1. PICK c \in comp : /\ d.id = c.id /\ d.msg = c.msg /\ d.remaining = c.remaining
                          /\ d.to = c.to
                          /\ d.by = IF c.id = leg.cid THEN c.by \cup {leg.target} ELSE c.by
    BY <1>2
  <2>2. PICK b \in comp : /\ e.id = b.id /\ e.msg = b.msg /\ e.remaining = b.remaining
                          /\ e.to = b.to
                          /\ e.by = IF b.id = leg.cid THEN b.by \cup {leg.target} ELSE b.by
    BY <1>2
  <2>3. b = c
    BY <2>1, <2>2 DEF UniqueIds, AccountingInv
  <2>4. /\ d.id = e.id /\ d.msg = e.msg /\ d.remaining = e.remaining
        /\ d.to = e.to /\ d.by = e.by
    BY <2>1, <2>2, <2>3
  <2>5. d \in Completion /\ e \in Completion
    BY <1>2
  <2>6. QED
    BY <2>4, <2>5 DEF Completion
<1>6. OneLegPerTarget'
  BY <1>1 DEF OneLegPerTarget, AccountingInv, Queued, SameLeg, LegSteps
<1>7. CompletionAccounting'
  BY <1>9, <1>3 DEF CompletionAccounting, AccountingInv
<1>8. QED
  BY <1>3, <1>4, <1>5, <1>6, <1>7 DEF Accounting

\* Every step keeps the accounting, and only a delivery and a dispatch that
\* makes an entry change what an entry is owed.
LEMMA StepOwed ==
  ASSUME AccountingInv, [Next]_vars
  PROVE  /\ Accounting'
         /\ \/ OwedKept
            \/ NoteSuccess
            \/ SendOk
            \/ Dispatch /\ NeedsCompletion(view, fwd.msg)
<1> DEFINE Kept == /\ Accounting'
                   /\ \/ OwedKept
                      \/ NoteSuccess
                      \/ SendOk
                      \/ Dispatch /\ NeedsCompletion(view, fwd.msg)
<1> SUFFICES Kept
  OBVIOUS
<1>t. TypeOK
  BY DEF AccountingInv
<1> USE DEF LegSteps
<1>1. ASSUME NEW m \in Msgs, Receive(m) PROVE Kept
  BY <1>1, QuietSteps DEF Receive, EnqueueForward, worker
<1>2. ASSUME NEW m \in Msgs, Resend(m) PROVE Kept
  BY <1>2, QuietSteps DEF Resend, EnqueueForward, worker
<1>3. ASSUME NEW m \in Msgs, Forget(m) PROVE Kept
  BY <1>3, QuietSteps DEF Forget, shared, worker
<1>4. CASE ForwardCall
  BY <1>4, QuietSteps DEF ForwardCall, EnqueueForward, worker
<1>5. CASE Notify
  BY <1>5, NotifyStep
<1>6. CASE MailNotice
  BY <1>6, MailNoticeStep
<1>7. CASE SaveConfig
  BY <1>7, QuietSteps DEF SaveConfig, shared, worker
<1>8. CASE EnvChange
  BY <1>8, QuietSteps DEF EnvChange, shared, worker
<1>9. CASE Restart
  <2>1. Live' = {} /\ comp' = {} /\ Queued' = {} /\ pc' = "forward"
    BY <1>9 DEF Restart, Live, Queued
  <2>2. QED
    BY <2>1 DEF Accounting, OwedKept, FreshIds, UniqueIds, OneLegPerTarget, CompletionAccounting
<1>10. CASE ForwardDue
  BY <1>10, QuietSteps DEF ForwardDue, worker
<1>10a. CASE PushDue
  <2>1. PICK j \in pushQ : pushQ' = (pushQ \ {j}) \cup {Raise(j)}
    BY <1>10a DEF PushDue
  <2>2. j \in Leg /\ j.target \in Channels /\ \A i \in emailQ : i.target = Email
    BY <1>t DEF TypeOK
  <2>3. j \notin emailQ
    BY <2>2, EmailNoChannel
  <2>4. pushQ' \cup emailQ' = ((pushQ \cup emailQ) \ {j}) \cup {Raise(j)}
    BY <1>10a, <2>1, <2>3 DEF PushDue
  <2>5. PICK k : k = Raise(j) /\ k.cid = j.cid /\ k.target = j.target
    BY <2>2, LegChanges
  <2>6. UNCHANGED <<comp, nextCid, leg, pc>>
    BY <1>10a DEF PushDue, worker
  <2>7. QED
    BY <2>4, <2>5, <2>6, ReplaceSteps DEF Queued
<1>10b. CASE EmailDue
  <2>1. PICK j \in emailQ : emailQ' = (emailQ \ {j}) \cup {Raise(j)}
    BY <1>10b DEF EmailDue
  <2>2. j \in Leg /\ j.target = Email /\ \A i \in pushQ : i.target \in Channels
    BY <1>t DEF TypeOK
  <2>3. j \notin pushQ
    BY <2>2, EmailNoChannel
  <2>4. pushQ' \cup emailQ' = ((pushQ \cup emailQ) \ {j}) \cup {Raise(j)}
    BY <1>10b, <2>1, <2>3 DEF EmailDue
  <2>5. PICK k : k = Raise(j) /\ k.cid = j.cid /\ k.target = j.target
    BY <2>2, LegChanges
  <2>6. UNCHANGED <<comp, nextCid, leg, pc>>
    BY <1>10b DEF EmailDue, worker
  <2>7. QED
    BY <2>4, <2>5, <2>6, ReplaceSteps DEF Queued
<1>11. CASE CoolDown
  BY <1>11, QuietSteps DEF CoolDown, shared, worker
<1>12. CASE PopForward
  BY <1>12, QuietSteps DEF PopForward
<1>13. CASE NoForward
  BY <1>13, QuietSteps DEF NoForward, shared
<1>14. CASE Decide
  BY <1>14, QuietSteps DEF Decide, shared
<1>15. CASE Dispatch
  BY <1>15, DispatchStep
<1>16. CASE DispatchBusy
  BY <1>16, QuietSteps DEF DispatchBusy, shared
<1>17. CASE Requeue
  BY <1>17, QuietSteps DEF Requeue
<1>18. CASE PickPush
  <2>1. PICK j \in pushQ : leg' = j /\ pushQ' = pushQ \ {j}
    BY <1>18 DEF PickPush
  <2>2. j \notin emailQ
    BY <1>t, EmailNoChannel DEF TypeOK
  <2>3. QED
    BY <1>18, <2>1, <2>2, PickSteps DEF PickPush, Queued
<1>19. CASE NoPush
  BY <1>19, QuietSteps DEF NoPush, shared
<1>20. CASE ReadEmailConfig
  <2>1. pc = "email" /\ pc' \in {"forward", "purge", "pickEmail"}
    BY <1>20 DEF ReadEmailConfig
  <2>2. QED
    BY <1>20, <2>1, QuietSteps DEF ReadEmailConfig, shared
<1>21. CASE PurgeEmail
  <2>1. PICK D : D = emailQ
    OBVIOUS
  <2>2. /\ Live' \cup D = Live /\ pushQ' \cup emailQ' \subseteq Queued
        /\ pc' \notin {"send", "succeed", "retry", "giveUp"} /\ nextCid' = nextCid
        /\ comp' = {c \in comp : c.id \notin {j.cid : j \in D}}
    BY <1>21, <2>1 DEF PurgeEmail, Live, Queued, Cancel
  <2>3. QED
    BY <2>2, CancelSteps
<1>22. CASE PickEmail
  <2>1. CASE UNCHANGED <<leg, emailQ>>
    BY <1>22, <2>1, QuietSteps DEF PickEmail
  <2>2. ASSUME NEW j \in emailQ, leg' = j, emailQ' = emailQ \ {j}, pc' = "send" PROVE Kept
    <3>1. j \notin pushQ
      BY <1>t, EmailNoChannel DEF TypeOK
    <3>2. QED
      BY <1>22, <2>2, <3>1, PickSteps DEF PickEmail, Queued
  <2>3. QED
    BY <1>22, <2>1, <2>2 DEF PickEmail
<1>23. CASE SendInvalid
  <2>1. PICK D : D = {leg}
    OBVIOUS
  <2>2. /\ Live' \cup D = Live /\ pushQ' \cup emailQ' \subseteq Queued
        /\ pc' \notin {"send", "succeed", "retry", "giveUp"} /\ nextCid' = nextCid
        /\ comp' = {c \in comp : c.id \notin {j.cid : j \in D}}
    BY <1>23, <2>1 DEF SendInvalid, Live, Queued, Cancel
  <2>3. QED
    BY <2>2, CancelSteps
<1>24. CASE SendOk
  BY <1>24, AcceptAccounting
<1>25. CASE SendFails
  <2>1. /\ pc = "send" /\ leg' = Again(leg) /\ pc' \in {"giveUp", "retry"}
        /\ UNCHANGED <<pushQ, emailQ, comp, nextCid>>
    BY <1>25 DEF SendFails, MaySend, shared, Again
  <2>2. leg \in Leg
    BY <1>t, <2>1 DEF TypeOK
  <2>3. PICK k : k = Again(leg) /\ k.cid = leg.cid /\ k.target = leg.target
    BY <2>2, LegChanges
  <2>4. QED
    BY <2>1, <2>3, HandSteps
<1>26. CASE NoteSuccess
  BY <1>26, SuccessStep
<1>27. CASE Mark
  BY <1>27, QuietSteps DEF Mark, shared
<1>28. CASE Retry
  <2>1. pc = "retry" /\ UNCHANGED <<comp, nextCid>>
    BY <1>28 DEF Retry
  <2>2. leg \in Leg
    BY <1>t, <2>1 DEF TypeOK
  <2>3. CASE pc' = "giveUp" /\ UNCHANGED <<pushQ, emailQ, leg>>
    BY <2>1, <2>3, QuietSteps
  <2>4. CASE pc' = "forward" /\ pushQ' \cup emailQ' = pushQ \cup emailQ \cup {Later(leg)}
    <3>1. PICK k : k = Later(leg) /\ k.cid = leg.cid /\ k.target = leg.target
      BY <2>2, LegChanges
    <3>2. QED
      BY <2>1, <2>4, <3>1, HandSteps
  <2>5. QED
    BY <1>28, <2>3, <2>4 DEF Retry
<1>29. CASE GiveUp
  <2>1. PICK D : D = {leg}
    OBVIOUS
  <2>2. /\ Live' \cup D = Live /\ pushQ' \cup emailQ' \subseteq Queued
        /\ pc' \notin {"send", "succeed", "retry", "giveUp"} /\ nextCid' = nextCid
        /\ comp' = {c \in comp : c.id \notin {j.cid : j \in D}}
    BY <1>29, <2>1 DEF GiveUp, Live, Queued, Cancel
  <2>3. QED
    BY <2>2, CancelSteps
<1>30. CASE ClearMark
  BY <1>30, QuietSteps DEF ClearMark, shared
<1>31. CASE UNCHANGED vars
  BY <1>31, QuietSteps DEF vars, shared, worker
<1>32. QED
  BY <1>1, <1>2, <1>3, <1>4, <1>5, <1>6, <1>7, <1>8, <1>9, <1>10, <1>10a, <1>10b, <1>11, <1>12, <1>13,
     <1>14, <1>15, <1>16, <1>17, <1>18, <1>19, <1>20, <1>21, <1>22, <1>23, <1>24, <1>25,
     <1>26, <1>27, <1>28, <1>29, <1>30, <1>31 DEF Next, Worker, Others, Time

LEMMA NextAccounting == AccountingInv /\ [Next]_vars => AccountingInv'
BY NextType, StepOwed DEF AccountingInv, Accounting

\* The accounting of the completion table is exact in every reachable state:
\* no leaked entry, none that reaches zero early (idf_push.cpp:222-277).
THEOREM AccountingExact == Spec => []CompletionAccounting
<1>1. Init => AccountingInv
  BY InitAccounting
<1>2. AccountingInv /\ [Next]_vars => AccountingInv'
  BY NextAccounting
<1>3. AccountingInv => CompletionAccounting
  BY DEF AccountingInv
<1>4. QED
  BY <1>1, <1>2, <1>3, PTL DEF Spec

-----------------------------------------------------------------------------
(* The sizes of the queues and of the completion table.                     *)

AtMost(S, n) == IsFiniteSet(S) /\ Cardinality(S) <= n

\* The inductive invariant: each queue is finite and within its array.
BoundedInv == /\ TypeOK
              /\ AtMost(fwdQ, FwdMax) /\ AtMost(pushQ, PushMax) /\ AtMost(emailQ, EmailMax)

\* What a queue's operations keep.
LEMMA AtMostEmpty == \A n \in Nat : AtMost({}, n)
BY FS_EmptySet DEF AtMost

LEMMA AtMostAdd ==
  ASSUME NEW n \in Nat, NEW S, NEW x, AtMost(S, n), Cardinality(S) < n
  PROVE  AtMost(S \cup {x}, n)
<1>1. IsFiniteSet(S) /\ Cardinality(S) \in Nat
  BY FS_CardinalityType DEF AtMost
<1>2. IsFiniteSet(S \cup {x}) /\ Cardinality(S \cup {x}) <= Cardinality(S) + 1
  BY <1>1, FS_AddElement
<1>3. Cardinality(S \cup {x}) \in Nat
  BY <1>2, FS_CardinalityType
<1>4. QED
  BY <1>1, <1>2, <1>3 DEF AtMost

LEMMA AtMostTake ==
  ASSUME NEW n \in Nat, NEW S, NEW x \in S, AtMost(S, n)
  PROVE  /\ AtMost(S \ {x}, n) /\ Cardinality(S \ {x}) < n
<1>1. IsFiniteSet(S) /\ Cardinality(S) \in Nat
  BY FS_CardinalityType DEF AtMost
<1>2. IsFiniteSet(S \ {x}) /\ Cardinality(S \ {x}) = Cardinality(S) - 1
  BY <1>1, FS_RemoveElement
<1>3. QED
  BY <1>1, <1>2 DEF AtMost

LEMMA AtMostReplace ==
  ASSUME NEW n \in Nat, NEW S, NEW x \in S, NEW y, AtMost(S, n)
  PROVE  AtMost((S \ {x}) \cup {y}, n)
BY AtMostTake, AtMostAdd

\* A queue takes one leg per member of C.
LEMMA AtMostFan ==
  ASSUME NEW n \in Nat, NEW S, AtMost(S, n), NEW C, IsFiniteSet(C), NEW N,
         Cardinality(S) + Cardinality(C) <= n, NEW f \in Surjection(C, N)
  PROVE  AtMost(S \cup N, n)
<1>1. /\ IsFiniteSet(S) /\ Cardinality(S) \in Nat /\ Cardinality(C) \in Nat
  BY FS_CardinalityType DEF AtMost
<1>2. IsFiniteSet(N) /\ Cardinality(N) <= Cardinality(C)
  BY FS_Surjection
<1>3. IsFiniteSet(S \cap N) /\ Cardinality(S \cap N) \in Nat /\ Cardinality(N) \in Nat
  BY <1>1, <1>2, FS_Subset, FS_CardinalityType
<1>4. /\ IsFiniteSet(S \cup N)
      /\ Cardinality(S \cup N) = Cardinality(S) + Cardinality(N) - Cardinality(S \cap N)
  BY <1>1, <1>2, FS_Union
<1>5. QED
  BY <1>1, <1>2, <1>3, <1>4 DEF AtMost

LEMMA LegFan ==
  ASSUME NEW n \in Nat, NEW S, AtMost(S, n), NEW C, IsFiniteSet(C),
         Cardinality(S) + Cardinality(C) <= n, NEW e, NEW m, NEW id
  PROVE  AtMost(S \cup {NewLeg(e, m, id, c) : c \in C}, n)
<1> DEFINE N == {NewLeg(e, m, id, c) : c \in C}
           f == [c \in C |-> NewLeg(e, m, id, c)]
<1>1. f \in Surjection(C, N)
  BY DEF Surjection
<1> HIDE DEF N, f
<1>2. AtMost(S \cup N, n)
  BY <1>1, AtMostFan
<1>3. QED
  BY <1>2 DEF N

LEMMA InitBounded == Init => BoundedInv
BY InitType, AtMostEmpty, SizesAreNat DEF Init, BoundedInv

LEMMA EnqueueForwardBounded ==
  ASSUME BoundedInv, NEW m, EnqueueForward(m)
  PROVE  AtMost(fwdQ', FwdMax)
<1>1. PICK x : x = [ev |-> events + 1, msg |-> m, due |-> TRUE]
  OBVIOUS
<1>2. CASE Cardinality(fwdQ) < FwdMax
  <2>1. AtMost(fwdQ \cup {x}, FwdMax)
    BY <1>2, AtMostAdd, SizesAreNat DEF BoundedInv
  <2>2. QED
    BY <1>1, <1>2, <2>1 DEF EnqueueForward
<1>3. CASE ~(Cardinality(fwdQ) < FwdMax)
  BY <1>3 DEF EnqueueForward, BoundedInv
<1>4. QED
  BY <1>2, <1>3

\* A step that takes jobs from the queues or changes them in place.
LEMMA NextBounded == BoundedInv /\ [Next]_vars => BoundedInv'
<1> SUFFICES ASSUME BoundedInv, [Next]_vars PROVE BoundedInv'
  OBVIOUS
<1> DEFINE Kept == AtMost(fwdQ', FwdMax) /\ AtMost(pushQ', PushMax) /\ AtMost(emailQ', EmailMax)
<1> SUFFICES Kept
  BY NextType DEF BoundedInv
<1>t. TypeOK /\ AtMost(fwdQ, FwdMax) /\ AtMost(pushQ, PushMax) /\ AtMost(emailQ, EmailMax)
  BY DEF BoundedInv
<1>q. UNCHANGED <<fwdQ, pushQ, emailQ>> => Kept
  BY <1>t
<1> USE SizesAreNat
<1>1. ASSUME NEW m \in Msgs, Receive(m) PROVE Kept
  BY <1>1, <1>t, EnqueueForwardBounded DEF Receive, EnqueueForward
<1>2. ASSUME NEW m \in Msgs, Resend(m) PROVE Kept
  BY <1>2, <1>t, EnqueueForwardBounded DEF Resend, EnqueueForward
<1>3. ASSUME NEW m \in Msgs, Forget(m) PROVE Kept
  BY <1>3, <1>q DEF Forget, shared
<1>4. CASE ForwardCall
  BY <1>4, <1>t, EnqueueForwardBounded DEF ForwardCall, EnqueueForward
<1>5. CASE Notify
  <2>1. PICK S, e : /\ S \in SUBSET cfg.valid /\ e = events + 1
                    /\ Cardinality(pushQ) + Cardinality(S) <= PushMax
                    /\ pushQ' = pushQ \cup {NewLeg(e, NoMsg, 0, c) : c \in S}
    BY <1>5 DEF Notify
  <2>2. IsFiniteSet(S)
    BY <2>1, <1>t, ConfigsAreConfigs, ChannelsFinite, FS_Subset DEF Config, TypeOK
  <2>3. AtMost(pushQ', PushMax)
    <3>1. AtMost(pushQ \cup {NewLeg(e, NoMsg, 0, c) : c \in S}, PushMax)
      BY <1>t, <2>1, <2>2, LegFan
    <3>2. QED
      BY <2>1, <3>1
  <2>4. QED
    BY <1>5, <1>t, <2>3 DEF Notify
<1>6. CASE MailNotice
  BY <1>6, <1>t, AtMostAdd DEF MailNotice
<1>7. CASE SaveConfig
  BY <1>7, <1>q DEF SaveConfig, shared
<1>8. CASE EnvChange
  BY <1>8, <1>q DEF EnvChange, shared
<1>9. CASE Restart
  BY <1>9, AtMostEmpty DEF Restart
<1>10. CASE ForwardDue
  <2>1. PICK j \in fwdQ : fwdQ' = (fwdQ \ {j}) \cup {Raise(j)}
    BY <1>10 DEF ForwardDue
  <2>2. QED
    BY <1>10, <1>t, <2>1, AtMostReplace DEF ForwardDue
<1>10a. CASE PushDue
  <2>1. PICK j \in pushQ : pushQ' = (pushQ \ {j}) \cup {Raise(j)}
    BY <1>10a DEF PushDue
  <2>2. QED
    BY <1>10a, <1>t, <2>1, AtMostReplace DEF PushDue
<1>10b. CASE EmailDue
  <2>1. PICK j \in emailQ : emailQ' = (emailQ \ {j}) \cup {Raise(j)}
    BY <1>10b DEF EmailDue
  <2>2. QED
    BY <1>10b, <1>t, <2>1, AtMostReplace DEF EmailDue
<1>11. CASE CoolDown
  BY <1>11, <1>q DEF CoolDown, shared
<1>12. CASE PopForward
  BY <1>12, <1>t, AtMostTake DEF PopForward
<1>13. CASE NoForward
  BY <1>13, <1>q DEF NoForward, shared
<1>14. CASE Decide
  BY <1>14, <1>q DEF Decide, shared
<1>15. CASE Dispatch
  <2>1. PICK e, m, id, C : /\ e = fwd.ev /\ m = fwd.msg /\ C = PushTargets(view, m)
                           /\ id = IF NeedsCompletion(view, m) THEN nextCid + 1 ELSE 0
    OBVIOUS
  <2>2. view \in Configs /\ m \in Msgs \cup {NoMsg}
    BY <1>15, <1>t, <2>1 DEF TypeOK, Dispatch, ForwardJob
  <2>3. IsFiniteSet(C)
    BY <2>1, <2>2, SelectedType, ChannelsFinite, FS_Subset
  <2>4. Cardinality(pushQ) + Cardinality(C) <= PushMax
    BY <1>15, <2>1 DEF Dispatch, CanDispatch, LegsFit
  <2>5. AtMost(pushQ', PushMax)
    <3>1. pushQ' = pushQ \cup {NewLeg(e, m, id, c) : c \in C}
      BY <1>15, <2>1 DEF Dispatch
    <3>2. QED
      <4>1. AtMost(pushQ \cup {NewLeg(e, m, id, c) : c \in C}, PushMax)
        BY <1>t, <2>3, <2>4, LegFan
      <4>2. QED
        BY <3>1, <4>1
  <2>6. AtMost(emailQ', EmailMax)
    <3>1. CASE WantsEmail(view, m)
      BY <1>15, <1>t, <2>1, <3>1, AtMostAdd DEF Dispatch, CanDispatch, LegsFit
    <3>2. CASE ~WantsEmail(view, m)
      BY <1>15, <1>t, <2>1, <3>2 DEF Dispatch
    <3>3. QED
      BY <3>1, <3>2
  <2>7. QED
    BY <1>15, <1>t, <2>5, <2>6 DEF Dispatch
<1>16. CASE DispatchBusy
  BY <1>16, <1>q DEF DispatchBusy, shared
<1>17. CASE Requeue
  BY <1>17, <1>t, AtMostAdd DEF Requeue
<1>18. CASE PickPush
  BY <1>18, <1>t, AtMostTake DEF PickPush
<1>19. CASE NoPush
  BY <1>19, <1>q DEF NoPush, shared
<1>20. CASE ReadEmailConfig
  BY <1>20, <1>q DEF ReadEmailConfig, shared
<1>21. CASE PurgeEmail
  BY <1>21, <1>t, AtMostEmpty DEF PurgeEmail
<1>22. CASE PickEmail
  BY <1>22, <1>t, AtMostTake DEF PickEmail
<1>23. CASE SendInvalid
  BY <1>23, <1>q DEF SendInvalid
<1>24. CASE SendOk
  BY <1>24, <1>q DEF SendOk, shared
<1>25. CASE SendFails
  BY <1>25, <1>q DEF SendFails, shared
<1>26. CASE NoteSuccess
  BY <1>26, <1>q DEF NoteSuccess
<1>27. CASE Mark
  BY <1>27, <1>q DEF Mark, shared
<1>28. CASE Retry
  BY <1>28, <1>t, AtMostAdd DEF Retry
<1>29. CASE GiveUp
  BY <1>29, <1>q DEF GiveUp
<1>30. CASE ClearMark
  BY <1>30, <1>q DEF ClearMark, shared
<1>31. CASE UNCHANGED vars
  BY <1>31, <1>q DEF vars, shared
<1>32. QED
  BY <1>1, <1>2, <1>3, <1>4, <1>5, <1>6, <1>7, <1>8, <1>9, <1>10, <1>10a, <1>10b, <1>11, <1>12, <1>13,
     <1>14, <1>15, <1>16, <1>17, <1>18, <1>19, <1>20, <1>21, <1>22, <1>23, <1>24, <1>25,
     <1>26, <1>27, <1>28, <1>29, <1>30, <1>31 DEF Next, Worker, Others, Time

\* No queue outgrows the array it lives in.
THEOREM QueuesStayBounded == Spec => []QueuesBounded
<1>1. Init => BoundedInv
  BY InitBounded
<1>2. BoundedInv /\ [Next]_vars => BoundedInv'
  BY NextBounded
<1>3. BoundedInv => QueuesBounded
  BY DEF BoundedInv, QueuesBounded, AtMost
<1>4. QED
  BY <1>1, <1>2, <1>3, PTL DEF Spec

-----------------------------------------------------------------------------
\* Every entry is owed a leg in a queue, so a dispatch whose legs fit finds a
\* free entry: the table is as long as both leg queues together.
LEMMA EntryForEveryLeg == AccountingInv /\ BoundedInv => CompletionEntryFree
<1> SUFFICES ASSUME AccountingInv, BoundedInv, pc = "dispatch", LegsFit(view, fwd.msg),
                    NeedsCompletion(view, fwd.msg)
             PROVE  EntryFree
  BY DEF CompletionEntryFree
<1> DEFINE LegOf(c) == CHOOSE l \in Queued : l.cid = c.id
           f == [c \in comp |-> LegOf(c)]
<1>1. \A c \in comp : LegOf(c) \in Queued /\ LegOf(c).cid = c.id
  <2> SUFFICES ASSUME NEW c \in comp PROVE \E l \in Queued : l.cid = c.id
    OBVIOUS
  <2>1. Cardinality(Owed(c.id)) # 0
    BY DEF AccountingInv, CompletionAccounting
  <2>2. Owed(c.id) # {}
    BY <2>1, FS_EmptySet
  <2>3. QED
    BY <2>2 DEF Owed, Live, LegSteps, Queued
<1>2. f \in Injection(comp, Queued)
  BY <1>1 DEF Injection, IsInjective, AccountingInv, UniqueIds
<1>3. /\ IsFiniteSet(pushQ) /\ IsFiniteSet(emailQ)
      /\ Cardinality(pushQ) \in Nat /\ Cardinality(emailQ) \in Nat
      /\ Cardinality(pushQ) <= PushMax /\ Cardinality(emailQ) <= EmailMax
  BY FS_CardinalityType DEF BoundedInv, AtMost
<1>4. IsFiniteSet(Queued) /\ Cardinality(Queued) <= Cardinality(pushQ) + Cardinality(emailQ)
  <2>1. IsFiniteSet(pushQ \cap emailQ) /\ Cardinality(pushQ \cap emailQ) \in Nat
    BY <1>3, FS_Subset, FS_CardinalityType
  <2>2. /\ IsFiniteSet(Queued)
        /\ Cardinality(Queued)
             = Cardinality(pushQ) + Cardinality(emailQ) - Cardinality(pushQ \cap emailQ)
    BY <1>3, FS_Union DEF Queued
  <2>3. QED
    BY <1>3, <2>1, <2>2
<1>5. Cardinality(comp) <= Cardinality(Queued) /\ Cardinality(comp) \in Nat
      /\ Cardinality(Queued) \in Nat
  BY <1>2, <1>4, FS_Injection, FS_CardinalityType
<1>6. Cardinality(pushQ) < PushMax \/ Cardinality(emailQ) < EmailMax
  <2>1. CASE WantsEmail(view, fwd.msg)
    BY <2>1 DEF LegsFit
  <2>2. CASE ~WantsEmail(view, fwd.msg)
    <3>1. PushTargets(view, fwd.msg) # {}
      BY <2>2 DEF NeedsCompletion, Selected
    <3>2. view \in Configs /\ fwd.msg \in Msgs \cup {NoMsg}
      BY DEF AccountingInv, TypeOK, ForwardJob
    <3>3. IsFiniteSet(PushTargets(view, fwd.msg))
      BY <3>2, SelectedType, ChannelsFinite, FS_Subset
    <3>4. /\ Cardinality(PushTargets(view, fwd.msg)) \in Nat
          /\ Cardinality(PushTargets(view, fwd.msg)) # 0
      BY <3>1, <3>3, FS_EmptySet, FS_CardinalityType
    <3>5. QED
      BY <1>3, <3>4, SizesAreNat DEF LegsFit
  <2>3. QED
    BY <2>1, <2>2
<1>7. QED
  BY <1>3, <1>4, <1>5, <1>6, SizesAreNat DEF EntryFree

\* A full completion table never puts a message off (idf_push.cpp:150, 1034).
THEOREM EntryAlwaysFree == Spec => []CompletionEntryFree
<1>1. Init => AccountingInv /\ BoundedInv
  BY InitAccounting, InitBounded
<1>2. (AccountingInv /\ BoundedInv) /\ [Next]_vars => (AccountingInv /\ BoundedInv)'
  BY NextAccounting, NextBounded
<1>3. AccountingInv /\ BoundedInv => CompletionEntryFree
  BY EntryForEveryLeg
<1>4. QED
  BY <1>1, <1>2, <1>3, PTL DEF Spec

-----------------------------------------------------------------------------
(* The promise to the inbox: while nobody is forgotten every step is a      *)
(* step of ForwardLedger on the mapped state or changes nothing there.      *)

\* The parts of the mapped state.
Settling == IF pc = "mark" THEN {subject} ELSE {}
Dropped == {m \in Msgs \cup {NoMsg} : cfg.rule[m].drop}
PromiseOf(c) == [id |-> c.id, msg |-> c.msg, to |-> c.to, by |-> c.by, off |-> {}]
LedgerVars == <<Promises, Settling, Dropped, inbox>>

\* A promise is a promise of the ledger's.
LEMMA PromiseType ==
  ASSUME LedgerInv
  PROVE  /\ \A c \in comp : PromiseOf(c) \in Ledger!Promise
         /\ Promises = {PromiseOf(c) : c \in comp}
<1>1. ASSUME NEW c \in comp PROVE PromiseOf(c) \in Ledger!Promise
  <2>1. c \in Completion
    BY DEF LedgerInv, AccountingInv, TypeOK
  <2>2. c.id \in Nat \ {0} /\ c.msg \in Msgs /\ c.to \in SUBSET Targets /\ c.by \in SUBSET Targets
    BY <2>1 DEF Completion
  <2>3. Owed(c.id) # {}
    BY FS_EmptySet DEF LedgerInv, AccountingInv, CompletionAccounting
  <2>4. c.to # {}
    BY <2>3 DEF LedgerInv, NobodyForgotten
  <2>5. QED
    BY <2>2, <2>4 DEF PromiseOf, Ledger!Promise
<1>2. QED
  BY <1>1 DEF Promises, PromiseOf

\* What a step that makes no entry does to the promises: it abandons some.
LEMMA KeptPromises ==
  ASSUME OwedKept
  PROVE  /\ Promises' \in SUBSET Promises
         /\ comp' = comp => Promises' = Promises
BY DEF OwedKept, Promises

LEMMA InitLedger == Init => Ledger!Init
<1> SUFFICES ASSUME Init PROVE Ledger!Init
  OBVIOUS
<1>1. comp = {} /\ pc # "mark" /\ inbox = [m \in Msgs |-> "unseen"]
  BY DEF Init
<1>2. QED
  BY <1>1 DEF Ledger!Init, Promises

\* A target accepts: the promise of its dispatch, if there still is one, takes note.
LEMMA AcceptStep ==
  ASSUME LedgerInv, SendOk
  PROVE  /\ NobodyForgotten'
         /\ \/ \E p \in Promises : \E t \in Targets : Ledger!Accept(p, t)
            \/ UNCHANGED LedgerVars
<1> DEFINE By(c) == [c EXCEPT !.by = @ \cup {leg.target}]
<1>1. /\ pc = "send" /\ pc' = "succeed" /\ UNCHANGED <<leg, cfg, inbox>>
      /\ comp' = Accepted(leg.cid, leg.target)
      /\ leg \in Leg /\ leg.target \in Targets /\ leg.cid \in Nat
  BY DEF SendOk, MaySend, LedgerInv, AccountingInv, TypeOK, LegSteps, Leg
<1>2. \A d \in comp' : \E c \in comp :
        /\ d.id = c.id /\ d.to = c.to
        /\ d.by = IF c.id = leg.cid THEN c.by \cup {leg.target} ELSE c.by
  <2>1. comp \in SUBSET Completion
    BY DEF LedgerInv, AccountingInv, TypeOK
  <2>2. \A d \in Accepted(leg.cid, leg.target) :
          /\ d \in Completion
          /\ \E c \in comp : /\ d.id = c.id /\ d.msg = c.msg /\ d.remaining = c.remaining
                            /\ d.to = c.to
                            /\ d.by = IF c.id = leg.cid THEN c.by \cup {leg.target} ELSE c.by
    BY <1>1, <2>1, AcceptedFields
  <2>3. QED
    BY <1>1, <2>2, Zenon
<1>3. \A id : Owed(id)' = Owed(id)
  BY AcceptAccounting DEF LedgerInv
<1>4. NobodyForgotten'
  BY <1>1, <1>2, <1>3 DEF LedgerInv, NobodyForgotten
<1>5. Settling' = Settling /\ Dropped' = Dropped
  BY <1>1 DEF Settling, Dropped
<1>6. CASE \A c \in comp : c.id # leg.cid
  <2>1. comp' = comp
    BY <1>1, <1>6 DEF Accepted
  <2>2. QED
    BY <1>1, <1>4, <1>5, <2>1 DEF LedgerVars, Promises
<1>7. ASSUME NEW c \in comp, c.id = leg.cid
      PROVE  Ledger!Accept(PromiseOf(c), leg.target)
  <2>1. \A d \in comp \ {c} : d.id # leg.cid
    BY <1>7 DEF LedgerInv, AccountingInv, UniqueIds
  <2>2. comp' = (comp \ {c}) \cup {By(c)}
    BY <1>1, <1>7, <2>1 DEF Accepted
  <2>3. leg.target \in c.to
    <3>1. leg \in Live
      BY <1>1 DEF Live, LegSteps
    <3>2. leg.target \in Owed(c.id)
      BY <1>7, <3>1 DEF Owed
    <3>3. QED
      BY <3>2 DEF LedgerInv, NobodyForgotten
  <2>4. c \in Completion
    BY DEF LedgerInv, AccountingInv, TypeOK
  <2>5. PromiseOf(By(c)) = [PromiseOf(c) EXCEPT !.by = @ \cup {leg.target}]
    BY <2>4 DEF PromiseOf, Completion
  <2>6. /\ Promises' = {PromiseOf(d) : d \in comp'}
        /\ Promises = {PromiseOf(d) : d \in comp}
    BY DEF Promises, PromiseOf
  <2>7. \A d \in comp \ {c} : PromiseOf(d) # PromiseOf(c)
    BY <1>7, <2>1 DEF PromiseOf
  <2>8. Promises' = (Promises \ {PromiseOf(c)})
                       \cup {[PromiseOf(c) EXCEPT !.by = @ \cup {leg.target}]}
    <3>1. Promises' = {PromiseOf(d) : d \in comp \ {c}} \cup {PromiseOf(By(c))}
      BY <2>2, <2>6
    <3>2. Promises \ {PromiseOf(c)} = {PromiseOf(d) : d \in comp \ {c}}
      BY <2>6, <2>7
    <3>3. QED
      BY <2>5, <3>1, <3>2
  <2>9. leg.target \in PromiseOf(c).to
    BY <2>3 DEF PromiseOf
  <2>10. QED
    BY <1>1, <1>5, <2>8, <2>9 DEF Ledger!Accept, Settling, Dropped
<1>8. QED
  BY <1>1, <1>4, <1>6, <1>7, PromiseType

\* A delivery is counted: the one that was owed last fulfils the promise, any other
\* leaves it as it is, and so does one whose entry was cancelled.
LEMMA DeliveryStep ==
  ASSUME LedgerInv, NoteSuccess
  PROVE  /\ NobodyForgotten'
         /\ \/ \E p \in Promises : Ledger!Fulfil(p)
            \/ UNCHANGED LedgerVars
<1> DEFINE mine == {c \in comp : c.id = leg.cid}
           over == {c \in mine : LastLeg(c)}
           Less(c) == [c EXCEPT !.remaining = @ - 1]
<1>1. /\ comp' = (comp \ mine) \cup {Less(c) : c \in mine \ over}
      /\ UNCHANGED <<pushQ, emailQ, cfg, inbox>>
      /\ pc = "succeed" /\ pc' \in {"mark", "forward"}
      /\ over # {} => pc' = "mark" /\ subject' = (CHOOSE c \in over : TRUE).msg
      /\ over = {} => pc' = "forward"
  BY DEF NoteSuccess
<1>2. Live = Queued \cup {leg} /\ Live' = Queued /\ leg \in Leg
  BY <1>1 DEF Live, Queued, LegSteps, LedgerInv, AccountingInv, TypeOK
<1>3. \A c \in comp : /\ c \in Completion /\ c.id # 0 /\ c.remaining \in Nat
                      /\ c.remaining = Cardinality(Owed(c.id)) /\ c.remaining > 0
                      /\ c.to \ c.by \subseteq Owed(c.id) /\ Owed(c.id) \subseteq c.to
  BY CompletionFields DEF LedgerInv, AccountingInv, TypeOK, CompletionAccounting, NobodyForgotten
<1>4. \A c \in comp : c.id # leg.cid => Owed(c.id)' = Owed(c.id)
  BY <1>2 DEF Owed
<1>5. Settling = {} /\ Dropped' = Dropped
  BY <1>1 DEF Settling, Dropped
<1>6. \A c \in comp : c.id = leg.cid => leg.target \in c.by
  BY <1>1 DEF LedgerInv, NobodyForgotten
<1>7. \A c \in comp : Less(c).id = c.id /\ Less(c).to = c.to /\ Less(c).by = c.by
                      /\ Less(c).msg = c.msg
  BY <1>3 DEF Completion
<1>8. \A c \in mine : Owed(c.id)' = Owed(c.id) \ {leg.target} /\ leg.target \in Owed(c.id)
  <2> SUFFICES ASSUME NEW c \in mine
               PROVE  Owed(c.id)' = Owed(c.id) \ {leg.target} /\ leg.target \in Owed(c.id)
    OBVIOUS
  <2>1. c.id = leg.cid /\ leg.cid # 0
    BY <1>3
  <2>2. \A j \in Queued : j.cid = leg.cid => j.target # leg.target
    BY <1>1, <2>1 DEF LedgerInv, AccountingInv, OneLegPerTarget, SameLeg, LegSteps
  <2>3. QED
    BY <1>2, <2>1, <2>2 DEF Owed
<1>9. NobodyForgotten'
  <2>1. ASSUME NEW d \in comp' PROVE d.to \ d.by \subseteq Owed(d.id)' /\ Owed(d.id)' \subseteq d.to
    <3>1. CASE d \in comp \ mine
      BY <1>3, <1>4, <3>1
    <3>2. CASE d \notin comp \ mine
      <4>1. PICK c \in mine : d = Less(c)
        BY <1>1, <3>2
      <4>2. d.id = c.id /\ d.to = c.to /\ d.by = c.by
        BY <1>7, <4>1
      <4>3. Owed(c.id)' = Owed(c.id) \ {leg.target} /\ leg.target \in c.by
        BY <1>6, <1>8
      <4>4. c.to \ c.by \subseteq Owed(c.id) /\ Owed(c.id) \subseteq c.to
        BY <1>3
      <4>5. QED
        BY <4>2, <4>3, <4>4
    <3>3. QED
      BY <3>1, <3>2
  <2>2. pc' # "succeed"
    BY <1>1
  <2>3. QED
    BY <2>1, <2>2 DEF NobodyForgotten
<1>10. CASE over = {}
  <2>1. Promises' = Promises
    <3>1. \A c \in mine : PromiseOf(Less(c)) = PromiseOf(c)
      BY <1>7 DEF PromiseOf
    <3>2. comp' = (comp \ mine) \cup {Less(c) : c \in mine}
      BY <1>1, <1>10
    <3>3. Promises' = {PromiseOf(d) : d \in comp'} /\ Promises = {PromiseOf(d) : d \in comp}
      BY DEF Promises, PromiseOf
    <3>4. {PromiseOf(Less(c)) : c \in mine} = {PromiseOf(c) : c \in mine}
      BY <3>1
    <3>5. /\ Promises' = {PromiseOf(d) : d \in comp \ mine} \cup {PromiseOf(Less(c)) : c \in mine}
          /\ Promises = {PromiseOf(d) : d \in comp \ mine} \cup {PromiseOf(c) : c \in mine}
      BY <3>2, <3>3
    <3>6. QED
      BY <3>4, <3>5
  <2>2. QED
    BY <1>1, <1>5, <1>9, <1>10, <2>1 DEF LedgerVars, Settling
<1>11. ASSUME NEW c \in over PROVE Ledger!Fulfil(PromiseOf(c))
  <2>1. mine = {c} /\ over = {c}
    BY DEF LedgerInv, AccountingInv, UniqueIds
  <2>2. comp' = comp \ {c} /\ Settling' = {c.msg}
    BY <1>1, <2>1 DEF Settling
  <2>3. Owed(c.id) \subseteq {leg.target}
    <3>1. IsFiniteSet(Owed(c.id)) /\ Cardinality(Owed(c.id)) \in Nat
      BY OwedType DEF LedgerInv, AccountingInv
    <3>2. Cardinality(Owed(c.id) \ {leg.target}) = Cardinality(Owed(c.id)) - 1
      BY <1>8, <3>1, FS_RemoveElement
    <3>3. Cardinality(Owed(c.id)) = 1
      BY <1>3, <3>1 DEF LastLeg
    <3>4. Cardinality(Owed(c.id) \ {leg.target}) = 0
      BY <3>2, <3>3
    <3>5. QED
      BY <3>1, <3>4, FS_EmptySet, FS_RemoveElement
  <2>4. c.to \subseteq c.by
    BY <1>3, <1>6, <2>3
  <2>5. Promises' = {PromiseOf(d) : d \in comp'} /\ Promises = {PromiseOf(d) : d \in comp}
    BY DEF Promises, PromiseOf
  <2>6. \A d \in comp \ {c} : PromiseOf(d) # PromiseOf(c)
    BY DEF LedgerInv, AccountingInv, UniqueIds, PromiseOf
  <2>7. Promises' = Promises \ {PromiseOf(c)}
    BY <2>2, <2>5, <2>6
  <2>8. /\ PromiseOf(c).msg = c.msg
        /\ PromiseOf(c).to \subseteq PromiseOf(c).by \cup PromiseOf(c).off
    BY <2>4 DEF PromiseOf
  <2>9. QED
    BY <1>1, <1>5, <2>2, <2>7, <2>8 DEF Ledger!Fulfil, Settling, Dropped
<1>12. QED
  BY <1>9, <1>10, <1>11, PromiseType

\* A dispatch that makes an entry opens a promise to every selected target.
LEMMA OpenStep ==
  ASSUME LedgerInv, Dispatch, NeedsCompletion(view, fwd.msg)
  PROVE  NobodyForgotten' /\ Ledger!Open
<1>0. PICK id, T, new, p :
        /\ id = nextCid + 1 /\ T = Selected(view, fwd.msg)
        /\ new = [id |-> id, msg |-> fwd.msg, remaining |-> Cardinality(T), to |-> T, by |-> {}]
        /\ p = [id |-> id, msg |-> fwd.msg, to |-> T, by |-> {}, off |-> {}]
  OBVIOUS
<1> DEFINE N == {NewLeg(fwd.ev, fwd.msg, id, t) : t \in T}
<1>1. /\ pc = "dispatch" /\ pc' = "forward"
      /\ comp' = comp \cup {new} /\ nextCid' = id
      /\ UNCHANGED <<cfg, inbox>> /\ T # {} /\ fwd.msg # NoMsg
  BY <1>0 DEF Dispatch, Register, NeedsCompletion
<1>2. /\ view \in Configs /\ fwd.msg \in Msgs /\ fwd.ev \in Nat
      /\ nextCid \in Nat /\ id \in Nat \ {0}
  BY <1>0, <1>1 DEF LedgerInv, AccountingInv, TypeOK, ForwardJob
<1>3. T \subseteq Targets
  BY <1>0, <1>2, SelectedType
<1>4. pushQ' \cup emailQ' = Queued \cup N
  BY <1>0 DEF Dispatch, Selected, Queued
<1>5. Live = Queued /\ Live' = Queued \cup N
  BY <1>1, <1>4 DEF Live, Queued, LegSteps
<1>6. \A t \in T : /\ NewLeg(fwd.ev, fwd.msg, id, t).cid = id
                   /\ NewLeg(fwd.ev, fwd.msg, id, t).target = t
  BY <1>2, <1>3, NewLegType
<1>7. \A l \in Queued : l.cid # id
  <2>1. \A l \in Queued : l.cid \in Nat /\ l.cid <= nextCid
    BY <1>5 DEF LedgerInv, AccountingInv, TypeOK, FreshIds, Queued, Leg
  <2>2. QED
    BY <2>1, <1>0, <1>2
<1>8. \A c \in comp : c.id # id
  <2>1. \A c \in comp : c.id \in Nat /\ c.id <= nextCid
    BY CompletionFields DEF LedgerInv, AccountingInv, TypeOK, FreshIds
  <2>2. QED
    BY <2>1, <1>0, <1>2
<1>9. \A c \in comp : Owed(c.id)' = Owed(c.id)
  <2>1. \A c \in comp : \A l \in N : l.cid # c.id
    BY <1>6, <1>8
  <2>2. QED
    BY <1>5, <2>1 DEF Owed
<1>10. Owed(id)' = T
  <2>1. {l \in Live' : l.cid = id} = N
    BY <1>5, <1>6, <1>7
  <2>2. {l.target : l \in N} = T
    BY <1>6
  <2>3. QED
    BY <2>1, <2>2 DEF Owed
<1>11. Promises' = Promises \cup {p}
  <2>1. Promises' = {PromiseOf(c) : c \in comp \cup {new}} /\ Promises = {PromiseOf(c) : c \in comp}
    BY <1>1 DEF Promises, PromiseOf
  <2>2. PromiseOf(new) = p
    BY <1>0 DEF PromiseOf
  <2>3. QED
    BY <2>1, <2>2
<1>12. p \in Ledger!Promise /\ p.by = {} /\ p.off = {}
  BY <1>0, <1>1, <1>2, <1>3 DEF Ledger!Promise
<1>13. \A q \in Promises : q.id # p.id
  BY <1>0, <1>8 DEF Promises
<1>14. Settling' = Settling /\ Dropped' = Dropped
  BY <1>1 DEF Settling, Dropped
<1>15. NobodyForgotten'
  <2>1. new.id = id /\ new.to = T /\ new.by = {}
    BY <1>0
  <2>2. pc' # "succeed"
    BY <1>1
  <2>3. \A c \in comp' : c.to \ c.by \subseteq Owed(c.id)' /\ Owed(c.id)' \subseteq c.to
    BY <1>1, <1>9, <1>10, <2>1 DEF LedgerInv, NobodyForgotten
  <2>4. QED
    BY <2>2, <2>3 DEF NobodyForgotten
<1>16. QED
  BY <1>1, <1>11, <1>12, <1>13, <1>14, <1>15 DEF Ledger!Open, Settling, Dropped

\* Only a delivery leads to its being counted.
LEMMA OnlySendOk ==
  ASSUME [Next]_vars, ~SendOk, pc' = "succeed"
  PROVE  pc = "succeed" /\ leg' = leg
<1>1. CASE Worker
  BY <1>1 DEF Worker, PopForward, NoForward, Decide, Dispatch, DispatchBusy, Requeue,
     PickPush, NoPush, ReadEmailConfig, PurgeEmail, PickEmail, SendInvalid, SendFails,
     NoteSuccess, Mark, Retry, GiveUp, ClearMark
<1>2. CASE Others
  BY <1>2 DEF Others, Receive, Resend, Forget, ForwardCall, Notify, MailNotice, SaveConfig,
     EnvChange, Restart, worker
<1>3. CASE Time
  BY <1>3 DEF Time, ForwardDue, PushDue, EmailDue, CoolDown, worker
<1>4. CASE UNCHANGED vars
  BY <1>4 DEF vars, worker
<1>5. QED
  BY <1>1, <1>2, <1>3, <1>4 DEF Next

LEMMA NextForgotten == LedgerInv /\ [Next]_vars => LedgerInv'
<1> SUFFICES ASSUME LedgerInv, [Next]_vars PROVE LedgerInv'
  OBVIOUS
<1>1. AccountingInv'
  BY NextAccounting DEF LedgerInv
<1>2. CASE SendOk
  BY <1>1, <1>2, AcceptStep DEF LedgerInv
<1>3. CASE NoteSuccess
  BY <1>1, <1>3, DeliveryStep DEF LedgerInv
<1>4. CASE Dispatch /\ NeedsCompletion(view, fwd.msg)
  BY <1>1, <1>4, OpenStep DEF LedgerInv
<1>5. CASE OwedKept /\ ~SendOk
  <2>1. NobodyForgotten'
    BY <1>5, OnlySendOk DEF LedgerInv, NobodyForgotten, OwedKept
  <2>2. QED
    BY <1>1, <2>1 DEF LedgerInv
<1>6. QED
  BY <1>2, <1>3, <1>4, <1>5, StepOwed DEF LedgerInv

LEMMA InitForgotten == Init => LedgerInv
BY InitAccounting DEF Init, LedgerInv, NobodyForgotten

\* Every step of the core is a step of the ledger or changes nothing there.
LEMMA NextLedger ==
  ASSUME LedgerInv, [Next]_vars
  PROVE  [Ledger!Next]_Ledger!vars
<1> DEFINE Mapped == Ledger!Next \/ UNCHANGED LedgerVars
<1> SUFFICES Mapped
  BY DEF Ledger!vars, LedgerVars, Settling, Dropped
<1>t. AccountingInv /\ TypeOK
  BY DEF LedgerInv, AccountingInv
\* Steps that keep the promises, the entry to mark, the rules and the marks.
<1>s. ASSUME OwedKept, UNCHANGED <<comp, cfg, inbox>>, Settling' = Settling
      PROVE  Mapped
  BY <1>s, KeptPromises DEF LedgerVars, Dropped
\* Steps that cancel entries.
<1>a. ASSUME OwedKept, UNCHANGED <<cfg, inbox>>, pc # "mark", pc' # "mark"
      PROVE  Mapped
  <2>1. Settling' = Settling /\ Dropped' = Dropped
    BY <1>a DEF Settling, Dropped
  <2>2. Ledger!Abandon
    BY <1>a, <2>1, KeptPromises DEF Ledger!Abandon, Settling, Dropped
  <2>3. QED
    BY <2>2 DEF Ledger!Next
<1>0. OwedKept \/ NoteSuccess \/ SendOk \/ (Dispatch /\ NeedsCompletion(view, fwd.msg))
  BY <1>t, StepOwed
<1>1. CASE NoteSuccess
  BY <1>1, DeliveryStep DEF Ledger!Next
<1>1a. CASE SendOk
  BY <1>1a, AcceptStep DEF Ledger!Next
<1>2. CASE Dispatch /\ NeedsCompletion(view, fwd.msg)
  BY <1>2, OpenStep DEF Ledger!Next
<1>3. CASE OwedKept
  <2> USE <1>3
  <2>1. ASSUME NEW m \in Msgs, Receive(m) PROVE Mapped
    <3>1. UNCHANGED <<comp, cfg, pc, subject>>
      BY <2>1 DEF Receive, EnqueueForward, worker
    <3>2. Ledger!Arrive(m)
      BY <2>1, <3>1, KeptPromises DEF Receive, Ledger!Arrive
    <3>3. QED
      BY <3>2 DEF Ledger!Next
  <2>2. ASSUME NEW m \in Msgs, Resend(m) PROVE Mapped
    BY <2>2, <1>s DEF Resend, EnqueueForward, worker, Settling
  <2>3. ASSUME NEW m \in Msgs, Forget(m) PROVE Mapped
    <3>1. UNCHANGED <<comp, cfg, pc, subject>>
      BY <2>3 DEF Forget, shared, worker
    <3>2. Ledger!Delete(m)
      BY <2>3, <3>1, KeptPromises DEF Forget, Ledger!Delete
    <3>3. QED
      BY <3>2 DEF Ledger!Next
  <2>4. CASE ForwardCall \/ Notify \/ MailNotice
    BY <2>4, <1>s DEF ForwardCall, Notify, MailNotice, EnqueueForward, worker, Settling
  <2>5. CASE SaveConfig
    <3>1. UNCHANGED <<comp, inbox, pc, subject>>
      BY <2>5 DEF SaveConfig, shared, worker
    <3>2. Ledger!ChangeSettings
      BY <3>1, KeptPromises DEF Ledger!ChangeSettings
    <3>3. QED
      BY <3>2 DEF Ledger!Next
  <2>6. CASE EnvChange \/ ForwardDue \/ PushDue \/ EmailDue \/ CoolDown
    BY <2>6, <1>s DEF EnvChange, ForwardDue, PushDue, EmailDue, CoolDown, shared, worker, Settling
  <2>7. CASE Restart
    <3>1. Promises' = {} /\ Settling' = {} /\ Dropped' = Dropped /\ inbox' = inbox
      BY <2>7 DEF Restart, Promises, Settling, Dropped
    <3>2. Ledger!Crash
      BY <3>1 DEF Ledger!Crash, Settling, Dropped
    <3>3. QED
      BY <3>2 DEF Ledger!Next
  <2>8. CASE PopForward \/ NoForward \/ DispatchBusy \/ Requeue \/ PickPush \/ NoPush
    BY <2>8, <1>s
       DEF PopForward, NoForward, DispatchBusy, Requeue, PickPush, NoPush, shared, Settling
  <2>9. CASE ReadEmailConfig \/ PickEmail \/ SendFails \/ Retry
    BY <2>9, <1>s
       DEF ReadEmailConfig, PickEmail, SendOk, SendFails, MaySend, Retry, shared, Settling
  <2>10. CASE Decide
    <3>1. fwd.msg \in Msgs \cup {NoMsg} /\ comp' = comp /\ UNCHANGED <<cfg, inbox>> /\ pc = "decide"
      BY <2>10, <1>t DEF Decide, TypeOK, ForwardJob, shared
    <3>2. CASE cfg.rule[fwd.msg].drop
      <4>1. fwd.msg \in Dropped /\ Settling = {} /\ Settling' = {fwd.msg} /\ Dropped' = Dropped
        BY <2>10, <3>1, <3>2 DEF Decide, Settling, Dropped
      <4>2. Ledger!Drop(fwd.msg)
        BY <3>1, <4>1, KeptPromises DEF Ledger!Drop, Settling, Dropped
      <4>3. QED
        BY <4>1, <4>2 DEF Ledger!Next, Dropped
    <3>3. CASE ~cfg.rule[fwd.msg].drop
      BY <2>10, <3>1, <3>3, <1>s DEF Decide, Settling
    <3>4. QED
      BY <3>2, <3>3
  <2>11. CASE Dispatch
    <3>1. CASE NeedsCompletion(view, fwd.msg)
      BY <2>11, <3>1, <1>2
    <3>2. CASE ~NeedsCompletion(view, fwd.msg)
      BY <2>11, <3>2, <1>s DEF Dispatch, Register, Settling
    <3>3. QED
      BY <3>1, <3>2
  <2>12. CASE PurgeEmail \/ SendInvalid \/ GiveUp
    BY <2>12, <1>a DEF PurgeEmail, SendInvalid, GiveUp
  <2>13. CASE Mark
    <3>1. /\ Settling = {subject} /\ Settling' = {} /\ Dropped' = Dropped /\ comp' = comp
          /\ inbox' = [n \in Msgs |-> IF n = subject /\ inbox[n] \in {"pending", "forwarded"}
                                      THEN "forwarded" ELSE inbox[n]]
      BY <2>13 DEF Mark, SetForwarded, Settling, Dropped, shared
    <3>2. Ledger!Settle(subject)
      BY <3>1, KeptPromises DEF Ledger!Settle, Settling, Dropped
    <3>3. QED
      BY <3>1, <3>2 DEF Ledger!Next, Settling
  <2>14. CASE ClearMark
    <3>1. /\ comp' = comp /\ UNCHANGED cfg /\ Settling' = Settling
          /\ inbox' = [n \in Msgs |-> IF n = subject /\ inbox[n] \in {"pending", "forwarded"}
                                      THEN "pending" ELSE inbox[n]]
          /\ inbox \in [Msgs -> {"unseen", "pending", "forwarded", "gone"}]
      BY <2>14, <1>t DEF ClearMark, SetForwarded, Settling, shared, TypeOK
    <3>2. CASE subject \in Msgs /\ inbox[subject] = "forwarded"
      <4>1. inbox' = [inbox EXCEPT ![subject] = "pending"]
        BY <3>1, <3>2
      <4>2. Ledger!Unmark(subject)
        BY <3>1, <3>2, <4>1, KeptPromises DEF Ledger!Unmark, Settling, Dropped
      <4>3. QED
        BY <3>2, <4>2 DEF Ledger!Next
    <3>3. CASE ~(subject \in Msgs /\ inbox[subject] = "forwarded")
      <4>1. inbox' = inbox
        BY <3>1, <3>3
      <4>2. QED
        BY <3>1, <4>1, <1>s
    <3>4. QED
      BY <3>2, <3>3
  <2>15. CASE UNCHANGED vars
    BY <2>15, <1>s DEF vars, shared, worker, Settling
  <2>16. QED
    BY <1>1, <1>1a, <2>1, <2>2, <2>3, <2>4, <2>5, <2>6, <2>7, <2>8, <2>9, <2>10, <2>11, <2>12,
       <2>13, <2>14, <2>15 DEF Next, Worker, Others, Time
<1>4. QED
  BY <1>0, <1>1, <1>1a, <1>2, <1>3

\* The forwarding core implements the ledger: an entry is marked forwarded only
\* when every target of one dispatch of it has accepted the message or a rule
\* dropped it (idf_push.cpp:203-277, 979-1241).
THEOREM ImplementsTheLedger == Spec => ImplementsLedger
<1>1. Init => Ledger!Init
  BY InitLedger
<1>2. LedgerInv /\ [Next]_vars => [Ledger!Next]_Ledger!vars
  BY NextLedger
<1>3. Init => LedgerInv
  BY InitForgotten
<1>4. LedgerInv /\ [Next]_vars => LedgerInv'
  BY NextForgotten
<1>5. QED
  BY <1>1, <1>2, <1>3, <1>4, PTL DEF Spec, ImplementsLedger, Ledger!Spec
=============================================================================
