---------------------------- MODULE SmsTaskProofs ----------------------------
(***************************************************************************)
(* What holds of the receive path of the ESP port for any messages, slots  *)
(* and sizes of its queues, rings and batches, and any number of           *)
(* deliveries and restarts.                                                *)
(***************************************************************************)
EXTENDS SmsTask, FiniteSetTheorems, TLAPS

-----------------------------------------------------------------------------
(* Sequences without repetition.                                           *)

LEMMA TakenFirst ==
  ASSUME NEW S, NEW s \in Seq(S), s # <<>>
  PROVE  /\ Head(s) \in S /\ Tail(s) \in Seq(S) /\ Len(s) \in Nat /\ Len(Tail(s)) = Len(s) - 1
         /\ ToSet(Tail(s)) \subseteq ToSet(s) /\ Head(s) \in ToSet(s)
         /\ IsInjective(s) => IsInjective(Tail(s)) /\ Head(s) \notin ToSet(Tail(s))
<1>1. /\ Head(s) = s[1] /\ Tail(s) \in Seq(S) /\ Len(Tail(s)) = Len(s) - 1 /\ Len(s) \in Nat /\ Len(s) >= 1
      /\ \A i \in 1 .. Len(s) - 1 : Tail(s)[i] = s[i + 1]
      /\ DOMAIN s = 1 .. Len(s) /\ DOMAIN Tail(s) = 1 .. Len(s) - 1
      /\ \A i \in 1 .. Len(s) : s[i] \in S
  OBVIOUS
<1>2. ToSet(Tail(s)) \subseteq ToSet(s) /\ Head(s) \in ToSet(s) /\ Head(s) \in S
  BY <1>1 DEF ToSet
<1>3. ASSUME IsInjective(s) PROVE IsInjective(Tail(s)) /\ Head(s) \notin ToSet(Tail(s))
  <2>1. \A i, j \in 1 .. Len(s) : s[i] = s[j] => i = j
    BY <1>1, <1>3 DEF IsInjective
  <2>2. IsInjective(Tail(s))
    BY <1>1, <2>1 DEF IsInjective
  <2>3. Head(s) \notin ToSet(Tail(s))
    BY <1>1, <2>1 DEF ToSet
  <2> QED
    BY <2>2, <2>3
<1> QED
  BY <1>1, <1>2, <1>3

LEMMA PutLast ==
  ASSUME NEW S, NEW s \in Seq(S), NEW x \in S
  PROVE  /\ Append(s, x) \in Seq(S) /\ Len(s) \in Nat /\ Len(Append(s, x)) = Len(s) + 1
         /\ ToSet(Append(s, x)) = ToSet(s) \cup {x}
         /\ IsInjective(s) /\ x \notin ToSet(s) => IsInjective(Append(s, x))
<1>1. /\ Append(s, x) \in Seq(S) /\ Len(s) \in Nat /\ Len(Append(s, x)) = Len(s) + 1
      /\ DOMAIN s = 1 .. Len(s) /\ DOMAIN Append(s, x) = 1 .. Len(s) + 1
      /\ Append(s, x)[Len(s) + 1] = x /\ \A i \in 1 .. Len(s) : Append(s, x)[i] = s[i]
  OBVIOUS
<1>2. ToSet(Append(s, x)) = ToSet(s) \cup {x}
  <2>1. ASSUME NEW y \in ToSet(Append(s, x)) PROVE y \in ToSet(s) \cup {x}
    <3>1. PICK i \in 1 .. Len(s) + 1 : y = Append(s, x)[i]
      BY <1>1 DEF ToSet
    <3>2. i \in 1 .. Len(s) \/ i = Len(s) + 1
      BY <1>1
    <3> QED
      BY <1>1, <3>1, <3>2 DEF ToSet
  <2>2. ASSUME NEW y \in ToSet(s) PROVE y \in ToSet(Append(s, x))
    <3>1. PICK i \in 1 .. Len(s) : y = s[i]
      BY <1>1 DEF ToSet
    <3> QED
      BY <1>1, <3>1 DEF ToSet
  <2>3. x \in ToSet(Append(s, x))
    <3>1. Len(s) + 1 \in DOMAIN Append(s, x)
      BY <1>1
    <3> QED
      BY <1>1, <3>1 DEF ToSet
  <2> QED
    BY <2>1, <2>2, <2>3
<1>3. ASSUME IsInjective(s), x \notin ToSet(s) PROVE IsInjective(Append(s, x))
  <2>1. \A i, j \in 1 .. Len(s) : s[i] = s[j] => i = j
    BY <1>1, <1>3 DEF IsInjective
  <2>2. \A i \in 1 .. Len(s) : s[i] # x
    BY <1>1, <1>3 DEF ToSet
  <2>3. \A i, j \in 1 .. Len(s) + 1 : Append(s, x)[i] = Append(s, x)[j] => i = j
    BY <1>1, <2>1, <2>2
  <2> QED
    BY <1>1, <2>3 DEF IsInjective
<1> QED
  BY <1>1, <1>2, <1>3

\* The order in which a set is listed.
LEMMA Listed ==
  ASSUME NEW S, NEW T, IsFiniteSet(S), S \subseteq T, NEW s \in SetToSeqs(S)
  PROVE  s \in Seq(T) /\ IsInjective(s) /\ ToSet(s) \subseteq S
<1>1. Cardinality(S) \in Nat
  BY FS_CardinalityType
<1>2. s \in [1 .. Cardinality(S) -> S] /\ \A i, j \in 1 .. Cardinality(S) : i # j => s[i] # s[j]
  BY DEF SetToSeqs
<1>3. s \in Seq(T)
  BY <1>1, <1>2
<1>4. DOMAIN s = 1 .. Cardinality(S)
  BY <1>2
<1> QED
  BY <1>2, <1>3, <1>4 DEF IsInjective, ToSet

-----------------------------------------------------------------------------
(* Records and texts.                                                      *)

LEMMA RecordFields ==
  /\ None \notin Record /\ Good \subseteq Record
  /\ \A r \in Record : r.msg \in Msgs /\ r.part \in 1 .. PartsOf[r.msg]
  /\ \A r \in Good : r.msg \in Msgs \ Bad
  /\ \A m \in Msgs \ Bad : PartsOf[m] \in Nat /\ PartsOf[m] >= 1
<1>1. \A r \in Record : r.msg \in Msgs /\ r.part \in 1 .. PartsOf[r.msg]
  BY DEF Record
<1>2. None \notin Record /\ \A m \in Msgs : PartsOf[m] \in Nat /\ PartsOf[m] >= 1
  BY NoneApart, PartsPositive
<1> QED
  BY <1>1, <1>2 DEF Good

LEMMA TextOf ==
  ASSUME NEW m \in Msgs \ Bad, NEW P, P \subseteq 1 .. PartsOf[m], P # {}
  PROVE  [msg |-> m, parts |-> P] \in Text
BY DEF Text

\* A part that waits in the assembler is a part of its message.
LEMMA PartnersOf ==
  ASSUME held \subseteq Good, NEW m \in Msgs
  PROVE  Partners(m) \subseteq 1 .. PartsOf[m] /\ \A h \in held : h.msg = m => h.part \in Partners(m)
<1>1. \A h \in held : h.part \in 1 .. PartsOf[h.msg] /\ h = [msg |-> h.msg, part |-> h.part]
  BY DEF Good, Record
<1> QED
  BY <1>1 DEF Partners

-----------------------------------------------------------------------------
(* What a decoded message does to the ring, the inbox and the assembler.   *)

\* The types of what is kept, and that no stored text is forgotten.
Kept == /\ held' \subseteq Good /\ seen' \in Seq(Text) /\ Len(seen') <= RingMax
        /\ inbox' \in [Text -> Nat] /\ \A t \in Text : inbox'[t] >= inbox[t]
        /\ \A t \in ToSet(seen') : inbox'[t] > 0

\* The ring after a text has come in.
LEMMA Remembering ==
  ASSUME TypeOK, NEW t \in Text, Remember(t)
  PROVE  seen' \in Seq(Text) /\ Len(seen') <= RingMax /\ ToSet(seen') \subseteq ToSet(seen) \cup {t}
<1>1. seen \in Seq(Text) /\ Len(seen) <= RingMax /\ Len(seen) \in Nat /\ RingMax \in Nat /\ RingMax >= 1
  BY SizesArePositive DEF TypeOK
<1>2. CASE Len(seen) < RingMax
  <2>1. seen' = Append(seen, t)
    BY <1>2 DEF Remember
  <2>2. seen' \in Seq(Text) /\ Len(seen') = Len(seen) + 1 /\ ToSet(seen') = ToSet(seen) \cup {t}
    BY <1>1, <2>1, PutLast
  <2> QED
    BY <1>1, <1>2, <2>2
<1>3. CASE ~(Len(seen) < RingMax)
  <2>1. seen' = Append(Tail(seen), t) /\ seen # <<>>
    BY <1>1, <1>3 DEF Remember
  <2>2. Tail(seen) \in Seq(Text) /\ Len(Tail(seen)) = Len(seen) - 1 /\ ToSet(Tail(seen)) \subseteq ToSet(seen)
    BY <1>1, <2>1, TakenFirst
  <2>3. PICK u \in Seq(Text) : u = Tail(seen)
    BY <2>2
  <2>4. seen' = Append(u, t)
    BY <2>1, <2>3
  <2>5. seen' \in Seq(Text) /\ Len(seen') = Len(u) + 1 /\ ToSet(seen') = ToSet(u) \cup {t}
    BY <2>4, PutLast
  <2> QED
    BY <1>1, <2>2, <2>3, <2>5
<1> QED
  BY <1>2, <1>3

LEMMA Processing ==
  ASSUME TypeOK, SeenStored, NEW t \in Text, Process(t), held' \subseteq Good
  PROVE  Kept /\ inbox'[t] > 0
<1>1. seen \in Seq(Text) /\ Len(seen) <= RingMax /\ inbox \in [Text -> Nat] /\ ToSet(seen) \subseteq Text
  BY DEF TypeOK, ToSet
<1>2. CASE Seen(t)
  <2>1. seen' = seen /\ inbox' = inbox /\ t \in ToSet(seen)
    BY <1>2 DEF Process, Seen
  <2> QED
    BY <1>1, <2>1 DEF Kept, SeenStored
<1>3. CASE ~Seen(t)
  <2>1. Remember(t) /\ inbox' = [inbox EXCEPT ![t] = @ + 1]
    BY <1>3 DEF Process
  <2>2. seen' \in Seq(Text) /\ Len(seen') <= RingMax /\ ToSet(seen') \subseteq ToSet(seen) \cup {t}
    BY <2>1, Remembering
  <2>3. inbox' \in [Text -> Nat] /\ inbox'[t] > 0 /\ \A u \in Text : inbox'[u] >= inbox[u]
    BY <1>1, <2>1
  <2>4. \A u \in ToSet(seen') : inbox'[u] > 0
    BY <1>1, <2>2, <2>3 DEF SeenStored
  <2> QED
    BY <2>2, <2>3, <2>4 DEF Kept
<1> QED
  BY <1>2, <1>3

\* A record that is decoded, and each that waited, is in the assembler or in the
\* inbox afterwards.
LEMMA Decoding ==
  ASSUME TypeOK, SeenStored, NEW r \in Good, Decoded(r)
  PROVE  Kept /\ \A q \in held \cup {r} : q \in held' \/ InInbox(q)'
<1>1. held \subseteq Good /\ r.msg \in Msgs \ Bad /\ r.part \in 1 .. PartsOf[r.msg]
  BY RecordFields DEF TypeOK
<1>2. CASE Partners(r.msg) \cup {r.part} = 1 .. PartsOf[r.msg]
  <2>1. PICK t : t = [msg |-> r.msg, parts |-> 1 .. PartsOf[r.msg]]
    OBVIOUS
  <2>2. t \in Text
    BY <1>1, <2>1, TextOf
  <2>3. held' = {h \in held : h.msg # r.msg} /\ Process(t)
    BY <1>2, <2>1 DEF Decoded
  <2>4. Kept /\ inbox'[t] > 0
    BY <1>1, <2>2, <2>3, Processing
  <2>5. ASSUME NEW q \in held \cup {r}, q.msg = r.msg PROVE InInbox(q)'
    <3>1. q.part \in t.parts /\ t.msg = q.msg
      BY <1>1, <2>1, <2>5, RecordFields
    <3> QED
      BY <2>2, <2>4, <3>1 DEF InInbox
  <2>6. \A q \in held \cup {r} : q.msg # r.msg => q \in held'
    BY <2>3
  <2> QED
    BY <2>4, <2>5, <2>6
<1>3. CASE Partners(r.msg) \cup {r.part} # 1 .. PartsOf[r.msg]
  <2>1. held' = held \cup {r} /\ seen' = seen /\ inbox' = inbox
    BY <1>3 DEF Decoded
  <2>2. Kept
    BY <1>1, <2>1 DEF Kept, TypeOK, SeenStored, ToSet
  <2> QED
    BY <2>1, <2>2
<1> QED
  BY <1>2, <1>3

LEMMA Expiring ==
  ASSUME TypeOK, SeenStored, ExpireParts
  PROVE  Kept /\ \A q \in held : q \in held' \/ InInbox(q)'
<1>1. PICK m \in Msgs : /\ Partners(m) # {}
                        /\ Process([msg |-> m, parts |-> Partners(m)])
                        /\ held' = {h \in held : h.msg # m}
  BY DEF ExpireParts
<1>2. held \subseteq Good
  BY DEF TypeOK
<1>3. m \in Msgs \ Bad /\ Partners(m) \subseteq 1 .. PartsOf[m] /\ \A h \in held : h.msg = m => h.part \in Partners(m)
  <2>1. PICK p \in 1 .. PartsOf[m] : [msg |-> m, part |-> p] \in held
    BY <1>1 DEF Partners
  <2>2. m \notin Bad
    BY <1>2, <2>1 DEF Good
  <2> QED
    BY <1>2, <2>2, PartnersOf
<1>4. PICK t : t = [msg |-> m, parts |-> Partners(m)]
  OBVIOUS
<1>5. t \in Text
  BY <1>1, <1>3, <1>4, TextOf
<1>6. Kept /\ inbox'[t] > 0
  BY <1>1, <1>2, <1>4, <1>5, Processing
<1>7. ASSUME NEW q \in held, q.msg = m PROVE InInbox(q)'
  <2>1. q.part \in t.parts /\ t.msg = q.msg
    BY <1>3, <1>4, <1>7
  <2> QED
    BY <1>5, <1>6, <2>1 DEF InInbox
<1> QED
  BY <1>1, <1>6, <1>7

-----------------------------------------------------------------------------
(* Which steps change what.                                                *)

LEMMA WhoChanges ==
  ASSUME [Next]_vars
  PROVE  /\ \/ UNCHANGED <<held, seen, inbox>>
            \/ ReadLine \/ ExpireParts \/ ReadSlot \/ WalkGood \/ Restart
         /\ \/ UNCHANGED sim
            \/ \E r \in Record : Arrive(r)
            \/ EraseSlot \/ EraseWalked \/ GiveUp
         /\ \/ UNCHANGED <<slot, read>>
            \/ ReadSlot \/ WalkGood \/ EraseSlot \/ EraseWalked \/ Restart
         /\ UNCHANGED late \/ ReadSlot \/ ReadNothing \/ ListSlots \/ Restart
         /\ UNCHANGED list \/ ListSlots \/ WalkGood \/ WalkUnread \/ EndWalk \/ Restart
         /\ UNCHANGED handled \/ EraseWalked \/ RoundOver \/ Restart
         /\ UNCHANGED unread \/ WalkUnread \/ GiveUp \/ RoundOver \/ Restart
         /\ UNCHANGED restarts \/ Restart
<1> USE DEF task, round
<1>1. ASSUME NEW r \in Record, Arrive(r)
      PROVE  UNCHANGED <<held, seen, inbox, slot, read, late, list, handled, unread, restarts>>
  BY <1>1 DEF Arrive
<1>2. ASSUME NEW r \in Good, Push(r)
      PROVE  UNCHANGED <<sim, held, seen, inbox, slot, read, late, list, handled, unread, restarts>>
  BY <1>2 DEF Push
<1>3. CASE Task
  <2>1. CASE ReadLine
    BY <2>1 DEF ReadLine
  <2>2. CASE AllRead \/ CloseWindow \/ Wait
    BY <2>2 DEF AllRead, CloseWindow, Wait
  <2>3. CASE ExpireParts
    BY <2>3 DEF ExpireParts
  <2>4. CASE ReadSlot
    BY <2>4 DEF ReadSlot
  <2>5. CASE ReadNothing
    BY <2>5 DEF ReadNothing
  <2>6. CASE EraseSlot
    BY <2>6 DEF EraseSlot
  <2>7. CASE ListSlots
    BY <2>7 DEF ListSlots
  <2>8. CASE WalkGood
    BY <2>8 DEF WalkGood
  <2>9. CASE EraseWalked
    BY <2>9 DEF EraseWalked
  <2>10. CASE WalkUnread
    BY <2>10 DEF WalkUnread
  <2>11. CASE EndWalk
    BY <2>11 DEF EndWalk
  <2>12. CASE GiveUp
    BY <2>12 DEF GiveUp
  <2>13. CASE RoundOver
    BY <2>13 DEF RoundOver
  <2> QED
    BY <1>3, <2>1, <2>2, <2>3, <2>4, <2>5, <2>6, <2>7, <2>8, <2>9, <2>10, <2>11, <2>12, <2>13 DEF Task
<1>4. CASE AtChange \/ UNCHANGED vars
  BY <1>4 DEF AtChange, vars
<1>5. CASE Restart
  BY <1>5 DEF Restart
<1> QED
  BY <1>1, <1>2, <1>3, <1>4, <1>5 DEF Next

\* Where the task is, what the modem and the links hold.
LEMMA WhoMoves ==
  ASSUME [Next]_vars
  PROVE  /\ \/ UNCHANGED pc
            \/ AllRead \/ Wait \/ ListSlots \/ ReadSlot \/ ReadNothing \/ WalkGood \/ EraseSlot
            \/ EraseWalked \/ EndWalk \/ RoundOver \/ Restart
         /\ UNCHANGED indexQ \/ ReadLine \/ ReadSlot \/ ReadNothing \/ Restart
         /\ UNCHANGED waiting \/ ReadLine \/ CloseWindow \/ Restart
         /\ UNCHANGED pending \/ ReadLine \/ CloseWindow \/ ReadNothing \/ ListSlots \/ EndWalk \/ Restart
         /\ UNCHANGED stall \/ EndWalk \/ RoundOver \/ Restart
         /\ UNCHANGED at \/ AtChange
         /\ UNCHANGED urc \/ ReadLine \/ Restart \/ (\E r \in Record : Arrive(r)) \/ \E r \in Good : Push(r)
<1> USE DEF task, round
<1>1. ASSUME NEW r \in Record, Arrive(r)
      PROVE  UNCHANGED <<pc, indexQ, waiting, pending, stall, at>>
  BY <1>1 DEF Arrive
<1>2. ASSUME NEW r \in Good, Push(r)
      PROVE  UNCHANGED <<pc, indexQ, waiting, pending, stall, at>>
  BY <1>2 DEF Push
<1>3. CASE Task
  <2>1. CASE ReadLine
    BY <2>1 DEF ReadLine
  <2>2. CASE AllRead \/ CloseWindow \/ Wait
    BY <2>2 DEF AllRead, CloseWindow, Wait
  <2>3. CASE ExpireParts
    BY <2>3 DEF ExpireParts
  <2>4. CASE ReadSlot
    BY <2>4 DEF ReadSlot
  <2>5. CASE ReadNothing
    BY <2>5 DEF ReadNothing
  <2>6. CASE EraseSlot
    BY <2>6 DEF EraseSlot
  <2>7. CASE ListSlots
    BY <2>7 DEF ListSlots
  <2>8. CASE WalkGood
    BY <2>8 DEF WalkGood
  <2>9. CASE EraseWalked
    BY <2>9 DEF EraseWalked
  <2>10. CASE WalkUnread
    BY <2>10 DEF WalkUnread
  <2>11. CASE EndWalk
    BY <2>11 DEF EndWalk
  <2>12. CASE GiveUp
    BY <2>12 DEF GiveUp
  <2>13. CASE RoundOver
    BY <2>13 DEF RoundOver
  <2> QED
    BY <1>3, <2>1, <2>2, <2>3, <2>4, <2>5, <2>6, <2>7, <2>8, <2>9, <2>10, <2>11, <2>12, <2>13 DEF Task
<1>4. CASE AtChange \/ UNCHANGED vars
  BY <1>4 DEF AtChange, vars
<1>5. CASE Restart
  BY <1>5 DEF Restart
<1> QED
  BY <1>1, <1>2, <1>3, <1>4, <1>5 DEF Next

-----------------------------------------------------------------------------
(* The types, variable by variable.                                        *)

LEMMA FlagsTyped ==
  ASSUME TypeOK, [Next]_vars
  PROVE  {waiting, pending}' \subseteq BOOLEAN /\ at' \in {"ok", "poor"}
<1>1. waiting \in BOOLEAN /\ pending \in BOOLEAN /\ at \in {"ok", "poor"}
  BY DEF TypeOK
<1>2. waiting' \in BOOLEAN
  <2>1. waiting' = waiting \/ waiting' = TRUE \/ waiting' = FALSE
    <3>1. UNCHANGED waiting \/ ReadLine \/ CloseWindow \/ Restart
      BY WhoMoves
    <3> QED
      BY <3>1 DEF ReadLine, CloseWindow, Restart
  <2> QED
    BY <1>1, <2>1, Zenon
<1>3. pending' \in BOOLEAN
  <2>1. \/ pending' = pending \/ pending' = TRUE \/ pending' = FALSE
        \/ EndWalk
    <3>1. UNCHANGED pending \/ ReadLine \/ CloseWindow \/ ReadNothing \/ ListSlots \/ EndWalk \/ Restart
      BY WhoMoves
    <3>2. CASE ReadLine
      BY <3>2 DEF ReadLine, EnqueueIndex
    <3>3. CASE ReadNothing
      BY <3>3 DEF ReadNothing
    <3> QED
      BY <3>1, <3>2, <3>3 DEF CloseWindow, ListSlots, Restart
  <2>2. CASE EndWalk
    <3>1. pending' = (pending \/ list # <<>> \/ \E k \in Kinds : unread[k] # {} /\ stall'[k] < StallMax)
      BY <2>2 DEF EndWalk
    <3> QED
      BY <1>1, <3>1, Zenon
  <2> QED
    BY <1>1, <2>1, <2>2, Zenon
<1>4. at' \in {"ok", "poor"}
  <2>1. UNCHANGED at \/ AtChange
    BY WhoMoves
  <2> QED
    BY <1>1, <2>1 DEF AtChange
<1> QED
  BY <1>2, <1>3, <1>4

LEMMA LinesTyped ==
  ASSUME TypeOK, [Next]_vars
  PROVE  urc' \in Seq(Line)
<1>1. urc \in Seq(Line)
  BY DEF TypeOK
<1>2. CASE ReadLine
  BY <1>1, <1>2, TakenFirst DEF ReadLine
<1>3. CASE Restart
  BY <1>3 DEF Restart
<1>4. ASSUME NEW r \in Record, Arrive(r) PROVE urc' \in Seq(Line)
  <2>1. PICK i \in Slots : urc' \in {urc, Append(urc, [kind |-> "+CMTI", slot |-> i])}
    BY <1>4 DEF Arrive
  <2>2. [kind |-> "+CMTI", slot |-> i] \in Line
    BY DEF Line
  <2> QED
    BY <1>1, <2>1, <2>2
<1>5. ASSUME NEW r \in Good, Push(r) PROVE urc' \in Seq(Line)
  <2>1. PICK pdu \in {<<[kind |-> "pdu", record |-> r]>>, <<[kind |-> "other"]>>, <<>>} :
          urc' = urc \o <<[kind |-> "+CMT"]>> \o pdu
    BY <1>5 DEF Push
  <2>2. [kind |-> "pdu", record |-> r] \in Line /\ [kind |-> "other"] \in Line /\ [kind |-> "+CMT"] \in Line
    BY DEF Line
  <2>3. <<>> \in Seq(Line) /\ \A x \in Line : <<x>> \in Seq(Line)
    OBVIOUS
  <2>4. pdu \in Seq(Line) /\ <<[kind |-> "+CMT"]>> \in Seq(Line)
    BY <2>1, <2>2, <2>3
  <2> QED
    BY <1>1, <2>1, <2>4
<1>6. UNCHANGED urc \/ ReadLine \/ Restart \/ (\E r \in Record : Arrive(r)) \/ \E r \in Good : Push(r)
  BY WhoMoves
<1> QED
  BY <1>1, <1>2, <1>3, <1>4, <1>5, <1>6

LEMMA QueueTyped ==
  ASSUME TypeOK, [Next]_vars
  PROVE  indexQ' \in Seq(Slots) /\ Len(indexQ') <= IndexMax /\ IsInjective(indexQ')
<1>1. indexQ \in Seq(Slots) /\ Len(indexQ) <= IndexMax /\ IsInjective(indexQ) /\ IndexMax \in Nat
  BY SizesArePositive DEF TypeOK
<1>2. CASE ReadLine
  <2>1. CASE UNCHANGED indexQ
    BY <1>1, <2>1
  <2>2. CASE ~UNCHANGED indexQ
    <3>1. urc # <<>> /\ Head(urc).kind = "+CMTI" /\ EnqueueIndex(Head(urc).slot)
      BY <1>2, <2>2 DEF ReadLine
    <3>2. Head(urc) \in Line
      BY <3>1, TakenFirst DEF TypeOK
    <3>3. PICK i \in Slots : i = Head(urc).slot
      BY <3>1, <3>2 DEF Line
    <3>4. i \notin ToSet(indexQ) /\ Len(indexQ) < IndexMax /\ indexQ' = Append(indexQ, i)
      BY <2>2, <3>1, <3>3 DEF EnqueueIndex
    <3> QED
      BY <1>1, <3>4, PutLast
  <2> QED
    BY <2>1, <2>2
<1>3. CASE ReadSlot \/ ReadNothing
  <2>1. indexQ # <<>> /\ indexQ' = Tail(indexQ)
    BY <1>3 DEF ReadSlot, ReadNothing
  <2> QED
    BY <1>1, <2>1, TakenFirst
<1>4. CASE Restart
  <2>1. indexQ' = <<>>
    BY <1>4 DEF Restart
  <2> QED
    BY <1>1, <2>1 DEF IsInjective
<1>5. UNCHANGED indexQ \/ ReadLine \/ ReadSlot \/ ReadNothing \/ Restart
  BY WhoMoves
<1> QED
  BY <1>1, <1>2, <1>3, <1>4, <1>5

LEMMA StorageTyped ==
  ASSUME TypeOK, [Next]_vars
  PROVE  sim' \in [Slots -> Record \cup {None}]
<1>1. sim \in [Slots -> Record \cup {None}]
  BY DEF TypeOK
<1>2. ASSUME NEW r \in Record, Arrive(r) PROVE sim' \in [Slots -> Record \cup {None}]
  BY <1>1, <1>2 DEF Arrive
<1>3. CASE EraseSlot \/ EraseWalked
  BY <1>1, <1>3 DEF EraseSlot, EraseWalked, Erase
<1>4. CASE GiveUp
  <2>1. PICK i : Erase(i)
    BY <1>4 DEF GiveUp
  <2> QED
    BY <1>1, <2>1 DEF Erase
<1>5. UNCHANGED sim \/ (\E r \in Record : Arrive(r)) \/ EraseSlot \/ EraseWalked \/ GiveUp
  BY WhoChanges
<1> QED
  BY <1>1, <1>2, <1>3, <1>4, <1>5

\* An entry of the list, and what is left of the list without its first.
LEMMA FirstEntry ==
  ASSUME TypeOK, list # <<>>
  PROVE  Head(list) \in Entry /\ Head(list).slot \in Slots /\ Tail(list) \in Seq(Entry)
<1>1. Head(list) \in Entry /\ Tail(list) \in Seq(Entry)
  BY TakenFirst DEF TypeOK
<1> QED
  BY <1>1 DEF Entry

LEMMA PlaceTyped ==
  ASSUME TypeOK, [Next]_vars
  PROVE  /\ pc' \in {"urc", "work", "erase", "walk", "eraseWalked", "giveUp"}
         /\ slot' \in Slots \cup {None} /\ {read, late}' \subseteq Good \cup {None}
<1>1. /\ pc \in {"urc", "work", "erase", "walk", "eraseWalked", "giveUp"} /\ slot \in Slots \cup {None}
      /\ read \in Good \cup {None} /\ late \in Good \cup {None} /\ indexQ \in Seq(Slots)
  BY DEF TypeOK
<1>2. pc' \in {"urc", "work", "erase", "walk", "eraseWalked", "giveUp"}
  <2>1. \/ UNCHANGED pc
        \/ AllRead \/ Wait \/ ListSlots \/ ReadSlot \/ ReadNothing \/ WalkGood \/ EraseSlot
        \/ EraseWalked \/ EndWalk \/ RoundOver \/ Restart
    BY WhoMoves
  <2>2. CASE ListSlots
    BY <2>2 DEF ListSlots
  <2>3. CASE ReadSlot \/ ReadNothing \/ WalkGood
    BY <2>3 DEF ReadSlot, ReadNothing, WalkGood
  <2> QED
    BY <1>1, <2>1, <2>2, <2>3 DEF AllRead, Wait, EraseSlot, EraseWalked, EndWalk, RoundOver, Restart
<1>3. slot' \in Slots \cup {None} /\ read' \in Good \cup {None}
  <2>1. CASE ReadSlot
    <3>1. indexQ # <<>> /\ slot' = Head(indexQ) /\ read' \in Good
      BY <2>1 DEF ReadSlot
    <3> QED
      BY <1>1, <3>1, TakenFirst
  <2>2. CASE WalkGood
    <3>1. list # <<>> /\ slot' = Head(list).slot /\ read' \in Good
      BY <2>2 DEF WalkGood, Walking
    <3> QED
      BY <3>1, FirstEntry
  <2>3. CASE EraseSlot \/ EraseWalked \/ Restart
    BY <2>3 DEF EraseSlot, EraseWalked, Restart
  <2>4. UNCHANGED <<slot, read>> \/ ReadSlot \/ WalkGood \/ EraseSlot \/ EraseWalked \/ Restart
    BY WhoChanges
  <2> QED
    BY <1>1, <2>1, <2>2, <2>3, <2>4
<1>4. late' \in Good \cup {None}
  <2>1. UNCHANGED late \/ ReadSlot \/ ReadNothing \/ ListSlots \/ Restart
    BY WhoChanges
  <2>2. CASE ReadNothing
    <3>1. late' = None \/ late' \in {sim[Head(indexQ)]} \cap Good
      BY <2>2 DEF ReadNothing
    <3> QED
      BY <3>1
  <2>3. CASE ReadSlot \/ ListSlots \/ Restart
    BY <2>3 DEF ReadSlot, ListSlots, Restart
  <2> QED
    BY <1>1, <2>1, <2>2, <2>3
<1> QED
  BY <1>2, <1>3, <1>4

LEMMA StallTyped ==
  ASSUME TypeOK, RoundInHand, [Next]_vars
  PROVE  stall' \in [Kinds -> 0 .. StallMax]
<1>1. stall \in [Kinds -> 0 .. StallMax] /\ StallMax \in Nat /\ StallMax >= 1
  BY SizesArePositive DEF TypeOK
<1>2. UNCHANGED stall \/ EndWalk \/ RoundOver \/ Restart
  BY WhoMoves
<1>3. CASE EndWalk
  <2>1. \A k \in Kinds : stall[k] # StallMax
    BY <1>3 DEF EndWalk, RoundInHand
  <2>2. \A k \in Kinds : Stall(k) \in 0 .. StallMax
    BY <1>1, <2>1 DEF Stall
  <2>3. stall' = [k \in Kinds |-> Stall(k)]
    BY <1>3 DEF EndWalk
  <2> QED
    BY <2>2, <2>3
<1>4. CASE RoundOver
  <2>1. stall' = [k \in Kinds |-> IF stall[k] = StallMax THEN 0 ELSE stall[k]]
    BY <1>4 DEF RoundOver
  <2> QED
    BY <1>1, <2>1
<1>5. CASE Restart
  BY <1>1, <1>5 DEF Restart
<1> QED
  BY <1>1, <1>2, <1>3, <1>4, <1>5

\* What a CMGL may bring, once its records are listed in some order.
LEMMA AnswerTyped ==
  ASSUME NEW order \in Seq(Slots), NEW n \in Nat, n <= Len(order)
  PROVE  /\ [k \in 1 .. n |-> [slot |-> order[k], came |-> "whole"]] \in Seq(Entry)
         /\ n < Len(order) => Beginning(order[n + 1]) \subseteq Entry
<1>1. \A k \in 1 .. Len(order) : order[k] \in Slots
  OBVIOUS
<1>2. \A k \in 1 .. n : [slot |-> order[k], came |-> "whole"] \in Entry
  BY <1>1 DEF Entry
<1>3. [k \in 1 .. n |-> [slot |-> order[k], came |-> "whole"]] \in Seq(Entry)
  BY <1>2
<1>4. ASSUME n < Len(order) PROVE Beginning(order[n + 1]) \subseteq Entry
  <2>1. order[n + 1] \in Slots
    BY <1>1, <1>4
  <2>2. \A j \in NamedBy(order[n + 1]) : j \in Slots
    BY DEF NamedBy
  <2>3. ASSUME NEW e \in Beginning(order[n + 1]) PROVE e \in Entry
    <3>1. \/ e = [slot |-> order[n + 1], came |-> "cut"]
          \/ \E j \in NamedBy(order[n + 1]) : e = [slot |-> j, came |-> "bare"]
      BY <2>3 DEF Beginning
    <3> QED
      BY <2>1, <2>2, <3>1 DEF Entry
  <2> QED
    BY <2>3
<1> QED
  BY <1>3, <1>4

LEMMA RoundTyped ==
  ASSUME TypeOK, RoundInHand, [Next]_vars
  PROVE  list' \in Seq(Entry) /\ handled' \in 0 .. BatchMax /\ unread' \in [Kinds -> SUBSET Slots]
<1>1. /\ list \in Seq(Entry) /\ BatchMax \in Nat /\ BatchMax >= 1 /\ ListMax \in Nat
      /\ handled \in 0 .. BatchMax /\ unread \in [Kinds -> SUBSET Slots]
  BY SizesArePositive DEF TypeOK
<1>2. list' \in Seq(Entry)
  <2>1. CASE ListSlots
    <3>1. CASE UNCHANGED list
      BY <1>1, <3>1
    <3>2. CASE ~UNCHANGED list
      <4>1. PICK order \in SetToSeqs(Stored), n \in 0 .. ListMax :
              /\ n <= Len(order)
              /\ LET whole == [k \in 1 .. n |-> [slot |-> order[k], came |-> "whole"]]
                 IN  \/ list' = whole
                     \/ n < Len(order) /\ \E e \in Beginning(order[n + 1]) : list' = Append(whole, e)
        BY <2>1, <3>2 DEF ListSlots
      <4>2. Stored \subseteq Slots /\ IsFiniteSet(Stored)
        BY SlotsAreIndices, FS_Subset DEF Stored
      <4>3. order \in Seq(Slots) /\ n \in Nat
        BY <1>1, <4>2, Listed
      <4>4. PICK whole : whole = [k \in 1 .. n |-> [slot |-> order[k], came |-> "whole"]]
        OBVIOUS
      <4>5. whole \in Seq(Entry) /\ (n < Len(order) => Beginning(order[n + 1]) \subseteq Entry)
        BY <4>1, <4>3, <4>4, AnswerTyped
      <4>6. \/ list' = whole
            \/ n < Len(order) /\ \E e \in Beginning(order[n + 1]) : list' = Append(whole, e)
        BY <4>1, <4>4
      <4> QED
        BY <4>5, <4>6
    <3> QED
      BY <3>1, <3>2
  <2>2. CASE WalkGood \/ WalkUnread
    <3>1. list # <<>> /\ list' = Tail(list)
      BY <2>2 DEF WalkGood, WalkUnread, Walking
    <3> QED
      BY <3>1, FirstEntry
  <2>3. CASE EndWalk \/ Restart
    <3>1. list' = <<>>
      BY <2>3 DEF EndWalk, Restart
    <3> QED
      BY <3>1
  <2>4. UNCHANGED list \/ ListSlots \/ WalkGood \/ WalkUnread \/ EndWalk \/ Restart
    BY WhoChanges
  <2> QED
    BY <1>1, <2>1, <2>2, <2>3, <2>4
<1>3. handled' \in 0 .. BatchMax
  <2>1. CASE EraseWalked
    BY <1>1, <2>1 DEF EraseWalked, RoundInHand
  <2>2. CASE RoundOver \/ Restart
    BY <1>1, <2>2 DEF RoundOver, Restart
  <2>3. UNCHANGED handled \/ EraseWalked \/ RoundOver \/ Restart
    BY WhoChanges
  <2> QED
    BY <1>1, <2>1, <2>2, <2>3
<1>4. unread' \in [Kinds -> SUBSET Slots]
  <2>1. CASE WalkUnread
    <3>1. PICK k : k = Kind(Head(list))
      OBVIOUS
    <3>2. list # <<>> /\ (unread' = unread \/ unread' = [unread EXCEPT ![k] = @ \cup {Head(list).slot}])
      BY <2>1, <3>1 DEF WalkUnread, Walking
    <3>3. Head(list).slot \in Slots
      BY <3>2, FirstEntry
    <3> QED
      BY <1>1, <3>2, <3>3
  <2>2. CASE GiveUp
    <3>1. PICK k \in Kinds : \E i \in Doomed(k) : unread' = [unread EXCEPT ![k] = @ \ {i}]
      BY <2>2 DEF GiveUp
    <3>2. PICK i \in Doomed(k) : unread' = [unread EXCEPT ![k] = @ \ {i}]
      BY <3>1
    <3> QED
      BY <1>1, <3>2
  <2>3. CASE RoundOver \/ Restart
    BY <2>3 DEF RoundOver, Restart
  <2>4. UNCHANGED unread \/ WalkUnread \/ GiveUp \/ RoundOver \/ Restart
    BY WhoChanges
  <2> QED
    BY <1>1, <2>1, <2>2, <2>3, <2>4
<1> QED
  BY <1>2, <1>3, <1>4

-----------------------------------------------------------------------------
(* What a step does to the parts that wait and to the inbox.               *)

LEMMA StepKept ==
  ASSUME TypeOK, SlotInHand, RoundInHand, SeenStored, [Next]_vars
  PROVE  Kept /\ \A q \in held : q \in held' \/ InInbox(q)' \/ Restart
<1>1. CASE UNCHANGED <<held, seen, inbox>>
  BY <1>1 DEF Kept, TypeOK, SeenStored, ToSet
<1>2. CASE Restart
  <2>1. held' = {} /\ seen' = <<>> /\ inbox' = inbox
    BY <1>2 DEF Restart
  <2>2. seen' \in Seq(Text) /\ Len(seen') = 0 /\ ToSet(seen') = {}
    BY <2>1 DEF ToSet
  <2>3. RingMax \in Nat /\ inbox \in [Text -> Nat]
    BY SizesArePositive DEF TypeOK
  <2> QED
    BY <1>2, <2>1, <2>2, <2>3 DEF Kept
<1>3. CASE ReadLine
  <2>1. CASE UNCHANGED <<held, seen, inbox>>
    BY <1>1, <2>1
  <2>2. CASE ~UNCHANGED <<held, seen, inbox>>
    <3>1. urc # <<>> /\ Head(urc).kind = "pdu" /\ Decoded(Head(urc).record)
      BY <1>3, <2>2 DEF ReadLine
    <3>2. Head(urc) \in Line
      BY <3>1, TakenFirst DEF TypeOK
    <3>3. PICK r \in Good : r = Head(urc).record
      BY <3>1, <3>2 DEF Line
    <3>4. Decoded(r)
      BY <3>1, <3>3
    <3> QED
      BY <3>4, Decoding
  <2> QED
    BY <2>1, <2>2
<1>4. CASE ReadSlot
  <2>1. PICK r \in Good : Decoded(r)
    BY <1>4 DEF ReadSlot
  <2> QED
    BY <2>1, Decoding
<1>5. CASE WalkGood
  <2>1. PICK r : r = sim[Head(list).slot]
    OBVIOUS
  <2>2. r \in Good /\ Decoded(r)
    BY <1>5, <2>1 DEF WalkGood
  <2> QED
    BY <2>2, Decoding
<1>6. CASE ExpireParts
  BY <1>6, Expiring
<1>7. UNCHANGED <<held, seen, inbox>> \/ ReadLine \/ ExpireParts \/ ReadSlot \/ WalkGood \/ Restart
  BY WhoChanges
<1> QED
  BY <1>1, <1>2, <1>3, <1>4, <1>5, <1>6, <1>7

\* What is in the inbox stays there.
LEMMA InboxStays ==
  ASSUME TypeOK, Kept, NEW r, InInbox(r)
  PROVE  InInbox(r)'
<1>1. PICK t \in Text : inbox[t] > 0 /\ t.msg = r.msg /\ r.part \in t.parts
  BY DEF InInbox
<1>2. inbox[t] \in Nat /\ inbox'[t] \in Nat /\ inbox'[t] >= inbox[t]
  BY DEF TypeOK, Kept
<1> QED
  BY <1>1, <1>2 DEF InInbox

-----------------------------------------------------------------------------
(* The slot in hand, and the round.                                        *)

LEMMA HandStep ==
  ASSUME TypeOK, SlotInHand, RoundInHand, SeenStored, [Next]_vars
  PROVE  SlotInHand'
<1>1. Kept /\ \A q \in held : q \in held' \/ InInbox(q)' \/ Restart
  BY StepKept
<1>2. CASE ReadSlot \/ WalkGood
  <2>1. PICK r \in Good : Decoded(r) /\ read' = r
    BY <1>2 DEF ReadSlot, WalkGood
  <2>2. slot' \in Slots /\ pc' \in {"erase", "eraseWalked"}
    <3>1. CASE ReadSlot
      BY <3>1, TakenFirst DEF ReadSlot, TypeOK
    <3>2. CASE WalkGood
      BY <3>2, FirstEntry DEF WalkGood, Walking
    <3> QED
      BY <1>2, <3>1, <3>2
  <2>3. slot' # None
    BY <2>2, NoneApart
  <2>4. r \in held' \/ InInbox(r)'
    BY <2>1, Decoding
  <2>5. InInbox(read)' <=> InInbox(r)'
    BY <2>1 DEF InInbox
  <2> QED
    BY <2>1, <2>2, <2>3, <2>4, <2>5 DEF SlotInHand
<1>3. CASE EraseSlot \/ EraseWalked \/ Restart
  BY <1>3 DEF EraseSlot, EraseWalked, Restart, SlotInHand
<1>4. CASE UNCHANGED <<slot, read>> /\ ~(ReadSlot \/ WalkGood \/ EraseSlot \/ EraseWalked \/ Restart)
  <2>1. pc' \in {"erase", "eraseWalked"} <=> pc \in {"erase", "eraseWalked"}
    <3>1. \/ UNCHANGED pc
          \/ AllRead \/ Wait \/ ListSlots \/ ReadNothing \/ EndWalk \/ RoundOver
      BY <1>4, WhoMoves
    <3>2. CASE ListSlots \/ ReadNothing
      BY <3>2 DEF ListSlots, ReadNothing
    <3> QED
      BY <3>1, <3>2 DEF AllRead, Wait, EndWalk, RoundOver
  <2>2. PICK r : r = read
    OBVIOUS
  <2>3. slot # None => r \in Good /\ (r \in held \/ InInbox(r))
    BY <2>2 DEF SlotInHand
  <2>4. slot # None => r \in held' \/ InInbox(r)'
    BY <1>1, <1>4, <2>3, InboxStays
  <2>5. read' = r /\ (InInbox(read)' <=> InInbox(r)')
    BY <1>4, <2>2 DEF InInbox
  <2> QED
    BY <1>4, <2>1, <2>3, <2>4, <2>5 DEF SlotInHand
<1> QED
  BY <1>2, <1>3, <1>4, WhoChanges

\* What is stored stays where it is until it is erased.
LEMMA SlotsKept ==
  ASSUME TypeOK, [Next]_vars, NEW i \in Slots, sim[i] # None, sim'[i] # sim[i]
  PROVE  \/ (EraseSlot \/ EraseWalked) /\ slot = i
         \/ GiveUp /\ \E k \in Kinds : i \in Doomed(k)
<1>1. sim \in [Slots -> Record \cup {None}]
  BY DEF TypeOK
<1>2. ASSUME NEW q \in Record, Arrive(q) PROVE FALSE
  BY <1>1, <1>2 DEF Arrive
<1>3. CASE EraseSlot \/ EraseWalked
  <2>1. Erase(slot)
    BY <1>3 DEF EraseSlot, EraseWalked
  <2> QED
    BY <1>1, <1>3, <2>1 DEF Erase
<1>4. CASE GiveUp
  <2>1. PICK k \in Kinds : \E j \in Doomed(k) : Erase(j)
    BY <1>4 DEF GiveUp
  <2>3. PICK j \in Doomed(k) : Erase(j)
    BY <2>1
  <2>2. j = i
    BY <1>1, <2>3 DEF Erase
  <2> QED
    BY <1>4, <2>2, <2>3
<1> QED
  BY <1>2, <1>3, <1>4, WhoChanges

LEMMA RoundStep ==
  ASSUME TypeOK, SlotInHand, RoundInHand, [Next]_vars
  PROVE  RoundInHand'
<1>1. /\ StallMax \in Nat /\ StallMax >= 1 /\ stall \in [Kinds -> 0 .. StallMax]
      /\ sim \in [Slots -> Record \cup {None}] /\ slot \in Slots \cup {None}
  BY SizesArePositive DEF TypeOK
<1>2. pc' = "eraseWalked" => sim'[slot'] = read' /\ handled' < BatchMax
  <2>1. CASE WalkGood
    BY <2>1 DEF WalkGood, Walking
  <2>2. CASE UNCHANGED pc /\ pc = "eraseWalked" /\ ~Restart /\ ~EraseWalked
    <3>1. ~EraseSlot /\ ~WalkGood /\ ~ReadSlot /\ ~GiveUp /\ ~RoundOver
      BY <2>2 DEF EraseSlot, WalkGood, Walking, ReadSlot, GiveUp, RoundOver
    <3>2. UNCHANGED <<slot, read, handled>>
      BY <2>2, <3>1, WhoChanges
    <3>3. slot \in Slots /\ read \in Good /\ sim[slot] = read /\ handled < BatchMax
      BY <1>1, <2>2 DEF SlotInHand, RoundInHand
    <3>4. sim[slot] # None
      BY <3>3, RecordFields
    <3>5. sim'[slot] = sim[slot]
      BY <2>2, <3>1, <3>3, <3>4, SlotsKept
    <3> QED
      BY <3>2, <3>3, <3>5
  <2>3. CASE Restart \/ EraseWalked
    BY <2>3 DEF Restart, EraseWalked
  <2>4. CASE AllRead \/ Wait \/ ListSlots \/ ReadSlot \/ ReadNothing \/ EraseSlot \/ EndWalk \/ RoundOver
    <3>1. CASE ListSlots \/ ReadSlot \/ ReadNothing
      BY <3>1 DEF ListSlots, ReadSlot, ReadNothing
    <3> QED
      BY <2>4, <3>1 DEF AllRead, Wait, EraseSlot, EndWalk, RoundOver
  <2> QED
    BY <2>1, <2>2, <2>3, <2>4, WhoMoves
<1>3. ASSUME NEW k \in Kinds, stall'[k] = StallMax PROVE pc' = "giveUp" /\ handled' = 0
  <2>1. CASE EndWalk
    <3>1. stall'[k] = Stall(k) /\ pc' = "giveUp" /\ handled' = handled
      BY <2>1 DEF EndWalk
    <3> QED
      BY <1>1, <1>3, <3>1 DEF Stall, TypeOK
  <2>2. CASE RoundOver
    <3>1. stall'[k] = IF stall[k] = StallMax THEN 0 ELSE stall[k]
      BY <2>2 DEF RoundOver
    <3> QED
      BY <1>1, <1>3, <3>1
  <2>3. CASE Restart
    <3>1. stall'[k] = 0
      BY <2>3 DEF Restart
    <3> QED
      BY <1>1, <1>3, <3>1
  <2>4. CASE UNCHANGED stall /\ ~(RoundOver \/ Restart)
    <3>1. pc = "giveUp" /\ handled = 0
      BY <1>3, <2>4 DEF RoundInHand
    <3>2. ~(AllRead \/ Wait \/ ListSlots \/ ReadSlot \/ ReadNothing \/ WalkGood \/ EraseSlot
            \/ EraseWalked \/ EndWalk)
      BY <3>1 DEF AllRead, Wait, ListSlots, ReadSlot, ReadNothing, WalkGood, Walking, EraseSlot,
                  EraseWalked, EndWalk
    <3> QED
      BY <2>4, <3>1, <3>2, WhoMoves, WhoChanges
  <2> QED
    BY <2>1, <2>2, <2>3, <2>4, WhoMoves
<1> QED
  BY <1>2, <1>3 DEF RoundInHand

LEMMA NoList == ToSet(<<>>) = {} /\ IsInjective(<<>>)
BY DEF ToSet, IsInjective

-----------------------------------------------------------------------------
(* The invariant, and what it gives.                                       *)

LEMMA InitIntake == Init => IntakeInv
<1> SUFFICES ASSUME Init PROVE IntakeInv
  OBVIOUS
<1> USE DEF Init
<1>1. /\ IndexMax \in Nat \ {0} /\ RingMax \in Nat \ {0} /\ BatchMax \in Nat \ {0} /\ StallMax \in Nat \ {0}
  BY SizesArePositive
<1>2. waiting \in BOOLEAN /\ pending \in BOOLEAN
  BY Zenon
<1>3. /\ handled \in 0 .. BatchMax /\ unread \in [Kinds -> SUBSET Slots]
      /\ stall \in [Kinds -> 0 .. StallMax] /\ \A k \in Kinds : stall[k] # StallMax
  BY <1>1
<1>4. /\ indexQ \in Seq(Slots) /\ Len(indexQ) = 0 /\ seen \in Seq(Text) /\ Len(seen) = 0
      /\ list \in Seq(Entry) /\ urc \in Seq(Line) /\ IsInjective(indexQ)
  BY NoList
<1>5. TypeOK
  BY <1>1, <1>2, <1>3, <1>4 DEF TypeOK
<1>6. SlotInHand /\ RoundInHand /\ SeenStored
  BY <1>3, NoList DEF SlotInHand, RoundInHand, SeenStored
<1> QED
  BY <1>5, <1>6 DEF IntakeInv

LEMMA IntakeStep == IntakeInv /\ [Next]_vars => IntakeInv'
<1> SUFFICES ASSUME TypeOK, SlotInHand, RoundInHand, SeenStored, [Next]_vars PROVE IntakeInv'
  BY DEF IntakeInv
<1>1. SlotInHand' /\ RoundInHand'
  BY HandStep, RoundStep
<1>2. Kept
  BY StepKept
<1>3. SeenStored'
  BY <1>2 DEF Kept, SeenStored
<1>4. sim' \in [Slots -> Record \cup {None}] /\ urc' \in Seq(Line)
  BY StorageTyped, LinesTyped
<1>5. {waiting, pending}' \subseteq BOOLEAN /\ at' \in {"ok", "poor"}
  BY FlagsTyped
<1>6. indexQ' \in Seq(Slots) /\ Len(indexQ') <= IndexMax /\ IsInjective(indexQ')
  BY QueueTyped
<1>7. /\ pc' \in {"urc", "work", "erase", "walk", "eraseWalked", "giveUp"}
      /\ slot' \in Slots \cup {None} /\ {read, late}' \subseteq Good \cup {None}
  BY PlaceTyped
<1>8. list' \in Seq(Entry) /\ handled' \in 0 .. BatchMax /\ unread' \in [Kinds -> SUBSET Slots]
  BY RoundTyped
<1>9. stall' \in [Kinds -> 0 .. StallMax]
  BY StallTyped
<1>10. TypeOK'
  BY <1>2, <1>4, <1>5, <1>6, <1>7, <1>8, <1>9 DEF TypeOK, Kept
<1> QED
  BY <1>1, <1>3, <1>10 DEF IntakeInv

LEMMA IntakeInvariant == Spec => []IntakeInv
<1> QED
  BY InitIntake, IntakeStep, PTL DEF Spec

-----------------------------------------------------------------------------
\* With AT commands failing, cut or late at any point and a restart between any two
\* steps, a message that decodes is in the modem, in the assembler or in the inbox from
\* the time the modem has stored it; a restart may only take what waits in the assembler,
\* and what is erased unread was mistaken for another, after a read that was timed out, or
\* given up by a round that handled nothing and could not read its slot
\* (fetch_stored_sms_by_index, backfill_stored_sms: hand on, then erase).
THEOREM NothingIsLost == Spec => NothingVanishes
<1>1. IntakeInv /\ [Next]_vars
        => [\A r \in Good : Somewhere(r) => \/ Somewhere(r)'
                                           \/ (r \in held /\ Restart)
                                           \/ Mistaken(r) \/ GivenUp(r)]_vars
  <2> SUFFICES ASSUME TypeOK, SlotInHand, RoundInHand, SeenStored, [Next]_vars,
                      NEW r \in Good, Somewhere(r), ~(r \in held /\ Restart), ~Mistaken(r), ~GivenUp(r)
               PROVE  Somewhere(r)'
    BY DEF IntakeInv
  <2>1. Kept /\ \A q \in held : q \in held' \/ InInbox(q)' \/ Restart
    BY StepKept
  <2>2. CASE InInbox(r)
    BY <2>1, <2>2, InboxStays DEF Somewhere
  <2>3. CASE r \in held
    BY <2>1, <2>3 DEF Somewhere
  <2>4. CASE \E i \in Slots : sim[i] = r
    <3>1. PICK i \in Slots : sim[i] = r
      BY <2>4
    <3>2. r # None
      BY RecordFields
    <3>3. CASE sim'[i] = r
      BY <3>3 DEF Somewhere
    <3>4. CASE sim'[i] # r
      <4>1. \/ (EraseSlot \/ EraseWalked) /\ slot = i
            \/ GiveUp /\ \E k \in Kinds : i \in Doomed(k)
        BY <3>1, <3>2, <3>4, SlotsKept
      <4>2. ~(GiveUp /\ \E k \in Kinds : i \in Doomed(k))
        <5>1. ASSUME GiveUp, NEW k \in Kinds, i \in Doomed(k) PROVE FALSE
          <6>1. pc = "giveUp" /\ stall[k] = StallMax /\ i \in unread[k]
            BY <5>1 DEF GiveUp, Doomed
          <6>2. handled = 0
            BY <6>1 DEF RoundInHand
          <6> QED
            BY <3>1, <6>1, <6>2 DEF GivenUp
        <5> QED
          BY <5>1
      <4>3. slot # None /\ read = r
        <5>1. CASE EraseSlot
          BY <3>1, <4>1, <4>2, <5>1, NoneApart DEF EraseSlot, Mistaken
        <5>2. CASE EraseWalked
          BY <3>1, <4>1, <4>2, <5>2, NoneApart DEF EraseWalked, RoundInHand
        <5> QED
          BY <4>1, <4>2, <5>1, <5>2
      <4>4. r \in held \/ InInbox(r)
        BY <4>3 DEF SlotInHand
      <4> QED
        BY <2>2, <2>3, <4>4
    <3> QED
      BY <3>3, <3>4
  <2> QED
    BY <2>2, <2>3, <2>4 DEF Somewhere
<1> QED
  BY <1>1, IntakeInvariant, PTL DEF Spec, NothingVanishes

-----------------------------------------------------------------------------
(* The ring of recent texts.                                               *)

\* A ring with room for every text has room for one it does not hold.
LEMMA RoomInRing ==
  ASSUME RingHoldsAll, TypeOK, Remembered, NEW t \in Text, ~Seen(t)
  PROVE  Len(seen) < RingMax
<1>1. seen \in Seq(Text) /\ IsInjective(seen) /\ t \notin ToSet(seen)
  BY DEF TypeOK, Remembered, Seen
<1>2. PICK s : s = Append(seen, t)
  OBVIOUS
<1>3. s \in Seq(Text) /\ Len(s) = Len(seen) + 1 /\ IsInjective(s) /\ Len(seen) \in Nat
  BY <1>1, <1>2, PutLast
<1>4. s \in Injection(1 .. Len(s), Text)
  BY <1>3 DEF Injection
<1>5. Cardinality(1 .. Len(s)) <= Cardinality(Text)
  BY <1>4, FS_Injection DEF RingHoldsAll
<1>6. Cardinality(1 .. Len(s)) = Len(s)
  BY <1>3, FS_Interval
<1>7. Cardinality(Text) \in Nat /\ Cardinality(Text) <= RingMax /\ RingMax \in Nat
  BY FS_CardinalityType, SizesArePositive DEF RingHoldsAll
<1> QED
  BY <1>3, <1>5, <1>6, <1>7

LEMMA ProcessRemembers ==
  ASSUME RingHoldsAll, TypeOK, Remembered, NEW t \in Text, Process(t), UNCHANGED restarts
  PROVE  Remembered'
<1>1. seen \in Seq(Text) /\ inbox \in [Text -> Nat] /\ restarts \in Nat /\ IsInjective(seen)
  BY DEF TypeOK, Remembered
<1>2. CASE Seen(t)
  <2>1. seen' = seen /\ inbox' = inbox /\ restarts' = restarts
    BY <1>2 DEF Process
  <2> QED
    BY <2>1 DEF Remembered
<1>3. CASE ~Seen(t)
  <2>1. seen' = Append(seen, t)
    BY <1>3, RoomInRing DEF Process, Remember
  <2>2. IsInjective(seen') /\ ToSet(seen') = ToSet(seen) \cup {t}
    BY <1>1, <1>3, <2>1, PutLast DEF Seen
  <2>3. inbox' = [inbox EXCEPT ![t] = @ + 1]
    BY <1>3 DEF Process
  <2>4. ASSUME NEW u \in Text PROVE inbox'[u] <= restarts' + (IF u \in ToSet(seen') THEN 1 ELSE 0)
    <3>1. inbox[u] <= restarts + (IF u \in ToSet(seen) THEN 1 ELSE 0) /\ inbox[u] \in Nat
      BY <1>1 DEF Remembered
    <3>2. CASE u = t
      <4>1. inbox[t] <= restarts
        BY <1>1, <1>3, <3>1, <3>2 DEF Seen
      <4>2. inbox'[t] = inbox[t] + 1
        BY <1>1, <2>3
      <4> QED
        BY <1>1, <2>2, <3>1, <3>2, <4>1, <4>2
    <3>3. CASE u # t
      <4>1. inbox'[u] = inbox[u] /\ (u \in ToSet(seen') <=> u \in ToSet(seen))
        BY <1>1, <2>2, <2>3, <3>3
      <4> QED
        BY <3>1, <4>1
    <3> QED
      BY <3>2, <3>3
  <2> QED
    BY <1>1, <2>2, <2>4 DEF Remembered
<1> QED
  BY <1>2, <1>3

LEMMA DecodingRemembers ==
  ASSUME RingHoldsAll, TypeOK, Remembered, NEW r \in Good, Decoded(r), UNCHANGED restarts
  PROVE  Remembered'
<1>1. CASE UNCHANGED <<seen, inbox>>
  BY <1>1 DEF Remembered
<1>2. CASE ~UNCHANGED <<seen, inbox>>
  <2>1. PICK t : t = [msg |-> r.msg, parts |-> 1 .. PartsOf[r.msg]]
    OBVIOUS
  <2>2. r.msg \in Msgs \ Bad /\ r.part \in 1 .. PartsOf[r.msg]
    BY RecordFields
  <2>3. t \in Text
    BY <2>1, <2>2, TextOf
  <2>4. Process(t)
    BY <1>2, <2>1 DEF Decoded
  <2> QED
    BY <2>3, <2>4, ProcessRemembers
<1> QED
  BY <1>1, <1>2

LEMMA ExpiringRemembers ==
  ASSUME RingHoldsAll, TypeOK, Remembered, ExpireParts
  PROVE  Remembered'
<1>1. PICK m \in Msgs : Partners(m) # {} /\ Process([msg |-> m, parts |-> Partners(m)])
  BY DEF ExpireParts
<1>2. held \subseteq Good /\ restarts' = restarts
  BY DEF TypeOK, ExpireParts
<1>3. m \in Msgs \ Bad
  BY <1>1, <1>2 DEF Partners, Good
<1>4. PICK t : t = [msg |-> m, parts |-> Partners(m)]
  OBVIOUS
<1>5. t \in Text
  BY <1>1, <1>2, <1>3, <1>4, TextOf, PartnersOf
<1> QED
  BY <1>1, <1>2, <1>4, <1>5, ProcessRemembers

LEMMA RememberedStep ==
  ASSUME RingHoldsAll, TypeOK, Remembered, [Next]_vars
  PROVE  Remembered'
<1>1. CASE UNCHANGED <<held, seen, inbox>> /\ ~Restart
  <2>1. UNCHANGED restarts
    BY <1>1, WhoChanges
  <2> QED
    BY <1>1, <2>1 DEF Remembered
<1>2. CASE Restart
  <2>1. seen' = <<>> /\ inbox' = inbox /\ restarts' = restarts + 1
    BY <1>2 DEF Restart
  <2>2. inbox \in [Text -> Nat] /\ restarts \in Nat
    BY DEF TypeOK, Remembered
  <2>3. ASSUME NEW t \in Text PROVE inbox'[t] <= restarts' + (IF t \in ToSet(seen') THEN 1 ELSE 0)
    BY <2>1, <2>2, <2>3, NoList DEF Remembered
  <2> QED
    BY <2>1, <2>2, <2>3, NoList DEF Remembered
<1>3. CASE ReadLine
  <2>1. restarts' = restarts
    BY <1>3 DEF ReadLine
  <2>2. CASE UNCHANGED <<held, seen, inbox>>
    BY <2>1, <2>2 DEF Remembered
  <2>3. CASE ~UNCHANGED <<held, seen, inbox>>
    <3>1. urc # <<>> /\ Head(urc).kind = "pdu" /\ Decoded(Head(urc).record)
      BY <1>3, <2>3 DEF ReadLine
    <3>2. Head(urc) \in Line
      BY <3>1, TakenFirst DEF TypeOK
    <3>3. PICK r \in Good : r = Head(urc).record
      BY <3>1, <3>2 DEF Line
    <3>4. Decoded(r)
      BY <3>1, <3>3
    <3> QED
      BY <2>1, <3>4, DecodingRemembers
  <2> QED
    BY <2>2, <2>3
<1>4. CASE ReadSlot
  <2>1. restarts' = restarts
    BY <1>4 DEF ReadSlot
  <2>2. PICK r \in Good : Decoded(r)
    BY <1>4 DEF ReadSlot
  <2> QED
    BY <2>1, <2>2, DecodingRemembers
<1>5. CASE WalkGood
  <2>1. PICK r : r = sim[Head(list).slot]
    OBVIOUS
  <2>2. r \in Good /\ Decoded(r) /\ restarts' = restarts
    BY <1>5, <2>1 DEF WalkGood
  <2> QED
    BY <2>2, DecodingRemembers
<1>6. CASE ExpireParts
  BY <1>6, ExpiringRemembers
<1>7. UNCHANGED <<held, seen, inbox>> \/ ReadLine \/ ExpireParts \/ ReadSlot \/ WalkGood \/ Restart
  BY WhoChanges
<1> QED
  BY <1>1, <1>2, <1>3, <1>4, <1>5, <1>6, <1>7

-----------------------------------------------------------------------------
\* Every variable stays in its range, and, while the ring has room for every text, a
\* message of one part is stored and forwarded once since the last restart, however
\* often it is announced, read or sent (seen_recently, process_sms_content).
THEOREM MessagesStoredOnce == RingHoldsAll => (Spec => []StoreSound)
<1> SUFFICES ASSUME RingHoldsAll PROVE Spec => []StoreSound
  OBVIOUS
<1>1. Init => Remembered
  BY NoList DEF Init, Remembered
<1>2. IntakeInv /\ Remembered /\ [Next]_vars => Remembered'
  BY RememberedStep DEF IntakeInv
<1>3. IntakeInv /\ Remembered => StoreSound
  <2> SUFFICES ASSUME TypeOK, Remembered PROVE StoredOnce
    BY DEF IntakeInv, StoreSound
  <2> SUFFICES ASSUME NEW t \in Text PROVE inbox[t] <= 1 + restarts
    BY DEF StoredOnce
  <2>1. inbox[t] \in Nat /\ restarts \in Nat /\ inbox[t] <= restarts + (IF t \in ToSet(seen) THEN 1 ELSE 0)
    BY DEF TypeOK, Remembered
  <2> QED
    BY <2>1
<1> QED
  BY <1>1, <1>2, <1>3, IntakeInvariant, PTL DEF Spec

\* Whatever the ring has room for, the queues, rings, lists and counters of the task
\* stay in their ranges, and the record it is about to erase is kept elsewhere.
THEOREM RecordKeptBeforeErased == Spec => [](TypeOK /\ SlotInHand)
<1>1. IntakeInv => TypeOK /\ SlotInHand
  BY DEF IntakeInv
<1> QED
  BY <1>1, IntakeInvariant, PTL
=============================================================================
