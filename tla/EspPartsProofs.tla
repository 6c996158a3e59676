--------------------------- MODULE EspPartsProofs ---------------------------
(***************************************************************************)
(* Proofs about the small components of the ESP-IDF port (EspParts): the   *)
(* invariants and action properties the run of EspParts checks hold for    *)
(* every ring, partition, card, form and message.  A component at a time:  *)
(* the constants' types, an inductive invariant (named ...Inv in the       *)
(* component's module), one lemma per action, then what follows from it.   *)
(***************************************************************************)
EXTENDS EspParts, FiniteSetTheorems, FunctionTheorems, SequenceTheorems, TLAPS

-----------------------------------------------------------------------------
\* A step is one of the component that runs, and leaves the variables of the others alone.
LEMMA OneRuns ==
  ASSUME [Next]_vars
  PROVE  /\ runs' = runs
         /\ (runs = "Inbox" /\ Inbox!Next) \/ UNCHANGED inboxVars
         /\ (runs = "Calls" /\ Calls!Next) \/ UNCHANGED callsVars
         /\ (runs = "Ota" /\ Ota!Next) \/ UNCHANGED otaVars
         /\ (runs = "Log" /\ Log!Next) \/ UNCHANGED logVars
         /\ (runs = "Config" /\ Config!Next) \/ UNCHANGED configVars
         /\ (runs = "Esim" /\ Esim!Next) \/ UNCHANGED esimVars
         /\ (runs = "Concat" /\ Concat!Next) \/ UNCHANGED concatVars
<1>1. CASE UNCHANGED vars
  BY <1>1 DEF vars
<1>2. CASE InboxAlone /\ Inbox!Next
  BY <1>2 DEF InboxAlone
<1>3. CASE CallsAlone /\ Calls!Next
  BY <1>3 DEF CallsAlone
<1>4. CASE OtaAlone /\ Ota!Next
  BY <1>4 DEF OtaAlone
<1>5. CASE LogAlone /\ Log!Next
  BY <1>5 DEF LogAlone
<1>6. CASE ConfigAlone /\ Config!Next
  BY <1>6 DEF ConfigAlone
<1>7. CASE EsimAlone /\ Esim!Next
  BY <1>7 DEF EsimAlone
<1>8. CASE ConcatAlone /\ Concat!Next
  BY <1>8 DEF ConcatAlone
<1>9. QED
  BY <1>1, <1>2, <1>3, <1>4, <1>5, <1>6, <1>7, <1>8 DEF Next

-----------------------------------------------------------------------------
(* The firmware upload.                                                    *)

\* The sizes of a request are numbers.
LEMMA OtaNumbers ==
  ASSUME form \in Ota!Requests
  PROVE  /\ form.header \in Nat /\ form.firmware \in Nat /\ form.tail \in Nat
         /\ Marker \in Nat \ {0} /\ Slack \in Nat \ {0} /\ Piece \in Nat \ {0}
         /\ PartSize \in Nat \ {0} /\ MaxPauses \in Nat \ {0} /\ HeaderMax \in Nat \ {0}
BY OtaAssumption DEF Ota!OtaAssumption, Ota!Requests

LEMMA OtaInit == Init => Ota!UploadInv
<1> SUFFICES ASSUME Init PROVE Ota!UploadInv
  OBVIOUS
<1>1. form \in Ota!Requests
  BY DEF Init, Ota!Init
<1>2. {inFile, otaBroken} \subseteq BOOLEAN
  BY Zenon DEF Init, Ota!Init
<1>3. QED
  BY <1>1, <1>2, OtaNumbers
  DEF Init, Ota!Init, Ota!UploadInv, Ota!TypeOK, Ota!StaysInside, Ota!BootsWhatWasSent,
      Ota!Length, Ota!EndOfFile

\* Every step of an upload keeps what was sent apart from what was written: the
\* file's bytes on the partition are those of the request up to a known place.
LEMMA OtaStep ==
  ASSUME Ota!UploadInv, Ota!Next \/ UNCHANGED otaVars
  PROVE  Ota!UploadInv'
<1>0. form \in Ota!Requests
  BY DEF Ota!UploadInv
<1> USE OtaNumbers, <1>0
    DEF Ota!UploadInv, Ota!TypeOK, Ota!StaysInside, Ota!BootsWhatWasSent, Ota!Verified,
        Ota!Length, Ota!EndOfFile, Ota!KeepTail
<1>1. CASE Ota!Receive
  BY <1>1 DEF Ota!Receive
<1>2. CASE Ota!Pause
  BY <1>2 DEF Ota!Pause
<1>3. CASE Ota!Break
  BY <1>3 DEF Ota!Break
<1>4. CASE Ota!SkipHeader
  <2>1. {inFile', otaBroken'} \subseteq BOOLEAN
    BY <1>4, Zenon DEF Ota!SkipHeader
  <2>2. CASE inFile
    BY <1>4, <2>2 DEF Ota!SkipHeader
  <2>3. CASE ~inFile /\ form.header > 0 /\ hi >= form.header
    BY <1>4, <2>1, <2>3 DEF Ota!SkipHeader
  <2>4. CASE ~inFile /\ ~(form.header > 0 /\ hi >= form.header)
    BY <1>4, <2>4 DEF Ota!SkipHeader
  <2>5. QED
    BY <2>2, <2>3, <2>4
<1>5. CASE Ota!WriteOut
  BY <1>5 DEF Ota!WriteOut, Ota!Put, Ota!Fits
<1>6. CASE Ota!Rest
  BY <1>6 DEF Ota!Rest, Ota!Put, Ota!Fits, Ota!BoundaryFound, Ota!RestUpTo
<1>7. CASE Ota!Verify
  BY <1>7 DEF Ota!Verify
<1>8. CASE Ota!SetBoot
  BY <1>8 DEF Ota!SetBoot
<1>9. CASE Ota!Abort
  BY <1>9 DEF Ota!Abort
<1>10. CASE UNCHANGED otaVars
  BY <1>10 DEF otaVars
<1>11. QED
  BY <1>1, <1>2, <1>3, <1>4, <1>5, <1>6, <1>7, <1>8, <1>9, <1>10 DEF Ota!Next

\* Whatever pieces a request comes in, the device boots a new firmware only if the
\* partition holds all of it and nothing else (idf_web.cpp:1775-1875).
THEOREM BootsOnlyTheUpload == Spec => []UploadExact
<1>1. Init => Ota!UploadInv
  BY OtaInit
<1>2. (runs = "Ota" => Ota!UploadInv) /\ [Next]_vars => (runs = "Ota" => Ota!UploadInv)'
  BY OneRuns, OtaStep
<1>3. (runs = "Ota" => Ota!UploadInv) => UploadExact
  <2> SUFFICES ASSUME Ota!UploadInv
      PROVE  Ota!TypeOK /\ Ota!BootsWhatWasSent /\ Ota!BoundaryKept /\ Ota!StaysInside
    BY DEF UploadExact
  <2>1. form \in Ota!Requests
    BY DEF Ota!UploadInv
  <2>2. Ota!BoundaryKept
    BY <2>1, OtaNumbers
    DEF Ota!UploadInv, Ota!TypeOK, Ota!BoundaryKept, Ota!Length, Ota!EndOfFile, Ota!KeepTail
  <2>3. QED
    BY <2>2 DEF Ota!UploadInv
<1>4. QED
  BY <1>1, <1>2, <1>3, PTL DEF Spec

-----------------------------------------------------------------------------
(* Incoming calls.                                                         *)

LEMMA CallsInit == Init => Calls!CallsInv
<1> SUFFICES ASSUME Init PROVE Calls!CallsInv
  OBVIOUS
<1>1. {notified, saw} \subseteq BOOLEAN
  BY Zenon DEF Init, Calls!Init
<1>2. QED
  BY <1>1, CallsAssumption
  DEF Init, Calls!Init, Calls!CallsInv, Calls!TypeOK, Calls!ToldOnce, Calls!EveryCallTold, Calls!DelaysAssumption

\* A ring, a number or a silence keeps one told call per call.
LEMMA CallsStep ==
  ASSUME Calls!CallsInv, Calls!Next \/ UNCHANGED callsVars
  PROVE  Calls!CallsInv'
<1> USE CallsAssumption
    DEF Calls!DelaysAssumption, Calls!CallsInv, Calls!TypeOK, Calls!ToldOnce, Calls!EveryCallTold
<1>1. CASE Calls!Ring
  <2>1. {notified', saw'} \subseteq BOOLEAN
    BY <1>1, Zenon DEF Calls!Ring, Calls!Kept
  <2>2. CASE age > Gap
    BY <1>1, <2>1, <2>2
    DEF Calls!Ring, Calls!Line, Calls!Window, Calls!ToldBefore, Calls!Kept, Calls!New
  <2>3. CASE ~(age > Gap)
    BY <1>1, <2>1, <2>3
    DEF Calls!Ring, Calls!Line, Calls!Window, Calls!ToldBefore, Calls!Kept, Calls!New
  <2>4. QED
    BY <2>2, <2>3
<1>2. CASE Calls!Clip
  <2>1. {notified', saw'} \subseteq BOOLEAN
    BY <1>2, Zenon DEF Calls!Clip, Calls!Kept
  <2>2. CASE age > Gap
    BY <1>2, <2>1, <2>2
    DEF Calls!Clip, Calls!Line, Calls!Window, Calls!ToldBefore, Calls!Kept, Calls!New, Calls!Notify
  <2>3. CASE ~(age > Gap)
    BY <1>2, <2>1, <2>3
    DEF Calls!Clip, Calls!Line, Calls!Window, Calls!ToldBefore, Calls!Kept, Calls!New, Calls!Notify
  <2>4. QED
    BY <2>2, <2>3
<1>3. CASE Calls!Expire
  <2>1. {notified', saw'} \subseteq BOOLEAN
    BY <1>3, Zenon DEF Calls!Expire
  <2>2. QED
    BY <1>3, <2>1 DEF Calls!Expire, Calls!Expires, Calls!Notify
<1>4. CASE Calls!HangUp
  BY <1>4 DEF Calls!HangUp, Calls!tracker, Calls!ghosts
<1>5. CASE Calls!Tick
  BY <1>5 DEF Calls!Tick, Calls!Later
<1>6. ASSUME NEW who \in Callers \cup {Hidden}, Calls!Call(who)
      PROVE  Calls!CallsInv'
  BY <1>6 DEF Calls!Call, Calls!tracker, Calls!ghosts
<1>7. CASE UNCHANGED callsVars
  BY <1>7 DEF callsVars
<1>8. QED
  BY <1>1, <1>2, <1>3, <1>4, <1>5, <1>6, <1>7 DEF Calls!Next

\* Who is told is who calls, or nobody's number.
LEMMA ToldIsACaller ==
  ASSUME Calls!CallsInv, Calls!Next \/ UNCHANGED callsVars, told' = told + 1
  PROVE  last' \in callsSince' \cup {Hidden}
<1> USE DEF Calls!CallsInv
<1>1. CASE Calls!Ring
  BY <1>1 DEF Calls!Ring, Calls!ToldBefore
<1>2. CASE Calls!Clip
  BY <1>2 DEF Calls!Clip, Calls!ToldBefore, Calls!Kept, Calls!New, Calls!Notify
<1>3. CASE Calls!Expire
  BY <1>3 DEF Calls!Expire, Calls!Notify
<1>4. CASE told' = told
  BY <1>4
<1>5. QED
  BY <1>1, <1>2, <1>3, <1>4
  DEF Calls!Next, Calls!HangUp, Calls!Tick, Calls!Call, Calls!ghosts, callsVars

\* Every call is told, once, with the number of who calls or none (call.cpp:19-55).
THEOREM CallsToldOnce == Spec => EachCallTold
<1>1. Init => Calls!CallsInv
  BY CallsInit
<1>2. (runs = "Calls" => Calls!CallsInv) /\ [Next]_vars => (runs = "Calls" => Calls!CallsInv)'
  BY OneRuns, CallsStep
<1>3. (runs = "Calls" => Calls!CallsInv)
        => (runs = "Calls" => Calls!TypeOK /\ Calls!ToldOnce /\ Calls!EveryCallTold)
  BY DEF Calls!CallsInv
<1>4. (runs = "Calls" => Calls!CallsInv) /\ [Next]_vars
        => [told' = told + 1 => last' \in callsSince' \cup {Hidden}]_Calls!vars
  BY OneRuns, ToldIsACaller DEF callsVars, Calls!vars, Calls!tracker, Calls!ghosts
<1>5. QED
  BY <1>1, <1>2, <1>3, <1>4, PTL DEF Spec, EachCallTold, Calls!ToldWho

-----------------------------------------------------------------------------
(* The eSIM operations.                                                    *)

\* What the assumption says of cards, profiles and aliases.
LEMMA EsimNumbers ==
  /\ Content \in [Cards -> SUBSET Nat] /\ Alias \in [Esim!Profiles -> Aliases]
  /\ \A c, d \in Cards : c # d => Content[c] \cap Content[d] = {}
  /\ \A c \in Cards : Content[c] \subseteq Esim!Profiles
  /\ Aliases \cap Esim!Profiles = {} /\ None \notin Esim!Profiles /\ None \notin Cards
  /\ Swept \subseteq Nat \ {0} /\ Swept # {} /\ OutOfRange \notin Swept
  /\ \A c \in Cards : IsFiniteSet(Content[c])
  /\ ChainMax \in Nat
<1>1. \A S : Esim!IsFiniteSet(S) = IsFiniteSet(S)
  BY DEF Esim!IsFiniteSet, IsFiniteSet
<1>2. \A c \in Cards : IsFiniteSet(Content[c])
  BY <1>1, EsimAssumption DEF Esim!EsimAssumption
<1>3. QED
  BY <1>2, EsimAssumption DEF Esim!EsimAssumption, Esim!Profiles

\* The instance's Cardinality is that of FiniteSets.
LEMMA EsimCardinality == \A S : Esim!Cardinality(S) = Cardinality(S)
BY DEF Esim!Cardinality, Cardinality

\* The attempts to open a session, with the closing of channels left over between them.
LEMMA EsimOpening ==
  ASSUME Esim!Shaped, Esim!ChannelsKnown, Esim!Open \/ Esim!Sweep \/ Esim!OpenAgain
  PROVE  /\ esimPc \in {"open", "sweep", "again"}
         /\ esimPc' \in {"sweep", "again", "send", "failed"}
         /\ UNCHANGED <<card, there, on, op, ask, read, result, eid, stale, unnoticed, swapped, ops,
                        swaps>>
         /\ answer' \in {"none", answer} /\ parts' \in {0, parts}
         /\ trouble' \in Nat /\ trouble' >= trouble
         /\ channel' \in Swept \cup {0} /\ open' \subseteq Swept \cup {OutOfRange}
         /\ open' \subseteq lost' \cup (IF esimPc' = "send" THEN {channel'} ELSE {})
<1>t. /\ trouble \in Nat /\ channel \in Swept \cup {0} /\ open \subseteq Swept \cup {OutOfRange}
      /\ esimPc \in {"open", "sweep", "again"} => open \subseteq lost
  BY DEF Esim!ChannelsKnown, Esim!Shaped, Esim!TypeOK
<1>1. ASSUME NEW c \in Swept \cup {OutOfRange}, Esim!Opens(c), open \subseteq lost
      PROVE  /\ esimPc' \in {"send", "failed"} /\ trouble' \in Nat /\ trouble' >= trouble
             /\ channel' \in Swept \cup {0} /\ open' \subseteq Swept \cup {OutOfRange}
             /\ open' \subseteq lost' \cup (IF esimPc' = "send" THEN {channel'} ELSE {})
  <2>1. trouble' \in {trouble, trouble + 1}
    BY <1>1 DEF Esim!Opens, Esim!Trouble
  <2>t. trouble' \in Nat /\ trouble' >= trouble
    BY <1>t, <2>1
  <2>2. CASE c # OutOfRange
    <3>1. channel' = c /\ esimPc' = "send" /\ open' = open \cup {c} /\ lost' = lost \ {c}
      BY <1>1, <2>2 DEF Esim!Opens, Esim!Supported
    <3>2. QED
      BY <1>1, <1>t, <2>t, <2>2, <3>1
  <2>3. CASE c = OutOfRange
    <3>1. /\ channel' = 0 /\ esimPc' = "failed"
          /\ \/ open' = open /\ lost' = lost
             \/ open' = open \cup {c} /\ lost' = lost \cup {c}
      BY <1>1, <2>3 DEF Esim!Opens, Esim!Supported
    <3>2. QED
      BY <1>1, <1>t, <2>t, <2>3, <3>1
  <2>4. QED
    BY <2>2, <2>3
<1>2. ASSUME Esim!NotOpened, open \subseteq lost
      PROVE  /\ trouble' \in Nat /\ trouble' >= trouble
             /\ open' \subseteq Swept \cup {OutOfRange} /\ open' \subseteq lost'
  <2>1. trouble' \in {trouble, trouble + 1}
    BY <1>2 DEF Esim!NotOpened, Esim!Trouble
  <2>2. \/ open' = open /\ lost' = lost
        \/ \E c \in Swept : open' = open \cup {c} /\ lost' = lost \cup {c}
    BY <1>2 DEF Esim!NotOpened
  <2>3. trouble' \in Nat /\ trouble' >= trouble
    BY <1>t, <2>1
  <2>4. QED
    BY <1>2, <1>t, <2>2, <2>3
<1>3. CASE Esim!Open
  BY <1>1, <1>2, <1>3, <1>t DEF Esim!Open, Esim!cards, Esim!eids
<1>4. CASE Esim!Sweep
  <2>1. open' \subseteq open /\ lost' = lost \cap open'
    BY <1>4 DEF Esim!Sweep
  <2>2. trouble' \in Nat /\ trouble' >= trouble
    BY <1>4, <1>t DEF Esim!Sweep, Esim!Trouble
  <2>3. QED
    BY <1>4, <2>1, <2>2, <1>t DEF Esim!Sweep, Esim!cards, Esim!eids
<1>5. CASE Esim!OpenAgain
  BY <1>1, <1>2, <1>5, <1>t DEF Esim!OpenAgain, Esim!cards, Esim!eids
<1>6. QED
  BY <1>3, <1>4, <1>5

\* A set of numbers that is not empty has a least one.
LEMMA LeastNatural ==
  ASSUME NEW S \in SUBSET Nat, S # {}
  PROVE  \E m \in S : \A k \in S : m <= k
<1> DEFINE D == {0 .. m : m \in S}
<1>1. D \subseteq FiniteSubsetsOf(Nat)
  <2> SUFFICES ASSUME NEW m \in S PROVE IsFiniteSet(0 .. m) /\ 0 .. m \in SUBSET Nat
    BY DEF FiniteSubsetsOf
  <2> QED
    BY FS_Interval
<1>2. PICK x \in D : \A y \in D : <<y, x>> \notin StrictSubsetOrdering(Nat)
  <2>1. IsWellFoundedOn(StrictSubsetOrdering(Nat), FiniteSubsetsOf(Nat))
    BY FS_StrictSubsetOrderingWellFounded
  <2>2. D # {}
    OBVIOUS
  <2> HIDE DEF D
  <2> QED
    BY <1>1, <2>1, <2>2, WFMin
<1>3. PICK m \in S : x = 0 .. m
  OBVIOUS
<1>4. ASSUME NEW k \in S, k < m PROVE FALSE
  <2>1. 0 .. k \in D /\ 0 .. k \subseteq 0 .. m /\ 0 .. k # 0 .. m
    BY <1>4
  <2>2. <<0 .. k, 0 .. m>> \in StrictSubsetOrdering(Nat)
    BY <2>1 DEF StrictSubsetOrdering
  <2> QED
    BY <1>2, <1>3, <2>1, <2>2
<1> QED
  BY <1>4

\* A list that was read without a failure finds the profiles on the card.
LEMMA MatchingProfiles ==
  ASSUME Esim!EsimInv, ask.what \in {"list", "plain"}, answer = "ok"
  PROVE  /\ Esim!Matching \subseteq Esim!Profiles
         /\ Esim!Matching # {} => Esim!Min(Esim!Matching) \in Esim!Matching
         /\ Esim!OneHit => \E p \in Esim!Profiles : Esim!Matching = {p} /\ Esim!Min(Esim!Matching) = p
<1>1. read.card \in Cards /\ Esim!Matching \subseteq Content[read.card]
  BY EsimNumbers DEF Esim!EsimInv, Esim!AnswersTrue, Esim!Shaped, Esim!Matching
<1>2. Esim!Matching \in SUBSET Nat /\ IsFiniteSet(Esim!Matching) /\ Esim!Matching \subseteq Esim!Profiles
  BY <1>1, EsimNumbers, FS_Subset
<1>3. ASSUME Esim!Matching # {} PROVE Esim!Min(Esim!Matching) \in Esim!Matching
  <2>1. \E m \in Esim!Matching : \A k \in Esim!Matching : m <= k
    BY <1>2, <1>3, LeastNatural
  <2>2. QED
    BY <2>1 DEF Esim!Min
<1>4. ASSUME Esim!OneHit
      PROVE  \E p \in Esim!Profiles : Esim!Matching = {p} /\ Esim!Min(Esim!Matching) = p
  <2>1. PICK p : Esim!Matching = {p}
    BY <1>2, <1>4, FS_Singleton, EsimCardinality DEF Esim!OneHit
  <2>2. QED
    BY <1>2, <1>3, <2>1
<1>5. QED
  BY <1>2, <1>3, <1>4

\* What follows the list of profiles: an alias that fits two of them ends the
\* operation, one that fits one makes it the target.
LEMMA AfterListDoes ==
  ASSUME Esim!EsimInv, Esim!AfterList
  PROVE  \/ \E how \in {"ok", "failed"} : Esim!Ends(how)
         \/ /\ answer = "ok" /\ op.kind = "switch" /\ result' = result
            /\ esimPc' = "open" /\ ask' = [what |-> "enable", refresh |-> TRUE]
            /\ \/ op' = op
               \/ \E p \in Esim!Matching : op' = [op EXCEPT !.target = p]
         \/ /\ answer = "ok" /\ op.kind \notin {"switch", "list"} /\ result' = result
            /\ esimPc' = "open" /\ ask' = [what |-> op.kind, refresh |-> op.kind \in {"enable", "disable"}]
            /\ \E p \in Esim!Profiles : Esim!Matching = {p} /\ op' = [op EXCEPT !.target = p]
<1>1. CASE answer # "ok" \/ op.kind = "list"
  BY <1>1 DEF Esim!AfterList
<1>2. CASE answer = "ok" /\ op.kind = "switch"
  <2>1. Esim!Switch
    BY <1>2 DEF Esim!AfterList
  <2>2. Esim!Matching # {} => Esim!Min(Esim!Matching) \in Esim!Matching
    BY <1>2, MatchingProfiles DEF Esim!AfterList
  <2>3. QED
    BY <1>2, <2>1, <2>2 DEF Esim!Switch, Esim!Asks
<1>3. CASE answer = "ok" /\ op.kind \notin {"switch", "list"}
  <2>1. Esim!Resolve
    BY <1>3 DEF Esim!AfterList
  <2>2. Esim!OneHit => \E p \in Esim!Profiles : Esim!Matching = {p} /\ Esim!Min(Esim!Matching) = p
    BY <1>3, MatchingProfiles DEF Esim!AfterList
  <2>3. QED
    BY <1>3, <2>1, <2>2 DEF Esim!Resolve, Esim!Asks
<1>4. QED
  BY <1>1, <1>2, <1>3

\* The types, and which fields are set at which step.
LEMMA EsimShaped ==
  ASSUME Esim!EsimInv, Esim!Next \/ UNCHANGED esimVars
  PROVE  Esim!Shaped'
<1> USE EsimNumbers DEF Esim!EsimInv, Esim!Shaped, Esim!TypeOK, Esim!Operation, Esim!Kinds, Esim!Changes, Esim!NoOp, Esim!NoRead
<1>0. ASSUME NEW kind \in Esim!Kinds, NEW id \in Esim!Profiles \cup Aliases \cup {None},
             Esim!Start(kind, id)
      PROVE  Esim!Shaped'
  <2>1. op' \in Esim!Operation /\ op'.kind = kind
    BY <1>0 DEF Esim!Start, Esim!Direct
  <2>2. eid' \in {eid, None} /\ stale' \in {stale, FALSE}
    BY <1>0 DEF Esim!Start, Esim!UseEid
  <2>3. {stale', unnoticed', swapped'} \subseteq BOOLEAN
    <3>1. stale \in BOOLEAN /\ unnoticed \in BOOLEAN /\ FALSE \in BOOLEAN
      OBVIOUS
    <3>2. unnoticed' = unnoticed /\ swapped' = FALSE
      BY <1>0 DEF Esim!Start
    <3>3. QED
      BY <2>2, <3>1, <3>2, Zenon
  <2>4. QED
    BY <1>0, <2>1, <2>2, <2>3 DEF Esim!Start, Esim!cards
<1>1. CASE Esim!Known
  BY <1>1 DEF Esim!Known, Esim!Ends, Esim!cards, Esim!session, Esim!eids, Esim!bounds
<1>2. CASE Esim!Open \/ Esim!Sweep \/ Esim!OpenAgain
  BY <1>2, EsimOpening
<1>4. CASE Esim!Send
  BY <1>4 DEF Esim!Send, Esim!Able, Esim!Perform, Esim!Trouble, Esim!cards, Esim!session, Esim!eids, Esim!bounds
<1>5. CASE Esim!More
  BY <1>5 DEF Esim!More, Esim!Counts, Esim!cards, Esim!session, Esim!eids, Esim!bounds
<1>6. CASE Esim!Fetch
  BY <1>6 DEF Esim!Fetch, Esim!Trouble, Esim!cards, Esim!session, Esim!eids, Esim!bounds
<1>7. CASE Esim!Close
  <2>1. open' \subseteq Swept \cup {OutOfRange}
    <3>1. open' \subseteq open
      BY <1>7 DEF Esim!Close, Esim!Closed
    <3>2. QED
      BY <3>1
  <2>2. channel' \in Swept \cup {0} /\ trouble' \in Nat
    BY <1>7 DEF Esim!Close, Esim!Trouble
  <2>3. QED
    BY <1>7, <2>1, <2>2 DEF Esim!Close, Esim!cards, Esim!eids
<1>8. CASE Esim!OpenFailed
  BY <1>8 DEF Esim!OpenFailed, Esim!cards, Esim!session, Esim!eids, Esim!bounds
<1>9. CASE Esim!AfterEid
  <2>1. eid' \in Cards \cup {None} /\ stale' = stale
    BY <1>9 DEF Esim!AfterEid, Esim!Store, Esim!AnswersTrue
  <2>2. op' \in Esim!Operation /\ result' \in {"none", "ok", "failed"}
    BY <1>9 DEF Esim!AfterEid, Esim!Ends, Esim!Asks, Esim!NoOp
  <2>3. parts' \in 0 .. ChainMax
    BY <1>9 DEF Esim!AfterEid, Esim!Forgets
  <2>4. QED
    BY <1>9, <2>1, <2>2, <2>3 DEF Esim!AfterEid, Esim!cards, Esim!bounds
<1>10. CASE Esim!AskPlain
  BY <1>10 DEF Esim!AskPlain, Esim!Asks, Esim!cards, Esim!session, Esim!eids, Esim!bounds
<1>11. CASE Esim!AfterList
  <2>1. CASE answer # "ok" \/ op.kind = "list"
    BY <1>11, <2>1 DEF Esim!AfterList, Esim!Ends, Esim!NoOp, Esim!Forgets, Esim!cards, Esim!bounds, Esim!eids
  <2>2. CASE answer = "ok" /\ op.kind # "list"
    <3>1. /\ Esim!Matching \subseteq Esim!Profiles
          /\ Esim!Matching # {} => Esim!Min(Esim!Matching) \in Esim!Matching
          /\ Esim!OneHit => Esim!Min(Esim!Matching) \in Esim!Matching
      BY <1>11, <2>2, MatchingProfiles DEF Esim!AfterList
    <3>2. op' \in Esim!Operation /\ result' \in {"none", "ok", "failed"}
      <4>1. CASE \E how \in {"ok", "failed"} : Esim!Ends(how)
        BY <4>1 DEF Esim!Ends, Esim!NoOp
      <4>2. CASE op' = [op EXCEPT !.target = Esim!Min(Esim!Matching)] /\ UNCHANGED result
                   /\ Esim!Matching # {}
        BY <3>1, <4>2
      <4>3. CASE UNCHANGED <<op, result>>
        BY <4>3
      <4>4. QED
        BY <1>11, <2>2, <3>1, <4>1, <4>2, <4>3 DEF Esim!AfterList, Esim!Switch, Esim!Resolve
    <3>3. QED
      BY <1>11, <3>2 DEF Esim!AfterList, Esim!Forgets, Esim!cards, Esim!bounds, Esim!eids
  <2>3. QED
    BY <2>1, <2>2
<1>12. CASE Esim!AfterChange
  BY <1>12 DEF Esim!AfterChange, Esim!Ends, Esim!Asks, Esim!Forgets, Esim!Done, Esim!cards, Esim!session, Esim!eids, Esim!bounds
<1>13. CASE Esim!Swap
  BY <1>13 DEF Esim!Swap, Esim!cards, Esim!session, Esim!eids, Esim!bounds
<1>14. CASE Esim!Notice
  BY <1>14 DEF Esim!Notice, Esim!cards, Esim!session, Esim!eids, Esim!bounds
<1>15. CASE UNCHANGED esimVars
  BY <1>15 DEF esimVars
<1>16. QED
  BY <1>0, <1>1, <1>2, <1>4, <1>5, <1>6, <1>7, <1>8, <1>9, <1>10, <1>11, <1>12, <1>13, <1>14, <1>15
  DEF Esim!Next, Esim!Work

\* The EID that is kept is that of the card in the slot, unless a swap is unnoticed.
LEMMA EsimEid ==
  ASSUME Esim!EsimInv, Esim!Next \/ UNCHANGED esimVars
  PROVE  Esim!EidCurrent'
<1> USE EsimNumbers DEF Esim!EsimInv, Esim!EidCurrent, Esim!AnswersTrue
<1>0. ASSUME NEW kind \in Esim!Kinds, NEW id \in Esim!Profiles \cup Aliases \cup {None},
             Esim!Start(kind, id)
      PROVE  Esim!EidCurrent'
  BY <1>0 DEF Esim!Start, Esim!Asks, Esim!UseEid, Esim!EidKept, Esim!cards
<1>1. CASE Esim!Known
  BY <1>1 DEF Esim!Known, Esim!Ends, Esim!cards, Esim!session, Esim!eids, Esim!bounds
<1>2. CASE Esim!Open \/ Esim!Sweep \/ Esim!OpenAgain
  BY <1>2, EsimOpening
<1>4. CASE Esim!Send
  BY <1>4 DEF Esim!Send, Esim!Able, Esim!Perform, Esim!Trouble, Esim!cards, Esim!session, Esim!eids, Esim!bounds
<1>5. CASE Esim!More
  BY <1>5 DEF Esim!More, Esim!Counts, Esim!cards, Esim!session, Esim!eids, Esim!bounds
<1>6. CASE Esim!Fetch
  BY <1>6 DEF Esim!Fetch, Esim!Trouble, Esim!cards, Esim!session, Esim!eids, Esim!bounds
<1>7. CASE Esim!Close
  BY <1>7 DEF Esim!Close, Esim!Trouble, Esim!Closed, Esim!cards, Esim!session, Esim!eids, Esim!bounds
<1>8. CASE Esim!OpenFailed
  BY <1>8 DEF Esim!OpenFailed, Esim!cards, Esim!session, Esim!eids, Esim!bounds
<1>9. CASE Esim!AfterEid
  BY <1>9 DEF Esim!AfterEid, Esim!Store, Esim!Ends, Esim!Asks, Esim!Forgets, Esim!cards, Esim!session, Esim!eids, Esim!bounds
<1>10. CASE Esim!AskPlain
  BY <1>10 DEF Esim!AskPlain, Esim!Asks, Esim!cards, Esim!session, Esim!eids, Esim!bounds
<1>11. CASE Esim!AfterList
  BY <1>11 DEF Esim!AfterList, Esim!Ends, Esim!Asks, Esim!Forgets, Esim!Switch, Esim!Resolve, Esim!Matching, Esim!OneHit, Esim!Direct, Esim!cards, Esim!session, Esim!eids, Esim!bounds
<1>12. CASE Esim!AfterChange
  BY <1>12 DEF Esim!AfterChange, Esim!Ends, Esim!Asks, Esim!Forgets, Esim!Done, Esim!cards, Esim!session, Esim!eids, Esim!bounds
<1>13. CASE Esim!Swap
  BY <1>13 DEF Esim!Swap, Esim!cards, Esim!session, Esim!eids, Esim!bounds
<1>14. CASE Esim!Notice
  BY <1>14 DEF Esim!Notice, Esim!cards, Esim!session, Esim!eids, Esim!bounds
<1>15. CASE UNCHANGED esimVars
  BY <1>15 DEF esimVars
<1>16. QED
  BY <1>0, <1>1, <1>2, <1>4, <1>5, <1>6, <1>7, <1>8, <1>9, <1>10, <1>11, <1>12, <1>13, <1>14, <1>15
  DEF Esim!Next, Esim!Work

\* The logical channels in use are the session's and those whose answer was lost.
LEMMA EsimChannels ==
  ASSUME Esim!EsimInv, Esim!Next \/ UNCHANGED esimVars
  PROVE  Esim!ChannelsKnown'
<1> USE EsimNumbers DEF Esim!EsimInv, Esim!ChannelsKnown, Esim!Shaped, Esim!TypeOK
<1>0. ASSUME NEW kind \in Esim!Kinds, NEW id \in Esim!Profiles \cup Aliases \cup {None},
             Esim!Start(kind, id)
      PROVE  Esim!ChannelsKnown'
  BY <1>0 DEF Esim!Start, Esim!Asks, Esim!UseEid, Esim!EidKept, Esim!cards
<1>1. CASE Esim!Known
  BY <1>1 DEF Esim!Known, Esim!Ends, Esim!cards, Esim!session, Esim!eids, Esim!bounds
<1>2. CASE Esim!Open \/ Esim!Sweep \/ Esim!OpenAgain
  BY <1>2, EsimOpening
<1>4. CASE Esim!Send
  BY <1>4 DEF Esim!Send, Esim!Able, Esim!Perform, Esim!Trouble, Esim!cards, Esim!session, Esim!eids, Esim!bounds
<1>5. CASE Esim!More
  BY <1>5 DEF Esim!More, Esim!Counts, Esim!cards, Esim!session, Esim!eids, Esim!bounds
<1>6. CASE Esim!Fetch
  BY <1>6 DEF Esim!Fetch, Esim!Trouble, Esim!cards, Esim!session, Esim!eids, Esim!bounds
<1>7. CASE Esim!Close
  BY <1>7 DEF Esim!Close, Esim!Trouble, Esim!Closed, Esim!cards, Esim!session, Esim!eids, Esim!bounds
<1>8. CASE Esim!OpenFailed
  BY <1>8 DEF Esim!OpenFailed, Esim!cards, Esim!session, Esim!eids, Esim!bounds
<1>9. CASE Esim!AfterEid
  BY <1>9 DEF Esim!AfterEid, Esim!Store, Esim!Ends, Esim!Asks, Esim!Forgets, Esim!cards, Esim!session, Esim!eids, Esim!bounds
<1>10. CASE Esim!AskPlain
  BY <1>10 DEF Esim!AskPlain, Esim!Asks, Esim!cards, Esim!session, Esim!eids, Esim!bounds
<1>11. CASE Esim!AfterList
  BY <1>11 DEF Esim!AfterList, Esim!Ends, Esim!Asks, Esim!Forgets, Esim!Switch, Esim!Resolve, Esim!Matching, Esim!OneHit, Esim!Direct, Esim!cards, Esim!session, Esim!eids, Esim!bounds
<1>12. CASE Esim!AfterChange
  BY <1>12 DEF Esim!AfterChange, Esim!Ends, Esim!Asks, Esim!Forgets, Esim!Done, Esim!cards, Esim!session, Esim!eids, Esim!bounds
<1>13. CASE Esim!Swap
  BY <1>13 DEF Esim!Swap, Esim!cards, Esim!session, Esim!eids, Esim!bounds
<1>14. CASE Esim!Notice
  BY <1>14 DEF Esim!Notice, Esim!cards, Esim!session, Esim!eids, Esim!bounds
<1>15. CASE UNCHANGED esimVars
  BY <1>15 DEF esimVars
<1>16. QED
  BY <1>0, <1>1, <1>2, <1>4, <1>5, <1>6, <1>7, <1>8, <1>9, <1>10, <1>11, <1>12, <1>13, <1>14, <1>15
  DEF Esim!Next, Esim!Work

\* An answer is what the card did, or a failure.
LEMMA EsimAnswers ==
  ASSUME Esim!EsimInv, Esim!Next \/ UNCHANGED esimVars
  PROVE  Esim!AnswersTrue'
<1> USE EsimNumbers DEF Esim!EsimInv, Esim!AnswersTrue, Esim!AskedFor, Esim!Shaped, Esim!TypeOK, Esim!Operation, Esim!Changes
<1>0. ASSUME NEW kind \in Esim!Kinds, NEW id \in Esim!Profiles \cup Aliases \cup {None},
             Esim!Start(kind, id)
      PROVE  Esim!AnswersTrue'
  BY <1>0 DEF Esim!Start, Esim!Asks, Esim!UseEid, Esim!EidKept, Esim!cards
<1>1. CASE Esim!Known
  BY <1>1 DEF Esim!Known, Esim!Ends, Esim!cards, Esim!session, Esim!eids, Esim!bounds
<1>2. CASE Esim!Open \/ Esim!Sweep \/ Esim!OpenAgain
  BY <1>2, EsimOpening
<1>4. CASE Esim!Send
  BY <1>4 DEF Esim!Send, Esim!Able, Esim!Perform, Esim!Trouble, Esim!cards, Esim!session, Esim!eids, Esim!bounds
<1>5. CASE Esim!More
  BY <1>5 DEF Esim!More, Esim!Counts, Esim!cards, Esim!session, Esim!eids, Esim!bounds
<1>6. CASE Esim!Fetch
  BY <1>6 DEF Esim!Fetch, Esim!Trouble, Esim!cards, Esim!session, Esim!eids, Esim!bounds
<1>7. CASE Esim!Close
  BY <1>7 DEF Esim!Close, Esim!Trouble, Esim!Closed, Esim!cards, Esim!session, Esim!eids, Esim!bounds
<1>8. CASE Esim!OpenFailed
  BY <1>8 DEF Esim!OpenFailed, Esim!cards, Esim!session, Esim!eids, Esim!bounds
<1>9. CASE Esim!AfterEid
  BY <1>9 DEF Esim!AfterEid, Esim!Store, Esim!Ends, Esim!Asks, Esim!Forgets, Esim!cards, Esim!session, Esim!eids, Esim!bounds
<1>10. CASE Esim!AskPlain
  BY <1>10 DEF Esim!AskPlain, Esim!Asks, Esim!cards, Esim!session, Esim!eids, Esim!bounds
<1>11. CASE Esim!AfterList
  BY <1>11 DEF Esim!AfterList, Esim!Ends, Esim!Asks, Esim!Forgets, Esim!Switch, Esim!Resolve, Esim!Matching, Esim!OneHit, Esim!Direct, Esim!cards, Esim!session, Esim!eids, Esim!bounds
<1>12. CASE Esim!AfterChange
  BY <1>12 DEF Esim!AfterChange, Esim!Ends, Esim!Asks, Esim!Forgets, Esim!Done, Esim!cards, Esim!session, Esim!eids, Esim!bounds
<1>13. CASE Esim!Swap
  BY <1>13 DEF Esim!Swap, Esim!cards, Esim!session, Esim!eids, Esim!bounds
<1>14. CASE Esim!Notice
  BY <1>14 DEF Esim!Notice, Esim!cards, Esim!session, Esim!eids, Esim!bounds
<1>15. CASE UNCHANGED esimVars
  BY <1>15 DEF esimVars
<1>16. QED
  BY <1>0, <1>1, <1>2, <1>4, <1>5, <1>6, <1>7, <1>8, <1>9, <1>10, <1>11, <1>12, <1>13, <1>14, <1>15
  DEF Esim!Next, Esim!Work

\* What is asked of the card is what the operation is about.
LEMMA EsimAsked ==
  ASSUME Esim!EsimInv, Esim!Next \/ UNCHANGED esimVars
  PROVE  Esim!AskedFor'
<1> USE EsimNumbers DEF Esim!EsimInv, Esim!AskedFor, Esim!AnswersTrue, Esim!Shaped, Esim!TypeOK, Esim!Operation, Esim!Kinds, Esim!Changes, Esim!NoOp, Esim!NoAsk
<1>0. ASSUME NEW kind \in Esim!Kinds, NEW id \in Esim!Profiles \cup Aliases \cup {None},
             Esim!Start(kind, id)
      PROVE  Esim!AskedFor'
  BY <1>0 DEF Esim!Start, Esim!Asks, Esim!UseEid, Esim!EidKept, Esim!cards
<1>1. CASE Esim!Known
  BY <1>1 DEF Esim!Known, Esim!Ends, Esim!cards, Esim!session, Esim!eids, Esim!bounds
<1>2. CASE Esim!Open \/ Esim!Sweep \/ Esim!OpenAgain
  BY <1>2, EsimOpening
<1>4. CASE Esim!Send
  BY <1>4 DEF Esim!Send, Esim!Able, Esim!Perform, Esim!Trouble, Esim!cards, Esim!session, Esim!eids, Esim!bounds
<1>5. CASE Esim!More
  BY <1>5 DEF Esim!More, Esim!Counts, Esim!cards, Esim!session, Esim!eids, Esim!bounds
<1>6. CASE Esim!Fetch
  BY <1>6 DEF Esim!Fetch, Esim!Trouble, Esim!cards, Esim!session, Esim!eids, Esim!bounds
<1>7. CASE Esim!Close
  BY <1>7 DEF Esim!Close, Esim!Trouble, Esim!Closed, Esim!cards, Esim!session, Esim!eids, Esim!bounds
<1>8. CASE Esim!OpenFailed
  BY <1>8 DEF Esim!OpenFailed, Esim!cards, Esim!session, Esim!eids, Esim!bounds
<1>9. CASE Esim!AfterEid
  BY <1>9 DEF Esim!AfterEid, Esim!Store, Esim!Ends, Esim!Asks, Esim!Forgets, Esim!cards, Esim!session, Esim!eids, Esim!bounds
<1>10. CASE Esim!AskPlain
  BY <1>10 DEF Esim!AskPlain, Esim!Asks, Esim!cards, Esim!session, Esim!eids, Esim!bounds
<1>11. CASE Esim!AfterList
  <2>1. CASE \E how \in {"ok", "failed"} : Esim!Ends(how)
    BY <2>1 DEF Esim!Ends, Esim!NoAsk
  <2>2. CASE /\ answer = "ok" /\ op.kind = "switch" /\ result' = result
            /\ esimPc' = "open" /\ ask' = [what |-> "enable", refresh |-> TRUE]
            /\ \/ op' = op
               \/ \E p \in Esim!Matching : op' = [op EXCEPT !.target = p]
    BY <2>2 DEF Esim!AfterList, Esim!Shaped, Esim!Operation
  <2>3. CASE /\ answer = "ok" /\ op.kind \notin {"switch", "list"} /\ result' = result
            /\ esimPc' = "open" /\ ask' = [what |-> op.kind, refresh |-> op.kind \in {"enable", "disable"}]
            /\ \E p \in Esim!Profiles : Esim!Matching = {p} /\ op' = [op EXCEPT !.target = p]
    <3>1. op'.kind = op.kind /\ ask'.what = op.kind
      BY <2>3 DEF Esim!Shaped, Esim!Operation
    <3>2. op.kind \notin {"enable", "disable"} => ask'.refresh = FALSE
      <4> SUFFICES ASSUME op.kind \notin {"enable", "disable"} PROVE ask'.refresh = FALSE
        OBVIOUS
      <4>1. (op.kind \in {"enable", "disable"}) = FALSE
        OBVIOUS
      <4>2. ask' = [what |-> op.kind, refresh |-> FALSE]
        BY <2>3, <4>1, Zenon
      <4>3. QED
        BY <4>2
    <3>3. QED
      BY <2>3, <3>1, <3>2 DEF Esim!AfterList
  <2>4. QED
    BY <2>1, <2>2, <2>3, <1>11, AfterListDoes
<1>12. CASE Esim!AfterChange
  BY <1>12 DEF Esim!AfterChange, Esim!Ends, Esim!Asks, Esim!Forgets, Esim!Done, Esim!cards, Esim!session, Esim!eids, Esim!bounds
<1>13. CASE Esim!Swap
  BY <1>13 DEF Esim!Swap, Esim!cards, Esim!session, Esim!eids, Esim!bounds
<1>14. CASE Esim!Notice
  BY <1>14 DEF Esim!Notice, Esim!cards, Esim!session, Esim!eids, Esim!bounds
<1>15. CASE UNCHANGED esimVars
  BY <1>15 DEF esimVars
<1>16. QED
  BY <1>0, <1>1, <1>2, <1>4, <1>5, <1>6, <1>7, <1>8, <1>9, <1>10, <1>11, <1>12, <1>13, <1>14, <1>15
  DEF Esim!Next, Esim!Work

\* The profile an operation aims at is the one it was asked for, or of its alias.
LEMMA EsimNamed ==
  ASSUME Esim!EsimInv, Esim!Next \/ UNCHANGED esimVars
  PROVE  Esim!TargetNamed'
<1> USE EsimNumbers DEF Esim!EsimInv, Esim!TargetNamed, Esim!AskedFor, Esim!Shaped, Esim!Operation, Esim!Kinds, Esim!Changes, Esim!NoOp, Esim!NoAsk
<1>0. ASSUME NEW kind \in Esim!Kinds, NEW id \in Esim!Profiles \cup Aliases \cup {None},
             Esim!Start(kind, id)
      PROVE  Esim!TargetNamed'
  BY <1>0 DEF Esim!Start, Esim!Asks, Esim!UseEid, Esim!EidKept, Esim!cards
<1>1. CASE Esim!Known
  BY <1>1 DEF Esim!Known, Esim!Ends, Esim!cards, Esim!session, Esim!eids, Esim!bounds
<1>2. CASE Esim!Open \/ Esim!Sweep \/ Esim!OpenAgain
  BY <1>2, EsimOpening
<1>4. CASE Esim!Send
  BY <1>4 DEF Esim!Send, Esim!Able, Esim!Perform, Esim!Trouble, Esim!cards, Esim!session, Esim!eids, Esim!bounds
<1>5. CASE Esim!More
  BY <1>5 DEF Esim!More, Esim!Counts, Esim!cards, Esim!session, Esim!eids, Esim!bounds
<1>6. CASE Esim!Fetch
  BY <1>6 DEF Esim!Fetch, Esim!Trouble, Esim!cards, Esim!session, Esim!eids, Esim!bounds
<1>7. CASE Esim!Close
  BY <1>7 DEF Esim!Close, Esim!Trouble, Esim!Closed, Esim!cards, Esim!session, Esim!eids, Esim!bounds
<1>8. CASE Esim!OpenFailed
  BY <1>8 DEF Esim!OpenFailed, Esim!cards, Esim!session, Esim!eids, Esim!bounds
<1>9. CASE Esim!AfterEid
  BY <1>9 DEF Esim!AfterEid, Esim!Store, Esim!Ends, Esim!Asks, Esim!Forgets, Esim!cards, Esim!session, Esim!eids, Esim!bounds
<1>10. CASE Esim!AskPlain
  BY <1>10 DEF Esim!AskPlain, Esim!Asks, Esim!cards, Esim!session, Esim!eids, Esim!bounds
<1>11. CASE Esim!AfterList
  <2>1. CASE \E how \in {"ok", "failed"} : Esim!Ends(how)
    BY <2>1 DEF Esim!Ends, Esim!NoOp
  <2>2. ASSUME NEW p \in Esim!Matching, op' = [op EXCEPT !.target = p], esimPc' = "open",
               ask'.what \notin {"list", "plain"}
        PROVE Esim!TargetNamed'
    BY <2>2 DEF Esim!Matching
  <2>3. CASE op' = op /\ esimPc' = "open" /\ ask' = [what |-> "enable", refresh |-> TRUE]
    BY <2>3
  <2>4. QED
    <3>1. ASSUME op.kind \notin {"switch", "list"},
                 ask' = [what |-> op.kind, refresh |-> op.kind \in {"enable", "disable"}]
          PROVE  ask'.what \notin {"list", "plain"}
      <4>1. ask'.what = op.kind
        BY <3>1
      <4>2. QED
        BY <3>1, <4>1
    <3>2. ask' = [what |-> "enable", refresh |-> TRUE] => ask'.what \notin {"list", "plain"}
      OBVIOUS
    <3>3. QED
      BY <1>11, <2>1, <2>2, <2>3, <3>1, <3>2, AfterListDoes
<1>12. CASE Esim!AfterChange
  BY <1>12 DEF Esim!AfterChange, Esim!Ends, Esim!Asks, Esim!Forgets, Esim!Done, Esim!cards, Esim!session, Esim!eids, Esim!bounds
<1>13. CASE Esim!Swap
  BY <1>13 DEF Esim!Swap, Esim!cards, Esim!session, Esim!eids, Esim!bounds
<1>14. CASE Esim!Notice
  BY <1>14 DEF Esim!Notice, Esim!cards, Esim!session, Esim!eids, Esim!bounds
<1>15. CASE UNCHANGED esimVars
  BY <1>15 DEF esimVars
<1>16. QED
  BY <1>0, <1>1, <1>2, <1>4, <1>5, <1>6, <1>7, <1>8, <1>9, <1>10, <1>11, <1>12, <1>13, <1>14, <1>15
  DEF Esim!Next, Esim!Work

\* No second profile has the alias an operation was asked for.
LEMMA EsimTargetAlone ==
  ASSUME Esim!EsimInv, Esim!Next \/ UNCHANGED esimVars,
         op'.kind \in Esim!Changes, ~Esim!Direct(op'.id), op'.target # None,
         esimPc' \in {"open", "sweep", "again", "send"} \/ answer' = "busy"
  PROVE  \E c \in Cards : {p \in there'[c] : Alias[p] = op'.id} = {op'.target}
<1> USE DEF Esim!EsimInv
<1>1. op' = op /\ there' = there /\ (esimPc \in {"open", "sweep", "again", "send"} \/ answer = "busy")
        => \E c \in Cards : {p \in there'[c] : Alias[p] = op'.id} = {op'.target}
  BY DEF Esim!TargetAlone
<1>2. ASSUME NEW kind \in Esim!Kinds, NEW id \in Esim!Profiles \cup Aliases \cup {None},
             Esim!Start(kind, id)
      PROVE  FALSE
  BY <1>2 DEF Esim!Start
<1>3. CASE Esim!Open \/ Esim!Sweep \/ Esim!OpenAgain
  BY <1>1, <1>3, EsimOpening
<1>4. CASE Esim!Send
  BY <1>1, <1>4 DEF Esim!Send, Esim!cards, Esim!AnswersTrue
<1>5. CASE Esim!More \/ Esim!Fetch \/ Esim!Close \/ Esim!OpenFailed
  BY <1>1, <1>5 DEF Esim!More, Esim!Fetch, Esim!Close, Esim!OpenFailed, Esim!cards
<1>6. CASE Esim!Known
  BY <1>6 DEF Esim!Known, Esim!Ends, Esim!NoOp
<1>7. CASE Esim!AfterEid
  <2>1. op' = Esim!NoOp \/ (op' = op /\ op.kind = "list")
    BY <1>7 DEF Esim!AfterEid, Esim!Ends
  <2>2. QED
    BY <2>1 DEF Esim!NoOp, Esim!Changes
<1>8. CASE Esim!AskPlain
  BY <1>8 DEF Esim!AskPlain, Esim!TargetNamed
<1>9. CASE Esim!AfterList
  <2>1. CASE \E how \in {"ok", "failed"} : Esim!Ends(how)
    BY <2>1 DEF Esim!Ends, Esim!NoOp
  <2>2. CASE op'.kind = "switch"
    BY <2>2 DEF Esim!Changes
  <2>3. ASSUME answer = "ok", NEW p \in Esim!Profiles, Esim!Matching = {p}, op' = [op EXCEPT !.target = p]
        PROVE  \E c \in Cards : {q \in there'[c] : Alias[q] = op'.id} = {op'.target}
    <3>1. op'.id = op.id /\ op'.target = p
      BY <2>3 DEF Esim!Shaped, Esim!Operation
    <3>2. read.card \in Cards /\ read.there = there[read.card] /\ there' = there
      BY <1>9, <2>3 DEF Esim!AfterList, Esim!AnswersTrue, Esim!cards
    <3>3. \A q \in there[read.card] : q \in Esim!Profiles
      BY <3>2, EsimNumbers DEF Esim!Shaped
    <3>4. {q \in there[read.card] : Alias[q] = op.id} = {p}
      BY <2>3, <3>1, <3>2, <3>3 DEF Esim!Matching, Esim!Direct
    <3>5. QED
      BY <3>1, <3>2, <3>4
  <2>4. QED
    BY <1>9, <2>1, <2>2, <2>3, AfterListDoes DEF Esim!Shaped, Esim!Operation
<1>10. CASE Esim!AfterChange
  <2>1. op' = Esim!NoOp \/ (op' = op /\ answer = "busy")
    BY <1>10 DEF Esim!AfterChange, Esim!Ends
  <2>2. op' # Esim!NoOp
    BY DEF Esim!NoOp, Esim!Changes
  <2>3. there' = there
    BY <1>10 DEF Esim!AfterChange, Esim!cards
  <2>4. QED
    BY <1>1, <2>1, <2>2, <2>3
<1>11. CASE Esim!Swap \/ Esim!Notice \/ UNCHANGED esimVars
  BY <1>1, <1>11 DEF Esim!Swap, Esim!Notice, esimVars, Esim!cards, Esim!session
<1>12. QED
  BY <1>2, <1>3, <1>4, <1>5, <1>6, <1>7, <1>8, <1>9, <1>10, <1>11 DEF Esim!Next, Esim!Work

LEMMA EsimInit == Init => Esim!EsimInv
<1> SUFFICES ASSUME Init PROVE Esim!EsimInv
  OBVIOUS
<1> USE EsimNumbers DEF Init, Esim!Init, Esim!NoOp, Esim!NoAsk, Esim!NoRead
<1>1. {stale, unnoticed, swapped} \subseteq BOOLEAN
  BY Zenon
<1>2. Esim!Shaped
  BY <1>1 DEF Esim!Shaped, Esim!TypeOK, Esim!Operation
<1>3. Esim!EidCurrent /\ Esim!ChannelsKnown /\ Esim!AnswersTrue
  BY DEF Esim!EidCurrent, Esim!ChannelsKnown, Esim!AnswersTrue
<1>4. Esim!AskedFor /\ Esim!TargetNamed /\ Esim!TargetAlone
  BY DEF Esim!AskedFor, Esim!TargetNamed, Esim!TargetAlone, Esim!Changes
<1>5. QED
  BY <1>2, <1>3, <1>4 DEF Esim!EsimInv

\* All of it together.
LEMMA EsimStep ==
  ASSUME Esim!EsimInv, Esim!Next \/ UNCHANGED esimVars
  PROVE  Esim!EsimInv'
<1>1. Esim!TargetAlone'
  BY EsimTargetAlone DEF Esim!TargetAlone, Esim!Direct
<1>2. QED
  BY <1>1, EsimShaped, EsimEid, EsimChannels, EsimAnswers, EsimAsked, EsimNamed DEF Esim!EsimInv

\* A profile is enabled, disabled or deleted by the command the session sends, alone.
LEMMA OnlySendPerforms ==
  ASSUME Esim!EsimInv, Esim!Next \/ UNCHANGED esimVars, on' # on \/ there' # there
  PROVE  Esim!Send /\ Esim!Able /\ Esim!Perform
<1> USE DEF Esim!cards
<1>1. ASSUME NEW kind \in Esim!Kinds, NEW id \in Esim!Profiles \cup Aliases \cup {None},
             Esim!Start(kind, id)
      PROVE  FALSE
  BY <1>1 DEF Esim!Start
<1>2. CASE Esim!Send
  BY <1>2 DEF Esim!Send
<1>3. CASE Esim!Work /\ ~Esim!Send
  BY <1>3 DEF Esim!Work, Esim!Known, Esim!Open, Esim!Sweep, Esim!OpenAgain, Esim!More, Esim!Fetch, Esim!Close,
     Esim!OpenFailed, Esim!AfterEid, Esim!AskPlain, Esim!AfterList, Esim!AfterChange
<1>4. CASE Esim!Swap \/ Esim!Notice \/ UNCHANGED esimVars
  BY <1>4 DEF Esim!Swap, Esim!Notice, esimVars
<1>5. QED
  BY <1>1, <1>2, <1>3, <1>4 DEF Esim!Next

\* What such a command changes is the profile the operation was asked for.
LEMMA ChangesTheNamed ==
  ASSUME Esim!EsimInv, Esim!Next \/ UNCHANGED esimVars, on' # on \/ there' # there
  PROVE  \/ op.kind = "switch" \/ Esim!Direct(op.id)
         \/ {p \in there[card] : Alias[p] = op.id} = {op.target}
<1> SUFFICES ASSUME op.kind # "switch", ~Esim!Direct(op.id)
             PROVE  {p \in there[card] : Alias[p] = op.id} = {op.target}
  OBVIOUS
<1> USE DEF Esim!EsimInv
<1>1. esimPc = "send" /\ Esim!Able /\ Esim!Perform
  BY OnlySendPerforms DEF Esim!Send
<1>2. on \in [Cards -> Esim!Profiles \cup {None}] /\ there \in [Cards -> SUBSET Esim!Profiles] /\ card \in Cards
  BY DEF Esim!Shaped, Esim!TypeOK
<1>3. ask.what \in {"enable", "disable", "delete"}
  <2>1. CASE ask.what \notin {"enable", "disable", "delete"}
    <3>1. on' = on /\ there' = there
      BY <1>1, <1>2, <2>1 DEF Esim!Perform
    <3>2. QED
      BY <3>1
  <2>2. QED
    BY <2>1
<1>4. op.target \in there[card] /\ op.target # None
  BY <1>1, <1>2, <1>3, EsimNumbers DEF Esim!Able
<1>5. op.kind \in Esim!Changes
  BY <1>1, <1>3 DEF Esim!AskedFor, Esim!Changes
<1>6. PICK c \in Cards : {p \in there[c] : Alias[p] = op.id} = {op.target}
  BY <1>1, <1>4, <1>5 DEF Esim!TargetAlone
<1>7. c = card
  BY <1>2, <1>4, <1>6, EsimNumbers DEF Esim!Shaped
<1>8. QED
  BY <1>6, <1>7

\* What "done" means for each kind of change.
DoneAsNamed ==
  /\ op.kind \in {"enable", "switch"} => Esim!Named(on[card])
  /\ op.kind = "disable" => Esim!Named(op.target) /\ on[card] # op.target
  /\ op.kind = "delete" => Esim!Named(op.target) /\ op.target \notin there[card]

\* An operation that ends well was carried out.
LEMMA OkIsDone ==
  ASSUME Esim!EsimInv, Esim!Next \/ UNCHANGED esimVars,
         esimPc # "idle", result' = "ok", ~swapped'
  PROVE  DoneAsNamed
<1> SUFFICES ASSUME op.kind \in {"enable", "switch", "disable", "delete"} PROVE DoneAsNamed
  BY DEF DoneAsNamed
<1> USE DEF Esim!EsimInv
<1>1. result = "none"
  BY DEF Esim!AskedFor
<1>2. CASE Esim!AfterList
  <2>1. answer = "ok" /\ op.kind = "switch" /\ Esim!Switch
    BY <1>1, <1>2 DEF Esim!AfterList, Esim!Ends, Esim!Resolve, Esim!Asks
  <2>2. Esim!Matching # {} /\ Esim!Min(Esim!Matching) = read.on
    BY <1>1, <2>1 DEF Esim!Switch, Esim!Ends
  <2>3. read.on \in Esim!Matching /\ read.on \in Esim!Profiles
    BY <1>2, <2>1, <2>2, MatchingProfiles DEF Esim!AfterList
  <2>4. read.on = on[card]
    BY <1>2, <2>1 DEF Esim!AfterList, Esim!AnswersTrue
  <2>5. Esim!Named(on[card])
    BY <2>3, <2>4, EsimNumbers DEF Esim!Matching, Esim!Named
  <2>6. QED
    BY <2>1, <2>5 DEF DoneAsNamed
<1>3. CASE Esim!AfterChange
  <2>1. answer = "ok" /\ ask.what \in Esim!Changes /\ ~swapped /\ esimPc = "next"
    BY <1>1, <1>3 DEF Esim!AfterChange, Esim!Ends, Esim!Done
  <2>2. ask.what = op.kind \/ (ask.what = "enable" /\ op.kind = "switch")
    BY <2>1 DEF Esim!AskedFor
  <2>3. /\ op.target # None
        /\ ask.what = "enable" => on[card] = op.target
        /\ ask.what = "disable" => on[card] # op.target
        /\ ask.what = "delete" => op.target \notin there[card]
    BY <2>1 DEF Esim!AnswersTrue
  <2>4. Esim!Named(op.target)
    BY <2>3 DEF Esim!TargetNamed, Esim!Named
  <2>5. QED
    BY <2>1, <2>2, <2>3, <2>4 DEF DoneAsNamed, Esim!Changes
<1>4. CASE result' = result
  BY <1>1, <1>4
<1>5. CASE Esim!Known
  BY <1>5 DEF Esim!Known, Esim!AskedFor
<1>6. CASE Esim!AfterEid
  BY <1>1, <1>6 DEF Esim!AfterEid, Esim!AskedFor, Esim!Ends
<1>7. CASE Esim!Work
  BY <1>2, <1>3, <1>4, <1>5, <1>6, <1>7
  DEF Esim!Work, Esim!Open, Esim!Sweep, Esim!OpenAgain, Esim!Send, Esim!More, Esim!Fetch, Esim!Close,
      Esim!OpenFailed, Esim!AskPlain
<1>8. CASE ~Esim!Work
  BY <1>4, <1>8 DEF Esim!Next, Esim!Start, Esim!Swap, Esim!Notice, esimVars
<1>9. QED
  BY <1>7, <1>8

\* Between two operations no logical channel stays open but those whose answer was
\* lost, and the EID kept is the card's (idf_esim.cpp:405-459, 677-718).
THEOREM ChannelsReturnedEidCurrent == Spec => []EsimSound
<1>1. Init => Esim!EsimInv
  BY EsimInit
<1>2. (runs = "Esim" => Esim!EsimInv) /\ [Next]_vars => (runs = "Esim" => Esim!EsimInv)'
  BY OneRuns, EsimStep
<1>3. (runs = "Esim" => Esim!EsimInv) => EsimSound
  BY DEF EsimSound, Esim!EsimInv, Esim!Shaped, Esim!ChannelsKnown, Esim!ChannelsReturned
<1>4. QED
  BY <1>1, <1>2, <1>3, PTL DEF Spec

\* An alias of two profiles is refused, and success means done by the card to a profile
\* of that name (idf_esim.cpp:796-944).
THEOREM EsimActsAsNamed == Spec => EsimActs
<1>1. Init => Esim!EsimInv
  BY EsimInit
<1>2. (runs = "Esim" => Esim!EsimInv) /\ [Next]_vars => (runs = "Esim" => Esim!EsimInv)'
  BY OneRuns, EsimStep
<1>3. UNCHANGED esimVars <=> UNCHANGED Esim!vars
  BY DEF esimVars, Esim!vars, Esim!cards, Esim!session, Esim!eids, Esim!bounds
<1>4. (runs = "Esim" => Esim!EsimInv) /\ [Next]_vars
        => [ on' # on \/ there' # there =>
               \/ op.kind = "switch" \/ Esim!Direct(op.id)
               \/ {p \in there[card] : Alias[p] = op.id} = {op.target} ]_Esim!vars
  BY <1>3, OneRuns, ChangesTheNamed
<1>5. (runs = "Esim" => Esim!EsimInv) /\ [Next]_vars
        => [ esimPc # "idle" /\ result' = "ok" /\ ~swapped' =>
               /\ op.kind \in {"enable", "switch"} => Esim!Named(on[card])
               /\ op.kind = "disable" => Esim!Named(op.target) /\ on[card] # op.target
               /\ op.kind = "delete" => Esim!Named(op.target) /\ op.target \notin there[card]
           ]_Esim!vars
  BY <1>3, OneRuns, OkIsDone DEF DoneAsNamed
<1>6. QED
  BY <1>1, <1>2, <1>4, <1>5, PTL DEF Spec, EsimActs, Esim!NeverGuesses, Esim!OkMeansDone
-----------------------------------------------------------------------------
(* The settings.                                                           *)

\* The keys of the configuration, one by one.
LEMMA ConfigNames == Config!ToSet(Config!AllKeys) =
   {"wifiSsid", "wifiPass", "smtpServer", "smtpPass", "adminPhone", "webUser", "webPass",
    "numBlkList", "fwdRules", "emailEn", "pushEn", "kaEn", "kaDays", "kaProfile", "kaLast",
    "tzMin", "ntpSrv", "rbEn", "hbEn", "netLed", "callNotify", "dataEn", "apn",
    "push0en", "push0url", "st0En", "st0Last"}
<1> DEFINE S == {"wifiSsid", "wifiPass", "smtpServer", "smtpPass", "adminPhone", "webUser", "webPass",
    "numBlkList", "fwdRules", "emailEn", "pushEn", "kaEn", "kaDays", "kaProfile", "kaLast",
    "tzMin", "ntpSrv", "rbEn", "hbEn", "netLed", "callNotify", "dataEn", "apn",
    "push0en", "push0url", "st0En", "st0Last"}
<1>1. Config!ToSet(Config!AllKeys) \subseteq S
  BY DEF Config!AllKeys, Config!ToSet
<1>2. S \subseteq Config!ToSet(Config!AllKeys)
  BY DEF Config!AllKeys, Config!ToSet
<1>3. QED
  BY <1>1, <1>2

\* Sequences of one to three elements.
LEMMA ShortSequences ==
  ASSUME NEW S
  PROVE  /\ \A x \in S : <<x>> \in Seq(S)
         /\ \A x, y \in S : <<x, y>> \in Seq(S)
         /\ \A x, y, z \in S : <<x, y, z>> \in Seq(S)
<1>1. \A x \in S : <<x>> \in Seq(S)
  OBVIOUS
<1>2. \A x, y \in S : <<x, y>> \in Seq(S)
  OBVIOUS
<1>3. \A x, y, z \in S : <<x, y, z>> \in Seq(S)
  OBVIOUS
<1>4. QED
  BY <1>1, <1>2, <1>3

\* What a form and the list of all keys are made of.
LEMMA ConfigForms ==
  /\ \A f \in Forms \cup {Config!TaskForm} : f.keys \in Seq(Config!ToSet(Config!AllKeys))
  /\ Config!AllKeys \in Seq(Config!ToSet(Config!AllKeys))
<1> DEFINE S == Config!ToSet(Config!AllKeys)
<1>1. \A f \in Config!AllForms : f.keys \in Seq(S)
  <2>1. Config!WifiForm.keys \in Seq(S)
    <3>1. <<"wifiSsid", "wifiPass">> \in Seq(S)
      BY ConfigNames, ShortSequences
    <3>2. QED
      BY <3>1 DEF Config!WifiForm, Config!Form
  <2>2. Config!AccountForm.keys \in Seq(S)
    <3>1. <<"webUser", "webPass">> \in Seq(S)
      BY ConfigNames, ShortSequences
    <3>2. QED
      BY <3>1 DEF Config!AccountForm, Config!Form
  <2>3. Config!TimeForm.keys \in Seq(S)
    <3>1. <<"tzMin", "ntpSrv">> \in Seq(S)
      BY ConfigNames, ShortSequences
    <3>2. QED
      BY <3>1 DEF Config!TimeForm, Config!Form
  <2>4. Config!EmailForm.keys \in Seq(S)
    <3>1. <<"smtpServer", "smtpPass", "emailEn">> \in Seq(S)
      BY ConfigNames, ShortSequences
    <3>2. QED
      BY <3>1 DEF Config!EmailForm, Config!Form
  <2>5. Config!PushForm.keys \in Seq(S)
    <3>1. <<"pushEn", "push0en", "push0url">> \in Seq(S)
      BY ConfigNames, ShortSequences
    <3>2. QED
      BY <3>1 DEF Config!PushForm, Config!Form
  <2>6. Config!FilterForm.keys \in Seq(S)
    <3>1. <<"adminPhone", "numBlkList">> \in Seq(S)
      BY ConfigNames, ShortSequences
    <3>2. QED
      BY <3>1 DEF Config!FilterForm, Config!Form
  <2>7. Config!RulesForm.keys \in Seq(S)
    <3>1. <<"fwdRules">> \in Seq(S)
      BY ConfigNames, ShortSequences
    <3>2. QED
      BY <3>1 DEF Config!RulesForm, Config!Form
  <2>8. Config!KeepaliveForm.keys \in Seq(S)
    <3>1. <<"kaEn", "kaDays", "kaProfile">> \in Seq(S)
      BY ConfigNames, ShortSequences
    <3>2. QED
      BY <3>1 DEF Config!KeepaliveForm, Config!Form
  <2>9. Config!SystemForm.keys \in Seq(S)
    <3>1. <<"rbEn", "hbEn">> \in Seq(S)
      BY ConfigNames, ShortSequences
    <3>2. QED
      BY <3>1 DEF Config!SystemForm, Config!Form
  <2>10. Config!SimForm.keys \in Seq(S)
    <3>1. <<"dataEn", "apn">> \in Seq(S)
      BY ConfigNames, ShortSequences
    <3>2. QED
      BY <3>1 DEF Config!SimForm, Config!Form
  <2>11. Config!NetLedForm.keys \in Seq(S)
    <3>1. <<"netLed">> \in Seq(S)
      BY ConfigNames, ShortSequences
    <3>2. QED
      BY <3>1 DEF Config!NetLedForm, Config!Form
  <2>12. Config!CallNotifyForm.keys \in Seq(S)
    <3>1. <<"callNotify">> \in Seq(S)
      BY ConfigNames, ShortSequences
    <3>2. QED
      BY <3>1 DEF Config!CallNotifyForm, Config!Form
  <2>13. Config!TaskForm.keys \in Seq(S)
    <3>1. <<"st0En", "st0Last">> \in Seq(S)
      BY ConfigNames, ShortSequences
    <3>2. QED
      BY <3>1 DEF Config!TaskForm, Config!Form
  <2>14. QED
    BY <2>1, <2>2, <2>3, <2>4, <2>5, <2>6, <2>7, <2>8, <2>9, <2>10, <2>11, <2>12, <2>13 DEF Config!AllForms
<1>2. Config!AllKeys \in Seq(S)
  BY ConfigNames DEF Config!AllKeys
<1>3. QED
  BY <1>1, <1>2, ConfigAssumption DEF Config!ConfigAssumption, Config!AllForms

\* The keys the jobs write are keys.
LEMMA ConfigKeys ==
  /\ {"kaLast", "st0Last", "st0En"} \subseteq Config!Keys
  /\ Config!Progress \subseteq Config!Keys
  /\ Config!Progress \cap (Config!Secrets \cup Config!NeverBlank) = {}
<1>1. "st0En" \in Config!ToSet(Config!TaskForm.keys)
  <2>1. Config!TaskForm.keys = <<"st0En", "st0Last">>
    BY DEF Config!TaskForm, Config!Form
  <2>2. QED
    BY <2>1 DEF Config!ToSet
<1>2. QED
  BY <1>1 DEF Config!Keys, Config!Progress, Config!Secrets, Config!NeverBlank

\* The bounds are numbers.
LEMMA ConfigNumbers ==
  /\ MaxSaves \in Nat /\ MaxTime \in Nat /\ MaxRestarts \in Nat /\ Config!Redacted \in Nat
  /\ MaxSaves < Config!Redacted /\ MaxTime < Config!Redacted /\ 1 < Config!Redacted
  /\ Config!Legacy \in 0 .. Config!Redacted - 1
  /\ None \notin Config!Save /\ None \notin Config!Settings /\ None \notin Config!Threads
  /\ Config!Default \in Config!Settings /\ \A k \in Config!Keys : Config!Default[k] = 0
BY ConfigAssumption DEF Config!ConfigAssumption, Config!Redacted, Config!Legacy, Config!Threads,
   Config!Default, Config!Settings

\* What is loaded at start-up is settings.
LEMMA ConfigLoad ==
  ASSUME NEW f \in Config!Settings
  PROVE  /\ Config!Load(f) \in Config!Settings
         /\ \A k \in Config!Keys : Config!Load(f)[k] \in {f[k], Config!Legacy}
         /\ \A k \in Config!Keys : ~(legacy /\ k \in Config!Migrated) => Config!Load(f)[k] = f[k]
BY ConfigNumbers DEF Config!Load, Config!Settings

LEMMA ConfigInit == Init => Config!ConfigInv
<1> SUFFICES ASSUME Init PROVE Config!ConfigInv
  OBVIOUS
<1> USE DEF Init, Config!Init
<1>1. nvs = Config!Default /\ ram = Config!Load(nvs) /\ nvs \in Config!Settings /\ ram \in Config!Settings
  BY ConfigNumbers, ConfigLoad
<1>2. legacy \in BOOLEAN
  BY ConfigAssumption DEF Config!ConfigAssumption
<1>3. \A t \in Config!Threads : save[t] = None
  OBVIOUS
<1>4. Config!TypeOK
  BY <1>1, <1>2, <1>3, ConfigNumbers, ConfigAssumption
  DEF Config!TypeOK, Config!Writes, Config!ConfigAssumption
<1>5. Config!RestartKeeps
  BY <1>1 DEF Config!RestartKeeps
<1>6. Config!NowhereRedacted
  BY <1>1, <1>3, ConfigNumbers, ConfigLoad DEF Config!NowhereRedacted
<1>7. Config!WrittenSoFar /\ Config!NoNews
  BY <1>3 DEF Config!WrittenSoFar, Config!NoNews, Config!Threads
<1>8. QED
  BY <1>4, <1>5, <1>6, <1>7 DEF Config!ConfigInv

\* A save that is asked for.
LEMMA ConfigAsk ==
  ASSUME Config!ConfigInv, NEW t \in Config!Threads, NEW keys \in Seq(Config!ToSet(Config!AllKeys)),
         NEW value \in Config!Settings, NEW base \in Config!Settings \cup {None},
         Config!Ask(t, keys, value, base), now' \in 0 .. MaxTime, saves' \in 0 .. MaxSaves,
         \A k \in Config!Keys : value[k] # Config!Redacted,
         base # None => /\ t = "web" /\ file # None
                        /\ \A k \in Config!Progress : file[k] = base[k] => value[k] = base[k]
  PROVE  Config!ConfigInv'
<1> USE DEF Config!ConfigInv, Config!Ask
<1> DEFINE new == [keys |-> keys, value |-> value, base |-> base, locked |-> FALSE, at |-> 0]
<1>1. /\ new \in Config!Save /\ new # None
      /\ new.value = value /\ new.base = base /\ new.at = 0 /\ ~new.locked
  <2>1. new.value = value /\ new.base = base /\ new.at = 0
    OBVIOUS
  <2>2. ~new.locked
    BY Zenon
  <2>3. new \in Config!Save
    BY DEF Config!Save
  <2>4. QED
    BY <2>1, <2>2, <2>3, ConfigNumbers
<1>2. save \in [Config!Threads -> Config!Save \cup {None}]
  BY DEF Config!TypeOK
<1>3. /\ save[t] = None /\ save'[t] = new /\ \A u \in Config!Threads \ {t} : save'[u] = save[u]
      /\ save' \in [Config!Threads -> Config!Save \cup {None}]
  BY <1>1, <1>2
<1> HIDE DEF new
<1>4. \A u \in Config!Threads : Config!Writes(u)' = Config!Writes(u)
  BY <1>1, <1>3 DEF Config!Writes
<1>5. Config!TypeOK'
  BY <1>3, <1>4 DEF Config!TypeOK
<1>6. Config!RestartKeeps'
  BY DEF Config!RestartKeeps, Config!Load
<1>7. Config!NowhereRedacted'
  BY <1>1, <1>3 DEF Config!NowhereRedacted
<1>8. Config!WrittenSoFar'
  BY <1>1, <1>3 DEF Config!WrittenSoFar
<1>9. Config!NoNews'
  BY <1>1, <1>3 DEF Config!NoNews, Config!Threads
<1>10. QED
  BY <1>5, <1>6, <1>7, <1>8, <1>9

\* The types of what the steps read.
LEMMA ConfigTyped ==
  ASSUME Config!TypeOK
  PROVE  /\ nvs \in Config!Settings /\ ram \in Config!Settings /\ file \in Config!Settings \cup {None}
         /\ \A k \in Config!Keys : nvs[k] \in 0 .. Config!Redacted /\ ram[k] \in 0 .. Config!Redacted
         /\ save \in [Config!Threads -> Config!Save \cup {None}]
         /\ \A t \in Config!Threads : save[t] # None =>
              /\ save[t] \in Config!Save /\ save[t].value \in Config!Settings /\ save[t].at \in Nat
              /\ save[t].keys \in Seq(Config!ToSet(Config!AllKeys)) /\ save[t].base \in Config!Settings \cup {None}
BY DEF Config!TypeOK, Config!Save, Config!Settings

\* A form is saved: the keys it changes are to be written.
LEMMA ConfigSaveForm ==
  ASSUME Config!ConfigInv, Config!SaveForm
  PROVE  Config!ConfigInv'
<1>1. PICK f \in Forms, blank \in BOOLEAN :
        Config!Ask("web", f.keys,
          [k \in Config!Keys |-> IF ~blank THEN saves' ELSE IF k \in f.kept THEN ram[k] ELSE 0], None)
  BY Zenon DEF Config!SaveForm
<1> DEFINE value == [k \in Config!Keys |-> IF ~blank THEN saves' ELSE IF k \in f.kept THEN ram[k] ELSE 0]
<1>2. saves' \in 0 .. MaxSaves
  BY ConfigNumbers DEF Config!SaveForm, Config!UserSaves, Config!ConfigInv, Config!TypeOK
<1>3. value \in Config!Settings /\ \A k \in Config!Keys : value[k] # Config!Redacted
  BY <1>2, ConfigNumbers, ConfigTyped DEF Config!Settings, Config!ConfigInv, Config!NowhereRedacted
<1>4. f.keys \in Seq(Config!ToSet(Config!AllKeys))
  BY ConfigForms
<1>5. now' \in 0 .. MaxTime /\ saves' \in 0 .. MaxSaves
  BY ConfigNumbers DEF Config!SaveForm, Config!UserSaves, Config!ConfigInv, Config!TypeOK
<1> HIDE DEF value
<1>6. Config!Ask("web", f.keys, value, None)
  BY <1>1 DEF value
<1>7. "web" \in Config!Threads
  BY DEF Config!Threads
<1>8. QED
  BY <1>3, <1>4, <1>5, <1>6, <1>7, ConfigAsk

\* The jobs' form is saved.
LEMMA ConfigSaveTasks ==
  ASSUME Config!ConfigInv, Config!SaveTasks
  PROVE  Config!ConfigInv'
<1>1. PICK enable \in {0, 1} :
        Config!Ask("web", Config!TaskForm.keys,
          [Config!Default EXCEPT !["st0En"] = enable,
                           !["st0Last"] = IF enable = 1 /\ ram["st0En"] = 0 /\ ram["st0Last"] = 0
                                          THEN now ELSE ram["st0Last"]], None)
  BY DEF Config!SaveTasks
<1> DEFINE since0 == IF enable = 1 /\ ram["st0En"] = 0 /\ ram["st0Last"] = 0 THEN now ELSE ram["st0Last"]
           value == [Config!Default EXCEPT !["st0En"] = enable, !["st0Last"] = since0]
<1>2. now' = now /\ now \in 0 .. MaxTime /\ MaxSaves >= 1
  BY ConfigNumbers DEF Config!SaveTasks, Config!UserSaves, Config!ConfigInv, Config!TypeOK
<1>3. since0 \in 0 .. Config!Redacted /\ since0 # Config!Redacted
  BY <1>2, ConfigNumbers, ConfigKeys, ConfigTyped DEF Config!ConfigInv, Config!NowhereRedacted
<1>4. value \in Config!Settings /\ \A k \in Config!Keys : value[k] # Config!Redacted
  <2> HIDE DEF since0
  <2>1. enable \in 0 .. Config!Redacted /\ enable # Config!Redacted
    BY <1>2, ConfigNumbers
  <2>2. value = [k \in Config!Keys |-> IF k = "st0Last" THEN since0 ELSE IF k = "st0En" THEN enable ELSE 0]
    BY ConfigKeys DEF Config!Default
  <2> HIDE DEF value
  <2>3. QED
    BY <1>3, <2>1, <2>2, ConfigNumbers DEF Config!Settings
<1>5. Config!TaskForm.keys \in Seq(Config!ToSet(Config!AllKeys))
  BY ConfigForms
<1>6. Config!Ask("web", Config!TaskForm.keys, value, None)
  BY <1>1
<1> HIDE DEF value
<1>7. "web" \in Config!Threads /\ now' \in 0 .. MaxTime
  BY <1>2 DEF Config!Threads
<1> HIDE DEF since0
<1>8. None \in Config!Settings \cup {None} /\ saves' \in 0 .. MaxSaves
  BY ConfigNumbers DEF Config!SaveTasks, Config!UserSaves, Config!ConfigInv, Config!TypeOK
<1>9. QED
  BY <1>4, <1>5, <1>6, <1>7, <1>8, ConfigAsk

\* A backup is imported: the jobs' progress stays what it is.
LEMMA ConfigImport ==
  ASSUME Config!ConfigInv, Config!Import
  PROVE  Config!ConfigInv'
<1>1. PICK some \in {Config!Keys, Config!Keys \ Config!Progress},
           blank \in SUBSET Config!NeverBlank, json \in BOOLEAN :
        Config!Ask("web", Config!AllKeys,
           [k \in Config!Keys |-> IF k \in blank THEN (IF json THEN 0 ELSE ram[k])
                                 ELSE IF k \in some THEN Config!Imported(k) ELSE ram[k]], ram)
  BY Zenon DEF Config!Import
<1> DEFINE value == [k \in Config!Keys |-> IF k \in blank THEN (IF json THEN 0 ELSE ram[k])
                                          ELSE IF k \in some THEN Config!Imported(k) ELSE ram[k]]
<1>2. file \in Config!Settings /\ ram \in Config!Settings /\ file # None
  BY ConfigTyped DEF Config!Import, Config!ConfigInv
<1>3. \A k \in Config!Keys :
        Config!Imported(k) \in 0 .. Config!Redacted /\ Config!Imported(k) # Config!Redacted
  BY <1>2 DEF Config!Imported, Config!Settings, Config!ConfigInv, Config!NowhereRedacted
<1>4. value \in Config!Settings /\ \A k \in Config!Keys : value[k] # Config!Redacted
  BY <1>2, <1>3, ConfigNumbers DEF Config!Settings, Config!ConfigInv, Config!NowhereRedacted
<1>5. \A k \in Config!Progress : file[k] = ram[k] => value[k] = ram[k]
  BY ConfigKeys DEF Config!Imported
<1>6. Config!AllKeys \in Seq(Config!ToSet(Config!AllKeys))
  BY ConfigForms
<1>7. now' \in 0 .. MaxTime /\ saves' \in 0 .. MaxSaves
  BY ConfigNumbers DEF Config!Import, Config!UserSaves, Config!ConfigInv, Config!TypeOK
<1>8. Config!Ask("web", Config!AllKeys, value, ram)
  BY <1>1
<1> HIDE DEF value
<1>9. "web" \in Config!Threads
  BY DEF Config!Threads
<1>10. QED
  BY <1>2, <1>4, <1>5, <1>6, <1>7, <1>8, <1>9, ConfigAsk

\* A job writes its progress.
LEMMA ConfigProgress ==
  ASSUME Config!ConfigInv, Config!WriteProgress
  PROVE  Config!ConfigInv'
<1>1. PICK k \in Config!Progress : Config!Ask("job", <<k>>, [Config!Default EXCEPT ![k] = now'], None)
  BY DEF Config!WriteProgress
<1> DEFINE value == [Config!Default EXCEPT ![k] = now']
<1>2. now' \in 0 .. MaxTime /\ saves' \in 0 .. MaxSaves
  BY ConfigNumbers DEF Config!WriteProgress, Config!ConfigInv, Config!TypeOK
<1>3. value \in Config!Settings /\ \A j \in Config!Keys : value[j] # Config!Redacted
  <2>1. value = [j \in Config!Keys |-> IF j = k THEN now' ELSE 0]
    BY ConfigKeys DEF Config!Default
  <2> HIDE DEF value
  <2>2. QED
    BY <1>2, <2>1, ConfigNumbers DEF Config!Settings
<1>4. <<k>> \in Seq(Config!ToSet(Config!AllKeys))
  BY ConfigNames, ShortSequences DEF Config!Progress
<1>5. Config!Ask("job", <<k>>, value, None)
  BY <1>1
<1> HIDE DEF value
<1>6. "job" \in Config!Threads
  BY DEF Config!Threads
<1>7. QED
  BY <1>2, <1>3, <1>4, <1>5, <1>6, ConfigAsk

\* The one that writes is the one that has the lock.
LEMMA ConfigBegin ==
  ASSUME Config!ConfigInv, NEW t \in Config!Threads, Config!Begin(t)
  PROVE  Config!ConfigInv'
<1> USE DEF Config!ConfigInv, Config!Begin, Config!Lock
<1> DEFINE new == [save[t] EXCEPT !.locked = TRUE, !.value = Config!Merged(save[t])]
<1>1. /\ save \in [Config!Threads -> Config!Save \cup {None}] /\ save[t] # None
      /\ save[t] \in Config!Save /\ save[t].value \in Config!Settings
  BY ConfigTyped DEF Config!Waits
<1>2. Config!Merged(save[t]) \in Config!Settings
  BY <1>1, ConfigTyped DEF Config!Merged, Config!Settings
<1>3. /\ new \in Config!Save /\ new.value = Config!Merged(save[t])
      /\ new.keys = save[t].keys /\ new.base = save[t].base /\ new.at = save[t].at
  <2> DEFINE merged == Config!Merged(save[t])
             old == save[t]
  <2> HIDE DEF merged, old
  <2>1. old \in Config!Save /\ merged \in Config!Settings
    BY <1>1, <1>2 DEF merged, old
  <2>2. LET rec == [old EXCEPT !.locked = TRUE, !.value = merged]
        IN rec \in Config!Save /\ rec.value = merged /\ rec.keys = old.keys /\ rec.base = old.base /\ rec.at = old.at
    BY <2>1 DEF Config!Save
  <2>3. QED
    BY <2>2 DEF merged, old
<1>4. new.locked
  <2>1. new.locked = TRUE
    BY <1>1 DEF Config!Save
  <2>2. QED
    BY <2>1
<1>5. new # None
  BY <1>3, ConfigNumbers
<1> HIDE DEF new
<1>6. /\ save'[t] = new /\ (\A u \in Config!Threads \ {t} : save'[u] = save[u])
      /\ save' \in [Config!Threads -> Config!Save \cup {None}]
  BY <1>1, <1>3 DEF new
<1>7. ~save[t].locked /\ \A u \in Config!Threads : ~Config!Writes(u)
  BY ConfigNumbers DEF Config!Waits, Config!TypeOK
<1>8. \A u \in Config!Threads : Config!Writes(u)' <=> u = t
  BY <1>4, <1>5, <1>6, <1>7 DEF Config!Writes
<1>9. Config!TypeOK'
  BY <1>6, <1>8, ConfigNumbers DEF Config!TypeOK, Config!bounds
<1>10. Config!RestartKeeps'
  BY DEF Config!RestartKeeps, Config!Load
<1>11. Config!NowhereRedacted'
  <2>1. /\ nvs' = nvs /\ ram' = ram
        /\ \A k \in Config!Keys : Config!Redacted \notin {ram[k], nvs[k]}
        /\ \A u \in Config!Threads : save[u] # None => \A k \in Config!Keys : save[u].value[k] # Config!Redacted
    BY DEF Config!NowhereRedacted
  <2>2. \A k \in Config!Keys : new.value[k] # Config!Redacted
    <3>1. \A k \in Config!Keys : Config!Merged(save[t])[k] \in {ram[k], save[t].value[k]}
      BY DEF Config!Merged
    <3>2. QED
      BY <1>1, <1>3, <2>1, <3>1
  <2>3. \A u \in Config!Threads : save'[u] # None => \A k \in Config!Keys : save'[u].value[k] # Config!Redacted
    BY <1>6, <2>1, <2>2
  <2>4. QED
    BY <2>1, <2>3 DEF Config!NowhereRedacted
<1>12. Config!WrittenSoFar'
  BY <1>1, <1>3, <1>4, <1>6, <1>7 DEF Config!WrittenSoFar
<1>13. Config!NoNews'
  BY <1>1, <1>3, <1>4, <1>6, <1>7, ConfigKeys, SMTT(30) DEF Config!NoNews, Config!Threads, Config!Merged
<1>14. QED
  BY <1>9, <1>10, <1>11, <1>12, <1>13

\* One key is written, or its write fails.
LEMMA ConfigWriteKey ==
  ASSUME Config!ConfigInv, NEW t \in Config!Threads, Config!WriteKey(t)
  PROVE  Config!ConfigInv'
<1> USE DEF Config!ConfigInv
<1>1. /\ save \in [Config!Threads -> Config!Save \cup {None}] /\ save[t] # None /\ save[t].locked
      /\ save[t] \in Config!Save /\ save[t].value \in Config!Settings /\ save[t].at \in Nat
      /\ save[t].keys \in Seq(Config!ToSet(Config!AllKeys))
  BY ConfigTyped DEF Config!WriteKey, Config!Writes
<1>2. PICK i \in Config!Left(save[t]) :
        /\ \A j \in Config!Left(save[t]) : i <= j
        /\ nvs' = [nvs EXCEPT ![save[t].keys[i]] = save[t].value[save[t].keys[i]]]
        /\ configBroken' = configBroken \cup {save[t].keys[i]}
        /\ save' = [save EXCEPT ![t] = [save[t] EXCEPT !.at = i]]
  BY DEF Config!WriteKey
<1> DEFINE new == [save[t] EXCEPT !.at = i]
           k == save[t].keys[i]
<1>3. i \in save[t].at + 1 .. Len(save[t].keys) /\ k \in Config!Keys /\ i \in Nat /\ i \in DOMAIN save[t].keys
  BY <1>1 DEF Config!Left
<1>4. /\ new \in Config!Save /\ new.value = save[t].value /\ new.at = i /\ new.locked = save[t].locked
      /\ new.keys = save[t].keys /\ new.base = save[t].base
  BY <1>1, <1>3 DEF Config!Save
<1>5. new # None
  BY <1>4, ConfigNumbers
<1> HIDE DEF new
<1>6. /\ save'[t] = new /\ (\A u \in Config!Threads \ {t} : save'[u] = save[u])
      /\ save' \in [Config!Threads -> Config!Save \cup {None}]
  BY <1>1, <1>2, <1>4 DEF new
<1>7. \A u \in Config!Threads : Config!Writes(u)' <=> Config!Writes(u)
  BY <1>1, <1>4, <1>5, <1>6 DEF Config!Writes
<1>8. \A u \in Config!Threads : Config!Writes(u) <=> u = t
  BY ConfigNumbers DEF Config!TypeOK, Config!WriteKey
<1>9. nvs' \in Config!Settings /\ \A j \in Config!Keys : nvs'[j] = IF j = k THEN save[t].value[k] ELSE nvs[j]
  BY <1>1, <1>2, <1>3, ConfigTyped DEF Config!Settings
<1>10. Config!TypeOK'
  BY <1>2, <1>3, <1>6, <1>7, <1>9 DEF Config!TypeOK, Config!WriteKey, Config!bounds
<1>11. Config!RestartKeeps'
  BY <1>2, <1>9 DEF Config!RestartKeeps, Config!Load, Config!WriteKey
<1>12. Config!NowhereRedacted'
  BY <1>1, <1>3, <1>4, <1>6, <1>9 DEF Config!NowhereRedacted, Config!WriteKey
<1>13. Config!WrittenSoFar'
  <2>1. ASSUME NEW j \in 1 .. i, j \in DOMAIN save[t].keys, save[t].keys[j] \in Config!Keys
        PROVE  nvs'[save[t].keys[j]] = save[t].value[save[t].keys[j]]
    <3>1. CASE save[t].keys[j] = k
      BY <1>9, <2>1, <3>1
    <3>2. CASE save[t].keys[j] # k
      <4>1. j \notin Config!Left(save[t])
        BY <1>2, <1>3, <2>1, <3>2 DEF Config!Left
      <4>2. j \in 1 .. save[t].at
        BY <1>1, <1>3, <2>1, <4>1 DEF Config!Left
      <4>3. QED
        BY <1>1, <1>9, <2>1, <3>2, <4>2 DEF Config!WrittenSoFar
    <3>3. QED
      BY <3>1, <3>2
  <2>2. ASSUME NEW u \in Config!Threads, u # t, save[u] # None
        PROVE  save[u].at = 0
    BY <1>8, <2>2 DEF Config!WrittenSoFar, Config!Writes
  <2>3. save'[t].locked \/ save'[t].at = 0
    BY <1>1, <1>4, <1>6
  <2>4. \A j \in 1 .. save'[t].at : j \in DOMAIN save'[t].keys /\ save'[t].keys[j] \in Config!Keys
                                                  => nvs'[save'[t].keys[j]] = save'[t].value[save'[t].keys[j]]
    BY <1>4, <1>6, <2>1
  <2>5. ASSUME NEW u \in Config!Threads, u # t, save'[u] # None
        PROVE  /\ save'[u].at = 0
               /\ \A j \in 1 .. save'[u].at : j \in DOMAIN save'[u].keys /\ save'[u].keys[j] \in Config!Keys
                                                  => nvs'[save'[u].keys[j]] = save'[u].value[save'[u].keys[j]]
    <3>1. save'[u].at = 0
      BY <1>6, <2>2, <2>5
    <3>2. 1 .. save'[u].at = {}
      BY <3>1
    <3>3. QED
      BY <3>1, <3>2
  <2>6. QED
    BY <2>3, <2>4, <2>5 DEF Config!WrittenSoFar
<1>14. Config!NoNews'
  BY <1>1, <1>4, <1>5, <1>6 DEF Config!NoNews, Config!Threads, Config!WriteKey
<1>15. QED
  BY <1>10, <1>11, <1>12, <1>13, <1>14

\* A save that ends gives the lock back.
LEMMA ConfigLeave ==
  ASSUME Config!ConfigInv, NEW t \in Config!Threads, Config!Writes(t), Config!Leave(t)
  PROVE  /\ save' \in [Config!Threads -> Config!Save \cup {None}]
         /\ save'[t] = None /\ persist' = None /\ \A u \in Config!Threads : save'[u] \in {None, save[u]}
         /\ \A u \in Config!Threads : ~Config!Writes(u)'
         /\ \A u \in Config!Threads : save'[u] # None => save'[u] = save[u] /\ ~save[u].locked /\ save[u].at = 0
<1> USE DEF Config!ConfigInv, Config!Leave
<1>1. save \in [Config!Threads -> Config!Save \cup {None}]
  BY DEF Config!TypeOK
<1>2. /\ save' \in [Config!Threads -> Config!Save \cup {None}]
      /\ save'[t] = None /\ \A u \in Config!Threads \ {t} : save'[u] = save[u]
  BY <1>1
<1>3. \A u \in Config!Threads : u # t => ~Config!Writes(u)
  BY ConfigNumbers DEF Config!TypeOK
<1>4. \A u \in Config!Threads : save'[u] # None => u # t /\ save'[u] = save[u] /\ ~save[u].locked
  BY <1>2, <1>3 DEF Config!Writes
<1>5. \A u \in Config!Threads : save'[u] # None => save[u].at = 0
  BY <1>4 DEF Config!WrittenSoFar
<1>6. \A u \in Config!Threads : ~Config!Writes(u)'
  BY <1>4 DEF Config!Writes
<1>7. QED
  BY <1>2, <1>4, <1>5, <1>6

\* What a save that has ended leaves true of the others.
LEMMA ConfigOthers ==
  ASSUME Config!ConfigInv, NEW t \in Config!Threads, Config!Writes(t), Config!Leave(t), UNCHANGED <<nvs, file>>
  PROVE  Config!WrittenSoFar' /\ Config!NoNews'
<1>1. \A u \in Config!Threads : save'[u] # None => save'[u] = save[u] /\ ~save[u].locked /\ save[u].at = 0
  BY ConfigLeave
<1>2. Config!WrittenSoFar'
  <2>1. ASSUME NEW u \in Config!Threads, save'[u] # None
        PROVE  save'[u].at = 0 /\ 1 .. save'[u].at = {}
    BY <1>1, <2>1
  <2>2. QED
    BY <2>1 DEF Config!WrittenSoFar
<1>3. Config!NoNews'
  BY <1>1 DEF Config!NoNews, Config!Threads, Config!ConfigInv
<1>4. QED
  BY <1>2, <1>3

\* A save fails as a whole.
LEMMA ConfigSaveFails ==
  ASSUME Config!ConfigInv, NEW t \in Config!Threads, Config!SaveFails(t)
  PROVE  Config!ConfigInv'
<1> USE DEF Config!ConfigInv, Config!SaveFails
<1>1. /\ save' \in [Config!Threads -> Config!Save \cup {None}] /\ persist' = None
      /\ \A u \in Config!Threads : ~Config!Writes(u)'
      /\ \A u \in Config!Threads : save'[u] \in {None, save[u]}
  BY ConfigLeave
<1>2. Config!TypeOK'
  BY <1>1, ConfigNumbers DEF Config!TypeOK
<1>3. Config!RestartKeeps'
  BY DEF Config!RestartKeeps, Config!Load
<1>4. Config!NowhereRedacted'
  BY <1>1 DEF Config!NowhereRedacted
<1>5. Config!WrittenSoFar' /\ Config!NoNews'
  BY ConfigOthers
<1>6. QED
  BY <1>2, <1>3, <1>4, <1>5

\* A save ends: what was written is in use.
LEMMA ConfigApply ==
  ASSUME Config!ConfigInv, NEW t \in Config!Threads, Config!Apply(t)
  PROVE  Config!ConfigInv'
<1> USE DEF Config!ConfigInv, Config!Apply
<1>1. /\ save' \in [Config!Threads -> Config!Save \cup {None}] /\ persist' = None
      /\ \A u \in Config!Threads : ~Config!Writes(u)'
      /\ \A u \in Config!Threads : save'[u] \in {None, save[u]}
  BY ConfigLeave
<1> DEFINE new == save[t].keys
           got == save[t].value
<1>2. /\ save[t] # None /\ got \in Config!Settings /\ save[t].at \in Nat
      /\ new \in Seq(Config!ToSet(Config!AllKeys))
  BY ConfigTyped DEF Config!Writes
<1>3. ram' \in Config!Settings /\ \A k \in Config!Keys : ram'[k] = IF k \in Config!ToSet(new) THEN got[k] ELSE ram[k]
  BY <1>2, ConfigTyped DEF Config!Applied, Config!Settings
<1>4. \A k \in Config!Keys \cap Config!ToSet(new) : nvs[k] = got[k]
  <2>1. ASSUME NEW i \in DOMAIN new, new[i] \in Config!Keys
        PROVE  nvs[new[i]] = got[new[i]]
    <3>1. i \in 1 .. save[t].at
      BY <1>2, <2>1 DEF Config!Left
    <3>2. QED
      BY <1>2, <2>1, <3>1 DEF Config!WrittenSoFar
  <2>2. QED
    BY <2>1 DEF Config!ToSet
<1>5. Config!TypeOK'
  BY <1>1, <1>3, ConfigNumbers DEF Config!TypeOK, Config!bounds
<1>6. Config!RestartKeeps'
  <2>1. ASSUME NEW k \in Config!Keys, k \notin configBroken', ~(legacy /\ k \in Config!Migrated)
        PROVE  ram'[k] = nvs[k]
    <3>1. CASE k \in Config!ToSet(new)
      BY <1>3, <1>4, <3>1
    <3>2. CASE k \notin Config!ToSet(new)
      BY <1>3, <2>1, <3>2, ConfigTyped, ConfigLoad DEF Config!RestartKeeps
    <3>3. QED
      BY <3>1, <3>2
  <2>2. \A k \in Config!Keys : ~(legacy /\ k \in Config!Migrated) => Config!Load(nvs)[k] = nvs[k]
    BY ConfigTyped, ConfigLoad
  <2>3. \A k \in Config!Keys : (Config!Load(nvs)[k])' = Config!Load(nvs)[k]
    BY DEF Config!Load
  <2>4. legacy' = legacy
    OBVIOUS
  <2>5. QED
    BY <2>1, <2>2, <2>3, <2>4 DEF Config!RestartKeeps
<1>7. Config!NowhereRedacted'
  BY <1>1, <1>2, <1>3 DEF Config!NowhereRedacted
<1>8. Config!WrittenSoFar' /\ Config!NoNews'
  BY ConfigOthers
<1>9. QED
  BY <1>5, <1>6, <1>7, <1>8

\* A backup is exported: its secrets are placeholders.
LEMMA ConfigExport ==
  ASSUME Config!ConfigInv, Config!Export
  PROVE  Config!ConfigInv'
<1> USE DEF Config!ConfigInv, Config!Export
<1>1. file' \in Config!Settings
  <2>1. PICK full \in BOOLEAN : file' = [k \in Config!Keys |-> Config!Shown(full, k)]
    OBVIOUS
  <2>2. \A k \in Config!Keys : Config!Shown(full, k) \in 0 .. Config!Redacted
    BY ConfigTyped, ConfigNumbers DEF Config!Shown
  <2>3. QED
    BY <2>1, <2>2 DEF Config!Settings
<1>2. saves' \in 0 .. MaxSaves /\ now' \in 0 .. MaxTime
  BY ConfigNumbers DEF Config!TypeOK, Config!UserSaves
<1>3. Config!TypeOK'
  BY <1>1, <1>2 DEF Config!TypeOK, Config!Writes
<1>4. Config!RestartKeeps'
  BY DEF Config!RestartKeeps, Config!Load
<1>5. Config!NowhereRedacted' /\ Config!WrittenSoFar' /\ Config!NoNews'
  BY DEF Config!NowhereRedacted, Config!WrittenSoFar, Config!NoNews
<1>6. QED
  BY <1>3, <1>4, <1>5

\* A factory reset.
LEMMA ConfigReset ==
  ASSUME Config!ConfigInv, Config!FactoryReset
  PROVE  Config!ConfigInv'
<1> USE DEF Config!ConfigInv, Config!FactoryReset
<1>1. saves' \in 0 .. MaxSaves /\ now' \in 0 .. MaxTime
  BY ConfigNumbers DEF Config!TypeOK, Config!UserSaves
<1>2. /\ nvs' \in Config!Settings /\ ram' \in Config!Settings /\ legacy' \in BOOLEAN
      /\ configBroken' \subseteq Config!Keys
  <2>1. ram' \in {ram, Config!Default} /\ legacy' \in {legacy, FALSE}
    OBVIOUS
  <2>2. FALSE \in BOOLEAN /\ legacy \in BOOLEAN
    BY Zenon DEF Config!TypeOK
  <2>3. nvs' \in Config!Settings /\ configBroken' \subseteq Config!Keys
    BY ConfigNumbers DEF Config!TypeOK, Config!Settings, Config!Migrated
  <2>4. QED
    BY <2>1, <2>2, <2>3, ConfigNumbers DEF Config!TypeOK
<1>3. \A u \in Config!Threads : ~Config!Writes(u)
  BY ConfigNumbers DEF Config!TypeOK
<1>4. Config!TypeOK'
  BY <1>1, <1>2 DEF Config!TypeOK, Config!Writes
<1>5. Config!RestartKeeps'
  <2>1. CASE nvs' = Config!Default /\ ~legacy' /\ ram' = Config!Default
    BY <2>1 DEF Config!RestartKeeps, Config!Load, Config!Default
  <2>2. ASSUME NEW erased \in SUBSET Config!Keys, NEW old \in {legacy, FALSE}, ram' = ram,
               nvs' = [k \in Config!Keys |-> IF k \in erased THEN 0 ELSE nvs[k]], legacy' = old,
               configBroken' = configBroken \cup erased
                                 \cup (IF old = legacy THEN {} ELSE Config!Migrated)
        PROVE  Config!RestartKeeps'
    <3>1. ASSUME NEW k \in Config!Keys, k \notin configBroken', ~(legacy' /\ k \in Config!Migrated)
          PROVE  ram'[k] = (Config!Load(nvs)[k])'
      <4>1. k \notin configBroken /\ nvs'[k] = nvs[k]
        BY <2>2, <3>1
      <4>2. ~(legacy /\ k \in Config!Migrated)
        BY <2>2, <3>1
      <4>3. ram[k] = nvs[k]
        BY <4>1, <4>2 DEF Config!RestartKeeps, Config!Load
      <4>4. (Config!Load(nvs)[k])' = nvs'[k]
        BY <3>1 DEF Config!Load
      <4>5. QED
        BY <2>2, <4>1, <4>3, <4>4
    <3>2. QED
      BY <3>1 DEF Config!RestartKeeps
  <2>3. QED
    BY <2>1, <2>2
<1>6. Config!NowhereRedacted'
  <2>1. \A k \in Config!Keys : nvs'[k] \in {0, nvs[k]} /\ ram'[k] \in {0, ram[k]}
    BY ConfigNumbers
  <2>2. save' = save /\ 0 # Config!Redacted
    BY ConfigNumbers
  <2>3. QED
    BY <2>1, <2>2 DEF Config!NowhereRedacted
<1>7. Config!WrittenSoFar'
  <2>1. ASSUME NEW u \in Config!Threads, save[u] # None
        PROVE  save[u].at = 0 /\ 1 .. save[u].at = {}
    BY <1>3, <2>1 DEF Config!WrittenSoFar, Config!Writes
  <2>2. QED
    BY <2>1 DEF Config!WrittenSoFar
<1>8. Config!NoNews'
  BY DEF Config!NoNews
<1>9. QED
  BY <1>4, <1>5, <1>6, <1>7, <1>8

\* A restart gives back what was written.
LEMMA ConfigRestart ==
  ASSUME Config!ConfigInv, Config!Restart
  PROVE  Config!ConfigInv'
<1> USE DEF Config!ConfigInv, Config!Restart
<1>1. nvs \in Config!Settings /\ Config!Load(nvs) \in Config!Settings
      /\ \A k \in Config!Keys : Config!Load(nvs)[k] # Config!Redacted
  <2>1. nvs \in Config!Settings
    BY DEF Config!TypeOK
  <2>2. \A k \in Config!Keys : nvs[k] # Config!Redacted /\ Config!Legacy # Config!Redacted
    BY ConfigNumbers DEF Config!NowhereRedacted
  <2>3. QED
    BY <2>1, <2>2, ConfigLoad
<1>2. ram' \in Config!Settings /\ configBroken' \subseteq Config!Keys
      /\ \A k \in Config!Keys : ram'[k] # Config!Redacted
  BY <1>1, ConfigNumbers
<1>3. \A t \in Config!Threads : save'[t] = None
  OBVIOUS
<1>4. Config!TypeOK'
  BY <1>2, <1>3, ConfigNumbers DEF Config!TypeOK, Config!Writes
<1>5. Config!RestartKeeps'
  <2>1. CASE ram' = Config!Load(nvs)
    BY <2>1 DEF Config!RestartKeeps, Config!Load
  <2>2. CASE configBroken' = Config!Keys
    BY <2>2 DEF Config!RestartKeeps
  <2>3. QED
    BY <2>1, <2>2
<1>6. Config!NowhereRedacted'
  BY <1>2, <1>3 DEF Config!NowhereRedacted
<1>7. Config!WrittenSoFar' /\ Config!NoNews'
  BY <1>3 DEF Config!WrittenSoFar, Config!NoNews, Config!Threads
<1>8. QED
  BY <1>4, <1>5, <1>6, <1>7

\* All of it together.
LEMMA ConfigStep == Config!ConfigInv /\ [Config!Next]_(Config!vars) => Config!ConfigInv'
<1> SUFFICES ASSUME Config!ConfigInv, [Config!Next]_(Config!vars) PROVE Config!ConfigInv'
  OBVIOUS
<1>1. CASE Config!SaveForm
  BY <1>1, ConfigSaveForm
<1>2. CASE Config!SaveTasks
  BY <1>2, ConfigSaveTasks
<1>3. CASE Config!Export
  BY <1>3, ConfigExport
<1>4. CASE Config!Import
  BY <1>4, ConfigImport
<1>5. CASE Config!WriteProgress
  BY <1>5, ConfigProgress
<1>6. CASE Config!FactoryReset
  BY <1>6, ConfigReset
<1>7. CASE Config!Restart
  BY <1>7, ConfigRestart
<1>8. CASE \E t \in Config!Threads : Config!Saves(t)
  BY <1>8, ConfigBegin, ConfigWriteKey, ConfigSaveFails, ConfigApply DEF Config!Saves
<1>9. CASE UNCHANGED Config!vars
  BY <1>9 DEF Config!vars, Config!bounds, Config!ConfigInv, Config!TypeOK, Config!RestartKeeps,
     Config!NowhereRedacted, Config!WrittenSoFar, Config!NoNews, Config!Load, Config!Writes
<1>10. QED
  BY <1>1, <1>2, <1>3, <1>4, <1>5, <1>6, <1>7, <1>8, <1>9 DEF Config!Next

\* What RAM has is what a restart would give, and no placeholder becomes a secret:
\* whatever has written, failed or been cut off.
THEOREM SettingsSurvive == Spec => []SettingsKept
<1>1. Init => Config!ConfigInv
  BY ConfigInit
<1>2. (runs = "Config" => Config!ConfigInv) /\ [Next]_vars => (runs = "Config" => Config!ConfigInv)'
  BY OneRuns, ConfigStep DEF configVars, Config!vars, Config!bounds
<1>3. (runs = "Config" => Config!ConfigInv) => SettingsKept
  BY DEF SettingsKept, Config!ConfigInv, Config!NowhereRedacted, Config!NoPlaceholder, Config!Secrets
<1>4. QED
  BY <1>1, <1>2, <1>3, PTL DEF Spec

\* An import does not undo the progress a job has written.
LEMMA ImportSparesProgress ==
  ASSUME Config!ConfigInv, [Config!Next]_(Config!vars), NEW k \in Config!Progress,
         Config!Importing, file[k] = save["web"].base[k], save'["web"] = None, restarts' = restarts
  PROVE  ram'[k] = ram[k]
<1>1. "web" \in Config!Threads /\ k \in Config!Keys /\ persist = "web" /\ save["web"] # None
  BY ConfigKeys DEF Config!ConfigInv, Config!TypeOK, Config!Importing, Config!Writes, Config!Threads
<1>2. save["web"].value[k] = ram[k]
  BY DEF Config!ConfigInv, Config!NoNews, Config!Importing, Config!Writes
<1>3. CASE Config!Apply("web")
  BY <1>1, <1>2, <1>3 DEF Config!Apply, Config!Applied
<1>4. CASE Config!SaveFails("web")
  BY <1>4 DEF Config!SaveFails
<1>5. CASE Config!Begin("web") \/ Config!Saves("job")
  BY <1>1, <1>5, ConfigNumbers DEF Config!Saves, Config!Begin, Config!WriteKey, Config!SaveFails, Config!Apply,
     Config!Lock, Config!Writes, Config!ConfigInv, Config!TypeOK, Config!Threads
<1>6. CASE Config!WriteKey("web")
  BY <1>6 DEF Config!WriteKey
<1>7. CASE Config!Restart
  BY <1>1, <1>7, ConfigNumbers DEF Config!Restart, Config!ConfigInv, Config!TypeOK
<1>11. CASE Config!FactoryReset
  BY <1>1, <1>11, Zenon DEF Config!FactoryReset
<1>8. CASE \/ Config!SaveForm \/ Config!SaveTasks \/ Config!Export \/ Config!Import \/ Config!WriteProgress
  BY <1>8 DEF Config!SaveForm, Config!SaveTasks, Config!Export, Config!Import, Config!WriteProgress, Config!Ask
<1>9. CASE UNCHANGED Config!vars
  BY <1>9 DEF Config!vars
<1>10. QED
  BY <1>3, <1>4, <1>5, <1>6, <1>7, <1>11, <1>8, <1>9 DEF Config!Next, Config!Saves, Config!Threads

-----------------------------------------------------------------------------
(* The assembler of long messages.                                         *)

\* The bounds are numbers.
LEMMA ConcatNumbers ==
  /\ Slots \in Nat /\ Parts \in Nat /\ Slots > 0 /\ Parts > 0 /\ TimeOut \in Nat
  /\ Inputs \subseteq Concat!Header /\ NoKey \notin MessageKeys
  /\ \A S : Concat!Cardinality(S) = Cardinality(S)
BY ConcatAssumption DEF Concat!SizesArePositive, Concat!InputsAreHeaders, Concat!NoKeyNoKey,
   Concat!Cardinality, Cardinality

\* An empty slot has no text.
LEMMA ConcatClear ==
  /\ Concat!Clear \in Concat!Slot /\ ~Concat!Clear.active /\ Concat!Clear.received = 0
  /\ Concat!Texts(Concat!Clear) = {} /\ \A p \in 1 .. Parts : Concat!Clear.parts[p] = 0
<1> DEFINE c == Concat!Clear
<1>1. /\ Concat!Blank \in [1 .. Parts -> Nat] /\ \A p \in 1 .. Parts : Concat!Blank[p] = 0
  BY DEF Concat!Blank
<1>2. ~c.active
  BY Zenon DEF Concat!Clear
<1>3. c \in Concat!Slot
  BY <1>1, ConcatNumbers DEF Concat!Clear, Concat!Slot
<1>4. c.parts = Concat!Blank /\ c.received = 0
  BY DEF Concat!Clear
<1>5. QED
  BY <1>1, <1>2, <1>3, <1>4 DEF Concat!Texts

\* The parts a slot has.
FilledIn(slot) == {p \in 1 .. Parts : slot.parts[p] # 0}

\* The parts of a slot, all within its total, are what is emitted of it.
LEMMA ConcatAssembled ==
  ASSUME NEW slot \in Concat!Slot, slot.total > 0, slot.key \in MessageKeys,
         FilledIn(slot) \subseteq 1 .. slot.total
  PROVE  LET e == Concat!Assemble(slot)
         IN  /\ e.key \in MessageKeys /\ \E len \in 1 .. Parts : e.text \in [1 .. len -> Nat]
             /\ Concat!TextsOf(e) = Concat!Texts(slot)
<1> DEFINE e == Concat!Assemble(slot)
<1>1. /\ slot.total \in 1 .. Parts /\ slot.parts \in [1 .. Parts -> Nat] /\ 1 .. slot.total \subseteq 1 .. Parts
  BY ConcatNumbers DEF Concat!Slot
<1>2. /\ e.key = slot.key /\ e.text = [p \in 1 .. slot.total |-> slot.parts[p]]
  BY DEF Concat!Assemble
<1>3. e.text \in [1 .. slot.total -> Nat] /\ DOMAIN e.text = 1 .. slot.total
      /\ \A p \in 1 .. slot.total : e.text[p] = slot.parts[p]
  BY <1>1, <1>2
<1>4. Concat!TextsOf(e) = Concat!Texts(slot)
  BY <1>1, <1>3 DEF Concat!TextsOf, Concat!Texts, FilledIn
<1>5. QED
  BY <1>1, <1>2, <1>3, <1>4

\* The slot a part goes to.
LEMMA ConcatFinds ==
  ASSUME Concat!TypeOK, NEW h
  PROVE  /\ Concat!FindSlot(h) \in 1 .. Slots
         /\ Concat!Match(h) # {} => Concat!FindSlot(h) \in Concat!Match(h)
         /\ Concat!Match(h) = {} /\ Concat!FreeSlots # {} => Concat!FindSlot(h) \in Concat!FreeSlots
         /\ Concat!Match(h) = {} /\ Concat!FreeSlots = {} => Concat!FindSlot(h) = Concat!Oldest
<1>1. ASSUME NEW S \in SUBSET (1 .. Slots), S # {}
      PROVE  Concat!Min(S) \in S
  <2>1. S \in SUBSET Nat
    BY ConcatNumbers
  <2>2. \E m \in S : \A k \in S : m <= k
    BY <1>1, <2>1, LeastNatural
  <2>3. QED
    BY <2>2 DEF Concat!Min
<1>2. Concat!Match(h) \in SUBSET (1 .. Slots) /\ Concat!FreeSlots \in SUBSET (1 .. Slots)
  BY DEF Concat!Match, Concat!FreeSlots
<1>3. Concat!Oldest \in 1 .. Slots
  <2> DEFINE young == {TimeOut + 1 - slots[s].age : s \in 1 .. Slots}
             old == {s \in 1 .. Slots : \A t \in 1 .. Slots : slots[t].age <= slots[s].age}
  <2>1. \A s \in 1 .. Slots : slots[s].age \in 0 .. TimeOut + 1
    BY DEF Concat!TypeOK, Concat!Slot
  <2>2. young \in SUBSET Nat
    BY <2>1, ConcatNumbers
  <2>3. young # {}
    <3>1. 1 \in 1 .. Slots
      BY ConcatNumbers
    <3>2. TimeOut + 1 - slots[1].age \in young
      BY <3>1
    <3>3. QED
      BY <3>2
  <2>4. PICK m \in young : \A k \in young : m <= k
    BY <2>2, <2>3, LeastNatural
  <2>5. PICK s \in 1 .. Slots : m = TimeOut + 1 - slots[s].age
    BY <2>4
  <2>6. ASSUME NEW t \in 1 .. Slots
        PROVE  slots[t].age <= slots[s].age
    <3>1. TimeOut + 1 - slots[t].age \in young
      OBVIOUS
    <3>2. TimeOut + 1 - slots[s].age <= TimeOut + 1 - slots[t].age
      BY <2>4, <2>5, <3>1
    <3>3. QED
      BY <2>1, <3>2, ConcatNumbers
  <2>7. old \in SUBSET (1 .. Slots) /\ old # {}
    BY <2>6
  <2>8. Concat!Oldest = Concat!Min(old)
    BY DEF Concat!Oldest
  <2> HIDE DEF old
  <2>9. QED
    BY <1>1, <2>7, <2>8
<1>4. QED
  BY <1>1, <1>2, <1>3 DEF Concat!FindSlot

LEMMA ConcatInit == Init => Concat!ConcatInv
<1> SUFFICES ASSUME Init PROVE Concat!ConcatInv
  OBVIOUS
<1> USE DEF Init, Concat!Init
<1>1. \A s \in 1 .. Slots : slots[s] = Concat!Clear
  OBVIOUS
<1>2. slots \in [1 .. Slots -> Concat!Slot]
  BY ConcatClear
<1>3. Concat!TypeOK
  BY <1>2 DEF Concat!TypeOK
<1>4. \A s \in 1 .. Slots : Concat!Valid(s) = {} /\ Concat!Texts(slots[s]) = {} /\ ~slots[s].active /\ slots[s].received = 0
  BY <1>1, ConcatClear DEF Concat!Valid
<1>5. Concat!Held = {} /\ Concat!Sent = {}
  BY <1>4 DEF Concat!Held, Concat!Sent
<1>6. Concat!SlotsSound
  BY <1>4, ConcatNumbers, FS_EmptySet DEF Concat!SlotsSound
<1>7. Concat!NothingTwice /\ Concat!TextsFed
  BY <1>5 DEF Concat!NothingTwice, Concat!TextsFed
<1>8. Concat!EmptyAtRest /\ Concat!TextsApart
  BY <1>4 DEF Concat!EmptyAtRest, Concat!TextsApart
<1>9. QED
  BY <1>3, <1>6, <1>7, <1>8 DEF Concat!ConcatInv

\* What the invariant says of a slot.
LEMMA ConcatSlot ==
  ASSUME Concat!ConcatInv, NEW s \in 1 .. Slots
  PROVE  LET slot == slots[s] IN
         /\ slot \in Concat!Slot /\ slot.parts \in [1 .. Parts -> Nat] /\ slot.received = Cardinality(Concat!Valid(s))
         /\ ~slot.active => Concat!Texts(slot) = {}
         /\ slot.active => slot.key \in MessageKeys /\ slot.total > 0 /\ slot.total \in 1 .. Parts
                           /\ slot.received < slot.total /\ slot.received \in Nat
                           /\ Concat!Valid(s) \subseteq 1 .. slot.total
         /\ slot.active => LET e == Concat!Assemble(slot)
                           IN  /\ e.key \in MessageKeys /\ \E len \in 1 .. Parts : e.text \in [1 .. len -> Nat]
                               /\ Concat!TextsOf(e) = Concat!Texts(slot)
<1> DEFINE slot == slots[s]
<1>1. slot \in Concat!Slot /\ slot.parts \in [1 .. Parts -> Nat]
  BY DEF Concat!ConcatInv, Concat!TypeOK, Concat!Slot
<1>2. slot.received = Cardinality(Concat!Valid(s))
  BY ConcatNumbers DEF Concat!ConcatInv, Concat!SlotsSound
<1>3. ~slot.active => Concat!Texts(slot) = {}
  BY DEF Concat!ConcatInv, Concat!EmptyAtRest, Concat!Valid, Concat!Texts
<1>4. ASSUME slot.active
      PROVE  /\ slot.key \in MessageKeys /\ slot.total > 0 /\ slot.total \in 1 .. Parts
             /\ slot.received < slot.total /\ slot.received \in Nat
             /\ Concat!Valid(s) \subseteq 1 .. slot.total
  <2>1. slot.received \in 1 .. slot.total - 1 /\ Concat!Valid(s) \subseteq 1 .. slot.total /\ slot.key \in MessageKeys
    BY <1>4 DEF Concat!ConcatInv, Concat!SlotsSound, Concat!EmptyAtRest
  <2>2. slot.total \in 0 .. Parts
    BY <1>1 DEF Concat!Slot
  <2>3. QED
    BY <2>1, <2>2, ConcatNumbers
<1>5. ASSUME slot.active
      PROVE  LET e == Concat!Assemble(slot)
             IN  /\ e.key \in MessageKeys /\ \E len \in 1 .. Parts : e.text \in [1 .. len -> Nat]
                 /\ Concat!TextsOf(e) = Concat!Texts(slot)
  <2> HIDE DEF slot
  <2>1. FilledIn(slot) \subseteq 1 .. slot.total
    BY <1>4, <1>5 DEF slot, Concat!Valid, FilledIn
  <2>2. QED
    BY <1>1, <1>4, <1>5, <2>1, ConcatAssembled
<1>6. QED
  BY <1>1, <1>2, <1>3, <1>4, <1>5

\* Where texts go: out of the slots into emissions, and what is fed into one or the other.
\* The texts in F are fed, those in R ignored, and the emissions in new made.
Moves(new, F, R) ==
  /\ delivered' \in {delivered, delivered + 1}
  /\ F \cap 1 .. delivered = {} /\ F \subseteq 1 .. delivered'
  /\ R \cap 1 .. delivered = {} /\ R \subseteq 1 .. delivered' /\ R \cap F = {}
  /\ emitted' = emitted \cup new /\ repeated' = repeated \cup R
  /\ \A s \in 1 .. Slots : Concat!Texts(slots'[s]) \subseteq Concat!Texts(slots[s]) \cup F
  /\ \A s, t \in 1 .. Slots : s # t => Concat!Texts(slots'[s]) \cap Concat!Texts(slots'[t]) \cap F = {}
  /\ \A e \in new : Concat!TextsOf(e) \subseteq Concat!Held \cup F
  /\ \A e \in new : \A s \in 1 .. Slots : Concat!TextsOf(e) \cap Concat!Texts(slots'[s]) = {}
  /\ \A e, f \in new : Concat!TextsOf(e) \cap Concat!TextsOf(f) # {} => e = f

\* Texts that move from one place to another stay in one place.
LEMMA ConcatMoves ==
  ASSUME Concat!ConcatInv, NEW new, NEW F, NEW R, Moves(new, F, R)
  PROVE  Concat!NothingTwice' /\ Concat!TextsApart' /\ Concat!TextsFed'
<1> USE DEF Moves
<1> DEFINE T(s) == Concat!Texts(slots[s])
           U(s) == Concat!Texts(slots'[s])
           E(e) == Concat!TextsOf(e)
<1>1. /\ Concat!Held \cap Concat!Sent = {} /\ Concat!Held \cup Concat!Sent \subseteq 1 .. delivered
      /\ (Concat!Held \cup Concat!Sent) \cap repeated = {} /\ repeated \subseteq 1 .. delivered /\ delivered \in Nat
      /\ \A e, f \in emitted : E(e) \cap E(f) # {} => e = f
      /\ \A s, t \in 1 .. Slots : s # t => T(s) \cap T(t) = {}
  BY DEF Concat!ConcatInv, Concat!NothingTwice, Concat!TextsFed, Concat!TextsApart, Concat!TypeOK
<1>2. /\ \A x : x \in Concat!Held <=> \E s \in 1 .. Slots : x \in T(s)
      /\ \A x : x \in Concat!Sent <=> \E e \in emitted : x \in E(e)
      /\ \A x : x \in Concat!Held' <=> \E s \in 1 .. Slots : x \in U(s)
      /\ \A x : x \in Concat!Sent' <=> \E e \in emitted' : x \in E(e)
  BY DEF Concat!Held, Concat!Sent
<1> HIDE DEF T, U, E
<1>3. Concat!Held' \subseteq Concat!Held \cup F /\ Concat!Sent' \subseteq Concat!Held \cup Concat!Sent \cup F
  BY <1>2 DEF T, U, E
<1>4. 1 .. delivered \subseteq 1 .. delivered'
  BY <1>1
<1>5. (Concat!Held \cup Concat!Sent \cup F) \subseteq 1 .. delivered'
  BY <1>1, <1>4
<1>6. Concat!TextsFed'
  BY <1>3, <1>5 DEF Concat!TextsFed
<1>7. Concat!TextsApart'
  <2>1. ASSUME NEW s \in 1 .. Slots, NEW t \in 1 .. Slots, s # t, NEW x \in U(s), x \in U(t)
        PROVE  FALSE
    <3>1. x \notin F
      BY <2>1 DEF U
    <3>2. x \in T(s) /\ x \in T(t)
      BY <2>1, <3>1 DEF T, U
    <3>3. QED
      BY <1>1, <2>1, <3>2
  <2>2. QED
    BY <2>1 DEF Concat!TextsApart, U
<1>8. Concat!Held' \cap Concat!Sent' = {}
  <2>1. ASSUME NEW s \in 1 .. Slots, NEW e \in emitted', NEW x \in U(s), x \in E(e)
        PROVE  FALSE
    <3>1. e \in emitted
      BY <2>1 DEF U, E
    <3>2. x \in Concat!Sent /\ x \in T(s) \cup F
      BY <1>2, <2>1, <3>1 DEF T, U
    <3>3. x \notin F
      BY <1>1, <3>2
    <3>4. QED
      BY <1>1, <1>2, <2>1, <3>2, <3>3
  <2>2. QED
    BY <1>2, <2>1
<1>9. ASSUME NEW e \in emitted', NEW f \in emitted', NEW x \in E(e), x \in E(f)
      PROVE  e = f
  <2>1. CASE e \in emitted /\ f \in emitted
    BY <1>1, <1>9, <2>1
  <2>2. CASE e \in new /\ f \in new
    BY <1>9, <2>2 DEF E
  <2>3. ASSUME NEW a \in new, NEW b \in emitted, x \in E(a), x \in E(b)
        PROVE  FALSE
    <3>1. x \in Concat!Held \cup F
      BY <2>3 DEF E
    <3>2. x \in Concat!Sent
      BY <1>2, <2>3
    <3>3. QED
      BY <1>1, <3>1, <3>2
  <2>4. QED
    BY <1>9, <2>1, <2>2, <2>3
<1>10. (Concat!Held' \cup Concat!Sent') \cap repeated' = {}
  BY <1>1, <1>3, <1>4
<1>11. Concat!NothingTwice'
  BY <1>8, <1>9, <1>10 DEF Concat!NothingTwice, E
<1>12. QED
  BY <1>6, <1>7, <1>11

\* A message of one part is emitted at once.
LEMMA ConcatFeedSingle ==
  ASSUME Concat!ConcatInv, NEW h \in Inputs, Concat!FeedSingle(h)
  PROVE  Concat!ConcatInv' /\ \A s \in 1 .. Slots : Concat!Texts(slots[s]) \subseteq (Concat!Held \cup Concat!Sent)'
<1> USE DEF Concat!FeedSingle, Concat!Arrives
<1> DEFINE e == [key |-> h.key, text |-> [p \in 1 .. 1 |-> delivered + 1]]
<1>1. /\ delivered \in Nat /\ delivered' = delivered + 1 /\ Concat!Held \cup Concat!Sent \subseteq 1 .. delivered
      /\ slots' = slots /\ repeated' = repeated /\ emitted' = emitted \cup {e} /\ repeated \subseteq 1 .. delivered
  BY DEF Concat!ConcatInv, Concat!TypeOK, Concat!TextsFed
<1>2. e.key \in MessageKeys /\ e.text \in [1 .. 1 -> Nat] /\ Concat!TextsOf(e) = {delivered + 1}
  <2>1. h.key \in MessageKeys
    BY ConcatNumbers DEF Concat!Header
  <2>2. e.text = [p \in 1 .. 1 |-> delivered + 1] /\ e.key = h.key
    OBVIOUS
  <2>3. QED
    BY <1>1, <2>1, <2>2 DEF Concat!TextsOf
<1> HIDE DEF e
<1>3. \A s \in 1 .. Slots : Concat!Texts(slots[s]) \subseteq Concat!Held
  BY DEF Concat!Held
<1>4. Concat!NothingTwice' /\ Concat!TextsApart' /\ Concat!TextsFed'
  <2>1. Moves({e}, {delivered + 1}, {})
    BY <1>1, <1>2, <1>3 DEF Moves
  <2>2. QED
    BY <2>1, ConcatMoves
<1>5. Concat!TypeOK'
  <2>1. delivered' \in Nat /\ repeated' \subseteq 1 .. delivered'
    BY <1>1
  <2>2. \A x \in emitted' : x.key \in MessageKeys /\ \E len \in 1 .. Parts : x.text \in [1 .. len -> Nat]
    <3>1. 1 \in 1 .. Parts
      BY ConcatNumbers
    <3>2. \E len \in 1 .. Parts : e.text \in [1 .. len -> Nat]
      BY <1>2, <3>1
    <3>3. QED
      BY <1>1, <1>2, <3>2 DEF Concat!ConcatInv, Concat!TypeOK
  <2>3. QED
    BY <1>1, <2>1, <2>2 DEF Concat!ConcatInv, Concat!TypeOK
<1>6. Concat!SlotsSound' /\ Concat!EmptyAtRest'
  <2>1. Concat!SlotsSound /\ Concat!EmptyAtRest
    BY DEF Concat!ConcatInv
  <2>2. Concat!SlotsSound'
    BY <1>1, <2>1 DEF Concat!SlotsSound, Concat!Valid
  <2>3. Concat!EmptyAtRest'
    BY <1>1, <2>1 DEF Concat!EmptyAtRest, Concat!Valid
  <2>4. QED
    BY <2>2, <2>3
<1>7. Concat!Held' = Concat!Held
  BY <1>1 DEF Concat!Held
<1>8. QED
  BY <1>3, <1>4, <1>5, <1>6, <1>7 DEF Concat!ConcatInv

\* Time passes.
LEMMA ConcatTick ==
  ASSUME Concat!ConcatInv, Concat!Tick
  PROVE  Concat!ConcatInv' /\ \A s \in 1 .. Slots : Concat!Texts(slots[s]) \subseteq (Concat!Held \cup Concat!Sent)'
<1> USE DEF Concat!Tick
<1>1. ASSUME NEW s \in 1 .. Slots
      PROVE  /\ slots'[s] \in Concat!Slot
             /\ slots'[s].active = slots[s].active /\ slots'[s].key = slots[s].key /\ slots'[s].total = slots[s].total
             /\ slots'[s].received = slots[s].received /\ slots'[s].parts = slots[s].parts
  <2> DEFINE old == slots[s]
  <2>1. old \in Concat!Slot
    BY DEF Concat!ConcatInv, Concat!TypeOK
  <2>2. CASE old.active /\ ~Concat!TimedOut(s)
    <3>1. old.age + 1 \in 0 .. TimeOut + 1
      BY <2>1, <2>2, ConcatNumbers DEF Concat!TimedOut, Concat!Slot
    <3>2. slots'[s] = [old EXCEPT !.age = old.age + 1]
      BY <2>2
    <3> HIDE DEF old
    <3>3. QED
      BY <2>1, <3>1, <3>2 DEF Concat!Slot, old
  <2>3. CASE ~(old.active /\ ~Concat!TimedOut(s))
    <3>1. slots'[s] = old
      BY <2>3
    <3>2. QED
      BY <2>1, <3>1
  <2>4. QED
    BY <2>2, <2>3
<1>2. \A s \in 1 .. Slots : /\ Concat!Valid(s)' = Concat!Valid(s)
                           /\ Concat!Texts(slots'[s]) = Concat!Texts(slots[s])
  BY <1>1 DEF Concat!Valid, Concat!Texts
<1>3. Concat!Held' = Concat!Held /\ Concat!Sent' = Concat!Sent
  BY <1>2 DEF Concat!Held, Concat!Sent
<1>4. slots' \in [1 .. Slots -> Concat!Slot]
  BY <1>1
<1>5. Concat!TypeOK'
  BY <1>4 DEF Concat!ConcatInv, Concat!TypeOK
<1>6. Concat!SlotsSound'
  <2>1. Concat!SlotsSound
    BY DEF Concat!ConcatInv
  <2>2. \A s \in 1 .. Slots : (Concat!Cardinality(Concat!Valid(s)))' = Concat!Cardinality(Concat!Valid(s))
    BY <1>2
  <2>3. ASSUME NEW s \in 1 .. Slots
        PROVE  /\ slots'[s].received = (Concat!Cardinality(Concat!Valid(s)))'
               /\ slots'[s].active => slots'[s].received \in 1 .. slots'[s].total - 1
               /\ Concat!Valid(s)' \subseteq 1 .. slots'[s].total
    <3>1. /\ slots[s].received = Concat!Cardinality(Concat!Valid(s))
          /\ slots[s].active => slots[s].received \in 1 .. slots[s].total - 1
          /\ Concat!Valid(s) \subseteq 1 .. slots[s].total
      BY <2>1 DEF Concat!SlotsSound
    <3>2. QED
      BY <1>1, <1>2, <2>2, <3>1
  <2>4. ASSUME NEW s \in 1 .. Slots, NEW t \in 1 .. Slots, slots'[s].active, slots'[t].active,
               slots'[s].key = slots'[t].key, slots'[s].total = slots'[t].total
        PROVE  s = t
    <3>1. slots[s].active /\ slots[t].active /\ slots[s].key = slots[t].key /\ slots[s].total = slots[t].total
      BY <1>1, <2>4
    <3>2. QED
      BY <2>1, <3>1 DEF Concat!SlotsSound
  <2>5. QED
    BY <2>3, <2>4 DEF Concat!SlotsSound
<1>7. Concat!NothingTwice'
  BY <1>3 DEF Concat!ConcatInv, Concat!NothingTwice
<1>8. Concat!EmptyAtRest' /\ Concat!TextsApart'
  BY <1>1, <1>2, ZenonT(60) DEF Concat!ConcatInv, Concat!EmptyAtRest, Concat!TextsApart
<1>9. Concat!TextsFed'
  BY <1>3 DEF Concat!ConcatInv, Concat!TextsFed
<1>10. QED
  BY <1>3, <1>5, <1>6, <1>7, <1>8, <1>9 DEF Concat!ConcatInv, Concat!Held

\* A slot that has timed out emits what it has.
LEMMA ConcatExpire ==
  ASSUME Concat!ConcatInv, Concat!Expire
  PROVE  Concat!ConcatInv' /\ \A s \in 1 .. Slots : Concat!Texts(slots[s]) \subseteq (Concat!Held \cup Concat!Sent)'
<1> USE DEF Concat!Expire
<1> DEFINE late == {s \in 1 .. Slots : Concat!TimedOut(s)}
           new == {Concat!Assemble(slots[s]) : s \in late}
<1>1. /\ \A s \in late : slots[s].active /\ slots'[s] = Concat!Clear
      /\ \A s \in (1 .. Slots) \ late : slots'[s] = slots[s]
      /\ emitted' = emitted \cup new /\ delivered' = delivered /\ repeated' = repeated
  BY DEF Concat!TimedOut
<1>2. slots' \in [1 .. Slots -> Concat!Slot]
  BY ConcatSlot, ConcatClear
<1>3. \A s \in late : LET e == Concat!Assemble(slots[s])
                      IN  /\ e.key \in MessageKeys /\ \E len \in 1 .. Parts : e.text \in [1 .. len -> Nat]
                          /\ Concat!TextsOf(e) = Concat!Texts(slots[s])
  BY <1>1, ConcatSlot
<1>4. \A e \in new : /\ e.key \in MessageKeys /\ \E len \in 1 .. Parts : e.text \in [1 .. len -> Nat]
                     /\ \E s \in late : e = Concat!Assemble(slots[s]) /\ Concat!TextsOf(e) = Concat!Texts(slots[s])
  BY <1>3
<1>5. /\ \A s \in late : Concat!Texts(slots'[s]) = {} /\ ~slots'[s].active
      /\ \A s \in (1 .. Slots) \ late : Concat!Texts(slots'[s]) = Concat!Texts(slots[s])
      /\ \A s \in 1 .. Slots : Concat!Texts(slots[s]) \subseteq Concat!Held
      /\ \A s, t \in 1 .. Slots : s # t => Concat!Texts(slots[s]) \cap Concat!Texts(slots[t]) = {}
  BY <1>1, ConcatClear DEF Concat!Held, Concat!ConcatInv, Concat!TextsApart
<1> HIDE DEF new, late
<1>6. Moves(new, {}, {})
  <2>1. \A s \in 1 .. Slots : Concat!Texts(slots'[s]) \subseteq Concat!Texts(slots[s]) \cup {}
    BY <1>5 DEF late
  <2>2. \A e \in new : Concat!TextsOf(e) \subseteq Concat!Held \cup {}
    BY <1>4, <1>5 DEF late
  <2>3. ASSUME NEW e \in new, NEW s \in 1 .. Slots
        PROVE  Concat!TextsOf(e) \cap Concat!Texts(slots'[s]) = {}
    <3>1. PICK t \in late : e = Concat!Assemble(slots[t]) /\ Concat!TextsOf(e) = Concat!Texts(slots[t])
      BY <1>4
    <3>2. CASE s \in late
      BY <1>5, <3>2
    <3>3. CASE s \notin late
      BY <1>5, <3>1, <3>3 DEF late
    <3>4. QED
      BY <3>2, <3>3
  <2>4. ASSUME NEW e \in new, NEW f \in new, Concat!TextsOf(e) \cap Concat!TextsOf(f) # {}
        PROVE  e = f
    <3>1. PICK s \in late : e = Concat!Assemble(slots[s]) /\ Concat!TextsOf(e) = Concat!Texts(slots[s])
      BY <1>4
    <3>2. PICK t \in late : f = Concat!Assemble(slots[t]) /\ Concat!TextsOf(f) = Concat!Texts(slots[t])
      BY <1>4
    <3>3. s = t
      BY <1>5, <2>4, <3>1, <3>2 DEF late
    <3>4. QED
      BY <3>1, <3>2, <3>3
  <2>5. QED
    BY <1>1, <2>1, <2>2, <2>3, <2>4 DEF Moves
<1>7. Concat!NothingTwice' /\ Concat!TextsApart' /\ Concat!TextsFed'
  BY <1>6, ConcatMoves
<1>8. Concat!TypeOK'
  BY <1>1, <1>2, <1>4 DEF Concat!ConcatInv, Concat!TypeOK
<1>9. \A s \in late : slots'[s].received = 0 /\ Concat!Valid(s)' = {}
  BY <1>1, ConcatClear DEF Concat!Valid, late
<1>10. \A s \in (1 .. Slots) \ late : slots'[s] = slots[s] /\ Concat!Valid(s)' = Concat!Valid(s)
  BY <1>1 DEF Concat!Valid
<1>11. Concat!SlotsSound'
  <2>1. Concat!SlotsSound
    BY DEF Concat!ConcatInv
  <2>2. ASSUME NEW s \in 1 .. Slots
        PROVE  /\ slots'[s].received = (Concat!Cardinality(Concat!Valid(s)))'
               /\ slots'[s].active => slots'[s].received \in 1 .. slots'[s].total - 1
               /\ Concat!Valid(s)' \subseteq 1 .. slots'[s].total
    <3>1. CASE s \in late
      <4>1. Concat!Cardinality({}) = 0
        BY ConcatNumbers, FS_EmptySet
      <4>2. (Concat!Cardinality(Concat!Valid(s)))' = 0
        BY <1>9, <3>1, <4>1
      <4>3. QED
        BY <1>5, <1>9, <3>1, <4>2
    <3>2. CASE s \notin late
      <4>1. /\ slots[s].received = Concat!Cardinality(Concat!Valid(s))
            /\ slots[s].active => slots[s].received \in 1 .. slots[s].total - 1
            /\ Concat!Valid(s) \subseteq 1 .. slots[s].total
        BY <2>1 DEF Concat!SlotsSound
      <4>2. (Concat!Cardinality(Concat!Valid(s)))' = Concat!Cardinality(Concat!Valid(s))
        BY <1>10, <3>2
      <4>3. QED
        BY <1>10, <3>2, <4>1, <4>2
    <3>3. QED
      BY <3>1, <3>2
  <2>3. ASSUME NEW s \in 1 .. Slots, NEW t \in 1 .. Slots, slots'[s].active, slots'[t].active,
               slots'[s].key = slots'[t].key, slots'[s].total = slots'[t].total
        PROVE  s = t
    <3>1. s \notin late /\ t \notin late
      BY <1>5, <2>3
    <3>2. slots[s].active /\ slots[t].active /\ slots[s].key = slots[t].key /\ slots[s].total = slots[t].total
      BY <1>10, <2>3, <3>1
    <3>3. QED
      BY <2>1, <3>2 DEF Concat!SlotsSound
  <2>4. QED
    BY <2>2, <2>3 DEF Concat!SlotsSound
<1>12. Concat!EmptyAtRest'
  <2>1. Concat!EmptyAtRest
    BY DEF Concat!ConcatInv
  <2>2. ASSUME NEW s \in 1 .. Slots
        PROVE  IF slots'[s].active THEN slots'[s].key \in MessageKeys ELSE Concat!Valid(s)' = {}
    <3>1. CASE s \in late
      BY <1>5, <1>9, <3>1
    <3>2. CASE s \notin late
      BY <1>10, <2>1, <3>2 DEF Concat!EmptyAtRest
    <3>3. QED
      BY <3>1, <3>2
  <2>3. QED
    BY <2>2 DEF Concat!EmptyAtRest
<1>13. ASSUME NEW s \in 1 .. Slots
       PROVE  Concat!Texts(slots[s]) \subseteq (Concat!Held \cup Concat!Sent)'
  <2>1. CASE s \in late
    <3>1. /\ Concat!Assemble(slots[s]) \in emitted'
          /\ Concat!TextsOf(Concat!Assemble(slots[s])) = Concat!Texts(slots[s])
      BY <1>1, <1>3, <2>1 DEF new
    <3>2. QED
      BY <3>1 DEF Concat!Sent
  <2>2. CASE s \notin late
    BY <1>5, <2>2 DEF Concat!Held
  <2>3. QED
    BY <2>1, <2>2
<1>14. QED
  BY <1>7, <1>8, <1>11, <1>12, <1>13 DEF Concat!ConcatInv

\* A part that is stored in the slot it was given.
LEMMA ConcatStores ==
  ASSUME NEW slot \in Concat!Slot, NEW h, h.part \in 1 .. slot.total, NEW m \in Nat \ {0},
         slot.active, slot.key = h.key, h.key \in MessageKeys, slot.total > 0,
         FilledIn(slot) \subseteq 1 .. slot.total,
         slot.received = Cardinality(FilledIn(slot)),
         slot.received < slot.total, slot.parts[h.part] = 0
  PROVE  LET out == Concat!Store(slot, h, m) IN
         /\ out \in Concat!Slot /\ out # slot /\ out.active /\ out.key = h.key /\ out.total = slot.total
         /\ FilledIn(out) \subseteq 1 .. out.total
         /\ out.received = Cardinality(FilledIn(out))
         /\ out.received \in 1 .. out.total
         /\ Concat!Texts(out) = Concat!Texts(slot) \cup {m}
<1> DEFINE text == [slot.parts EXCEPT ![h.part] = m]
           valid == FilledIn(slot)
<1>1. /\ slot.parts \in [1 .. Parts -> Nat] /\ slot.total \in 0 .. Parts /\ slot.received \in 0 .. Parts
      /\ h.part \in 1 .. Parts
  BY ConcatNumbers DEF Concat!Slot
<1>2. /\ text \in [1 .. Parts -> Nat] /\ text[h.part] = m
      /\ \A p \in (1 .. Parts) \ {h.part} : text[p] = slot.parts[p]
  BY <1>1
<1> HIDE DEF text
<1> DEFINE out == [slot EXCEPT !.parts = text, !.received = slot.received + 1, !.age = 0]
<1>3. Concat!Store(slot, h, m) = out
  BY DEF Concat!Store, text
<1>4. out.parts = text /\ out.received = slot.received + 1
      /\ out.key = slot.key /\ out.total = slot.total /\ out \in Concat!Slot
  <2>1. slot.received + 1 \in 0 .. Parts /\ 0 \in 0 .. TimeOut + 1
    BY <1>1, ConcatNumbers
  <2>2. out.parts = text /\ out.received = slot.received + 1 /\ out.key = slot.key /\ out.total = slot.total
    BY DEF Concat!Slot
  <2>3. out \in Concat!Slot
    BY <1>2, <2>1 DEF Concat!Slot
  <2>4. QED
    BY <2>2, <2>3
<1>5. out.active
  <2>1. out.active = slot.active
    BY DEF Concat!Slot
  <2>2. QED
    BY <2>1
<1> HIDE DEF out
<1>6. FilledIn(out) = valid \cup {h.part} /\ h.part \notin valid
  BY <1>1, <1>2, <1>4 DEF FilledIn
<1>7. IsFiniteSet(valid) /\ Cardinality(valid \cup {h.part}) = Cardinality(valid) + 1
  <2>1. IsFiniteSet(valid)
    <3>1. IsFiniteSet(1 .. Parts) /\ valid \in SUBSET (1 .. Parts)
      BY ConcatNumbers, FS_Interval DEF FilledIn
    <3>2. QED
      BY <3>1, FS_Subset
  <2> HIDE DEF valid
  <2>2. QED
    BY <1>6, <2>1, FS_AddElement
<1>8. Concat!Texts(out) = Concat!Texts(slot) \cup {m}
  BY <1>1, <1>2, <1>4 DEF Concat!Texts
<1>9. out.received \in 1 .. out.total
  BY <1>1, <1>4
<1>10. out # slot
  BY <1>1, <1>4
<1>11. QED
  BY <1>3, <1>4, <1>5, <1>6, <1>7, <1>8, <1>9, <1>10

\* The slot a part is stored in, before it is.
Receives(h) == IF Concat!Match(h) # {} THEN slots[Concat!FindSlot(h)] ELSE Concat!Opened(h)
IsGiven(h, s, slot) ==
  /\ s \in 1 .. Slots /\ slot \in Concat!Slot /\ slot.active /\ slot.key = h.key
  /\ slot.total = h.total /\ h.total \in 1 .. Parts /\ h.total > 0
  /\ h.part \in 1 .. h.total /\ h.key \in MessageKeys
  /\ FilledIn(slot) \subseteq 1 .. slot.total
  /\ slot.received = Cardinality(FilledIn(slot))
  /\ slot.received < slot.total /\ slot.received \in Nat
  /\ slot.parts[h.part] # 0 => slot = slots[s] /\ Concat!Evicted(h) = {}
  /\ Concat!Texts(slot) \subseteq Concat!Texts(slots[s])
  /\ \/ Concat!Texts(slot) = Concat!Texts(slots[s]) /\ Concat!Evicted(h) = {}
     \/ Concat!Texts(slot) = {} /\ Concat!TimedOut(s) /\ Concat!Evicted(h) = {}
     \/ Concat!Texts(slot) = {} /\ slots[s].active /\ Concat!Evicted(h) = {Concat!Assemble(slots[s])}
  /\ \A t \in (1 .. Slots) \ {s} : slots[t].active => slots[t].key # h.key \/ slots[t].total # h.total

\* The slot a part is given to: its message's own, an empty one, or the oldest.
LEMMA ConcatGiven ==
  ASSUME Concat!ConcatInv, NEW h \in Inputs, Concat!IsLong(h), ~Concat!IsInvalid(h)
  PROVE  IsGiven(h, Concat!FindSlot(h), Receives(h))
<1> DEFINE s == Concat!FindSlot(h)
           slot == Receives(h)
<1>1. s \in 1 .. Slots
  BY ConcatFinds DEF Concat!ConcatInv
<1>2. /\ h.key \in MessageKeys /\ h.part \in Nat /\ h.total \in Nat
      /\ h.total > 1 /\ h.part > 0 /\ h.total <= Parts /\ h.part <= h.total
  BY ConcatNumbers DEF Concat!Header, Concat!IsLong, Concat!IsInvalid
<1>3. CASE Concat!Match(h) # {}
  <2>1. s \in Concat!Match(h)
    BY <1>3, ConcatFinds DEF Concat!ConcatInv
  <2>2. slots[s].active /\ slots[s].key = h.key /\ slots[s].total = h.total
    BY <2>1 DEF Concat!Match
  <2>3. slot = slots[s] /\ Concat!Evicted(h) = {}
    BY <1>3 DEF Concat!Evicted, Receives
  <2>4. FilledIn(slots[s]) = Concat!Valid(s)
    BY DEF Concat!Valid, FilledIn
  <2>5. /\ slots[s] \in Concat!Slot /\ slots[s].received = Cardinality(Concat!Valid(s))
        /\ slots[s].received < slots[s].total /\ slots[s].received \in Nat
        /\ Concat!Valid(s) \subseteq 1 .. slots[s].total
    BY <1>1, <2>2, ConcatSlot
  <2>6. ASSUME NEW t \in (1 .. Slots) \ {s}, slots[t].active
        PROVE  slots[t].key # h.key \/ slots[t].total # h.total
    BY <1>1, <2>2, <2>6 DEF Concat!ConcatInv, Concat!SlotsSound
  <2> HIDE DEF slot, s
  <2>7. /\ slot \in Concat!Slot /\ slot.active /\ slot.key = h.key /\ slot.total = h.total
        /\ FilledIn(slot) \subseteq 1 .. slot.total
        /\ slot.received = Cardinality(FilledIn(slot))
        /\ slot.received < slot.total /\ slot.received \in Nat
        /\ Concat!Texts(slot) = Concat!Texts(slots[s])
    BY <2>2, <2>3, <2>4, <2>5
  <2>8. h.total \in 1 .. Parts /\ h.part \in 1 .. h.total /\ h.total > 0
    BY <1>2, ConcatNumbers
  <2>9. IsGiven(h, s, slot)
    BY <1>1, <1>2, <2>3, <2>6, <2>7, <2>8 DEF IsGiven
  <2>10. QED
    BY <2>9 DEF slot, s
<1>4. CASE Concat!Match(h) = {}
  <2> DEFINE new == Concat!Opened(h)
  <2>1. slot = new
    BY <1>4 DEF Receives
  <2>2. /\ new \in Concat!Slot /\ new.key = h.key /\ new.total = h.total /\ new.received = 0
        /\ \A p \in 1 .. Parts : new.parts[p] = 0
    <3> DEFINE clear == Concat!Clear
    <3>1. clear \in Concat!Slot /\ clear.received = 0 /\ \A p \in 1 .. Parts : clear.parts[p] = 0
      BY ConcatClear
    <3> HIDE DEF clear
    <3>2. new = [clear EXCEPT !.active = TRUE, !.key = h.key, !.total = h.total]
      BY DEF Concat!Opened, clear
    <3> HIDE DEF new
    <3>3. new.key = h.key /\ new.total = h.total /\ new.received = 0 /\ new.parts = clear.parts
      BY <3>1, <3>2 DEF Concat!Slot
    <3>4. new \in Concat!Slot
      <4>1. h.total \in 0 .. Parts /\ h.key \in MessageKeys \cup {NoKey}
        BY <1>2, ConcatNumbers
      <4>2. QED
        BY <3>1, <3>2, <4>1 DEF Concat!Slot
    <3>5. QED
      BY <3>1, <3>3, <3>4
  <2>3. new.active
    <3> DEFINE clear == Concat!Clear
    <3>1. clear \in Concat!Slot
      BY ConcatClear
    <3> HIDE DEF clear
    <3>2. new = [clear EXCEPT !.active = TRUE, !.key = h.key, !.total = h.total]
      BY DEF Concat!Opened, clear
    <3> HIDE DEF new
    <3>3. new.active = TRUE
      BY <3>1, <3>2 DEF Concat!Slot
    <3>4. QED
      BY <3>3
  <2> HIDE DEF new
  <2>4. FilledIn(new) = {} /\ Concat!Texts(new) = {}
    BY <2>2 DEF Concat!Texts, FilledIn
  <2>5. new.received = Cardinality(FilledIn(new))
    BY <2>2, <2>4, FS_EmptySet
  <2>6. \/ Concat!Texts(slots[s]) = {} /\ Concat!Evicted(h) = {}
        \/ Concat!TimedOut(s) /\ Concat!Evicted(h) = {}
        \/ slots[s].active /\ Concat!Evicted(h) = {Concat!Assemble(slots[s])}
    <3>1. CASE Concat!FreeSlots # {}
      <4>1. s \in Concat!FreeSlots /\ Concat!Evicted(h) = {}
        BY <1>4, <3>1, ConcatFinds DEF Concat!ConcatInv, Concat!Evicted
      <4>2. ~slots[s].active => Concat!Texts(slots[s]) = {}
        BY <1>1, ConcatSlot
      <4>3. ~slots[s].active \/ slots[s].age > TimeOut
        BY <4>1 DEF Concat!FreeSlots
      <4>4. QED
        BY <4>1, <4>2, <4>3 DEF Concat!TimedOut
    <3>2. CASE Concat!FreeSlots = {}
      <4>1. s = Concat!Oldest
        BY <1>4, <3>2, ConcatFinds DEF Concat!ConcatInv
      <4>2. slots[s].active
        BY <1>1, <3>2 DEF Concat!FreeSlots
      <4>3. QED
        BY <1>4, <3>2, <4>1, <4>2 DEF Concat!Evicted
    <3>3. QED
      BY <3>1, <3>2
  <2>7. \A t \in (1 .. Slots) \ {s} : slots[t].active => slots[t].key # h.key \/ slots[t].total # h.total
    BY <1>4 DEF Concat!Match
  <2>8. new.received < new.total /\ new.received \in Nat /\ h.part \in 1 .. Parts
    BY <1>2, <2>2, ConcatNumbers
  <2>9. new.parts[h.part] = 0
    BY <2>2, <2>8
  <2> HIDE DEF slot, s
  <2>10. h.total \in 1 .. Parts /\ h.part \in 1 .. h.total /\ h.total > 0
    BY <1>2, ConcatNumbers
  <2>11. /\ slot \in Concat!Slot /\ slot.active /\ slot.key = h.key /\ slot.total = h.total
         /\ FilledIn(slot) = {} /\ Concat!Texts(slot) = {}
         /\ slot.received = Cardinality(FilledIn(slot))
         /\ slot.received < slot.total /\ slot.received \in Nat /\ slot.parts[h.part] = 0
    BY <2>1, <2>2, <2>3, <2>4, <2>5, <2>8, <2>9
  <2>12. IsGiven(h, s, slot)
    BY <1>1, <1>2, <2>6, <2>7, <2>10, <2>11 DEF IsGiven
  <2>13. QED
    BY <2>12 DEF slot, s
<1>5. QED
  BY <1>3, <1>4

\* A part that was received before changes nothing.
LEMMA ConcatRepeats ==
  ASSUME Concat!ConcatInv, NEW h \in Inputs, Concat!FeedPart(h), Receives(h).parts[h.part] # 0
  PROVE  Concat!ConcatInv' /\ \A s \in 1 .. Slots : Concat!Texts(slots[s]) \subseteq (Concat!Held \cup Concat!Sent)'
<1> DEFINE s == Concat!FindSlot(h)
           slot == Receives(h)
<1>1. IsGiven(h, s, slot)
  BY ConcatGiven DEF Concat!FeedPart
<1>2. Concat!Store(slot, h, delivered + 1) = slot
  BY DEF Concat!Store
<1>3. slot = slots[s] /\ Concat!Evicted(h) = {} /\ ~Concat!IsComplete(slot) /\ s \in 1 .. Slots
  BY <1>1 DEF IsGiven, Concat!IsComplete, Concat!Slot
<1>4. /\ repeated' = repeated \cup {delivered + 1} /\ delivered' = delivered + 1
      /\ slots' = [slots EXCEPT ![s] = slot] /\ emitted' = emitted \cup {}
  BY <1>2, <1>3 DEF Concat!FeedPart, Concat!Arrives, Receives
<1> HIDE DEF s, slot
<1>5. slots \in [1 .. Slots -> Concat!Slot] /\ delivered \in Nat /\ repeated \subseteq 1 .. delivered
      /\ Concat!Held \cup Concat!Sent \subseteq 1 .. delivered
  BY DEF Concat!ConcatInv, Concat!TypeOK, Concat!TextsFed
<1>6. slots' = slots /\ emitted' = emitted
  BY <1>3, <1>4, <1>5
<1>7. Concat!NothingTwice' /\ Concat!TextsApart' /\ Concat!TextsFed'
  <2>1. Moves({}, {}, {delivered + 1})
    BY <1>4, <1>5, <1>6 DEF Moves
  <2>2. QED
    BY <2>1, ConcatMoves
<1>8. Concat!TypeOK'
  <2>1. delivered' \in Nat /\ repeated' \subseteq 1 .. delivered'
    <3>1. delivered' \in Nat /\ 1 .. delivered \subseteq 1 .. delivered' /\ delivered + 1 \in 1 .. delivered'
      BY <1>4, <1>5
    <3>2. QED
      BY <1>4, <1>5, <3>1
  <2>2. \A e \in emitted' : e.key \in MessageKeys /\ \E len \in 1 .. Parts : e.text \in [1 .. len -> Nat]
    BY <1>6 DEF Concat!ConcatInv, Concat!TypeOK
  <2>3. QED
    BY <1>5, <1>6, <2>1, <2>2 DEF Concat!TypeOK
<1>9. Concat!SlotsSound' /\ Concat!EmptyAtRest'
  <2>1. Concat!SlotsSound /\ Concat!EmptyAtRest
    BY DEF Concat!ConcatInv
  <2>2. Concat!SlotsSound'
    BY <1>6, <2>1 DEF Concat!SlotsSound, Concat!Valid
  <2>3. Concat!EmptyAtRest'
    BY <1>6, <2>1 DEF Concat!EmptyAtRest, Concat!Valid
  <2>4. QED
    BY <2>2, <2>3
<1>10. Concat!Held' = Concat!Held /\ \A t \in 1 .. Slots : Concat!Texts(slots[t]) \subseteq Concat!Held
  BY <1>6 DEF Concat!Held
<1>11. QED
  BY <1>7, <1>8, <1>9, <1>10 DEF Concat!ConcatInv

\* What becomes of a slot whose part is new.
IsPut(h, s, slot, out, put, sent) ==
  /\ slots' = [slots EXCEPT ![s] = put] /\ emitted' = emitted \cup (Concat!Evicted(h) \cup sent)
  /\ delivered' = delivered + 1 /\ repeated' = repeated
  /\ put \in Concat!Slot /\ put.received = Cardinality(FilledIn(put))
  /\ FilledIn(put) \subseteq 1 .. put.total
  /\ put.active => put.key = h.key /\ put.total = h.total /\ put.received \in 1 .. put.total - 1
  /\ ~put.active => FilledIn(put) = {}
  /\ Concat!Texts(out) = Concat!Texts(slot) \cup {delivered + 1}
  /\ \/ sent = {} /\ Concat!Texts(put) = Concat!Texts(out)
     \/ /\ Concat!Texts(put) = {}
        /\ \E e : /\ sent = {e} /\ e.key \in MessageKeys /\ (\E len \in 1 .. Parts : e.text \in [1 .. len -> Nat])
                  /\ Concat!TextsOf(e) = Concat!Texts(out)

\* A new part is put into the slot, or completes the message and leaves with it.
LEMMA ConcatPuts ==
  ASSUME Concat!ConcatInv, NEW h \in Inputs, Concat!FeedPart(h), Receives(h).parts[h.part] = 0
  PROVE  LET out == Concat!Store(Receives(h), h, delivered + 1)
         IN  \E put, sent : IsPut(h, Concat!FindSlot(h), Receives(h), out, put, sent)
<1> DEFINE s == Concat!FindSlot(h)
           slot == Receives(h)
           out == Concat!Store(slot, h, delivered + 1)
           put == IF Concat!IsComplete(out) THEN Concat!Clear ELSE out
           sent == IF Concat!IsComplete(out) THEN {Concat!Assemble(out)} ELSE {}
<1>1. IsGiven(h, s, slot)
  BY ConcatGiven DEF Concat!FeedPart
<1>2. delivered + 1 \in Nat \ {0}
  BY DEF Concat!ConcatInv, Concat!TypeOK
<1> HIDE DEF s, slot
<1>3. /\ slot \in Concat!Slot /\ h.part \in 1 .. slot.total /\ slot.active /\ slot.key = h.key /\ h.key \in MessageKeys
      /\ slot.total > 0 /\ FilledIn(slot) \subseteq 1 .. slot.total
      /\ slot.received = Cardinality(FilledIn(slot))
      /\ slot.received < slot.total /\ slot.parts[h.part] = 0 /\ slot.total = h.total
  BY <1>1 DEF IsGiven, slot
<1>4. /\ out \in Concat!Slot /\ out # slot /\ out.active /\ out.key = h.key /\ out.total = slot.total
      /\ FilledIn(out) \subseteq 1 .. out.total
      /\ out.received = Cardinality(FilledIn(out))
      /\ out.received \in 1 .. out.total
      /\ Concat!Texts(out) = Concat!Texts(slot) \cup {delivered + 1}
  BY <1>2, <1>3, ConcatStores
<1>5. /\ repeated' = repeated /\ delivered' = delivered + 1
      /\ slots' = [slots EXCEPT ![s] = put] /\ emitted' = emitted \cup (Concat!Evicted(h) \cup sent)
  <2>1. out # slot
    BY <1>4
  <2>2. repeated' = repeated /\ delivered' = delivered + 1
    BY <2>1 DEF Concat!FeedPart, Concat!Arrives, Receives, slot
  <2>3. IF Concat!IsComplete(out)
        THEN slots' = [slots EXCEPT ![s] = Concat!Clear]
             /\ emitted' = emitted \cup Concat!Evicted(h) \cup {Concat!Assemble(out)}
        ELSE slots' = [slots EXCEPT ![s] = out] /\ emitted' = emitted \cup Concat!Evicted(h)
    BY DEF Concat!FeedPart, Receives, slot, s
  <2> HIDE DEF out
  <2>4. slots' = [slots EXCEPT ![s] = put]
    BY <2>3
  <2>5. emitted' = emitted \cup (Concat!Evicted(h) \cup sent)
    BY <2>3
  <2>6. QED
    BY <2>2, <2>4, <2>5
<1>6. LET e == Concat!Assemble(out)
      IN  /\ e.key \in MessageKeys /\ \E len \in 1 .. Parts : e.text \in [1 .. len -> Nat]
          /\ Concat!TextsOf(e) = Concat!Texts(out)
  <2> HIDE DEF out
  <2>1. out.total > 0 /\ out.key \in MessageKeys
    BY <1>3, <1>4
  <2>2. QED
    BY <1>4, <2>1, ConcatAssembled
<1> HIDE DEF out
<1>7. CASE Concat!IsComplete(out)
  <2>1. put = Concat!Clear /\ sent = {Concat!Assemble(out)}
    BY <1>7
  <2> HIDE DEF put, sent
  <2>2. FilledIn(put) = {} /\ put.received = 0 /\ ~put.active
        /\ put \in Concat!Slot /\ Concat!Texts(put) = {}
    BY <2>1, ConcatClear DEF FilledIn
  <2>3. put.received = Cardinality(FilledIn(put))
    BY <2>2, FS_EmptySet
  <2>4. IsPut(h, s, slot, out, put, sent)
    BY <1>4, <1>5, <1>6, <2>1, <2>2, <2>3 DEF IsPut
  <2>5. QED
    BY <2>4 DEF s, slot, out
<1>8. CASE ~Concat!IsComplete(out)
  <2>1. put = out /\ sent = {}
    BY <1>8
  <2> HIDE DEF put, sent
  <2>2. out.received \in 1 .. out.total - 1 /\ out.total = h.total
    BY <1>3, <1>4, <1>8 DEF Concat!IsComplete, Concat!Slot
  <2>3. IsPut(h, s, slot, out, put, sent)
    BY <1>4, <1>5, <2>1, <2>2 DEF IsPut
  <2>4. QED
    BY <2>3 DEF s, slot, out
<1>9. QED
  BY <1>7, <1>8

\* A new part keeps every text in one place.
LEMMA ConcatStored ==
  ASSUME Concat!ConcatInv, NEW h \in Inputs, Concat!FeedPart(h), Receives(h).parts[h.part] = 0
  PROVE  /\ Concat!ConcatInv'
         /\ \A t \in 1 .. Slots : ~Concat!TimedOut(t) => Concat!Texts(slots[t]) \subseteq (Concat!Held \cup Concat!Sent)'
<1> DEFINE s == Concat!FindSlot(h)
           slot == Receives(h)
           out == Concat!Store(slot, h, delivered + 1)
           m == delivered + 1
           ev == Concat!Evicted(h)
<1>1. PICK put, sent : IsPut(h, s, slot, out, put, sent)
  BY ConcatPuts
<1>2. IsGiven(h, s, slot)
  BY ConcatGiven DEF Concat!FeedPart
<1> HIDE DEF s, slot, out
<1>3. /\ slots \in [1 .. Slots -> Concat!Slot] /\ delivered \in Nat /\ repeated \subseteq 1 .. delivered
      /\ Concat!Held \cup Concat!Sent \subseteq 1 .. delivered
      /\ \A a, b \in 1 .. Slots : a # b => Concat!Texts(slots[a]) \cap Concat!Texts(slots[b]) = {}
      /\ \A t \in 1 .. Slots : Concat!Texts(slots[t]) \subseteq Concat!Held
  BY DEF Concat!ConcatInv, Concat!TypeOK, Concat!TextsFed, Concat!TextsApart, Concat!Held
<1>4. /\ s \in 1 .. Slots /\ slots'[s] = put /\ \A t \in (1 .. Slots) \ {s} : slots'[t] = slots[t]
      /\ slots' \in [1 .. Slots -> Concat!Slot]
      /\ delivered' = m /\ repeated' = repeated /\ emitted' = emitted \cup (ev \cup sent)
  BY <1>1, <1>2, <1>3 DEF IsPut, IsGiven
<1>5. /\ Concat!Texts(slot) \subseteq Concat!Texts(slots[s])
      /\ Concat!Texts(out) = Concat!Texts(slot) \cup {m} /\ Concat!Texts(put) \subseteq Concat!Texts(out)
  BY <1>1, <1>2 DEF IsPut, IsGiven
\* What is evicted has been in the slot, and nothing of it stays there.
<1>6. ASSUME NEW e \in ev
      PROVE  /\ e = Concat!Assemble(slots[s]) /\ Concat!TextsOf(e) = Concat!Texts(slots[s]) /\ Concat!Texts(slot) = {}
             /\ e.key \in MessageKeys /\ \E len \in 1 .. Parts : e.text \in [1 .. len -> Nat]
  <2>1. Concat!Texts(slot) = {} /\ slots[s].active /\ e = Concat!Assemble(slots[s])
    BY <1>2, <1>6 DEF IsGiven
  <2>2. QED
    BY <1>4, <2>1, ConcatSlot
<1>7. ASSUME NEW e \in sent
      PROVE  /\ Concat!TextsOf(e) = Concat!Texts(slot) \cup {m} /\ Concat!Texts(put) = {} /\ sent = {e}
             /\ e.key \in MessageKeys /\ \E len \in 1 .. Parts : e.text \in [1 .. len -> Nat]
  BY <1>1, <1>5, <1>7 DEF IsPut
<1> HIDE DEF ev
<1>8. Moves(ev \cup sent, {m}, {})
  <2>1. \A t \in 1 .. Slots : Concat!Texts(slots'[t]) \subseteq Concat!Texts(slots[t]) \cup {m}
    BY <1>4, <1>5
  <2>2. \A a, b \in 1 .. Slots : a # b => Concat!Texts(slots'[a]) \cap Concat!Texts(slots'[b]) \cap {m} = {}
    <3>1. \A t \in (1 .. Slots) \ {s} : m \notin Concat!Texts(slots'[t])
      BY <1>3, <1>4
    <3>2. QED
      BY <3>1
  <2>3. \A e \in ev \cup sent : Concat!TextsOf(e) \subseteq Concat!Held \cup {m}
    BY <1>3, <1>4, <1>5, <1>6, <1>7
  <2>4. ASSUME NEW e \in ev \cup sent, NEW t \in 1 .. Slots
        PROVE  Concat!TextsOf(e) \cap Concat!Texts(slots'[t]) = {}
    <3>1. CASE t = s /\ e \in ev
      <4>1. Concat!Texts(slots'[t]) \subseteq {m} /\ m \notin Concat!TextsOf(e)
        BY <1>3, <1>4, <1>5, <1>6, <3>1
      <4>2. QED
        BY <4>1
    <3>2. CASE t = s /\ e \in sent
      BY <1>4, <1>7, <3>2
    <3>3. CASE t # s
      <4>1. slots'[t] = slots[t] /\ Concat!Texts(slots[t]) \cap Concat!Texts(slots[s]) = {}
            /\ m \notin Concat!Texts(slots[t])
        BY <1>3, <1>4, <3>3
      <4>2. Concat!TextsOf(e) \subseteq Concat!Texts(slots[s]) \cup {m}
        BY <1>5, <1>6, <1>7
      <4>3. QED
        BY <4>1, <4>2
    <3>4. QED
      BY <3>1, <3>2, <3>3
  <2>5. ASSUME NEW e \in ev \cup sent, NEW f \in ev \cup sent, Concat!TextsOf(e) \cap Concat!TextsOf(f) # {}
        PROVE  e = f
    <3>1. ASSUME NEW a \in ev, NEW b \in sent
          PROVE  Concat!TextsOf(a) \cap Concat!TextsOf(b) = {}
      <4>1. Concat!TextsOf(b) = {m} /\ m \notin Concat!TextsOf(a)
        BY <1>3, <1>4, <1>6, <1>7, <3>1
      <4>2. QED
        BY <4>1
    <3>2. \A a, b \in ev : a = b
      BY <1>6
    <3>3. \A a, b \in sent : a = b
      BY <1>7
    <3>4. QED
      BY <2>5, <3>1, <3>2, <3>3
  <2>6. /\ {m} \cap 1 .. delivered = {} /\ {m} \subseteq 1 .. delivered' /\ delivered' \in {delivered, delivered + 1}
    BY <1>3, <1>4
  <2>7. QED
    BY <1>4, <2>1, <2>2, <2>3, <2>4, <2>5, <2>6 DEF Moves
<1>9. Concat!NothingTwice' /\ Concat!TextsApart' /\ Concat!TextsFed'
  BY <1>8, ConcatMoves
<1>10. Concat!TypeOK'
  <2>1. delivered' \in Nat /\ repeated' \subseteq 1 .. delivered'
    BY <1>3, <1>4
  <2>2. \A e \in emitted' : e.key \in MessageKeys /\ \E len \in 1 .. Parts : e.text \in [1 .. len -> Nat]
    <3>1. \A e \in emitted : e.key \in MessageKeys /\ \E len \in 1 .. Parts : e.text \in [1 .. len -> Nat]
      BY DEF Concat!ConcatInv, Concat!TypeOK
    <3>2. QED
      BY <1>4, <1>6, <1>7, <3>1
  <2>3. QED
    BY <1>4, <2>1, <2>2 DEF Concat!TypeOK
<1>11. \A t \in 1 .. Slots : Concat!Valid(t)' = IF t = s THEN FilledIn(put) ELSE Concat!Valid(t)
  <2>1. ASSUME NEW t \in 1 .. Slots, t = s
        PROVE  Concat!Valid(t)' = FilledIn(put)
    <3>1. slots'[t] = put
      BY <1>4, <2>1
    <3>2. QED
      BY <3>1 DEF Concat!Valid, FilledIn
  <2>2. ASSUME NEW t \in 1 .. Slots, t # s
        PROVE  Concat!Valid(t)' = Concat!Valid(t)
    BY <1>4, <2>2 DEF Concat!Valid
  <2>3. QED
    BY <2>1, <2>2
<1>12. Concat!SlotsSound'
  <2>1. Concat!SlotsSound
    BY DEF Concat!ConcatInv
  <2>2. ASSUME NEW t \in 1 .. Slots
        PROVE  /\ slots'[t].received = (Concat!Cardinality(Concat!Valid(t)))'
               /\ slots'[t].active => slots'[t].received \in 1 .. slots'[t].total - 1
               /\ Concat!Valid(t)' \subseteq 1 .. slots'[t].total
    <3>1. CASE t = s
      <4>1. /\ put.received = Cardinality(FilledIn(put)) /\ FilledIn(put) \subseteq 1 .. put.total
            /\ put.active => put.received \in 1 .. put.total - 1
        BY <1>1 DEF IsPut
      <4>2. (Concat!Cardinality(Concat!Valid(t)))' = Cardinality(FilledIn(put))
        BY <1>11, <3>1, ConcatNumbers
      <4>3. QED
        BY <1>4, <1>11, <3>1, <4>1, <4>2
    <3>2. CASE t # s
      <4>1. /\ slots[t].received = Concat!Cardinality(Concat!Valid(t))
            /\ slots[t].active => slots[t].received \in 1 .. slots[t].total - 1
            /\ Concat!Valid(t) \subseteq 1 .. slots[t].total
        BY <2>1 DEF Concat!SlotsSound
      <4>2. (Concat!Cardinality(Concat!Valid(t)))' = Concat!Cardinality(Concat!Valid(t))
        BY <1>11, <3>2
      <4>3. QED
        BY <1>4, <1>11, <3>2, <4>1, <4>2
    <3>3. QED
      BY <3>1, <3>2
  <2>3. ASSUME NEW a \in 1 .. Slots, NEW b \in 1 .. Slots, slots'[a].active, slots'[b].active,
               slots'[a].key = slots'[b].key, slots'[a].total = slots'[b].total
        PROVE  a = b
    <3>1. put.active => put.key = h.key /\ put.total = h.total
      BY <1>1 DEF IsPut
    <3>2. \A t \in (1 .. Slots) \ {s} : slots[t].active => slots[t].key # h.key \/ slots[t].total # h.total
      BY <1>2 DEF IsGiven
    <3>3. CASE a # s /\ b # s
      BY <1>4, <2>1, <2>3, <3>3 DEF Concat!SlotsSound
    <3>4. QED
      BY <1>4, <2>3, <3>1, <3>2, <3>3
  <2>4. QED
    BY <2>2, <2>3 DEF Concat!SlotsSound
<1>13. Concat!EmptyAtRest'
  <2>1. Concat!EmptyAtRest
    BY DEF Concat!ConcatInv
  <2>2. ASSUME NEW t \in 1 .. Slots
        PROVE  IF slots'[t].active THEN slots'[t].key \in MessageKeys ELSE Concat!Valid(t)' = {}
    <3>1. CASE t = s
      <4>1. IF put.active THEN put.key \in MessageKeys ELSE FilledIn(put) = {}
        BY <1>1, <1>2 DEF IsPut, IsGiven
      <4>2. QED
        BY <1>4, <1>11, <3>1, <4>1
    <3>2. CASE t # s
      BY <1>4, <1>11, <2>1, <3>2 DEF Concat!EmptyAtRest
    <3>3. QED
      BY <3>1, <3>2
  <2>3. QED
    BY <2>2 DEF Concat!EmptyAtRest
<1>14. ASSUME NEW t \in 1 .. Slots, ~Concat!TimedOut(t)
       PROVE  Concat!Texts(slots[t]) \subseteq (Concat!Held \cup Concat!Sent)'
  <2>1. CASE t # s
    BY <1>4, <2>1 DEF Concat!Held
  <2>2. CASE t = s
    <3>1. Concat!Texts(out) \subseteq (Concat!Held \cup Concat!Sent)'
      <4>1. CASE Concat!Texts(put) = Concat!Texts(out)
        BY <1>4, <4>1 DEF Concat!Held
      <4>2. CASE \E e : sent = {e} /\ Concat!TextsOf(e) = Concat!Texts(out)
        BY <1>4, <4>2 DEF Concat!Sent
      <4>3. QED
        BY <1>1, <4>1, <4>2 DEF IsPut
    <3>2. CASE Concat!Texts(slot) = Concat!Texts(slots[s])
      BY <1>5, <2>2, <3>1, <3>2
    <3>3. CASE ev = {Concat!Assemble(slots[s])}
      <4>1. Concat!Assemble(slots[s]) \in emitted'
            /\ Concat!TextsOf(Concat!Assemble(slots[s])) = Concat!Texts(slots[s])
        BY <1>4, <1>6, <3>3
      <4>2. QED
        BY <2>2, <4>1 DEF Concat!Sent
    <3>4. QED
      BY <1>2, <1>14, <2>2, <3>2, <3>3 DEF IsGiven, ev
  <2>3. QED
    BY <2>1, <2>2
<1>15. QED
  BY <1>9, <1>10, <1>12, <1>13, <1>14 DEF Concat!ConcatInv

\* All of it together.
LEMMA ConcatStep ==
  Concat!ConcatInv /\ [Concat!Next]_(Concat!vars)
    => /\ Concat!ConcatInv'
       /\ \A t \in 1 .. Slots : ~Concat!TimedOut(t) => Concat!Texts(slots[t]) \subseteq (Concat!Held \cup Concat!Sent)'
<1> SUFFICES ASSUME Concat!ConcatInv, [Concat!Next]_(Concat!vars)
    PROVE  /\ Concat!ConcatInv'
           /\ \A t \in 1 .. Slots : ~Concat!TimedOut(t) => Concat!Texts(slots[t]) \subseteq (Concat!Held \cup Concat!Sent)'
  OBVIOUS
<1>1. CASE Concat!Tick
  BY <1>1, ConcatTick
<1>2. CASE Concat!Expire
  BY <1>2, ConcatExpire
<1>3. ASSUME NEW h \in Inputs, Concat!FeedSingle(h)
      PROVE  /\ Concat!ConcatInv'
             /\ \A t \in 1 .. Slots : Concat!Texts(slots[t]) \subseteq (Concat!Held \cup Concat!Sent)'
  BY <1>3, ConcatFeedSingle
<1>4. ASSUME NEW h \in Inputs, Concat!FeedPart(h)
      PROVE  /\ Concat!ConcatInv'
             /\ \A t \in 1 .. Slots : ~Concat!TimedOut(t) => Concat!Texts(slots[t]) \subseteq (Concat!Held \cup Concat!Sent)'
  <2>1. CASE Receives(h).parts[h.part] # 0
    BY <1>4, <2>1, ConcatRepeats
  <2>2. CASE Receives(h).parts[h.part] = 0
    BY <1>4, <2>2, ConcatStored
  <2>3. QED
    BY <2>1, <2>2
<1>5. CASE UNCHANGED Concat!vars
  <2>1. slots' = slots /\ emitted' = emitted /\ delivered' = delivered /\ repeated' = repeated
    BY <1>5 DEF Concat!vars
  <2>2. Concat!Held' = Concat!Held /\ Concat!Sent' = Concat!Sent
    BY <2>1 DEF Concat!Held, Concat!Sent
  <2>3. Concat!TypeOK' /\ Concat!TextsFed'
    BY <2>1, <2>2 DEF Concat!ConcatInv, Concat!TypeOK, Concat!TextsFed
  <2>4. Concat!SlotsSound'
    <3>1. Concat!SlotsSound
      BY DEF Concat!ConcatInv
    <3>2. QED
      BY <2>1, <3>1 DEF Concat!SlotsSound, Concat!Valid
  <2>5. Concat!EmptyAtRest' /\ Concat!TextsApart'
    <3>1. Concat!EmptyAtRest /\ Concat!TextsApart
      BY DEF Concat!ConcatInv
    <3>2. QED
      BY <2>1, <3>1 DEF Concat!EmptyAtRest, Concat!TextsApart, Concat!Valid
  <2>6. Concat!NothingTwice'
    BY <2>1, <2>2 DEF Concat!ConcatInv, Concat!NothingTwice
  <2>7. \A t \in 1 .. Slots : Concat!Texts(slots[t]) \subseteq Concat!Held'
    BY <2>2 DEF Concat!Held
  <2>8. QED
    BY <2>3, <2>4, <2>5, <2>6, <2>7 DEF Concat!ConcatInv
<1>6. QED
  BY <1>1, <1>2, <1>3, <1>4, <1>5 DEF Concat!Next

\* A part is in one place only, and no two slots collect the same message.
THEOREM PartsInOnePlace == Spec => []PartsOnce
<1>1. Init => Concat!ConcatInv
  BY ConcatInit
<1>2. (runs = "Concat" => Concat!ConcatInv) /\ [Next]_vars => (runs = "Concat" => Concat!ConcatInv)'
  BY OneRuns, ConcatStep DEF concatVars, Concat!vars
<1>3. (runs = "Concat" => Concat!ConcatInv) => PartsOnce
  BY DEF PartsOnce, Concat!ConcatInv
<1>4. QED
  BY <1>1, <1>2, <1>3, PTL DEF Spec

\* An import takes no progress back, and a slot loses no part but by timing out.
THEOREM ImportsAndEvictionsKeep == Spec => NothingGivenUp
<1>1. Init => Config!ConfigInv /\ Concat!ConcatInv
  BY ConfigInit, ConcatInit
<1>2. (runs = "Config" => Config!ConfigInv) /\ [Next]_vars => (runs = "Config" => Config!ConfigInv)'
  BY OneRuns, ConfigStep DEF configVars, Config!vars, Config!bounds
<1>3. (runs = "Concat" => Concat!ConcatInv) /\ [Next]_vars => (runs = "Concat" => Concat!ConcatInv)'
  BY OneRuns, ConcatStep DEF concatVars, Concat!vars
<1>4. (runs = "Config" => Config!ConfigInv) /\ [Next]_vars
        => [ \A k \in Config!Progress :
               Config!Importing /\ file[k] = save["web"].base[k] /\ save'["web"] = None /\ restarts' = restarts
                 => ram'[k] = ram[k] ]_Config!vars
  <2> SUFFICES ASSUME runs = "Config" => Config!ConfigInv, [Next]_vars, ~UNCHANGED Config!vars,
                      NEW k \in Config!Progress,
                      Config!Importing, file[k] = save["web"].base[k], save'["web"] = None, restarts' = restarts
               PROVE  ram'[k] = ram[k]
    OBVIOUS
  <2>1. runs = "Config" /\ Config!Next
    BY OneRuns DEF configVars, Config!vars, Config!bounds
  <2>2. QED
    BY <2>1, ImportSparesProgress
<1>5. (runs = "Concat" => Concat!ConcatInv) /\ [Next]_vars
        => [ \A s \in 1 .. Slots : ~Concat!TimedOut(s) => Concat!Texts(slots[s]) \subseteq (Concat!Held \cup Concat!Sent)' ]_Concat!vars
  <2> SUFFICES ASSUME runs = "Concat" => Concat!ConcatInv, [Next]_vars, ~UNCHANGED Concat!vars
               PROVE  \A s \in 1 .. Slots : ~Concat!TimedOut(s) => Concat!Texts(slots[s]) \subseteq (Concat!Held \cup Concat!Sent)'
    OBVIOUS
  <2>1. runs = "Concat" /\ Concat!Next
    BY OneRuns DEF concatVars, Concat!vars
  <2>2. QED
    BY <2>1, ConcatStep
<1>6. QED
  BY <1>1, <1>2, <1>3, <1>4, <1>5, PTL DEF Spec, NothingGivenUp, Config!ImportKeepsProgress, Concat!LeavesEmitted

-----------------------------------------------------------------------------
(* The inbox and its flash.                                                *)

\* The bounds are numbers, a hole is no entry, and the instance's Cardinality is that
\* of FiniteSets.
LEMMA InboxNumbers ==
  /\ Capacity \in Nat \ {0} /\ MaxId \in Nat
  /\ \A e \in Inbox!Entry : e.id \in 1 .. MaxId /\ e.forwarded \in BOOLEAN
  /\ Inbox!Hole.id = 0 /\ Inbox!Hole \notin Inbox!Entry
  /\ \A S : Inbox!Cardinality(S) = Cardinality(S)
<1>1. \A e \in Inbox!Entry : e.id \in 1 .. MaxId /\ e.forwarded \in BOOLEAN
  BY DEF Inbox!Entry
<1>2. Inbox!Hole.id = 0
  BY DEF Inbox!Hole
<1>3. Capacity \in Nat \ {0} /\ MaxId \in Nat
  BY InboxAssumption DEF Inbox!CapacityPositive, Inbox!MaxIdNat
<1>4. QED
  BY <1>1, <1>2, <1>3 DEF Inbox!Cardinality, Cardinality

\* The place of the k-th line or entry before the head of a ring.
PlaceIn(size, h, k) == (h + size - 1 - k) % size
LEMMA RingPlaces ==
  ASSUME NEW size \in Nat \ {0}, NEW h \in 0 .. size - 1
  PROVE  /\ \A k \in 0 .. size - 1 : /\ PlaceIn(size, h, k) \in 0 .. size - 1
                                    /\ PlaceIn(size, h, k) = IF k < h THEN h - 1 - k ELSE h + size - 1 - k
         /\ \A j, k \in 0 .. size - 1 : PlaceIn(size, h, j) = PlaceIn(size, h, k) => j = k
         /\ \A p \in 0 .. size - 1 : \E k \in 0 .. size - 1 : PlaceIn(size, h, k) = p
         /\ (h + 1) % size \in 0 .. size - 1
         /\ PlaceIn(size, (h + 1) % size, 0) = h
         /\ \A k \in 0 .. size - 1 : k + 1 < size => PlaceIn(size, (h + 1) % size, k + 1) = PlaceIn(size, h, k)
         /\ PlaceIn(size, h, size - 1) = h
<1> DEFINE Places == 0 .. size - 1
           after == (h + 1) % size
<1>1. \A c \in Nat \ {0} : \A x \in Nat :
        (x < c => x % c = x) /\ (x >= c /\ x < c + c => x % c = x - c)
  OBVIOUS
<1>2. ASSUME NEW g \in Places, NEW k \in Places
      PROVE  /\ PlaceIn(size, g, k) \in Places
             /\ PlaceIn(size, g, k) = IF k < g THEN g - 1 - k ELSE g + size - 1 - k
  <2> DEFINE x == g + size - 1 - k
  <2>1. x \in Nat /\ x < size + size /\ (x >= size <=> k < g)
    OBVIOUS
  <2>2. PlaceIn(size, g, k) = IF k < g THEN x - size ELSE x
    <3> HIDE DEF x
    <3>1. PlaceIn(size, g, k) = x % size
      BY DEF PlaceIn, x
    <3>2. IF k < g THEN x >= size /\ x < size + size ELSE x < size
      BY <2>1
    <3>3. x % size = IF k < g THEN x - size ELSE x
      BY <1>1, <2>1, <3>2
    <3>4. QED
      BY <3>1, <3>3
  <2>3. QED
    BY <2>1, <2>2
<1>3. after \in Places /\ after = IF h + 1 = size THEN 0 ELSE h + 1
  <2>1. h + 1 \in Nat /\ h + 1 <= size
    OBVIOUS
  <2> DEFINE x == h + 1
  <2> HIDE DEF x
  <2>2. x % size = IF x = size THEN 0 ELSE x
    <3>1. x \in Nat /\ x <= size
      BY <2>1 DEF x
    <3>2. CASE x = size
      <4>1. x % size = x - size
        BY <1>1, <3>1, <3>2
      <4>2. QED
        BY <3>2, <4>1
    <3>3. CASE x # size
      <4>1. x < size
        BY <3>1, <3>3
      <4>2. x % size = x
        BY <1>1, <3>1, <4>1
      <4>3. QED
        BY <3>3, <4>2
    <3>4. QED
      BY <3>2, <3>3
  <2>3. QED
    BY <2>1, <2>2 DEF x
<1>4. ASSUME NEW j \in Places, NEW k \in Places, PlaceIn(size, h, j) = PlaceIn(size, h, k)
      PROVE  j = k
  <2> DEFINE x == PlaceIn(size, h, j)
             y == PlaceIn(size, h, k)
  <2>1. x = IF j < h THEN h - 1 - j ELSE h + size - 1 - j
    BY <1>2
  <2>2. y = IF k < h THEN h - 1 - k ELSE h + size - 1 - k
    BY <1>2
  <2>3. x = y
    BY <1>4
  <2> HIDE DEF x, y
  <2>4. QED
    BY <2>1, <2>2, <2>3
<1>5. ASSUME NEW p \in Places
      PROVE  \E k \in Places : PlaceIn(size, h, k) = p
  <2>1. CASE p < h
    BY <1>2, <2>1
  <2>2. CASE p >= h
    <3>1. h + size - 1 - p \in Places /\ ~(h + size - 1 - p < h)
      BY <2>2
    <3>2. PlaceIn(size, h, h + size - 1 - p) = h + size - 1 - (h + size - 1 - p)
      BY <1>2, <3>1
    <3>3. QED
      BY <3>1, <3>2
  <2>3. QED
    BY <2>1, <2>2
<1>6. PlaceIn(size, after, 0) = h /\ PlaceIn(size, h, size - 1) = h
  <2>1. PICK g \in Places : g = after /\ g = IF h + 1 = size THEN 0 ELSE h + 1
    BY <1>3
  <2>2. 0 \in Places /\ size - 1 \in Places
    OBVIOUS
  <2>3. PlaceIn(size, g, 0) = IF 0 < g THEN g - 1 - 0 ELSE g + size - 1 - 0
    BY <1>2, <2>2
  <2>4. PlaceIn(size, h, size - 1) = IF size - 1 < h THEN h - 1 - (size - 1) ELSE h + size - 1 - (size - 1)
    BY <1>2, <2>2
  <2>5. PlaceIn(size, g, 0) = h
    BY <2>1, <2>3
  <2>6. PlaceIn(size, h, size - 1) = h
    BY <2>4
  <2>7. QED
    BY <2>1, <2>5, <2>6
<1>7. ASSUME NEW k \in Places, k + 1 < size
      PROVE  PlaceIn(size, after, k + 1) = PlaceIn(size, h, k)
  <2> DEFINE g == after
  <2> HIDE DEF g
  <2>1. k + 1 \in Places /\ g \in Places /\ g = IF h + 1 = size THEN 0 ELSE h + 1
    BY <1>3, <1>7 DEF g
  <2>2. PlaceIn(size, h, k) = IF k < h THEN h - 1 - k ELSE h + size - 1 - k
    BY <1>2
  <2>3. PlaceIn(size, g, k + 1) = IF k + 1 < g THEN g - 1 - (k + 1) ELSE g + size - 1 - (k + 1)
    BY <1>2, <2>1
  <2>4. PlaceIn(size, g, k + 1) = PlaceIn(size, h, k)
    BY <1>7, <2>1, <2>2, <2>3
  <2>5. QED
    BY <2>4 DEF g
<1>8. QED
  BY <1>2, <1>3, <1>4, <1>5, <1>6, <1>7

\* The same of the inbox.
PlaceOf(h, k) == PlaceIn(Capacity, h, k)
LEMMA InboxPlaces ==
  ASSUME NEW h \in Inbox!Places
  PROVE  /\ \A k \in Inbox!Places : /\ PlaceOf(h, k) \in Inbox!Places
                                    /\ PlaceOf(h, k) = IF k < h THEN h - 1 - k ELSE h + Capacity - 1 - k
         /\ \A j, k \in Inbox!Places : PlaceOf(h, j) = PlaceOf(h, k) => j = k
         /\ \A p \in Inbox!Places : \E k \in Inbox!Places : PlaceOf(h, k) = p
         /\ Inbox!After(h) \in Inbox!Places
         /\ PlaceOf(Inbox!After(h), 0) = h
         /\ \A k \in Inbox!Places : k + 1 < Capacity => PlaceOf(Inbox!After(h), k + 1) = PlaceOf(h, k)
         /\ PlaceOf(h, Capacity - 1) = h
<1>1. Capacity \in Nat \ {0} /\ h \in 0 .. Capacity - 1
  BY InboxNumbers DEF Inbox!Places
<1>2. Inbox!Places = 0 .. Capacity - 1 /\ Inbox!After(h) = (h + 1) % Capacity
  BY DEF Inbox!After, Inbox!Places
<1>3. /\ \A k \in 0 .. Capacity - 1 :
            /\ PlaceIn(Capacity, h, k) \in 0 .. Capacity - 1
            /\ PlaceIn(Capacity, h, k) = IF k < h THEN h - 1 - k ELSE h + Capacity - 1 - k
      /\ \A j, k \in 0 .. Capacity - 1 : PlaceIn(Capacity, h, j) = PlaceIn(Capacity, h, k) => j = k
  <2>1. \A k \in 0 .. Capacity - 1 :
            /\ PlaceIn(Capacity, h, k) \in 0 .. Capacity - 1
            /\ PlaceIn(Capacity, h, k) = IF k < h THEN h - 1 - k ELSE h + Capacity - 1 - k
    BY <1>1, RingPlaces, ZenonT(60)
  <2>2. \A j, k \in 0 .. Capacity - 1 : PlaceIn(Capacity, h, j) = PlaceIn(Capacity, h, k) => j = k
    BY <1>1, RingPlaces, SMTT(30)
  <2> QED
    BY <2>1, <2>2, Zenon
<1>4. \A p \in 0 .. Capacity - 1 : \E k \in 0 .. Capacity - 1 : PlaceIn(Capacity, h, k) = p
  BY <1>1, RingPlaces, SMTT(30)
<1>5. /\ (h + 1) % Capacity \in 0 .. Capacity - 1
      /\ PlaceIn(Capacity, (h + 1) % Capacity, 0) = h
      /\ \A k \in 0 .. Capacity - 1 :
           k + 1 < Capacity => PlaceIn(Capacity, (h + 1) % Capacity, k + 1) = PlaceIn(Capacity, h, k)
      /\ PlaceIn(Capacity, h, Capacity - 1) = h
  BY <1>1, RingPlaces
<1>6. QED
  BY <1>2, <1>3, <1>4, <1>5, Zenon DEF PlaceOf

\* What is shown, in its order.
LEMMA InboxShown ==
  ASSUME Inbox!TypeOK, Inbox!NewestFirst
  PROVE  /\ \A k \in Inbox!Places : Inbox!At(k) \in Inbox!Entry \cup {Inbox!Hole}
         /\ \A e : e \in Inbox!Shown <=> \E k \in 0 .. filled - 1 : e = Inbox!At(k) /\ e # Inbox!Hole
         /\ \A d, e \in Inbox!Shown : d.id = e.id => d = e
         /\ Inbox!Shown \subseteq Inbox!Entry
<1>1. \A k \in Inbox!Places : Inbox!At(k) = inboxRing[PlaceOf(inboxHead, k)]
  BY DEF Inbox!At, PlaceOf, PlaceIn
<1>2. inboxHead \in Inbox!Places /\ filled \in 0 .. Capacity /\ inboxRing \in [Inbox!Places -> Inbox!Entry \cup {Inbox!Hole}]
  BY DEF Inbox!TypeOK
<1>3. \A k \in Inbox!Places : Inbox!At(k) \in Inbox!Entry \cup {Inbox!Hole}
  <2>1. \A k \in Inbox!Places : PlaceOf(inboxHead, k) \in Inbox!Places
    BY <1>2, InboxPlaces
  <2>2. QED
    BY <1>1, <1>2, <2>1
<1>4. ASSUME NEW e \in Inbox!Shown
      PROVE  \E k \in 0 .. filled - 1 : e = Inbox!At(k) /\ e # Inbox!Hole
  <2>1. PICK p \in Inbox!Places : e = inboxRing[p] /\ e # Inbox!Hole
    BY <1>4 DEF Inbox!Shown
  <2>2. PICK k \in Inbox!Places : p = PlaceOf(inboxHead, k)
    BY <1>2, InboxPlaces
  <2>3. k \notin filled .. Capacity - 1
    BY <1>1, <2>1, <2>2 DEF Inbox!NewestFirst
  <2>4. k \in 0 .. filled - 1
    BY <1>2, <2>3, InboxNumbers DEF Inbox!Places
  <2>5. QED
    BY <1>1, <2>1, <2>2, <2>4
<1>5. ASSUME NEW k \in 0 .. filled - 1, Inbox!At(k) # Inbox!Hole
      PROVE  Inbox!At(k) \in Inbox!Shown
  <2>1. k \in Inbox!Places
    BY <1>2, InboxNumbers DEF Inbox!Places
  <2>2. PlaceOf(inboxHead, k) \in Inbox!Places
    BY <1>2, <2>1, InboxPlaces
  <2>3. QED
    BY <1>1, <1>5, <2>1, <2>2 DEF Inbox!Shown
<1>6. ASSUME NEW d \in Inbox!Shown, NEW e \in Inbox!Shown, d.id = e.id
      PROVE  d = e
  <2>1. PICK j \in 0 .. filled - 1 : d = Inbox!At(j) /\ d # Inbox!Hole
    BY <1>4
  <2>2. PICK k \in 0 .. filled - 1 : e = Inbox!At(k) /\ e # Inbox!Hole
    BY <1>4
  <2>3. d.id \in Nat /\ e.id \in Nat
    BY <1>2, <1>3, <2>1, <2>2, InboxNumbers DEF Inbox!Places
  <2>4. ~(j < k) /\ ~(k < j)
    BY <1>6, <2>1, <2>2, <2>3 DEF Inbox!NewestFirst
  <2>5. j = k
    BY <1>2, <2>4
  <2>6. QED
    BY <2>1, <2>2, <2>5
<1>7. Inbox!Shown \subseteq Inbox!Entry
  BY <1>2 DEF Inbox!Shown
<1>8. QED
  BY <1>3, <1>4, <1>5, <1>6, <1>7

KeyedSet(S) == S \subseteq Inbox!Entry /\ \A d, e \in S : d.id = e.id => d = e
\* How many entries are older.
RankIn(S, e) == Cardinality(Inbox!Older(S, e))

\* Entries are ranked by how many are older: the ranks are 0 up to their number.
LEMMA InboxRanks ==
  ASSUME NEW S, KeyedSet(S)
  PROVE  /\ IsFiniteSet(S) /\ Cardinality(S) \in Nat
         /\ \A e \in S : RankIn(S, e) \in 0 .. Cardinality(S) - 1
         /\ \A d, e \in S : d.id < e.id => RankIn(S, d) < RankIn(S, e)
         /\ \A d, e \in S : RankIn(S, d) = RankIn(S, e) => d = e
         /\ \A p \in 0 .. Cardinality(S) - 1 : \E e \in S : RankIn(S, e) = p
<1> DEFINE N == Cardinality(S)
<1>1. \A e \in S : e.id \in 1 .. MaxId
  BY InboxNumbers DEF KeyedSet
<1>2. IsFiniteSet(S) /\ N \in Nat
  <2> DEFINE f == [e \in S |-> e.id]
  <2>1. f \in [S -> 1 .. MaxId] /\ \A d, e \in S : f[d] = f[e] => d = e
    BY <1>1 DEF KeyedSet
  <2>2. f \in Injection(S, 1 .. MaxId)
    BY <2>1, Fun_IsInj
  <2>3. IsFiniteSet(1 .. MaxId)
    BY InboxNumbers, FS_Interval
  <2> HIDE DEF f
  <2>4. IsFiniteSet(S)
    BY <2>2, <2>3, FS_Injection
  <2>5. QED
    BY <2>4, FS_CardinalityType
<1> HIDE DEF N
<1>3. ASSUME NEW e \in S
      PROVE  RankIn(S, e) \in 0 .. N - 1 /\ IsFiniteSet(Inbox!Older(S, e))
  <2> DEFINE O == Inbox!Older(S, e)
             T == S \ {e}
  <2>1. O \in SUBSET T
    BY <1>1 DEF Inbox!Older
  <2>2. IsFiniteSet(T) /\ Cardinality(T) = N - 1
    BY <1>2, FS_RemoveElement DEF N
  <2> HIDE DEF O, T
  <2>3. IsFiniteSet(O) /\ Cardinality(O) <= Cardinality(T) /\ Cardinality(O) \in Nat
    BY <2>1, <2>2, FS_Subset, FS_CardinalityType
  <2>4. QED
    BY <1>2, <2>2, <2>3 DEF O, RankIn
<1>4. ASSUME NEW d \in S, NEW e \in S, d.id < e.id
      PROVE  RankIn(S, d) < RankIn(S, e)
  <2> DEFINE D == Inbox!Older(S, d)
             E == Inbox!Older(S, e)
  <2>1. D \in SUBSET E /\ d \in E /\ d \notin D
    BY <1>1, <1>4 DEF Inbox!Older
  <2>2. IsFiniteSet(E)
    BY <1>3
  <2> HIDE DEF D, E
  <2>3. /\ Cardinality(D) <= Cardinality(E) /\ Cardinality(D) # Cardinality(E)
        /\ Cardinality(D) \in Nat /\ Cardinality(E) \in Nat
    BY <2>1, <2>2, FS_Subset, FS_CardinalityType
  <2>4. Cardinality(D) < Cardinality(E)
    BY <2>3
  <2>5. QED
    BY <2>4 DEF D, E, RankIn
<1>5. ASSUME NEW d \in S, NEW e \in S, RankIn(S, d) = RankIn(S, e)
      PROVE  d = e
  <2> DEFINE x == RankIn(S, d)
             y == RankIn(S, e)
  <2>1. x \in Nat /\ y \in Nat /\ x = y
    BY <1>2, <1>3, <1>5
  <2>2. (d.id < e.id => x < y) /\ (e.id < d.id => y < x)
    BY <1>4
  <2> HIDE DEF x, y
  <2>3. d.id = e.id
    BY <1>1, <2>1, <2>2
  <2>4. QED
    BY <2>3 DEF KeyedSet
<1>6. \A p \in 0 .. N - 1 : \E e \in S : RankIn(S, e) = p
  <2> DEFINE g == [e \in S |-> RankIn(S, e)]
             T == 0 .. N - 1
  <2>1. g \in [S -> T] /\ \A d, e \in S : g[d] = g[e] => d = e
    BY <1>3, <1>5
  <2>2. g \in Injection(S, T)
    BY <2>1, Fun_IsInj
  <2>3. IsFiniteSet(T) /\ Cardinality(T) = N
    BY <1>2, FS_Interval
  <2>4. \A e \in S : g[e] = RankIn(S, e)
    OBVIOUS
  <2> HIDE DEF g, T
  <2>5. g \in Surjection(S, T)
    BY <2>2, <2>3, FS_Injection DEF N
  <2>6. \A p \in T : \E e \in S : g[e] = p
    BY <2>5, Fun_SurjectionProperties
  <2>7. QED
    BY <2>4, <2>6 DEF T
<1>7. QED
  BY <1>2, <1>3, <1>4, <1>5, <1>6 DEF N

\* A start-up keeps the newest.
LEMMA InboxKeeps ==
  ASSUME NEW S, KeyedSet(S)
  PROVE  LET K == Inbox!Keep(S) IN
         /\ K \subseteq S /\ KeyedSet(K) /\ IsFiniteSet(K) /\ Cardinality(K) \in 0 .. Capacity
         /\ \A e \in S \ K : Cardinality(K) = Capacity /\ \A d \in K : d.id > e.id
<1> DEFINE N == Cardinality(S)
           K == Inbox!Keep(S)
<1>1. /\ IsFiniteSet(S) /\ N \in Nat
      /\ \A e \in S : RankIn(S, e) \in 0 .. N - 1
      /\ \A d, e \in S : d.id < e.id => RankIn(S, d) < RankIn(S, e)
      /\ \A d, e \in S : RankIn(S, d) = RankIn(S, e) => d = e
      /\ \A p \in 0 .. N - 1 : \E e \in S : RankIn(S, e) = p
  BY InboxRanks
<1>2. Capacity \in Nat \ {0} /\ \A e \in S : e.id \in Nat
  BY InboxNumbers DEF KeyedSet
<1>3. K \subseteq S /\ \A e \in S : e \in K <=> N - RankIn(S, e) <= Capacity
  BY InboxNumbers DEF Inbox!Keep, RankIn
<1> HIDE DEF N, K
<1>4. KeyedSet(K)
  BY <1>3 DEF KeyedSet
<1>5. IsFiniteSet(K) /\ Cardinality(K) \in Nat
  BY <1>1, <1>3, FS_Subset, FS_CardinalityType
<1>6. CASE N <= Capacity
  <2>1. \A e \in S : e \in K
    BY <1>1, <1>2, <1>3, <1>6
  <2>2. K = S
    BY <1>3, <2>1
  <2>3. Cardinality(K) \in 0 .. Capacity
    BY <1>1, <1>2, <1>6, <2>2 DEF N
  <2>4. QED
    BY <1>3, <1>4, <1>5, <2>2, <2>3 DEF K
<1>7. CASE N > Capacity
  <2> DEFINE T == N - Capacity .. N - 1
             g == [e \in K |-> RankIn(S, e)]
  <2>1. \A e \in K : RankIn(S, e) \in T
    BY <1>1, <1>2, <1>3
  <2>2. \A p \in T : \E e \in K : RankIn(S, e) = p
    <3> SUFFICES ASSUME NEW p \in T PROVE \E e \in K : RankIn(S, e) = p
      OBVIOUS
    <3>1. p \in 0 .. N - 1 /\ N - p <= Capacity
      BY <1>1, <1>2, <1>7
    <3>2. PICK e \in S : RankIn(S, e) = p
      BY <1>1, <3>1
    <3>3. QED
      BY <1>3, <3>1, <3>2
  <2>3. g \in [K -> T] /\ (\A d, e \in K : g[d] = g[e] => d = e) /\ \A p \in T : \E e \in K : g[e] = p
    BY <1>1, <1>3, <2>1, <2>2
  <2>4. ExistsBijection(K, T)
    <3>1. g \in Bijection(K, T)
      BY <2>3, Fun_IsBij
    <3>2. QED
      BY <3>1, Fun_ExistsBij
  <2>5. Cardinality(T) = Capacity
    <3>1. N - Capacity \in Int /\ N - 1 \in Int /\ ~(N - Capacity > N - 1) /\ (N - 1) - (N - Capacity) + 1 = Capacity
      BY <1>1, <1>2
    <3>2. QED
      BY <3>1, FS_Interval
  <2> HIDE DEF T, g
  <2>6. Cardinality(K) = Capacity
    BY <1>5, <2>4, <2>5, FS_Bijection
  <2>7. ASSUME NEW e \in S \ K, NEW d \in K
        PROVE  d.id > e.id
    <3> DEFINE x == RankIn(S, d)
               y == RankIn(S, e)
    <3>1. x \in Nat /\ y \in Nat /\ N - x <= Capacity /\ ~(N - y <= Capacity)
      BY <1>1, <1>3
    <3>2. d.id < e.id => x < y
      BY <1>1, <1>3
    <3>3. d.id # e.id
      BY <1>3 DEF KeyedSet
    <3> HIDE DEF x, y
    <3>4. ~(d.id < e.id)
      BY <1>1, <1>2, <3>1, <3>2
    <3>5. d.id \in Nat /\ e.id \in Nat
      BY <1>2, <1>3
    <3>6. QED
      BY <3>3, <3>4, <3>5
  <2>8. QED
    BY <1>2, <1>3, <1>4, <1>5, <2>6, <2>7 DEF K
<1>8. QED
  BY <1>1, <1>2, <1>6, <1>7

\* The highest id.
LEMMA InboxNewest ==
  ASSUME NEW S, KeyedSet(S)
  PROVE  Inbox!Newest(S) \in 0 .. MaxId /\ \A e \in S : e.id <= Inbox!Newest(S)
<1>1. \A e \in S : e.id \in 1 .. MaxId
  BY InboxNumbers DEF KeyedSet
<1> DEFINE ids == {e.id : e \in S} \cup {0}
           low == {MaxId - m : m \in ids}
<1>2. ids \subseteq 0 .. MaxId
  BY <1>1, InboxNumbers
<1>3. low \in SUBSET Nat /\ low # {}
  BY <1>2, InboxNumbers
<1>4. PICK l \in low : \A k \in low : l <= k
  BY <1>3, LeastNatural
<1>5. PICK m \in ids : l = MaxId - m
  BY <1>4
<1>6. \A e \in S : e.id <= m
  <2> SUFFICES ASSUME NEW e \in S PROVE e.id <= m
    OBVIOUS
  <2>1. MaxId - e.id \in low
    OBVIOUS
  <2>2. MaxId - m <= MaxId - e.id
    BY <1>4, <1>5, <2>1
  <2>3. e.id \in Int /\ m \in Int
    BY <1>1, <1>2
  <2>4. QED
    BY <2>2, <2>3, InboxNumbers
<1>7. Inbox!Newest(S) \in ids /\ \A e \in S : e.id <= Inbox!Newest(S)
  <2> HIDE DEF low
  <2>1. \E x \in ids : \A e \in S : e.id <= x
    BY <1>6
  <2>2. Inbox!Newest(S) = CHOOSE x \in ids : \A e \in S : e.id <= x
    BY DEF Inbox!Newest
  <2> HIDE DEF ids
  <2>3. QED
    BY <2>1, <2>2
<1>8. QED
  BY <1>2, <1>7

\* A ring with the kept entries from the oldest on.
LEMMA InboxRestores ==
  ASSUME NEW K, KeyedSet(K), IsFiniteSet(K), Cardinality(K) \in 0 .. Capacity, Inbox!Restore(K)
  PROVE  /\ inboxRing' \in [Inbox!Places -> Inbox!Entry \cup {Inbox!Hole}]
         /\ \A p \in Inbox!Places : IF p < Cardinality(K) THEN inboxRing'[p] \in K /\ RankIn(K, inboxRing'[p]) = p
                                    ELSE inboxRing'[p] = Inbox!Hole
         /\ Inbox!Shown' = K
<1> DEFINE N == Cardinality(K)
<1>1. /\ \A e \in K : RankIn(K, e) \in 0 .. N - 1
      /\ \A d, e \in K : RankIn(K, d) = RankIn(K, e) => d = e
      /\ \A p \in 0 .. N - 1 : \E e \in K : RankIn(K, e) = p
  BY InboxRanks
<1>2. N \in 0 .. Capacity /\ Capacity \in Nat
  BY InboxNumbers
<1> HIDE DEF N
<1>3. /\ \A e \in K : Inbox!Cardinality(Inbox!Older(K, e)) = RankIn(K, e)
      /\ Inbox!Cardinality(K) = N
      /\ inboxRing' = [p \in Inbox!Places |->
                         IF p < Inbox!Cardinality(K)
                         THEN CHOOSE e \in K : Inbox!Cardinality(Inbox!Older(K, e)) = p ELSE Inbox!Hole]
  <2>1. \A S : Inbox!Cardinality(S) = Cardinality(S)
    BY InboxNumbers
  <2>2. QED
    BY <2>1, Zenon DEF Inbox!Restore, RankIn, N
<1>4. ASSUME NEW p \in Inbox!Places
      PROVE  IF p < N THEN inboxRing'[p] \in K /\ RankIn(K, inboxRing'[p]) = p ELSE inboxRing'[p] = Inbox!Hole
  <2>1. CASE p < N
    <3>1. p \in 0 .. N - 1
      BY <1>2, <2>1 DEF Inbox!Places
    <3>2. inboxRing'[p] = CHOOSE e \in K : Inbox!Cardinality(Inbox!Older(K, e)) = p
      BY <1>3, <2>1
    <3>3. \E e \in K : Inbox!Cardinality(Inbox!Older(K, e)) = p
      BY <1>1, <1>3, <3>1
    <3>4. inboxRing'[p] \in K /\ Inbox!Cardinality(Inbox!Older(K, inboxRing'[p])) = p
      BY <3>2, <3>3
    <3>5. QED
      BY <1>3, <2>1, <3>4
  <2>2. CASE ~(p < N)
    BY <1>3, <2>2
  <2>3. QED
    BY <2>1, <2>2
<1>5. inboxRing' \in [Inbox!Places -> Inbox!Entry \cup {Inbox!Hole}]
  <2>1. \A p \in Inbox!Places : inboxRing'[p] \in Inbox!Entry \cup {Inbox!Hole}
    BY <1>4 DEF KeyedSet
  <2>2. inboxRing' = [p \in Inbox!Places |-> inboxRing'[p]]
    BY <1>3
  <2>3. QED
    BY <2>1, <2>2
<1>6. ASSUME NEW e \in K
      PROVE  \E p \in Inbox!Places : inboxRing'[p] = e
  <2> DEFINE r == RankIn(K, e)
  <2>1. r \in 0 .. N - 1
    BY <1>1
  <2>2. r \in Inbox!Places /\ r < N
    BY <1>2, <2>1 DEF Inbox!Places
  <2>3. inboxRing'[r] \in K /\ RankIn(K, inboxRing'[r]) = r
    BY <1>4, <2>2
  <2>4. inboxRing'[r] = e
    BY <1>1, <2>3
  <2>5. QED
    BY <2>2, <2>4
<1>7. \A e \in K : e # Inbox!Hole
  BY InboxNumbers DEF KeyedSet
<1>8. Inbox!Shown' = {inboxRing'[p] : p \in Inbox!Places} \ {Inbox!Hole}
  BY DEF Inbox!Shown
<1>9. QED
  BY <1>4, <1>5, <1>6, <1>7, <1>8 DEF N

\* A start-up fills the ring from the oldest entry it keeps to the newest.
LEMMA InboxLoads ==
  ASSUME NEW found, KeyedSet(found), NEW bad \in SUBSET found, Inbox!Load(found, bad),
         ready' = TRUE, inboxPc' = "idle",
         UNCHANGED <<victim, fresh>>, {victim, fresh} \subseteq 0 .. MaxId
  PROVE  /\ Inbox!InboxInv'
         /\ Inbox!Shown' = Inbox!Keep(found \ bad) /\ inboxFlash' \subseteq found
<1> DEFINE K == Inbox!Keep(found \ bad)
           N == Cardinality(K)
<1>0. KeyedSet(found \ bad)
  BY DEF KeyedSet
<1>1. /\ K \subseteq found /\ KeyedSet(K) /\ IsFiniteSet(K) /\ N \in 0 .. Capacity
  <2>1. /\ K \subseteq found \ bad /\ KeyedSet(K) /\ IsFiniteSet(K) /\ N \in 0 .. Capacity
    BY <1>0, InboxKeeps
  <2>2. QED
    BY <2>1
<1>2. Inbox!Restore(K) /\ inboxHead' = N % Capacity /\ filled' = N /\ inboxSeq' = Inbox!Newest(K)
  BY InboxNumbers DEF Inbox!Load
<1>3. PICK stuck \in SUBSET (found \ K) : inboxFlash' = K \cup stuck /\ missed' = {e.id : e \in stuck}
  BY DEF Inbox!Load
<1>4. Capacity \in Nat \ {0} /\ MaxId \in Nat
  BY InboxNumbers
<1>5. /\ inboxRing' \in [Inbox!Places -> Inbox!Entry \cup {Inbox!Hole}] /\ Inbox!Shown' = K
      /\ \A p \in Inbox!Places : IF p < N THEN inboxRing'[p] \in K /\ RankIn(K, inboxRing'[p]) = p
                                 ELSE inboxRing'[p] = Inbox!Hole
  BY <1>1, <1>2, InboxRestores
<1>6. /\ \A e \in K : e.id \in 1 .. MaxId /\ e.id <= inboxSeq' /\ inboxSeq' \in 0 .. MaxId
      /\ \A e \in found : e.id \in 1 .. MaxId
      /\ \A d, e \in K : RankIn(K, d) < RankIn(K, e) => d.id < e.id
  <2>1. \A e \in found : e.id \in 1 .. MaxId
    BY InboxNumbers DEF KeyedSet
  <2>2. inboxSeq' \in 0 .. MaxId /\ \A e \in K : e.id <= inboxSeq'
    BY <1>1, <1>2, InboxNewest
  <2>3. ASSUME NEW d \in K, NEW e \in K, RankIn(K, d) < RankIn(K, e)
        PROVE  d.id < e.id
    <3> DEFINE x == RankIn(K, d)
               y == RankIn(K, e)
    <3>1. x \in Nat /\ y \in Nat /\ x < y
      BY <1>1, <2>3, InboxRanks
    <3>2. e.id < d.id => y < x
      BY <1>1, InboxRanks
    <3>3. d # e
      BY <3>1
    <3> HIDE DEF x, y
    <3>4. d.id # e.id
      <4>1. \A x1, x2 \in K : x1.id = x2.id => x1 = x2
        BY <1>1 DEF KeyedSet
      <4> HIDE DEF K
      <4>2. QED
        BY <3>3, <4>1
    <3>5. d.id \in Nat /\ e.id \in Nat
      BY <1>1, <2>1, K \subseteq found, \A x3 \in 1 .. MaxId : x3 \in Nat
    <3>6. QED
      BY <3>1, <3>2, <3>4, <3>5
  <2>4. QED
    BY <1>1, <2>1, <2>2, <2>3
<1> HIDE DEF K, N
<1>7. inboxHead' \in Inbox!Places /\ inboxHead' = IF N = Capacity THEN 0 ELSE N
  <2>1. \A c \in Nat \ {0} : c % c = 0 /\ \A x \in Nat : x < c => x % c = x
    OBVIOUS
  <2>2. QED
    BY <1>1, <1>2, <1>4, <2>1 DEF Inbox!Places
<1>8. Inbox!TypeOK'
  <2>1. inboxFlash' \subseteq Inbox!Entry /\ missed' \subseteq 1 .. MaxId
    BY <1>1, <1>3, <1>6 DEF KeyedSet
  <2>2. filled' \in 0 .. Capacity
    BY <1>1, <1>2 DEF N, K
  <2>3. ready' \in BOOLEAN
    BY Zenon
  <2>4. inboxPc' \in {"off", "idle", "erase", "persist"} /\ {victim', fresh'} \subseteq 0 .. MaxId
    OBVIOUS
  <2>5. inboxSeq' \in 0 .. MaxId
    BY <1>1, <1>2, InboxNewest DEF K
  <2>6. QED
    BY <1>5, <1>7, <2>1, <2>2, <2>3, <2>4, <2>5 DEF Inbox!TypeOK
<1>9. ASSUME NEW k \in Inbox!Places
      PROVE  (Inbox!At(k))' = IF k < N THEN inboxRing'[N - 1 - k] ELSE Inbox!Hole
  <2>0. PICK h \in Inbox!Places : h = inboxHead'
    BY <1>7
  <2> DEFINE i == PlaceOf(h, k)
  <2>1. (Inbox!At(k))' = inboxRing'[i]
    BY <2>0 DEF Inbox!At, PlaceOf, PlaceIn
  <2>2. i \in Inbox!Places /\ i = IF k < h THEN h - 1 - k ELSE h + Capacity - 1 - k
    BY InboxPlaces
  <2>3. h = IF N = Capacity THEN 0 ELSE N
    BY <1>7, <2>0
  <2> HIDE DEF i
  <2>4. k \in 0 .. Capacity - 1
    BY DEF Inbox!Places
  <2>5. CASE k < N
    <3>1. i = N - 1 - k
      BY <1>1, <1>4, <2>2, <2>3, <2>4, <2>5
    <3>2. QED
      BY <2>1, <2>5, <3>1
  <2>6. CASE ~(k < N)
    <3>1. ~(i < N)
      BY <1>1, <1>4, <2>2, <2>3, <2>4, <2>6
    <3>2. QED
      BY <1>5, <2>1, <2>2, <2>6, <3>1
  <2>7. QED
    BY <2>5, <2>6
<1>10. Inbox!NewestFirst'
  <2>2. filled' = N
    BY <1>2, Zenon DEF K, N
  <2>1. filled' < Capacity => inboxHead' = filled'
    BY <1>1, <1>4, <1>7, <2>2
  <2>3. \A k \in filled' .. Capacity - 1 : (Inbox!At(k))' = Inbox!Hole
    BY <1>1, <1>4, <1>9, <2>2 DEF Inbox!Places
  <2>4. ASSUME NEW j \in 0 .. filled' - 1, NEW k \in 0 .. filled' - 1, j < k
        PROVE  (Inbox!At(j))'.id > (Inbox!At(k))'.id
    <3> DEFINE d == inboxRing'[N - 1 - k]
               e == inboxRing'[N - 1 - j]
    <3>1. j \in Inbox!Places /\ k \in Inbox!Places /\ j < N /\ k < N
          /\ N - 1 - j \in Inbox!Places /\ N - 1 - k \in Inbox!Places /\ N - 1 - j < N /\ N - 1 - k < N
          /\ N - 1 - k < N - 1 - j
      BY <1>1, <1>4, <2>2, <2>4 DEF Inbox!Places
    <3>2. d \in K /\ e \in K /\ RankIn(K, d) = N - 1 - k /\ RankIn(K, e) = N - 1 - j
      BY <1>5, <3>1
    <3>3. (Inbox!At(j))' = e /\ (Inbox!At(k))' = d
      BY <1>9, <3>1
    <3> HIDE DEF d, e
    <3>4. d.id < e.id
      BY <1>6, <3>1, <3>2
    <3>5. d.id \in Nat /\ e.id \in Nat
      BY <1>6, <3>2
    <3>6. QED
      BY <3>3, <3>4, <3>5
  <2>5. \A e \in Inbox!Shown' : e.id <= inboxSeq'
    BY <1>5, <1>6
  <2>6. QED
    BY <2>1, <2>3, <2>4, <2>5 DEF Inbox!NewestFirst
<1>11. Inbox!Keyed' /\ inboxFlash' \subseteq found
  BY <1>1, <1>3 DEF Inbox!Keyed, KeyedSet
<1>12. Inbox!UnderWay'
  <2>1. ASSUME NEW id \in 1 .. MaxId, id \notin missed'
        PROVE  (Inbox!OfId(inboxFlash, id))' = (Inbox!OfId(Inbox!Shown, id))'
    <3>1. \A e \in stuck : e.id # id
      BY <1>3, <2>1
    <3>2. QED
      BY <1>3, <1>5, <3>1 DEF Inbox!OfId
  <2>2. (Inbox!MirrorsBut({}))'
    BY <2>1 DEF Inbox!MirrorsBut
  <2>3. QED
    BY <2>2 DEF Inbox!UnderWay
<1>13. QED
  BY <1>5, <1>8, <1>10, <1>11, <1>12 DEF Inbox!InboxInv, K

\* No entry is in two places of the ring.
LEMMA InboxApart ==
  ASSUME Inbox!TypeOK, Inbox!NewestFirst,
         NEW p \in Inbox!Places, NEW q \in Inbox!Places,
         inboxRing[p] # Inbox!Hole, inboxRing[q] # Inbox!Hole, inboxRing[p].id = inboxRing[q].id
  PROVE  p = q
<1>1. inboxHead \in Inbox!Places /\ filled \in 0 .. Capacity /\ inboxRing \in [Inbox!Places -> Inbox!Entry \cup {Inbox!Hole}]
  BY DEF Inbox!TypeOK
<1>2. \A k \in Inbox!Places : Inbox!At(k) = inboxRing[PlaceOf(inboxHead, k)]
  BY DEF Inbox!At, PlaceOf, PlaceIn
<1>3. PICK j \in Inbox!Places : p = PlaceOf(inboxHead, j)
  BY <1>1, InboxPlaces
<1>4. PICK k \in Inbox!Places : q = PlaceOf(inboxHead, k)
  BY <1>1, InboxPlaces
<1>5. j \in 0 .. filled - 1 /\ k \in 0 .. filled - 1
  <2>1. j \notin filled .. Capacity - 1 /\ k \notin filled .. Capacity - 1
    BY <1>2, <1>3, <1>4 DEF Inbox!NewestFirst
  <2>2. QED
    BY <1>1, <2>1, InboxNumbers DEF Inbox!Places
<1>6. inboxRing[p].id \in Nat
  BY <1>1, InboxNumbers
<1>7. ~(j < k) /\ ~(k < j)
  BY <1>2, <1>3, <1>4, <1>5, <1>6 DEF Inbox!NewestFirst
<1>8. j = k
  BY <1>1, <1>5, <1>7
<1>9. QED
  BY <1>3, <1>4, <1>8

\* The flash has one entry of an id.
LEMMA InboxFlashKeyed ==
  Inbox!InboxInv => KeyedSet(inboxFlash) /\ KeyedSet({}) /\ {victim, fresh} \subseteq 0 .. MaxId
BY DEF Inbox!InboxInv, Inbox!TypeOK, Inbox!Keyed, KeyedSet

\* A start-up, with the partition, with an empty one, or without.
LEMMA InboxBoots ==
  ASSUME Inbox!InboxInv, Inbox!Boot
  PROVE  Inbox!InboxInv'
<1>1. KeyedSet(inboxFlash) /\ KeyedSet({}) /\ {victim, fresh} \subseteq 0 .. MaxId
  BY InboxFlashKeyed
<1>2. inboxPc' = "idle" /\ UNCHANGED <<victim, fresh>>
  BY DEF Inbox!Boot
<1>3. ASSUME NEW bad \in SUBSET inboxFlash, Inbox!Mount(bad)
      PROVE  Inbox!InboxInv'
  BY <1>1, <1>2, <1>3, InboxLoads DEF Inbox!Mount
<1>4. CASE ready' = TRUE /\ Inbox!Load({}, {})
  BY <1>1, <1>2, <1>4, InboxLoads
<1>5. CASE ready' = FALSE /\ UNCHANGED <<Inbox!store, inboxFlash, missed>>
  <2>1. ready' \in BOOLEAN
    BY <1>5, Zenon
  <2>2. Inbox!TypeOK'
    BY <1>2, <1>5, <2>1 DEF Inbox!InboxInv, Inbox!TypeOK, Inbox!store
  <2>3. Inbox!NewestFirst' /\ Inbox!Keyed'
    BY <1>5 DEF Inbox!InboxInv, Inbox!NewestFirst, Inbox!Keyed, Inbox!At, Inbox!Shown, Inbox!store
  <2>4. Inbox!UnderWay'
    BY <1>2, <1>5 DEF Inbox!UnderWay
  <2>5. QED
    BY <2>2, <2>3, <2>4 DEF Inbox!InboxInv
<1>6. QED
  BY <1>3, <1>4, <1>5 DEF Inbox!Boot

\* An empty ring is in order.
LEMMA InboxEmpty ==
  ASSUME NEW r, r = [p \in Inbox!Places |-> Inbox!Hole]
  PROVE  /\ r \in [Inbox!Places -> Inbox!Entry \cup {Inbox!Hole}] /\ 0 \in Inbox!Places
         /\ \A h \in Inbox!Places : \A k \in Inbox!Places : r[PlaceOf(h, k)] = Inbox!Hole
<1>1. 0 \in Inbox!Places
  BY InboxNumbers DEF Inbox!Places
<1>2. \A h \in Inbox!Places : \A k \in Inbox!Places : PlaceOf(h, k) \in Inbox!Places
  BY InboxPlaces
<1>3. QED
  BY <1>1, <1>2

\* Without power nothing is left but the flash.
LEMMA InboxLosesPower ==
  ASSUME Inbox!InboxInv, Inbox!PowerLoss
  PROVE  Inbox!InboxInv'
<1>1. /\ inboxRing' \in [Inbox!Places -> Inbox!Entry \cup {Inbox!Hole}] /\ 0 \in Inbox!Places
      /\ \A k \in Inbox!Places : inboxRing'[PlaceOf(0, k)] = Inbox!Hole
  BY InboxEmpty DEF Inbox!PowerLoss
<1>2. /\ inboxHead' = 0 /\ filled' = 0 /\ inboxSeq' = 0 /\ inboxPc' = "off" /\ victim' = 0 /\ fresh' = 0 /\ missed' = {}
      /\ inboxFlash' = inboxFlash /\ ready' = FALSE /\ inboxRing' = [p \in Inbox!Places |-> Inbox!Hole]
  BY DEF Inbox!PowerLoss
<1>3. ready' \in BOOLEAN
  BY <1>2, Zenon
<1>4. Inbox!TypeOK'
  BY <1>1, <1>2, <1>3, InboxNumbers DEF Inbox!InboxInv, Inbox!TypeOK
<1>5. Inbox!NewestFirst'
  <2>1. \A k \in Inbox!Places : (Inbox!At(k))' = Inbox!Hole
    BY <1>1, <1>2 DEF Inbox!At, PlaceOf, PlaceIn
  <2>2. Inbox!Shown' = {}
    BY <1>2 DEF Inbox!Shown
  <2>3. QED
    BY <1>2, <2>1, <2>2, InboxNumbers DEF Inbox!NewestFirst, Inbox!Places
<1>6. Inbox!Keyed' /\ Inbox!UnderWay'
  BY <1>2 DEF Inbox!InboxInv, Inbox!Keyed, Inbox!UnderWay
<1>7. QED
  BY <1>4, <1>5, <1>6 DEF Inbox!InboxInv

LEMMA InboxInit == Init => Inbox!InboxInv
<1> SUFFICES ASSUME Init PROVE Inbox!InboxInv
  OBVIOUS
<1>1. /\ inboxRing = [p \in Inbox!Places |-> Inbox!Hole] /\ inboxHead = 0 /\ filled = 0 /\ inboxSeq = 0
      /\ inboxFlash \in OldFlash /\ ready = FALSE /\ inboxPc = "off" /\ victim = 0 /\ fresh = 0 /\ missed = {}
  BY DEF Init, Inbox!Init
<1>2. /\ inboxRing \in [Inbox!Places -> Inbox!Entry \cup {Inbox!Hole}] /\ 0 \in Inbox!Places
      /\ \A k \in Inbox!Places : inboxRing[PlaceOf(0, k)] = Inbox!Hole
  BY <1>1, InboxEmpty
<1>3. ready \in BOOLEAN
  BY <1>1, Zenon
<1>4. inboxFlash \subseteq Inbox!Entry /\ Inbox!Keyed
  BY <1>1, InboxAssumption DEF Inbox!OldFlashIsFlash, Inbox!OldFlashHasKeys, Inbox!Keyed
<1>5. Inbox!TypeOK
  BY <1>1, <1>2, <1>3, <1>4, InboxNumbers DEF Inbox!TypeOK
<1>6. Inbox!NewestFirst
  <2>1. \A k \in Inbox!Places : Inbox!At(k) = Inbox!Hole
    BY <1>1, <1>2 DEF Inbox!At, PlaceOf, PlaceIn
  <2>2. Inbox!Shown = {}
    BY <1>1 DEF Inbox!Shown
  <2>3. QED
    BY <1>1, <2>1, <2>2, InboxNumbers DEF Inbox!NewestFirst, Inbox!Places
<1>7. Inbox!UnderWay
  BY <1>1 DEF Inbox!UnderWay
<1>8. QED
  BY <1>4, <1>5, <1>6, <1>7 DEF Inbox!InboxInv

\* The entry a new one takes the place of is gone, and no other; the order holds.
LEMMA InboxAdds ==
  ASSUME Inbox!TypeOK, Inbox!NewestFirst, Inbox!Add
  PROVE  LET new == [id |-> inboxSeq + 1, forwarded |-> FALSE] IN
         /\ Inbox!TypeOK' /\ Inbox!NewestFirst'
         /\ Inbox!Shown' = (Inbox!Shown \ {inboxRing[inboxHead]}) \cup {new}
         /\ inboxSeq + 1 \in 1 .. MaxId /\ \A e \in Inbox!Shown : e.id # inboxSeq + 1
         /\ inboxRing[inboxHead] \in Inbox!Shown \/ inboxRing[inboxHead] = Inbox!Hole
         /\ filled < Capacity => inboxRing[inboxHead] = Inbox!Hole
<1> DEFINE new == [id |-> inboxSeq + 1, forwarded |-> FALSE]
           h == inboxHead
<1>1. /\ h \in Inbox!Places /\ filled \in 0 .. Capacity /\ inboxSeq \in 0 .. MaxId
      /\ inboxRing \in [Inbox!Places -> Inbox!Entry \cup {Inbox!Hole}]
      /\ Capacity \in Nat \ {0} /\ MaxId \in Nat
  BY InboxNumbers DEF Inbox!TypeOK
<1>2. /\ inboxPc = "idle" /\ inboxSeq < MaxId
      /\ inboxRing' = [inboxRing EXCEPT ![h] = new] /\ inboxSeq' = inboxSeq + 1
      /\ inboxHead' = Inbox!After(h)
      /\ filled' = IF filled < Capacity THEN filled + 1 ELSE filled
      /\ UNCHANGED <<inboxFlash, ready, missed>>
  BY DEF Inbox!Add
<1>3. inboxSeq + 1 \in 1 .. MaxId /\ new \in Inbox!Entry
  <2>1. inboxSeq + 1 \in 1 .. MaxId
    BY <1>1, <1>2
  <2>2. FALSE \in BOOLEAN
    BY Zenon
  <2>3. QED
    BY <2>1, <2>2 DEF Inbox!Entry
<1>4. /\ inboxRing' \in [Inbox!Places -> Inbox!Entry \cup {Inbox!Hole}]
      /\ inboxRing'[h] = new
      /\ \A p \in Inbox!Places : p # h => inboxRing'[p] = inboxRing[p]
  BY <1>1, <1>2, <1>3
<1>5. inboxHead' \in Inbox!Places /\ inboxHead' = IF h + 1 = Capacity THEN 0 ELSE h + 1
  <2>1. \A c \in Nat \ {0} : \A x \in Nat : x < c => (x + 1) % c = IF x + 1 = c THEN 0 ELSE x + 1
    OBVIOUS
  <2>2. h \in Nat /\ h < Capacity
    BY <1>1 DEF Inbox!Places
  <2>3. (h + 1) % Capacity = IF h + 1 = Capacity THEN 0 ELSE h + 1
    BY <1>1, <2>1, <2>2
  <2>4. inboxHead' = (h + 1) % Capacity
    BY <1>2 DEF Inbox!After
  <2>5. QED
    BY <1>1, <2>2, <2>3, <2>4 DEF Inbox!Places
<1>6. new # Inbox!Hole
  BY <1>3, InboxNumbers
<1>7. \A p \in Inbox!Places : inboxRing[p] # Inbox!Hole => inboxRing[p] \in Inbox!Shown
  BY DEF Inbox!Shown
<1>8. \A e \in Inbox!Shown : e.id <= inboxSeq /\ e.id \in Nat
  <2>1. \A e \in Inbox!Shown : e \in Inbox!Entry
    BY InboxShown
  <2>2. QED
    BY <2>1, InboxNumbers DEF Inbox!NewestFirst
<1>9. Inbox!Shown' = (Inbox!Shown \ {inboxRing[h]}) \cup {new}
  <2> HIDE DEF new
  <2>1. ASSUME NEW p \in Inbox!Places, p # h, inboxRing[p] # Inbox!Hole
        PROVE  inboxRing[p] # inboxRing[h]
    BY <1>1, <2>1, InboxApart
  <2>2. Inbox!Shown' = {inboxRing'[p] : p \in Inbox!Places} \ {Inbox!Hole}
    BY DEF Inbox!Shown
  <2>3. QED
    BY <1>1, <1>4, <1>6, <2>1, <2>2 DEF Inbox!Shown
<1>10. \A k \in Inbox!Places : Inbox!At(k) = inboxRing[PlaceOf(h, k)]
  BY DEF Inbox!At, PlaceOf, PlaceIn
<1>11. filled < Capacity => inboxRing[h] = Inbox!Hole
  <2>1. Capacity - 1 \in Inbox!Places /\ PlaceOf(h, Capacity - 1) = h
    BY <1>1, InboxPlaces DEF Inbox!Places
  <2>2. QED
    BY <1>1, <1>10, <2>1 DEF Inbox!NewestFirst
<1>12. /\ (Inbox!At(0))' = new
       /\ \A k \in Inbox!Places : k + 1 < Capacity => (Inbox!At(k + 1))' = Inbox!At(k)
  <2>1. PICK g \in Inbox!Places : g = inboxHead'
    BY <1>5
  <2>2. g = Inbox!After(h)
    BY <1>2, <2>1
  <2>3. \A k : (Inbox!At(k))' = inboxRing'[PlaceOf(g, k)]
    BY <2>1 DEF Inbox!At, PlaceOf, PlaceIn
  <2>4. (Inbox!At(0))' = new
    BY <1>1, <1>4, <2>2, <2>3, InboxPlaces
  <2>5. ASSUME NEW k \in Inbox!Places, k + 1 < Capacity
        PROVE  (Inbox!At(k + 1))' = Inbox!At(k)
    <3>1. PlaceOf(g, k + 1) = PlaceOf(h, k) /\ PlaceOf(h, k) \in Inbox!Places
      BY <1>1, <2>2, <2>5, InboxPlaces
    <3>2. PlaceOf(h, k) # h
      <4>1. PlaceOf(h, Capacity - 1) = h /\ Capacity - 1 \in Inbox!Places
        BY <1>1, InboxPlaces DEF Inbox!Places
      <4>2. k # Capacity - 1
        BY <1>1, <2>5 DEF Inbox!Places
      <4>3. QED
        BY <1>1, <4>1, <4>2, InboxPlaces
    <3>3. QED
      BY <1>4, <1>10, <2>3, <3>1, <3>2
  <2>6. QED
    BY <2>4, <2>5
<1>13. \A k \in 1 .. Capacity - 1 : (Inbox!At(k))' = Inbox!At(k - 1) /\ k - 1 \in Inbox!Places
  <2> SUFFICES ASSUME NEW k \in 1 .. Capacity - 1
               PROVE  (Inbox!At(k))' = Inbox!At(k - 1) /\ k - 1 \in Inbox!Places
    OBVIOUS
  <2>1. PICK l \in Inbox!Places : l + 1 = k /\ l + 1 < Capacity /\ l = k - 1
    BY <1>1 DEF Inbox!Places
  <2>2. (Inbox!At(l + 1))' = Inbox!At(l)
    BY <1>12, <2>1
  <2>3. QED
    BY <2>1, <2>2
<1>14. Inbox!NewestFirst'
  <2>1. filled' < Capacity => inboxHead' = filled'
    BY <1>1, <1>2, <1>5 DEF Inbox!NewestFirst
  <2>2. ASSUME NEW k \in filled' .. Capacity - 1
        PROVE  (Inbox!At(k))' = Inbox!Hole
    <3>1. k \in 1 .. Capacity - 1 /\ k - 1 \in filled .. Capacity - 1
      BY <1>1, <1>2
    <3>2. QED
      BY <1>13, <3>1 DEF Inbox!NewestFirst
  <2>3. ASSUME NEW j \in 0 .. filled' - 1, NEW k \in 0 .. filled' - 1, j < k,
               (Inbox!At(j))' # Inbox!Hole, (Inbox!At(k))' # Inbox!Hole
        PROVE  (Inbox!At(j))'.id > (Inbox!At(k))'.id
    <3>1. k \in 1 .. Capacity - 1 /\ k - 1 \in 0 .. filled - 1 /\ k - 1 \in Inbox!Places
      BY <1>1, <1>2, <2>3 DEF Inbox!Places
    <3>2. (Inbox!At(k))' = Inbox!At(k - 1)
      BY <1>13, <3>1
    <3>3. CASE j = 0
      <4>1. Inbox!At(k - 1) \in Inbox!Shown
        BY <2>3, <3>1, <3>2, InboxShown
      <4>2. Inbox!At(k - 1).id <= inboxSeq /\ Inbox!At(k - 1).id \in Nat
        BY <1>8, <4>1
      <4>3. (Inbox!At(j))'.id = inboxSeq + 1
        BY <1>12, <3>3
      <4>4. QED
        BY <1>1, <3>2, <4>2, <4>3
    <3>4. CASE j # 0
      <4>1. j \in 1 .. Capacity - 1 /\ j - 1 \in 0 .. filled - 1 /\ j - 1 < k - 1
        BY <1>1, <1>2, <2>3, <3>1, <3>4
      <4>2. (Inbox!At(j))' = Inbox!At(j - 1)
        BY <1>13, <4>1
      <4>3. QED
        BY <2>3, <3>1, <3>2, <4>1, <4>2 DEF Inbox!NewestFirst
    <3>5. QED
      BY <3>3, <3>4
  <2>4. \A e \in Inbox!Shown' : e.id <= inboxSeq'
    BY <1>1, <1>2, <1>8, <1>9
  <2>5. QED
    BY <2>1, <2>2, <2>3, <2>4 DEF Inbox!NewestFirst
<1>15. Inbox!TypeOK'
  <2>1. filled' \in 0 .. Capacity /\ inboxSeq' \in 0 .. MaxId
    BY <1>1, <1>2
  <2>2. Inbox!Evicted \in 0 .. MaxId
    BY <1>1, InboxNumbers DEF Inbox!Evicted
  <2>3. victim' \in 0 .. MaxId /\ fresh' \in 0 .. MaxId
        /\ inboxPc' \in {"off", "idle", "erase", "persist"}
    BY <1>1, <1>2, <2>2 DEF Inbox!Add, Inbox!ToFlash
  <2>4. QED
    BY <1>2, <1>4, <1>5, <2>1, <2>3 DEF Inbox!TypeOK
<1>16. QED
  BY <1>1, <1>3, <1>7, <1>8, <1>9, <1>11, <1>14, <1>15

\* What Add leaves for the flash.
LEMMA InboxAdd ==
  ASSUME Inbox!InboxInv, Inbox!Add
  PROVE  Inbox!InboxInv'
<1> DEFINE new == [id |-> inboxSeq + 1, forwarded |-> FALSE]
           old == inboxRing[inboxHead]
<1>1. Inbox!TypeOK /\ Inbox!NewestFirst /\ Inbox!Keyed /\ Inbox!UnderWay
  BY DEF Inbox!InboxInv
<1>2. /\ Inbox!TypeOK' /\ Inbox!NewestFirst'
      /\ Inbox!Shown' = (Inbox!Shown \ {old}) \cup {new}
      /\ inboxSeq + 1 \in 1 .. MaxId /\ (\A e \in Inbox!Shown : e.id # inboxSeq + 1)
      /\ old \in Inbox!Shown \/ old = Inbox!Hole
      /\ filled < Capacity => old = Inbox!Hole
  BY <1>1, InboxAdds
<1>3. \A d, e \in Inbox!Shown : d.id = e.id => d = e
  BY <1>1, InboxShown
<1>4. UNCHANGED <<inboxFlash, ready, missed>> /\ inboxPc = "idle" /\ Inbox!ToFlash(Inbox!Evicted, inboxSeq + 1)
  BY DEF Inbox!Add
<1>5. Inbox!Evicted = old.id
  BY <1>1, <1>2, InboxNumbers DEF Inbox!Evicted, Inbox!TypeOK
<1>6. /\ victim' = old.id /\ fresh' = inboxSeq + 1
      /\ inboxPc' = IF ~ready THEN "idle" ELSE IF old.id # 0 THEN "erase" ELSE "persist"
  BY <1>2, <1>4, <1>5, InboxNumbers DEF Inbox!ToFlash
<1>7. old = Inbox!Hole <=> old.id = 0
  <2>1. Inbox!Shown \subseteq Inbox!Entry
    BY <1>1, InboxShown
  <2>2. QED
    BY <1>2, <2>1, InboxNumbers
<1>8. Inbox!Keyed'
  BY <1>1, <1>4 DEF Inbox!Keyed
<1> DEFINE after == (Inbox!Shown \ {old}) \cup {new}
<1>9. ASSUME NEW id \in 1 .. MaxId, id # old.id, id # inboxSeq + 1
      PROVE  Inbox!OfId(after, id) = Inbox!OfId(Inbox!Shown, id)
  BY <1>9 DEF Inbox!OfId
<1>10. Inbox!OfId(Inbox!Shown, 0) = {}
  <2>1. Inbox!Shown \subseteq Inbox!Entry
    BY <1>1, InboxShown
  <2>2. QED
    BY <2>1, InboxNumbers DEF Inbox!OfId
<1>11. old.id # 0 => Inbox!OfId(after, old.id) = {}
  <2> SUFFICES ASSUME old.id # 0 PROVE \A e \in after : e.id # old.id
    BY DEF Inbox!OfId
  <2>1. old \in Inbox!Shown
    BY <1>2, <1>7
  <2>2. new.id # old.id
    BY <1>2, <2>1
  <2>3. \A e \in Inbox!Shown \ {old} : e.id # old.id
    BY <1>3, <2>1
  <2>4. QED
    BY <2>2, <2>3
<1> HIDE DEF old, new
<1>12. Inbox!Shown' = after
  BY <1>2
<1> HIDE DEF after
<1>13. Inbox!UnderWay'
  <2>1. ASSUME ready'
        PROVE  \A id \in (1 .. MaxId) \ (missed' \cup {victim', fresh'}) :
                 Inbox!OfId(inboxFlash', id) = Inbox!OfId(Inbox!Shown', id)
    <3>1. Inbox!MirrorsBut({})
      BY <1>1, <1>4, <2>1 DEF Inbox!UnderWay
    <3> SUFFICES ASSUME NEW id \in (1 .. MaxId) \ (missed' \cup {victim', fresh'})
                 PROVE  Inbox!OfId(inboxFlash', id) = Inbox!OfId(Inbox!Shown', id)
      OBVIOUS
    <3>2. id \in 1 .. MaxId /\ id \notin missed /\ id # old.id /\ id # inboxSeq + 1
      BY <1>4, <1>6
    <3>3. Inbox!OfId(inboxFlash, id) = Inbox!OfId(Inbox!Shown, id)
      BY <3>1, <3>2 DEF Inbox!MirrorsBut
    <3>4. QED
      BY <1>4, <1>9, <1>12, <3>2, <3>3
  <2>2. ready' /\ inboxPc' = "persist" => (Inbox!MirrorsBut({fresh}))'
    <3> SUFFICES ASSUME ready', inboxPc' = "persist"
                 PROVE  \A id \in (1 .. MaxId) \ (missed' \cup {fresh'}) :
                          Inbox!OfId(inboxFlash', id) = Inbox!OfId(Inbox!Shown', id)
      BY DEF Inbox!MirrorsBut, Inbox!OfId
    <3>1. victim' = 0
      BY <1>4, <1>6
    <3>2. QED
      BY <2>1, <3>1
  <2>3. ready' /\ inboxPc' = "erase" =>
          (Inbox!MirrorsBut({victim, fresh}))' /\ Inbox!OfId(Inbox!Shown', victim') = {}
    <3> SUFFICES ASSUME ready', inboxPc' = "erase"
                 PROVE  /\ \A id \in (1 .. MaxId) \ (missed' \cup {victim', fresh'}) :
                             Inbox!OfId(inboxFlash', id) = Inbox!OfId(Inbox!Shown', id)
                        /\ Inbox!OfId(Inbox!Shown', victim') = {}
      BY DEF Inbox!MirrorsBut, Inbox!OfId
    <3>1. old.id # 0
      BY <1>4, <1>6
    <3>2. QED
      BY <1>6, <1>11, <1>12, <2>1, <3>1
  <2>4. inboxPc' = "persist" => fresh' # 0
    BY <1>2, <1>6, InboxNumbers
  <2>5. inboxPc' = "erase" => victim' # 0
    BY <1>6
  <2>6. ~(ready' /\ inboxPc' = "idle")
    BY <1>4, <1>6
  <2>7. QED
    BY <2>2, <2>3, <2>4, <2>5, <2>6 DEF Inbox!UnderWay, Inbox!OfId
<1>14. QED
  BY <1>2, <1>8, <1>13 DEF Inbox!InboxInv

\* The entry with an id is marked or leaves, the others stay where they are.
LEMMA InboxChanges ==
  ASSUME Inbox!TypeOK, Inbox!NewestFirst, UNCHANGED <<inboxHead, filled, inboxSeq>>,
         NEW id \in 1 .. MaxId, NEW r, inboxRing' = [p \in Inbox!Places |-> r[p]],
         \A p \in Inbox!Places : IF inboxRing[p].id = id THEN r[p] = Inbox!Hole \/ (r[p] \in Inbox!Entry /\ r[p].id = id)
                                 ELSE r[p] = inboxRing[p]
  PROVE  /\ inboxRing' \in [Inbox!Places -> Inbox!Entry \cup {Inbox!Hole}]
         /\ Inbox!NewestFirst'
         /\ \A i \in (1 .. MaxId) \ {id} : Inbox!OfId(Inbox!Shown', i) = Inbox!OfId(Inbox!Shown, i)
<1>1. /\ inboxHead \in Inbox!Places /\ filled \in 0 .. Capacity
      /\ inboxRing \in [Inbox!Places -> Inbox!Entry \cup {Inbox!Hole}]
      /\ Capacity \in Nat \ {0} /\ MaxId \in Nat
  BY InboxNumbers DEF Inbox!TypeOK
<1>2. \A p \in Inbox!Places :
        inboxRing'[p] # Inbox!Hole =>
          /\ inboxRing'[p] \in Inbox!Entry /\ inboxRing'[p].id = inboxRing[p].id
          /\ inboxRing[p] # Inbox!Hole
  <2> SUFFICES ASSUME NEW p \in Inbox!Places, inboxRing'[p] # Inbox!Hole
               PROVE  /\ inboxRing'[p] \in Inbox!Entry /\ inboxRing'[p].id = inboxRing[p].id
                      /\ inboxRing[p] # Inbox!Hole
    OBVIOUS
  <2>1. inboxRing'[p] = r[p] /\ inboxRing[p] \in Inbox!Entry \cup {Inbox!Hole}
    BY <1>1
  <2>2. CASE inboxRing[p].id = id
    BY <2>1, <2>2, InboxNumbers
  <2>3. CASE inboxRing[p].id # id
    BY <2>1, <2>3
  <2>4. QED
    BY <2>2, <2>3
<1>3. inboxRing' \in [Inbox!Places -> Inbox!Entry \cup {Inbox!Hole}]
  <2>1. \A p \in Inbox!Places : r[p] \in Inbox!Entry \cup {Inbox!Hole}
    BY <1>2
  <2>2. QED
    BY <2>1
<1>4. \A k \in Inbox!Places : PlaceOf(inboxHead, k) \in Inbox!Places
  BY <1>1, InboxPlaces
<1>5. \A k \in Inbox!Places : /\ Inbox!At(k) = inboxRing[PlaceOf(inboxHead, k)]
                              /\ (Inbox!At(k))' = inboxRing'[PlaceOf(inboxHead, k)]
  BY DEF Inbox!At, PlaceOf, PlaceIn
<1>6. \A k \in Inbox!Places :
        (Inbox!At(k))' # Inbox!Hole => (Inbox!At(k))'.id = Inbox!At(k).id /\ Inbox!At(k) # Inbox!Hole
  BY <1>2, <1>4, <1>5
<1>7. Inbox!NewestFirst'
  <2>1. ASSUME NEW k \in filled' .. Capacity - 1
        PROVE  (Inbox!At(k))' = Inbox!Hole
    <3>1. k \in Inbox!Places /\ k \in filled .. Capacity - 1
      BY <1>1 DEF Inbox!Places
    <3>2. QED
      BY <1>6, <3>1 DEF Inbox!NewestFirst
  <2>2. ASSUME NEW j \in 0 .. filled' - 1, NEW k \in 0 .. filled' - 1, j < k,
               (Inbox!At(j))' # Inbox!Hole, (Inbox!At(k))' # Inbox!Hole
        PROVE  (Inbox!At(j))'.id > (Inbox!At(k))'.id
    <3>1. j \in Inbox!Places /\ k \in Inbox!Places /\ j \in 0 .. filled - 1 /\ k \in 0 .. filled - 1
      BY <1>1 DEF Inbox!Places
    <3>2. QED
      BY <1>6, <2>2, <3>1 DEF Inbox!NewestFirst
  <2>3. ASSUME NEW e \in Inbox!Shown'
        PROVE  e.id <= inboxSeq'
    <3>1. PICK p \in Inbox!Places : e = inboxRing'[p] /\ e # Inbox!Hole
      BY <2>3 DEF Inbox!Shown
    <3>2. e.id = inboxRing[p].id /\ inboxRing[p] \in Inbox!Shown
      BY <1>2, <3>1 DEF Inbox!Shown
    <3>3. QED
      BY <3>2 DEF Inbox!NewestFirst
  <2>4. QED
    BY <2>1, <2>2, <2>3 DEF Inbox!NewestFirst
<1>8. ASSUME NEW i \in (1 .. MaxId) \ {id}
      PROVE  Inbox!OfId(Inbox!Shown', i) = Inbox!OfId(Inbox!Shown, i)
  <2>1. \A p \in Inbox!Places : inboxRing'[p].id = i \/ inboxRing[p].id = i => inboxRing'[p] = inboxRing[p]
    <3> SUFFICES ASSUME NEW p \in Inbox!Places, inboxRing'[p].id = i \/ inboxRing[p].id = i
                 PROVE  inboxRing'[p] = inboxRing[p]
      OBVIOUS
    <3>1. CASE inboxRing[p].id = id
      BY <1>2, <3>1, InboxNumbers
    <3>2. CASE inboxRing[p].id # id
      BY <3>2
    <3>3. QED
      BY <3>1, <3>2
  <2>2. /\ Inbox!Shown' = {inboxRing'[p] : p \in Inbox!Places} \ {Inbox!Hole}
        /\ Inbox!Shown = {inboxRing[p] : p \in Inbox!Places} \ {Inbox!Hole}
    BY DEF Inbox!Shown
  <2>3. QED
    BY <2>1, <2>2 DEF Inbox!OfId
<1>9. QED
  BY <1>3, <1>7, <1>8

\* A mark changes in the ring; its write to the flash is under way.
LEMMA InboxSetsForwarded ==
  ASSUME Inbox!InboxInv, NEW id \in 1 .. MaxId, NEW b \in BOOLEAN, Inbox!SetForwarded(id, b)
  PROVE  Inbox!InboxInv'
<1> DEFINE r == [p \in Inbox!Places |-> IF inboxRing[p].id = id THEN [inboxRing[p] EXCEPT !.forwarded = b]
                                        ELSE inboxRing[p]]
<1>1. Inbox!TypeOK /\ Inbox!NewestFirst /\ Inbox!Keyed /\ Inbox!UnderWay
  BY DEF Inbox!InboxInv
<1>2. inboxRing \in [Inbox!Places -> Inbox!Entry \cup {Inbox!Hole}]
  BY <1>1 DEF Inbox!TypeOK
<1>3. /\ inboxPc = "idle" /\ UNCHANGED <<inboxHead, filled, inboxSeq, inboxFlash, ready, missed>>
      /\ victim' = 0 /\ fresh' = id /\ inboxPc' = IF ~ready THEN "idle" ELSE "persist"
      /\ inboxRing' = r
  BY DEF Inbox!SetForwarded, Inbox!ToFlash
<1>4. ASSUME NEW p \in Inbox!Places
      PROVE  IF inboxRing[p].id = id THEN r[p] = Inbox!Hole \/ (r[p] \in Inbox!Entry /\ r[p].id = id)
             ELSE r[p] = inboxRing[p]
  <2>1. CASE inboxRing[p].id = id
    <3>1. inboxRing[p] \in Inbox!Entry
      BY <1>2, <2>1, InboxNumbers
    <3>2. [inboxRing[p] EXCEPT !.forwarded = b] \in Inbox!Entry
      BY <3>1 DEF Inbox!Entry
    <3>3. [inboxRing[p] EXCEPT !.forwarded = b].id = id
      BY <2>1, <3>1 DEF Inbox!Entry
    <3>4. QED
      BY <2>1, <3>2, <3>3
  <2>2. CASE inboxRing[p].id # id
    BY <2>2
  <2>3. QED
    BY <2>1, <2>2
<1>5. inboxRing' = [p \in Inbox!Places |-> r[p]]
  BY <1>3
<1> HIDE DEF r
<1>6. /\ inboxRing' \in [Inbox!Places -> Inbox!Entry \cup {Inbox!Hole}] /\ Inbox!NewestFirst'
      /\ \A i \in (1 .. MaxId) \ {id} : Inbox!OfId(Inbox!Shown', i) = Inbox!OfId(Inbox!Shown, i)
  BY <1>1, <1>3, <1>4, <1>5, InboxChanges
<1>7. Inbox!TypeOK'
  BY <1>1, <1>3, <1>6, InboxNumbers DEF Inbox!TypeOK
<1>8. Inbox!Keyed'
  BY <1>1, <1>3 DEF Inbox!Keyed
<1>9. Inbox!UnderWay'
  <2>1. ready' /\ inboxPc' = "persist" => (Inbox!MirrorsBut({fresh}))'
    BY <1>1, <1>3, <1>6 DEF Inbox!UnderWay, Inbox!MirrorsBut, Inbox!OfId
  <2>2. QED
    BY <1>3, <2>1 DEF Inbox!UnderWay
<1>10. QED
  BY <1>6, <1>7, <1>8, <1>9 DEF Inbox!InboxInv

\* An entry leaves the ring; its erasure is under way.
LEMMA InboxDeletes ==
  ASSUME Inbox!InboxInv, NEW id \in 1 .. MaxId, Inbox!Delete(id)
  PROVE  Inbox!InboxInv'
<1> DEFINE r == [p \in Inbox!Places |-> IF inboxRing[p].id = id THEN Inbox!Hole ELSE inboxRing[p]]
<1>1. Inbox!TypeOK /\ Inbox!NewestFirst /\ Inbox!Keyed /\ Inbox!UnderWay
  BY DEF Inbox!InboxInv
<1>2. id # 0 /\ id \in 0 .. MaxId /\ MaxId \in Nat
  BY InboxNumbers
<1>3. /\ inboxPc = "idle" /\ UNCHANGED <<inboxHead, filled, inboxSeq, inboxFlash, ready, missed>>
      /\ victim' = id /\ fresh' = 0 /\ inboxPc' = IF ~ready THEN "idle" ELSE "erase"
      /\ inboxRing' = r
  BY <1>2 DEF Inbox!Delete, Inbox!ToFlash
<1>4. \A p \in Inbox!Places :
        IF inboxRing[p].id = id THEN r[p] = Inbox!Hole \/ (r[p] \in Inbox!Entry /\ r[p].id = id)
        ELSE r[p] = inboxRing[p]
  <2> SUFFICES ASSUME NEW p \in Inbox!Places
               PROVE  /\ inboxRing[p].id = id => r[p] = Inbox!Hole
                      /\ inboxRing[p].id # id => r[p] = inboxRing[p]
    BY Zenon
  <2>1. QED
    OBVIOUS
<1>5. inboxRing' = [p \in Inbox!Places |-> r[p]]
  BY <1>3
<1>6. Inbox!OfId(Inbox!Shown', id) = {}
  <2>1. \A p \in Inbox!Places : inboxRing'[p] = Inbox!Hole \/ inboxRing'[p].id # id
    BY <1>3
  <2>2. QED
    BY <2>1 DEF Inbox!OfId, Inbox!Shown
<1> HIDE DEF r
<1>7. /\ inboxRing' \in [Inbox!Places -> Inbox!Entry \cup {Inbox!Hole}] /\ Inbox!NewestFirst'
      /\ \A i \in (1 .. MaxId) \ {id} : Inbox!OfId(Inbox!Shown', i) = Inbox!OfId(Inbox!Shown, i)
  BY <1>1, <1>3, <1>4, <1>5, InboxChanges
<1>8. Inbox!TypeOK'
  BY <1>1, <1>2, <1>3, <1>7 DEF Inbox!TypeOK
<1>9. Inbox!Keyed'
  BY <1>1, <1>3 DEF Inbox!Keyed
<1>10. Inbox!UnderWay'
  <2>1. ready' /\ inboxPc' = "erase" => (Inbox!MirrorsBut({victim, fresh}))'
    BY <1>1, <1>3, <1>7 DEF Inbox!UnderWay, Inbox!MirrorsBut, Inbox!OfId
  <2>2. (Inbox!OfId(Inbox!Shown, victim))' = {}
    BY <1>3, <1>6 DEF Inbox!OfId
  <2>3. QED
    BY <1>2, <1>3, <2>1, <2>2 DEF Inbox!UnderWay
<1>11. QED
  BY <1>7, <1>8, <1>9, <1>10 DEF Inbox!InboxInv

\* The two flash writes: what remains to be brought in line.
LEMMA InboxErases ==
  ASSUME Inbox!InboxInv, Inbox!EraseEntry
  PROVE  Inbox!InboxInv'
<1>1. Inbox!TypeOK /\ Inbox!NewestFirst /\ Inbox!Keyed /\ Inbox!UnderWay
  BY DEF Inbox!InboxInv
<1>2. /\ inboxPc = "erase" /\ inboxPc' = IF fresh # 0 THEN "persist" ELSE "idle"
      /\ UNCHANGED <<inboxRing, inboxHead, filled, inboxSeq, ready, victim, fresh>>
      /\ \/ inboxFlash' = inboxFlash \ Inbox!OfId(inboxFlash, victim) /\ missed' = missed \ {victim}
         \/ inboxFlash' = inboxFlash /\ missed' = missed \cup {victim}
  BY DEF Inbox!EraseEntry, Inbox!Failed, Inbox!Written, Inbox!store
<1>3. victim \in 1 .. MaxId /\ MaxId \in Nat
  BY <1>1, <1>2, InboxNumbers DEF Inbox!TypeOK, Inbox!UnderWay
<1>4. Inbox!TypeOK'
  BY <1>1, <1>2, <1>3 DEF Inbox!TypeOK
<1>5. Inbox!Shown' = Inbox!Shown
  BY <1>2 DEF Inbox!Shown
<1>6. Inbox!NewestFirst'
  BY <1>1, <1>2, <1>5 DEF Inbox!NewestFirst, Inbox!At
<1>7. Inbox!Keyed'
  BY <1>1, <1>2 DEF Inbox!Keyed
<1>8. Inbox!UnderWay'
  <2>1. ASSUME ready', NEW id \in (1 .. MaxId) \ (missed' \cup {fresh})
        PROVE  Inbox!OfId(inboxFlash', id) = Inbox!OfId(Inbox!Shown', id)
    <3>1. Inbox!MirrorsBut({victim, fresh}) /\ Inbox!OfId(Inbox!Shown, victim) = {}
      BY <1>1, <1>2, <2>1 DEF Inbox!UnderWay
    <3>2. CASE id = victim
      <4>1. inboxFlash' = inboxFlash \ Inbox!OfId(inboxFlash, victim)
        BY <1>2, <2>1, <3>2
      <4>2. Inbox!OfId(inboxFlash', id) = {}
        BY <3>2, <4>1 DEF Inbox!OfId
      <4>3. QED
        BY <1>5, <3>1, <3>2, <4>2
    <3>3. CASE id # victim
      <4>1. Inbox!OfId(inboxFlash', id) = Inbox!OfId(inboxFlash, id)
        BY <1>2, <3>3 DEF Inbox!OfId
      <4>2. id \notin missed
        BY <1>2, <2>1, <3>3
      <4>3. QED
        BY <1>5, <2>1, <3>1, <3>3, <4>1, <4>2 DEF Inbox!MirrorsBut
    <3>4. QED
      BY <3>2, <3>3
  <2>2. ready' /\ inboxPc' = "persist" => (Inbox!MirrorsBut({fresh}))'
    BY <1>2, <2>1 DEF Inbox!MirrorsBut, Inbox!OfId
  <2>3. ready' /\ inboxPc' = "idle" => (Inbox!MirrorsBut({}))'
    BY <1>2, <2>1 DEF Inbox!MirrorsBut, Inbox!OfId
  <2>4. QED
    BY <1>2, <2>2, <2>3 DEF Inbox!UnderWay
<1>9. QED
  BY <1>4, <1>6, <1>7, <1>8 DEF Inbox!InboxInv

\* The write of an entry, or its failure.
LEMMA InboxPersists ==
  ASSUME Inbox!InboxInv, Inbox!PersistEntry
  PROVE  Inbox!InboxInv'
<1>1. Inbox!TypeOK /\ Inbox!NewestFirst /\ Inbox!Keyed /\ Inbox!UnderWay
  BY DEF Inbox!InboxInv
<1>2. /\ inboxPc = "persist" /\ inboxPc' = "idle"
      /\ UNCHANGED <<inboxRing, inboxHead, filled, inboxSeq, ready, victim, fresh>>
      /\ \/ /\ inboxFlash' = (inboxFlash \ Inbox!OfId(inboxFlash, fresh)) \cup Inbox!OfId(Inbox!Shown, fresh)
            /\ missed' = missed \ {fresh}
         \/ inboxFlash' = inboxFlash /\ missed' = missed \cup {fresh}
  BY DEF Inbox!PersistEntry, Inbox!Failed, Inbox!Written, Inbox!store
<1>3. fresh \in 1 .. MaxId /\ MaxId \in Nat
  BY <1>1, <1>2, InboxNumbers DEF Inbox!TypeOK, Inbox!UnderWay
<1>4. /\ Inbox!Shown \subseteq Inbox!Entry
      /\ \A d, e \in Inbox!Shown : d.id = e.id => d = e
  BY <1>1, InboxShown
<1>5. inboxFlash' \subseteq Inbox!Entry
  BY <1>1, <1>2, <1>4 DEF Inbox!TypeOK, Inbox!OfId
<1>6. Inbox!TypeOK'
  BY <1>1, <1>2, <1>3, <1>5 DEF Inbox!TypeOK
<1>7. Inbox!Shown' = Inbox!Shown
  BY <1>2 DEF Inbox!Shown
<1>8. Inbox!NewestFirst'
  BY <1>1, <1>2, <1>7 DEF Inbox!NewestFirst, Inbox!At
<1>9. Inbox!Keyed'
  BY <1>1, <1>2, <1>4 DEF Inbox!Keyed, Inbox!OfId
<1>10. Inbox!UnderWay'
  <2>1. ASSUME ready', NEW id \in (1 .. MaxId) \ missed'
        PROVE  Inbox!OfId(inboxFlash', id) = Inbox!OfId(Inbox!Shown', id)
    <3>1. Inbox!MirrorsBut({fresh})
      BY <1>1, <1>2, <2>1 DEF Inbox!UnderWay
    <3>2. CASE id = fresh
      <4>1. inboxFlash' = (inboxFlash \ Inbox!OfId(inboxFlash, fresh)) \cup Inbox!OfId(Inbox!Shown, fresh)
        BY <1>2, <2>1, <3>2
      <4>2. Inbox!OfId(inboxFlash', id) = Inbox!OfId(Inbox!Shown, id)
        BY <3>2, <4>1 DEF Inbox!OfId
      <4>3. QED
        BY <1>7, <4>2
    <3>3. CASE id # fresh
      <4>1. Inbox!OfId(inboxFlash', id) = Inbox!OfId(inboxFlash, id)
        BY <1>2, <3>3 DEF Inbox!OfId
      <4>2. id \notin missed
        BY <1>2, <2>1, <3>3
      <4>3. QED
        BY <1>7, <2>1, <3>1, <3>3, <4>1, <4>2 DEF Inbox!MirrorsBut
    <3>4. QED
      BY <3>2, <3>3
  <2>2. ready' /\ inboxPc' = "idle" => (Inbox!MirrorsBut({}))'
    BY <2>1 DEF Inbox!MirrorsBut, Inbox!OfId
  <2>3. QED
    BY <1>2, <2>2 DEF Inbox!UnderWay
<1>11. QED
  BY <1>6, <1>8, <1>9, <1>10 DEF Inbox!InboxInv

\* All of it together.
LEMMA InboxStep ==
  ASSUME Inbox!InboxInv, Inbox!Next \/ UNCHANGED inboxVars
  PROVE  Inbox!InboxInv'
<1>1. CASE UNCHANGED inboxVars
  <2>1. UNCHANGED <<inboxRing, inboxHead, filled, inboxSeq, inboxFlash, ready, inboxPc, victim, fresh, missed>>
    BY <1>1 DEF inboxVars
  <2>2. QED
    BY <2>1 DEF Inbox!InboxInv, Inbox!TypeOK, Inbox!NewestFirst, Inbox!Keyed, Inbox!UnderWay,
                Inbox!MirrorsBut, Inbox!OfId, Inbox!Shown, Inbox!At
<1>2. CASE Inbox!Boot
  BY <1>2, InboxBoots
<1>3. CASE Inbox!PowerLoss
  BY <1>3, InboxLosesPower
<1>4. CASE Inbox!Add
  BY <1>4, InboxAdd
<1>5. CASE Inbox!EraseEntry
  BY <1>5, InboxErases
<1>6. CASE Inbox!PersistEntry
  BY <1>6, InboxPersists
<1>7. ASSUME NEW id \in 1 .. MaxId, Inbox!Delete(id)
      PROVE  Inbox!InboxInv'
  BY <1>7, InboxDeletes
<1>8. ASSUME NEW id \in 1 .. MaxId, NEW b \in BOOLEAN, Inbox!SetForwarded(id, b)
      PROVE  Inbox!InboxInv'
  BY <1>8, InboxSetsForwarded
<1>9. QED
  BY <1>1, <1>2, <1>3, <1>4, <1>5, <1>6, <1>7, <1>8 DEF Inbox!Next

\* The page lists the newest first and the flash holds what the page shows
\* (idf_inbox.cpp:80-300).  While a write is under way, ring and flash differ in no
\* entry but those it is about.
THEOREM PageAndFlashAgree == Spec => []InboxSound
<1>1. Init => Inbox!InboxInv
  BY InboxInit
<1>2. Inbox!InboxInv /\ [Next]_vars => Inbox!InboxInv'
  <2> SUFFICES ASSUME Inbox!InboxInv, [Next]_vars PROVE Inbox!InboxInv'
    OBVIOUS
  <2>1. Inbox!Next \/ UNCHANGED inboxVars
    BY OneRuns
  <2>2. QED
    BY <2>1, InboxStep
<1>3. Inbox!InboxInv => InboxSound
  BY DEF InboxSound, Inbox!InboxInv, Inbox!UnderWay, Inbox!MirrorsBut, Inbox!FlashMirrors
<1>4. QED
  BY <1>1, <1>2, <1>3, PTL DEF Spec

\* A restart takes none but the oldest beyond the capacity.
LEMMA InboxRestartKeeps == Spec => Inbox!RestartKeepsNewest
<1>1. Init => Inbox!InboxInv
  BY InboxInit
<1>2. Inbox!InboxInv /\ [Next]_vars => Inbox!InboxInv'
  <2> SUFFICES ASSUME Inbox!InboxInv, [Next]_vars PROVE Inbox!InboxInv'
    OBVIOUS
  <2>1. Inbox!Next \/ UNCHANGED inboxVars
    BY OneRuns
  <2>2. QED
    BY <2>1, InboxStep
<1>3. Inbox!InboxInv /\ [Next]_vars =>
        [\A bad \in SUBSET inboxFlash : Inbox!Boot /\ Inbox!Mount(bad) =>
           /\ Inbox!Shown' \subseteq inboxFlash \ bad
           /\ \A e \in inboxFlash \ (bad \cup Inbox!Shown') :
                /\ Inbox!Cardinality(Inbox!Shown') = Capacity
                /\ \A d \in Inbox!Shown' : d.id > e.id]_(Inbox!vars)
  <2> SUFFICES ASSUME Inbox!InboxInv, NEW bad \in SUBSET inboxFlash, Inbox!Boot, Inbox!Mount(bad)
               PROVE  /\ Inbox!Shown' \subseteq inboxFlash \ bad
                      /\ \A e \in inboxFlash \ (bad \cup Inbox!Shown') :
                           /\ Inbox!Cardinality(Inbox!Shown') = Capacity
                           /\ \A d \in Inbox!Shown' : d.id > e.id
    OBVIOUS
  <2> DEFINE good == inboxFlash \ bad
  <2>1. KeyedSet(inboxFlash) /\ KeyedSet(good) /\ {victim, fresh} \subseteq 0 .. MaxId
    BY InboxFlashKeyed DEF KeyedSet
  <2>2. inboxPc' = "idle" /\ UNCHANGED <<victim, fresh>>
    BY DEF Inbox!Boot
  <2>3. Inbox!Shown' = Inbox!Keep(good)
    BY <2>1, <2>2, InboxLoads DEF Inbox!Mount
  <2>4. /\ Inbox!Keep(good) \subseteq good
        /\ \A e \in good \ Inbox!Keep(good) :
             Cardinality(Inbox!Keep(good)) = Capacity /\ \A d \in Inbox!Keep(good) : d.id > e.id
    BY <2>1, InboxKeeps
  <2>5. Inbox!Cardinality(Inbox!Keep(good)) = Cardinality(Inbox!Keep(good))
    BY InboxNumbers
  <2>6. \A e \in inboxFlash \ (bad \cup Inbox!Shown') : e \in good \ Inbox!Keep(good)
    BY <2>3
  <2>7. QED
    BY <2>3, <2>4, <2>5, <2>6
<1>4. QED
  BY <1>1, <1>2, <1>3, PTL DEF Spec, Inbox!RestartKeepsNewest

-----------------------------------------------------------------------------
(* The log.                                                                *)

\* The bounds are numbers.
LEMMA LogNumbers ==
  /\ RingSize \in Nat \ {0} /\ PrevSize \in Nat \ {0} /\ MaxLines \in Nat \ {0}
  /\ MaxResets \in Nat \ {0} /\ MaxShown \in Nat \ {0}
BY LogAssumption DEF Log!LogAssumption

LEMMA LogInit == Init => Log!LogInv
<1> SUFFICES ASSUME Init PROVE Log!LogInv
  OBVIOUS
<1>1. /\ at = "idle" /\ logRing = Log!Empty(RingSize) /\ next = 0 /\ count = 0 /\ logSeq = 0 /\ mirror = 0
      /\ buf = Log!Empty(PrevSize) /\ logHead = 0 /\ used = 0 /\ check = <<0, 0>>
      /\ prev = <<>> /\ logFlash = <<>> /\ toSave = FALSE /\ tried = FALSE
      /\ logSince = 0 /\ shown = <<>> /\ gap = FALSE
      /\ n = 0 /\ first = 1 /\ resets = 0
  BY DEF Init, Log!Init
<1>2. {toSave, tried, gap} \subseteq BOOLEAN
  BY <1>1, Zenon
<1>3. logRing \in [0 .. RingSize - 1 -> 0 .. n] /\ buf \in [0 .. PrevSize - 1 -> 0 .. n]
  BY <1>1, LogNumbers DEF Log!Empty, Log!NoLine
<1>4. {prev, logFlash} \subseteq Seq(0 .. n) /\ shown \in Seq(1 .. n) /\ Len(shown) = 0
  BY <1>1
<1>5. Log!TypeOK /\ logSeq \in Nat
  BY <1>1, <1>2, <1>3, <1>4, LogNumbers DEF Log!TypeOK
<1>6. Log!RingHolds
  BY <1>1, LogNumbers DEF Log!RingHolds
<1>7. Log!PrevHolds
  BY <1>1, LogNumbers DEF Log!PrevHolds, Log!Counted, Log!Described, Log!Valid
<1>8. Log!PageNotAhead
  BY <1>1 DEF Log!PageNotAhead
<1>9. Log!ShownInOrder
  BY <1>1, <1>4 DEF Log!ShownInOrder
<1>10. QED
  BY <1>5, <1>6, <1>7, <1>8, <1>9 DEF Log!LogInv

\* A line begins.
LEMMA LogBegins ==
  ASSUME Log!LogInv, Log!Begin
  PROVE  Log!LogInv'
<1>1. /\ at = "idle" /\ n < MaxLines /\ n' = n + 1 /\ at' = "data"
      /\ UNCHANGED <<logRing, next, count, logSeq, mirror, buf, logHead, used, check,
                     prev, logFlash, toSave, tried, logSince, shown, gap, first, resets>>
  BY DEF Log!Begin, Log!ramlog, Log!prevring, Log!saved, Log!page
<1>2. Log!TypeOK /\ logSeq \in Nat /\ Log!RingHolds /\ Log!PrevHolds /\ Log!PageNotAhead /\ Log!ShownInOrder
  BY DEF Log!LogInv
<1>3. n \in Nat /\ first \in Nat
  BY <1>2, LogNumbers DEF Log!TypeOK
<1>4. {prev, logFlash}' \subseteq Seq(0 .. n') /\ shown' \in Seq(1 .. n')
  <2>1. 0 .. n \subseteq 0 .. n' /\ 1 .. n \subseteq 1 .. n'
    BY <1>1, <1>3
  <2>2. prev \in Seq(0 .. n) /\ logFlash \in Seq(0 .. n) /\ shown \in Seq(1 .. n)
    BY <1>2 DEF Log!TypeOK
  <2>3. prev \in Seq(0 .. n') /\ logFlash \in Seq(0 .. n') /\ shown \in Seq(1 .. n')
    BY <2>1, <2>2, SeqMonotonic
  <2>4. QED
    BY <1>1, <2>3
<1>5. logRing' \in [0 .. RingSize - 1 -> 0 .. n'] /\ buf' \in [0 .. PrevSize - 1 -> 0 .. n']
  BY <1>1, <1>2, <1>3, SMTT(30) DEF Log!TypeOK
<1>6. n' \in 0 .. MaxLines /\ first' \in 1 .. n' + 1 /\ logSince' \in 0 .. n' /\ logSeq' = n' - first'
  BY <1>1, <1>2, <1>3, LogNumbers DEF Log!TypeOK
<1>7. Log!TypeOK' /\ logSeq' \in Nat
  BY <1>1, <1>2, <1>4, <1>5, <1>6 DEF Log!TypeOK
<1>8. Log!RingHolds'
  BY <1>1, <1>2 DEF Log!RingHolds, Log!Before
<1>9. Log!PrevHolds'
  BY <1>1, <1>2, <1>3 DEF Log!PrevHolds, Log!Counted, Log!Described, Log!Valid, Log!Before
<1>10. Log!PageNotAhead' /\ Log!ShownInOrder'
  BY <1>1, <1>2 DEF Log!PageNotAhead, Log!ShownInOrder, Log!Last
<1>11. QED
  BY <1>7, <1>8, <1>9, <1>10 DEF Log!LogInv

\* The page is left alone.
LEMMA LogPageRests ==
  ASSUME Log!LogInv, UNCHANGED <<n, first, logSince, shown, gap>>, logSeq' \in Nat, logSeq <= logSeq'
  PROVE  Log!PageNotAhead' /\ Log!ShownInOrder'
<1>1. logSince \in Nat /\ logSeq \in Nat
  <2>1. n \in Nat
    BY LogNumbers DEF Log!LogInv, Log!TypeOK
  <2>2. QED
    BY <2>1 DEF Log!LogInv, Log!TypeOK
<1>2. Log!PageNotAhead'
  BY <1>1 DEF Log!LogInv, Log!PageNotAhead, Log!Last
<1>3. Log!ShownInOrder'
  BY DEF Log!LogInv, Log!ShownInOrder, Log!Last
<1>4. QED
  BY <1>2, <1>3

\* The places before the head of the ring that survives a reset.
LEMMA LogPlaces ==
  ASSUME NEW size \in Nat \ {0}, NEW h \in 0 .. size - 1
  PROVE  /\ \A i \in 0 .. size - 1 : Log!Before(size, h, i) \in 0 .. size - 1
         /\ \A i \in 0 .. size - 2 : Log!Before(size, h, i) # h
         /\ (h + 1) % size \in 0 .. size - 1
         /\ Log!Before(size, (h + 1) % size, 0) = h
         /\ \A i \in 1 .. size - 1 : Log!Before(size, (h + 1) % size, i) = Log!Before(size, h, i - 1)
<1>1. \A g, i : Log!Before(size, g, i) = PlaceIn(size, g, i)
  BY DEF Log!Before, PlaceIn
<1>2. /\ \A k \in 0 .. size - 1 : PlaceIn(size, h, k) \in 0 .. size - 1
      /\ \A j, k \in 0 .. size - 1 : PlaceIn(size, h, j) = PlaceIn(size, h, k) => j = k
  BY RingPlaces, ZenonT(60)
<1>3. /\ (h + 1) % size \in 0 .. size - 1
      /\ PlaceIn(size, (h + 1) % size, 0) = h
      /\ \A k \in 0 .. size - 1 : k + 1 < size => PlaceIn(size, (h + 1) % size, k + 1) = PlaceIn(size, h, k)
      /\ PlaceIn(size, h, size - 1) = h
  BY RingPlaces
<1>4. ASSUME NEW i \in 0 .. size - 2
      PROVE  PlaceIn(size, h, i) # h
  <2>1. i \in 0 .. size - 1 /\ size - 1 \in 0 .. size - 1 /\ i # size - 1
    OBVIOUS
  <2>2. QED
    BY <1>2, <1>3, <2>1
<1>5. ASSUME NEW i \in 1 .. size - 1
      PROVE  PlaceIn(size, (h + 1) % size, i) = PlaceIn(size, h, i - 1)
  <2> DEFINE g == (h + 1) % size
  <2> HIDE DEF g
  <2>1. PICK k \in 0 .. size - 1 : k = i - 1 /\ k + 1 = i /\ k + 1 < size
    OBVIOUS
  <2>2. PlaceIn(size, g, k + 1) = PlaceIn(size, h, k)
    BY <1>3, <2>1 DEF g
  <2>3. QED
    BY <2>1, <2>2 DEF g
<1>6. QED
  BY <1>1, <1>2, <1>3, <1>4, <1>5

\* What the steps on the ring that survives leave as it is.
LEMMA LogWrites ==
  ASSUME Log!LogInv, Log!WriteData \/ Log!WriteHead \/ Log!WriteUsed \/ Log!WriteCheck
  PROVE  /\ UNCHANGED <<logRing, next, count, logSeq, mirror, prev, logFlash, toSave, tried,
                        logSince, shown, gap, n, first, resets>>
         /\ at # "idle" /\ at' \in {"head", "used", "check", "line"}
         /\ n \in Nat /\ first \in Nat /\ logSeq = n - first /\ first <= n
         /\ (buf' \in [0 .. PrevSize - 1 -> 0 .. n] /\ logHead' \in 0 .. PrevSize - 1 /\ used' \in 0 .. PrevSize
               => Log!TypeOK')
         /\ Log!RingHolds' /\ Log!PageNotAhead' /\ Log!ShownInOrder' /\ logSeq' \in Nat
<1>1. /\ UNCHANGED <<logRing, next, count, logSeq, mirror, prev, logFlash, toSave, tried,
                     logSince, shown, gap, n, first, resets>>
      /\ at # "idle" /\ at' \in {"head", "used", "check", "line"}
  BY DEF Log!WriteData, Log!WriteHead, Log!WriteUsed, Log!WriteCheck, Log!ramlog, Log!saved, Log!page
<1>2. n \in Nat /\ first \in Nat /\ logSeq = n - first /\ first <= n /\ logSeq \in Nat
  BY <1>1, LogNumbers DEF Log!LogInv, Log!TypeOK
<1>3. buf' \in [0 .. PrevSize - 1 -> 0 .. n] /\ logHead' \in 0 .. PrevSize - 1 /\ used' \in 0 .. PrevSize
        => Log!TypeOK'
  BY <1>1, <1>2 DEF Log!LogInv, Log!TypeOK
<1>4. Log!RingHolds'
  BY <1>1 DEF Log!LogInv, Log!RingHolds, Log!Before
<1>5. Log!PageNotAhead' /\ Log!ShownInOrder'
  BY <1>1, <1>2, LogPageRests
<1>6. QED
  BY <1>1, <1>2, <1>3, <1>4, <1>5

\* The line is in the ring that survives, where the oldest was; no head counts it yet.
LEMMA LogWritesData ==
  ASSUME Log!LogInv, Log!WriteData
  PROVE  Log!LogInv'
<1>1. /\ n' = n /\ first' = first /\ n \in Nat /\ first \in Nat /\ logSeq' \in Nat
      /\ buf' \in [0 .. PrevSize - 1 -> 0 .. n] /\ logHead' \in 0 .. PrevSize - 1 /\ used' \in 0 .. PrevSize
           => Log!TypeOK'
      /\ Log!RingHolds' /\ Log!PageNotAhead' /\ Log!ShownInOrder'
  BY LogWrites
<1>2. /\ at = "data" /\ at' = "head" /\ buf' = [buf EXCEPT ![logHead] = n]
      /\ logHead' = logHead /\ used' = used /\ check' = check
  BY DEF Log!WriteData
<1>3. /\ buf \in [0 .. PrevSize - 1 -> 0 .. n] /\ logHead \in 0 .. PrevSize - 1 /\ used \in 0 .. PrevSize
      /\ Log!PrevHolds /\ PrevSize \in Nat \ {0}
  BY LogNumbers DEF Log!LogInv, Log!TypeOK
<1>4. Log!TypeOK'
  BY <1>1, <1>2, <1>3
<1>5. ASSUME NEW i \in 0 .. PrevSize - 1, i <= n - 1 - first, i # PrevSize - 1
      PROVE  buf'[Log!Before(PrevSize, logHead, i)] = n - 1 - i
  <2>1. buf[Log!Before(PrevSize, logHead, i)] = n - 1 - i
    BY <1>2, <1>3, <1>5 DEF Log!PrevHolds, Log!Described
  <2>2. i \in 0 .. PrevSize - 2
    BY <1>3, <1>5
  <2>3. Log!Before(PrevSize, logHead, i) \in 0 .. PrevSize - 1 /\ Log!Before(PrevSize, logHead, i) # logHead
    BY <1>3, <2>2, LogPlaces
  <2>4. QED
    BY <1>2, <1>3, <2>1, <2>3
<1>6. (\A i \in 0 .. PrevSize - 1 :
         i <= Log!Described - first /\ (at = "head" => i # PrevSize - 1)
           => buf[Log!Before(PrevSize, logHead, i)] = Log!Described - i)'
  BY <1>1, <1>2, <1>5 DEF Log!Described, Log!Before
<1>7. Log!PrevHolds'
  BY <1>1, <1>2, <1>3, <1>6 DEF Log!PrevHolds, Log!Counted, Log!Valid
<1>8. QED
  BY <1>1, <1>4, <1>7 DEF Log!LogInv

\* The head is past it.
LEMMA LogWritesHead ==
  ASSUME Log!LogInv, Log!WriteHead
  PROVE  Log!LogInv'
<1>1. /\ n' = n /\ first' = first /\ n \in Nat /\ first \in Nat /\ logSeq' \in Nat
      /\ buf' \in [0 .. PrevSize - 1 -> 0 .. n] /\ logHead' \in 0 .. PrevSize - 1 /\ used' \in 0 .. PrevSize
           => Log!TypeOK'
      /\ Log!RingHolds' /\ Log!PageNotAhead' /\ Log!ShownInOrder'
  BY LogWrites
<1>2. /\ at = "head" /\ at' = "used" /\ logHead' = (logHead + 1) % PrevSize
      /\ buf' = buf /\ used' = used /\ check' = check
  BY DEF Log!WriteHead
<1>3. /\ buf \in [0 .. PrevSize - 1 -> 0 .. n] /\ logHead \in 0 .. PrevSize - 1 /\ used \in 0 .. PrevSize
      /\ Log!PrevHolds /\ PrevSize \in Nat \ {0}
  BY LogNumbers DEF Log!LogInv, Log!TypeOK
<1> DEFINE g == (logHead + 1) % PrevSize
<1>4. /\ g \in 0 .. PrevSize - 1 /\ Log!Before(PrevSize, g, 0) = logHead
      /\ \A i \in 1 .. PrevSize - 1 : Log!Before(PrevSize, g, i) = Log!Before(PrevSize, logHead, i - 1)
  BY <1>3, LogPlaces
<1> HIDE DEF g
<1>5. logHead' = g
  BY <1>2 DEF g
<1>6. Log!TypeOK'
  BY <1>1, <1>2, <1>3, <1>4, <1>5
<1>7. ASSUME NEW i \in 0 .. PrevSize - 1, i <= n - first
      PROVE  buf[Log!Before(PrevSize, g, i)] = n - i
  <2>1. CASE i = 0
    BY <1>1, <1>2, <1>3, <1>4, <2>1 DEF Log!PrevHolds
  <2>2. CASE i # 0
    <3>1. PICK k \in 0 .. PrevSize - 1 : k = i - 1 /\ k <= n - 1 - first /\ k # PrevSize - 1 /\ i \in 1 .. PrevSize - 1
      BY <1>1, <1>3, <1>7, <2>2
    <3>2. buf[Log!Before(PrevSize, logHead, k)] = n - 1 - k
      BY <1>2, <1>3, <3>1 DEF Log!PrevHolds, Log!Described
    <3>3. QED
      BY <1>1, <1>4, <3>1, <3>2
  <2>3. QED
    BY <2>1, <2>2
<1>8. (\A i \in 0 .. PrevSize - 1 :
         i <= Log!Described - first /\ (at = "head" => i # PrevSize - 1)
           => buf[Log!Before(PrevSize, logHead, i)] = Log!Described - i)'
  BY <1>1, <1>2, <1>5, <1>7 DEF Log!Described, Log!Before
<1>9. Log!PrevHolds'
  BY <1>1, <1>2, <1>3, <1>8 DEF Log!PrevHolds, Log!Counted
<1>10. QED
  BY <1>1, <1>6, <1>9 DEF Log!LogInv

\* The ring is described again, and its checksum made.
LEMMA LogWritesUsed ==
  ASSUME Log!LogInv, Log!WriteUsed \/ Log!WriteCheck
  PROVE  Log!LogInv'
<1>1. /\ n' = n /\ first' = first /\ n \in Nat /\ first \in Nat /\ logSeq' \in Nat /\ first <= n
      /\ buf' \in [0 .. PrevSize - 1 -> 0 .. n] /\ logHead' \in 0 .. PrevSize - 1 /\ used' \in 0 .. PrevSize
           => Log!TypeOK'
      /\ Log!RingHolds' /\ Log!PageNotAhead' /\ Log!ShownInOrder'
  BY LogWrites
<1>2. buf' = buf /\ logHead' = logHead
  BY DEF Log!WriteUsed, Log!WriteCheck
<1>3. /\ buf \in [0 .. PrevSize - 1 -> 0 .. n] /\ logHead \in 0 .. PrevSize - 1 /\ used \in 0 .. PrevSize
      /\ Log!PrevHolds /\ PrevSize \in Nat \ {0}
  BY LogNumbers DEF Log!LogInv, Log!TypeOK
<1>4. CASE Log!WriteUsed
  <2>1. /\ at = "used" /\ at' = "check" /\ check' = check
        /\ used' = IF used < PrevSize THEN used + 1 ELSE PrevSize
    BY <1>4 DEF Log!WriteUsed, Log!AtMostFull
  <2>2. Log!TypeOK'
    BY <1>1, <1>2, <1>3, <2>1
  <2>3. used' = (IF n + 1 - first < PrevSize THEN n + 1 - first ELSE PrevSize)
    <3>1. used = (IF n - first < PrevSize THEN n - first ELSE PrevSize)
      BY <1>3, <2>1 DEF Log!PrevHolds, Log!Counted
    <3>2. QED
      BY <1>1, <1>3, <2>1, <3>1
  <2>4. \A i \in 0 .. PrevSize - 1 : i <= n - first => buf[Log!Before(PrevSize, logHead, i)] = n - i
    BY <1>3, <2>1 DEF Log!PrevHolds, Log!Described
  <2>5. (\A i \in 0 .. PrevSize - 1 :
           i <= Log!Described - first /\ (at = "head" => i # PrevSize - 1)
             => buf[Log!Before(PrevSize, logHead, i)] = Log!Described - i)'
    BY <1>1, <1>2, <2>1, <2>4 DEF Log!Described, Log!Before
  <2>6. Log!PrevHolds'
    BY <1>1, <2>1, <2>3, <2>5 DEF Log!PrevHolds, Log!Counted
  <2>7. QED
    BY <1>1, <2>2, <2>6 DEF Log!LogInv
<1>5. CASE Log!WriteCheck
  <2>1. at = "check" /\ at' = "line" /\ check' = <<logHead, used>> /\ used' = used
    BY <1>5 DEF Log!WriteCheck
  <2>2. Log!TypeOK'
    BY <1>1, <1>2, <1>3, <2>1
  <2>3. Log!PrevHolds'
    BY <1>1, <1>2, <1>3, <2>1 DEF Log!PrevHolds, Log!Counted, Log!Described, Log!Valid, Log!Before
  <2>4. QED
    BY <1>1, <2>2, <2>3 DEF Log!LogInv
<1>6. QED
  BY <1>4, <1>5

\* The line is in the ring the page reads.
LEMMA LogAddsLine ==
  ASSUME Log!LogInv, Log!AddLine
  PROVE  Log!LogInv'
<1>1. /\ at = "line" /\ at' = "idle" /\ logRing' = [logRing EXCEPT ![next] = n]
      /\ next' = (next + 1) % RingSize /\ count' = IF count < RingSize THEN count + 1 ELSE count
      /\ logSeq' = logSeq + 1 /\ mirror' = logSeq + 1
      /\ UNCHANGED <<buf, logHead, used, check, prev, logFlash, toSave, tried, logSince, shown, gap, n, first, resets>>
  BY DEF Log!AddLine, Log!prevring, Log!saved, Log!page
<1>2. /\ n \in Nat /\ first \in Nat /\ logSeq = n - first /\ logSeq \in Nat
      /\ logRing \in [0 .. RingSize - 1 -> 0 .. n] /\ next \in 0 .. RingSize - 1 /\ count \in 0 .. RingSize
      /\ RingSize \in Nat \ {0} /\ Log!RingHolds
  BY <1>1, LogNumbers DEF Log!LogInv, Log!TypeOK
<1> DEFINE g == (next + 1) % RingSize
<1>3. /\ g \in 0 .. RingSize - 1 /\ Log!Before(RingSize, g, 0) = next
      /\ \A i \in 1 .. RingSize - 1 : Log!Before(RingSize, g, i) = Log!Before(RingSize, next, i - 1)
  BY <1>2, LogPlaces
<1> HIDE DEF g
<1>4. next' = g
  BY <1>1 DEF g
<1>5. logRing' \in [0 .. RingSize - 1 -> 0 .. n]
  BY <1>1, <1>2
<1>6. count' \in 0 .. RingSize
  BY <1>1, <1>2
<1>7. Log!TypeOK' /\ logSeq' \in Nat
  BY <1>1, <1>2, <1>3, <1>4, <1>5, <1>6, SMTT(30) DEF Log!LogInv, Log!TypeOK
<1>8. count' = (IF logSeq + 1 < RingSize THEN logSeq + 1 ELSE RingSize)
  BY <1>1, <1>2 DEF Log!RingHolds
<1>9. ASSUME NEW i \in 0 .. count' - 1
      PROVE  logRing'[Log!Before(RingSize, g, i)] = first + logSeq - i
  <2>1. CASE i = 0
    BY <1>1, <1>2, <1>3, <2>1
  <2>2. CASE i # 0
    <3>1. PICK k \in 0 .. RingSize - 2 : k = i - 1 /\ k \in 0 .. count - 1 /\ i \in 1 .. RingSize - 1
      BY <1>1, <1>2, <2>2
    <3>2. logRing[Log!Before(RingSize, next, k)] = first + logSeq - 1 - k
      BY <1>2, <3>1 DEF Log!RingHolds
    <3>3. k \in 0 .. RingSize - 1
      BY <1>2, <3>1
    <3>4. Log!Before(RingSize, next, k) # next /\ Log!Before(RingSize, next, k) \in 0 .. RingSize - 1
      BY <1>2, <3>1, <3>3, LogPlaces
    <3>5. logRing'[Log!Before(RingSize, next, k)] = first + logSeq - 1 - k
      BY <1>1, <1>2, <3>2, <3>4
    <3>6. QED
      BY <1>2, <1>3, <3>1, <3>5, SMTT(30)
  <2>3. QED
    BY <2>1, <2>2
<1>10. (\A i \in 0 .. count - 1 : logRing[Log!Before(RingSize, next, i)] = first + logSeq - 1 - i)'
  <2>1. \A i : (Log!Before(RingSize, next, i))' = Log!Before(RingSize, g, i)
    BY <1>4 DEF Log!Before
  <2>2. ASSUME NEW i \in 0 .. count' - 1
        PROVE  logRing'[(Log!Before(RingSize, next, i))'] = first' + logSeq' - 1 - i
    <3>1. logRing'[(Log!Before(RingSize, next, i))'] = first + logSeq - i
      BY <1>9, <2>1
    <3>2. i \in Int
      BY <1>6
    <3>3. QED
      BY <1>1, <1>2, <3>1, <3>2
  <2>3. QED
    BY <2>2
<1>11. Log!RingHolds'
  BY <1>1, <1>8, <1>10 DEF Log!RingHolds
<1>12. Log!PrevHolds'
  BY <1>1 DEF Log!LogInv, Log!PrevHolds, Log!Counted, Log!Described, Log!Valid, Log!Before
<1>13. Log!PageNotAhead' /\ Log!ShownInOrder'
  BY <1>1, <1>2, LogPageRests
<1>14. QED
  BY <1>7, <1>11, <1>12, <1>13 DEF Log!LogInv

\* A ring read from its oldest line on.
LEMMA OldestOn ==
  ASSUME NEW size \in Nat \ {0}, NEW h \in 0 .. size - 1, NEW c \in 0 .. size, NEW i \in 1 .. c
  PROVE  /\ (((h + size - c) % size) + i - 1) % size = Log!Before(size, h, c - i)
         /\ c - i \in 0 .. size - 1 /\ Log!Before(size, h, c - i) \in 0 .. size - 1
<1>1. \A x \in Nat : (x < size => x % size = x) /\ (x >= size /\ x < size + size => x % size = x - size)
  <2>1. \A s \in Nat \ {0} : \A x \in Nat :
          (x < s => x % s = x) /\ (x >= s /\ x < s + s => x % s = x - s)
    OBVIOUS
  <2>2. QED
    BY <2>1
<1> DEFINE x == h + size - c
           y == x % size
           z == y + i - 1
           k == c - i
<1>2. x \in Nat /\ x < size + size
  OBVIOUS
<1>3. y = IF x < size THEN x ELSE x - size
  <2> HIDE DEF x
  <2>1. QED
    BY <1>1, <1>2
<1>4. k \in 0 .. size - 1
  OBVIOUS
<1>5. Log!Before(size, h, k) = IF k < h THEN h - 1 - k ELSE h + size - 1 - k
  <2> HIDE DEF k
  <2>1. PlaceIn(size, h, k) = IF k < h THEN h - 1 - k ELSE h + size - 1 - k
    BY <1>4, RingPlaces
  <2>2. QED
    BY <2>1 DEF Log!Before, PlaceIn
<1> HIDE DEF y
<1>6. z \in Nat /\ z < size + size
  BY <1>3
<1>7. z % size = IF z < size THEN z ELSE z - size
  <2> HIDE DEF z
  <2>1. QED
    BY <1>1, <1>6
<1>8. z % size = Log!Before(size, h, k)
  BY <1>3, <1>5, <1>7
<1>9. Log!Before(size, h, k) \in 0 .. size - 1
  BY <1>4, LogPlaces
<1>10. QED
  BY <1>4, <1>8, <1>9 DEF y

\* What a reset finds in the ring that survives it.
LEMMA LogBody ==
  ASSUME Log!LogInv
  PROVE  /\ Log!Body \in Seq(0 .. n)
         /\ at \notin {"used", "check"} =>
              (IF Log!Valid /\ used > 0 THEN Log!Body ELSE <<>>) = Log!LastOfSession
<1>1. /\ n \in Nat /\ first \in Nat /\ first <= n + 1 /\ (at # "idle" => first <= n)
      /\ buf \in [0 .. PrevSize - 1 -> 0 .. n] /\ logHead \in 0 .. PrevSize - 1 /\ used \in 0 .. PrevSize
      /\ PrevSize \in Nat \ {0} /\ Log!PrevHolds
      /\ at \in {"idle", "data", "head", "used", "check", "line"}
  BY LogNumbers DEF Log!LogInv, Log!TypeOK
<1> DEFINE o == IF used = PrevSize THEN 1 ELSE 0
           place(i) == (Log!Start + o + i - 1) % PrevSize
<1>2. Log!Body = [i \in 1 .. used - o |-> buf[place(i)]]
  BY DEF Log!Body, Log!Oldest
<1>3. used - o \in Nat
  BY <1>1
<1>4. ASSUME NEW i \in 1 .. used - o
      PROVE  /\ place(i) = Log!Before(PrevSize, logHead, used - o - i) /\ place(i) \in 0 .. PrevSize - 1
             /\ used - o - i \in 0 .. PrevSize - 1
  <2> DEFINE j == i + o
  <2>1. j \in 1 .. used /\ used - j = used - o - i
    BY <1>1
  <2>2. Log!Start = (logHead + PrevSize - used) % PrevSize
    BY DEF Log!Start
  <2> HIDE DEF j
  <2>3. /\ (Log!Start + j - 1) % PrevSize = Log!Before(PrevSize, logHead, used - j)
        /\ used - j \in 0 .. PrevSize - 1 /\ Log!Before(PrevSize, logHead, used - j) \in 0 .. PrevSize - 1
    BY <1>1, <2>1, <2>2, OldestOn
  <2>4. Log!Start \in Int
    BY <1>1, <2>2
  <2>5. Log!Start + j - 1 = Log!Start + o + i - 1
    BY <1>1, <2>4 DEF j
  <2>6. QED
    BY <2>1, <2>3, <2>5
<1> HIDE DEF o, place
<1>5. Log!Body \in Seq(0 .. n)
  <2>1. \A i \in 1 .. used - o : buf[place(i)] \in 0 .. n
    BY <1>1, <1>4
  <2>2. PICK m \in Nat : m = used - o
    BY <1>3
  <2>3. Log!Body \in [1 .. m -> 0 .. n]
    BY <1>2, <2>1, <2>2
  <2>4. QED
    BY <2>3, SeqDef
<1>6. ASSUME at \notin {"used", "check"}
      PROVE  (IF Log!Valid /\ used > 0 THEN Log!Body ELSE <<>>) = Log!LastOfSession
  <2> DEFINE w == IF at \in {"idle", "line"} THEN n ELSE n - 1
             from == IF w - first + 1 >= PrevSize THEN w - PrevSize + 2 ELSE first
  <2>1. Log!LastOfSession = [i \in 1 .. w - from + 1 |-> from + i - 1]
    BY DEF Log!LastOfSession, Log!Written
  <2>2. /\ Log!Valid /\ Log!Described = w /\ w \in Int
        /\ used = (IF w - first + 1 < PrevSize THEN w - first + 1 ELSE PrevSize)
        /\ w - first + 1 \in Nat
    <3>1. CASE at \in {"idle", "line"}
      BY <1>1, <1>6, <3>1 DEF Log!PrevHolds, Log!Described, Log!Counted
    <3>2. CASE at \in {"data", "head"}
      BY <1>1, <1>6, <3>2 DEF Log!PrevHolds, Log!Described, Log!Counted
    <3>3. QED
      BY <1>1, <1>6, <3>1, <3>2
  <2> HIDE DEF w
  <2>3. w - from + 1 = used - o /\ from \in Int
    BY <1>1, <2>2 DEF o
  <2>4. ASSUME NEW i \in 1 .. used - o
        PROVE  buf[place(i)] = from + i - 1
    <3> DEFINE k == used - o - i
    <3>1. k \in 0 .. PrevSize - 1 /\ place(i) = Log!Before(PrevSize, logHead, k)
      BY <1>4
    <3>2. k <= w - first /\ k # PrevSize - 1
      BY <1>1, <2>2 DEF o
    <3>3. w - k = from + i - 1
      BY <1>1, <2>2, <2>3 DEF o
    <3> HIDE DEF k
    <3>4. buf[Log!Before(PrevSize, logHead, k)] = w - k
      BY <1>1, <2>2, <3>1, <3>2 DEF Log!PrevHolds
    <3>5. QED
      BY <3>1, <3>3, <3>4
  <2> HIDE DEF from
  <2>5. CASE used > 0
    <3>1. Log!LastOfSession = [i \in 1 .. used - o |-> from + i - 1]
      BY <2>1, <2>3
    <3>2. [i \in 1 .. used - o |-> buf[place(i)]] = [i \in 1 .. used - o |-> from + i - 1]
      BY <2>4
    <3>3. QED
      BY <1>2, <2>2, <2>5, <3>1, <3>2
  <2>6. CASE ~(used > 0)
    <3>1. used = 0 /\ o = 0
      BY <1>1, <2>6 DEF o
    <3>2. Log!LastOfSession = [i \in 1 .. 0 |-> from + i - 1]
      BY <2>1, <2>3, <3>1
    <3>3. [i \in 1 .. 0 |-> from + i - 1] = <<>>
      OBVIOUS
    <3>4. QED
      BY <2>6, <3>2, <3>3
  <2>7. QED
    BY <2>5, <2>6
<1>7. QED
  BY <1>5, <1>6

\* After a reset both rings are empty and no line shown is of the session.
LEMMA LogResets ==
  ASSUME Log!LogInv, NEW kind \in {"soft", "crash", "power"}, Log!Reset(kind)
  PROVE  Log!LogInv'
<1>1. /\ resets < MaxResets /\ resets' = resets + 1 /\ at' = "idle"
      /\ logRing' = Log!Empty(RingSize) /\ next' = 0 /\ count' = 0 /\ logSeq' = 0 /\ mirror' = 0
      /\ buf' = Log!Empty(PrevSize) /\ logHead' = 0 /\ used' = 0 /\ check' = <<0, 0>>
      /\ toSave' = (kind = "crash" /\ prev' # <<>>) /\ tried' = FALSE
      /\ first' = n + 1 /\ UNCHANGED <<logFlash, logSince, shown, gap, n>>
  BY DEF Log!Reset, Log!page
<1>2. /\ Log!TypeOK /\ n \in Nat /\ first \in Nat /\ shown \in Seq(1 .. n)
      /\ Log!ShownInOrder
  BY LogNumbers DEF Log!LogInv, Log!TypeOK
<1>3. {toSave', tried', gap'} \subseteq BOOLEAN
  <2>1. gap \in BOOLEAN
    BY <1>2 DEF Log!TypeOK
  <2>2. toSave' \in BOOLEAN /\ tried' \in BOOLEAN
    BY <1>1, Zenon
  <2>3. QED
    BY <1>1, <2>1, <2>2
<1>4. prev' \in Seq(0 .. n)
  <2>1. Log!Body \in Seq(0 .. n) /\ <<>> \in Seq(0 .. n)
    BY LogBody
  <2>2. prev' = Log!Body \/ prev' = <<>>
    BY DEF Log!Reset
  <2>3. QED
    BY <2>1, <2>2
<1>5. logRing' \in [0 .. RingSize - 1 -> 0 .. n] /\ buf' \in [0 .. PrevSize - 1 -> 0 .. n]
  BY <1>1, <1>2, LogNumbers DEF Log!Empty, Log!NoLine
<1>6. resets' \in 0 .. MaxResets
  BY <1>1, <1>2, LogNumbers DEF Log!TypeOK
<1>7. Log!TypeOK' /\ logSeq' \in Nat
  <2>1. /\ n' \in 0 .. MaxLines /\ first' \in 1 .. n' + 1 /\ logSince' \in 0 .. n'
        /\ logSeq' = n' - first' + 1 /\ mirror' = logSeq' /\ logSeq' \in Nat /\ at' = "idle"
    BY <1>1, <1>2 DEF Log!TypeOK
  <2>2. next' \in 0 .. RingSize - 1 /\ count' \in 0 .. RingSize /\ logHead' \in 0 .. PrevSize - 1 /\ used' \in 0 .. PrevSize
    BY <1>1, LogNumbers
  <2>3. /\ {prev', logFlash'} \subseteq Seq(0 .. n') /\ shown' \in Seq(1 .. n') /\ Len(shown') <= MaxShown
        /\ logRing' \in [0 .. RingSize - 1 -> 0 .. n'] /\ buf' \in [0 .. PrevSize - 1 -> 0 .. n']
    BY <1>1, <1>2, <1>4, <1>5 DEF Log!TypeOK
  <2>4. QED
    BY <1>3, <1>6, <2>1, <2>2, <2>3 DEF Log!TypeOK
<1>8. Log!RingHolds'
  BY <1>1, LogNumbers DEF Log!RingHolds
<1>9. Log!PrevHolds'
  BY <1>1, <1>2, LogNumbers DEF Log!PrevHolds, Log!Counted, Log!Described, Log!Valid
<1>10. shown # <<>> => ~(Log!Last(shown) >= n + 1)
  <2> SUFFICES ASSUME shown # <<>> PROVE ~(Log!Last(shown) >= n + 1)
    OBVIOUS
  <2>1. Len(shown) \in 1 .. Len(shown)
    BY <1>2, EmptySeq
  <2>2. shown[Len(shown)] \in 1 .. n
    BY <1>2, <2>1, ElementOfSeq
  <2>3. QED
    BY <1>2, <2>2 DEF Log!Last
<1>11. Log!PageNotAhead'
  BY <1>1, <1>10 DEF Log!PageNotAhead, Log!Last
<1>12. Log!ShownInOrder'
  BY <1>1, <1>2, <1>10 DEF Log!ShownInOrder, Log!Last
<1>13. QED
  BY <1>7, <1>8, <1>9, <1>11, <1>12 DEF Log!LogInv

\* What concerns the log of the last session alone, and a page that starts over.
LEMMA LogOthers ==
  ASSUME Log!LogInv, Log!Save \/ Log!ShowPrev \/ Log!Reload
  PROVE  Log!LogInv'
<1>1. /\ UNCHANGED <<at, logRing, next, count, logSeq, mirror, buf, logHead, used, check, n, first, resets>>
      /\ {prev', logFlash'} \subseteq {prev, logFlash}
  BY DEF Log!Save, Log!ShowPrev, Log!Reload, Log!ramlog, Log!prevring, Log!saved
<1>2. Log!TypeOK /\ logSeq \in Nat /\ Log!RingHolds /\ Log!PrevHolds /\ Log!PageNotAhead /\ Log!ShownInOrder /\ n \in Nat
  BY LogNumbers DEF Log!LogInv, Log!TypeOK
<1>3. {toSave', tried', gap'} \subseteq BOOLEAN
  <2>1. {toSave, tried, gap} \subseteq BOOLEAN
    BY <1>2 DEF Log!TypeOK
  <2>2. TRUE \in BOOLEAN /\ FALSE \in BOOLEAN
    BY Zenon
  <2>3. CASE Log!Save
    <3>1. toSave' = FALSE /\ tried' = tried /\ gap' = gap
      BY <2>3 DEF Log!Save, Log!page
    <3>2. QED
      BY <2>1, <2>2, <3>1
  <2>4. CASE Log!ShowPrev
    <3>1. toSave' = toSave /\ tried' = TRUE /\ gap' = gap
      BY <2>4 DEF Log!ShowPrev, Log!page
    <3>2. QED
      BY <2>1, <2>2, <3>1
  <2>5. CASE Log!Reload
    <3>1. toSave' = toSave /\ tried' = tried /\ gap' = FALSE
      BY <2>5 DEF Log!Reload, Log!saved
    <3>2. QED
      BY <2>1, <2>2, <3>1
  <2>6. QED
    BY <2>3, <2>4, <2>5
<1>4. \/ UNCHANGED <<logSince, shown, gap>>
      \/ logSince' = 0 /\ shown' = <<>> /\ gap' = FALSE
  BY DEF Log!Save, Log!ShowPrev, Log!Reload, Log!page
<1>5. logSince' \in 0 .. n /\ shown' \in Seq(1 .. n) /\ Len(shown') <= MaxShown
  <2>1. Len(<<>>) <= MaxShown /\ <<>> \in Seq(1 .. n) /\ 0 \in 0 .. n
    BY <1>2, EmptySeq, LogNumbers
  <2>2. QED
    BY <1>2, <1>4, <2>1 DEF Log!TypeOK
<1>6. Log!TypeOK'
  BY <1>1, <1>2, <1>3, <1>5 DEF Log!TypeOK
<1>7. Log!RingHolds'
  BY <1>1, <1>2 DEF Log!RingHolds, Log!Before
<1>8. Log!PrevHolds'
  BY <1>1, <1>2 DEF Log!PrevHolds, Log!Counted, Log!Described, Log!Valid, Log!Before
<1>9. Log!PageNotAhead' /\ Log!ShownInOrder'
  <2>1. CASE UNCHANGED <<logSince, shown, gap>>
    BY <1>1, <1>2, <2>1, LogPageRests
  <2>2. CASE logSince' = 0 /\ shown' = <<>> /\ gap' = FALSE
    <3>1. Len(shown') = 0
      BY <2>2, EmptySeq
    <3>2. QED
      BY <2>2, <3>1 DEF Log!PageNotAhead, Log!ShownInOrder
  <2>3. QED
    BY <1>4, <2>1, <2>2
<1>10. QED
  BY <1>1, <1>2, <1>6, <1>7, <1>8, <1>9 DEF Log!LogInv

\* What a poll fetches: the lines after the page's cursor, all of them unless some were
\* overwritten.
LEMMA LogFetches ==
  ASSUME Log!LogInv
  PROVE  /\ Log!From \in 0 .. logSeq
         /\ Log!Fetched \in Seq(1 .. n)
         /\ ~(Log!From + 1 < Log!OldestSeq) =>
              /\ Len(Log!Fetched) = logSeq - Log!From
              /\ \A i \in 1 .. Len(Log!Fetched) : Log!Fetched[i] = first + Log!From + i - 1
<1>1. /\ n \in Nat /\ first \in Nat \ {0} /\ logSeq \in Nat /\ first + logSeq - 1 <= n /\ logSince \in Nat
      /\ next \in 0 .. RingSize - 1 /\ count \in 0 .. RingSize
      /\ RingSize \in Nat \ {0} /\ Log!RingHolds
  BY LogNumbers DEF Log!LogInv, Log!TypeOK
<1>2. count \in 0 .. logSeq
  BY <1>1 DEF Log!RingHolds
<1> DEFINE from == Log!From
           oldest == Log!OldestSeq
           place(i) == (((next + RingSize - count) % RingSize) + i - 1) % RingSize
           all == [i \in 1 .. count |-> logRing[place(i)]]
           b == IF from < oldest THEN 1 ELSE from - oldest + 2
<1>3. from \in 0 .. logSeq
  BY <1>1 DEF Log!From
<1>4. oldest = logSeq - count + 1
  BY <1>1, <1>2 DEF Log!OldestSeq
<1>5. Log!Fetched = SubSeq(all, b, count)
  BY DEF Log!Fetched
<1>6. ASSUME NEW i \in 1 .. count
      PROVE  all[i] = first + oldest + i - 2 /\ all[i] \in 1 .. n
  <2> DEFINE k == count - i
  <2>1. place(i) = Log!Before(RingSize, next, k)
    BY <1>1, OldestOn
  <2>2. k \in 0 .. count - 1
    BY <1>2
  <2>3. all[i] = logRing[place(i)]
    OBVIOUS
  <2> HIDE DEF place, all
  <2>4. logRing[Log!Before(RingSize, next, k)] = first + logSeq - 1 - k
    <3> HIDE DEF k
    <3>1. QED
      BY <1>1, <2>2 DEF Log!RingHolds
  <2> HIDE DEF oldest
  <2>5. all[i] = first + logSeq - 1 - k
    BY <2>1, <2>3, <2>4
  <2>6. QED
    BY <1>1, <1>2, <1>4, <2>5
<1> HIDE DEF all, place, from, oldest
<1>7. b \in Int /\ count \in Int /\ b >= 1
  BY <1>1, <1>2, <1>3, <1>4
<1> HIDE DEF b
<1>8. \A i \in b .. count : all[i] \in 1 .. n
  <2>1. \A i \in b .. count : i \in 1 .. count
    BY <1>2, <1>7
  <2>2. QED
    BY <1>6, <2>1
<1>9. /\ SubSeq(all, b, count) \in Seq(1 .. n)
      /\ Len(SubSeq(all, b, count)) = IF b <= count THEN count - b + 1 ELSE 0
      /\ \A i \in 1 .. count - b + 1 : SubSeq(all, b, count)[i] = all[b + i - 1]
  BY <1>7, <1>8, SubSeqProperties
<1>10. ASSUME ~(from + 1 < oldest)
       PROVE  /\ Len(Log!Fetched) = logSeq - from
              /\ \A i \in 1 .. Len(Log!Fetched) : Log!Fetched[i] = first + from + i - 1
  <2>1. b = from - oldest + 2 /\ count - b + 1 = logSeq - from /\ (b <= count \/ logSeq - from = 0)
    BY <1>1, <1>2, <1>3, <1>4, <1>10 DEF b
  <2>2. Len(Log!Fetched) = logSeq - from
    BY <1>5, <1>7, <1>9, <2>1
  <2>3. ASSUME NEW i \in 1 .. logSeq - from
        PROVE  Log!Fetched[i] = first + from + i - 1
    <3>1. Log!Fetched[i] = all[b + i - 1]
      BY <1>5, <1>9, <2>1
    <3>2. b + i - 1 \in 1 .. count
      BY <1>1, <1>2, <1>3, <1>7, <2>1
    <3>3. all[b + i - 1] = first + oldest + (b + i - 1) - 2
      BY <1>6, <3>2
    <3>4. QED
      BY <1>1, <1>2, <1>3, <1>4, <2>1, <3>1, <3>3
  <2>4. QED
    BY <2>2, <2>3
<1>11. QED
  BY <1>3, <1>5, <1>9, <1>10 DEF from, oldest

\* What a page keeps of its lines: the last ones.
LEMMA LastLines ==
  ASSUME NEW S, NEW s \in Seq(S)
  PROVE  LET t == SubSeq(s, IF Len(s) > MaxShown THEN Len(s) - MaxShown + 1 ELSE 1, Len(s)) IN
         /\ t \in Seq(S) /\ Len(t) <= MaxShown /\ Len(t) <= Len(s)
         /\ (Len(t) = 0 <=> Len(s) = 0)
         /\ \A i \in 1 .. Len(t) : t[i] = s[Len(s) - Len(t) + i]
<1> DEFINE b == IF Len(s) > MaxShown THEN Len(s) - MaxShown + 1 ELSE 1
           t == SubSeq(s, b, Len(s))
<1>1. Len(s) \in Nat /\ MaxShown \in Nat \ {0}
  BY LogNumbers
<1>2. b \in Int /\ b >= 1
  BY <1>1
<1>3. \A i \in b .. Len(s) : s[i] \in S
  <2> HIDE DEF b
  <2>1. \A i \in b .. Len(s) : i \in 1 .. Len(s)
    BY <1>1, <1>2
  <2>2. QED
    BY <2>1, ElementOfSeq
<1>4. /\ t \in Seq(S) /\ Len(t) = IF b <= Len(s) THEN Len(s) - b + 1 ELSE 0
      /\ \A i \in 1 .. Len(s) - b + 1 : t[i] = s[b + i - 1]
  <2> HIDE DEF b
  <2>1. QED
    BY <1>1, <1>2, <1>3, SubSeqProperties
<1> HIDE DEF t
<1>5. Len(t) <= MaxShown /\ Len(t) <= Len(s) /\ (Len(t) = 0 <=> Len(s) = 0)
  BY <1>1, <1>4
<1>6. ASSUME NEW i \in 1 .. Len(t)
      PROVE  t[i] = s[Len(s) - Len(t) + i]
  <2> HIDE DEF b
  <2>1. Len(t) = Len(s) - b + 1 /\ i \in Int
    BY <1>1, <1>2, <1>4, <1>5
  <2>2. t[i] = s[b + i - 1]
    BY <1>4, <2>1
  <2>3. b + i - 1 = Len(s) - Len(t) + i
    BY <1>1, <1>2, <2>1
  <2>4. QED
    BY <2>2, <2>3
<1>7. QED
  BY <1>4, <1>5, <1>6 DEF t

\* Lines that follow one another, still do when the page keeps the last of them.
Follow(s) == \A i \in 1 .. Len(s) - 1 : s[i + 1] = s[i] + 1
\* What is kept of lines that follow one another ends with the same line.
LEMMA LastLinesFollow ==
  ASSUME NEW s \in Seq(1 .. n), Follow(s), n \in Nat
  PROVE  LET t == SubSeq(s, IF Len(s) > MaxShown THEN Len(s) - MaxShown + 1 ELSE 1, Len(s)) IN
         /\ t \in Seq(1 .. n) /\ Len(t) <= MaxShown /\ Follow(t)
         /\ (t = <<>> <=> s = <<>>)
         /\ t # <<>> => Log!Last(t) = s[Len(s)]
<1> DEFINE t == SubSeq(s, IF Len(s) > MaxShown THEN Len(s) - MaxShown + 1 ELSE 1, Len(s))
<1>1. /\ t \in Seq(1 .. n) /\ Len(t) <= MaxShown /\ Len(t) <= Len(s)
      /\ (Len(t) = 0 <=> Len(s) = 0)
      /\ \A i \in 1 .. Len(t) : t[i] = s[Len(s) - Len(t) + i]
  BY LastLines
<1> HIDE DEF t
<1>2. Len(t) \in Nat /\ Len(s) \in Nat
  BY <1>1
<1>3. (t = <<>> <=> Len(t) = 0) /\ (s = <<>> <=> Len(s) = 0)
  BY <1>1, EmptySeq
<1>4. ASSUME NEW i \in 1 .. Len(t) - 1
      PROVE  t[i + 1] = t[i] + 1
  <2> DEFINE j == Len(s) - Len(t) + i
  <2>1. j \in 1 .. Len(s) - 1 /\ i \in 1 .. Len(t) /\ i + 1 \in 1 .. Len(t) /\ Len(s) - Len(t) + (i + 1) = j + 1
    BY <1>1, <1>2
  <2>2. t[i] = s[j] /\ t[i + 1] = s[j + 1]
    BY <1>1, <2>1
  <2> HIDE DEF j
  <2>3. s[j + 1] = s[j] + 1
    BY <2>1 DEF Follow
  <2>4. QED
    BY <2>2, <2>3
<1>5. Len(t) > 0 => t[Len(t)] = s[Len(s)]
  <2> SUFFICES ASSUME Len(t) > 0 PROVE t[Len(t)] = s[Len(s)]
    OBVIOUS
  <2>1. Len(t) \in 1 .. Len(t) /\ Len(s) - Len(t) + Len(t) = Len(s)
    BY <1>2
  <2>2. QED
    BY <1>1, <2>1
<1>6. t # <<>> => Log!Last(t) = s[Len(s)]
  BY <1>2, <1>3, <1>5 DEF Log!Last
<1>7. QED
  BY <1>1, <1>3, <1>4, <1>6 DEF t, Follow

\* What a poll leaves alone.
LEMMA LogPollRests ==
  ASSUME Log!LogInv, Log!Poll \/ Log!PollBusy
  PROVE  /\ logSince' = logSeq /\ logSeq \in 0 .. n /\ n \in Nat /\ logSince \in Nat
         /\ UNCHANGED <<at, logRing, next, count, logSeq, mirror, buf, logHead, used, check,
                        prev, logFlash, toSave, tried, n, first, resets>>
         /\ (shown' \in Seq(1 .. n) /\ Len(shown') <= MaxShown /\ gap' \in BOOLEAN => Log!TypeOK')
         /\ Log!RingHolds' /\ Log!PrevHolds' /\ Log!PageNotAhead'
<1>1. /\ Log!TypeOK /\ logSeq \in Nat /\ n \in Nat /\ Log!RingHolds /\ Log!PrevHolds
  BY LogNumbers DEF Log!LogInv, Log!TypeOK
<1>2. mirror = logSeq /\ logSeq \in 0 .. n /\ logSince \in Nat
  BY <1>1 DEF Log!TypeOK
<1>3. /\ logSince' = logSeq
      /\ UNCHANGED <<at, logRing, next, count, logSeq, mirror, buf, logHead, used, check,
                     prev, logFlash, toSave, tried, n, first, resets>>
  BY <1>2 DEF Log!Poll, Log!PollBusy, Log!Takes, Log!BusyAnswer, Log!ramlog, Log!prevring, Log!saved
<1>4. shown' \in Seq(1 .. n) /\ Len(shown') <= MaxShown /\ gap' \in BOOLEAN => Log!TypeOK'
  <2> SUFFICES ASSUME shown' \in Seq(1 .. n), Len(shown') <= MaxShown, gap' \in BOOLEAN PROVE Log!TypeOK'
    OBVIOUS
  <2>1. {toSave', tried', gap'} \subseteq BOOLEAN
    <3>1. toSave \in BOOLEAN /\ tried \in BOOLEAN
      BY <1>1 DEF Log!TypeOK
    <3>2. QED
      BY <1>3, <3>1
  <2>2. QED
    BY <1>1, <1>2, <1>3, <2>1 DEF Log!TypeOK
<1>5. Log!RingHolds'
  BY <1>1, <1>3 DEF Log!RingHolds, Log!Before
<1>6. Log!PrevHolds'
  BY <1>1, <1>3 DEF Log!PrevHolds, Log!Counted, Log!Described, Log!Valid, Log!Before
<1>7. Log!PageNotAhead'
  BY <1>1, <1>3 DEF Log!PageNotAhead
<1>8. QED
  BY <1>1, <1>2, <1>3, <1>4, <1>5, <1>6, <1>7

\* A poll's answer continues what the page shows, as long as no line passed it by.
LEMMA LogPolls ==
  ASSUME Log!LogInv, Log!Poll
  PROVE  Log!LogInv'
<1>1. /\ logSince' = logSeq /\ logSeq \in 0 .. n /\ n \in Nat /\ logSince \in Nat
      /\ UNCHANGED <<at, logRing, next, count, logSeq, mirror, buf, logHead, used, check,
                     prev, logFlash, toSave, tried, n, first, resets>>
      /\ (shown' \in Seq(1 .. n) /\ Len(shown') <= MaxShown /\ gap' \in BOOLEAN => Log!TypeOK')
      /\ Log!RingHolds' /\ Log!PrevHolds' /\ Log!PageNotAhead'
  BY LogPollRests
<1> DEFINE base == IF logSeq < logSince THEN <<>> ELSE shown
           kept == base \o Log!Fetched
<1>2. /\ shown' = SubSeq(kept, IF Len(kept) > MaxShown THEN Len(kept) - MaxShown + 1 ELSE 1, Len(kept))
      /\ gap' = ((gap /\ logSince <= logSeq) \/ Log!Missed)
  BY DEF Log!Poll, Log!Takes
<1>3. /\ Log!From \in 0 .. logSeq
      /\ Log!Fetched \in Seq(1 .. n)
      /\ ~(Log!From + 1 < Log!OldestSeq) =>
           /\ Len(Log!Fetched) = logSeq - Log!From
           /\ \A i \in 1 .. Len(Log!Fetched) : Log!Fetched[i] = first + Log!From + i - 1
  BY LogFetches
<1>4. base \in Seq(1 .. n)
  BY EmptySeq DEF Log!LogInv, Log!TypeOK
<1>5. /\ kept \in Seq(1 .. n) /\ Len(kept) = Len(base) + Len(Log!Fetched)
      /\ \A i \in 1 .. Len(base) + Len(Log!Fetched) :
           kept[i] = IF i <= Len(base) THEN base[i] ELSE Log!Fetched[i - Len(base)]
  BY <1>3, <1>4, ConcatProperties
<1>6. gap' \in BOOLEAN
  BY <1>2, Zenon
<1>7. shown' \in Seq(1 .. n) /\ Len(shown') <= MaxShown
  <2> HIDE DEF kept
  <2>1. QED
    BY <1>2, <1>5, LastLines
<1>8. ASSUME ~gap'
      PROVE  /\ Follow(shown')
             /\ shown' = <<>> => logSeq = 0
             /\ shown' # <<>> => Log!Last(shown') = first + logSeq - 1
  <2>1. ~(gap /\ logSince <= logSeq) /\ ~Log!Missed
    BY <1>2, <1>8
  <2>2. ~(Log!From + 1 < Log!OldestSeq) /\ ~(shown # <<>> /\ logSince <= logSeq /\ Log!Last(shown) < first)
    BY <2>1 DEF Log!Missed
  <2>3. /\ first \in Nat /\ first >= 1 /\ logSeq \in Nat /\ logSince \in Nat /\ Log!From \in Nat /\ Log!From <= logSeq
        /\ Len(base) \in Nat /\ Len(Log!Fetched) = logSeq - Log!From
        /\ \A i \in 1 .. logSeq - Log!From : Log!Fetched[i] = first + Log!From + i - 1
    <3>1. first \in Nat /\ first >= 1
      BY <1>1 DEF Log!LogInv, Log!TypeOK
    <3>2. QED
      BY <1>1, <1>3, <1>4, <2>2, <3>1
  <2>4. /\ Follow(base)
        /\ Len(base) = 0 => Log!From = 0
        /\ Len(base) > 0 => base[Len(base)] = first + Log!From - 1
    <3>1. CASE logSeq < logSince
      <4>1. base = <<>> /\ Len(base) = 0 /\ Log!From = 0
        BY <1>1, <3>1, EmptySeq DEF Log!From
      <4>2. QED
        BY <4>1 DEF Follow
    <3>2. CASE ~(logSeq < logSince)
      <4>1. base = shown /\ Log!From = logSince /\ logSince <= logSeq
        BY <1>1, <3>2 DEF Log!From
      <4>2. ~gap /\ ~(shown # <<>> /\ Log!Last(shown) < first)
        BY <2>1, <2>2, <4>1
      <4>3. shown \in Seq(1 .. n) /\ (shown = <<>> <=> Len(shown) = 0) /\ Len(shown) \in Nat
        BY <1>4, <4>1, EmptySeq
      <4>4. /\ \A i \in 1 .. Len(shown) - 1 : shown[i + 1] = shown[i] + 1
            /\ shown = <<>> => logSince = 0
            /\ shown # <<>> /\ Log!Last(shown) >= first => Log!Last(shown) = first + logSince - 1
        BY <4>2 DEF Log!LogInv, Log!ShownInOrder
      <4>5. Len(shown) > 0 => shown[Len(shown)] = first + logSince - 1
        <5> SUFFICES ASSUME Len(shown) > 0 PROVE shown[Len(shown)] = first + logSince - 1
          OBVIOUS
        <5>1. Len(shown) \in 1 .. Len(shown)
          BY <4>3
        <5>2. shown[Len(shown)] \in 1 .. n
          BY <4>3, <5>1, ElementOfSeq
        <5>3. Log!Last(shown) = shown[Len(shown)]
          BY DEF Log!Last
        <5>4. Log!Last(shown) >= first
          BY <2>3, <4>2, <4>3, <5>2, <5>3
        <5>5. QED
          BY <4>3, <4>4, <5>3, <5>4
      <4>6. Follow(shown) /\ (Len(shown) = 0 => logSince = 0)
        BY <4>3, <4>4 DEF Follow
      <4>7. QED
        BY <4>1, <4>5, <4>6
    <3>3. QED
      BY <3>1, <3>2
  <2> HIDE DEF base
  <2> DEFINE l == Len(base)
             f == Log!From
  <2>5. /\ Len(kept) = l + (logSeq - f)
        /\ \A i \in 1 .. l : kept[i] = base[i]
        /\ \A i \in l + 1 .. l + (logSeq - f) : kept[i] = first + f + (i - l) - 1
    <3>1. ASSUME NEW i \in l + 1 .. l + (logSeq - f)
          PROVE  kept[i] = first + f + (i - l) - 1
      <4>1. i \in 1 .. l + Len(Log!Fetched) /\ ~(i <= l) /\ i - l \in 1 .. logSeq - f
        BY <2>3
      <4>2. kept[i] = Log!Fetched[i - l]
        BY <1>5, <4>1
      <4>3. QED
        BY <2>3, <4>1, <4>2
    <3>2. ASSUME NEW i \in 1 .. l
          PROVE  kept[i] = base[i]
      <4>1. i \in 1 .. l + Len(Log!Fetched) /\ i <= l
        BY <2>3
      <4>2. QED
        BY <1>5, <4>1
    <3>3. QED
      BY <1>5, <2>3, <3>1, <3>2
  <2> HIDE DEF kept, l, f
  <2>6. l \in Nat /\ f \in Nat /\ f <= logSeq /\ (l = 0 => f = 0) /\ (l > 0 => base[l] = first + f - 1)
    BY <2>3, <2>4 DEF l, f
  <2>7. Follow(kept)
    <3> SUFFICES ASSUME NEW i \in 1 .. Len(kept) - 1
                 PROVE  kept[i + 1] = kept[i] + 1
      BY DEF Follow
    <3>1. CASE i < l
      <4>1. i \in 1 .. l - 1 /\ i \in 1 .. l /\ i + 1 \in 1 .. l
        BY <2>5, <2>6, <3>1
      <4>2. base[i + 1] = base[i] + 1
        BY <2>4, <4>1 DEF Follow, l
      <4>3. QED
        BY <2>5, <4>1, <4>2
    <3>2. CASE i = l
      <4>1. l \in 1 .. l /\ l + 1 \in l + 1 .. l + (logSeq - f)
        BY <2>3, <2>5, <2>6, <3>2
      <4>2. kept[l] = first + f - 1
        BY <2>5, <2>6, <4>1
      <4>3. kept[l + 1] = first + f + ((l + 1) - l) - 1
        BY <2>5, <4>1
      <4>4. QED
        BY <2>3, <2>6, <3>2, <4>2, <4>3
    <3>3. CASE i > l
      <4>1. i \in l + 1 .. l + (logSeq - f) /\ i + 1 \in l + 1 .. l + (logSeq - f)
        BY <2>3, <2>5, <2>6, <3>3
      <4>2. kept[i] = first + f + (i - l) - 1 /\ kept[i + 1] = first + f + ((i + 1) - l) - 1
        BY <2>5, <4>1
      <4>3. QED
        BY <2>3, <2>6, <4>1, <4>2
    <3>4. QED
      BY <2>6, <3>1, <3>2, <3>3
  <2>8. Len(kept) = 0 => logSeq = 0
    BY <2>3, <2>5, <2>6
  <2>9. Len(kept) > 0 => kept[Len(kept)] = first + logSeq - 1
    <3> SUFFICES ASSUME Len(kept) > 0 PROVE kept[Len(kept)] = first + logSeq - 1
      OBVIOUS
    <3>1. CASE f = logSeq
      <4>1. Len(kept) = l /\ l > 0 /\ l \in 1 .. l
        BY <2>3, <2>5, <2>6, <3>1
      <4>2. QED
        BY <2>5, <2>6, <3>1, <4>1
    <3>2. CASE f # logSeq
      <4> DEFINE k == Len(kept)
      <4>1. k \in l + 1 .. l + (logSeq - f) /\ k = l + (logSeq - f)
        BY <2>3, <2>5, <2>6, <3>2
      <4>2. kept[k] = first + f + (k - l) - 1
        BY <2>5, <4>1
      <4> HIDE DEF k
      <4>3. kept[k] = first + logSeq - 1
        BY <2>3, <2>6, <4>1, <4>2
      <4>4. QED
        BY <4>3 DEF k
    <3>3. QED
      BY <3>1, <3>2
  <2>10. (kept = <<>> <=> Len(kept) = 0) /\ Len(kept) \in Nat
    BY <1>5, EmptySeq
  <2>11. /\ Follow(shown') /\ (shown' = <<>> <=> kept = <<>>)
         /\ shown' # <<>> => Log!Last(shown') = kept[Len(kept)]
    BY <1>1, <1>2, <1>5, <2>7, LastLinesFollow
  <2>12. QED
    BY <2>8, <2>9, <2>10, <2>11
<1>9. Log!ShownInOrder'
  BY <1>1, <1>8 DEF Log!ShownInOrder, Follow, Log!Last
<1>10. QED
  BY <1>1, <1>6, <1>7, <1>9 DEF Log!LogInv

\* An answer without the lock brings no line.
LEMMA LogPollsBusy ==
  ASSUME Log!LogInv, Log!PollBusy
  PROVE  Log!LogInv'
<1>1. /\ logSince' = logSeq /\ logSeq \in 0 .. n /\ n \in Nat /\ logSince \in Nat
      /\ UNCHANGED <<at, logRing, next, count, logSeq, mirror, buf, logHead, used, check,
                     prev, logFlash, toSave, tried, n, first, resets>>
      /\ (shown' \in Seq(1 .. n) /\ Len(shown') <= MaxShown /\ gap' \in BOOLEAN => Log!TypeOK')
      /\ Log!RingHolds' /\ Log!PrevHolds' /\ Log!PageNotAhead'
  BY LogPollRests
<1> DEFINE base == IF mirror < logSince THEN <<>> ELSE shown
           kept == base \o <<>>
<1>2. /\ shown' = SubSeq(kept, IF Len(kept) > MaxShown THEN Len(kept) - MaxShown + 1 ELSE 1, Len(kept))
      /\ gap' = (gap \/ logSince # mirror)
  BY DEF Log!PollBusy, Log!Takes, Log!BusyAnswer
<1>3. base \in Seq(1 .. n) /\ mirror = logSeq
  BY EmptySeq DEF Log!LogInv, Log!TypeOK
<1>4. kept = base
  <2> HIDE DEF base
  <2>1. QED
    BY <1>3, ConcatEmptySeq
<1>5. gap' \in BOOLEAN
  BY <1>2, Zenon
<1> HIDE DEF kept
<1>6. shown' \in Seq(1 .. n) /\ Len(shown') <= MaxShown
  BY <1>2, <1>3, <1>4, LastLines
<1>7. ASSUME ~gap'
      PROVE  /\ Follow(shown')
             /\ shown' = <<>> => logSince = 0
             /\ shown' # <<>> /\ Log!Last(shown') >= first => Log!Last(shown') = first + logSince - 1
             /\ logSince = logSeq
  <2>1. ~gap /\ logSince = mirror
    BY <1>2, <1>7
  <2>2. kept = shown /\ shown \in Seq(1 .. n)
    BY <1>1, <1>3, <1>4, <2>1
  <2>3. /\ Follow(shown)
        /\ shown = <<>> => logSince = 0
        /\ shown # <<>> /\ Log!Last(shown) >= first => Log!Last(shown) = first + logSince - 1
    BY <2>1 DEF Log!LogInv, Log!ShownInOrder, Follow
  <2>4. /\ Follow(shown') /\ (shown' = <<>> <=> shown = <<>>)
        /\ shown' # <<>> => Log!Last(shown') = shown[Len(shown)]
    BY <1>1, <1>2, <2>2, <2>3, LastLinesFollow
  <2>5. QED
    BY <1>3, <2>1, <2>3, <2>4 DEF Log!Last
<1>8. Log!ShownInOrder'
  BY <1>1, <1>7 DEF Log!ShownInOrder, Follow, Log!Last
<1>9. QED
  BY <1>1, <1>5, <1>6, <1>8 DEF Log!LogInv

\* All of it together.
LEMMA LogStep ==
  ASSUME Log!LogInv, Log!Next \/ UNCHANGED logVars
  PROVE  Log!LogInv'
<1>1. CASE UNCHANGED logVars
  <2>1. UNCHANGED <<at, logRing, next, count, logSeq, mirror, buf, logHead, used, check, prev, logFlash,
                    toSave, tried, logSince, shown, n, first, gap, resets>>
    BY <1>1 DEF logVars
  <2>2. Log!TypeOK' /\ logSeq' \in Nat
    BY <2>1 DEF Log!LogInv, Log!TypeOK
  <2>3. Log!RingHolds' /\ Log!PrevHolds'
    BY <2>1 DEF Log!LogInv, Log!RingHolds, Log!PrevHolds, Log!Counted, Log!Described, Log!Valid, Log!Before
  <2>4. Log!PageNotAhead' /\ Log!ShownInOrder'
    BY <2>1 DEF Log!LogInv, Log!PageNotAhead, Log!ShownInOrder, Log!Last
  <2>5. QED
    BY <2>2, <2>3, <2>4 DEF Log!LogInv
<1>2. CASE Log!Begin
  BY <1>2, LogBegins
<1>3. CASE Log!WriteData
  BY <1>3, LogWritesData
<1>4. CASE Log!WriteHead
  BY <1>4, LogWritesHead
<1>5. CASE Log!WriteUsed \/ Log!WriteCheck
  BY <1>5, LogWritesUsed
<1>6. CASE Log!AddLine
  BY <1>6, LogAddsLine
<1>7. ASSUME NEW kind \in {"soft", "crash", "power"}, Log!Reset(kind)
      PROVE  Log!LogInv'
  BY <1>7, LogResets
<1>8. CASE Log!Save \/ Log!ShowPrev \/ Log!Reload
  BY <1>8, LogOthers
<1>9. CASE Log!Poll
  BY <1>9, LogPolls
<1>10. CASE Log!PollBusy
  BY <1>10, LogPollsBusy
<1>11. QED
  BY <1>1, <1>2, <1>3, <1>4, <1>5, <1>6, <1>7, <1>8, <1>9, <1>10 DEF Log!Next

\* So it stays.
LEMMA LogAlways == Spec => []Log!LogInv
<1>1. Init => Log!LogInv
  BY LogInit
<1>2. Log!LogInv /\ [Next]_vars => Log!LogInv'
  <2> SUFFICES ASSUME Log!LogInv, [Next]_vars PROVE Log!LogInv'
    OBVIOUS
  <2>1. Log!Next \/ UNCHANGED logVars
    BY OneRuns
  <2>2. QED
    BY <2>1, LogStep
<1>3. QED
  BY <1>1, <1>2, PTL DEF Spec

\* The page shows the lines of the session in order (idf_log.cpp:359-399), as the ring
\* holds the last lines one after the other.
THEOREM PageFollowsTheLog == Spec => []LogInOrder
<1>1. Log!LogInv => LogInOrder
  BY DEF Log!LogInv, LogInOrder
<1>2. QED
  BY <1>1, LogAlways, PTL

\* What a restart gives back of inbox and log, and that a page's place in the log does
\* not go back (idf_inbox.cpp:154-181, idf_log.cpp:82-101, 366-371).
THEOREM RestartsGiveBack == Spec => RestartsKeep
<1>1. ASSUME Log!LogInv
      PROVE  [\A kind \in {"soft", "crash"} :
                Log!Reset(kind) /\ at \notin {"used", "check"} => prev' = Log!LastOfSession]_(Log!vars)
  <2> SUFFICES ASSUME NEW kind \in {"soft", "crash"}, Log!Reset(kind), at \notin {"used", "check"}
               PROVE  prev' = Log!LastOfSession
    OBVIOUS
  <2>1. prev' = IF kind # "power" /\ Log!Valid /\ used > 0 THEN Log!Body ELSE <<>>
    BY DEF Log!Reset
  <2>2. (IF Log!Valid /\ used > 0 THEN Log!Body ELSE <<>>) = Log!LastOfSession
    BY <1>1, LogBody
  <2>3. kind # "power"
    OBVIOUS
  <2>4. QED
    BY <2>1, <2>2, <2>3
<1>2. ASSUME Log!LogInv
      PROVE  [shown # <<>> /\ Log!Last(shown) >= first /\ (Log!Poll \/ Log!PollBusy)
                => logSince' >= logSince]_(Log!vars)
  <2> SUFFICES ASSUME shown # <<>>, Log!Last(shown) >= first, Log!Poll \/ Log!PollBusy
               PROVE  logSince' >= logSince
    OBVIOUS
  <2>1. logSince' = logSeq
    BY <1>2, LogPollRests
  <2>2. logSince <= logSeq
    BY <1>2 DEF Log!LogInv, Log!PageNotAhead
  <2>3. logSince \in Nat /\ logSeq \in Nat
    <3>1. n \in Nat
      BY <1>2, LogNumbers DEF Log!LogInv, Log!TypeOK
    <3>2. QED
      BY <1>2, <3>1 DEF Log!LogInv, Log!TypeOK
  <2>4. QED
    BY <2>1, <2>2, <2>3
<1>3. Spec => Log!RestartKeepsLog
  BY <1>1, LogAlways, PTL DEF Log!RestartKeepsLog
<1>4. Spec => Log!CursorNotBack
  BY <1>2, LogAlways, PTL DEF Log!CursorNotBack
<1>5. QED
  BY <1>3, <1>4, InboxRestartKeeps DEF RestartsKeep

=============================================================================
