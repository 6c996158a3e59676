---------------------------- MODULE EsimSession ----------------------------
(***************************************************************************)
(* The eSIM operations of the ESP-IDF port (components/idf_esim).  An      *)
(* operation makes one or more requests of the card; each opens a logical  *)
(* channel with AT commands, sends its request, collects the answer in     *)
(* parts and closes the channel on every way out.  A profile is named by   *)
(* its ICCID or by an alias, which a list of the card has to resolve.  The *)
(* EID is read once and kept until the modem task has noticed another      *)
(* card.  Operations follow one another (the flags of idf_web).            *)
(*                                                                         *)
(* Data abstraction: an ICCID or AID is the profile itself; a nickname, a  *)
(* profile name or an operator's name is an alias; an answer is whether it *)
(* is of the form that is expected.  A request fits one block.             *)
(***************************************************************************)
EXTENDS Naturals, FiniteSets, FiniteSetsExt

CONSTANTS
  Cards,       \* the cards that may be in the device
  Content,     \* the profiles of each card, numbered in the order of its list
  Aliases, Alias, \* the alias of each profile
  None,
  Swept,       \* the channels an open that failed closes: 1..3
  OutOfRange,  \* a channel the modem may return and the code does not support
  ChainMax,    \* GET_RESPONSE_CHAIN_MAX
  MaxTrouble,  \* bounds of the model: commands and answers that are lost,
  MaxSwaps,    \* cards put in,
  MaxOps       \* operations

Profiles == UNION {Content[c] : c \in Cards}
EsimAssumption ==
  /\ Content \in [Cards -> SUBSET Nat] /\ (\A c \in Cards : IsFiniteSet(Content[c]))
  /\ Alias \in [Profiles -> Aliases]
  /\ \A c, d \in Cards : c # d => Content[c] \cap Content[d] = {}
  /\ Aliases \cap Profiles = {} /\ None \notin Profiles \cup Cards
  /\ Swept \subseteq Nat \ {0} /\ Swept # {} /\ OutOfRange \notin Swept
  /\ ChainMax \in Nat

VARIABLES
  card, there, on,  \* the card in the device; its profiles and the enabled one, per card
  open,             \* the logical channels open at the card
  op,               \* the operation: [kind, id, target]
  ask,              \* the request under way: [what, refresh]
  pc, channel, parts, answer, \* of its session
  read,             \* what it has read: [card, there, on]
  result,           \* of the last operation
  eid, stale,       \* s_eid_cache, s_eid_cache_stale
  unnoticed,        \* the modem task has yet to notice the card
  lost,             \* ghost: channels whose open or close was lost
  swapped,          \* ghost: a card was put in during this operation
  trouble, ops, swaps

cards == <<card, there, on>>
session == <<pc, channel, parts, answer>>
eids == <<eid, stale, unnoticed>>
bounds == <<trouble, ops, swaps>>
vars == <<cards, open, op, ask, session, read, result, eids, lost, swapped, bounds>>

Changes == {"enable", "disable", "delete", "nickname"}
Kinds == Changes \cup {"switch", "list", "eid"}
NoOp == [kind |-> "none", id |-> None, target |-> None]
NoAsk == [what |-> "none", refresh |-> FALSE]
NoRead == [card |-> None, there |-> {}, on |-> None]

Init ==
  /\ card \in Cards /\ there = Content /\ on \in [Cards -> Profiles \cup {None}]
  /\ \A c \in Cards : on[c] \in Content[c] \cup {None}
  /\ open = {}
  /\ op = NoOp /\ ask = NoAsk
  /\ pc = "idle" /\ channel = 0 /\ parts = 0 /\ answer = "none" /\ read = NoRead
  /\ result = "none"
  /\ eid = None /\ stale = FALSE /\ unnoticed = FALSE
  /\ lost = {} /\ swapped = FALSE
  /\ trouble = 0 /\ ops = 0 /\ swaps = 0

Trouble == trouble < MaxTrouble /\ trouble' = trouble + 1

-----------------------------------------------------------------------------
(* What an operation asks for.                                             *)

Direct(id) == id \in Profiles
Asks(what, refresh) == ask' = [what |-> what, refresh |-> refresh] /\ pc' = "open"
Ends(how) == result' = how /\ ask' = NoAsk /\ op' = NoOp /\ pc' = "idle"
Forgets == parts' = 0 /\ answer' = "none" /\ read' = NoRead

\* read_eid: what the hook asks for is done before the cache is used.
EidKept == eid # None /\ ~stale
UseEid == stale' = FALSE /\ eid' = (IF stale THEN None ELSE eid)

Start(kind, id) ==
  /\ pc = "idle" /\ ops < MaxOps /\ ops' = ops + 1
  /\ (kind \in {"list", "eid"}) = (id = None)
  /\ op' = [kind |-> kind, id |-> id, target |-> IF Direct(id) THEN id ELSE None]
  /\ swapped' = FALSE /\ result' = "none"
  /\ CASE kind = "eid" /\ EidKept -> pc' = "known" /\ ask' = NoAsk /\ UNCHANGED <<eid, stale>>
       [] kind = "list" /\ EidKept -> Asks("list", FALSE) /\ UNCHANGED <<eid, stale>>
       [] kind \in {"eid", "list"} /\ ~EidKept -> Asks("eid", FALSE) /\ UseEid
       [] kind = "switch" -> Asks("list", FALSE) /\ UNCHANGED <<eid, stale>>
       [] OTHER -> /\ IF Direct(id) THEN Asks(kind, kind \in {"enable", "disable"})
                                    ELSE Asks("list", FALSE)
                   /\ UNCHANGED <<eid, stale>>
  /\ UNCHANGED <<cards, open, channel, parts, answer, read, unnoticed, lost, trouble, swaps>>

Known ==
  /\ pc = "known" /\ Ends("ok")
  /\ UNCHANGED <<cards, open, channel, parts, answer, read, eids, lost, swapped, bounds>>

-----------------------------------------------------------------------------
(* One request: EsimApduSession.                                           *)

\* The card has a free channel and the modem returns its number.  One that is not
\* supported is closed, and nothing asks whether it was.
Supported(c) == c # OutOfRange
Opens(c) ==
  /\ c \in (Swept \cup {OutOfRange}) \ open
  /\ \/ /\ Supported(c) /\ channel' = c /\ pc' = "send"
        /\ open' = open \cup {c} /\ lost' = lost \ {c} /\ UNCHANGED trouble
     \/ /\ ~Supported(c) /\ channel' = 0 /\ pc' = "failed"
        /\ \/ UNCHANGED <<open, lost, trouble>>
           \/ Trouble /\ open' = open \cup {c} /\ lost' = lost \cup {c}

\* No channel is free, the command fails, or its answer is lost.
NotOpened ==
  \/ Swept \subseteq open /\ UNCHANGED <<open, lost, trouble>>
  \/ Trouble /\ UNCHANGED <<open, lost>>
  \/ Trouble /\ \E c \in Swept \ open : open' = open \cup {c} /\ lost' = lost \cup {c}

Open ==
  /\ pc = "open"
  /\ \/ \E c \in Swept \cup {OutOfRange} : Opens(c)
     \/ NotOpened /\ pc' = "sweep" /\ UNCHANGED channel
  /\ parts' = 0 /\ answer' = "none"
  /\ UNCHANGED <<cards, op, ask, read, result, eids, swapped, ops, swaps>>

\* Channels left over are closed; nothing asks whether they were.
Sweep ==
  /\ pc = "sweep" /\ pc' = "again"
  /\ \/ open' = open \ Swept /\ UNCHANGED trouble
     \/ Trouble /\ \E kept \in SUBSET (open \cap Swept) : open' = (open \ Swept) \cup kept
  /\ lost' = lost \cap open'
  /\ UNCHANGED <<cards, op, ask, channel, parts, answer, read, result, eids, swapped, ops, swaps>>

\* ... then once more.
OpenAgain ==
  /\ pc = "again"
  /\ \/ \E c \in Swept \cup {OutOfRange} : Opens(c)
     \/ NotOpened /\ pc' = "failed" /\ UNCHANGED channel
  /\ UNCHANGED <<cards, op, ask, parts, answer, read, result, eids, swapped, ops, swaps>>

\* The card carries out the request, if it can.  Enabling or disabling with a refresh
\* resets the card, which may find itself busy first.
Able ==
  CASE ask.what = "enable"   -> op.target \in there[card] /\ on[card] # op.target
    [] ask.what = "disable"  -> op.target \in there[card] /\ on[card] = op.target
    [] ask.what = "delete"   -> op.target \in there[card] /\ on[card] # op.target
    [] ask.what = "nickname" -> op.target \in there[card]
    [] OTHER -> TRUE
Perform ==
  /\ on' = [on EXCEPT ![card] = CASE ask.what = "enable" -> op.target
                                  [] ask.what = "disable" -> None
                                  [] OTHER -> @]
  /\ there' = [there EXCEPT ![card] = IF ask.what = "delete" THEN @ \ {op.target} ELSE @]
  /\ open' = IF ask.refresh THEN {} ELSE open
Send ==
  /\ pc = "send"
  /\ \/ /\ channel \in open /\ Able /\ Perform /\ UNCHANGED card
        /\ \/ answer' = "ok" /\ pc' = "more" /\ UNCHANGED trouble
           \/ Trouble /\ answer' = "failed" /\ pc' = "close"
     \/ /\ channel \in open /\ ~Able /\ answer' = "refused" /\ pc' = "more"
        /\ UNCHANGED <<cards, open, trouble>>
     \/ /\ channel \in open /\ ask.refresh /\ answer' = "busy" /\ pc' = "more"
        /\ UNCHANGED <<cards, open, trouble>>
     \/ /\ channel \notin open \/ ask.what = "list"   \* or a card that wants no tag list
        /\ answer' = "failed" /\ pc' = "close"
        /\ UNCHANGED <<cards, open, trouble>>
  /\ read' = IF ask.what \in {"eid", "list", "plain"}
             THEN [card |-> card, there |-> there[card], on |-> on[card]] ELSE read
  /\ UNCHANGED <<op, ask, channel, parts, result, eids, lost, swapped, ops, swaps>>

\* collect_response: the card may have more to tell, up to a limit.
NeverCounts(n) == n   \* mutant
Counts(n) == n + 1
More ==
  /\ pc = "more"
  /\ \/ parts < ChainMax /\ parts' = Counts(parts) /\ pc' = "fetch" /\ UNCHANGED answer
     \/ parts = ChainMax /\ answer' = "failed" /\ pc' = "close" /\ UNCHANGED parts
     \/ pc' = "close" /\ UNCHANGED <<parts, answer>>
  /\ UNCHANGED <<cards, open, op, ask, channel, read, result, eids, lost, swapped, bounds>>

\* GET RESPONSE
Fetch ==
  /\ pc = "fetch"
  /\ \/ /\ channel \in open \/ (ask.refresh /\ ~swapped)
        /\ pc' = "more" /\ UNCHANGED <<answer, trouble>>
     \/ Trouble /\ answer' = "failed" /\ pc' = "close"
     \/ channel \notin open /\ answer' = "failed" /\ pc' = "close" /\ UNCHANGED trouble
  /\ UNCHANGED <<cards, open, op, ask, channel, parts, read, result, eids, lost, swapped, ops, swaps>>

\* ~EsimApduSession, on every way out.
ClosedIfOk == IF answer = "failed" THEN open ELSE open \ {channel}   \* mutant
Closed == open \ {channel}
Close ==
  /\ pc = "close" /\ pc' = "next"
  /\ \/ open' = Closed /\ lost' = lost \ {channel} /\ UNCHANGED trouble
     \/ Trouble /\ lost' = lost \cup {channel} /\ UNCHANGED open
  /\ channel' = 0
  /\ UNCHANGED <<cards, op, ask, parts, answer, read, result, eids, swapped, ops, swaps>>

-----------------------------------------------------------------------------
(* What follows from the answer.                                           *)

OpenFailed ==
  /\ pc = "failed" /\ pc' = "next" /\ answer' = "failed"
  /\ UNCHANGED <<cards, open, op, ask, channel, parts, read, result, eids, lost, swapped, bounds>>

\* read_eid, and the list after it, whether the EID was read or not.
Store == eid' = read.card /\ UNCHANGED stale
AfterEid ==
  /\ pc = "next" /\ ask.what = "eid"
  /\ IF answer = "ok" THEN Store ELSE UNCHANGED <<eid, stale>>
  /\ IF op.kind = "list" THEN Asks("list", FALSE) /\ UNCHANGED <<result, op>>
                         ELSE Ends(IF answer = "ok" THEN "ok" ELSE "failed")
  /\ Forgets
  /\ UNCHANGED <<cards, open, channel, unnoticed, lost, swapped, bounds>>

\* read_profiles: a second request without the list of tags.
AskPlain ==
  /\ pc = "next" /\ ask.what = "list" /\ answer # "ok"
  /\ Asks("plain", FALSE)
  /\ UNCHANGED <<cards, open, op, channel, parts, answer, read, result, eids, lost, swapped, bounds>>

Matching == {p \in read.there : p = op.id \/ Alias[p] = op.id}
\* resolve_identifier: one profile, or none.
FirstHit == Matching # {}   \* mutant
OneHit == Cardinality(Matching) = 1
Resolve ==
  IF OneHit THEN LET p == Min(Matching) IN
                 op' = [op EXCEPT !.target = p] /\ UNCHANGED result
                 /\ Asks(op.kind, op.kind \in {"enable", "disable"})
            ELSE Ends("failed")
\* idf_esim_switch_profile: the first that matches; an ICCID that is not listed is tried.
Switch ==
  CASE Matching # {} /\ Min(Matching) = read.on -> Ends("ok")
    [] Matching # {} /\ Min(Matching) # read.on ->
         op' = [op EXCEPT !.target = Min(Matching)] /\ Asks("enable", TRUE) /\ UNCHANGED result
    [] Matching = {} /\ Direct(op.id) -> Asks("enable", TRUE) /\ UNCHANGED <<op, result>>
    [] OTHER -> Ends("failed")
AfterList ==
  /\ pc = "next" /\ ask.what \in {"list", "plain"}
  /\ ask.what = "plain" \/ answer = "ok"
  /\ CASE answer # "ok" -> Ends("failed")
       [] answer = "ok" /\ op.kind = "list" -> Ends("ok")
       [] answer = "ok" /\ op.kind = "switch" -> Switch
       [] OTHER -> Resolve
  /\ Forgets
  /\ UNCHANGED <<cards, open, channel, eids, lost, swapped, bounds>>

\* profile_operation: a busy card is asked once more without a refresh.
Done == answer = "ok"
AfterChange ==
  /\ pc = "next" /\ ask.what \in Changes
  /\ IF ~Done /\ answer = "busy" /\ ask.refresh
     THEN Asks(ask.what, FALSE) /\ UNCHANGED <<op, result>>
     ELSE Ends(IF Done THEN "ok" ELSE "failed")
  /\ Forgets
  /\ UNCHANGED <<cards, open, channel, eids, lost, swapped, bounds>>

-----------------------------------------------------------------------------
\* Another card: its channels are closed, and the modem task notices it later.
Swap ==
  /\ swaps < MaxSwaps /\ swaps' = swaps + 1
  /\ card' \in Cards \ {card}
  /\ open' = {} /\ unnoticed' = TRUE /\ swapped' = TRUE
  /\ UNCHANGED <<there, on, op, ask, session, read, result, eid, stale, lost, trouble, ops>>

\* on_sim_identity_changed
Notice ==
  /\ unnoticed /\ unnoticed' = FALSE
  /\ stale' = TRUE
  /\ UNCHANGED <<cards, open, op, ask, session, read, result, eid, lost, swapped, bounds>>

Work == \/ Known \/ Open \/ Sweep \/ OpenAgain \/ Send \/ More \/ Fetch \/ Close \/ OpenFailed
        \/ AfterEid \/ AskPlain \/ AfterList \/ AfterChange
Next ==
  \/ \E kind \in Kinds, id \in Profiles \cup Aliases \cup {None} : Start(kind, id)
  \/ Work \/ Swap \/ Notice

Spec == Init /\ [][Next]_vars
\* Every AT command has a time-out.
FairSpec == Spec /\ WF_vars(Work)

-----------------------------------------------------------------------------
TypeOK ==
  /\ card \in Cards /\ on \in [Cards -> Profiles \cup {None}] /\ there \in [Cards -> SUBSET Profiles]
  /\ open \subseteq Swept \cup {OutOfRange} /\ channel \in Swept \cup {0} /\ parts \in 0 .. ChainMax
  /\ op.kind \in Kinds \cup {"none"} /\ result \in {"none", "ok", "failed"}
  /\ eid \in Cards \cup {None} /\ {stale, unnoticed, swapped} \subseteq BOOLEAN

\* Between operations no channel is open, whichever way the last one ended, but for
\* those whose opening or closing the modem did not confirm (idf_esim.cpp:405-459).
ChannelsReturned == pc = "idle" => open \subseteq lost

\* A profile named by an alias is enabled, disabled or deleted only if no other
\* profile of the card goes by it; not so for a switch (idf_esim.cpp:796-832, 1099).
NeverGuesses ==
  [][ on' # on \/ there' # there =>
        \/ op.kind = "switch" \/ Direct(op.id)
        \/ {p \in there[card] : Alias[p] = op.id} = {op.target} ]_vars

\* What is reported as done was done, to a profile of that name, by the card: it is the
\* enabled one, or is not, or is gone; whatever answers were lost and requests repeated
\* on the way (idf_esim.cpp:884-944, 1099-1141).
Named(p) == p # None /\ (p = op.id \/ Alias[p] = op.id)
OkMeansDone ==
  [][ pc # "idle" /\ result' = "ok" /\ ~swapped' =>
        /\ op.kind \in {"enable", "switch"} => Named(on[card])
        /\ op.kind = "disable" => Named(op.target) /\ on[card] # op.target
        /\ op.kind = "delete" => Named(op.target) /\ op.target \notin there[card] ]_vars

\* The EID that is kept is the card's, once the modem task has noticed the card
\* (idf_esim.cpp:682-718).
EidCurrent == eid # None /\ ~stale /\ ~unnoticed => eid = card

\* Every operation ends, whatever the card answers (idf_esim.cpp:527-561).
OperationEnds == []<>(pc = "idle")

-----------------------------------------------------------------------------
(* What makes these inductive.                                             *)

Operation == [kind : Kinds \cup {"none"}, id : Profiles \cup Aliases \cup {None},
              target : Profiles \cup {None}]
Shaped ==
  /\ TypeOK /\ op \in Operation /\ trouble \in Nat
  /\ \A c \in Cards : there[c] \subseteq Content[c]

\* A channel that is open is the session's or a lost one.
ChannelsKnown ==
  open \subseteq lost \cup (IF pc \in {"send", "more", "fetch", "close"} THEN {channel} ELSE {})

\* An answer is of the card it was read from, and of what that card has.
AnswersTrue ==
  /\ pc \in {"idle", "known", "open", "sweep", "again", "send", "failed"} => answer \notin {"ok", "busy"}
  /\ answer = "busy" => ask.what \in Changes
  /\ answer = "ok" /\ ask.what \in {"eid", "list", "plain"} =>
       /\ read.card \in Cards /\ read.there = there[read.card] /\ read.on = on[read.card]
       /\ read.card # card => (unnoticed \/ stale) /\ swapped
  /\ answer = "ok" /\ ask.what \in Changes /\ ~swapped =>
       /\ op.target # None
       /\ ask.what = "enable" => on[card] = op.target
       /\ ask.what = "disable" => on[card] # op.target
       /\ ask.what = "delete" => op.target \notin there[card]

\* What is asked for is what the operation is for.
AskedFor ==
  /\ pc = "idle" \/ result = "none"
  /\ pc = "known" => op.kind = "eid"
  /\ pc # "idle" /\ ask.what = "eid" => op.kind \in {"eid", "list"}
  /\ pc # "idle" /\ ask.what \in Changes =>
       ask.what = op.kind \/ (ask.what = "enable" /\ op.kind = "switch")
  /\ ask.what \in Changes \/ ask.refresh = FALSE

\* A profile that was resolved is the one that was named, and the only one.
TargetNamed ==
  /\ op.target # None => op.target = op.id \/ Alias[op.target] = op.id
  /\ pc # "idle" /\ ask.what \in {"list", "plain"} /\ op.kind \in Changes => op.target = None
TargetAlone ==
  op.kind \in Changes /\ ~Direct(op.id) /\ op.target # None
      /\ (pc \in {"open", "sweep", "again", "send"} \/ answer = "busy")
    => \E c \in Cards : {p \in there[c] : Alias[p] = op.id} = {op.target}

EsimInv ==
  Shaped /\ EidCurrent /\ ChannelsKnown /\ AnswersTrue /\ AskedFor /\ TargetNamed /\ TargetAlone
=============================================================================
