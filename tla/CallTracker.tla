---------------------------- MODULE CallTracker ----------------------------
(***************************************************************************)
(* Incoming calls (IncomingCallTracker of core/src/call.cpp, with its twin *)
(* in components/idf_sms).  While a call rings the modem repeats RING and, *)
(* if it knows the number, +CLIP; either line may be missing.  Lines with  *)
(* at most CALL_GAP_US between them are one call, to be told once: at its  *)
(* first +CLIP, or when nothing followed a RING for UNKNOWN_DELAY_US.      *)
(*                                                                         *)
(* Time is counted in ticks as far as the two delays tell it apart.        *)
(***************************************************************************)
EXTENDS Naturals

CONSTANTS
  Callers,    \* numbers
  Hidden,     \* no number
  Gap, Delay, \* CALL_GAP_US, UNKNOWN_DELAY_US
  MaxCalls    \* bound of the model

DelaysAssumption == Gap \in Nat /\ Delay \in Nat /\ Delay < Gap /\ Hidden \notin Callers

VARIABLES
  age,       \* now - window_us_; Gap + 1 is any longer time, or has_window_ is unset
  notified, saw, number, \* notified_, saw_ring_, number_
  ringing,   \* who is calling, in a set
  silence,   \* ghost: the time since the last line
  told,      \* ghost: how often the call at hand was told
  last,      \* ghost: the number told last
  since,     \* ghost: who has called since the last long silence
  calls

tracker == <<age, notified, saw, number>>
ghosts == <<silence, told, last, since>>
vars == <<tracker, ringing, ghosts, calls>>

Init ==
  /\ age = Gap + 1 /\ notified = FALSE /\ saw = FALSE /\ number = Hidden
  /\ ringing = {} /\ silence = Gap + 1 /\ told = 0 /\ last = Hidden /\ since = {}
  /\ calls = 0

-----------------------------------------------------------------------------
New == age > Gap
\* What is kept of the call that a line belongs to.
KeepsNumber == [notified |-> ~New /\ notified, saw |-> ~New /\ saw, number |-> number]   \* mutant
Kept == IF New THEN [notified |-> FALSE, saw |-> FALSE, number |-> Hidden]
               ELSE [notified |-> notified, saw |-> saw, number |-> number]
Window == 0

\* A line comes; ghosts: a long silence makes it another call's.
Line ==
  /\ age' = Window
  /\ silence' = 0

Notify(n, before) == told' = before + 1 /\ last' = n
ToldBefore == IF silence > Gap THEN 0 ELSE told

Ring ==
  /\ ringing # {}
  /\ Line
  /\ notified' = Kept.notified /\ saw' = TRUE /\ number' = Kept.number
  /\ told' = ToldBefore
  /\ since' = (IF silence > Gap THEN {} ELSE since) \cup ringing
  /\ UNCHANGED <<ringing, last, calls>>

Clip ==
  /\ ringing # {}
  /\ Line
  /\ \E n \in ringing :
       LET shown == IF n # Hidden THEN n ELSE Kept.number
       IN /\ number' = shown
          /\ IF Kept.notified THEN told' = ToldBefore /\ UNCHANGED last
                              ELSE Notify(shown, ToldBefore)
  /\ notified' = TRUE /\ saw' = Kept.saw
  /\ since' = (IF silence > Gap THEN {} ELSE since) \cup ringing
  /\ UNCHANGED <<ringing, calls>>

\* expire, called from the loop.
Overdue == saw /\ age > Delay   \* mutant
Expires == saw /\ ~notified /\ age > Delay
Expire ==
  /\ Expires
  /\ notified' = TRUE
  /\ Notify(Hidden, told)
  /\ UNCHANGED <<age, saw, number, ringing, silence, since, calls>>

Call(n) ==
  /\ ringing = {} /\ calls < MaxCalls /\ calls' = calls + 1
  /\ ringing' = {n}
  /\ UNCHANGED <<tracker, ghosts>>
HangUp ==
  /\ ringing # {} /\ ringing' = {}
  /\ UNCHANGED <<tracker, ghosts, calls>>

Later(t) == IF t > Gap THEN t ELSE t + 1
\* The lines of a call follow one another within the gap; the loop that calls expire
\* goes round many times in a tick.
Tick ==
  /\ silence <= Gap /\ (ringing # {} => silence < Gap)
  /\ ~(saw /\ ~notified /\ age > Delay)
  /\ age' = Later(age) /\ silence' = Later(silence)
  /\ UNCHANGED <<notified, saw, number, ringing, told, last, since, calls>>

Next == Ring \/ Clip \/ Expire \/ HangUp \/ Tick \/ \E n \in Callers \cup {Hidden} : Call(n)

Spec == Init /\ [][Next]_vars

-----------------------------------------------------------------------------
TypeOK ==
  /\ {age, silence} \subseteq 0 .. Gap + 1
  /\ {notified, saw} \subseteq BOOLEAN
  /\ {number, last} \subseteq Callers \cup {Hidden}

\* A call is told once at most, however long it rings (call.cpp:24-37).
ToldOnce == told <= 1

\* The number told is of somebody who calls, not of an earlier call (call.cpp:48-55).
ToldWho == [][told' = told + 1 => last' \in since' \cup {Hidden}]_vars

\* Once a call is over it has been told, with or without a number (call.cpp:40-46).
EveryCallTold == since # {} /\ silence > Gap => told > 0

-----------------------------------------------------------------------------
\* What makes these inductive: the window and the silence are the same time, a call
\* is told as soon as it is noted as told, a line leaves a trace, and the number kept
\* is of who has called since.
CallsInv ==
  /\ TypeOK /\ ToldOnce /\ EveryCallTold
  /\ silence = age /\ told = IF notified THEN 1 ELSE 0
  /\ since # {} => saw \/ notified
  /\ number \in since \cup {Hidden}
  /\ ringing \cup since \subseteq Callers \cup {Hidden}
=============================================================================
