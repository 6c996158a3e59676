----------------------------- MODULE LogBuffer -----------------------------
(***************************************************************************)
(* The log of the ESP-IDF port (components/idf_logbuf): a ring of the last *)
(* lines, of which the page fetches those after the last it has seen, and  *)
(* a second ring in memory that survives a reset, from which the next boot *)
(* takes the log of the last session; after a crash that is saved to flash *)
(* later on.  The page is the poll of code/web_src/app.js.                 *)
(*                                                                         *)
(* Data abstraction: lines are numbered over all sessions, and a line      *)
(* takes one unit of the ring that survives.                               *)
(***************************************************************************)
EXTENDS Naturals, Sequences, SequencesExt

CONSTANTS
  RingSize,  \* LOG_RING_SIZE
  PrevSize,  \* PREV_RING_SIZE
  MaxLines,  \* bounds of the model: lines,
  MaxResets, \* resets,
  MaxShown   \* what a page keeps of the lines

LogAssumption == {RingSize, PrevSize, MaxLines, MaxResets, MaxShown} \subseteq Nat \ {0}

NoLine == 0
VARIABLES
  at,                \* where idf_log_line is, with s_log_mutex taken unless "idle"
  ring, next, count, \* s_lines, s_next, s_count
  seq, mirror,       \* s_seq, s_seq_mirror
  buf, head, used, check, \* s_prev_ring; check is what the checksum was made of
  prev,              \* s_prev_log
  flash,             \* the log in the smsdata partition
  toSave,            \* the task that saves it waits
  tried,             \* s_prev_flash_load_tried
  since, shown,      \* the page: logSince, logLines
  n,                 \* ghost: the number of the last line
  first,             \* ghost: the first line of this session
  gap,               \* ghost: lines passed the page by
  resets

ramlog == <<ring, next, count, seq, mirror>>
prevring == <<buf, head, used, check>>
saved == <<prev, flash, toSave, tried>>
page == <<since, shown, gap>>
vars == <<at, ramlog, prevring, saved, page, n, first, resets>>

Empty(size) == [i \in 0 .. size - 1 |-> NoLine]

Init ==
  /\ at = "idle"
  /\ ring = Empty(RingSize) /\ next = 0 /\ count = 0 /\ seq = 0 /\ mirror = 0
  /\ buf = Empty(PrevSize) /\ head = 0 /\ used = 0 /\ check = <<0, 0>>
  /\ prev = <<>> /\ flash = <<>> /\ toSave = FALSE /\ tried = FALSE
  /\ since = 0 /\ shown = <<>> /\ gap = FALSE
  /\ n = 0 /\ first = 1 /\ resets = 0

-----------------------------------------------------------------------------
(* idf_log_line.  The ring that survives gets the line first.              *)

Begin ==
  /\ at = "idle" /\ n < MaxLines
  /\ n' = n + 1 /\ at' = "data"
  /\ UNCHANGED <<ramlog, prevring, saved, page, first, resets>>

\* prev_ring_append: the data, then what describes it, one after the other.
WriteData ==
  /\ at = "data" /\ at' = "head"
  /\ buf' = [buf EXCEPT ![head] = n]
  /\ UNCHANGED <<ramlog, head, used, check, saved, page, n, first, resets>>
WriteHead ==
  /\ at = "head" /\ at' = "used"
  /\ head' = (head + 1) % PrevSize
  /\ UNCHANGED <<ramlog, buf, used, check, saved, page, n, first, resets>>
AtMostFull(u) == IF u < PrevSize THEN u + 1 ELSE PrevSize
WriteUsed ==
  /\ at = "used" /\ at' = "check"
  /\ used' = AtMostFull(used)
  /\ UNCHANGED <<ramlog, buf, head, check, saved, page, n, first, resets>>
WriteCheck ==
  /\ at = "check" /\ at' = "line"
  /\ check' = <<head, used>>
  /\ UNCHANGED <<ramlog, buf, head, used, saved, page, n, first, resets>>

AddLine ==
  /\ at = "line" /\ at' = "idle"
  /\ ring' = [ring EXCEPT ![next] = n]
  /\ next' = (next + 1) % RingSize
  /\ count' = IF count < RingSize THEN count + 1 ELSE count
  /\ seq' = seq + 1 /\ mirror' = seq + 1
  /\ UNCHANGED <<prevring, saved, page, n, first, resets>>

-----------------------------------------------------------------------------
(* A reset, and what the next boot finds.                                  *)

Valid == check = <<head, used>>   \* prev_ring_valid
Oldest == IF used = PrevSize THEN 1 ELSE 0   \* a line that is cut in half is left out
Start == (head + PrevSize - used) % PrevSize
Body == [i \in 1 .. used - Oldest |-> buf[(Start + Oldest + i - 1) % PrevSize]]

\* prev_log_capture.  A crash has the log saved later; without power it is gone.
Reset(kind) ==
  /\ resets < MaxResets /\ resets' = resets + 1
  /\ at' = "idle"
  /\ ring' = Empty(RingSize) /\ next' = 0 /\ count' = 0 /\ seq' = 0 /\ mirror' = 0
  /\ prev' = IF kind # "power" /\ Valid /\ used > 0 THEN Body ELSE <<>>
  /\ toSave' = (kind = "crash" /\ prev' # <<>>)
  /\ tried' = FALSE
  /\ buf' = Empty(PrevSize) /\ head' = 0 /\ used' = 0 /\ check' = <<0, 0>>
  /\ first' = n + 1
  /\ UNCHANGED <<flash, page, n>>

\* prev_log_deferred_task
Save ==
  /\ toSave /\ toSave' = FALSE
  /\ flash' = prev
  /\ UNCHANGED <<at, ramlog, prevring, prev, tried, page, n, first, resets>>

\* idf_log_prev_dump: without a log of this boot's the one in flash is shown.
ShowPrev ==
  /\ prev = <<>> /\ ~tried /\ tried' = TRUE
  /\ prev' = flash
  /\ UNCHANGED <<at, ramlog, prevring, flash, toSave, page, n, first, resets>>

-----------------------------------------------------------------------------
(* The page asks for what is new: idf_log_json_since.                      *)

OldestSeq == IF seq >= count THEN seq - count + 1 ELSE 1
KeepCursor == since   \* mutant
From == IF since > seq THEN 0 ELSE since
Fetched ==
  LET start == (next + RingSize - count) % RingSize
      all == [i \in 1 .. count |-> ring[(start + i - 1) % RingSize]]
  IN SubSeq(all, IF From < OldestSeq THEN 1 ELSE From - OldestSeq + 2, count)

Takes(answer, lines) ==
  /\ since' = answer
  /\ LET kept == (IF answer < since THEN <<>> ELSE shown) \o lines
     IN shown' = SubSeq(kept, IF Len(kept) > MaxShown THEN Len(kept) - MaxShown + 1 ELSE 1, Len(kept))

\* Lines passed by: overwritten before they were fetched, or the device was reset and
\* its counter has reached the page's again.
Missed == \/ From + 1 < OldestSeq
          \/ shown # <<>> /\ since <= seq /\ Last(shown) < first
Poll ==
  /\ at = "idle"
  /\ Takes(seq, Fetched)
  /\ gap' = ((gap /\ since <= seq) \/ Missed)
  /\ UNCHANGED <<at, ramlog, prevring, saved, n, first, resets>>

\* The lock is not free in time: the number alone, and the page goes on from there.
BusyAnswer == mirror
PollBusy ==
  /\ at # "idle"
  /\ Takes(BusyAnswer, <<>>)
  /\ gap' = (gap \/ since # BusyAnswer)
  /\ UNCHANGED <<at, ramlog, prevring, saved, n, first, resets>>

Reload ==
  /\ since' = 0 /\ shown' = <<>> /\ gap' = FALSE
  /\ UNCHANGED <<at, ramlog, prevring, saved, n, first, resets>>

Next ==
  \/ Begin \/ WriteData \/ WriteHead \/ WriteUsed \/ WriteCheck \/ AddLine
  \/ \E kind \in {"soft", "crash", "power"} : Reset(kind)
  \/ Save \/ ShowPrev \/ Poll \/ PollBusy \/ Reload
Spec == Init /\ [][Next]_vars

-----------------------------------------------------------------------------
TypeOK ==
  /\ at \in {"idle", "data", "head", "used", "check", "line"}
  /\ n \in 0 .. MaxLines /\ first \in 1 .. n + 1 /\ resets \in 0 .. MaxResets
  /\ ring \in [0 .. RingSize - 1 -> 0 .. n] /\ next \in 0 .. RingSize - 1 /\ count \in 0 .. RingSize
  /\ buf \in [0 .. PrevSize - 1 -> 0 .. n] /\ head \in 0 .. PrevSize - 1 /\ used \in 0 .. PrevSize
  /\ seq = (IF at = "idle" THEN n - first + 1 ELSE n - first) /\ mirror = seq
  /\ {prev, flash} \subseteq Seq(0 .. n)
  /\ since \in 0 .. n /\ shown \in Seq(1 .. n) /\ Len(shown) <= MaxShown
  /\ {toSave, tried, gap} \subseteq BOOLEAN

\* The lines a reset should leave: those of the session that are written, the last
\* PrevSize of them without the oldest of a full ring.
Written == IF at \in {"idle", "line"} THEN n ELSE n - 1
LastOfSession ==
  LET from == IF Written - first + 1 >= PrevSize THEN Written - PrevSize + 2 ELSE first
  IN [i \in 1 .. Written - from + 1 |-> from + i - 1]

\* A reset that leaves memory powered finds the lines of the session in order, at
\* whatever step of idf_log_line it struck, but for the steps between the ring's
\* description and its checksum (idf_log.cpp:82-101, 242-270).
RestartKeepsLog ==
  [][ \A kind \in {"soft", "crash"} :
        Reset(kind) /\ at \notin {"used", "check"} => prev' = LastOfSession ]_vars

\* The comment at idf_log.cpp:80-81: a crash inside an append costs the line it was
\* writing at most, never the whole ring.
CrashCostsOneLine ==
  [][ \A kind \in {"soft", "crash"} :
        Reset(kind) /\ LastOfSession # <<>> => prev' # <<>> ]_vars

\* What the page shows follows line by line, from the start of the session to its
\* cursor, as long as no line passed it by: none twice, none left out
\* (idf_log.cpp:359-399).
ShownInOrder ==
  ~gap => /\ \A i \in 1 .. Len(shown) - 1 : shown[i + 1] = shown[i] + 1
          /\ shown = <<>> => since = 0
          /\ shown # <<>> /\ Last(shown) >= first => Last(shown) = first + since - 1

\* No answer, the one without the lock included, takes the page's cursor back while the
\* session goes on, which the page would take for a reset and start over
\* (idf_log.cpp:28-30, 366-371).
CursorNotBack ==
  [][ shown # <<>> /\ Last(shown) >= first /\ (Poll \/ PollBusy) => since' >= since ]_vars

-----------------------------------------------------------------------------
(* What makes these inductive: how far back each ring reaches, at every    *)
(* step of idf_log_line.                                                   *)
Before(size, h, i) == (h + size - 1 - i) % size   \* the place of the i-th line before a head
RingHolds ==
  /\ count = (IF seq < RingSize THEN seq ELSE RingSize)
  /\ \A i \in 0 .. count - 1 : ring[Before(RingSize, next, i)] = first + seq - 1 - i
Described == IF at \in {"data", "head"} THEN n - 1 ELSE n
Counted == (IF at \in {"data", "head", "used"} THEN n ELSE n + 1) - first
PrevHolds ==
  /\ used = (IF Counted < PrevSize THEN Counted ELSE PrevSize)
  /\ at \notin {"used", "check"} => Valid
  /\ at = "head" => buf[head] = n
  /\ \A i \in 0 .. PrevSize - 1 :
       i <= Described - first /\ (at = "head" => i # PrevSize - 1)
         => buf[Before(PrevSize, head, i)] = Described - i
PageNotAhead == shown # <<>> /\ Last(shown) >= first => since <= seq
LogInv == TypeOK /\ seq \in Nat /\ RingHolds /\ PrevHolds /\ PageNotAhead /\ ShownInOrder
=============================================================================
