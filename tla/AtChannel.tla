----------------------------- MODULE AtChannel -----------------------------
(***************************************************************************)
(* The AT channel of the ESP-IDF port's modem (components/idf_modem): one  *)
(* mutex, one UART.  Commands of any task, message submissions and a whole *)
(* cellular download read everything the modem sends while they hold the   *)
(* mutex.  What announces a message or a call must reach the buffer that   *)
(* the SMS task takes; the modem task puts there what came while nobody    *)
(* held the mutex.                                                         *)
(*                                                                         *)
(* Data abstraction: what the modem sends is answers and announcements.    *)
(* Which command an answer belongs to is left out.  An announcement is two *)
(* pieces, its head and its rest: a read may end between the two, in the   *)
(* middle of a line or between the lines of a +CMT and its PDU.  Sizes are *)
(* counted in pieces.  A line cut short is taken to run into the next one. *)
(* The mutex is waited for without a time limit, and the lock of the       *)
(* buffer is taken in time.                                                *)
(***************************************************************************)
EXTENDS Naturals, Sequences, SequencesExt

CONSTANTS
  WireSize,      \* UART_RX_BUF
  ResponseSize,  \* MAX_RESPONSE, max_capture
  BufferSize,    \* URC_BUFFER_MAX
  MaxAnnounced,  \* bound of the model: announcements
  MaxCommands    \* bound of the model: times the mutex is taken

ASSUME SizesPositive == {WireSize, ResponseSize, BufferSize} \subseteq Nat \ {0}
ASSUME BoundIsNat == MaxAnnounced \in Nat

\* What the modem answers: the end of a command, an error, the prompt for a
\* PDU, the token a command waits for, the last content of a download.
Answers == {"OK", "ERROR", ">", "token", "content"}

\* A line or piece, and how many pieces the network had announced with it.
Piece(k) == <<"piece", k>>
IsPiece(l) == l[1] = "piece"
HeadOf(n) == Piece(2 * n - 1)
RestOf(n) == Piece(2 * n)
IsHead(l) == IsPiece(l) /\ l[2] % 2 = 1
Of(n) == {HeadOf(n), RestOf(n)}

\* The operations on the channel and what ends them, besides an error.
Operations == {"at", "until", "prompt", "pdu", "locked", "download"}
End == [at |-> "OK", until |-> "token", prompt |-> ">", pdu |-> "OK", locked |-> "OK",
        download |-> "content"]

VARIABLES
  announced, \* announcements the network has made
  named,     \* those whose head alone says what they are: "+CMTI:" and the like
  wire,      \* received by the UART and not read
  op,        \* the operation that holds the mutex; "none", "between" two of a download
  job,       \* the next stage of the download, "none" if there is none
  retried,   \* the download is tried over http after https
  owed,      \* operations the modem has still to answer
  response,  \* what the operation has read
  urc,       \* s_urc_buffer
  carry,     \* s_urc_carry: the line the SMS task has not seen the end of
  taken,     \* ghost: the pieces the SMS task took
  told,      \* the announcements it read whole, each on a line of its own
  joined,    \* ghost: those it read on one line with a line cut short
  lost,      \* ghost: pieces dropped by a full buffer or with the end of a download
  cut,       \* ghost: pieces read with nothing that says what they are
  commands

sms == <<carry, taken, told, joined>>
download == <<job, retried>>
vars == <<announced, named, wire, op, download, owed, response, urc, sms, lost, cut, commands>>

Init ==
  /\ announced = 0 /\ named = {} /\ wire = <<>>
  /\ op = "none" /\ job = "none" /\ retried = FALSE /\ owed = {} /\ response = <<>>
  /\ urc = <<>> /\ carry = <<>> /\ taken = {} /\ told = {} /\ joined = {}
  /\ lost = {} /\ cut = {} /\ commands = 0

-----------------------------------------------------------------------------
(* The buffers.                                                            *)

Pieces(s) == {l \in ToSet(s) : IsPiece(l)}

\* The first pieces that fit (send_at, send_at_locked), or the last (append_capped).
KeepFirst(s, size) == IF Len(s) <= size THEN s ELSE SubSeq(s, 1, size)
KeepLast(s, size) == IF Len(s) <= size THEN s ELSE SubSeq(s, Len(s) - size + 1, Len(s))
Room(s) == IF op \in {"at", "locked"} THEN KeepFirst(s, ResponseSize) ELSE KeepLast(s, ResponseSize)

\* Without what comes before the first end of a line, unless nothing follows it.
LineEnd(s) == Cardinality({i \in DOMAIN s : \A j \in 1..i : IsHead(s[j])}) + 1
FromLineStart(s) == IF LineEnd(s) < Len(s) THEN SubSeq(s, LineEnd(s) + 1, Len(s)) ELSE s

\* append_urc_text: the oldest text makes room, up to the start of a line.
PrependUrcText(s) == KeepLast(s \o urc, BufferSize)   \* mutant
AppendUrcText(s) ==
  IF Len(s) >= BufferSize THEN FromLineStart(KeepLast(s, BufferSize))
  ELSE IF Len(urc) + Len(s) > BufferSize THEN FromLineStart(KeepLast(urc, BufferSize - Len(s))) \o s
  ELSE urc \o s

\* preserve_sms_urc_from_response: all of a response that names an announcement.
NamedAt(s, i) ==
  \E n \in 1..announced :
    s[i] = HeadOf(n) /\ (n \in named \/ (i < Len(s) /\ s[i + 1] = RestOf(n)))
Names(s) == \E i \in DOMAIN s : NamedAt(s, i)
PreserveNone(s) == <<>>   \* mutant
Preserve(s) == IF Names(s) THEN s ELSE <<>>

\* Some of what the UART holds.
Chunks == {SubSeq(wire, 1, n) : n \in 1..Len(wire)}
Unread(chunk) == SubSeq(wire, Len(chunk) + 1, Len(wire))

\* The pieces a full buffer costs.
Dropped(s, kept) == Pieces(s) \ Pieces(kept)
Overflow(s) == IF Len(urc) + Len(s) < BufferSize THEN {} ELSE Dropped(urc \o s, AppendUrcText(s))

-----------------------------------------------------------------------------
(* Taking and leaving the channel.                                         *)

\* capture_pending_uart_locked: what came before is kept first, until nothing
\* comes for 40 ms.
KeepPending(chunk) == urc' = AppendUrcText(chunk) /\ lost' = lost \cup Overflow(chunk)
Capture(chunk) == wire' = Unread(chunk) /\ KeepPending(chunk) /\ UNCHANGED cut
CaptureSome == \E chunk \in Chunks : Capture(chunk)

Begin(kind) ==
  /\ op' = kind /\ owed' = owed \cup {kind} /\ response' = <<>>
  /\ CaptureSome \/ UNCHANGED <<wire, urc, lost, cut>>

\* idf_modem_send_at, idf_modem_send_at_until, idf_modem_send_pdu.
TakeChannel ==
  /\ op = "none" /\ commands < MaxCommands /\ commands' = commands + 1
  /\ \E kind \in {"at", "until", "prompt"} : Begin(kind)
  /\ UNCHANGED <<announced, named, download, sms>>

\* poll_unsolicited_uart: the modem task, when the mutex is free.
PollUnsolicited ==
  /\ op = "none" /\ CaptureSome
  /\ UNCHANGED <<announced, named, op, download, owed, response, sms, commands>>

\* idf_modem_cellular_http_get keeps the mutex from its first command on.
StartDownload ==
  /\ op = "none" /\ commands < MaxCommands /\ commands' = commands + 1
  /\ job' = "open" /\ retried' = FALSE
  /\ Begin("locked")
  /\ UNCHANGED <<announced, named, sms>>

NextCommand ==
  /\ op = "between" /\ job \in {"create", "request", "close"}
  /\ Begin("locked")
  /\ UNCHANGED <<announced, named, download, sms, commands>>

NextFetch ==
  /\ op = "between" /\ job = "fetch"
  /\ op' = "download" /\ owed' = owed \cup {op'} /\ response' = <<>>
  /\ UNCHANGED <<announced, named, wire, download, urc, sms, lost, cut, commands>>

\* The connection stays open if the settings want it.
KeepOpen ==
  /\ op = "between" /\ job = "close"
  /\ op' = "none" /\ job' = "none"
  /\ UNCHANGED <<announced, named, wire, retried, owed, response, urc, sms, lost, cut, commands>>

\* What follows a stage that went well or failed; a refused TLS handshake is
\* tried once more over http.
After(ok) ==
  CASE job = "open" -> {IF ok THEN "create" ELSE "close"}
    [] job = "create" -> {IF ok THEN "request" ELSE "close"}
    [] job = "request" -> {IF ok THEN "fetch" ELSE "close"}
    [] job = "fetch" -> {"close"} \cup (IF ok \/ retried THEN {} ELSE {"create"})
    [] OTHER -> {"none"}

Leave(ok) ==
  /\ response' = <<>> /\ UNCHANGED owed
  /\ job' \in After(ok)
  /\ retried' = (retried \/ (job = "fetch" /\ job' = "create"))
  /\ op' = (IF job' = "none" THEN "none" ELSE "between")

-----------------------------------------------------------------------------
(* Reading.                                                                *)

\* The end of the answer is looked for in what is read, or in what there was room for.
Saying(chunk, what) ==
  LET seen == IF op = "locked" THEN Room(response \o chunk) ELSE chunk
  IN \E l \in ToSet(seen) : l[1] = what
Ends(chunk) == Saying(chunk, End[op]) \/ Saying(chunk, "ERROR")
Reading == op \in Operations \ {"download"}

Gather(chunk) ==
  /\ wire' = Unread(chunk)
  /\ response' = Room(response \o chunk)
  /\ lost' = lost \cup Dropped(response \o chunk, response')
  /\ UNCHANGED cut

ReadOn ==
  /\ Reading
  /\ \E chunk \in Chunks : ~Ends(chunk) /\ Gather(chunk)
  /\ UNCHANGED <<announced, named, op, download, owed, urc, sms, commands>>

\* The prompt came: the PDU is sent, and its answer is read into the same response.
SubmitPdu ==
  /\ op = "prompt"
  /\ \E chunk \in Chunks : Saying(chunk, ">") /\ Gather(chunk)
  /\ op' = "pdu" /\ owed' = owed \cup {op'}
  /\ UNCHANGED <<announced, named, download, urc, sms, commands>>

\* Of all that was read, what had room goes to the buffer if it names an announcement.
Keep(all) ==
  LET kept == Preserve(Room(all)) IN
  /\ urc' = AppendUrcText(kept)
  /\ lost' = lost \cup Dropped(all, Room(all)) \cup Overflow(kept)
  /\ cut' = cut \cup (IF Names(Room(all)) THEN {} ELSE Pieces(Room(all)))

Finish ==
  /\ Reading
  /\ \E chunk \in Chunks :
       /\ Ends(chunk) /\ (op = "prompt" => ~Saying(chunk, ">"))
       /\ wire' = Unread(chunk)
       /\ Keep(response \o chunk)
       /\ Leave(~Saying(chunk, "ERROR"))
  /\ UNCHANGED <<announced, named, sms, commands>>

\* The deadline of the command passes, whatever has been read of an answer or a line.
TimeOut ==
  /\ Reading
  /\ Keep(response)
  /\ Leave(FALSE)
  /\ UNCHANGED <<announced, named, wire, sms, commands>>

\* wait_mhttp_download_locked: lines that begin with the name of an announcement are
\* passed on, one by one ...
IsLine(chunk) == ~IsHead(Last(chunk)) /\ \A i \in 1..(Len(chunk) - 1) : IsHead(chunk[i])
FetchLine ==
  /\ op = "download"
  /\ \E line \in Chunks :
       /\ IsLine(line) /\ line[1][1] \notin {"content", "ERROR"}
       /\ wire' = Unread(line)
       /\ IF NamedAt(line, 1)
          THEN KeepPending(line) /\ UNCHANGED cut
          ELSE cut' = cut \cup Pieces(line) /\ UNCHANGED <<urc, lost>>
  /\ UNCHANGED <<announced, named, op, download, owed, response, sms, commands>>

\* ... and what was read together with the last content or an error is dropped.
FetchEnds ==
  /\ op = "download" /\ wire # <<>> /\ wire[1][1] \in {"content", "ERROR"}
  /\ \E chunk \in Chunks : wire' = Unread(chunk) /\ lost' = lost \cup Pieces(chunk)
  /\ Leave(wire[1][1] = "content")
  /\ UNCHANGED <<announced, named, urc, sms, cut, commands>>

\* The deadline passes; the beginning of a line that has been read is dropped.
FetchTimesOut ==
  /\ op = "download"
  /\ \/ UNCHANGED <<wire, cut>>
     \/ \E chunk \in Chunks :
          /\ \A i \in DOMAIN chunk : IsHead(chunk[i])
          /\ wire' = Unread(chunk) /\ cut' = cut \cup Pieces(chunk)
  /\ response' = <<>> /\ job' = "close" /\ op' = "between"
  /\ UNCHANGED <<announced, named, retried, owed, urc, sms, lost, commands>>

-----------------------------------------------------------------------------
(* The SMS task and the modem.                                             *)

\* idf_modem_take_urc, process_urc_text: lines are read whole, across two takings too.
Joined(text) ==
  {n \in 1..announced : \E i \in 2..Len(text) : text[i] = HeadOf(n) /\ IsHead(text[i - 1])}
Whole(text) == {n \in 1..announced : Of(n) \subseteq ToSet(text)}
TakeUrc ==
  /\ urc # <<>> /\ urc' = <<>>
  /\ taken' = taken \cup Pieces(urc)
  /\ LET text == carry \o urc IN
       /\ joined' = joined \cup Joined(text)
       /\ told' = told \cup (Whole(text) \ Joined(text))
       /\ carry' = (IF IsHead(Last(text)) THEN <<Last(text)>> ELSE <<>>)
  /\ UNCHANGED <<announced, named, wire, op, download, owed, response, lost, cut, commands>>

Receive(s) ==
  /\ wire' = wire \o KeepFirst(s, WireSize - Len(wire))
  /\ lost' = lost \cup Dropped(wire \o s, wire')
  /\ UNCHANGED cut

Announce ==
  /\ announced < MaxAnnounced /\ announced' = announced + 1
  /\ named' \in {named, named \cup {announced'}}
  /\ Receive(<<HeadOf(announced'), RestOf(announced')>>)
  /\ UNCHANGED <<op, download, owed, response, urc, sms, commands>>

\* A command may be answered after its deadline.
Answer ==
  /\ \E kind \in owed :
       /\ owed' = owed \ {kind}
       /\ \E what \in {End[kind], "ERROR"} : Receive(<<<<what, 2 * announced>>>>)
  /\ UNCHANGED <<announced, named, op, download, response, urc, sms, commands>>

Read == ReadOn \/ SubmitPdu \/ Finish \/ TimeOut \/ FetchLine \/ FetchEnds \/ FetchTimesOut
Next ==
  \/ TakeChannel \/ PollUnsolicited \/ StartDownload \/ NextCommand \/ NextFetch \/ KeepOpen
  \/ Read \/ TakeUrc \/ Announce \/ Answer

Spec == Init /\ [][Next]_vars

\* Whoever holds the mutex reads what comes until its deadline; the modem task
\* polls and the SMS task takes the buffer twice a second.
Fairness ==
  /\ WF_vars(Read) /\ WF_vars(NextCommand) /\ WF_vars(NextFetch)
  /\ SF_vars(PollUnsolicited) /\ WF_vars(TakeUrc)
FairSpec == Spec /\ Fairness

-----------------------------------------------------------------------------
(* Properties.                                                             *)

Lines ==
  {Piece(k) : k \in 1..(2 * announced)} \cup {<<what, 2 * n>> : what \in Answers, n \in 0..announced}
Gone == lost \cup cut
TypeOK ==
  /\ announced \in 0..MaxAnnounced /\ named \subseteq 1..announced
  /\ wire \in Seq(Lines) /\ Len(wire) <= WireSize
  /\ op \in Operations \cup {"none", "between"}
  /\ job \in {"none", "open", "create", "request", "fetch", "close"}
  /\ retried \in BOOLEAN /\ owed \subseteq Operations
  /\ response \in Seq(Lines) /\ Len(response) <= ResponseSize
  /\ urc \in Seq(Lines) /\ Len(urc) <= BufferSize
  /\ carry \in Seq(Lines) /\ Len(carry) <= 1 /\ taken \subseteq Lines
  /\ told \subseteq 1..announced /\ joined \subseteq 1..announced
  /\ lost \subseteq Lines /\ cut \subseteq Lines
  /\ (op = "none" => job = "none" /\ response = <<>>)

\* Every announcement is told, or both its pieces are where some task will find them.
\* Three things excuse one: a piece that met a full buffer or the end of a download, a
\* piece read with nothing that says what it is, and a line cut short just before it.
Found == Pieces(wire) \cup Pieces(response) \cup Pieces(urc) \cup Pieces(carry)
Excused(n) == Of(n) \cap Gone # {} \/ n \in joined
NoneSwallowed == \A n \in 1..announced : n \in told \/ Excused(n) \/ Of(n) \subseteq Found

\* What the SMS task takes next is in the order of the network and came after
\* all it took before, so that it sees each announcement once, whichever reader
\* met it: a +CMT header must not be parted from its PDU, and a call not be
\* reported twice; and no reader swallows one (idf_modem.cpp:523, 841, 999).
Follows(k, l) == k[2] < l[2] \/ (k[2] = l[2] /\ ~IsPiece(l))
Ordered(s) == \A i, j \in DOMAIN s : i < j => Follows(s[i], s[j])
Newer(s, lines) == \A l \in lines, i \in DOMAIN s : Follows(l, s[i])
TakenOnceInOrder == TypeOK /\ Ordered(urc) /\ Newer(urc, taken) /\ NoneSwallowed

\* What makes it inductive: what is still under way is in order too, each place holds what
\* came after all that is nearer to the SMS task, and what that task carries it took.
Precedes(s, t) == Newer(t, ToSet(s))
InOrder ==
  /\ Ordered(urc) /\ Ordered(response) /\ Ordered(wire)
  /\ Newer(urc, taken) /\ Newer(response, taken) /\ Newer(wire, taken)
  /\ Precedes(urc, response) /\ Precedes(urc, wire) /\ Precedes(response, wire)
Carried == \A i \in DOMAIN carry : IsHead(carry[i]) /\ carry[i] \in taken
NothingHeld == op \notin Operations \ {"download"} => response = <<>>
OrderInv == TypeOK /\ NothingHeld /\ InOrder /\ Carried /\ NoneSwallowed

\* And every announcement is told to the SMS task in the end, unless it is excused that
\* way (idf_modem.cpp:527).
AllArrive ==
  \A n \in 1..MaxAnnounced : []<>(announced < n \/ n \in told \/ Excused(n))
=============================================================================
