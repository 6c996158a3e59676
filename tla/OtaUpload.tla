----------------------------- MODULE OtaUpload -----------------------------
(***************************************************************************)
(* The upload of a firmware on the web page (handle_ota_update of          *)
(* components/idf_web).  The request is a multipart form: a header, the    *)
(* firmware, the boundary and what comes after it.  It arrives in pieces;  *)
(* all but the last keep_tail bytes received are written to the partition, *)
(* and at the end the boundary is looked for in the bytes kept back.       *)
(*                                                                         *)
(* Data abstraction: bytes are positions in the request, what is pending   *)
(* is an interval of them; the firmware itself does not contain the        *)
(* boundary.  A time-out of the connection or a flash error may come at    *)
(* any time.                                                               *)
(***************************************************************************)
EXTENDS Naturals

CONSTANTS
  Headers,   \* lengths of the header, of the firmware,
  Firmwares, Marker, Tails, \* of the boundary and of what follows it, in units
  Slack,     \* keep_tail is this much longer than the boundary
  Piece,     \* size of the receive buffer
  PartSize,  \* size of the partition
  HeaderMax, \* 2048
  MaxPauses  \* time-outs in a row that are put up with: 3

OtaAssumption ==
  /\ Headers \cup Firmwares \cup Tails \subseteq Nat /\ Marker \in Nat \ {0}
  /\ {Slack, Piece, PartSize, HeaderMax, MaxPauses} \subseteq Nat \ {0}

VARIABLES
  form,     \* [header, firmware, tail]; a header of 0 does not end
  sha,      \* the checksum that is asked for: "none", "right", "wrong"
  lo, hi,   \* pending holds the bytes from lo to hi - 1
  inFile,   \* in_file
  written,  \* what is on the partition: the bytes from header to written - 1
  broken,   \* ghost: bytes were lost or written twice
  pauses, pc,
  boot      \* the boot partition: "old", "new"

vars == <<form, sha, lo, hi, inFile, written, broken, pauses, pc, boot>>
EndOfFile == form.header + form.firmware
Length == EndOfFile + Marker + form.tail

Requests == [header : Headers, firmware : Firmwares, tail : Tails]
Init ==
  /\ form \in Requests
  /\ sha \in {"none", "right", "wrong"}
  /\ lo = 0 /\ hi = 0 /\ inFile = FALSE /\ written = form.header /\ broken = FALSE
  /\ pauses = 0 /\ pc = "receive" /\ boot = "old"

-----------------------------------------------------------------------------
KeepTail == Marker + Slack

\* A piece arrives.
Receive ==
  /\ pc = "receive" /\ hi < Length
  /\ \E n \in 1 .. Piece : hi + n <= Length /\ hi' = hi + n
  /\ pauses' = 0 /\ pc' = "header"
  /\ UNCHANGED <<form, sha, lo, inFile, written, broken, boot>>

\* The connection pauses; it breaks, or takes longer than five minutes in all.
Pause ==
  /\ pc = "receive" /\ hi < Length /\ pauses < MaxPauses
  /\ pauses' = pauses + 1
  /\ UNCHANGED <<form, sha, lo, hi, inFile, written, broken, pc, boot>>
Break ==
  /\ pc = "receive" /\ hi < Length /\ pc' = "abort"
  /\ UNCHANGED <<form, sha, lo, hi, inFile, written, broken, pauses, boot>>

\* The end of the header is looked for until it is there.
SkipHeader ==
  /\ pc = "header"
  /\ IF inFile \/ (form.header > 0 /\ hi >= form.header)
     THEN /\ inFile' = TRUE /\ lo' = (IF inFile THEN lo ELSE form.header)
          /\ pc' = "write"
     ELSE /\ pc' = IF hi - lo > HeaderMax THEN "abort" ELSE "receive"
          /\ UNCHANGED <<lo, inFile>>
  /\ UNCHANGED <<form, sha, hi, written, broken, pauses, boot>>

\* esp_ota_write of the bytes up to n.
Put(n) ==
  /\ broken' = (broken \/ written # lo)
  /\ written' = n /\ lo' = n
Fits(n) == n - form.header <= PartSize

WriteOut ==
  /\ pc = "write"
  /\ IF hi - lo <= KeepTail THEN pc' = "receive" /\ UNCHANGED <<lo, written, broken>>
     ELSE IF Fits(hi - KeepTail)
          THEN \/ Put(hi - KeepTail) /\ pc' = "receive"
               \/ pc' = "abort" /\ UNCHANGED <<lo, written, broken>>   \* a flash error
          ELSE pc' = "abort" /\ UNCHANGED <<lo, written, broken>>
  /\ UNCHANGED <<form, sha, hi, inFile, pauses, boot>>

\* All is received: the rest up to the boundary, if the boundary is there.
BoundaryOrEnd == inFile   \* mutant: what is pending is the rest
BoundaryFound == inFile /\ lo <= EndOfFile
RestUpTo == IF lo <= EndOfFile THEN EndOfFile ELSE hi
Rest ==
  /\ pc = "receive" /\ hi = Length
  /\ \/ /\ BoundaryFound /\ Fits(RestUpTo)
        /\ IF RestUpTo > lo THEN Put(RestUpTo) ELSE UNCHANGED <<lo, written, broken>>
        /\ pc' = "verify"
     \/ /\ ~(BoundaryFound /\ Fits(RestUpTo)) \/ RestUpTo > lo   \* or a flash error
        /\ pc' = "abort" /\ UNCHANGED <<lo, written, broken>>
  /\ UNCHANGED <<form, sha, hi, inFile, pauses, boot>>

Verified == written > form.header /\ sha # "wrong"
\* esp_ota_end checks the image as a whole; then it is the one to boot.
Verify ==
  /\ pc = "verify"
  /\ IF Verified THEN pc' \in {"end", "abort"} ELSE pc' = "abort"
  /\ UNCHANGED <<form, sha, lo, hi, inFile, written, broken, pauses, boot>>
SetBoot ==
  /\ pc = "end" /\ pc' = "done"
  /\ boot' = "new"
  /\ UNCHANGED <<form, sha, lo, hi, inFile, written, broken, pauses>>
Abort ==
  /\ pc = "abort" /\ pc' = "done"
  /\ UNCHANGED <<form, sha, lo, hi, inFile, written, broken, pauses, boot>>

Next == \/ Receive \/ Pause \/ Break \/ SkipHeader \/ WriteOut \/ Rest
        \/ Verify \/ SetBoot \/ Abort
Spec == Init /\ [][Next]_vars

-----------------------------------------------------------------------------
TypeOK ==
  /\ hi \in 0 .. Length /\ lo \in 0 .. hi /\ written \in 0 .. Length
  /\ {inFile, broken} \subseteq BOOLEAN /\ pauses \in 0 .. MaxPauses
  /\ pc \in {"receive", "header", "write", "verify", "end", "abort", "done"}
  /\ boot \in {"old", "new"}

\* The device boots a new firmware only if all of it, and nothing else, is on the
\* partition, however the request was cut into pieces, and if its checksum is the one
\* that was asked for (idf_web.cpp:1775-1875).
BootsWhatWasSent == boot = "new" => /\ written = EndOfFile /\ ~broken
                                    /\ form.firmware \in 1 .. PartSize /\ sha # "wrong"

\* No byte is written beyond the partition (idf_web.cpp:1812-1818, 1842-1844).
StaysInside == written - form.header <= PartSize

\* A form of one file with room for it is not refused for where its pieces end: the
\* boundary is found when nothing but its end follows (idf_web.cpp:1777, 1834-1840).
BoundaryKept == hi = Length /\ pc = "receive" /\ inFile /\ form.tail <= Slack => lo <= EndOfFile

-----------------------------------------------------------------------------
\* What makes these inductive: what is written goes from the end of the header to
\* what is pending, without a gap, and but for the rest at the end it stays as far
\* behind what was received as the boundary may reach.
UploadInv ==
  /\ TypeOK /\ StaysInside /\ BootsWhatWasSent
  /\ form \in Requests /\ ~broken
  /\ IF inFile THEN written = lo /\ form.header <= lo ELSE lo = 0 /\ written = form.header
  /\ inFile /\ pc \in {"receive", "header", "write"}
       => lo = form.header \/ lo + KeepTail <= hi
  /\ pc = "write" => inFile
  /\ pc \in {"verify", "end"} => inFile /\ written = EndOfFile
  /\ pc = "end" => Verified
  /\ boot = "new" => pc = "done"
=============================================================================
