-------------------------- MODULE AtChannelProofs --------------------------
(***************************************************************************)
(* What holds of the AT channel for buffers of every size, any number of   *)
(* announcements and of operations.                                        *)
(***************************************************************************)
EXTENDS AtChannel, SequenceTheorems, FiniteSetTheorems, TLAPS

-----------------------------------------------------------------------------
(* Sequences of lines: a part of a sequence, two joined, their order.      *)

\* t is a run of consecutive lines of s.
Part(t, s) == \E k \in Nat : \A i \in 1..Len(t) : i + k \in 1..Len(s) /\ t[i] = s[i + k]

\* What fits of a sequence, from the front or from the end, is a part of it.
LEMMA FirstFits ==
  ASSUME NEW S, NEW s \in Seq(S), NEW size \in Nat
  PROVE  KeepFirst(s, size) \in Seq(S) /\ Len(KeepFirst(s, size)) <= size /\ Part(KeepFirst(s, size), s)
<1>1. CASE Len(s) <= size
  BY <1>1 DEF KeepFirst, Part
<1>2. CASE ~(Len(s) <= size)
  <2>1. KeepFirst(s, size) = SubSeq(s, 1, size)
    BY <1>2 DEF KeepFirst
  <2>2. /\ SubSeq(s, 1, size) \in Seq(S)
        /\ Len(SubSeq(s, 1, size)) = size
        /\ \A i \in 1..size : SubSeq(s, 1, size)[i] = s[i]
    BY <1>2, SubSeqProperties
  <2>3. \A i \in 1..Len(SubSeq(s, 1, size)) : i + 0 \in 1..Len(s) /\ SubSeq(s, 1, size)[i] = s[i + 0]
    BY <1>2, <2>2
  <2> QED
    BY <2>1, <2>2, <2>3 DEF Part
<1> QED
  BY <1>1, <1>2

LEMMA LastFits ==
  ASSUME NEW S, NEW s \in Seq(S), NEW size \in Nat
  PROVE  KeepLast(s, size) \in Seq(S) /\ Len(KeepLast(s, size)) <= size /\ Part(KeepLast(s, size), s)
<1>1. CASE Len(s) <= size
  BY <1>1 DEF KeepLast, Part
<1>2. CASE ~(Len(s) <= size)
  <2> DEFINE k == Len(s) - size
             t == SubSeq(s, k + 1, Len(s))
  <2>1. KeepLast(s, size) = t /\ k \in Nat
    BY <1>2 DEF KeepLast
  <2>2. t \in Seq(S) /\ Len(t) = size /\ \A i \in 1..size : t[i] = s[k + 1 + i - 1]
    BY <1>2, <2>1, SubSeqProperties
  <2>3. \A i \in 1..Len(t) : i + k \in 1..Len(s) /\ t[i] = s[i + k]
    BY <1>2, <2>1, <2>2
  <2>4. t \in Seq(S) /\ Len(t) <= size
    BY <2>2
  <2> HIDE DEF k, t
  <2>5. Part(t, s)
    BY <2>1, <2>3 DEF Part
  <2> QED
    BY <2>1, <2>4, <2>5
<1> QED
  BY <1>1, <1>2

\* A part keeps the order of the whole, comes after what the whole comes after
\* and holds no line that the whole does not hold.
LEMMA PartKeeps ==
  ASSUME NEW S, NEW s \in Seq(S), NEW t \in Seq(S), Part(t, s)
  PROVE  /\ Ordered(s) => Ordered(t)
         /\ \A L : Newer(s, L) => Newer(t, L)
         /\ ToSet(t) \subseteq ToSet(s)
<1>1. PICK k \in Nat : \A i \in 1..Len(t) : i + k \in 1..Len(s) /\ t[i] = s[i + k]
  BY DEF Part
<1>2. ASSUME Ordered(s) PROVE Ordered(t)
  <2> SUFFICES ASSUME NEW i \in 1..Len(t), NEW j \in 1..Len(t), i < j PROVE Follows(t[i], t[j])
    BY DEF Ordered
  <2>1. i + k \in 1..Len(s) /\ j + k \in 1..Len(s) /\ i + k < j + k
    BY <1>1
  <2>2. Follows(s[i + k], s[j + k])
    BY <1>2, <2>1 DEF Ordered
  <2> QED
    BY <1>1, <2>2
<1>3. \A L : Newer(s, L) => Newer(t, L)
  BY <1>1 DEF Newer
<1>4. ToSet(t) \subseteq ToSet(s)
  BY <1>1 DEF ToSet
<1> QED
  BY <1>2, <1>3, <1>4

\* Nothing is newer than what it does not come after: fewer lines ask less.
LEMMA NewerThanFewer ==
  ASSUME NEW s, NEW L, NEW M \in SUBSET L, Newer(s, L)
  PROVE  Newer(s, M)
BY DEF Newer

\* Two sequences joined.
LEMMA JoinKeeps ==
  ASSUME NEW S, NEW s \in Seq(S), NEW t \in Seq(S)
  PROVE  /\ s \o t \in Seq(S)
         /\ Ordered(s) /\ Ordered(t) /\ Precedes(s, t) => Ordered(s \o t)
         /\ \A L : Newer(s, L) /\ Newer(t, L) => Newer(s \o t, L)
         /\ ToSet(s \o t) = ToSet(s) \cup ToSet(t)
<1>1. /\ s \o t \in Seq(S)
      /\ Len(s \o t) = Len(s) + Len(t)
      /\ \A i \in 1..Len(s) + Len(t) : (s \o t)[i] = IF i <= Len(s) THEN s[i] ELSE t[i - Len(s)]
  BY ConcatProperties
<1>2. ASSUME Ordered(s), Ordered(t), Precedes(s, t) PROVE Ordered(s \o t)
  <2> SUFFICES ASSUME NEW i \in 1..Len(s) + Len(t), NEW j \in 1..Len(s) + Len(t), i < j
               PROVE  Follows((s \o t)[i], (s \o t)[j])
    BY <1>1 DEF Ordered
  <2>1. CASE j <= Len(s)
    BY <1>1, <1>2, <2>1 DEF Ordered
  <2>2. CASE i > Len(s)
    <3>1. i - Len(s) \in 1..Len(t) /\ j - Len(s) \in 1..Len(t) /\ i - Len(s) < j - Len(s)
      BY <2>2
    <3>2. Follows(t[i - Len(s)], t[j - Len(s)])
      BY <1>2, <3>1 DEF Ordered
    <3> QED
      BY <1>1, <2>2, <3>2
  <2>3. CASE i <= Len(s) /\ j > Len(s)
    <3>1. i \in 1..Len(s) /\ j - Len(s) \in 1..Len(t)
      BY <2>3
    <3>2. Follows(s[i], t[j - Len(s)])
      BY <1>2, <3>1 DEF Precedes, Newer, ToSet
    <3> QED
      BY <1>1, <2>3, <3>2
  <2> QED
    BY <2>1, <2>2, <2>3
<1>3. ASSUME NEW L, Newer(s, L), Newer(t, L) PROVE Newer(s \o t, L)
  <2> SUFFICES ASSUME NEW l \in L, NEW i \in 1..Len(s) + Len(t) PROVE Follows(l, (s \o t)[i])
    BY <1>1 DEF Newer
  <2>1. CASE i <= Len(s)
    BY <1>1, <1>3, <2>1 DEF Newer
  <2>2. CASE i > Len(s)
    <3>1. i - Len(s) \in 1..Len(t)
      BY <2>2
    <3> QED
      BY <1>1, <1>3, <2>2, <3>1 DEF Newer
  <2> QED
    BY <2>1, <2>2
<1>4. ToSet(s \o t) = ToSet(s) \cup ToSet(t)
  <2>1. ASSUME NEW l \in ToSet(s) PROVE l \in ToSet(s \o t)
    BY <1>1 DEF ToSet
  <2>2. ASSUME NEW l \in ToSet(t) PROVE l \in ToSet(s \o t)
    <3>1. PICK i \in 1..Len(t) : l = t[i]
      BY DEF ToSet
    <3>2. i + Len(s) \in 1..Len(s) + Len(t) /\ (s \o t)[i + Len(s)] = l
      BY <1>1, <3>1
    <3> QED
      BY <1>1, <3>2 DEF ToSet
  <2>3. ASSUME NEW l \in ToSet(s \o t) PROVE l \in ToSet(s) \cup ToSet(t)
    <3>1. PICK i \in 1..Len(s) + Len(t) : l = (s \o t)[i]
      BY <1>1, <2>3 DEF ToSet
    <3>2. CASE i <= Len(s)
      BY <1>1, <3>1, <3>2 DEF ToSet
    <3>3. CASE i > Len(s)
      <4>1. i - Len(s) \in 1..Len(t) /\ l = t[i - Len(s)]
        BY <1>1, <3>1, <3>3
      <4> QED
        BY <4>1 DEF ToSet
    <3> QED
      BY <3>2, <3>3
  <2> QED
    BY <2>1, <2>2, <2>3
<1> QED
  BY <1>1, <1>2, <1>3, <1>4

\* Nothing read, and what a sequence holds.
LEMMA Nothing ==
  /\ Ordered(<<>>) /\ ToSet(<<>>) = {}
  /\ \A L : Newer(<<>>, L)
  /\ \A s : Newer(s, {}) /\ Part(<<>>, s)
BY DEF Ordered, Newer, ToSet, Part

LEMMA HeldLines ==
  ASSUME NEW S, NEW s \in Seq(S)
  PROVE  /\ ToSet(s) \subseteq S /\ Pieces(s) \subseteq S
         /\ \A kept : Dropped(s, kept) \subseteq S
BY DEF ToSet, Pieces, Dropped

\* A chunk and the rest of what the UART holds: two parts, one before the other.
LEMMA ChunkRead ==
  ASSUME NEW S, wire \in Seq(S), NEW chunk \in Chunks
  PROVE  /\ chunk \in Seq(S) /\ Unread(chunk) \in Seq(S) /\ Len(Unread(chunk)) <= Len(wire)
         /\ Part(chunk, wire) /\ Part(Unread(chunk), wire)
         /\ Ordered(wire) => Precedes(chunk, Unread(chunk))
<1>1. PICK n \in 1..Len(wire) : chunk = SubSeq(wire, 1, n)
  BY DEF Chunks
<1>2. Len(wire) \in Nat /\ n \in Nat
  OBVIOUS
<1>3. \A i \in 1..Len(wire) : wire[i] \in S
  OBVIOUS
<1>4. /\ SubSeq(wire, 1, n) \in Seq(S) /\ Len(SubSeq(wire, 1, n)) = n
      /\ \A i \in 1..n : SubSeq(wire, 1, n)[i] = wire[i]
  BY <1>2, <1>3, SubSeqProperties
<1>5. chunk \in Seq(S) /\ Len(chunk) = n /\ \A i \in 1..n : chunk[i] = wire[i]
  BY <1>1, <1>4
<1>6. Unread(chunk) = SubSeq(wire, n + 1, Len(wire))
  BY <1>5 DEF Unread
<1>7. /\ SubSeq(wire, n + 1, Len(wire)) \in Seq(S)
      /\ Len(SubSeq(wire, n + 1, Len(wire))) = Len(wire) - n
      /\ \A i \in 1..Len(wire) - n : SubSeq(wire, n + 1, Len(wire))[i] = wire[n + i]
  BY <1>2, <1>3, SubSeqProperties
<1>8. /\ Unread(chunk) \in Seq(S) /\ Len(Unread(chunk)) = Len(wire) - n
      /\ \A i \in 1..Len(wire) - n : Unread(chunk)[i] = wire[n + i]
  BY <1>6, <1>7
<1>9. Part(chunk, wire)
  <2>1. \A i \in 1..Len(chunk) : i + 0 \in 1..Len(wire) /\ chunk[i] = wire[i + 0]
    BY <1>5
  <2> QED
    BY <2>1 DEF Part
<1>10. Part(Unread(chunk), wire)
  <2>1. \A i \in 1..Len(Unread(chunk)) : i + n \in 1..Len(wire) /\ Unread(chunk)[i] = wire[i + n]
    BY <1>8
  <2> QED
    BY <1>2, <2>1 DEF Part
<1>11. ASSUME Ordered(wire) PROVE Precedes(chunk, Unread(chunk))
  <2> SUFFICES ASSUME NEW i \in 1..n, NEW j \in 1..Len(wire) - n
               PROVE  Follows(wire[i], wire[n + j])
    BY <1>5, <1>8 DEF Precedes, Newer, ToSet
  <2> QED
    BY <1>2, <1>11 DEF Ordered
<1> QED
  BY <1>2, <1>5, <1>8, <1>9, <1>10, <1>11

\* What is left from the start of a line on is a part.
LEMMA LineStartKept ==
  ASSUME NEW S, NEW s \in Seq(S)
  PROVE  /\ FromLineStart(s) \in Seq(S) /\ Len(FromLineStart(s)) <= Len(s)
         /\ Part(FromLineStart(s), s)
<1> DEFINE heads == {i \in DOMAIN s : \A j \in 1..i : IsHead(s[j])}
           k == LineEnd(s)
<1>1. k \in Nat \ {0}
  <2>1. heads \subseteq 1..Len(s) /\ IsFiniteSet(1..Len(s))
    BY FS_Interval
  <2>2. Cardinality(heads) \in Nat
    BY <2>1, FS_Subset, FS_CardinalityType
  <2> QED
    BY <2>2 DEF LineEnd
<1> HIDE DEF k
<1>2. CASE ~(k < Len(s))
  <2>1. \A i \in 1..Len(s) : i + 0 \in 1..Len(s) /\ s[i] = s[i + 0]
    OBVIOUS
  <2> QED
    BY <1>2, <2>1 DEF FromLineStart, Part, k
<1>3. CASE k < Len(s)
  <2> DEFINE t == SubSeq(s, k + 1, Len(s))
  <2>1. FromLineStart(s) = t
    BY <1>3 DEF FromLineStart, k
  <2>2. /\ t \in Seq(S) /\ Len(t) = Len(s) - k
        /\ \A i \in 1..(Len(s) - k) : t[i] = s[k + 1 + i - 1]
    BY <1>1, <1>3, SubSeqProperties
  <2>3. \A i \in 1..Len(t) : i + k \in 1..Len(s) /\ t[i] = s[i + k]
    BY <1>1, <1>3, <2>2
  <2>4. t \in Seq(S) /\ Len(t) <= Len(s) /\ k \in Nat
    BY <1>1, <1>3, <2>2
  <2> HIDE DEF t
  <2>5. Part(t, s)
    BY <2>3, <2>4 DEF Part
  <2> QED
    BY <2>1, <2>4, <2>5
<1> QED
  BY <1>2, <1>3

\* Of what is kept a part is kept.
LEMMA PartOfPart ==
  ASSUME NEW s, NEW t, NEW u, Part(t, s), Part(u, t), Len(s) \in Nat, Len(t) \in Nat
  PROVE  Part(u, s)
<1>1. PICK k \in Nat : \A i \in 1..Len(t) : i + k \in 1..Len(s) /\ t[i] = s[i + k]
  BY DEF Part
<1>2. PICK m \in Nat : \A i \in 1..Len(u) : i + m \in 1..Len(t) /\ u[i] = t[i + m]
  BY DEF Part
<1>3. \A i \in 1..Len(u) : i + (m + k) \in 1..Len(s) /\ u[i] = s[i + (m + k)]
  <2> SUFFICES ASSUME NEW i \in 1..Len(u) PROVE i + (m + k) \in 1..Len(s) /\ u[i] = s[i + (m + k)]
    OBVIOUS
  <2>1. i + m \in 1..Len(t) /\ u[i] = t[i + m]
    BY <1>2
  <2>2. (i + m) + k \in 1..Len(s) /\ t[i + m] = s[(i + m) + k]
    BY <1>1, <2>1
  <2>3. (i + m) + k = i + (m + k)
    BY <1>1, <1>2, <2>1
  <2> QED
    BY <2>1, <2>2, <2>3
<1> QED
  <2>1. m + k \in Nat
    BY <1>1, <1>2
  <2> QED
    BY <2>1, <1>3 DEF Part

\* The last that fits, from the start of a line on.
LEMMA LastLinesFit ==
  ASSUME NEW S, NEW s \in Seq(S), NEW size \in Nat
  PROVE  LET t == FromLineStart(KeepLast(s, size)) IN
         t \in Seq(S) /\ Len(t) <= size /\ Part(t, s)
<1> DEFINE u == KeepLast(s, size)
           t == FromLineStart(u)
<1>1. u \in Seq(S) /\ Len(u) <= size /\ Part(u, s)
  BY LastFits
<1> HIDE DEF u
<1>2. t \in Seq(S) /\ Len(t) <= Len(u) /\ Part(t, u)
  BY <1>1, LineStartKept
<1> HIDE DEF t
<1>3. Len(t) \in Nat /\ Len(u) \in Nat /\ Len(s) \in Nat
  BY <1>1, <1>2
<1>4. Part(t, s)
  BY <1>1, <1>2, <1>3, PartOfPart
<1> QED
  BY <1>1, <1>2, <1>3, <1>4 DEF t, u

\* What is put to the buffer of announcements.
LEMMA UrcAppended ==
  ASSUME NEW S, urc \in Seq(S), Len(urc) <= BufferSize, NEW s \in Seq(S)
  PROVE  /\ AppendUrcText(s) \in Seq(S) /\ Len(AppendUrcText(s)) <= BufferSize
         /\ Ordered(urc) /\ Ordered(s) /\ Precedes(urc, s) => Ordered(AppendUrcText(s))
         /\ \A L : Newer(urc, L) /\ Newer(s, L) => Newer(AppendUrcText(s), L)
         /\ ToSet(AppendUrcText(s)) \subseteq ToSet(urc) \cup ToSet(s)
<1>1. BufferSize \in Nat /\ Len(s) \in Nat /\ Len(urc) \in Nat
  BY SizesPositive
<1>2. CASE Len(s) >= BufferSize
  <2>1. /\ AppendUrcText(s) \in Seq(S) /\ Len(AppendUrcText(s)) <= BufferSize
        /\ Part(AppendUrcText(s), s)
    BY <1>1, <1>2, LastLinesFit DEF AppendUrcText
  <2> QED
    BY <2>1, PartKeeps
<1>3. CASE ~(Len(s) >= BufferSize) /\ Len(urc) + Len(s) > BufferSize
  <2> DEFINE t == FromLineStart(KeepLast(urc, BufferSize - Len(s)))
  <2>1. BufferSize - Len(s) \in Nat
    BY <1>1, <1>3
  <2>2. t \in Seq(S) /\ Len(t) <= BufferSize - Len(s) /\ Part(t, urc)
    BY <2>1, LastLinesFit
  <2>3. AppendUrcText(s) = t \o s
    BY <1>3 DEF AppendUrcText
  <2> HIDE DEF t
  <2>4. /\ Ordered(urc) => Ordered(t)
        /\ \A L : Newer(urc, L) => Newer(t, L)
        /\ ToSet(t) \subseteq ToSet(urc)
    BY <2>2, PartKeeps
  <2>5. Precedes(urc, s) => Precedes(t, s)
    BY <2>4, NewerThanFewer DEF Precedes
  <2>6. /\ t \o s \in Seq(S)
        /\ Ordered(t) /\ Ordered(s) /\ Precedes(t, s) => Ordered(t \o s)
        /\ \A L : Newer(t, L) /\ Newer(s, L) => Newer(t \o s, L)
        /\ ToSet(t \o s) = ToSet(t) \cup ToSet(s)
    BY <2>2, JoinKeeps
  <2>7. Len(t \o s) = Len(t) + Len(s) /\ Len(t) \in Nat
    BY <2>2, ConcatProperties
  <2>8. Len(t \o s) <= BufferSize
    BY <1>1, <2>2, <2>7
  <2> QED
    BY <2>3, <2>4, <2>5, <2>6, <2>8
<1>4. CASE ~(Len(s) >= BufferSize) /\ ~(Len(urc) + Len(s) > BufferSize)
  <2>1. AppendUrcText(s) = urc \o s
    BY <1>4 DEF AppendUrcText
  <2>2. Len(urc \o s) = Len(urc) + Len(s)
    BY ConcatProperties
  <2>3. Len(urc \o s) <= BufferSize
    BY <1>1, <1>4, <2>2
  <2> QED
    BY <2>1, <2>3, JoinKeeps
<1> QED
  BY <1>2, <1>3, <1>4

\* What is kept of a response, and what of that goes to the buffer.
LEMMA ResponseKept ==
  ASSUME NEW S, NEW s \in Seq(S)
  PROVE  /\ Room(s) \in Seq(S) /\ Len(Room(s)) <= ResponseSize /\ Part(Room(s), s)
         /\ Preserve(s) \in Seq(S) /\ Part(Preserve(s), s)
<1>1. ResponseSize \in Nat
  BY SizesPositive
<1>2. Room(s) \in Seq(S) /\ Len(Room(s)) <= ResponseSize /\ Part(Room(s), s)
  BY <1>1, FirstFits, LastFits DEF Room
<1>3. Part(s, s)
  <2>1. \A i \in 1..Len(s) : i + 0 \in 1..Len(s) /\ s[i] = s[i + 0]
    OBVIOUS
  <2> QED
    BY <2>1 DEF Part
<1>4. Preserve(s) \in Seq(S) /\ Part(Preserve(s), s)
  BY <1>3, Nothing DEF Preserve
<1> QED
  BY <1>2, <1>4

-----------------------------------------------------------------------------
(* Types.                                                                  *)

\* The lines there are when more announcements are made.
LEMMA LinesGrow ==
  ASSUME TypeOK, announced' = announced \/ announced' = announced + 1
  PROVE  /\ Lines \subseteq Lines'
         /\ \A s \in Seq(Lines) : s \in Seq(Lines')
<1>1. \A n \in 0..announced : n \in 0..announced'
  BY DEF TypeOK
<1>2. \A k \in 1..(2 * announced) : k \in 1..(2 * announced')
  BY DEF TypeOK
<1>3. ASSUME NEW l \in Lines PROVE l \in Lines'
  <2>1. CASE \E k \in 1..(2 * announced) : l = Piece(k)
    BY <1>2, <2>1 DEF Lines
  <2>2. CASE \E what \in Answers, n \in 0..announced : l = <<what, 2 * n>>
    BY <1>1, <2>2 DEF Lines
  <2> QED
    BY <2>1, <2>2 DEF Lines
<1>4. Lines \subseteq Lines'
  BY <1>3
<1> QED
  BY <1>4, SeqMonotonic

\* What the modem answers is a line of the model, and so are the pieces it announces.
LEMMA AnswersAreLines ==
  ASSUME TypeOK, NEW kind \in Operations, NEW what \in {End[kind], "ERROR"}
  PROVE  <<what, 2 * announced>> \in Lines
<1>1. what \in Answers
  BY DEF Operations, End, Answers
<1>2. announced \in 0..announced
  BY DEF TypeOK
<1> QED
  BY <1>1, <1>2 DEF Lines

LEMMA PiecesAreLines == TypeOK => \A n \in 1..announced : Of(n) \subseteq Lines
<1> SUFFICES ASSUME TypeOK, NEW n \in 1..announced PROVE Of(n) \subseteq Lines
  OBVIOUS
<1>1. 2 * n - 1 \in 1..(2 * announced) /\ 2 * n \in 1..(2 * announced)
  BY DEF TypeOK
<1> QED
  BY <1>1 DEF Lines, Of, HeadOf, RestOf

\* What the UART receives.
LEMMA Received ==
  ASSUME NEW S, wire \in Seq(S), Len(wire) <= WireSize, WireSize \in Nat, lost \subseteq S,
         NEW s \in Seq(S), Receive(s)
  PROVE  /\ wire' \in Seq(S) /\ Len(wire') <= WireSize /\ lost' \subseteq S
         /\ cut' = cut
<1> DEFINE room == WireSize - Len(wire)
           fits == KeepFirst(s, room)
<1>1. room \in Nat
  OBVIOUS
<1>2. fits \in Seq(S) /\ Len(fits) <= room
  BY <1>1, FirstFits
<1>3. wire' = wire \o fits /\ lost' = lost \cup Dropped(wire \o s, wire') /\ cut' = cut
  BY DEF Receive
<1> HIDE DEF fits
<1>4. wire' \in Seq(S) /\ Len(wire') = Len(wire) + Len(fits)
  BY <1>2, <1>3, ConcatProperties
<1>5. Len(wire') <= WireSize
  BY <1>2, <1>4
<1>6. wire \o s \in Seq(S)
  BY ConcatProperties
<1>7. Dropped(wire \o s, wire') \subseteq S
  BY <1>6, HeldLines
<1> QED
  BY <1>3, <1>4, <1>5, <1>7

\* What an overflow of the buffer costs.
LEMMA OverflowHeld ==
  ASSUME NEW S, urc \in Seq(S), NEW s \in Seq(S)
  PROVE  Overflow(s) \subseteq S
<1>1. urc \o s \in Seq(S)
  BY ConcatProperties
<1>2. Dropped(urc \o s, AppendUrcText(s)) \subseteq S
  BY <1>1, HeldLines
<1> QED
  BY <1>2 DEF Overflow

\* Some of what the UART holds goes to the buffer.
LEMMA CapturedTyped ==
  ASSUME TypeOK, CaptureSome
  PROVE  /\ wire' \in Seq(Lines) /\ Len(wire') <= WireSize
         /\ urc' \in Seq(Lines) /\ Len(urc') <= BufferSize
         /\ lost' \subseteq Lines /\ cut' = cut
<1>1. PICK chunk \in Chunks : Capture(chunk)
  BY DEF CaptureSome
<1>2. chunk \in Seq(Lines) /\ Unread(chunk) \in Seq(Lines) /\ Len(Unread(chunk)) <= Len(wire)
  BY ChunkRead DEF TypeOK
<1>3. WireSize \in Nat /\ Len(wire) \in Nat
  BY SizesPositive DEF TypeOK
<1>4. wire' = Unread(chunk) /\ urc' = AppendUrcText(chunk) /\ lost' = lost \cup Overflow(chunk)
      /\ cut' = cut
  BY <1>1 DEF Capture, KeepPending
<1>5. AppendUrcText(chunk) \in Seq(Lines) /\ Len(AppendUrcText(chunk)) <= BufferSize
  BY <1>2, UrcAppended DEF TypeOK
<1>6. Overflow(chunk) \subseteq Lines
  BY <1>2, OverflowHeld DEF TypeOK
<1>7. Len(Unread(chunk)) \in Nat
  BY <1>2
<1> QED
  BY <1>2, <1>3, <1>4, <1>5, <1>6, <1>7 DEF TypeOK

LEMMA BegunTyped ==
  ASSUME TypeOK, NEW kind \in Operations, Begin(kind)
  PROVE  /\ wire' \in Seq(Lines) /\ Len(wire') <= WireSize
         /\ urc' \in Seq(Lines) /\ Len(urc') <= BufferSize
         /\ lost' \subseteq Lines /\ cut' = cut
         /\ op' = kind /\ owed' \subseteq Operations /\ response' = <<>>
<1>1. CASE CaptureSome
  BY <1>1, CapturedTyped DEF Begin, TypeOK
<1>2. CASE UNCHANGED <<wire, urc, lost, cut>>
  BY <1>2 DEF Begin, TypeOK
<1> QED
  BY <1>1, <1>2 DEF Begin

\* Of all that was read something goes to the buffer.
LEMMA KeptTyped ==
  ASSUME TypeOK, NEW all \in Seq(Lines), Keep(all)
  PROVE  /\ urc' \in Seq(Lines) /\ Len(urc') <= BufferSize
         /\ lost' \subseteq Lines /\ cut' \subseteq Lines
<1> DEFINE room == Room(all)
           kept == Preserve(room)
<1>1. room \in Seq(Lines) /\ kept \in Seq(Lines)
  BY ResponseKept
<1>2. Dropped(all, room) \subseteq Lines /\ Overflow(kept) \subseteq Lines
  BY <1>1, HeldLines, OverflowHeld DEF TypeOK
<1>3. Pieces(room) \subseteq Lines
  BY <1>1, HeldLines
<1>4. /\ urc' = AppendUrcText(kept)
      /\ lost' = lost \cup Dropped(all, room) \cup Overflow(kept)
      /\ cut' = cut \cup (IF Names(room) THEN {} ELSE Pieces(room))
  BY DEF Keep
<1> HIDE DEF room, kept
<1>5. urc' \in Seq(Lines) /\ Len(urc') <= BufferSize
  BY <1>1, <1>4, UrcAppended DEF TypeOK
<1> QED
  BY <1>2, <1>3, <1>4, <1>5 DEF TypeOK

\* A chunk joins the response.
LEMMA GatheredTyped ==
  ASSUME TypeOK, NEW chunk \in Chunks, Gather(chunk)
  PROVE  /\ wire' \in Seq(Lines) /\ Len(wire') <= WireSize
         /\ response' \in Seq(Lines) /\ Len(response') <= ResponseSize
         /\ lost' \subseteq Lines /\ cut' = cut
<1> DEFINE all == response \o chunk
<1>1. chunk \in Seq(Lines) /\ Unread(chunk) \in Seq(Lines) /\ Len(Unread(chunk)) <= Len(wire)
  BY ChunkRead DEF TypeOK
<1>2. WireSize \in Nat /\ Len(wire) \in Nat /\ Len(Unread(chunk)) \in Nat
  BY <1>1, SizesPositive DEF TypeOK
<1>3. all \in Seq(Lines)
  BY <1>1, ConcatProperties DEF TypeOK
<1>4. Room(all) \in Seq(Lines) /\ Len(Room(all)) <= ResponseSize
  BY <1>3, ResponseKept
<1>5. Dropped(all, Room(all)) \subseteq Lines
  BY <1>3, HeldLines
<1>6. wire' = Unread(chunk) /\ response' = Room(all) /\ lost' = lost \cup Dropped(all, Room(all))
      /\ cut' = cut
  BY DEF Gather
<1> HIDE DEF all
<1> QED
  BY <1>1, <1>2, <1>4, <1>5, <1>6 DEF TypeOK

\* Leaving the channel or going on with the download.
LEMMA Left ==
  ASSUME TypeOK, NEW ok \in BOOLEAN, Leave(ok)
  PROVE  /\ op' \in {"none", "between"}
         /\ job' \in {"none", "open", "create", "request", "fetch", "close"}
         /\ retried' \in BOOLEAN /\ owed' \subseteq Operations
         /\ response' = <<>>
         /\ op' = "none" => job' = "none"
BY DEF TypeOK, Leave, After

\* What the SMS task takes.
LEMMA TakenTyped ==
  ASSUME TypeOK, TakeUrc
  PROVE  /\ carry' \in Seq(Lines) /\ Len(carry') <= 1
         /\ taken' \subseteq Lines /\ told' \subseteq 1..announced /\ joined' \subseteq 1..announced
<1> DEFINE text == carry \o urc
<1>1. /\ text \in Seq(Lines) /\ Len(text) = Len(carry) + Len(urc)
      /\ Len(carry) \in Nat /\ Len(urc) \in Nat \ {0}
  BY ConcatProperties, EmptySeq DEF TypeOK, TakeUrc
<1>2. Last(text) \in Lines
  BY <1>1 DEF Last
<1>3. Pieces(urc) \subseteq Lines
  BY HeldLines DEF TypeOK
<1>4. Joined(text) \subseteq 1..announced /\ Whole(text) \subseteq 1..announced
  BY DEF Joined, Whole
<1>5. /\ taken' = taken \cup Pieces(urc)
      /\ joined' = joined \cup Joined(text)
      /\ told' = told \cup (Whole(text) \ Joined(text))
      /\ carry' = (IF IsHead(Last(text)) THEN <<Last(text)>> ELSE <<>>)
  BY DEF TakeUrc
<1> HIDE DEF text
<1>6. carry' \in Seq(Lines) /\ Len(carry') <= 1
  <2>1. <<Last(text)>> \in Seq(Lines) /\ Len(<<Last(text)>>) = 1
    BY <1>2
  <2>2. <<>> \in Seq(Lines) /\ Len(<<>>) = 0
    OBVIOUS
  <2> QED
    BY <1>5, <2>1, <2>2
<1> QED
  BY <1>3, <1>4, <1>5, <1>6 DEF TypeOK

\* A step gives no variable a value outside its range.
LEMMA StepTyped == TypeOK /\ NothingHeld /\ [Next]_vars => TypeOK'
<1> SUFFICES ASSUME TypeOK, NothingHeld, [Next]_vars PROVE TypeOK'
  OBVIOUS
<1>0. announced' = announced => Lines' = Lines
  BY DEF Lines
<1>a. /\ <<>> \in Seq(Lines) /\ Len(<<>>) = 0
      /\ WireSize \in Nat /\ BufferSize \in Nat /\ ResponseSize \in Nat
  BY SizesPositive
<1>1. CASE TakeChannel
  <2>1. PICK kind \in {"at", "until", "prompt"} : Begin(kind)
    BY <1>1 DEF TakeChannel
  <2>2. kind \in Operations
    BY DEF Operations
  <2>3. /\ wire' \in Seq(Lines) /\ Len(wire') <= WireSize
        /\ urc' \in Seq(Lines) /\ Len(urc') <= BufferSize
        /\ lost' \subseteq Lines /\ cut' = cut
        /\ op' = kind /\ owed' \subseteq Operations /\ response' = <<>>
    BY <2>1, <2>2, BegunTyped
  <2> QED
    BY <1>1, <1>0, <1>a, <2>2, <2>3 DEF TypeOK, TakeChannel, download, sms
<1>2. CASE PollUnsolicited
  <2>1. /\ wire' \in Seq(Lines) /\ Len(wire') <= WireSize
        /\ urc' \in Seq(Lines) /\ Len(urc') <= BufferSize
        /\ lost' \subseteq Lines /\ cut' = cut
    BY <1>2, CapturedTyped DEF PollUnsolicited
  <2> QED
    BY <1>2, <1>0, <2>1 DEF TypeOK, PollUnsolicited, download, sms
<1>3. CASE StartDownload
  <2>1. retried' \in BOOLEAN
    BY <1>3, Zenon DEF StartDownload
  <2>2. "locked" \in Operations /\ Begin("locked")
    BY <1>3 DEF StartDownload, Operations
  <2>3. /\ wire' \in Seq(Lines) /\ Len(wire') <= WireSize
        /\ urc' \in Seq(Lines) /\ Len(urc') <= BufferSize
        /\ lost' \subseteq Lines /\ cut' = cut
        /\ op' = "locked" /\ owed' \subseteq Operations /\ response' = <<>>
    BY <2>2, BegunTyped
  <2> QED
    BY <1>3, <1>0, <1>a, <2>1, <2>2, <2>3 DEF TypeOK, StartDownload, sms
<1>4. CASE NextCommand
  <2>2. "locked" \in Operations /\ Begin("locked")
    BY <1>4 DEF NextCommand, Operations
  <2>3. /\ wire' \in Seq(Lines) /\ Len(wire') <= WireSize
        /\ urc' \in Seq(Lines) /\ Len(urc') <= BufferSize
        /\ lost' \subseteq Lines /\ cut' = cut
        /\ op' = "locked" /\ owed' \subseteq Operations /\ response' = <<>>
    BY <2>2, BegunTyped
  <2> QED
    BY <1>4, <1>0, <1>a, <2>2, <2>3 DEF TypeOK, NextCommand, download, sms
<1>5. CASE NextFetch
  BY <1>5, <1>0, <1>a DEF TypeOK, NextFetch, Operations, download, sms
<1>6. CASE KeepOpen
  BY <1>6, <1>0, <1>a DEF TypeOK, NothingHeld, KeepOpen, Operations, sms
<1>7. CASE ReadOn
  <2>1. PICK chunk \in Chunks : Gather(chunk)
    BY <1>7 DEF ReadOn
  <2>2. /\ wire' \in Seq(Lines) /\ Len(wire') <= WireSize
        /\ response' \in Seq(Lines) /\ Len(response') <= ResponseSize
        /\ lost' \subseteq Lines /\ cut' = cut
    BY <2>1, GatheredTyped
  <2> QED
    BY <1>7, <1>0, <2>2 DEF TypeOK, ReadOn, Reading, Operations, download, sms
<1>8. CASE SubmitPdu
  <2>1. PICK chunk \in Chunks : Gather(chunk)
    BY <1>8 DEF SubmitPdu
  <2>2. /\ wire' \in Seq(Lines) /\ Len(wire') <= WireSize
        /\ response' \in Seq(Lines) /\ Len(response') <= ResponseSize
        /\ lost' \subseteq Lines /\ cut' = cut
    BY <2>1, GatheredTyped
  <2> QED
    BY <1>8, <1>0, <2>2 DEF TypeOK, SubmitPdu, Operations, download, sms
<1>b. ASSUME NEW chunk \in Chunks, wire' = Unread(chunk)
      PROVE  chunk \in Seq(Lines) /\ wire' \in Seq(Lines) /\ Len(wire') <= WireSize
  <2>1. chunk \in Seq(Lines) /\ Unread(chunk) \in Seq(Lines) /\ Len(Unread(chunk)) <= Len(wire)
    BY ChunkRead DEF TypeOK
  <2>2. Len(Unread(chunk)) \in Nat /\ Len(wire) \in Nat
    BY <2>1 DEF TypeOK
  <2> QED
    BY <1>a, <1>b, <2>1, <2>2 DEF TypeOK
<1>9. CASE Finish
  <2>1. PICK chunk \in Chunks : /\ wire' = Unread(chunk) /\ Keep(response \o chunk)
                                /\ Leave(~Saying(chunk, "ERROR"))
    BY <1>9 DEF Finish
  <2>2. (~Saying(chunk, "ERROR")) \in BOOLEAN
    OBVIOUS
  <2>3. chunk \in Seq(Lines) /\ wire' \in Seq(Lines) /\ Len(wire') <= WireSize
    BY <2>1, <1>b
  <2>4. response \o chunk \in Seq(Lines)
    BY <2>3, ConcatProperties DEF TypeOK
  <2>5. /\ urc' \in Seq(Lines) /\ Len(urc') <= BufferSize
        /\ lost' \subseteq Lines /\ cut' \subseteq Lines
    BY <2>1, <2>4, KeptTyped
  <2>6. /\ op' \in {"none", "between"}
        /\ job' \in {"none", "open", "create", "request", "fetch", "close"}
        /\ retried' \in BOOLEAN /\ owed' \subseteq Operations /\ response' = <<>>
        /\ op' = "none" => job' = "none"
    BY <2>1, <2>2, Left
  <2> QED
    BY <1>9, <1>0, <1>a, <2>3, <2>5, <2>6 DEF TypeOK, Finish, sms
<1>10. CASE TimeOut
  <2>1. Keep(response) /\ Leave(FALSE) /\ response \in Seq(Lines)
    BY <1>10 DEF TimeOut, TypeOK
  <2>2. /\ urc' \in Seq(Lines) /\ Len(urc') <= BufferSize
        /\ lost' \subseteq Lines /\ cut' \subseteq Lines
    BY <2>1, KeptTyped
  <2>3. /\ op' \in {"none", "between"}
        /\ job' \in {"none", "open", "create", "request", "fetch", "close"}
        /\ retried' \in BOOLEAN /\ owed' \subseteq Operations /\ response' = <<>>
        /\ op' = "none" => job' = "none"
    BY <2>1, Left
  <2> QED
    BY <1>10, <1>0, <1>a, <2>2, <2>3 DEF TypeOK, TimeOut, sms
<1>11. CASE FetchLine
  <2>1. PICK line \in Chunks :
          /\ wire' = Unread(line)
          /\ \/ KeepPending(line) /\ UNCHANGED cut
             \/ cut' = cut \cup Pieces(line) /\ UNCHANGED <<urc, lost>>
    BY <1>11 DEF FetchLine
  <2>2. line \in Seq(Lines) /\ wire' \in Seq(Lines) /\ Len(wire') <= WireSize
    BY <2>1, <1>b
  <2>3. /\ AppendUrcText(line) \in Seq(Lines) /\ Len(AppendUrcText(line)) <= BufferSize
        /\ Overflow(line) \subseteq Lines /\ Pieces(line) \subseteq Lines
    BY <2>2, UrcAppended, OverflowHeld, HeldLines DEF TypeOK
  <2>4. /\ urc' \in Seq(Lines) /\ Len(urc') <= BufferSize
        /\ lost' \subseteq Lines /\ cut' \subseteq Lines
    BY <2>1, <2>3 DEF TypeOK, KeepPending
  <2> QED
    BY <1>11, <1>0, <2>2, <2>4 DEF TypeOK, FetchLine, Operations, download, sms
<1>12. CASE FetchEnds
  <2>1. PICK chunk \in Chunks : wire' = Unread(chunk) /\ lost' = lost \cup Pieces(chunk)
    BY <1>12 DEF FetchEnds
  <2>2. chunk \in Seq(Lines) /\ wire' \in Seq(Lines) /\ Len(wire') <= WireSize
    BY <2>1, <1>b
  <2>3. lost' \subseteq Lines
    BY <2>1, <2>2, HeldLines DEF TypeOK
  <2>4. Leave(wire[1][1] = "content") /\ (wire[1][1] = "content") \in BOOLEAN
    BY <1>12 DEF FetchEnds
  <2>5. /\ op' \in {"none", "between"}
        /\ job' \in {"none", "open", "create", "request", "fetch", "close"}
        /\ retried' \in BOOLEAN /\ owed' \subseteq Operations /\ response' = <<>>
        /\ op' = "none" => job' = "none"
    BY <2>4, Left
  <2> QED
    BY <1>12, <1>0, <1>a, <2>2, <2>3, <2>5 DEF TypeOK, FetchEnds, sms
<1>13. CASE FetchTimesOut
  <2>1. wire' \in Seq(Lines) /\ Len(wire') <= WireSize /\ cut' \subseteq Lines
    <3>1. CASE UNCHANGED <<wire, cut>>
      BY <3>1 DEF TypeOK
    <3>2. CASE ~UNCHANGED <<wire, cut>>
      <4>1. PICK chunk \in Chunks : wire' = Unread(chunk) /\ cut' = cut \cup Pieces(chunk)
        BY <1>13, <3>2 DEF FetchTimesOut
      <4> QED
        BY <4>1, <1>b, HeldLines DEF TypeOK
    <3> QED
      BY <3>1, <3>2
  <2> QED
    BY <1>13, <1>0, <1>a, <2>1 DEF TypeOK, FetchTimesOut, sms
<1>14. CASE TakeUrc
  <2>1. /\ carry' \in Seq(Lines) /\ Len(carry') <= 1
        /\ taken' \subseteq Lines /\ told' \subseteq 1..announced /\ joined' \subseteq 1..announced
    BY <1>14, TakenTyped
  <2> QED
    BY <1>14, <1>0, <1>a, <2>1 DEF TypeOK, TakeUrc, download
<1>15. CASE Announce
  <2>1. announced' = announced + 1 /\ announced' \in 0..MaxAnnounced
    BY <1>15, BoundIsNat DEF Announce, TypeOK
  <2>2. Lines \subseteq Lines' /\ \A s \in Seq(Lines) : s \in Seq(Lines')
    BY <2>1, LinesGrow
  <2> DEFINE s == <<HeadOf(announced'), RestOf(announced')>>
  <2>3. s \in Seq(Lines')
    <3>1. 2 * announced' - 1 \in 1..(2 * announced') /\ 2 * announced' \in 1..(2 * announced')
      BY <2>1 DEF TypeOK
    <3>2. HeadOf(announced') \in Lines' /\ RestOf(announced') \in Lines'
      BY <3>1 DEF Lines, HeadOf, RestOf
    <3> QED
      BY <3>2
  <2>4. Receive(s)
    BY <1>15 DEF Announce
  <2> HIDE DEF s
  <2>5. /\ wire' \in Seq(Lines') /\ Len(wire') <= WireSize /\ lost' \subseteq Lines'
        /\ cut' = cut
    <3>1. wire \in Seq(Lines') /\ lost \subseteq Lines'
      BY <2>2 DEF TypeOK
    <3> QED
      BY <1>a, <2>3, <2>4, <3>1, Received DEF TypeOK
  <2>6. named' \subseteq 1..announced' /\ told' \subseteq 1..announced' /\ joined' \subseteq 1..announced'
    <3>1. \A n \in 1..announced : n \in 1..announced'
      BY <2>1 DEF TypeOK
    <3>2. announced' \in 1..announced'
      BY <2>1 DEF TypeOK
    <3> QED
      BY <1>15, <3>1, <3>2 DEF Announce, TypeOK, sms
  <2>7. /\ response' \in Seq(Lines') /\ urc' \in Seq(Lines') /\ carry' \in Seq(Lines')
        /\ taken' \subseteq Lines' /\ cut' \subseteq Lines'
    BY <1>15, <2>2, <2>5 DEF Announce, TypeOK, sms
  <2> QED
    BY <1>15, <2>1, <2>5, <2>6, <2>7 DEF TypeOK, Announce, download, sms
<1>16. CASE Answer
  <2>1. PICK kind \in owed :
          /\ owed' = owed \ {kind}
          /\ \E what \in {End[kind], "ERROR"} : Receive(<<<<what, 2 * announced>>>>)
    BY <1>16 DEF Answer
  <2>2. PICK what \in {End[kind], "ERROR"} : Receive(<<<<what, 2 * announced>>>>)
    BY <2>1
  <2> DEFINE l == <<what, 2 * announced>>
  <2>3. l \in Lines
    BY AnswersAreLines DEF TypeOK
  <2> HIDE DEF l
  <2>4. <<l>> \in Seq(Lines) /\ Receive(<<l>>)
    BY <2>2, <2>3 DEF l
  <2>5. /\ wire' \in Seq(Lines) /\ Len(wire') <= WireSize /\ lost' \subseteq Lines
        /\ cut' = cut
    BY <1>a, <2>4, Received DEF TypeOK
  <2> QED
    BY <1>16, <1>0, <2>1, <2>5 DEF TypeOK, Answer, download, sms
<1>17. CASE UNCHANGED vars
  BY <1>17, <1>0 DEF TypeOK, vars, download, sms
<1> QED
  BY <1>1, <1>2, <1>3, <1>4, <1>5, <1>6, <1>7, <1>8, <1>9, <1>10, <1>11, <1>12, <1>13, <1>14,
     <1>15, <1>16, <1>17 DEF Next, Read

-----------------------------------------------------------------------------
(* The order.                                                              *)

\* A response is in hand only while an operation reads one.
LEMMA StepHeld == NothingHeld /\ [Next]_vars => NothingHeld'
<1> SUFFICES ASSUME NothingHeld, [Next]_vars PROVE NothingHeld'
  OBVIOUS
<1> USE DEF NothingHeld
<1>1. CASE TakeChannel \/ StartDownload \/ NextCommand
  BY <1>1 DEF TakeChannel, StartDownload, NextCommand, Begin
<1>2. CASE NextFetch \/ KeepOpen \/ FetchTimesOut
  BY <1>2 DEF NextFetch, KeepOpen, FetchTimesOut, Operations
<1>3. CASE ReadOn \/ SubmitPdu
  BY <1>3 DEF ReadOn, SubmitPdu, Reading, Operations
<1>4. CASE Finish \/ TimeOut \/ FetchEnds
  BY <1>4 DEF Finish, TimeOut, FetchEnds, Leave
<1>5. CASE PollUnsolicited \/ FetchLine \/ TakeUrc \/ Announce \/ Answer \/ UNCHANGED vars
  BY <1>5 DEF PollUnsolicited, FetchLine, TakeUrc, Announce, Answer, vars, download
<1> QED
  BY <1>1, <1>2, <1>3, <1>4, <1>5 DEF Next, Read

\* The SMS task carries what it took, a beginning of a line.
LEMMA StepCarried == TypeOK /\ Carried /\ [Next]_vars => Carried'
<1> SUFFICES ASSUME TypeOK, Carried, [Next]_vars PROVE Carried'
  OBVIOUS
<1>1. CASE TakeUrc
  <2> DEFINE text == carry \o urc
             l == Last(text)
  <2>1. /\ Len(text) = Len(carry) + Len(urc)
        /\ Len(carry) \in Nat /\ Len(urc) \in Nat \ {0}
        /\ \A i \in 1..Len(text) : text[i] = IF i <= Len(carry) THEN carry[i] ELSE urc[i - Len(carry)]
    BY <1>1, ConcatProperties, EmptySeq DEF TypeOK, TakeUrc
  <2>2. Len(urc) \in 1..Len(urc) /\ l = urc[Len(urc)]
    BY <2>1 DEF Last
  <2>3. l \in ToSet(urc)
    BY <2>2 DEF ToSet
  <2>4. carry' = (IF IsHead(l) THEN <<l>> ELSE <<>>) /\ taken' = taken \cup Pieces(urc)
    BY <1>1 DEF TakeUrc
  <2> HIDE DEF l
  <2>5. IsHead(l) => l \in Pieces(urc)
    BY <2>3 DEF Pieces, IsHead
  <2>6. ASSUME IsHead(l) PROVE Carried'
    <3>1. carry' = <<l>> /\ l \in taken'
      BY <2>4, <2>5, <2>6
    <3>2. \A i \in DOMAIN <<l>> : <<l>>[i] = l
      OBVIOUS
    <3>3. \A i \in DOMAIN carry' : carry'[i] = l
      BY <3>1, <3>2
    <3> QED
      BY <2>6, <3>1, <3>3 DEF Carried, IsHead, IsPiece
  <2>7. ASSUME ~IsHead(l) PROVE Carried'
    BY <2>4, <2>7 DEF Carried
  <2> QED
    BY <2>6, <2>7
<1>2. CASE UNCHANGED <<carry, taken>>
  BY <1>2 DEF Carried, IsHead, IsPiece
<1>3. TakeUrc \/ UNCHANGED <<carry, taken>>
  BY DEF Next, Read, TakeChannel, PollUnsolicited, StartDownload, NextCommand, NextFetch, KeepOpen,
         ReadOn, SubmitPdu, Finish, TimeOut, FetchLine, FetchEnds, FetchTimesOut, Announce, Answer,
         vars, sms
<1> QED
  BY <1>1, <1>2, <1>3

\* A line that comes in and is an answer, or a piece announced next, comes after
\* every line there is.
LEMMA NewLineFollows ==
  ASSUME TypeOK, NEW what, NEW m \in Nat,
         (what # "piece" /\ m = 2 * announced) \/ m > 2 * announced
  PROVE  \A k \in Lines : Follows(k, <<what, m>>)
<1> SUFFICES ASSUME NEW k \in Lines PROVE Follows(k, <<what, m>>)
  OBVIOUS
<1>1. k[2] \in Nat /\ k[2] <= 2 * announced
  <2>1. CASE \E i \in 1..(2 * announced) : k = Piece(i)
    BY <2>1 DEF Piece, TypeOK
  <2>2. CASE \E a \in Answers, n \in 0..announced : k = <<a, 2 * n>>
    BY <2>2 DEF TypeOK
  <2> QED
    BY <2>1, <2>2 DEF Lines
<1>2. <<what, m>>[1] = what /\ <<what, m>>[2] = m
  OBVIOUS
<1> QED
  BY <1>1, <1>2 DEF Follows, IsPiece, TypeOK

\* The order when lines come in.
LEMMA OrderReceived ==
  ASSUME TypeOK, InOrder, NEW S, Lines \subseteq S, NEW s \in Seq(S), Receive(s), Ordered(s),
         \A k \in Lines : \A i \in DOMAIN s : Follows(k, s[i]),
         UNCHANGED <<urc, response, taken>>
  PROVE  InOrder'
<1> DEFINE fits == KeepFirst(s, WireSize - Len(wire))
<1>1. WireSize - Len(wire) \in Nat
  BY SizesPositive DEF TypeOK
<1>2. fits \in Seq(S) /\ Part(fits, s)
  BY <1>1, FirstFits
<1>3. wire' = wire \o fits
  BY DEF Receive
<1> HIDE DEF fits
<1>4. wire \in Seq(S)
  BY SeqMonotonic DEF TypeOK
<1>5. ToSet(wire) \subseteq Lines /\ ToSet(urc) \subseteq Lines /\ ToSet(response) \subseteq Lines
      /\ taken \subseteq Lines
  BY HeldLines DEF TypeOK
<1>6. Newer(s, Lines)
  BY DEF Newer
<1>7. Ordered(fits) /\ Newer(fits, Lines)
  BY <1>2, <1>6, PartKeeps
<1>8. \A L \in SUBSET Lines : Newer(fits, L)
  BY <1>7, NewerThanFewer
<1>9. /\ Ordered(wire) /\ Ordered(fits) /\ Precedes(wire, fits) => Ordered(wire \o fits)
      /\ \A L : Newer(wire, L) /\ Newer(fits, L) => Newer(wire \o fits, L)
  BY <1>2, <1>4, JoinKeeps
<1>10. Ordered(wire') /\ Newer(wire', taken) /\ Precedes(urc, wire') /\ Precedes(response, wire')
  BY <1>3, <1>5, <1>7, <1>8, <1>9 DEF InOrder, Precedes
<1> QED
  BY <1>10 DEF InOrder, Precedes

\* The order when the buffer is given some lines that were under way, and what
\* is still under way afterwards came after them.
LEMMA OrderAppended ==
  ASSUME TypeOK, InOrder, NEW s \in Seq(Lines), urc' = AppendUrcText(s), UNCHANGED taken,
         Ordered(s), Newer(s, taken), Precedes(urc, s),
         response' = <<>>, Ordered(wire'), Newer(wire', taken),
         Precedes(urc, wire'), Precedes(s, wire')
  PROVE  InOrder'
<1>1. /\ Ordered(urc') /\ Newer(urc', taken)
      /\ ToSet(urc') \subseteq ToSet(urc) \cup ToSet(s)
  BY UrcAppended DEF TypeOK, InOrder
<1>2. Newer(wire', ToSet(urc) \cup ToSet(s))
  BY DEF Precedes, Newer
<1>3. Precedes(urc', wire')
  BY <1>1, <1>2, NewerThanFewer DEF Precedes
<1> QED
  BY <1>1, <1>3, Nothing DEF InOrder, Precedes

\* A chunk read and what is left of what the UART holds.
LEMMA OrderRead ==
  ASSUME TypeOK, InOrder, NEW chunk \in Chunks
  PROVE  /\ chunk \in Seq(Lines)
         /\ Ordered(chunk) /\ Newer(chunk, taken) /\ Precedes(urc, chunk) /\ Precedes(response, chunk)
         /\ Precedes(chunk, Unread(chunk))
         /\ Ordered(Unread(chunk)) /\ Newer(Unread(chunk), taken)
         /\ Precedes(urc, Unread(chunk)) /\ Precedes(response, Unread(chunk))
<1>1. /\ chunk \in Seq(Lines) /\ Unread(chunk) \in Seq(Lines)
      /\ Part(chunk, wire) /\ Part(Unread(chunk), wire) /\ Precedes(chunk, Unread(chunk))
  BY ChunkRead DEF TypeOK, InOrder
<1>2. /\ Ordered(chunk)
      /\ Newer(chunk, taken) /\ Newer(chunk, ToSet(urc)) /\ Newer(chunk, ToSet(response))
  BY <1>1, PartKeeps DEF TypeOK, InOrder, Precedes
<1>3. /\ Ordered(Unread(chunk)) /\ Newer(Unread(chunk), taken)
      /\ Newer(Unread(chunk), ToSet(urc)) /\ Newer(Unread(chunk), ToSet(response))
  BY <1>1, PartKeeps DEF TypeOK, InOrder, Precedes
<1> QED
  BY <1>1, <1>2, <1>3 DEF Precedes

\* The chunk joined to the response.
LEMMA OrderJoined ==
  ASSUME TypeOK, InOrder, NEW chunk \in Chunks
  PROVE  LET all == response \o chunk IN
         /\ all \in Seq(Lines)
         /\ Ordered(all) /\ Newer(all, taken) /\ Precedes(urc, all) /\ Precedes(all, Unread(chunk))
<1> DEFINE all == response \o chunk
<1>1. /\ chunk \in Seq(Lines)
      /\ Ordered(chunk) /\ Newer(chunk, taken) /\ Precedes(urc, chunk) /\ Precedes(response, chunk)
      /\ Precedes(chunk, Unread(chunk)) /\ Precedes(response, Unread(chunk))
  BY OrderRead
<1>2. /\ all \in Seq(Lines) /\ ToSet(all) = ToSet(response) \cup ToSet(chunk)
      /\ Ordered(all) /\ Newer(all, taken) /\ Newer(all, ToSet(urc))
  BY <1>1, JoinKeeps DEF TypeOK, InOrder, Precedes
<1>3. Newer(Unread(chunk), ToSet(response) \cup ToSet(chunk))
  BY <1>1 DEF Precedes, Newer
<1> QED
  BY <1>2, <1>3 DEF Precedes

\* A part of what was read in order.
LEMMA OrderOfPart ==
  ASSUME NEW S, NEW s \in Seq(S), NEW t \in Seq(S), Part(t, s), NEW u, NEW v, NEW L,
         Ordered(s), Newer(s, L), Precedes(u, s), Precedes(s, v)
  PROVE  Ordered(t) /\ Newer(t, L) /\ Precedes(u, t) /\ Precedes(t, v)
BY PartKeeps, NewerThanFewer DEF Precedes

\* Some of what the UART holds goes to the buffer, while no response is in hand.
LEMMA OrderCaptured ==
  ASSUME TypeOK, InOrder, CaptureSome \/ UNCHANGED <<wire, urc>>, response' = <<>>, UNCHANGED taken
  PROVE  InOrder'
<1>1. CASE CaptureSome
  <2>1. PICK chunk \in Chunks : wire' = Unread(chunk) /\ urc' = AppendUrcText(chunk)
    BY <1>1 DEF CaptureSome, Capture, KeepPending
  <2> QED
    BY <2>1, OrderRead, OrderAppended
<1>2. CASE UNCHANGED <<wire, urc>>
  BY <1>2, Nothing DEF InOrder, Precedes
<1> QED
  BY <1>1, <1>2

\* What the UART holds is read and not kept, while no response is in hand.
LEMMA OrderDropped ==
  ASSUME TypeOK, InOrder, NEW chunk \in Chunks, wire' = Unread(chunk), response' = <<>>,
         UNCHANGED <<urc, taken>>
  PROVE  InOrder'
<1>1. Ordered(Unread(chunk)) /\ Newer(Unread(chunk), taken) /\ Precedes(urc, Unread(chunk))
  BY OrderRead
<1> QED
  BY <1>1, Nothing DEF InOrder, Precedes

\* Reading on: the chunk joins the response.
LEMMA OrderReadOn ==
  ASSUME TypeOK, InOrder, NEW chunk \in Chunks, wire' = Unread(chunk),
         response' = Room(response \o chunk), UNCHANGED <<urc, taken>>
  PROVE  InOrder'
<1> DEFINE all == response \o chunk
           kept == Room(all)
<1>1. /\ all \in Seq(Lines)
      /\ Ordered(all) /\ Newer(all, taken) /\ Precedes(urc, all) /\ Precedes(all, Unread(chunk))
  BY OrderJoined
<1>2. /\ Ordered(Unread(chunk)) /\ Newer(Unread(chunk), taken) /\ Precedes(urc, Unread(chunk))
  BY OrderRead
<1>3. kept \in Seq(Lines) /\ Part(kept, all)
  BY <1>1, ResponseKept
<1> HIDE DEF all, kept
<1>4. Ordered(kept) /\ Newer(kept, taken) /\ Precedes(urc, kept) /\ Precedes(kept, Unread(chunk))
  BY <1>1, <1>3, OrderOfPart
<1>5. response' = kept
  BY DEF kept, all
<1> QED
  BY <1>2, <1>4, <1>5 DEF InOrder

\* The end of a response: of all that was read, what had room goes to the buffer.
LEMMA OrderKept ==
  ASSUME TypeOK, InOrder, NEW all \in Seq(Lines), Keep(all), response' = <<>>, UNCHANGED taken,
         Ordered(all), Newer(all, taken), Precedes(urc, all), Precedes(all, wire'),
         Ordered(wire'), Newer(wire', taken), Precedes(urc, wire')
  PROVE  InOrder'
<1> DEFINE room == Room(all)
           kept == Preserve(room)
<1>1. room \in Seq(Lines) /\ Part(room, all)
  BY ResponseKept
<1>2. kept \in Seq(Lines) /\ Part(kept, room)
  BY <1>1, ResponseKept
<1>3. urc' = AppendUrcText(kept)
  BY DEF Keep
<1> HIDE DEF room, kept
<1>4. Ordered(room) /\ Newer(room, taken) /\ Precedes(urc, room) /\ Precedes(room, wire')
  BY <1>1, OrderOfPart
<1>5. Ordered(kept) /\ Newer(kept, taken) /\ Precedes(urc, kept) /\ Precedes(kept, wire')
  BY <1>1, <1>2, <1>4, OrderOfPart
<1> QED
  BY <1>2, <1>3, <1>5, OrderAppended

\* A step keeps the order: what is under way is passed on from the UART to the
\* response, from there to the buffer, and from the buffer to the SMS task.
LEMMA StepInOrder == TypeOK /\ NothingHeld /\ InOrder /\ [Next]_vars => InOrder'
<1> SUFFICES ASSUME TypeOK, NothingHeld, InOrder, [Next]_vars PROVE InOrder'
  OBVIOUS
<1>1. CASE TakeChannel \/ StartDownload \/ NextCommand
  <2>1. /\ CaptureSome \/ UNCHANGED <<wire, urc>>
        /\ response' = <<>> /\ UNCHANGED taken
    BY <1>1 DEF TakeChannel, StartDownload, NextCommand, Begin, sms
  <2> QED
    BY <2>1, OrderCaptured
<1>2. CASE PollUnsolicited
  <2>1. CaptureSome /\ response' = <<>> /\ UNCHANGED taken
    BY <1>2 DEF PollUnsolicited, NothingHeld, Operations, sms
  <2> QED
    BY <2>1, OrderCaptured
<1>3. CASE NextFetch \/ KeepOpen \/ UNCHANGED vars
  <2>1. UNCHANGED <<wire, urc, response, taken>>
    BY <1>3 DEF NextFetch, KeepOpen, vars, NothingHeld, Operations, sms
  <2> QED
    BY <2>1 DEF InOrder
<1>4. CASE ReadOn \/ SubmitPdu
  <2>1. PICK chunk \in Chunks : wire' = Unread(chunk) /\ response' = Room(response \o chunk)
    BY <1>4 DEF ReadOn, SubmitPdu, Gather
  <2>2. UNCHANGED <<urc, taken>>
    BY <1>4 DEF ReadOn, SubmitPdu, sms
  <2> QED
    BY <2>1, <2>2, OrderReadOn
<1>5. CASE Finish
  <2>1. PICK chunk \in Chunks : wire' = Unread(chunk) /\ Keep(response \o chunk)
    BY <1>5 DEF Finish
  <2>2. response' = <<>> /\ UNCHANGED taken
    BY <1>5 DEF Finish, Leave, sms
  <2> DEFINE all == response \o chunk
  <2>3. /\ all \in Seq(Lines)
        /\ Ordered(all) /\ Newer(all, taken) /\ Precedes(urc, all) /\ Precedes(all, Unread(chunk))
    BY OrderJoined
  <2>4. Ordered(Unread(chunk)) /\ Newer(Unread(chunk), taken) /\ Precedes(urc, Unread(chunk))
    BY OrderRead
  <2> HIDE DEF all
  <2>5. Keep(all)
    BY <2>1 DEF all
  <2> QED
    BY <2>1, <2>2, <2>3, <2>4, <2>5, OrderKept
<1>6. CASE TimeOut
  <2>1. Keep(response) /\ response' = <<>> /\ UNCHANGED <<wire, taken>>
    BY <1>6 DEF TimeOut, Leave, sms
  <2> QED
    BY <2>1, OrderKept DEF TypeOK, InOrder
<1>7. CASE FetchLine
  <2>1. PICK line \in Chunks :
          wire' = Unread(line) /\ (urc' = AppendUrcText(line) \/ UNCHANGED urc)
    BY <1>7 DEF FetchLine, KeepPending
  <2>2. response = <<>> /\ response' = <<>> /\ UNCHANGED taken
    BY <1>7 DEF FetchLine, NothingHeld, sms
  <2>3. CASE urc' = AppendUrcText(line)
    BY <2>1, <2>2, <2>3, OrderRead, OrderAppended
  <2>4. CASE UNCHANGED urc
    BY <2>1, <2>2, <2>4, OrderDropped
  <2> QED
    BY <2>1, <2>3, <2>4
<1>8. CASE FetchEnds
  <2>1. PICK chunk \in Chunks : wire' = Unread(chunk)
    BY <1>8 DEF FetchEnds
  <2>2. response' = <<>> /\ UNCHANGED <<urc, taken>>
    BY <1>8 DEF FetchEnds, Leave, sms
  <2> QED
    BY <2>1, <2>2, OrderDropped
<1>9. CASE FetchTimesOut
  <2>1. response' = <<>> /\ UNCHANGED <<urc, taken>>
    BY <1>9 DEF FetchTimesOut, sms
  <2>2. CASE UNCHANGED wire
    BY <2>1, <2>2, OrderCaptured
  <2>3. CASE \E chunk \in Chunks : wire' = Unread(chunk)
    BY <2>1, <2>3, OrderDropped
  <2> QED
    BY <1>9, <2>2, <2>3 DEF FetchTimesOut
<1>10. CASE TakeUrc
  <2>1. urc' = <<>> /\ taken' = taken \cup Pieces(urc) /\ UNCHANGED <<wire, response>>
    BY <1>10 DEF TakeUrc
  <2>2. Pieces(urc) \subseteq ToSet(urc)
    BY DEF Pieces
  <2>3. Newer(wire, taken') /\ Newer(response, taken')
    BY <2>1, <2>2 DEF InOrder, Precedes, Newer
  <2> QED
    BY <2>1, <2>3, Nothing DEF InOrder, Precedes
<1>11. CASE Announce
  <2> DEFINE h == HeadOf(announced + 1)
             q == RestOf(announced + 1)
             s == <<h, q>>
             S == Lines \cup {h, q}
  <2>1. Receive(s) /\ UNCHANGED <<urc, response, taken>>
    BY <1>11 DEF Announce, sms
  <2>2. 2 * (announced + 1) - 1 > 2 * announced /\ 2 * (announced + 1) > 2 * announced
        /\ 2 * (announced + 1) - 1 \in Nat /\ 2 * (announced + 1) \in Nat
    BY DEF TypeOK
  <2>3. \A k \in Lines : Follows(k, h) /\ Follows(k, q)
    BY <2>2, NewLineFollows DEF HeadOf, RestOf, Piece
  <2>4. Follows(h, q)
    BY <2>2 DEF Follows, HeadOf, RestOf, Piece
  <2> HIDE DEF h, q
  <2>5. s \in Seq(S) /\ Lines \subseteq S /\ DOMAIN s = {1, 2} /\ s[1] = h /\ s[2] = q
    OBVIOUS
  <2> HIDE DEF s, S
  <2>6. Ordered(s)
    BY <2>4, <2>5 DEF Ordered
  <2>7. \A k \in Lines : \A i \in DOMAIN s : Follows(k, s[i])
    BY <2>3, <2>5
  <2> QED
    BY <2>1, <2>5, <2>6, <2>7, OrderReceived
<1>12. CASE Answer
  <2>1. PICK kind \in owed : \E what \in {End[kind], "ERROR"} : Receive(<<<<what, 2 * announced>>>>)
    BY <1>12 DEF Answer
  <2>2. PICK what \in {End[kind], "ERROR"} : Receive(<<<<what, 2 * announced>>>>)
    BY <2>1
  <2> DEFINE l == <<what, 2 * announced>>
             s == <<l>>
  <2>3. l \in Lines
    BY AnswersAreLines DEF TypeOK
  <2>4. what # "piece"
    BY DEF TypeOK, Operations, End
  <2>5. \A k \in Lines : Follows(k, l)
    BY <2>4, NewLineFollows DEF TypeOK
  <2> HIDE DEF l
  <2>6. s \in Seq(Lines) /\ DOMAIN s = {1} /\ s[1] = l /\ Receive(s)
    BY <2>2, <2>3 DEF l
  <2> HIDE DEF s
  <2>7. Ordered(s) /\ \A k \in Lines : \A i \in DOMAIN s : Follows(k, s[i])
    BY <2>5, <2>6 DEF Ordered
  <2>8. UNCHANGED <<urc, response, taken>>
    BY <1>12 DEF Answer, sms
  <2> QED
    BY <2>6, <2>7, <2>8, OrderReceived
<1> QED
  BY <1>1, <1>2, <1>3, <1>4, <1>5, <1>6, <1>7, <1>8, <1>9, <1>10, <1>11, <1>12 DEF Next, Read

-----------------------------------------------------------------------------
(* Nothing is swallowed.                                                   *)

\* The pieces of two sequences joined, of a chunk and what is left of the wire.
LEMMA PiecesJoined ==
  ASSUME NEW S, NEW s \in Seq(S), NEW t \in Seq(S)
  PROVE  Pieces(s \o t) = Pieces(s) \cup Pieces(t)
BY JoinKeeps DEF Pieces

LEMMA PiecesRead ==
  ASSUME NEW S, wire \in Seq(S), NEW chunk \in Chunks
  PROVE  Pieces(wire) \subseteq Pieces(chunk) \cup Pieces(Unread(chunk))
<1>1. PICK n \in 1..Len(wire) : chunk = SubSeq(wire, 1, n)
  BY DEF Chunks
<1>2. Len(wire) \in Nat /\ n \in Nat /\ \A i \in 1..Len(wire) : wire[i] \in S
  OBVIOUS
<1>3. Len(chunk) = n /\ \A i \in 1..n : chunk[i] = wire[i]
  BY <1>1, <1>2, SubSeqProperties
<1>4. Unread(chunk) = SubSeq(wire, n + 1, Len(wire))
  BY <1>3 DEF Unread
<1>5. /\ Len(Unread(chunk)) = Len(wire) - n
      /\ \A i \in 1..Len(wire) - n : Unread(chunk)[i] = wire[n + i]
  BY <1>2, <1>4, SubSeqProperties
<1>6. ASSUME NEW i \in 1..Len(wire) PROVE wire[i] \in ToSet(chunk) \cup ToSet(Unread(chunk))
  <2>1. CASE i <= n
    <3>1. i \in 1..Len(chunk) /\ chunk[i] = wire[i]
      BY <1>2, <1>3, <2>1
    <3> QED
      BY <3>1, ChunkRead DEF ToSet
  <2>2. CASE i > n
    <3>1. i - n \in 1..Len(Unread(chunk)) /\ Unread(chunk)[i - n] = wire[i]
      BY <1>2, <1>5, <2>2
    <3> QED
      BY <3>1, ChunkRead DEF ToSet
  <2>3. i <= n \/ i > n
    BY <1>2
  <2> QED
    BY <2>1, <2>2, <2>3
<1> QED
  BY <1>6 DEF Pieces, ToSet

\* What is put to the buffer is found there or lost by the overflow.
LEMMA FoundAppended ==
  ASSUME NEW S, urc \in Seq(S), NEW s \in Seq(S), urc' = AppendUrcText(s),
         Overflow(s) \subseteq lost'
  PROVE  Pieces(urc) \cup Pieces(s) \subseteq Pieces(urc') \cup lost'
<1>1. Pieces(urc \o s) = Pieces(urc) \cup Pieces(s)
  BY PiecesJoined
<1>2. BufferSize \in Nat /\ Len(s) \in Nat /\ Len(urc) \in Nat
  BY SizesPositive
<1>3. CASE Len(urc) + Len(s) < BufferSize
  <2>1. AppendUrcText(s) = urc \o s
    BY <1>2, <1>3 DEF AppendUrcText
  <2> QED
    BY <1>1, <2>1
<1>4. CASE ~(Len(urc) + Len(s) < BufferSize)
  <2>1. Overflow(s) = Pieces(urc \o s) \ Pieces(urc')
    BY <1>4 DEF Overflow, Dropped
  <2> QED
    BY <1>1, <2>1
<1> QED
  BY <1>3, <1>4

\* The pieces under way and those that are gone.
Held == Found \cup Gone

\* The operation begins or the modem task polls.
LEMMA FoundCaptured ==
  ASSUME TypeOK, CaptureSome \/ UNCHANGED <<wire, urc, lost, cut>>, response = <<>>, UNCHANGED carry
  PROVE  Held \subseteq Held'
<1>1. CASE CaptureSome
  <2>1. PICK chunk \in Chunks : Capture(chunk)
    BY <1>1 DEF CaptureSome
  <2>2. /\ wire' = Unread(chunk) /\ urc' = AppendUrcText(chunk)
        /\ lost' = lost \cup Overflow(chunk) /\ cut' = cut
    BY <2>1 DEF Capture, KeepPending
  <2>3. wire \in Seq(Lines) /\ urc \in Seq(Lines) /\ chunk \in Seq(Lines)
    BY ChunkRead DEF TypeOK
  <2>4. Pieces(urc) \cup Pieces(chunk) \subseteq Pieces(urc') \cup lost'
    BY <2>2, <2>3, FoundAppended
  <2>5. Pieces(wire) \subseteq Pieces(chunk) \cup Pieces(wire')
    BY <2>2, <2>3, PiecesRead
  <2>6. Pieces(response) = {}
    BY Nothing DEF Pieces
  <2> QED
    BY <2>2, <2>4, <2>5, <2>6 DEF Held, Found, Gone
<1>2. CASE UNCHANGED <<wire, urc, lost, cut>>
  <2>1. Pieces(response) = {}
    BY Nothing DEF Pieces
  <2> QED
    BY <1>2, <2>1 DEF Held, Found, Gone
<1> QED
  BY <1>1, <1>2

\* A chunk joins the response.
LEMMA FoundGathered ==
  ASSUME TypeOK, NEW chunk \in Chunks, Gather(chunk), UNCHANGED <<urc, carry>>
  PROVE  Held \subseteq Held'
<1>1. chunk \in Seq(Lines) /\ response \in Seq(Lines)
  BY ChunkRead DEF TypeOK
<1>2. Pieces(response \o chunk) = Pieces(response) \cup Pieces(chunk)
  BY <1>1, PiecesJoined
<1>3. Pieces(wire) \subseteq Pieces(chunk) \cup Pieces(wire')
  BY PiecesRead DEF TypeOK, Gather
<1>4. Pieces(response \o chunk) \subseteq Pieces(response') \cup lost'
  BY DEF Gather, Dropped
<1>5. lost \subseteq lost' /\ cut' = cut
  BY DEF Gather
<1> QED
  BY <1>2, <1>3, <1>4, <1>5 DEF Held, Found, Gone

\* The end of a response: what names an announcement is kept, all of it.
LEMMA FoundKept ==
  ASSUME TypeOK, NEW all \in Seq(Lines), Keep(all), UNCHANGED carry,
         Pieces(response) \cup Pieces(wire) \subseteq Pieces(all) \cup Pieces(wire')
  PROVE  Held \subseteq Held'
<1> DEFINE room == Room(all)
           kept == Preserve(room)
<1>1. room \in Seq(Lines)
  BY ResponseKept
<1>2. kept \in Seq(Lines)
  BY <1>1, ResponseKept
<1>3. /\ urc' = AppendUrcText(kept)
      /\ lost' = lost \cup Dropped(all, room) \cup Overflow(kept)
      /\ cut' = cut \cup (IF Names(room) THEN {} ELSE Pieces(room))
  BY DEF Keep
<1>4. Pieces(room) \subseteq Pieces(kept) \cup cut'
  BY <1>3 DEF Preserve
<1> HIDE DEF room, kept
<1>5. Overflow(kept) \subseteq lost'
  BY <1>3
<1>6. Pieces(urc) \cup Pieces(kept) \subseteq Pieces(urc') \cup lost'
  BY <1>2, <1>3, <1>5, FoundAppended DEF TypeOK
<1>7. Pieces(all) \subseteq Pieces(room) \cup lost'
  BY <1>3 DEF Dropped
<1>8. lost \subseteq lost' /\ cut \subseteq cut'
  BY <1>3
<1> QED
  BY <1>4, <1>6, <1>7, <1>8 DEF Held, Found, Gone

\* What the UART receives, or has no room for.
LEMMA FoundReceived ==
  ASSUME TypeOK, NEW S, Lines \subseteq S, NEW s \in Seq(S), Receive(s),
         UNCHANGED <<urc, response, carry>>
  PROVE  Held \subseteq Held' /\ Pieces(s) \subseteq Held'
<1>1. wire \in Seq(S)
  BY SeqMonotonic DEF TypeOK
<1>2. Pieces(wire \o s) = Pieces(wire) \cup Pieces(s)
  BY <1>1, PiecesJoined
<1>3. lost' = lost \cup Dropped(wire \o s, wire') /\ cut' = cut
  BY DEF Receive
<1>4. Pieces(wire \o s) \subseteq Pieces(wire') \cup lost'
  BY <1>3 DEF Dropped
<1> QED
  BY <1>2, <1>3, <1>4 DEF Held, Found, Gone

\* What is read and lost or cut.
LEMMA FoundDropped ==
  ASSUME TypeOK, NEW chunk \in Chunks, wire' = Unread(chunk), response = <<>>,
         UNCHANGED <<urc, carry>>, lost \subseteq lost', cut \subseteq cut',
         Pieces(chunk) \subseteq Gone'
  PROVE  Held \subseteq Held'
<1>1. Pieces(wire) \subseteq Pieces(chunk) \cup Pieces(wire')
  BY PiecesRead DEF TypeOK
<1>2. Pieces(response) = {}
  BY Nothing DEF Pieces
<1> QED
  BY <1>1, <1>2 DEF Held, Found, Gone

\* No reader takes a piece that is under way, but for the SMS task, and what is gone is gone.
LEMMA StepFound ==
  TypeOK /\ NothingHeld /\ [Next]_vars => TakeUrc \/ (Held \subseteq Held' /\ UNCHANGED <<told, joined>>)
<1> SUFFICES ASSUME TypeOK, NothingHeld, [Next]_vars
             PROVE  TakeUrc \/ (Held \subseteq Held' /\ UNCHANGED <<told, joined>>)
  OBVIOUS
<1>0. TakeUrc \/ UNCHANGED <<carry, told, joined>>
  BY DEF Next, Read, TakeChannel, PollUnsolicited, StartDownload, NextCommand, NextFetch, KeepOpen,
         ReadOn, SubmitPdu, Finish, TimeOut, FetchLine, FetchEnds, FetchTimesOut, Announce, Answer,
         vars, sms
<1> SUFFICES ASSUME UNCHANGED <<carry, told, joined>>, ~TakeUrc PROVE Held \subseteq Held'
  BY <1>0
<1>1. CASE TakeChannel \/ StartDownload \/ NextCommand \/ PollUnsolicited
  <2>1. (CaptureSome \/ UNCHANGED <<wire, urc, lost, cut>>) /\ response = <<>>
    BY <1>1 DEF TakeChannel, StartDownload, NextCommand, PollUnsolicited, Begin, NothingHeld, Operations
  <2> QED
    BY <2>1, FoundCaptured
<1>2. CASE NextFetch \/ KeepOpen \/ UNCHANGED vars
  <2>1. UNCHANGED <<wire, urc, response, lost, cut>>
    BY <1>2 DEF NextFetch, KeepOpen, vars, NothingHeld, Operations
  <2> QED
    BY <2>1 DEF Held, Found, Gone
<1>3. CASE ReadOn \/ SubmitPdu
  <2>1. PICK chunk \in Chunks : Gather(chunk)
    BY <1>3 DEF ReadOn, SubmitPdu
  <2>2. UNCHANGED urc
    BY <1>3 DEF ReadOn, SubmitPdu
  <2> QED
    BY <2>1, <2>2, FoundGathered
<1>4. CASE Finish
  <2>1. PICK chunk \in Chunks : wire' = Unread(chunk) /\ Keep(response \o chunk)
    BY <1>4 DEF Finish
  <2>2. chunk \in Seq(Lines) /\ response \in Seq(Lines)
    BY ChunkRead DEF TypeOK
  <2>3. response \o chunk \in Seq(Lines)
    BY <2>2
  <2>4. Pieces(response \o chunk) = Pieces(response) \cup Pieces(chunk)
    BY <2>2, PiecesJoined
  <2>5. Pieces(wire) \subseteq Pieces(chunk) \cup Pieces(wire')
    BY <2>1, PiecesRead DEF TypeOK
  <2> QED
    BY <2>1, <2>3, <2>4, <2>5, FoundKept
<1>5. CASE TimeOut
  <2>1. Keep(response) /\ UNCHANGED wire
    BY <1>5 DEF TimeOut
  <2> QED
    BY <2>1, FoundKept DEF TypeOK
<1>6. CASE FetchLine
  <2>1. PICK line \in Chunks :
          /\ wire' = Unread(line)
          /\ \/ KeepPending(line) /\ UNCHANGED cut
             \/ cut' = cut \cup Pieces(line) /\ UNCHANGED <<urc, lost>>
    BY <1>6 DEF FetchLine
  <2>2. response = <<>> /\ UNCHANGED response
    BY <1>6 DEF FetchLine, NothingHeld
  <2>3. CASE KeepPending(line) /\ UNCHANGED cut
    <3>1. Capture(line)
      BY <2>1, <2>3 DEF Capture
    <3>2. CaptureSome
      BY <3>1 DEF CaptureSome
    <3> QED
      BY <2>2, <3>2, FoundCaptured
  <2>4. CASE cut' = cut \cup Pieces(line) /\ UNCHANGED <<urc, lost>>
    <3>1. Pieces(line) \subseteq Gone' /\ cut \subseteq cut'
      BY <2>4 DEF Gone
    <3> QED
      BY <2>1, <2>2, <2>4, <3>1, FoundDropped
  <2> QED
    BY <2>1, <2>3, <2>4
<1>7. CASE FetchEnds
  <2>1. PICK chunk \in Chunks : wire' = Unread(chunk) /\ lost' = lost \cup Pieces(chunk)
    BY <1>7 DEF FetchEnds
  <2>2. UNCHANGED <<urc, cut>> /\ response = <<>>
    BY <1>7 DEF FetchEnds, NothingHeld
  <2>3. Pieces(chunk) \subseteq Gone' /\ lost \subseteq lost'
    BY <2>1 DEF Gone
  <2> QED
    BY <2>1, <2>2, <2>3, FoundDropped
<1>8. CASE FetchTimesOut
  <2>1. UNCHANGED <<urc, lost>> /\ response = <<>> /\ response' = <<>>
    BY <1>8 DEF FetchTimesOut, NothingHeld
  <2>2. CASE UNCHANGED <<wire, cut>>
    BY <2>1, <2>2 DEF Held, Found, Gone
  <2>3. CASE \E chunk \in Chunks : wire' = Unread(chunk) /\ cut' = cut \cup Pieces(chunk)
    <3>1. PICK chunk \in Chunks : wire' = Unread(chunk) /\ cut' = cut \cup Pieces(chunk)
      BY <2>3
    <3>2. Pieces(chunk) \subseteq Gone' /\ cut \subseteq cut'
      BY <3>1 DEF Gone
    <3> QED
      BY <2>1, <3>1, <3>2, FoundDropped
  <2> QED
    BY <1>8, <2>2, <2>3 DEF FetchTimesOut
<1>9. CASE Announce
  <2> DEFINE h == HeadOf(announced')
             q == RestOf(announced')
             S == Lines \cup {h, q}
  <2>1. Receive(<<h, q>>) /\ UNCHANGED <<urc, response>>
    BY <1>9 DEF Announce
  <2> HIDE DEF h, q
  <2>2. <<h, q>> \in Seq(S) /\ Lines \subseteq S
    OBVIOUS
  <2> HIDE DEF S
  <2> QED
    BY <2>1, <2>2, FoundReceived
<1>10. CASE Answer
  <2>1. PICK kind \in owed : \E what \in {End[kind], "ERROR"} : Receive(<<<<what, 2 * announced>>>>)
    BY <1>10 DEF Answer
  <2>2. PICK what \in {End[kind], "ERROR"} : Receive(<<<<what, 2 * announced>>>>)
    BY <2>1
  <2> DEFINE l == <<what, 2 * announced>>
  <2>3. l \in Lines
    BY AnswersAreLines DEF TypeOK
  <2> HIDE DEF l
  <2>4. <<l>> \in Seq(Lines) /\ Receive(<<l>>)
    BY <2>2, <2>3 DEF l
  <2>5. UNCHANGED <<urc, response>>
    BY <1>10 DEF Answer
  <2> QED
    BY <2>4, <2>5, FoundReceived
<1> QED
  BY <1>1, <1>2, <1>3, <1>4, <1>5, <1>6, <1>7, <1>8, <1>9, <1>10 DEF Next, Read

\* A line in what the SMS task takes that another comes after, not taken yet, with no
\* line of the network between the two, is the last.
LEMMA NothingBetween ==
  ASSUME NEW n \in Nat \ {0}, NEW text \in Seq(Lines), Ordered(text), NEW i \in 1..Len(text),
         text[i] = HeadOf(n), \A l \in ToSet(text) : Follows(l, RestOf(n)), announced \in Nat
  PROVE  Last(text) = HeadOf(n) /\ IsHead(Last(text))
<1>1. i = Len(text)
  <2> SUFFICES ASSUME i # Len(text) PROVE FALSE
    OBVIOUS
  <2>1. i \in 1..Len(text) /\ i + 1 \in 1..Len(text) /\ i < i + 1
    OBVIOUS
  <2> DEFINE l == text[i + 1]
  <2>2. l \in Lines /\ l \in ToSet(text)
    BY <2>1 DEF ToSet
  <2>3. Follows(HeadOf(n), l) /\ Follows(l, RestOf(n))
    BY <2>1, <2>2 DEF Ordered
  <2> HIDE DEF l
  <2>4. /\ 2 * n - 1 < l[2] \/ (l[2] = 2 * n - 1 /\ ~IsPiece(l))
        /\ l[2] < 2 * n
    <3>1. /\ HeadOf(n)[2] = 2 * n - 1 /\ RestOf(n)[2] = 2 * n /\ IsPiece(RestOf(n))
      BY DEF HeadOf, RestOf, Piece, IsPiece
    <3> QED
      BY <2>3, <3>1 DEF Follows
  <2>5. CASE \E k \in 1..(2 * announced) : l = Piece(k)
    BY <2>4, <2>5 DEF Piece, IsPiece
  <2>6. CASE \E what \in Answers, m \in 0..announced : l = <<what, 2 * m>>
    BY <2>4, <2>6
  <2> QED
    BY <2>2, <2>5, <2>6 DEF Lines
<1>2. Last(text) = HeadOf(n)
  BY <1>1 DEF Last
<1>3. IsHead(HeadOf(n))
  <2>1. HeadOf(n)[1] = "piece" /\ HeadOf(n)[2] = 2 * n - 1
    BY DEF HeadOf, Piece
  <2>2. (2 * n - 1) % 2 = 1
    OBVIOUS
  <2> QED
    BY <2>1, <2>2 DEF IsHead, IsPiece
<1> QED
  BY <1>2, <1>3

\* The SMS task reads an announcement whole, or both its pieces are still to be read: the
\* head alone is what it carries to the next taking.
LEMMA TakenWhole ==
  ASSUME TypeOK, InOrder, Carried, TakeUrc, NEW n \in 1..announced, Of(n) \subseteq Found
  PROVE  n \in told' \/ n \in joined' \/ Of(n) \subseteq Found'
<1> DEFINE text == carry \o urc
           h == HeadOf(n)
           q == RestOf(n)
           away == Pieces(wire) \cup Pieces(response)
<1>1. announced \in Nat /\ n \in Nat \ {0} /\ 2 * n - 1 < 2 * n
  BY DEF TypeOK
<1>2. /\ carry \in Seq(Lines) /\ urc \in Seq(Lines) /\ text \in Seq(Lines)
      /\ Pieces(text) = Pieces(carry) \cup Pieces(urc)
      /\ ToSet(text) = ToSet(carry) \cup ToSet(urc)
  BY JoinKeeps, PiecesJoined DEF TypeOK
<1>3. ToSet(carry) \subseteq taken
  BY <1>2 DEF Carried, ToSet
<1>4. Ordered(text)
  <2>1. Ordered(carry)
    <3>1. \A i, j \in DOMAIN carry : ~(i < j)
      BY <1>2 DEF TypeOK
    <3> QED
      BY <3>1 DEF Ordered
  <2>2. Precedes(carry, urc) /\ Ordered(urc)
    BY <1>3, NewerThanFewer DEF InOrder, Precedes
  <2> QED
    BY <1>2, <2>1, <2>2, JoinKeeps
<1>5. \A l \in ToSet(text), k \in away : Follows(l, k)
  <2>1. /\ Newer(wire, ToSet(urc)) /\ Newer(response, ToSet(urc))
        /\ Newer(wire, taken) /\ Newer(response, taken)
    BY DEF InOrder, Precedes
  <2> SUFFICES ASSUME NEW l \in ToSet(text), NEW k \in away PROVE Follows(l, k)
    OBVIOUS
  <2>2. l \in taken \/ l \in ToSet(urc)
    BY <1>2, <1>3
  <2>3. CASE k \in Pieces(wire)
    <3>1. PICK i \in DOMAIN wire : k = wire[i]
      BY <2>3 DEF Pieces, ToSet
    <3> QED
      BY <2>1, <2>2, <3>1 DEF Newer
  <2>4. CASE k \in Pieces(response)
    <3>1. PICK i \in DOMAIN response : k = response[i]
      BY <2>4 DEF Pieces, ToSet
    <3> QED
      BY <2>1, <2>2, <3>1 DEF Newer
  <2> QED
    BY <2>3, <2>4
<1>6. /\ told' = told \cup (Whole(text) \ Joined(text))
      /\ joined' = joined \cup Joined(text)
      /\ carry' = (IF IsHead(Last(text)) THEN <<Last(text)>> ELSE <<>>)
      /\ UNCHANGED <<wire, response>>
  BY DEF TakeUrc
<1>7. away \subseteq Found'
  BY <1>6 DEF Found
<1>8. h \in Pieces(text) \cup away /\ q \in Pieces(text) \cup away
  BY <1>2 DEF Of, Found
<1>9. ~Follows(q, h) /\ Of(n) = {h, q}
  BY <1>1 DEF Follows, HeadOf, RestOf, Piece, IsPiece, Of
<1> HIDE DEF text, h, q, away
<1>10. Pieces(text) \subseteq ToSet(text)
  BY DEF Pieces
<1>11. CASE h \in Pieces(text) /\ q \in Pieces(text)
  <2>1. n \in Whole(text)
    BY <1>9, <1>10, <1>11 DEF Whole
  <2> QED
    BY <1>6, <2>1
<1>12. CASE h \notin Pieces(text)
  <2>1. h \in away /\ q \in away
    BY <1>5, <1>8, <1>9, <1>10, <1>12
  <2> QED
    BY <1>7, <1>9, <2>1
<1>13. CASE h \in Pieces(text) /\ q \notin Pieces(text)
  <2>1. q \in away
    BY <1>8, <1>13
  <2>2. PICK i \in 1..Len(text) : text[i] = h
    BY <1>2, <1>10, <1>13 DEF ToSet
  <2>3. \A l \in ToSet(text) : Follows(l, q)
    BY <1>5, <2>1
  <2>4. Last(text) = h /\ IsHead(Last(text))
    BY <1>1, <1>2, <1>4, <2>2, <2>3, NothingBetween DEF h, q
  <2>5. carry' = <<h>> /\ IsPiece(h)
    BY <1>6, <2>4 DEF IsHead
  <2>6. h \in Pieces(carry')
    <3>1. <<h>>[1] = h /\ 1 \in DOMAIN <<h>>
      OBVIOUS
    <3> QED
      BY <2>5, <3>1 DEF Pieces, ToSet
  <2> QED
    BY <1>7, <1>9, <2>1, <2>6 DEF Found
<1> QED
  BY <1>11, <1>12, <1>13

\* A new announcement is in the UART, but for what it had no room for.
LEMMA NewFound ==
  ASSUME TypeOK, Announce
  PROVE  Of(announced') \subseteq Held'
<1> DEFINE h == HeadOf(announced')
           q == RestOf(announced')
           S == Lines \cup {h, q}
<1>1. Receive(<<h, q>>) /\ UNCHANGED <<urc, response, carry>>
  BY DEF Announce, sms
<1>2. IsPiece(h) /\ IsPiece(q) /\ Of(announced') = {h, q}
  BY DEF IsPiece, HeadOf, RestOf, Piece, Of
<1> HIDE DEF h, q
<1>3. <<h, q>> \in Seq(S) /\ Lines \subseteq S
  OBVIOUS
<1> HIDE DEF S
<1>4. Pieces(<<h, q>>) \subseteq Held'
  BY <1>1, <1>3, FoundReceived
<1>5. h \in Pieces(<<h, q>>) /\ q \in Pieces(<<h, q>>)
  <2>1. <<h, q>>[1] = h /\ <<h, q>>[2] = q /\ DOMAIN <<h, q>> = {1, 2}
    OBVIOUS
  <2> QED
    BY <1>2, <2>1 DEF Pieces, ToSet
<1> QED
  BY <1>2, <1>4, <1>5

LEMMA StepNoneSwallowed ==
  TypeOK /\ NothingHeld /\ InOrder /\ Carried /\ NoneSwallowed /\ [Next]_vars => NoneSwallowed'
<1> SUFFICES ASSUME TypeOK, NothingHeld, InOrder, Carried, NoneSwallowed, [Next]_vars
             PROVE  NoneSwallowed'
  OBVIOUS
<1>1. CASE TakeUrc
  <2>1. /\ announced' = announced /\ told \subseteq told' /\ joined \subseteq joined'
        /\ UNCHANGED <<lost, cut>>
    BY <1>1 DEF TakeUrc
  <2>2. ASSUME NEW n \in 1..announced, Of(n) \subseteq Found
        PROVE  n \in told' \/ n \in joined' \/ Of(n) \subseteq Found'
    BY <1>1, <2>2, TakenWhole
  <2> QED
    BY <2>1, <2>2 DEF NoneSwallowed, Excused, Gone
<1>2. CASE ~TakeUrc
  <2>1. Held \subseteq Held' /\ UNCHANGED <<told, joined>>
    BY <1>2, StepFound
  <2>2. ASSUME NEW n \in Nat, Of(n) \subseteq Held'
        PROVE  Of(n) \cap Gone' # {} \/ Of(n) \subseteq Found'
    BY <2>2 DEF Held
  <2>3. ASSUME NEW n \in 1..announced
        PROVE  n \in told' \/ n \in joined' \/ Of(n) \subseteq Held' \/ Of(n) \cap Gone' # {}
    <3>1. Gone \subseteq Gone'
      BY DEF Next, Read, TakeChannel, PollUnsolicited, StartDownload, NextCommand, NextFetch,
             KeepOpen, ReadOn, SubmitPdu, Finish, TimeOut, FetchLine, FetchEnds, FetchTimesOut,
             TakeUrc, Announce, Answer, vars, Begin, CaptureSome, Capture, KeepPending, Gather,
             Keep, Receive, Gone
    <3> QED
      BY <2>1, <3>1 DEF NoneSwallowed, Excused, Held
  <2>4. announced' = announced \/ Announce
    BY DEF Next, Read, TakeChannel, PollUnsolicited, StartDownload, NextCommand, NextFetch,
           KeepOpen, ReadOn, SubmitPdu, Finish, TimeOut, FetchLine, FetchEnds, FetchTimesOut,
           TakeUrc, Answer, vars
  <2>5. announced \in Nat
    BY DEF TypeOK
  <2>6. CASE announced' = announced
    BY <2>2, <2>3, <2>5, <2>6 DEF NoneSwallowed, Excused
  <2>7. CASE Announce
    <3>1. announced' = announced + 1 /\ Of(announced') \subseteq Held'
      BY <2>7, NewFound DEF Announce
    <3>2. \A n \in 1..announced' : n \in Nat /\ (n \in 1..announced \/ n = announced')
      BY <2>5, <3>1
    <3> QED
      BY <2>2, <2>3, <3>1, <3>2 DEF NoneSwallowed, Excused
  <2> QED
    BY <2>4, <2>6, <2>7
<1> QED
  BY <1>1, <1>2

-----------------------------------------------------------------------------
\* What the SMS task takes next is in the order of the network and newer than all it took
\* before, with buffers of every size, whatever overflows, is cut or answered late, and
\* wherever a read ends, in the middle of an announcement too: nothing is taken twice or
\* out of turn, and every announcement is read whole or both its pieces are still to be
\* read, but for one of which a piece met a full buffer or the end of a download, was read
\* with nothing that says what it is, or runs into a line cut short before it
\* (idf_modem.cpp:523, 841, 999).
THEOREM AnnouncementsInOrder == Spec => []TakenOnceInOrder
<1>1. Init => OrderInv
  <2> SUFFICES ASSUME Init PROVE OrderInv
    OBVIOUS
  <2>1. (retried \in BOOLEAN)
    BY Zenon DEF Init
  <2>2. TypeOK
    BY <2>1, BoundIsNat, SizesPositive DEF Init, TypeOK
  <2>3. NothingHeld /\ Carried /\ NoneSwallowed
    BY DEF Init, NothingHeld, Carried, NoneSwallowed
  <2>4. InOrder
    BY Nothing DEF Init, InOrder, Precedes
  <2> QED
    BY <2>2, <2>3, <2>4 DEF OrderInv
<1>2. OrderInv /\ [Next]_vars => OrderInv'
  BY StepTyped, StepHeld, StepInOrder, StepCarried, StepNoneSwallowed DEF OrderInv
<1>3. OrderInv => TakenOnceInOrder
  BY DEF OrderInv, InOrder, TakenOnceInOrder
<1> QED
  BY <1>1, <1>2, <1>3, PTL DEF Spec
=============================================================================
