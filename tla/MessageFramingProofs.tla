------------------------ MODULE MessageFramingProofs ------------------------
(***************************************************************************)
(* Theorems about MessageFraming, for every way in which read cuts the     *)
(* streams and process closes connections: its types; and that the stream  *)
(* of each connection is cut into exactly the messages that were sent,     *)
(* unless a read has ended inside one of its headers or its descriptor had *)
(* a buffer when it was opened.                                            *)
(***************************************************************************)
EXTENDS MessageFraming, SequenceTheorems, WellFoundedInduction, TLAPS

\* A nonempty set of natural numbers has a least element: the loops that look
\* for a buffer stop at the first one, and the cells of a stream are counted.
LEMMA LeastNumber ==
  ASSUME NEW S \in SUBSET Nat, S # {}
  PROVE \E m \in S : \A k \in S : m <= k
  <1>1. PICK m \in S : \A k \in S : ~ (<<k, m>> \in OpToRel(<, Nat))
    BY WFMin, NatLessThanWellFounded, Zenon
  <1>2. \A k \in S : ~ (k < m) BY <1>1 DEF OpToRel
  <1> QED BY <1>2

-----------------------------------------------------------------------------
(* Streams of cells *)

\* What is left of a sequence of cells without the first n.
LEMMA RestOfCells ==
  ASSUME NEW cells \in Seq(CellType), NEW n \in 0..Len(cells)
  PROVE LET rest == SubSeq(cells, n + 1, Len(cells))
        IN /\ rest \in Seq(CellType) /\ Len(rest) = Len(cells) - n
           /\ \A i \in 1..(Len(cells) - n) : rest[i] = cells[n + i]
  <1> DEFINE rest == SubSeq(cells, n + 1, Len(cells))
  <1>1. Len(cells) \in Nat /\ n \in Nat /\ n <= Len(cells) OBVIOUS
  <1>2. \A i \in (n + 1)..Len(cells) : cells[i] \in CellType OBVIOUS
  <1>3. /\ rest \in Seq(CellType)
        /\ Len(rest) = IF n + 1 <= Len(cells) THEN Len(cells) - (n + 1) + 1 ELSE 0
        /\ \A i \in 1..(Len(cells) - (n + 1) + 1) : rest[i] = cells[(n + 1) + i - 1]
    BY <1>1, <1>2, SubSeqProperties
  <1> HIDE DEF rest
  <1>4. Len(rest) = Len(cells) - n BY <1>1, <1>3
  <1>5. Len(cells) - (n + 1) + 1 = Len(cells) - n BY <1>1
  <1>6. \A i \in 1..(Len(cells) - n) : (n + 1) + i - 1 = n + i BY <1>1
  <1> QED BY <1>3, <1>4, <1>5, <1>6 DEF rest

\* The cell after one that does not end its message.
LEMMA NextPlace ==
  ASSUME NEW gen, NEW k, NEW n \in Int, n < MessageSize(k)
  PROVE Following(Cell(gen, k, n)) = Cell(gen, k, n + 1)
  <1>1. Cell(gen, k, n).of = k /\ Cell(gen, k, n).at = n BY DEF Cell
  <1>2. Following(Cell(gen, k, n)) = [Cell(gen, k, n) EXCEPT !.at = @ + 1]
    BY <1>1 DEF Following
  <1>3. [Cell(gen, k, n) EXCEPT !.at = @ + 1] = Cell(gen, k, n + 1) BY DEF Cell
  <1> QED BY <1>2, <1>3

\* Within a message each cell is the next one of the message.
LEMMA CellsInTurn ==
  ASSUME NEW cells \in Seq(CellType), NEW gen \in Nat, NEW k \in 1..Len(BodyLengths),
         NEW a \in Nat \ {0}, cells # <<>>, cells[1] = Cell(gen, k, a),
         \A i \in 1..(Len(cells) - 1) : cells[i + 1] = Following(cells[i])
  PROVE \A i \in 1..Len(cells) :
          a + i - 1 <= MessageSize(k) => cells[i] = Cell(gen, k, a + i - 1)
  <1> DEFINE Wrong == {i \in 1..Len(cells) :
                         a + i - 1 <= MessageSize(k) /\ cells[i] # Cell(gen, k, a + i - 1)}
  <1>1. MessageSize(k) \in Nat BY BodyAssumption DEF MessageSize, HeaderSize
  <1>2. SUFFICES ASSUME Wrong # {} PROVE FALSE OBVIOUS
  <1>3. Wrong \in SUBSET Nat OBVIOUS
  <1>4. PICK i \in Wrong : \A j \in Wrong : i <= j BY <1>2, <1>3, LeastNumber
  <1>5. i # 1 BY <1>4
  <1>6. i - 1 \in 1..(Len(cells) - 1) /\ i - 1 \notin Wrong BY <1>4, <1>5
  <1>7. a + (i - 1) - 1 < MessageSize(k) BY <1>1, <1>4, <1>6
  <1>8. cells[i - 1] = Cell(gen, k, a + (i - 1) - 1) BY <1>1, <1>6, <1>7
  <1>9. cells[i] = Following(cells[i - 1])
    <2>1. cells[(i - 1) + 1] = Following(cells[i - 1]) BY <1>6
    <2>2. (i - 1) + 1 = i BY <1>4
    <2> QED BY <2>1, <2>2
  <1>10. Following(cells[i - 1]) = Cell(gen, k, a + i - 1)
    <2> DEFINE n == a + (i - 1) - 1
    <2>1. n \in Int /\ n + 1 = a + i - 1 BY <1>4
    <2>2. cells[i - 1] = Cell(gen, k, n) BY <1>8
    <2>3. n < MessageSize(k) BY <1>7
    <2> HIDE DEF n
    <2>4. Following(Cell(gen, k, n)) = Cell(gen, k, n + 1) BY <2>1, <2>3, NextPlace
    <2> QED BY <2>1, <2>2, <2>4
  <1> QED BY <1>4, <1>9, <1>10

\* A later cell is never one of an earlier message.
LEMMA MessagesInTurn ==
  ASSUME NEW cells \in Seq(CellType),
         \A i \in 1..(Len(cells) - 1) : cells[i + 1] = Following(cells[i])
  PROVE \A i, j \in 1..Len(cells) : i <= j => cells[i].of <= cells[j].of
  <1> SUFFICES ASSUME NEW i \in 1..Len(cells) 
               PROVE \A j \in 1..Len(cells) : i <= j => cells[i].of <= cells[j].of
    OBVIOUS
  <1> DEFINE Wrong == {j \in 1..Len(cells) : i <= j /\ ~ (cells[i].of <= cells[j].of)}
  <1>1. \A j \in 1..Len(cells) : cells[j] \in CellType /\ cells[j].of \in Nat
    <2>1. Len(BodyLengths) \in Nat BY BodyAssumption
    <2>2. \A j \in 1..Len(cells) : cells[j] \in CellType OBVIOUS
    <2> QED BY <2>1, <2>2 DEF CellType
  <1>2. SUFFICES ASSUME Wrong # {} PROVE FALSE OBVIOUS
  <1>3. Wrong \in SUBSET Nat OBVIOUS
  <1>4. PICK j \in Wrong : \A k \in Wrong : j <= k BY <1>2, <1>3, LeastNumber
  <1>5. j # i BY <1>1, <1>4
  <1>6. j - 1 \in 1..(Len(cells) - 1) /\ i <= j - 1 /\ j - 1 \notin Wrong BY <1>4, <1>5
  <1>7. cells[j] = Following(cells[j - 1])
    <2>1. cells[(j - 1) + 1] = Following(cells[j - 1]) BY <1>6
    <2>2. (j - 1) + 1 = j BY <1>4
    <2> QED BY <2>1, <2>2
  <1>8. cells[j - 1].of <= cells[j].of
    <2>1. cells[j - 1] \in CellType /\ cells[j - 1].of \in Nat BY <1>1, <1>6
    <2>2. Following(cells[j - 1]).of \in {cells[j - 1].of, cells[j - 1].of + 1}
      BY <2>1 DEF Following, Cell, CellType
    <2> QED BY <1>7, <2>1, <2>2
  <1>9. cells[i].of <= cells[j - 1].of BY <1>6
  <1> QED BY <1>1, <1>4, <1>6, <1>8, <1>9

\* A stream of messages starts with all the cells of the first one.
LEMMA FirstMessage ==
  ASSUME NEW cells \in Seq(CellType), NEW gen \in Nat, NEW from \in 1..Len(BodyLengths),
         NEW to \in from..Len(BodyLengths), AreMessages(cells, gen, from, to)
  PROVE /\ MessageSize(from) <= Len(cells)
        /\ \A i \in 1..MessageSize(from) : cells[i] = Cell(gen, from, i)
  <1>1. MessageSize(from) \in Nat /\ MessageSize(from) >= 1
    BY BodyAssumption DEF MessageSize, HeaderSize
  <1>2. cells # <<>> /\ cells[1] = Cell(gen, from, 1)
        /\ cells[Len(cells)] = Cell(gen, to, MessageSize(to))
        /\ \A i \in 1..(Len(cells) - 1) : cells[i + 1] = Following(cells[i])
    BY DEF AreMessages
  <1>3. \A i \in 1..Len(cells) :
          1 + i - 1 <= MessageSize(from) => cells[i] = Cell(gen, from, 1 + i - 1)
    BY <1>2, CellsInTurn
  <1>4. \A i \in 1..Len(cells) : i <= MessageSize(from) => cells[i] = Cell(gen, from, i)
    BY <1>1, <1>3
  <1>5. ASSUME Len(cells) < MessageSize(from) PROVE FALSE
    <2>1. Len(cells) \in 1..Len(cells) BY <1>2
    <2>2. cells[Len(cells)] = Cell(gen, from, Len(cells)) BY <1>1, <1>4, <1>5, <2>1
    <2>3. Cell(gen, to, MessageSize(to)) = Cell(gen, from, Len(cells)) BY <1>2, <2>2
    <2>4. to = from /\ MessageSize(to) = Len(cells) BY <2>3 DEF Cell
    <2> QED BY <1>1, <1>5, <2>4
  <1> QED BY <1>1, <1>4, <1>5

\* Without the cells of its first message it is a stream of the other messages.
LEMMA OtherMessages ==
  ASSUME NEW cells \in Seq(CellType), NEW gen \in Nat, NEW from \in 1..Len(BodyLengths),
         NEW to \in from..Len(BodyLengths), AreMessages(cells, gen, from, to)
  PROVE AreMessages(SubSeq(cells, MessageSize(from) + 1, Len(cells)), gen, from + 1, to)
  <1> DEFINE n == MessageSize(from)
             rest == SubSeq(cells, n + 1, Len(cells))
  <1>1. n \in Nat /\ n >= 1 BY BodyAssumption DEF MessageSize, HeaderSize
  <1>2. n <= Len(cells) /\ cells[n] = Cell(gen, from, n) BY <1>1, FirstMessage
  <1>3. cells[Len(cells)] = Cell(gen, to, MessageSize(to)) /\ Len(cells) \in Nat
        /\ \A i \in 1..(Len(cells) - 1) : cells[i + 1] = Following(cells[i])
    BY <1>1, <1>2 DEF AreMessages
  <1> HIDE DEF n
  <1>4. rest \in Seq(CellType) /\ Len(rest) = Len(cells) - n
        /\ \A i \in 1..(Len(cells) - n) : rest[i] = cells[n + i]
    <2>1. n \in 0..Len(cells) BY <1>1, <1>2, <1>3
    <2> QED BY <2>1, RestOfCells
  <1> HIDE DEF rest
  <1>5. CASE Len(cells) = n
    <2>1. rest = <<>> BY <1>4, <1>5
    <2>2. from = to BY <1>2, <1>3, <1>5 DEF Cell
    <2>3. AreMessages(<<>>, gen, from + 1, to) BY <2>2 DEF AreMessages
    <2> QED BY <2>1, <2>3 DEF rest, n
  <1>6. CASE Len(cells) # n
    <2>1. Len(cells) - n \in Nat \ {0} /\ rest # <<>> BY <1>1, <1>2, <1>3, <1>4, <1>6
    <2>2. rest[1] = Cell(gen, from + 1, 1)
      <3>1. cells[n + 1] = Following(cells[n]) BY <1>1, <1>2, <1>3, <1>6
      <3>2. Following(cells[n]) = Cell(gen, from + 1, 1) BY <1>1, <1>2 DEF Following, Cell, n
      <3> QED BY <1>4, <2>1, <3>1, <3>2
    <2>3. rest[Len(rest)] = Cell(gen, to, MessageSize(to))
      <3>1. rest[Len(cells) - n] = cells[n + (Len(cells) - n)] BY <1>4, <2>1
      <3>2. n + (Len(cells) - n) = Len(cells) BY <1>1, <1>3
      <3> QED BY <1>3, <1>4, <3>1, <3>2
    <2>4. \A i \in 1..(Len(rest) - 1) : rest[i + 1] = Following(rest[i])
      <3> SUFFICES ASSUME NEW i \in 1..(Len(rest) - 1) PROVE rest[i + 1] = Following(rest[i])
        OBVIOUS
      <3>1. i \in 1..(Len(cells) - n) /\ i + 1 \in 1..(Len(cells) - n) /\ n + i \in 1..(Len(cells) - 1)
        BY <1>1, <1>3, <1>4
      <3>2. rest[i] = cells[n + i] /\ rest[i + 1] = cells[n + (i + 1)] BY <1>4, <3>1
      <3>3. n + (i + 1) = (n + i) + 1 BY <1>1
      <3>4. cells[(n + i) + 1] = Following(cells[n + i]) BY <1>3, <3>1
      <3> QED BY <3>2, <3>3, <3>4
    <2>5. ~ (from + 1 > to)
      <3>1. cells[n + 1].of = from + 1 BY <1>4, <2>1, <2>2 DEF Cell
      <3>2. cells[Len(cells)].of = to BY <1>3 DEF Cell
      <3>3. n + 1 \in 1..Len(cells) /\ Len(cells) \in 1..Len(cells) /\ n + 1 <= Len(cells)
        BY <1>1, <1>2, <1>3, <1>6
      <3>4. cells[n + 1].of <= cells[Len(cells)].of BY <1>3, <3>3, MessagesInTurn
      <3> QED BY <3>1, <3>2, <3>4
    <2>6. AreMessages(rest, gen, from + 1, to) BY <2>1, <2>2, <2>3, <2>4, <2>5 DEF AreMessages
    <2> QED BY <2>6 DEF rest, n
  <1> QED BY <1>5, <1>6

\* A message that is sent joins the end of the stream.
LEMMA SentMessage ==
  ASSUME NEW cells \in Seq(CellType), NEW gen \in Nat, NEW from \in Nat \ {0}, NEW to \in Nat,
         from <= to + 1, to + 1 <= Len(BodyLengths), AreMessages(cells, gen, from, to)
  PROVE AreMessages(cells \o MessageCells(gen, to + 1), gen, from, to + 1)
  <1> DEFINE n == MessageSize(to + 1)
             added == MessageCells(gen, to + 1)
             all == cells \o added
  <1>1. n \in Nat /\ n >= 2 BY BodyAssumption DEF MessageSize, HeaderSize
  <1>2. added \in Seq(CellType) /\ Len(added) = n
        /\ \A i \in 1..n : added[i] = Cell(gen, to + 1, i)
    <2>1. \A i \in 1..n : Cell(gen, to + 1, i) \in CellType BY DEF Cell, CellType
    <2>2. [i \in 1..n |-> Cell(gen, to + 1, i)] \in Seq(CellType) BY <1>1, <2>1
    <2>3. Len([i \in 1..n |-> Cell(gen, to + 1, i)]) = n BY <1>1
    <2> QED BY <2>2, <2>3 DEF MessageCells
  <1>3. /\ cells = <<>> <=> from > to
        /\ cells # <<>> => cells[1] = Cell(gen, from, 1)
                           /\ cells[Len(cells)] = Cell(gen, to, MessageSize(to))
        /\ \A i \in 1..(Len(cells) - 1) : cells[i + 1] = Following(cells[i])
    BY DEF AreMessages
  <1> HIDE DEF added, n
  <1>4. all \in Seq(CellType) /\ Len(all) = Len(cells) + n
        /\ \A i \in 1..(Len(cells) + n) :
             all[i] = IF i <= Len(cells) THEN cells[i] ELSE added[i - Len(cells)]
    BY <1>2, ConcatProperties
  <1>5. Len(cells) \in Nat /\ all # <<>> BY <1>1, <1>4
  <1> HIDE DEF all
  <1>6. all[1] = Cell(gen, from, 1)
    <2>1. CASE cells = <<>>
      <3>1. from = to + 1 BY <1>3, <2>1
      <3>2. Len(cells) = 0 /\ 1 \in 1..n BY <1>1, <2>1
      <3>3. all[1] = added[1] BY <1>1, <1>4, <3>2
      <3> QED BY <1>2, <3>1, <3>2, <3>3
    <2>2. CASE cells # <<>>
      <3>1. 1 <= Len(cells) BY <1>5, <2>2
      <3> QED BY <1>1, <1>3, <1>4, <1>5, <2>2, <3>1
    <2> QED BY <2>1, <2>2
  <1>7. all[Len(all)] = Cell(gen, to + 1, n)
    <2>1. all[Len(cells) + n] = added[(Len(cells) + n) - Len(cells)]
      <3>1. Len(cells) + n \in 1..(Len(cells) + n) /\ ~ (Len(cells) + n <= Len(cells))
        BY <1>1, <1>5
      <3> QED BY <1>4, <3>1
    <2>2. (Len(cells) + n) - Len(cells) = n BY <1>1, <1>5
    <2> QED BY <1>1, <1>2, <1>4, <2>1, <2>2
  <1>8. \A i \in 1..(Len(all) - 1) : all[i + 1] = Following(all[i])
    <2> SUFFICES ASSUME NEW i \in 1..(Len(all) - 1) PROVE all[i + 1] = Following(all[i])
      OBVIOUS
    <2>1. i \in 1..(Len(cells) + n) /\ i + 1 \in 1..(Len(cells) + n) BY <1>1, <1>4, <1>5
    <2>2. CASE i < Len(cells)
      <3>1. all[i] = cells[i] /\ all[i + 1] = cells[i + 1] BY <1>4, <1>5, <2>1, <2>2
      <3> QED BY <1>3, <1>5, <2>2, <3>1
    <2>3. CASE i = Len(cells)
      <3>1. cells # <<>> /\ all[i] = cells[i] BY <1>4, <2>1, <2>3
      <3>2. all[i] = Cell(gen, to, MessageSize(to)) BY <1>3, <2>3, <3>1
      <3>3. Following(Cell(gen, to, MessageSize(to))) = Cell(gen, to + 1, 1)
        <4>1. from <= to BY <1>3, <3>1
        <4>2. to \in 1..Len(BodyLengths) BY <4>1, BodyAssumption
        <4>3. MessageSize(to) \in Nat BY <4>2, BodyAssumption DEF MessageSize, HeaderSize
        <4> QED BY <4>3 DEF Following, Cell
      <3>4. all[i + 1] = added[1]
        <4>1. ~ (i + 1 <= Len(cells)) /\ (i + 1) - Len(cells) = 1 BY <1>5, <2>3
        <4> QED BY <1>4, <2>1, <4>1
      <3> QED BY <1>1, <1>2, <3>2, <3>3, <3>4
    <2>4. CASE i > Len(cells)
      <3> DEFINE j == i - Len(cells)
      <3>1. j \in 1..n /\ j < n /\ j + 1 \in 1..n /\ (i + 1) - Len(cells) = j + 1
        BY <1>1, <1>5, <2>1, <2>4
      <3>2. ~ (i <= Len(cells)) /\ ~ (i + 1 <= Len(cells)) BY <1>5, <2>4
      <3>3. all[i] = added[j] /\ all[i + 1] = added[j + 1] BY <1>4, <2>1, <3>1, <3>2
      <3> HIDE DEF j
      <3>4. added[j] = Cell(gen, to + 1, j) /\ added[j + 1] = Cell(gen, to + 1, j + 1)
        BY <1>2, <3>1
      <3>5. Following(Cell(gen, to + 1, j)) = Cell(gen, to + 1, j + 1)
        BY <3>1 DEF Following, Cell, n
      <3> QED BY <3>3, <3>4, <3>5
    <2> QED BY <1>5, <2>1, <2>2, <2>3, <2>4
  <1>9. ~ (from > to + 1) OBVIOUS
  <1> QED BY <1>5, <1>6, <1>7, <1>8, <1>9 DEF AreMessages, all, added, n

\* What one level of handle does to the stream of its connection: p is in the
\* buffer, d is the data, q is queued.  It moves cells of d into the buffer,
\* which then is a part of the next message and takes all of d, or is all of it.
Handled(p, d, q, gen, from, to, size) ==
  LET message == p \o SubSeq(d, 1, size)
      rest == SubSeq(d, size + 1, Len(d))
  IN /\ 0 < Len(message) /\ Len(message) <= MessageSize(from) /\ size <= Len(d)
     /\ message \in Seq(CellType) /\ rest \in Seq(CellType)
     /\ \A c \in 1..Len(message) : message[c] = Cell(gen, from, c)
     /\ Len(message) < MessageSize(from) =>
          rest = <<>> /\ AreMessages((message \o <<>>) \o q, gen, from, to)
     /\ Len(message) = MessageSize(from) =>
          /\ message = MessageCells(gen, from)
          /\ AreMessages((<<>> \o rest) \o q, gen, from + 1, to)

\* A part of the data that handle takes (size cells, to end the message or for
\* want of more) leaves whole messages: in the buffer, in the data, or handed on.
LEMMA HandledCells ==
  ASSUME NEW p \in Seq(CellType), NEW d \in Seq(CellType), NEW q \in Seq(CellType), d # <<>>,
         NEW gen \in Nat, NEW from \in Nat \ {0}, NEW to \in 0..Len(BodyLengths),
         AreMessages((p \o d) \o q, gen, from, to),
         NEW size \in 1..Len(d), Len(p) + size <= MessageSize(from),
         size = Len(d) \/ Len(p) + size = MessageSize(from)
  PROVE Handled(p, d, q, gen, from, to, size)
  <1> DEFINE message == p \o SubSeq(d, 1, size)
             rest == SubSeq(d, size + 1, Len(d))
             cells == (p \o d) \o q
             n == MessageSize(from)
  <1>1. /\ p \o d \in Seq(CellType) /\ Len(p \o d) = Len(p) + Len(d)
        /\ \A i \in 1..(Len(p) + Len(d)) : (p \o d)[i] = IF i <= Len(p) THEN p[i] ELSE d[i - Len(p)]
    BY ConcatProperties
  <1>2. /\ cells \in Seq(CellType) /\ Len(cells) = Len(p) + Len(d) + Len(q)
        /\ \A i \in 1..(Len(p) + Len(d) + Len(q)) :
             cells[i] = IF i <= Len(p) + Len(d) THEN (p \o d)[i] ELSE q[i - (Len(p) + Len(d))]
    BY <1>1, ConcatProperties
  <1>3. Len(p) \in Nat /\ Len(d) \in Nat \ {0} /\ Len(q) \in Nat BY EmptySeq, LenProperties
  <1>4. from <= to
    <2>1. cells # <<>> BY <1>2, <1>3
    <2> QED BY <2>1, BodyAssumption DEF AreMessages
  <1>5. n \in Nat /\ n >= 2 /\ from \in 1..Len(BodyLengths) /\ to \in from..Len(BodyLengths)
    <2>1. from \in 1..Len(BodyLengths) /\ to \in from..Len(BodyLengths) BY <1>4, BodyAssumption
    <2> QED BY <2>1, BodyAssumption DEF MessageSize, HeaderSize
  <1>6. n <= Len(cells) /\ \A i \in 1..n : cells[i] = Cell(gen, from, i)
    BY <1>2, <1>5, FirstMessage
  <1>7. AreMessages(SubSeq(cells, n + 1, Len(cells)), gen, from + 1, to)
    BY <1>2, <1>5, OtherMessages
  <1>8. Len(p) + size <= n /\ (size = Len(d) \/ Len(p) + size = n) OBVIOUS
  <1> HIDE DEF n
  <1>9. size \in 1..Len(d) BY <1>3, <1>5, <1>8
  <1>10. /\ SubSeq(d, 1, size) \in Seq(CellType) /\ Len(SubSeq(d, 1, size)) = size
         /\ \A i \in 1..size : SubSeq(d, 1, size)[i] = d[i]
    BY <1>3, <1>9
  <1>11. /\ message \in Seq(CellType) /\ Len(message) = Len(p) + size
         /\ \A i \in 1..(Len(p) + size) : message[i] = IF i <= Len(p) THEN p[i] ELSE d[i - Len(p)]
    <2>1. /\ message \in Seq(CellType) /\ Len(message) = Len(p) + size
          /\ \A i \in 1..(Len(p) + size) :
               message[i] = IF i <= Len(p) THEN p[i] ELSE SubSeq(d, 1, size)[i - Len(p)]
      BY <1>10, ConcatProperties
    <2>2. \A i \in 1..(Len(p) + size) : ~ (i <= Len(p)) => i - Len(p) \in 1..size BY <1>3, <1>9
    <2> QED BY <1>10, <2>1, <2>2
  <1>12. rest \in Seq(CellType) /\ Len(rest) = Len(d) - size
         /\ \A i \in 1..(Len(d) - size) : rest[i] = d[size + i]
    BY <1>3, <1>9
  <1> HIDE DEF message, rest
  <1>13. \A c \in 1..Len(message) : message[c] = Cell(gen, from, c)
    <2> SUFFICES ASSUME NEW c \in 1..Len(message) PROVE message[c] = Cell(gen, from, c)
      OBVIOUS
    <2>1. c \in 1..(Len(p) + size) /\ c \in 1..(Len(p) + Len(d)) /\ c \in 1..n
          /\ c \in 1..(Len(p) + Len(d) + Len(q)) /\ c <= Len(p) + Len(d)
      BY <1>3, <1>5, <1>8, <1>9, <1>11
    <2>2. message[c] = (p \o d)[c] BY <1>1, <1>11, <2>1
    <2>3. cells[c] = (p \o d)[c] BY <1>2, <2>1
    <2> QED BY <1>6, <2>1, <2>2, <2>3
  <1>14. ASSUME Len(message) < n
         PROVE rest = <<>> /\ AreMessages((message \o <<>>) \o q, gen, from, to)
    <2>1. size = Len(d) BY <1>3, <1>5, <1>8, <1>11, <1>14
    <2>2. rest = <<>> BY <1>12, <2>1
    <2>3. SubSeq(d, 1, size) = d BY <2>1, SubSeqFull
    <2>4. message \o <<>> = message BY <1>11, ConcatEmptySeq
    <2>5. message = p \o d BY <2>3 DEF message
    <2> QED BY <2>2, <2>4, <2>5
  <1>15. ASSUME Len(message) = n
         PROVE /\ message = MessageCells(gen, from)
               /\ AreMessages((<<>> \o rest) \o q, gen, from + 1, to)
    <2>1. message = MessageCells(gen, from)
      <3>1. message = [i \in 1..n |-> message[i]] BY <1>11, <1>15
      <3>2. [i \in 1..n |-> message[i]] = [i \in 1..n |-> Cell(gen, from, i)] BY <1>13, <1>15
      <3> QED BY <3>1, <3>2 DEF MessageCells, n
    <2>2. n = Len(p) + size BY <1>11, <1>15
    <2> DEFINE left == SubSeq(cells, n + 1, Len(cells))
    <2>3. left \in Seq(CellType) /\ Len(left) = Len(cells) - n
          /\ \A i \in 1..(Len(cells) - n) : left[i] = cells[n + i]
      <3>1. n \in 0..Len(cells) BY <1>2, <1>3, <1>5, <1>6
      <3> HIDE DEF cells
      <3> QED BY <1>2, <3>1, RestOfCells
    <2>4. <<>> \o rest = rest BY <1>12, ConcatEmptySeq
    <2>5. rest \o q \in Seq(CellType) /\ Len(rest \o q) = Len(rest) + Len(q)
          /\ \A i \in 1..(Len(rest) + Len(q)) :
               (rest \o q)[i] = IF i <= Len(rest) THEN rest[i] ELSE q[i - Len(rest)]
      BY <1>12, ConcatProperties
    <2>6. Len(left) = Len(rest \o q) BY <1>2, <1>3, <1>9, <1>12, <2>2, <2>3, <2>5
    <2>7. ASSUME NEW i \in 1..Len(left) PROVE left[i] = (rest \o q)[i]
      <3>1. i \in 1..(Len(cells) - n) /\ i \in 1..(Len(rest) + Len(q))
        BY <2>3, <2>5, <2>6, <2>7
      <3>2. left[i] = cells[n + i] /\ n + i \in 1..(Len(p) + Len(d) + Len(q))
        <4> HIDE DEF left, cells
        <4>1. left[i] = cells[n + i] BY <2>3, <3>1
        <4>2. n + i \in 1..Len(cells) BY <1>2, <1>3, <1>5, <1>6, <3>1
        <4> QED BY <1>2, <4>1, <4>2
      <3>3. CASE i <= Len(rest)
        <4>1. size + i \in 1..Len(d) /\ n + i <= Len(p) + Len(d) /\ n + i \in 1..(Len(p) + Len(d))
              /\ ~ (n + i <= Len(p)) /\ (n + i) - Len(p) = size + i /\ i \in 1..(Len(d) - size)
          BY <1>3, <1>9, <1>12, <2>2, <3>3
        <4>2. cells[n + i] = d[size + i] BY <1>1, <1>2, <3>2, <4>1
        <4>3. (rest \o q)[i] = d[size + i] BY <1>12, <2>5, <3>1, <3>3, <4>1
        <4> QED BY <3>2, <4>2, <4>3
      <3>4. CASE ~ (i <= Len(rest))
        <4>1. ~ (n + i <= Len(p) + Len(d)) /\ (n + i) - (Len(p) + Len(d)) = i - Len(rest)
          BY <1>3, <1>9, <1>12, <2>2, <3>4
        <4>2. cells[n + i] = q[i - Len(rest)] BY <1>2, <3>2, <4>1
        <4> QED BY <2>5, <3>1, <3>2, <3>4, <4>2
      <3> QED BY <3>3, <3>4
    <2> HIDE DEF left
    <2>8. left = rest \o q BY <2>3, <2>5, <2>6, <2>7, SeqEqual
    <2> QED BY <1>7, <2>1, <2>4, <2>8 DEF left
  <1>16. 0 < Len(message) /\ Len(message) <= n BY <1>3, <1>5, <1>8, <1>9, <1>11
  <1> QED BY <1>4, <1>9, <1>11, <1>12, <1>13, <1>14, <1>15, <1>16 DEF Handled, message, rest, n

-----------------------------------------------------------------------------
(* The inductive invariant *)

\* The container has at most one buffer for a descriptor.
OneBuffer(list) ==
  \A i, j \in 1..Len(list) : list[i].clientFd = list[j].clientFd => i = j

\* handle works for a descriptor, and has data.
HandlesData ==
  /\ step = "handle" <=> current # NoFd
  /\ current = NoFd <=> data = <<>>

TypeInv == TypeOK /\ HandlesData

\* A buffer waits for the rest of the next message of its connection, and has
\* the size of that message: the length was taken from its own header.
BufferWaits(fd) ==
  \A i \in 1..Len(container) :
    container[i].clientFd = fd =>
      /\ container[i].full_size = MessageSize(Len(processed[fd]) + 1)
      /\ 0 < Len(container[i].message)
      /\ Len(container[i].message) < container[i].full_size

StreamOf(fd) ==
  /\ Len(processed[fd]) <= sent[fd]
  /\ AreMessages(InFlight(fd), generation[fd], Len(processed[fd]) + 1, sent[fd])

WholeOf(fd) ==
  \A k \in 1..Len(processed[fd]) :
    k <= sent[fd] /\ processed[fd][k] = MessageCells(generation[fd], k)

\* What holds of a connection as long as it is open and not disturbed.
InOrder(fd) ==
  /\ BufferWaits(fd) /\ StreamOf(fd) /\ WholeOf(fd)
  /\ current = fd => ~Splits(data)

\* A closed descriptor has nothing queued for its next connection.
ClosedAreEmpty == \A fd \in Fds \ open : inbox[fd] = <<>>

SentBounded == \A fd \in Fds : sent[fd] <= Len(BodyLengths)

FramingInv ==
  /\ TypeInv /\ OneBuffer(container) /\ ClosedAreEmpty /\ SentBounded
  /\ \A fd \in open \ disturbed : InOrder(fd)

-----------------------------------------------------------------------------
(* The container *)

\* Container_removeBuffer takes one buffer out and leaves the others.
LEMMA WithoutBuffer ==
  ASSUME NEW list \in Seq(Buffer), NEW i \in 1..Len(list)
  PROVE LET left == RemoveAt(list, i)
        IN /\ left \in Seq(Buffer) /\ Len(left) = Len(list) - 1
           /\ \A j \in 1..(Len(list) - 1) : left[j] = list[IF j < i THEN j ELSE j + 1]
  <1> DEFINE before == SubSeq(list, 1, i - 1)
             after == SubSeq(list, i + 1, Len(list))
             left == RemoveAt(list, i)
  <1>1. Len(list) \in Nat /\ i \in Nat \ {0} /\ i <= Len(list) OBVIOUS
  <1>2. before \in Seq(Buffer) /\ Len(before) = i - 1
        /\ \A j \in 1..(i - 1) : before[j] = list[j]
    BY <1>1
  <1>3. /\ after \in Seq(Buffer)
        /\ Len(after) = IF i + 1 <= Len(list) THEN Len(list) - (i + 1) + 1 ELSE 0
        /\ \A j \in 1..(Len(list) - (i + 1) + 1) : after[j] = list[(i + 1) + j - 1]
    <2>1. \A j \in (i + 1)..Len(list) : list[j] \in Buffer BY <1>1
    <2> QED BY <1>1, <2>1, SubSeqProperties
  <1>4. Len(after) = Len(list) - i /\ Len(list) - (i + 1) + 1 = Len(list) - i BY <1>1, <1>3
  <1>5. left = before \o after BY DEF RemoveAt
  <1> HIDE DEF before, after
  <1>6. /\ left \in Seq(Buffer) /\ Len(left) = Len(before) + Len(after)
        /\ \A j \in 1..(Len(before) + Len(after)) :
             left[j] = IF j <= Len(before) THEN before[j] ELSE after[j - Len(before)]
    <2> HIDE DEF left
    <2>1. before \in Seq(Buffer) /\ after \in Seq(Buffer) BY <1>2, <1>3
    <2> QED BY <1>5, <2>1, ConcatProperties
  <1> HIDE DEF left
  <1>7. ASSUME NEW j \in 1..(Len(list) - 1) PROVE left[j] = list[IF j < i THEN j ELSE j + 1]
    <2>1. j \in 1..(Len(before) + Len(after)) BY <1>1, <1>2, <1>4
    <2>2. CASE j < i
      <3>1. j <= Len(before) /\ j \in 1..(i - 1) BY <1>1, <1>2, <2>2
      <3> QED BY <1>2, <1>6, <2>1, <2>2, <3>1
    <2>3. CASE ~ (j < i)
      <3>1. ~ (j <= Len(before)) /\ j - Len(before) \in 1..(Len(list) - i)
            /\ (i + 1) + (j - Len(before)) - 1 = j + 1
        BY <1>1, <1>2, <2>3
      <3> QED BY <1>3, <1>4, <1>6, <2>1, <2>3, <3>1
    <2> QED BY <2>2, <2>3
  <1> QED BY <1>1, <1>2, <1>4, <1>6, <1>7 DEF left

\* What is left after Container_removeBuffer was there before.
LEMMA BuffersLeft ==
  ASSUME NEW list \in Seq(Buffer), NEW fd
  PROVE /\ RemoveBuffer(list, fd) \in Seq(Buffer)
        /\ \A j \in 1..Len(RemoveBuffer(list, fd)) :
             \E k \in 1..Len(list) : RemoveBuffer(list, fd)[j] = list[k]
  <1> DEFINE found == {i \in 1..Len(list) : list[i].clientFd = fd}
  <1>1. CASE found = {}
    <2>1. RemoveBuffer(list, fd) = list BY <1>1 DEF RemoveBuffer
    <2> QED BY <2>1
  <1>2. CASE found # {}
    <2>1. found \in SUBSET Nat OBVIOUS
    <2>2. \E i \in found : \A j \in found : i <= j BY <1>2, <2>1, LeastNumber
    <2>3. PICK i \in found : RemoveBuffer(list, fd) = RemoveAt(list, i)
      BY <1>2, <2>2 DEF RemoveBuffer
    <2>4. i \in 1..Len(list) /\ Len(list) \in Nat OBVIOUS
    <2>5. /\ RemoveAt(list, i) \in Seq(Buffer) /\ Len(RemoveAt(list, i)) = Len(list) - 1
          /\ \A j \in 1..(Len(list) - 1) :
               RemoveAt(list, i)[j] = list[IF j < i THEN j ELSE j + 1]
      BY <2>4, WithoutBuffer
    <2>6. \A j \in 1..(Len(list) - 1) : (IF j < i THEN j ELSE j + 1) \in 1..Len(list) BY <2>4
    <2> QED BY <2>3, <2>5, <2>6
  <1> QED BY <1>1, <1>2

\* With one buffer for each descriptor, exactly the descriptor's buffer goes.
LEMMA BufferGone ==
  ASSUME NEW list \in Seq(Buffer), OneBuffer(list), NEW fd
  PROVE LET left == RemoveBuffer(list, fd)
        IN /\ OneBuffer(left)
           /\ \A j \in 1..Len(left) : left[j].clientFd # fd
           /\ \A j \in 1..Len(left) : \E k \in 1..Len(list) : left[j] = list[k]
           /\ \A k \in 1..Len(list) :
                list[k].clientFd # fd => \E j \in 1..Len(left) : left[j] = list[k]
  <1> DEFINE found == {i \in 1..Len(list) : list[i].clientFd = fd}
             left == RemoveBuffer(list, fd)
  <1>1. CASE found = {}
    <2>1. left = list BY <1>1 DEF RemoveBuffer
    <2> QED BY <1>1, <2>1
  <1>2. CASE found # {}
    <2>1. found \in SUBSET Nat OBVIOUS
    <2>2. \E i \in found : \A j \in found : i <= j BY <1>2, <2>1, LeastNumber
    <2>3. PICK i \in found : left = RemoveAt(list, i) BY <1>2, <2>2 DEF RemoveBuffer
    <2>4. i \in 1..Len(list) /\ Len(list) \in Nat /\ list[i].clientFd = fd OBVIOUS
    <2>5. /\ left \in Seq(Buffer) /\ Len(left) = Len(list) - 1
          /\ \A j \in 1..(Len(list) - 1) : left[j] = list[IF j < i THEN j ELSE j + 1]
      BY <2>3, <2>4, WithoutBuffer
    <2> DEFINE old(j) == IF j < i THEN j ELSE j + 1
    <2>6. \A j \in 1..Len(left) : old(j) \in 1..Len(list) /\ old(j) # i /\ left[j] = list[old(j)]
      BY <2>4, <2>5
    <2>7. \A j, k \in 1..Len(left) : old(j) = old(k) => j = k BY <2>4, <2>5
    <2>8. \A k \in 1..Len(list) : k # i => \E j \in 1..Len(left) : old(j) = k
      <3> SUFFICES ASSUME NEW k \in 1..Len(list), k # i PROVE \E j \in 1..Len(left) : old(j) = k
        OBVIOUS
      <3>1. CASE k < i
        <4>1. k \in 1..Len(left) /\ old(k) = k BY <2>4, <2>5, <3>1
        <4> QED BY <4>1
      <3>2. CASE ~ (k < i)
        <4>1. k - 1 \in 1..Len(left) /\ old(k - 1) = k BY <2>4, <2>5, <3>2
        <4> QED BY <4>1
      <3> QED BY <3>1, <3>2
    <2> HIDE DEF old, left
    <2>9. \A k \in 1..Len(list) : list[k].clientFd = fd => k = i BY <2>4 DEF OneBuffer
    <2>10. OneBuffer(left) BY <2>6, <2>7 DEF OneBuffer
    <2>11. \A j \in 1..Len(left) : left[j].clientFd # fd BY <2>6, <2>9
    <2>12. \A k \in 1..Len(list) :
             list[k].clientFd # fd => \E j \in 1..Len(left) : left[j] = list[k]
      <3> SUFFICES ASSUME NEW k \in 1..Len(list), list[k].clientFd # fd
                   PROVE \E j \in 1..Len(left) : left[j] = list[k]
        OBVIOUS
      <3>1. k # i BY <2>4
      <3>2. PICK j \in 1..Len(left) : old(j) = k BY <2>8, <3>1
      <3> QED BY <2>6, <3>2
    <2> QED BY <2>6, <2>10, <2>11, <2>12 DEF left
  <1> QED BY <1>1, <1>2

-----------------------------------------------------------------------------
(* Types *)

\* The parts of a buffer, and of one whose message is replaced.
LEMMA BufferParts ==
  ASSUME NEW b \in Buffer
  PROVE /\ b.clientFd \in Fds /\ b.full_size \in Nat /\ b.message \in Seq(CellType)
        /\ Len(b.message) \in Nat
        /\ \A m : [b EXCEPT !.message = m]
                 = [clientFd |-> b.clientFd, full_size |-> b.full_size, message |-> m]
  <1>1. b.clientFd \in Fds /\ b.full_size \in Nat /\ b.message \in Seq(CellType) BY DEF Buffer
  <1>2. b = [clientFd |-> b.clientFd, full_size |-> b.full_size, message |-> b.message]
    BY DEF Buffer
  <1>3. \A f, n, m, m2 :
          [[clientFd |-> f, full_size |-> n, message |-> m] EXCEPT !.message = m2]
          = [clientFd |-> f, full_size |-> n, message |-> m2]
    OBVIOUS
  <1>4. \A m : [b EXCEPT !.message = m]
             = [clientFd |-> b.clientFd, full_size |-> b.full_size, message |-> m]
    BY <1>2, <1>3
  <1> QED BY <1>1, <1>4, LenProperties

\* The length announced by a cell, and the size of a message, are numbers.
LEMMA SizeTypes ==
  /\ \A cell \in CellType : LengthIn(cell) \in Nat
  /\ \A k \in 1..Len(BodyLengths) : MessageSize(k) \in Nat /\ MessageSize(k) >= HeaderSize
  <1>1. \A k \in 1..Len(BodyLengths) : BodyLengths[k] \in Nat BY BodyAssumption
  <1>2. ASSUME NEW cell \in CellType PROVE LengthIn(cell) \in Nat
    <2>1. cell.at \in Nat \ {0} /\ cell.of \in 1..Len(BodyLengths) BY DEF CellType
    <2>2. cell.at = 1 \/ cell.at = 2 \/ cell.at > HeaderSize BY <2>1 DEF HeaderSize
    <2> QED BY <1>1, <2>1, <2>2 DEF LengthIn, TextLength, HeaderSize
  <1> QED BY <1>1, <1>2 DEF MessageSize, HeaderSize

\* A message that is sent is made of cells.
LEMMA MessageTypes ==
  ASSUME NEW gen \in Nat, NEW k \in 1..Len(BodyLengths)
  PROVE MessageCells(gen, k) \in Seq(CellType)
  <1> DEFINE n == MessageSize(k)
  <1>1. n \in Nat BY SizeTypes
  <1>2. \A i \in 1..n : Cell(gen, k, i) \in CellType BY DEF Cell, CellType
  <1> HIDE DEF n
  <1>3. [i \in 1..n |-> Cell(gen, k, i)] \in Seq(CellType) BY <1>1, <1>2
  <1> QED BY <1>3 DEF MessageCells, n

\* What Finish leaves has its type, whatever the buffer holds.
LEMMA FinishTypes ==
  ASSUME TypeInv, current \in Fds, step = "handle",
         NEW list \in Seq(Buffer), NEW i \in 1..Len(list),
         \A j \in 1..Len(list) : Len(list[j].message) <= list[j].full_size,
         NEW size \in Nat, size <= Len(data), Finish(list, i, size)
  PROVE TypeInv'
  <1>1. data \in Seq(CellType) /\ list[i] \in Buffer /\ list[i].message \in Seq(CellType)
    BY BufferParts DEF TypeInv, TypeOK
  <1>2. data' \in Seq(CellType) BY <1>1, RestOfCells DEF Finish, Rest
  <1>3. current' \in Fds \cup {NoFd} /\ HandlesData'
        /\ step' \in {"top", "serve", "handle"} /\ ready' \subseteq Fds
    <2>1. ready' = ready /\ ready \subseteq Fds /\ current # NoFd
      BY FdsAssumption DEF Finish, TypeInv, TypeOK, NoFd
    <2>2. CASE data' = <<>> /\ current' = NoFd /\ step' = Service
      BY <2>1, <2>2 DEF HandlesData, Service
    <2>3. CASE data' # <<>> /\ UNCHANGED <<current, step>>
      BY <2>1, <2>3 DEF HandlesData
    <2> QED BY <2>1, <2>2, <2>3 DEF Finish
  <1>4. /\ container' \in Seq(Buffer)
        /\ \A j \in 1..Len(container') : Len(container'[j].message) <= container'[j].full_size
    <2>1. CASE container' = list BY <2>1
    <2>2. CASE container' = RemoveBuffer(list, list[i].clientFd) BY <2>2, BuffersLeft
    <2> QED BY <2>1, <2>2 DEF Finish
  <1>5. open' \subseteq Fds /\ inbox' \in [Fds -> Seq(CellType)]
    <2>1. open \subseteq Fds /\ inbox \in [Fds -> Seq(CellType)] /\ <<>> \in Seq(CellType)
      BY EmptySeq DEF TypeInv, TypeOK
    <2>2. CASE UNCHANGED <<open, inbox>> BY <2>1, <2>2
    <2>3. ASSUME NEW fd \in Fds, CloseConnection(fd)
          PROVE open' \subseteq Fds /\ inbox' \in [Fds -> Seq(CellType)]
      BY <2>1, <2>3 DEF CloseConnection
    <2> QED BY <2>2, <2>3 DEF Finish, process
  <1>6. processed' \in [Fds -> Seq(Seq(CellType))]
    <2>1. processed[current] \in Seq(Seq(CellType)) BY DEF TypeInv, TypeOK
    <2>2. Append(processed[current], list[i].message) \in Seq(Seq(CellType))
      BY <1>1, <2>1
    <2> QED BY <2>2 DEF Finish, process, TypeInv, TypeOK
  <1>7. /\ stale' \subseteq Fds /\ disturbed' \subseteq Fds
        /\ generation' \in [Fds -> Nat] /\ sent' \in [Fds -> Nat]
    BY DEF Finish, TypeInv, TypeOK
  <1> QED BY <1>2, <1>3, <1>4, <1>5, <1>6, <1>7 DEF TypeInv, TypeOK

\* Each level of handle works on a buffer that is in the container, or is put
\* there, with as many cells as it still has room for.
LEMMA PartialBuffer ==
  ASSUME TypeInv, NEW i \in 1..Len(container)
  PROVE LET size == AppendSize(container[i], Len(data))
            list == [container EXCEPT ![i].message = @ \o SubSeq(data, 1, size)]
        IN /\ size \in Nat /\ size <= Len(data)
           /\ list \in Seq(Buffer) /\ Len(list) = Len(container)
           /\ list[i] = [clientFd |-> container[i].clientFd,
                         full_size |-> container[i].full_size,
                         message |-> container[i].message \o SubSeq(data, 1, size)]
           /\ \A j \in 1..Len(list) : j # i => list[j] = container[j]
           /\ Len(list[i].message) <= list[i].full_size
           /\ Len(list[i].message) = Len(container[i].message) + size
  <1> DEFINE b == container[i]
             size == AppendSize(b, Len(data))
             part == SubSeq(data, 1, size)
             full == [clientFd |-> b.clientFd, full_size |-> b.full_size,
                      message |-> b.message \o part]
             list == [container EXCEPT ![i].message = @ \o part]
  <1>1. b \in Buffer /\ b.message \in Seq(CellType) /\ b.full_size \in Nat /\ b.clientFd \in Fds
        /\ Len(b.message) <= b.full_size /\ Len(b.message) \in Nat
        /\ data \in Seq(CellType) /\ Len(data) \in Nat /\ container \in Seq(Buffer)
    <2>1. container \in Seq(Buffer) /\ data \in Seq(CellType) /\ Len(b.message) <= b.full_size
      BY DEF TypeInv, TypeOK
    <2>2. b \in Buffer BY <2>1
    <2> HIDE DEF b
    <2> QED BY <2>1, <2>2, BufferParts, LenProperties
  <1>2. size \in Nat /\ size <= Len(data) /\ Len(b.message) + size <= b.full_size
    BY <1>1 DEF AppendSize
  <1> HIDE DEF size
  <1>3. part \in Seq(CellType) /\ Len(part) = size BY <1>1, <1>2
  <1> HIDE DEF part
  <1>4. b.message \o part \in Seq(CellType) /\ Len(b.message \o part) = Len(b.message) + size
    BY <1>1, <1>3, ConcatProperties
  <1>5. full \in Buffer BY <1>1, <1>4 DEF Buffer
  <1>6. list = [container EXCEPT ![i] = full]
    <2>1. [b EXCEPT !.message = b.message \o part] = full
      <3> HIDE DEF b
      <3> QED BY <1>1, BufferParts
    <2> QED BY <2>1
  <1>7. list \in Seq(Buffer) /\ Len(list) = Len(container)
        /\ \A j \in 1..Len(container) : list[j] = IF j = i THEN full ELSE container[j]
    <2> HIDE DEF full, list, b
    <2> QED BY <1>1, <1>5, <1>6, ExceptSeq
  <1>8. list[i] = full /\ \A j \in 1..Len(list) : j # i => list[j] = container[j] BY <1>7
  <1> HIDE DEF list
  <1>9. list[i].message = b.message \o part /\ list[i].full_size = b.full_size BY <1>8
  <1> QED BY <1>1, <1>2, <1>4, <1>7, <1>8, <1>9 DEF list, part, size

\* What Contianer_insert_new adds: one buffer, with as much of the data as the
\* length announces, or all of it.
LEMMA NewBuffer ==
  ASSUME TypeInv, current \in Fds
  PROVE LET empty == [clientFd |-> current, full_size |-> FullSize, message |-> <<>>]
            size == AppendSize(empty, Len(data))
            new == [empty EXCEPT !.message = SubSeq(data, 1, size)]
            list == Append(container, new)
        IN /\ size \in Nat /\ size <= Len(data) /\ FullSize \in Nat
           /\ size = (IF Len(data) < FullSize THEN Len(data) ELSE FullSize)
           /\ list \in Seq(Buffer) /\ Len(list) = Len(container) + 1
           /\ list[Len(container) + 1] = [clientFd |-> current, full_size |-> FullSize,
                                          message |-> SubSeq(data, 1, size)]
           /\ \A j \in 1..Len(container) : list[j] = container[j]
           /\ Len(SubSeq(data, 1, size)) = size /\ size <= FullSize
  <1> DEFINE empty == [clientFd |-> current, full_size |-> FullSize, message |-> <<>>]
             size == AppendSize(empty, Len(data))
             new == [empty EXCEPT !.message = SubSeq(data, 1, size)]
             list == Append(container, new)
  <1>1. data \in Seq(CellType) /\ Len(data) \in Nat /\ data # <<>> /\ container \in Seq(Buffer)
    BY FdsAssumption DEF TypeInv, TypeOK, HandlesData, NoFd
  <1>2. FullSize \in Nat
    <2>1. CASE Len(data) = 1 BY <2>1 DEF FullSize, HeaderSize
    <2>2. CASE Len(data) # 1
      <3>1. 2 \in 1..Len(data)
        <4>1. Len(data) # 0 BY <1>1, EmptySeq
        <4>2. \A n \in Nat : n # 0 /\ n # 1 => 2 \in 1..n OBVIOUS
        <4> QED BY <1>1, <2>2, <4>1, <4>2
      <3>2. data[2] \in CellType BY <1>1, <3>1
      <3>3. LengthIn(data[2]) \in Nat BY <3>2, SizeTypes
      <3> QED BY <2>2, <3>3 DEF FullSize, HeaderSize
    <2> QED BY <2>1, <2>2
  <1>3. size = (IF Len(data) < FullSize THEN Len(data) ELSE FullSize)
    <2>1. Len(<<>>) = 0 /\ FullSize - 0 = FullSize BY <1>2
    <2> QED BY <2>1 DEF AppendSize
  <1>4. size \in Nat /\ size <= Len(data) /\ size <= FullSize BY <1>1, <1>2, <1>3
  <1> HIDE DEF size
  <1>5. SubSeq(data, 1, size) \in Seq(CellType) /\ Len(SubSeq(data, 1, size)) = size
    BY <1>1, <1>4
  <1>6. new = [clientFd |-> current, full_size |-> FullSize, message |-> SubSeq(data, 1, size)]
    <2>1. \A m : [[clientFd |-> current, full_size |-> FullSize, message |-> <<>>]
                   EXCEPT !.message = m]
               = [clientFd |-> current, full_size |-> FullSize, message |-> m]
      OBVIOUS
    <2> QED BY <2>1
  <1>7. new \in Buffer BY <1>2, <1>5, <1>6 DEF Buffer
  <1> HIDE DEF new
  <1>8. list \in Seq(Buffer) /\ Len(list) = Len(container) + 1 /\ list[Len(container) + 1] = new
        /\ \A j \in 1..Len(container) : list[j] = container[j]
    BY <1>1, <1>7
  <1> QED BY <1>2, <1>3, <1>4, <1>5, <1>6, <1>8 DEF size, new

\* Every step keeps the types.
LEMMA TypesKept == ASSUME TypeInv, [Next]_vars PROVE TypeInv'
  <1> USE DEF TypeInv, TypeOK, HandlesData
  <1>1. CASE HandlePartial
    <2>1. current \in Fds /\ step = "handle" BY <1>1 DEF HandlePartial
    <2>2. PICK i \in BufferOf(current) :
            LET size == AppendSize(container[i], Len(data))
            IN Finish([container EXCEPT ![i].message = @ \o SubSeq(data, 1, size)], i, size)
      BY <1>1 DEF HandlePartial
    <2>3. i \in 1..Len(container) BY DEF BufferOf
    <2> DEFINE size == AppendSize(container[i], Len(data))
               list == [container EXCEPT ![i].message = @ \o SubSeq(data, 1, size)]
    <2>4. /\ size \in Nat /\ size <= Len(data)
          /\ list \in Seq(Buffer) /\ Len(list) = Len(container)
          /\ \A j \in 1..Len(list) : j # i => list[j] = container[j]
          /\ Len(list[i].message) <= list[i].full_size
      BY <2>3, PartialBuffer
    <2>5. Finish(list, i, size) BY <2>2
    <2> HIDE DEF list, size
    <2>6. \A j \in 1..Len(list) : Len(list[j].message) <= list[j].full_size BY <2>3, <2>4
    <2>7. i \in 1..Len(list) BY <2>3, <2>4
    <2> QED BY <2>1, <2>4, <2>5, <2>6, <2>7, FinishTypes
  <1>2. CASE HandleNew
    <2>1. current \in Fds /\ step = "handle" BY <1>2 DEF HandleNew
    <2> DEFINE empty == [clientFd |-> current, full_size |-> FullSize, message |-> <<>>]
               size == AppendSize(empty, Len(data))
               list == Append(container, [empty EXCEPT !.message = SubSeq(data, 1, size)])
               n == Len(container)
    <2>2. /\ size \in Nat /\ size <= Len(data) /\ FullSize \in Nat
          /\ list \in Seq(Buffer) /\ Len(list) = n + 1
          /\ list[n + 1] = [clientFd |-> current, full_size |-> FullSize,
                            message |-> SubSeq(data, 1, size)]
          /\ \A j \in 1..n : list[j] = container[j]
          /\ Len(SubSeq(data, 1, size)) = size /\ size <= FullSize
      BY <2>1, NewBuffer
    <2>3. Finish(list, n + 1, size) BY <1>2 DEF HandleNew
    <2>4. n \in Nat OBVIOUS
    <2>5. \A j \in 1..n : Len(container[j].message) <= container[j].full_size OBVIOUS
    <2> HIDE DEF list, size, n
    <2>6. \A j \in 1..(n + 1) : Len(list[j].message) <= list[j].full_size
      <3> SUFFICES ASSUME NEW j \in 1..(n + 1) PROVE Len(list[j].message) <= list[j].full_size
        OBVIOUS
      <3>1. CASE j = n + 1
        <4>1. list[j].message = SubSeq(data, 1, size) /\ list[j].full_size = FullSize
          BY <2>2, <3>1
        <4> QED BY <2>2, <4>1
      <3>2. CASE j # n + 1
        <4>1. j \in 1..n BY <2>4, <3>2
        <4> QED BY <2>2, <2>5, <4>1
      <3> QED BY <3>1, <3>2
    <2>7. n + 1 \in 1..Len(list) BY <2>2, <2>4
    <2> QED BY <2>1, <2>2, <2>3, <2>6, <2>7, FinishTypes
  <1>3. ASSUME NEW fd \in Fds, DiscardStale(fd) PROVE TypeInv'
    <2>1. /\ container' \in Seq(Buffer)
          /\ \A j \in 1..Len(container') : Len(container'[j].message) <= container'[j].full_size
      <3>1. container' = RemoveBuffer(container, fd) \/ container' = container
        BY <1>3 DEF DiscardStale
      <3>2. container \in Seq(Buffer)
            /\ \A j \in 1..Len(container) :
                 Len(container[j].message) <= container[j].full_size
        OBVIOUS
      <3>3. /\ RemoveBuffer(container, fd) \in Seq(Buffer)
            /\ \A j \in 1..Len(RemoveBuffer(container, fd)) :
                 \E k \in 1..Len(container) : RemoveBuffer(container, fd)[j] = container[k]
        BY <3>2, BuffersLeft
      <3> QED BY <3>1, <3>2, <3>3
    <2>2. inbox' \in [Fds -> Seq(CellType)] BY <1>3, EmptySeq DEF DiscardStale, CloseConnection
    <2> QED BY <1>3, <2>1, <2>2 DEF DiscardStale, CloseConnection
  <1>4. ASSUME NEW fd \in Fds, Read(fd), inbox[fd] # <<>> PROVE TypeInv'
    <2>1. PICK n \in 1..Len(inbox[fd]) :
            /\ data' = SubSeq(inbox[fd], 1, n)
            /\ inbox' = [inbox EXCEPT ![fd] = SubSeq(@, n + 1, Len(@))]
      BY <1>4 DEF Read
    <2>2. inbox[fd] \in Seq(CellType) /\ Len(inbox[fd]) \in Nat OBVIOUS
    <2>3. data' \in Seq(CellType) /\ data' # <<>>
      <3>1. SubSeq(inbox[fd], 1, n) \in Seq(CellType) /\ Len(SubSeq(inbox[fd], 1, n)) = n
        BY <2>2
      <3>2. n # 0 BY <2>2
      <3>3. Len(data') # 0 /\ data' \in Seq(CellType) BY <2>1, <3>1, <3>2
      <3> QED BY <3>3, EmptySeq
    <2>4. SubSeq(inbox[fd], n + 1, Len(inbox[fd])) \in Seq(CellType)
      <3>1. n \in 0..Len(inbox[fd]) BY <2>2
      <3> QED BY <2>2, <3>1, RestOfCells
    <2>5. inbox' \in [Fds -> Seq(CellType)] BY <2>1, <2>4
    <2>6. fd # NoFd BY FdsAssumption DEF NoFd
    <2> QED BY <1>4, <2>3, <2>5, <2>6 DEF Read
  <1>5. ASSUME NEW fd \in Fds, Read(fd), inbox[fd] = <<>> PROVE TypeInv'
    <2>1. Len(inbox[fd]) = 0 BY <1>5
    <2>2. step' = Service /\ ready' = ready \ {fd} /\ step = "serve"
          /\ UNCHANGED <<current, data, container, stale, open, generation, inbox, sent,
                         processed, disturbed>>
      BY <1>5, <2>1 DEF Read
    <2> QED BY <2>2 DEF Service
  <1>6. ASSUME NEW fd \in Fds, Accept(fd) PROVE TypeInv'
    BY <1>6, EmptySeq DEF Accept
  <1>7. ASSUME NEW fd \in Fds, Send(fd) PROVE TypeInv'
    <2>1. sent[fd] + 1 \in 1..Len(BodyLengths) /\ sent[fd] + 1 \in Nat
      BY <1>7, BodyAssumption DEF Send
    <2>2. MessageCells(generation[fd], sent[fd] + 1) \in Seq(CellType)
      BY <2>1, MessageTypes
    <2>3. inbox[fd] \o MessageCells(generation[fd], sent[fd] + 1) \in Seq(CellType)
      BY <2>2, ConcatProperties
    <2> QED BY <1>7, <2>1, <2>3 DEF Send
  <1>8. ASSUME NEW fd \in Fds, Age(fd) PROVE TypeInv' BY <1>8 DEF Age
  <1>9. CASE UNCHANGED vars BY <1>9 DEF vars
  <1>10. CASE NothingStale \/ Select BY <1>10 DEF NothingStale, Select
  <1> QED BY <1>1, <1>2, <1>3, <1>4, <1>5, <1>6, <1>7, <1>8, <1>9, <1>10 DEF Next, Server

\* The variables keep their types, and no buffer gets more than was allocated
\* for it, however the stream is cut and whoever closes the connection.
THEOREM Types == Spec => []TypeOK
  <1>1. Init => TypeInv BY EmptySeq DEF Init, TypeInv, TypeOK, HandlesData, NoFd
  <1>2. TypeInv /\ [Next]_vars => TypeInv' BY TypesKept
  <1>3. TypeInv => TypeOK BY DEF TypeInv
  <1> QED BY <1>1, <1>2, <1>3, PTL DEF Spec

-----------------------------------------------------------------------------
(* The streams *)

\* What a list of buffers holds for a descriptor (Partial is that of container).
PartialIn(list, fd) ==
  LET buffers == {i \in 1..Len(list) :
                    list[i].clientFd = fd /\ \A j \in 1..(i - 1) : list[j].clientFd # fd}
  IN IF buffers = {} THEN <<>> ELSE list[CHOOSE i \in buffers : TRUE].message

\* The first buffer of a descriptor is the only one.
LEMMA PartialFound ==
  ASSUME NEW list \in Seq(Buffer), OneBuffer(list), NEW i \in 1..Len(list)
  PROVE PartialIn(list, list[i].clientFd) = list[i].message
  <1> DEFINE buffers == {k \in 1..Len(list) :
                           list[k].clientFd = list[i].clientFd
                             /\ \A j \in 1..(k - 1) : list[j].clientFd # list[i].clientFd}
  <1>1. Len(list) \in Nat OBVIOUS
  <1>2. i \in buffers
    <2>1. \A j \in 1..(i - 1) : j \in 1..Len(list) /\ j # i BY <1>1
    <2> QED BY <2>1 DEF OneBuffer
  <1>3. \A k \in buffers : k = i BY DEF OneBuffer
  <1>4. buffers # {} /\ (CHOOSE k \in buffers : TRUE) = i BY <1>2, <1>3
  <1> QED BY <1>4 DEF PartialIn

\* A descriptor without a buffer has no partial message.
LEMMA PartialMissing ==
  ASSUME NEW list \in Seq(Buffer), NEW fd, \A i \in 1..Len(list) : list[i].clientFd # fd
  PROVE PartialIn(list, fd) = <<>>
  BY DEF PartialIn

\* It depends on the descriptor's buffer only, not on its place in the list.
LEMMA PartialKept ==
  ASSUME NEW old \in Seq(Buffer), OneBuffer(old), NEW new \in Seq(Buffer), OneBuffer(new), NEW fd,
         \A k \in 1..Len(old) : old[k].clientFd = fd => \E j \in 1..Len(new) : new[j] = old[k],
         \A j \in 1..Len(new) : new[j].clientFd = fd => \E k \in 1..Len(old) : new[j] = old[k]
  PROVE PartialIn(new, fd) = PartialIn(old, fd)
  <1>1. CASE \E k \in 1..Len(old) : old[k].clientFd = fd
    <2>1. PICK k \in 1..Len(old) : old[k].clientFd = fd BY <1>1
    <2>2. PICK j \in 1..Len(new) : new[j] = old[k] BY <2>1
    <2>3. PartialIn(old, fd) = old[k].message BY <2>1, PartialFound
    <2>4. PartialIn(new, fd) = new[j].message BY <2>1, <2>2, PartialFound
    <2> QED BY <2>2, <2>3, <2>4
  <1>2. CASE ~ \E k \in 1..Len(old) : old[k].clientFd = fd
    <2>1. \A j \in 1..Len(new) : new[j].clientFd # fd BY <1>2
    <2> QED BY <1>2, <2>1, PartialMissing
  <1> QED BY <1>1, <1>2

\* It is made of cells.
LEMMA PartialType ==
  ASSUME NEW list \in Seq(Buffer), OneBuffer(list), NEW fd
  PROVE PartialIn(list, fd) \in Seq(CellType)
  <1>1. CASE \E i \in 1..Len(list) : list[i].clientFd = fd
    <2>1. PICK i \in 1..Len(list) : list[i].clientFd = fd BY <1>1
    <2>2. PartialIn(list, fd) = list[i].message BY <2>1, PartialFound
    <2>3. list[i] \in Buffer OBVIOUS
    <2> QED BY <2>2, <2>3, BufferParts
  <1>2. CASE ~ \E i \in 1..Len(list) : list[i].clientFd = fd
    <2>1. PartialIn(list, fd) = <<>> BY <1>2, PartialMissing
    <2> QED BY <2>1, EmptySeq
  <1> QED BY <1>1, <1>2

\* What is in flight, before and after a step.
LEMMA FlightParts ==
  ASSUME NEW fd
  PROVE /\ InFlight(fd) = (PartialIn(container, fd)
                           \o (IF current = fd THEN data ELSE <<>>)) \o inbox[fd]
        /\ InFlight(fd)' = (PartialIn(container', fd)
                            \o (IF current' = fd THEN data' ELSE <<>>)) \o inbox'[fd]
  BY DEF InFlight, Partial, BufferOf, PartialIn

\* What is in flight on the connection that handle works for.
LEMMA HandledStream ==
  ASSUME FramingInv, current # NoFd, current \in open \ disturbed
  PROVE LET p == PartialIn(container, current)
        IN /\ current \in Fds
           /\ p \in Seq(CellType) /\ data \in Seq(CellType) /\ data # <<>>
           /\ inbox[current] \in Seq(CellType) /\ generation[current] \in Nat
           /\ Len(processed[current]) + 1 \in Nat \ {0}
           /\ sent[current] \in 0..Len(BodyLengths)
           /\ Len(processed[current]) + 1 <= sent[current]
           /\ AreMessages((p \o data) \o inbox[current], generation[current],
                          Len(processed[current]) + 1, sent[current])
  <1> DEFINE p == PartialIn(container, current)
  <1>1. current \in Fds /\ data # <<>> /\ TypeOK /\ InOrder(current)
    BY DEF FramingInv, TypeInv, HandlesData, TypeOK
  <1>2. data \in Seq(CellType) /\ inbox[current] \in Seq(CellType) /\ generation[current] \in Nat
        /\ sent[current] \in Nat /\ sent[current] <= Len(BodyLengths)
        /\ processed[current] \in Seq(Seq(CellType)) /\ container \in Seq(Buffer)
    BY <1>1 DEF FramingInv, SentBounded, TypeOK
  <1>3. p \in Seq(CellType) BY <1>2, PartialType DEF FramingInv
  <1>4. InFlight(current) = (p \o data) \o inbox[current] BY FlightParts
  <1>5. Len(processed[current]) <= sent[current]
        /\ AreMessages((p \o data) \o inbox[current], generation[current],
                       Len(processed[current]) + 1, sent[current])
    BY <1>1, <1>4 DEF InOrder, StreamOf
  <1> HIDE DEF p
  <1>6. (p \o data) \o inbox[current] \in Seq(CellType)
        /\ (p \o data) \o inbox[current] # <<>>
    <2>1. p \o data \in Seq(CellType) /\ p \o data # <<>>
      BY <1>1, <1>2, <1>3, ConcatProperties, ConcatEqualIffEmpty
    <2> QED BY <1>2, <2>1, ConcatProperties, ConcatEqualIffEmpty
  <1>7. Len(processed[current]) \in Nat BY <1>2
  <1>8. ~ (Len(processed[current]) + 1 > sent[current]) BY <1>5, <1>6 DEF AreMessages
  <1>9. Len(processed[current]) + 1 <= sent[current] BY <1>2, <1>7, <1>8
  <1>10. sent[current] \in 0..Len(BodyLengths) /\ Len(processed[current]) + 1 \in Nat \ {0}
    BY <1>2, <1>7, BodyAssumption
  <1> QED BY <1>1, <1>2, <1>3, <1>5, <1>9, <1>10 DEF p

\* A step that leaves the buffer, the stream and the messages of a connection
\* leaves the connection in order.
LEMMA OrderKept ==
  ASSUME NEW fd, InOrder(fd), generation'[fd] = generation[fd], sent'[fd] = sent[fd],
         processed'[fd] = processed[fd], InFlight(fd)' = InFlight(fd),
         \A j \in 1..Len(container') : container'[j].clientFd = fd =>
           \E k \in 1..Len(container) : container'[j] = container[k],
         current' = fd => ~Splits(data')
  PROVE InOrder(fd)'
  <1>1. BufferWaits(fd)' BY DEF InOrder, BufferWaits
  <1>2. StreamOf(fd)' BY DEF InOrder, StreamOf
  <1>3. WholeOf(fd)' BY DEF InOrder, WholeOf
  <1> QED BY <1>1, <1>2, <1>3 DEF InOrder

\* A step that changes nothing of the container, the streams and the messages.
LEMMA NothingChanged ==
  ASSUME FramingInv, TypeInv',
         UNCHANGED <<current, data, container, open, generation, inbox, sent, processed,
                     disturbed>>
  PROVE FramingInv'
  <1>1. ASSUME NEW fd \in open \ disturbed PROVE InOrder(fd)'
    <2>1. InFlight(fd)' = InFlight(fd) BY FlightParts
    <2>2. InOrder(fd) /\ (current' = fd => ~Splits(data'))
      BY DEF FramingInv, InOrder, Splits
    <2> QED BY <2>1, <2>2, OrderKept
  <1> QED BY <1>1 DEF FramingInv, OneBuffer, ClosedAreEmpty, SentBounded

\* handle, on a list with the buffer that it works on: whatever the buffer, the
\* other connections stay in order, those that process closes excepted.
LEMMA FinishOthers ==
  ASSUME FramingInv, current \in Fds,
         NEW list \in Seq(Buffer), OneBuffer(list), NEW i \in 1..Len(list), NEW size,
         list[i].clientFd = current,
         \A k \in 1..Len(container) :
           container[k].clientFd # current => \E j \in 1..Len(list) : list[j] = container[k],
         \A j \in 1..Len(list) :
           list[j].clientFd # current => \E k \in 1..Len(container) : list[j] = container[k],
         Finish(list, i, size)
  PROVE /\ OneBuffer(container') /\ ClosedAreEmpty' /\ SentBounded'
        /\ open' \subseteq open /\ \A fd \in open' : inbox'[fd] = inbox[fd]
        /\ \A fd \in open' \ disturbed' : fd # current => InOrder(fd)'
  <1>1. /\ container \in Seq(Buffer) /\ OneBuffer(container) /\ open \subseteq Fds
        /\ inbox \in [Fds -> Seq(CellType)] /\ current # NoFd
        /\ processed \in [Fds -> Seq(Seq(CellType))]
        /\ ClosedAreEmpty /\ SentBounded
        /\ UNCHANGED <<generation, sent, disturbed>>
        /\ current' \in {current, NoFd}
    BY FdsAssumption DEF FramingInv, TypeInv, TypeOK, Finish, NoFd
  <1>2. open' \subseteq open /\ (\A fd \in open' : inbox'[fd] = inbox[fd]) /\ ClosedAreEmpty'
    <2>1. CASE UNCHANGED <<open, inbox>> BY <1>1, <2>1 DEF ClosedAreEmpty
    <2>2. ASSUME NEW g \in Fds, CloseConnection(g)
          PROVE /\ open' \subseteq open /\ \A fd \in open' : inbox'[fd] = inbox[fd]
                /\ ClosedAreEmpty'
      BY <1>1, <2>2 DEF CloseConnection, ClosedAreEmpty
    <2> QED BY <2>1, <2>2 DEF Finish, process
  <1>3. SentBounded' BY <1>1 DEF SentBounded
  <1>4. \A fd \in Fds : fd # current => processed'[fd] = processed[fd]
    BY <1>1 DEF Finish, process
  <1>5. /\ container' \in Seq(Buffer) /\ OneBuffer(container')
        /\ \A j \in 1..Len(container') : \E k \in 1..Len(list) : container'[j] = list[k]
        /\ \A k \in 1..Len(list) :
             list[k].clientFd # current => \E j \in 1..Len(container') : container'[j] = list[k]
    <2>1. CASE container' = list BY <2>1
    <2>2. CASE container' = RemoveBuffer(list, current)
      <3> DEFINE left == RemoveBuffer(list, current)
      <3>1. /\ OneBuffer(left)
            /\ \A j \in 1..Len(left) : \E k \in 1..Len(list) : left[j] = list[k]
            /\ \A k \in 1..Len(list) :
                 list[k].clientFd # current => \E j \in 1..Len(left) : left[j] = list[k]
        BY BufferGone
      <3>2. left \in Seq(Buffer) BY BuffersLeft
      <3> HIDE DEF left
      <3> QED BY <2>2, <3>1, <3>2 DEF left
    <2> QED BY <2>1, <2>2 DEF Finish
  <1>6. ASSUME NEW fd \in open' \ disturbed', fd # current PROVE InOrder(fd)'
    <2>1. fd \in open \ disturbed /\ fd \in Fds /\ fd # NoFd
      BY <1>1, <1>2, FdsAssumption DEF NoFd
    <2>2. InOrder(fd) BY <2>1 DEF FramingInv
    <2>3. \A k \in 1..Len(container) :
            container[k].clientFd = fd =>
              \E j \in 1..Len(container') : container'[j] = container[k]
      <3> SUFFICES ASSUME NEW k \in 1..Len(container), container[k].clientFd = fd
                   PROVE \E j \in 1..Len(container') : container'[j] = container[k]
        OBVIOUS
      <3>1. PICK m \in 1..Len(list) : list[m] = container[k] BY <1>6
      <3>2. list[m].clientFd # current BY <1>6, <3>1
      <3> QED BY <1>5, <3>1, <3>2
    <2>4. \A j \in 1..Len(container') :
            container'[j].clientFd = fd =>
              \E k \in 1..Len(container) : container'[j] = container[k]
      <3> SUFFICES ASSUME NEW j \in 1..Len(container'), container'[j].clientFd = fd
                   PROVE \E k \in 1..Len(container) : container'[j] = container[k]
        OBVIOUS
      <3>1. PICK m \in 1..Len(list) : container'[j] = list[m] BY <1>5
      <3>2. list[m].clientFd # current BY <1>6, <3>1
      <3> QED BY <3>1, <3>2
    <2> DEFINE new == container'
    <2>5. PartialIn(new, fd) = PartialIn(container, fd)
      <3>1. /\ new \in Seq(Buffer) /\ OneBuffer(new)
            /\ \A k \in 1..Len(container) :
                 container[k].clientFd = fd => \E j \in 1..Len(new) : new[j] = container[k]
            /\ \A j \in 1..Len(new) :
                 new[j].clientFd = fd => \E k \in 1..Len(container) : new[j] = container[k]
        BY <1>5, <2>3, <2>4
      <3> HIDE DEF new
      <3> QED BY <1>1, <3>1, PartialKept
    <2>6. current # fd /\ current' # fd /\ inbox'[fd] = inbox[fd] BY <1>1, <1>2, <1>6, <2>1
    <2>7. InFlight(fd)' = InFlight(fd)
      <3>1. PartialIn(container', fd) = PartialIn(container, fd) BY <2>5 DEF new
      <3> HIDE DEF new
      <3>2. /\ InFlight(fd) = (PartialIn(container, fd)
                               \o (IF current = fd THEN data ELSE <<>>)) \o inbox[fd]
            /\ InFlight(fd)' = (PartialIn(container', fd)
                                \o (IF current' = fd THEN data' ELSE <<>>)) \o inbox'[fd]
        BY FlightParts
      <3> QED BY <2>6, <3>1, <3>2
    <2>8. processed'[fd] = processed[fd] BY <1>4, <1>6, <2>1
    <2> QED BY <1>1, <2>2, <2>4, <2>6, <2>7, <2>8, OrderKept
  <1> QED BY <1>2, <1>3, <1>5, <1>6

\* handle, when its own connection is in order and stays open: the buffer has
\* the size of the next message and gets the cells that come next.
LEMMA FinishOwn ==
  ASSUME FramingInv, current # NoFd, NEW me, me = current, current \in open \ disturbed, current \in open',
         NEW list \in Seq(Buffer), OneBuffer(list), NEW i \in 1..Len(list),
         NEW size \in 1..Len(data),
         list[i].clientFd = current,
         list[i].full_size = MessageSize(Len(processed[current]) + 1),
         list[i].message = PartialIn(container, current) \o SubSeq(data, 1, size),
         Len(PartialIn(container, current)) + size <= list[i].full_size,
         size = Len(data) \/ Len(PartialIn(container, current)) + size = list[i].full_size,
         inbox'[current] = inbox[current],
         Finish(list, i, size)
  PROVE InOrder(me)'
  <1> DEFINE p == PartialIn(container, current)
             gen == generation[current]
             from == Len(processed[current]) + 1
             to == sent[current]
             message == p \o SubSeq(data, 1, size)
             rest == SubSeq(data, size + 1, Len(data))
  <1>1. /\ current \in Fds
        /\ p \in Seq(CellType) /\ data \in Seq(CellType) /\ data # <<>>
        /\ inbox[current] \in Seq(CellType) /\ gen \in Nat
        /\ from \in Nat \ {0} /\ to \in 0..Len(BodyLengths) /\ from <= to
        /\ AreMessages((p \o data) \o inbox[current], gen, from, to)
    BY HandledStream
  <1>2. /\ 0 < Len(message) /\ Len(message) <= MessageSize(from) /\ size <= Len(data)
        /\ message \in Seq(CellType) /\ rest \in Seq(CellType)
        /\ \A c \in 1..Len(message) : message[c] = Cell(gen, from, c)
        /\ Len(message) < MessageSize(from) =>
             rest = <<>> /\ AreMessages((message \o <<>>) \o inbox[current], gen, from, to)
        /\ Len(message) = MessageSize(from) =>
             /\ message = MessageCells(gen, from)
             /\ AreMessages((<<>> \o rest) \o inbox[current], gen, from + 1, to)
    <2> HIDE DEF p, gen, to
    <2> DEFINE q == inbox[current]
    <2> HIDE DEF q
    <2>1. /\ p \in Seq(CellType) /\ data \in Seq(CellType) /\ q \in Seq(CellType) /\ data # <<>>
          /\ gen \in Nat /\ from \in Nat \ {0} /\ to \in 0..Len(BodyLengths)
          /\ AreMessages((p \o data) \o q, gen, from, to)
      BY <1>1 DEF q
    <2>2. Len(p) + size <= MessageSize(from)
          /\ (size = Len(data) \/ Len(p) + size = MessageSize(from))
      BY DEF p
    <2> HIDE DEF from
    <2>3. size \in 1..Len(data) OBVIOUS
    <2>4. Handled(p, data, q, gen, from, to, size) BY <2>3, <2>1, <2>2, HandledCells
    <2> QED BY <2>4 DEF Handled, q
  <1>3. list[i].message = message /\ list[i].full_size = MessageSize(from) OBVIOUS
  <1>4. /\ InOrder(current) /\ container \in Seq(Buffer) /\ processed \in [Fds -> Seq(Seq(CellType))]
        /\ MessageSize(from) \in Nat /\ MessageSize(from) >= 1
        /\ generation' = generation /\ sent' = sent
        /\ data' = rest /\ (current' = current => rest # <<>>)
    <2>1. from \in 1..Len(BodyLengths)
      <3> HIDE DEF from, to
      <3>1. Len(BodyLengths) \in Nat BY BodyAssumption
      <3> QED BY <1>1, <3>1
    <2> HIDE DEF from
    <2>2. MessageSize(from) \in Nat /\ MessageSize(from) >= 1 BY <2>1, SizeTypes DEF HeaderSize
    <2> QED BY <2>2 DEF FramingInv, TypeInv, TypeOK, Finish, Rest
  <1>5. isComplete(list[i]) <=> Len(message) = MessageSize(from)
    BY <1>3 DEF isComplete
  <1> HIDE DEF message, rest
  <1>6. current' = current => ~Splits(data')
    <2> SUFFICES ASSUME current' = current PROVE ~Splits(rest) BY <1>4
    <2>1. Len(rest) = Len(data) - size
          /\ \A j \in 1..(Len(data) - size) : rest[j] = data[size + j]
      <3>1. size \in 0..Len(data) BY <1>1, <1>2
      <3> QED BY <1>1, <3>1, RestOfCells DEF rest
    <2>2. Len(rest) \in Nat /\ Len(rest) # 0 /\ Len(data) \in Nat BY <1>1, <1>2, <1>4, EmptySeq
    <2>3. Len(rest) \in 1..(Len(data) - size) /\ size + Len(rest) = Len(data) BY <2>1, <2>2
    <2>4. rest[Len(rest)] = data[Len(data)] BY <2>1, <2>3
    <2>5. ~Splits(data) BY <1>4 DEF InOrder
    <2> QED BY <2>4, <2>5 DEF Splits
  <1>7. InFlight(me)' = (PartialIn(container', current) \o rest) \o inbox[current]
    <2>1. (IF current' = current THEN data' ELSE <<>>) = rest
      <3>1. current' = current \/ rest = <<>> BY <1>4 DEF Finish
      <3> QED BY <1>4, <3>1
    <2> QED BY <2>1, FlightParts
  <1> HIDE DEF p, gen, from, to
  <1>8. CASE isComplete(list[i])
    <2>1. processed' = [processed EXCEPT ![current] = Append(@, message)]
          /\ container' = RemoveBuffer(list, current)
      BY <1>3, <1>8 DEF Finish, process
    <2>2. Len(message) = MessageSize(from) /\ message = MessageCells(gen, from)
          /\ AreMessages((<<>> \o rest) \o inbox[current], gen, from + 1, to)
      BY <1>2, <1>5, <1>8
    <2>3. (\A j \in 1..Len(container') : container'[j].clientFd # current)
          /\ container' \in Seq(Buffer)
      <3> DEFINE left == RemoveBuffer(list, current)
      <3>1. \A j \in 1..Len(left) : left[j].clientFd # current BY BufferGone
      <3>2. left \in Seq(Buffer) BY BuffersLeft
      <3>3. container' = left BY <2>1
      <3> HIDE DEF left
      <3> QED BY <3>1, <3>2, <3>3
    <2>4. /\ processed[current] \in Seq(Seq(CellType)) /\ Len(processed[current]) \in Nat
          /\ processed'[current] = Append(processed[current], message)
      <3>1. processed[current] \in Seq(Seq(CellType)) BY <1>1, <1>4
      <3> QED BY <1>1, <1>4, <2>1, <3>1, LenProperties
    <2>5. Len(processed'[current]) = from /\ processed'[current][from] = message
          /\ \A k \in 1..Len(processed[current]) : processed'[current][k] = processed[current][k]
      BY <1>2, <2>4 DEF from
    <2>6. BufferWaits(me)' BY <2>3 DEF BufferWaits
    <2>7. PartialIn(container', current) = <<>> BY <2>3, PartialMissing
    <2>8. StreamOf(me)'
      <3>1. InFlight(me)' = (<<>> \o rest) \o inbox[current] BY <1>7, <2>7
      <3>2. AreMessages((<<>> \o rest) \o inbox[current], generation'[current],
                        Len(processed'[current]) + 1, sent'[current])
        BY <1>4, <2>2, <2>5 DEF gen, to
      <3>3. Len(processed'[current]) <= sent'[current] BY <1>1, <1>4, <2>5 DEF to
      <3> QED BY <3>1, <3>2, <3>3 DEF StreamOf
    <2>9. WholeOf(me)'
      <3> SUFFICES ASSUME NEW k \in 1..Len(processed'[current])
                   PROVE /\ k <= sent'[current]
                         /\ processed'[current][k] = MessageCells(generation'[current], k)
        BY DEF WholeOf
      <3>1. CASE k = from BY <1>1, <1>4, <2>2, <2>5, <3>1 DEF gen, to
      <3>2. CASE k # from
        <4>1. k \in 1..Len(processed[current]) BY <2>4, <2>5, <3>2 DEF from
        <4> QED BY <1>4, <2>5, <4>1 DEF InOrder, WholeOf
      <3> QED BY <3>1, <3>2
    <2> QED BY <1>6, <2>6, <2>8, <2>9 DEF InOrder
  <1>9. CASE ~ isComplete(list[i])
    <2>1. container' = list /\ processed' = processed BY <1>9 DEF Finish
    <2>2. Len(message) < MessageSize(from) /\ rest = <<>>
          /\ AreMessages((message \o <<>>) \o inbox[current], gen, from, to)
      <3>1. Len(message) \in Nat BY <1>2
      <3>2. Len(message) < MessageSize(from) BY <1>2, <1>4, <1>5, <1>9, <3>1
      <3> QED BY <1>2, <3>2
    <2>3. BufferWaits(me)'
      <3> SUFFICES ASSUME NEW j \in 1..Len(list), list[j].clientFd = current
                   PROVE /\ list[j].full_size = MessageSize(Len(processed[current]) + 1)
                         /\ 0 < Len(list[j].message)
                         /\ Len(list[j].message) < list[j].full_size
        BY <2>1 DEF BufferWaits
      <3>1. j = i BY DEF OneBuffer
      <3> QED BY <1>2, <1>3, <2>2, <3>1 DEF from
    <2>4. PartialIn(container', current) = message BY <1>3, <2>1, PartialFound
    <2>5. StreamOf(me)'
      <3>1. InFlight(me)' = (message \o <<>>) \o inbox[current] BY <1>7, <2>2, <2>4
      <3>2. Len(processed[current]) <= sent[current] BY <1>4 DEF InOrder, StreamOf
      <3>3. AreMessages((message \o <<>>) \o inbox[current], generation'[current],
                        Len(processed'[current]) + 1, sent'[current])
        BY <1>4, <2>1, <2>2 DEF gen, from, to
      <3>4. Len(processed'[current]) <= sent'[current] BY <1>4, <2>1, <3>2
      <3> QED BY <3>1, <3>3, <3>4 DEF StreamOf
    <2>6. WholeOf(me)' BY <1>4, <2>1 DEF InOrder, WholeOf
    <2> QED BY <1>6, <2>3, <2>5, <2>6 DEF InOrder
  <1> QED BY <1>8, <1>9

\* If the loop of getMessageBuffer finds none, the container has none.
LEMMA NoBuffer ==
  ASSUME TypeInv, NEW fd, BufferOf(fd) = {}
  PROVE \A i \in 1..Len(container) : container[i].clientFd # fd
  <1> DEFINE mine == {i \in 1..Len(container) : container[i].clientFd = fd}
  <1>1. SUFFICES ASSUME mine # {} PROVE FALSE OBVIOUS
  <1>2. mine \in SUBSET Nat OBVIOUS
  <1>3. PICK i \in mine : \A j \in mine : i <= j BY <1>1, <1>2, LeastNumber
  <1>4. Len(container) \in Nat BY DEF TypeInv, TypeOK
  <1>5. \A j \in 1..(i - 1) : j \in 1..Len(container) /\ ~ (i <= j) BY <1>4
  <1>6. i \in BufferOf(fd) BY <1>3, <1>5 DEF BufferOf
  <1> QED BY <1>6

\* Without a buffer the data start with the header of the next message, and the
\* size that handle takes from it is that of the message: the header is whole,
\* or announces no body.
LEMMA SizeOfNew ==
  ASSUME FramingInv, current # NoFd, current \in open \ disturbed,
         \A i \in 1..Len(container) : container[i].clientFd # current
  PROVE /\ PartialIn(container, current) = <<>>
        /\ FullSize = MessageSize(Len(processed[current]) + 1)
  <1> DEFINE gen == generation[current]
             from == Len(processed[current]) + 1
             to == sent[current]
             q == inbox[current]
  <1>1. \A i \in 1..Len(container) : container[i].clientFd # current OBVIOUS
  <1>2. container \in Seq(Buffer) BY DEF FramingInv, TypeInv, TypeOK
  <1>3. PartialIn(container, current) = <<>> BY <1>1, <1>2, PartialMissing
  <1>4. /\ data \in Seq(CellType) /\ data # <<>> /\ q \in Seq(CellType) /\ gen \in Nat
        /\ from \in Nat \ {0} /\ to \in 0..Len(BodyLengths) /\ from <= to
        /\ AreMessages((<<>> \o data) \o q, gen, from, to)
    BY <1>3, HandledStream
  <1>5. <<>> \o data = data BY <1>4, ConcatEmptySeq
  <1> DEFINE cells == data \o q
  <1>6. /\ cells \in Seq(CellType) /\ Len(cells) = Len(data) + Len(q)
        /\ \A i \in 1..(Len(data) + Len(q)) :
             cells[i] = IF i <= Len(data) THEN data[i] ELSE q[i - Len(data)]
    BY <1>4, ConcatProperties
  <1>7. AreMessages(cells, gen, from, to) BY <1>4, <1>5
  <1> HIDE DEF gen, from, to, q, cells
  <1>8. from \in 1..Len(BodyLengths) /\ to \in from..Len(BodyLengths)
    <2>1. Len(BodyLengths) \in Nat BY BodyAssumption
    <2> QED BY <1>4, <2>1
  <1>9. \A i \in 1..MessageSize(from) : cells[i] = Cell(gen, from, i)
    BY <1>4, <1>6, <1>7, <1>8, FirstMessage
  <1>10. BodyLengths[from] \in Nat /\ MessageSize(from) = 2 + BodyLengths[from]
    BY <1>8, BodyAssumption DEF MessageSize, HeaderSize
  <1>11. Len(data) \in Nat /\ Len(data) # 0 /\ Len(q) \in Nat BY <1>4, EmptySeq, LenProperties
  <1>12. \A i \in 1..2 : i <= Len(data) => data[i] = Cell(gen, from, i)
    <2> SUFFICES ASSUME NEW i \in 1..2, i <= Len(data) PROVE data[i] = Cell(gen, from, i)
      OBVIOUS
    <2>1. i \in 1..(Len(data) + Len(q)) /\ i \in 1..MessageSize(from) BY <1>10, <1>11
    <2> QED BY <1>6, <1>9, <2>1
  <1>13. ASSUME Len(data) = 1 PROVE FullSize = MessageSize(from)
    <2>1. data[1] = Cell(gen, from, 1) BY <1>12, <1>13
    <2>2. ~Splits(data) BY DEF FramingInv, InOrder
    <2>3. data[1].at = 1 /\ data[1].of = from BY <2>1 DEF Cell
    <2>4. BodyLengths[from] = 0 BY <1>13, <2>2, <2>3 DEF Splits
    <2> QED BY <1>10, <1>13, <2>4 DEF FullSize, HeaderSize
  <1>14. ASSUME Len(data) # 1 PROVE FullSize = MessageSize(from)
    <2>1. \A n \in Nat : n # 0 /\ n # 1 => n >= 2 OBVIOUS
    <2>2. Len(data) >= 2 BY <1>11, <1>14, <2>1
    <2>3. data[2] = Cell(gen, from, 2) BY <1>12, <2>2
    <2>4. data[2].at = 2 /\ data[2].of = from BY <2>3 DEF Cell
    <2>5. LengthIn(data[2]) = BodyLengths[from] BY <2>4 DEF LengthIn, HeaderSize
    <2> QED BY <1>10, <1>14, <2>5 DEF FullSize, HeaderSize
  <1> QED BY <1>3, <1>13, <1>14 DEF from

\* handle with the list it makes, whoever the connection is.
LEMMA FinishKeeps ==
  ASSUME FramingInv, TypeInv', current \in Fds,
         NEW list \in Seq(Buffer), OneBuffer(list), NEW i \in 1..Len(list), NEW size,
         list[i].clientFd = current,
         \A k \in 1..Len(container) :
           container[k].clientFd # current => \E j \in 1..Len(list) : list[j] = container[k],
         \A j \in 1..Len(list) :
           list[j].clientFd # current => \E k \in 1..Len(container) : list[j] = container[k],
         current \in open \ disturbed =>
           /\ size \in 1..Len(data)
           /\ list[i].full_size = MessageSize(Len(processed[current]) + 1)
           /\ list[i].message = PartialIn(container, current) \o SubSeq(data, 1, size)
           /\ Len(PartialIn(container, current)) + size <= list[i].full_size
           /\ size = Len(data)
              \/ Len(PartialIn(container, current)) + size = list[i].full_size,
         Finish(list, i, size)
  PROVE FramingInv'
  <1>1. /\ OneBuffer(container') /\ ClosedAreEmpty' /\ SentBounded'
        /\ open' \subseteq open /\ \A fd \in open' : inbox'[fd] = inbox[fd]
        /\ \A fd \in open' \ disturbed' : fd # current => InOrder(fd)'
    BY FinishOthers
  <1>2. disturbed' = disturbed /\ current # NoFd BY FdsAssumption DEF Finish, NoFd
  <1>3. ASSUME NEW fd \in open' \ disturbed', fd = current PROVE InOrder(fd)'
    <2>1. current \in open \ disturbed /\ current \in open' /\ inbox'[current] = inbox[current]
      BY <1>1, <1>2, <1>3
    <2>2. size \in 1..Len(data) BY <2>1
    <2> QED BY <1>2, <1>3, <2>1, <2>2, FinishOwn
  <1> QED BY <1>1, <1>3 DEF FramingInv

\* handle, whether it finds a buffer of the descriptor or makes one.
LEMMA HandleKeeps ==
  ASSUME FramingInv, TypeInv', HandlePartial \/ HandleNew
  PROVE FramingInv'
  <1>1. current # NoFd /\ TypeInv BY DEF HandlePartial, HandleNew, FramingInv, TypeInv, HandlesData
  <1>2. /\ current \in Fds /\ data \in Seq(CellType) /\ container \in Seq(Buffer)
        /\ OneBuffer(container) /\ Len(container) \in Nat
        /\ Len(data) \in Nat /\ Len(data) >= 1
    <2>1. current \in Fds /\ data \in Seq(CellType) /\ container \in Seq(Buffer)
          /\ OneBuffer(container) /\ data # <<>>
      BY <1>1 DEF FramingInv, TypeInv, TypeOK, HandlesData
    <2>2. Len(data) \in Nat /\ Len(data) # 0 BY <2>1, EmptySeq, LenProperties
    <2> QED BY <2>1, <2>2
  <1>3. CASE HandlePartial
    <2>1. PICK i \in BufferOf(current) :
            LET size == AppendSize(container[i], Len(data))
            IN Finish([container EXCEPT ![i].message = @ \o SubSeq(data, 1, size)], i, size)
      BY <1>3 DEF HandlePartial
    <2>2. i \in 1..Len(container) /\ container[i].clientFd = current BY DEF BufferOf
    <2> DEFINE b == container[i]
               size == AppendSize(b, Len(data))
               list == [container EXCEPT ![i].message = @ \o SubSeq(data, 1, size)]
    <2>3. /\ list \in Seq(Buffer) /\ Len(list) = Len(container)
          /\ list[i] = [clientFd |-> b.clientFd, full_size |-> b.full_size,
                        message |-> b.message \o SubSeq(data, 1, size)]
          /\ \A j \in 1..Len(list) : j # i => list[j] = container[j]
      BY <1>1, <2>2, PartialBuffer
    <2>4. PartialIn(container, current) = b.message BY <1>2, <2>2, PartialFound
    <2>5. current \in open \ disturbed =>
            /\ b.full_size = MessageSize(Len(processed[current]) + 1)
            /\ 0 < Len(b.message) /\ Len(b.message) < b.full_size
      BY <2>2 DEF FramingInv, InOrder, BufferWaits
    <2>6. b \in Buffer /\ b.full_size \in Nat /\ Len(b.message) \in Nat
      <3>1. b \in Buffer BY <1>2, <2>2
      <3> QED BY <3>1, BufferParts
    <2>7. current \in open \ disturbed =>
            /\ size \in 1..Len(data) /\ Len(b.message) + size <= b.full_size
            /\ size = Len(data) \/ Len(b.message) + size = b.full_size
      <3> HIDE DEF b
      <3> QED BY <1>2, <2>5, <2>6 DEF AppendSize
    <2>8. Finish(list, i, size) BY <2>1
    <2> HIDE DEF list, size
    <2>9. list[i].clientFd = current /\ list[i].full_size = b.full_size
          /\ list[i].message = b.message \o SubSeq(data, 1, size)
      <3>1. b.clientFd = current BY <2>2
      <3>2. list[i] = [clientFd |-> b.clientFd, full_size |-> b.full_size,
                       message |-> b.message \o SubSeq(data, 1, size)]
        BY <2>3
      <3> DEFINE m == b.message \o SubSeq(data, 1, size)
                 l == list[i]
      <3>3. l = [clientFd |-> b.clientFd, full_size |-> b.full_size, message |-> m] BY <3>2
      <3> HIDE DEF m, l
      <3>4. l.clientFd = b.clientFd /\ l.full_size = b.full_size /\ l.message = m BY <3>3
      <3> QED BY <3>1, <3>4 DEF m, l
    <2>10. \A j \in 1..Len(list) : list[j].clientFd = container[j].clientFd BY <2>2, <2>3, <2>9
    <2>11. OneBuffer(list) BY <1>2, <2>3, <2>10 DEF OneBuffer
    <2>12. /\ \A k \in 1..Len(container) :
                container[k].clientFd # current => \E j \in 1..Len(list) : list[j] = container[k]
           /\ \A j \in 1..Len(list) :
                list[j].clientFd # current => \E k \in 1..Len(container) : list[j] = container[k]
      BY <2>2, <2>3, <2>10
    <2>13. i \in 1..Len(list) BY <2>2, <2>3
    <2> HIDE DEF b
    <2> QED BY <1>2, <2>3, <2>4, <2>5, <2>7, <2>8, <2>9, <2>11, <2>12, <2>13, FinishKeeps
  <1>4. CASE HandleNew
    <2> DEFINE empty == [clientFd |-> current, full_size |-> FullSize, message |-> <<>>]
               size == AppendSize(empty, Len(data))
               list == Append(container, [empty EXCEPT !.message = SubSeq(data, 1, size)])
               n == Len(container)
    <2>1. BufferOf(current) = {} /\ Finish(list, n + 1, size) BY <1>4 DEF HandleNew
    <2>2. \A i \in 1..Len(container) : container[i].clientFd # current
      BY <1>1, <2>1, NoBuffer
    <2>3. /\ size \in Nat /\ size <= Len(data) /\ FullSize \in Nat
          /\ size = (IF Len(data) < FullSize THEN Len(data) ELSE FullSize)
          /\ list \in Seq(Buffer) /\ Len(list) = n + 1
          /\ list[n + 1] = [clientFd |-> current, full_size |-> FullSize,
                            message |-> SubSeq(data, 1, size)]
          /\ \A j \in 1..n : list[j] = container[j]
      BY <1>1, <1>2, NewBuffer
    <2> HIDE DEF list, size
    <2>6. list[n + 1].clientFd = current /\ list[n + 1].full_size = FullSize
          /\ list[n + 1].message = SubSeq(data, 1, size)
      BY <2>3
    <2>10. \A j \in 1..(n + 1) : j = n + 1 \/ j \in 1..n BY <1>2
    <2>11. OneBuffer(list)
      <3> SUFFICES ASSUME NEW j \in 1..(n + 1), NEW k \in 1..(n + 1),
                          list[j].clientFd = list[k].clientFd
                   PROVE j = k
        BY <2>3 DEF OneBuffer
      <3>1. CASE j \in 1..n /\ k \in 1..n BY <1>2, <2>3, <3>1 DEF OneBuffer
      <3>2. CASE j = n + 1 /\ k \in 1..n BY <2>2, <2>3, <2>6, <3>2
      <3>3. CASE k = n + 1 /\ j \in 1..n BY <2>2, <2>3, <2>6, <3>3
      <3> QED BY <2>10, <3>1, <3>2, <3>3
    <2>12. /\ \A k \in 1..n :
                container[k].clientFd # current => \E j \in 1..Len(list) : list[j] = container[k]
           /\ \A j \in 1..Len(list) :
                list[j].clientFd # current => \E k \in 1..n : list[j] = container[k]
      <3>1. \A k \in 1..n : k \in 1..(n + 1) BY <1>2
      <3> QED BY <2>3, <2>6, <2>10, <3>1
    <2>13. n + 1 \in 1..Len(list) BY <1>2, <2>3
    <2>14. ASSUME current \in open \ disturbed
           PROVE LET p == PartialIn(container, current)
                 IN /\ size \in 1..Len(data)
                    /\ list[n + 1].full_size = MessageSize(Len(processed[current]) + 1)
                    /\ list[n + 1].message = p \o SubSeq(data, 1, size)
                    /\ Len(p) + size <= list[n + 1].full_size
                    /\ size = Len(data) \/ Len(p) + size = list[n + 1].full_size
      <3>1. /\ PartialIn(container, current) = <<>>
            /\ FullSize = MessageSize(Len(processed[current]) + 1)
        BY <1>1, <2>2, <2>14, SizeOfNew
      <3>2. FullSize >= 1
        <4>1. /\ Len(processed[current]) + 1 \in Nat \ {0}
              /\ sent[current] \in 0..Len(BodyLengths)
              /\ Len(processed[current]) + 1 <= sent[current]
          BY <1>1, <2>14, HandledStream
        <4>2. Len(processed[current]) + 1 \in 1..Len(BodyLengths) BY <4>1, BodyAssumption
        <4>3. MessageSize(Len(processed[current]) + 1) >= HeaderSize BY <4>2, SizeTypes
        <4> QED BY <2>3, <3>1, <4>3 DEF HeaderSize
      <3>3. /\ size \in 1..Len(data) /\ size <= FullSize
            /\ size = Len(data) \/ size = FullSize
        BY <1>2, <2>3, <3>2
      <3>4. SubSeq(data, 1, size) \in Seq(CellType) BY <1>2, <3>3
      <3>5. <<>> \o SubSeq(data, 1, size) = SubSeq(data, 1, size) BY <3>4, ConcatEmptySeq
      <3>6. Len(PartialIn(container, current)) + size = size BY <2>3, <3>1
      <3> QED BY <2>6, <3>1, <3>3, <3>5, <3>6
    <2> QED BY <1>2, <2>1, <2>3, <2>6, <2>11, <2>12, <2>13, <2>14, FinishKeeps
  <1> QED BY <1>3, <1>4

\* A read, which disturbs its connection if it ends inside a header.
LEMMA ReadKeeps ==
  ASSUME FramingInv, TypeInv', NEW fd \in Fds, Read(fd), inbox[fd] # <<>>
  PROVE FramingInv'
  <1>1. PICK n \in 1..Len(inbox[fd]) :
          /\ data' = SubSeq(inbox[fd], 1, n)
          /\ inbox' = [inbox EXCEPT ![fd] = SubSeq(@, n + 1, Len(@))]
    BY DEF Read
  <1> DEFINE q == inbox[fd]
             p == PartialIn(container, fd)
  <1>2. /\ q \in Seq(CellType) /\ Len(q) \in Nat /\ inbox \in [Fds -> Seq(CellType)]
        /\ container \in Seq(Buffer) /\ OneBuffer(container)
        /\ current = NoFd /\ data = <<>> /\ fd # NoFd /\ open \subseteq Fds
        /\ current' = fd /\ UNCHANGED <<container, stale, open, generation, sent, processed>>
        /\ disturbed' = disturbed \cup (IF Splits(data') THEN {fd} ELSE {})
    BY FdsAssumption, LenProperties
       DEF Read, FramingInv, TypeInv, TypeOK, HandlesData, NoFd
  <1>3. p \in Seq(CellType) BY <1>2, PartialType
  <1>4. \A f : InFlight(f) = (PartialIn(container, f)
                              \o (IF current = f THEN data ELSE <<>>)) \o inbox[f]
    BY FlightParts
  <1>5. \A f : InFlight(f)' = (PartialIn(container', f)
                               \o (IF current' = f THEN data' ELSE <<>>)) \o inbox'[f]
    BY FlightParts
  <1> DEFINE head == SubSeq(q, 1, n)
             tail == SubSeq(q, n + 1, Len(q))
  <1>6. n \in 0..Len(q) /\ n >= 1 BY <1>2
  <1>7. /\ head \in Seq(CellType) /\ Len(head) = n /\ \A j \in 1..n : head[j] = q[j]
        /\ tail \in Seq(CellType)
    BY <1>2, <1>6, RestOfCells
  <1>8. head \o tail = q
    <2>1. Len(q) \in n..Len(q) /\ n \in (1 - 1)..Len(q) /\ 1 \in 1..(Len(q) + 1) BY <1>2, <1>6
    <2>2. head \o tail = SubSeq(q, 1, Len(q)) BY <1>2, <2>1, ConcatAdjacentSubSeq
    <2> QED BY <1>2, <2>2, SubSeqFull
  <1>9. data' = head /\ inbox'[fd] = tail /\ \A f \in Fds : f # fd => inbox'[f] = inbox[f]
    BY <1>1, <1>2
  <1> HIDE DEF head, tail, p
  <1>10. ASSUME NEW f \in open PROVE InFlight(f)' = InFlight(f)
    <2>1. CASE f = fd
      <3>1. InFlight(fd)' = (p \o head) \o tail BY <1>2, <1>5, <1>9 DEF p
      <3>2. InFlight(fd) = (p \o <<>>) \o q BY <1>2, <1>4 DEF p
      <3>3. (p \o head) \o tail = p \o (head \o tail)
        <4>1. p \in Seq(CellType) /\ head \in Seq(CellType) /\ tail \in Seq(CellType)
          BY <1>3, <1>7
        <4> QED BY ONLY <4>1, ConcatAssociative
      <3>4. p \o <<>> = p BY <1>3, ConcatEmptySeq
      <3> QED BY <1>8, <2>1, <3>1, <3>2, <3>3, <3>4
    <2>2. CASE f # fd
      <3>1. f \in Fds /\ f # NoFd BY <1>2, FdsAssumption DEF NoFd
      <3> QED BY <1>2, <1>4, <1>5, <1>9, <2>2, <3>1
    <2> QED BY <2>1, <2>2
  <1>11. ASSUME NEW f \in open' \ disturbed' PROVE InOrder(f)'
    <2>1. f \in open \ disturbed BY <1>2
    <2>2. InOrder(f) BY <2>1 DEF FramingInv
    <2>3. current' = f => ~Splits(data') BY <1>2
    <2>4. InFlight(f)' = InFlight(f) BY <1>10, <2>1
    <2> QED BY <1>2, <2>2, <2>3, <2>4, OrderKept
  <1>12. ClosedAreEmpty'
    <2>1. fd \in open BY DEF FramingInv, ClosedAreEmpty
    <2> QED BY <1>2, <1>9, <2>1 DEF FramingInv, ClosedAreEmpty
  <1>13. SentBounded' BY <1>2 DEF FramingInv, SentBounded
  <1> QED BY <1>2, <1>11, <1>12, <1>13 DEF FramingInv

\* A stale buffer goes together with the stream of its connection.
LEMMA DiscardKeeps ==
  ASSUME FramingInv, TypeInv', NEW fd \in Fds, DiscardStale(fd), step' # "crashed"
  PROVE FramingInv'
  <1>1. /\ container \in Seq(Buffer) /\ OneBuffer(container)
        /\ inbox \in [Fds -> Seq(CellType)] /\ open \subseteq Fds
        /\ container' = RemoveBuffer(container, fd)
        /\ open' = open \ {fd} /\ inbox' = [inbox EXCEPT ![fd] = <<>>]
        /\ UNCHANGED <<current, data, generation, sent, processed, disturbed>>
    BY DEF DiscardStale, CloseConnection, FramingInv, TypeInv, TypeOK
  <1> DEFINE left == RemoveBuffer(container, fd)
  <1>2. /\ OneBuffer(left)
        /\ \A j \in 1..Len(left) : left[j].clientFd # fd
        /\ \A j \in 1..Len(left) : \E k \in 1..Len(container) : left[j] = container[k]
        /\ \A k \in 1..Len(container) :
             container[k].clientFd # fd => \E j \in 1..Len(left) : left[j] = container[k]
        /\ left \in Seq(Buffer)
    <2>1. /\ OneBuffer(left)
          /\ \A j \in 1..Len(left) : left[j].clientFd # fd
          /\ \A j \in 1..Len(left) : \E k \in 1..Len(container) : left[j] = container[k]
          /\ \A k \in 1..Len(container) :
               container[k].clientFd # fd => \E j \in 1..Len(left) : left[j] = container[k]
      <3>1. container \in Seq(Buffer) /\ OneBuffer(container) BY <1>1
      <3> QED BY <3>1, BufferGone
    <2>2. left \in Seq(Buffer) BY <1>1, BuffersLeft
    <2> HIDE DEF left
    <2> QED BY <2>1, <2>2
  <1>3. container' = left BY <1>1
  <1> HIDE DEF left
  <1>4. \A f : f # fd => PartialIn(left, f) = PartialIn(container, f)
    <2> SUFFICES ASSUME NEW f, f # fd PROVE PartialIn(left, f) = PartialIn(container, f)
      OBVIOUS
    <2>1. \A k \in 1..Len(container) :
            container[k].clientFd = f => \E j \in 1..Len(left) : left[j] = container[k]
      BY <1>2
    <2>2. \A j \in 1..Len(left) :
            left[j].clientFd = f => \E k \in 1..Len(container) : left[j] = container[k]
      BY <1>2
    <2> QED BY <1>1, <1>2, <2>1, <2>2, PartialKept
  <1>5. ASSUME NEW f \in open' \ disturbed' PROVE InOrder(f)'
    <2>1. f \in open \ disturbed /\ f # fd /\ f \in Fds BY <1>1
    <2>2. InOrder(f) BY <2>1 DEF FramingInv
    <2>3. current' = f => ~Splits(data') BY <1>1, <2>2 DEF InOrder, Splits
    <2>4. PartialIn(container', f) = PartialIn(container, f) BY <1>3, <1>4, <2>1
    <2>5. InFlight(f)' = InFlight(f)
      <3>1. InFlight(f) = (PartialIn(container, f)
                           \o (IF current = f THEN data ELSE <<>>)) \o inbox[f]
        BY FlightParts
      <3>2. InFlight(f)' = (PartialIn(container', f)
                            \o (IF current' = f THEN data' ELSE <<>>)) \o inbox'[f]
        BY FlightParts
      <3>3. inbox'[f] = inbox[f] /\ current' = current /\ data' = data BY <1>1, <2>1
      <3> QED BY ONLY <2>4, <3>1, <3>2, <3>3
    <2>6. \A j \in 1..Len(container') : container'[j].clientFd = f =>
            \E k \in 1..Len(container) : container'[j] = container[k]
      BY <1>2, <1>3
    <2> QED BY <1>1, <2>2, <2>3, <2>5, <2>6, OrderKept
  <1>6. ClosedAreEmpty' BY <1>1 DEF FramingInv, ClosedAreEmpty
  <1>7. SentBounded' BY <1>1 DEF FramingInv, SentBounded
  <1> QED BY <1>2, <1>3, <1>5, <1>6, <1>7 DEF FramingInv

\* A new connection starts a new stream, unless its descriptor has a buffer.
LEMMA AcceptKeeps ==
  ASSUME FramingInv, TypeInv', NEW fd \in Fds, Accept(fd)
  PROVE FramingInv'
  <1>1. /\ container \in Seq(Buffer) /\ OneBuffer(container)
        /\ open \subseteq Fds /\ fd \notin open /\ current = NoFd /\ fd # NoFd
        /\ inbox[fd] = <<>> /\ generation \in [Fds -> Nat] /\ sent \in [Fds -> Nat]
        /\ processed \in [Fds -> Seq(Seq(CellType))]
        /\ open' = open \cup {fd}
        /\ generation' = [generation EXCEPT ![fd] = @ + 1]
        /\ sent' = [sent EXCEPT ![fd] = 0] /\ processed' = [processed EXCEPT ![fd] = <<>>]
        /\ disturbed' = IF BufferOf(fd) # {} THEN disturbed \cup {fd} ELSE disturbed \ {fd}
        /\ UNCHANGED <<current, data, container, inbox>>
    BY FdsAssumption
       DEF Accept, FramingInv, TypeInv, TypeOK, HandlesData, ClosedAreEmpty, NoFd
  <1>2. \A f \in Fds : f # fd =>
          generation'[f] = generation[f] /\ sent'[f] = sent[f] /\ processed'[f] = processed[f]
    BY <1>1
  <1>3. processed'[fd] = <<>> /\ sent'[fd] = 0 /\ Len(<<>>) = 0 BY <1>1
  <1>4. ASSUME fd \notin disturbed' PROVE InOrder(fd)'
    <2>1. BufferOf(fd) = {} BY <1>1, <1>4
    <2>2. \A i \in 1..Len(container) : container[i].clientFd # fd
      BY <2>1, NoBuffer DEF FramingInv
    <2>3. PartialIn(container, fd) = <<>> BY <1>1, <2>2, PartialMissing
    <2>4. InFlight(fd)' = <<>>
      <3>1. InFlight(fd)' = (<<>> \o <<>>) \o <<>> BY <1>1, <2>3, FlightParts
      <3> QED BY <3>1, EmptySeq, ConcatEmptySeq
    <2>5. StreamOf(fd)'
      <3>1. AreMessages(<<>>, generation'[fd], 0 + 1, 0) BY DEF AreMessages
      <3> QED BY <1>3, <2>4, <3>1 DEF StreamOf
    <2>6. BufferWaits(fd)' BY <1>1, <2>2 DEF BufferWaits
    <2>7. WholeOf(fd)' BY <1>3 DEF WholeOf
    <2>8. current' # fd BY <1>1
    <2> QED BY <2>5, <2>6, <2>7, <2>8 DEF InOrder
  <1>5. ASSUME NEW f \in open' \ disturbed', f # fd PROVE InOrder(f)'
    <2>1. f \in open \ disturbed /\ f \in Fds BY <1>1, <1>5
    <2>2. InOrder(f) BY <2>1 DEF FramingInv
    <2>3. current' = f => ~Splits(data') BY <1>1, <2>2 DEF InOrder, Splits
    <2>4. InFlight(f)' = InFlight(f) BY <1>1, FlightParts
    <2> QED BY <1>1, <1>2, <1>5, <2>1, <2>2, <2>3, <2>4, OrderKept
  <1>6. SentBounded'
    <2>1. Len(BodyLengths) >= 0 BY BodyAssumption
    <2> QED BY <1>2, <1>3, <2>1 DEF FramingInv, SentBounded
  <1>7. ClosedAreEmpty' /\ OneBuffer(container') BY <1>1 DEF FramingInv, ClosedAreEmpty
  <1> QED BY <1>4, <1>5, <1>6, <1>7 DEF FramingInv

\* A client sends its next message.
LEMMA SendKeeps ==
  ASSUME FramingInv, TypeInv', NEW fd \in Fds, Send(fd)
  PROVE FramingInv'
  <1> DEFINE gen == generation[fd]
             to == sent[fd]
             added == MessageCells(gen, to + 1)
             from == Len(processed[fd]) + 1
  <1>1. /\ fd \in open /\ to < Len(BodyLengths) /\ to \in Nat /\ gen \in Nat
        /\ inbox \in [Fds -> Seq(CellType)] /\ sent \in [Fds -> Nat]
        /\ data \in Seq(CellType) /\ container \in Seq(Buffer) /\ OneBuffer(container)
        /\ processed \in [Fds -> Seq(Seq(CellType))] /\ Len(processed[fd]) \in Nat
        /\ sent' = [sent EXCEPT ![fd] = to + 1]
        /\ inbox' = [inbox EXCEPT ![fd] = @ \o added] /\ open \subseteq Fds
        /\ UNCHANGED <<current, data, container, open, generation, processed, disturbed>>
    BY LenProperties DEF Send, FramingInv, TypeInv, TypeOK
  <1>2. to + 1 \in 1..Len(BodyLengths) /\ to + 1 <= Len(BodyLengths)
    <2>1. Len(BodyLengths) \in Nat BY BodyAssumption
    <2> QED BY <1>1, <2>1
  <1>3. added \in Seq(CellType) BY <1>1, <1>2, MessageTypes
  <1>4. inbox'[fd] = inbox[fd] \o added /\ sent'[fd] = to + 1
        /\ \A f \in Fds : f # fd => inbox'[f] = inbox[f] /\ sent'[f] = sent[f]
    BY <1>1
  <1> HIDE DEF added
  <1> DEFINE pd == PartialIn(container, fd) \o (IF current = fd THEN data ELSE <<>>)
  <1>5. \A f : /\ InFlight(f) = (PartialIn(container, f)
                                 \o (IF current = f THEN data ELSE <<>>)) \o inbox[f]
               /\ InFlight(f)' = (PartialIn(container', f)
                                  \o (IF current' = f THEN data' ELSE <<>>)) \o inbox'[f]
    BY FlightParts
  <1>6. pd \in Seq(CellType)
    <2>1. PartialIn(container, fd) \in Seq(CellType) BY <1>1, PartialType
    <2>2. (IF current = fd THEN data ELSE <<>>) \in Seq(CellType) BY <1>1, EmptySeq
    <2> QED BY <2>1, <2>2, ConcatProperties
  <1>7. InFlight(fd)' = InFlight(fd) \o added /\ InFlight(fd) \in Seq(CellType)
    <2>1. InFlight(fd) = pd \o inbox[fd] BY <1>5
    <2>2. InFlight(fd)' = pd \o (inbox[fd] \o added) BY <1>1, <1>4, <1>5
    <2> HIDE DEF pd
    <2>3. inbox[fd] \in Seq(CellType) BY <1>1
    <2>4. (pd \o inbox[fd]) \o added = pd \o (inbox[fd] \o added)
      <3> DEFINE q == inbox[fd]
      <3> HIDE DEF q
      <3>1. q \in Seq(CellType) BY <2>3 DEF q
      <3>2. (pd \o q) \o added = pd \o (q \o added)
        <4>1. pd \in Seq(CellType) /\ added \in Seq(CellType) BY <1>3, <1>6
        <4> QED BY ONLY <3>1, <4>1, ConcatAssociative
      <3> QED BY <3>2 DEF q
    <2> QED BY <1>6, <2>1, <2>2, <2>3, <2>4, ConcatProperties
  <1>8. ASSUME fd \notin disturbed PROVE InOrder(fd)'
    <2>1. InOrder(fd) BY <1>1, <1>8 DEF FramingInv
    <2>2. BufferWaits(fd)' BY <1>1, <2>1 DEF InOrder, BufferWaits
    <2>3. StreamOf(fd)'
      <3>1. Len(processed[fd]) <= to /\ AreMessages(InFlight(fd), gen, from, to)
        BY <2>1 DEF InOrder, StreamOf
      <3>2. from \in Nat \ {0} /\ from <= to + 1 BY <1>1, <3>1
      <3> HIDE DEF gen, from, to
      <3>3. AreMessages(InFlight(fd) \o added, gen, from, to + 1)
        BY <1>1, <1>2, <1>7, <3>1, <3>2, SentMessage DEF added
      <3>4. Len(processed[fd]) <= to + 1 BY <1>1, <3>1
      <3> QED BY <1>1, <1>4, <1>7, <3>3, <3>4 DEF StreamOf, gen, from
    <2>4. WholeOf(fd)'
      <3> SUFFICES ASSUME NEW k \in 1..Len(processed[fd])
                   PROVE k <= sent'[fd] /\ processed[fd][k] = MessageCells(generation[fd], k)
        BY <1>1 DEF WholeOf
      <3>1. k <= sent[fd] /\ processed[fd][k] = MessageCells(generation[fd], k)
        BY <2>1 DEF InOrder, WholeOf
      <3> QED BY <1>1, <1>4, <3>1
    <2>5. current' = fd => ~Splits(data') BY <1>1, <2>1 DEF InOrder, Splits
    <2> QED BY <2>2, <2>3, <2>4, <2>5 DEF InOrder
  <1>9. ASSUME NEW f \in open \ disturbed, f # fd PROVE InOrder(f)'
    <2>1. InOrder(f) /\ f \in Fds BY <1>1 DEF FramingInv
    <2>2. current' = f => ~Splits(data') BY <1>1, <2>1 DEF InOrder, Splits
    <2>3. InFlight(f)' = InFlight(f) BY <1>1, <1>4, <1>5, <1>9, <2>1
    <2> QED BY <1>1, <1>4, <1>9, <2>1, <2>2, <2>3, OrderKept
  <1>10. ClosedAreEmpty' BY <1>1, <1>4 DEF FramingInv, ClosedAreEmpty
  <1>11. SentBounded' BY <1>2, <1>4 DEF FramingInv, SentBounded
  <1> QED BY <1>1, <1>8, <1>9, <1>10, <1>11 DEF FramingInv

\* The connections that are open and not disturbed stay in order, across partial
\* reads, refusals, stale discards and descriptors used again.
THEOREM FramingInvariance == Spec => []FramingInv
  <1>1. Init => FramingInv
    <2> SUFFICES ASSUME Init PROVE FramingInv OBVIOUS
    <2>1. TypeInv BY EmptySeq DEF Init, TypeInv, TypeOK, HandlesData, NoFd
    <2>2. OneBuffer(container) /\ ClosedAreEmpty BY DEF Init, OneBuffer, ClosedAreEmpty
    <2>3. SentBounded
      <3>1. Len(BodyLengths) >= 0 BY BodyAssumption
      <3> QED BY <3>1 DEF Init, SentBounded
    <2> QED BY <2>1, <2>2, <2>3 DEF Init, FramingInv
  <1>2. FramingInv /\ [Next]_vars => FramingInv'
    <2> SUFFICES ASSUME FramingInv, [Next]_vars PROVE FramingInv' OBVIOUS
    <2> TypeInv' BY TypesKept DEF FramingInv
    <2>1. CASE HandlePartial \/ HandleNew BY <2>1, HandleKeeps
    <2>2. ASSUME NEW fd \in Fds, DiscardStale(fd) PROVE FramingInv'
      <3>1. CASE step' # "crashed" BY <2>2, <3>1, DiscardKeeps
      <3>2. CASE step' = "crashed" BY <2>2, <3>2, NothingChanged DEF DiscardStale
      <3> QED BY <3>1, <3>2
    <2>3. ASSUME NEW fd \in Fds, Read(fd) PROVE FramingInv'
      <3>1. CASE inbox[fd] # <<>> BY <2>3, <3>1, ReadKeeps
      <3>2. CASE inbox[fd] = <<>>
        <4>1. Len(inbox[fd]) = 0 BY <3>2
        <4> QED BY <2>3, <4>1, NothingChanged DEF Read
      <3> QED BY <3>1, <3>2
    <2>4. ASSUME NEW fd \in Fds, Accept(fd) PROVE FramingInv' BY <2>4, AcceptKeeps
    <2>5. ASSUME NEW fd \in Fds, Send(fd) PROVE FramingInv' BY <2>5, SendKeeps
    <2>6. ASSUME NEW fd \in Fds, Age(fd) PROVE FramingInv' BY <2>6, NothingChanged DEF Age
    <2>7. CASE NothingStale \/ Select BY <2>7, NothingChanged DEF NothingStale, Select
    <2>8. CASE UNCHANGED vars BY <2>8, NothingChanged DEF vars
    <2> QED BY <2>1, <2>2, <2>3, <2>4, <2>5, <2>6, <2>7, <2>8 DEF Next, Server
  <1> QED BY <1>1, <1>2, PTL DEF Spec

\* On every connection that is open and not disturbed, nothing is lost, repeated,
\* reordered or mixed with another connection between read and process.
THEOREM StreamsStayConserved == Spec => []StreamConserved
  <1>1. FramingInv => StreamConserved
    BY DEF FramingInv, InOrder, StreamOf, StreamConserved
  <1> QED BY <1>1, FramingInvariance, PTL

\* What process gets of such a connection are the messages that were sent, in
\* turn and complete.
THEOREM MessagesStayWhole == Spec => []UndisturbedAreWhole
  <1>1. FramingInv => UndisturbedAreWhole
    BY DEF FramingInv, InOrder, WholeOf, UndisturbedAreWhole
  <1> QED BY <1>1, FramingInvariance, PTL

=============================================================================
