---------------------------- MODULE DataPathFlow ----------------------------
(***************************************************************************)
(* The flow of the characters through DataPath when the receiver strips    *)
(* none: they stay in the order of writing, a section under the lock       *)
(* leaves nothing behind that has somewhere to go, and so the data path    *)
(* implements the cable of module Wire.                                    *)
(*                                                                         *)
(* With a filter the order does not hold: ReadFromTxBuffer ends when it    *)
(* has read nothing, also if that is because everything was stripped, and  *)
(* the copy from the write queue overtakes what is left of txBuf.          *)
(***************************************************************************)
EXTENDS DataPathProofs

Assoc(a, b, c) == (a \o b) \o c = a \o (b \o c)

LEMMA AssocIs ==
  ASSUME NEW S, NEW a \in Seq(S), NEW b \in Seq(S), NEW c \in Seq(S)
  PROVE  Assoc(a, b, c)
  BY ConcatAssociative DEF Assoc

LEMMA Regroup ==
  ASSUME NEW S, NEW a \in Seq(S), NEW b \in Seq(S), NEW c \in Seq(S)
  PROVE  /\ a \o b \in Seq(S) /\ b \o c \in Seq(S)
         /\ (a \o b) \o c \in Seq(S)
         /\ (a \o b) \o c = a \o (b \o c)
<1>1. a \o b \in Seq(S)
  BY ConcatProperties
<1>2. b \o c \in Seq(S)
  BY ConcatProperties
<1>3. (a \o b) \o c = a \o (b \o c)
  BY ConcatAssociative
<1>4. a \o (b \o c) \in Seq(S)
  <2> DEFINE d == b \o c
  <2>1. d \in Seq(S)
    BY <1>2
  <2> HIDE DEF d
  <2>2. a \o d \in Seq(S)
    BY <2>1, ConcatProperties
  <2> QED
    BY <2>2 DEF d
<1> QED
  BY <1>1, <1>2, <1>3, <1>4

(* Four in a row.                                                          *)
LEMMA RegroupFour ==
  ASSUME NEW S, NEW a \in Seq(S), NEW b \in Seq(S), NEW c \in Seq(S),
         NEW d \in Seq(S)
  PROVE  /\ (a \o b) \o (c \o d) = a \o (b \o (c \o d))
         /\ (a \o b) \o (c \o d) = ((a \o b) \o c) \o d
         /\ (a \o (b \o c)) \o d = a \o (b \o (c \o d))
         /\ a \o (b \o (c \o d)) \in Seq(S)
<1> DEFINE u == a \o b
           v == c \o d
           x == b \o c
<1>1. u \in Seq(S) /\ v \in Seq(S) /\ x \in Seq(S)
  BY Regroup
<1>2. Assoc(b, c, d)
  BY AssocIs
<1>3. Assoc(a, b, v) /\ b \o v \in Seq(S)
  <2>1. v \in Seq(S)
    BY <1>1
  <2> HIDE DEF v
  <2>2. b \o v \in Seq(S)
    BY <2>1, ConcatProperties
  <2> QED
    BY <2>1, <2>2, AssocIs
<1>4. Assoc(u, c, d)
  <2>1. u \in Seq(S)
    BY <1>1
  <2> HIDE DEF u
  <2> QED
    BY <2>1, AssocIs
<1>5. Assoc(a, x, d)
  <2>1. x \in Seq(S)
    BY <1>1
  <2> HIDE DEF x
  <2> QED
    BY <2>1, AssocIs
<1>6. a \o (b \o v) \in Seq(S)
  <2> DEFINE y == b \o v
  <2>1. y \in Seq(S)
    BY <1>3
  <2> HIDE DEF y
  <2>2. a \o y \in Seq(S)
    BY <2>1, ConcatProperties
  <2> QED
    BY <2>2 DEF y
<1> QED
  BY <1>2, <1>3, <1>4, <1>5, <1>6 DEF Assoc

(* What is cut out of the middle of txBuf, or of the current write.        *)
Middle(g, r, s, l, y, f) ==
  /\ g \o ((r \o ((s \o l) \o y)) \o f) = (g \o (r \o s)) \o (l \o (y \o f))
  /\ g \o (((r \o s) \o y) \o f) = (g \o (r \o s)) \o (y \o f)
  /\ g \o (r \o (((s \o l) \o y) \o f)) = (g \o (r \o s)) \o (l \o (y \o f))

LEMMA CutMiddle ==
  ASSUME NEW S, NEW g \in Seq(S), NEW r \in Seq(S), NEW s \in Seq(S),
         NEW l \in Seq(S), NEW y \in Seq(S), NEW f \in Seq(S)
  PROVE  Middle(g, r, s, l, y, f)
<1> DEFINE q == r \o s
           h == y \o f
           k == l \o h
           p == s \o l
           z == p \o y
<1>1. q \in Seq(S)
  BY ConcatProperties
<1>2. h \in Seq(S)
  BY ConcatProperties
<1>3. p \in Seq(S)
  BY ConcatProperties
<1> HIDE DEF q, h, p
<1>12. k \in Seq(S)
  BY <1>2, ConcatProperties
<1>13. z \in Seq(S)
  BY <1>3, ConcatProperties
<1> HIDE DEF k, z
<1>4. Assoc(p, y, f)
  BY <1>3, AssocIs
<1>5. Assoc(s, l, h)
  BY <1>2, AssocIs
<1>6. Assoc(r, s, k)
  BY <1>12, AssocIs
<1>7. Assoc(g, q, k)
  BY <1>1, <1>12, AssocIs
<1>8. Assoc(r, z, f)
  BY <1>13, AssocIs
<1>9. Assoc(q, y, f)
  BY <1>1, AssocIs
<1>10. Assoc(g, q, h)
  BY <1>1, <1>2, AssocIs
<1>15. /\ z = p \o y /\ p = s \o l /\ h = y \o f /\ k = l \o h /\ q = r \o s
  BY DEF z, p, h, k, q
<1>16. z \o f = p \o h
  BY <1>4, <1>15 DEF Assoc
<1>17. p \o h = s \o k
  BY <1>5, <1>15 DEF Assoc
<1>18. r \o (z \o f) = q \o k
  BY <1>6, <1>15, <1>16, <1>17 DEF Assoc
<1>19. g \o (r \o (z \o f)) = (g \o q) \o k
  BY <1>7, <1>18 DEF Assoc
<1>20. (r \o z) \o f = r \o (z \o f)
  BY <1>8 DEF Assoc
<1>21. (q \o y) \o f = q \o h
  BY <1>9, <1>15 DEF Assoc
<1>22. g \o ((q \o y) \o f) = (g \o q) \o h
  BY <1>10, <1>21 DEF Assoc
<1>11. /\ g \o ((r \o z) \o f) = (g \o q) \o k
       /\ g \o (r \o (z \o f)) = (g \o q) \o k
       /\ g \o ((q \o y) \o f) = (g \o q) \o h
  BY <1>19, <1>20, <1>22
<1> QED
  BY <1>11 DEF p, q, h, k, z, Middle
-----------------------------------------------------------------------------
(***************************************************************************)
(* What a step does to the characters in transit: the oldest of them, g,   *)
(* go to the reader and nothing else happens, or a stretch l of them is    *)
(* cut out.                                                                *)
(***************************************************************************)
Stream == taken \o InTransit

Moves ==
  \E g \in Seq(Chars) : taken' = taken \o g /\ InTransit = g \o InTransit'

Cuts ==
  /\ taken' = taken
  /\ \E x, l, y \in Seq(Chars) :
       InTransit = x \o (l \o y) /\ InTransit' = x \o y

LEMMA LineIsGot ==
  ASSUME NEW g \in Seq(Chars), NEW r \in Seq(Chars), NEW t \in Seq(Chars),
         NEW f \in Seq(Chars)
  PROVE  /\ Line(g, r, t, f) = g \o ((r \o t) \o f)
         /\ (r \o t) \o f \in Seq(Chars)
         /\ (r \o t) \o f = r \o (t \o f)
         /\ Line(g, r, t, f) \in Seq(Chars)
         /\ <<>> \o ((<<>> \o t) \o f) = t \o f
         /\ Line(<<>>, r, t, f) = r \o (t \o f)
<1>1. (r \o t) \o f \in Seq(Chars) /\ (r \o t) \o f = r \o (t \o f)
  BY Regroup
<1>2. Line(g, r, t, f) \in Seq(Chars)
  BY LineIs
<1>3. <<>> \o t = t
  BY ConcatEmptySeq
<1>4. t \o f \in Seq(Chars)
  BY Regroup
<1>5. <<>> \o (t \o f) = t \o f
  BY <1>4, ConcatEmptySeq
<1>6. <<>> \o ((r \o t) \o f) = (r \o t) \o f
  BY <1>1, ConcatEmptySeq
<1> QED
  BY <1>1, <1>2, <1>3, <1>5, <1>6 DEF Line

LEMMA Stays ==
  ASSUME Shape, Shape', UNCHANGED <<rx, tx, writes, taken>>,
         GotIs(reads') = GotIs(reads)
  PROVE  Moves
<1>1. InTransit = Line(GotIs(reads), rx, tx, FlattenSeq(writes))
  BY InTransitIs
<1>2. InTransit' = Line(GotIs(reads'), rx', tx', FlattenSeq(writes'))
  BY InTransitNext
<1>3. FlattenSeq(writes') = FlattenSeq(writes) /\ rx' = rx /\ tx' = tx
  OBVIOUS
<1>4. InTransit' = InTransit
  BY <1>1, <1>2, <1>3
<1>5. InTransit \in Seq(Chars)
  BY <1>1, InTransitIs, LineIs DEF Shape
<1>6. taken = taken \o <<>> /\ InTransit = <<>> \o InTransit
  BY <1>5, ConcatEmptySeq DEF Shape
<1>7. <<>> \in Seq(Chars) /\ taken' = taken
  OBVIOUS
<1> QED
  BY <1>4, <1>6, <1>7 DEF Moves

(* A read gets chars, the first of those that wait.                        *)
LEMMA FedMoves ==
  ASSUME NEW chars \in Seq(Chars), Fed(chars), taken \in Seq(Chars),
         NEW v \in Seq(Chars), NEW u \in Seq(Chars), u = chars \o v,
         InTransit = GotIs(reads) \o u, InTransit' = GotIs(reads') \o v
  PROVE  Moves
<1> DEFINE g == GotIs(reads)
<1>1. g \in Seq(Chars) /\ <<>> \in Seq(Chars)
  BY DEF Fed
<1>2. \/ taken' = taken \o (g \o chars) /\ GotIs(reads') = <<>>
      \/ taken' = taken /\ GotIs(reads') = g \o chars
  BY DEF Fed
<1>3. InTransit = g \o (chars \o v)
  OBVIOUS
<1> HIDE DEF g
<1>7. g \in Seq(Chars)
  BY <1>1
<1>4. /\ g \o chars \in Seq(Chars) /\ (g \o chars) \o v \in Seq(Chars)
      /\ (g \o chars) \o v = g \o (chars \o v)
  <2>1. g \o chars \in Seq(Chars)
    BY <1>7, ConcatProperties
  <2>2. (g \o chars) \o v \in Seq(Chars)
    BY <2>1, ConcatProperties
  <2>3. Assoc(g, chars, v)
    BY <1>7, AssocIs
  <2> QED
    BY <2>1, <2>2, <2>3 DEF Assoc
<1>5. CASE taken' = taken \o (g \o chars) /\ GotIs(reads') = <<>>
  <2>1. InTransit' = v
    BY <1>5, ConcatEmptySeq
  <2>2. InTransit = (g \o chars) \o InTransit'
    BY <1>3, <1>4, <2>1
  <2> QED
    BY <1>4, <1>5, <2>2 DEF Moves
<1>6. CASE taken' = taken /\ GotIs(reads') = g \o chars
  <2>1. InTransit' = InTransit
    BY <1>3, <1>4, <1>6
  <2>2. InTransit \in Seq(Chars)
    BY <1>3, <1>4
  <2>3. taken' = taken \o <<>>
    BY <1>6, ConcatEmptySeq
  <2>4. InTransit = <<>> \o InTransit'
    BY <2>1, <2>2, ConcatEmptySeq
  <2> QED
    BY <1>1, <2>3, <2>4 DEF Moves
<1> QED
  BY <1>2, <1>5, <1>6

LEMMA Ahead ==
  ASSUME Shape
  PROVE  /\ GotIs(reads) \in Seq(Chars) /\ FlattenSeq(writes) \in Seq(Chars)
         /\ rx \in Seq(Chars) /\ tx \in Seq(Chars) /\ taken \in Seq(Chars)
         /\ tx \o FlattenSeq(writes) \in Seq(Chars)
         /\ rx \o (tx \o FlattenSeq(writes)) \in Seq(Chars)
         /\ InTransit \in Seq(Chars)
         /\ InTransit
              = GotIs(reads) \o (rx \o (tx \o FlattenSeq(writes)))
<1> DEFINE g == GotIs(reads)
           f == FlattenSeq(writes)
           r == rx
           t == tx
<1>1. g \in Seq(Chars) /\ f \in Seq(Chars) /\ InTransit = Line(g, r, t, f)
  BY InTransitIs
<1>2. r \in Seq(Chars) /\ t \in Seq(Chars) /\ taken \in Seq(Chars)
  BY DEF Shape
<1>3. InTransit = Line(g, r, t, f)
  BY <1>1
<1> HIDE DEF g, f, r, t
<1>4. /\ Line(g, r, t, f) = g \o ((r \o t) \o f)
      /\ (r \o t) \o f \in Seq(Chars) /\ (r \o t) \o f = r \o (t \o f)
      /\ Line(g, r, t, f) \in Seq(Chars)
  <2>1. g \in Seq(Chars)
    BY <1>1
  <2>2. f \in Seq(Chars)
    BY <1>1
  <2>3. Line(g, r, t, f) = g \o ((r \o t) \o f)
    BY DEF Line
  <2>4. Assoc(r, t, f)
    BY <1>2, <2>2, AssocIs
  <2>5. (r \o t) \o f \in Seq(Chars) /\ Line(g, r, t, f) \in Seq(Chars)
    BY <1>2, <2>1, <2>2, LineIs
  <2> QED
    BY <2>3, <2>4, <2>5 DEF Assoc
<1>5. t \o f \in Seq(Chars)
  BY <1>1, <1>2, ConcatProperties
<1>6. r \o (t \o f) \in Seq(Chars) /\ InTransit = g \o (r \o (t \o f))
  BY <1>3, <1>4
<1> QED
  BY <1>1, <1>2, <1>3, <1>4, <1>5, <1>6 DEF g, f, r, t

LEMMA AheadNext ==
  ASSUME Shape'
  PROVE  /\ GotIs(reads') \in Seq(Chars) /\ FlattenSeq(writes') \in Seq(Chars)
         /\ rx' \in Seq(Chars) /\ tx' \in Seq(Chars) /\ taken' \in Seq(Chars)
         /\ tx' \o FlattenSeq(writes') \in Seq(Chars)
         /\ rx' \o (tx' \o FlattenSeq(writes')) \in Seq(Chars)
         /\ InTransit' \in Seq(Chars)
         /\ InTransit'
              = GotIs(reads') \o (rx' \o (tx' \o FlattenSeq(writes')))
<1> DEFINE g == GotIs(reads')
           f == FlattenSeq(writes')
           r == rx'
           t == tx'
<1>1. g \in Seq(Chars) /\ f \in Seq(Chars) /\ InTransit' = Line(g, r, t, f)
  BY InTransitNext
<1>2. r \in Seq(Chars) /\ t \in Seq(Chars) /\ taken' \in Seq(Chars)
  BY DEF Shape
<1>3. InTransit' = Line(g, r, t, f)
  BY <1>1
<1> HIDE DEF g, f, r, t
<1>4. /\ Line(g, r, t, f) = g \o ((r \o t) \o f)
      /\ (r \o t) \o f \in Seq(Chars) /\ (r \o t) \o f = r \o (t \o f)
      /\ Line(g, r, t, f) \in Seq(Chars)
  <2>1. g \in Seq(Chars)
    BY <1>1
  <2>2. f \in Seq(Chars)
    BY <1>1
  <2>3. Line(g, r, t, f) = g \o ((r \o t) \o f)
    BY DEF Line
  <2>4. Assoc(r, t, f)
    BY <1>2, <2>2, AssocIs
  <2>5. (r \o t) \o f \in Seq(Chars) /\ Line(g, r, t, f) \in Seq(Chars)
    BY <1>2, <2>1, <2>2, LineIs
  <2> QED
    BY <2>3, <2>4, <2>5 DEF Assoc
<1>5. t \o f \in Seq(Chars)
  BY <1>1, <1>2, ConcatProperties
<1>6. r \o (t \o f) \in Seq(Chars) /\ InTransit' = g \o (r \o (t \o f))
  BY <1>3, <1>4
<1> QED
  BY <1>1, <1>2, <1>3, <1>4, <1>5, <1>6 DEF g, f, r, t

LEMMA ReadFromRxMoves ==
  ASSUME Shape, Shape', ReadFromRx
  PROVE  Moves
<1>1. PICK n : ReadFromRxEffect(n)
  BY ReadFromRxDoes
<1> DEFINE c == First(rx, n)
           h == tx \o FlattenSeq(writes)
<1>2. /\ n \in Nat /\ n <= Len(rx) /\ Fed(c) /\ rx' = Rest(rx, n)
      /\ tx' = tx /\ writes' = writes
  BY <1>1 DEF ReadFromRxEffect
<1>3. /\ h \in Seq(Chars) /\ rx \o h \in Seq(Chars) /\ rx \in Seq(Chars)
      /\ InTransit = GotIs(reads) \o (rx \o h) /\ taken \in Seq(Chars)
  BY Ahead
<1>4. h = tx' \o FlattenSeq(writes')
  BY <1>2
<1>5. /\ rx' \in Seq(Chars) /\ rx' \o h \in Seq(Chars)
      /\ InTransit' = GotIs(reads') \o (rx' \o h)
  BY <1>4, AheadNext
<1>6. c \in Seq(Chars) /\ rx = c \o rx'
  BY <1>2, <1>3, FirstRest
<1> HIDE DEF c, h
<1>7. Assoc(c, rx', h)
  BY <1>3, <1>5, <1>6, AssocIs
<1>8. rx \o h = c \o (rx' \o h)
  BY <1>6, <1>7 DEF Assoc
<1> QED
  BY <1>2, <1>3, <1>5, <1>6, <1>8, FedMoves

LEMMA ReadFromTxMoves ==
  ASSUME Shape, Shape', Plainly, ReadFromTx, rx = <<>>
  PROVE  Moves
<1>1. PICK n : ReadFromTxEffect(n)
  BY ReadFromTxDoes
<1> DEFINE c == First(tx, n)
           f == FlattenSeq(writes)
<1>2. /\ n \in Nat /\ n <= Len(Chunk) /\ SentFromTx(n) /\ Fed(Kept(c))
      /\ writes' = writes /\ rx' = rx
  BY <1>1 DEF ReadFromTxEffect
<1>3. /\ tx' = Rest(tx, n) /\ n <= Len(tx) /\ c \in Seq(Chars)
      /\ tx \in Seq(Chars)
  BY <1>2, SentIs DEF Shape
<1>4. Kept(c) = c
  BY <1>3, KeptIs DEF Plainly
<1>5. Fed(c)
  BY <1>2, <1>4
<1>6. tx = c \o tx'
  BY <1>2, <1>3, FirstRest
<1>7. /\ f \in Seq(Chars) /\ tx \o f \in Seq(Chars) /\ taken \in Seq(Chars)
      /\ InTransit = GotIs(reads) \o (rx \o (tx \o f))
  BY Ahead
<1>8. f = FlattenSeq(writes')
  BY <1>2
<1>9. /\ tx' \in Seq(Chars) /\ tx' \o f \in Seq(Chars)
      /\ InTransit' = GotIs(reads') \o (rx' \o (tx' \o f))
  BY <1>8, AheadNext
<1> HIDE DEF c, f
<1>10. rx \o (tx \o f) = tx \o f /\ rx' \o (tx' \o f) = tx' \o f
  BY <1>2, <1>7, <1>9, ConcatEmptySeq
<1>11. Assoc(c, tx', f)
  BY <1>3, <1>7, <1>9, AssocIs
<1>12. tx \o f = c \o (tx' \o f)
  BY <1>6, <1>11 DEF Assoc
<1>13. /\ InTransit = GotIs(reads) \o (tx \o f)
       /\ InTransit' = GotIs(reads') \o (tx' \o f)
  BY <1>7, <1>9, <1>10
<1> QED
  BY <1>3, <1>5, <1>7, <1>9, <1>12, <1>13, FedMoves

LEMMA ReadWriteDirectMoves ==
  ASSUME Shape, Shape', Plainly, ReadWriteDirect, rx = <<>>, tx = <<>>
  PROVE  Moves
<1>1. PICK n : ReadWriteDirectEffect(n)
  BY ReadWriteDirectDoes
<1> DEFINE w == Head(writes)
           c == First(w, n)
           y == Rest(w, n)
           e == FlattenSeq(Tail(writes))
           f == FlattenSeq(writes)
           d == FlattenSeq(writes')
<1>2. /\ n \in Nat /\ n <= Len(w) /\ writes # <<>> /\ Fed(Kept(c))
      /\ writes' = AfterWriting(n) /\ rx' = rx /\ tx' = tx
  BY <1>1 DEF ReadWriteDirectEffect
<1>3. w \in Seq(Chars) /\ e \in Seq(Chars) /\ f = w \o e
  BY <1>2, HeadWrite DEF Shape
<1>4. d = y \o e
  BY <1>2, WritesAfter DEF Shape
<1>5. /\ f \in Seq(Chars) /\ tx \o f \in Seq(Chars) /\ taken \in Seq(Chars)
      /\ InTransit = GotIs(reads) \o (rx \o (tx \o f))
  BY Ahead
<1>6. /\ d \in Seq(Chars) /\ tx' \o d \in Seq(Chars)
      /\ InTransit' = GotIs(reads') \o (rx' \o (tx' \o d))
  BY AheadNext
<1>7. c \in Seq(Chars) /\ y \in Seq(Chars) /\ w = c \o y
  <2> HIDE DEF w
  <2> QED
    BY <1>2, <1>3, FirstRest
<1> HIDE DEF w, c, y, e, f, d
<1>8. Kept(c) = c
  BY <1>7, KeptIs DEF Plainly
<1>9. Fed(c)
  BY <1>2, <1>8
<1>10. /\ tx \o f = f /\ rx \o f = f
       /\ tx' \o d = d /\ rx' \o d = d
  BY <1>2, <1>5, <1>6, ConcatEmptySeq
<1>11. Assoc(c, y, e)
  BY <1>3, <1>7, AssocIs
<1>12. f = c \o d
  BY <1>3, <1>4, <1>7, <1>11 DEF Assoc
<1>13. InTransit = GotIs(reads) \o f /\ InTransit' = GotIs(reads') \o d
  BY <1>5, <1>6, <1>10
<1> QED
  BY <1>5, <1>6, <1>7, <1>9, <1>12, <1>13, FedMoves

LEMMA EndReadMoves ==
  ASSUME Shape, Shape', EndRead
  PROVE  Moves
<1>1. Fed(<<>>) /\ rx' = rx /\ tx' = tx /\ writes' = writes
  BY EndReadDoes DEF EndReadEffect
<1> DEFINE h == rx \o (tx \o FlattenSeq(writes))
<1>2. /\ h \in Seq(Chars) /\ InTransit = GotIs(reads) \o h
      /\ taken \in Seq(Chars)
  BY Ahead
<1>3. h = rx' \o (tx' \o FlattenSeq(writes'))
  BY <1>1
<1>4. InTransit' = GotIs(reads') \o h
  BY <1>3, AheadNext
<1> HIDE DEF h
<1>5. h = <<>> \o h /\ <<>> \in Seq(Chars)
  BY <1>2, ConcatEmptySeq
<1> QED
  BY <1>1, <1>2, <1>4, <1>5, FedMoves

LEMMA Stands ==
  ASSUME Shape, InTransit' = InTransit, taken' = taken
  PROVE  Moves
<1>1. taken \in Seq(Chars) /\ InTransit \in Seq(Chars) /\ <<>> \in Seq(Chars)
  BY Ahead
<1>2. taken' = taken \o <<>> /\ InTransit = <<>> \o InTransit'
  BY <1>1, ConcatEmptySeq
<1> QED
  BY <1>1, <1>2 DEF Moves

(* What does not fit is lost, if overrun is emulated.                      *)
Overruns == Cuts /\ port.emuOverrun

LEMMA CutOrStand ==
  ASSUME Shape, taken' = taken,
         NEW g \in Seq(Chars), NEW q \in Seq(Chars), NEW l \in Seq(Chars),
         NEW h \in Seq(Chars), g \o q \in Seq(Chars),
         InTransit = (g \o q) \o (l \o h), InTransit' = (g \o q) \o h,
         l # <<>> => port.emuOverrun
  PROVE  Moves \/ Overruns
<1>1. CASE l = <<>>
  <2>1. l \o h = h
    BY <1>1, ConcatEmptySeq
  <2>2. InTransit' = InTransit
    BY <2>1
  <2> QED
    BY <2>2, Stands
<1>2. CASE l # <<>>
  BY <1>2 DEF Cuts, Overruns
<1> QED
  BY <1>1, <1>2

LEMMA MoveFromTxMoves ==
  ASSUME Shape, Shape', Plainly, MoveFromTx
  PROVE  Moves \/ Overruns
<1>1. PICK n : MoveFromTxEffect(n)
  BY MoveFromTxDoes
<1> DEFINE c == First(tx, n)
           s == Stored(Chunk)
           f == FlattenSeq(writes)
           g == GotIs(reads)
<1>2. /\ n = Accepted(Chunk) /\ n \in Nat /\ n <= Len(Chunk) /\ SentFromTx(n)
      /\ rx' = rx \o s /\ writes' = writes /\ reads' = reads
      /\ taken' = taken
  BY <1>1 DEF MoveFromTxEffect
<1>3. /\ tx' = Rest(tx, n) /\ n <= Len(tx) /\ c \in Seq(Chars)
      /\ tx \in Seq(Chars) /\ First(Chunk, n) = c /\ Chunk \in Seq(Chars)
  BY <1>2, SentIs DEF Shape
<1>4. PICK l : Leaves(Chunk, l)
  BY <1>3, StoredIs, LimitIs
<1>5. /\ l \in Seq(Chars) /\ Kept(c) = s \o l /\ s \in Seq(Chars)
      /\ l # <<>> => port.emuOverrun
  BY <1>2, <1>3, <1>4 DEF Leaves, Lossy
<1>6. Kept(c) = c
  BY <1>3, KeptIs DEF Plainly
<1>7. tx = c \o tx' /\ tx' \in Seq(Chars)
  BY <1>2, <1>3, FirstRest
<1>8. /\ g \in Seq(Chars) /\ rx \in Seq(Chars) /\ f \in Seq(Chars)
      /\ InTransit = Line(g, rx, tx, f)
  BY InTransitIs DEF Shape
<1>9. g = GotIs(reads') /\ f = FlattenSeq(writes')
  BY <1>2
<1>10. InTransit' = Line(g, rx', tx', f)
  BY <1>9, InTransitNext
<1> HIDE DEF c, s, f, g
<1>11. tx = (s \o l) \o tx'
  BY <1>5, <1>6, <1>7
<1>12. /\ InTransit = g \o ((rx \o ((s \o l) \o tx')) \o f)
       /\ InTransit' = g \o (((rx \o s) \o tx') \o f)
  BY <1>2, <1>8, <1>10, <1>11 DEF Line
<1> DEFINE y == tx'
<1>13. /\ y \in Seq(Chars)
       /\ InTransit = g \o ((rx \o ((s \o l) \o y)) \o f)
       /\ InTransit' = g \o (((rx \o s) \o y) \o f)
  BY <1>7, <1>12
<1> HIDE DEF y
<1>14. Middle(g, rx, s, l, y, f)
  <2>1. s \in Seq(Chars)
    BY <1>5
  <2>2. l \in Seq(Chars)
    BY <1>5
  <2>3. y \in Seq(Chars)
    BY <1>13
  <2> QED
    BY <1>8, <2>1, <2>2, <2>3, CutMiddle
<1> DEFINE q == rx \o s
           h == y \o f
<1>15. /\ q \in Seq(Chars) /\ h \in Seq(Chars) /\ g \o q \in Seq(Chars)
       /\ InTransit = (g \o q) \o (l \o h) /\ InTransit' = (g \o q) \o h
  <2>1. q \in Seq(Chars)
    BY <1>5, <1>8, ConcatProperties
  <2>2. h \in Seq(Chars)
    BY <1>8, <1>13, ConcatProperties
  <2>3. InTransit = (g \o q) \o (l \o h) /\ InTransit' = (g \o q) \o h
    BY <1>13, <1>14 DEF Middle
  <2> HIDE DEF q, h
  <2>4. g \o q \in Seq(Chars)
    BY <1>8, <2>1, ConcatProperties
  <2> QED
    BY <2>1, <2>2, <2>3, <2>4
<1> HIDE DEF q, h
<1> QED
  BY <1>2, <1>5, <1>8, <1>15, CutOrStand

(* What is written into both buffers, with nothing in the way.             *)
Across(g, r, s, l, m, z, e) ==
  /\ g \o (r \o (((s \o l) \o (m \o z)) \o e))
       = (g \o (r \o s)) \o (l \o ((m \o z) \o e))
  /\ g \o ((r \o s) \o (m \o (z \o e)))
       = (g \o (r \o s)) \o ((m \o z) \o e)

LEMMA CutWrite ==
  ASSUME NEW S, NEW g \in Seq(S), NEW r \in Seq(S), NEW s \in Seq(S),
         NEW l \in Seq(S), NEW m \in Seq(S), NEW z \in Seq(S), NEW e \in Seq(S)
  PROVE  Across(g, r, s, l, m, z, e)
<1> DEFINE y == m \o z
           q == r \o s
<1>1. y \in Seq(S)
  BY ConcatProperties
<1>2. q \in Seq(S)
  BY ConcatProperties
<1>3. y = m \o z /\ q = r \o s
  OBVIOUS
<1> HIDE DEF y
<1>4. y \o e \in Seq(S)
  BY <1>1, ConcatProperties
<1>5. Middle(g, r, s, l, y, e)
  BY <1>1, CutMiddle
<1> HIDE DEF q
<1>6. Assoc(m, z, e)
  BY AssocIs
<1>7. Assoc(g, q, y \o e)
  BY <1>2, <1>4, AssocIs
<1> QED
  BY <1>3, <1>5, <1>6, <1>7 DEF Assoc, Middle, Across

LEMMA WriteToBuffersMoves ==
  ASSUME Shape, Shape', Plainly, WriteToBuffers,
         tx = <<>> \/ Accepted(Src) = 0
  PROVE  Moves \/ Overruns
<1>1. PICK n, more : WriteToBuffersEffect(n, more)
  BY WriteToBuffersDoes
<1> DEFINE w == Head(writes)
           c == First(w, n)
           v == Rest(w, n)
           k == Len(more)
           z == Rest(w, n + k)
           e == FlattenSeq(Tail(writes))
           f == FlattenSeq(writes)
           d == FlattenSeq(writes')
           s == Stored(Src)
           g == GotIs(reads)
<1>2. /\ writes # <<>> /\ n = Accepted(Src)
      /\ n \in Nat /\ n <= Len(Src) /\ n <= Len(w)
      /\ more = ToTx(v) /\ v \in Seq(Chars) /\ k \in Nat /\ n + k <= Len(w)
      /\ writes' = AfterWriting(n + k)
  BY <1>1 DEF WriteToBuffersEffect
<1>3. rx' = rx \o s /\ tx' = tx \o more /\ reads' = reads /\ taken' = taken
  BY <1>1 DEF WriteToBuffersEffect
<1>4. /\ w \in Seq(Chars) /\ Len(w) \in Nat /\ Src \in Seq(Chars)
      /\ First(Src, n) = c /\ e \in Seq(Chars) /\ f = w \o e
  BY <1>2, SrcIs, HeadWrite DEF Shape
<1>5. more \in Seq(Chars) /\ more = First(v, k)
  BY <1>2, ToTxIs
<1>6. k <= Len(v) /\ Rest(v, k) = z
  <2>1. Len(v) = Len(w) - n
    BY <1>2, <1>4, FirstRest
  <2> HIDE DEF w, k
  <2>2. k <= Len(v)
    BY <1>2, <1>4, <2>1
  <2> QED
    BY <1>2, <1>4, <2>2, RestRest
<1>7. c \in Seq(Chars) /\ w = c \o v
  <2> HIDE DEF w
  <2> QED
    BY <1>2, <1>4, FirstRest
<1>8. v = more \o z /\ z \in Seq(Chars)
  <2> HIDE DEF v, k, z
  <2> QED
    BY <1>2, <1>5, <1>6, FirstRest
<1>9. d = z \o e
  <2> DEFINE m == n + k
  <2>1. m \in Nat /\ m <= Len(w) /\ writes' = AfterWriting(m)
    BY <1>2
  <2>2. z = Rest(w, m)
    OBVIOUS
  <2> HIDE DEF m, w, z, k
  <2>3. FlattenSeq(AfterWriting(m)) = Rest(Head(writes), m) \o e
    BY <1>2, <2>1, WritesAfter DEF Shape, w
  <2> QED
    BY <2>1, <2>2, <2>3 DEF w
<1>10. PICK l : Leaves(Src, l)
  BY <1>4, StoredIs, LimitIs
<1>11. /\ l \in Seq(Chars) /\ Kept(c) = s \o l /\ s \in Seq(Chars)
       /\ l # <<>> => port.emuOverrun
  BY <1>2, <1>4, <1>10 DEF Leaves, Lossy
<1>12. c = s \o l
  BY <1>7, <1>11, KeptIs DEF Plainly
<1>13. /\ g \in Seq(Chars) /\ rx \in Seq(Chars) /\ tx \in Seq(Chars)
       /\ f \in Seq(Chars) /\ tx \o f \in Seq(Chars)
       /\ InTransit = g \o (rx \o (tx \o f))
  BY Ahead
<1>14. /\ InTransit' = GotIs(reads') \o (rx' \o (tx' \o d))
       /\ d \in Seq(Chars)
  BY AheadNext
<1>15. GotIs(reads') = g
  BY <1>3
<1>16. n # 0 => tx = <<>>
  BY <1>2
<1>17. n = 0 => c = <<>>
  BY <1>4, FirstRestEnds
<1> HIDE DEF w, c, v, k, z, e, f, d, s, g
<1>18. f = ((s \o l) \o (more \o z)) \o e
  BY <1>4, <1>7, <1>8, <1>12
<1>19. InTransit' = g \o ((rx \o s) \o ((tx \o more) \o (z \o e)))
  BY <1>3, <1>9, <1>14, <1>15
<1>20. CASE tx = <<>>
  <2>1. tx \o f = f /\ tx \o more = more
    BY <1>5, <1>13, <1>20, ConcatEmptySeq
  <2>2. /\ InTransit = g \o (rx \o (((s \o l) \o (more \o z)) \o e))
        /\ InTransit' = g \o ((rx \o s) \o (more \o (z \o e)))
    BY <1>13, <1>18, <1>19, <2>1
  <2>3. Across(g, rx, s, l, more, z, e)
    <3>1. s \in Seq(Chars)
      BY <1>11
    <3>2. l \in Seq(Chars)
      BY <1>11
    <3>3. z \in Seq(Chars)
      BY <1>8
    <3>4. more \in Seq(Chars)
      BY <1>5
    <3>5. e \in Seq(Chars)
      BY <1>4
    <3> QED
      BY <1>13, <3>1, <3>2, <3>3, <3>4, <3>5, CutWrite
  <2> DEFINE q == rx \o s
             y == more \o z
             h == y \o e
  <2>4. InTransit = (g \o q) \o (l \o h) /\ InTransit' = (g \o q) \o h
    BY <2>2, <2>3 DEF Across
  <2>5. q \in Seq(Chars)
    BY <1>11, <1>13, ConcatProperties
  <2>6. y \in Seq(Chars)
    BY <1>5, <1>8, ConcatProperties
  <2> HIDE DEF q, y
  <2>7. h \in Seq(Chars)
    BY <1>4, <2>6, ConcatProperties
  <2>8. g \o q \in Seq(Chars)
    BY <1>13, <2>5, ConcatProperties
  <2> HIDE DEF h
  <2> QED
    BY <1>3, <1>11, <1>13, <2>4, <2>5, <2>7, <2>8, CutOrStand
<1>21. CASE n = 0
  <2>1. s = <<>> /\ l = <<>>
    BY <1>11, <1>12, <1>17, <1>21, ConcatEqualIffEmpty
  <2>2. s \o l = <<>>
    BY <1>12, <1>17, <1>21
  <2> DEFINE y == more \o z
             x == z \o e
  <2>3. y \in Seq(Chars)
    BY <1>5, <1>8, ConcatProperties
  <2>4. x \in Seq(Chars)
    BY <1>4, <1>8, ConcatProperties
  <2>5. (s \o l) \o y = y
    BY <2>2, <2>3, ConcatEmptySeq
  <2>6. rx \o s = rx
    BY <1>13, <2>1, ConcatEmptySeq
  <2>7. Assoc(more, z, e)
    BY <1>4, <1>5, <1>8, AssocIs
  <2> HIDE DEF x
  <2>8. Assoc(tx, more, x)
    BY <1>5, <1>13, <2>4, AssocIs
  <2>9. tx \o f = (tx \o more) \o x
    BY <1>18, <2>5, <2>7, <2>8 DEF Assoc, x
  <2>10. InTransit' = g \o (rx \o ((tx \o more) \o x))
    BY <1>19, <2>6 DEF x
  <2>11. InTransit' = InTransit
    BY <1>13, <2>9, <2>10
  <2> QED
    BY <1>3, <2>11, Stands
<1> QED
  BY <1>16, <1>20, <1>21

(* What is behind all that is on the way.                                  *)
Behind(a, b, c, x, k) ==
  a \o (b \o (c \o (x \o k))) = (a \o (b \o (c \o x))) \o k

LEMMA BehindIs ==
  ASSUME NEW S, NEW a \in Seq(S), NEW b \in Seq(S), NEW c \in Seq(S),
         NEW x \in Seq(S), NEW k \in Seq(S)
  PROVE  Behind(a, b, c, x, k) /\ a \o (b \o (c \o x)) \in Seq(S)
<1> DEFINE u == c \o x
           v == b \o u
<1>1. u \in Seq(S)
  BY ConcatProperties
<1>2. Assoc(c, x, k)
  BY AssocIs
<1>3. u = c \o x
  OBVIOUS
<1> HIDE DEF u
<1>4. v \in Seq(S)
  BY <1>1, ConcatProperties
<1>5. Assoc(b, u, k)
  BY <1>1, AssocIs
<1>6. v = b \o u
  OBVIOUS
<1> HIDE DEF v
<1>7. Assoc(a, v, k)
  BY <1>4, AssocIs
<1>8. a \o v \in Seq(S)
  BY <1>4, ConcatProperties
<1> QED
  BY <1>2, <1>3, <1>5, <1>6, <1>7, <1>8 DEF Assoc, Behind

LEMMA CancelReadMoves ==
  ASSUME Shape, Shape', CancelReadEffect
  PROVE  Cuts
<1>1. /\ GotIs(reads') = GotIs(reads) \/ GotIs(reads') = <<>>
      /\ UNCHANGED <<rx, tx, writes, taken>>
  BY DEF CancelReadEffect
<1>2. CASE GotIs(reads') = GotIs(reads)
  <2> DEFINE g == GotIs(reads)
             h == rx \o (tx \o FlattenSeq(writes))
  <2>1. InTransit = g \o h /\ InTransit \in Seq(Chars)
    BY Ahead
  <2>2. h = rx' \o (tx' \o FlattenSeq(writes'))
    BY <1>1
  <2>3. InTransit' = g \o h
    BY <1>2, <2>2, AheadNext
  <2>4. InTransit' = InTransit
    BY <2>1, <2>3
  <2> HIDE DEF g, h
  <2>5. <<>> \o InTransit = InTransit /\ <<>> \in Seq(Chars)
    BY <2>1, ConcatEmptySeq
  <2>6. InTransit = <<>> \o (<<>> \o InTransit) /\ InTransit' = <<>> \o InTransit
    BY <2>4, <2>5
  <2>7. taken' = taken
    BY <1>1
  <2> QED
    BY <2>1, <2>5, <2>6, <2>7 DEF Cuts
<1>3. CASE GotIs(reads') = <<>>
  <2> DEFINE g == GotIs(reads)
             h == rx \o (tx \o FlattenSeq(writes))
  <2>1. g \in Seq(Chars) /\ h \in Seq(Chars) /\ InTransit = g \o h
    BY Ahead
  <2>2. h = rx' \o (tx' \o FlattenSeq(writes'))
    BY <1>1
  <2>3. InTransit' = <<>> \o h
    BY <1>3, <2>2, AheadNext
  <2> HIDE DEF g, h
  <2>4. g \o h \in Seq(Chars) /\ <<>> \in Seq(Chars)
    BY <2>1, ConcatProperties
  <2>5. InTransit = <<>> \o (g \o h)
    BY <2>1, <2>4, ConcatEmptySeq
  <2>6. taken' = taken
    BY <1>1
  <2> QED
    BY <2>1, <2>3, <2>4, <2>5, <2>6 DEF Cuts
<1> QED
  BY <1>1, <1>2, <1>3

LEMMA CancelWriteMoves ==
  ASSUME Shape, Shape', CancelWriteEffect
  PROVE  Cuts
<1> DEFINE g == GotIs(reads)
           f == FlattenSeq(writes)
           d == FlattenSeq(writes')
<1>1. /\ GotIs(reads') = g /\ rx' = rx /\ tx' = tx /\ taken' = taken
  <2>1. reads' = reads /\ rx' = rx /\ tx' = tx /\ taken' = taken
    BY DEF CancelWriteEffect
  <2> QED
    BY <2>1
<1>2. PICK x \in Seq(Chars), l \in Seq(Chars), y \in Seq(Chars) :
        f = x \o (l \o y) /\ d = x \o y
  BY DEF CancelWriteEffect
<1>3. /\ g \in Seq(Chars) /\ rx \in Seq(Chars) /\ tx \in Seq(Chars)
      /\ InTransit = g \o (rx \o (tx \o f))
  BY Ahead
<1>4. InTransit' = g \o (rx \o (tx \o d))
  BY <1>1, AheadNext
<1> HIDE DEF g, f, d
<1> DEFINE k == l \o y
           a == g \o (rx \o (tx \o x))
<1>5. k \in Seq(Chars)
  BY ConcatProperties
<1>6. f = x \o k
  BY <1>2
<1> HIDE DEF k
<1>7. Behind(g, rx, tx, x, k)
  BY <1>3, <1>5, BehindIs
<1>8. Behind(g, rx, tx, x, y) /\ a \in Seq(Chars)
  BY <1>3, BehindIs
<1>9. InTransit = a \o k /\ InTransit' = a \o y
  BY <1>2, <1>3, <1>4, <1>6, <1>7, <1>8 DEF Behind
<1> HIDE DEF a
<1>10. InTransit = a \o (l \o y)
  BY <1>9 DEF k
<1> QED
  BY <1>1, <1>8, <1>9, <1>10 DEF Cuts

LEMMA PurgeMoves ==
  ASSUME Shape, Shape', PurgeEffect
  PROVE  Cuts
<1> DEFINE g == GotIs(reads)
           h == tx \o FlattenSeq(writes)
<1>1. reads' = reads /\ rx' = <<>> /\ tx' = tx /\ writes' = writes
      /\ taken' = taken
  BY DEF PurgeEffect
<1>2. /\ g \in Seq(Chars) /\ rx \in Seq(Chars) /\ h \in Seq(Chars)
      /\ InTransit = g \o (rx \o h)
  BY Ahead
<1>3. GotIs(reads') = g /\ tx' \o FlattenSeq(writes') = h
  BY <1>1
<1>4. InTransit' = g \o (<<>> \o h)
  BY <1>1, <1>3, AheadNext
<1> HIDE DEF g, h
<1>5. <<>> \o h = h
  BY <1>2, ConcatEmptySeq
<1>6. InTransit' = g \o h
  BY <1>4, <1>5
<1> QED
  BY <1>1, <1>2, <1>6 DEF Cuts

LEMMA WriteSends ==
  ASSUME Shape, Shape', NEW n, WriteEffect(n)
  PROVE  /\ InTransit' = InTransit \o [i \in 1 .. n |-> written + i]
         /\ taken' = taken /\ written' = written + n
         /\ n \in Nat /\ n # 0 /\ written + n <= MaxChars
<1> DEFINE w == [i \in 1 .. n |-> written + i]
           g == GotIs(reads)
           f == FlattenSeq(writes)
           d == FlattenSeq(writes')
<1>1. /\ w \in Seq(Chars) /\ w # <<>> /\ writes' = Append(writes, w)
      /\ rx' = rx /\ tx' = tx /\ reads' = reads /\ taken' = taken
  BY DEF WriteEffect
<1>2. /\ written' = written + n /\ n \in Nat /\ n # 0
      /\ written + n <= MaxChars
  BY DEF WriteEffect
<1>3. /\ g \in Seq(Chars) /\ rx \in Seq(Chars) /\ tx \in Seq(Chars)
      /\ f \in Seq(Chars) /\ InTransit = g \o (rx \o (tx \o f))
  BY Ahead
<1>4. GotIs(reads') = g
  BY <1>1
<1>5. InTransit' = g \o (rx \o (tx \o d))
  BY <1>1, <1>4, AheadNext
<1>6. WritesOk(writes)
  BY DEF Shape
<1> HIDE DEF w
<1>7. d = f \o w
  BY <1>1, <1>6, WritesAppend
<1> HIDE DEF g, f, d
<1>8. Behind(g, rx, tx, f, w)
  BY <1>1, <1>3, BehindIs
<1>9. InTransit' = InTransit \o w
  BY <1>3, <1>5, <1>7, <1>8 DEF Behind
<1> QED
  BY <1>1, <1>2, <1>9 DEF w
-----------------------------------------------------------------------------
(***************************************************************************)
(* The order of the characters.                                            *)
(***************************************************************************)
Increasing(s) == \A i, j \in 1 .. Len(s) : i < j => s[i] < s[j]

(* A sequence of some of the first n characters, in their order.           *)
Fine(s, n) ==
  s \in Seq(Chars) /\ Increasing(s) /\ Range(s) \subseteq 1 .. n /\ Len(s) <= n

LEMMA FineEmpty == Fine(<<>>, 0)
<1>1. <<>> \in Seq(Chars) /\ Len(<<>>) = 0
  OBVIOUS
<1>2. Range(<<>>) = {}
  BY RangeEmpty
<1> QED
  BY <1>1, <1>2 DEF Fine, Increasing

(* The elements of a sequence with its middle cut out.                     *)
Skips(v, u, A, L, B) ==
  /\ A \in Nat /\ L \in Nat /\ B \in Nat
  /\ Len(v) = A + B /\ Len(u) = A + (L + B)
  /\ \A i \in 1 .. A : v[i] = u[i]
  /\ \A i \in 1 .. B : v[A + i] = u[A + (L + i)]

LEMMA CutElements ==
  ASSUME NEW S, NEW a \in Seq(S), NEW l \in Seq(S), NEW b \in Seq(S)
  PROVE  /\ Skips(a \o b, a \o (l \o b), Len(a), Len(l), Len(b))
         /\ a \o b \in Seq(S)
<1> DEFINE c == l \o b
           u == a \o c
           v == a \o b
<1>1. Len(a) \in Nat /\ Len(l) \in Nat /\ Len(b) \in Nat
  BY LenProperties
<1>2. /\ c \in Seq(S) /\ Len(c) = Len(l) + Len(b)
      /\ \A i \in 1 .. Len(l) + Len(b) :
           c[i] = IF i <= Len(l) THEN l[i] ELSE b[i - Len(l)]
  BY ConcatProperties
<1>3. /\ v \in Seq(S) /\ Len(v) = Len(a) + Len(b)
      /\ \A i \in 1 .. Len(a) + Len(b) :
           v[i] = IF i <= Len(a) THEN a[i] ELSE b[i - Len(a)]
  BY ConcatProperties
<1>9. c \in Seq(S)
  BY ConcatProperties
<1> HIDE DEF c
<1>4. /\ u \in Seq(S) /\ Len(u) = Len(a) + Len(c)
      /\ \A i \in 1 .. Len(a) + Len(c) :
           u[i] = IF i <= Len(a) THEN a[i] ELSE c[i - Len(a)]
  BY <1>9, ConcatProperties
<1> HIDE DEF u, v
<1> DEFINE A == Len(a)
           L == Len(l)
           B == Len(b)
<1>5. /\ A \in Nat /\ L \in Nat /\ B \in Nat
      /\ \A i \in 1 .. L + B : c[i] = IF i <= L THEN l[i] ELSE b[i - L]
      /\ \A i \in 1 .. A + B : v[i] = IF i <= A THEN a[i] ELSE b[i - A]
      /\ \A i \in 1 .. A + (L + B) : u[i] = IF i <= A THEN a[i] ELSE c[i - A]
  BY <1>1, <1>2, <1>3, <1>4
<1>6. /\ v \in Seq(S) /\ u \in Seq(S) /\ Len(v) = A + B
      /\ Len(u) = A + (L + B)
  BY <1>2, <1>3, <1>4
<1> HIDE DEF A, L, B
<1>7. ASSUME NEW i \in 1 .. A
      PROVE  v[i] = u[i]
  BY <1>5
<1>8. ASSUME NEW i \in 1 .. B
      PROVE  v[A + i] = u[A + (L + i)]
  <2>1. /\ A + i \in 1 .. A + B /\ ~(A + i <= A) /\ (A + i) - A = i
        /\ A + (L + i) \in 1 .. A + (L + B) /\ ~(A + (L + i) <= A)
        /\ (A + (L + i)) - A = L + i
        /\ L + i \in 1 .. L + B /\ ~(L + i <= L) /\ (L + i) - L = i
    BY <1>5
  <2>2. v[A + i] = b[i]
    BY <1>5, <2>1
  <2>3. u[A + (L + i)] = c[L + i]
    BY <1>5, <2>1
  <2>4. c[L + i] = b[i]
    BY <1>5, <2>1
  <2> QED
    BY <2>2, <2>3, <2>4
<1>10. Skips(v, u, A, L, B)
  BY <1>5, <1>6, <1>7, <1>8 DEF Skips
<1> QED
  BY <1>6, <1>10 DEF A, L, B, u, v, c

LEMMA IncreasingCut ==
  ASSUME NEW a \in Seq(Chars), NEW l \in Seq(Chars), NEW b \in Seq(Chars),
         Increasing(a \o (l \o b))
  PROVE  Increasing(a \o b)
<1> DEFINE u == a \o (l \o b)
           v == a \o b
           A == Len(a)
           L == Len(l)
           B == Len(b)
<1>1. /\ A \in Nat /\ L \in Nat /\ B \in Nat
      /\ Len(v) = A + B /\ Len(u) = A + (L + B)
      /\ \A i \in 1 .. A : v[i] = u[i]
      /\ \A i \in 1 .. B : v[A + i] = u[A + (L + i)]
  BY CutElements DEF Skips
<1>2. \A i, j \in 1 .. Len(u) : i < j => u[i] < u[j]
  BY DEF Increasing
<1>5. A \in Nat /\ L \in Nat /\ B \in Nat /\ Len(v) = A + B
  BY <1>1
<1> HIDE DEF u, v, A, L, B
<1>3. ASSUME NEW i \in 1 .. Len(v), NEW j \in 1 .. Len(v), i < j
      PROVE  v[i] < v[j]
  <2>1. CASE j <= A
    BY <1>1, <1>2, <1>3, <2>1
  <2>2. CASE i <= A /\ j > A
    <3>1. PICK k \in 1 .. B : j = A + k
      <4>2. j \in Int /\ j <= A + B
        BY <1>5
      <4>3. j > A
        BY <2>2
      <4>1. j - A \in 1 .. B /\ j = A + (j - A)
        BY <1>5, <4>2, <4>3
      <4> QED
        BY <4>1
    <3>4. i \in 1 .. A
      BY <1>5, <2>2
    <3>2. v[i] = u[i] /\ v[j] = u[A + (L + k)]
      BY <1>1, <3>1, <3>4
    <3>3. i \in 1 .. Len(u) /\ A + (L + k) \in 1 .. Len(u) /\ i < A + (L + k)
      BY <1>1, <2>2
    <3> QED
      BY <1>2, <3>2, <3>3
  <2>3. CASE i > A
    <3>1. PICK k \in 1 .. B : j = A + k
      <4>1. j - A \in 1 .. B /\ j = A + (j - A)
        BY <1>3, <1>5, <2>3
      <4> QED
        BY <4>1
    <3>2. PICK m \in 1 .. B : i = A + m
      <4>1. i - A \in 1 .. B /\ i = A + (i - A)
        BY <1>5, <2>3
      <4> QED
        BY <4>1
    <3>3. v[i] = u[A + (L + m)] /\ v[j] = u[A + (L + k)]
      BY <1>1, <3>1, <3>2
    <3>4. /\ A + (L + m) \in 1 .. Len(u) /\ A + (L + k) \in 1 .. Len(u)
          /\ A + (L + m) < A + (L + k)
      BY <1>1, <1>3, <3>1, <3>2
    <3> QED
      BY <1>2, <3>3, <3>4
  <2> QED
    BY <1>1, <2>1, <2>2, <2>3
<1>4. Increasing(v)
  BY <1>3 DEF Increasing
<1> QED
  BY <1>4 DEF v

LEMMA FineCut ==
  ASSUME NEW n \in Nat, NEW a \in Seq(Chars), NEW l \in Seq(Chars),
         NEW b \in Seq(Chars), Fine(a \o (l \o b), n)
  PROVE  Fine(a \o b, n)
<1> DEFINE c == l \o b
           u == a \o c
           v == a \o b
<1>1. Increasing(u) /\ Range(u) \subseteq 1 .. n /\ Len(u) <= n
  BY DEF Fine
<1>2. Increasing(v)
  BY <1>1, IncreasingCut
<1>3. v \in Seq(Chars) /\ Len(v) <= Len(u) /\ Len(v) \in Nat /\ Len(u) \in Nat
  <2>1. /\ Len(a) \in Nat /\ Len(l) \in Nat /\ Len(b) \in Nat
        /\ Len(v) = Len(a) + Len(b) /\ Len(u) = Len(a) + (Len(l) + Len(b))
        /\ v \in Seq(Chars)
    BY CutElements DEF Skips
  <2> HIDE DEF u, v
  <2> QED
    BY <2>1
<1>4. Range(v) = Range(a) \cup Range(b)
  BY RangeConcat
<1>5. Range(c) = Range(l) \cup Range(b) /\ c \in Seq(Chars)
  BY RangeConcat, ConcatProperties
<1> HIDE DEF c, v
<1>6. Range(u) = Range(a) \cup Range(c)
  BY <1>5, RangeConcat
<1> HIDE DEF u
<1>7. Range(v) \subseteq 1 .. n /\ Len(v) <= n
  BY <1>1, <1>3, <1>4, <1>5, <1>6
<1>8. Fine(v, n)
  BY <1>2, <1>3, <1>7 DEF Fine
<1> QED
  BY <1>8 DEF v

(* What is written next has the numbers that follow.                       *)
LEMMA FineSend ==
  ASSUME NEW n \in Nat, NEW k \in Nat, n + k <= MaxChars,
         NEW s, Fine(s, n)
  PROVE  Fine(s \o [i \in 1 .. k |-> n + i], n + k)
<1> DEFINE w == [i \in 1 .. k |-> n + i]
           v == s \o w
<1>1. MaxChars \in Nat
  BY DataAssumption
<1>2. /\ s \in Seq(Chars) /\ Len(s) \in Nat /\ Len(s) <= n
      /\ Range(s) \subseteq 1 .. n
      /\ \A i, j \in 1 .. Len(s) : i < j => s[i] < s[j]
  BY LenProperties DEF Fine, Increasing
<1>3. \A i \in 1 .. k : n + i \in Chars
  BY <1>1 DEF Chars
<1>4. w \in [1 .. k -> Chars]
  BY <1>3
<1>5. w \in Seq(Chars) /\ Len(w) = k /\ \A i \in 1 .. k : w[i] = n + i
  BY <1>4
<1> HIDE DEF w
<1>6. /\ v \in Seq(Chars) /\ Len(v) = Len(s) + k
      /\ \A i \in 1 .. Len(s) + k :
           v[i] = IF i <= Len(s) THEN s[i] ELSE w[i - Len(s)]
  BY <1>2, <1>5, ConcatProperties
<1> HIDE DEF v
<1>7. \A i \in 1 .. Len(s) : s[i] \in 1 .. n
  BY <1>2, RangeIs
<1>8. ASSUME NEW i \in 1 .. Len(v)
      PROVE  \/ i <= Len(s) /\ v[i] = s[i] /\ v[i] \in 1 .. n
             \/ i > Len(s) /\ v[i] = n + (i - Len(s))
  <2>1. CASE i <= Len(s)
    BY <1>2, <1>6, <1>7, <2>1
  <2>2. CASE i > Len(s)
    <3>1. i - Len(s) \in 1 .. k /\ ~(i <= Len(s)) /\ i \in 1 .. Len(s) + k
      BY <1>2, <1>6, <2>2
    <3>2. v[i] = w[i - Len(s)]
      BY <1>6, <3>1
    <3>3. w[i - Len(s)] = n + (i - Len(s))
      BY <1>5, <3>1
    <3> QED
      BY <2>2, <3>2, <3>3
  <2> QED
    BY <1>2, <1>6, <2>1, <2>2
<1>9. Increasing(v)
  <2>1. ASSUME NEW i \in 1 .. Len(v), NEW j \in 1 .. Len(v), i < j
        PROVE  v[i] < v[j]
    <3>1. CASE j <= Len(s)
      <4>1. i \in 1 .. Len(s) /\ j \in 1 .. Len(s)
        BY <1>2, <1>6, <2>1, <3>1
      <4> QED
        BY <1>2, <1>8, <2>1, <3>1, <4>1
    <3>2. CASE i <= Len(s) /\ j > Len(s)
      BY <1>2, <1>8, <3>2
    <3>3. CASE i > Len(s)
      <4>1. v[i] = n + (i - Len(s)) /\ v[j] = n + (j - Len(s))
        BY <1>2, <1>6, <1>8, <2>1, <3>3
      <4> QED
        BY <1>2, <2>1, <4>1
    <3> QED
      BY <1>2, <1>6, <3>1, <3>2, <3>3
  <2> QED
    BY <2>1 DEF Increasing
<1>10. Range(v) \subseteq 1 .. n + k
  <2>1. Range(v) = {v[i] : i \in 1 .. Len(v)}
    BY <1>6, RangeIs
  <2>2. ASSUME NEW i \in 1 .. Len(v)
        PROVE  v[i] \in 1 .. n + k
    BY <1>2, <1>6, <1>8
  <2> QED
    BY <2>1, <2>2
<1>11. Len(v) <= n + k
  BY <1>2, <1>6
<1>12. Fine(v, n + k)
  BY <1>6, <1>9, <1>10, <1>11 DEF Fine
<1> QED
  BY <1>12 DEF v, w

LEMMA FineMoves ==
  ASSUME Shape, Shape', Fine(Stream, written), Moves, written' = written
  PROVE  Fine(Stream', written')
<1>1. PICK g \in Seq(Chars) : taken' = taken \o g /\ InTransit = g \o InTransit'
  BY DEF Moves
<1>2. taken \in Seq(Chars)
  BY Ahead
<1>3. InTransit' \in Seq(Chars)
  BY AheadNext
<1> DEFINE p == InTransit'
<1>4. Assoc(taken, g, p)
  BY <1>2, <1>3, AssocIs
<1>5. Stream' = taken' \o p /\ Stream = taken \o InTransit
  BY DEF Stream
<1>6. taken' = taken \o g /\ InTransit = g \o p
  BY <1>1
<1> HIDE DEF p
<1>7. Stream' = Stream
  BY <1>4, <1>5, <1>6 DEF Assoc
<1>8. Fine(Stream, written')
  OBVIOUS
<1> DEFINE u == Stream'
<1>9. u = Stream
  BY <1>7
<1> HIDE DEF u
<1>10. Fine(u, written')
  BY <1>8, <1>9
<1> QED
  BY <1>10 DEF u

LEMMA FineCuts ==
  ASSUME Shape, Shape', Fine(Stream, written), Cuts, written' = written
  PROVE  Fine(Stream', written')
<1>1. PICK x \in Seq(Chars), l \in Seq(Chars), y \in Seq(Chars) :
        InTransit = x \o (l \o y) /\ InTransit' = x \o y
  BY DEF Cuts
<1>2. taken \in Seq(Chars) /\ taken' = taken
  BY Ahead DEF Cuts
<1> DEFINE k == l \o y
           a == taken \o x
<1>3. k \in Seq(Chars)
  BY ConcatProperties
<1>4. a \in Seq(Chars)
  BY <1>2, ConcatProperties
<1>5. InTransit = x \o k
  BY <1>1
<1> HIDE DEF k
<1>6. Assoc(taken, x, k)
  BY <1>2, <1>3, AssocIs
<1>7. Assoc(taken, x, y)
  BY <1>2, AssocIs
<1>8. Stream = taken \o (x \o k)
  BY <1>5 DEF Stream
<1>9. Stream' = taken \o (x \o y)
  BY <1>1, <1>2 DEF Stream
<1>10. Stream = a \o k /\ Stream' = a \o y
  BY <1>6, <1>7, <1>8, <1>9 DEF Assoc
<1> HIDE DEF a
<1>11. Fine(a \o (l \o y), written)
  <2>1. Stream = a \o (l \o y)
    BY <1>10 DEF k
  <2> QED
    BY <2>1
<1>12. written \in Nat
  BY DataAssumption DEF Shape
<1>13. Fine(a \o y, written)
  BY <1>4, <1>11, <1>12, FineCut
<1> DEFINE u == Stream'
<1>14. u = a \o y
  BY <1>10
<1> HIDE DEF u
<1>15. Fine(u, written')
  BY <1>13, <1>14
<1> QED
  BY <1>15 DEF u

LEMMA FineWrites ==
  ASSUME Shape, Shape', Fine(Stream, written), NEW n, WriteEffect(n)
  PROVE  Fine(Stream', written')
<1> DEFINE w == [i \in 1 .. n |-> written + i]
<1>1. /\ InTransit' = InTransit \o w /\ taken' = taken
      /\ written' = written + n /\ n \in Nat /\ written + n <= MaxChars
  BY WriteSends
<1>2. taken \in Seq(Chars) /\ InTransit \in Seq(Chars)
  BY Ahead
<1>3. w \in Seq(Chars)
  BY DEF WriteEffect
<1>4. written \in Nat
  BY DataAssumption DEF Shape
<1>5. Fine(Stream \o w, written + n)
  BY <1>1, <1>4, FineSend
<1> HIDE DEF w
<1>6. Assoc(taken, InTransit, w)
  BY <1>2, <1>3, AssocIs
<1>7. Stream' = taken \o (InTransit \o w) /\ Stream = taken \o InTransit
  BY <1>1 DEF Stream
<1>8. Stream' = Stream \o w
  BY <1>6, <1>7 DEF Assoc
<1> DEFINE u == Stream'
<1>9. u = Stream \o w
  BY <1>8
<1> HIDE DEF u
<1>10. Fine(u, written')
  BY <1>1, <1>5, <1>9
<1> QED
  BY <1>10 DEF u
-----------------------------------------------------------------------------
(***************************************************************************)
(* How far a section under the lock brings the characters.                 *)
(***************************************************************************)
Backlog == Len(tx) + Len(FlattenSeq(writes))

(* Without baud rate emulation the limit never stops anything.             *)
EnoughLimit == phase # "free" /\ ~port.emuBR => Backlog <= limit

(* Where the section is in its loops tells what is already empty.          *)
Drained ==
  /\ phase = "tx" => rx = <<>>
  /\ phase \in {"direct", "buffer"} =>
       \/ tx = <<>>
       \/ limit = 0
       \/ ~Lossy /\ RxRoom = 0
  /\ phase \in {"direct", "buffer"} /\ reads # <<>> =>
       rx = <<>> /\ (tx = <<>> \/ limit = 0)

(* What a section leaves when it ends.                                     *)
AtRest ==
  /\ phase = "free" /\ reads # <<>> => rx = <<>>
  /\ phase = "free" /\ reads # <<>> /\ ~port.emuBR =>
       tx = <<>> /\ (holding \/ writes = <<>>)
  /\ phase = "free" /\ aborts = 0 /\ ~port.emuBR /\ Len(rx) < port.rxLimit =>
       tx = <<>> /\ (holding \/ writes = <<>>)

Served == EnoughLimit /\ Drained /\ AtRest

LEMMA AllLengths ==
  ASSUME NEW S, NEW k \in Seq(S), NEW g \in Seq(S), NEW r \in Seq(S),
         NEW t \in Seq(S), NEW f \in Seq(S)
  PROVE  Len(t) + Len(f) <= Len(k \o (g \o (r \o (t \o f))))
<1> DEFINE a == t \o f
           b == r \o a
           c == g \o b
<1>1. a \in Seq(S) /\ Len(a) = Len(t) + Len(f)
  BY ConcatProperties
<1>5. a \in Seq(S)
  BY <1>1
<1> HIDE DEF a
<1>2. b \in Seq(S) /\ Len(b) = Len(r) + Len(a)
  BY <1>5, ConcatProperties
<1>6. b \in Seq(S)
  BY <1>2
<1> HIDE DEF b
<1>3. c \in Seq(S) /\ Len(c) = Len(g) + Len(b)
  BY <1>6, ConcatProperties
<1>7. c \in Seq(S)
  BY <1>3
<1> HIDE DEF c
<1>4. Len(k \o c) = Len(k) + Len(c)
  BY <1>7, ConcatProperties
<1>8. /\ Len(k) \in Nat /\ Len(g) \in Nat /\ Len(r) \in Nat
      /\ Len(t) \in Nat /\ Len(f) \in Nat
  BY LenProperties
<1>9. Len(t) + Len(f) <= Len(k \o c)
  BY <1>1, <1>2, <1>3, <1>4, <1>8
<1> QED
  BY <1>9 DEF a, b, c

LEMMA BacklogFits ==
  ASSUME Shape', Fine(Stream', written')
  PROVE  Backlog' <= MaxChars
<1> DEFINE k == taken'
           g == GotIs(reads')
           r == rx'
           t == tx'
           f == FlattenSeq(writes')
           n == written'
<1>1. /\ k \in Seq(Chars) /\ g \in Seq(Chars) /\ r \in Seq(Chars)
      /\ t \in Seq(Chars) /\ f \in Seq(Chars)
      /\ InTransit' = g \o (r \o (t \o f))
  BY AheadNext
<1>2. Stream' = k \o InTransit'
  BY DEF Stream
<1>3. Len(Stream') <= n
  BY DEF Fine
<1>4. n \in 0 .. MaxChars /\ MaxChars \in Nat
  BY DataAssumption DEF Shape
<1>5. Backlog' = Len(t) + Len(f)
  BY DEF Backlog
<1> HIDE DEF k, g, r, t, f, n
<1>6. Stream' = k \o (g \o (r \o (t \o f)))
  BY <1>1, <1>2
<1>7. Len(t) + Len(f) <= Len(k \o (g \o (r \o (t \o f))))
  BY <1>1, AllLengths
<1>8. Len(t) + Len(f) <= n
  <2>1. Len(t) \in Nat /\ Len(f) \in Nat /\ Len(Stream') \in Nat
    <3>1. Stream' \in Seq(Chars)
      BY DEF Fine
    <3> QED
      BY <1>1, <3>1, LenProperties
  <2>2. Len(t) + Len(f) <= Len(Stream')
    BY <1>6, <1>7
  <2> QED
    BY <1>3, <1>4, <2>1, <2>2
<1> QED
  <2>1. Len(t) \in Nat /\ Len(f) \in Nat
    BY <1>1, LenProperties
  <2> QED
    BY <1>4, <1>5, <1>8, <2>1

LEMMA StartsServed ==
  ASSUME Shape', Fine(Stream', written'), Starts, port' = port
  PROVE  Served'
<1>1. phase' = "rx" /\ (~port'.emuBR => limit' = MaxChars)
  BY DEF Starts
<1>2. Backlog' <= MaxChars
  BY BacklogFits
<1>3. EnoughLimit'
  BY <1>1, <1>2 DEF EnoughLimit
<1>4. Drained' /\ AtRest'
  BY <1>1 DEF Drained, AtRest
<1> QED
  BY <1>3, <1>4 DEF Served

(* A section that starts no transfer.                                      *)
LEMMA RestsServed ==
  ASSUME Served, phase = "free", phase' = "free", port' = port, tx' = tx,
         reads' # <<>> => reads # <<>>,
         holding \/ writes = <<>> => holding' \/ writes' = <<>>,
         \/ rx' = rx
         \/ rx' = <<>> /\ aborts' # 0,
         aborts' = aborts \/ aborts' # 0
  PROVE  Served'
<1>1. EnoughLimit' /\ Drained'
  BY DEF EnoughLimit, Drained
<1>2. AtRest'
  BY DEF Served, AtRest
<1> QED
  BY <1>1, <1>2 DEF Served

LEMMA ReadFromRxServed ==
  ASSUME Shape, Served, ReadFromRx
  PROVE  Served'
<1>1. PICK n : ReadFromRxEffect(n)
  BY ReadFromRxDoes
<1>2. /\ phase' = "rx" \/ (phase' = "tx" /\ rx' = <<>>)
      /\ tx' = tx /\ writes' = writes /\ limit' = limit /\ port' = port
  BY <1>1 DEF ReadFromRxEffect
<1>3. phase = "rx"
  BY DEF ReadFromRx
<1>4. EnoughLimit'
  BY <1>2, <1>3 DEF Served, EnoughLimit, Backlog
<1>5. Drained' /\ AtRest'
  BY <1>2 DEF Drained, AtRest
<1> QED
  BY <1>4, <1>5 DEF Served

LEMMA NoReadServed ==
  ASSUME Shape, Served, NoRead
  PROVE  Served'
<1>1. /\ phase = "rx" /\ phase' = "send" /\ tx' = tx /\ writes' = writes
      /\ limit' = limit /\ port' = port
  BY DEF NoRead
<1>2. EnoughLimit'
  BY <1>1 DEF Served, EnoughLimit, Backlog
<1>3. Drained' /\ AtRest'
  BY <1>1 DEF Drained, AtRest
<1> QED
  BY <1>2, <1>3 DEF Served

(* What leaves txBuf is taken off the limit too.                           *)
LEMMA SentCounts ==
  ASSUME Shape, EnoughLimit, phase # "free", NEW n \in Nat, n <= Len(Chunk),
         SentFromTx(n), writes' = writes, port' = port
  PROVE  EnoughLimit'
<1> DEFINE f == FlattenSeq(writes)
<1>1. /\ Len(tx') = Len(tx) - n /\ limit' = limit - n /\ n <= Len(tx)
  BY SentIs
<1>2. /\ Len(tx) \in Nat /\ Len(f) \in Nat /\ limit \in Nat
  BY Ahead, LenProperties, LimitIs
<1>3. Backlog = Len(tx) + Len(f) /\ Backlog' = Len(tx') + Len(f)
  BY DEF Backlog
<1> HIDE DEF f
<1>4. Backlog <= limit => Backlog' <= limit'
  BY <1>1, <1>2, <1>3
<1> QED
  BY <1>4 DEF EnoughLimit

LEMMA ReadFromTxServed ==
  ASSUME Shape, Served, Plainly, ReadFromTx
  PROVE  Served'
<1>1. PICK n : ReadFromTxEffect(n)
  BY ReadFromTxDoes
<1>2. /\ n \in Nat /\ n <= Len(Chunk) /\ SentFromTx(n) /\ reads # <<>>
      /\ writes' = writes /\ rx' = rx /\ port' = port
      /\ \/ phase' = "rx"
         \/ phase' = "tx"
         \/ /\ phase' = "direct" /\ Kept(First(tx, n)) = <<>>
            /\ n = Consumed(Chunk, ReadRoom) /\ ReadRoom # 0
  BY <1>1 DEF ReadFromTxEffect
<1>3. phase = "tx"
  BY DEF ReadFromTx
<1>4. EnoughLimit'
  BY <1>2, <1>3, SentCounts DEF Served
<1>5. rx' = <<>>
  BY <1>2, <1>3 DEF Served, Drained
<1>6. phase' = "direct" => tx' = <<>> \/ limit' = 0
  <2>1. SUFFICES ASSUME phase' = "direct"
                 PROVE  tx' = <<>> \/ limit' = 0
    OBVIOUS
  <2>2. /\ Kept(First(tx, n)) = <<>> /\ n = Consumed(Chunk, ReadRoom)
        /\ ReadRoom # 0
    BY <1>2, <2>1
  <2>3. /\ tx' = Rest(tx, n) /\ limit' = limit - n /\ n <= Len(tx)
        /\ First(tx, n) \in Seq(Chars) /\ Chunk \in Seq(Chars)
        /\ tx \in Seq(Chars)
    BY <1>2, SentIs DEF Shape
  <2>4. Len(First(tx, n)) = n
    BY <1>2, <2>3, FirstRest
  <2>5. First(tx, n) = <<>>
    BY <2>2, <2>3, KeptIs DEF Plainly
  <2>6. n = 0
    BY <2>3, <2>4, <2>5, EmptyByLen
  <2>7. ReadRoom \in Nat /\ Len(Chunk) \in Nat
    BY <1>2, <2>3, ReadRoomIs, LenProperties
  <2>8. n = Least(Len(Chunk), ReadRoom)
    BY <2>2, <2>3, <2>7, ConsumedIs DEF Plainly
  <2>9. Len(Chunk) = 0
    BY <2>2, <2>6, <2>7, <2>8 DEF Least
  <2>10. tx = <<>> \/ limit = 0
    BY <2>3, <2>9, ChunkIs, LimitIs DEF Shape
  <2>11. tx = <<>> => tx' = <<>>
    BY <2>3, <2>6, FirstRestEnds
  <2>12. limit = 0 => limit' = 0
    BY <2>3, <2>6
  <2> QED
    BY <2>10, <2>11, <2>12
<1>7. Drained' /\ AtRest'
  BY <1>2, <1>5, <1>6 DEF Drained, AtRest
<1> QED
  BY <1>4, <1>7 DEF Served

LEMMA NothingStored ==
  ASSUME Shape, Plainly, NEW src \in Seq(Chars), Accepted(src) = 0,
         rx' = rx \o Stored(src)
  PROVE  rx' = rx
<1>1. PICK l : Leaves(src, l)
  BY StoredIs, LimitIs
<1>2. /\ Kept(First(src, 0)) = Stored(src) \o l /\ l \in Seq(Chars)
      /\ Stored(src) \in Seq(Chars)
  BY <1>1 DEF Leaves
<1>3. First(src, 0) = <<>>
  BY FirstRestEnds
<1>4. Stored(src) = <<>>
  BY <1>2, <1>3, KeptEmpty, ConcatEqualIffEmpty
<1>5. rx \in Seq(Chars)
  BY DEF Shape
<1> QED
  BY <1>4, <1>5, ConcatEmptySeq

LEMMA MoveFromTxServed ==
  ASSUME Shape, Served, Plainly, MoveFromTx
  PROVE  Served'
<1>1. PICK n : MoveFromTxEffect(n)
  BY MoveFromTxDoes
<1>2. /\ n = Accepted(Chunk) /\ n \in Nat /\ n <= Len(Chunk) /\ SentFromTx(n)
      /\ rx' = rx \o Stored(Chunk) /\ reads' = <<>>
      /\ writes' = writes /\ port' = port
      /\ phase' = IF n = 0 THEN "direct" ELSE "send"
  BY <1>1 DEF MoveFromTxEffect
<1>3. phase = "send"
  BY DEF MoveFromTx
<1>4. EnoughLimit'
  BY <1>2, <1>3, SentCounts DEF Served
<1>5. n = 0 => tx' = <<>> \/ limit' = 0 \/ (~Lossy' /\ RxRoom' = 0)
  <2>1. SUFFICES ASSUME n = 0
                 PROVE  tx' = <<>> \/ limit' = 0 \/ (~Lossy' /\ RxRoom' = 0)
    OBVIOUS
  <2>2. /\ tx' = Rest(tx, n) /\ limit' = limit - n
        /\ Chunk \in Seq(Chars) /\ tx \in Seq(Chars) /\ limit \in Nat
    BY <1>2, SentIs, LimitIs DEF Shape
  <2>3. tx' = tx
    BY <2>1, <2>2, FirstRestEnds
  <2>4. limit' = limit
    BY <2>1, <2>2
  <2>5. rx' = rx
    BY <1>2, <2>1, <2>2, NothingStored
  <2>6. Lossy' = Lossy /\ RxRoom' = RxRoom
    BY <1>2, <2>5 DEF Lossy, RxRoom
  <2>7. RxFits /\ RxRoom \in Nat /\ Len(Chunk) \in Nat
    BY <2>2, LimitIs, RoomIs, LenProperties
  <2>8. CASE Lossy
    <3>1. Len(Chunk) = 0
      BY <1>2, <2>1, <2>2, <2>7, <2>8, AcceptedIs
    <3> QED
      BY <2>2, <2>3, <2>4, <3>1, ChunkIs DEF Shape
  <2>9. CASE ~Lossy
    <3>1. n = Least(Len(Chunk), RxRoom)
      BY <1>2, <2>2, <2>7, <2>9, PlainStored
    <3>2. Len(Chunk) = 0 \/ RxRoom = 0
      BY <2>1, <2>7, <3>1 DEF Least
    <3>3. CASE Len(Chunk) = 0
      BY <2>2, <2>3, <2>4, <3>3, ChunkIs DEF Shape
    <3>4. CASE RxRoom = 0
      BY <2>6, <2>9, <3>4
    <3> QED
      BY <3>2, <3>3, <3>4
  <2> QED
    BY <2>8, <2>9
<1>6. Drained' /\ AtRest'
  BY <1>2, <1>5 DEF Drained, AtRest
<1> QED
  BY <1>4, <1>6 DEF Served

(* What leaves the write queue.                                            *)
LEMMA QueueLengths ==
  ASSUME Shape, writes # <<>>, NEW n \in Nat, n <= Len(Head(writes))
  PROVE  /\ Len(FlattenSeq(writes)) \in Nat
         /\ Len(FlattenSeq(AfterWriting(n))) = Len(FlattenSeq(writes)) - n
         /\ Len(Head(writes)) <= Len(FlattenSeq(writes))
<1> DEFINE w == Head(writes)
           e == FlattenSeq(Tail(writes))
           y == Rest(w, n)
<1>1. /\ w \in Seq(Chars) /\ e \in Seq(Chars) /\ FlattenSeq(writes) = w \o e
  BY HeadWrite DEF Shape
<1>2. FlattenSeq(AfterWriting(n)) = y \o e
  BY WritesAfter DEF Shape
<1>3. y \in Seq(Chars) /\ Len(y) = Len(w) - n
  <2> HIDE DEF w
  <2> QED
    BY <1>1, FirstRest DEF w
<1> HIDE DEF y, e
<1>4. Len(w \o e) = Len(w) + Len(e) /\ Len(y \o e) = Len(y) + Len(e)
  BY <1>1, <1>3, ConcatProperties
<1>5. Len(w) \in Nat /\ Len(e) \in Nat
  BY <1>1, LenProperties
<1> QED
  BY <1>1, <1>2, <1>3, <1>4, <1>5

LEMMA ReadWriteDirectServed ==
  ASSUME Shape, Served, ReadWriteDirect
  PROVE  Served'
<1>1. PICK n : ReadWriteDirectEffect(n)
  BY ReadWriteDirectDoes
<1>2. /\ n \in Nat /\ n <= Len(Src) /\ n <= Len(Head(writes))
      /\ reads # <<>> /\ writes # <<>> /\ limit # 0
      /\ phase = "direct" /\ phase' = phase
      /\ writes' = AfterWriting(n) /\ limit' = limit - n
      /\ tx' = tx /\ rx' = rx /\ port' = port
  BY <1>1 DEF ReadWriteDirectEffect
<1>3. rx = <<>> /\ tx = <<>>
  BY <1>2 DEF Served, Drained
<1>4. EnoughLimit'
  <2>1. /\ Len(FlattenSeq(writes)) \in Nat
        /\ Len(FlattenSeq(writes')) = Len(FlattenSeq(writes)) - n
    BY <1>2, QueueLengths
  <2>2. Len(tx) \in Nat /\ limit \in Nat
    BY LimitIs
  <2>3. /\ Backlog = Len(tx) + Len(FlattenSeq(writes))
        /\ Backlog' = Len(tx) + Len(FlattenSeq(writes'))
    BY <1>2 DEF Backlog
  <2>4. Backlog <= limit => Backlog' <= limit'
    BY <1>2, <2>1, <2>2, <2>3
  <2> QED
    BY <1>2, <2>4 DEF Served, EnoughLimit
<1>5. Drained' /\ AtRest'
  BY <1>2, <1>3 DEF Drained, AtRest
<1> QED
  BY <1>4, <1>5 DEF Served

LEMMA EndReadServed ==
  ASSUME Shape, Served, EndRead
  PROVE  Served'
<1>1. /\ phase = "direct" /\ phase' \in {"direct", "buffer"}
      /\ reads' # <<>> => reads # <<>>
      /\ limit' = limit \/ (port.emuBR /\ limit' = 0)
      /\ tx' = tx /\ rx' = rx /\ writes' = writes /\ port' = port
  BY EndReadDoes DEF EndReadEffect
<1>2. EnoughLimit'
  BY <1>1 DEF Served, EnoughLimit, Backlog
<1>3. Lossy' = Lossy /\ RxRoom' = RxRoom
  BY <1>1 DEF Lossy, RxRoom
<1>4. /\ tx = <<>> \/ limit = 0 \/ (~Lossy /\ RxRoom = 0)
      /\ reads # <<>> => rx = <<>> /\ (tx = <<>> \/ limit = 0)
  BY <1>1 DEF Served, Drained
<1>5. limit = 0 => limit' = 0
  BY <1>1
<1>6. Drained' /\ AtRest'
  BY <1>1, <1>3, <1>4, <1>5 DEF Drained, AtRest
<1> QED
  BY <1>2, <1>6 DEF Served

LEMMA EndTransferServed ==
  ASSUME Shape, Served, EndTransfer
  PROVE  Served'
<1>1. /\ phase = "buffer" /\ (writes = <<>> \/ holding)
      /\ phase' = "free" /\ tx' = tx /\ rx' = rx /\ writes' = writes
      /\ reads' = reads /\ holding' = holding /\ port' = port
  BY EndTransferDoes DEF EndTransferEffect
<1>2. /\ tx = <<>> \/ limit = 0 \/ (~Lossy /\ RxRoom = 0)
      /\ reads # <<>> => rx = <<>> /\ (tx = <<>> \/ limit = 0)
  BY <1>1 DEF Served, Drained
<1>3. ~port.emuBR /\ limit = 0 => tx = <<>>
  <2> DEFINE f == FlattenSeq(writes)
  <2>1. Len(tx) \in Nat /\ Len(f) \in Nat /\ tx \in Seq(Chars)
    BY Ahead, LenProperties
  <2>2. ~port.emuBR => Len(tx) + Len(f) <= limit
    BY <1>1 DEF Served, EnoughLimit, Backlog
  <2> HIDE DEF f
  <2>3. ~port.emuBR /\ limit = 0 => Len(tx) = 0
    BY <2>1, <2>2
  <2> QED
    BY <2>1, <2>3, EmptyByLen
<1>4. RxRoom = 0 => Len(rx) = port.rxLimit /\ Len(rx) \in Nat
  <2>1. RxRoom \in Nat /\ Len(rx) + RxRoom = port.rxLimit /\ Len(rx) \in Nat
    BY RoomIs, LimitIs, LenProperties DEF RxFits
  <2> QED
    BY <2>1
<1>5. EnoughLimit' /\ Drained'
  BY <1>1 DEF EnoughLimit, Drained
<1>6. reads # <<>> => rx = <<>>
  BY <1>2
<1>7. reads # <<>> /\ ~port.emuBR => tx = <<>>
  BY <1>2, <1>3
<1>8. ~port.emuBR /\ Len(rx) < port.rxLimit => tx = <<>>
  BY <1>2, <1>3, <1>4
<1>9. AtRest'
  BY <1>1, <1>6, <1>7, <1>8 DEF AtRest
<1> QED
  BY <1>5, <1>9 DEF Served

LEMMA WriteToBuffersServed ==
  ASSUME Shape, Served, Plainly, WriteToBuffers
  PROVE  Served' /\ (tx = <<>> \/ Accepted(Src) = 0)
<1>1. PICK n, more : WriteToBuffersEffect(n, more)
  BY WriteToBuffersDoes
<1> DEFINE w == Head(writes)
           k == Len(more)
           f == FlattenSeq(writes)
           d == FlattenSeq(writes')
<1>2. /\ phase = "buffer" /\ writes # <<>> /\ ~holding
      /\ n = Accepted(Src) /\ n \in Nat /\ n <= Len(Src) /\ n <= Len(w)
      /\ k \in Nat /\ n + k <= Len(w)
      /\ rx' = rx \o Stored(Src) /\ tx' = tx \o more
      /\ writes' = AfterWriting(n + k) /\ reads' = reads /\ port' = port
      /\ more = ToTx(Rest(w, n)) /\ Rest(w, n) \in Seq(Chars)
  BY <1>1 DEF WriteToBuffersEffect
<1>3. \/ n + k = Len(w) /\ limit' = limit - n /\ phase' = "buffer"
      \/ n + k # Len(w) /\ limit' = 0 /\ phase' = "free"
  BY <1>1, <1>2 DEF WriteToBuffersEffect
<1>4. /\ Len(w) \in Nat /\ Len(w) # 0 /\ Src \in Seq(Chars)
      /\ Len(Src) \in Nat /\ Len(Src) <= Len(w) /\ Len(Src) <= limit
      /\ Len(Src) = Len(w) \/ Len(Src) = limit
  BY <1>2, SrcIs
<1>5. more \in Seq(Chars)
  BY <1>2, ToTxIs
<1>6. /\ RxFits /\ RxRoom \in Nat /\ limit \in Nat /\ Len(tx) \in Nat
      /\ rx \in Seq(Chars) /\ tx \in Seq(Chars)
      /\ Len(rx) + RxRoom = port.rxLimit /\ Len(rx) \in Nat
  BY LimitIs, RoomIs, LenProperties DEF RxFits, Shape
<1>7. /\ tx = <<>> \/ limit = 0 \/ (~Lossy /\ RxRoom = 0)
      /\ reads # <<>> => rx = <<>> /\ (tx = <<>> \/ limit = 0)
      /\ reads # <<>> => limit = 0
  BY <1>2 DEF Served, Drained, Shape, Engaged
<1>8. Lossy => n = Len(Src)
  BY <1>2, <1>4, <1>6, AcceptedIs
<1>9. ~Lossy => n = Least(Len(Src), RxRoom) /\ Stored(Src) = First(Src, n)
  BY <1>2, <1>4, <1>6, PlainStored
<1>10. n = 0 => rx' = rx
  BY <1>2, <1>4, NothingStored
<1>11. /\ rx' \in Seq(Chars) /\ Len(rx') = Len(rx) + Len(Stored(Src))
  BY <1>2, <1>4, <1>6, StoreFits
<1>12. ~Lossy => Len(rx') = Len(rx) + n
  BY <1>2, <1>4, <1>9, <1>11, FirstRest
<1>13. Len(tx') = Len(tx) + k
  BY <1>2, <1>5, <1>6, ConcatProperties
<1>14. Len(f) \in Nat /\ Len(d) = Len(f) - (n + k) /\ Len(w) <= Len(f)
  <2> DEFINE m == n + k
  <2>1. m \in Nat /\ m <= Len(w) /\ writes' = AfterWriting(m)
    BY <1>2
  <2> HIDE DEF m
  <2>2. /\ Len(f) \in Nat /\ Len(FlattenSeq(AfterWriting(m))) = Len(f) - m
        /\ Len(w) <= Len(f)
    BY <1>2, <2>1, QueueLengths
  <2>3. Len(d) = Len(f) - m
    BY <2>1, <2>2
  <2> QED
    BY <2>2, <2>3 DEF m
<1>15. ~port.emuBR => Len(tx) + Len(f) <= limit
  BY <1>2 DEF Served, EnoughLimit, Backlog
<1>16. Backlog' = Len(tx') + Len(d)
  BY DEF Backlog
<1>17. /\ tx = <<>> <=> Len(tx) = 0
       /\ tx' = <<>> <=> Len(tx') = 0
  <2>1. tx' \in Seq(Chars)
    BY <1>2, <1>5, <1>6, ConcatProperties
  <2> QED
    BY <1>6, <2>1, EmptyByLen
<1>18. Lossy' = Lossy /\ RxRoom' = port.rxLimit - Len(rx')
  BY <1>2 DEF Lossy, RxRoom
<1>24. /\ k \in Nat /\ n \in Nat /\ n <= Len(Src) /\ n <= Len(w) /\ n + k <= Len(w)
  BY <1>2
<1> HIDE DEF w, k, f, d
<1>19. limit = 0 \/ (~Lossy /\ RxRoom = 0) => n = 0
  BY <1>4, <1>6, <1>9, <1>24 DEF Least
<1>20. tx = <<>> \/ n = 0
  BY <1>7, <1>19
<1>21. ASSUME n + k = Len(w), limit' = limit - n, phase' = "buffer"
       PROVE  Served'
  <2>1. ~port.emuBR => Backlog' <= limit'
    BY <1>6, <1>13, <1>14, <1>15, <1>16, <1>21, <1>24
  <2>2. EnoughLimit'
    BY <1>2, <2>1 DEF EnoughLimit
  <2>3. tx' = <<>> \/ limit' = 0 \/ (~Lossy' /\ RxRoom' = 0)
    <3>1. CASE k = 0
      <4>1. n # 0
        BY <1>4, <1>21, <1>24, <3>1
      <4>2. Len(tx') = 0
        BY <1>6, <1>13, <1>17, <1>20, <3>1, <4>1
      <4> QED
        BY <1>17, <4>2
    <3>2. CASE k # 0 /\ n = Len(Src)
      <4>1. Len(Src) = limit
        BY <1>4, <1>21, <1>24, <3>2
      <4>2. limit' = 0
        BY <1>6, <1>21, <3>2, <4>1
      <4> QED
        BY <4>2
    <3>3. CASE k # 0 /\ n # Len(Src)
      <4>1. ~Lossy
        BY <1>8, <3>3
      <4>2. n = RxRoom
        BY <1>9, <3>3, <4>1 DEF Least
      <4>3. RxRoom' = 0
        BY <1>6, <1>12, <1>18, <4>1, <4>2
      <4> QED
        BY <1>18, <4>1, <4>3
    <3> QED
      BY <3>1, <3>2, <3>3
  <2>4. reads # <<>> => rx' = <<>> /\ limit' = 0
    <3>1. SUFFICES ASSUME reads # <<>>
                   PROVE  rx' = <<>> /\ limit' = 0
      OBVIOUS
    <3>2. limit = 0 /\ rx = <<>> /\ n = 0
      BY <1>7, <1>19, <3>1
    <3> QED
      BY <1>10, <1>21, <3>2
  <2>5. Drained' /\ AtRest'
    BY <1>2, <1>21, <2>3, <2>4 DEF Drained, AtRest
  <2> QED
    BY <2>2, <2>5 DEF Served
<1>22. ASSUME n + k # Len(w), phase' = "free"
       PROVE  Served'
  <2>1. ~port.emuBR => limit # 0 /\ Len(Src) = Len(w)
    BY <1>4, <1>6, <1>14, <1>15
  <2>2. reads # <<>> => rx' = <<>> /\ port.emuBR
    <3>1. SUFFICES ASSUME reads # <<>>
                   PROVE  rx' = <<>> /\ port.emuBR
      OBVIOUS
    <3>2. limit = 0 /\ rx = <<>> /\ n = 0
      BY <1>7, <1>19, <3>1
    <3> QED
      BY <1>10, <2>1, <3>2
  <2>3. ~port.emuBR => ~(Len(rx') < port.rxLimit)
    <3>1. SUFFICES ASSUME ~port.emuBR
                   PROVE  ~(Len(rx') < port.rxLimit)
      OBVIOUS
    <3>2. Len(Src) = Len(w)
      BY <2>1, <3>1
    <3>3. n # Len(Src)
      BY <1>4, <1>22, <1>24, <3>2
    <3>4. ~Lossy
      BY <1>8, <3>3
    <3>5. n = RxRoom
      BY <1>9, <3>3, <3>4 DEF Least
    <3>6. Len(rx') = port.rxLimit
      BY <1>6, <1>12, <3>4, <3>5
    <3>7. Len(rx') \in Nat
      BY <1>11, LenProperties
    <3> QED
      BY <3>6, <3>7
  <2>4. EnoughLimit' /\ Drained'
    BY <1>22 DEF EnoughLimit, Drained
  <2>5. AtRest'
    BY <1>2, <1>22, <2>2, <2>3 DEF AtRest
  <2> QED
    BY <2>4, <2>5 DEF Served
<1>23. Served'
  BY <1>3, <1>21, <1>22
<1> QED
  BY <1>2, <1>20, <1>23
-----------------------------------------------------------------------------
(***************************************************************************)
(* What a step does to the characters in transit, with no filter.          *)
(***************************************************************************)
Carries == Moves /\ written' = written /\ aborts' = aborts

Drops ==
  /\ Cuts /\ written' = written
  /\ \/ port.emuOverrun /\ aborts' = aborts
     \/ aborts' = aborts + 1

Sends == \E n : WriteEffect(n)

LEMMA ReadsCarry ==
  ASSUME Shape, Shape', Served, Plainly,
         ReadFromRx \/ ReadFromTx \/ ReadWriteDirect \/ EndRead
  PROVE  Carries /\ port' = port
<1>1. CASE ReadFromRx
  BY <1>1, ReadFromRxMoves DEF ReadFromRx, Carries
<1>2. CASE ReadFromTx
  <2>1. rx = <<>>
    BY <1>2 DEF ReadFromTx, Served, Drained
  <2> QED
    BY <1>2, <2>1, ReadFromTxMoves DEF ReadFromTx, Carries
<1>3. CASE ReadWriteDirect
  <2>1. PICK n : ReadWriteDirectEffect(n)
    BY <1>3, ReadWriteDirectDoes
  <2>2. rx = <<>> /\ tx = <<>>
    BY <2>1 DEF ReadWriteDirectEffect, Served, Drained
  <2>3. Moves
    BY <1>3, <2>2, ReadWriteDirectMoves
  <2> QED
    BY <2>1, <2>3 DEF ReadWriteDirectEffect, Carries
<1>4. CASE EndRead
  BY <1>4, EndReadMoves DEF EndRead, Carries
<1> QED
  BY <1>1, <1>2, <1>3, <1>4

LEMMA StoresCarryOrDrop ==
  ASSUME Shape, Shape', Served, Plainly, MoveFromTx \/ WriteToBuffers
  PROVE  (Carries \/ Drops) /\ port' = port
<1>1. Moves \/ Overruns
  <2>1. CASE MoveFromTx
    BY <2>1, MoveFromTxMoves
  <2>2. CASE WriteToBuffers
    BY <2>2, WriteToBuffersServed, WriteToBuffersMoves
  <2> QED
    BY <2>1, <2>2
<1>2. written' = written /\ aborts' = aborts /\ port' = port
  BY DEF MoveFromTx, WriteToBuffers
<1> QED
  BY <1>1, <1>2 DEF Carries, Drops, Overruns

LEMMA OthersCarry ==
  ASSUME Shape, Shape',
         \/ NoRead \/ EndTransfer \/ Tick \/ Expire \/ Hold \/ Release
         \/ \E n \in Lengths : Read(n)
  PROVE  Carries /\ port' = port
<1>1. /\ UNCHANGED <<rx, tx, writes, taken>> /\ GotIs(reads') = GotIs(reads)
      /\ written' = written /\ aborts' = aborts /\ port' = port
  <2>1. CASE \E n \in Lengths : Read(n)
    BY <2>1, ReadDoes DEF ReadEffect
  <2>2. CASE \/ NoRead \/ EndTransfer \/ Tick \/ Expire \/ Hold \/ Release
    <3>1. /\ UNCHANGED <<rx, tx, writes, taken, reads>>
          /\ written' = written /\ aborts' = aborts /\ port' = port
      BY <2>2 DEF NoRead, EndTransfer, Tick, Expire, Hold, Release
    <3>2. GotIs(reads') = GotIs(reads)
      BY <3>1
    <3> QED
      BY <3>1, <3>2
  <2> QED
    BY <2>1, <2>2
<1> QED
  BY <1>1, Stays DEF Carries

LEMMA AbortsDrop ==
  ASSUME Shape, Shape',
         \/ Purge
         \/ \E i \in 1 .. Len(reads) : CancelRead(i)
         \/ \E i \in 1 .. Len(writes) : CancelWrite(i)
  PROVE  Drops /\ port' = port
<1>1. CASE Purge
  BY <1>1, PurgeDoes, PurgeMoves DEF PurgeEffect, Aborted, Drops
<1>2. CASE \E i \in 1 .. Len(reads) : CancelRead(i)
  BY <1>2, CancelReadDoes, CancelReadMoves DEF CancelReadEffect, Aborted, Drops
<1>3. CASE \E i \in 1 .. Len(writes) : CancelWrite(i)
  BY <1>3, CancelWriteDoes, CancelWriteMoves
     DEF CancelWriteEffect, Aborted, Drops
<1> QED
  BY <1>1, <1>2, <1>3

LEMMA StepKinds ==
  ASSUME Shape, Shape', Served, Plainly, Next
  PROVE  port' = port /\ (Carries \/ Drops \/ Sends)
<1>1. CASE \E n \in Lengths : Write(n)
  <2>1. PICK n \in Lengths : Write(n)
    BY <1>1
  <2>2. WriteEffect(n)
    BY <2>1, WriteDoes
  <2> QED
    BY <2>2 DEF Sends, WriteEffect
<1>2. CASE \E n \in Lengths : Read(n)
  BY <1>2, OthersCarry
<1>3. CASE Tick \/ Expire \/ Hold \/ Release
  BY <1>3, OthersCarry
<1>4. CASE \/ Purge
           \/ \E i \in 1 .. Len(reads) : CancelRead(i)
           \/ \E i \in 1 .. Len(writes) : CancelWrite(i)
  BY <1>4, AbortsDrop
<1>5. CASE Engine
  BY <1>5, OthersCarry, ReadsCarry, StoresCarryOrDrop DEF Engine
<1> QED
  BY <1>1, <1>2, <1>3, <1>4, <1>5 DEF Next

LEMMA FineStep ==
  ASSUME Shape, Shape', Served, Plainly, Fine(Stream, written), Next
  PROVE  Fine(Stream', written')
<1>1. CASE Carries
  BY <1>1, FineMoves DEF Carries
<1>2. CASE Drops
  BY <1>2, FineCuts DEF Drops
<1>3. CASE Sends
  <2>1. PICK n : WriteEffect(n)
    BY <1>3 DEF Sends
  <2> QED
    BY <2>1, FineWrites
<1> QED
  BY <1>1, <1>2, <1>3, StepKinds

LEMMA ServedStep ==
  ASSUME Shape, Shape', Served, Plainly, Fine(Stream', written'), Next
  PROVE  Served'
<1>1. ASSUME NEW n \in Lengths, Write(n)
      PROVE  Served'
  <2>1. WriteEffect(n)
    BY <1>1, WriteDoes
  <2>2. CASE Starts
    BY <2>1, <2>2, StartsServed DEF WriteEffect
  <2>3. CASE writes # <<>> /\ Rests
    BY <2>1, <2>3, RestsServed DEF WriteEffect, Rests
  <2> QED
    BY <2>1, <2>2, <2>3 DEF WriteEffect
<1>2. ASSUME NEW n \in Lengths, Read(n)
      PROVE  Served'
  <2>1. ReadEffect
    BY <1>2, ReadDoes
  <2>2. CASE Starts
    BY <2>1, <2>2, StartsServed DEF ReadEffect
  <2>3. CASE reads # <<>> /\ Rests
    BY <2>1, <2>3, RestsServed DEF ReadEffect, Rests
  <2> QED
    BY <2>1, <2>2, <2>3 DEF ReadEffect
<1>3. CASE Tick \/ Expire
  BY <1>3, StartDoes, StartsServed DEF StartEffect
<1>4. CASE Hold
  BY <1>4, HoldDoes, RestsServed DEF HoldEffect
<1>5. CASE Release
  <2>1. ReleaseEffect
    BY <1>5, ReleaseDoes
  <2>2. CASE Starts
    BY <2>1, <2>2, StartsServed DEF ReleaseEffect
  <2>3. CASE writes = <<>> /\ Rests
    BY <2>1, <2>3, RestsServed DEF ReleaseEffect, Rests
  <2> QED
    BY <2>1, <2>2, <2>3 DEF ReleaseEffect, Resumes
<1>6. CASE Purge
  <2>1. PurgeEffect
    BY <1>6, PurgeDoes
  <2>2. CASE Starts
    BY <2>1, <2>2, StartsServed DEF PurgeEffect
  <2>3. CASE Rests /\ (writes = <<>> \/ holding' = holding)
    BY <2>1, <2>3, RestsServed DEF PurgeEffect, Rests, Aborted
  <2> QED
    BY <2>1, <2>2, <2>3 DEF PurgeEffect, Resumes
<1>7. ASSUME NEW i \in 1 .. Len(reads), CancelRead(i)
      PROVE  Served'
  BY <1>7, CancelReadDoes, RestsServed DEF CancelReadEffect, Aborted
<1>8. ASSUME NEW i \in 1 .. Len(writes), CancelWrite(i)
      PROVE  Served'
  <2>1. CancelWriteEffect
    BY <1>8, CancelWriteDoes
  <2>2. CASE Starts
    BY <2>1, <2>2, StartsServed DEF CancelWriteEffect
  <2>3. CASE Rests
    BY <2>1, <2>3, RestsServed DEF CancelWriteEffect, Rests, Aborted
  <2> QED
    BY <2>1, <2>2, <2>3 DEF CancelWriteEffect
<1>9. CASE Engine
  BY <1>9, ReadFromRxServed, ReadFromTxServed, NoReadServed, MoveFromTxServed,
     ReadWriteDirectServed, EndReadServed, WriteToBuffersServed,
     EndTransferServed DEF Engine
<1> QED
  BY <1>1, <1>2, <1>3, <1>4, <1>5, <1>6, <1>7, <1>8, <1>9 DEF Next
-----------------------------------------------------------------------------
(***************************************************************************)
(* The invariant of a port that strips nothing.                            *)
(***************************************************************************)
FlowInv == Plainly /\ Shape /\ Fine(Stream, written) /\ Served

LEMMA FlowStarts ==
  ASSUME Init, Plainly
  PROVE  FlowInv
<1>1. Shape
  BY InitShape
<1>2. /\ written = 0 /\ writes = <<>> /\ tx = <<>> /\ rx = <<>>
      /\ reads = <<>> /\ taken = <<>> /\ phase = "free"
  BY DEF Init
<1>3. FlattenSeq(writes) = <<>> /\ GotIs(reads) = <<>>
  BY <1>2, FlattenEmpty DEF GotIs
<1>4. InTransit = GotIs(reads) \o (rx \o (tx \o FlattenSeq(writes)))
  BY <1>1, Ahead
<1>5. Stream = <<>>
  <2>1. <<>> \o <<>> = <<>>
    OBVIOUS
  <2>2. InTransit = <<>>
    BY <1>2, <1>3, <1>4, <2>1
  <2> QED
    BY <1>2, <2>1, <2>2 DEF Stream
<1>6. Fine(Stream, written)
  BY <1>2, <1>5, FineEmpty
<1>7. Served
  BY <1>2 DEF Served, EnoughLimit, Drained, AtRest
<1> QED
  BY <1>1, <1>6, <1>7 DEF FlowInv

LEMMA FlowStep ==
  ASSUME FlowInv, [Next]_vars
  PROVE  FlowInv'
<1>1. Plainly /\ Shape /\ Fine(Stream, written) /\ Served
  BY DEF FlowInv
<1>2. Shape'
  BY <1>1, ShapeStep
<1>3. CASE Next
  <2>1. port' = port
    BY <1>1, <1>2, <1>3, StepKinds
  <2>2. Plainly'
    BY <1>1, <2>1 DEF Plainly
  <2>3. Fine(Stream', written')
    BY <1>1, <1>2, <1>3, FineStep
  <2>4. Served'
    BY <1>1, <1>2, <1>3, <2>3, ServedStep
  <2> QED
    BY <1>2, <2>2, <2>3, <2>4 DEF FlowInv
<1>4. CASE UNCHANGED vars
  <2>1. Served'
    BY <1>1, <1>4
       DEF vars, Served, EnoughLimit, Drained, AtRest, Backlog, Lossy, RxRoom
  <2>2. Plainly'
    BY <1>1, <1>4 DEF vars, Plainly
  <2>3. Stream' = Stream /\ written' = written
    BY <1>4 DEF vars, Stream, InTransit, InReads, Waiting
  <2> DEFINE u == Stream'
  <2>4. u = Stream
    BY <2>3
  <2> HIDE DEF u
  <2>5. Fine(u, written')
    BY <1>1, <2>3, <2>4
  <2>6. Fine(Stream', written')
    BY <2>5 DEF u
  <2> QED
    BY <1>2, <2>1, <2>2, <2>6 DEF FlowInv
<1> QED
  BY <1>3, <1>4

(* When nobody holds pIoLock a read is only pending if there is nothing    *)
(* for it: TryReadWrite does not stop while readBuf, or without baud rate  *)
(* emulation txBuf or a write that may go on, has something for the        *)
(* current read.  This is for a receiver that strips no characters.        *)
THEOREM NoReadStarves == Spec /\ Plainly => []PendingReadIsHungry
<1>1. Init /\ Plainly => FlowInv
  BY FlowStarts
<1>2. FlowInv /\ [Next]_vars => FlowInv'
  BY FlowStep
<1>3. FlowInv => PendingReadIsHungry
  BY DEF FlowInv, Served, AtRest, PendingReadIsHungry
<1> QED
  BY <1>1, <1>2, <1>3, PTL DEF Spec

(* When nobody holds pIoLock and nothing holds the writer, no character    *)
(* waits in txBuf or in a write for room that readBuf has, as long as      *)
(* nothing was purged or cancelled and no baud rate is emulated.  This is  *)
(* for a receiver that strips no characters.                               *)
THEOREM RoomIsUsed == Spec /\ Plainly => []NothingWaitsForRoom
<1>1. Init /\ Plainly => FlowInv
  BY FlowStarts
<1>2. FlowInv /\ [Next]_vars => FlowInv'
  BY FlowStep
<1>3. FlowInv => NothingWaitsForRoom
  BY DEF FlowInv, Served, AtRest, NothingWaitsForRoom
<1> QED
  BY <1>1, <1>2, <1>3, PTL DEF Spec

(* The parts of an increasing sequence are so, and have nothing in common. *)
LEMMA IncreasingParts ==
  ASSUME NEW a \in Seq(Chars), NEW b \in Seq(Chars), Increasing(a \o b)
  PROVE  /\ Increasing(a) /\ Increasing(b)
         /\ Range(a) \cap Range(b) = {}
<1> DEFINE s == a \o b
<1>1. /\ Len(s) = Len(a) + Len(b) /\ Len(a) \in Nat /\ Len(b) \in Nat
      /\ \A i \in 1 .. Len(a) + Len(b) :
           s[i] = IF i <= Len(a) THEN a[i] ELSE b[i - Len(a)]
  BY ConcatProperties, LenProperties
<1>2. /\ \A i \in 1 .. Len(a) : a[i] \in Chars
      /\ \A i \in 1 .. Len(b) : b[i] \in Chars
      /\ Chars \subseteq Nat
  BY ElementOfSeq, DataAssumption DEF Chars
<1>3. \A i \in 1 .. Len(a) : i \in 1 .. Len(a) + Len(b) /\ s[i] = a[i]
  BY <1>1
<1>4. ASSUME NEW j \in 1 .. Len(b)
      PROVE  /\ Len(a) + j \in 1 .. Len(a) + Len(b)
             /\ s[Len(a) + j] = b[j]
  <2>1. /\ Len(a) + j \in 1 .. Len(a) + Len(b) /\ ~(Len(a) + j <= Len(a))
        /\ Len(a) + j - Len(a) = j
    BY <1>1
  <2> QED
    BY <1>1, <2>1
<1>5. \A i, j \in 1 .. Len(a) + Len(b) : i < j => s[i] < s[j]
  BY <1>1 DEF Increasing
<1> HIDE DEF s
<1>6. Increasing(a)
  BY <1>3, <1>5 DEF Increasing
<1>7. Increasing(b)
  <2> SUFFICES ASSUME NEW i \in 1 .. Len(b), NEW j \in 1 .. Len(b), i < j
               PROVE  b[i] < b[j]
    BY DEF Increasing
  <2>1. Len(a) + i < Len(a) + j
    BY <1>1
  <2> QED
    BY <1>4, <1>5, <2>1
<1>8. ASSUME NEW c \in Range(a), c \in Range(b)
      PROVE  FALSE
  <2>1. /\ Range(a) = {a[i] : i \in 1 .. Len(a)}
        /\ Range(b) = {b[i] : i \in 1 .. Len(b)}
    BY RangeIs
  <2>2. PICK i \in 1 .. Len(a) : c = a[i]
    BY <2>1
  <2>3. PICK j \in 1 .. Len(b) : c = b[j]
    BY <1>8, <2>1
  <2>4. i < Len(a) + j
    BY <1>1
  <2>5. a[i] < b[j]
    BY <1>3, <1>4, <1>5, <2>4
  <2>6. a[i] \in Nat /\ a[i] = b[j]
    BY <1>2, <2>2, <2>3
  <2> QED
    BY <2>5, <2>6
<1> QED
  BY <1>6, <1>7, <1>8

LEMMA FlowOrder ==
  ASSUME FlowInv
  PROVE  Increasing(taken) /\ Increasing(InTransit)
<1>1. taken \in Seq(Chars) /\ InTransit \in Seq(Chars)
  BY Ahead DEF FlowInv
<1>2. Increasing(taken \o InTransit)
  BY DEF FlowInv, Fine, Stream
<1> QED
  BY <1>1, <1>2, IncreasingParts

(* The reads get the characters in the order of the writes, each at most   *)
(* once, whatever is cancelled, purged, held or lost to overrun on the     *)
(* way.  This is for a receiver that strips no characters: for one that    *)
(* does, the order breaks.                                                 *)
THEOREM ReadsKeepOrder == Spec /\ Plainly => []ReadInOrder
<1>1. Init /\ Plainly => FlowInv
  BY FlowStarts
<1>2. FlowInv /\ [Next]_vars => FlowInv'
  BY FlowStep
<1>3. FlowInv => ReadInOrder
  BY FlowOrder DEF ReadInOrder, Increasing
<1> QED
  BY <1>1, <1>2, <1>3, PTL DEF Spec

(***************************************************************************)
(* The refinement: Carries is an arrival at the reader, Drops is a loss,   *)
(* and Sends is a write.                                                   *)
(***************************************************************************)
LEMMA CableStarts ==
  ASSUME Init, Plainly
  PROVE  Cable!Init
<1>1. Shape
  BY InitShape
<1>2. /\ written = 0 /\ taken = <<>> /\ aborts = 0
      /\ reads = <<>> /\ writes = <<>> /\ tx = <<>> /\ rx = <<>>
  BY DEF Init
<1>3. FlattenSeq(writes) = <<>> /\ GotIs(reads) = <<>>
  BY <1>2, FlattenEmpty DEF GotIs
<1>4. InTransit = GotIs(reads) \o (rx \o (tx \o FlattenSeq(writes)))
  BY <1>1, Ahead
<1>5. InTransit = <<>>
  <2>1. <<>> \o <<>> = <<>>
    OBVIOUS
  <2> QED
    BY <1>2, <1>3, <1>4, <2>1
<1>6. port.dropped \subseteq 1 .. MaxChars /\ port.emuOverrun \in BOOLEAN
  BY <1>1, SettingIs DEF Shape, Chars
<1> QED
  BY <1>2, <1>5, <1>6 DEF Cable!Init

(* The first part of a sequence, and what comes after it.                  *)
LEMMA PartsAre ==
  ASSUME NEW g \in Seq(Chars), NEW t \in Seq(Chars)
  PROVE  /\ Len(g) \in 0 .. Len(g \o t) /\ SubSeq(g \o t, 1, Len(g)) = g
         /\ SubSeq(g \o t, Len(g) + 1, Len(g \o t)) = t
<1> DEFINE s == g \o t
           h == First(s, Len(g))
<1>1. /\ s \in Seq(Chars) /\ Len(s) = Len(g) + Len(t)
      /\ \A i \in 1 .. Len(g) + Len(t) :
           s[i] = IF i <= Len(g) THEN g[i] ELSE t[i - Len(g)]
      /\ Len(g) \in Nat /\ Len(t) \in Nat
  BY ConcatProperties, LenProperties
<1>2. s = g \o t
  OBVIOUS
<1> HIDE DEF s
<1>3. Len(g) <= Len(s)
  BY <1>1
<1>4. /\ h \in Seq(Chars) /\ Len(h) = Len(g)
      /\ \A i \in 1 .. Len(g) : h[i] = s[i]
  BY <1>1, <1>3, FirstIs DEF First
<1>5. \A i \in 1 .. Len(g) : h[i] = g[i]
  <2>1. \A i \in 1 .. Len(g) : i \in 1 .. Len(g) + Len(t) /\ i <= Len(g)
    BY <1>1
  <2> QED
    BY <1>1, <1>4, <2>1
<1>6. h = g
  <2> HIDE DEF h
  <2> QED
    BY <1>1, <1>4, <1>5, SeqEqual
<1>7. h \o Rest(s, Len(g)) = s /\ Rest(s, Len(g)) \in Seq(Chars)
  BY <1>1, <1>3, FirstRest
<1>8. Rest(s, Len(g)) = t
  <2> DEFINE r == Rest(s, Len(g))
  <2>1. g \o r = g \o t /\ r \in Seq(Chars)
    BY <1>2, <1>6, <1>7
  <2> HIDE DEF r
  <2>2. r = t
    BY <2>1, ConcatSimplifications
  <2> QED
    BY <2>2 DEF r
<1> QED
  BY <1>1, <1>2, <1>3, <1>6, <1>8 DEF First, Rest, h, s

(* The operators of the cable are those of this module.                    *)
LEMMA SameFilter ==
  ASSUME NEW s, NEW gone
  PROVE  Cable!Without(s, gone) = Without(s, gone)
  BY Zenon DEF Without, Cable!Without

LEMMA SameRange ==
  ASSUME NEW s
  PROVE  Cable!Range(s) = Range(s)
  BY DEF Range, Cable!Range

LEMMA CarriesArrive ==
  ASSUME FlowInv, FlowInv', Carries, port' = port
  PROVE  Cable!Next \/ UNCHANGED Cable!vars
<1>1. PICK g \in Seq(Chars) : taken' = taken \o g /\ InTransit = g \o InTransit'
  BY DEF Carries, Moves
<1> DEFINE s == InTransit
           t == InTransit'
<1>2. s \in Seq(Chars)
  BY Ahead DEF FlowInv
<1>3. t \in Seq(Chars)
  BY AheadNext DEF FlowInv
<1>4. s = g \o t /\ taken' = taken \o g
  BY <1>1
<1>5. Without(s, {}) = s
  BY <1>2, WithoutFilters DEF Filtered
<1>6. /\ Len(g) \in 0 .. Len(s) /\ SubSeq(s, 1, Len(g)) = g
      /\ SubSeq(s, Len(g) + 1, Len(s)) = t
  <2> HIDE DEF s, t
  <2> QED
    BY <1>3, <1>4, PartsAre
<1>7. /\ port.dropped' = port.dropped /\ port.emuOverrun' = port.emuOverrun
      /\ written' = written /\ aborts' = aborts
  BY DEF Carries
<1>8. Cable!Arrive({}, Len(g))
  <2>1. Cable!Without(InTransit, {}) = InTransit
    BY <1>5, SameFilter
  <2>2. /\ taken' = taken \o SubSeq(InTransit, 1, Len(g))
        /\ InTransit' = SubSeq(InTransit, Len(g) + 1, Len(InTransit))
    BY <1>4, <1>6
  <2>3. Len(g) <= Len(InTransit)
    <3>1. Len(s) \in Nat
      BY <1>2, LenProperties
    <3> QED
      BY <1>6, <3>1
  <2> HIDE DEF s, t
  <2> QED
    BY <1>7, <2>1, <2>2, <2>3 DEF Cable!Arrive
<1> QED
  BY <1>6, <1>8 DEF Cable!Next

LEMMA DropsLose ==
  ASSUME FlowInv, Drops, port' = port
  PROVE  Cable!Next
<1>1. PICK x \in Seq(Chars), l \in Seq(Chars), y \in Seq(Chars) :
        InTransit = x \o (l \o y) /\ InTransit' = x \o y
  BY DEF Drops, Cuts
<1> DEFINE k == l \o y
           gone == Range(l)
<1>2. k \in Seq(Chars)
  BY ConcatProperties
<1>3. Increasing(x \o k)
  BY <1>1, FlowOrder
<1>4. Range(x) \cap Range(k) = {} /\ Increasing(k)
  <2> HIDE DEF k
  <2> QED
    BY <1>2, <1>3, IncreasingParts
<1>5. Range(l) \cap Range(y) = {}
  BY <1>4, IncreasingParts
<1>6. Range(k) = Range(l) \cup Range(y)
  BY RangeConcat
<1>7. Range(x \o k) = Range(x) \cup Range(k)
  <2> HIDE DEF k
  <2> QED
    BY <1>2, RangeConcat
<1>8. /\ Filtered(x, gone, Chars) /\ Filtered(l, gone, Chars)
      /\ Filtered(y, gone, Chars)
  BY WithoutFilters
<1>9. Without(x, gone) = x
  BY <1>4, <1>6, <1>8 DEF Filtered
<1>10. Without(y, gone) = y
  BY <1>5, <1>8 DEF Filtered
<1>11. Without(l, gone) = <<>>
  BY <1>8 DEF Filtered
<1>12. WithoutBoth(l, y, gone)
  <2> HIDE DEF gone
  <2> QED
    BY WithoutConcat DEF WithoutBoth
<1>13. WithoutBoth(x, k, gone)
  <2> HIDE DEF gone, k
  <2> QED
    BY <1>2, WithoutConcat DEF WithoutBoth
<1>14. Without(k, gone) = y
  BY <1>10, <1>11, <1>12, ConcatEmptySeq DEF WithoutBoth
<1>15. Without(InTransit, gone) = x \o y
  BY <1>1, <1>9, <1>13, <1>14 DEF WithoutBoth
<1>16. gone \subseteq Range(InTransit)
  BY <1>1, <1>6, <1>7
<1>17. Cable!Lose(gone)
  BY <1>1, <1>15, SameFilter DEF Cable!Lose, Drops, Cuts
<1> QED
  BY <1>16, <1>17, SameRange DEF Cable!Next

LEMMA SendsSend ==
  ASSUME FlowInv, FlowInv', Sends, port' = port
  PROVE  Cable!Next
<1>1. PICK n : WriteEffect(n)
  BY DEF Sends
<1>2. /\ InTransit' = InTransit \o [i \in 1 .. n |-> written + i]
      /\ taken' = taken /\ written' = written + n
      /\ n \in Nat /\ n # 0 /\ written + n <= MaxChars
  BY <1>1, WriteSends DEF FlowInv
<1>3. aborts' = aborts
  BY <1>1 DEF WriteEffect
<1>4. Cable!Send(n)
  BY <1>2, <1>3 DEF Cable!Send
<1>5. n \in 1 .. MaxChars
  BY <1>2, DataAssumption DEF FlowInv, Shape
<1> QED
  BY <1>4, <1>5 DEF Cable!Next

LEMMA CableStep ==
  ASSUME FlowInv, FlowInv', [Next]_vars
  PROVE  [Cable!Next]_Cable!vars
<1>1. CASE UNCHANGED vars
  <2>1. Stream' = Stream
    BY <1>1 DEF vars, Stream, InTransit, InReads, Waiting
  <2> QED
    BY <1>1 DEF vars, InTransit, InReads, Waiting, Cable!vars
<1>2. CASE Next
  <2>1. port' = port /\ (Carries \/ Drops \/ Sends)
    BY <1>2, StepKinds DEF FlowInv
  <2> QED
    BY <2>1, CarriesArrive, DropsLose, SendsSend
<1> QED
  BY <1>1, <1>2

(* The write queue, txBuf, readBuf and the pending reads make one cable:   *)
(* every step of every operation and of every loop of TryReadWrite is one  *)
(* of the cable or none, so that characters leave in the order they came,  *)
(* none twice, and none is missing but for overrun, a purge or a cancel.   *)
(* This is for a receiver that strips no characters.                       *)
THEOREM DataIsACable == Spec /\ Plainly => BehavesAsCable
<1>1. Init /\ Plainly => FlowInv /\ Cable!Init
  BY FlowStarts, CableStarts
<1>2. FlowInv /\ [Next]_vars => FlowInv'
  BY FlowStep
<1>3. FlowInv /\ FlowInv' /\ [Next]_vars => [Cable!Next]_Cable!vars
  BY CableStep
<1> QED
  BY <1>1, <1>2, <1>3, PTL DEF Spec, BehavesAsCable, Cable!Spec
=============================================================================
