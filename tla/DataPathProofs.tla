--------------------------- MODULE DataPathProofs ---------------------------
(***************************************************************************)
(* Theorems about DataPath in every configuration, for any sizes of the    *)
(* buffers and any lengths of the requests: what each step does to the     *)
(* places where characters are, that every place stays within its size,    *)
(* and what can get lost.                                                  *)
(***************************************************************************)
EXTENDS DataPath, DataSequences

(***************************************************************************)
(* Arithmetic of the copies.                                               *)
(***************************************************************************)
LEMMA LeastIs ==
  ASSUME NEW a \in Nat, NEW b \in Nat
  PROVE  /\ Least(a, b) \in Nat /\ Least(a, b) <= a /\ Least(a, b) <= b
         /\ Least(a, b) = a \/ Least(a, b) = b
  BY DEF Least

LEMMA FirstRest ==
  ASSUME NEW S, NEW s \in Seq(S), NEW n \in Nat, n <= Len(s)
  PROVE  /\ First(s, n) \in Seq(S) /\ Len(First(s, n)) = n
         /\ Rest(s, n) \in Seq(S) /\ Len(Rest(s, n)) = Len(s) - n
         /\ First(s, n) \o Rest(s, n) = s
<1>1. First(s, n) \in Seq(S) /\ Len(First(s, n)) = n
  BY FirstIs DEF First
<1>2. PICK m \in Nat : Len(s) = m
  BY LenProperties
<1>3. \A i \in n + 1 .. m : s[i] \in S
  BY <1>2, ElementOfSeq
<1>4. /\ Rest(s, n) \in Seq(S)
      /\ Len(Rest(s, n)) = IF n + 1 <= m THEN m - (n + 1) + 1 ELSE 0
  <2>1. n + 1 \in Int /\ m \in Int
    OBVIOUS
  <2> QED
    BY <1>2, <1>3, <2>1, SubSeqProperties DEF Rest
<1>5. Len(Rest(s, n)) = m - n
  BY <1>2, <1>4
<1>6. First(s, n) \o Rest(s, n) = s
  <2>1. 1 \in 1 .. Len(s) + 1 /\ n \in 1 - 1 .. Len(s) /\ Len(s) \in n .. Len(s)
    BY <1>2
  <2>2. SubSeq(s, 1, n) \o SubSeq(s, n + 1, Len(s)) = SubSeq(s, 1, Len(s))
    BY <2>1, ConcatAdjacentSubSeq
  <2> QED
    BY <2>2, SubSeqFull DEF First, Rest
<1> QED
  BY <1>1, <1>2, <1>4, <1>5, <1>6

LEMMA EmptyByLen ==
  ASSUME NEW S, NEW s \in Seq(S)
  PROVE  s = <<>> <=> Len(s) = 0
  BY EmptySeq

LEMMA NoneIn ==
  ASSUME NEW S, NEW s \in Seq(S), Range(s) = {}
  PROVE  s = <<>>
<1>1. Len(s) \in Nat
  BY LenProperties
<1>2. Range(s) = {s[i] : i \in 1 .. Len(s)}
  BY RangeIs
<1>3. Len(s) # 0 => 1 \in 1 .. Len(s)
  BY <1>1
<1>4. Len(s) = 0
  BY <1>1, <1>2, <1>3
<1> QED
  BY <1>4, EmptyByLen

LEMMA FirstRestEnds ==
  ASSUME NEW S, NEW s \in Seq(S)
  PROVE  /\ First(s, 0) = <<>> /\ Rest(s, 0) = s
         /\ First(s, Len(s)) = s /\ Rest(s, Len(s)) = <<>>
<1>1. 0 \in Nat /\ 0 <= Len(s) /\ Len(s) \in Nat /\ Len(s) <= Len(s)
      /\ Len(s) - Len(s) = 0
  BY LenProperties
<1>2. First(s, 0) = <<>> /\ Rest(s, Len(s)) = <<>>
  <2>1. First(s, 0) \in Seq(S) /\ Len(First(s, 0)) = 0
    BY <1>1, FirstRest
  <2>2. Rest(s, Len(s)) \in Seq(S) /\ Len(Rest(s, Len(s))) = 0
    BY <1>1, FirstRest
  <2> QED
    BY <2>1, <2>2, EmptyByLen
<1>3. First(s, Len(s)) = s /\ Rest(s, 0) = s
  BY SubSeqFull DEF First, Rest
<1> QED
  BY <1>2, <1>3

(* The first of the first.                                                 *)
LEMMA FirstOfFirst ==
  ASSUME NEW S, NEW s \in Seq(S), NEW m \in Nat, m <= Len(s),
         NEW n \in Nat, n <= m
  PROVE  First(First(s, m), n) = First(s, n)
<1> DEFINE t == First(s, m)
<1>1. Len(s) \in Nat /\ n <= Len(s)
  BY LenProperties
<1>2. t \in Seq(S) /\ Len(t) = m /\ \A i \in 1 .. m : t[i] = s[i]
  BY FirstIs DEF First
<1>3. /\ First(s, n) \in Seq(S) /\ Len(First(s, n)) = n
      /\ \A i \in 1 .. n : First(s, n)[i] = s[i]
  BY <1>1, FirstIs DEF First
<1> HIDE DEF t
<1>4. /\ First(t, n) \in Seq(S) /\ Len(First(t, n)) = n
      /\ \A i \in 1 .. n : First(t, n)[i] = t[i]
  BY <1>2, FirstIs DEF First
<1>5. \A i \in 1 .. n : First(t, n)[i] = First(s, n)[i]
  BY <1>2, <1>3, <1>4
<1>6. First(t, n) = First(s, n)
  BY <1>3, <1>4, <1>5, SeqEqual
<1> QED
  BY <1>6 DEF t

LEMMA RangeFirstRest ==
  ASSUME NEW S, NEW s \in Seq(S), NEW n \in Nat, n <= Len(s)
  PROVE  Range(s) = Range(First(s, n)) \cup Range(Rest(s, n))
<1> DEFINE t == First(s, n)
           u == Rest(s, n)
<1>1. t \in Seq(S) /\ u \in Seq(S) /\ t \o u = s
  BY FirstRest
<1> HIDE DEF t, u
<1>2. Range(t \o u) = Range(t) \cup Range(u)
  BY <1>1, RangeConcat
<1> QED
  BY <1>1, <1>2 DEF t, u
-----------------------------------------------------------------------------
(***************************************************************************)
(* What CopyCharsWithEscape and WriteToBuffer take and leave.              *)
(***************************************************************************)
LEMMA KeptIs ==
  ASSUME NEW S, NEW s \in Seq(S)
  PROVE  /\ Kept(s) \in Seq(S) /\ Len(Kept(s)) <= Len(s)
         /\ Range(Kept(s)) = Range(s) \ port.dropped
         /\ port.dropped = {} => Kept(s) = s
  BY WithoutFilters DEF Kept, Filtered

LEMMA KeptEmpty == Kept(<<>>) = <<>>
  BY WithoutEmpty DEF Kept

(* One more character passes at most one more.                             *)
LEMMA KeptNext ==
  ASSUME NEW S, NEW s \in Seq(S), NEW k \in Nat, k + 1 <= Len(s)
  PROVE  Len(Kept(First(s, k + 1))) <= Len(Kept(First(s, k))) + 1
<1> DEFINE t == First(s, k)
           c == s[k + 1]
<1>1. /\ Len(s) \in Nat /\ k <= Len(s) /\ k + 1 \in Nat
      /\ k + 1 \in 1 .. Len(s)
  BY LenProperties
<1>2. t \in Seq(S) /\ Len(t) = k /\ \A i \in 1 .. k : t[i] = s[i]
  BY <1>1, FirstIs DEF First
<1>3. /\ First(s, k + 1) \in Seq(S) /\ Len(First(s, k + 1)) = k + 1
      /\ \A i \in 1 .. k + 1 : First(s, k + 1)[i] = s[i]
  BY <1>1, FirstIs DEF First
<1>4. c \in S
  BY <1>1, ElementOfSeq
<1> HIDE DEF t, c
<1>5. /\ Append(t, c) \in Seq(S) /\ Len(Append(t, c)) = k + 1
      /\ \A i \in 1 .. k : Append(t, c)[i] = t[i]
      /\ Append(t, c)[k + 1] = c
  BY <1>2, <1>4, AppendProperties
<1>6. First(s, k + 1) = Append(t, c)
  <2>1. \A i \in 1 .. k + 1 : First(s, k + 1)[i] = Append(t, c)[i]
    BY <1>2, <1>3, <1>5 DEF c
  <2>2. /\ Len(First(s, k + 1)) = Len(Append(t, c))
        /\ \A i \in 1 .. Len(First(s, k + 1)) :
             First(s, k + 1)[i] = Append(t, c)[i]
    BY <1>3, <1>5, <2>1
  <2> QED
    BY <1>3, <1>5, <2>2, SeqEqual
<1>7. \/ Kept(Append(t, c)) = Kept(t)
      \/ Kept(Append(t, c)) = Append(Kept(t), c)
  <2> DEFINE gone == port.dropped
  <2> HIDE DEF gone
  <2>1. Without(Append(t, c), gone) = IF c \in gone THEN Without(t, gone)
                                     ELSE Append(Without(t, gone), c)
    BY <1>2, <1>4, WithoutAppend
  <2>2. Kept(t) = Without(t, gone)
        /\ Kept(Append(t, c)) = Without(Append(t, c), gone)
    BY DEF Kept, gone
  <2> QED
    BY <2>1, <2>2
<1>8. Kept(t) \in Seq(S)
  BY <1>2, KeptIs
<1>9. Len(Append(Kept(t), c)) = Len(Kept(t)) + 1 /\ Len(Kept(t)) \in Nat
  BY <1>4, <1>8, AppendProperties, LenProperties
<1>10. Len(Kept(Append(t, c))) <= Len(Kept(t)) + 1
  <2>1. CASE Kept(Append(t, c)) = Kept(t)
    BY <1>9, <2>1
  <2>2. CASE Kept(Append(t, c)) = Append(Kept(t), c)
    BY <1>9, <2>2
  <2> QED
    BY <1>7, <2>1, <2>2
<1> QED
  BY <1>6, <1>10 DEF t

LEMMA ConsumedIs ==
  ASSUME NEW S, NEW src \in Seq(S), NEW room \in Nat
  PROVE  /\ Consumed(src, room) \in Nat
         /\ Consumed(src, room) <= Len(src)
         /\ Len(Kept(First(src, Consumed(src, room)))) <= room
         /\ port.dropped = {} => Consumed(src, room) = Least(Len(src), room)
<1> DEFINE T == {0} \cup {k \in 1 .. Len(src) :
                           Len(Kept(First(src, k - 1))) < room}
           m == Consumed(src, room)
<1>1. Len(src) \in Nat
  BY LenProperties
<1>2. T \in SUBSET (0 .. Len(src)) /\ T # {}
  BY <1>1
<1>3. m \in T /\ \A y \in T : y <= m
  <2>1. m = Max(T)
    BY DEF Consumed
  <2> HIDE DEF T, m
  <2> QED
    BY <1>1, <1>2, <2>1, MaxIs
<1>4. m \in Nat /\ m <= Len(src)
  <2> HIDE DEF T, m
  <2> QED
    BY <1>1, <1>2, <1>3
<1>5. Len(Kept(First(src, m))) <= room
  <2>1. CASE m = 0
    <3>1. First(src, 0) = <<>>
      BY FirstRestEnds
    <3>2. Len(Kept(First(src, 0))) = 0
      BY <3>1, KeptEmpty
    <3> HIDE DEF m, T
    <3> QED
      BY <2>1, <3>2
  <2>2. CASE m # 0
    <3>1. m \in 1 .. Len(src) /\ Len(Kept(First(src, m - 1))) < room
      BY <1>3, <2>2
    <3> HIDE DEF m, T
    <3>2. m - 1 \in Nat /\ (m - 1) + 1 = m /\ (m - 1) + 1 <= Len(src)
          /\ m - 1 <= Len(src)
      BY <1>1, <3>1
    <3>3. Len(Kept(First(src, (m - 1) + 1)))
            <= Len(Kept(First(src, m - 1))) + 1
      BY <3>2, KeptNext
    <3>4. /\ Len(Kept(First(src, m - 1))) \in Nat
          /\ Len(Kept(First(src, m))) \in Nat
      BY <1>4, <3>2, FirstRest, KeptIs, LenProperties
    <3> QED
      BY <3>1, <3>2, <3>3, <3>4
  <2> QED
    BY <2>1, <2>2
<1>6. ASSUME port.dropped = {}
      PROVE  m = Least(Len(src), room)
  <2> DEFINE l == Least(Len(src), room)
  <2>1. /\ l \in Nat /\ l <= Len(src) /\ l <= room
        /\ l = Len(src) \/ l = room
    BY <1>1, LeastIs
  <2>2. ASSUME NEW k \in 1 .. Len(src)
        PROVE  Len(Kept(First(src, k - 1))) = k - 1
    <3>1. k - 1 \in Nat /\ k - 1 <= Len(src)
      BY <1>1
    <3>2. First(src, k - 1) \in Seq(S) /\ Len(First(src, k - 1)) = k - 1
      BY <3>1, FirstRest
    <3> QED
      BY <1>6, <3>2, KeptIs
  <2>3. l \in T
    <3>1. l # 0 => l \in 1 .. Len(src) /\ l - 1 < room
      BY <1>1, <2>1
    <3> HIDE DEF l
    <3> QED
      BY <2>2, <3>1
  <2>4. m <= l
    <3>1. m # 0 => m \in 1 .. Len(src) /\ m - 1 < room
      BY <1>3, <2>2
    <3> HIDE DEF l, m, T
    <3> QED
      BY <1>1, <1>4, <2>1, <3>1
  <2> HIDE DEF l, m, T
  <2>5. l <= m
    BY <1>3, <2>3
  <2> QED
    BY <1>4, <2>1, <2>4, <2>5 DEF l
<1> QED
  BY <1>4, <1>5, <1>6

(* A configuration: what is stripped, and the limit of readBuf.            *)
LEMMA SettingIs ==
  ASSUME port \in Settings
  PROVE  /\ port.dropped \subseteq Chars /\ port.rxLimit \in Nat
         /\ port.rxLimit <= RxSize /\ port.emuOverrun \in BOOLEAN
         /\ port.emuBR \in BOOLEAN
<1>1. port \in [dropped : SUBSET (1 .. MaxChars), rxLimit : 0 .. RxSize,
                readMode : {"all", "one", "now"}, expires : BOOLEAN,
                emuBR : BOOLEAN, emuOverrun : BOOLEAN, mayHold : BOOLEAN]
  BY DataAssumption
<1>2. port.rxLimit \in 0 .. RxSize /\ RxSize \in Nat
  BY <1>1, DataAssumption
<1> QED
  BY <1>1, <1>2 DEF Chars

(* Overrun emulation is at work: readBuf takes what it has no room for.    *)
Lossy == port.emuOverrun /\ port.rxLimit = RxSize

RxFits == port \in Settings /\ rx \in Seq(Chars) /\ Len(rx) <= port.rxLimit

LEMMA RoomIs ==
  ASSUME RxFits
  PROVE  RxRoom \in Nat /\ Len(rx) + RxRoom = port.rxLimit
<1>1. Len(rx) \in Nat /\ port.rxLimit \in Nat /\ Len(rx) <= port.rxLimit
  BY SettingIs, LenProperties DEF RxFits
<1> QED
  BY <1>1 DEF RxRoom

LEMMA AcceptedIs ==
  ASSUME RxFits, NEW src \in Seq(Chars)
  PROVE  /\ Accepted(src) \in Nat /\ Accepted(src) <= Len(src)
         /\ Lossy => Accepted(src) = Len(src)
         /\ ~Lossy => Accepted(src) = Consumed(src, RxRoom)
<1>1. CASE Lossy
  BY <1>1, LenProperties DEF Accepted, Lossy
<1>2. CASE ~Lossy
  <2>1. Accepted(src) = Consumed(src, RxRoom)
    BY <1>2 DEF Accepted, Lossy
  <2> QED
    BY <1>2, <2>1, RoomIs, ConsumedIs
<1> QED
  BY <1>1, <1>2

(* What WriteToBuffer does with what it takes: it stores the first of what *)
(* passes the filter; something is left over only when overrun is emulated *)
(* and readBuf is full then.                                               *)
Leaves(src, left) ==
  /\ left \in Seq(Chars)
  /\ Kept(First(src, Accepted(src))) = Stored(src) \o left
  /\ Stored(src) \in Seq(Chars) /\ Len(Stored(src)) <= RxRoom
  /\ left # <<>> => Lossy /\ Len(Stored(src)) = RxRoom

LEMMA StoredIs ==
  ASSUME RxFits, NEW src \in Seq(Chars)
  PROVE  \E left : Leaves(src, left)
<1> DEFINE a == Accepted(src)
           kept == Kept(First(src, a))
           n == Least(RxRoom, Len(kept))
           left == Rest(kept, n)
<1>1. RxRoom \in Nat /\ a \in Nat /\ a <= Len(src)
  BY RoomIs, AcceptedIs
<1>2. kept \in Seq(Chars) /\ Len(kept) \in Nat
  <2>1. First(src, a) \in Seq(Chars)
    BY <1>1, FirstRest
  <2> QED
    BY <2>1, KeptIs, LenProperties
<1>3. ~Lossy => Len(kept) <= RxRoom
  <2>1. ASSUME ~Lossy
        PROVE  Len(kept) <= RxRoom
    <3>1. a = Consumed(src, RxRoom)
      BY <2>1, AcceptedIs
    <3>2. Len(Kept(First(src, Consumed(src, RxRoom)))) <= RxRoom
      BY <1>1, ConsumedIs
    <3> QED
      BY <3>1, <3>2
  <2> QED
    BY <2>1
<1>4. Stored(src) = First(kept, n)
  BY DEF Stored
<1> HIDE DEF kept
<1>5. /\ n \in Nat /\ n <= Len(kept) /\ n <= RxRoom
      /\ n = RxRoom \/ n = Len(kept)
  BY <1>1, <1>2, LeastIs
<1>6. /\ First(kept, n) \in Seq(Chars) /\ Len(First(kept, n)) = n
      /\ left \in Seq(Chars) /\ Len(left) = Len(kept) - n
      /\ First(kept, n) \o left = kept
  BY <1>2, <1>5, FirstRest
<1>7. left # <<>> => Len(left) # 0
  BY <1>6, EmptyByLen
<1>8. left # <<>> => Lossy /\ Len(First(kept, n)) = RxRoom
  BY <1>1, <1>2, <1>3, <1>5, <1>6, <1>7
<1>9. Leaves(src, left)
  BY <1>4, <1>5, <1>6, <1>8 DEF Leaves, kept
<1> QED
  BY <1>9

Plainly == port.dropped = {}

LEMMA PlainStored ==
  ASSUME RxFits, Plainly, NEW src \in Seq(Chars)
  PROVE  /\ Kept(First(src, Accepted(src))) = First(src, Accepted(src))
         /\ ~Lossy => Accepted(src) = Least(Len(src), RxRoom)
         /\ ~Lossy => Stored(src) = First(src, Accepted(src))
<1>1. /\ Accepted(src) \in Nat /\ Accepted(src) <= Len(src)
      /\ ~Lossy => Accepted(src) = Consumed(src, RxRoom)
      /\ RxRoom \in Nat
  BY RoomIs, AcceptedIs
<1>2. Kept(First(src, Accepted(src))) = First(src, Accepted(src))
  <2>1. First(src, Accepted(src)) \in Seq(Chars)
    BY <1>1, FirstRest
  <2> QED
    BY <2>1, KeptIs DEF Plainly
<1>3. Consumed(src, RxRoom) = Least(Len(src), RxRoom)
  BY <1>1, ConsumedIs DEF Plainly
<1>4. PICK left : Leaves(src, left)
  BY StoredIs
<1>5. ~Lossy => Stored(src) = First(src, Accepted(src))
  <2>1. Stored(src) \o <<>> = Stored(src)
    BY <1>4, ConcatEmptySeq DEF Leaves
  <2> QED
    BY <1>2, <1>4, <2>1 DEF Leaves
<1> QED
  BY <1>1, <1>2, <1>3, <1>5

(* Chunk of txBuf: something, unless txBuf is empty or the limit reached.  *)
LEMMA ChunkIs ==
  ASSUME tx \in Seq(Chars), txAt \in 0 .. TxSize - 1, limit \in Nat
  PROVE  /\ Chunk \in Seq(Chars) /\ Len(Chunk) <= Len(tx)
         /\ Len(Chunk) <= limit
         /\ Chunk = First(tx, Len(Chunk))
         /\ Len(Chunk) = 0 => tx = <<>> \/ limit = 0
<1> DEFINE n == Least(Least(Len(tx), TxSize - txAt), limit)
<1>1. TxSize \in Nat /\ TxSize - txAt \in Nat /\ TxSize - txAt > 0
      /\ Len(tx) \in Nat
  BY DataAssumption, LenProperties
<1>2. /\ n \in Nat /\ n <= Len(tx) /\ n <= limit
      /\ n = 0 => Len(tx) = 0 \/ limit = 0
  BY <1>1 DEF Least
<1>3. Chunk = First(tx, n)
  BY DEF Chunk
<1> HIDE DEF n
<1>4. First(tx, n) \in Seq(Chars) /\ Len(First(tx, n)) = n
  BY <1>2, FirstRest
<1>5. Len(tx) = 0 => tx = <<>>
  BY EmptyByLen
<1> QED
  BY <1>2, <1>3, <1>4, <1>5
-----------------------------------------------------------------------------
(***************************************************************************)
(* The queue of reads: only the current one has characters.                *)
(***************************************************************************)
ReadType == [length : Lengths, got : Seq(Chars)]

ReadsOk(rs) ==
  /\ rs \in Seq(ReadType)
  /\ \A i \in 1 .. Len(rs) : Len(rs[i].got) <= rs[i].length
  /\ \A i \in 2 .. Len(rs) : rs[i].got = <<>>

GotIs(rs) == IF rs = <<>> THEN <<>> ELSE Head(rs).got

LEMMA NotEmpty ==
  ASSUME NEW S, NEW s \in Seq(S), s # <<>>
  PROVE  /\ Len(s) \in Nat /\ Len(s) >= 1 /\ 1 \in 1 .. Len(s)
         /\ Head(s) = s[1] /\ s[1] \in S
         /\ Tail(s) \in Seq(S) /\ Len(Tail(s)) = Len(s) - 1
         /\ \A i \in 1 .. Len(s) - 1 : Tail(s)[i] = s[i + 1]
         /\ s = <<s[1]>> \o Tail(s)
<1>1. Len(s) \in Nat /\ Len(s) # 0
  BY EmptySeq, LenProperties
<1>2. 1 \in 1 .. Len(s)
  BY <1>1
<1>3. Head(s) = s[1] /\ s[1] \in S
  BY <1>2, ElementOfSeq
<1>4. /\ Tail(s) \in Seq(S) /\ Len(Tail(s)) = Len(s) - 1
      /\ \A i \in 1 .. Len(Tail(s)) : Tail(s)[i] = s[i + 1]
  BY HeadTailProperties
<1>5. s = <<s[1]>> \o Tail(s)
  <2> DEFINE t == Tail(s)
             u == <<s[1]>>
  <2>1. t \in Seq(S) /\ Len(t) = Len(s) - 1
        /\ \A i \in 1 .. Len(s) - 1 : t[i] = s[i + 1]
    BY <1>4
  <2>2. u \in Seq(S) /\ Len(u) = 1 /\ u[1] = s[1]
    BY <1>3
  <2> HIDE DEF t, u
  <2>a. u \in Seq(S) /\ t \in Seq(S)
    BY <2>1, <2>2
  <2>3. /\ u \o t \in Seq(S) /\ Len(u \o t) = Len(u) + Len(t)
        /\ \A i \in 1 .. Len(u) + Len(t) :
             (u \o t)[i] = IF i <= Len(u) THEN u[i] ELSE t[i - Len(u)]
    BY <2>a, ConcatProperties
  <2>4. Len(u \o t) = Len(s)
    BY <1>1, <2>1, <2>2, <2>3
  <2>5. ASSUME NEW i \in 1 .. Len(s)
        PROVE  (u \o t)[i] = s[i]
    <3>1. i \in 1 .. Len(u) + Len(t)
      BY <1>1, <2>1, <2>2
    <3>2. (u \o t)[i] = IF i <= 1 THEN u[i] ELSE t[i - 1]
      BY <2>2, <2>3, <3>1
    <3>3. CASE i = 1
      BY <2>2, <3>2, <3>3
    <3>4. CASE i # 1
      <4>1. ~(i <= 1) /\ i - 1 \in 1 .. Len(s) - 1 /\ (i - 1) + 1 = i
        BY <1>1, <3>4
      <4> QED
        BY <2>1, <3>2, <4>1
    <3> QED
      BY <3>3, <3>4
  <2>6. u \o t = s
    BY <2>3, <2>4, <2>5, SeqEqual
  <2> QED
    BY <2>6 DEF t, u
<1> QED
  BY <1>1, <1>2, <1>3, <1>4, <1>5

LEMMA HeadRead ==
  ASSUME NEW rs, ReadsOk(rs), rs # <<>>
  PROVE  /\ Head(rs) = rs[1] /\ Head(rs) \in ReadType
         /\ Head(rs).got \in Seq(Chars) /\ Head(rs).length \in Nat
         /\ Head(rs).length # 0
         /\ Len(Head(rs).got) \in Nat
         /\ Len(Head(rs).got) <= Head(rs).length
<1>1. /\ Head(rs) = rs[1] /\ rs[1] \in ReadType /\ 1 \in 1 .. Len(rs)
  BY NotEmpty DEF ReadsOk
<1>2. Head(rs).got \in Seq(Chars) /\ Head(rs).length \in Lengths
  BY <1>1 DEF ReadType
<1>3. Len(rs[1].got) <= rs[1].length
  BY <1>1 DEF ReadsOk
<1> QED
  BY <1>1, <1>2, <1>3, DataAssumption, LenProperties

LEMMA NoReads == ReadsOk(<<>>) /\ GotIs(<<>>) = <<>>
<1>1. <<>> \in Seq(ReadType) /\ Len(<<>>) = 0
  OBVIOUS
<1> QED
  BY <1>1 DEF ReadsOk, GotIs

LEMMA GotType ==
  ASSUME NEW rs, ReadsOk(rs)
  PROVE  GotIs(rs) \in Seq(Chars)
<1>1. <<>> \in Seq(Chars)
  OBVIOUS
<1> QED
  BY <1>1, HeadRead DEF GotIs

(* One more read.                                                          *)
LEMMA ReadsAppend ==
  ASSUME NEW rs, ReadsOk(rs), NEW n \in Lengths
  PROVE  LET us == Append(rs, [length |-> n, got |-> <<>>])
         IN  /\ ReadsOk(us) /\ us # <<>>
             /\ Len(us) = Len(rs) + 1
             /\ GotIs(us) = GotIs(rs)
<1> DEFINE q == [length |-> n, got |-> <<>>]
           us == Append(rs, q)
<1>1. q \in ReadType /\ q.got = <<>> /\ q.length = n /\ n \in Nat
  <2>1. <<>> \in Seq(Chars)
    OBVIOUS
  <2> QED
    BY <2>1, DataAssumption DEF ReadType
<1> HIDE DEF q
<1>2. /\ us \in Seq(ReadType) /\ Len(us) = Len(rs) + 1
      /\ \A i \in 1 .. Len(rs) : us[i] = rs[i]
      /\ us[Len(rs) + 1] = q
      /\ Len(rs) \in Nat
  BY <1>1, AppendProperties, LenProperties DEF ReadsOk
<1> HIDE DEF us
<1>3. us # <<>>
  BY <1>2, EmptySeq
<1>4. ASSUME NEW i \in 1 .. Len(us)
      PROVE  Len(us[i].got) <= us[i].length
  <2>1. i \in 1 .. Len(rs) \/ i = Len(rs) + 1
    BY <1>2
  <2>2. CASE i \in 1 .. Len(rs)
    BY <1>2, <2>2 DEF ReadsOk
  <2>3. CASE i = Len(rs) + 1
    <3>1. Len(<<>>) = 0
      OBVIOUS
    <3> QED
      BY <1>1, <1>2, <2>3, <3>1
  <2> QED
    BY <2>1, <2>2, <2>3
<1>5. ASSUME NEW i \in 2 .. Len(us)
      PROVE  us[i].got = <<>>
  <2>1. i \in 2 .. Len(rs) \/ i = Len(rs) + 1
    BY <1>2
  <2>2. CASE i \in 2 .. Len(rs)
    <3>1. i \in 1 .. Len(rs)
      BY <1>2, <2>2
    <3> QED
      BY <1>2, <2>2, <3>1 DEF ReadsOk
  <2>3. CASE i = Len(rs) + 1
    BY <1>1, <1>2, <2>3
  <2> QED
    BY <2>1, <2>2, <2>3
<1>6. ReadsOk(us)
  BY <1>2, <1>4, <1>5 DEF ReadsOk
<1>7. GotIs(us) = GotIs(rs)
  <2>1. GotIs(us) = us[1].got
    BY <1>2, <1>3, <1>6, HeadRead DEF GotIs
  <2>2. CASE rs = <<>>
    <3>1. us[1] = q
      BY <1>2, <2>2, EmptySeq
    <3> QED
      BY <1>1, <2>1, <2>2, <3>1 DEF GotIs
  <2>3. CASE rs # <<>>
    <3>1. 1 \in 1 .. Len(rs) /\ Head(rs) = rs[1]
      BY <2>3, NotEmpty DEF ReadsOk
    <3> QED
      BY <1>2, <2>1, <2>3, <3>1 DEF GotIs
  <2> QED
    BY <2>2, <2>3
<1> QED
  BY <1>2, <1>3, <1>6, <1>7 DEF us, q

(* The current read ends: the next one has nothing yet.                    *)
LEMMA ReadsTail ==
  ASSUME NEW rs, ReadsOk(rs), rs # <<>>
  PROVE  /\ ReadsOk(Tail(rs)) /\ Len(Tail(rs)) = Len(rs) - 1
         /\ GotIs(Tail(rs)) = <<>>
<1> DEFINE us == Tail(rs)
<1>1. /\ us \in Seq(ReadType) /\ Len(us) = Len(rs) - 1
      /\ \A i \in 1 .. Len(rs) - 1 : us[i] = rs[i + 1]
      /\ Len(rs) \in Nat /\ Len(rs) >= 1
  BY NotEmpty DEF ReadsOk
<1> HIDE DEF us
<1>2. ASSUME NEW i \in 1 .. Len(us)
      PROVE  Len(us[i].got) <= us[i].length /\ us[i].got = <<>>
  <2>1. /\ i \in 1 .. Len(rs) - 1 /\ i + 1 \in 1 .. Len(rs)
        /\ i + 1 \in 2 .. Len(rs)
    BY <1>1
  <2> QED
    BY <1>1, <2>1 DEF ReadsOk
<1>3. \A i \in 2 .. Len(us) : i \in 1 .. Len(us)
  BY <1>1
<1>4. ReadsOk(us)
  BY <1>1, <1>2, <1>3 DEF ReadsOk
<1>5. GotIs(us) = <<>>
  <2>1. CASE us = <<>>
    BY <2>1 DEF GotIs
  <2>2. CASE us # <<>>
    <3>1. Head(us) = us[1] /\ 1 \in 1 .. Len(us)
      BY <1>1, <2>2, NotEmpty
    <3> QED
      BY <1>2, <2>2, <3>1 DEF GotIs
  <2> QED
    BY <2>1, <2>2
<1> QED
  BY <1>1, <1>4, <1>5 DEF us

(* The current read gets characters.                                       *)
LEMMA ReadsGot ==
  ASSUME NEW rs, ReadsOk(rs), rs # <<>>, NEW chars \in Seq(Chars),
         Len(chars) <= Head(rs).length - Len(Head(rs).got)
  PROVE  LET us == [rs EXCEPT ![1].got = @ \o chars]
         IN  /\ ReadsOk(us) /\ Len(us) = Len(rs) /\ us # <<>>
             /\ GotIs(us) = Head(rs).got \o chars
<1> DEFINE q == Head(rs)
           p == [q EXCEPT !.got = q.got \o chars]
           us == [rs EXCEPT ![1] = p]
<1>1. /\ q = rs[1] /\ q \in ReadType /\ q.got \in Seq(Chars)
      /\ q.length \in Nat /\ Len(q.got) \in Nat
  BY HeadRead
<1>2. /\ rs \in Seq(ReadType) /\ Len(rs) \in Nat /\ 1 \in 1 .. Len(rs)
      /\ Len(rs) >= 1
  BY NotEmpty DEF ReadsOk
<1>3. [rs EXCEPT ![1].got = @ \o chars] = us
  BY <1>1
<1>4. /\ q.got \o chars \in Seq(Chars)
      /\ Len(q.got \o chars) = Len(q.got) + Len(chars)
      /\ Len(chars) \in Nat
  BY <1>1, ConcatProperties, LenProperties
<1>5. p \in ReadType /\ p.got = q.got \o chars /\ p.length = q.length
  <2> HIDE DEF q
  <2> QED
    BY <1>1, <1>4 DEF ReadType
<1>6. Len(p.got) <= p.length
  BY <1>1, <1>4, <1>5
<1> HIDE DEF p, q
<1>7. /\ us \in Seq(ReadType) /\ Len(us) = Len(rs)
      /\ us[1] = p /\ \A i \in 1 .. Len(rs) : i # 1 => us[i] = rs[i]
  BY <1>2, <1>5, ExceptSeq
<1> HIDE DEF us
<1>8. ASSUME NEW i \in 1 .. Len(us)
      PROVE  Len(us[i].got) <= us[i].length
  <2>1. CASE i = 1
    BY <1>6, <1>7, <2>1
  <2>2. CASE i # 1
    BY <1>7, <2>2 DEF ReadsOk
  <2> QED
    BY <2>1, <2>2
<1>9. ASSUME NEW i \in 2 .. Len(us)
      PROVE  us[i].got = <<>>
  <2>1. i \in 1 .. Len(rs) /\ i # 1
    BY <1>2, <1>7
  <2> QED
    BY <1>7, <2>1 DEF ReadsOk
<1>10. ReadsOk(us) /\ us # <<>>
  BY <1>2, <1>7, <1>8, <1>9, EmptySeq DEF ReadsOk
<1>11. GotIs(us) = q.got \o chars
  BY <1>5, <1>7, <1>10, HeadRead DEF GotIs
<1> QED
  BY <1>3, <1>7, <1>10, <1>11 DEF q

LEMMA RestItems ==
  ASSUME NEW S, NEW s \in Seq(S), NEW n \in Nat, n <= Len(s)
  PROVE  \A j \in 1 .. Len(s) - n : Rest(s, n)[j] = s[n + j]
<1>1. PICK m \in Nat : Len(s) = m
  BY LenProperties
<1>2. \A i \in n + 1 .. m : s[i] \in S
  BY <1>1, ElementOfSeq
<1>3. n + 1 \in Int /\ m \in Int
  OBVIOUS
<1>4. \A j \in 1 .. m - (n + 1) + 1 :
         SubSeq(s, n + 1, m)[j] = s[(n + 1) + j - 1]
  BY <1>2, <1>3, SubSeqProperties
<1>5. ASSUME NEW j \in 1 .. m - n
      PROVE  SubSeq(s, n + 1, m)[j] = s[n + j]
  <2>1. j \in 1 .. m - (n + 1) + 1 /\ (n + 1) + j - 1 = n + j
    BY <1>1
  <2> QED
    BY <1>4, <2>1
<1> QED
  BY <1>1, <1>5 DEF Rest

(* A sequence without its i-th element.                                    *)
LEMMA RemoveIs ==
  ASSUME NEW S, NEW s \in Seq(S), NEW i \in 1 .. Len(s)
  PROVE  /\ First(s, i - 1) \in Seq(S) /\ Rest(s, i) \in Seq(S)
         /\ s[i] \in S /\ <<s[i]>> \in Seq(S)
         /\ RemoveAt(s, i) = First(s, i - 1) \o Rest(s, i)
         /\ s = First(s, i - 1) \o (<<s[i]>> \o Rest(s, i))
<1>1. /\ Len(s) \in Nat /\ i \in Nat /\ i <= Len(s)
      /\ i - 1 \in Nat /\ i - 1 <= Len(s) /\ (i - 1) + 1 = i
  BY LenProperties
<1>2. /\ First(s, i - 1) \in Seq(S) /\ Rest(s, i) \in Seq(S)
      /\ First(s, i - 1) \o Rest(s, i - 1) = s
  BY <1>1, FirstRest
<1>3. s[i] \in S /\ <<s[i]>> \in Seq(S)
  BY ElementOfSeq
<1>4. RemoveAt(s, i) = First(s, i - 1) \o Rest(s, i)
  BY DEF RemoveAt, First, Rest
<1>5. Rest(s, i - 1) = <<s[i]>> \o Rest(s, i)
  <2>1. i \in 1 .. Len(s) /\ Len(s) \in i .. Len(s)
    BY <1>1
  <2>2. SubSeq(s, i, Len(s)) = <<s[i]>> \o SubSeq(s, i + 1, Len(s))
    BY <2>1, SubSeqRecursiveFirst
  <2> QED
    BY <1>1, <2>2 DEF Rest
<1> QED
  BY <1>2, <1>3, <1>4, <1>5

LEMMA RemoveItems ==
  ASSUME NEW S, NEW s \in Seq(S), NEW i \in 1 .. Len(s)
  PROVE  /\ RemoveAt(s, i) \in Seq(S) /\ Len(RemoveAt(s, i)) = Len(s) - 1
         /\ \A j \in 1 .. Len(s) - 1 :
              RemoveAt(s, i)[j] = IF j < i THEN s[j] ELSE s[j + 1]
<1> DEFINE a == First(s, i - 1)
           b == Rest(s, i)
<1>1. /\ Len(s) \in Nat /\ i \in Nat /\ i <= Len(s) /\ i >= 1
      /\ i - 1 \in Nat /\ i - 1 <= Len(s)
  BY LenProperties
<1>2. /\ a \in Seq(S) /\ Len(a) = i - 1
      /\ b \in Seq(S) /\ Len(b) = Len(s) - i
  BY <1>1, FirstRest
<1>3. /\ \A j \in 1 .. i - 1 : a[j] = s[j]
      /\ \A j \in 1 .. Len(s) - i : b[j] = s[i + j]
  <2>1. \A j \in 1 .. Len(s) - i : b[j] = s[i + j]
    BY <1>1, RestItems
  <2> DEFINE n == i - 1
  <2>2. n \in Nat /\ n <= Len(s) /\ a = SubSeq(s, 1, n)
    BY <1>1 DEF First
  <2> HIDE DEF n, a
  <2>3. \A j \in 1 .. n : a[j] = s[j]
    BY <2>2, FirstIs
  <2> QED
    BY <2>1, <2>3 DEF n
<1>4. RemoveAt(s, i) = a \o b
  BY RemoveIs
<1> HIDE DEF a, b
<1>a. a \in Seq(S) /\ b \in Seq(S)
  BY <1>2
<1>5. /\ a \o b \in Seq(S) /\ Len(a \o b) = Len(a) + Len(b)
      /\ \A j \in 1 .. Len(a) + Len(b) :
           (a \o b)[j] = IF j <= Len(a) THEN a[j] ELSE b[j - Len(a)]
  BY <1>a, ConcatProperties
<1>6. Len(a) + Len(b) = Len(s) - 1
  BY <1>1, <1>2
<1>7. ASSUME NEW j \in 1 .. Len(s) - 1
      PROVE  (a \o b)[j] = IF j < i THEN s[j] ELSE s[j + 1]
  <2>1. (a \o b)[j] = IF j <= i - 1 THEN a[j] ELSE b[j - (i - 1)]
    BY <1>2, <1>5, <1>6
  <2>2. CASE j < i
    <3>1. j \in 1 .. i - 1 /\ j <= i - 1
      BY <1>1, <2>2
    <3> QED
      BY <1>3, <2>1, <2>2, <3>1
  <2>3. CASE ~(j < i)
    <3>1. /\ ~(j <= i - 1) /\ j - (i - 1) \in 1 .. Len(s) - i
          /\ i + (j - (i - 1)) = j + 1
      BY <1>1, <2>3
    <3> QED
      BY <1>3, <2>1, <2>3, <3>1
  <2> QED
    BY <2>2, <2>3
<1> QED
  BY <1>4, <1>5, <1>6, <1>7

(* A read is cancelled.                                                    *)
LEMMA ReadsRemove ==
  ASSUME NEW rs, ReadsOk(rs), NEW i \in 1 .. Len(rs)
  PROVE  /\ ReadsOk(RemoveAt(rs, i)) /\ Len(RemoveAt(rs, i)) = Len(rs) - 1
         /\ rs # <<>> /\ Len(rs) \in Nat
         /\ \/ GotIs(RemoveAt(rs, i)) = GotIs(rs)
            \/ GotIs(RemoveAt(rs, i)) = <<>>
<1> DEFINE us == RemoveAt(rs, i)
<1>1. /\ us \in Seq(ReadType) /\ Len(us) = Len(rs) - 1
      /\ \A j \in 1 .. Len(rs) - 1 : us[j] = IF j < i THEN rs[j] ELSE rs[j + 1]
      /\ Len(rs) \in Nat
  BY RemoveItems, LenProperties DEF ReadsOk
<1>2. rs # <<>>
  BY <1>1, EmptySeq DEF ReadsOk
<1> HIDE DEF us
<1>3. ASSUME NEW j \in 1 .. Len(us)
      PROVE  /\ Len(us[j].got) <= us[j].length
             /\ j >= 2 => us[j].got = <<>>
             /\ j = 1 => us[j] = rs[1] \/ us[j].got = <<>>
  <2>1. /\ j \in 1 .. Len(rs) - 1 /\ j \in 1 .. Len(rs)
        /\ j + 1 \in 1 .. Len(rs) /\ j + 1 \in 2 .. Len(rs)
        /\ j >= 2 => j \in 2 .. Len(rs)
    BY <1>1
  <2>2. us[j] = rs[j] \/ us[j] = rs[j + 1]
    BY <1>1, <2>1
  <2>3. CASE us[j] = rs[j]
    BY <2>1, <2>3 DEF ReadsOk
  <2>4. CASE us[j] = rs[j + 1]
    BY <2>1, <2>4 DEF ReadsOk
  <2> QED
    BY <2>2, <2>3, <2>4
<1>4. \A j \in 2 .. Len(us) : j \in 1 .. Len(us) /\ j >= 2
  BY <1>1
<1>5. ReadsOk(us)
  BY <1>1, <1>3, <1>4 DEF ReadsOk
<1>6. GotIs(us) = GotIs(rs) \/ GotIs(us) = <<>>
  <2>1. CASE us = <<>>
    BY <2>1 DEF GotIs
  <2>2. CASE us # <<>>
    <3>1. Head(us) = us[1] /\ 1 \in 1 .. Len(us)
      BY <1>1, <2>2, NotEmpty
    <3>2. Head(rs) = rs[1]
      BY <1>2, HeadRead
    <3>3. us[1] = rs[1] \/ us[1].got = <<>>
      BY <1>3, <3>1
    <3> QED
      BY <1>2, <2>2, <3>1, <3>2, <3>3 DEF GotIs
  <2> QED
    BY <2>1, <2>2
<1> QED
  BY <1>1, <1>2, <1>5, <1>6 DEF us

(* What the pending reads hold is what the current one does.               *)
AllGot(rs) == FlattenSeq([i \in 1 .. Len(rs) |-> rs[i].got])

LEMMA AllGotIs ==
  ASSUME NEW rs, ReadsOk(rs)
  PROVE  AllGot(rs) = GotIs(rs)
<1> DEFINE gs == [i \in 1 .. Len(rs) |-> rs[i].got]
<1>1. Len(rs) \in Nat /\ rs \in Seq(ReadType)
  BY LenProperties DEF ReadsOk
<1>2. \A i \in 1 .. Len(rs) : rs[i].got \in Seq(Chars)
  <2>1. \A i \in 1 .. Len(rs) : rs[i] \in ReadType
    BY <1>1, ElementOfSeq
  <2> QED
    BY <2>1 DEF ReadType
<1>3. /\ gs \in Seq(Seq(Chars)) /\ Len(gs) = Len(rs)
      /\ \A i \in 1 .. Len(rs) : gs[i] = rs[i].got
  <2>1. gs \in [1 .. Len(rs) -> Seq(Chars)]
    BY <1>2
  <2> QED
    BY <1>1, <2>1
<1>4. AllGot(rs) = FlattenSeq(gs)
  BY DEF AllGot
<1> HIDE DEF gs
<1>5. CASE rs = <<>>
  <2>1. gs = <<>>
    BY <1>3, <1>5, EmptySeq
  <2> QED
    BY <1>4, <1>5, <2>1, FlattenEmpty DEF GotIs
<1>6. CASE rs # <<>>
  <2>1. Len(rs) >= 1 /\ 1 \in 1 .. Len(rs)
    BY <1>1, <1>6, NotEmpty
  <2>2. gs # <<>>
    BY <1>3, <2>1, EmptySeq
  <2> DEFINE ts == Tail(gs)
  <2>3. /\ ts \in Seq(Seq(Chars)) /\ Len(ts) = Len(gs) - 1
        /\ \A i \in 1 .. Len(gs) - 1 : ts[i] = gs[i + 1]
        /\ gs = <<gs[1]>> \o ts /\ gs[1] \in Seq(Chars)
    BY <1>3, <2>2, NotEmpty
  <2> HIDE DEF ts
  <2>4. ASSUME NEW i \in 1 .. Len(ts)
        PROVE  ts[i] = <<>>
    <3>0. Len(ts) = Len(rs) - 1 /\ Len(gs) = Len(rs)
      BY <1>3, <2>3
    <3>1. /\ i \in 1 .. Len(gs) - 1 /\ i + 1 \in 2 .. Len(rs)
          /\ i + 1 \in 1 .. Len(rs)
      BY <1>1, <3>0
    <3> QED
      BY <1>3, <2>3, <3>1 DEF ReadsOk
  <2>5. FlattenSeq(ts) = <<>>
    <3>1. FlattenSeq(ts) \in Seq(Chars)
      BY <2>3, FlattenType
    <3>2. ASSUME NEW c \in Range(FlattenSeq(ts))
          PROVE  FALSE
      <4>1. PICK i \in 1 .. Len(ts) : c \in Range(ts[i])
        BY <2>3, RangeFlatten
      <4> QED
        BY <2>4, <4>1, RangeEmpty
    <3> QED
      BY <3>1, <3>2, NoneIn
  <2>6. FlattenSeq(gs) = gs[1]
    <3>1. <<gs[1]>> \in Seq(Seq(Chars))
      BY <2>3
    <3>2. FlattenSeq(<<gs[1]>> \o ts) = FlattenSeq(<<gs[1]>>) \o FlattenSeq(ts)
      BY <2>3, <3>1, FlattenConcat
    <3>3. FlattenSeq(<<gs[1]>>) = gs[1]
      BY <2>3, FlattenOne
    <3>4. gs[1] \o <<>> = gs[1]
      BY <2>3, ConcatEmptySeq
    <3> QED
      BY <2>3, <2>5, <3>2, <3>3, <3>4
  <2>7. gs[1] = Head(rs).got
    BY <1>3, <1>6, <2>1, HeadRead
  <2> QED
    BY <1>4, <1>6, <2>6, <2>7 DEF GotIs
<1> QED
  BY <1>5, <1>6
-----------------------------------------------------------------------------
(***************************************************************************)
(* The queue of writes: something is left of each.                         *)
(***************************************************************************)
WritesOk(ws) ==
  /\ ws \in Seq(Seq(Chars))
  /\ \A i \in 1 .. Len(ws) : ws[i] # <<>>

LEMMA NoWrites == WritesOk(<<>>)
<1>1. <<>> \in Seq(Seq(Chars)) /\ Len(<<>>) = 0
  OBVIOUS
<1> QED
  BY <1>1 DEF WritesOk

LEMMA HeadWrite ==
  ASSUME NEW ws, WritesOk(ws), ws # <<>>
  PROVE  /\ Head(ws) \in Seq(Chars) /\ Head(ws) # <<>>
         /\ Len(Head(ws)) \in Nat /\ Len(Head(ws)) # 0
         /\ FlattenSeq(Tail(ws)) \in Seq(Chars)
         /\ FlattenSeq(ws) = Head(ws) \o FlattenSeq(Tail(ws))
<1>1. /\ ws \in Seq(Seq(Chars)) /\ 1 \in 1 .. Len(ws) /\ Head(ws) = ws[1]
      /\ ws[1] \in Seq(Chars) /\ Tail(ws) \in Seq(Seq(Chars))
      /\ ws = <<ws[1]>> \o Tail(ws)
  BY NotEmpty DEF WritesOk
<1>2. ws[1] # <<>>
  BY <1>1 DEF WritesOk
<1>3. Len(ws[1]) \in Nat /\ Len(ws[1]) # 0
  BY <1>1, <1>2, EmptyByLen, LenProperties
<1>4. FlattenSeq(ws) = ws[1] \o FlattenSeq(Tail(ws))
  <2> DEFINE w == ws[1]
             ts == Tail(ws)
  <2>1. w \in Seq(Chars) /\ ts \in Seq(Seq(Chars)) /\ ws = <<w>> \o ts
    BY <1>1
  <2> HIDE DEF w, ts
  <2>2. <<w>> \in Seq(Seq(Chars))
    BY <2>1
  <2>3. FlattenSeq(<<w>> \o ts) = FlattenSeq(<<w>>) \o FlattenSeq(ts)
    BY <2>1, <2>2, FlattenConcat
  <2>4. FlattenSeq(<<w>>) = w
    BY <2>1, FlattenOne
  <2>5. FlattenSeq(ws) = w \o FlattenSeq(ts)
    BY <2>1, <2>3, <2>4
  <2> QED
    BY <2>5 DEF w, ts
<1>5. FlattenSeq(Tail(ws)) \in Seq(Chars)
  BY <1>1, FlattenType
<1> QED
  BY <1>1, <1>2, <1>3, <1>4, <1>5

LEMMA WritesTail ==
  ASSUME NEW ws, WritesOk(ws), ws # <<>>
  PROVE  WritesOk(Tail(ws)) /\ Len(Tail(ws)) = Len(ws) - 1
<1> DEFINE us == Tail(ws)
<1>1. /\ us \in Seq(Seq(Chars)) /\ Len(us) = Len(ws) - 1
      /\ \A i \in 1 .. Len(ws) - 1 : us[i] = ws[i + 1]
      /\ Len(ws) \in Nat
  BY NotEmpty DEF WritesOk
<1> HIDE DEF us
<1>2. ASSUME NEW i \in 1 .. Len(us)
      PROVE  us[i] # <<>>
  <2>1. i \in 1 .. Len(ws) - 1 /\ i + 1 \in 1 .. Len(ws)
    BY <1>1
  <2> QED
    BY <1>1, <2>1 DEF WritesOk
<1>3. WritesOk(us)
  BY <1>1, <1>2 DEF WritesOk
<1> QED
  BY <1>1, <1>3 DEF us

(* The current write becomes something else that is not empty.             *)
LEMMA WritesExcept ==
  ASSUME NEW ws, WritesOk(ws), ws # <<>>, NEW w \in Seq(Chars), w # <<>>
  PROVE  /\ WritesOk([ws EXCEPT ![1] = w])
         /\ Len([ws EXCEPT ![1] = w]) = Len(ws)
         /\ FlattenSeq([ws EXCEPT ![1] = w]) = w \o FlattenSeq(Tail(ws))
<1> DEFINE us == [ws EXCEPT ![1] = w]
<1>1. /\ ws \in Seq(Seq(Chars)) /\ 1 \in 1 .. Len(ws) /\ Len(ws) \in Nat
  BY NotEmpty DEF WritesOk
<1>2. /\ us \in Seq(Seq(Chars)) /\ Len(us) = Len(ws) /\ us[1] = w
      /\ \A i \in 1 .. Len(ws) : i # 1 => us[i] = ws[i]
  BY <1>1, ExceptSeq
<1> HIDE DEF us
<1>3. ASSUME NEW i \in 1 .. Len(us)
      PROVE  us[i] # <<>>
  <2>1. CASE i = 1
    BY <1>2, <2>1
  <2>2. CASE i # 1
    BY <1>2, <2>2 DEF WritesOk
  <2> QED
    BY <2>1, <2>2
<1>4. WritesOk(us) /\ us # <<>>
  BY <1>1, <1>2, <1>3, EmptySeq DEF WritesOk
<1>5. FlattenSeq(us) = Head(us) \o FlattenSeq(Tail(us)) /\ Head(us) = w
  BY <1>2, <1>4, HeadWrite, NotEmpty
<1>6. Tail(us) = Tail(ws)
  <2> DEFINE t == Tail(us)
             v == Tail(ws)
  <2>1. /\ t \in Seq(Seq(Chars)) /\ Len(t) = Len(us) - 1
        /\ \A i \in 1 .. Len(us) - 1 : t[i] = us[i + 1]
    BY <1>2, <1>4, NotEmpty
  <2>2. /\ v \in Seq(Seq(Chars)) /\ Len(v) = Len(ws) - 1
        /\ \A i \in 1 .. Len(ws) - 1 : v[i] = ws[i + 1]
    BY <1>1, NotEmpty
  <2> HIDE DEF t, v
  <2>3. ASSUME NEW i \in 1 .. Len(t)
        PROVE  t[i] = v[i]
    <3>1. i \in 1 .. Len(ws) - 1 /\ i + 1 \in 1 .. Len(ws) /\ i + 1 # 1
      BY <1>1, <1>2, <2>1
    <3> QED
      BY <1>2, <2>1, <2>2, <3>1
  <2>4. Len(t) = Len(v)
    BY <1>2, <2>1, <2>2
  <2>5. t = v
    BY <2>1, <2>2, <2>3, <2>4, SeqEqual
  <2> QED
    BY <2>5 DEF t, v
<1> QED
  BY <1>2, <1>4, <1>5, <1>6 DEF us

(* n characters of the current write are gone.                             *)
LEMMA WritesAfter ==
  ASSUME WritesOk(writes), writes # <<>>,
         NEW n \in Nat, n <= Len(Head(writes))
  PROVE  /\ WritesOk(AfterWriting(n))
         /\ Len(AfterWriting(n)) <= Len(writes)
         /\ FlattenSeq(AfterWriting(n))
              = Rest(Head(writes), n) \o FlattenSeq(Tail(writes))
<1> DEFINE w == Head(writes)
<1>1. /\ w \in Seq(Chars) /\ Len(w) \in Nat
      /\ FlattenSeq(Tail(writes)) \in Seq(Chars)
      /\ Len(writes) \in Nat
  BY HeadWrite, LenProperties DEF WritesOk
<1>2. Rest(w, n) \in Seq(Chars) /\ Len(Rest(w, n)) = Len(w) - n
  BY <1>1, FirstRest
<1>3. CASE n = Len(w)
  <2>1. AfterWriting(n) = Tail(writes)
    BY <1>3 DEF AfterWriting
  <2>2. Rest(w, n) = <<>>
    BY <1>1, <1>3, FirstRestEnds
  <2>3. <<>> \o FlattenSeq(Tail(writes)) = FlattenSeq(Tail(writes))
    BY <1>1, ConcatEmptySeq
  <2>4. WritesOk(Tail(writes)) /\ Len(Tail(writes)) = Len(writes) - 1
    BY WritesTail
  <2> HIDE DEF w
  <2> QED
    BY <1>1, <2>1, <2>2, <2>3, <2>4 DEF w
<1>4. CASE n # Len(w)
  <2>1. AfterWriting(n) = [writes EXCEPT ![1] = Rest(w, n)]
    <3>1. writes[1] = w
      BY NotEmpty DEF WritesOk
    <3> QED
      BY <1>4, <3>1 DEF AfterWriting
  <2>2. Len(Rest(w, n)) # 0
    BY <1>1, <1>2, <1>4
  <2>3. Rest(w, n) # <<>>
    BY <1>2, <2>2, EmptyByLen
  <2> HIDE DEF w
  <2>4. /\ WritesOk([writes EXCEPT ![1] = Rest(w, n)])
        /\ Len([writes EXCEPT ![1] = Rest(w, n)]) = Len(writes)
        /\ FlattenSeq([writes EXCEPT ![1] = Rest(w, n)])
             = Rest(w, n) \o FlattenSeq(Tail(writes))
    BY <1>2, <2>3, WritesExcept
  <2>5. Len(AfterWriting(n)) <= Len(writes)
    <3>1. Len(AfterWriting(n)) = Len(writes)
      BY <2>1, <2>4
    <3> QED
      BY <1>1, <3>1
  <2>6. /\ WritesOk(AfterWriting(n))
        /\ FlattenSeq(AfterWriting(n)) = Rest(w, n) \o FlattenSeq(Tail(writes))
    BY <2>1, <2>4
  <2> QED
    BY <2>5, <2>6 DEF w
<1> QED
  BY <1>3, <1>4

LEMMA WritesAppend ==
  ASSUME NEW ws, WritesOk(ws), NEW w \in Seq(Chars), w # <<>>
  PROVE  /\ WritesOk(Append(ws, w)) /\ Len(Append(ws, w)) = Len(ws) + 1
         /\ FlattenSeq(Append(ws, w)) = FlattenSeq(ws) \o w
         /\ Append(ws, w) # <<>>
<1> DEFINE us == Append(ws, w)
<1>1. /\ us \in Seq(Seq(Chars)) /\ Len(us) = Len(ws) + 1
      /\ \A i \in 1 .. Len(ws) : us[i] = ws[i]
      /\ us[Len(ws) + 1] = w /\ Len(ws) \in Nat
  BY AppendProperties, LenProperties DEF WritesOk
<1>2. FlattenSeq(us) = FlattenSeq(ws) \o w
  BY FlattenAppend DEF WritesOk
<1> HIDE DEF us
<1>3. ASSUME NEW i \in 1 .. Len(us)
      PROVE  us[i] # <<>>
  <2>1. i \in 1 .. Len(ws) \/ i = Len(ws) + 1
    BY <1>1
  <2>2. CASE i \in 1 .. Len(ws)
    BY <1>1, <2>2 DEF WritesOk
  <2>3. CASE i = Len(ws) + 1
    BY <1>1, <2>3
  <2> QED
    BY <2>1, <2>2, <2>3
<1>4. us # <<>>
  BY <1>1, EmptySeq
<1>5. WritesOk(us)
  BY <1>1, <1>3 DEF WritesOk
<1> QED
  BY <1>1, <1>2, <1>4, <1>5 DEF us

LEMMA WritesRemove ==
  ASSUME NEW ws, WritesOk(ws), NEW i \in 1 .. Len(ws)
  PROVE  /\ WritesOk(RemoveAt(ws, i)) /\ Len(RemoveAt(ws, i)) = Len(ws) - 1
         /\ Len(ws) \in Nat /\ ws # <<>>
         /\ \E X \in Seq(Chars), L \in Seq(Chars), Y \in Seq(Chars) :
              /\ FlattenSeq(ws) = X \o (L \o Y)
              /\ FlattenSeq(RemoveAt(ws, i)) = X \o Y
<1> DEFINE us == RemoveAt(ws, i)
           a == First(ws, i - 1)
           b == Rest(ws, i)
           w == ws[i]
<1>1. /\ us \in Seq(Seq(Chars)) /\ Len(us) = Len(ws) - 1
      /\ \A j \in 1 .. Len(ws) - 1 : us[j] = IF j < i THEN ws[j] ELSE ws[j + 1]
      /\ Len(ws) \in Nat
  BY RemoveItems, LenProperties DEF WritesOk
<1>2. /\ a \in Seq(Seq(Chars)) /\ b \in Seq(Seq(Chars)) /\ w \in Seq(Chars)
      /\ <<w>> \in Seq(Seq(Chars))
      /\ us = a \o b /\ ws = a \o (<<w>> \o b)
  BY RemoveIs DEF WritesOk
<1>3. ws # <<>>
  BY <1>1, EmptySeq DEF WritesOk
<1> HIDE DEF us, a, b, w
<1>4. ASSUME NEW j \in 1 .. Len(us)
      PROVE  us[j] # <<>>
  <2>1. /\ j \in 1 .. Len(ws) - 1 /\ j \in 1 .. Len(ws)
        /\ j + 1 \in 1 .. Len(ws)
    BY <1>1
  <2>2. us[j] = ws[j] \/ us[j] = ws[j + 1]
    BY <1>1, <2>1
  <2> QED
    BY <2>1, <2>2 DEF WritesOk
<1>5. WritesOk(us)
  BY <1>1, <1>4 DEF WritesOk
<1>6. <<w>> \o b \in Seq(Seq(Chars))
  BY <1>2, ConcatProperties
<1>7. FlattenSeq(<<w>> \o b) = w \o FlattenSeq(b)
  <2>1. FlattenSeq(<<w>> \o b) = FlattenSeq(<<w>>) \o FlattenSeq(b)
    BY <1>2, FlattenConcat
  <2>2. FlattenSeq(<<w>>) = w
    BY <1>2, FlattenOne
  <2> QED
    BY <2>1, <2>2
<1>8. FlattenSeq(ws) = FlattenSeq(a) \o (w \o FlattenSeq(b))
  <2>1. FlattenSeq(a \o (<<w>> \o b))
          = FlattenSeq(a) \o FlattenSeq(<<w>> \o b)
    BY <1>2, <1>6, FlattenConcat
  <2> QED
    BY <1>2, <1>7, <2>1
<1>9. FlattenSeq(us) = FlattenSeq(a) \o FlattenSeq(b)
  BY <1>2, FlattenConcat
<1>10. FlattenSeq(a) \in Seq(Chars) /\ FlattenSeq(b) \in Seq(Chars)
  BY <1>2, FlattenType
<1> QED
  BY <1>1, <1>2, <1>3, <1>5, <1>8, <1>9, <1>10 DEF us

(* The characters of a new write.                                          *)
LEMMA NewWrite ==
  ASSUME written \in 0 .. MaxChars, NEW n \in Nat, written + n <= MaxChars
  PROVE  /\ [i \in 1 .. n |-> written + i] \in Seq(Chars)
         /\ Len([i \in 1 .. n |-> written + i]) = n
         /\ \A i \in 1 .. n : [k \in 1 .. n |-> written + k][i] = written + i
<1>1. \A i \in 1 .. n : written + i \in Chars
  BY DataAssumption DEF Chars
<1>2. [i \in 1 .. n |-> written + i] \in [1 .. n -> Chars]
  BY <1>1
<1> QED
  BY <1>2

LEMMA RestRest ==
  ASSUME NEW S, NEW s \in Seq(S), NEW n \in Nat, NEW m \in Nat, n + m <= Len(s)
  PROVE  Rest(Rest(s, n), m) = Rest(s, n + m)
<1> DEFINE t == Rest(s, n)
           u == Rest(s, n + m)
<1>1. PICK l \in Nat : Len(s) = l
  BY LenProperties
<1>0. n <= Len(s)
  BY <1>1
<1>2. /\ t \in Seq(S) /\ Len(t) = l - n /\ \A j \in 1 .. l - n : t[j] = s[n + j]
  BY <1>0, <1>1, FirstRest, RestItems
<1>3. n + m \in Nat
  OBVIOUS
<1>4. /\ u \in Seq(S) /\ Len(u) = l - (n + m)
      /\ \A j \in 1 .. l - (n + m) : u[j] = s[(n + m) + j]
  BY <1>1, <1>3, FirstRest, RestItems
<1> DEFINE v == Rest(t, m)
<1> HIDE DEF t, u
<1>5. m <= Len(t)
  BY <1>1, <1>2
<1>6. /\ v \in Seq(S) /\ Len(v) = Len(t) - m
      /\ \A j \in 1 .. Len(t) - m : v[j] = t[m + j]
  BY <1>2, <1>5, FirstRest, RestItems
<1> HIDE DEF v
<1>7. Len(v) = Len(u)
  BY <1>1, <1>2, <1>4, <1>6
<1>8. ASSUME NEW j \in 1 .. Len(v)
      PROVE  v[j] = u[j]
  <2>1. /\ j \in 1 .. Len(t) - m /\ m + j \in 1 .. l - n
        /\ j \in 1 .. l - (n + m) /\ n + (m + j) = (n + m) + j
    BY <1>1, <1>2, <1>6
  <2>2. v[j] = t[m + j]
    BY <1>6, <2>1
  <2>3. t[m + j] = s[n + (m + j)]
    BY <1>2, <2>1
  <2>4. u[j] = s[(n + m) + j]
    BY <1>4, <2>1
  <2> QED
    BY <2>1, <2>2, <2>3, <2>4
<1>9. v = u
  BY <1>4, <1>6, <1>7, <1>8, SeqEqual
<1> QED
  BY <1>9 DEF t, u, v
-----------------------------------------------------------------------------
(***************************************************************************)
(* The shape of the state, in every configuration.  Of the pending reads   *)
(* only the current one has characters; something is left of each write;   *)
(* TryReadWrite reads from txBuf for a read only, moves it to readBuf only *)
(* without one, and writes to the buffers, a read pending, only when the   *)
(* baud rate allows nothing more.                                          *)
(***************************************************************************)
Engaged ==
  /\ phase = "tx" => reads # <<>>
  /\ phase = "send" => reads = <<>>
  /\ phase = "buffer" /\ reads # <<>> /\ ~holding /\ writes # <<>> => limit = 0

Shape ==
  /\ port \in Settings
  /\ written \in 0 .. MaxChars
  /\ WritesOk(writes) /\ Len(writes) <= MaxWrites
  /\ tx \in Seq(Chars) /\ Len(tx) <= TxSize /\ txAt \in 0 .. TxSize - 1
  /\ rx \in Seq(Chars) /\ Len(rx) <= port.rxLimit
  /\ ReadsOk(reads) /\ Len(reads) <= MaxReads
  /\ taken \in Seq(Chars)
  /\ holding \in BOOLEAN /\ expired \in BOOLEAN
  /\ phase \in Phases /\ limit \in 0 .. MaxChars /\ aborts \in 0 .. MaxAborts
  /\ Engaged

LEMMA ShapeTypes ==
  ASSUME Shape
  PROVE  TypeOK
<1>1. writes \in Seq(Seq(Chars))
  BY DEF Shape, WritesOk
<1>2. /\ reads \in Seq([length : Lengths, got : Seq(Chars)])
      /\ \A i \in 1 .. Len(reads) : Len(reads[i].got) <= reads[i].length
  BY DEF Shape, ReadsOk, ReadType
<1> QED
  BY <1>1, <1>2 DEF Shape, TypeOK

LEMMA LimitIs ==
  ASSUME Shape
  PROVE  /\ limit \in Nat /\ limit <= MaxChars /\ MaxChars \in Nat
         /\ RxFits /\ Len(tx) \in Nat
  BY DataAssumption, LenProperties DEF Shape, RxFits

(* What a step gives the current read: it gets chars, and may end then.    *)
Fed(chars) ==
  /\ ReadsOk(reads') /\ Len(reads') <= MaxReads
  /\ taken' \in Seq(Chars) /\ expired' \in BOOLEAN
  /\ GotIs(reads) \in Seq(Chars) /\ GotIs(reads') \in Seq(Chars)
  /\ \/ /\ reads # <<>>
        /\ taken' = taken \o (GotIs(reads) \o chars) /\ GotIs(reads') = <<>>
     \/ /\ taken' = taken /\ GotIs(reads') = GotIs(reads) \o chars
        /\ reads' = <<>> <=> reads = <<>>

LEMMA FedByEnd ==
  ASSUME Shape, reads # <<>>, NEW chars \in Seq(Chars),
         CompleteRead(Head(reads).got \o chars)
  PROVE  Fed(chars)
<1>1. /\ ReadsOk(reads) /\ taken \in Seq(Chars) /\ Len(reads) <= MaxReads
      /\ Len(reads) \in Nat /\ MaxReads \in Nat
  BY DataAssumption, LenProperties DEF Shape, ReadsOk
<1>2. GotIs(reads) = Head(reads).got /\ GotIs(reads) \in Seq(Chars)
  BY <1>1, GotType DEF GotIs
<1>3. /\ reads' = Tail(reads) /\ expired' = FALSE
      /\ taken' = taken \o (Head(reads).got \o chars)
  BY DEF CompleteRead
<1>4. /\ ReadsOk(Tail(reads)) /\ Len(Tail(reads)) = Len(reads) - 1
      /\ GotIs(Tail(reads)) = <<>>
  BY <1>1, ReadsTail
<1>5. GotIs(reads) \o chars \in Seq(Chars)
  BY <1>2, ConcatProperties
<1>6. taken \o (GotIs(reads) \o chars) \in Seq(Chars)
  BY <1>1, <1>5, ConcatProperties
<1>7. /\ ReadsOk(reads') /\ GotIs(reads') = <<>>
      /\ taken' = taken \o (GotIs(reads) \o chars) /\ taken' \in Seq(Chars)
      /\ expired' \in BOOLEAN /\ GotIs(reads') \in Seq(Chars)
  <2>1. <<>> \in Seq(Chars)
    OBVIOUS
  <2>2. ReadsOk(reads') /\ GotIs(reads') = <<>> /\ expired' \in BOOLEAN
    BY <1>3, <1>4
  <2>3. taken' = taken \o (GotIs(reads) \o chars) /\ taken' \in Seq(Chars)
    BY <1>2, <1>3, <1>6
  <2> QED
    BY <2>1, <2>2, <2>3
<1>8. Len(reads') <= MaxReads
  BY <1>1, <1>3, <1>4
<1> QED
  BY <1>2, <1>7, <1>8 DEF Fed

LEMMA FedByGot ==
  ASSUME Shape, reads # <<>>, NEW chars \in Seq(Chars),
         Len(chars) <= ReadRoom, reads' = Got(chars), UNCHANGED <<taken, expired>>
  PROVE  Fed(chars) /\ reads' # <<>>
<1>1. /\ ReadsOk(reads) /\ taken \in Seq(Chars) /\ Len(reads) <= MaxReads
      /\ expired \in BOOLEAN
  BY DEF Shape
<1>2. GotIs(reads) = Head(reads).got /\ GotIs(reads) \in Seq(Chars)
  BY <1>1, GotType DEF GotIs
<1>3. Len(chars) <= Head(reads).length - Len(Head(reads).got)
  BY DEF ReadRoom
<1> DEFINE us == [reads EXCEPT ![1].got = @ \o chars]
<1>4. /\ ReadsOk(us) /\ Len(us) = Len(reads) /\ us # <<>>
      /\ GotIs(us) = Head(reads).got \o chars
  BY <1>1, <1>3, ReadsGot
<1>5. reads' = us
  BY DEF Got
<1> HIDE DEF us
<1>6. GotIs(us) \in Seq(Chars)
  BY <1>4, GotType
<1>7. /\ ReadsOk(reads') /\ Len(reads') <= MaxReads /\ reads' # <<>>
      /\ taken' = taken /\ taken' \in Seq(Chars) /\ expired' \in BOOLEAN
      /\ GotIs(reads') = GotIs(reads) \o chars /\ GotIs(reads') \in Seq(Chars)
  BY <1>1, <1>2, <1>4, <1>5, <1>6
<1> QED
  BY <1>2, <1>7 DEF Fed

LEMMA FedNone ==
  ASSUME Shape, UNCHANGED <<reads, taken, expired>>
  PROVE  Fed(<<>>)
<1>1. /\ ReadsOk(reads) /\ taken \in Seq(Chars) /\ Len(reads) <= MaxReads
      /\ expired \in BOOLEAN
  BY DEF Shape
<1>2. GotIs(reads) \in Seq(Chars)
  BY <1>1, GotType
<1>3. GotIs(reads) \o <<>> = GotIs(reads)
  BY <1>2, ConcatEmptySeq
<1>4. reads' = reads /\ taken' = taken /\ expired' = expired
  OBVIOUS
<1>5. GotIs(reads') = GotIs(reads)
  BY <1>4
<1> QED
  BY <1>1, <1>2, <1>3, <1>4, <1>5 DEF Fed

LEMMA FedEnd ==
  ASSUME Shape, reads # <<>>, CompleteRead(Head(reads).got)
  PROVE  Fed(<<>>)
<1>1. Head(reads).got \in Seq(Chars)
  BY HeadRead DEF Shape
<1>2. Head(reads).got \o <<>> = Head(reads).got
  BY <1>1, ConcatEmptySeq
<1>3. CompleteRead(Head(reads).got \o <<>>) /\ <<>> \in Seq(Chars)
  BY <1>2
<1> QED
  BY <1>3, FedByEnd

LEMMA ReadRoomIs ==
  ASSUME Shape, reads # <<>>
  PROVE  ReadRoom \in Nat
<1>1. /\ Head(reads).length \in Nat /\ Len(Head(reads).got) \in Nat
      /\ Len(Head(reads).got) <= Head(reads).length
  BY HeadRead DEF Shape
<1> QED
  BY <1>1 DEF ReadRoom

(* n characters leave txBuf.                                               *)
LEMMA SentIs ==
  ASSUME Shape, NEW n \in Nat, n <= Len(Chunk), SentFromTx(n)
  PROVE  /\ tx' \in Seq(Chars) /\ Len(tx') = Len(tx) - n /\ Len(tx') <= TxSize
         /\ txAt' \in 0 .. TxSize - 1
         /\ limit' = limit - n /\ limit' \in 0 .. MaxChars
         /\ n <= Len(tx) /\ tx' = Rest(tx, n)
         /\ First(Chunk, n) = First(tx, n) /\ First(tx, n) \in Seq(Chars)
         /\ Chunk \in Seq(Chars)
<1>1. /\ tx \in Seq(Chars) /\ Len(tx) <= TxSize /\ txAt \in 0 .. TxSize - 1
      /\ limit \in Nat /\ limit <= MaxChars /\ MaxChars \in Nat
      /\ Len(tx) \in Nat /\ TxSize \in Nat /\ TxSize >= 2
  BY LimitIs, DataAssumption DEF Shape
<1>2. /\ Chunk \in Seq(Chars) /\ Len(Chunk) <= Len(tx) /\ Len(Chunk) <= limit
      /\ Chunk = First(tx, Len(Chunk)) /\ Len(Chunk) \in Nat
  BY <1>1, ChunkIs, LenProperties
<1>3. n <= Len(tx) /\ n <= limit
  BY <1>1, <1>2
<1>4. /\ tx' = Rest(tx, n) /\ txAt' = (txAt + n) % TxSize
      /\ limit' = limit - n
  BY DEF SentFromTx
<1>5. /\ Rest(tx, n) \in Seq(Chars) /\ Len(Rest(tx, n)) = Len(tx) - n
      /\ First(tx, n) \in Seq(Chars)
  BY <1>1, <1>3, FirstRest
<1>6. (txAt + n) % TxSize \in 0 .. TxSize - 1
  <2>1. txAt + n \in Int /\ TxSize \in Int /\ TxSize > 0
    BY <1>1
  <2> QED
    BY <2>1
<1>7. First(Chunk, n) = First(tx, n)
  <2> DEFINE m == Len(Chunk)
  <2>1. m \in Nat /\ m <= Len(tx) /\ n <= m /\ Chunk = First(tx, m)
    BY <1>2
  <2> HIDE DEF m
  <2>2. First(First(tx, m), n) = First(tx, n)
    BY <1>1, <2>1, FirstOfFirst
  <2> QED
    BY <2>1, <2>2
<1>8. limit - n \in 0 .. MaxChars /\ Len(tx) - n <= TxSize
  BY <1>1, <1>3
<1> QED
  BY <1>2, <1>3, <1>4, <1>5, <1>6, <1>7, <1>8

ReadFromRxEffect(n) ==
  /\ n \in Nat /\ n <= Len(rx) /\ Fed(First(rx, n)) /\ rx' = Rest(rx, n)
  /\ \/ phase' = "rx"
     \/ phase' = "tx" /\ rx' = <<>> /\ reads' # <<>>
  /\ UNCHANGED <<port, written, writes, tx, txAt, holding, limit, aborts>>

LEMMA ReadFromRxDoes ==
  ASSUME Shape, ReadFromRx
  PROVE  Shape' /\ \E n : ReadFromRxEffect(n)
<1> DEFINE n == Least(Len(rx), ReadRoom)
           chars == First(rx, n)
<1>1. /\ rx \in Seq(Chars) /\ Len(rx) \in Nat /\ ReadRoom \in Nat
      /\ Len(rx) <= port.rxLimit /\ reads # <<>>
  BY ReadRoomIs, LenProperties DEF Shape, ReadFromRx
<1>2. /\ n \in Nat /\ n <= Len(rx) /\ n <= ReadRoom
      /\ n = Len(rx) \/ n = ReadRoom
  BY <1>1, LeastIs
<1>3. /\ rx' = Rest(rx, n)
      /\ \/ CompleteRead(Head(reads).got \o chars) /\ phase' = "rx"
         \/ /\ n # ReadRoom /\ reads' = Got(chars) /\ phase' = "tx"
            /\ UNCHANGED <<taken, expired>>
      /\ UNCHANGED <<port, written, writes, tx, txAt, holding, limit, aborts>>
  BY DEF ReadFromRx
<1> HIDE DEF n
<1>4. /\ chars \in Seq(Chars) /\ Len(chars) = n
      /\ Rest(rx, n) \in Seq(Chars) /\ Len(Rest(rx, n)) = Len(rx) - n
  BY <1>1, <1>2, FirstRest
<1>5. n = Len(rx) => Rest(rx, n) = <<>>
  BY <1>1, FirstRestEnds
<1> HIDE DEF chars
<1>6. /\ Fed(chars)
      /\ \/ phase' = "rx"
         \/ phase' = "tx" /\ rx' = <<>> /\ reads' # <<>>
  <2>1. CASE CompleteRead(Head(reads).got \o chars) /\ phase' = "rx"
    <3>0. reads # <<>> /\ chars \in Seq(Chars)
      BY <1>1, <1>4
    <3>1. Fed(chars)
      BY <2>1, <3>0, FedByEnd
    <3> QED
      BY <2>1, <3>1
  <2>2. CASE /\ n # ReadRoom /\ reads' = Got(chars) /\ phase' = "tx"
             /\ UNCHANGED <<taken, expired>>
    <3>1. Len(chars) <= ReadRoom
      BY <1>2, <1>4
    <3>2. Fed(chars) /\ reads' # <<>>
      BY <1>1, <1>4, <2>2, <3>1, FedByGot
    <3> QED
      BY <1>2, <1>3, <1>5, <2>2, <3>2
  <2> QED
    BY <1>3, <2>1, <2>2
<1>7. /\ rx' \in Seq(Chars) /\ Len(rx') <= port.rxLimit
  <2>1. port.rxLimit \in Nat
    BY SettingIs DEF Shape
  <2> QED
    BY <1>1, <1>2, <1>3, <1>4, <2>1
<1>8. Shape'
  <2>1. Engaged'
    BY <1>6 DEF Engaged
  <2>2. /\ ReadsOk(reads') /\ Len(reads') <= MaxReads /\ taken' \in Seq(Chars)
        /\ expired' \in BOOLEAN /\ phase' \in Phases
    BY <1>6 DEF Fed, Phases
  <2> QED
    BY <1>3, <1>7, <2>1, <2>2 DEF Shape
<1>9. ReadFromRxEffect(n)
  BY <1>2, <1>3, <1>6 DEF ReadFromRxEffect, chars
<1> QED
  BY <1>8, <1>9

ReadFromTxEffect(n) ==
  /\ n \in Nat /\ n <= Len(Chunk) /\ SentFromTx(n)
  /\ Fed(Kept(First(tx, n))) /\ reads # <<>>
  /\ \/ phase' = "rx"
     \/ phase' = "tx"
     \/ /\ phase' = "direct" /\ Kept(First(tx, n)) = <<>>
        /\ n = Consumed(Chunk, ReadRoom) /\ ReadRoom # 0
  /\ UNCHANGED <<port, written, writes, rx, holding, aborts>>

LEMMA ReadFromTxDoes ==
  ASSUME Shape, ReadFromTx
  PROVE  Shape' /\ \E n : ReadFromTxEffect(n)
<1> DEFINE n == Consumed(Chunk, ReadRoom)
           chars == Kept(First(Chunk, n))
<1>1. /\ reads # <<>> /\ ReadRoom \in Nat
      /\ Chunk \in Seq(Chars) /\ Len(Chunk) \in Nat
  <2>1. reads # <<>>
    BY DEF Shape, Engaged, ReadFromTx
  <2>2. Chunk \in Seq(Chars)
    BY ChunkIs, LimitIs DEF Shape
  <2> QED
    BY <2>1, <2>2, ReadRoomIs, LenProperties
<1>2. n \in Nat /\ n <= Len(Chunk) /\ Len(chars) <= ReadRoom
  BY <1>1, ConsumedIs
<1>3. /\ SentFromTx(n)
      /\ \/ /\ Len(chars) = ReadRoom
            /\ CompleteRead(Head(reads).got \o chars) /\ phase' = "rx"
         \/ /\ Len(chars) # ReadRoom /\ reads' = Got(chars)
            /\ phase' = AfterReadTx(chars) /\ UNCHANGED <<taken, expired>>
      /\ UNCHANGED <<port, written, writes, rx, holding, aborts>>
  BY DEF ReadFromTx
<1>4. chars \in Seq(Chars)
  <2>1. First(Chunk, n) \in Seq(Chars)
    BY <1>1, <1>2, FirstRest
  <2> QED
    BY <2>1, KeptIs
<1> HIDE DEF n
<1>5. /\ tx' \in Seq(Chars) /\ Len(tx') <= TxSize /\ txAt' \in 0 .. TxSize - 1
      /\ limit' \in 0 .. MaxChars /\ First(Chunk, n) = First(tx, n)
  BY <1>2, <1>3, SentIs
<1>6. chars = Kept(First(tx, n))
  BY <1>5
<1> HIDE DEF chars
<1>7. /\ Fed(chars)
      /\ \/ phase' = "rx"
         \/ /\ reads' # <<>>
            /\ \/ phase' = "tx"
               \/ phase' = "direct" /\ chars = <<>> /\ ReadRoom # 0
  <2>1. CASE CompleteRead(Head(reads).got \o chars) /\ phase' = "rx"
    BY <1>1, <1>4, <2>1, FedByEnd
  <2>2. CASE /\ Len(chars) # ReadRoom /\ reads' = Got(chars)
             /\ phase' = AfterReadTx(chars) /\ UNCHANGED <<taken, expired>>
    <3>1. Fed(chars) /\ reads' # <<>>
      BY <1>1, <1>2, <1>4, <2>2, FedByGot
    <3>2. chars = <<>> => Len(chars) = 0
      OBVIOUS
    <3> QED
      BY <2>2, <3>1, <3>2 DEF AfterReadTx
  <2> QED
    BY <1>3, <2>1, <2>2
<1>8. Shape'
  <2>1. Engaged'
    BY <1>7 DEF Engaged
  <2>2. /\ ReadsOk(reads') /\ Len(reads') <= MaxReads /\ taken' \in Seq(Chars)
        /\ expired' \in BOOLEAN /\ phase' \in Phases
    BY <1>7 DEF Fed, Phases
  <2> QED
    BY <1>3, <1>5, <2>1, <2>2 DEF Shape
<1>9. ReadFromTxEffect(n)
  BY <1>1, <1>2, <1>3, <1>6, <1>7 DEF ReadFromTxEffect, n
<1> QED
  BY <1>8, <1>9

MoveFromTxEffect(n) ==
  /\ n = Accepted(Chunk) /\ n \in Nat /\ n <= Len(Chunk) /\ SentFromTx(n)
  /\ rx' = rx \o Stored(Chunk) /\ reads = <<>>
  /\ phase' = IF n = 0 THEN "direct" ELSE "send"
  /\ UNCHANGED <<port, written, writes, reads, taken, holding, expired, aborts>>

(* readBuf with what was stored.                                           *)
LEMMA StoreFits ==
  ASSUME RxFits, NEW src \in Seq(Chars), rx' = rx \o Stored(src)
  PROVE  /\ rx' \in Seq(Chars) /\ Len(rx') = Len(rx) + Len(Stored(src))
         /\ Len(rx') <= port.rxLimit
         /\ Len(Stored(src)) = RxRoom => Len(rx') = port.rxLimit
<1>1. PICK left : Leaves(src, left)
  BY StoredIs
<1>2. /\ Stored(src) \in Seq(Chars) /\ Len(Stored(src)) <= RxRoom
      /\ Len(Stored(src)) \in Nat
  BY <1>1, LenProperties DEF Leaves
<1>3. rx \in Seq(Chars) /\ Len(rx) \in Nat
  BY LenProperties DEF RxFits
<1>4. RxRoom \in Nat /\ Len(rx) + RxRoom = port.rxLimit
  BY RoomIs
<1>5. rx' \in Seq(Chars) /\ Len(rx') = Len(rx) + Len(Stored(src))
  <2> DEFINE t == rx \o Stored(src)
  <2>1. t \in Seq(Chars) /\ Len(t) = Len(rx) + Len(Stored(src)) /\ rx' = t
    BY <1>2, <1>3, ConcatProperties
  <2> HIDE DEF t
  <2> QED
    BY <2>1
<1>6. Len(rx) + Len(Stored(src)) <= port.rxLimit
  BY <1>2, <1>3, <1>4
<1>7. Len(Stored(src)) = RxRoom => Len(rx) + Len(Stored(src)) = port.rxLimit
  BY <1>4
<1> QED
  BY <1>5, <1>6, <1>7

LEMMA MoveFromTxDoes ==
  ASSUME Shape, MoveFromTx
  PROVE  Shape' /\ \E n : MoveFromTxEffect(n)
<1> DEFINE n == Accepted(Chunk)
<1>1. RxFits /\ Chunk \in Seq(Chars)
  BY ChunkIs, LimitIs DEF Shape
<1>2. n \in Nat /\ n <= Len(Chunk)
  BY <1>1, AcceptedIs
<1>3. /\ SentFromTx(n) /\ rx' = rx \o Stored(Chunk)
      /\ phase' = IF n = 0 THEN "direct" ELSE "send"
      /\ UNCHANGED <<port, written, writes, reads, taken, holding, expired,
                     aborts>>
  BY DEF MoveFromTx
<1>4. reads = <<>>
  BY DEF Shape, Engaged, MoveFromTx
<1>5. /\ tx' \in Seq(Chars) /\ Len(tx') <= TxSize /\ txAt' \in 0 .. TxSize - 1
      /\ limit' \in 0 .. MaxChars
  BY <1>2, <1>3, SentIs
<1>6. rx' \in Seq(Chars) /\ Len(rx') <= port.rxLimit
  BY <1>1, <1>3, StoreFits
<1>7. MoveFromTxEffect(n)
  BY <1>2, <1>3, <1>4 DEF MoveFromTxEffect
<1> HIDE DEF n
<1>8. Shape'
  <2>1. Engaged' /\ phase' \in Phases
    BY <1>3, <1>4 DEF Engaged, Phases
  <2> QED
    BY <1>3, <1>5, <1>6, <2>1 DEF Shape
<1> QED
  BY <1>7, <1>8

(* What the baud rate allows of the current write.                         *)
Src == First(Head(writes), Least(Len(Head(writes)), limit))

LEMMA SrcIs ==
  ASSUME Shape, writes # <<>>
  PROVE  /\ Head(writes) \in Seq(Chars) /\ Len(Head(writes)) \in Nat
         /\ Len(Head(writes)) # 0
         /\ Src \in Seq(Chars) /\ Len(Src) \in Nat
         /\ Len(Src) <= Len(Head(writes)) /\ Len(Src) <= limit
         /\ Len(Src) = Len(Head(writes)) \/ Len(Src) = limit
         /\ \A n \in Nat : n <= Len(Src) =>
              First(Src, n) = First(Head(writes), n)
<1> DEFINE w == Head(writes)
           m == Least(Len(w), limit)
<1>1. w \in Seq(Chars) /\ Len(w) \in Nat /\ Len(w) # 0 /\ limit \in Nat
  BY HeadWrite, LimitIs DEF Shape
<1>2. Src = First(w, m)
  BY DEF Src
<1> HIDE DEF w
<1>3. /\ m \in Nat /\ m <= Len(w) /\ m <= limit
      /\ m = Len(w) \/ m = limit
  BY <1>1, LeastIs
<1> HIDE DEF m
<1>4. First(w, m) \in Seq(Chars) /\ Len(First(w, m)) = m
  BY <1>1, <1>3, FirstRest
<1>5. ASSUME NEW n \in Nat, n <= m
      PROVE  First(First(w, m), n) = First(w, n)
  BY <1>1, <1>3, <1>5, FirstOfFirst
<1> QED
  BY <1>1, <1>2, <1>3, <1>4, <1>5 DEF w

NoReadEffect ==
  /\ reads = <<>> /\ phase' = "send"
  /\ UNCHANGED <<port, written, writes, tx, txAt, rx, reads, taken, holding,
                 limit, expired, aborts>>

LEMMA NoReadDoes ==
  ASSUME Shape, NoRead
  PROVE  Shape' /\ NoReadEffect
<1>1. NoReadEffect
  BY DEF NoRead, NoReadEffect
<1>2. Engaged' /\ phase' \in Phases
  BY <1>1 DEF NoReadEffect, Engaged, Phases
<1> QED
  BY <1>1, <1>2 DEF NoReadEffect, Shape

ReadWriteDirectEffect(n) ==
  /\ reads # <<>> /\ writes # <<>> /\ limit # 0 /\ phase = "direct"
  /\ reads' # <<>>
  /\ n \in Nat /\ n <= Len(Src) /\ n <= Len(Head(writes))
  /\ Fed(Kept(First(Head(writes), n)))
  /\ writes' = AfterWriting(n) /\ limit' = limit - n
  /\ UNCHANGED <<port, written, tx, txAt, rx, holding, phase, aborts>>

LEMMA ReadWriteDirectDoes ==
  ASSUME Shape, ReadWriteDirect
  PROVE  Shape' /\ \E n : ReadWriteDirectEffect(n)
<1> DEFINE n == Consumed(Src, ReadRoom)
           chars == Kept(First(Src, n))
<1>1. /\ reads # <<>> /\ writes # <<>> /\ ~holding /\ limit > 0
      /\ phase = "direct"
  BY DEF ReadWriteDirect, CanCopy
<1>2. /\ reads' = Got(chars) /\ writes' = AfterWriting(n) /\ limit' = limit - n
      /\ UNCHANGED <<port, written, tx, txAt, rx, taken, holding, phase,
                     expired, aborts>>
  BY DEF ReadWriteDirect, Src
<1>3. /\ Src \in Seq(Chars) /\ Len(Src) \in Nat
      /\ Len(Head(writes)) \in Nat
      /\ Len(Src) <= Len(Head(writes)) /\ Len(Src) <= limit
      /\ limit \in Nat /\ limit <= MaxChars /\ MaxChars \in Nat
  BY <1>1, SrcIs, LimitIs
<1>4. n \in Nat /\ n <= Len(Src) /\ Len(chars) <= ReadRoom
  BY <1>1, <1>3, ReadRoomIs, ConsumedIs
<1>5. chars \in Seq(Chars)
  <2>1. First(Src, n) \in Seq(Chars)
    BY <1>3, <1>4, FirstRest
  <2> QED
    BY <2>1, KeptIs
<1> HIDE DEF n
<1>6. chars = Kept(First(Head(writes), n)) /\ n <= Len(Head(writes))
  <2>1. First(Src, n) = First(Head(writes), n)
    BY <1>1, <1>4, SrcIs
  <2> QED
    BY <1>3, <1>4, <2>1
<1> HIDE DEF chars
<1>7. Fed(chars) /\ reads' # <<>>
  BY <1>1, <1>2, <1>4, <1>5, FedByGot
<1>8. WritesOk(writes') /\ Len(writes') <= MaxWrites
  <2>1. WritesOk(writes) /\ Len(writes) <= MaxWrites /\ Len(writes) \in Nat
        /\ MaxWrites \in Nat
    BY DataAssumption, LenProperties DEF Shape, WritesOk
  <2>2. /\ WritesOk(AfterWriting(n)) /\ Len(AfterWriting(n)) <= Len(writes)
    BY <1>1, <1>4, <1>6, <2>1, WritesAfter
  <2>3. Len(AfterWriting(n)) \in Nat
    BY <2>2, LenProperties DEF WritesOk
  <2> QED
    BY <1>2, <2>1, <2>2, <2>3
<1>9. limit' \in 0 .. MaxChars
  BY <1>2, <1>3, <1>4
<1>10. Shape'
  <2>1. Engaged'
    BY <1>1, <1>2 DEF Engaged
  <2>2. /\ ReadsOk(reads') /\ Len(reads') <= MaxReads /\ taken' \in Seq(Chars)
        /\ expired' \in BOOLEAN
    BY <1>7 DEF Fed
  <2> QED
    BY <1>2, <1>8, <1>9, <2>1, <2>2 DEF Shape
<1>11. ReadWriteDirectEffect(n)
  BY <1>1, <1>2, <1>4, <1>6, <1>7 DEF ReadWriteDirectEffect
<1> QED
  BY <1>10, <1>11

EndReadEffect ==
  /\ phase = "direct" /\ Fed(<<>>)
  /\ phase' \in {"direct", "buffer"}
  /\ reads' # <<>> => reads # <<>>
  /\ limit' = limit \/ (port.emuBR /\ limit' = 0)
  /\ UNCHANGED <<port, written, writes, tx, txAt, rx, holding, aborts>>

LEMMA EndReadDoes ==
  ASSUME Shape, EndRead
  PROVE  Shape' /\ EndReadEffect
<1>1. /\ phase = "direct" /\ ~CanCopy
      /\ \/ /\ reads # <<>> /\ CompleteRead(Head(reads).got)
            /\ phase' = phase
         \/ /\ reads # <<>> => ~EndsWith(Head(reads).got)
            /\ phase' = "buffer" /\ UNCHANGED <<reads, taken, expired>>
      /\ limit' = limit \/ (port.emuBR /\ limit' = 0)
      /\ UNCHANGED <<port, written, writes, tx, txAt, rx, holding, aborts>>
  BY DEF EndRead
<1>2. limit \in 0 .. MaxChars /\ limit' \in 0 .. MaxChars
  BY <1>1, LimitIs
<1>3. Fed(<<>>) /\ (reads' # <<>> => reads # <<>>)
  <2>1. CASE reads # <<>> /\ CompleteRead(Head(reads).got)
    BY <2>1, FedEnd
  <2>2. CASE UNCHANGED <<reads, taken, expired>>
    BY <2>2, FedNone
  <2> QED
    BY <1>1, <2>1, <2>2
<1>4. phase' \in {"direct", "buffer"}
  BY <1>1
<1>5. EndReadEffect
  BY <1>1, <1>3, <1>4 DEF EndReadEffect
<1>6. Engaged'
  <2>1. SUFFICES ASSUME phase' = "buffer", reads' # <<>>, ~holding', writes' # <<>>
                 PROVE  limit' = 0
    BY <1>4 DEF Engaged
  <2>2. /\ reads # <<>> /\ ~EndsWith(Head(reads).got) /\ ~holding
        /\ writes # <<>>
    BY <1>1, <2>1
  <2>3. ReadRoom # 0
    <3>1. Len(Head(reads).got) # Head(reads).length
      BY <2>2 DEF EndsWith
    <3>2. /\ Len(Head(reads).got) \in Nat /\ Head(reads).length \in Nat
      BY <2>2, HeadRead DEF Shape
    <3> QED
      BY <3>1, <3>2 DEF ReadRoom
  <2>4. ReadRoom \in Nat /\ limit \in Nat
    BY <2>2, ReadRoomIs, LimitIs
  <2>5. limit = 0
    BY <1>1, <2>2, <2>3, <2>4 DEF CanCopy
  <2> QED
    BY <1>1, <2>5
<1>7. /\ ReadsOk(reads') /\ Len(reads') <= MaxReads /\ taken' \in Seq(Chars)
      /\ expired' \in BOOLEAN /\ phase' \in Phases
  BY <1>3, <1>4 DEF Fed, Phases
<1> QED
  BY <1>1, <1>2, <1>5, <1>6, <1>7 DEF Shape

LEMMA ToTxIs ==
  ASSUME Shape, NEW rest \in Seq(Chars)
  PROVE  /\ ToTx(rest) \in Seq(Chars) /\ Len(ToTx(rest)) \in Nat
         /\ Len(ToTx(rest)) <= Len(rest)
         /\ ToTx(rest) = First(rest, Len(ToTx(rest)))
         /\ Len(tx) + Len(ToTx(rest)) <= TxSize
<1>1. /\ TxSize \in Nat /\ TxSize >= 2 /\ Len(tx) \in Nat
      /\ Len(tx) <= TxSize /\ Len(rest) \in Nat
  BY DataAssumption, LenProperties DEF Shape
<1>2. CASE Len(tx) <= 1
  <2> DEFINE n == Least(Len(rest), TxSize - 1)
  <2>1. n \in Nat /\ n <= Len(rest) /\ n <= TxSize - 1
    BY <1>1 DEF Least
  <2>2. ToTx(rest) = First(rest, n)
    BY <1>2 DEF ToTx
  <2> HIDE DEF n
  <2>3. First(rest, n) \in Seq(Chars) /\ Len(First(rest, n)) = n
    BY <2>1, FirstRest
  <2>4. Len(tx) + n <= TxSize
    BY <1>1, <1>2, <2>1
  <2> QED
    BY <2>1, <2>2, <2>3, <2>4
<1>3. CASE ~(Len(tx) <= 1)
  <2>1. ToTx(rest) = <<>>
    BY <1>3 DEF ToTx
  <2>2. First(rest, 0) = <<>> /\ <<>> \in Seq(Chars) /\ Len(<<>>) = 0
    BY FirstRestEnds
  <2> QED
    BY <1>1, <2>1, <2>2
<1> QED
  BY <1>2, <1>3

WriteToBuffersEffect(n, more) ==
  /\ phase = "buffer" /\ writes # <<>> /\ ~holding
  /\ n = Accepted(Src) /\ n \in Nat /\ n <= Len(Src) /\ n <= Len(Head(writes))
  /\ more = ToTx(Rest(Head(writes), n))
  /\ Rest(Head(writes), n) \in Seq(Chars)
  /\ Len(more) \in Nat /\ n + Len(more) <= Len(Head(writes))
  /\ rx' = rx \o Stored(Src) /\ tx' = tx \o more
  /\ writes' = AfterWriting(n + Len(more))
  /\ \/ /\ n + Len(more) = Len(Head(writes))
        /\ limit' = limit - n /\ phase' = phase
     \/ /\ n + Len(more) # Len(Head(writes))
        /\ limit' = 0 /\ phase' = "free"
  /\ UNCHANGED <<port, written, txAt, reads, taken, holding, expired, aborts>>

LEMMA WriteToBuffersDoes ==
  ASSUME Shape, WriteToBuffers
  PROVE  Shape' /\ \E n, more : WriteToBuffersEffect(n, more)
<1> DEFINE w == Head(writes)
           n == Accepted(Src)
           more == ToTx(Rest(w, n))
           done == n + Len(more)
<1>1. phase = "buffer" /\ writes # <<>> /\ ~holding
  BY DEF WriteToBuffers
<1>2. /\ rx' = rx \o Stored(Src) /\ tx' = tx \o more
      /\ writes' = AfterWriting(done)
      /\ \/ /\ done = Len(w) /\ limit' = limit - n /\ phase' = phase
         \/ /\ done # Len(w) /\ limit' = 0 /\ phase' = "free"
      /\ UNCHANGED <<port, written, txAt, reads, taken, holding, expired,
                     aborts>>
  BY DEF WriteToBuffers, NoTransfer, Src
<1>3. /\ w \in Seq(Chars) /\ Len(w) \in Nat
      /\ Src \in Seq(Chars) /\ Len(Src) \in Nat
      /\ Len(Src) <= Len(w) /\ Len(Src) <= limit
      /\ limit \in Nat /\ limit <= MaxChars /\ MaxChars \in Nat /\ RxFits
  BY <1>1, SrcIs, LimitIs
<1>4. n \in Nat /\ n <= Len(Src)
  BY <1>3, AcceptedIs
<1>5. n <= Len(w) /\ n <= limit
  BY <1>3, <1>4
<1> HIDE DEF n
<1>6. Rest(w, n) \in Seq(Chars) /\ Len(Rest(w, n)) = Len(w) - n
  BY <1>3, <1>4, <1>5, FirstRest
<1>7. /\ more \in Seq(Chars) /\ Len(more) \in Nat
      /\ Len(more) <= Len(Rest(w, n)) /\ Len(tx) + Len(more) <= TxSize
  BY <1>6, ToTxIs
<1>8. done \in Nat /\ done <= Len(w)
  BY <1>3, <1>4, <1>5, <1>6, <1>7
<1>9. rx' \in Seq(Chars) /\ Len(rx') <= port.rxLimit
  BY <1>2, <1>3, StoreFits
<1> HIDE DEF more
<1>10. tx' \in Seq(Chars) /\ Len(tx') <= TxSize
  <2>1. tx \in Seq(Chars)
    BY DEF Shape
  <2>2. tx \o more \in Seq(Chars) /\ Len(tx \o more) = Len(tx) + Len(more)
    BY <1>7, <2>1, ConcatProperties
  <2> QED
    BY <1>2, <1>7, <2>2
<1>11. WritesOk(writes') /\ Len(writes') <= MaxWrites
  <2>1. WritesOk(writes) /\ Len(writes) <= MaxWrites /\ Len(writes) \in Nat
        /\ MaxWrites \in Nat
    BY DataAssumption, LenProperties DEF Shape, WritesOk
  <2> HIDE DEF done
  <2>2. WritesOk(AfterWriting(done)) /\ Len(AfterWriting(done)) <= Len(writes)
    BY <1>1, <1>8, <2>1, WritesAfter
  <2>3. Len(AfterWriting(done)) \in Nat
    BY <2>2, LenProperties DEF WritesOk
  <2> QED
    BY <1>2, <2>1, <2>2, <2>3
<1>12. WriteToBuffersEffect(n, more)
  BY <1>1, <1>2, <1>4, <1>5, <1>6, <1>7, <1>8
     DEF WriteToBuffersEffect, n, more
<1>13. Engaged'
  <2>1. reads # <<>> => limit = 0
    BY <1>1 DEF Shape, Engaged
  <2>2. limit = 0 => n = 0
    BY <1>4, <1>5
  <2>3. reads # <<>> => limit' = 0
    BY <1>2, <2>1, <2>2
  <2>4. reads' = reads /\ phase' \in {"buffer", "free"}
    BY <1>1, <1>2
  <2> QED
    BY <2>3, <2>4 DEF Engaged
<1>14. limit' \in 0 .. MaxChars
  BY <1>2, <1>3, <1>4, <1>5
<1>15. Shape'
  <2>1. phase' \in Phases
    BY <1>1, <1>2 DEF Phases
  <2> QED
    BY <1>2, <1>9, <1>10, <1>11, <1>13, <1>14, <2>1 DEF Shape
<1> QED
  BY <1>12, <1>15

EndTransferEffect ==
  /\ phase = "buffer" /\ (writes = <<>> \/ holding)
  /\ phase' = "free" /\ limit' = 0
  /\ UNCHANGED <<port, written, writes, tx, txAt, rx, reads, taken, holding,
                 expired, aborts>>

LEMMA EndTransferDoes ==
  ASSUME Shape, EndTransfer
  PROVE  Shape' /\ EndTransferEffect
<1>1. EndTransferEffect
  BY DEF EndTransfer, NoTransfer, EndTransferEffect
<1>2. Engaged' /\ phase' \in Phases /\ limit' \in 0 .. MaxChars
  BY <1>1, LimitIs DEF EndTransferEffect, Engaged, Phases
<1> QED
  BY <1>1, <1>2 DEF EndTransferEffect, Shape
-----------------------------------------------------------------------------
(***************************************************************************)
(* What starts a section under the lock, or is one.                        *)
(***************************************************************************)
Starts ==
  phase' = "rx" /\ limit' \in 0 .. MaxChars /\ (~port.emuBR => limit' = MaxChars)

Rests == phase' = "free" /\ limit' = 0

LEMMA StartTransferIs ==
  ASSUME StartTransfer
  PROVE  Starts
<1>1. MaxChars \in 0 .. MaxChars
  BY DataAssumption
<1> QED
  BY <1>1 DEF StartTransfer, Starts

LEMMA RestsIs ==
  ASSUME NoTransfer
  PROVE  Rests
  BY DEF NoTransfer, Rests

(* In either case the engine has not begun to move anything.               *)
LEMMA BeginsShaped ==
  ASSUME Shape, Starts \/ Rests
  PROVE  Engaged' /\ phase' \in Phases /\ limit' \in 0 .. MaxChars
<1>1. 0 \in 0 .. MaxChars
  BY DataAssumption
<1> QED
  BY <1>1 DEF Starts, Rests, Engaged, Phases

LEMMA InitShape ==
  ASSUME Init
  PROVE  Shape
<1>1. /\ port \in Settings /\ written = 0 /\ writes = <<>> /\ tx = <<>>
      /\ txAt = 0 /\ rx = <<>> /\ reads = <<>> /\ taken = <<>>
      /\ holding = FALSE /\ phase = "free" /\ limit = 0 /\ expired = FALSE
      /\ aborts = 0
  BY DEF Init
<1>2. <<>> \in Seq(Chars) /\ Len(<<>>) = 0
  OBVIOUS
<1>3. /\ port.rxLimit \in Nat /\ 0 \in 0 .. MaxChars /\ 0 <= TxSize
      /\ 0 \in 0 .. TxSize - 1 /\ 0 \in 0 .. MaxAborts
      /\ 0 <= MaxReads /\ 0 <= MaxWrites
  BY <1>1, SettingIs, DataAssumption
<1>4. WritesOk(writes) /\ ReadsOk(reads)
  BY <1>1, NoWrites, NoReads
<1>5. Engaged /\ phase \in Phases
  BY <1>1 DEF Engaged, Phases
<1>6. holding \in BOOLEAN /\ expired \in BOOLEAN
  BY <1>1
<1>7. /\ written \in 0 .. MaxChars /\ limit \in 0 .. MaxChars
      /\ aborts \in 0 .. MaxAborts /\ txAt \in 0 .. TxSize - 1
  BY <1>1, <1>3
<1>8. /\ Len(writes) <= MaxWrites /\ Len(reads) <= MaxReads
      /\ tx \in Seq(Chars) /\ Len(tx) <= TxSize /\ taken \in Seq(Chars)
  BY <1>1, <1>2, <1>3
<1>9. rx \in Seq(Chars) /\ Len(rx) <= port.rxLimit
  BY <1>1, <1>2, <1>3
<1> QED
  BY <1>1, <1>4, <1>5, <1>6, <1>7, <1>8, <1>9 DEF Shape

WriteEffect(n) ==
  /\ n \in Nat /\ n # 0 /\ written + n <= MaxChars
  /\ written' = written + n
  /\ writes' = Append(writes, [i \in 1 .. n |-> written + i])
  /\ [i \in 1 .. n |-> written + i] \in Seq(Chars)
  /\ [i \in 1 .. n |-> written + i] # <<>>
  /\ phase = "free"
  /\ \/ writes = <<>> /\ Starts
     \/ writes # <<>> /\ Rests
  /\ UNCHANGED <<port, tx, txAt, rx, reads, taken, holding, expired, aborts>>

LEMMA WriteDoes ==
  ASSUME Shape, NEW n \in Lengths, Write(n)
  PROVE  Shape' /\ WriteEffect(n)
<1> DEFINE w == [i \in 1 .. n |-> written + i]
<1>1. /\ phase = "free" /\ Len(writes) < MaxWrites /\ written + n <= MaxChars
      /\ written' = written + n /\ writes' = Append(writes, w)
      /\ \/ writes = <<>> /\ StartTransfer
         \/ writes # <<>> /\ NoTransfer
      /\ UNCHANGED <<port, tx, txAt, rx, reads, taken, holding, expired,
                     aborts>>
  BY DEF Write
<1>2. /\ n \in Nat /\ n # 0 /\ written \in 0 .. MaxChars /\ MaxChars \in Nat
      /\ MaxWrites \in Nat
  BY DataAssumption DEF Shape
<1>3. w \in Seq(Chars) /\ Len(w) = n
  BY <1>1, <1>2, NewWrite
<1> HIDE DEF w
<1>4. w # <<>>
  BY <1>2, <1>3, EmptyByLen
<1>5. WritesOk(writes') /\ Len(writes') <= MaxWrites
  <2>1. WritesOk(writes) /\ Len(writes) \in Nat
    BY LenProperties DEF Shape, WritesOk
  <2>2. WritesOk(Append(writes, w)) /\ Len(Append(writes, w)) = Len(writes) + 1
    BY <1>3, <1>4, <2>1, WritesAppend
  <2> QED
    BY <1>1, <1>2, <2>1, <2>2
<1>6. written' \in 0 .. MaxChars
  BY <1>1, <1>2
<1>7. \/ writes = <<>> /\ Starts
      \/ writes # <<>> /\ Rests
  BY <1>1, StartTransferIs, RestsIs
<1>8. Engaged' /\ phase' \in Phases /\ limit' \in 0 .. MaxChars
  BY <1>7, BeginsShaped
<1>9. Shape'
  BY <1>1, <1>5, <1>6, <1>8 DEF Shape
<1>10. WriteEffect(n)
  BY <1>1, <1>2, <1>3, <1>4, <1>7 DEF WriteEffect, w
<1> QED
  BY <1>9, <1>10

ReadEffect ==
  /\ ReadsOk(reads') /\ GotIs(reads') = GotIs(reads) /\ reads' # <<>>
  /\ phase = "free"
  /\ \/ reads = <<>> /\ Starts
     \/ reads # <<>> /\ Rests
  /\ UNCHANGED <<port, written, writes, tx, txAt, rx, taken, holding, aborts>>

LEMMA ReadDoes ==
  ASSUME Shape, NEW n \in Lengths, Read(n)
  PROVE  Shape' /\ ReadEffect
<1> DEFINE us == Append(reads, [length |-> n, got |-> <<>>])
<1>1. /\ phase = "free" /\ Len(reads) < MaxReads /\ reads' = us
      /\ \/ reads = <<>> /\ StartTransfer
         \/ reads # <<>> /\ NoTransfer
      /\ UNCHANGED <<port, written, writes, tx, txAt, rx, taken, holding,
                     expired, aborts>>
  BY DEF Read
<1>2. /\ ReadsOk(reads) /\ Len(reads) \in Nat /\ MaxReads \in Nat
  BY DataAssumption, LenProperties DEF Shape, ReadsOk
<1>3. /\ ReadsOk(us) /\ us # <<>> /\ Len(us) = Len(reads) + 1
      /\ GotIs(us) = GotIs(reads)
  BY <1>2, ReadsAppend
<1> HIDE DEF us
<1>4. \/ reads = <<>> /\ Starts
      \/ reads # <<>> /\ Rests
  BY <1>1, StartTransferIs, RestsIs
<1>5. /\ ReadsOk(reads') /\ Len(reads') <= MaxReads /\ reads' # <<>>
      /\ GotIs(reads') = GotIs(reads)
  BY <1>1, <1>2, <1>3
<1>6. Engaged' /\ phase' \in Phases /\ limit' \in 0 .. MaxChars
  BY <1>4, BeginsShaped
<1>7. Shape'
  BY <1>1, <1>5, <1>6 DEF Shape
<1>8. ReadEffect
  BY <1>1, <1>4, <1>5 DEF ReadEffect
<1> QED
  BY <1>7, <1>8

StartEffect ==
  /\ phase = "free" /\ Starts
  /\ UNCHANGED <<port, written, writes, tx, txAt, rx, reads, taken, holding,
                 aborts>>

LEMMA StartDoes ==
  ASSUME Shape, Tick \/ Expire
  PROVE  Shape' /\ StartEffect
<1>1. /\ phase = "free" /\ StartTransfer
      /\ expired' = expired \/ expired' = TRUE
      /\ UNCHANGED <<port, written, writes, tx, txAt, rx, reads, taken,
                     holding, aborts>>
  BY DEF Tick, Expire
<1>2. StartEffect
  BY <1>1, StartTransferIs DEF StartEffect
<1>3. Engaged' /\ phase' \in Phases /\ limit' \in 0 .. MaxChars
  BY <1>1, StartTransferIs, BeginsShaped
<1>4. expired' \in BOOLEAN
  BY <1>1 DEF Shape
<1> QED
  BY <1>1, <1>2, <1>3, <1>4 DEF Shape

HoldEffect ==
  /\ phase = "free" /\ phase' = "free" /\ holding' = TRUE
  /\ UNCHANGED <<port, written, writes, tx, txAt, rx, reads, taken, limit,
                 aborts>>

LEMMA HoldDoes ==
  ASSUME Shape, Hold
  PROVE  Shape' /\ HoldEffect
<1>1. /\ phase = "free" /\ phase' = phase /\ holding' = TRUE
      /\ UNCHANGED <<port, written, writes, tx, txAt, rx, reads, taken, limit,
                     expired, aborts>>
  BY DEF Hold
<1>2. Engaged' /\ phase' \in Phases
  BY <1>1 DEF Engaged, Phases
<1>3. HoldEffect
  BY <1>1 DEF HoldEffect
<1> QED
  BY <1>1, <1>2, <1>3 DEF Shape

Resumes ==
  /\ holding' = FALSE
  /\ \/ writes # <<>> /\ Starts
     \/ writes = <<>> /\ Rests

LEMMA ResumesIs ==
  ASSUME Resume, holding' = FALSE
  PROVE  Resumes
<1>1. \/ writes # <<>> /\ StartTransfer
      \/ writes = <<>> /\ NoTransfer
  BY DEF Resume
<1> QED
  BY <1>1, StartTransferIs, RestsIs DEF Resumes

ReleaseEffect ==
  /\ phase = "free" /\ Resumes
  /\ UNCHANGED <<port, written, writes, tx, txAt, rx, reads, taken, aborts>>

LEMMA ReleaseDoes ==
  ASSUME Shape, Release
  PROVE  Shape' /\ ReleaseEffect
<1>1. /\ phase = "free" /\ holding' = FALSE /\ Resume
      /\ UNCHANGED <<port, written, writes, tx, txAt, rx, reads, taken,
                     expired, aborts>>
  BY DEF Release
<1>2. Resumes
  BY <1>1, ResumesIs
<1>3. Engaged' /\ phase' \in Phases /\ limit' \in 0 .. MaxChars
  BY <1>2, BeginsShaped DEF Resumes
<1>4. ReleaseEffect
  BY <1>1, <1>2 DEF ReleaseEffect
<1> QED
  BY <1>1, <1>3, <1>4 DEF Shape

LEMMA AbortIs ==
  ASSUME Shape, Abort
  PROVE  /\ phase = "free" /\ aborts' = aborts + 1
         /\ aborts' \in 0 .. MaxAborts /\ aborts' # 0 /\ aborts' # aborts
<1>1. phase = "free" /\ aborts < MaxAborts /\ aborts' = aborts + 1
  BY DEF Abort
<1>2. aborts \in 0 .. MaxAborts /\ MaxAborts \in Nat
  BY DataAssumption DEF Shape
<1> QED
  BY <1>1, <1>2

Aborted == aborts' = aborts + 1 /\ aborts' # 0 /\ aborts' # aborts

CancelReadEffect ==
  /\ phase = "free" /\ phase' = "free" /\ Aborted
  /\ ReadsOk(reads') /\ reads # <<>>
  /\ GotIs(reads') = GotIs(reads) \/ GotIs(reads') = <<>>
  /\ UNCHANGED <<port, written, writes, tx, txAt, rx, taken, holding, limit>>

LEMMA CancelReadDoes ==
  ASSUME Shape, NEW i \in 1 .. Len(reads), CancelRead(i)
  PROVE  Shape' /\ CancelReadEffect
<1>1. /\ Abort /\ reads' = RemoveAt(reads, i)
      /\ UNCHANGED <<port, written, writes, tx, txAt, rx, taken, holding,
                     phase, limit, expired>>
  BY DEF CancelRead
<1>2. /\ ReadsOk(reads) /\ Len(reads) <= MaxReads /\ MaxReads \in Nat
  BY DataAssumption DEF Shape
<1>3. /\ ReadsOk(reads') /\ Len(reads') = Len(reads) - 1
      /\ reads # <<>> /\ Len(reads) \in Nat
      /\ GotIs(reads') = GotIs(reads) \/ GotIs(reads') = <<>>
  BY <1>1, <1>2, ReadsRemove
<1>4. phase = "free" /\ Aborted /\ aborts' \in 0 .. MaxAborts
  BY <1>1, AbortIs DEF Aborted
<1>5. Engaged' /\ phase' \in Phases /\ Len(reads') <= MaxReads
  <2>1. phase' = "free"
    BY <1>1, <1>4
  <2>2. Len(reads') <= MaxReads
    BY <1>2, <1>3
  <2> QED
    BY <2>1, <2>2 DEF Engaged, Phases
<1>6. CancelReadEffect
  BY <1>1, <1>3, <1>4 DEF CancelReadEffect
<1> QED
  BY <1>1, <1>3, <1>4, <1>5, <1>6 DEF Shape

CancelWriteEffect ==
  /\ phase = "free" /\ (Starts \/ Rests) /\ Aborted
  /\ WritesOk(writes') /\ writes # <<>>
  /\ \E X \in Seq(Chars), L \in Seq(Chars), Y \in Seq(Chars) :
       /\ FlattenSeq(writes) = X \o (L \o Y)
       /\ FlattenSeq(writes') = X \o Y
  /\ UNCHANGED <<port, written, tx, txAt, rx, reads, taken, holding>>

LEMMA CancelWriteDoes ==
  ASSUME Shape, NEW i \in 1 .. Len(writes), CancelWrite(i)
  PROVE  Shape' /\ CancelWriteEffect
<1>1. /\ Abort /\ writes' = RemoveAt(writes, i)
      /\ StartTransfer \/ NoTransfer
      /\ UNCHANGED <<port, written, tx, txAt, rx, reads, taken, holding,
                     expired>>
  BY DEF CancelWrite
<1>2. /\ WritesOk(writes) /\ Len(writes) <= MaxWrites /\ MaxWrites \in Nat
  BY DataAssumption DEF Shape
<1>3. /\ WritesOk(writes') /\ Len(writes') = Len(writes) - 1
      /\ Len(writes) \in Nat /\ writes # <<>>
      /\ \E X \in Seq(Chars), L \in Seq(Chars), Y \in Seq(Chars) :
           /\ FlattenSeq(writes) = X \o (L \o Y)
           /\ FlattenSeq(writes') = X \o Y
  <2> DEFINE us == RemoveAt(writes, i)
  <2>1. /\ WritesOk(us) /\ Len(us) = Len(writes) - 1
        /\ Len(writes) \in Nat /\ writes # <<>>
        /\ \E X \in Seq(Chars), L \in Seq(Chars), Y \in Seq(Chars) :
             /\ FlattenSeq(writes) = X \o (L \o Y)
             /\ FlattenSeq(us) = X \o Y
    BY <1>2, WritesRemove
  <2>2. writes' = us
    BY <1>1
  <2> HIDE DEF us
  <2> QED
    BY <2>1, <2>2
<1>4. phase = "free" /\ Aborted /\ aborts' \in 0 .. MaxAborts
  BY <1>1, AbortIs DEF Aborted
<1>5. Starts \/ Rests
  BY <1>1, StartTransferIs, RestsIs
<1>6. Engaged' /\ phase' \in Phases /\ limit' \in 0 .. MaxChars
  BY <1>5, BeginsShaped
<1>7. Len(writes') <= MaxWrites
  BY <1>2, <1>3
<1>8. CancelWriteEffect
  BY <1>1, <1>3, <1>4, <1>5 DEF CancelWriteEffect
<1> QED
  BY <1>1, <1>3, <1>4, <1>6, <1>7, <1>8 DEF Shape

PurgeEffect ==
  /\ phase = "free" /\ Aborted /\ rx' = <<>>
  /\ Resumes \/ (Rests /\ holding' = holding)
  /\ UNCHANGED <<port, written, writes, tx, txAt, reads, taken>>

LEMMA PurgeDoes ==
  ASSUME Shape, Purge
  PROVE  Shape' /\ PurgeEffect
<1>1. /\ Abort /\ rx' = <<>>
      /\ \/ holding' = FALSE /\ Resume
         \/ holding' = holding /\ NoTransfer
      /\ UNCHANGED <<port, written, writes, tx, txAt, reads, taken, expired>>
  BY DEF Purge
<1>2. phase = "free" /\ Aborted /\ aborts' \in 0 .. MaxAborts
  BY <1>1, AbortIs DEF Aborted
<1>3. Resumes \/ (Rests /\ holding' = holding)
  BY <1>1, ResumesIs, RestsIs
<1>4. Engaged' /\ phase' \in Phases /\ limit' \in 0 .. MaxChars
  BY <1>3, BeginsShaped DEF Resumes
<1>5. rx' \in Seq(Chars) /\ Len(rx') <= port.rxLimit
  <2>1. <<>> \in Seq(Chars) /\ Len(<<>>) = 0 /\ port.rxLimit \in Nat
    BY SettingIs DEF Shape
  <2> QED
    BY <1>1, <2>1
<1>6. holding' \in BOOLEAN
  BY <1>3 DEF Resumes, Shape
<1>7. PurgeEffect
  BY <1>1, <1>2, <1>3 DEF PurgeEffect
<1> QED
  BY <1>1, <1>2, <1>4, <1>5, <1>6, <1>7 DEF Shape
-----------------------------------------------------------------------------
(***************************************************************************)
(* Every configuration: the type invariant, and what overrun emulation may *)
(* lose.                                                                   *)
(***************************************************************************)
LEMMA ShapeStep ==
  ASSUME Shape, [Next]_vars
  PROVE  Shape'
<1>1. CASE UNCHANGED vars
  <2>1. Engaged'
    BY <1>1 DEF vars, Shape, Engaged
  <2> QED
    BY <1>1, <2>1 DEF vars, Shape
<1>2. ASSUME NEW n \in Lengths, Write(n) \/ Read(n)
      PROVE  Shape'
  BY <1>2, WriteDoes, ReadDoes
<1>3. CASE Tick \/ Expire \/ Hold \/ Release \/ Purge
  BY <1>3, StartDoes, HoldDoes, ReleaseDoes, PurgeDoes
<1>4. ASSUME NEW i \in 1 .. Len(reads), CancelRead(i)
      PROVE  Shape'
  BY <1>4, CancelReadDoes
<1>5. ASSUME NEW i \in 1 .. Len(writes), CancelWrite(i)
      PROVE  Shape'
  BY <1>5, CancelWriteDoes
<1>6. CASE Engine
  BY <1>6, ReadFromRxDoes, ReadFromTxDoes, NoReadDoes, MoveFromTxDoes,
     ReadWriteDirectDoes, EndReadDoes, WriteToBuffersDoes, EndTransferDoes
     DEF Engine
<1> QED
  BY <1>1, <1>2, <1>3, <1>4, <1>5, <1>6 DEF Next

(* Every operation and every iteration of TryReadWrite keeps the state of  *)
(* the data path well-formed: the buffers within their sizes, the reads    *)
(* within their lengths, the write limit never below zero.                 *)
THEOREM DataTypeCorrect == Spec => []TypeOK
<1>1. Init => Shape
  BY InitShape
<1>2. Shape /\ [Next]_vars => Shape'
  BY ShapeStep
<1>3. Shape => TypeOK
  BY ShapeTypes
<1> QED
  BY <1>1, <1>2, <1>3, PTL DEF Spec

(* What is in transit, place by place.                                     *)
Line(g, r, t, f) == g \o ((r \o t) \o f)

LEMMA LineIs ==
  ASSUME NEW g \in Seq(Chars), NEW r \in Seq(Chars), NEW t \in Seq(Chars),
         NEW f \in Seq(Chars)
  PROVE  /\ r \o t \in Seq(Chars)
         /\ (r \o t) \o f \in Seq(Chars)
         /\ Line(g, r, t, f) \in Seq(Chars)
         /\ Range(Line(g, r, t, f))
              = Range(g) \cup Range(r) \cup Range(t) \cup Range(f)
<1> DEFINE u == r \o t
           v == u \o f
<1>1. u \in Seq(Chars) /\ Range(u) = Range(r) \cup Range(t)
  <2>1. u \in Seq(Chars)
    BY ConcatProperties
  <2>2. Range(u) = Range(r) \cup Range(t)
    BY RangeConcat
  <2> QED
    BY <2>1, <2>2
<1>2. v \in Seq(Chars) /\ Range(v) = Range(u) \cup Range(f)
  <2>1. u \in Seq(Chars)
    BY <1>1
  <2> HIDE DEF u
  <2>2. v \in Seq(Chars)
    BY <2>1, ConcatProperties
  <2>3. Range(v) = Range(u) \cup Range(f)
    BY <2>1, RangeConcat
  <2> QED
    BY <2>2, <2>3
<1>3. g \o v \in Seq(Chars) /\ Range(g \o v) = Range(g) \cup Range(v)
  <2>1. v \in Seq(Chars)
    BY <1>2
  <2> HIDE DEF u, v
  <2>2. g \o v \in Seq(Chars)
    BY <2>1, ConcatProperties
  <2>3. Range(g \o v) = Range(g) \cup Range(v)
    BY <2>1, RangeConcat
  <2> QED
    BY <2>2, <2>3
<1>4. Line(g, r, t, f) = g \o v
  BY DEF Line
<1>5. u = r \o t /\ v = (r \o t) \o f
  OBVIOUS
<1> HIDE DEF u, v
<1>6. Range(g \o v) = Range(g) \cup Range(r) \cup Range(t) \cup Range(f)
  BY <1>1, <1>2, <1>3
<1> QED
  BY <1>1, <1>2, <1>3, <1>4, <1>5, <1>6

Spread == Range(GotIs(reads)) \cup Range(rx) \cup Range(tx)
            \cup Range(FlattenSeq(writes))

LEMMA PlacesTypes ==
  ASSUME NEW rs, ReadsOk(rs), NEW ws, WritesOk(ws)
  PROVE  /\ GotIs(rs) \in Seq(Chars) /\ FlattenSeq(ws) \in Seq(Chars)
         /\ AllGot(rs) = GotIs(rs)
<1>1. GotIs(rs) \in Seq(Chars)
  BY GotType
<1>2. FlattenSeq(ws) \in Seq(Chars)
  BY FlattenType DEF WritesOk
<1>3. AllGot(rs) = GotIs(rs)
  BY AllGotIs
<1> QED
  BY <1>1, <1>2, <1>3

LEMMA InTransitIs ==
  ASSUME Shape
  PROVE  /\ GotIs(reads) \in Seq(Chars) /\ FlattenSeq(writes) \in Seq(Chars)
         /\ InTransit = Line(GotIs(reads), rx, tx, FlattenSeq(writes))
         /\ Range(InTransit) = Spread
<1> DEFINE g == GotIs(reads)
           f == FlattenSeq(writes)
<1>1. /\ ReadsOk(reads) /\ WritesOk(writes)
      /\ rx \in Seq(Chars) /\ tx \in Seq(Chars)
  BY DEF Shape
<1>2. InTransit = Line(AllGot(reads), rx, tx, f)
  BY DEF InTransit, InReads, Waiting, AllGot, Line
<1>3. g \in Seq(Chars) /\ f \in Seq(Chars) /\ AllGot(reads) = g
  BY <1>1, PlacesTypes
<1>4. Spread = Range(g) \cup Range(rx) \cup Range(tx) \cup Range(f)
  BY DEF Spread
<1>5. g = GotIs(reads) /\ f = FlattenSeq(writes)
  OBVIOUS
<1> HIDE DEF g, f
<1>6. Range(Line(g, rx, tx, f))
        = Range(g) \cup Range(rx) \cup Range(tx) \cup Range(f)
  BY <1>1, <1>3, LineIs
<1> QED
  BY <1>2, <1>3, <1>4, <1>5, <1>6

LEMMA InTransitNext ==
  ASSUME Shape'
  PROVE  /\ GotIs(reads') \in Seq(Chars) /\ FlattenSeq(writes') \in Seq(Chars)
         /\ InTransit' = Line(GotIs(reads'), rx', tx', FlattenSeq(writes'))
         /\ Range(InTransit') = Spread'
<1> DEFINE g == GotIs(reads')
           f == FlattenSeq(writes')
<1>1. /\ ReadsOk(reads') /\ WritesOk(writes')
      /\ rx' \in Seq(Chars) /\ tx' \in Seq(Chars)
  BY DEF Shape
<1>2. InTransit' = Line(AllGot(reads'), rx', tx', f)
  BY DEF InTransit, InReads, Waiting, AllGot, Line
<1>3. g \in Seq(Chars) /\ f \in Seq(Chars) /\ AllGot(reads') = g
  BY <1>1, PlacesTypes
<1>4. Spread' = Range(g) \cup Range(rx') \cup Range(tx') \cup Range(f)
  BY DEF Spread
<1>5. g = GotIs(reads') /\ f = FlattenSeq(writes')
  OBVIOUS
<1> HIDE DEF g, f
<1>6. Range(Line(g, rx', tx', f))
        = Range(g) \cup Range(rx') \cup Range(tx') \cup Range(f)
  BY <1>1, <1>3, LineIs
<1> QED
  BY <1>2, <1>3, <1>4, <1>5, <1>6

(* What the current read gets is with it or read.                          *)
LEMMA FedRange ==
  ASSUME NEW chars \in Seq(Chars), Fed(chars), taken \in Seq(Chars)
  PROVE  Range(GotIs(reads)) \cup Range(chars)
           \subseteq Range(GotIs(reads')) \cup Range(taken')
<1> DEFINE g == GotIs(reads)
<1>1. g \in Seq(Chars)
  BY DEF Fed
<1>2. \/ taken' = taken \o (g \o chars)
      \/ GotIs(reads') = g \o chars
  BY DEF Fed
<1> HIDE DEF g
<1>3. g \o chars \in Seq(Chars) /\ Range(g \o chars) = Range(g) \cup Range(chars)
  <2>1. g \o chars \in Seq(Chars)
    BY <1>1, ConcatProperties
  <2>2. Range(g \o chars) = Range(g) \cup Range(chars)
    BY <1>1, RangeConcat
  <2> QED
    BY <2>1, <2>2
<1>4. Range(taken \o (g \o chars)) = Range(taken) \cup Range(g \o chars)
  <2> DEFINE c == g \o chars
  <2>1. c \in Seq(Chars) /\ taken \in Seq(Chars)
    BY <1>3
  <2> HIDE DEF c
  <2>2. Range(taken \o c) = Range(taken) \cup Range(c)
    BY <2>1, RangeConcat
  <2> QED
    BY <2>2 DEF c
<1> QED
  BY <1>2, <1>3, <1>4 DEF g

NoneLost == Spread \subseteq Spread' \cup Range(taken') \cup port.dropped

LostToOverrun == port.emuOverrun /\ Len(rx') = RxSize /\ reads = <<>>

LEMMA EmptyRange ==
  ASSUME Shape
  PROVE  <<>> \in Seq(Chars) /\ Range(<<>>) = {} /\ taken \in Seq(Chars)
  BY RangeEmpty DEF Shape

LEMMA ReadFromRxKeeps ==
  ASSUME Shape, ReadFromRx
  PROVE  NoneLost
<1>1. PICK n : ReadFromRxEffect(n)
  BY ReadFromRxDoes
<1>2. /\ n \in Nat /\ n <= Len(rx) /\ rx' = Rest(rx, n)
      /\ writes' = writes /\ tx' = tx
  BY <1>1 DEF ReadFromRxEffect
<1>3. rx \in Seq(Chars) /\ First(rx, n) \in Seq(Chars)
  BY <1>2, FirstRest DEF Shape
<1>4. Range(rx) = Range(First(rx, n)) \cup Range(rx')
  BY <1>2, <1>3, RangeFirstRest
<1>5. Range(GotIs(reads)) \cup Range(First(rx, n))
        \subseteq Range(GotIs(reads')) \cup Range(taken')
  BY <1>1, <1>3, FedRange, EmptyRange DEF ReadFromRxEffect
<1> QED
  BY <1>2, <1>4, <1>5 DEF NoneLost, Spread

LEMMA ReadFromTxKeeps ==
  ASSUME Shape, ReadFromTx
  PROVE  NoneLost
<1>1. PICK n : ReadFromTxEffect(n)
  BY ReadFromTxDoes
<1> DEFINE c == First(tx, n)
<1>2. /\ n \in Nat /\ n <= Len(Chunk) /\ SentFromTx(n) /\ Fed(Kept(c))
      /\ writes' = writes /\ rx' = rx
  BY <1>1 DEF ReadFromTxEffect
<1>3. /\ c \in Seq(Chars) /\ n <= Len(tx) /\ tx' = Rest(tx, n)
      /\ tx \in Seq(Chars)
  BY <1>2, SentIs DEF Shape
<1>4. Range(tx) = Range(c) \cup Range(tx')
  BY <1>2, <1>3, RangeFirstRest
<1> HIDE DEF c
<1>5. Kept(c) \in Seq(Chars) /\ Range(Kept(c)) = Range(c) \ port.dropped
  BY <1>3, KeptIs
<1>6. Range(GotIs(reads)) \cup Range(Kept(c))
        \subseteq Range(GotIs(reads')) \cup Range(taken')
  BY <1>2, <1>5, FedRange, EmptyRange
<1> QED
  BY <1>2, <1>4, <1>5, <1>6 DEF NoneLost, Spread

(* WriteToBuffer: what it takes is stored, stripped, or lost to overrun.   *)
LEMMA StoreKeeps ==
  ASSUME Shape, NEW src \in Seq(Chars), rx' = rx \o Stored(src)
  PROVE  \/ Range(rx) \cup Range(First(src, Accepted(src)))
              \subseteq Range(rx') \cup port.dropped
         \/ port.emuOverrun /\ Len(rx') = RxSize /\ Accepted(src) # 0
<1> DEFINE c == First(src, Accepted(src))
<1>1. RxFits /\ rx \in Seq(Chars)
  BY LimitIs DEF RxFits
<1>2. /\ Accepted(src) \in Nat /\ Accepted(src) <= Len(src)
  BY <1>1, AcceptedIs
<1>3. c \in Seq(Chars) /\ Len(c) = Accepted(src)
  BY <1>2, FirstRest
<1>4. PICK left : Leaves(src, left)
  BY <1>1, StoredIs
<1>5. /\ left \in Seq(Chars) /\ Kept(c) = Stored(src) \o left
      /\ Stored(src) \in Seq(Chars)
      /\ left # <<>> => Lossy /\ Len(Stored(src)) = RxRoom
  BY <1>4 DEF Leaves
<1> HIDE DEF c
<1>6. Kept(c) \in Seq(Chars) /\ Range(Kept(c)) = Range(c) \ port.dropped
  BY <1>3, KeptIs
<1>7. CASE left = <<>>
  <2>1. Kept(c) = Stored(src)
    BY <1>5, <1>7, ConcatEmptySeq
  <2>2. Range(rx \o Stored(src)) = Range(rx) \cup Range(Stored(src))
    BY <1>1, <1>5, RangeConcat
  <2>3. Range(rx) \cup Range(c) \subseteq Range(rx') \cup port.dropped
    BY <1>6, <2>1, <2>2
  <2> QED
    BY <2>3 DEF c
<1>8. CASE left # <<>>
  <2>1. Lossy /\ Len(Stored(src)) = RxRoom
    BY <1>5, <1>8
  <2>2. Len(rx') = port.rxLimit
    BY <1>1, <2>1, StoreFits
  <2>3. Accepted(src) # 0
    <3>1. ASSUME Accepted(src) = 0
          PROVE  FALSE
      <4>1. c = <<>>
        BY <1>3, <3>1, EmptyByLen
      <4>2. Stored(src) \o left = <<>>
        BY <1>5, <4>1, KeptEmpty
      <4>3. left = <<>>
        BY <1>5, <4>2, ConcatEqualIffEmpty
      <4> QED
        BY <1>8, <4>3
    <3> QED
      BY <3>1
  <2> QED
    BY <2>1, <2>2, <2>3 DEF Lossy
<1> QED
  BY <1>7, <1>8

LEMMA MoveFromTxKeeps ==
  ASSUME Shape, MoveFromTx
  PROVE  NoneLost \/ LostToOverrun
<1>1. PICK n : MoveFromTxEffect(n)
  BY MoveFromTxDoes
<1>2. /\ n \in Nat /\ n <= Len(Chunk) /\ SentFromTx(n) /\ n = Accepted(Chunk)
      /\ rx' = rx \o Stored(Chunk) /\ reads = <<>>
      /\ writes' = writes /\ reads' = reads
  BY <1>1 DEF MoveFromTxEffect
<1>3. /\ First(Chunk, n) = First(tx, n) /\ n <= Len(tx) /\ tx' = Rest(tx, n)
      /\ tx \in Seq(Chars) /\ Chunk \in Seq(Chars)
  BY <1>2, SentIs DEF Shape
<1>4. Range(tx) = Range(First(tx, n)) \cup Range(tx')
  BY <1>2, <1>3, RangeFirstRest
<1>5. \/ Range(rx) \cup Range(First(tx, n)) \subseteq Range(rx') \cup port.dropped
      \/ port.emuOverrun /\ Len(rx') = RxSize
  BY <1>2, <1>3, StoreKeeps
<1>6. GotIs(reads') = GotIs(reads) /\ FlattenSeq(writes') = FlattenSeq(writes)
  BY <1>2
<1> QED
  BY <1>2, <1>4, <1>5, <1>6 DEF NoneLost, Spread, LostToOverrun

(* The characters of the write queue, the current write apart.             *)
LEMMA QueueRange ==
  ASSUME Shape, writes # <<>>, NEW n \in Nat, n <= Len(Head(writes))
  PROVE  /\ Range(FlattenSeq(writes))
              = Range(First(Head(writes), n)) \cup Range(Rest(Head(writes), n))
                  \cup Range(FlattenSeq(Tail(writes)))
         /\ Range(FlattenSeq(AfterWriting(n)))
              = Range(Rest(Head(writes), n))
                  \cup Range(FlattenSeq(Tail(writes)))
<1> DEFINE w == Head(writes)
           f == FlattenSeq(Tail(writes))
<1>1. /\ w \in Seq(Chars) /\ f \in Seq(Chars)
      /\ FlattenSeq(writes) = w \o f
  BY HeadWrite DEF Shape
<1>2. FlattenSeq(AfterWriting(n)) = Rest(w, n) \o f
  BY WritesAfter DEF Shape
<1> HIDE DEF f
<1>3. Rest(w, n) \in Seq(Chars)
  BY <1>1, FirstRest
<1>4. Range(w) = Range(First(w, n)) \cup Range(Rest(w, n))
  BY <1>1, RangeFirstRest
<1>5. Range(w \o f) = Range(w) \cup Range(f)
  BY <1>1, RangeConcat
<1>6. Range(Rest(w, n) \o f) = Range(Rest(w, n)) \cup Range(f)
  BY <1>1, <1>3, RangeConcat
<1>7. /\ Range(FlattenSeq(writes))
           = Range(First(w, n)) \cup Range(Rest(w, n)) \cup Range(f)
      /\ Range(FlattenSeq(AfterWriting(n))) = Range(Rest(w, n)) \cup Range(f)
  BY <1>1, <1>2, <1>4, <1>5, <1>6
<1> QED
  BY <1>7 DEF f

LEMMA ReadWriteDirectKeeps ==
  ASSUME Shape, ReadWriteDirect
  PROVE  NoneLost
<1>1. PICK n : ReadWriteDirectEffect(n)
  BY ReadWriteDirectDoes
<1> DEFINE w == Head(writes)
           c == First(w, n)
<1>2. /\ n \in Nat /\ n <= Len(w) /\ writes # <<>>
      /\ Fed(Kept(c)) /\ writes' = AfterWriting(n)
      /\ rx' = rx /\ tx' = tx
  BY <1>1 DEF ReadWriteDirectEffect
<1>3. c \in Seq(Chars)
  <2>1. w \in Seq(Chars)
    BY <1>2, HeadWrite DEF Shape
  <2> QED
    BY <1>2, <2>1, FirstRest
<1>4. Range(FlattenSeq(writes)) \subseteq Range(c) \cup Range(FlattenSeq(writes'))
  BY <1>2, QueueRange
<1> HIDE DEF c
<1>5. Kept(c) \in Seq(Chars) /\ Range(Kept(c)) = Range(c) \ port.dropped
  BY <1>3, KeptIs
<1>6. Range(GotIs(reads)) \cup Range(Kept(c))
        \subseteq Range(GotIs(reads')) \cup Range(taken')
  BY <1>2, <1>5, FedRange, EmptyRange
<1> QED
  BY <1>2, <1>4, <1>5, <1>6 DEF NoneLost, Spread

LEMMA EndReadKeeps ==
  ASSUME Shape, EndRead
  PROVE  NoneLost
<1>1. Fed(<<>>) /\ rx' = rx /\ tx' = tx /\ writes' = writes
  BY EndReadDoes DEF EndReadEffect
<1>2. Range(GotIs(reads)) \cup Range(<<>>)
        \subseteq Range(GotIs(reads')) \cup Range(taken')
  BY <1>1, FedRange, EmptyRange
<1> QED
  BY <1>1, <1>2 DEF NoneLost, Spread

LEMMA WriteToBuffersKeeps ==
  ASSUME Shape, WriteToBuffers
  PROVE  NoneLost \/ LostToOverrun
<1>1. PICK n, more : WriteToBuffersEffect(n, more)
  BY WriteToBuffersDoes
<1> DEFINE w == Head(writes)
           l == Len(more)
<1>2. /\ writes # <<>> /\ phase = "buffer" /\ ~holding
      /\ n = Accepted(Src) /\ n \in Nat /\ n <= Len(Src) /\ n <= Len(w)
      /\ more = ToTx(Rest(w, n)) /\ l \in Nat /\ n + l <= Len(w)
      /\ Rest(w, n) \in Seq(Chars)
      /\ rx' = rx \o Stored(Src) /\ tx' = tx \o more
      /\ writes' = AfterWriting(n + l) /\ reads' = reads
  BY <1>1 DEF WriteToBuffersEffect
<1>3. /\ w \in Seq(Chars) /\ Len(w) \in Nat /\ Src \in Seq(Chars)
      /\ Len(Src) <= limit /\ First(Src, n) = First(w, n)
  BY <1>2, SrcIs
<1>4. more \in Seq(Chars) /\ more = First(Rest(w, n), l)
  BY <1>2, ToTxIs
<1>5. l <= Len(Rest(w, n)) /\ Rest(Rest(w, n), l) = Rest(w, n + l)
  <2>1. Len(Rest(w, n)) = Len(w) - n
    BY <1>2, <1>3, FirstRest
  <2> HIDE DEF w, l
  <2>2. l <= Len(Rest(w, n))
    BY <1>2, <1>3, <2>1
  <2> QED
    BY <1>2, <1>3, <2>2, RestRest
<1>6. Range(Rest(w, n)) = Range(more) \cup Range(Rest(w, n + l))
  <2> DEFINE v == Rest(w, n)
  <2>1. Range(v) = Range(First(v, l)) \cup Range(Rest(v, l))
    <3> HIDE DEF v, l
    <3>1. v \in Seq(Chars) /\ l \in Nat /\ l <= Len(v)
      BY <1>2, <1>5 DEF v
    <3> QED
      BY <3>1, RangeFirstRest
  <2> QED
    BY <1>4, <1>5, <2>1
<1>7. Range(FlattenSeq(writes)) = Range(First(w, n)) \cup Range(Rest(w, n))
        \cup Range(FlattenSeq(Tail(writes)))
  BY <1>2, QueueRange
<1>8. Range(FlattenSeq(writes')) = Range(Rest(w, n + l))
        \cup Range(FlattenSeq(Tail(writes)))
  <2> DEFINE m == n + l
  <2>1. m \in Nat /\ m <= Len(w)
    BY <1>2
  <2>3. writes' = AfterWriting(m)
    BY <1>2
  <2>5. m = n + l
    OBVIOUS
  <2> HIDE DEF m
  <2>2. Range(FlattenSeq(AfterWriting(m))) = Range(Rest(w, m))
        \cup Range(FlattenSeq(Tail(writes)))
    BY <1>2, <2>1, QueueRange
  <2> HIDE DEF w, l
  <2>4. Range(FlattenSeq(writes')) = Range(Rest(w, m))
        \cup Range(FlattenSeq(Tail(writes)))
    BY <2>2, <2>3
  <2> QED
    BY <2>4, <2>5
<1>9. Range(tx') = Range(tx) \cup Range(more)
  <2>1. tx \in Seq(Chars) /\ more \in Seq(Chars)
    BY <1>4 DEF Shape
  <2>2. Range(tx \o more) = Range(tx) \cup Range(more)
    BY <2>1, RangeConcat
  <2> QED
    BY <1>2, <2>2
<1>10. \/ Range(rx) \cup Range(First(w, n)) \subseteq Range(rx') \cup port.dropped
       \/ port.emuOverrun /\ Len(rx') = RxSize /\ n # 0
  BY <1>2, <1>3, StoreKeeps
<1>11. n # 0 => reads = <<>>
  <2>1. reads # <<>> => limit = 0
    BY <1>2 DEF Shape, Engaged
  <2>2. limit = 0 => n = 0
    <3>1. Len(Src) \in Nat
      BY <1>3, LenProperties
    <3> HIDE DEF w, l
    <3> QED
      BY <1>2, <1>3, <3>1
  <2> QED
    BY <2>1, <2>2
<1>12. GotIs(reads') = GotIs(reads)
  BY <1>2
<1> HIDE DEF w, l
<1> QED
  BY <1>6, <1>7, <1>8, <1>9, <1>10, <1>11, <1>12
     DEF NoneLost, Spread, LostToOverrun

LEMMA WriteKeeps ==
  ASSUME Shape, NEW n, WriteEffect(n)
  PROVE  NoneLost
<1> DEFINE w == [i \in 1 .. n |-> written + i]
           f == FlattenSeq(writes)
<1>1. /\ w \in Seq(Chars) /\ w # <<>> /\ writes' = Append(writes, w)
      /\ rx' = rx /\ tx' = tx /\ reads' = reads
  BY DEF WriteEffect
<1>2. WritesOk(writes) /\ f \in Seq(Chars)
  BY PlacesTypes DEF Shape
<1> HIDE DEF w
<1>3. FlattenSeq(writes') = f \o w
  BY <1>1, <1>2, WritesAppend
<1> HIDE DEF f
<1>4. Range(f \o w) = Range(f) \cup Range(w)
  BY <1>1, <1>2, RangeConcat
<1>5. f = FlattenSeq(writes)
  BY DEF f
<1>6. GotIs(reads') = GotIs(reads)
  BY <1>1
<1> QED
  BY <1>1, <1>3, <1>4, <1>5, <1>6 DEF NoneLost, Spread

(* No other step of the engine, and no other section that aborts nothing,  *)
(* moves a character.                                                      *)
LEMMA NothingMoves ==
  ASSUME UNCHANGED <<rx, tx, writes>>, GotIs(reads') = GotIs(reads)
  PROVE  NoneLost
<1>1. FlattenSeq(writes') = FlattenSeq(writes) /\ rx' = rx /\ tx' = tx
  OBVIOUS
<1> QED
  BY <1>1 DEF NoneLost, Spread

LEMMA LossStep ==
  ASSUME Shape, Next
  PROVE  NoneLost \/ LostToOverrun \/ aborts' # aborts
<1>1. ASSUME NEW n \in Lengths, Write(n)
      PROVE  NoneLost
  BY <1>1, WriteDoes, WriteKeeps
<1>2. ASSUME NEW n \in Lengths, Read(n)
      PROVE  NoneLost
  BY <1>2, ReadDoes, NothingMoves DEF ReadEffect
<1>3. CASE Tick \/ Expire \/ Hold \/ Release
  <2>1. UNCHANGED <<rx, tx, writes, reads>>
    BY <1>3, StartDoes, HoldDoes, ReleaseDoes
       DEF StartEffect, HoldEffect, ReleaseEffect
  <2>2. GotIs(reads') = GotIs(reads)
    BY <2>1
  <2> QED
    BY <2>1, <2>2, NothingMoves
<1>4. CASE Purge
  BY <1>4, PurgeDoes DEF PurgeEffect, Aborted
<1>5. ASSUME NEW i \in 1 .. Len(reads), CancelRead(i)
      PROVE  aborts' # aborts
  BY <1>5, CancelReadDoes DEF CancelReadEffect, Aborted
<1>6. ASSUME NEW i \in 1 .. Len(writes), CancelWrite(i)
      PROVE  aborts' # aborts
  BY <1>6, CancelWriteDoes DEF CancelWriteEffect, Aborted
<1>7. CASE NoRead \/ EndTransfer
  <2>1. UNCHANGED <<rx, tx, writes, reads>>
    BY <1>7, NoReadDoes, EndTransferDoes DEF NoReadEffect, EndTransferEffect
  <2>2. GotIs(reads') = GotIs(reads)
    BY <2>1
  <2> QED
    BY <2>1, <2>2, NothingMoves
<1>8. CASE ReadFromRx \/ ReadFromTx \/ ReadWriteDirect \/ EndRead
  BY <1>8, ReadFromRxKeeps, ReadFromTxKeeps, ReadWriteDirectKeeps, EndReadKeeps
<1>9. CASE MoveFromTx \/ WriteToBuffers
  BY <1>9, MoveFromTxKeeps, WriteToBuffersKeeps
<1> QED
  BY <1>1, <1>2, <1>3, <1>4, <1>5, <1>6, <1>7, <1>8, <1>9 DEF Next, Engine

OverrunOnly ==
  LET lost == Range(InTransit) \ (Range(InTransit') \cup Range(taken')
                                      \cup port.dropped)
  IN  lost # {} /\ aborts' = aborts
        => port.emuOverrun /\ Len(rx') = RxSize /\ reads = <<>>

LEMMA OverrunOnlyStep ==
  ASSUME Shape, Shape', Next
  PROVE  OverrunOnly
<1>1. Range(InTransit) = Spread /\ Range(InTransit') = Spread'
  BY InTransitIs, InTransitNext
<1>2. NoneLost => Range(InTransit)
        \subseteq Range(InTransit') \cup Range(taken') \cup port.dropped
  BY <1>1 DEF NoneLost
<1>3. NoneLost => OverrunOnly
  BY <1>2 DEF OverrunOnly
<1>4. LostToOverrun \/ aborts' # aborts => OverrunOnly
  BY DEF LostToOverrun, OverrunOnly
<1> QED
  BY <1>3, <1>4, LossStep

(* Overrun emulation (WriteToBuffer, SendTxBuffer) loses a character that  *)
(* the receiver wants only when readBuf is full to its size and no read is *)
(* pending, in every configuration: whatever no cancel, no timeout and no  *)
(* purge takes away, and no filter strips, is not lost otherwise.          *)
THEOREM LosesOnlyWhenFull == Spec => LostOnlyWhenFull
<1>1. Init => Shape
  BY InitShape
<1>2. Shape /\ [Next]_vars => Shape'
  BY ShapeStep
<1>3. Shape /\ Shape' /\ [Next]_vars => [OverrunOnly]_vars
  BY OverrunOnlyStep
<1> QED
  BY <1>1, <1>2, <1>3, PTL DEF Spec, LostOnlyWhenFull, OverrunOnly
=============================================================================
