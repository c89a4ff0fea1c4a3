--------------------------- MODULE HandFlowProofs ---------------------------
(***************************************************************************)
(* Theorems about HandFlow, for any wiring of the pins, any settings and   *)
(* any sizes of the buffers.                                               *)
(*                                                                         *)
(* The handlers are compositions of operators that take the state of both  *)
(* ports and return it changed.  So most lemmas say of one operator that   *)
(* it returns a state (States) and which relations it keeps: Unmoved for   *)
(* those that leave the lines, the flow control and its reasons alone.     *)
(* XON and XOFF, and what waits for room, come last, with invariants of    *)
(* their own (XonOwing, HeldInv).                                          *)
(***************************************************************************)
EXTENDS HandFlow, SequenceTheorems, FiniteSetTheorems, WellFoundedInduction,
        TLAPS

(* A port that is closed has no readBuf and no requests, and holds nobody. *)
Fit(q) == Len(q.tx) <= TxSize /\ q.flow.xoffLimit <= BufSize

Good(q) ==
  /\ Fit(q)
  /\ ~q.isOpen => /\ q.size = 0 /\ q.limit = 0 /\ q.busy = 0 /\ q.reading = 0
                  /\ q.holdingRemote = {}

States == {s \in [Ports -> PortType] : \A p \in Ports : Good(s[p])}

(* Within a close readBuf is freed after the lines are set.                *)
Loose == {s \in [Ports -> PortType] : \A p \in Ports : Fit(s[p])}

Like(q, r) ==
  /\ r.isOpen = q.isOpen /\ r.flow = q.flow
  /\ r.modemControl = q.modemControl /\ r.modemStatus = q.modemStatus
  /\ r.holdingRemote = q.holdingRemote
  /\ r.holding \cap Lines = q.holding \cap Lines

Unmoved(s, t) == \A p \in Ports : Like(s[p], t[p])
-----------------------------------------------------------------------------
LEMMA RemotePort ==
  \A p \in Ports : /\ Remote(p) \in Ports /\ Remote(p) # p
                   /\ Remote(Remote(p)) = p
                   /\ \A q \in Ports : q = p \/ q = Remote(p)
BY DEF Ports, Remote

LEMMA HoldNames ==
  /\ "XON" \notin Lines /\ "BREAK" \notin Lines
  /\ "XON" \in Holds /\ "BREAK" \in Holds /\ Lines \subseteq Holds
BY DEF Lines, Holds

LEMMA Looser == \A s \in States : s \in Loose
BY DEF States, Loose, Good, Fit

LEMMA UnmovedTwice ==
  ASSUME NEW s, NEW t, NEW u, Unmoved(s, t), Unmoved(t, u)
  PROVE  Unmoved(s, u)
BY DEF Unmoved, Like

LEMMA UnmovedSelf == \A s : Unmoved(s, s)
BY DEF Unmoved, Like

(* One port is replaced by what is like it.                                *)
LEMMA Replaced ==
  ASSUME NEW s \in States, NEW p \in Ports, NEW q \in PortType, Good(q)
  PROVE  /\ [s EXCEPT ![p] = q] \in States
         /\ Like(s[p], q) => Unmoved(s, [s EXCEPT ![p] = q])
         /\ [s EXCEPT ![p] = q][p] = q
         /\ \A r \in Ports : r # p => [s EXCEPT ![p] = q][r] = s[r]
BY DEF States, Unmoved, Like

LEMMA ReplacedLoose ==
  ASSUME NEW s \in Loose, NEW p \in Ports, NEW q \in PortType, Fit(q)
  PROVE  /\ [s EXCEPT ![p] = q] \in Loose
         /\ s \in States /\ Good(q) => [s EXCEPT ![p] = q] \in States
         /\ [s EXCEPT ![p] = q][p] = q
         /\ \A r \in Ports : r # p => [s EXCEPT ![p] = q][r] = s[r]
BY DEF States, Loose

LEMMA XonXoffHolding ==
  ASSUME NEW s \in States, NEW p \in Ports, NEW char
  PROVE  /\ SetXonXoffHolding(s, p, char) \in States
         /\ Unmoved(s, SetXonXoffHolding(s, p, char))
<1> DEFINE t == SetXonXoffHolding(s, p, char)
<1>0. s[p] \in PortType /\ Good(s[p]) /\ s \in [Ports -> PortType]
  BY DEF States
<1>1. CASE char = "on" /\ "XON" \in s[p].holding
  <2> DEFINE q == [s[p] EXCEPT !.holding = @ \ {"XON"},
                               !.tryWrite = \/ @
                                            \/ /\ s[p].holding = {"XON"}
                                               /\ s[p].writing > 0]
  <2>1. q \in PortType
    BY <1>0, HoldNames DEF PortType
  <2>2. Good(q) /\ Like(s[p], q)
    BY <1>0, HoldNames DEF PortType, Good, Fit, Like
  <2>3. t = [s EXCEPT ![p] = q]
    BY <1>0, <1>1 DEF SetXonXoffHolding
  <2> HIDE DEF q
  <2>4. [s EXCEPT ![p] = q] \in States /\ Unmoved(s, [s EXCEPT ![p] = q])
    BY <2>1, <2>2, Replaced
  <2> QED
    BY <2>3, <2>4
<1>2. CASE char = "off"
  <2> DEFINE q == [s[p] EXCEPT !.holding = @ \cup {"XON"}]
  <2>1. q \in PortType
    BY <1>0, HoldNames DEF PortType
  <2>2. Good(q) /\ Like(s[p], q)
    BY <1>0, HoldNames DEF PortType, Good, Fit, Like
  <2>3. t = [s EXCEPT ![p] = q]
    BY <1>0, <1>2 DEF SetXonXoffHolding
  <2> HIDE DEF q
  <2>4. [s EXCEPT ![p] = q] \in States /\ Unmoved(s, [s EXCEPT ![p] = q])
    BY <2>1, <2>2, Replaced
  <2> QED
    BY <2>3, <2>4
<1>3. CASE char # "off" /\ ~(char = "on" /\ "XON" \in s[p].holding)
  BY <1>3, UnmovedSelf DEF SetXonXoffHolding
<1> QED
  BY <1>1, <1>2, <1>3

LEMMA BreakHolding ==
  ASSUME NEW s \in States, NEW p \in Ports, NEW on \in BOOLEAN
  PROVE  /\ SetBreakHolding(s, p, on) \in States
         /\ Unmoved(s, SetBreakHolding(s, p, on))
<1> DEFINE t == SetBreakHolding(s, p, on)
<1>0. s[p] \in PortType /\ Good(s[p]) /\ s \in [Ports -> PortType]
  BY DEF States
<1>1. CASE on /\ "BREAK" \notin s[p].holding
  <2> DEFINE q == [s[p] EXCEPT !.holding = @ \cup {"BREAK"},
                               !.sendBreak = TRUE, !.tryWrite = TRUE]
  <2>1. q \in PortType
    BY <1>0, HoldNames DEF PortType
  <2>2. Good(q) /\ Like(s[p], q)
    BY <1>0, HoldNames DEF PortType, Good, Fit, Like
  <2>3. t = [s EXCEPT ![p] = q]
    BY <1>0, <1>1 DEF SetBreakHolding
  <2> HIDE DEF q
  <2>4. [s EXCEPT ![p] = q] \in States /\ Unmoved(s, [s EXCEPT ![p] = q])
    BY <2>1, <2>2, Replaced
  <2> QED
    BY <2>3, <2>4
<1>2. CASE ~on /\ "BREAK" \in s[p].holding
  <2> DEFINE new == s[p].holding \ {"BREAK"}
             q == [s[p] EXCEPT !.holding = new, !.sendBreak = FALSE,
                     !.tryWrite =
                        \/ @
                        \/ new \subseteq {"XON"} /\ s[p].sendXonXoff # "none"
                        \/ new = {} /\ s[p].writing > 0]
  <2>1. q \in PortType
    BY <1>0, HoldNames DEF PortType
  <2>2. Good(q) /\ Like(s[p], q)
    BY <1>0, HoldNames DEF PortType, Good, Fit, Like
  <2>3. t = [s EXCEPT ![p] = q]
    BY <1>0, <1>2 DEF SetBreakHolding
  <2> HIDE DEF q
  <2>4. [s EXCEPT ![p] = q] \in States /\ Unmoved(s, [s EXCEPT ![p] = q])
    BY <2>1, <2>2, Replaced
  <2> QED
    BY <2>3, <2>4
<1>3. CASE ~(on /\ "BREAK" \notin s[p].holding)
           /\ ~(~on /\ "BREAK" \in s[p].holding)
  BY <1>3, UnmovedSelf DEF SetBreakHolding
<1> QED
  BY <1>1, <1>2, <1>3
-----------------------------------------------------------------------------
(***************************************************************************)
(* Characters on their way.                                                *)
(***************************************************************************)
Chars == {"data", "on", "off"}

OnWire == Chars \cup {"lost"}   (* what OnLine makes of them               *)

KeptAmong(q, chars, n) == {i \in 1 .. n : Keeps(q, chars[i])}

LEMMA KeptPrefix ==
  ASSUME NEW q, NEW chars \in Seq(OnWire), NEW n \in 0 .. Len(chars)
  PROVE  /\ Kept(q, SubSeq(chars, 1, n)) = Cardinality(KeptAmong(q, chars, n))
         /\ Kept(q, SubSeq(chars, 1, n)) \in 0 .. n
<1> DEFINE sub == SubSeq(chars, 1, n)
<1>1. \A i \in 1 .. n : chars[i] \in OnWire
  BY ElementOfSeq, LenProperties
<1>2. /\ sub \in Seq(OnWire) /\ Len(sub) = n
      /\ \A i \in 1 .. n : sub[i] = chars[i]
  BY <1>1, SubSeqProperties, LenProperties
<1>3. DOMAIN sub = 1 .. n
  BY <1>2, LenProperties
<1>4. {i \in DOMAIN sub : Keeps(q, sub[i])} = KeptAmong(q, chars, n)
  BY <1>2, <1>3 DEF KeptAmong
<1>5. KeptAmong(q, chars, n) \subseteq 1 .. n
  BY DEF KeptAmong
<1>6. IsFiniteSet(1 .. n) /\ Cardinality(1 .. n) = n
  BY FS_Interval, LenProperties
<1>7. Cardinality(KeptAmong(q, chars, n)) \in 0 .. n
  BY <1>5, <1>6, FS_Subset, FS_CardinalityType
<1> QED
  BY <1>4, <1>7 DEF Kept

LEMMA KeptNext ==
  ASSUME NEW q, NEW chars \in Seq(OnWire), NEW n \in 0 .. Len(chars), n > 0
  PROVE  Kept(q, SubSeq(chars, 1, n)) <= Kept(q, SubSeq(chars, 1, n - 1)) + 1
<1>1. n - 1 \in 0 .. Len(chars) /\ n \in Nat
  BY LenProperties
<1>2. IsFiniteSet(KeptAmong(q, chars, n - 1))
  <2>1. KeptAmong(q, chars, n - 1) \subseteq 1 .. n - 1
    BY DEF KeptAmong
  <2>2. IsFiniteSet(1 .. n - 1)
    BY <1>1, FS_Interval
  <2> QED
    BY <2>1, <2>2, FS_Subset
<1>3. \/ KeptAmong(q, chars, n) = KeptAmong(q, chars, n - 1)
      \/ KeptAmong(q, chars, n) = KeptAmong(q, chars, n - 1) \cup {n}
  BY <1>1 DEF KeptAmong
<1>4. n \notin KeptAmong(q, chars, n - 1)
  BY <1>1 DEF KeptAmong
<1>5. \/ Cardinality(KeptAmong(q, chars, n)) =
           Cardinality(KeptAmong(q, chars, n - 1))
      \/ Cardinality(KeptAmong(q, chars, n)) =
           Cardinality(KeptAmong(q, chars, n - 1)) + 1
  BY <1>2, <1>3, <1>4, FS_AddElement
<1> QED
  BY <1>1, <1>5, KeptPrefix

LEMMA KeptMore ==
  ASSUME NEW q, NEW chars \in Seq(OnWire), NEW n \in 0 .. Len(chars),
         NEW m \in 0 .. n
  PROVE  Kept(q, SubSeq(chars, 1, m)) <= Kept(q, SubSeq(chars, 1, n))
<1>1. m \in 0 .. Len(chars) /\ n \in Nat
  BY LenProperties
<1>2. KeptAmong(q, chars, m) \subseteq KeptAmong(q, chars, n)
  BY <1>1 DEF KeptAmong
<1>3. IsFiniteSet(KeptAmong(q, chars, n))
  <2>1. KeptAmong(q, chars, n) \subseteq 1 .. n
    BY DEF KeptAmong
  <2>2. IsFiniteSet(1 .. n)
    BY <1>1, FS_Interval
  <2> QED
    BY <2>1, <2>2, FS_Subset
<1> QED
  BY <1>1, <1>2, <1>3, FS_Subset, KeptPrefix

(* Taken stops where there is no room for the next, and not before.        *)
LEMMA TakenFits ==
  ASSUME NEW q, NEW chars \in Seq(OnWire), NEW room \in Int
  PROVE  LET n == Taken(q, chars, room)
         IN  /\ n \in 0 .. Len(chars)
             /\ room <= 0 => n = 0
             /\ room > 0 => Kept(q, SubSeq(chars, 1, n)) <= room
             /\ n < Len(chars) => Kept(q, SubSeq(chars, 1, n)) >= room
<1> DEFINE L == Len(chars)
           K(n) == Kept(q, SubSeq(chars, 1, n))
           fits == {k \in 1 .. L : K(k - 1) < room}
           c == Cardinality(fits)
           n == Taken(q, chars, room)
<1>1. L \in Nat
  BY LenProperties
<1>2. \A i \in 0 .. L : K(i) \in Nat
  BY KeptPrefix, <1>1
<1>3. K(0) = 0
  BY KeptPrefix, <1>1
<1>4. IsFiniteSet(fits) /\ c \in Nat
  <2>1. IsFiniteSet(1 .. L)
    BY <1>1, FS_Interval
  <2>2. fits \subseteq 1 .. L
    OBVIOUS
  <2> QED
    BY <2>1, <2>2, FS_Subset, FS_CardinalityType
<1>5. \A i \in 0 .. L : \A j \in 0 .. i : K(j) <= K(i)
  BY KeptMore
<1>6. \A i \in 0 .. L : i > 0 => K(i) <= K(i - 1) + 1
  BY KeptNext
<1>7. n = IF fits = {} THEN 0 ELSE CHOOSE k \in fits : \A j \in fits : j <= k
  BY DEF Taken
<1> HIDE DEF K, L, n
<1>0. \A k : k \in fits <=> k \in 1 .. L /\ K(k - 1) < room
  OBVIOUS
<1> HIDE DEF fits
<1>8. \A k \in fits : k <= c
  <2> SUFFICES ASSUME NEW k \in fits PROVE k <= c
    OBVIOUS
  <2>1. 1 .. k \subseteq fits
    BY <1>1, <1>2, <1>5, <1>0
  <2>2. Cardinality(1 .. k) = k
    BY <1>1, <1>0, FS_Interval
  <2> QED
    BY <1>4, <2>1, <2>2, FS_Subset
<1>9. fits # {} => c \in fits
  <2> SUFFICES ASSUME fits # {}, c \notin fits PROVE FALSE
    OBVIOUS
  <2>1. c > 0
    BY <1>1, <1>4, <1>8, <1>0
  <2> DEFINE d == c - 1
  <2>2. d \in Nat /\ \A k \in fits : k \in 1 .. d
    <3> HIDE DEF c
    <3>1. \A k \in fits : k \in Nat /\ k >= 1 /\ k <= c /\ k # c
      BY <1>0, <1>1, <1>8
    <3> QED
      BY <1>4, <2>1, <3>1
  <2> HIDE DEF d
  <2>3. fits \subseteq 1 .. d /\ IsFiniteSet(1 .. d) /\ Cardinality(1 .. d) = d
    BY <2>2, FS_Interval
  <2>4. c <= d
    BY <2>3, FS_Subset
  <2> QED
    BY <1>4, <2>4 DEF d
<1>10. /\ fits = {} => n = 0
       /\ fits # {} => n \in fits /\ \A j \in fits : j <= n
  <2> HIDE DEF c
  <2> QED
    BY <1>7, <1>8, <1>9
<1>11. n \in 0 .. L
  BY <1>1, <1>0, <1>10
<1>12. room <= 0 => n = 0
  BY <1>1, <1>2, <1>0, <1>10
<1>13. room > 0 => K(n) <= room
  <2>1. CASE fits = {}
    BY <1>3, <1>10, <2>1
  <2>2. CASE fits # {}
    <3>1. n > 0 /\ K(n - 1) < room /\ n - 1 \in 0 .. L
      BY <1>0, <1>1, <1>10, <1>11, <2>2
    <3>2. K(n) <= K(n - 1) + 1 /\ K(n - 1) \in Nat /\ K(n) \in Nat
      BY <1>2, <1>6, <1>11, <3>1
    <3> QED
      BY <3>1, <3>2
  <2> QED
    BY <2>1, <2>2
<1>14. n < L => K(n) >= room
  <2> SUFFICES ASSUME n < L, K(n) < room PROVE FALSE
    BY <1>2, <1>11
  <2>1. n + 1 \in fits
    BY <1>1, <1>0, <1>11
  <2> QED
    BY <1>10, <1>11, <2>1
<1> QED
  BY <1>11, <1>12, <1>13, <1>14 DEF K, L, n

LEMMA OnLineChars ==
  ASSUME NEW q, NEW chars \in Seq(Chars)
  PROVE  /\ OnLine(q, chars) \in Seq(OnWire)
         /\ Len(OnLine(q, chars)) = Len(chars)
<1>1. Len(chars) \in Nat /\ \A i \in 1 .. Len(chars) : chars[i] \in Chars
  BY LenProperties, ElementOfSeq
<1>2. OnLine(q, chars) \in [1 .. Len(chars) -> OnWire]
  BY <1>1 DEF OnLine, OnWire, Chars
<1> QED
  BY <1>1, <1>2

LEMMA Arrives ==
  ASSUME NEW s \in States, NEW w \in Ports, NEW chars \in Seq(Chars),
         NEW place \in {"reading", "busy"}
  PROVE  LET a == Arrive(s, w, chars, place)
         IN  /\ a.n \in 0 .. Len(chars)
             /\ a.s \in States /\ Unmoved(s, a.s)
<1> DEFINE r    == Remote(w)
           q    == s[r]
           line == OnLine(s[w], chars)
           room == IF place = "reading" THEN q.reading ELSE q.limit - q.busy
           n    == Taken(q, line, room)
           got  == Kept(q, SubSeq(line, 1, n))
           q1   == [s[w] EXCEPT !.sendBreak = @ /\ (n = 0)]
           q2   == [q EXCEPT
                      !.reading = IF place = "reading" THEN @ - got ELSE @,
                      !.busy = IF place = "busy" THEN @ + got ELSE @]
           s1   == [s EXCEPT ![w] = q1]
           sent == [s1 EXCEPT ![r] = q2]
<1>1. /\ s \in [Ports -> PortType] /\ r \in Ports /\ r # w
      /\ s[w] \in PortType /\ Good(s[w]) /\ q \in PortType /\ Good(q)
  BY RemotePort DEF States
<1>2. room \in Int
  BY <1>1 DEF PortType
<1>3. line \in Seq(OnWire) /\ Len(line) = Len(chars)
  BY OnLineChars
<1>4. n \in 0 .. Len(line)
  BY <1>2, <1>3, TakenFits
<1>5. /\ got \in Nat /\ (n = 0 => got = 0)
      /\ (room <= 0 => n = 0) /\ (room > 0 => got <= room)
  <2>1. got \in 0 .. n
    BY <1>3, <1>4, KeptPrefix
  <2>2. (room <= 0 => n = 0) /\ (room > 0 => got <= room)
    BY <1>2, <1>3, TakenFits
  <2> QED
    BY <1>4, <2>1, <2>2
<1>6. Arrive(s, w, chars, place) =
        [n |-> n, s |-> SetXonXoffHolding(sent, r,
                          LastXonXoff(q, SubSeq(line, 1, n)))]
  <2>1. sent = [s EXCEPT ![w].sendBreak = @ /\ (n = 0),
                         ![r].reading = IF place = "reading"
                                          THEN @ - got ELSE @,
                         ![r].busy = IF place = "busy" THEN @ + got ELSE @]
    BY <1>1
  <2> QED
    BY <2>1 DEF Arrive
<1> HIDE DEF line, n, got, room
<1>7. q1 \in PortType /\ Good(q1) /\ Like(s[w], q1)
  BY <1>1 DEF PortType, Good, Fit, Like
<1>8. q2 \in PortType
  <2>1. q.reading \in Nat /\ q.busy \in 0 .. BufSize /\ q.limit \in 0 .. BufSize
    BY <1>1 DEF PortType
  <2>2. (IF place = "reading" THEN q.reading - got ELSE q.reading) \in Nat
    BY <1>5, <2>1 DEF room
  <2>3. (IF place = "busy" THEN q.busy + got ELSE q.busy) \in 0 .. BufSize
    BY <1>5, <2>1, HandFlowAssumption DEF room
  <2> QED
    BY <1>1, <2>2, <2>3 DEF PortType
<1>9. Good(q2) /\ Like(q, q2)
  BY <1>1, <1>5 DEF PortType, Good, Fit, Like, room
<1> HIDE DEF q1, q2
<1>10. s1 \in States /\ Unmoved(s, s1) /\ s1[r] = q
  BY <1>1, <1>7, Replaced
<1> HIDE DEF s1
<1>11. sent \in States /\ Unmoved(s1, sent)
  BY <1>1, <1>8, <1>9, <1>10, Replaced
<1> HIDE DEF sent
<1>12. /\ SetXonXoffHolding(sent, r, LastXonXoff(q, SubSeq(line, 1, n)))
            \in States
       /\ Unmoved(sent, SetXonXoffHolding(sent, r,
                          LastXonXoff(q, SubSeq(line, 1, n))))
  BY <1>1, <1>11, XonXoffHolding
<1> QED
  BY <1>3, <1>4, <1>6, <1>10, <1>11, <1>12, UnmovedTwice

LEMMA FromTxKeeps ==
  ASSUME NEW s \in States, NEW w \in Ports, NEW place \in {"reading", "busy"}
  PROVE  FromTx(s, w, place) \in States /\ Unmoved(s, FromTx(s, w, place))
<1> DEFINE a == Arrive(s, w, s[w].tx, place)
           t == a.s
           tx == SubSeq(t[w].tx, a.n + 1, Len(t[w].tx))
           q == [t[w] EXCEPT !.tx = tx]
<1>1. s[w].tx \in Seq(Chars)
  BY DEF States, PortType, Chars
<1>2. a.n \in Nat /\ t \in States /\ Unmoved(s, t)
  BY <1>1, Arrives
<1>3. FromTx(s, w, place) = [t EXCEPT ![w].tx = tx]
  BY DEF FromTx
<1> HIDE DEF a, t
<1>4. t \in [Ports -> PortType] /\ t[w] \in PortType /\ Good(t[w])
  BY <1>2 DEF States
<1>5. tx \in Seq(Chars) /\ Len(tx) <= TxSize
  <2>1. t[w].tx \in Seq(Chars) /\ Len(t[w].tx) <= TxSize
    BY <1>4 DEF PortType, Chars, Good, Fit
  <2>2. \A i \in a.n + 1 .. Len(t[w].tx) : t[w].tx[i] \in Chars
    BY <1>2, <2>1, ElementOfSeq
  <2>3. /\ tx \in Seq(Chars)
        /\ Len(tx) = IF a.n + 1 <= Len(t[w].tx)
                       THEN Len(t[w].tx) - (a.n + 1) + 1 ELSE 0
    BY <1>2, <2>1, <2>2, SubSeqProperties, LenProperties
  <2> QED
    BY <1>2, <2>1, <2>3, LenProperties, HandFlowAssumption
<1> HIDE DEF tx
<1>6. q \in PortType /\ Good(q) /\ Like(t[w], q)
  BY <1>4, <1>5 DEF PortType, Good, Fit, Like, Chars
<1>7. [t EXCEPT ![w].tx = tx] = [t EXCEPT ![w] = q]
  BY <1>4
<1> HIDE DEF q
<1>8. [t EXCEPT ![w] = q] \in States /\ Unmoved(t, [t EXCEPT ![w] = q])
  BY <1>2, <1>6, Replaced
<1> QED
  BY <1>2, <1>3, <1>7, <1>8, UnmovedTwice

LEMMA ToTxKeeps ==
  ASSUME NEW s \in States, NEW w \in Ports, NEW chars \in Seq(Chars)
  PROVE  LET b == ToTx(s, w, chars)
         IN  /\ b.n \in 0 .. Len(chars)
             /\ b.s \in States /\ Unmoved(s, b.s)
<1> DEFINE n == Least(Len(chars), TxSize - 1)
           tx == s[w].tx \o SubSeq(chars, 1, n)
           q == [s[w] EXCEPT !.tx = tx]
<1>1. /\ s \in [Ports -> PortType] /\ s[w] \in PortType /\ Good(s[w])
      /\ s[w].tx \in Seq(Chars) /\ Len(s[w].tx) \in Nat
  BY LenProperties DEF States, PortType, Chars
<1>2. CASE Len(s[w].tx) > 1
  BY <1>2, UnmovedSelf, LenProperties DEF ToTx
<1>3. CASE Len(s[w].tx) <= 1
  <2>1. n \in 0 .. Len(chars) /\ n <= TxSize - 1
    BY LenProperties, HandFlowAssumption DEF Least
  <2>2. ToTx(s, w, chars) = [n |-> n, s |-> [s EXCEPT ![w].tx = tx]]
    BY <1>1, <1>3 DEF ToTx
  <2> HIDE DEF n
  <2>3. SubSeq(chars, 1, n) \in Seq(Chars) /\ Len(SubSeq(chars, 1, n)) = n
    <3>1. \A i \in 1 .. n : chars[i] \in Chars
      BY <2>1, LenProperties, ElementOfSeq
    <3> QED
      BY <2>1, <3>1, SubSeqProperties, LenProperties
  <2>4. tx \in Seq(Chars) /\ Len(tx) <= TxSize
    <3>1. tx \in Seq(Chars) /\ Len(tx) = Len(s[w].tx) + n
      BY <1>1, <2>3, ConcatProperties
    <3> HIDE DEF tx
    <3> QED
      BY <1>1, <1>3, <2>1, <3>1, LenProperties, HandFlowAssumption
  <2> HIDE DEF tx
  <2>5. q \in PortType /\ Good(q) /\ Like(s[w], q)
    BY <1>1, <2>4 DEF PortType, Good, Fit, Like, Chars
  <2>6. [s EXCEPT ![w].tx = tx] = [s EXCEPT ![w] = q]
    BY <1>1
  <2> HIDE DEF q
  <2>7. [s EXCEPT ![w] = q] \in States /\ Unmoved(s, [s EXCEPT ![w] = q])
    BY <2>5, Replaced
  <2> QED
    BY <2>1, <2>2, <2>6, <2>7
<1> QED
  BY <1>1, <1>2, <1>3

(* sendBreak or sendXonXoff is replaced in one port.                       *)
LEMMA SendCharKeeps ==
  ASSUME NEW s \in States, NEW w \in Ports, NEW place \in {"reading", "busy"}
  PROVE  SendChar(s, w, place) \in States /\ Unmoved(s, SendChar(s, w, place))
<1> DEFINE char == <<s[w].sendXonXoff>>
           a == Arrive(s, w, char, place)
           b == IF place = "busy" /\ a.n = 0 THEN ToTx(s, w, char) ELSE a
           t == b.s
           q == [t[w] EXCEPT !.sendXonXoff = IF b.n = 1 THEN "none" ELSE @]
<1>1. CASE s[w].sendBreak
  <2>1. <<"data">> \in Seq(Chars)
    BY DEF Chars
  <2> QED
    BY <1>1, <2>1, Arrives DEF SendChar
<1>2. CASE ~s[w].sendBreak /\ (\/ s[w].sendXonXoff = "none"
                               \/ ~(s[w].holding \subseteq {"XON"}))
  BY <1>2, UnmovedSelf DEF SendChar
<1>3. CASE /\ ~s[w].sendBreak /\ s[w].sendXonXoff # "none"
           /\ s[w].holding \subseteq {"XON"}
  <2>1. char \in Seq(Chars)
    <3>1. s[w].sendXonXoff \in Chars
      BY <1>3 DEF States, PortType, Chars
    <3> QED
      BY <3>1
  <2>2. t \in States /\ Unmoved(s, t)
    <3>1. a.s \in States /\ Unmoved(s, a.s)
      BY <2>1, Arrives
    <3>2. ToTx(s, w, char).s \in States /\ Unmoved(s, ToTx(s, w, char).s)
      BY <2>1, ToTxKeeps
    <3> QED
      BY <3>1, <3>2
  <2>3. SendChar(s, w, place) =
          [t EXCEPT ![w].sendXonXoff = IF b.n = 1 THEN "none" ELSE @]
    BY <1>3 DEF SendChar
  <2> HIDE DEF b, t
  <2>4. t \in [Ports -> PortType] /\ t[w] \in PortType /\ Good(t[w])
    BY <2>2 DEF States
  <2>5. q \in PortType /\ Good(q) /\ Like(t[w], q)
    BY <2>4 DEF PortType, Good, Fit, Like
  <2>6. [t EXCEPT ![w].sendXonXoff = IF b.n = 1 THEN "none" ELSE @]
          = [t EXCEPT ![w] = q]
    BY <2>4
  <2> HIDE DEF q
  <2>7. [t EXCEPT ![w] = q] \in States /\ Unmoved(t, [t EXCEPT ![w] = q])
    BY <2>2, <2>5, Replaced
  <2> QED
    BY <2>2, <2>3, <2>6, <2>7, UnmovedTwice
<1> QED
  BY <1>1, <1>2, <1>3

LEMMA SendDataKeeps ==
  ASSUME NEW s \in States, NEW w \in Ports, NEW place \in {"reading", "busy"}
  PROVE  SendData(s, w, place) \in States /\ Unmoved(s, SendData(s, w, place))
<1> DEFINE chars(n) == [i \in 1 .. n |-> "data"]
           a    == Arrive(s, w, chars(s[w].writing), place)
           left == s[w].writing - a.n
           b    == IF place = "busy" /\ left > 0 THEN ToTx(a.s, w, chars(left))
                   ELSE [n |-> 0, s |-> a.s]
           t    == b.s
           rest == left - b.n
           q    == [t[w] EXCEPT !.writing = rest]
<1>1. CASE s[w].holding # {} \/ s[w].writing = 0
  BY <1>1, UnmovedSelf DEF SendData
<1>2. CASE ~(s[w].holding # {} \/ s[w].writing = 0)
  <2>1. \A n \in Nat : chars(n) \in Seq(Chars) /\ Len(chars(n)) = n
    <3>1. \A n \in Nat : chars(n) \in [1 .. n -> Chars]
      BY DEF Chars
    <3> QED
      BY <3>1
  <2>2. s[w].writing \in Nat
    BY DEF States, PortType
  <2>3. SendData(s, w, place) = [t EXCEPT ![w].writing = rest]
    BY <1>2 DEF SendData
  <2> HIDE DEF chars
  <2>4. a.n \in 0 .. s[w].writing /\ a.s \in States /\ Unmoved(s, a.s)
    BY <2>1, <2>2, Arrives
  <2>5. left \in Nat
    BY <2>2, <2>4
  <2> HIDE DEF a, left
  <2>6. b.n \in 0 .. left /\ t \in States /\ Unmoved(a.s, t)
    BY <2>1, <2>4, <2>5, ToTxKeeps, UnmovedSelf
  <2>7. /\ t \in [Ports -> PortType] /\ t[w] \in PortType /\ Good(t[w])
        /\ rest \in Nat
    BY <2>5, <2>6 DEF States
  <2> HIDE DEF b, t, rest
  <2>8. q \in PortType /\ Good(q) /\ Like(t[w], q)
    BY <2>7 DEF PortType, Good, Fit, Like
  <2>9. [t EXCEPT ![w].writing = rest] = [t EXCEPT ![w] = q]
    BY <2>7
  <2> HIDE DEF q
  <2>10. [t EXCEPT ![w] = q] \in States /\ Unmoved(t, [t EXCEPT ![w] = q])
    BY <2>6, <2>8, Replaced
  <2> QED
    BY <2>3, <2>4, <2>6, <2>9, <2>10, UnmovedTwice
<1> QED
  BY <1>1, <1>2

LEMMA FromBufferKeeps ==
  ASSUME NEW s \in States, NEW p \in Ports
  PROVE  FromBuffer(s, p) \in States /\ Unmoved(s, FromBuffer(s, p))
<1> DEFINE n == Least(s[p].busy, s[p].reading)
           q == [s[p] EXCEPT !.busy = @ - n, !.reading = @ - n]
<1>1. s \in [Ports -> PortType] /\ s[p] \in PortType /\ Good(s[p])
  BY DEF States
<1>2. n \in 0 .. s[p].busy /\ n \in 0 .. s[p].reading
  BY <1>1 DEF PortType, Least
<1>3. FromBuffer(s, p) = [s EXCEPT ![p] = q]
  BY <1>1 DEF FromBuffer
<1> HIDE DEF n
<1>4. q \in PortType /\ Good(q) /\ Like(s[p], q)
  <2>1. /\ s[p].busy - n \in 0 .. BufSize /\ s[p].reading - n \in Nat
        /\ s[p].busy = 0 => s[p].busy - n = 0
        /\ s[p].reading = 0 => s[p].reading - n = 0
    BY <1>1, <1>2, HandFlowAssumption DEF PortType
  <2>2. q \in PortType
    BY <1>1, <2>1 DEF PortType
  <2> QED
    BY <1>1, <2>1, <2>2 DEF PortType, Good, Fit, Like
<1> HIDE DEF q
<1>5. [s EXCEPT ![p] = q] \in States /\ Unmoved(s, [s EXCEPT ![p] = q])
  BY <1>4, Replaced
<1> QED
  BY <1>3, <1>5
-----------------------------------------------------------------------------
(***************************************************************************)
(* The lines.                                                              *)
(***************************************************************************)
Wired == wiring \in [Ports -> [Ins -> Sources]] /\ added \subseteq Ports

(* What StatusFollowsPins and HoldingFollowsStatus say of a state.         *)
Follows(s) ==
  \A p \in added : \A in \in Ins :
     wiring[p][in].pin # "OUT2" =>
       (in \in s[p].modemStatus <=> Signal(s, p, in))

Held(s, p) == s[p].holding \cap Lines = s[p].flow.out \ s[p].modemStatus

(* The flow control and its reasons stay, and readBuf and the read.        *)
SameBuffer(q, r) ==
  r.size = q.size /\ r.limit = q.limit /\ r.busy = q.busy /\ r.reading = q.reading

SameFlow(s, t) ==
  \A p \in Ports :
    /\ t[p].isOpen = s[p].isOpen /\ t[p].flow = s[p].flow
    /\ t[p].holdingRemote = s[p].holdingRemote
    /\ SameBuffer(s[p], t[p])

LEMMA FlowTwice ==
  ASSUME NEW s, NEW t, NEW u, SameFlow(s, t), SameFlow(t, u)
  PROVE  SameFlow(s, u)
BY DEF SameFlow, SameBuffer

LEMMA SignalSame ==
  ASSUME NEW s, NEW t, NEW p, NEW in,
         LET src == wiring[p][in]
             end == IF src.end = "remote" THEN Remote(p) ELSE p
         IN  src.pin \in s[end].modemControl <=> src.pin \in t[end].modemControl
  PROVE  Signal(s, p, in) <=> Signal(t, p, in)
BY DEF Signal

LEMMA UnmovedLines ==
  ASSUME Wired, NEW s, NEW t, Unmoved(s, t)
  PROVE  /\ Follows(s) => Follows(t)
         /\ \A p \in Ports : Held(s, p) => Held(t, p)
<1>1. ASSUME NEW p \in added, NEW in \in Ins
      PROVE  Signal(s, p, in) <=> Signal(t, p, in)
  BY <1>1, SignalSame, RemotePort DEF Wired, Unmoved, Like
<1>2. Follows(s) => Follows(t)
  BY <1>1 DEF Follows, Wired, Unmoved, Like
<1>3. \A p \in Ports : Held(s, p) => Held(t, p)
  BY DEF Held, Unmoved, Like
<1> QED
  BY <1>2, <1>3

LEMMA StatusHolding ==
  ASSUME NEW s \in Loose, NEW p \in Ports
  PROVE  LET t == SetModemStatusHolding(s, p)
         IN  /\ t \in Loose /\ (s \in States => t \in States)
             /\ Held(t, p) /\ SameFlow(s, t)
             /\ t[p].modemStatus = s[p].modemStatus
             /\ t[p].modemControl = s[p].modemControl
             /\ \A q \in Ports : q # p => t[q] = s[q]
<1> DEFINE held == {line \in s[p].flow.out : line \notin s[p].modemStatus}
           new == (s[p].holding \ Lines) \cup held
           resume == /\ new \subseteq {"XON"} /\ ~(s[p].holding \subseteq {"XON"})
                     /\ \/ s[p].sendXonXoff # "none"
                        \/ new = {} /\ s[p].writing > 0
           ask == s[p].tryWrite \/ resume
           q == [s[p] EXCEPT !.holding = new, !.tryWrite = ask]
<1>1. s \in [Ports -> PortType] /\ s[p] \in PortType /\ Fit(s[p])
  BY DEF Loose
<1>2. /\ new \in SUBSET Holds /\ ask \in BOOLEAN
      /\ new \cap Lines = s[p].flow.out \ s[p].modemStatus
  BY <1>1, HoldNames DEF PortType, HandFlows
<1>3. SetModemStatusHolding(s, p) = [s EXCEPT ![p] = q]
  BY <1>1 DEF SetModemStatusHolding
<1> HIDE DEF new, ask
<1>4. /\ q \in PortType /\ Fit(q) /\ (Good(s[p]) => Good(q))
      /\ q.modemStatus = s[p].modemStatus
      /\ q.modemControl = s[p].modemControl /\ q.flow = s[p].flow
      /\ q.holdingRemote = s[p].holdingRemote /\ q.isOpen = s[p].isOpen
      /\ SameBuffer(s[p], q)
      /\ q.holding = new
  BY <1>1, <1>2 DEF PortType, Good, Fit, SameBuffer
<1> HIDE DEF q
<1> DEFINE t == [s EXCEPT ![p] = q]
<1>5. /\ t \in Loose /\ (s \in States => t \in States)
      /\ t[p] = q /\ \A r \in Ports : r # p => t[r] = s[r]
  <2>1. s \in States => Good(q)
    BY <1>4 DEF States
  <2> QED
    BY <1>4, <2>1, ReplacedLoose
<1> HIDE DEF t
<1>6. Held(t, p) /\ SameFlow(s, t)
  BY <1>2, <1>4, <1>5 DEF Held, SameFlow, SameBuffer
<1> QED
  BY <1>3, <1>4, <1>5, <1>6 DEF t

(* What SetModemStatus does with the input pins of p.                      *)
StatusSet(s, t, p, bits, mask) ==
  /\ t \in Loose /\ (s \in States => t \in States) /\ SameFlow(s, t)
  /\ t[p].modemStatus = (s[p].modemStatus \ mask) \cup (bits \cap mask)
  /\ t[p].modemControl = s[p].modemControl
  /\ \A q \in Ports : q # p => t[q] = s[q]
  /\ \A q \in Ports : Held(s, q) => Held(t, q)

LEMMA SetStatus ==
  ASSUME NEW s \in Loose, NEW p \in Ports,
         NEW bits, bits \subseteq Ins, NEW mask, mask \subseteq Ins
  PROVE  StatusSet(s, SetModemStatus(s, p, bits, mask), p, bits, mask)
<1> DEFINE new == (s[p].modemStatus \ mask) \cup (bits \cap mask)
           q == [s[p] EXCEPT !.modemStatus = new]
           u == [s EXCEPT ![p] = q]
           t == SetModemStatusHolding(u, p)
<1>1. CASE new = s[p].modemStatus
  <2>1. SetModemStatus(s, p, bits, mask) = s
    BY <1>1 DEF SetModemStatus
  <2> QED
    BY <1>1, <2>1 DEF SameFlow, SameBuffer, StatusSet
<1>2. CASE new # s[p].modemStatus
  <2>1. s \in [Ports -> PortType] /\ s[p] \in PortType /\ Fit(s[p])
    BY DEF Loose
  <2>2. SetModemStatus(s, p, bits, mask) = t
    <3>1. [s EXCEPT ![p].modemStatus = new] = u
      BY <2>1
    <3> QED
      BY <1>2, <3>1 DEF SetModemStatus
  <2>3. new \in SUBSET Ins
    BY <2>1 DEF PortType
  <2> HIDE DEF new
  <2>4. /\ q \in PortType /\ Fit(q) /\ (Good(s[p]) => Good(q))
        /\ q.modemStatus = new
        /\ q.modemControl = s[p].modemControl /\ q.flow = s[p].flow
        /\ q.holdingRemote = s[p].holdingRemote /\ q.isOpen = s[p].isOpen
        /\ SameBuffer(s[p], q)
    BY <2>1, <2>3 DEF PortType, Good, Fit, SameBuffer
  <2> HIDE DEF q
  <2>5. /\ u \in Loose /\ (s \in States => u \in States)
        /\ u[p] = q /\ \A r \in Ports : r # p => u[r] = s[r]
    <3>1. s \in States => Good(q)
      BY <2>4 DEF States
    <3> QED
      BY <2>4, <3>1, ReplacedLoose
  <2> HIDE DEF u
  <2>6. /\ t \in Loose /\ (u \in States => t \in States)
        /\ Held(t, p) /\ SameFlow(u, t)
        /\ t[p].modemStatus = u[p].modemStatus
        /\ t[p].modemControl = u[p].modemControl
        /\ \A r \in Ports : r # p => t[r] = u[r]
    BY <2>5, StatusHolding
  <2> HIDE DEF t
  <2>7. SameFlow(s, t)
    BY <2>4, <2>5, <2>6 DEF SameFlow, SameBuffer
  <2>8. \A r \in Ports : Held(s, r) => Held(t, r)
    BY <2>5, <2>6 DEF Held
  <2> QED
    BY <2>2, <2>4, <2>5, <2>6, <2>7, <2>8 DEF new, StatusSet
<1> QED
  BY <1>1, <1>2

(* Two states with the same outputs have the same signals.                 *)
LEMMA SignalsOf ==
  ASSUME Wired, NEW s, NEW t,
         \A p \in Ports : t[p].modemControl = s[p].modemControl
  PROVE  \A p \in added, in \in Ins : Signal(t, p, in) <=> Signal(s, p, in)
<1> SUFFICES ASSUME NEW p \in added, NEW in \in Ins
             PROVE  Signal(t, p, in) <=> Signal(s, p, in)
  OBVIOUS
<1> QED
  BY SignalSame, RemotePort DEF Wired

(* What SetModemControl does with the output pins of p, and the inputs.    *)
ControlSet(s, t, p, bits, mask) ==
  /\ t \in Loose /\ (s \in States => t \in States) /\ SameFlow(s, t)
  /\ t[p].modemControl = (s[p].modemControl \ mask) \cup (bits \cap mask)
  /\ t[Remote(p)].modemControl = s[Remote(p)].modemControl
  /\ Follows(s) => Follows(t)
  /\ \A q \in Ports : Held(s, q) => Held(t, q)

LEMMA SetControl ==
  ASSUME Wired, NEW s \in Loose, NEW p \in Ports,
         NEW bits, NEW mask, mask \subseteq Outs
  PROVE  ControlSet(s, SetModemControl(s, p, bits, mask), p, bits, mask)
<1> DEFINE r == Remote(p)
           old == s[p].modemControl
           new == (old \ mask) \cup (bits \cap mask)
           changed == (old \ new) \cup (new \ old)
           q == [s[p] EXCEPT !.modemControl = new]
           set == [s EXCEPT ![p] = q]
           RPins == UNION {PinOuts(p, out, "remote") : out \in changed}
           LPins == UNION {PinOuts(p, out, "local") : out \in changed}
           RHigh == {in \in RPins : Signal(set, r, in)}
           LHigh == {in \in LPins : Signal(set, p, in)}
           far == SetModemStatus(set, r, RHigh, RPins)
           t == SetModemStatus(far, p, LHigh, LPins)
<1>1. /\ s \in [Ports -> PortType] /\ s[p] \in PortType /\ Fit(s[p])
      /\ r \in Ports /\ r # p /\ Remote(r) = p /\ \A x \in Ports : x = p \/ x = r
  BY RemotePort DEF Loose
<1>2. SetModemControl(s, p, bits, mask) = t
  <2>1. [s EXCEPT ![p].modemControl = new] = set
    BY <1>1
  <2> QED
    BY <2>1 DEF SetModemControl
<1>3. new \in SUBSET Outs
  BY <1>1 DEF PortType
<1>4. \A in \in Ins :
        /\ in \in RPins <=> /\ r \in added /\ wiring[r][in].end = "remote"
                            /\ wiring[r][in].pin \in changed
        /\ in \in LPins <=> /\ p \in added /\ wiring[p][in].end = "local"
                            /\ wiring[p][in].pin \in changed
  BY DEF PinOuts
<1>5. RPins \subseteq Ins /\ LPins \subseteq Ins
  BY DEF PinOuts
<1>6. RHigh \subseteq Ins /\ LHigh \subseteq Ins
  BY <1>5
<1>7. \A in \in Ins :
        /\ in \in RPins => (in \in RHigh <=> Signal(set, r, in))
        /\ in \in LPins => (in \in LHigh <=> Signal(set, p, in))
  OBVIOUS
<1>8. \A x \in Outs \ changed : x \in old <=> x \in new
  OBVIOUS
<1> HIDE DEF RHigh, LHigh, RPins, LPins, changed, new
<1>9. /\ q \in PortType /\ Fit(q) /\ (Good(s[p]) => Good(q))
      /\ q.modemStatus = s[p].modemStatus
      /\ q.modemControl = new /\ q.flow = s[p].flow /\ q.holding = s[p].holding
      /\ q.holdingRemote = s[p].holdingRemote /\ q.isOpen = s[p].isOpen
      /\ SameBuffer(s[p], q)
  BY <1>1, <1>3 DEF PortType, Good, Fit, SameBuffer
<1> HIDE DEF q
<1>10. /\ set \in Loose /\ (s \in States => set \in States)
       /\ set[p] = q /\ set[r] = s[r]
  BY <1>1, <1>9, ReplacedLoose DEF States
<1> HIDE DEF set
<1>11. StatusSet(set, far, r, RHigh, RPins)
  BY <1>1, <1>5, <1>6, <1>10, SetStatus
<1> HIDE DEF far
<1>12. /\ far \in Loose /\ (set \in States => far \in States)
       /\ SameFlow(set, far)
       /\ far[r].modemStatus = (set[r].modemStatus \ RPins) \cup (RHigh \cap RPins)
       /\ far[r].modemControl = set[r].modemControl
       /\ far[p] = set[p]
       /\ \A x \in Ports : Held(set, x) => Held(far, x)
  BY <1>1, <1>11 DEF StatusSet
<1>13. StatusSet(far, t, p, LHigh, LPins)
  BY <1>1, <1>5, <1>6, <1>12, SetStatus
<1> HIDE DEF t
<1>14. /\ t \in Loose /\ (far \in States => t \in States)
       /\ SameFlow(far, t)
       /\ t[p].modemStatus = (far[p].modemStatus \ LPins) \cup (LHigh \cap LPins)
       /\ t[p].modemControl = far[p].modemControl
       /\ t[r] = far[r]
       /\ \A x \in Ports : Held(far, x) => Held(t, x)
  BY <1>1, <1>13 DEF StatusSet
<1>15. SameFlow(s, t)
  <2>1. SameFlow(s, set)
    BY <1>1, <1>9, <1>10 DEF SameFlow, SameBuffer
  <2> QED
    BY <1>12, <1>14, <2>1, FlowTwice
<1>16. /\ t[p].modemControl = new /\ t[r].modemControl = s[r].modemControl
       /\ \A x \in Ports : t[x].modemControl = set[x].modemControl
  BY <1>1, <1>9, <1>10, <1>12, <1>14
<1>17. ASSUME NEW x \in Ports, Held(s, x) PROVE Held(t, x)
  <2>1. Held(set, x)
    BY <1>1, <1>9, <1>10, <1>17 DEF Held
  <2> QED
    BY <1>12, <1>14, <2>1
<1>18. ASSUME Follows(s) PROVE Follows(t)
  <2>1. SUFFICES ASSUME NEW x \in added, NEW in \in Ins,
                        wiring[x][in].pin # "OUT2"
                 PROVE  in \in t[x].modemStatus <=> Signal(t, x, in)
    BY DEF Follows
  <2>2. in \in s[x].modemStatus <=> Signal(s, x, in)
    BY <1>18, <2>1 DEF Follows
  <2>3. x \in Ports /\ wiring[x][in] \in Sources
    BY DEF Wired
  <2>4. /\ wiring[x][in].end \in {"remote", "local"}
        /\ wiring[x][in].pin \in Outs
    BY <2>3 DEF Sources
  <2>5. Signal(t, x, in) <=> Signal(set, x, in)
    BY <1>16, SignalsOf
  <2>6. CASE x = r
    <3>1. in \in RPins => (in \in t[x].modemStatus <=> Signal(t, x, in))
      BY <1>7, <1>12, <1>14, <2>5, <2>6
    <3>2. in \notin RPins => (Signal(s, x, in) <=> Signal(set, x, in))
      BY <1>1, <1>4, <1>8, <1>9, <1>10, <2>4, <2>6, SignalSame
    <3>3. in \notin RPins => (in \in t[x].modemStatus
                                <=> in \in s[x].modemStatus)
      BY <1>10, <1>12, <1>14, <2>6
    <3> QED
      BY <2>2, <2>5, <3>1, <3>2, <3>3
  <2>7. CASE x = p
    <3>1. in \in LPins => (in \in t[x].modemStatus <=> Signal(t, x, in))
      BY <1>7, <1>14, <2>5, <2>7
    <3>2. in \notin LPins => (Signal(s, x, in) <=> Signal(set, x, in))
      BY <1>1, <1>4, <1>8, <1>9, <1>10, <2>4, <2>7, SignalSame
    <3>3. in \notin LPins => (in \in t[x].modemStatus
                                <=> in \in s[x].modemStatus)
      BY <1>9, <1>10, <1>12, <1>14, <2>7
    <3> QED
      BY <2>2, <2>5, <3>1, <3>2, <3>3
  <2> QED
    BY <1>1, <2>3, <2>6, <2>7
<1> QED
  BY <1>2, <1>10, <1>12, <1>14, <1>15, <1>16, <1>17, <1>18
     DEF new, ControlSet
-----------------------------------------------------------------------------
(***************************************************************************)
(* Handshakes.                                                             *)
(***************************************************************************)

(* What LineTellsReason says of a port; a line that is no handshake gives  *)
(* no reason.                                                              *)
Tells(q) ==
  /\ IF q.flow.rts = "handshake"
       THEN "RTS" \in q.modemControl <=> "CTS" \notin q.holdingRemote
       ELSE "CTS" \notin q.holdingRemote
  /\ IF q.flow.dtr = "handshake"
       THEN "DTR" \in q.modemControl <=> "DSR" \notin q.holdingRemote
       ELSE "DSR" \notin q.holdingRemote

(* The settings stay, and what was true of lines, holds and reasons.       *)
Steady(s, t) ==
  /\ t \in States
  /\ \A p \in Ports : t[p].isOpen = s[p].isOpen /\ t[p].flow = s[p].flow
  /\ Follows(s) => Follows(t)
  /\ \A p \in Ports : Held(s, p) => Held(t, p)
  /\ \A p \in Ports : Tells(s[p]) => Tells(t[p])

LEMMA SteadyTwice ==
  ASSUME NEW s, NEW t, NEW u, Steady(s, t), Steady(t, u)
  PROVE  Steady(s, u)
BY DEF Steady

LEMMA SteadySelf == \A s \in States : Steady(s, s)
BY DEF Steady

LEMMA UnmovedSteady ==
  ASSUME Wired, NEW s, NEW t \in States, Unmoved(s, t)
  PROVE  Steady(s, t)
<1>1. \A p \in Ports : t[p].isOpen = s[p].isOpen /\ t[p].flow = s[p].flow
  BY DEF Unmoved, Like
<1>2. \A p \in Ports : Tells(s[p]) => Tells(t[p])
  BY DEF Unmoved, Like, Tells
<1> QED
  BY <1>1, <1>2, UnmovedLines DEF Steady

(* One port changes, but none of its lines.                                *)
LinesLike(q, r) ==
  /\ r.isOpen = q.isOpen /\ r.flow = q.flow
  /\ r.modemControl = q.modemControl /\ r.modemStatus = q.modemStatus
  /\ r.holding \cap Lines = q.holding \cap Lines

PortSet(s, t, p, q) ==
  /\ t \in States /\ t[p] = q /\ \A r \in Ports : r # p => t[r] = s[r]
  /\ Follows(s) => Follows(t)
  /\ \A r \in Ports : Held(s, r) => Held(t, r)

LEMMA ReplacedLines ==
  ASSUME Wired, NEW s \in States, NEW p \in Ports, NEW q \in PortType, Good(q),
         LinesLike(s[p], q)
  PROVE  PortSet(s, [s EXCEPT ![p] = q], p, q)
<1> DEFINE t == [s EXCEPT ![p] = q]
<1>1. t \in States /\ t[p] = q /\ \A r \in Ports : r # p => t[r] = s[r]
  BY DEF States
<1> HIDE DEF t
<1>2. \A r \in Ports : /\ t[r].modemControl = s[r].modemControl
                       /\ t[r].modemStatus = s[r].modemStatus
  BY <1>1 DEF LinesLike
<1>3. Follows(s) => Follows(t)
  <2>1. \A r \in added, in \in Ins : Signal(t, r, in) <=> Signal(s, r, in)
    BY <1>2, SignalsOf
  <2> QED
    BY <1>2, <2>1 DEF Follows, Wired
<1>4. \A r \in Ports : Held(s, r) => Held(t, r)
  BY <1>1 DEF LinesLike, Held
<1> QED
  BY <1>1, <1>3, <1>4 DEF PortSet, t

LEMMA ToggleSteady ==
  ASSUME Wired, NEW s \in States, NEW p \in Ports
  PROVE  Steady(s, UpdateTransmitToggle(s, p))
<1>1. CASE s[p].flow.rts # "toggle"
  BY <1>1, SteadySelf DEF UpdateTransmitToggle
<1>2. CASE s[p].flow.rts = "toggle"
  <2>1. PICK bits : UpdateTransmitToggle(s, p) =
                      SetModemControl(s, p, bits, {"RTS"})
    BY <1>2 DEF UpdateTransmitToggle
  <2> DEFINE t == SetModemControl(s, p, bits, {"RTS"})
  <2>2. {"RTS"} \subseteq Outs
    BY DEF Outs
  <2>3. ControlSet(s, t, p, bits, {"RTS"})
    BY <2>2, SetControl, Looser
  <2> HIDE DEF t
  <2>4. \A r \in Ports : Tells(s[r]) => Tells(t[r])
    BY <1>2, <2>3, RemotePort DEF ControlSet, SameFlow, Tells
  <2>5. Steady(s, t)
    BY <2>3, <2>4 DEF ControlSet, SameFlow, Steady
  <2> QED
    BY <2>1, <2>5 DEF t
<1> QED
  BY <1>1, <1>2

(* XOFF and XON leave the lines and their reasons alone.                   *)
LEMMA XonRecords ==
  ASSUME NEW q \in PortType, Good(q), q.isOpen,
         NEW r \in {HoldXon(q), ReleaseXon(q), SetAutoReceive(q)}
  PROVE  /\ r \in PortType /\ Good(r) /\ LinesLike(q, r)
         /\ "CTS" \in r.holdingRemote <=> "CTS" \in q.holdingRemote
         /\ "DSR" \in r.holdingRemote <=> "DSR" \in q.holdingRemote
<1>1. \/ r = q \/ r = HoldXon(q) \/ r = ReleaseXon(q)
      \/ r = [q EXCEPT !.holdingRemote = @ \ {"XON"}, !.holding = @ \ {"XON"},
                       !.sendXonXoff = "none"]
  BY DEF SetAutoReceive
<1> DEFINE off == IF q.flow.xoffContinue THEN q.holding ELSE q.holding \cup {"XON"}
           on == q.holding \ {"XON"}
<1>2. /\ off \in SUBSET Holds /\ on \in SUBSET Holds
      /\ off \cap Lines = q.holding \cap Lines /\ on \cap Lines = q.holding \cap Lines
  BY HoldNames DEF PortType
<1>3. \/ r = q
      \/ r = [q EXCEPT !.holdingRemote = @ \cup {"XON"}, !.holding = off,
                       !.sendXonXoff = "off", !.tryWrite = TRUE]
      \/ r = [q EXCEPT !.holdingRemote = @ \ {"XON"}, !.holding = on,
                       !.sendXonXoff = "on", !.tryWrite = TRUE]
      \/ r = [q EXCEPT !.holdingRemote = @ \ {"XON"}, !.holding = on,
                       !.sendXonXoff = "none"]
  BY <1>1 DEF HoldXon, ReleaseXon, PortType
<1> HIDE DEF off, on
<1>4. /\ q.flow \in HandFlows /\ q.holdingRemote \in SUBSET {"CTS", "DSR", "XON"}
      /\ q.holdingRemote \cup {"XON"} \in SUBSET {"CTS", "DSR", "XON"}
      /\ q.holdingRemote \ {"XON"} \in SUBSET {"CTS", "DSR", "XON"}
  BY DEF PortType
<1>5. /\ r \in PortType /\ r.isOpen /\ r.tx = q.tx /\ LinesLike(q, r)
      /\ "CTS" \in r.holdingRemote <=> "CTS" \in q.holdingRemote
      /\ "DSR" \in r.holdingRemote <=> "DSR" \in q.holdingRemote
  <2>1. CASE r = q
    BY <2>1 DEF LinesLike
  <2>2. CASE r = [q EXCEPT !.holdingRemote = @ \cup {"XON"}, !.holding = off,
                           !.sendXonXoff = "off", !.tryWrite = TRUE]
    BY <1>2, <1>4, <2>2 DEF PortType, LinesLike
  <2>3. CASE r = [q EXCEPT !.holdingRemote = @ \ {"XON"}, !.holding = on,
                           !.sendXonXoff = "on", !.tryWrite = TRUE]
    BY <1>2, <1>4, <2>3 DEF PortType, LinesLike
  <2>4. CASE r = [q EXCEPT !.holdingRemote = @ \ {"XON"}, !.holding = on,
                           !.sendXonXoff = "none"]
    BY <1>2, <1>4, <2>4 DEF PortType, LinesLike
  <2> QED
    BY <1>3, <2>1, <2>2, <2>3, <2>4
<1> QED
  BY <1>5 DEF Good, Fit, LinesLike

LEMMA ShakenLines ==
  ASSUME NEW flow
  PROVE  LET outs    == {x[1] : x \in Shaken(flow)}
             reasons == {x[2] : x \in Shaken(flow)}
         IN  /\ outs \subseteq {"RTS", "DTR"} /\ reasons \subseteq {"CTS", "DSR"}
             /\ "RTS" \in outs <=> flow.rts = "handshake"
             /\ "DTR" \in outs <=> flow.dtr = "handshake"
             /\ "CTS" \in reasons <=> flow.rts = "handshake"
             /\ "DSR" \in reasons <=> flow.dtr = "handshake"
<1>1. \A x : x \in Shaken(flow) <=>
               \/ x = <<"RTS", "CTS">> /\ flow.rts = "handshake"
               \/ x = <<"DTR", "DSR">> /\ flow.dtr = "handshake"
  BY DEF Shaken
<1> DEFINE outs    == {x[1] : x \in Shaken(flow)}
           reasons == {x[2] : x \in Shaken(flow)}
<1>2. ASSUME NEW y \in outs
      PROVE  \/ y = "RTS" /\ flow.rts = "handshake"
             \/ y = "DTR" /\ flow.dtr = "handshake"
  <2>1. PICK x \in Shaken(flow) : y = x[1]
    BY <1>2
  <2> QED
    BY <1>1, <2>1
<1>3. ASSUME NEW y \in reasons
      PROVE  \/ y = "CTS" /\ flow.rts = "handshake"
             \/ y = "DSR" /\ flow.dtr = "handshake"
  <2>1. PICK x \in Shaken(flow) : y = x[2]
    BY <1>3
  <2> QED
    BY <1>1, <2>1
<1>4. flow.rts = "handshake" => "RTS" \in outs /\ "CTS" \in reasons
  <2>1. flow.rts = "handshake" => <<"RTS", "CTS">> \in Shaken(flow)
    BY <1>1
  <2> QED
    BY <2>1
<1>5. flow.dtr = "handshake" => "DTR" \in outs /\ "DSR" \in reasons
  <2>1. flow.dtr = "handshake" => <<"DTR", "DSR">> \in Shaken(flow)
    BY <1>1
  <2> QED
    BY <2>1
<1> HIDE DEF outs, reasons
<1>6. /\ outs \subseteq {"RTS", "DTR"} /\ reasons \subseteq {"CTS", "DSR"}
      /\ "RTS" \in outs <=> flow.rts = "handshake"
      /\ "DTR" \in outs <=> flow.dtr = "handshake"
      /\ "CTS" \in reasons <=> flow.rts = "handshake"
      /\ "DSR" \in reasons <=> flow.dtr = "handshake"
  BY <1>2, <1>3, <1>4, <1>5
<1> QED
  BY <1>6 DEF outs, reasons

LEMMA UpdateSteady ==
  ASSUME Wired, NEW s \in States, NEW p \in Ports, NEW freed \in BOOLEAN,
         s[p].isOpen
  PROVE  Steady(s, UpdateHandFlow(s, p, freed))
<1> DEFINE q       == s[p]
           outs    == {x[1] : x \in Shaken(q.flow)}
           reasons == {x[2] : x \in Shaken(q.flow)}
           hold    == q.holdingRemote = {} /\ ~freed /\ Crowded(q, q.flow)
           release == q.holdingRemote # {} /\ freed /\ Drained(q, q.flow)
           why     == IF hold THEN q.holdingRemote \cup reasons
                      ELSE q.holdingRemote \ reasons
           q1      == [q EXCEPT !.holdingRemote = why]
           Xon(r)  == IF ~q.flow.autoReceive THEN r
                      ELSE IF hold THEN HoldXon(r) ELSE ReleaseXon(r)
           new     == Xon(q1)
           bits    == IF hold THEN {} ELSE outs
           s1      == [s EXCEPT ![p] = new]
           t       == SetModemControl(s1, p, bits, outs)
<1>1. CASE ~(hold \/ release)
  <2>1. UpdateHandFlow(s, p, freed) = s
    BY <1>1 DEF UpdateHandFlow
  <2> QED
    BY <2>1, SteadySelf
<1>2. CASE hold \/ release
  <2>1. UpdateHandFlow(s, p, freed) = t
    BY <1>2 DEF UpdateHandFlow
  <2>2. /\ q \in PortType /\ Good(q) /\ q.isOpen
        /\ q.holdingRemote \subseteq {"CTS", "DSR", "XON"}
    BY DEF States, PortType
  <2>3. /\ outs \subseteq {"RTS", "DTR"} /\ reasons \subseteq {"CTS", "DSR"}
        /\ "RTS" \in outs <=> q.flow.rts = "handshake"
        /\ "DTR" \in outs <=> q.flow.dtr = "handshake"
        /\ "CTS" \in reasons <=> q.flow.rts = "handshake"
        /\ "DSR" \in reasons <=> q.flow.dtr = "handshake"
    BY ShakenLines
  <2>4. ~hold => release
    BY <1>2
  <2>5. hold => q.holdingRemote = {}
    OBVIOUS
  <2> HIDE DEF outs, reasons, hold, release
  <2>6. why \in SUBSET {"CTS", "DSR", "XON"}
    BY <2>2, <2>3
  <2>7. /\ "CTS" \in why <=> \/ hold /\ q.flow.rts = "handshake"
                             \/ /\ ~hold /\ "CTS" \in q.holdingRemote
                                /\ q.flow.rts # "handshake"
        /\ "DSR" \in why <=> \/ hold /\ q.flow.dtr = "handshake"
                             \/ /\ ~hold /\ "DSR" \in q.holdingRemote
                                /\ q.flow.dtr # "handshake"
    BY <2>3, <2>5
  <2> HIDE DEF why
  <2>8. q1 \in PortType /\ Good(q1) /\ q1.isOpen /\ LinesLike(q, q1)
        /\ q1.holdingRemote = why
    BY <2>2, <2>6 DEF PortType, Good, Fit, LinesLike
  <2> HIDE DEF q1
  <2>9. /\ new \in PortType /\ Good(new) /\ LinesLike(q, new)
        /\ "CTS" \in new.holdingRemote <=> "CTS" \in why
        /\ "DSR" \in new.holdingRemote <=> "DSR" \in why
    <3>1. new \in {q1, HoldXon(q1), ReleaseXon(q1)}
      OBVIOUS
    <3> HIDE DEF new
    <3>2. CASE new = q1
      BY <2>8, <3>2
    <3>3. CASE new \in {HoldXon(q1), ReleaseXon(q1)}
      <4>1. /\ new \in PortType /\ Good(new) /\ LinesLike(q1, new)
            /\ "CTS" \in new.holdingRemote <=> "CTS" \in q1.holdingRemote
            /\ "DSR" \in new.holdingRemote <=> "DSR" \in q1.holdingRemote
        BY <2>8, <3>3, XonRecords
      <4> QED
        BY <2>8, <4>1 DEF LinesLike
    <3> QED
      BY <3>1, <3>2, <3>3
  <2> HIDE DEF new
  <2>10. /\ s1 \in States /\ s1[p] = new
         /\ \A r \in Ports : r # p => s1[r] = s[r]
         /\ Follows(s) => Follows(s1)
         /\ \A r \in Ports : Held(s, r) => Held(s1, r)
    <3>1. PortSet(s, s1, p, new)
      BY <2>9, ReplacedLines
    <3> HIDE DEF s1
    <3> QED
      BY <3>1 DEF PortSet
  <2> HIDE DEF s1
  <2>11. outs \subseteq Outs
    BY <2>3 DEF Outs
  <2>12. ControlSet(s1, t, p, bits, outs)
    BY <2>10, <2>11, SetControl, Looser
  <2> HIDE DEF t
  <2>13. ASSUME Tells(s[p]) PROVE Tells(t[p])
    <3>1. /\ "CTS" \in t[p].holdingRemote <=> "CTS" \in why
          /\ "DSR" \in t[p].holdingRemote <=> "DSR" \in why
          /\ t[p].flow = q.flow
      BY <2>9, <2>10, <2>12 DEF ControlSet, SameFlow, LinesLike
    <3>2. t[p].modemControl = (new.modemControl \ outs) \cup (bits \cap outs)
      BY <2>10, <2>12 DEF ControlSet
    <3>3. /\ q.flow.rts = "handshake" => ("RTS" \in t[p].modemControl <=> ~hold)
          /\ q.flow.dtr = "handshake" => ("DTR" \in t[p].modemControl <=> ~hold)
      BY <2>3, <3>2
    <3> QED
      BY <2>5, <2>7, <2>13, <3>1, <3>3 DEF Tells
  <2>14. ASSUME NEW r \in Ports, r # p, Tells(s[r]) PROVE Tells(t[r])
    <3>1. r = Remote(p)
      BY <2>14, RemotePort
    <3> QED
      BY <2>10, <2>12, <2>14, <3>1 DEF ControlSet, SameFlow, Tells
  <2>15. Steady(s, t)
    BY <2>9, <2>10, <2>12, <2>13, <2>14
       DEF ControlSet, SameFlow, Steady, LinesLike
  <2> QED
    BY <2>1, <2>15
<1> QED
  BY <1>1, <1>2

LEMMA LimitUnmoved ==
  ASSUME NEW s \in States, NEW p \in Ports
  PROVE  SetLimit(s, p) \in States /\ Unmoved(s, SetLimit(s, p))
<1> DEFINE size == s[p].size
           flow == s[p].flow
           shakes == \/ flow.rts = "handshake" /\ "CTS" \in s[Remote(p)].flow.out
                     \/ /\ flow.dtr = "handshake"
                        /\ s[Remote(p)].flow.out \cap {"DSR", "DCD"} # {}
           limit == IF shakes /\ size > 0
                      THEN Least(size, size - flow.xoffLimit + 1) ELSE size
           q == [s[p] EXCEPT !.limit = limit]
<1>1. s \in [Ports -> PortType] /\ s[p] \in PortType /\ Good(s[p])
  BY DEF States
<1>2. SetLimit(s, p) = [s EXCEPT ![p] = q]
  BY <1>1 DEF SetLimit
<1>3. limit \in 0 .. BufSize /\ (size = 0 => limit = 0)
  <2>1. size \in {0, BufSize} /\ flow.xoffLimit \in 0 .. BufSize /\ BufSize \in Nat
    BY <1>1, HandFlowAssumption DEF PortType, HandFlows, Good, Fit
  <2> HIDE DEF size, flow, shakes
  <2> QED
    BY <2>1 DEF Least
<1> HIDE DEF limit
<1>4. q \in PortType /\ Good(q) /\ Like(s[p], q)
  BY <1>1, <1>3 DEF PortType, Good, Fit, Like
<1> HIDE DEF q
<1>5. [s EXCEPT ![p] = q] \in States /\ Unmoved(s, [s EXCEPT ![p] = q])
  BY <1>4, Replaced
<1> QED
  BY <1>2, <1>5

(* A round of ReadWrite leaves the settings alone.                         *)
LEMMA TryReadWriteSteady ==
  ASSUME Wired, NEW s \in States, NEW w \in Ports
  PROVE  Steady(s, TryReadWrite(s, w))
<1> DEFINE r   == Remote(w)
           s0  == FromBuffer(s, r)
           s1  == FromTx(s0, w, "reading")
           s2  == IF s1[r].reading > 0 THEN s1 ELSE FromTx(s1, w, "busy")
           s3  == SendChar(s2, w, "reading")
           s4  == SendData(s3, w, "reading")
           s5  == SendChar(s4, w, "busy")
           new == SendData(s5, w, "busy")
           freed == new[r].busy < s[r].busy
           shaken == IF new[r].busy = s[r].busy THEN new
                     ELSE UpdateHandFlow(new, r, freed)
<1>1. TryReadWrite(s, w) = UpdateTransmitToggle(shaken, w)
  BY DEF TryReadWrite, Shake, FromWrite, ToBuffer, ToRead
<1>2. r \in Ports
  BY RemotePort
<1>3. s0 \in States /\ Unmoved(s, s0)
  BY <1>2, FromBufferKeeps
<1> HIDE DEF s0
<1>4. s1 \in States /\ Unmoved(s, s1)
  BY <1>3, FromTxKeeps, UnmovedTwice
<1> HIDE DEF s1
<1>5. s2 \in States /\ Unmoved(s, s2)
  BY <1>4, FromTxKeeps, UnmovedTwice
<1> HIDE DEF s2
<1>6. s3 \in States /\ Unmoved(s, s3)
  BY <1>5, SendCharKeeps, UnmovedTwice
<1> HIDE DEF s3
<1>7. s4 \in States /\ Unmoved(s, s4)
  BY <1>6, SendDataKeeps, UnmovedTwice
<1> HIDE DEF s4
<1>8. s5 \in States /\ Unmoved(s, s5)
  BY <1>7, SendCharKeeps, UnmovedTwice
<1> HIDE DEF s5
<1>9. new \in States /\ Unmoved(s, new)
  BY <1>8, SendDataKeeps, UnmovedTwice
<1> HIDE DEF new
<1>10. Steady(s, new)
  BY <1>9, UnmovedSteady
<1>11. new[r].busy # s[r].busy => new[r].isOpen
  BY <1>2, <1>9 DEF States, Good, Fit, Unmoved, Like
<1>12. freed \in BOOLEAN
  OBVIOUS
<1> HIDE DEF r, freed
<1>13. Steady(s, shaken)
  <2>1. CASE new[r].busy = s[r].busy
    BY <1>10, <2>1
  <2>2. CASE new[r].busy # s[r].busy
    <3>1. Steady(new, UpdateHandFlow(new, r, freed))
      BY <1>2, <1>9, <1>11, <1>12, <2>2, UpdateSteady
    <3> QED
      BY <1>10, <2>2, <3>1, SteadyTwice
  <2> QED
    BY <2>1, <2>2
<1> HIDE DEF shaken
<1>14. Steady(shaken, UpdateTransmitToggle(shaken, w))
  BY <1>13, ToggleSteady DEF Steady
<1> QED
  BY <1>1, <1>13, <1>14, SteadyTwice

(* The lines that SetHandFlow sets and the reasons that it gives.          *)
Changed(old, flow, all) ==
  {x \in {<<"RTS", "CTS", old.rts, flow.rts>>,
          <<"DTR", "DSR", old.dtr, flow.dtr>>} : all \/ x[3] # x[4]}

Moved(q, flow, lines) ==
  {x[1] : x \in {y \in lines : LineFor(q, flow, y[4], y[2]) # "same"}}

Raised(q, flow, lines) ==
  {x[1] : x \in {y \in lines : LineFor(q, flow, y[4], y[2]) = "high"}}

Reasons(q, flow, lines) ==
  (q.holdingRemote \ {x[2] : x \in lines})
    \cup UNION {ReasonFor(q, flow, x[4], x[2]) : x \in lines}

LEMMA ChangedIs ==
  ASSUME NEW old, NEW flow, NEW all \in BOOLEAN
  PROVE  \A x : x \in Changed(old, flow, all) <=>
           \/ /\ x = <<"RTS", "CTS", old.rts, flow.rts>>
              /\ all \/ old.rts # flow.rts
           \/ /\ x = <<"DTR", "DSR", old.dtr, flow.dtr>>
              /\ all \/ old.dtr # flow.dtr
BY DEF Changed

LEMMA MovedIs ==
  ASSUME NEW q, NEW old, NEW flow, NEW all \in BOOLEAN
  PROVE  LET lines == Changed(old, flow, all)
         IN  /\ Moved(q, flow, lines) \subseteq {"RTS", "DTR"}
             /\ "RTS" \in Moved(q, flow, lines) <=>
                  /\ all \/ old.rts # flow.rts
                  /\ LineFor(q, flow, flow.rts, "CTS") # "same"
             /\ "DTR" \in Moved(q, flow, lines) <=>
                  /\ all \/ old.dtr # flow.dtr
                  /\ LineFor(q, flow, flow.dtr, "DSR") # "same"
             /\ "RTS" \in Raised(q, flow, lines) <=>
                  /\ all \/ old.rts # flow.rts
                  /\ LineFor(q, flow, flow.rts, "CTS") = "high"
             /\ "DTR" \in Raised(q, flow, lines) <=>
                  /\ all \/ old.dtr # flow.dtr
                  /\ LineFor(q, flow, flow.dtr, "DSR") = "high"
<1> DEFINE lines == Changed(old, flow, all)
           rts == <<"RTS", "CTS", old.rts, flow.rts>>
           dtr == <<"DTR", "DSR", old.dtr, flow.dtr>>
<1>1. \A x : x \in lines <=> \/ x = rts /\ (all \/ old.rts # flow.rts)
                             \/ x = dtr /\ (all \/ old.dtr # flow.dtr)
  BY ChangedIs
<1>2. /\ rts[1] = "RTS" /\ rts[2] = "CTS" /\ rts[4] = flow.rts
      /\ dtr[1] = "DTR" /\ dtr[2] = "DSR" /\ dtr[4] = flow.dtr
  OBVIOUS
<1> HIDE DEF lines, rts, dtr
<1>3. \A z : z \in Moved(q, flow, lines) <=>
        \E x \in lines : z = x[1] /\ LineFor(q, flow, x[4], x[2]) # "same"
  BY DEF Moved
<1>4. \A z : z \in Raised(q, flow, lines) <=>
        \E x \in lines : z = x[1] /\ LineFor(q, flow, x[4], x[2]) = "high"
  BY DEF Raised
<1>5. Moved(q, flow, lines) \subseteq {"RTS", "DTR"}
  BY <1>1, <1>2, <1>3
<1>6. /\ "RTS" \in Moved(q, flow, lines) <=>
           /\ all \/ old.rts # flow.rts
           /\ LineFor(q, flow, flow.rts, "CTS") # "same"
      /\ "DTR" \in Moved(q, flow, lines) <=>
           /\ all \/ old.dtr # flow.dtr
           /\ LineFor(q, flow, flow.dtr, "DSR") # "same"
  BY <1>1, <1>2, <1>3
<1>7. /\ "RTS" \in Raised(q, flow, lines) <=>
           /\ all \/ old.rts # flow.rts
           /\ LineFor(q, flow, flow.rts, "CTS") = "high"
      /\ "DTR" \in Raised(q, flow, lines) <=>
           /\ all \/ old.dtr # flow.dtr
           /\ LineFor(q, flow, flow.dtr, "DSR") = "high"
  BY <1>1, <1>2, <1>4
<1> QED
  BY <1>5, <1>6, <1>7 DEF lines

LEMMA ReasonsIs ==
  ASSUME NEW q \in PortType, NEW old, NEW flow, NEW all \in BOOLEAN
  PROVE  LET lines == Changed(old, flow, all)
         IN  /\ Reasons(q, flow, lines) \in SUBSET {"CTS", "DSR", "XON"}
             /\ "CTS" \in Reasons(q, flow, lines) <=>
                  IF all \/ old.rts # flow.rts
                    THEN "CTS" \in ReasonFor(q, flow, flow.rts, "CTS")
                    ELSE "CTS" \in q.holdingRemote
             /\ "DSR" \in Reasons(q, flow, lines) <=>
                  IF all \/ old.dtr # flow.dtr
                    THEN "DSR" \in ReasonFor(q, flow, flow.dtr, "DSR")
                    ELSE "DSR" \in q.holdingRemote
<1> DEFINE lines == Changed(old, flow, all)
           rts == <<"RTS", "CTS", old.rts, flow.rts>>
           dtr == <<"DTR", "DSR", old.dtr, flow.dtr>>
<1>1. \A x : x \in lines <=> \/ x = rts /\ (all \/ old.rts # flow.rts)
                             \/ x = dtr /\ (all \/ old.dtr # flow.dtr)
  BY ChangedIs
<1>2. /\ rts[2] = "CTS" /\ rts[4] = flow.rts
      /\ dtr[2] = "DSR" /\ dtr[4] = flow.dtr
  OBVIOUS
<1>3. \A mode, reason : ReasonFor(q, flow, mode, reason) \subseteq {reason}
  BY DEF ReasonFor
<1> HIDE DEF lines, rts, dtr
<1>4. \A z : z \in Reasons(q, flow, lines) <=>
        \/ z \in q.holdingRemote /\ ~\E x \in lines : z = x[2]
        \/ \E x \in lines : z \in ReasonFor(q, flow, x[4], x[2])
  BY DEF Reasons
<1>5. q.holdingRemote \subseteq {"CTS", "DSR", "XON"}
  BY DEF PortType
<1>6. Reasons(q, flow, lines) \subseteq {"CTS", "DSR", "XON"}
  BY <1>1, <1>2, <1>3, <1>4, <1>5
<1>7. "CTS" \in Reasons(q, flow, lines) <=>
        IF all \/ old.rts # flow.rts
          THEN "CTS" \in ReasonFor(q, flow, flow.rts, "CTS")
          ELSE "CTS" \in q.holdingRemote
  BY <1>1, <1>2, <1>3, <1>4
<1>8. "DSR" \in Reasons(q, flow, lines) <=>
        IF all \/ old.dtr # flow.dtr
          THEN "DSR" \in ReasonFor(q, flow, flow.dtr, "DSR")
          ELSE "DSR" \in q.holdingRemote
  BY <1>1, <1>2, <1>3, <1>4
<1> QED
  BY <1>6, <1>7, <1>8 DEF lines

(* A line that is set tells its reason, and so does one that is left.      *)
LEMMA LinesTold ==
  ASSUME NEW q \in PortType, NEW flow \in HandFlows, NEW all \in BOOLEAN,
         all => q.holdingRemote = {}, all \/ Tells(q),
         ~(flow.rts = "toggle" /\ "CTS" \in q.holdingRemote),
         NEW c, c.flow = flow,
         LET lines == Changed(q.flow, flow, all)
         IN  /\ c.modemControl =
                  (q.modemControl \ Moved(q, flow, lines))
                    \cup (Raised(q, flow, lines) \cap Moved(q, flow, lines))
             /\ "CTS" \in c.holdingRemote <=> "CTS" \in Reasons(q, flow, lines)
             /\ "DSR" \in c.holdingRemote <=> "DSR" \in Reasons(q, flow, lines)
  PROVE  Tells(c)
<1> DEFINE lines == Changed(q.flow, flow, all)
           rtsLine == LineFor(q, flow, flow.rts, "CTS")
           dtrLine == LineFor(q, flow, flow.dtr, "DSR")
<1>1. /\ "RTS" \in Moved(q, flow, lines) <=>
           (all \/ q.flow.rts # flow.rts) /\ rtsLine # "same"
      /\ "DTR" \in Moved(q, flow, lines) <=>
           (all \/ q.flow.dtr # flow.dtr) /\ dtrLine # "same"
      /\ "RTS" \in Raised(q, flow, lines) <=>
           (all \/ q.flow.rts # flow.rts) /\ rtsLine = "high"
      /\ "DTR" \in Raised(q, flow, lines) <=>
           (all \/ q.flow.dtr # flow.dtr) /\ dtrLine = "high"
  BY MovedIs
<1>2. /\ "CTS" \in c.holdingRemote <=>
           IF all \/ q.flow.rts # flow.rts
             THEN "CTS" \in ReasonFor(q, flow, flow.rts, "CTS")
             ELSE "CTS" \in q.holdingRemote
      /\ "DSR" \in c.holdingRemote <=>
           IF all \/ q.flow.dtr # flow.dtr
             THEN "DSR" \in ReasonFor(q, flow, flow.dtr, "DSR")
             ELSE "DSR" \in q.holdingRemote
  BY ReasonsIs
<1>3. /\ flow.rts \in {"off", "on", "handshake", "toggle"}
      /\ flow.dtr \in {"off", "on", "handshake"}
  BY DEF HandFlows, RtsModes
<1>4. /\ flow.rts = "off" => rtsLine = "low"
      /\ flow.rts = "on" => rtsLine = "high"
      /\ flow.rts = "toggle" => rtsLine = "same"
      /\ flow.rts = "handshake" =>
           \/ rtsLine \in {"low", "high"}
           \/ rtsLine = "same" /\ "CTS" \in q.holdingRemote
      /\ flow.dtr = "off" => dtrLine = "low"
      /\ flow.dtr = "on" => dtrLine = "high"
      /\ flow.dtr = "handshake" =>
           \/ dtrLine \in {"low", "high"}
           \/ dtrLine = "same" /\ "DSR" \in q.holdingRemote
  BY DEF LineFor
<1>5. /\ "CTS" \in ReasonFor(q, flow, flow.rts, "CTS") <=>
           IF rtsLine = "same" THEN "CTS" \in q.holdingRemote
           ELSE rtsLine = "low" /\ flow.rts = "handshake"
      /\ "DSR" \in ReasonFor(q, flow, flow.dtr, "DSR") <=>
           IF dtrLine = "same" THEN "DSR" \in q.holdingRemote
           ELSE dtrLine = "low" /\ flow.dtr = "handshake"
  BY DEF ReasonFor
<1>6. /\ "RTS" \in c.modemControl <=>
           IF "RTS" \in Moved(q, flow, lines)
             THEN "RTS" \in Raised(q, flow, lines) ELSE "RTS" \in q.modemControl
      /\ "DTR" \in c.modemControl <=>
           IF "DTR" \in Moved(q, flow, lines)
             THEN "DTR" \in Raised(q, flow, lines) ELSE "DTR" \in q.modemControl
  OBVIOUS
<1> HIDE DEF lines, rtsLine, dtrLine
<1>7. IF flow.rts = "handshake"
        THEN "RTS" \in c.modemControl <=> "CTS" \notin c.holdingRemote
        ELSE "CTS" \notin c.holdingRemote
  <2>1. CASE all
    BY <1>1, <1>2, <1>3, <1>4, <1>5, <1>6, <2>1
  <2>2. CASE ~all /\ q.flow.rts # flow.rts
    <3>1. IF q.flow.rts = "handshake"
            THEN "RTS" \in q.modemControl <=> "CTS" \notin q.holdingRemote
            ELSE "CTS" \notin q.holdingRemote
      BY <2>2 DEF Tells
    <3> QED
      BY <1>1, <1>2, <1>3, <1>4, <1>5, <1>6, <2>2, <3>1
  <2>3. CASE ~all /\ q.flow.rts = flow.rts
    <3>1. IF q.flow.rts = "handshake"
            THEN "RTS" \in q.modemControl <=> "CTS" \notin q.holdingRemote
            ELSE "CTS" \notin q.holdingRemote
      BY <2>3 DEF Tells
    <3> QED
      BY <1>1, <1>2, <1>6, <2>3, <3>1
  <2> QED
    BY <2>1, <2>2, <2>3
<1>8. IF flow.dtr = "handshake"
        THEN "DTR" \in c.modemControl <=> "DSR" \notin c.holdingRemote
        ELSE "DSR" \notin c.holdingRemote
  <2>1. CASE all
    BY <1>1, <1>2, <1>3, <1>4, <1>5, <1>6, <2>1
  <2>2. CASE ~all /\ q.flow.dtr # flow.dtr
    <3>1. IF q.flow.dtr = "handshake"
            THEN "DTR" \in q.modemControl <=> "DSR" \notin q.holdingRemote
            ELSE "DSR" \notin q.holdingRemote
      BY <2>2 DEF Tells
    <3> QED
      BY <1>1, <1>2, <1>3, <1>4, <1>5, <1>6, <2>2, <3>1
  <2>3. CASE ~all /\ q.flow.dtr = flow.dtr
    <3>1. IF q.flow.dtr = "handshake"
            THEN "DTR" \in q.modemControl <=> "DSR" \notin q.holdingRemote
            ELSE "DSR" \notin q.holdingRemote
      BY <2>3 DEF Tells
    <3> QED
      BY <1>1, <1>2, <1>6, <2>3, <3>1
  <2> QED
    BY <2>1, <2>2, <2>3
<1> QED
  BY <1>7, <1>8 DEF Tells

(* What SetHandFlow makes of both ports.                                   *)
HandFlowSet(s, t, p, flow) ==
  /\ t \in States
  /\ \A q \in Ports : t[q].isOpen = s[q].isOpen
  /\ t[p].flow = flow /\ \A q \in Ports : q # p => t[q].flow = s[q].flow
  /\ Follows(s) => Follows(t)
  /\ \A q \in Ports : Held(s, q) => Held(t, q)
  /\ \A q \in Ports : q # p => (Tells(s[q]) => Tells(t[q]))

LEMMA SetHandFlowKeeps ==
  ASSUME Wired, NEW s \in States, NEW p \in Ports, s[p].isOpen,
         NEW flow \in HandFlows, flow.xoffLimit <= BufSize, NEW all \in BOOLEAN,
         all => s[p].holdingRemote = {}
  PROVE  /\ HandFlowSet(s, SetHandFlow(s, p, flow, all), p, flow)
         /\ /\ all \/ Tells(s[p])
            /\ ~(flow.rts = "toggle" /\ "CTS" \in s[p].holdingRemote)
            => Tells(SetHandFlow(s, p, flow, all)[p])
<1> DEFINE old  == s[p].flow
           s1   == IF all THEN [s EXCEPT ![p].holding = @ \ {"XON"}]
                   ELSE IF old.autoTransmit /\ ~flow.autoTransmit
                     THEN SetXonXoffHolding(s, p, "on") ELSE s
           q    == s1[p]
           lines == Changed(old, flow, all)
           reasons == Reasons(q, flow, lines)
           mask == Moved(q, flow, lines)
           bits == Raised(q, flow, lines)
           q1   == [q EXCEPT !.holdingRemote = reasons, !.flow = flow]
           q2   == IF all \/ old.autoReceive # flow.autoReceive
                     THEN SetAutoReceive(q1) ELSE q1
           s2   == [s1 EXCEPT ![p] = q2]
           held == all \/ old.out # flow.out
           s3   == IF held THEN SetModemStatusHolding(s2, p) ELSE s2
           s4   == SetModemControl(s3, p, bits, mask)
           s5   == UpdateTransmitToggle(s4, p)
           s6   == SetLimit(s5, Remote(p))
           t    == SetLimit(s6, p)
<1>1. SetHandFlow(s, p, flow, all) = t
  BY DEF SetHandFlow, Changed, Moved, Raised, Reasons
<1>2. s1 \in States /\ Unmoved(s, s1)
  <2>1. CASE all
    <3> DEFINE on == s[p].holding \ {"XON"}
               r  == [s[p] EXCEPT !.holding = on]
    <3>1. s \in [Ports -> PortType] /\ s[p] \in PortType /\ Good(s[p])
      BY DEF States
    <3>2. s1 = [s EXCEPT ![p] = r]
      BY <2>1, <3>1
    <3>3. on \in SUBSET Holds /\ on \cap Lines = s[p].holding \cap Lines
      BY <3>1, HoldNames DEF PortType
    <3> HIDE DEF on
    <3>4. r \in PortType /\ Good(r) /\ Like(s[p], r)
      BY <3>1, <3>3 DEF PortType, Good, Fit, Like
    <3> HIDE DEF r
    <3>5. [s EXCEPT ![p] = r] \in States /\ Unmoved(s, [s EXCEPT ![p] = r])
      BY <3>4, Replaced
    <3> QED
      BY <3>2, <3>5
  <2>2. CASE ~all
    BY <2>2, XonXoffHolding, UnmovedSelf
  <2> QED
    BY <2>1, <2>2
<1> HIDE DEF s1
<1>3. Steady(s, s1)
  BY <1>2, UnmovedSteady
<1>4. q \in PortType /\ Good(q) /\ q.isOpen /\ Like(s[p], q)
  BY <1>2 DEF States, Unmoved, Like
<1>5. reasons \in SUBSET {"CTS", "DSR", "XON"}
  BY <1>4, ReasonsIs
<1>6. mask \subseteq Outs
  <2>1. mask \subseteq {"RTS", "DTR"}
    BY MovedIs
  <2> QED
    BY <2>1 DEF Outs
<1> HIDE DEF lines, reasons, mask, bits, q
<1>7. /\ q1 \in PortType /\ Good(q1) /\ q1.isOpen /\ q1.flow = flow
      /\ q1.modemControl = q.modemControl /\ q1.modemStatus = q.modemStatus
      /\ q1.holding = q.holding /\ q1.holdingRemote = reasons
  BY <1>4, <1>5 DEF PortType, Good, Fit, SameBuffer
<1> HIDE DEF q1
<1>8. /\ q2 \in PortType /\ Good(q2) /\ LinesLike(q1, q2)
      /\ "CTS" \in q2.holdingRemote <=> "CTS" \in reasons
      /\ "DSR" \in q2.holdingRemote <=> "DSR" \in reasons
  <2>1. CASE q2 = q1
    BY <1>7, <2>1 DEF LinesLike
  <2>2. CASE q2 = SetAutoReceive(q1)
    BY <1>7, <2>2, XonRecords
  <2> QED
    BY <2>1, <2>2
<1> HIDE DEF q2
<1>9. s2 \in States /\ s2[p] = q2 /\ \A r \in Ports : r # p => s2[r] = s1[r]
  BY <1>2, <1>8, Replaced
<1> HIDE DEF s2
<1>10. Follows(s1) => Follows(s2)
  <2>1. \A r \in Ports : /\ s2[r].modemControl = s1[r].modemControl
                         /\ s2[r].modemStatus = s1[r].modemStatus
    BY <1>7, <1>8, <1>9 DEF LinesLike, q
  <2>2. \A r \in added, in \in Ins : Signal(s2, r, in) <=> Signal(s1, r, in)
    BY <2>1, SignalsOf
  <2> QED
    BY <2>1, <2>2 DEF Follows, Wired
<1>11. /\ s3 \in States /\ SameFlow(s2, s3)
       /\ s3[p].modemStatus = s2[p].modemStatus
       /\ s3[p].modemControl = s2[p].modemControl
       /\ \A r \in Ports : r # p => s3[r] = s2[r]
       /\ held => Held(s3, p)
  <2>1. CASE held
    BY <1>9, <2>1, StatusHolding, Looser
  <2>2. CASE ~held
    BY <1>9, <2>2 DEF SameFlow, SameBuffer
  <2> QED
    BY <2>1, <2>2
<1>12. Follows(s2) => Follows(s3)
  <2>1. \A r \in Ports : /\ s3[r].modemControl = s2[r].modemControl
                         /\ s3[r].modemStatus = s2[r].modemStatus
    BY <1>11
  <2>2. \A r \in added, in \in Ins : Signal(s3, r, in) <=> Signal(s2, r, in)
    BY <2>1, SignalsOf
  <2> QED
    BY <2>1, <2>2 DEF Follows, Wired
<1>13. ASSUME NEW r \in Ports, Held(s, r) PROVE Held(s3, r)
  <2>1. Held(s1, r)
    BY <1>3, <1>13 DEF Steady
  <2>2. CASE r # p
    BY <1>9, <1>11, <2>1, <2>2 DEF Held
  <2>3. CASE r = p /\ ~held
    <3>1. s3 = s2 /\ flow.out = s[p].flow.out
      BY <2>3
    <3>2. s1[p].flow = s[p].flow
      BY <1>2 DEF Unmoved, Like
    <3>3. /\ s3[p].holding \cap Lines = s1[p].holding \cap Lines
          /\ s3[p].flow = flow /\ s3[p].modemStatus = s1[p].modemStatus
      BY <1>7, <1>8, <1>9, <3>1 DEF LinesLike, q
    <3>4. s1[p].holding \cap Lines = flow.out \ s1[p].modemStatus
      BY <2>1, <2>3, <3>1, <3>2 DEF Held
    <3> QED
      BY <2>3, <3>3, <3>4 DEF Held
  <2>4. CASE r = p /\ held
    BY <1>11, <2>4
  <2> QED
    BY <2>2, <2>3, <2>4
<1> HIDE DEF s3
<1>14. ControlSet(s3, s4, p, bits, mask)
  BY <1>6, <1>11, SetControl, Looser
<1> HIDE DEF s4
<1>15. Steady(s4, t)
  <2>1. Steady(s4, s5)
    BY <1>11, <1>14, ToggleSteady DEF ControlSet
  <2> HIDE DEF s5
  <2>2. s5 \in States
    BY <2>1 DEF Steady
  <2>3. s6 \in States /\ Unmoved(s5, s6)
    BY <2>2, LimitUnmoved, RemotePort
  <2> HIDE DEF s6
  <2>4. t \in States /\ Unmoved(s6, t)
    BY <2>3, LimitUnmoved
  <2>5. Steady(s5, s6) /\ Steady(s6, t)
    BY <2>3, <2>4, UnmovedSteady
  <2> QED
    BY <2>1, <2>5, SteadyTwice
<1> HIDE DEF t
<1>16. \A r \in Ports : r # p =>
         /\ s4[r].isOpen = s1[r].isOpen /\ s4[r].flow = s1[r].flow
         /\ s4[r].modemControl = s1[r].modemControl
         /\ s4[r].holdingRemote = s1[r].holdingRemote
  BY <1>9, <1>11, <1>14, RemotePort DEF ControlSet, SameFlow
<1>17. /\ s4[p].isOpen = s[p].isOpen /\ s4[p].flow = flow
       /\ s4[p].modemControl = (q.modemControl \ mask) \cup (bits \cap mask)
       /\ "CTS" \in s4[p].holdingRemote <=> "CTS" \in reasons
       /\ "DSR" \in s4[p].holdingRemote <=> "DSR" \in reasons
  BY <1>7, <1>8, <1>9, <1>11, <1>14 DEF ControlSet, SameFlow, LinesLike
<1>18. HandFlowSet(s, t, p, flow)
  <2>1. /\ t \in States /\ t[p].flow = flow
        /\ \A r \in Ports : t[r].isOpen = s[r].isOpen
        /\ \A r \in Ports : r # p => t[r].flow = s[r].flow
    BY <1>3, <1>15, <1>16, <1>17 DEF Steady
  <2>2. Follows(s) => Follows(t)
    BY <1>3, <1>10, <1>12, <1>14, <1>15 DEF Steady, ControlSet
  <2>3. \A r \in Ports : Held(s, r) => Held(t, r)
    BY <1>13, <1>14, <1>15 DEF Steady, ControlSet
  <2>4. \A r \in Ports : r # p => (Tells(s1[r]) => Tells(s4[r]))
    BY <1>16 DEF Tells
  <2>5. \A r \in Ports : r # p => (Tells(s[r]) => Tells(t[r]))
    BY <1>3, <1>15, <2>4 DEF Steady
  <2> QED
    BY <2>1, <2>2, <2>3, <2>5 DEF HandFlowSet
<1>19. ASSUME all \/ Tells(s[p]),
              ~(flow.rts = "toggle" /\ "CTS" \in s[p].holdingRemote)
       PROVE  Tells(t[p])
  <2>1. /\ (all \/ Tells(q)) /\ (all => q.holdingRemote = {})
        /\ ~(flow.rts = "toggle" /\ "CTS" \in q.holdingRemote)
        /\ q.flow = old
    BY <1>4, <1>19 DEF Like, Tells
  <2>2. Tells(s4[p])
    BY <1>4, <1>17, <2>1, LinesTold DEF lines, reasons, mask, bits
  <2> QED
    BY <1>15, <2>2 DEF Steady
<1> QED
  BY <1>1, <1>18, <1>19
-----------------------------------------------------------------------------
(***************************************************************************)
(* The invariant.                                                          *)
(***************************************************************************)
Counts ==
  /\ engine \in Ports \cup {NoPort} /\ opening \in Ports \cup {NoPort}
  /\ rounds \in Nat /\ orders \in 0 .. MaxOrders /\ history \subseteq Past

(* A port that AddFdoPort has not run for was never opened or set.         *)
Unborn == \A p \in Ports \ added : ~port[p].isOpen /\ port[p].flow.out = {}

Telling ==
  history \cap {"byHand", "switch"} = {} =>
    \A p \in Ports : port[p].isOpen => Tells(port[p])

LinesInv ==
  /\ wiring \in Wirings /\ added \subseteq Ports /\ port \in States /\ Counts
  /\ Follows(port) /\ \A p \in Ports : Held(port, p)
  /\ Unborn /\ Telling

LEMMA LinesInvWired == LinesInv => Wired
BY HandFlowAssumption DEF LinesInv, Wired

(* Most handlers leave the settings alone.                                 *)
LEMMA SteadyStep ==
  ASSUME LinesInv, Steady(port, port'), UNCHANGED <<wiring, added>>,
         Counts', history \subseteq history'
  PROVE  LinesInv'
<1>1. /\ port' \in States
      /\ \A p \in Ports : /\ port'[p].isOpen = port[p].isOpen
                          /\ port'[p].flow = port[p].flow
      /\ \A p \in Ports : Held(port', p)
      /\ \A p \in Ports : Tells(port[p]) => Tells(port'[p])
  BY DEF Steady, LinesInv
<1>2. Follows(port)'
  <2>1. Follows(port')
    BY DEF Steady, LinesInv
  <2> QED
    BY <2>1 DEF Follows, Signal
<1>3. Unborn'
  BY <1>1 DEF Unborn, LinesInv
<1>4. Telling'
  BY <1>1 DEF Telling, LinesInv
<1>5. (\A p \in Ports : Held(port, p))'
  BY <1>1 DEF Held
<1> QED
  BY <1>1, <1>2, <1>3, <1>4, <1>5 DEF LinesInv

LEMMA UnmovedStep ==
  ASSUME LinesInv, port' \in States, Unmoved(port, port'),
         UNCHANGED <<wiring, added>>, Counts', history \subseteq history'
  PROVE  LinesInv'
<1>1. Steady(port, port')
  BY LinesInvWired, UnmovedSteady DEF LinesInv
<1> QED
  BY <1>1, SteadyStep

LEMMA LinesInit == Init => LinesInv
<1> SUFFICES ASSUME Init PROVE LinesInv
  OBVIOUS
<1>1. NoFlow \in HandFlows /\ NoFlow.out = {} /\ NoFlow.xoffLimit = 0
  BY DEF NoFlow, HandFlows, RtsModes
<1>2. /\ NewPort \in PortType /\ ~NewPort.isOpen /\ NewPort.flow = NoFlow
      /\ NewPort.tx = <<>> /\ NewPort.holding = {}
      /\ NewPort.size = 0 /\ NewPort.limit = 0 /\ NewPort.busy = 0
      /\ NewPort.reading = 0 /\ NewPort.holdingRemote = {}
  <2>1. 0 \in 0 .. BufSize
    BY HandFlowAssumption
  <2> QED
    BY <1>1, <2>1 DEF NewPort, PortType
<1>3. Good(NewPort)
  <2>1. Len(<<>>) <= TxSize /\ 0 <= BufSize
    BY HandFlowAssumption
  <2> QED
    BY <1>1, <1>2, <2>1 DEF Good, Fit
<1>4. port \in States /\ \A p \in Ports : port[p] = NewPort
  BY <1>2, <1>3 DEF Init, States
<1>5. Counts
  BY HandFlowAssumption DEF Init, Counts
<1>6. Follows(port)
  BY DEF Init, Follows
<1>7. (\A p \in Ports : Held(port, p)) /\ Unborn /\ Telling
  BY <1>1, <1>2, <1>4 DEF Held, Unborn, Telling
<1> QED
  BY <1>4, <1>5, <1>6, <1>7 DEF Init, LinesInv

(* A handler that sets a line by hand.                                     *)
LEMMA ByHandStep ==
  ASSUME LinesInv, NEW p \in Ports, NEW bits, NEW mask,
         ControlSet(port, port', p, bits, mask), UNCHANGED <<wiring, added>>,
         Counts', "byHand" \in history'
  PROVE  LinesInv'
<1>1. /\ port' \in States
      /\ \A q \in Ports : /\ port'[q].isOpen = port[q].isOpen
                          /\ port'[q].flow = port[q].flow
      /\ \A q \in Ports : Held(port', q)
  BY DEF ControlSet, SameFlow, LinesInv
<1>2. Follows(port)'
  <2>1. Follows(port')
    BY DEF ControlSet, LinesInv
  <2> QED
    BY <2>1 DEF Follows, Signal
<1>3. Unborn' /\ Telling'
  BY <1>1 DEF Unborn, Telling, LinesInv
<1>4. (\A q \in Ports : Held(port, q))'
  BY <1>1 DEF Held
<1> QED
  BY <1>1, <1>2, <1>3, <1>4 DEF LinesInv

LEMMA OrderStep ==
  ASSUME LinesInv, Order
  PROVE  orders' \in 0 .. MaxOrders
BY HandFlowAssumption DEF LinesInv, Counts, Order

LEMMA MeddleStep ==
  ASSUME LinesInv, NEW p \in Ports, Meddle(p)
  PROVE  /\ orders' \in 0 .. MaxOrders /\ history' \subseteq Past
         /\ "byHand" \in history' /\ history \subseteq history'
BY HandFlowAssumption DEF LinesInv, Counts, Meddle, Order, Past

LEMMA SetLineStep ==
  ASSUME LinesInv, NEW p \in Ports, Meddle(p), NEW bits,
         NEW mask, mask \subseteq Outs,
         Run(SetModemControl(port, p, bits, mask), Remote(p)),
         UNCHANGED <<wiring, rounds, added, opening>>
  PROVE  LinesInv'
<1>1. Wired /\ port \in States
  BY LinesInvWired DEF LinesInv
<1>2. ControlSet(port, port', p, bits, mask)
  BY <1>1, SetControl, Looser DEF Run
<1>3. Counts'
  BY MeddleStep, RemotePort DEF Counts, LinesInv, Run
<1> QED
  BY <1>2, <1>3, MeddleStep, ByHandStep

LEMMA ByHandKeeps ==
  ASSUME LinesInv, NEW p \in Ports, ByHand(p)
  PROVE  LinesInv'
<1>0. Wired /\ port \in States
  BY LinesInvWired DEF LinesInv
<1>1. ASSUME NEW bits \in {{}, {"RTS"}}, SetRts(p, bits) PROVE LinesInv'
  <2>1. {"RTS"} \subseteq Outs
    BY DEF Outs
  <2> QED
    BY <1>1, <2>1, SetLineStep DEF SetRts
<1>2. ASSUME NEW bits \in {{}, {"DTR"}}, SetDtr(p, bits) PROVE LinesInv'
  <2>1. {"DTR"} \subseteq Outs
    BY DEF Outs
  <2> QED
    BY <1>2, <2>1, SetLineStep DEF SetDtr
<1>3. ASSUME NEW bits \in Outputs, SetOutputs(p, bits) PROVE LinesInv'
  <2>1. Outs \ {"OPEN"} \subseteq Outs
    OBVIOUS
  <2> QED
    BY <1>3, <2>1, SetLineStep DEF SetOutputs
<1>4. CASE SetXon(p)
  <2>1. /\ Meddle(p) /\ UNCHANGED <<wiring, rounds, added, opening>>
        /\ port' = SetXonXoffHolding(port, p, "on")
        /\ engine' \in Ports \cup {NoPort}
    BY <1>4, RemotePort DEF SetXon
  <2>2. port' \in States /\ Unmoved(port, port')
    BY <1>0, <2>1, XonXoffHolding
  <2>3. Counts'
    BY <2>1, MeddleStep DEF Counts, LinesInv
  <2> QED
    BY <2>1, <2>2, <2>3, MeddleStep, UnmovedStep
<1>5. CASE SetXoff(p)
  <2>1. /\ Meddle(p) /\ UNCHANGED <<wiring, rounds, added, engine, opening>>
        /\ port' = SetXonXoffHolding(port, p, "off")
    BY <1>5 DEF SetXoff
  <2>2. port' \in States /\ Unmoved(port, port')
    BY <1>0, <2>1, XonXoffHolding
  <2>3. Counts'
    BY <2>1, MeddleStep DEF Counts, LinesInv
  <2> QED
    BY <2>1, <2>2, <2>3, MeddleStep, UnmovedStep
<1>6. ASSUME NEW on \in BOOLEAN, SetBreak(p, on) PROVE LinesInv'
  <2> DEFINE s == SetBreakHolding(port, p, on)
  <2>1. /\ Meddle(p) /\ UNCHANGED <<wiring, rounds, added, opening>>
        /\ port' = UpdateTransmitToggle(s, p) /\ engine' \in Ports \cup {NoPort}
    BY <1>6, RemotePort DEF SetBreak, Run
  <2>2. s \in States /\ Unmoved(port, s)
    BY <1>0, BreakHolding
  <2> HIDE DEF s
  <2>3. Steady(port, s) /\ Steady(s, port')
    BY <1>0, <2>1, <2>2, UnmovedSteady, ToggleSteady
  <2>4. Steady(port, port')
    BY <2>3, SteadyTwice
  <2>5. Counts'
    BY <2>1, MeddleStep DEF Counts, LinesInv
  <2> QED
    BY <2>1, <2>4, <2>5, MeddleStep, SteadyStep
<1> QED
  BY <1>1, <1>2, <1>3, <1>4, <1>5, <1>6 DEF ByHand

LEMMA WriteKeeps ==
  ASSUME LinesInv, NEW p \in Ports, NEW n \in WriteSizes, Write(p, n)
  PROVE  LinesInv'
<1> DEFINE q == [port[p] EXCEPT !.writing = n]
<1>1. /\ port \in States /\ port \in [Ports -> PortType]
      /\ port[p] \in PortType /\ Good(port[p]) /\ n \in Nat
  BY HandFlowAssumption DEF LinesInv, States
<1>2. port' = [port EXCEPT ![p] = q]
  BY <1>1 DEF Write
<1>3. q \in PortType /\ Good(q) /\ Like(port[p], q)
  BY <1>1 DEF PortType, Good, Fit, Like
<1> HIDE DEF q
<1>4. port' \in States /\ Unmoved(port, port')
  BY <1>1, <1>2, <1>3, Replaced
<1>5. Counts'
  BY DEF Write, Counts, LinesInv
<1> QED
  BY <1>4, <1>5, UnmovedStep DEF Write

LEMMA ReadKeeps ==
  ASSUME LinesInv, NEW p \in Ports, NEW n \in ReadSizes, Read(p, n)
  PROVE  LinesInv'
<1> DEFINE q == [port[p] EXCEPT !.reading = n]
<1>1. /\ port \in States /\ port \in [Ports -> PortType] /\ port[p].isOpen
      /\ port[p] \in PortType /\ Good(port[p]) /\ n \in Nat
  BY HandFlowAssumption DEF LinesInv, States, Read
<1>2. port' = [port EXCEPT ![p] = q]
  BY <1>1 DEF Read
<1>3. q \in PortType /\ Good(q) /\ Like(port[p], q)
  BY <1>1 DEF PortType, Good, Fit, Like
<1> HIDE DEF q
<1>4. port' \in States /\ Unmoved(port, port')
  BY <1>1, <1>2, <1>3, Replaced
<1>5. Counts'
  BY RemotePort DEF Read, Counts, LinesInv
<1> QED
  BY <1>4, <1>5, UnmovedStep DEF Read

LEMMA AbortKeeps ==
  ASSUME LinesInv, NEW p \in Ports, Abort(p)
  PROVE  LinesInv'
<1> DEFINE q == [port[p] EXCEPT !.writing = 0, !.reading = 0]
<1>1. /\ port \in States /\ port \in [Ports -> PortType]
      /\ port[p] \in PortType /\ Good(port[p])
  BY DEF LinesInv, States
<1>2. port' = [port EXCEPT ![p] = q]
  BY <1>1 DEF Abort
<1>3. q \in PortType /\ Good(q) /\ Like(port[p], q)
  BY <1>1 DEF PortType, Good, Fit, Like
<1> HIDE DEF q
<1>4. port' \in States /\ Unmoved(port, port')
  BY <1>1, <1>2, <1>3, Replaced
<1>5. Counts'
  BY HandFlowAssumption DEF Abort, Order, Counts, LinesInv
<1> QED
  BY <1>4, <1>5, UnmovedStep DEF Abort

LEMMA PurgeKeeps ==
  ASSUME LinesInv, NEW p \in Ports, Purge(p)
  PROVE  LinesInv'
<1> DEFINE q == [port[p] EXCEPT !.busy = 0]
           s == [port EXCEPT ![p] = q]
<1>1. /\ port \in States /\ port \in [Ports -> PortType] /\ port[p].isOpen
      /\ port[p] \in PortType /\ Good(port[p]) /\ 0 \in 0 .. BufSize
  BY HandFlowAssumption DEF LinesInv, States, Purge
<1>2. port' = UpdateHandFlow(s, p, TRUE)
  <2>1. [port EXCEPT ![p].busy = 0] = s
    BY <1>1
  <2> QED
    BY <2>1 DEF Purge, Run
<1>3. q \in PortType /\ Good(q) /\ Like(port[p], q)
  BY <1>1 DEF PortType, Good, Fit, Like
<1> HIDE DEF q
<1>4. s \in States /\ Unmoved(port, s)
  BY <1>1, <1>3, Replaced
<1> HIDE DEF s
<1>5. Steady(port, s) /\ s[p].isOpen
  BY <1>1, <1>4, LinesInvWired, UnmovedSteady DEF Steady
<1>6. Steady(s, port')
  BY <1>2, <1>4, <1>5, LinesInvWired, UpdateSteady
<1>7. Counts' /\ history \subseteq history'
  <2>1. /\ Order /\ history' \in {history, history \cup {"purge"}}
        /\ engine' \in {Remote(p), NoPort}
        /\ UNCHANGED <<wiring, rounds, added, opening>>
    BY DEF Purge, Run
  <2>2. orders' \in 0 .. MaxOrders
    BY <2>1, OrderStep
  <2> QED
    BY <2>1, <2>2, RemotePort DEF Counts, LinesInv, Past
<1>8. Steady(port, port')
  BY <1>5, <1>6, SteadyTwice
<1> QED
  BY <1>7, <1>8, SteadyStep DEF Purge

LEMMA OpenLineKeeps ==
  ASSUME LinesInv, OpenLine
  PROVE  LinesInv'
<1> DEFINE p == opening
<1>1. p \in Ports /\ port \in States /\ Wired
  BY LinesInvWired DEF LinesInv, Counts, OpenLine
<1>2. {"OPEN"} \subseteq Outs
  BY DEF Outs
<1>3. ControlSet(port, port', p, {"OPEN"}, {"OPEN"})
  BY <1>1, <1>2, SetControl, Looser DEF OpenLine
<1>4. \A r \in Ports : Tells(port[r]) => Tells(port'[r])
  BY <1>1, <1>3, RemotePort DEF ControlSet, SameFlow, Tells
<1>5. Steady(port, port')
  BY <1>1, <1>3, <1>4 DEF ControlSet, SameFlow, Steady
<1>6. Counts'
  BY <1>1, RemotePort DEF OpenLine, Counts, LinesInv
<1> QED
  BY <1>5, <1>6, SteadyStep DEF OpenLine

LEMMA TransferKeeps ==
  ASSUME LinesInv, Transfer
  PROVE  LinesInv'
<1> DEFINE q == [port[engine] EXCEPT !.tryWrite = FALSE]
           s == [port EXCEPT ![engine] = q]
<1>1. /\ port \in States /\ port \in [Ports -> PortType] /\ engine \in Ports
      /\ port[engine] \in PortType /\ Good(port[engine])
  BY DEF LinesInv, States, Counts, Transfer
<1>2. port' = TryReadWrite(s, engine)
  <2>1. [port EXCEPT ![engine].tryWrite = FALSE] = s
    BY <1>1
  <2> QED
    BY <2>1 DEF Transfer
<1>3. q \in PortType /\ Good(q) /\ Like(port[engine], q)
  BY <1>1 DEF PortType, Good, Fit, Like
<1> HIDE DEF q
<1>4. s \in States /\ Unmoved(port, s)
  BY <1>1, <1>3, Replaced
<1> HIDE DEF s
<1>5. Steady(port, s) /\ Steady(s, port')
  BY <1>1, <1>2, <1>4, LinesInvWired, UnmovedSteady, TryReadWriteSteady
<1>6. Counts'
  BY <1>1, RemotePort DEF Transfer, Counts, LinesInv
<1>7. Steady(port, port')
  BY <1>5, SteadyTwice
<1> QED
  BY <1>6, <1>7, SteadyStep DEF Transfer

LEMMA CloseKeeps ==
  ASSUME LinesInv, NEW p \in Ports, Close(p)
  PROVE  LinesInv'
<1> DEFINE q == [port[p] EXCEPT !.isOpen = FALSE, !.holdingRemote = {},
                                !.sendXonXoff = "none"]
           s == [port EXCEPT ![p] = q]
           t == SetModemControl(s, p, {"OUT2"}, Outs)
           r == [t[p] EXCEPT !.size = 0, !.limit = 0, !.busy = 0]
           u == [t EXCEPT ![p] = r]
<1>1. /\ port \in States /\ port \in [Ports -> PortType] /\ Wired
      /\ port[p] \in PortType /\ Good(port[p]) /\ port[p].reading = 0
      /\ 0 \in 0 .. BufSize
  BY LinesInvWired, HandFlowAssumption DEF LinesInv, States, Close
<1>2. /\ q \in PortType /\ Fit(q) 
      /\ q.modemControl = port[p].modemControl
      /\ q.modemStatus = port[p].modemStatus /\ q.holding = port[p].holding
      /\ q.flow = port[p].flow /\ ~q.isOpen /\ q.reading = 0 /\ q.holdingRemote = {}
  BY <1>1 DEF PortType, Good, Fit
<1> HIDE DEF q
<1>3. s \in Loose /\ s[p] = q /\ \A x \in Ports : x # p => s[x] = port[x]
  BY <1>1, <1>2, Looser, ReplacedLoose
<1> HIDE DEF s
<1>4. Follows(s)
  <2>1. \A x \in Ports : /\ s[x].modemControl = port[x].modemControl
                         /\ s[x].modemStatus = port[x].modemStatus
    BY <1>2, <1>3
  <2>2. \A x \in added, in \in Ins : Signal(s, x, in) <=> Signal(port, x, in)
    BY <1>1, <2>1, SignalsOf
  <2> QED
    BY <1>1, <2>1, <2>2 DEF Follows, Wired, LinesInv
<1>5. \A x \in Ports : Held(s, x)
  BY <1>2, <1>3 DEF Held, LinesInv
<1>6. ControlSet(s, t, p, {"OUT2"}, Outs)
  BY <1>1, <1>3, SetControl
<1>7. port' = SetBreakHolding(u, p, FALSE)
  <2>1. /\ [port EXCEPT ![p].isOpen = FALSE, ![p].holdingRemote = {},
                        ![p].sendXonXoff = "none"] = s
    BY <1>1 DEF s, q
  <2>2. [t EXCEPT ![p].size = 0, ![p].limit = 0, ![p].busy = 0] = u
    BY <1>6 DEF ControlSet, Loose
  <2> HIDE DEF t, u
  <2> QED
    BY <2>1, <2>2 DEF Close, t
<1> HIDE DEF t
<1>8. /\ t \in Loose /\ SameFlow(s, t) /\ Follows(t)
      /\ t \in [Ports -> PortType] /\ t[p] \in PortType /\ Fit(t[p])
      /\ \A x \in Ports : Held(t, x)
      /\ \A x \in Ports : x # p => t[x].modemControl = s[x].modemControl
  BY <1>4, <1>5, <1>6, RemotePort DEF ControlSet, Loose
<1>9. /\ r \in PortType /\ Good(r) /\ LinesLike(t[p], r) /\ ~r.isOpen
      /\ r.modemControl = t[p].modemControl
      /\ r.modemStatus = t[p].modemStatus
  <2>1. ~t[p].isOpen /\ t[p].reading = 0 /\ t[p].holdingRemote = {}
    BY <1>2, <1>3, <1>8 DEF SameFlow, SameBuffer
  <2> QED
    BY <1>1, <1>8, <2>1 DEF PortType, Good, Fit, LinesLike
<1> HIDE DEF r
<1>10. u[p] = r /\ \A x \in Ports : x # p => u[x] = t[x]
  BY <1>8
<1>11. u \in States
  <2>1. u \in [Ports -> PortType]
    BY <1>8, <1>9
  <2>2. \A x \in Ports : x # p => Good(t[x])
    <3>1. \A x \in Ports : Good(port[x])
      BY <1>1 DEF States
    <3> QED
      BY <1>3, <1>8, <3>1 DEF Loose, Good, SameFlow, SameBuffer
  <2>3. \A x \in Ports : Good(u[x])
    BY <1>9, <1>10, <2>2
  <2> QED
    BY <2>1, <2>3 DEF States
<1> HIDE DEF u
<1>12. Follows(u)
  <2>1. \A x \in Ports : /\ u[x].modemControl = t[x].modemControl
                         /\ u[x].modemStatus = t[x].modemStatus
    BY <1>9, <1>10
  <2>2. \A x \in added, in \in Ins : Signal(u, x, in) <=> Signal(t, x, in)
    BY <1>1, <2>1, SignalsOf
  <2> QED
    BY <1>1, <1>8, <2>1, <2>2 DEF Follows, Wired
<1>13. \A x \in Ports : Held(u, x)
  BY <1>8, <1>9, <1>10 DEF Held, LinesLike
<1>14. port' \in States /\ Unmoved(u, port')
  BY <1>7, <1>11, BreakHolding
<1>15. Follows(port') /\ \A x \in Ports : Held(port', x)
  BY <1>1, <1>12, <1>13, <1>14, UnmovedLines
<1>16. /\ \A x \in Ports : port'[x].flow = port[x].flow
       /\ \A x \in Ports : port'[x].isOpen => port[x].isOpen /\ x # p
       /\ \A x \in Ports : x # p /\ Tells(port[x]) => Tells(port'[x])
  <2>1. /\ ~u[p].isOpen /\ u[p].flow = port[p].flow
        /\ \A x \in Ports : x # p =>
             /\ u[x].isOpen = port[x].isOpen /\ u[x].flow = port[x].flow
             /\ u[x].modemControl = port[x].modemControl
             /\ u[x].holdingRemote = port[x].holdingRemote
    BY <1>2, <1>3, <1>8, <1>9, <1>10 DEF SameFlow, LinesLike
  <2>2. \A x \in Ports : /\ port'[x].isOpen = u[x].isOpen
                         /\ port'[x].flow = u[x].flow
                         /\ port'[x].modemControl = u[x].modemControl
                         /\ port'[x].holdingRemote = u[x].holdingRemote
    BY <1>14 DEF Unmoved, Like
  <2>3. \A x \in Ports : x # p /\ Tells(port[x]) => Tells(port'[x])
    BY <2>1, <2>2 DEF Tells
  <2> QED
    BY <2>1, <2>2, <2>3
<1>17. UNCHANGED <<wiring, added>> /\ Counts' /\ history \subseteq history'
  <2>1. /\ Order /\ history' = history \cup {"close"}
        /\ UNCHANGED <<wiring, rounds, added, engine, opening>>
    BY DEF Close
  <2>2. orders' \in 0 .. MaxOrders
    BY <2>1, OrderStep
  <2> QED
    BY <2>1, <2>2 DEF Counts, LinesInv, Past
<1>18. Follows(port)'
  BY <1>15, <1>17 DEF Follows, Signal
<1>19. Unborn' /\ Telling'
  <2>1. Unborn'
    BY <1>16, <1>17 DEF Unborn, LinesInv
  <2>2. Telling'
    BY <1>16, <1>17 DEF Telling, LinesInv
  <2> QED
    BY <2>1, <2>2
<1>20. (\A x \in Ports : Held(port, x))'
  BY <1>15 DEF Held
<1> QED
  BY <1>14, <1>17, <1>18, <1>19, <1>20 DEF LinesInv

(* The lines of a port are wired when AddFdoPort has run for it.           *)
LEMMA AddKeeps ==
  ASSUME LinesInv, NEW p \in Ports, AddFdoPort(p)
  PROVE  LinesInv'
<1> DEFINE flow == [NoFlow EXCEPT !.rts = "on", !.dtr = "on"]
           control == port[p].modemControl \cup {"OUT2"}
           q == [port[p] EXCEPT !.flow = flow, !.tx = <<>>,
                                !.modemControl = control]
           s == [port EXCEPT ![p] = q]
           status == {in \in Ins : Signal(s, p, in)}
           r == [q EXCEPT !.modemStatus = status]
<1>1. /\ port \in States /\ port \in [Ports -> PortType] /\ Wired
      /\ port[p] \in PortType /\ Good(port[p]) /\ p \notin added
      /\ ~port[p].isOpen /\ port[p].flow.out = {}
      /\ 0 <= BufSize /\ 0 <= TxSize
  BY LinesInvWired, HandFlowAssumption
     DEF LinesInv, States, AddFdoPort, Unborn
<1>2. /\ flow \in HandFlows /\ flow.out = {} /\ flow.xoffLimit = 0
      /\ control \in SUBSET Outs
  BY <1>1 DEF NoFlow, HandFlows, RtsModes, PortType, Outs
<1>3. /\ UNCHANGED <<wiring, rounds, engine, opening, orders, history>>
      /\ added' = added \cup {p}
  BY DEF AddFdoPort
<1>4. port' = [port EXCEPT ![p] = r]
  <2>1. [port EXCEPT ![p].flow = flow, ![p].tx = <<>>,
                     ![p].modemControl = @ \cup {"OUT2"}] = s
    BY <1>1
  <2>2. port' = PinMap(s, p)
    BY <2>1 DEF AddFdoPort
  <2> HIDE DEF q
  <2> QED
    BY <1>1, <2>2 DEF PinMap
<1>5. /\ q \in PortType /\ Good(q) /\ q.flow = flow /\ ~q.isOpen
      /\ q.modemControl = control /\ q.holding = port[p].holding
  <2>1. <<>> \in Seq(Chars) /\ Len(<<>>) = 0
    OBVIOUS
  <2> HIDE DEF flow, control
  <2> QED
    BY <1>1, <1>2, <2>1 DEF PortType, Good, Fit, Chars
<1>6. \A in \in Ins : in \in status <=> Signal(s, p, in)
  OBVIOUS
<1>7. status \in SUBSET Ins
  OBVIOUS
<1>8. s[p] = q /\ \A x \in Ports : x # p => s[x] = port[x]
  BY <1>1
<1> HIDE DEF q, s, status, flow
<1>9. /\ r \in PortType /\ Good(r) /\ r.flow = flow /\ ~r.isOpen
      /\ r.modemControl = control /\ r.holding = port[p].holding
      /\ r.modemStatus = status
  BY <1>5, <1>7 DEF PortType, Good, Fit
<1> HIDE DEF r
<1>10. /\ port' \in States /\ port'[p] = r
       /\ \A x \in Ports : x # p => port'[x] = port[x]
  BY <1>1, <1>4, <1>9, Replaced
<1>11. ASSUME NEW x \in added \cup {p}, NEW in \in Ins,
              wiring[x][in].pin # "OUT2"
       PROVE  in \in port'[x].modemStatus <=> Signal(port', x, in)
  <2>0. x \in Ports /\ Remote(x) \in Ports
    BY <1>1, RemotePort DEF Wired
  <2>1. CASE x = p
    <3>1. Signal(s, x, in) <=> Signal(port', x, in)
      BY <1>5, <1>8, <1>9, <1>10, <2>0, SignalSame
    <3> QED
      BY <1>6, <1>9, <1>10, <2>1, <3>1
  <2>2. CASE x # p
    <3>1. Signal(port, x, in) <=> Signal(port', x, in)
      BY <1>9, <1>10, <1>11, <2>0, SignalSame DEF control
    <3>2. in \in port[x].modemStatus <=> Signal(port, x, in)
      BY <1>11, <2>2 DEF LinesInv, Follows
    <3> QED
      BY <1>10, <2>0, <2>2, <3>1, <3>2
  <2> QED
    BY <2>1, <2>2
<1>12. Follows(port)'
  <2> SUFFICES ASSUME NEW x \in added', NEW in \in Ins,
                      wiring[x][in].pin # "OUT2"
               PROVE  in \in port'[x].modemStatus <=> Signal(port, x, in)'
    BY <1>3 DEF Follows
  <2>1. in \in port'[x].modemStatus <=> Signal(port', x, in)
    BY <1>3, <1>11
  <2> QED
    BY <1>3, <2>1 DEF Signal
<1>13. (\A x \in Ports : Held(port, x))'
  <2>1. \A x \in Ports : Held(port, x)
    BY DEF LinesInv
  <2>2. Held(port', p)
    BY <1>1, <1>2, <1>9, <1>10, <2>1 DEF Held
  <2>3. \A x \in Ports : Held(port', x)
    BY <1>10, <2>1, <2>2 DEF Held
  <2> QED
    BY <2>3 DEF Held
<1>14. Unborn' /\ Telling'
  BY <1>3, <1>9, <1>10 DEF Unborn, Telling, LinesInv
<1>15. Counts' /\ (wiring \in Wirings)' /\ (added \subseteq Ports)'
  BY <1>3 DEF Counts, LinesInv
<1> QED
  BY <1>10, <1>12, <1>13, <1>14, <1>15 DEF LinesInv

(* The port that is opened, as SetHandFlow finds it.                       *)
OpenedAs(p, q) ==
  /\ q \in PortType /\ Good(q) /\ q.isOpen
  /\ q.flow \in HandFlows /\ q.flow.xoffLimit <= BufSize
  /\ q.flow.out = port[p].flow.out
  /\ q.modemControl = port[p].modemControl
  /\ q.modemStatus = port[p].modemStatus /\ q.holdingRemote = port[p].holdingRemote
  /\ q.holdingRemote = {}
  /\ q.holding = port[p].holding /\ q.tx = port[p].tx
  /\ q.writing = port[p].writing
  /\ q.sendXonXoff = port[p].sendXonXoff /\ q.sendBreak = port[p].sendBreak
  /\ q.flow.autoTransmit = port[p].flow.autoTransmit

LEMMA OpenIs ==
  ASSUME LinesInv, NEW p \in Ports, Open(p)
  PROVE  \E q : /\ OpenedAs(p, q)
                /\ port' = SetHandFlow([port EXCEPT ![p] = q], p, q.flow, TRUE)
                /\ opening' = p /\ engine' \in Ports \cup {NoPort}
                /\ UNCHANGED <<wiring, rounds, added, orders, history>>
<1> DEFINE flow == [port[p].flow EXCEPT !.xoffLimit = BufSize \div 8,
                                        !.xonLimit = BufSize \div 2]
           q == [port[p] EXCEPT !.isOpen = TRUE, !.size = BufSize,
                   !.limit = BufSize, !.busy = 0, !.tryWrite = FALSE,
                   !.flow = flow]
           s == [port EXCEPT ![p] = q]
           t == SetHandFlow(s, p, flow, TRUE)
<1>1. /\ port \in States /\ port \in [Ports -> PortType] /\ Wired
      /\ port[p] \in PortType /\ Good(port[p]) /\ ~port[p].isOpen
      /\ p \in added /\ port[p].flow \in HandFlows
      /\ port[p].holdingRemote = {}
  BY LinesInvWired DEF LinesInv, States, Open, PortType, Good
<1>2. /\ BufSize \div 8 \in 0 .. BufSize /\ BufSize \div 2 \in 0 .. BufSize
      /\ BufSize \in 0 .. BufSize /\ 0 \in 0 .. BufSize
  BY HandFlowAssumption
<1>3. /\ flow \in HandFlows /\ flow.xoffLimit <= BufSize
      /\ flow.rts = port[p].flow.rts /\ flow.dtr = port[p].flow.dtr
      /\ flow.out = port[p].flow.out
      /\ flow.autoTransmit = port[p].flow.autoTransmit
  <2>1. BufSize \div 8 \in Nat /\ BufSize \div 2 \in Nat
    BY HandFlowAssumption
  <2>2. flow \in HandFlows
    BY <1>1, <2>1 DEF HandFlows
  <2> QED
    BY <1>1, <1>2, <2>2 DEF HandFlows
<1>4. s[p].flow = flow
      /\ [port EXCEPT
            ![p].isOpen = TRUE, ![p].size = BufSize,
            ![p].limit = BufSize, ![p].busy = 0, ![p].tryWrite = FALSE,
            ![p].flow.xoffLimit = BufSize \div 8,
            ![p].flow.xonLimit = BufSize \div 2] = s
  <2> DEFINE q1 == [port[p] EXCEPT !.isOpen = TRUE, !.size = BufSize,
                      !.limit = BufSize, !.busy = 0, !.tryWrite = FALSE]
             s1 == [port EXCEPT ![p] = q1]
  <2>1. [port EXCEPT ![p].isOpen = TRUE, ![p].size = BufSize,
                     ![p].limit = BufSize, ![p].busy = 0,
                     ![p].tryWrite = FALSE] = s1
    BY <1>1
  <2>2. q1.flow = port[p].flow /\ q = [q1 EXCEPT !.flow = flow]
    BY <1>1 DEF PortType
  <2>3. q1 \in PortType
    BY <1>1, <1>2 DEF PortType
  <2>4. q.flow = flow
    BY <1>1, <1>3 DEF PortType
  <2> HIDE DEF q1
  <2>5. s1 \in [Ports -> PortType] /\ s1[p] = q1
    BY <1>1, <2>3
  <2>6. [q1 EXCEPT !.flow.xoffLimit = BufSize \div 8,
                   !.flow.xonLimit = BufSize \div 2] = q
    <3> HIDE DEF q
    <3> QED
      BY <2>2, <2>3 DEF PortType
  <2>7. [s1 EXCEPT ![p] = q] = s
    BY <1>1
  <2> HIDE DEF s1, q, s
  <2>8. [s1 EXCEPT ![p].flow.xoffLimit = BufSize \div 8,
                   ![p].flow.xonLimit = BufSize \div 2]
          = [s1 EXCEPT ![p] = [s1[p] EXCEPT !.flow.xoffLimit = BufSize \div 8,
                                            !.flow.xonLimit = BufSize \div 2]]
    BY <2>5
  <2>9. s[p] = q
    BY <1>1 DEF s
  <2> QED
    BY <2>1, <2>4, <2>5, <2>6, <2>7, <2>8, <2>9
<1> HIDE DEF flow
<1>5. /\ q \in PortType /\ Good(q) /\ q.isOpen /\ q.flow = flow
      /\ q.modemControl = port[p].modemControl
      /\ q.modemStatus = port[p].modemStatus /\ q.holding = port[p].holding
      /\ q.holdingRemote = {} /\ q.tx = port[p].tx
      /\ q.writing = port[p].writing
      /\ q.sendXonXoff = port[p].sendXonXoff /\ q.sendBreak = port[p].sendBreak
  <2>1. q \in PortType
    BY <1>1, <1>2, <1>3 DEF PortType
  <2>2. /\ q.isOpen /\ q.flow = flow /\ q.tx = port[p].tx
        /\ q.modemControl = port[p].modemControl
        /\ q.modemStatus = port[p].modemStatus /\ q.holding = port[p].holding
        /\ q.holdingRemote = {} /\ q.sendBreak = port[p].sendBreak
        /\ q.sendXonXoff = port[p].sendXonXoff
        /\ q.writing = port[p].writing
    BY <1>1 DEF PortType
  <2> QED
    BY <1>1, <1>3, <2>1, <2>2 DEF Good, Fit
<1>6. /\ port' = t /\ opening' = p
      /\ engine' \in Ports \cup {NoPort}
      /\ UNCHANGED <<wiring, rounds, added, orders, history>>
  <2> HIDE DEF q, s
  <2> QED
    BY <1>4, RemotePort DEF Open, Run
<1> HIDE DEF q
<1>7. OpenedAs(p, q)
  BY <1>1, <1>3, <1>5 DEF OpenedAs
<1>8. port' = SetHandFlow([port EXCEPT ![p] = q], p, q.flow, TRUE)
  BY <1>5, <1>6
<1> QED
  BY <1>6, <1>7, <1>8

LEMMA OpenKeeps ==
  ASSUME LinesInv, NEW p \in Ports, Open(p)
  PROVE  LinesInv'
<1>1. PICK q : /\ OpenedAs(p, q)
               /\ port' = SetHandFlow([port EXCEPT ![p] = q], p, q.flow, TRUE)
               /\ opening' = p /\ engine' \in Ports \cup {NoPort}
               /\ UNCHANGED <<wiring, rounds, added, orders, history>>
  BY OpenIs
<1> DEFINE flow == q.flow
           s == [port EXCEPT ![p] = q]
           t == SetHandFlow(s, p, flow, TRUE)
<1>2. /\ port \in States /\ port \in [Ports -> PortType] /\ Wired
      /\ port[p] \in PortType /\ ~port[p].isOpen /\ p \in added
  BY LinesInvWired DEF LinesInv, States, Open
<1>3. /\ flow \in HandFlows /\ flow.xoffLimit <= BufSize
      /\ flow.out = port[p].flow.out
  BY <1>1 DEF OpenedAs
<1>4. /\ q \in PortType /\ Good(q) /\ q.isOpen /\ q.flow = flow
      /\ q.modemControl = port[p].modemControl
      /\ q.modemStatus = port[p].modemStatus /\ q.holding = port[p].holding
      /\ q.holdingRemote = {}
  BY <1>1 DEF OpenedAs
<1>5. /\ port' = t /\ opening' = p
      /\ engine' \in Ports \cup {NoPort}
      /\ UNCHANGED <<wiring, rounds, added, orders, history>>
  BY <1>1
<1> HIDE DEF flow
<1>6. s \in States /\ s[p] = q /\ \A x \in Ports : x # p => s[x] = port[x]
  BY <1>2, <1>4, Replaced
<1> HIDE DEF s
<1>7. /\ HandFlowSet(s, t, p, flow)
      /\ ~(flow.rts = "toggle" /\ "CTS" \in s[p].holdingRemote)
           => Tells(t[p])
  BY <1>2, <1>3, <1>4, <1>6, SetHandFlowKeeps
<1> HIDE DEF t
<1>8. Follows(s)
  <2>1. \A x \in Ports : /\ s[x].modemControl = port[x].modemControl
                         /\ s[x].modemStatus = port[x].modemStatus
    BY <1>4, <1>6
  <2>2. \A x \in added, in \in Ins : Signal(s, x, in) <=> Signal(port, x, in)
    BY <1>2, <2>1, SignalsOf
  <2> QED
    BY <1>2, <2>1, <2>2 DEF Follows, Wired, LinesInv
<1>9. \A x \in Ports : Held(s, x)
  BY <1>3, <1>4, <1>6 DEF Held, LinesInv
<1>10. /\ t \in States /\ Follows(t) /\ \A x \in Ports : Held(t, x)
       /\ \A x \in Ports : x # p => /\ t[x].isOpen = port[x].isOpen
                                   /\ t[x].flow = port[x].flow
       /\ \A x \in Ports : x # p /\ Tells(port[x]) => Tells(t[x])
  BY <1>6, <1>7, <1>8, <1>9 DEF HandFlowSet
<1>11. Tells(t[p])
  BY <1>4, <1>6, <1>7
<1>12. Follows(port)'
  BY <1>5, <1>10 DEF Follows, Signal
<1>13. Unborn'
  BY <1>2, <1>5, <1>10 DEF Unborn, LinesInv
<1>14. Telling'
  BY <1>5, <1>10, <1>11 DEF Telling, LinesInv
<1>15. (\A x \in Ports : Held(port, x))'
  BY <1>5, <1>10 DEF Held
<1>16. Counts'
  BY <1>5 DEF Counts, LinesInv
<1> QED
  BY <1>5, <1>10, <1>12, <1>13, <1>14, <1>15, <1>16 DEF LinesInv

LEMMA ChangeKeeps ==
  ASSUME LinesInv, NEW p \in Ports, NEW flow \in Flows[p],
         ChangeHandFlow(p, flow)
  PROVE  LinesInv'
<1> DEFINE t == SetHandFlow(port, p, flow, FALSE)
<1>1. /\ port \in States /\ Wired /\ port[p].isOpen /\ Order
      /\ flow \in HandFlows /\ flow.xoffLimit <= BufSize
  BY LinesInvWired, HandFlowAssumption DEF LinesInv, ChangeHandFlow
<1>2. /\ port' = t /\ engine' \in Ports \cup {NoPort}
      /\ history' = history \cup {x \in {"switch"} : Switches(p, flow)}
                            \cup {x \in {"cancel"} : Cancels(p, flow)}
                            \cup {x \in {"limit"} : Eases(t)}
      /\ UNCHANGED <<wiring, rounds, added, opening>>
  BY RemotePort DEF ChangeHandFlow, Run
<1>3. /\ HandFlowSet(port, t, p, flow)
      /\ /\ Tells(port[p])
         /\ ~(flow.rts = "toggle" /\ "CTS" \in port[p].holdingRemote)
         => Tells(t[p])
  BY <1>1, SetHandFlowKeeps
<1> HIDE DEF t
<1>4. /\ history' \subseteq Past /\ history \subseteq history'
      /\ Switches(p, flow) => "switch" \in history'
  BY <1>2 DEF Past, LinesInv, Counts
<1>5. /\ t \in States /\ Follows(t) /\ \A x \in Ports : Held(t, x)
      /\ \A x \in Ports : t[x].isOpen = port[x].isOpen
      /\ \A x \in Ports : x # p => t[x].flow = port[x].flow
      /\ \A x \in Ports : x # p /\ Tells(port[x]) => Tells(t[x])
  BY <1>3 DEF HandFlowSet, LinesInv
<1>6. Follows(port)'
  BY <1>2, <1>5 DEF Follows, Signal
<1>7. Unborn'
  BY <1>1, <1>2, <1>5 DEF Unborn, LinesInv
<1>8. Telling'
  <2> SUFFICES ASSUME history' \cap {"byHand", "switch"} = {},
                      NEW x \in Ports, port'[x].isOpen
               PROVE  Tells(port'[x])
    BY DEF Telling
  <2>1. Tells(port[x]) /\ Tells(port[p])
    BY <1>1, <1>2, <1>4, <1>5 DEF Telling, LinesInv
  <2>2. ~(flow.rts = "toggle" /\ "CTS" \in port[p].holdingRemote)
    BY <1>4 DEF Switches
  <2> QED
    BY <1>2, <1>3, <1>5, <2>1, <2>2
<1>9. (\A x \in Ports : Held(port, x))'
  BY <1>2, <1>5 DEF Held
<1>10. Counts'
  BY <1>1, <1>2, <1>4, OrderStep DEF Counts, LinesInv
<1> QED
  BY <1>2, <1>5, <1>6, <1>7, <1>8, <1>9, <1>10 DEF LinesInv

LEMMA LinesStep == LinesInv /\ [Next]_vars => LinesInv'
<1> SUFFICES ASSUME LinesInv, [Next]_vars PROVE LinesInv'
  OBVIOUS
<1>1. ASSUME NEW p \in Ports, AddFdoPort(p) PROVE LinesInv'
  BY <1>1, AddKeeps
<1>2. ASSUME NEW p \in Ports, Open(p) PROVE LinesInv'
  BY <1>2, OpenKeeps
<1>3. ASSUME NEW p \in Ports, Close(p) PROVE LinesInv'
  BY <1>3, CloseKeeps
<1>4. ASSUME NEW p \in Ports, NEW n \in WriteSizes, Write(p, n) PROVE LinesInv'
  BY <1>4, WriteKeeps
<1>5. ASSUME NEW p \in Ports, NEW n \in ReadSizes, Read(p, n) PROVE LinesInv'
  BY <1>5, ReadKeeps
<1>6. ASSUME NEW p \in Ports, Abort(p) PROVE LinesInv'
  BY <1>6, AbortKeeps
<1>7. ASSUME NEW p \in Ports, Purge(p) PROVE LinesInv'
  BY <1>7, PurgeKeeps
<1>8. ASSUME NEW p \in Ports, NEW flow \in Flows[p], ChangeHandFlow(p, flow)
      PROVE  LinesInv'
  BY <1>8, ChangeKeeps
<1>9. ASSUME NEW p \in Ports, ByHand(p) PROVE LinesInv'
  BY <1>9, ByHandKeeps
<1>10. CASE OpenLine
  BY <1>10, OpenLineKeeps
<1>11. CASE Transfer
  BY <1>11, TransferKeeps
<1>12. CASE UNCHANGED vars
  <2>1. /\ UNCHANGED <<wiring, added, port, engine, opening>>
        /\ UNCHANGED <<rounds, orders, history>>
    BY <1>12 DEF vars
  <2>2. Unmoved(port, port')
    BY <2>1, UnmovedSelf
  <2>3. Counts' /\ port' \in States /\ history \subseteq history'
    BY <2>1 DEF Counts, LinesInv
  <2> QED
    BY <2>1, <2>2, <2>3, UnmovedStep
<1> QED
  BY <1>1, <1>2, <1>3, <1>4, <1>5, <1>6, <1>7, <1>8, <1>9, <1>10, <1>11, <1>12
     DEF Next

LEMMA LinesAlways == Spec => []LinesInv
BY LinesInit, LinesStep, PTL DEF Spec
-----------------------------------------------------------------------------
(* Whatever the wiring and the settings: the registers of both ports keep  *)
(* their ranges; readBuf never holds more than its size nor txBuf more     *)
(* than it has room for (C0C_IO_PORT).                                     *)
THEOREM FlowTypeCorrect == Spec => []TypeOK
<1>1. LinesInv => TypeOK
  BY DEF LinesInv, Counts, States, Good, Fit, TypeOK
<1> QED
  BY <1>1, LinesAlways, PTL

(* No change of an output is missed at the pins wired to it, whatever they *)
(* are wired to: SetModemControl reaches the pins of both ends, in time,   *)
(* from every handler and from within a transfer.                          *)
THEOREM PinsFollow == Spec => []StatusFollowsPins
<1>1. LinesInv => StatusFollowsPins
  BY DEF LinesInv, Follows, StatusFollowsPins
<1> QED
  BY <1>1, LinesAlways, PTL

(* A writer is held by those lines of its handshake that are low, and by   *)
(* no other, for every order of the changes of the lines and the settings. *)
THEOREM WriterHeldByLines == Spec => []HoldingFollowsStatus
<1>1. LinesInv => HoldingFollowsStatus
  BY DEF LinesInv, Held, HoldingFollowsStatus
<1> QED
  BY <1>1, LinesAlways, PTL

(* As long as nobody sets a line by hand, nor makes RTS toggle while the   *)
(* handshake holds it down, a handshake line is low if and only if         *)
(* writeHoldingRemote has its reason, so that the drain of readBuf will    *)
(* raise it: UpdateHandFlow, SetHandFlow, opens, closes and purges agree.  *)
THEOREM ReasonsToldByLines == Spec => []LineTellsReason
<1>1. LinesInv => LineTellsReason
  <2> SUFFICES ASSUME LinesInv, NEW p \in Ports, port[p].isOpen,
                      history \cap {"byHand", "switch"} = {},
                      NEW x \in Shaken(port[p].flow)
               PROVE  x[1] \in port[p].modemControl
                        <=> x[2] \notin port[p].holdingRemote
    BY DEF LineTellsReason
  <2>1. Tells(port[p])
    BY DEF LinesInv, Telling
  <2>2. \/ x = <<"RTS", "CTS">> /\ port[p].flow.rts = "handshake"
        \/ x = <<"DTR", "DSR">> /\ port[p].flow.dtr = "handshake"
    BY DEF Shaken
  <2> QED
    BY <2>1, <2>2 DEF Tells
<1> QED
  BY <1>1, LinesAlways, PTL
-----------------------------------------------------------------------------
(***************************************************************************)
(* XON and XOFF.                                                           *)
(***************************************************************************)
OnItsWay(q) ==
  q.sendXonXoff = "on" \/ \E i \in 1 .. Len(q.tx) : q.tx[i] = "on"

(* Whoever sent XOFF, or is about to, holds the other end or sends XON     *)
(* after it.                                                               *)
Told(q) ==
  /\ q.sendXonXoff = "off" => "XON" \in q.holdingRemote
  /\ \A i \in 1 .. Len(q.tx) : q.tx[i] = "off" =>
       \/ "XON" \in q.holdingRemote \/ q.sendXonXoff = "on"
       \/ \E j \in i + 1 .. Len(q.tx) : q.tx[j] = "on"

(* A port that does not obey XON and XOFF is held by its own XOFF only.    *)
Obeys(q) ==
  /\ "BREAK" \notin q.holding /\ ~q.sendBreak
  /\ "XON" \in q.holding /\ ~q.flow.autoTransmit => "XON" \in q.holdingRemote

Owed(p, q) ==
  "XON" \in p.holding => \/ "XON" \in q.holdingRemote \/ OnItsWay(q)
                         \/ "XON" \in p.holdingRemote

XonSafe(s) ==
  \A p \in Ports : Told(s[p]) /\ Obeys(s[p]) /\ Owed(s[p], s[Remote(p)])

(* All that the above is about stays.                                      *)
SameXon(q, r) ==
  /\ r.tx = q.tx /\ r.sendXonXoff = q.sendXonXoff /\ r.sendBreak = q.sendBreak
  /\ r.flow.autoTransmit = q.flow.autoTransmit
  /\ "XON" \in r.holding <=> "XON" \in q.holding
  /\ "BREAK" \in r.holding <=> "BREAK" \in q.holding
  /\ "XON" \in r.holdingRemote <=> "XON" \in q.holdingRemote

SameXons(s, t) == \A p \in Ports : SameXon(s[p], t[p])

(* No XON is on its way that was not.                                      *)
NoXon(s, t) == \A p \in Ports : OnItsWay(t[p]) => OnItsWay(s[p])

LEMMA SameNoXon ==
  ASSUME NEW s, NEW t, SameXons(s, t)
  PROVE  NoXon(s, t)
BY DEF SameXons, SameXon, NoXon, OnItsWay

LEMMA NoXonTwice ==
  ASSUME NEW s, NEW t, NEW u, NoXon(s, t), NoXon(t, u)
  PROVE  NoXon(s, u)
BY DEF NoXon

LEMMA XonTwice ==
  ASSUME NEW s, NEW t, NEW u, SameXons(s, t), SameXons(t, u)
  PROVE  SameXons(s, u)
BY DEF SameXons, SameXon

LEMMA XonSelf == \A s : SameXons(s, s)
BY DEF SameXons, SameXon

LEMMA SameXonSafe ==
  ASSUME NEW s, NEW t, SameXons(s, t), XonSafe(s)
  PROVE  XonSafe(t)
<1> SUFFICES ASSUME NEW p \in Ports
             PROVE  Told(t[p]) /\ Obeys(t[p]) /\ Owed(t[p], t[Remote(p)])
  BY DEF XonSafe
<1>1. /\ Remote(p) \in Ports /\ SameXon(s[p], t[p])
      /\ SameXon(s[Remote(p)], t[Remote(p)])
      /\ Told(s[p]) /\ Obeys(s[p]) /\ Owed(s[p], s[Remote(p)])
  BY RemotePort DEF SameXons, XonSafe
<1>2. Told(t[p])
  BY <1>1 DEF SameXon, Told
<1>3. Obeys(t[p])
  BY <1>1 DEF SameXon, Obeys
<1>4. Owed(t[p], t[Remote(p)])
  BY <1>1 DEF SameXon, Owed, OnItsWay
<1> QED
  BY <1>2, <1>3, <1>4

(* One port is replaced by what is like it in this.                        *)
LEMMA ReplacedXon ==
  ASSUME NEW s \in Loose, NEW p \in Ports, NEW q, SameXon(s[p], q)
  PROVE  SameXons(s, [s EXCEPT ![p] = q])
BY DEF Loose, SameXons, SameXon

LEMMA StatusHoldingXon ==
  ASSUME NEW s \in Loose, NEW p \in Ports
  PROVE  SameXons(s, SetModemStatusHolding(s, p))
<1> DEFINE held == {line \in s[p].flow.out : line \notin s[p].modemStatus}
           new == (s[p].holding \ Lines) \cup held
           resume == /\ new \subseteq {"XON"} /\ ~(s[p].holding \subseteq {"XON"})
                     /\ \/ s[p].sendXonXoff # "none"
                        \/ new = {} /\ s[p].writing > 0
           ask == s[p].tryWrite \/ resume
           q == [s[p] EXCEPT !.holding = new, !.tryWrite = ask]
<1>1. s \in [Ports -> PortType] /\ s[p] \in PortType
  BY DEF Loose
<1>2. /\ "XON" \in new <=> "XON" \in s[p].holding
      /\ "BREAK" \in new <=> "BREAK" \in s[p].holding
  BY <1>1, HoldNames DEF PortType, HandFlows
<1>3. SetModemStatusHolding(s, p) = [s EXCEPT ![p] = q]
  BY <1>1 DEF SetModemStatusHolding
<1> HIDE DEF new, ask
<1>4. SameXon(s[p], q)
  BY <1>1, <1>2 DEF PortType, SameXon
<1> HIDE DEF q
<1> QED
  BY <1>3, <1>4, ReplacedXon

LEMMA SetStatusXon ==
  ASSUME NEW s \in Loose, NEW p \in Ports,
         NEW bits, bits \subseteq Ins, NEW mask, mask \subseteq Ins
  PROVE  SameXons(s, SetModemStatus(s, p, bits, mask))
<1> DEFINE new == (s[p].modemStatus \ mask) \cup (bits \cap mask)
           q == [s[p] EXCEPT !.modemStatus = new]
           u == [s EXCEPT ![p] = q]
<1>1. CASE new = s[p].modemStatus
  BY <1>1, XonSelf DEF SetModemStatus
<1>2. CASE new # s[p].modemStatus
  <2>1. s \in [Ports -> PortType] /\ s[p] \in PortType /\ Fit(s[p])
    BY DEF Loose
  <2>2. SetModemStatus(s, p, bits, mask) = SetModemStatusHolding(u, p)
    <3>1. [s EXCEPT ![p].modemStatus = new] = u
      BY <2>1
    <3> QED
      BY <1>2, <3>1 DEF SetModemStatus
  <2>3. new \in SUBSET Ins
    BY <2>1 DEF PortType
  <2> HIDE DEF new
  <2>4. q \in PortType /\ Fit(q) /\ SameXon(s[p], q)
    BY <2>1, <2>3 DEF PortType, Fit, SameXon
  <2> HIDE DEF q
  <2>5. u \in Loose /\ SameXons(s, u)
    BY <2>4, ReplacedLoose, ReplacedXon
  <2> HIDE DEF u
  <2> QED
    BY <2>2, <2>5, StatusHoldingXon, XonTwice
<1> QED
  BY <1>1, <1>2

LEMMA SetControlXon ==
  ASSUME NEW s \in Loose, NEW p \in Ports,
         NEW bits, NEW mask, mask \subseteq Outs
  PROVE  SameXons(s, SetModemControl(s, p, bits, mask))
<1> DEFINE r == Remote(p)
           old == s[p].modemControl
           new == (old \ mask) \cup (bits \cap mask)
           changed == (old \ new) \cup (new \ old)
           q == [s[p] EXCEPT !.modemControl = new]
           set == [s EXCEPT ![p] = q]
           RPins == UNION {PinOuts(p, out, "remote") : out \in changed}
           LPins == UNION {PinOuts(p, out, "local") : out \in changed}
           RHigh == {in \in RPins : Signal(set, r, in)}
           LHigh == {in \in LPins : Signal(set, p, in)}
           far == SetModemStatus(set, r, RHigh, RPins)
           t == SetModemStatus(far, p, LHigh, LPins)
<1>1. s \in [Ports -> PortType] /\ s[p] \in PortType /\ Fit(s[p]) /\ r \in Ports
  BY RemotePort DEF Loose
<1>2. SetModemControl(s, p, bits, mask) = t
  <2>1. [s EXCEPT ![p].modemControl = new] = set
    BY <1>1
  <2> QED
    BY <2>1 DEF SetModemControl
<1>3. new \in SUBSET Outs
  BY <1>1 DEF PortType
<1>4. RPins \subseteq Ins /\ LPins \subseteq Ins
  BY DEF PinOuts
<1>5. RHigh \subseteq Ins /\ LHigh \subseteq Ins
  BY <1>4
<1> HIDE DEF RHigh, LHigh, RPins, LPins, changed, new
<1>6. q \in PortType /\ Fit(q) /\ SameXon(s[p], q)
  BY <1>1, <1>3 DEF PortType, Fit, SameXon
<1> HIDE DEF q
<1>7. set \in Loose /\ SameXons(s, set)
  BY <1>6, ReplacedLoose, ReplacedXon
<1> HIDE DEF set
<1>8. StatusSet(set, far, r, RHigh, RPins) /\ SameXons(set, far)
  BY <1>1, <1>4, <1>5, <1>7, SetStatus, SetStatusXon
<1> HIDE DEF far
<1>9. far \in Loose
  BY <1>8 DEF StatusSet
<1>10. SameXons(far, t)
  BY <1>4, <1>5, <1>9, SetStatusXon
<1> HIDE DEF t
<1> QED
  BY <1>2, <1>7, <1>8, <1>10, XonTwice

LEMMA ToggleXon ==
  ASSUME NEW s \in States, NEW p \in Ports
  PROVE  SameXons(s, UpdateTransmitToggle(s, p))
<1>1. {"RTS"} \subseteq Outs
  BY DEF Outs
<1>2. CASE s[p].flow.rts # "toggle"
  BY <1>2, XonSelf DEF UpdateTransmitToggle
<1>3. CASE s[p].flow.rts = "toggle"
  <2>1. PICK bits : UpdateTransmitToggle(s, p) =
                      SetModemControl(s, p, bits, {"RTS"})
    BY <1>3 DEF UpdateTransmitToggle
  <2> QED
    BY <1>1, <2>1, SetControlXon, Looser
<1> QED
  BY <1>2, <1>3

LEMMA LimitXon ==
  ASSUME NEW s \in States, NEW p \in Ports
  PROVE  SameXons(s, SetLimit(s, p))
<1>1. s \in [Ports -> PortType] /\ s[p] \in PortType
  BY DEF States
<1> DEFINE size == s[p].size
           flow == s[p].flow
           out  == s[Remote(p)].flow.out
           shakes == \/ flow.rts = "handshake" /\ "CTS" \in out
                     \/ flow.dtr = "handshake" /\ out \cap {"DSR", "DCD"} # {}
           limit == IF shakes /\ size > 0
                      THEN Least(size, size - flow.xoffLimit + 1) ELSE size
           q == [s[p] EXCEPT !.limit = limit]
<1>2. SetLimit(s, p) = [s EXCEPT ![p] = q]
  BY <1>1 DEF SetLimit
<1> HIDE DEF limit, size, flow, out, shakes
<1>3. SameXon(s[p], q) /\ s \in Loose
  BY <1>1, Looser DEF PortType, SameXon
<1> HIDE DEF q
<1> QED
  BY <1>2, <1>3, ReplacedXon
-----------------------------------------------------------------------------
(* Room at the place where characters go.                                  *)
RoomAt(q, place) == IF place = "reading" THEN q.reading ELSE q.limit - q.busy

(* Nothing happened to XON but that n of chars arrived at q.               *)
Heard(q, r, chars, n) ==
  /\ r.tx = q.tx /\ r.sendXonXoff = q.sendXonXoff /\ r.sendBreak = q.sendBreak
  /\ r.flow = q.flow /\ r.limit = q.limit
  /\ r.holdingRemote = q.holdingRemote
  /\ "BREAK" \in r.holding <=> "BREAK" \in q.holding
  /\ "XON" \in r.holding =>
       \/ /\ "XON" \in q.holding
          /\ q.flow.autoTransmit => \A i \in 1 .. n : chars[i] # "on"
       \/ /\ q.flow.autoTransmit
          /\ \E i \in 1 .. n :
               /\ chars[i] = "off"
               /\ \A j \in i + 1 .. n : chars[j] # "on"

(* A set of naturals that is not empty has a least element.                *)
LEMMA LeastIn ==
  ASSUME NEW T \in SUBSET Nat, T # {}
  PROVE  \E x \in T : \A y \in T : x <= y
<1>1. PICK x \in T : \A y \in T : ~ (<<y, x>> \in OpToRel(<, Nat))
  BY NatLessThanWellFounded, WFMin
<1>2. \A y \in T : ~ (y < x)
  BY <1>1 DEF OpToRel
<1> QED
  BY <1>2

(* A set of positions that is not empty has a last one.                    *)
LEMMA LastOf ==
  ASSUME NEW n \in Nat, NEW T \in SUBSET (1 .. n), T # {}
  PROVE  \E m \in T : \A y \in T : y <= m
<1> DEFINE U == {n - x : x \in T}
<1>1. U \in SUBSET Nat /\ U # {}
  <2>1. \A x \in T : n - x \in Nat
    OBVIOUS
  <2> QED
    BY <2>1
<1>2. PICK u \in U : \A v \in U : u <= v
  BY <1>1, LeastIn
<1>3. PICK m \in T : u = n - m
  BY <1>2
<1>4. \A y \in T : y <= m
  <2> TAKE y \in T
  <2>1. n - y \in U
    OBVIOUS
  <2>2. n - m <= n - y
    BY <1>2, <1>3, <2>1
  <2> QED
    BY <2>2
<1> QED
  BY <1>4

LEMMA LastIs ==
  ASSUME NEW q, NEW chars \in Seq(Chars)
  PROVE  LET last == LastXonXoff(q, chars)
             n == Len(chars)
         IN  /\ ~q.flow.autoTransmit => last = "none"
             /\ last = "none" => \/ ~q.flow.autoTransmit
                                 \/ \A i \in 1 .. n : chars[i] = "data"
             /\ last \in {"none", "on", "off"}
             /\ last = "off" =>
                  \E i \in 1 .. n : /\ chars[i] = "off"
                                    /\ \A j \in i + 1 .. n : chars[j] # "on"
<1> DEFINE n == Len(chars)
           seen == {i \in 1 .. n :
                      q.flow.autoTransmit /\ chars[i] \in {"on", "off"}}
           k == CHOOSE i \in seen : \A j \in seen : j <= i
           last == LastXonXoff(q, chars)
<1>1. n \in Nat /\ \A i \in 1 .. n : chars[i] \in {"data", "on", "off"}
  BY ElementOfSeq, LenProperties DEF Chars
<1>2. last = IF seen = {} THEN "none" ELSE chars[k]
  BY DEF LastXonXoff
<1>3. \A i : i \in seen <=> /\ i \in 1 .. n /\ q.flow.autoTransmit
                             /\ chars[i] \in {"on", "off"}
  OBVIOUS
<1> HIDE DEF seen, n
<1>4. seen # {} => k \in seen /\ \A j \in seen : j <= k
  <2> SUFFICES ASSUME seen # {} PROVE \E i \in seen : \A j \in seen : j <= i
    OBVIOUS
  <2>1. seen \in SUBSET (1 .. n)
    BY <1>3
  <2> QED
    BY <1>1, <2>1, LastOf
<1> HIDE DEF k, last
<1>5. CASE seen = {}
  BY <1>1, <1>2, <1>3, <1>5 DEF last, n
<1>6. CASE seen # {}
  <2>1. /\ k \in 1 .. n /\ q.flow.autoTransmit /\ last = chars[k]
        /\ chars[k] \in {"on", "off"}
    BY <1>2, <1>3, <1>4, <1>6
  <2>2. \A j \in k + 1 .. n : chars[j] # "on"
    <3> SUFFICES ASSUME NEW j \in k + 1 .. n, chars[j] = "on" PROVE FALSE
      OBVIOUS
    <3>1. j \in 1 .. n /\ j > k
      BY <1>1, <2>1
    <3>2. j \in seen
      BY <1>3, <2>1, <3>1
    <3> QED
      BY <1>1, <1>4, <1>6, <2>1, <3>1, <3>2
  <2> QED
    BY <2>1, <2>2 DEF last, n
<1> QED
  BY <1>5, <1>6 DEF last, n

(* Characters arrive, and the sender is not in a break.                    *)
LEMMA ArriveHeard ==
  ASSUME NEW s \in States, NEW w \in Ports, NEW chars \in Seq(Chars),
         NEW place \in {"reading", "busy"}, Obeys(s[w])
  PROVE  LET a == Arrive(s, w, chars, place)
             r == Remote(w)
         IN  /\ a.n \in 0 .. Len(chars)
             /\ SameXon(s[w], a.s[w]) /\ a.s[w].writing = s[w].writing
             /\ a.s[w].holding = s[w].holding
             /\ Heard(s[r], a.s[r], chars, a.n)
             /\ RoomAt(s[r], place) <= 0 => a.n = 0
             /\ a.n < Len(chars) => RoomAt(a.s[r], place) <= 0
             /\ place = "reading" => a.s[r].busy = s[r].busy
             /\ place = "busy" => a.s[r].reading = s[r].reading
<1> DEFINE r    == Remote(w)
           q    == s[r]
           line == OnLine(s[w], chars)
           room == IF place = "reading" THEN q.reading ELSE q.limit - q.busy
           n    == Taken(q, line, room)
           went == SubSeq(line, 1, n)
           got  == Kept(q, went)
           last == LastXonXoff(q, went)
           reading == IF place = "reading" THEN q.reading - got ELSE q.reading
           busy == IF place = "busy" THEN q.busy + got ELSE q.busy
           q1   == [s[w] EXCEPT !.sendBreak = @ /\ (n = 0)]
           q2   == [q EXCEPT !.reading = reading, !.busy = busy]
           s1   == [s EXCEPT ![w] = q1]
           sent == [s1 EXCEPT ![r] = q2]
           t    == SetXonXoffHolding(sent, r, last)
<1>1. /\ s \in [Ports -> PortType] /\ r \in Ports /\ r # w
      /\ s[w] \in PortType /\ q \in PortType
      /\ q.reading \in Nat /\ q.busy \in Nat /\ q.limit \in Nat
  BY RemotePort, HandFlowAssumption DEF States, PortType
<1>2. room \in Int
  BY <1>1
<1>3. line \in Seq(Chars) /\ line \in Seq(OnWire) /\ Len(line) = Len(chars)
      /\ Len(chars) \in Nat /\ \A i \in 1 .. Len(chars) : line[i] = chars[i]
  <2>1. line \in Seq(OnWire) /\ Len(line) = Len(chars)
    BY OnLineChars
  <2>2. line = [i \in 1 .. Len(chars) |-> chars[i]]
    BY DEF OnLine, Obeys
  <2> HIDE DEF line
  <2>3. Len(chars) \in Nat /\ \A i \in 1 .. Len(chars) : chars[i] \in Chars
    BY ElementOfSeq, LenProperties
  <2>4. line \in [1 .. Len(chars) -> Chars]
    BY <2>2, <2>3
  <2> QED
    BY <2>1, <2>2, <2>3, <2>4
<1>4. /\ n \in 0 .. Len(line)
      /\ room <= 0 => n = 0
      /\ room > 0 => got <= room
      /\ n < Len(line) => got >= room
  BY <1>2, <1>3, TakenFits
<1>5. got \in 0 .. n
  BY <1>3, <1>4, KeptPrefix
<1>6. went \in Seq(Chars) /\ Len(went) = n
      /\ \A i \in 1 .. n : went[i] = chars[i]
  <2>1. \A i \in 1 .. n : line[i] \in Chars
    BY <1>3, <1>4, ElementOfSeq
  <2> HIDE DEF line, n
  <2>2. went \in Seq(Chars) /\ Len(went) = n /\ \A i \in 1 .. n : went[i] = line[i]
    BY <1>3, <1>4, <2>1, SubSeqProperties
  <2> QED
    BY <1>3, <1>4, <2>2
<1>7. Arrive(s, w, chars, place) = [n |-> n, s |-> t]
  <2>1. sent = [s EXCEPT ![w].sendBreak = @ /\ (n = 0),
                         ![r].reading = IF place = "reading"
                                          THEN @ - got ELSE @,
                         ![r].busy = IF place = "busy" THEN @ + got ELSE @]
    BY <1>1
  <2> QED
    BY <2>1 DEF Arrive
<1>8. LET k == Len(went)
      IN  /\ ~q.flow.autoTransmit => last = "none"
          /\ last = "none" => \/ ~q.flow.autoTransmit
                              \/ \A i \in 1 .. k : went[i] = "data"
          /\ last \in {"none", "on", "off"}
          /\ last = "off" =>
               \E i \in 1 .. k : /\ went[i] = "off"
                                 /\ \A j \in i + 1 .. k : went[j] # "on"
  BY <1>6, LastIs
<1>9. n \in Nat
  BY <1>3, <1>4
<1> HIDE DEF line, n, room, went, got, last
<1>10. /\ ~q.flow.autoTransmit => last = "none"
       /\ last = "none" => \/ ~q.flow.autoTransmit
                           \/ \A i \in 1 .. n : chars[i] # "on"
       /\ last \in {"none", "on", "off"}
       /\ last = "off" => /\ q.flow.autoTransmit
                          /\ \E i \in 1 .. n :
                               /\ chars[i] = "off"
                               /\ \A j \in i + 1 .. n : chars[j] # "on"
  <2>1. \A i \in 1 .. n : \A j \in i + 1 .. n : j \in 1 .. n
    BY <1>9
  <2> QED
    BY <1>6, <1>8, <2>1
<1>11. /\ SameXon(s[w], q1) /\ q1.writing = s[w].writing
       /\ q1.holding = s[w].holding
  BY <1>1 DEF PortType, SameXon, Obeys
<1>12. /\ q2.tx = q.tx /\ q2.sendXonXoff = q.sendXonXoff
       /\ q2.sendBreak = q.sendBreak /\ q2.flow = q.flow /\ q2.limit = q.limit
       /\ q2.holdingRemote = q.holdingRemote /\ q2.holding = q.holding
       /\ q2.reading = reading /\ q2.busy = busy
  BY <1>1 DEF PortType
<1>13. sent[w] = q1 /\ sent[r] = q2 /\ sent \in [Ports -> {q1, q2}]
  BY <1>1, RemotePort
<1> HIDE DEF q1, s1, sent, reading, busy
<1>14. t[w] = q1
  BY <1>1, <1>13 DEF SetXonXoffHolding
<1>15. \E h, y : /\ t[r] = [q2 EXCEPT !.holding = h, !.tryWrite = y]
                 /\ last = "on" => h = q2.holding \ {"XON"}
                 /\ last = "off" => h = q2.holding \cup {"XON"}
                 /\ last = "none" => h = q2.holding
  <2>1. q2 = [q2 EXCEPT !.holding = q2.holding, !.tryWrite = q2.tryWrite]
    BY <1>1 DEF PortType
  <2>2. "XON" \notin q2.holding => q2.holding = q2.holding \ {"XON"}
    OBVIOUS
  <2>3. [q2 EXCEPT !.holding = @ \cup {"XON"}] =
          [q2 EXCEPT !.holding = q2.holding \cup {"XON"}, !.tryWrite = q2.tryWrite]
    BY <1>1 DEF PortType
  <2> HIDE DEF q2
  <2>4. CASE last = "off"
    <3>1. t[r] = [q2 EXCEPT !.holding = @ \cup {"XON"}]
      BY <1>1, <1>13, <2>4 DEF SetXonXoffHolding
    <3> QED
      BY <2>3, <2>4, <3>1
  <2>5. CASE last = "on" /\ "XON" \in q2.holding
    <3>1. t[r] = [q2 EXCEPT !.holding = @ \ {"XON"},
                            !.tryWrite = \/ @
                                         \/ /\ sent[r].holding = {"XON"}
                                            /\ sent[r].writing > 0]
      BY <1>1, <1>13, <2>5 DEF SetXonXoffHolding
    <3> QED
      BY <2>5, <3>1
  <2>6. CASE last = "none" \/ (last = "on" /\ "XON" \notin q2.holding)
    <3>1. t = sent
      BY <1>13, <2>6 DEF SetXonXoffHolding
    <3> QED
      BY <1>13, <2>1, <2>2, <2>6, <3>1
  <2> QED
    BY <1>10, <2>4, <2>5, <2>6
<1> HIDE DEF t
<1>16. /\ t[r].tx = q.tx /\ t[r].sendXonXoff = q.sendXonXoff
       /\ t[r].sendBreak = q.sendBreak /\ t[r].flow = q.flow
       /\ t[r].limit = q.limit /\ t[r].holdingRemote = q.holdingRemote
       /\ t[r].reading = reading /\ t[r].busy = busy
       /\ "BREAK" \in t[r].holding <=> "BREAK" \in q.holding
       /\ "XON" \in t[r].holding => \/ last = "off"
                                    \/ last = "none" /\ "XON" \in q.holding
  BY <1>1, <1>10, <1>12, <1>15 DEF PortType
<1> HIDE DEF q2
<1>17. Heard(q, t[r], chars, n)
  BY <1>10, <1>16 DEF Heard
<1>18. n < Len(chars) => RoomAt(t[r], place) <= 0
  BY <1>1, <1>3, <1>4, <1>5, <1>9, <1>16 DEF RoomAt, reading, busy, room
<1>19. RoomAt(q, place) <= 0 => n = 0
  BY <1>4 DEF RoomAt, room
<1>20. /\ place = "reading" => t[r].busy = q.busy
       /\ place = "busy" => t[r].reading = q.reading
  BY <1>16 DEF reading, busy
<1> QED
  BY <1>3, <1>4, <1>7, <1>11, <1>14, <1>17, <1>18, <1>19, <1>20
-----------------------------------------------------------------------------
(* What XonSafe says of both ports: r is the other end of q.               *)
Agree(q, r) ==
  /\ Told(q) /\ Obeys(q) /\ Owed(q, r)
  /\ Told(r) /\ Obeys(r) /\ Owed(r, q)

LEMMA SafeAgree ==
  ASSUME NEW s, NEW p \in Ports
  PROVE  XonSafe(s) <=> Agree(s[p], s[Remote(p)])
BY RemotePort DEF XonSafe, Agree

(* The sender, but for sendXonXoff and txBuf.                              *)
SameSender(q, r) ==
  /\ r.sendBreak = q.sendBreak
  /\ r.flow.autoTransmit = q.flow.autoTransmit
  /\ "XON" \in r.holding <=> "XON" \in q.holding
  /\ "BREAK" \in r.holding <=> "BREAK" \in q.holding
  /\ "XON" \in r.holdingRemote <=> "XON" \in q.holdingRemote

(* The other end does not mind what arrived, if its XON is still owed.     *)
LEMMA HeardAgree ==
  ASSUME NEW q, NEW r, NEW q1, NEW r1, NEW chars, NEW n, Agree(q, r),
         SameSender(q, q1), Heard(r, r1, chars, n), Told(q1),
         "XON" \in r1.holding =>
            \/ "XON" \in q.holdingRemote \/ OnItsWay(q1)
            \/ "XON" \in r.holdingRemote
  PROVE  Agree(q1, r1)
<1>1. Told(r1)
  BY DEF Agree, Heard, Told
<1>2. Obeys(r1)
  BY DEF Agree, Heard, Obeys
<1>3. Obeys(q1)
  BY DEF Agree, SameSender, Obeys
<1>4. Owed(q1, r1)
  BY DEF Agree, SameSender, Heard, Owed, OnItsWay
<1>5. Owed(r1, q1)
  BY DEF SameSender, Heard, Owed
<1> QED
  BY <1>1, <1>2, <1>3, <1>4, <1>5 DEF Agree

(* No XOFF arrives, and the sender stays.                                  *)
LEMMA HeardNothing ==
  ASSUME NEW q, NEW r, NEW q1, NEW r1, NEW chars, NEW n, Agree(q, r),
         SameXon(q, q1), Heard(r, r1, chars, n),
         \A i \in 1 .. n : chars[i] # "off"
  PROVE  Agree(q1, r1)
<1>1. SameSender(q, q1)
  BY DEF SameXon, SameSender
<1>2. Told(q1)
  BY DEF Agree, SameXon, Told
<1>3. "XON" \in r1.holding => "XON" \in r.holding
  BY DEF Heard
<1>4. OnItsWay(q) => OnItsWay(q1)
  BY DEF OnItsWay, SameXon
<1>5. "XON" \in r1.holding =>
        \/ "XON" \in q.holdingRemote \/ OnItsWay(q1)
        \/ "XON" \in r.holdingRemote
  BY <1>3, <1>4 DEF Agree, Owed
<1> QED
  BY <1>1, <1>2, <1>5, HeardAgree

(* The first n characters of txBuf arrive.                                 *)
LEMMA HeardFromTx ==
  ASSUME NEW q, NEW r, NEW q1, NEW r1, q.tx \in Seq(Chars),
         NEW n \in 0 .. Len(q.tx), Agree(q, r),
         SameSender(q, q1), q1.sendXonXoff = q.sendXonXoff,
         q1.tx = SubSeq(q.tx, n + 1, Len(q.tx)), Heard(r, r1, q.tx, n)
  PROVE  Agree(q1, r1) /\ (OnItsWay(q1) => OnItsWay(q))
<1> DEFINE tx == q.tx
           L  == Len(tx)
<1>1. L \in Nat /\ n \in Nat /\ n <= L
  BY LenProperties
<1>2. /\ Len(q1.tx) = L - n
      /\ \A i \in 1 .. L - n : q1.tx[i] = tx[n + i]
  <2>1. \A i \in n + 1 .. L : tx[i] \in Chars
    BY <1>1, ElementOfSeq
  <2>2. /\ Len(q1.tx) = IF n + 1 <= L THEN L - (n + 1) + 1 ELSE 0
        /\ \A i \in 1 .. L - (n + 1) + 1 : q1.tx[i] = tx[n + 1 + i - 1]
    BY <1>1, <2>1, SubSeqProperties
  <2> HIDE DEF L, tx
  <2>3. Len(q1.tx) = L - n /\ L - (n + 1) + 1 = L - n
    BY <1>1, <2>2
  <2>4. \A i \in 1 .. L - n : n + 1 + i - 1 = n + i
    BY <1>1
  <2> QED
    BY <2>2, <2>3, <2>4
<1>3. \A k \in n + 1 .. L : k - n \in 1 .. L - n /\ q1.tx[k - n] = tx[k]
  <2> HIDE DEF L, tx
  <2> TAKE k \in n + 1 .. L
  <2>1. k - n \in 1 .. L - n /\ n + (k - n) = k
    BY <1>1
  <2>2. q1.tx[k - n] = tx[n + (k - n)]
    BY <1>2, <2>1
  <2> QED
    BY <2>1, <2>2
<1>4. /\ \A i \in 1 .. L : tx[i] = "off" =>
           \/ "XON" \in q.holdingRemote \/ q.sendXonXoff = "on"
           \/ \E j \in i + 1 .. L : tx[j] = "on"
      /\ q.sendXonXoff = "off" => "XON" \in q.holdingRemote
  BY DEF Agree, Told
<1>5. \A j \in n + 1 .. L : tx[j] = "on" => OnItsWay(q1)
  BY <1>2, <1>3 DEF OnItsWay
<1>6. q.sendXonXoff = "on" => OnItsWay(q1)
  BY DEF OnItsWay
<1>7. Told(q1)
  <2>1. q1.sendXonXoff = "off" => "XON" \in q1.holdingRemote
    BY <1>4 DEF SameSender
  <2>2. ASSUME NEW i \in 1 .. L - n, q1.tx[i] = "off"
        PROVE  \/ "XON" \in q1.holdingRemote \/ q1.sendXonXoff = "on"
               \/ \E j \in i + 1 .. L - n : q1.tx[j] = "on"
    <3> HIDE DEF L, tx
    <3>0. n + i \in 1 .. L
      BY <1>1
    <3>1. n + i \in 1 .. L /\ tx[n + i] = "off"
      BY <1>2, <2>2, <3>0
    <3>2. ASSUME NEW j \in n + i + 1 .. L, tx[j] = "on"
          PROVE  \E k \in i + 1 .. L - n : q1.tx[k] = "on"
      <4>1. j \in n + 1 .. L /\ j - n \in i + 1 .. L - n
        BY <1>1
      <4> QED
        BY <1>3, <3>2, <4>1
    <3> QED
      BY <1>4, <3>1, <3>2 DEF SameSender
  <2> QED
    BY <1>2, <2>1, <2>2 DEF Told
<1>8. ASSUME "XON" \in r1.holding
      PROVE  \/ "XON" \in q.holdingRemote \/ OnItsWay(q1)
             \/ "XON" \in r.holdingRemote
  <2>1. CASE \E i \in 1 .. n : /\ tx[i] = "off"
                               /\ \A j \in i + 1 .. n : tx[j] # "on"
    <3> HIDE DEF L, tx
    <3>1. PICK i \in 1 .. n : /\ tx[i] = "off"
                              /\ \A j \in i + 1 .. n : tx[j] # "on"
      BY <2>1
    <3>2. i \in 1 .. L
      BY <1>1
    <3>3. \A j \in i + 1 .. L : tx[j] = "on" => j \in n + 1 .. L
      BY <1>1, <3>1
    <3> QED
      BY <1>4, <1>5, <1>6, <3>1, <3>2, <3>3
  <2>2. CASE /\ "XON" \in r.holding
             /\ r.flow.autoTransmit => \A i \in 1 .. n : tx[i] # "on"
    <3>1. CASE ~r.flow.autoTransmit
      BY <2>2, <3>1 DEF Agree, Obeys
    <3>2. CASE r.flow.autoTransmit
      <4>1. \/ "XON" \in q.holdingRemote \/ "XON" \in r.holdingRemote
            \/ q.sendXonXoff = "on" \/ \E i \in 1 .. L : tx[i] = "on"
        BY <2>2 DEF Agree, Owed, OnItsWay
      <4> HIDE DEF L, tx
      <4>2. \A i \in 1 .. L : tx[i] = "on" => i \in n + 1 .. L
        BY <1>1, <2>2, <3>2
      <4> QED
        BY <1>5, <1>6, <4>1, <4>2
    <3> QED
      BY <3>1, <3>2
  <2> QED
    BY <1>8, <2>1, <2>2 DEF Heard
<1>9. ASSUME OnItsWay(q1) PROVE OnItsWay(q)
  <2>1. CASE q1.sendXonXoff = "on"
    BY <2>1 DEF OnItsWay
  <2>2. CASE \E i \in 1 .. L - n : q1.tx[i] = "on"
    <3> HIDE DEF L, tx
    <3>1. PICK i \in 1 .. L - n : q1.tx[i] = "on"
      BY <2>2
    <3>2. n + i \in 1 .. L
      BY <1>1
    <3>3. tx[n + i] = "on"
      BY <1>2, <3>1
    <3> QED
      BY <3>2, <3>3 DEF OnItsWay, L, tx
  <2> QED
    BY <1>2, <1>9, <2>1, <2>2 DEF OnItsWay
<1> QED
  BY <1>7, <1>8, <1>9, HeardAgree

(* sendXonXoff goes past an empty txBuf.                                   *)
LEMMA HeardDirectly ==
  ASSUME NEW q, NEW r, NEW q1, NEW r1, Agree(q, r), q.tx = <<>>,
         q.sendXonXoff \in {"on", "off"},
         SameSender(q, q1), q1.sendXonXoff = "none", q1.tx = q.tx,
         Heard(r, r1, <<q.sendXonXoff>>, 1)
  PROVE  Agree(q1, r1)
<1>1. Len(q1.tx) = 0 /\ Len(q.tx) = 0
  OBVIOUS
<1>2. Told(q1)
  BY <1>1 DEF Told
<1>3. <<q.sendXonXoff>>[1] = q.sendXonXoff /\ 1 \in 1 .. 1
  OBVIOUS
<1>4. \A i \in 1 .. 1 : i = 1
  OBVIOUS
<1>5. CASE q.sendXonXoff = "off"
  <2>1. "XON" \in q.holdingRemote
    BY <1>5 DEF Agree, Told
  <2> QED
    BY <1>2, <2>1, HeardAgree
<1>6. CASE q.sendXonXoff = "on"
  <2>1. "XON" \in r1.holding => "XON" \in r.holding /\ ~r.flow.autoTransmit
    BY <1>3, <1>4, <1>6 DEF Heard
  <2>2. "XON" \in r1.holding => "XON" \in r.holdingRemote
    BY <2>1 DEF Agree, Obeys
  <2> QED
    BY <1>2, <2>2, HeardAgree
<1> QED
  BY <1>5, <1>6

(* sendXonXoff, or characters of a write, go to the end of txBuf.          *)
LEMMA Appended ==
  ASSUME NEW q, NEW r, NEW q1, NEW d, Agree(q, r),
         q.tx \in Seq(Chars), d \in Seq(Chars),
         SameSender(q, q1), q1.tx = q.tx \o d,
         \/ /\ q1.sendXonXoff = q.sendXonXoff
            /\ \A i \in 1 .. Len(d) : d[i] = "data"
         \/ /\ q.sendXonXoff \in {"on", "off"} /\ q1.sendXonXoff = "none"
            /\ Len(d) = 1 /\ d[1] = q.sendXonXoff
  PROVE  Agree(q1, r) /\ (OnItsWay(q1) => OnItsWay(q))
<1> DEFINE L == Len(q.tx)
           N == Len(q1.tx)
           D == Len(d)
<1>1. L \in Nat /\ D \in Nat /\ N = L + D
  BY ConcatProperties, LenProperties
<1>2. \A i \in 1 .. L : i \in 1 .. N /\ q1.tx[i] = q.tx[i]
  BY <1>1, ConcatProperties
<1>3. \A i \in 1 .. N : i \notin 1 .. L =>
        i - L \in 1 .. D /\ q1.tx[i] = d[i - L]
  <2>1. \A i \in L + 1 .. N : q1.tx[i] = d[i - L]
    BY <1>1, ConcatProperties
  <2> HIDE DEF L, N, D
  <2> TAKE i \in 1 .. N
  <2> HAVE i \notin 1 .. L
  <2>2. i \in L + 1 .. N /\ i - L \in 1 .. D
    BY <1>1
  <2> QED
    BY <2>1, <2>2
<1>0. \/ /\ q1.sendXonXoff = q.sendXonXoff
         /\ \A i \in 1 .. D : d[i] = "data"
      \/ /\ q.sendXonXoff \in {"on", "off"} /\ q1.sendXonXoff = "none"
         /\ D = 1 /\ d[1] = q.sendXonXoff
  OBVIOUS
<1>9. D = 1 => L + 1 \in 1 .. N /\ L + 1 \notin 1 .. L /\ L + 1 - L = 1
  <2> HIDE DEF L, N, D
  <2> QED
    BY <1>1
<1>10. D = 1 => q1.tx[L + 1] = d[1]
  <2> HIDE DEF L, N, D
  <2>1. SUFFICES ASSUME D = 1 PROVE q1.tx[L + 1] = d[1]
    OBVIOUS
  <2> DEFINE k == L + 1
  <2>2. k \in 1 .. N /\ k \notin 1 .. L /\ k - L = 1
    BY <1>1, <2>1
  <2> HIDE DEF k
  <2>3. q1.tx[k] = d[k - L]
    BY <1>3, <2>2
  <2> QED
    BY <2>2, <2>3 DEF k
<1> HIDE DEF L, N, D
<1>4. OnItsWay(q) => OnItsWay(q1)
  <2> SUFFICES ASSUME OnItsWay(q) PROVE OnItsWay(q1)
    OBVIOUS
  <2>1. CASE \E i \in 1 .. L : q.tx[i] = "on"
    BY <1>2, <2>1 DEF OnItsWay, N
  <2>2. CASE q.sendXonXoff = "on" /\ q1.sendXonXoff = q.sendXonXoff
    BY <2>2 DEF OnItsWay
  <2>3. CASE q.sendXonXoff = "on" /\ D = 1 /\ d[1] = q.sendXonXoff
    BY <1>9, <1>10, <2>3 DEF OnItsWay, N
  <2> QED
    BY <1>0, <2>1, <2>2, <2>3 DEF OnItsWay, L
<1>5. Told(q1)
  <2>1. q1.sendXonXoff = "off" => "XON" \in q1.holdingRemote
    BY DEF Agree, Told, SameSender
  <2>2. ASSUME NEW i \in 1 .. N, q1.tx[i] = "off"
        PROVE  \/ "XON" \in q1.holdingRemote \/ q1.sendXonXoff = "on"
               \/ \E j \in i + 1 .. N : q1.tx[j] = "on"
    <3>1. CASE i \in 1 .. L
      <4>1. \/ "XON" \in q.holdingRemote \/ q.sendXonXoff = "on"
            \/ \E j \in i + 1 .. L : q.tx[j] = "on"
        BY <1>2, <2>2, <3>1 DEF Agree, Told, L
      <4>2. ASSUME NEW j \in i + 1 .. L, q.tx[j] = "on"
            PROVE  j \in i + 1 .. N /\ q1.tx[j] = "on"
        <5>1. j \in 1 .. L /\ j \in i + 1 .. N
          BY <1>1, <3>1
        <5> QED
          BY <1>2, <4>2, <5>1
      <4>3. CASE /\ q.sendXonXoff = "on" /\ q1.sendXonXoff = "none"
                 /\ D = 1 /\ d[1] = q.sendXonXoff
        <5>1. L + 1 \in i + 1 .. N
          BY <1>1, <3>1, <4>3
        <5> QED
          BY <1>10, <4>3, <5>1
      <4>4. CASE q1.sendXonXoff = q.sendXonXoff
        BY <4>1, <4>2, <4>4 DEF SameSender
      <4>5. CASE q.sendXonXoff = "off"
        BY <4>5 DEF Agree, Told, SameSender
      <4> QED
        BY <1>0, <4>3, <4>4, <4>5
    <3>2. CASE i \notin 1 .. L
      <4>1. i - L \in 1 .. D /\ d[i - L] = "off"
        BY <1>3, <2>2, <3>2
      <4> DEFINE k == i - L
      <4> HIDE DEF k
      <4>2. k \in 1 .. D /\ d[k] = "off"
        BY <4>1 DEF k
      <4>3. D = 1 => k = 1
        BY <4>2
      <4>4. q.sendXonXoff = "off"
        BY <1>0, <4>2, <4>3
      <4> QED
        BY <4>4 DEF Agree, Told, SameSender
    <3> QED
      BY <3>1, <3>2
  <2> QED
    BY <2>1, <2>2 DEF Told, N
<1>6. Obeys(q1)
  BY DEF Agree, SameSender, Obeys
<1>7. Owed(q1, r)
  BY DEF Agree, SameSender, Owed
<1>8. Owed(r, q1)
  BY <1>4 DEF Agree, SameSender, Owed
<1>11. ASSUME OnItsWay(q1) PROVE OnItsWay(q)
  <2>1. CASE q1.sendXonXoff = "on"
    BY <1>0, <2>1 DEF OnItsWay
  <2>2. ASSUME NEW i \in 1 .. N, q1.tx[i] = "on" PROVE OnItsWay(q)
    <3>1. CASE i \in 1 .. L
      BY <1>2, <2>2, <3>1 DEF OnItsWay, L
    <3>2. CASE i \notin 1 .. L
      <4> DEFINE k == i - L
      <4>1. k \in 1 .. D /\ d[k] = "on"
        BY <1>3, <2>2, <3>2
      <4> HIDE DEF k
      <4>2. D = 1 => k = 1
        BY <4>1
      <4> QED
        BY <1>0, <4>1, <4>2 DEF OnItsWay
    <3> QED
      BY <3>1, <3>2
  <2> QED
    BY <1>11, <2>1, <2>2 DEF OnItsWay, N
<1> QED
  BY <1>5, <1>6, <1>7, <1>8, <1>11 DEF Agree
-----------------------------------------------------------------------------
(* txBuf is empty, or there is no room at the place where it goes.         *)
Clear(s, w, place) ==
  s[w].tx = <<>> \/ RoomAt(s[Remote(w)], place) <= 0

LEMMA FromTxXon ==
  ASSUME NEW s \in States, NEW w \in Ports, NEW place \in {"reading", "busy"},
         XonSafe(s)
  PROVE  LET t == FromTx(s, w, place)
             r == Remote(w)
         IN  /\ XonSafe(t) /\ NoXon(s, t) /\ Clear(t, w, place)
             /\ place = "reading" => t[r].busy = s[r].busy
             /\ place = "busy" => t[r].reading = s[r].reading
<1> DEFINE r == Remote(w)
           a == Arrive(s, w, s[w].tx, place)
           u == a.s
           n == a.n
           tx == SubSeq(u[w].tx, n + 1, Len(u[w].tx))
           q == [u[w] EXCEPT !.tx = tx]
           t == [u EXCEPT ![w] = q]
<1>1. /\ s \in [Ports -> PortType] /\ s[w] \in PortType /\ r \in Ports /\ r # w
      /\ s[w].tx \in Seq(Chars) /\ Len(s[w].tx) \in Nat
      /\ Agree(s[w], s[r])
  BY RemotePort, SafeAgree, LenProperties DEF States, PortType, Chars
<1>2. /\ n \in 0 .. Len(s[w].tx)
      /\ SameXon(s[w], u[w]) /\ Heard(s[r], u[r], s[w].tx, n)
      /\ n < Len(s[w].tx) => RoomAt(u[r], place) <= 0
      /\ place = "reading" => u[r].busy = s[r].busy
      /\ place = "busy" => u[r].reading = s[r].reading
  BY <1>1, ArriveHeard DEF Agree
<1>3. u \in States /\ u \in [Ports -> PortType] /\ u[w] \in PortType
  BY <1>1, Arrives DEF States
<1>4. FromTx(s, w, place) = t
  BY <1>3 DEF FromTx
<1> HIDE DEF a, u, n
<1>5. tx = SubSeq(s[w].tx, n + 1, Len(s[w].tx))
  BY <1>2 DEF SameXon
<1> HIDE DEF tx
<1>6. /\ q.tx = tx /\ q.sendXonXoff = u[w].sendXonXoff
      /\ q.sendBreak = u[w].sendBreak /\ q.flow = u[w].flow
      /\ q.holding = u[w].holding /\ q.holdingRemote = u[w].holdingRemote
  BY <1>3 DEF PortType
<1> HIDE DEF q
<1>7. SameSender(s[w], q) /\ q.sendXonXoff = s[w].sendXonXoff
  BY <1>2, <1>6 DEF SameXon, SameSender
<1>8. t[w] = q /\ t[r] = u[r]
  BY <1>1, <1>3
<1> HIDE DEF t
<1>9. Agree(q, u[r]) /\ (OnItsWay(q) => OnItsWay(s[w]))
  BY <1>1, <1>2, <1>5, <1>6, <1>7, HeardFromTx
<1>10. XonSafe(t) /\ NoXon(s, t)
  BY <1>2, <1>8, <1>9, SafeAgree, RemotePort DEF NoXon, Heard, OnItsWay
<1>11. Clear(t, w, place)
  <2>1. CASE n < Len(s[w].tx)
    BY <1>2, <1>8, <2>1 DEF Clear
  <2>2. CASE n = Len(s[w].tx)
    <3>1. Len(tx) = 0 /\ tx \in Seq(Chars)
      <4>1. \A i \in n + 1 .. Len(s[w].tx) : s[w].tx[i] \in Chars
        BY <1>1, <2>2
      <4> QED
        BY <1>1, <1>2, <1>5, <2>2, <4>1, SubSeqProperties
    <3>2. tx = <<>>
      BY <3>1, EmptySeq
    <3> QED
      BY <1>6, <1>8, <3>2 DEF Clear
  <2> QED
    BY <1>1, <1>2, <2>1, <2>2
<1> QED
  BY <1>2, <1>4, <1>8, <1>10, <1>11

(* What ToTx does to the sender.                                           *)
TxGets(s, b, w, chars) ==
  \/ b.n = 0 /\ b.s = s
  \/ /\ b.n \in 0 .. Len(chars)
     /\ Len(chars) > 0 => b.n > 0
     /\ b.s[Remote(w)] = s[Remote(w)] /\ SameSender(s[w], b.s[w])
     /\ b.s[w].sendXonXoff = s[w].sendXonXoff
     /\ \E d \in Seq(Chars) :
          /\ b.s[w].tx = s[w].tx \o d /\ Len(d) = b.n
          /\ \A i \in 1 .. b.n : d[i] = chars[i]

LEMMA ToTxIs ==
  ASSUME NEW s \in States, NEW w \in Ports, NEW chars \in Seq(Chars)
  PROVE  TxGets(s, ToTx(s, w, chars), w, chars)
<1> DEFINE r == Remote(w)
           n == Least(Len(chars), TxSize - 1)
           d == SubSeq(chars, 1, n)
           tx == s[w].tx \o d
           q == [s[w] EXCEPT !.tx = tx]
           t == [s EXCEPT ![w] = q]
<1>1. s \in [Ports -> PortType] /\ s[w] \in PortType /\ r \in Ports /\ r # w
  BY RemotePort DEF States
<1>2. CASE Len(s[w].tx) > 1
  BY <1>2 DEF ToTx, TxGets
<1>3. CASE ~(Len(s[w].tx) > 1)
  <2>1. n \in 0 .. Len(chars) /\ (Len(chars) > 0 => n > 0)
    BY LenProperties, HandFlowAssumption DEF Least
  <2>2. ToTx(s, w, chars) = [n |-> n, s |-> t]
    BY <1>1, <1>3 DEF ToTx
  <2> HIDE DEF n
  <2>3. d \in Seq(Chars) /\ Len(d) = n /\ \A i \in 1 .. n : d[i] = chars[i]
    <3>1. \A i \in 1 .. n : chars[i] \in Chars
      BY <2>1, LenProperties, ElementOfSeq
    <3> QED
      BY <2>1, <3>1, SubSeqProperties, LenProperties
  <2> HIDE DEF d
  <2>4. q.tx = s[w].tx \o d
    BY <1>1 DEF PortType
  <2> HIDE DEF tx
  <2>5. q.sendXonXoff = s[w].sendXonXoff /\ SameSender(s[w], q)
    BY <1>1 DEF PortType, SameSender
  <2> HIDE DEF q
  <2>6. t[w] = q /\ t[r] = s[r]
    BY <1>1
  <2> HIDE DEF t
  <2>7. \E e \in Seq(Chars) : /\ t[w].tx = s[w].tx \o e /\ Len(e) = n
                              /\ \A i \in 1 .. n : e[i] = chars[i]
    BY <2>3, <2>4, <2>6
  <2>8. ToTx(s, w, chars).n = n /\ ToTx(s, w, chars).s = t
    BY <2>2
  <2> HIDE DEF r
  <2> QED
    BY <2>1, <2>5, <2>6, <2>7, <2>8 DEF r, TxGets
<1> QED
  BY <1>2, <1>3

(* Room in readBuf, and what it is needed for, stay.                       *)
SameRoom(s, t, w) ==
  /\ t[w].tx = s[w].tx
  /\ t[Remote(w)].busy = s[Remote(w)].busy
  /\ t[Remote(w)].limit = s[Remote(w)].limit

LEMMA SendCharXon ==
  ASSUME NEW s \in States, NEW w \in Ports, NEW place \in {"reading", "busy"},
         XonSafe(s), Clear(s, w, place)
  PROVE  LET t == SendChar(s, w, place)
         IN  /\ XonSafe(t) /\ NoXon(s, t)
             /\ place = "reading" => SameRoom(s, t, w)
<1> DEFINE r == Remote(w)
           char == <<s[w].sendXonXoff>>
           a == Arrive(s, w, char, place)
           b == IF place = "busy" /\ a.n = 0 THEN ToTx(s, w, char) ELSE a
           u == b.s
           next == IF b.n = 1 THEN "none" ELSE u[w].sendXonXoff
           q == [u[w] EXCEPT !.sendXonXoff = next]
           t == [u EXCEPT ![w] = q]
<1>1. /\ s \in [Ports -> PortType] /\ s[w] \in PortType /\ r \in Ports /\ r # w
      /\ s[w].tx \in Seq(Chars) /\ Agree(s[w], s[r])
      /\ s[w].sendXonXoff \in {"none", "on", "off"}
  BY RemotePort, SafeAgree DEF States, PortType, Chars
<1>2. ~s[w].sendBreak
  BY <1>1 DEF Agree, Obeys
<1>3. CASE s[w].sendXonXoff = "none" \/ ~(s[w].holding \subseteq {"XON"})
  <2>1. SendChar(s, w, place) = s
    BY <1>2, <1>3 DEF SendChar
  <2> QED
    BY <2>1 DEF SameRoom, NoXon
<1>4. CASE s[w].sendXonXoff # "none" /\ s[w].holding \subseteq {"XON"}
  <2>1. char \in Seq(Chars) /\ Len(char) = 1 /\ char[1] = s[w].sendXonXoff
    BY <1>1, <1>4 DEF Chars
  <2>2. /\ a.n \in 0 .. 1
        /\ SameXon(s[w], a.s[w]) /\ Heard(s[r], a.s[r], char, a.n)
        /\ RoomAt(s[r], place) <= 0 => a.n = 0
        /\ place = "reading" => a.s[r].busy = s[r].busy
    BY <1>1, <2>1, ArriveHeard DEF Agree
  <2>3. a.s \in States
    BY <2>1, Arrives
  <2>4. \/ ToTx(s, w, char).n = 0 /\ ToTx(s, w, char).s = s
        \/ /\ ToTx(s, w, char).n = 1
           /\ ToTx(s, w, char).s[r] = s[r]
           /\ SameSender(s[w], ToTx(s, w, char).s[w])
           /\ \E d \in Seq(Chars) :
                /\ ToTx(s, w, char).s[w].tx = s[w].tx \o d /\ Len(d) = 1
                /\ d[1] = char[1]
    <3> DEFINE c == ToTx(s, w, char)
    <3>1. TxGets(s, c, w, char)
      BY <2>1, ToTxIs
    <3> HIDE DEF c, char
    <3>2. c.n \in 0 .. 1 /\ c.n > 0 => c.n = 1
      OBVIOUS
    <3>3. 1 \in 1 .. 1
      OBVIOUS
    <3>4. \/ c.n = 0 /\ c.s = s
          \/ /\ c.n = 1 /\ c.s[r] = s[r] /\ SameSender(s[w], c.s[w])
             /\ \E d \in Seq(Chars) :
                  /\ c.s[w].tx = s[w].tx \o d /\ Len(d) = 1
                  /\ d[1] = char[1]
      BY <2>1, <3>1, <3>2, <3>3 DEF TxGets
    <3> QED
      BY <3>4 DEF c
  <2>5. ToTx(s, w, char).s \in States
    BY <2>1, ToTxKeeps
  <2>6. SendChar(s, w, place) = t
    <3>1. u \in [Ports -> PortType]
      BY <2>3, <2>5 DEF States
    <3>2. SendChar(s, w, place) =
            [u EXCEPT ![w].sendXonXoff = IF b.n = 1 THEN "none" ELSE @]
      BY <1>2, <1>4 DEF SendChar
    <3> HIDE DEF b, u
    <3> QED
      BY <3>1, <3>2
  <2>7. u \in [Ports -> PortType] /\ u[w] \in PortType
    BY <2>3, <2>5 DEF States
  <2>8. /\ q.sendXonXoff = next /\ q.tx = u[w].tx /\ SameSender(u[w], q)
        /\ next = u[w].sendXonXoff => SameXon(u[w], q)
    <3> HIDE DEF b, u, next
    <3> QED
      BY <2>7 DEF PortType, SameSender, SameXon
  <2> HIDE DEF q
  <2>9. t[w] = q /\ t[r] = u[r]
    BY <1>1, <2>7
  <2> HIDE DEF t
  <2>10. CASE a.n = 1
    <3>1. u = a.s /\ next = "none"
      BY <2>10
    <3>2. s[w].tx = <<>>
      BY <2>2, <2>10 DEF Clear
    <3>3. /\ SameSender(s[w], q) /\ q.sendXonXoff = "none" /\ q.tx = s[w].tx
          /\ Heard(s[r], t[r], <<s[w].sendXonXoff>>, 1)
      <4>1. Heard(s[r], t[r], char, 1)
        BY <2>2, <2>9, <2>10, <3>1
      <4> QED
        BY <2>2, <2>8, <3>1, <4>1 DEF SameSender, SameXon
    <3>4. s[w].sendXonXoff \in {"on", "off"}
      BY <1>1, <1>4
    <3>5. Agree(q, t[r])
      BY <1>1, <3>2, <3>3, <3>4, HeardDirectly
    <3>6. XonSafe(t) /\ NoXon(s, t)
      <4>1. OnItsWay(t[r]) => OnItsWay(s[r])
        BY <3>3 DEF Heard, OnItsWay
      <4>2. OnItsWay(t[w]) => OnItsWay(s[w])
        BY <2>9, <3>3 DEF OnItsWay
      <4> QED
        BY <2>9, <3>5, <4>1, <4>2, SafeAgree, RemotePort DEF NoXon
    <3>7. place = "reading" => SameRoom(s, t, w)
      BY <2>2, <2>9, <3>1, <3>3 DEF SameRoom, Heard
    <3> QED
      BY <2>6, <3>6, <3>7
  <2>11. CASE a.n = 0 /\ place = "reading"
    <3>1. u = a.s /\ next = u[w].sendXonXoff
      BY <2>11
    <3>2. SameXon(s[w], q) /\ Heard(s[r], t[r], char, 0)
      BY <2>2, <2>8, <2>9, <2>11, <3>1 DEF SameXon
    <3>3. Agree(q, t[r])
      BY <1>1, <3>2, HeardNothing
    <3>4. XonSafe(t) /\ NoXon(s, t)
      <4>1. OnItsWay(t[r]) => OnItsWay(s[r])
        BY <3>2 DEF Heard, OnItsWay
      <4>2. OnItsWay(t[w]) => OnItsWay(s[w])
        BY <2>9, <3>2 DEF SameXon, OnItsWay
      <4> QED
        BY <2>9, <3>3, <4>1, <4>2, SafeAgree, RemotePort DEF NoXon
    <3>5. SameRoom(s, t, w)
      BY <2>2, <2>9, <2>11, <3>1, <3>2 DEF SameRoom, Heard, SameXon
    <3> QED
      BY <2>6, <3>4, <3>5
  <2>12. CASE a.n = 0 /\ place = "busy"
    <3>1. u = ToTx(s, w, char).s /\ b = ToTx(s, w, char)
      BY <2>12
    <3>2. CASE ToTx(s, w, char).n = 0 /\ ToTx(s, w, char).s = s
      <4>1. next = u[w].sendXonXoff /\ u = s
        BY <3>1, <3>2
      <4>2. SameXons(s, t)
        BY <1>1, <2>8, <2>9, <4>1, RemotePort DEF SameXons, SameXon
      <4> QED
        BY <2>6, <2>12, <4>2, SameXonSafe, SameNoXon
    <3>3. CASE /\ ToTx(s, w, char).n = 1
               /\ ToTx(s, w, char).s[r] = s[r]
               /\ SameSender(s[w], ToTx(s, w, char).s[w])
               /\ \E d \in Seq(Chars) :
                    /\ ToTx(s, w, char).s[w].tx = s[w].tx \o d /\ Len(d) = 1
                    /\ d[1] = char[1]
      <4>1. next = "none" /\ u[r] = s[r] /\ SameSender(s[w], u[w])
        BY <3>1, <3>3
      <4>2. PICK d \in Seq(Chars) : /\ u[w].tx = s[w].tx \o d /\ Len(d) = 1
                                    /\ d[1] = s[w].sendXonXoff
        BY <2>1, <3>1, <3>3
      <4> HIDE DEF u, next, b, char
      <4>3. /\ SameSender(s[w], q) /\ q.tx = s[w].tx \o d
            /\ q.sendXonXoff = "none" /\ t[r] = s[r]
            /\ s[w].sendXonXoff \in {"on", "off"}
        BY <1>1, <1>4, <2>8, <2>9, <4>1, <4>2 DEF SameSender
      <4>4. Agree(q, s[r]) /\ (OnItsWay(q) => OnItsWay(s[w]))
        BY <1>1, <4>2, <4>3, Appended
      <4>5. XonSafe(t) /\ NoXon(s, t)
        BY <2>9, <4>3, <4>4, SafeAgree, RemotePort DEF NoXon
      <4> QED
        BY <2>6, <2>12, <4>5
    <3> QED
      BY <2>4, <3>2, <3>3
  <2> QED
    BY <2>2, <2>10, <2>11, <2>12
<1> QED
  BY <1>3, <1>4

LEMMA SendDataXon ==
  ASSUME NEW s \in States, NEW w \in Ports, NEW place \in {"reading", "busy"},
         XonSafe(s)
  PROVE  LET t == SendData(s, w, place)
         IN  /\ XonSafe(t) /\ NoXon(s, t)
             /\ place = "reading" => SameRoom(s, t, w)
<1> DEFINE r == Remote(w)
           chars(n) == [i \in 1 .. n |-> "data"]
           a    == Arrive(s, w, chars(s[w].writing), place)
           left == s[w].writing - a.n
           b    == IF place = "busy" /\ left > 0 THEN ToTx(a.s, w, chars(left))
                   ELSE [n |-> 0, s |-> a.s]
           u    == b.s
           rest == left - b.n
           q    == [u[w] EXCEPT !.writing = rest]
           t    == [u EXCEPT ![w] = q]
<1>1. CASE s[w].holding # {} \/ s[w].writing = 0
  <2>1. SendData(s, w, place) = s
    BY <1>1 DEF SendData
  <2> QED
    BY <2>1 DEF SameRoom, NoXon
<1>2. CASE ~(s[w].holding # {} \/ s[w].writing = 0)
  <2>1. \A n \in Nat : /\ chars(n) \in Seq(Chars) /\ Len(chars(n)) = n
                       /\ \A i \in 1 .. n : chars(n)[i] = "data"
    <3>1. \A n \in Nat : chars(n) \in [1 .. n -> Chars]
      BY DEF Chars
    <3> QED
      BY <3>1
  <2>2. /\ s \in [Ports -> PortType] /\ s[w] \in PortType
        /\ r \in Ports /\ r # w /\ s[w].writing \in Nat
        /\ s[w].tx \in Seq(Chars) /\ Agree(s[w], s[r])
    BY RemotePort, SafeAgree DEF States, PortType, Chars
  <2>3. SendData(s, w, place) = [u EXCEPT ![w].writing = rest]
    BY <1>2 DEF SendData
  <2> HIDE DEF chars
  <2>4. /\ a.n \in 0 .. s[w].writing
        /\ SameXon(s[w], a.s[w])
        /\ Heard(s[r], a.s[r], chars(s[w].writing), a.n)
        /\ place = "reading" => a.s[r].busy = s[r].busy
    BY <2>1, <2>2, ArriveHeard DEF Agree
  <2>5. a.s \in States
    BY <2>1, <2>2, Arrives
  <2>6. Agree(a.s[w], a.s[r])
    <3>1. \A i \in 1 .. a.n : chars(s[w].writing)[i] # "off"
      <4>1. \A i \in 1 .. a.n : i \in 1 .. s[w].writing
        BY <2>2, <2>4
      <4> QED
        BY <2>1, <2>2, <4>1
    <3> HIDE DEF a
    <3> QED
      BY <2>2, <2>4, <3>1, HeardNothing
  <2>7. left \in Nat
    BY <2>2, <2>4
  <2> DEFINE v == a.s
  <2>8. /\ v \in [Ports -> PortType] /\ v[w].tx \in Seq(Chars)
        /\ v \in States /\ Agree(v[w], v[r])
    BY <2>5, <2>6 DEF States, PortType, Chars
  <2>9. /\ u \in States /\ Agree(u[w], u[r]) /\ u[r] = v[r]
        /\ OnItsWay(u[w]) => OnItsWay(v[w])
        /\ place = "reading" => u = v
    <3> HIDE DEF left
    <3>1. CASE ~(place = "busy" /\ left > 0)
      BY <2>8, <3>1
    <3>2. CASE place = "busy" /\ left > 0
      <4> DEFINE c == ToTx(v, w, chars(left))
      <4>1. u = c.s
        BY <3>2
      <4>2. c.s \in States
        BY <2>1, <2>7, <2>8, ToTxKeeps
      <4>3. \/ c.s = v
            \/ /\ c.n \in 0 .. left
               /\ c.s[r] = v[r] /\ SameSender(v[w], c.s[w])
               /\ c.s[w].sendXonXoff = v[w].sendXonXoff
               /\ \E d \in Seq(Chars) :
                    /\ c.s[w].tx = v[w].tx \o d /\ Len(d) = c.n
                    /\ \A i \in 1 .. c.n : d[i] = chars(left)[i]
        <5>1. Len(chars(left)) = left /\ chars(left) \in Seq(Chars)
          BY <2>1, <2>7
        <5>2. TxGets(v, c, w, chars(left))
          BY <2>8, <5>1, ToTxIs
        <5> HIDE DEF c
        <5> QED
          BY <5>1, <5>2 DEF TxGets
      <4> HIDE DEF c, u
      <4>4. CASE c.s = v
        BY <2>8, <3>2, <4>1, <4>2, <4>4
      <4>5. CASE /\ c.n \in 0 .. left
                 /\ c.s[r] = v[r] /\ SameSender(v[w], c.s[w])
                 /\ c.s[w].sendXonXoff = v[w].sendXonXoff
                 /\ \E d \in Seq(Chars) :
                      /\ c.s[w].tx = v[w].tx \o d /\ Len(d) = c.n
                      /\ \A i \in 1 .. c.n : d[i] = chars(left)[i]
        <5>1. PICK d \in Seq(Chars) :
                /\ c.s[w].tx = v[w].tx \o d /\ Len(d) = c.n
                /\ \A i \in 1 .. c.n : d[i] = chars(left)[i]
          BY <4>5
        <5>2. \A i \in 1 .. Len(d) : d[i] = "data"
          <6>0. c.n \in 0 .. left
            BY <4>5
          <6>1. \A i \in 1 .. c.n : i \in 1 .. left
            BY <2>7, <6>0
          <6> QED
            BY <2>1, <2>7, <5>1, <6>1
        <5> HIDE DEF v
        <5>3. Agree(c.s[w], v[r]) /\ (OnItsWay(c.s[w]) => OnItsWay(v[w]))
          BY <2>8, <4>5, <5>1, <5>2, Appended
        <5> QED
          BY <3>2, <4>1, <4>2, <4>5, <5>3
      <4> QED
        BY <4>3, <4>4, <4>5
    <3> QED
      BY <3>1, <3>2
  <2> HIDE DEF u, v, b, rest, left
  <2>10. u \in [Ports -> PortType] /\ u[w] \in PortType
    BY <2>9 DEF States
  <2>11. [u EXCEPT ![w].writing = rest] = t
    BY <2>10
  <2>12. SameXon(u[w], q)
    BY <2>10 DEF PortType, SameXon
  <2> HIDE DEF q
  <2>13. t[w] = q /\ t[r] = u[r] /\ SameXons(u, t)
    BY <2>2, <2>10, <2>12, RemotePort DEF SameXons, SameXon
  <2> HIDE DEF t
  <2>14. XonSafe(t) /\ NoXon(s, t)
    <3>1. XonSafe(t)
      BY <2>9, <2>13, SafeAgree, SameXonSafe
    <3>2. OnItsWay(t[r]) => OnItsWay(s[r])
      <4>1. t[r] = a.s[r]
        BY <2>9, <2>13 DEF v
      <4> HIDE DEF a
      <4> QED
        BY <2>4, <4>1 DEF Heard, OnItsWay
    <3>3. OnItsWay(t[w]) => OnItsWay(s[w])
      <4>1. OnItsWay(v[w]) => OnItsWay(s[w])
        BY <2>4 DEF SameXon, OnItsWay, v
      <4>2. OnItsWay(t[w]) => OnItsWay(u[w])
        BY <2>12, <2>13 DEF SameXon, OnItsWay
      <4> QED
        BY <2>9, <4>1, <4>2
    <3> QED
      BY <3>1, <3>2, <3>3, RemotePort DEF NoXon
  <2>15. ASSUME place = "reading" PROVE SameRoom(s, t, w)
    <3>1. u = a.s
      BY <2>9, <2>15 DEF v
    <3> HIDE DEF a
    <3> QED
      BY <2>4, <2>12, <2>13, <2>15, <3>1 DEF SameRoom, SameXon, Heard
  <2> QED
    BY <2>3, <2>11, <2>14, <2>15
<1> QED
  BY <1>1, <1>2
-----------------------------------------------------------------------------
(* A port that is held by less, or obeys more, is fine as well.            *)
LEMMA LessHeld ==
  ASSUME NEW q, NEW r, NEW q1, Agree(q, r),
         q1.tx = q.tx, q1.sendXonXoff = q.sendXonXoff,
         q1.sendBreak = q.sendBreak,
         "BREAK" \in q1.holding <=> "BREAK" \in q.holding,
         "XON" \in q1.holdingRemote <=> "XON" \in q.holdingRemote,
         "XON" \in q1.holding => "XON" \in q.holding,
         "XON" \in q1.holding /\ ~q1.flow.autoTransmit
           => "XON" \in q.holdingRemote
  PROVE  Agree(q1, r) /\ (OnItsWay(q1) <=> OnItsWay(q))
<1>1. OnItsWay(q1) <=> OnItsWay(q)
  BY DEF OnItsWay
<1>2. Told(q1)
  BY DEF Agree, Told
<1>3. Obeys(q1)
  BY DEF Agree, Obeys
<1>4. Owed(q1, r) /\ Owed(r, q1)
  BY <1>1 DEF Agree, Owed
<1> QED
  BY <1>1, <1>2, <1>3, <1>4 DEF Agree

(* XOFF and XON from the receiver, or from its setting.                    *)
LEMMA HoldAgree ==
  ASSUME NEW q \in PortType, NEW r, Agree(q, r)
  PROVE  Agree(HoldXon(q), r)
<1> DEFINE held == IF q.flow.xoffContinue THEN q.holding
                   ELSE q.holding \cup {"XON"}
           why == q.holdingRemote \cup {"XON"}
           q1 == [q EXCEPT !.holdingRemote = why, !.holding = held,
                           !.sendXonXoff = "off", !.tryWrite = TRUE]
<1>1. HoldXon(q) = q1
  BY DEF HoldXon, PortType
<1>2. "XON" \in why /\ ("BREAK" \in held <=> "BREAK" \in q.holding)
  OBVIOUS
<1> HIDE DEF held, why
<1>3. /\ q1.tx = q.tx /\ q1.sendXonXoff = "off" /\ q1.sendBreak = q.sendBreak
      /\ q1.flow = q.flow /\ q1.holding = held /\ q1.holdingRemote = why
  BY DEF PortType
<1> HIDE DEF q1
<1>4. Told(q1) /\ Obeys(q1) /\ Owed(q1, r) /\ Owed(r, q1)
  BY <1>2, <1>3 DEF Agree, Told, Obeys, Owed
<1> QED
  BY <1>1, <1>4 DEF Agree

LEMMA ReleaseAgree ==
  ASSUME NEW q \in PortType, NEW r, Agree(q, r)
  PROVE  Agree(ReleaseXon(q), r)
<1> DEFINE held == q.holding \ {"XON"}
           why == q.holdingRemote \ {"XON"}
           q1 == [q EXCEPT !.holdingRemote = why, !.holding = held,
                           !.sendXonXoff = "on", !.tryWrite = TRUE]
<1>1. ReleaseXon(q) = q1
  BY DEF ReleaseXon, PortType
<1>2. "XON" \notin held /\ ("BREAK" \in held <=> "BREAK" \in q.holding)
  OBVIOUS
<1> HIDE DEF held, why
<1>3. /\ q1.tx = q.tx /\ q1.sendXonXoff = "on" /\ q1.sendBreak = q.sendBreak
      /\ q1.flow = q.flow /\ q1.holding = held
  BY DEF PortType
<1> HIDE DEF q1
<1>4. Told(q1) /\ Obeys(q1) /\ Owed(q1, r) /\ Owed(r, q1)
  BY <1>2, <1>3 DEF Agree, Told, Obeys, Owed, OnItsWay
<1> QED
  BY <1>1, <1>4 DEF Agree

LEMMA AutoReceiveAgree ==
  ASSUME NEW q \in PortType, NEW r, Agree(q, r),
         ~ /\ ~q.flow.autoReceive /\ "XON" \in q.holdingRemote
           /\ q.sendXonXoff = "off"
  PROVE  Agree(SetAutoReceive(q), r)
<1>1. SetAutoReceive(q) \in {q, HoldXon(q), ReleaseXon(q)}
  BY DEF SetAutoReceive
<1> QED
  BY <1>1, HoldAgree, ReleaseAgree

(* What a handler may do: nothing is owed for good, and a port that is not *)
(* open has no XON on its way that it had not.                             *)
XonKept(s, t) ==
  /\ XonSafe(t)
  /\ \A p \in Ports : ~s[p].isOpen /\ OnItsWay(t[p]) => OnItsWay(s[p])

LEMMA SameXonKept ==
  ASSUME NEW s, NEW t, XonSafe(s), SameXons(s, t)
  PROVE  XonKept(s, t)
BY SameXonSafe, SameNoXon DEF XonKept, NoXon

LEMMA KeptThenSame ==
  ASSUME NEW s, NEW t, NEW u, XonKept(s, t), SameXons(t, u)
  PROVE  XonKept(s, u)
BY SameXonSafe, SameNoXon DEF XonKept, NoXon

(* A port that is open is replaced by one that agrees with the other end.  *)
LEMMA ReplacedAgree ==
  ASSUME NEW s \in States, NEW p \in Ports, s[p].isOpen, NEW q,
         Agree(q, s[Remote(p)])
  PROVE  XonKept(s, [s EXCEPT ![p] = q])
<1> DEFINE t == [s EXCEPT ![p] = q]
<1>1. t[p] = q /\ t[Remote(p)] = s[Remote(p)]
  BY RemotePort DEF States
<1> HIDE DEF t
<1>2. XonSafe(t)
  BY <1>1, SafeAgree
<1>3. \A x \in Ports : ~s[x].isOpen /\ OnItsWay(t[x]) => OnItsWay(s[x])
  BY <1>1, RemotePort
<1> QED
  BY <1>2, <1>3 DEF XonKept, t

LEMMA UpdateXon ==
  ASSUME Wired, NEW s \in States, NEW p \in Ports, NEW freed \in BOOLEAN,
         s[p].isOpen, XonSafe(s)
  PROVE  XonKept(s, UpdateHandFlow(s, p, freed))
<1> DEFINE q       == s[p]
           outs    == {x[1] : x \in Shaken(q.flow)}
           reasons == {x[2] : x \in Shaken(q.flow)}
           hold    == q.holdingRemote = {} /\ ~freed /\ Crowded(q, q.flow)
           release == q.holdingRemote # {} /\ freed /\ Drained(q, q.flow)
           why     == IF hold THEN q.holdingRemote \cup reasons
                      ELSE q.holdingRemote \ reasons
           q1      == [q EXCEPT !.holdingRemote = why]
           Xon(r)  == IF ~q.flow.autoReceive THEN r
                      ELSE IF hold THEN HoldXon(r) ELSE ReleaseXon(r)
           new     == Xon(q1)
           bits    == IF hold THEN {} ELSE outs
           s1      == [s EXCEPT ![p] = new]
           t       == SetModemControl(s1, p, bits, outs)
<1>1. CASE ~(hold \/ release)
  <2>1. UpdateHandFlow(s, p, freed) = s
    BY <1>1 DEF UpdateHandFlow
  <2> QED
    BY <2>1 DEF XonKept
<1>2. CASE hold \/ release
  <2>1. UpdateHandFlow(s, p, freed) = t
    BY <1>2 DEF UpdateHandFlow
  <2>2. /\ q \in PortType /\ Good(q) /\ q.isOpen
        /\ q.holdingRemote \subseteq {"CTS", "DSR", "XON"}
        /\ Agree(q, s[Remote(p)])
    BY SafeAgree DEF States, PortType
  <2>3. outs \subseteq {"RTS", "DTR"} /\ reasons \subseteq {"CTS", "DSR"}
    BY ShakenLines
  <2> HIDE DEF outs, reasons, hold, release
  <2>4. /\ why \in SUBSET {"CTS", "DSR", "XON"}
        /\ "XON" \in why <=> "XON" \in q.holdingRemote
    BY <2>2, <2>3
  <2> HIDE DEF why
  <2>5. /\ q1 \in PortType /\ Good(q1) /\ q1.isOpen
        /\ q1.tx = q.tx /\ q1.sendXonXoff = q.sendXonXoff
        /\ q1.sendBreak = q.sendBreak /\ q1.holding = q.holding
        /\ q1.flow = q.flow /\ q1.holdingRemote = why
    BY <2>2, <2>4 DEF PortType, Good, Fit
  <2> HIDE DEF q1
  <2>6. Agree(q1, s[Remote(p)])
    <3>1. "XON" \in q1.holding /\ ~q1.flow.autoTransmit
            => "XON" \in q.holdingRemote
      BY <2>2, <2>5 DEF Agree, Obeys
    <3> HIDE DEF q
    <3> QED
      BY <2>2, <2>4, <2>5, <3>1, LessHeld
  <2>7. new \in PortType /\ Good(new) /\ Agree(new, s[Remote(p)])
    <3>1. new \in {q1, HoldXon(q1), ReleaseXon(q1)}
      OBVIOUS
    <3> HIDE DEF new, q
    <3>2. CASE new = q1
      BY <2>5, <2>6, <3>2
    <3>3. CASE new = HoldXon(q1)
      BY <2>5, <2>6, <3>3, HoldAgree, XonRecords
    <3>4. CASE new = ReleaseXon(q1)
      BY <2>5, <2>6, <3>4, ReleaseAgree, XonRecords
    <3> QED
      BY <3>1, <3>2, <3>3, <3>4
  <2> HIDE DEF new
  <2>8. s1 \in States /\ XonKept(s, s1)
    BY <2>7, Replaced, ReplacedAgree
  <2> HIDE DEF s1
  <2>9. outs \subseteq Outs
    BY <2>3 DEF Outs
  <2>10. SameXons(s1, t)
    BY <2>8, <2>9, SetControlXon, Looser
  <2> HIDE DEF t
  <2> QED
    BY <2>1, <2>8, <2>10, KeptThenSame
<1> QED
  BY <1>1, <1>2
LEMMA FromBufferXon ==
  ASSUME NEW s \in States, NEW p \in Ports
  PROVE  SameXons(s, FromBuffer(s, p))
<1> DEFINE n == Least(s[p].busy, s[p].reading)
           q == [s[p] EXCEPT !.busy = @ - n, !.reading = @ - n]
<1>1. s \in [Ports -> PortType] /\ s[p] \in PortType
  BY DEF States
<1>2. FromBuffer(s, p) = [s EXCEPT ![p] = q]
  BY <1>1 DEF FromBuffer
<1> HIDE DEF n
<1>3. SameXon(s[p], q)
  BY <1>1 DEF PortType, SameXon
<1> HIDE DEF q
<1>4. SameXons(s, [s EXCEPT ![p] = q])
  BY <1>3, ReplacedXon, Looser
<1> QED
  BY <1>2, <1>4

LEMMA RoomKept ==
  ASSUME NEW s, NEW t, NEW w, SameRoom(s, t, w), Clear(s, w, "busy")
  PROVE  Clear(t, w, "busy")
BY DEF SameRoom, Clear, RoomAt

(* A round of ReadWrite.                                                   *)
LEMMA TryReadWriteXon ==
  ASSUME Wired, NEW s \in States, NEW w \in Ports, XonSafe(s)
  PROVE  XonKept(s, TryReadWrite(s, w))
<1> DEFINE r   == Remote(w)
           s0  == FromBuffer(s, r)
           s1  == FromTx(s0, w, "reading")
           s2  == IF s1[r].reading > 0 THEN s1 ELSE FromTx(s1, w, "busy")
           s3  == SendChar(s2, w, "reading")
           s4  == SendData(s3, w, "reading")
           s5  == SendChar(s4, w, "busy")
           new == SendData(s5, w, "busy")
           freed == new[r].busy < s[r].busy
           shaken == IF new[r].busy = s[r].busy THEN new
                     ELSE UpdateHandFlow(new, r, freed)
<1>1. TryReadWrite(s, w) = UpdateTransmitToggle(shaken, w)
  BY DEF TryReadWrite, Shake, FromWrite, ToBuffer, ToRead
<1>2. r \in Ports
  BY RemotePort
<1>3. s0 \in States /\ Unmoved(s, s0) /\ XonSafe(s0) /\ NoXon(s, s0)
  BY <1>2, FromBufferKeeps, FromBufferXon, SameXonSafe, SameNoXon
<1> HIDE DEF s0
<1>4. /\ s1 \in States /\ Unmoved(s, s1) /\ XonSafe(s1) /\ NoXon(s, s1)
      /\ Clear(s1, w, "reading")
  <2>1. s1 \in States /\ Unmoved(s0, s1)
    BY <1>3, FromTxKeeps
  <2>2. XonSafe(s1) /\ NoXon(s0, s1) /\ Clear(s1, w, "reading")
    BY <1>3, FromTxXon
  <2> QED
    BY <1>3, <2>1, <2>2, UnmovedTwice, NoXonTwice
<1> HIDE DEF s1
<1>5. /\ s2 \in States /\ Unmoved(s, s2) /\ XonSafe(s2) /\ NoXon(s, s2)
      /\ Clear(s2, w, "reading") /\ Clear(s2, w, "busy")
  <2>1. s1[r].reading \in Nat
    BY <1>2, <1>4 DEF States, PortType
  <2>2. CASE s1[r].reading > 0
    <3>1. s1[w].tx = <<>>
      BY <1>4, <2>1, <2>2 DEF Clear, RoomAt
    <3> QED
      BY <1>4, <2>2, <3>1 DEF Clear
  <2>3. CASE ~(s1[r].reading > 0)
    <3> DEFINE u == FromTx(s1, w, "busy")
    <3>1. u \in States /\ Unmoved(s1, u)
      BY <1>4, FromTxKeeps
    <3>2. /\ XonSafe(u) /\ NoXon(s1, u) /\ Clear(u, w, "busy")
          /\ u[r].reading = s1[r].reading
      BY <1>4, FromTxXon
    <3> HIDE DEF u
    <3>3. Clear(u, w, "reading")
      BY <2>1, <2>3, <3>2 DEF Clear, RoomAt
    <3>4. s2 = u
      BY <2>3 DEF u
    <3> QED
      BY <1>4, <3>1, <3>2, <3>3, <3>4, UnmovedTwice, NoXonTwice
  <2> QED
    BY <2>2, <2>3
<1> HIDE DEF s2
<1>6. /\ s3 \in States /\ Unmoved(s, s3) /\ XonSafe(s3) /\ NoXon(s, s3)
      /\ Clear(s3, w, "busy")
  <2>1. s3 \in States /\ Unmoved(s2, s3)
    BY <1>5, SendCharKeeps
  <2>2. XonSafe(s3) /\ NoXon(s2, s3) /\ SameRoom(s2, s3, w)
    BY <1>5, SendCharXon
  <2> QED
    BY <1>5, <2>1, <2>2, UnmovedTwice, NoXonTwice, RoomKept
<1> HIDE DEF s3
<1>7. /\ s4 \in States /\ Unmoved(s, s4) /\ XonSafe(s4) /\ NoXon(s, s4)
      /\ Clear(s4, w, "busy")
  <2>1. s4 \in States /\ Unmoved(s3, s4)
    BY <1>6, SendDataKeeps
  <2>2. XonSafe(s4) /\ NoXon(s3, s4) /\ SameRoom(s3, s4, w)
    BY <1>6, SendDataXon
  <2> QED
    BY <1>6, <2>1, <2>2, UnmovedTwice, NoXonTwice, RoomKept
<1> HIDE DEF s4
<1>8. s5 \in States /\ Unmoved(s, s5) /\ XonSafe(s5) /\ NoXon(s, s5)
  <2>1. s5 \in States /\ Unmoved(s4, s5)
    BY <1>7, SendCharKeeps
  <2>2. XonSafe(s5) /\ NoXon(s4, s5)
    BY <1>7, SendCharXon
  <2> QED
    BY <1>7, <2>1, <2>2, UnmovedTwice, NoXonTwice
<1> HIDE DEF s5
<1>9. new \in States /\ Unmoved(s, new) /\ XonSafe(new) /\ NoXon(s, new)
  <2>1. new \in States /\ Unmoved(s5, new)
    BY <1>8, SendDataKeeps
  <2>2. XonSafe(new) /\ NoXon(s5, new)
    BY <1>8, SendDataXon
  <2> QED
    BY <1>8, <2>1, <2>2, UnmovedTwice, NoXonTwice
<1> HIDE DEF new
<1>10. \A p \in Ports : new[p].isOpen = s[p].isOpen
  BY <1>9 DEF Unmoved, Like
<1>11. new[r].busy # s[r].busy => new[r].isOpen
  BY <1>2, <1>9 DEF States, Good, Fit, Unmoved, Like
<1>12. freed \in BOOLEAN
  OBVIOUS
<1> HIDE DEF r, freed
<1>13. shaken \in States /\ XonKept(s, shaken)
  <2>1. CASE new[r].busy = s[r].busy
    BY <1>9, <2>1 DEF XonKept, NoXon
  <2>2. CASE new[r].busy # s[r].busy
    <3> DEFINE u == UpdateHandFlow(new, r, freed)
    <3>1. XonKept(new, u) /\ Steady(new, u)
      BY <1>2, <1>9, <1>11, <1>12, <2>2, UpdateXon, UpdateSteady
    <3>2. shaken = u
      BY <2>2
    <3> HIDE DEF u, shaken
    <3> QED
      BY <1>9, <1>10, <3>1, <3>2 DEF XonKept, NoXon, Steady
  <2> QED
    BY <2>1, <2>2
<1> HIDE DEF shaken
<1>14. SameXons(shaken, UpdateTransmitToggle(shaken, w))
  BY <1>13, ToggleXon
<1> QED
  BY <1>1, <1>13, <1>14, KeptThenSame

LEMMA ReasonsXon ==
  ASSUME NEW q, NEW flow, NEW all
  PROVE  "XON" \in Reasons(q, flow, Changed(q.flow, flow, all))
           <=> "XON" \in q.holdingRemote
<1> DEFINE lines == Changed(q.flow, flow, all)
<1>1. \A x \in lines : x[2] \in {"CTS", "DSR"}
  BY DEF Changed
<1>2. \A x \in lines : ReasonFor(q, flow, x[4], x[2]) \subseteq {x[2]}
  BY DEF ReasonFor
<1> HIDE DEF lines
<1>3. "XON" \notin {x[2] : x \in lines}
  BY <1>1
<1>4. "XON" \notin UNION {ReasonFor(q, flow, x[4], x[2]) : x \in lines}
  BY <1>1, <1>2
<1> QED
  BY <1>3, <1>4 DEF Reasons, lines

(* The setting takes an XOFF of q back.                                    *)
TakesBack(q, flow) ==
  /\ q.flow.autoReceive /\ ~flow.autoReceive
  /\ "XON" \in q.holdingRemote /\ q.sendXonXoff = "off"

(* IOCTL_SERIAL_SET_HANDFLOW, and the settings of an open.                 *)
LEMMA SetHandFlowXon ==
  ASSUME Wired, NEW s \in States, NEW p \in Ports, s[p].isOpen, XonSafe(s),
         NEW flow \in HandFlows, flow.xoffLimit <= BufSize, NEW all \in BOOLEAN,
         all => s[p].holdingRemote = {}, ~TakesBack(s[p], flow)
  PROVE  XonKept(s, SetHandFlow(s, p, flow, all))
<1> DEFINE old  == s[p].flow
           r    == Remote(p)
           fewer == [s[p] EXCEPT !.holding = @ \ {"XON"}]
           s1   == IF all THEN [s EXCEPT ![p].holding = @ \ {"XON"}]
                   ELSE IF old.autoTransmit /\ ~flow.autoTransmit
                     THEN SetXonXoffHolding(s, p, "on") ELSE s
           q    == s1[p]
           lines == Changed(old, flow, all)
           reasons == Reasons(q, flow, lines)
           mask == Moved(q, flow, lines)
           bits == Raised(q, flow, lines)
           q1   == [q EXCEPT !.holdingRemote = reasons, !.flow = flow]
           q2   == IF all \/ old.autoReceive # flow.autoReceive
                     THEN SetAutoReceive(q1) ELSE q1
           s2   == [s1 EXCEPT ![p] = q2]
           held == all \/ old.out # flow.out
           s3   == IF held THEN SetModemStatusHolding(s2, p) ELSE s2
           s4   == SetModemControl(s3, p, bits, mask)
           s5   == UpdateTransmitToggle(s4, p)
           s6   == SetLimit(s5, r)
           t    == SetLimit(s6, p)
<1>1. SetHandFlow(s, p, flow, all) = t
  BY DEF SetHandFlow, Changed, Moved, Raised, Reasons
<1>2. /\ s \in [Ports -> PortType] /\ s[p] \in PortType /\ Good(s[p])
      /\ Agree(s[p], s[r]) /\ r \in Ports /\ r # p
  BY SafeAgree, RemotePort DEF States
<1>3. /\ s1 \in [Ports -> PortType] /\ s1[r] = s[r]
      /\ \A u : [s1 EXCEPT ![p] = u] = [s EXCEPT ![p] = u]
      /\ q \in PortType /\ Good(q) /\ q.isOpen
      /\ q.tx = s[p].tx /\ q.sendXonXoff = s[p].sendXonXoff
      /\ q.sendBreak = s[p].sendBreak /\ q.flow = old
      /\ q.holdingRemote = s[p].holdingRemote
      /\ "BREAK" \in q.holding <=> "BREAK" \in s[p].holding
      /\ "XON" \in q.holding => "XON" \in s[p].holding
      /\ "XON" \in q.holding => ~all /\ ~(old.autoTransmit /\ ~flow.autoTransmit)
  <2>1. \E h \in SUBSET Holds, y \in BOOLEAN :
          /\ s1 = [s EXCEPT ![p] = [s[p] EXCEPT !.holding = h, !.tryWrite = y]]
          /\ "BREAK" \in h <=> "BREAK" \in s[p].holding
          /\ "XON" \in h => "XON" \in s[p].holding
          /\ "XON" \in h => ~all /\ ~(old.autoTransmit /\ ~flow.autoTransmit)
    <3>0. /\ s = [s EXCEPT ![p] = [s[p] EXCEPT !.holding = s[p].holding,
                                            !.tryWrite = s[p].tryWrite]]
          /\ s[p].holding \in SUBSET Holds /\ s[p].tryWrite \in BOOLEAN
      BY <1>2 DEF PortType
    <3> DEFINE h == s[p].holding \ {"XON"}
    <3>1. h \in SUBSET Holds /\ "XON" \notin h
          /\ ("BREAK" \in h <=> "BREAK" \in s[p].holding)
      BY <3>0
    <3>2. CASE all
      <4>1. s1 = [s EXCEPT ![p] = [s[p] EXCEPT !.holding = h,
                                             !.tryWrite = s[p].tryWrite]]
        BY <1>2, <3>2 DEF PortType
      <4> QED
        BY <3>0, <3>1, <4>1
    <3>3. CASE /\ ~all /\ old.autoTransmit /\ ~flow.autoTransmit
               /\ "XON" \in s[p].holding
      <4> DEFINE y == \/ s[p].tryWrite
                      \/ s[p].holding = {"XON"} /\ s[p].writing > 0
      <4>1. s1 = [s EXCEPT ![p] = [s[p] EXCEPT !.holding = h, !.tryWrite = y]]
        BY <1>2, <3>3 DEF SetXonXoffHolding
      <4>2. y \in BOOLEAN
        BY <3>0
      <4> HIDE DEF y, h, s1
      <4> QED
        BY <3>1, <4>1, <4>2
    <3>4. CASE ~all /\ ~ /\ old.autoTransmit /\ ~flow.autoTransmit
                         /\ "XON" \in s[p].holding
      <4>1. s1 = s
        BY <3>4 DEF SetXonXoffHolding
      <4> QED
        BY <3>0, <3>4, <4>1
    <3> QED
      BY <3>2, <3>3, <3>4
  <2> HIDE DEF s1
  <2>2. PICK h \in SUBSET Holds, y \in BOOLEAN :
          /\ s1 = [s EXCEPT ![p] = [s[p] EXCEPT !.holding = h, !.tryWrite = y]]
          /\ "BREAK" \in h <=> "BREAK" \in s[p].holding
          /\ "XON" \in h => "XON" \in s[p].holding
          /\ "XON" \in h => ~all /\ ~(old.autoTransmit /\ ~flow.autoTransmit)
    BY <2>1
  <2> DEFINE c == [s[p] EXCEPT !.holding = h, !.tryWrite = y]
  <2>3. /\ c \in PortType /\ Good(c) /\ c.isOpen
        /\ c.tx = s[p].tx /\ c.sendXonXoff = s[p].sendXonXoff
        /\ c.sendBreak = s[p].sendBreak /\ c.flow = old
        /\ c.holdingRemote = s[p].holdingRemote /\ c.holding = h
    BY <1>2, <2>2 DEF PortType, Good, Fit
  <2>4. s1 = [s EXCEPT ![p] = c]
    BY <2>2
  <2> HIDE DEF c
  <2>5. /\ s1 \in [Ports -> PortType] /\ s1[r] = s[r] /\ s1[p] = c
        /\ \A u : [s1 EXCEPT ![p] = u] = [s EXCEPT ![p] = u]
    BY <1>2, <2>3, <2>4
  <2> QED
    BY <2>2, <2>3, <2>5
<1>4. reasons \in SUBSET {"CTS", "DSR", "XON"}
      /\ ("XON" \in reasons <=> "XON" \in s[p].holdingRemote)
  <2> HIDE DEF s1
  <2>1. reasons = Reasons(q, flow, Changed(q.flow, flow, all))
    BY <1>3
  <2> HIDE DEF q, lines, reasons
  <2> QED
    BY <1>3, <2>1, ReasonsIs, ReasonsXon
<1>5. mask \subseteq Outs
  <2>1. mask \subseteq {"RTS", "DTR"}
    BY MovedIs
  <2> QED
    BY <2>1 DEF Outs
<1> HIDE DEF lines, reasons, mask, bits, q, s1
<1>6. /\ q1 \in PortType /\ Good(q1) /\ q1.isOpen /\ q1.flow = flow
      /\ q1.tx = q.tx /\ q1.sendXonXoff = q.sendXonXoff
      /\ q1.sendBreak = q.sendBreak
      /\ q1.holding = q.holding /\ q1.holdingRemote = reasons
  BY <1>3, <1>4 DEF PortType, Good, Fit
<1> HIDE DEF q1
<1>7. Agree(q1, s[r])
  <2>1. "XON" \in q1.holding /\ ~q1.flow.autoTransmit
          => "XON" \in s[p].holdingRemote
    BY <1>2, <1>3, <1>6 DEF Agree, Obeys
  <2> QED
    BY <1>2, <1>3, <1>4, <1>6, <2>1, LessHeld
<1>8. q2 \in PortType /\ Good(q2) /\ Agree(q2, s[r])
  <2>1. CASE q2 = q1
    BY <1>6, <1>7, <2>1
  <2>2. CASE q2 = SetAutoReceive(q1) /\ (all \/ old.autoReceive # flow.autoReceive)
    <3>1. ~ /\ ~q1.flow.autoReceive /\ "XON" \in q1.holdingRemote
            /\ q1.sendXonXoff = "off"
      <4>1. old.autoReceive \in BOOLEAN /\ flow.autoReceive \in BOOLEAN
        BY <1>2 DEF PortType, HandFlows
      <4> QED
        BY <1>3, <1>4, <1>6, <2>2, <4>1 DEF TakesBack
    <3> QED
      BY <1>6, <1>7, <2>2, <3>1, AutoReceiveAgree, XonRecords
  <2> QED
    BY <2>1, <2>2
<1> HIDE DEF q2
<1>9. s2 \in States /\ XonKept(s, s2)
  <2>1. s2 = [s EXCEPT ![p] = q2]
    BY <1>3
  <2> HIDE DEF s2
  <2> QED
    BY <1>8, <2>1, Replaced, ReplacedAgree
<1> HIDE DEF s2
<1>10. s3 \in States /\ SameXons(s2, s3)
  BY <1>9, StatusHolding, StatusHoldingXon, XonSelf, Looser
<1> HIDE DEF s3
<1>11. s4 \in States /\ SameXons(s3, s4)
  <2>1. ControlSet(s3, s4, p, bits, mask)
    BY <1>5, <1>10, SetControl, Looser
  <2> QED
    BY <1>5, <1>10, <2>1, SetControlXon, Looser DEF ControlSet
<1> HIDE DEF s4
<1>12. s5 \in States /\ SameXons(s4, s5)
  BY <1>11, ToggleSteady, ToggleXon DEF Steady
<1> HIDE DEF s5
<1>13. s6 \in States /\ SameXons(s5, s6)
  BY <1>2, <1>12, LimitUnmoved, LimitXon
<1> HIDE DEF s6
<1>14. SameXons(s6, t)
  BY <1>13, LimitXon
<1> HIDE DEF t
<1>15. SameXons(s2, t)
  BY <1>10, <1>11, <1>12, <1>13, <1>14, XonTwice
<1> QED
  BY <1>1, <1>9, <1>15, KeptThenSame
-----------------------------------------------------------------------------
Clean == history \cap {"byHand", "close", "cancel"} = {}

(* A port that AddFdoPort has not run for has nothing to say.              *)
XonOwing ==
  Clean => /\ XonSafe(port)
           /\ \A p \in Ports \ added :
                ~OnItsWay(port[p]) /\ ~port[p].flow.autoTransmit

LEMMA CleanBefore ==
  ASSUME XonOwing, history \subseteq history', Clean'
  PROVE  XonSafe(port)
BY DEF Clean, XonOwing

LEMMA XonOwingStep ==
  ASSUME XonOwing, LinesInv, UNCHANGED added, history \subseteq history',
         Clean' => XonKept(port, port'),
         \A p \in Ports \ added :
            port'[p].flow.autoTransmit = port[p].flow.autoTransmit
  PROVE  XonOwing'
<1> SUFFICES ASSUME Clean'
             PROVE  /\ XonSafe(port')
                    /\ \A p \in Ports \ added :
                         ~OnItsWay(port'[p]) /\ ~port'[p].flow.autoTransmit
  BY DEF XonOwing
<1>1. /\ XonSafe(port')
      /\ \A p \in Ports : ~port[p].isOpen /\ OnItsWay(port'[p])
                            => OnItsWay(port[p])
  BY DEF XonKept
<1>2. \A p \in Ports \ added : /\ ~port[p].isOpen /\ ~OnItsWay(port[p])
                               /\ ~port[p].flow.autoTransmit
  BY DEF Clean, XonOwing, LinesInv, Unborn
<1> QED
  BY <1>1, <1>2

LEMMA SameXonStep ==
  ASSUME XonOwing, LinesInv, UNCHANGED added, history \subseteq history',
         SameXons(port, port')
  PROVE  XonOwing'
<1>1. Clean' => XonKept(port, port')
  BY CleanBefore, SameXonKept
<1>2. \A p \in Ports \ added :
         port'[p].flow.autoTransmit = port[p].flow.autoTransmit
  BY DEF SameXons, SameXon
<1> QED
  BY <1>1, <1>2, XonOwingStep

LEMMA XonInit == Init => XonOwing
<1> SUFFICES ASSUME Init PROVE XonOwing
  OBVIOUS
<1>1. /\ NewPort.tx = <<>> /\ NewPort.sendXonXoff = "none"
      /\ NewPort.holding = {} /\ ~NewPort.sendBreak
      /\ ~NewPort.flow.autoTransmit
  BY DEF NewPort, NoFlow
<1>2. \A p \in Ports : port[p] = NewPort
  BY DEF Init
<1>3. Len(NewPort.tx) = 0
  BY <1>1
<1>4. ~OnItsWay(NewPort) /\ Told(NewPort) /\ Obeys(NewPort)
      /\ Owed(NewPort, NewPort)
  BY <1>1, <1>3 DEF OnItsWay, Told, Obeys, Owed
<1> QED
  BY <1>1, <1>2, <1>4, RemotePort DEF XonOwing, XonSafe

(* One port is replaced, and XON has nothing to do with it.                *)
LEMMA ReplacedStep ==
  ASSUME XonOwing, LinesInv, UNCHANGED <<added, history>>,
         NEW p \in Ports, NEW q, port' = [port EXCEPT ![p] = q],
         SameXon(port[p], q)
  PROVE  XonOwing'
<1>1. port \in Loose
  BY Looser DEF LinesInv
<1>2. SameXons(port, port')
  BY <1>1, ReplacedXon
<1> QED
  BY <1>2, SameXonStep

LEMMA RequestsXon ==
  ASSUME XonOwing, LinesInv, NEW p \in Ports,
         \/ \E n \in WriteSizes : Write(p, n)
         \/ \E n \in ReadSizes : Read(p, n)
         \/ Abort(p)
  PROVE  XonOwing'
<1>1. PICK w, n : /\ port' = [port EXCEPT ![p].writing = w, ![p].reading = n]
                  /\ UNCHANGED <<added, history>>
  <2>1. /\ port \in [Ports -> PortType] /\ port[p] \in PortType
    BY DEF LinesInv, States
  <2>2. ASSUME NEW n \in WriteSizes, Write(p, n)
        PROVE  /\ port' = [port EXCEPT ![p].writing = n,
                                       ![p].reading = port[p].reading]
               /\ UNCHANGED <<added, history>>
    <3> DEFINE q == [port[p] EXCEPT !.writing = n]
    <3>1. q = [port[p] EXCEPT !.writing = n, !.reading = port[p].reading]
      BY <2>1 DEF PortType
    <3>2. port' = [port EXCEPT ![p] = q]
      BY <2>1, <2>2 DEF Write
    <3> HIDE DEF q
    <3> QED
      BY <2>1, <2>2, <3>1, <3>2 DEF Write
  <2>3. ASSUME NEW n \in ReadSizes, Read(p, n)
        PROVE  /\ port' = [port EXCEPT ![p].writing = port[p].writing,
                                       ![p].reading = n]
               /\ UNCHANGED <<added, history>>
    <3> DEFINE q == [port[p] EXCEPT !.reading = n]
    <3>1. q = [port[p] EXCEPT !.writing = port[p].writing, !.reading = n]
      BY <2>1 DEF PortType
    <3>2. port' = [port EXCEPT ![p] = q]
      BY <2>1, <2>3 DEF Read
    <3> HIDE DEF q
    <3> QED
      BY <2>1, <2>3, <3>1, <3>2 DEF Read
  <2> QED
    BY <2>2, <2>3 DEF Abort
<1>2. port \in [Ports -> PortType] /\ port[p] \in PortType
  BY DEF LinesInv, States
<1> DEFINE q == [port[p] EXCEPT !.writing = w, !.reading = n]
<1>3. port' = [port EXCEPT ![p] = q]
  BY <1>1, <1>2
<1>4. SameXon(port[p], q)
  BY <1>2 DEF PortType, SameXon
<1> HIDE DEF q
<1> QED
  BY <1>1, <1>3, <1>4, ReplacedStep

LEMMA PurgeXon ==
  ASSUME XonOwing, LinesInv, NEW p \in Ports, Purge(p)
  PROVE  XonOwing'
<1> DEFINE q == [port[p] EXCEPT !.busy = 0]
           s == [port EXCEPT ![p] = q]
<1>1. /\ port \in States /\ port \in [Ports -> PortType] /\ port[p].isOpen
      /\ port[p] \in PortType /\ Good(port[p]) /\ 0 \in 0 .. BufSize
  BY HandFlowAssumption DEF LinesInv, States, Purge
<1>2. port' = UpdateHandFlow(s, p, TRUE)
  <2>1. [port EXCEPT ![p].busy = 0] = s
    BY <1>1
  <2> QED
    BY <2>1 DEF Purge, Run
<1>3. q \in PortType /\ Good(q) /\ Like(port[p], q) /\ SameXon(port[p], q)
  BY <1>1 DEF PortType, Good, Fit, Like, SameXon
<1> HIDE DEF q
<1>4. s \in States /\ Unmoved(port, s) /\ SameXons(port, s)
  BY <1>1, <1>3, Replaced, ReplacedXon, Looser
<1> HIDE DEF s
<1>5. s[p].isOpen /\ \A x \in Ports : s[x].isOpen = port[x].isOpen
  BY <1>1, <1>4 DEF Unmoved, Like
<1>6. history \subseteq history' /\ UNCHANGED added
  BY DEF Purge
<1>7. ASSUME Clean' PROVE XonKept(port, port')
  <2>1. XonSafe(s)
    BY <1>4, <1>6, <1>7, CleanBefore, SameXonSafe
  <2>2. XonKept(s, port')
    BY <1>2, <1>4, <1>5, <2>1, LinesInvWired, UpdateXon
  <2> QED
    BY <1>4, <1>5, <2>2, SameNoXon DEF XonKept, NoXon
<1>8. \A x \in Ports :
         port'[x].flow.autoTransmit = port[x].flow.autoTransmit
  BY <1>2, <1>4, <1>5, LinesInvWired, UpdateSteady DEF Steady, Unmoved, Like
<1> QED
  BY <1>6, <1>7, <1>8, XonOwingStep

LEMMA OpenLineXon ==
  ASSUME XonOwing, LinesInv, OpenLine
  PROVE  XonOwing'
<1>1. opening \in Ports /\ port \in Loose
  BY Looser DEF LinesInv, Counts, OpenLine
<1>2. {"OPEN"} \subseteq Outs
  BY DEF Outs
<1>3. SameXons(port, port')
  BY <1>1, <1>2, SetControlXon DEF OpenLine
<1> QED
  BY <1>3, SameXonStep DEF OpenLine

LEMMA TransferXon ==
  ASSUME XonOwing, LinesInv, Transfer
  PROVE  XonOwing'
<1> DEFINE q == [port[engine] EXCEPT !.tryWrite = FALSE]
           s == [port EXCEPT ![engine] = q]
<1>1. /\ port \in States /\ port \in [Ports -> PortType] /\ engine \in Ports
      /\ port[engine] \in PortType /\ Good(port[engine])
  BY DEF LinesInv, States, Counts, Transfer
<1>2. port' = TryReadWrite(s, engine)
  <2>1. [port EXCEPT ![engine].tryWrite = FALSE] = s
    BY <1>1
  <2> QED
    BY <2>1 DEF Transfer
<1>3. /\ q \in PortType /\ Good(q) /\ Like(port[engine], q)
      /\ SameXon(port[engine], q)
  BY <1>1 DEF PortType, Good, Fit, Like, SameXon
<1> HIDE DEF q
<1>4. s \in States /\ Unmoved(port, s) /\ SameXons(port, s)
  BY <1>1, <1>3, Replaced, ReplacedXon, Looser
<1> HIDE DEF s
<1>5. \A x \in Ports : s[x].isOpen = port[x].isOpen
  BY <1>4 DEF Unmoved, Like
<1>6. history \subseteq history' /\ UNCHANGED added
  BY DEF Transfer
<1>7. ASSUME Clean' PROVE XonKept(port, port')
  <2>1. XonSafe(s)
    BY <1>4, <1>6, <1>7, CleanBefore, SameXonSafe
  <2>2. XonKept(s, port')
    BY <1>1, <1>2, <1>4, <2>1, LinesInvWired, TryReadWriteXon
  <2> QED
    BY <1>4, <1>5, <2>2, SameNoXon DEF XonKept, NoXon
<1>8. \A x \in Ports :
         port'[x].flow.autoTransmit = port[x].flow.autoTransmit
  BY <1>1, <1>2, <1>4, LinesInvWired, TryReadWriteSteady
     DEF Steady, Unmoved, Like
<1> QED
  BY <1>6, <1>7, <1>8, XonOwingStep

LEMMA ChangeXon ==
  ASSUME XonOwing, LinesInv, NEW p \in Ports, NEW flow \in Flows[p],
         ChangeHandFlow(p, flow)
  PROVE  XonOwing'
<1>1. /\ port \in States /\ Wired /\ port[p].isOpen /\ p \in added
      /\ flow \in HandFlows /\ flow.xoffLimit <= BufSize
  BY LinesInvWired, HandFlowAssumption DEF LinesInv, Unborn, ChangeHandFlow
<1>2. /\ port' = SetHandFlow(port, p, flow, FALSE)
      /\ history \subseteq history' /\ UNCHANGED added
      /\ Cancels(p, flow) => "cancel" \in history'
  BY DEF ChangeHandFlow, Run
<1>3. ASSUME Clean' PROVE XonKept(port, port')
  <2>1. XonSafe(port) /\ ~Cancels(p, flow)
    BY <1>2, <1>3, CleanBefore DEF Clean
  <2>2. ~TakesBack(port[p], flow)
    BY <2>1 DEF Cancels, TakesBack
  <2>3. XonKept(port, SetHandFlow(port, p, flow, FALSE))
    BY <1>1, <2>1, <2>2, SetHandFlowXon
  <2> QED
    BY <1>2, <2>3
<1>4. \A x \in Ports \ added :
         port'[x].flow.autoTransmit = port[x].flow.autoTransmit
  <2>1. HandFlowSet(port, SetHandFlow(port, p, flow, FALSE), p, flow)
    BY <1>1, SetHandFlowKeeps
  <2> QED
    BY <1>1, <1>2, <2>1 DEF HandFlowSet
<1> QED
  BY <1>2, <1>3, <1>4, XonOwingStep
LEMMA OpenXon ==
  ASSUME XonOwing, LinesInv, NEW p \in Ports, Open(p)
  PROVE  XonOwing'
<1>1. PICK q : /\ OpenedAs(p, q)
               /\ port' = SetHandFlow([port EXCEPT ![p] = q], p, q.flow, TRUE)
               /\ UNCHANGED <<wiring, rounds, added, orders, history>>
  BY OpenIs
<1> DEFINE s == [port EXCEPT ![p] = q]
<1>2. port \in States /\ Wired /\ p \in added
  BY LinesInvWired DEF LinesInv, Open
<1>3. /\ s \in States /\ s[p] = q /\ \A x \in Ports : x # p => s[x] = port[x]
      /\ SameXons(port, s)
  <2>1. q \in PortType /\ Good(q) /\ SameXon(port[p], q) /\ port \in Loose
    BY <1>1, <1>2, Looser DEF OpenedAs, SameXon
  <2>2. SameXons(port, s)
    BY <2>1, ReplacedXon
  <2> QED
    BY <1>2, <2>1, <2>2, Replaced
<1> HIDE DEF s
<1>4. port' = SetHandFlow(s, p, q.flow, TRUE)
  BY <1>1 DEF s
<1>5. /\ s[p].isOpen /\ q.flow \in HandFlows /\ q.flow.xoffLimit <= BufSize
      /\ s[p].holdingRemote = {} /\ s[p].flow = q.flow
  BY <1>1, <1>3 DEF OpenedAs
<1> DEFINE flow == q.flow
<1>6. ~TakesBack(s[p], flow)
  BY <1>5 DEF TakesBack
<1>7. \A x \in Ports : x # p => port'[x].flow = s[x].flow
  <2>1. HandFlowSet(s, SetHandFlow(s, p, flow, TRUE), p, flow)
    BY <1>2, <1>3, <1>5, SetHandFlowKeeps
  <2> QED
    BY <1>4, <2>1 DEF HandFlowSet
<1>8. ASSUME Clean'
      PROVE  /\ XonSafe(port')
             /\ \A x \in Ports : x # p /\ ~port[x].isOpen /\ OnItsWay(port'[x])
                                 => OnItsWay(port[x])
  <2>1. XonSafe(s)
    BY <1>1, <1>3, <1>8, CleanBefore, SameXonSafe
  <2>2. XonKept(s, SetHandFlow(s, p, flow, TRUE))
    BY <1>2, <1>3, <1>5, <1>6, <2>1, SetHandFlowXon
  <2> QED
    BY <1>3, <1>4, <2>2 DEF XonKept
<1>9. ASSUME Clean', NEW x \in Ports \ added
      PROVE  ~OnItsWay(port'[x]) /\ ~port'[x].flow.autoTransmit
  <2>1. /\ ~port[x].isOpen /\ ~OnItsWay(port[x]) /\ ~port[x].flow.autoTransmit
    BY <1>1, <1>9 DEF Clean, XonOwing, LinesInv, Unborn
  <2> QED
    BY <1>2, <1>3, <1>7, <1>8, <1>9, <2>1
<1> QED
  BY <1>1, <1>8, <1>9 DEF XonOwing

LEMMA AddXon ==
  ASSUME XonOwing, LinesInv, NEW p \in Ports, AddFdoPort(p)
  PROVE  XonOwing'
<1> SUFFICES ASSUME Clean' PROVE XonOwing'
  BY DEF XonOwing
<1>1. /\ port \in [Ports -> PortType] /\ port[p] \in PortType /\ p \notin added
      /\ added' = added \cup {p} /\ history' = history
  BY DEF LinesInv, States, AddFdoPort
<1>2. /\ XonSafe(port) /\ Agree(port[p], port[Remote(p)])
      /\ \A x \in Ports \ added :
           ~OnItsWay(port[x]) /\ ~port[x].flow.autoTransmit
  BY <1>1, SafeAgree DEF Clean, XonOwing
<1>3. PICK q : /\ port' = [port EXCEPT ![p] = q]
               /\ q.tx = <<>> /\ ~q.flow.autoTransmit
               /\ q.sendXonXoff = port[p].sendXonXoff
               /\ q.sendBreak = port[p].sendBreak /\ q.holding = port[p].holding
               /\ q.holdingRemote = port[p].holdingRemote
  <2> DEFINE flow == [NoFlow EXCEPT !.rts = "on", !.dtr = "on"]
             control == port[p].modemControl \cup {"OUT2"}
             c == [port[p] EXCEPT !.flow = flow, !.tx = <<>>,
                                  !.modemControl = control]
             s == [port EXCEPT ![p] = c]
             status == {in \in Ins : Signal(s, p, in)}
             r == [c EXCEPT !.modemStatus = status]
  <2>1. port' = [port EXCEPT ![p] = r]
    <3>1. [port EXCEPT ![p].flow = flow, ![p].tx = <<>>,
                       ![p].modemControl = @ \cup {"OUT2"}] = s
      BY <1>1
    <3>2. port' = PinMap(s, p)
      BY <3>1 DEF AddFdoPort
    <3> HIDE DEF c
    <3> QED
      BY <1>1, <3>2 DEF PinMap
  <2>2. ~flow.autoTransmit
    BY DEF NoFlow
  <2> HIDE DEF flow, control, status
  <2>3. /\ r.tx = <<>> /\ r.flow = flow
        /\ r.sendXonXoff = port[p].sendXonXoff
        /\ r.sendBreak = port[p].sendBreak /\ r.holding = port[p].holding
        /\ r.holdingRemote = port[p].holdingRemote
    BY <1>1 DEF PortType
  <2> QED
    BY <2>1, <2>2, <2>3
<1>4. port'[p] = q /\ \A x \in Ports : x # p => port'[x] = port[x]
  BY <1>1, <1>3
<1> DEFINE r == port[Remote(p)]
<1>5. Len(q.tx) = 0
  BY <1>3
<1>6. ~OnItsWay(q) /\ Told(q)
  BY <1>1, <1>2, <1>3, <1>5 DEF OnItsWay, Agree, Told
<1>7. Obeys(q) /\ Owed(q, r) /\ Owed(r, q)
  BY <1>1, <1>2, <1>3 DEF Agree, Obeys, Owed
<1>8. XonSafe(port')
  <2>1. Agree(q, r)
    BY <1>2, <1>6, <1>7 DEF Agree
  <2>2. port'[Remote(p)] = r
    BY <1>4, RemotePort
  <2> QED
    BY <1>4, <2>1, <2>2, SafeAgree
<1>9. \A x \in Ports \ added' :
        ~OnItsWay(port'[x]) /\ ~port'[x].flow.autoTransmit
  BY <1>1, <1>2, <1>4
<1> QED
  BY <1>8, <1>9 DEF XonOwing

LEMMA XonStep == LinesInv /\ XonOwing /\ [Next]_vars => XonOwing'
<1> SUFFICES ASSUME LinesInv, XonOwing, [Next]_vars PROVE XonOwing'
  OBVIOUS
<1>1. ASSUME NEW p \in Ports, AddFdoPort(p) PROVE XonOwing'
  BY <1>1, AddXon
<1>2. ASSUME NEW p \in Ports, Open(p) PROVE XonOwing'
  BY <1>2, OpenXon
<1>3. ASSUME NEW p \in Ports, Close(p) PROVE XonOwing'
  BY <1>3 DEF Close, XonOwing, Clean
<1>4. ASSUME NEW p \in Ports,
             \/ \E n \in WriteSizes : Write(p, n)
             \/ \E n \in ReadSizes : Read(p, n)
             \/ Abort(p)
      PROVE  XonOwing'
  BY <1>4, RequestsXon
<1>5. ASSUME NEW p \in Ports, Purge(p) PROVE XonOwing'
  BY <1>5, PurgeXon
<1>6. ASSUME NEW p \in Ports, NEW flow \in Flows[p], ChangeHandFlow(p, flow)
      PROVE  XonOwing'
  BY <1>6, ChangeXon
<1>7. ASSUME NEW p \in Ports, ByHand(p) PROVE XonOwing'
  <2>1. Meddle(p)
    BY <1>7 DEF ByHand, SetRts, SetDtr, SetOutputs, SetXon, SetXoff, SetBreak
  <2> QED
    BY <2>1 DEF Meddle, XonOwing, Clean
<1>8. CASE OpenLine
  BY <1>8, OpenLineXon
<1>9. CASE Transfer
  BY <1>9, TransferXon
<1>10. CASE UNCHANGED vars
  <2>1. SameXons(port, port') /\ UNCHANGED added /\ history' = history
    BY <1>10, XonSelf DEF vars
  <2> QED
    BY <2>1, SameXonStep
<1> QED
  BY <1>1, <1>2, <1>3, <1>4, <1>5, <1>6, <1>7, <1>8, <1>9, <1>10 DEF Next

(* Nobody waits for an XON that will not come: as long as no hold is       *)
(* dropped or set by hand, no end is closed and no XOFF is taken back, a   *)
(* writer that XOFF holds faces an end that remembers it and sends XON     *)
(* when it has drained, or the XON is on its way, or the port holds itself *)
(* with its own XOFF (UpdateHandFlow, SetHandFlow, sendXonXoff, txBuf).    *)
THEOREM XonAlwaysOwed == Spec => []XonIsOwed
<1>1. LinesInv /\ XonOwing => XonIsOwed
  BY DEF XonOwing, Clean, XonSafe, Owed, OnItsWay, XonIsOwed
<1>2. Spec => [](LinesInv /\ XonOwing)
  <2>1. Init => LinesInv /\ XonOwing
    BY LinesInit, XonInit
  <2>2. LinesInv /\ XonOwing /\ [Next]_vars => (LinesInv /\ XonOwing)'
    BY LinesStep, XonStep
  <2> QED
    BY <2>1, <2>2, PTL DEF Spec
<1> QED
  BY <1>1, <1>2, PTL
-----------------------------------------------------------------------------
(***************************************************************************)
(* Nothing is held back.                                                   *)
(*                                                                         *)
(* A port is served if it asks for ReadWrite, or has nothing to send, or   *)
(* finds no room.  Every operator of the handlers keeps a port served:     *)
(* whoever becomes able to send asks (Awake).  A handler that makes room   *)
(* runs ReadWrite for the other end (Due) or is an exception of Orderly.   *)
(***************************************************************************)

(* The receiver can take nothing: no read, and no room in readBuf.         *)
Full(q) == q.reading = 0 /\ q.busy >= q.limit

HasData(q) == q.writing > 0 /\ q.holding = {}

HasChar(q) == q.sendXonXoff # "none" /\ q.holding \subseteq {"XON"}

Ready(q) == q.tx # <<>> \/ HasData(q) \/ HasChar(q)

(* A port that could send asks for ReadWrite, or there is no room.         *)
Served(s, p) == s[p].tryWrite \/ (Ready(s[p]) => Full(s[Remote(p)]))

(* Whoever becomes able to send asks for ReadWrite.                        *)
Awake(q, r) ==
  /\ q.tryWrite => r.tryWrite
  /\ r.tryWrite \/ (Ready(r) => Ready(q))

(* A break to send is a hold as well; a port that is closed writes nothing.*)
Sound(q) ==
  /\ q.sendBreak => "BREAK" \in q.holding
  /\ ~q.isOpen => q.writing = 0

SameSetting(q, r) ==
  /\ r.isOpen = q.isOpen /\ r.size = q.size
  /\ r.flow = q.flow /\ r.limit = q.limit

(* Nothing but flow control happened to a port.                            *)
Goes(q, r) ==
  /\ r.isOpen = q.isOpen /\ r.size = q.size
  /\ r.busy = q.busy /\ r.reading = q.reading
  /\ Sound(q) => Sound(r)
  /\ Awake(q, r)

Stirred(q, r) == Goes(q, r) /\ SameSetting(q, r)

(* A line changed: it makes nobody ask who has nothing to send.            *)
LineStirred(q, r) ==
  /\ Stirred(q, r)
  /\ r.tx = q.tx /\ r.writing = q.writing /\ r.sendXonXoff = q.sendXonXoff
  /\ r.sendBreak = q.sendBreak
  /\ q.sendXonXoff = "none" /\ q.writing = 0 => r.tryWrite = q.tryWrite

AllGo(s, t) == \A p \in Ports : Goes(s[p], t[p])

Stirs(s, t) == \A p \in Ports : Stirred(s[p], t[p])

LinesStir(s, t) == \A p \in Ports : LineStirred(s[p], t[p])

LEMMA AwakeTwice ==
  ASSUME NEW q, NEW r, NEW u, Awake(q, r), Awake(r, u)
  PROVE  Awake(q, u)
BY DEF Awake

LEMMA AwakeSelf == \A q : Awake(q, q)
BY DEF Awake

LEMMA GoesTwice ==
  ASSUME NEW q, NEW r, NEW u, Goes(q, r), Goes(r, u)
  PROVE  Goes(q, u)
BY AwakeTwice DEF Goes

LEMMA StirredTwice ==
  ASSUME NEW q, NEW r, NEW u, Stirred(q, r), Stirred(r, u)
  PROVE  Stirred(q, u)
BY GoesTwice DEF Stirred, SameSetting

LEMMA StirsTwice ==
  ASSUME NEW s, NEW t, NEW u, Stirs(s, t), Stirs(t, u)
  PROVE  Stirs(s, u)
BY StirredTwice DEF Stirs

LEMMA AllGoTwice ==
  ASSUME NEW s, NEW t, NEW u, AllGo(s, t), AllGo(t, u)
  PROVE  AllGo(s, u)
BY GoesTwice DEF AllGo

LEMMA LinesStirTwice ==
  ASSUME NEW s, NEW t, NEW u, LinesStir(s, t), LinesStir(t, u)
  PROVE  LinesStir(s, u)
<1> SUFFICES ASSUME NEW p \in Ports PROVE LineStirred(s[p], u[p])
  BY DEF LinesStir
<1>1. LineStirred(s[p], t[p]) /\ LineStirred(t[p], u[p])
  BY DEF LinesStir
<1>2. Stirred(s[p], u[p])
  BY <1>1, StirredTwice DEF LineStirred
<1> QED
  BY <1>1, <1>2 DEF LineStirred

LEMMA LineStirredSelf == \A q : LineStirred(q, q)
BY AwakeSelf DEF LineStirred, Stirred, Goes, SameSetting

LEMMA LinesStirSelf == \A s : LinesStir(s, s)
BY LineStirredSelf DEF LinesStir

LEMMA LinesStirAll ==
  ASSUME NEW s, NEW t, LinesStir(s, t)
  PROVE  Stirs(s, t) /\ AllGo(s, t)
BY DEF LinesStir, LineStirred, Stirs, Stirred, AllGo

(* The other port goes on being served.                                    *)
LEMMA ServedKept ==
  ASSUME NEW s, NEW t, NEW p, Awake(s[p], t[p]),
         Full(s[Remote(p)]) => Full(t[Remote(p)]), Served(s, p)
  PROVE  Served(t, p)
BY DEF Awake, Served

LEMMA StirredFull ==
  ASSUME NEW q, NEW r, Stirred(q, r), Full(q)
  PROVE  Full(r)
BY DEF Stirred, Goes, SameSetting, Full

LEMMA StirsServed ==
  ASSUME NEW s, NEW t, Stirs(s, t), NEW p \in Ports, Served(s, p)
  PROVE  Served(t, p)
<1>1. Stirred(s[p], t[p]) /\ Stirred(s[Remote(p)], t[Remote(p)])
  BY RemotePort DEF Stirs
<1> QED
  BY <1>1, ServedKept, StirredFull DEF Stirred, Goes

(* One port is replaced.                                                   *)
LEMMA ReplacedStir ==
  ASSUME NEW s \in Loose, NEW p \in Ports, NEW q
  PROVE  /\ LineStirred(s[p], q) => LinesStir(s, [s EXCEPT ![p] = q])
         /\ Stirred(s[p], q) => Stirs(s, [s EXCEPT ![p] = q])
         /\ Goes(s[p], q) => AllGo(s, [s EXCEPT ![p] = q])
<1> DEFINE t == [s EXCEPT ![p] = q]
<1>1. t[p] = q /\ \A x \in Ports : x # p => t[x] = s[x]
  BY DEF Loose
<1> HIDE DEF t
<1>2. \A x : LineStirred(x, x) /\ Stirred(x, x) /\ Goes(x, x)
  BY LineStirredSelf DEF LineStirred, Stirred
<1>3. LineStirred(s[p], q) => LinesStir(s, t)
  BY <1>1, <1>2 DEF LinesStir
<1>4. Stirred(s[p], q) => Stirs(s, t)
  BY <1>1, <1>2 DEF Stirs
<1>5. Goes(s[p], q) => AllGo(s, t)
  BY <1>1, <1>2 DEF AllGo
<1> QED
  BY <1>3, <1>4, <1>5 DEF t
-----------------------------------------------------------------------------
LEMMA StatusHoldingStir ==
  ASSUME NEW s \in Loose, NEW p \in Ports
  PROVE  LinesStir(s, SetModemStatusHolding(s, p))
<1> DEFINE c == s[p]
           held == {line \in c.flow.out : line \notin c.modemStatus}
           new == (c.holding \ Lines) \cup held
           resume == /\ new \subseteq {"XON"} /\ ~(c.holding \subseteq {"XON"})
                     /\ \/ c.sendXonXoff # "none"
                        \/ new = {} /\ c.writing > 0
           ask == c.tryWrite \/ resume
           q == [c EXCEPT !.holding = new, !.tryWrite = ask]
<1>1. s \in [Ports -> PortType] /\ c \in PortType
  BY DEF Loose
<1>2. /\ "XON" \in new <=> "XON" \in c.holding
      /\ "BREAK" \in new <=> "BREAK" \in c.holding
  BY <1>1, HoldNames DEF PortType, HandFlows
<1>3. SetModemStatusHolding(s, p) = [s EXCEPT ![p] = q]
  BY <1>1 DEF SetModemStatusHolding
<1> HIDE DEF new
<1>4. /\ c.holding = {} \/ c.holding = {"XON"} \/ ~(c.holding \subseteq {"XON"})
      /\ new = {} => new \subseteq {"XON"}
      /\ c.holding = {} => c.holding \subseteq {"XON"}
  OBVIOUS
<1>5. /\ c.writing > 0 /\ new = {} => ask \/ (c.writing > 0 /\ c.holding = {})
      /\ c.sendXonXoff # "none" /\ new \subseteq {"XON"}
           => ask \/ (c.sendXonXoff # "none" /\ c.holding \subseteq {"XON"})
      /\ c.tryWrite => ask
      /\ c.writing = 0 /\ c.sendXonXoff = "none" => ask = c.tryWrite
  <2>1. c.writing > 0 /\ new = {} => ask \/ (c.writing > 0 /\ c.holding = {})
    BY <1>2, <1>4
  <2>2. c.tryWrite \in BOOLEAN /\ (c.writing = 0 => ~(c.writing > 0))
    BY <1>1 DEF PortType
  <2> QED
    BY <2>1, <2>2
<1> HIDE DEF ask
<1>6. /\ q.isOpen = c.isOpen /\ q.size = c.size /\ q.busy = c.busy
      /\ q.reading = c.reading /\ q.flow = c.flow /\ q.limit = c.limit
      /\ q.tx = c.tx /\ q.writing = c.writing /\ q.sendXonXoff = c.sendXonXoff
      /\ q.sendBreak = c.sendBreak /\ q.holding = new /\ q.tryWrite = ask
  BY <1>1 DEF PortType
<1> HIDE DEF q, c
<1>7. Awake(c, q)
  BY <1>5, <1>6 DEF Awake, Ready, HasData, HasChar
<1>8. LineStirred(c, q)
  BY <1>2, <1>5, <1>6, <1>7
     DEF LineStirred, Stirred, Goes, SameSetting, Sound
<1>9. LinesStir(s, [s EXCEPT ![p] = q])
  BY <1>8, ReplacedStir DEF c
<1> QED
  BY <1>3, <1>9

LEMMA SetStatusStir ==
  ASSUME NEW s \in Loose, NEW p \in Ports,
         NEW bits, bits \subseteq Ins, NEW mask, mask \subseteq Ins
  PROVE  LinesStir(s, SetModemStatus(s, p, bits, mask))
<1> DEFINE new == (s[p].modemStatus \ mask) \cup (bits \cap mask)
           q == [s[p] EXCEPT !.modemStatus = new]
           u == [s EXCEPT ![p] = q]
<1>1. CASE new = s[p].modemStatus
  BY <1>1, LinesStirSelf DEF SetModemStatus
<1>2. CASE new # s[p].modemStatus
  <2>1. s \in [Ports -> PortType] /\ s[p] \in PortType /\ Fit(s[p])
    BY DEF Loose
  <2>2. SetModemStatus(s, p, bits, mask) = SetModemStatusHolding(u, p)
    <3>1. [s EXCEPT ![p].modemStatus = new] = u
      BY <2>1
    <3> QED
      BY <1>2, <3>1 DEF SetModemStatus
  <2>3. new \in SUBSET Ins
    BY <2>1 DEF PortType
  <2> HIDE DEF new
  <2>4. /\ q \in PortType /\ Fit(q)
        /\ q.isOpen = s[p].isOpen /\ q.size = s[p].size /\ q.busy = s[p].busy
        /\ q.reading = s[p].reading /\ q.flow = s[p].flow
        /\ q.limit = s[p].limit /\ q.tx = s[p].tx
        /\ q.writing = s[p].writing /\ q.sendXonXoff = s[p].sendXonXoff
        /\ q.sendBreak = s[p].sendBreak /\ q.holding = s[p].holding
        /\ q.tryWrite = s[p].tryWrite
    BY <2>1, <2>3 DEF PortType, Fit
  <2> HIDE DEF q
  <2>5. Awake(s[p], q)
    BY <2>4 DEF Awake, Ready, HasData, HasChar
  <2>6. LineStirred(s[p], q)
    BY <2>4, <2>5 DEF LineStirred, Stirred, Goes, SameSetting, Sound
  <2>7. u \in Loose /\ LinesStir(s, u)
    BY <2>4, <2>6, ReplacedLoose, ReplacedStir
  <2> HIDE DEF u
  <2> QED
    BY <2>2, <2>7, StatusHoldingStir, LinesStirTwice
<1> QED
  BY <1>1, <1>2

LEMMA SetControlStir ==
  ASSUME NEW s \in Loose, NEW p \in Ports,
         NEW bits, NEW mask, mask \subseteq Outs
  PROVE  LinesStir(s, SetModemControl(s, p, bits, mask))
<1> DEFINE r == Remote(p)
           old == s[p].modemControl
           new == (old \ mask) \cup (bits \cap mask)
           changed == (old \ new) \cup (new \ old)
           q == [s[p] EXCEPT !.modemControl = new]
           set == [s EXCEPT ![p] = q]
           RPins == UNION {PinOuts(p, out, "remote") : out \in changed}
           LPins == UNION {PinOuts(p, out, "local") : out \in changed}
           RHigh == {in \in RPins : Signal(set, r, in)}
           LHigh == {in \in LPins : Signal(set, p, in)}
           far == SetModemStatus(set, r, RHigh, RPins)
           t == SetModemStatus(far, p, LHigh, LPins)
<1>1. s \in [Ports -> PortType] /\ s[p] \in PortType /\ Fit(s[p]) /\ r \in Ports
  BY RemotePort DEF Loose
<1>2. SetModemControl(s, p, bits, mask) = t
  <2>1. [s EXCEPT ![p].modemControl = new] = set
    BY <1>1
  <2> QED
    BY <2>1 DEF SetModemControl
<1>3. new \in SUBSET Outs
  BY <1>1 DEF PortType
<1>4. RPins \subseteq Ins /\ LPins \subseteq Ins
  BY DEF PinOuts
<1>5. RHigh \subseteq Ins /\ LHigh \subseteq Ins
  BY <1>4
<1> HIDE DEF RHigh, LHigh, RPins, LPins, changed, new
<1>6. /\ q \in PortType /\ Fit(q)
      /\ q.isOpen = s[p].isOpen /\ q.size = s[p].size /\ q.busy = s[p].busy
      /\ q.reading = s[p].reading /\ q.flow = s[p].flow
      /\ q.limit = s[p].limit /\ q.tx = s[p].tx
      /\ q.writing = s[p].writing /\ q.sendXonXoff = s[p].sendXonXoff
      /\ q.sendBreak = s[p].sendBreak /\ q.holding = s[p].holding
      /\ q.tryWrite = s[p].tryWrite
  BY <1>1, <1>3 DEF PortType, Fit
<1> HIDE DEF q
<1>7. Awake(s[p], q)
  BY <1>6 DEF Awake, Ready, HasData, HasChar
<1>8. LineStirred(s[p], q)
  BY <1>6, <1>7 DEF LineStirred, Stirred, Goes, SameSetting, Sound
<1>9. set \in Loose /\ LinesStir(s, set)
  BY <1>6, <1>8, ReplacedLoose, ReplacedStir
<1> HIDE DEF set
<1>10. StatusSet(set, far, r, RHigh, RPins) /\ LinesStir(set, far)
  BY <1>1, <1>4, <1>5, <1>9, SetStatus, SetStatusStir
<1> HIDE DEF far
<1>11. far \in Loose
  BY <1>10 DEF StatusSet
<1>12. LinesStir(far, t)
  BY <1>4, <1>5, <1>11, SetStatusStir
<1> HIDE DEF t
<1> QED
  BY <1>2, <1>9, <1>10, <1>12, LinesStirTwice

LEMMA ToggleStir ==
  ASSUME NEW s \in States, NEW p \in Ports
  PROVE  LinesStir(s, UpdateTransmitToggle(s, p))
<1>1. {"RTS"} \subseteq Outs
  BY DEF Outs
<1>2. CASE s[p].flow.rts # "toggle"
  BY <1>2, LinesStirSelf DEF UpdateTransmitToggle
<1>3. CASE s[p].flow.rts = "toggle"
  <2>1. PICK bits : UpdateTransmitToggle(s, p) =
                      SetModemControl(s, p, bits, {"RTS"})
    BY <1>3 DEF UpdateTransmitToggle
  <2> QED
    BY <1>1, <2>1, SetControlStir, Looser
<1> QED
  BY <1>2, <1>3
-----------------------------------------------------------------------------
(* XON or XOFF arrived, or was set by hand.                                *)
LEMMA XonXoffStir ==
  ASSUME NEW s \in States, NEW p \in Ports, NEW char
  PROVE  LET t == SetXonXoffHolding(s, p, char)
         IN  Stirred(s[p], t[p]) /\ \A x \in Ports : x # p => t[x] = s[x]
<1> DEFINE t == SetXonXoffHolding(s, p, char)
           c == s[p]
<1>1. s \in [Ports -> PortType] /\ c \in PortType
  BY DEF States
<1>2. CASE char = "on" /\ "XON" \in c.holding
  <2> DEFINE h == c.holding \ {"XON"}
             y == c.tryWrite \/ (c.holding = {"XON"} /\ c.writing > 0)
             q == [c EXCEPT !.holding = h, !.tryWrite = y]
  <2>1. t = [s EXCEPT ![p] = q]
    BY <1>1, <1>2 DEF SetXonXoffHolding
  <2>2. q.isOpen = c.isOpen /\ q.size = c.size /\ q.busy = c.busy
        /\ q.reading = c.reading /\ q.flow = c.flow /\ q.limit = c.limit
        /\ q.tx = c.tx /\ q.writing = c.writing /\ q.sendXonXoff = c.sendXonXoff
        /\ q.sendBreak = c.sendBreak /\ q.holding = h /\ q.tryWrite = y
    BY <1>1 DEF PortType
  <2>3. /\ "BREAK" \in h <=> "BREAK" \in c.holding
        /\ h = {} => c.holding = {"XON"}
        /\ h \subseteq {"XON"} => c.holding \subseteq {"XON"}
    BY <1>2
  <2> HIDE DEF q, h
  <2>4. Awake(c, q)
    BY <2>2, <2>3 DEF Awake, Ready, HasData, HasChar
  <2>5. Stirred(c, q)
    BY <2>2, <2>3, <2>4 DEF Stirred, Goes, SameSetting, Sound
  <2> QED
    BY <1>1, <2>1, <2>5
<1>3. CASE char = "off"
  <2> DEFINE h == c.holding \cup {"XON"}
             q == [c EXCEPT !.holding = h]
  <2>1. t = [s EXCEPT ![p] = q]
    BY <1>1, <1>3 DEF SetXonXoffHolding
  <2>2. q.isOpen = c.isOpen /\ q.size = c.size /\ q.busy = c.busy
        /\ q.reading = c.reading /\ q.flow = c.flow /\ q.limit = c.limit
        /\ q.tx = c.tx /\ q.writing = c.writing /\ q.sendXonXoff = c.sendXonXoff
        /\ q.sendBreak = c.sendBreak /\ q.holding = h /\ q.tryWrite = c.tryWrite
    BY <1>1 DEF PortType
  <2>3. /\ "BREAK" \in h <=> "BREAK" \in c.holding
        /\ h # {}
        /\ h \subseteq {"XON"} => c.holding \subseteq {"XON"}
    OBVIOUS
  <2> HIDE DEF q, h
  <2>4. Awake(c, q)
    BY <2>2, <2>3 DEF Awake, Ready, HasData, HasChar
  <2>5. Stirred(c, q)
    BY <2>2, <2>3, <2>4 DEF Stirred, Goes, SameSetting, Sound
  <2> QED
    BY <1>1, <2>1, <2>5
<1>4. CASE char # "off" /\ ~(char = "on" /\ "XON" \in c.holding)
  <2>1. t = s
    BY <1>4 DEF SetXonXoffHolding
  <2> QED
    BY <2>1, LineStirredSelf DEF LineStirred
<1> QED
  BY <1>2, <1>3, <1>4
-----------------------------------------------------------------------------
(* What characters that arrive at q may do to it.                          *)
Woken(q, r) ==
  /\ SameSetting(q, r)
  /\ Sound(q) => Sound(r)
  /\ Awake(q, r)

(* A place that is full stays so.                                          *)
Less(q, r) ==
  /\ q.reading = 0 => r.reading = 0
  /\ Full(q) => Full(r)

(* Characters went from w to the other port.                               *)
Runs(s, t, w) ==
  /\ SameSetting(s[w], t[w])
  /\ Sound(s[w]) => Sound(t[w])
  /\ t[w].busy = s[w].busy /\ t[w].reading = s[w].reading
  /\ Woken(s[Remote(w)], t[Remote(w)])

LEMMA RunsTwice ==
  ASSUME NEW s, NEW t, NEW u, NEW w, Runs(s, t, w), Runs(t, u, w)
  PROVE  Runs(s, u, w)
BY AwakeTwice DEF Runs, Woken, SameSetting

LEMMA RunsSelf == \A s, w : Runs(s, s, w)
BY AwakeSelf DEF Runs, Woken, SameSetting

LEMMA LessTwice ==
  ASSUME NEW q, NEW r, NEW u, Less(q, r), Less(r, u)
  PROVE  Less(q, u)
BY DEF Less

(* The sender when n characters arrived: a break is sent with the first.   *)
BreakLeft(q, n) == [q EXCEPT !.sendBreak = @ /\ (n = 0)]

LEMMA ArriveRuns ==
  ASSUME NEW s \in States, NEW w \in Ports, NEW chars \in Seq(Chars),
         NEW place \in {"reading", "busy"}
  PROVE  LET a == Arrive(s, w, chars, place)
             r == Remote(w)
         IN  /\ a.n \in 0 .. Len(chars)
             /\ a.s[w] = BreakLeft(s[w], a.n)
             /\ Woken(s[r], a.s[r]) /\ Less(s[r], a.s[r])
             /\ a.n < Len(chars) => RoomAt(a.s[r], place) <= 0
             /\ a.n = 0 => a.s[r].busy = s[r].busy
             /\ place = "busy" => a.s[r].reading = s[r].reading
<1> DEFINE r    == Remote(w)
           q    == s[r]
           line == OnLine(s[w], chars)
           room == IF place = "reading" THEN q.reading ELSE q.limit - q.busy
           n    == Taken(q, line, room)
           went == SubSeq(line, 1, n)
           got  == Kept(q, went)
           last == LastXonXoff(q, went)
           reading == IF place = "reading" THEN q.reading - got ELSE q.reading
           busy == IF place = "busy" THEN q.busy + got ELSE q.busy
           q1   == [s[w] EXCEPT !.sendBreak = @ /\ (n = 0)]
           q2   == [q EXCEPT !.reading = reading, !.busy = busy]
           s1   == [s EXCEPT ![w] = q1]
           sent == [s1 EXCEPT ![r] = q2]
           t    == SetXonXoffHolding(sent, r, last)
<1>1. /\ s \in [Ports -> PortType] /\ r \in Ports /\ r # w
      /\ s[w] \in PortType /\ q \in PortType
      /\ q.reading \in Nat /\ q.busy \in 0 .. BufSize /\ q.limit \in 0 .. BufSize
      /\ Good(s[w]) /\ Good(q) /\ q.busy \in Int /\ q.limit \in Int
  BY RemotePort, HandFlowAssumption DEF States, PortType
<1>2. room \in Int
  BY <1>1
<1>3. line \in Seq(OnWire) /\ Len(line) = Len(chars) /\ Len(chars) \in Nat
  BY OnLineChars, LenProperties
<1>4. /\ n \in 0 .. Len(line)
      /\ room <= 0 => n = 0
      /\ room > 0 => got <= room
      /\ n < Len(line) => got >= room
  BY <1>2, <1>3, TakenFits
<1>5. got \in 0 .. n
  BY <1>3, <1>4, KeptPrefix
<1>6. Arrive(s, w, chars, place) = [n |-> n, s |-> t]
  <2>1. sent = [s EXCEPT ![w].sendBreak = @ /\ (n = 0),
                         ![r].reading = IF place = "reading"
                                          THEN @ - got ELSE @,
                         ![r].busy = IF place = "busy" THEN @ + got ELSE @]
    BY <1>1
  <2> QED
    BY <2>1 DEF Arrive
<1>7. n \in Nat
  BY <1>3, <1>4
<1> HIDE DEF line, n, got, last, room
<1>8. /\ reading \in Nat /\ busy \in 0 .. BufSize
      /\ q.reading = 0 => reading = 0
      /\ q.reading = 0 /\ q.busy >= q.limit => reading = 0 /\ busy >= q.limit
      /\ n = 0 => busy = q.busy
      /\ place = "busy" => reading = q.reading
      /\ n < Len(chars) =>
           (IF place = "reading" THEN reading ELSE q.limit - busy) <= 0
      /\ ~q.isOpen => busy = 0 /\ reading = 0
  <2>1. got \in Nat /\ (n = 0 => got = 0)
        /\ (room <= 0 => got = 0) /\ (room > 0 => got <= room)
    BY <1>4, <1>5, <1>7
  <2>2. BufSize \in Nat
    BY HandFlowAssumption
  <2>3. ~q.isOpen => q.busy = 0 /\ q.reading = 0 /\ q.limit = 0
    BY <1>1 DEF Good
  <2> DEFINE b == q.busy
             l == q.limit
             d == q.reading
  <2>4. /\ b \in 0 .. BufSize /\ l \in 0 .. BufSize /\ d \in Nat
        /\ ~q.isOpen => b = 0 /\ l = 0 /\ d = 0
    BY <1>1, <2>3
  <2>5. /\ reading = IF place = "reading" THEN d - got ELSE d
        /\ busy = IF place = "busy" THEN b + got ELSE b
        /\ room = IF place = "reading" THEN d ELSE l - b
    BY DEF room
  <2> HIDE DEF reading, busy, b, l, d
  <2>6. /\ reading \in Nat /\ busy \in 0 .. BufSize
        /\ d = 0 => reading = 0
        /\ d = 0 /\ b >= l => reading = 0 /\ busy >= l
        /\ n = 0 => busy = b
        /\ place = "busy" => reading = d
        /\ n < Len(chars) =>
             (IF place = "reading" THEN reading ELSE l - busy) <= 0
        /\ b = 0 /\ l = 0 /\ d = 0 => busy = 0 /\ reading = 0
    <3>1. CASE place = "reading"
      BY <1>3, <1>4, <2>1, <2>2, <2>4, <2>5, <3>1
    <3>2. CASE place = "busy"
      BY <1>3, <1>4, <2>1, <2>2, <2>4, <2>5, <3>2
    <3> QED
      BY <3>1, <3>2
  <2> QED
    BY <2>4, <2>6 DEF b, l, d
<1> HIDE DEF reading, busy
<1>9. /\ q2 \in PortType /\ Good(q2)
      /\ q2.isOpen = q.isOpen /\ q2.size = q.size /\ q2.flow = q.flow
      /\ q2.limit = q.limit /\ q2.tx = q.tx /\ q2.writing = q.writing
      /\ q2.sendXonXoff = q.sendXonXoff /\ q2.sendBreak = q.sendBreak
      /\ q2.holding = q.holding /\ q2.tryWrite = q.tryWrite
      /\ q2.reading = reading /\ q2.busy = busy
  BY <1>1, <1>8 DEF PortType, Good, Fit
<1>10. q1 \in PortType /\ Good(q1)
  BY <1>1 DEF PortType, Good, Fit
<1> HIDE DEF q1, q2
<1>11. s1 \in States
  BY <1>10, Replaced
<1>12. sent[w] = q1 /\ sent[r] = q2
  BY <1>1
<1> HIDE DEF s1
<1>13. sent \in States
  BY <1>1, <1>9, <1>11, Replaced
<1> HIDE DEF sent
<1>14. Stirred(q2, t[r]) /\ t[w] = q1
  BY <1>1, <1>12, <1>13, XonXoffStir
<1> HIDE DEF t
<1>15. Awake(q, q2)
  BY <1>9 DEF Awake, Ready, HasData, HasChar
<1>16. Woken(q, t[r])
  <2>1. Awake(q, t[r])
    BY <1>14, <1>15, AwakeTwice DEF Stirred, Goes
  <2>2. SameSetting(q, t[r])
    BY <1>9, <1>14 DEF Stirred, SameSetting
  <2>3. Sound(q) => Sound(t[r])
    BY <1>9, <1>14 DEF Stirred, Goes, Sound
  <2> QED
    BY <2>1, <2>2, <2>3 DEF Woken
<1>17. t[r].reading = reading /\ t[r].busy = busy /\ t[r].limit = q.limit
  BY <1>9, <1>14 DEF Stirred, Goes, SameSetting
<1>18. Less(q, t[r])
  BY <1>8, <1>17 DEF Less, Full
<1>19. n < Len(chars) => RoomAt(t[r], place) <= 0
  BY <1>8, <1>17 DEF RoomAt
<1> QED
  BY <1>3, <1>4, <1>6, <1>8, <1>14, <1>16, <1>17, <1>18, <1>19 DEF q1, BreakLeft

LEMMA FromTxRuns ==
  ASSUME NEW s \in States, NEW w \in Ports, NEW place \in {"reading", "busy"}
  PROVE  LET t == FromTx(s, w, place)
         IN  /\ Runs(s, t, w) /\ Clear(t, w, place)
             /\ place = "busy" =>
                  t[Remote(w)].reading = s[Remote(w)].reading
<1> DEFINE r == Remote(w)
           c == s[w]
           a == Arrive(s, w, c.tx, place)
           u == a.s
           n == a.n
           tx == SubSeq(u[w].tx, n + 1, Len(u[w].tx))
           q == [u[w] EXCEPT !.tx = tx]
           t == [u EXCEPT ![w] = q]
<1>1. /\ s \in [Ports -> PortType] /\ c \in PortType /\ r \in Ports /\ r # w
      /\ c.tx \in Seq(Chars) /\ Len(c.tx) \in Nat
  BY RemotePort, LenProperties DEF States, PortType, Chars
<1>2. /\ n \in 0 .. Len(c.tx)
      /\ u[w] = BreakLeft(c, n)
      /\ Woken(s[r], u[r])
      /\ n < Len(c.tx) => RoomAt(u[r], place) <= 0
      /\ place = "busy" => u[r].reading = s[r].reading
  BY <1>1, ArriveRuns
<1>3. u \in [Ports -> PortType]
  BY <1>1, Arrives DEF States
<1>4. FromTx(s, w, place) = t
  BY <1>3 DEF FromTx
<1> HIDE DEF a, u, n
<1>5. /\ u[w].tx = c.tx /\ u[w].isOpen = c.isOpen /\ u[w].size = c.size
      /\ u[w].flow = c.flow /\ u[w].limit = c.limit /\ u[w].busy = c.busy
      /\ u[w].reading = c.reading /\ u[w].writing = c.writing
      /\ u[w].holding = c.holding /\ (u[w].sendBreak => c.sendBreak)
  BY <1>1, <1>2 DEF PortType, BreakLeft
<1>6. tx = SubSeq(c.tx, n + 1, Len(c.tx))
  BY <1>5
<1> HIDE DEF tx
<1>7. /\ q.tx = tx /\ q.isOpen = c.isOpen /\ q.size = c.size
      /\ q.flow = c.flow /\ q.limit = c.limit /\ q.busy = c.busy
      /\ q.reading = c.reading /\ q.writing = c.writing
      /\ q.holding = c.holding /\ (q.sendBreak => c.sendBreak)
  BY <1>3, <1>5 DEF PortType
<1>8. t[w] = q /\ t[r] = u[r]
  BY <1>1, <1>3
<1> HIDE DEF q, t, c
<1>9. SameSetting(c, q) /\ (Sound(c) => Sound(q))
  BY <1>7 DEF SameSetting, Sound
<1>10. Runs(s, t, w)
  BY <1>2, <1>7, <1>8, <1>9 DEF Runs, c
<1>11. Clear(t, w, place)
  <2>1. CASE n < Len(c.tx)
    BY <1>2, <1>8, <2>1 DEF Clear
  <2>2. CASE n = Len(c.tx)
    <3>1. \A i \in n + 1 .. Len(c.tx) : c.tx[i] \in Chars
      BY <1>1, <2>2
    <3>2. Len(tx) = 0 /\ tx \in Seq(Chars)
      BY <1>1, <1>2, <1>6, <2>2, <3>1, SubSeqProperties
    <3>3. tx = <<>>
      BY <3>2, EmptySeq
    <3> QED
      BY <1>7, <1>8, <3>3 DEF Clear
  <2> QED
    BY <1>1, <1>2, <2>1, <2>2
<1> QED
  BY <1>2, <1>4, <1>8, <1>10, <1>11

LEMMA FromBufferRuns ==
  ASSUME NEW s \in States, NEW w \in Ports
  PROVE  Runs(s, FromBuffer(s, Remote(w)), w)
<1> DEFINE r == Remote(w)
           c == s[r]
           n == Least(c.busy, c.reading)
           q == [c EXCEPT !.busy = @ - n, !.reading = @ - n]
           t == [s EXCEPT ![r] = q]
<1>1. /\ s \in [Ports -> PortType] /\ c \in PortType /\ r \in Ports /\ r # w
  BY RemotePort DEF States
<1>2. FromBuffer(s, r) = t
  BY <1>1 DEF FromBuffer
<1> HIDE DEF n
<1>3. /\ q.isOpen = c.isOpen /\ q.size = c.size /\ q.flow = c.flow
      /\ q.limit = c.limit /\ q.tx = c.tx /\ q.writing = c.writing
      /\ q.sendXonXoff = c.sendXonXoff /\ q.sendBreak = c.sendBreak
      /\ q.holding = c.holding /\ q.tryWrite = c.tryWrite
  BY <1>1 DEF PortType
<1>4. t[w] = s[w] /\ t[r] = q
  BY <1>1
<1> HIDE DEF q, t, c
<1>5. Awake(c, q)
  BY <1>3 DEF Awake, Ready, HasData, HasChar
<1>6. Woken(c, q)
  BY <1>3, <1>5 DEF Woken, SameSetting, Sound
<1>7. Runs(s, t, w)
  BY <1>4, <1>6 DEF Runs, SameSetting, c
<1> QED
  BY <1>2, <1>7

(* ToTx adds to txBuf and to nothing else.                                 *)
LEMMA ToTxAdds ==
  ASSUME NEW s \in States, NEW w \in Ports, NEW chars \in Seq(Chars)
  PROVE  LET b == ToTx(s, w, chars)
         IN  /\ b.n \in 0 .. Len(chars)
             /\ b.s[Remote(w)] = s[Remote(w)]
             /\ \E tx : b.s[w] = [s[w] EXCEPT !.tx = tx]
<1> DEFINE b == ToTx(s, w, chars)
           n == Least(Len(chars), TxSize - 1)
           tx == s[w].tx \o SubSeq(chars, 1, n)
           t == [s EXCEPT ![w] = [s[w] EXCEPT !.tx = tx]]
<1>1. /\ s \in [Ports -> PortType] /\ s[w] \in PortType /\ Remote(w) \in Ports
      /\ Remote(w) # w /\ s[w] = [s[w] EXCEPT !.tx = s[w].tx]
  BY RemotePort DEF States, PortType
<1>2. b.n \in 0 .. Len(chars)
  BY ToTxKeeps
<1>3. CASE Len(s[w].tx) > 1
  <2>1. b.s = s
    BY <1>3 DEF ToTx
  <2> QED
    BY <1>1, <1>2, <2>1
<1>4. CASE ~(Len(s[w].tx) > 1)
  <2>1. b.s = t
    BY <1>1, <1>4 DEF ToTx
  <2> HIDE DEF b, tx
  <2>2. b.s[Remote(w)] = s[Remote(w)] /\ b.s[w] = [s[w] EXCEPT !.tx = tx]
    BY <1>1, <2>1
  <2> QED
    BY <1>2, <2>2 DEF b
<1> QED
  BY <1>3, <1>4
-----------------------------------------------------------------------------
(* What txBuf holds waits for room.                                        *)
TxWaits(s, w) == s[w].tx # <<>> => Full(s[Remote(w)])

At(q, place) == q.reading = 0 /\ (place = "busy" => q.busy >= q.limit)

(* One record of the sender follows another.                               *)
SameEnd(q, r) ==
  /\ r.isOpen = q.isOpen /\ r.size = q.size /\ r.flow = q.flow
  /\ r.limit = q.limit /\ r.busy = q.busy /\ r.reading = q.reading
  /\ r.holding = q.holding /\ (r.sendBreak => q.sendBreak)

LEMMA SenderRuns ==
  ASSUME NEW s, NEW t, NEW w, SameEnd(s[w], t[w]),
         s[w].isOpen \/ t[w].writing = s[w].writing,
         Woken(s[Remote(w)], t[Remote(w)])
  PROVE  Runs(s, t, w)
<1> DEFINE q == s[w]
           r == t[w]
<1>1. SameEnd(q, r) /\ (q.isOpen \/ r.writing = q.writing)
  OBVIOUS
<1> HIDE DEF q, r
<1>2. SameSetting(q, r) /\ r.busy = q.busy /\ r.reading = q.reading
      /\ (Sound(q) => Sound(r))
  BY <1>1 DEF SameEnd, SameSetting, Sound
<1> QED
  BY <1>2 DEF Runs, q, r

LEMMA SendCharRuns ==
  ASSUME NEW s \in States, NEW w \in Ports, NEW place \in {"reading", "busy"},
         Sound(s[w]), TxWaits(s, w),
         place = "busy" /\ HasChar(s[w]) => s[Remote(w)].reading = 0
  PROVE  LET t == SendChar(s, w, place)
         IN  /\ Runs(s, t, w) /\ TxWaits(t, w)
             /\ Less(s[Remote(w)], t[Remote(w)])
             /\ HasChar(t[w]) => At(t[Remote(w)], place)
             /\ HasData(t[w]) <=> HasData(s[w])
<1> DEFINE r == Remote(w)
           c == s[w]
           char == <<c.sendXonXoff>>
           a == Arrive(s, w, char, place)
           b == IF place = "busy" /\ a.n = 0 THEN ToTx(s, w, char) ELSE a
           u == b.s
           next == IF b.n = 1 THEN "none" ELSE u[w].sendXonXoff
           q == [u[w] EXCEPT !.sendXonXoff = next]
           t == [u EXCEPT ![w] = q]
<1>1. /\ s \in [Ports -> PortType] /\ c \in PortType /\ r \in Ports /\ r # w
      /\ c.sendXonXoff \in {"none", "on", "off"}
  BY RemotePort DEF States, PortType
<1>2. CASE c.sendBreak
  <2> DEFINE d == Arrive(s, w, <<"data">>, place)
             v == d.s
  <2>1. SendChar(s, w, place) = v
    BY <1>2 DEF SendChar
  <2>2. <<"data">> \in Seq(Chars)
    BY DEF Chars
  <2>3. /\ v[w] = BreakLeft(c, d.n)
        /\ Woken(s[r], v[r]) /\ Less(s[r], v[r])
    BY <2>2, ArriveRuns
  <2> HIDE DEF d
  <2>4. /\ SameEnd(c, v[w]) /\ v[w].tx = c.tx /\ v[w].writing = c.writing
        /\ v[w].holding = c.holding
    BY <1>1, <2>3 DEF PortType, SameEnd, BreakLeft
  <2> HIDE DEF v
  <2>5. ~HasChar(v[w])
    BY <1>2, <2>4 DEF HasChar, Sound
  <2>6. HasData(v[w]) <=> HasData(c)
    BY <2>4 DEF HasData
  <2>7. TxWaits(v, w)
    BY <2>3, <2>4 DEF TxWaits, Less
  <2>8. Runs(s, v, w)
    BY <2>3, <2>4, SenderRuns
  <2> QED
    BY <2>1, <2>3, <2>5, <2>6, <2>7, <2>8
<1>3. CASE ~c.sendBreak /\ ~HasChar(c)
  <2>1. SendChar(s, w, place) = s
    BY <1>3 DEF SendChar, HasChar
  <2> QED
    BY <1>3, <2>1, RunsSelf DEF Less
<1>4. CASE ~c.sendBreak /\ HasChar(c)
  <2>1. char \in Seq(Chars) /\ Len(char) = 1
    BY <1>1, <1>4 DEF Chars, HasChar
  <2>2. /\ a.n \in 0 .. 1
        /\ a.s[w] = BreakLeft(c, a.n)
        /\ Woken(s[r], a.s[r]) /\ Less(s[r], a.s[r])
        /\ a.n < 1 => RoomAt(a.s[r], place) <= 0
        /\ a.n = 0 => a.s[r].busy = s[r].busy
    BY <2>1, ArriveRuns
  <2>3. a.s \in States
    BY <2>1, Arrives
  <2> DEFINE e == ToTx(s, w, char)
  <2>4. /\ e.n \in 0 .. 1 /\ e.s[r] = s[r]
        /\ \E tx : e.s[w] = [c EXCEPT !.tx = tx]
    BY <2>1, ToTxAdds
  <2>5. e.s \in States
    BY <2>1, ToTxKeeps
  <2>6. SendChar(s, w, place) = t
    <3>1. u \in [Ports -> PortType]
      BY <2>3, <2>5 DEF States
    <3>2. SendChar(s, w, place) =
            [u EXCEPT ![w].sendXonXoff = IF b.n = 1 THEN "none" ELSE @]
      BY <1>4 DEF SendChar, HasChar
    <3> HIDE DEF b, u
    <3> QED
      BY <3>1, <3>2
  <2>7. u \in [Ports -> PortType] /\ u[w] \in PortType
    BY <2>3, <2>5 DEF States
  <2> HIDE DEF a, e
  <2>8. \E tx : /\ SameEnd(c, u[w]) /\ u[w].tx = tx /\ u[w].writing = c.writing
                /\ place = "reading" \/ a.n # 0 => tx = c.tx
    <3>1. CASE place = "busy" /\ a.n = 0
      <4>1. PICK tx : e.s[w] = [c EXCEPT !.tx = tx]
        BY <2>4
      <4>2. u[w] = [c EXCEPT !.tx = tx]
        BY <3>1, <4>1 DEF e
      <4> HIDE DEF u
      <4>3. SameEnd(c, u[w]) /\ u[w].tx = tx /\ u[w].writing = c.writing
        BY <1>1, <4>2 DEF PortType, SameEnd
      <4> QED
        BY <3>1, <4>3
    <3>2. CASE ~(place = "busy" /\ a.n = 0)
      <4>1. u[w] = BreakLeft(c, a.n)
        BY <2>2, <3>2
      <4> HIDE DEF u
      <4>2. SameEnd(c, u[w]) /\ u[w].tx = c.tx /\ u[w].writing = c.writing
        BY <1>1, <4>1 DEF PortType, SameEnd, BreakLeft
      <4> QED
        BY <4>2
    <3> QED
      BY <3>1, <3>2
  <2>9. Woken(s[r], u[r]) /\ Less(s[r], u[r])
    <3>1. CASE place = "busy" /\ a.n = 0
      <4>1. u[r] = s[r]
        BY <2>4, <3>1 DEF e
      <4> QED
        BY <4>1, AwakeSelf DEF Woken, SameSetting, Less
    <3>2. CASE ~(place = "busy" /\ a.n = 0)
      BY <2>2, <3>2
    <3> QED
      BY <3>1, <3>2
  <2>10. /\ place = "busy" /\ a.n = 0 => Full(u[r])
         /\ next = "none" \/ At(u[r], place)
    <3>1. ASSUME place = "busy", a.n = 0 PROVE Full(u[r])
      <4>1. u[r] = s[r]
        BY <2>4, <3>1 DEF e
      <4>2. s[r].reading = 0
        BY <1>4, <3>1
      <4>3. s[r].limit - s[r].busy <= 0
        BY <2>2, <3>1 DEF RoomAt, Woken, SameSetting
      <4>4. s[r].limit \in Int /\ s[r].busy \in Int
        <5>1. s[r] \in PortType /\ BufSize \in Nat
          BY <1>1, HandFlowAssumption
        <5> QED
          BY <5>1 DEF PortType
      <4>5. s[r].busy >= s[r].limit
        BY <4>3, <4>4
      <4> HIDE DEF u
      <4> QED
        BY <4>1, <4>2, <4>5 DEF Full
    <3>2. ASSUME ~(place = "busy" /\ a.n = 0), next # "none"
          PROVE  At(u[r], place)
      <4>1. a.n = 0 /\ place = "reading" /\ u = a.s
        BY <2>2, <3>2
      <4>2. a.s[r].reading <= 0
        BY <2>2, <4>1 DEF RoomAt
      <4>3. a.s[r].reading \in Nat
        BY <1>1, <2>3 DEF States, PortType
      <4> HIDE DEF u
      <4> QED
        BY <4>1, <4>2, <4>3 DEF At
    <3> HIDE DEF u, next
    <3> QED
      BY <3>1, <3>2 DEF Full, At
  <2> HIDE DEF u, next
  <2>11. /\ SameEnd(u[w], q) /\ q.tx = u[w].tx /\ q.writing = u[w].writing
         /\ q.sendXonXoff = next /\ q.holding = u[w].holding
    BY <2>7 DEF PortType, SameEnd
  <2>12. t[w] = q /\ t[r] = u[r]
    BY <1>1, <2>7
  <2> HIDE DEF q, t
  <2>13. SameEnd(c, t[w]) /\ t[w].writing = c.writing
    BY <2>8, <2>11, <2>12 DEF SameEnd
  <2>14. Runs(s, t, w) /\ Less(s[r], t[r])
    BY <2>9, <2>12, <2>13, SenderRuns
  <2>15. TxWaits(t, w)
    <3>1. CASE place = "busy" /\ a.n = 0
      BY <2>10, <2>12, <3>1 DEF TxWaits
    <3>2. CASE ~(place = "busy" /\ a.n = 0)
      <4>1. t[w].tx = c.tx
        BY <2>8, <2>11, <2>12, <3>2
      <4> QED
        BY <2>14, <4>1 DEF TxWaits, Less
    <3> QED
      BY <3>1, <3>2
  <2>16. HasChar(t[w]) => At(t[r], place)
    BY <2>10, <2>11, <2>12 DEF HasChar
  <2>17. HasData(t[w]) <=> HasData(c)
    BY <2>13 DEF HasData, SameEnd
  <2> QED
    BY <2>6, <2>14, <2>15, <2>16, <2>17
<1> QED
  BY <1>2, <1>3, <1>4

LEMMA SendDataRuns ==
  ASSUME NEW s \in States, NEW w \in Ports, NEW place \in {"reading", "busy"},
         TxWaits(s, w), Sound(s[w]),
         place = "busy" /\ HasData(s[w]) => s[Remote(w)].reading = 0
  PROVE  LET t == SendData(s, w, place)
         IN  /\ Runs(s, t, w) /\ TxWaits(t, w)
             /\ Less(s[Remote(w)], t[Remote(w)])
             /\ HasData(t[w]) => At(t[Remote(w)], place)
             /\ HasChar(t[w]) <=> HasChar(s[w])
<1> DEFINE r == Remote(w)
           c == s[w]
           chars(n) == [i \in 1 .. n |-> "data"]
           a    == Arrive(s, w, chars(c.writing), place)
           left == c.writing - a.n
           v    == a.s
           b    == IF place = "busy" /\ left > 0 THEN ToTx(v, w, chars(left))
                   ELSE [n |-> 0, s |-> v]
           u    == b.s
           rest == left - b.n
           q    == [u[w] EXCEPT !.writing = rest]
           t    == [u EXCEPT ![w] = q]
<1>1. /\ s \in [Ports -> PortType] /\ c \in PortType /\ r \in Ports /\ r # w
      /\ c.writing \in Nat
  BY RemotePort DEF States, PortType
<1>2. CASE ~HasData(c)
  <2>1. SendData(s, w, place) = s
    BY <1>1, <1>2 DEF SendData, HasData
  <2> QED
    BY <1>2, <2>1, RunsSelf DEF Less
<1>3. CASE HasData(c)
  <2>1. \A n \in Nat : chars(n) \in Seq(Chars) /\ Len(chars(n)) = n
    <3>1. \A n \in Nat : chars(n) \in [1 .. n -> Chars]
      BY DEF Chars
    <3> QED
      BY <3>1
  <2>2. SendData(s, w, place) = [u EXCEPT ![w].writing = rest]
    BY <1>3 DEF SendData, HasData
  <2> HIDE DEF chars
  <2>3. /\ a.n \in 0 .. c.writing
        /\ v[w] = BreakLeft(c, a.n)
        /\ Woken(s[r], v[r]) /\ Less(s[r], v[r])
        /\ a.n < c.writing => RoomAt(v[r], place) <= 0
        /\ place = "busy" => v[r].reading = s[r].reading
    BY <1>1, <2>1, ArriveRuns
  <2>4. v \in States
    BY <1>1, <2>1, Arrives
  <2> HIDE DEF a
  <2>5. SameEnd(c, v[w]) /\ v[w].tx = c.tx /\ v[w].sendXonXoff = c.sendXonXoff
    BY <1>1, <2>3 DEF PortType, SameEnd, BreakLeft
  <2>6. left \in Nat /\ (left > 0 <=> a.n < c.writing)
    BY <1>1, <2>3
  <2>7. v[r].reading \in Nat /\ v[r].busy \in Int /\ v[r].limit \in Int
    <3>1. v[r] \in PortType /\ BufSize \in Nat
      BY <1>1, <2>4, HandFlowAssumption DEF States
    <3> QED
      BY <3>1 DEF PortType
  <2>8. left > 0 => At(v[r], place)
    <3>1. CASE place = "reading" /\ left > 0
      BY <2>3, <2>6, <2>7, <3>1 DEF RoomAt, At
    <3>2. CASE place = "busy" /\ left > 0
      <4>1. v[r].reading = 0
        BY <1>3, <2>3, <3>2
      <4>2. v[r].limit - v[r].busy <= 0
        BY <2>3, <2>6, <3>2 DEF RoomAt
      <4>3. v[r].busy >= v[r].limit
        BY <2>7, <4>2
      <4> QED
        BY <4>1, <4>3 DEF At
    <3> QED
      BY <3>1, <3>2
  <2> HIDE DEF v
  <2>9. /\ u \in States /\ u[r] = v[r] /\ b.n \in 0 .. left
        /\ SameEnd(c, u[w]) /\ u[w].sendXonXoff = c.sendXonXoff
        /\ u[w].tx = c.tx \/ (place = "busy" /\ left > 0)
    <3> HIDE DEF left
    <3>1. CASE place = "busy" /\ left > 0
      <4> DEFINE e == ToTx(v, w, chars(left))
      <4>1. e.s \in States
        BY <2>1, <2>4, <2>6, ToTxKeeps
      <4>2. /\ e.n \in 0 .. left /\ e.s[r] = v[r]
            /\ \E tx : e.s[w] = [v[w] EXCEPT !.tx = tx]
        BY <2>1, <2>4, <2>6, ToTxAdds
      <4> HIDE DEF e
      <4>3. PICK tx : e.s[w] = [v[w] EXCEPT !.tx = tx]
        BY <4>2
      <4>4. v[w] \in PortType
        BY <2>4 DEF States
      <4>5. SameEnd(v[w], e.s[w]) /\ e.s[w].sendXonXoff = v[w].sendXonXoff
        BY <4>3, <4>4 DEF PortType, SameEnd
      <4>6. SameEnd(c, e.s[w]) /\ e.s[w].sendXonXoff = c.sendXonXoff
        BY <2>5, <4>5 DEF SameEnd
      <4>7. u = e.s /\ b.n = e.n
        BY <3>1 DEF e
      <4> HIDE DEF u, b
      <4> QED
        BY <3>1, <4>1, <4>2, <4>6, <4>7
    <3>2. CASE ~(place = "busy" /\ left > 0)
      <4>1. u = v /\ b.n = 0
        BY <3>2
      <4> HIDE DEF u, b
      <4> QED
        BY <2>4, <2>5, <2>6, <4>1
    <3> QED
      BY <3>1, <3>2
  <2>10. rest \in 0 .. left
    BY <2>6, <2>9
  <2> HIDE DEF u, b, rest
  <2>11. u \in [Ports -> PortType] /\ u[w] \in PortType
    BY <2>9 DEF States
  <2>12. [u EXCEPT ![w].writing = rest] = t
    BY <2>11
  <2>13. /\ SameEnd(u[w], q) /\ q.tx = u[w].tx /\ q.writing = rest
         /\ q.sendXonXoff = u[w].sendXonXoff
    BY <2>11 DEF PortType, SameEnd
  <2>14. t[w] = q /\ t[r] = u[r]
    BY <1>1, <2>11
  <2> HIDE DEF q, t
  <2>15. SameEnd(c, t[w]) /\ t[w].sendXonXoff = c.sendXonXoff
    BY <2>9, <2>13, <2>14 DEF SameEnd
  <2>16. c.isOpen
    <3>1. c.writing # 0
      BY <1>1, <1>3 DEF HasData
    <3> QED
      BY <3>1 DEF Sound
  <2>17. Runs(s, t, w) /\ Less(s[r], t[r])
    BY <2>3, <2>9, <2>14, <2>15, <2>16, SenderRuns
  <2>18. HasData(t[w]) => At(t[r], place)
    <3>1. rest > 0 => left > 0
      BY <2>6, <2>10
    <3> QED
      BY <2>8, <2>9, <2>13, <2>14, <3>1 DEF HasData
  <2>19. TxWaits(t, w)
    <3>1. CASE place = "busy" /\ left > 0
      BY <2>8, <2>9, <2>14, <3>1 DEF TxWaits, At, Full
    <3>2. CASE t[w].tx = c.tx
      BY <2>17, <3>2 DEF TxWaits, Less
    <3> QED
      BY <2>9, <2>13, <2>14, <3>1, <3>2
  <2>20. HasChar(t[w]) <=> HasChar(c)
    BY <2>15 DEF HasChar, SameEnd
  <2> QED
    BY <2>2, <2>12, <2>17, <2>18, <2>19, <2>20
<1> QED
  BY <1>2, <1>3
-----------------------------------------------------------------------------
(* XON and XOFF ask for ReadWrite to be sent, and one that is taken back   *)
(* lets nobody go on who was held by more than it.                         *)
LEMMA XonGoes ==
  ASSUME NEW q \in PortType,
         NEW r \in {HoldXon(q), ReleaseXon(q), SetAutoReceive(q)}
  PROVE  Stirred(q, r)
<1> DEFINE off == IF q.flow.xoffContinue THEN q.holding ELSE q.holding \cup {"XON"}
           on == q.holding \ {"XON"}
           back == [q EXCEPT !.holdingRemote = @ \ {"XON"}, !.holding = on,
                             !.sendXonXoff = "none"]
<1>1. \/ r = q \/ r = HoldXon(q) \/ r = ReleaseXon(q)
      \/ r = back /\ q.sendXonXoff = "off"
  BY DEF SetAutoReceive
<1>2. /\ "BREAK" \in on <=> "BREAK" \in q.holding
      /\ "BREAK" \in off <=> "BREAK" \in q.holding
      /\ on = {} => q.holding \subseteq {"XON"}
  OBVIOUS
<1>3. CASE r = q
  BY <1>3, LineStirredSelf DEF LineStirred
<1>4. CASE r = HoldXon(q)
  <2>1. /\ r.isOpen = q.isOpen /\ r.size = q.size /\ r.busy = q.busy
        /\ r.reading = q.reading /\ r.flow = q.flow /\ r.limit = q.limit
        /\ r.writing = q.writing /\ r.sendBreak = q.sendBreak
        /\ r.holding = off /\ r.tryWrite = TRUE
    BY <1>4 DEF PortType, HoldXon
  <2> HIDE DEF off
  <2> QED
    BY <1>2, <2>1 DEF Stirred, Goes, SameSetting, Sound, Awake
<1>5. CASE r = ReleaseXon(q)
  <2>1. /\ r.isOpen = q.isOpen /\ r.size = q.size /\ r.busy = q.busy
        /\ r.reading = q.reading /\ r.flow = q.flow /\ r.limit = q.limit
        /\ r.writing = q.writing /\ r.sendBreak = q.sendBreak
        /\ r.holding = on /\ r.tryWrite = TRUE
    BY <1>5 DEF PortType, ReleaseXon
  <2> HIDE DEF on
  <2> QED
    BY <1>2, <2>1 DEF Stirred, Goes, SameSetting, Sound, Awake
<1>6. CASE r = back /\ q.sendXonXoff = "off"
  <2>1. /\ r.isOpen = q.isOpen /\ r.size = q.size /\ r.busy = q.busy
        /\ r.reading = q.reading /\ r.flow = q.flow /\ r.limit = q.limit
        /\ r.tx = q.tx /\ r.sendXonXoff = "none"
        /\ r.writing = q.writing /\ r.sendBreak = q.sendBreak
        /\ r.holding = on /\ r.tryWrite = q.tryWrite
    BY <1>6 DEF PortType
  <2> HIDE DEF on, back
  <2>2. Ready(r) => Ready(q)
    BY <1>2, <1>6, <2>1 DEF Ready, HasData, HasChar
  <2> QED
    BY <1>2, <2>1, <2>2 DEF Stirred, Goes, SameSetting, Sound, Awake
<1> QED
  BY <1>1, <1>3, <1>4, <1>5, <1>6

LEMMA UpdateStirs ==
  ASSUME NEW s \in States, NEW p \in Ports, NEW freed \in BOOLEAN,
         s[p].isOpen
  PROVE  Stirs(s, UpdateHandFlow(s, p, freed))
<1> DEFINE q       == s[p]
           outs    == {x[1] : x \in Shaken(q.flow)}
           reasons == {x[2] : x \in Shaken(q.flow)}
           hold    == q.holdingRemote = {} /\ ~freed /\ Crowded(q, q.flow)
           release == q.holdingRemote # {} /\ freed /\ Drained(q, q.flow)
           why     == IF hold THEN q.holdingRemote \cup reasons
                      ELSE q.holdingRemote \ reasons
           q1      == [q EXCEPT !.holdingRemote = why]
           Xon(r)  == IF ~q.flow.autoReceive THEN r
                      ELSE IF hold THEN HoldXon(r) ELSE ReleaseXon(r)
           new     == Xon(q1)
           bits    == IF hold THEN {} ELSE outs
           s1      == [s EXCEPT ![p] = new]
           t       == SetModemControl(s1, p, bits, outs)
<1>1. CASE ~(hold \/ release)
  <2>1. UpdateHandFlow(s, p, freed) = s
    BY <1>1 DEF UpdateHandFlow
  <2> QED
    BY <2>1, LinesStirSelf, LinesStirAll
<1>2. CASE hold \/ release
  <2>1. UpdateHandFlow(s, p, freed) = t
    BY <1>2 DEF UpdateHandFlow
  <2>2. /\ q \in PortType /\ Good(q) /\ q.isOpen
        /\ q.holdingRemote \subseteq {"CTS", "DSR", "XON"}
    BY DEF States, PortType
  <2>3. outs \subseteq {"RTS", "DTR"} /\ reasons \subseteq {"CTS", "DSR"}
    BY ShakenLines
  <2> HIDE DEF outs, reasons, hold, release
  <2>4. why \in SUBSET {"CTS", "DSR", "XON"}
    BY <2>2, <2>3
  <2> HIDE DEF why
  <2>5. /\ q1 \in PortType /\ Good(q1) /\ q1.isOpen
        /\ q1.size = q.size /\ q1.busy = q.busy /\ q1.reading = q.reading
        /\ q1.flow = q.flow /\ q1.limit = q.limit /\ q1.tx = q.tx
        /\ q1.writing = q.writing /\ q1.sendXonXoff = q.sendXonXoff
        /\ q1.sendBreak = q.sendBreak /\ q1.holding = q.holding
        /\ q1.tryWrite = q.tryWrite
    BY <2>2, <2>4 DEF PortType, Good, Fit
  <2> HIDE DEF q1, q
  <2>6. Awake(q, q1)
    BY <2>5 DEF Awake, Ready, HasData, HasChar
  <2>7. Stirred(q, q1)
    BY <2>2, <2>5, <2>6 DEF Stirred, Goes, SameSetting, Sound
  <2>8. new \in PortType /\ Good(new) /\ Stirred(q, new)
    <3>1. new \in {q1, HoldXon(q1), ReleaseXon(q1)}
      OBVIOUS
    <3> HIDE DEF new
    <3>2. CASE new = q1
      BY <2>5, <2>7, <3>2
    <3>3. CASE new \in {HoldXon(q1), ReleaseXon(q1)}
      <4>1. new \in PortType /\ Good(new)
        BY <2>5, <3>3, XonRecords
      <4>2. Stirred(q1, new)
        BY <2>5, <3>3, XonGoes
      <4> QED
        BY <2>7, <4>1, <4>2, StirredTwice
    <3> QED
      BY <3>1, <3>2, <3>3
  <2> HIDE DEF new
  <2>9. s1 \in States /\ Stirs(s, s1)
    BY <2>8, Replaced, ReplacedStir, Looser DEF q
  <2> HIDE DEF s1
  <2>10. outs \subseteq Outs
    BY <2>3 DEF Outs
  <2>11. Stirs(s1, t)
    BY <2>9, <2>10, SetControlStir, LinesStirAll, Looser
  <2> HIDE DEF t
  <2> QED
    BY <2>1, <2>9, <2>11, StirsTwice
<1> QED
  BY <1>1, <1>2

(* After a round of ReadWrite what the writer still has finds no room, and *)
(* the other port goes on being served.                                    *)
Rounded(s, t, w) ==
  /\ \A p \in Ports : SameSetting(s[p], t[p]) /\ (Sound(s[p]) => Sound(t[p]))
  /\ Served(t, w)
  /\ Served(s, Remote(w)) => Served(t, Remote(w))

LEMMA TryReadWriteServes ==
  ASSUME Wired, NEW s \in States, NEW w \in Ports, Sound(s[w])
  PROVE  Rounded(s, TryReadWrite(s, w), w)
<1> DEFINE r   == Remote(w)
           s0  == FromBuffer(s, r)
           s1  == FromTx(s0, w, "reading")
           s2  == IF s1[r].reading > 0 THEN s1 ELSE FromTx(s1, w, "busy")
           s3  == SendChar(s2, w, "reading")
           s4  == SendData(s3, w, "reading")
           s5  == SendChar(s4, w, "busy")
           new == SendData(s5, w, "busy")
           freed == new[r].busy < s[r].busy
           shaken == IF new[r].busy = s[r].busy THEN new
                     ELSE UpdateHandFlow(new, r, freed)
           t   == UpdateTransmitToggle(shaken, w)
<1>1. TryReadWrite(s, w) = t
  BY DEF TryReadWrite, Shake, FromWrite, ToBuffer, ToRead
<1>2. r \in Ports /\ Remote(r) = w
  BY RemotePort
<1>3. s0 \in States /\ Unmoved(s, s0) /\ Runs(s, s0, w)
  BY <1>2, FromBufferKeeps, FromBufferRuns
<1> HIDE DEF s0
<1>4. s1 \in States /\ Unmoved(s, s1) /\ Runs(s, s1, w) /\ Clear(s1, w, "reading")
  <2>1. s1 \in States /\ Unmoved(s0, s1)
    BY <1>3, FromTxKeeps
  <2>2. Runs(s0, s1, w) /\ Clear(s1, w, "reading")
    BY <1>3, FromTxRuns
  <2> QED
    BY <1>3, <2>1, <2>2, UnmovedTwice, RunsTwice
<1> HIDE DEF s1
<1>5. s2 \in States /\ Unmoved(s, s2) /\ Runs(s, s2, w) /\ TxWaits(s2, w)
  <2>1. s1[r].reading \in Nat
    BY <1>2, <1>4 DEF States, PortType
  <2>2. CASE s1[r].reading > 0
    <3>1. s1[w].tx = <<>>
      BY <1>4, <2>1, <2>2 DEF Clear, RoomAt
    <3> QED
      BY <1>4, <2>2, <3>1 DEF TxWaits
  <2>3. CASE ~(s1[r].reading > 0)
    <3> DEFINE u == FromTx(s1, w, "busy")
    <3>1. u \in States /\ Unmoved(s1, u)
      BY <1>4, FromTxKeeps
    <3>2. /\ Runs(s1, u, w) /\ Clear(u, w, "busy")
          /\ u[r].reading = s1[r].reading
      BY <1>4, FromTxRuns
    <3> HIDE DEF u
    <3>3. u[r].limit \in Int /\ u[r].busy \in Int
      <4>1. u[r] \in PortType /\ BufSize \in Nat
        BY <1>2, <3>1, HandFlowAssumption DEF States
      <4> QED
        BY <4>1 DEF PortType
    <3>4. u[w].tx # <<>> => u[r].busy >= u[r].limit
      BY <3>2, <3>3 DEF Clear, RoomAt
    <3>5. TxWaits(u, w)
      BY <2>1, <2>3, <3>2, <3>4 DEF TxWaits, Full
    <3>6. s2 = u
      BY <2>3 DEF u
    <3> QED
      BY <1>4, <3>1, <3>2, <3>5, <3>6, UnmovedTwice, RunsTwice
  <2> QED
    BY <2>2, <2>3
<1> HIDE DEF s2
<1>6. /\ s3 \in States /\ Unmoved(s, s3) /\ Runs(s, s3, w) /\ TxWaits(s3, w)
      /\ HasChar(s3[w]) => s3[r].reading = 0
  <2>1. s3 \in States /\ Unmoved(s2, s3)
    BY <1>5, SendCharKeeps
  <2>2. Sound(s2[w])
    BY <1>5 DEF Runs
  <2>3. /\ Runs(s2, s3, w) /\ TxWaits(s3, w)
        /\ HasChar(s3[w]) => At(s3[r], "reading")
    BY <1>5, <2>2, SendCharRuns
  <2> QED
    BY <1>5, <2>1, <2>3, UnmovedTwice, RunsTwice DEF At
<1> HIDE DEF s3
<1>7. /\ s4 \in States /\ Unmoved(s, s4) /\ Runs(s, s4, w) /\ TxWaits(s4, w)
      /\ HasChar(s4[w]) => s4[r].reading = 0
      /\ HasData(s4[w]) => s4[r].reading = 0
  <2>1. s4 \in States /\ Unmoved(s3, s4)
    BY <1>6, SendDataKeeps
  <2>2. Sound(s3[w])
    BY <1>6 DEF Runs
  <2>3. /\ Runs(s3, s4, w) /\ TxWaits(s4, w) /\ Less(s3[r], s4[r])
        /\ HasData(s4[w]) => At(s4[r], "reading")
        /\ HasChar(s4[w]) <=> HasChar(s3[w])
    BY <1>6, <2>2, SendDataRuns
  <2>4. HasChar(s4[w]) => s4[r].reading = 0
    BY <1>6, <2>3 DEF Less
  <2> QED
    BY <1>6, <2>1, <2>3, <2>4, UnmovedTwice, RunsTwice DEF At
<1> HIDE DEF s4
<1>8. /\ s5 \in States /\ Unmoved(s, s5) /\ Runs(s, s5, w) /\ TxWaits(s5, w)
      /\ HasChar(s5[w]) => Full(s5[r])
      /\ HasData(s5[w]) => s5[r].reading = 0
  <2>1. s5 \in States /\ Unmoved(s4, s5)
    BY <1>7, SendCharKeeps
  <2>2. Sound(s4[w])
    BY <1>7 DEF Runs
  <2>3. /\ Runs(s4, s5, w) /\ TxWaits(s5, w) /\ Less(s4[r], s5[r])
        /\ HasChar(s5[w]) => At(s5[r], "busy")
        /\ HasData(s5[w]) <=> HasData(s4[w])
    BY <1>7, <2>2, SendCharRuns
  <2>4. HasData(s5[w]) => s5[r].reading = 0
    BY <1>7, <2>3 DEF Less
  <2> QED
    BY <1>7, <2>1, <2>3, <2>4, UnmovedTwice, RunsTwice DEF At, Full
<1> HIDE DEF s5
<1>9. /\ new \in States /\ Unmoved(s, new) /\ Runs(s, new, w)
      /\ Ready(new[w]) => Full(new[r])
  <2>1. new \in States /\ Unmoved(s5, new)
    BY <1>8, SendDataKeeps
  <2>2. Sound(s5[w])
    BY <1>8 DEF Runs
  <2>3. /\ Runs(s5, new, w) /\ TxWaits(new, w) /\ Less(s5[r], new[r])
        /\ HasData(new[w]) => At(new[r], "busy")
        /\ HasChar(new[w]) <=> HasChar(s5[w])
    BY <1>8, <2>2, SendDataRuns
  <2>4. HasChar(new[w]) => Full(new[r])
    BY <1>8, <2>3 DEF Less
  <2>5. Ready(new[w]) => Full(new[r])
    BY <2>3, <2>4 DEF Ready, TxWaits, At, Full
  <2> QED
    BY <1>8, <2>1, <2>3, <2>5, UnmovedTwice, RunsTwice
<1> HIDE DEF new
<1>10. new[r].busy # s[r].busy => new[r].isOpen
  BY <1>2, <1>9 DEF States, Good, Fit, Unmoved, Like
<1>11. freed \in BOOLEAN
  OBVIOUS
<1> HIDE DEF freed
<1>12. shaken \in States /\ Stirs(new, shaken)
  <2>1. CASE new[r].busy = s[r].busy
    BY <1>9, <2>1, LinesStirSelf, LinesStirAll
  <2>2. CASE new[r].busy # s[r].busy
    <3> DEFINE u == UpdateHandFlow(new, r, freed)
    <3>1. Steady(new, u) /\ Stirs(new, u)
      BY <1>2, <1>9, <1>10, <1>11, <2>2, UpdateSteady, UpdateStirs
    <3>2. shaken = u
      BY <2>2
    <3> HIDE DEF u, shaken
    <3> QED
      BY <3>1, <3>2 DEF Steady
  <2> QED
    BY <2>1, <2>2
<1> HIDE DEF shaken
<1>13. Stirs(new, t)
  <2>1. Stirs(shaken, t)
    BY <1>12, ToggleStir, LinesStirAll
  <2> QED
    BY <1>12, <2>1, StirsTwice
<1> HIDE DEF t
<1>14. Served(t, w)
  <2>1. Served(new, w)
    BY <1>9 DEF Served
  <2> QED
    BY <1>13, <2>1, StirsServed
<1>15. Served(s, r) => Served(t, r)
  <2>1. Awake(s[r], new[r])
    BY <1>9 DEF Runs, Woken
  <2>2. Full(s[Remote(r)]) => Full(new[Remote(r)])
    BY <1>2, <1>9 DEF Runs, SameSetting, Full
  <2>3. Served(s, r) => Served(new, r)
    BY <2>1, <2>2, ServedKept
  <2> QED
    BY <1>2, <1>13, <2>3, StirsServed
<1>16. ASSUME NEW p \in Ports
       PROVE  SameSetting(s[p], t[p]) /\ (Sound(s[p]) => Sound(t[p]))
  <2>1. SameSetting(s[p], new[p]) /\ (Sound(s[p]) => Sound(new[p]))
    BY <1>9, RemotePort DEF Runs, Woken
  <2>2. SameSetting(new[p], t[p]) /\ (Sound(new[p]) => Sound(t[p]))
    BY <1>13 DEF Stirs, Stirred, Goes
  <2> QED
    BY <2>1, <2>2 DEF SameSetting
<1> QED
  BY <1>1, <1>14, <1>15, <1>16 DEF Rounded
-----------------------------------------------------------------------------
(* The limit of readBuf of q, whose other end is r.                        *)
LimitFor(q, r) ==
  LET shakes == \/ q.flow.rts = "handshake" /\ "CTS" \in r.flow.out
                \/ /\ q.flow.dtr = "handshake"
                   /\ r.flow.out \cap {"DSR", "DCD"} # {}
  IN  IF shakes /\ q.size > 0
        THEN Least(q.size, q.size - q.flow.xoffLimit + 1) ELSE q.size

Limited(s, p) == s[p].limit = LimitFor(s[p], s[Remote(p)])

LEMMA LimitForSame ==
  ASSUME NEW q, NEW r, NEW q1, NEW r1, q1.flow = q.flow, q1.size = q.size,
         r1.flow.out = r.flow.out
  PROVE  LimitFor(q1, r1) = LimitFor(q, r)
BY DEF LimitFor

LEMMA LimitSet ==
  ASSUME NEW s \in States, NEW p \in Ports
  PROVE  LET t == SetLimit(s, p)
         IN  /\ AllGo(s, t) /\ t[p].limit = LimitFor(s[p], s[Remote(p)])
             /\ t[p].flow = s[p].flow
             /\ \A x \in Ports : x # p => t[x] = s[x]
<1> DEFINE c == s[p]
           limit == LimitFor(c, s[Remote(p)])
           q == [c EXCEPT !.limit = limit]
           t == [s EXCEPT ![p] = q]
<1>1. s \in [Ports -> PortType] /\ c \in PortType
  BY DEF States
<1>2. SetLimit(s, p) = t
  BY <1>1 DEF SetLimit, LimitFor
<1> HIDE DEF limit
<1>3. /\ q.isOpen = c.isOpen /\ q.size = c.size /\ q.busy = c.busy
      /\ q.reading = c.reading /\ q.flow = c.flow /\ q.tx = c.tx
      /\ q.writing = c.writing /\ q.sendXonXoff = c.sendXonXoff
      /\ q.sendBreak = c.sendBreak /\ q.holding = c.holding
      /\ q.tryWrite = c.tryWrite /\ q.limit = limit
  BY <1>1 DEF PortType
<1>4. t[p] = q /\ \A x \in Ports : x # p => t[x] = s[x]
  BY <1>1
<1> HIDE DEF q, c
<1>5. Awake(c, q)
  BY <1>3 DEF Awake, Ready, HasData, HasChar
<1>6. Goes(c, q)
  BY <1>3, <1>5 DEF Goes, Sound
<1>7. AllGo(s, t)
  BY <1>6, ReplacedStir, Looser DEF c
<1> HIDE DEF t
<1> QED
  BY <1>2, <1>3, <1>4, <1>7 DEF limit, c

(* What SetHandFlow does about the rest.                                   *)
HandFlowGoes(s, t) ==
  AllGo(s, t) /\ \A x \in Ports : Limited(t, x)

LEMMA SetHandFlowGoes ==
  ASSUME Wired, NEW s \in States, NEW p \in Ports, s[p].isOpen,
         NEW flow \in HandFlows, flow.xoffLimit <= BufSize, NEW all \in BOOLEAN,
         all => s[p].writing = 0
  PROVE  HandFlowGoes(s, SetHandFlow(s, p, flow, all))
<1> DEFINE old  == s[p].flow
           r    == Remote(p)
           s1   == IF all THEN [s EXCEPT ![p].holding = @ \ {"XON"}]
                   ELSE IF old.autoTransmit /\ ~flow.autoTransmit
                     THEN SetXonXoffHolding(s, p, "on") ELSE s
           q    == s1[p]
           lines == Changed(old, flow, all)
           reasons == Reasons(q, flow, lines)
           mask == Moved(q, flow, lines)
           bits == Raised(q, flow, lines)
           q1   == [q EXCEPT !.holdingRemote = reasons, !.flow = flow]
           q2   == IF all \/ old.autoReceive # flow.autoReceive
                     THEN SetAutoReceive(q1) ELSE q1
           s2   == [s1 EXCEPT ![p] = q2]
           held == all \/ old.out # flow.out
           s3   == IF held THEN SetModemStatusHolding(s2, p) ELSE s2
           s4   == SetModemControl(s3, p, bits, mask)
           s5   == UpdateTransmitToggle(s4, p)
           s6   == SetLimit(s5, r)
           t    == SetLimit(s6, p)
<1>1. SetHandFlow(s, p, flow, all) = t
  BY DEF SetHandFlow, Changed, Moved, Raised, Reasons
<1>2. /\ s \in [Ports -> PortType] /\ s[p] \in PortType /\ Good(s[p])
      /\ r \in Ports /\ r # p
  BY RemotePort DEF States
<1>3. s1 \in States /\ AllGo(s, s1)
  <2>1. CASE all
    <3> DEFINE c == s[p]
               on == c.holding \ {"XON"}
               d  == [c EXCEPT !.holding = on]
    <3>1. s1 = [s EXCEPT ![p] = d]
      BY <1>2, <2>1
    <3>2. /\ on \in SUBSET Holds /\ ("BREAK" \in on <=> "BREAK" \in c.holding)
          /\ on \subseteq {"XON"} => c.holding \subseteq {"XON"}
      BY <1>2 DEF PortType
    <3> HIDE DEF on
    <3>3. /\ d \in PortType /\ Good(d)
          /\ d.isOpen = c.isOpen /\ d.size = c.size /\ d.busy = c.busy
          /\ d.reading = c.reading /\ d.tx = c.tx
          /\ d.writing = c.writing /\ d.sendXonXoff = c.sendXonXoff
          /\ d.sendBreak = c.sendBreak /\ d.holding = on
          /\ d.tryWrite = c.tryWrite
      BY <1>2, <3>2 DEF PortType, Good, Fit
    <3>4. c.writing = 0
      BY <2>1
    <3> HIDE DEF d, c
    <3>5. ~HasData(d)
      BY <3>3, <3>4 DEF HasData
    <3>6. Ready(d) => Ready(c)
      BY <3>2, <3>3, <3>5 DEF Ready, HasChar
    <3>7. Goes(c, d)
      BY <3>2, <3>3, <3>6 DEF Goes, Awake, Sound
    <3>8. [s EXCEPT ![p] = d] \in States /\ AllGo(s, [s EXCEPT ![p] = d])
      BY <3>3, <3>7, Replaced, ReplacedStir, Looser DEF c
    <3> QED
      BY <3>1, <3>8
  <2>2. CASE ~all /\ old.autoTransmit /\ ~flow.autoTransmit
    <3> DEFINE u == SetXonXoffHolding(s, p, "on")
    <3>1. s1 = u
      BY <2>2
    <3>2. /\ u \in States /\ Stirred(s[p], u[p])
          /\ \A x \in Ports : x # p => u[x] = s[x]
      BY XonXoffHolding, XonXoffStir
    <3> HIDE DEF u, s1
    <3>3. AllGo(s, u)
      BY <3>2, LineStirredSelf DEF AllGo, Stirred, LineStirred
    <3> QED
      BY <3>1, <3>2, <3>3
  <2>3. CASE ~all /\ ~(old.autoTransmit /\ ~flow.autoTransmit)
    BY <2>3, LinesStirSelf, LinesStirAll
  <2> QED
    BY <2>1, <2>2, <2>3
<1> HIDE DEF s1
<1>4. /\ s1 \in [Ports -> PortType] /\ q \in PortType /\ Good(q) /\ q.isOpen
  BY <1>3 DEF States, AllGo, Goes
<1>5. reasons \in SUBSET {"CTS", "DSR", "XON"}
  BY <1>4, ReasonsIs
<1>6. mask \subseteq Outs
  <2>1. mask \subseteq {"RTS", "DTR"}
    BY MovedIs
  <2> QED
    BY <2>1 DEF Outs
<1> HIDE DEF lines, reasons, mask, bits, q
<1>7. /\ q1 \in PortType /\ Good(q1) /\ q1.isOpen
      /\ q1.isOpen = q.isOpen /\ q1.size = q.size /\ q1.busy = q.busy
      /\ q1.reading = q.reading /\ q1.tx = q.tx
      /\ q1.writing = q.writing /\ q1.sendXonXoff = q.sendXonXoff
      /\ q1.sendBreak = q.sendBreak /\ q1.holding = q.holding
      /\ q1.tryWrite = q.tryWrite
  BY <1>4, <1>5 DEF PortType, Good, Fit
<1> HIDE DEF q1
<1>8. Goes(q, q1)
  <2>1. Awake(q, q1)
    BY <1>7 DEF Awake, Ready, HasData, HasChar
  <2> QED
    BY <1>7, <2>1 DEF Goes, Sound
<1>9. q2 \in PortType /\ Good(q2) /\ Goes(q, q2)
  <2>1. CASE q2 = q1
    BY <1>7, <1>8, <2>1
  <2>2. CASE q2 = SetAutoReceive(q1)
    <3>1. q2 \in PortType /\ Good(q2) /\ Stirred(q1, q2)
      BY <1>7, <2>2, XonRecords, XonGoes
    <3> QED
      BY <1>8, <3>1, GoesTwice DEF Stirred
  <2> QED
    BY <2>1, <2>2
<1> HIDE DEF q2
<1>10. s2 \in States /\ AllGo(s, s2)
  <2>1. s2 \in States /\ AllGo(s1, s2)
    BY <1>3, <1>9, Replaced, ReplacedStir, Looser DEF q
  <2> QED
    BY <1>3, <2>1, AllGoTwice
<1> HIDE DEF s2
<1>11. s3 \in States /\ AllGo(s, s3)
  <2>1. CASE held
    <3>1. s3 \in States /\ LinesStir(s2, s3)
      BY <1>10, <2>1, StatusHolding, StatusHoldingStir, Looser
    <3> QED
      BY <1>10, <3>1, LinesStirAll, AllGoTwice
  <2>2. CASE ~held
    BY <1>10, <2>2
  <2> QED
    BY <2>1, <2>2
<1> HIDE DEF s3
<1>12. s4 \in States /\ AllGo(s, s4)
  <2>1. ControlSet(s3, s4, p, bits, mask)
    BY <1>6, <1>11, SetControl, Looser
  <2>2. LinesStir(s3, s4)
    BY <1>6, <1>11, SetControlStir, Looser
  <2> QED
    BY <1>11, <2>1, <2>2, LinesStirAll, AllGoTwice DEF ControlSet
<1> HIDE DEF s4
<1>13. s5 \in States /\ AllGo(s, s5)
  <2>1. Steady(s4, s5) /\ LinesStir(s4, s5)
    BY <1>12, ToggleSteady, ToggleStir
  <2> QED
    BY <1>12, <2>1, LinesStirAll, AllGoTwice DEF Steady
<1> HIDE DEF s5
<1>14. /\ s6 \in States /\ AllGo(s5, s6) /\ s6[p] = s5[p]
       /\ s6[r].limit = LimitFor(s5[r], s5[p]) /\ s6[r].flow = s5[r].flow
  BY <1>2, <1>13, LimitUnmoved, LimitSet, RemotePort
<1> HIDE DEF s6
<1>15. /\ AllGo(s6, t) /\ t[p].limit = LimitFor(s6[p], s6[r])
       /\ t[p].flow = s6[p].flow /\ t[r] = s6[r]
  BY <1>2, <1>14, LimitSet
<1> HIDE DEF t
<1>16. AllGo(s, t)
  BY <1>13, <1>14, <1>15, AllGoTwice
<1>17. Limited(t, p)
  <2>1. t[p].size = s6[p].size
    BY <1>15 DEF AllGo, Goes
  <2>2. LimitFor(t[p], t[r]) = LimitFor(s6[p], s6[r])
    BY <1>15, <2>1, LimitForSame
  <2> QED
    BY <1>15, <2>2 DEF Limited
<1>18. Limited(t, r)
  <2>1. t[r].size = s5[r].size /\ t[r].flow = s5[r].flow
        /\ t[p].flow = s5[p].flow
    BY <1>2, <1>14, <1>15 DEF AllGo, Goes
  <2>2. LimitFor(t[r], t[p]) = LimitFor(s5[r], s5[p])
    BY <2>1, LimitForSame
  <2>3. Remote(r) = p
    BY RemotePort
  <2> QED
    BY <1>14, <1>15, <2>2, <2>3 DEF Limited
<1> QED
  BY <1>1, <1>16, <1>17, <1>18, RemotePort DEF HandFlowGoes

(* The invariant.                                                          *)
Fine(s) == \A p \in Ports : Sound(s[p]) /\ Limited(s, p)

(* A port that still asks when nobody runs ReadWrite finds the other end   *)
(* closed: the close of an end lets go a writer that an inverted pin held. *)
Asked ==
  engine = NoPort /\ opening = NoPort =>
    \A p \in Ports : port[p].tryWrite => ~port[Remote(p)].isOpen

(* ReadWrite is to run for p, or will be when p has another end.           *)
Due(p) == p = engine \/ (opening # NoPort /\ p = Remote(opening))

Orderly == history \cap {"purge", "limit"} = {}

Serving == Orderly => \A p \in Ports : ~Due(p) => Served(port, p)

HeldInv == Fine(port) /\ Asked /\ Serving

LEMMA StirsFine ==
  ASSUME NEW s, NEW t, Fine(s),
         \A p \in Ports : /\ SameSetting(s[p], t[p])
                          /\ Sound(s[p]) => Sound(t[p])
  PROVE  Fine(t)
<1> SUFFICES ASSUME NEW p \in Ports PROVE Sound(t[p]) /\ Limited(t, p)
  BY DEF Fine
<1>1. /\ Sound(t[p]) /\ Limited(s, p)
      /\ SameSetting(s[p], t[p]) /\ SameSetting(s[Remote(p)], t[Remote(p)])
  BY RemotePort DEF Fine
<1>2. LimitFor(t[p], t[Remote(p)]) = LimitFor(s[p], s[Remote(p)])
  BY <1>1, LimitForSame DEF SameSetting
<1> QED
  BY <1>1, <1>2 DEF Limited, SameSetting

LEMMA StirsStayFine ==
  ASSUME NEW s, NEW t, Fine(s), Stirs(s, t)
  PROVE  Fine(t)
BY StirsFine DEF Stirs, Stirred, Goes

(* A handler makes s of the ports.                                         *)
LEMMA ServeStep ==
  ASSUME NEW s, port' = s, Fine(s),
         engine' = NoPort /\ opening' = NoPort =>
           \A p \in Ports : s[p].tryWrite => ~s[Remote(p)].isOpen,
         Orderly' => \A p \in Ports : ~Due(p)' => Served(s, p)
  PROVE  HeldInv'
<1>1. Fine(port)'
  BY DEF Fine, Limited
<1>2. Asked'
  BY DEF Asked
<1>3. Serving'
  <2> SUFFICES ASSUME Orderly', NEW p \in Ports, ~Due(p)'
               PROVE  Served(port, p)'
    BY DEF Serving
  <2>1. Served(port', p)
    OBVIOUS
  <2> QED
    BY <2>1 DEF Served
<1> QED
  BY <1>1, <1>2, <1>3 DEF HeldInv

(* It ends in a call of ReadWrite, if a port asks for it.                  *)
LEMMA RunStep ==
  ASSUME NEW s, NEW w \in Ports, Run(s, w), Fine(s),
         Orderly' => \A p \in Ports : ~Due(p)' => Served(s, p)
  PROVE  HeldInv'
<1>1. /\ port' = s
      /\ engine' = NoPort => \A p \in Ports : ~s[p].tryWrite
  BY HandFlowAssumption DEF Run
<1> QED
  BY <1>1, ServeStep

(* When the lock is free every port is served.                             *)
LEMMA FreeServed ==
  ASSUME HeldInv, Free
  PROVE  /\ Fine(port)
         /\ Orderly => \A p \in Ports : Served(port, p)
         /\ \A p \in Ports : port[p].tryWrite => ~port[Remote(p)].isOpen
BY HandFlowAssumption DEF HeldInv, Serving, Asked, Due, Free

(* One port is replaced.                                                   *)
LEMMA ReplacedServes ==
  ASSUME NEW s \in Loose, NEW p \in Ports, NEW q
  PROVE  LET t == [s EXCEPT ![p] = q]
         IN  /\ t[p] = q /\ t[Remote(p)] = s[Remote(p)]
             /\ Awake(s[p], q) /\ Served(s, p) => Served(t, p)
             /\ /\ Full(s[p]) => Full(q)
                /\ Served(s, Remote(p))
                => Served(t, Remote(p))
             /\ Fine(s) /\ SameSetting(s[p], q) /\ Sound(q) => Fine(t)
<1> DEFINE t == [s EXCEPT ![p] = q]
<1>1. t[p] = q /\ \A x \in Ports : x # p => t[x] = s[x]
  BY DEF Loose
<1> HIDE DEF t
<1>2. Remote(p) \in Ports /\ Remote(p) # p /\ Remote(Remote(p)) = p
  BY RemotePort
<1>3. Awake(s[p], q) /\ Served(s, p) => Served(t, p)
  BY <1>1, <1>2, ServedKept
<1>4. (Full(s[p]) => Full(q)) /\ Served(s, Remote(p)) => Served(t, Remote(p))
  BY <1>1, <1>2, ServedKept, AwakeSelf
<1>5. ASSUME Fine(s), SameSetting(s[p], q), Sound(q) PROVE Fine(t)
  <2>1. \A x \in Ports : SameSetting(s[x], t[x]) /\ (Sound(s[x]) => Sound(t[x]))
    BY <1>1, <1>5 DEF SameSetting
  <2> QED
    BY <1>5, <2>1, StirsFine
<1> QED
  BY <1>1, <1>2, <1>3, <1>4, <1>5 DEF t

LEMMA HeldInit == Init => HeldInv
<1> SUFFICES ASSUME Init PROVE HeldInv
  OBVIOUS
<1>1. /\ ~NewPort.sendBreak /\ ~NewPort.isOpen /\ NewPort.writing = 0
      /\ NewPort.size = 0 /\ NewPort.limit = 0 /\ NewPort.tx = <<>>
      /\ NewPort.sendXonXoff = "none" /\ ~NewPort.tryWrite
  BY DEF NewPort
<1>2. \A p \in Ports : port[p] = NewPort
  BY DEF Init
<1>3. Sound(NewPort) /\ LimitFor(NewPort, NewPort) = 0
  BY <1>1 DEF Sound, LimitFor
<1>4. ~Ready(NewPort)
  BY <1>1 DEF Ready, HasData, HasChar
<1>5. Fine(port)
  BY <1>1, <1>2, <1>3, RemotePort DEF Fine, Limited
<1>6. Asked /\ Serving
  BY <1>1, <1>2, <1>4 DEF Asked, Serving, Served
<1> QED
  BY <1>5, <1>6 DEF HeldInv

LEMMA WriteHeld ==
  ASSUME LinesInv, HeldInv, NEW p \in Ports, NEW n \in WriteSizes, Write(p, n)
  PROVE  HeldInv'
<1> DEFINE c == port[p]
           q == [c EXCEPT !.writing = n]
           t == [port EXCEPT ![p] = q]
<1>1. /\ port \in Loose /\ port \in [Ports -> PortType] /\ c \in PortType
      /\ c.isOpen /\ Free /\ UNCHANGED history /\ engine' = p
      /\ opening' = NoPort
  BY Looser DEF LinesInv, States, Write, Free
<1>2. port' = t
  BY <1>1 DEF Write
<1>3. /\ SameSetting(c, q) /\ (Full(c) => Full(q)) /\ q.isOpen
      /\ q.sendBreak = c.sendBreak /\ q.holding = c.holding
  BY <1>1 DEF PortType, SameSetting, Full
<1> HIDE DEF q
<1>4. Sound(c) => Sound(q)
  BY <1>1, <1>3 DEF Sound
<1>5. Fine(t) /\ (Orderly => Served(t, Remote(p)))
  BY <1>1, <1>3, <1>4, ReplacedServes, FreeServed, RemotePort DEF Fine
<1>6. Orderly' => \A x \in Ports : ~Due(x)' => Served(t, x)
  BY <1>1, <1>5, RemotePort DEF Due, Orderly
<1> HIDE DEF t
<1> QED
  BY <1>1, <1>2, <1>5, <1>6, ServeStep, HandFlowAssumption

LEMMA ReadHeld ==
  ASSUME LinesInv, HeldInv, NEW p \in Ports, NEW n \in ReadSizes, Read(p, n)
  PROVE  HeldInv'
<1> DEFINE c == port[p]
           q == [c EXCEPT !.reading = n]
           t == [port EXCEPT ![p] = q]
<1>1. /\ port \in Loose /\ port \in [Ports -> PortType] /\ c \in PortType
      /\ c.isOpen /\ Free /\ UNCHANGED history /\ engine' = Remote(p)
      /\ opening' = NoPort
  BY Looser DEF LinesInv, States, Read, Free
<1>2. port' = t
  BY <1>1 DEF Read
<1>3. /\ SameSetting(c, q) /\ q.isOpen /\ q.tryWrite = c.tryWrite
      /\ q.sendBreak = c.sendBreak /\ q.holding = c.holding
      /\ q.tx = c.tx /\ q.writing = c.writing /\ q.sendXonXoff = c.sendXonXoff
  BY <1>1 DEF PortType, SameSetting
<1> HIDE DEF q
<1>4. (Sound(c) => Sound(q)) /\ Awake(c, q)
  BY <1>1, <1>3 DEF Sound, Awake, Ready, HasData, HasChar
<1>5. Fine(t) /\ (Orderly => Served(t, p))
  BY <1>1, <1>3, <1>4, ReplacedServes, FreeServed DEF Fine
<1>6. Orderly' => \A x \in Ports : ~Due(x)' => Served(t, x)
  BY <1>1, <1>5, RemotePort DEF Due, Orderly
<1> HIDE DEF t
<1> QED
  BY <1>1, <1>2, <1>5, <1>6, ServeStep, HandFlowAssumption, RemotePort

LEMMA AbortHeld ==
  ASSUME LinesInv, HeldInv, NEW p \in Ports, Abort(p)
  PROVE  HeldInv'
<1> DEFINE c == port[p]
           q == [c EXCEPT !.writing = 0, !.reading = 0]
           t == [port EXCEPT ![p] = q]
<1>1. /\ port \in Loose /\ port \in [Ports -> PortType] /\ c \in PortType
      /\ Free /\ UNCHANGED <<engine, opening, history>>
  BY Looser DEF LinesInv, States, Abort
<1>2. port' = t
  BY <1>1 DEF Abort
<1>3. /\ SameSetting(c, q) /\ (Full(c) => Full(q)) /\ q.tryWrite = c.tryWrite
      /\ q.sendBreak = c.sendBreak /\ q.holding = c.holding
      /\ q.tx = c.tx /\ q.writing = 0 /\ q.sendXonXoff = c.sendXonXoff
      /\ q.isOpen = c.isOpen
  BY <1>1 DEF PortType, SameSetting, Full
<1> HIDE DEF q
<1>4. (Sound(c) => Sound(q)) /\ Awake(c, q)
  BY <1>1, <1>3 DEF Sound, Awake, Ready, HasData, HasChar
<1>5. Fine(t) /\ (Orderly => Served(t, p) /\ Served(t, Remote(p)))
  BY <1>1, <1>3, <1>4, ReplacedServes, FreeServed, RemotePort DEF Fine
<1>6. Orderly' => \A x \in Ports : ~Due(x)' => Served(t, x)
  BY <1>1, <1>5, RemotePort DEF Orderly
<1>7. \A x \in Ports : t[x].tryWrite => ~t[Remote(x)].isOpen
  <2>1. \A x \in Ports : /\ t[x].tryWrite = port[x].tryWrite
                         /\ t[x].isOpen = port[x].isOpen
    BY <1>1, <1>3
  <2> QED
    BY <1>1, <2>1, FreeServed, RemotePort
<1> HIDE DEF t
<1> QED
  BY <1>2, <1>5, <1>6, <1>7, ServeStep

(* An end that breaks asks for ReadWrite, and so does one that stops and   *)
(* has something to send.                                                  *)
LEMMA BreakStir ==
  ASSUME NEW s \in States, NEW p \in Ports, NEW on \in BOOLEAN
  PROVE  LET t == SetBreakHolding(s, p, on)
         IN  /\ Stirs(s, t)
             /\ \A x \in Ports : x # p => t[x] = s[x]
             /\ ~on /\ s[p].writing = 0 /\ s[p].sendXonXoff = "none"
                  => t[p].tryWrite = s[p].tryWrite
<1> DEFINE t == SetBreakHolding(s, p, on)
           c == s[p]
<1>1. s \in [Ports -> PortType] /\ c \in PortType /\ s \in Loose
  BY Looser DEF States
<1>2. CASE on /\ "BREAK" \notin c.holding
  <2> DEFINE h == c.holding \cup {"BREAK"}
             q == [c EXCEPT !.holding = h, !.sendBreak = TRUE, !.tryWrite = TRUE]
  <2>1. t = [s EXCEPT ![p] = q]
    BY <1>1, <1>2 DEF SetBreakHolding
  <2>2. "BREAK" \in h
    OBVIOUS
  <2> HIDE DEF h
  <2>3. /\ q.isOpen = c.isOpen /\ q.size = c.size /\ q.busy = c.busy
        /\ q.reading = c.reading /\ q.flow = c.flow /\ q.limit = c.limit
        /\ q.writing = c.writing /\ q.holding = h /\ q.tryWrite
    BY <1>1 DEF PortType
  <2> HIDE DEF q
  <2>4. Stirred(c, q)
    BY <2>2, <2>3 DEF Stirred, Goes, Awake, Sound, SameSetting
  <2>5. Stirs(s, [s EXCEPT ![p] = q])
    BY <1>1, <2>4, ReplacedStir
  <2> QED
    BY <1>1, <1>2, <2>1, <2>5
<1>3. CASE ~on /\ "BREAK" \in c.holding
  <2> DEFINE h == c.holding \ {"BREAK"}
             y == \/ c.tryWrite
                  \/ h \subseteq {"XON"} /\ c.sendXonXoff # "none"
                  \/ h = {} /\ c.writing > 0
             q == [c EXCEPT !.holding = h, !.sendBreak = FALSE, !.tryWrite = y]
  <2>1. t = [s EXCEPT ![p] = q]
    BY <1>1, <1>3 DEF SetBreakHolding
  <2>2. /\ y \in BOOLEAN /\ (c.tryWrite => y)
        /\ h \subseteq {"XON"} /\ c.sendXonXoff # "none" => y
        /\ h = {} /\ c.writing > 0 => y
        /\ c.writing = 0 /\ c.sendXonXoff = "none" => y = c.tryWrite
    <3>1. c.tryWrite \in BOOLEAN
      BY <1>1 DEF PortType
    <3>2. c.writing = 0 => ~(c.writing > 0)
      OBVIOUS
    <3> DEFINE some == c.writing > 0
    <3>3. y = (\/ c.tryWrite
               \/ h \subseteq {"XON"} /\ c.sendXonXoff # "none"
               \/ h = {} /\ some)
      OBVIOUS
    <3> HIDE DEF h, y, some, c
    <3>4. /\ y \in BOOLEAN /\ (c.tryWrite => y)
          /\ h \subseteq {"XON"} /\ c.sendXonXoff # "none" => y
          /\ h = {} /\ some => y
          /\ ~some /\ c.sendXonXoff = "none" => y = c.tryWrite
      BY <3>1, <3>3, Zenon
    <3> QED
      BY <3>2, <3>4 DEF some
  <2> HIDE DEF h, y
  <2>3. /\ q.isOpen = c.isOpen /\ q.size = c.size /\ q.busy = c.busy
        /\ q.reading = c.reading /\ q.flow = c.flow /\ q.limit = c.limit
        /\ q.writing = c.writing /\ q.holding = h /\ ~q.sendBreak
        /\ q.tx = c.tx /\ q.sendXonXoff = c.sendXonXoff
    BY <1>1 DEF PortType
  <2>4. q.tryWrite = y
    BY <1>1 DEF PortType
  <2> HIDE DEF q
  <2>5. q.tryWrite \/ (Ready(q) => Ready(c))
    BY <2>2, <2>3, <2>4 DEF Ready, HasData, HasChar
  <2>6. Stirred(c, q)
    BY <2>2, <2>3, <2>4, <2>5 DEF Stirred, Goes, Awake, Sound, SameSetting
  <2>7. /\ Stirs(s, [s EXCEPT ![p] = q]) /\ [s EXCEPT ![p] = q][p] = q
    BY <1>1, <2>6, ReplacedStir
  <2> QED
    BY <1>1, <2>1, <2>2, <2>4, <2>7
<1>4. CASE ~(on /\ "BREAK" \notin c.holding) /\ ~(~on /\ "BREAK" \in c.holding)
  <2>1. t = s
    BY <1>4 DEF SetBreakHolding
  <2> QED
    BY <2>1, LinesStirSelf, LinesStirAll
<1> QED
  BY <1>2, <1>3, <1>4

LEMMA SetLineHeld ==
  ASSUME LinesInv, HeldInv, Free, NEW p \in Ports, NEW bits,
         NEW mask, mask \subseteq Outs,
         Run(SetModemControl(port, p, bits, mask), Remote(p)),
         history \subseteq history'
  PROVE  HeldInv'
<1> DEFINE t == SetModemControl(port, p, bits, mask)
<1>1. Stirs(port, t)
  BY SetControlStir, LinesStirAll, Looser DEF LinesInv
<1> HIDE DEF t
<1>2. Fine(t)
  BY <1>1, FreeServed, StirsStayFine
<1>3. Orderly' => \A x \in Ports : Served(t, x)
  BY <1>1, FreeServed, StirsServed DEF Orderly
<1>4. Run(t, Remote(p)) /\ Remote(p) \in Ports
  BY RemotePort DEF t
<1> QED
  BY <1>2, <1>3, <1>4, RunStep

LEMMA ByHandHeld ==
  ASSUME LinesInv, HeldInv, NEW p \in Ports, ByHand(p)
  PROVE  HeldInv'
<1>1. ASSUME NEW bits \in {{}, {"RTS"}}, SetRts(p, bits) PROVE HeldInv'
  <2>1. {"RTS"} \subseteq Outs
    BY DEF Outs
  <2> QED
    BY <1>1, <2>1, SetLineHeld DEF SetRts, Meddle
<1>2. ASSUME NEW bits \in {{}, {"DTR"}}, SetDtr(p, bits) PROVE HeldInv'
  <2>1. {"DTR"} \subseteq Outs
    BY DEF Outs
  <2> QED
    BY <1>2, <2>1, SetLineHeld DEF SetDtr, Meddle
<1>3. ASSUME NEW bits \in Outputs, SetOutputs(p, bits) PROVE HeldInv'
  <2>1. Outs \ {"OPEN"} \subseteq Outs
    OBVIOUS
  <2> QED
    BY <1>3, <2>1, SetLineHeld DEF SetOutputs, Meddle
<1>4. ASSUME NEW char \in {"on", "off"}, Free, port[p].isOpen,
             port' = SetXonXoffHolding(port, p, char),
             opening' = opening, history \subseteq history',
             engine' = NoPort /\ char = "on" => ~port'[p].tryWrite
      PROVE  HeldInv'
  <2> DEFINE t == SetXonXoffHolding(port, p, char)
  <2>1. /\ port \in States /\ port \in [Ports -> PortType]
        /\ port[p] \in PortType
    BY DEF LinesInv, States
  <2>2. /\ Stirred(port[p], t[p])
        /\ \A x \in Ports : x # p => t[x] = port[x]
    BY <2>1, XonXoffStir
  <2>3. char = "off" => t[p].tryWrite = port[p].tryWrite
    BY <2>1 DEF SetXonXoffHolding, PortType
  <2>4. port' = t
    BY <1>4
  <2> HIDE DEF t
  <2>5. Stirs(port, t)
    BY <2>2, LineStirredSelf DEF Stirs, LineStirred
  <2>6. Fine(t) /\ (Orderly' => \A x \in Ports : Served(t, x))
    BY <1>4, <2>5, FreeServed, StirsStayFine, StirsServed DEF Orderly
  <2>7. ASSUME engine' = NoPort, NEW x \in Ports, t[x].tryWrite
        PROVE  ~t[Remote(x)].isOpen
    <3>1. \A y \in Ports : t[y].isOpen = port[y].isOpen
      BY <2>5 DEF Stirs, Stirred, Goes
    <3>2. port[x].tryWrite
      BY <1>4, <2>2, <2>3, <2>4, <2>7
    <3> QED
      BY <1>4, <3>1, <3>2, FreeServed, RemotePort
  <2>8. engine' = NoPort /\ opening' = NoPort =>
          \A x \in Ports : t[x].tryWrite => ~t[Remote(x)].isOpen
    BY <2>7
  <2>9. Orderly' => \A x \in Ports : ~Due(x)' => Served(t, x)
    BY <2>6
  <2> QED
    BY <2>4, <2>6, <2>8, <2>9, ServeStep
<1>5. CASE SetXon(p)
  <2>1. /\ Free /\ port[p].isOpen /\ history \subseteq history'
        /\ port' = SetXonXoffHolding(port, p, "on") /\ opening' = opening
        /\ engine' = IF port'[p].tryWrite THEN Remote(p) ELSE NoPort
    BY <1>5 DEF SetXon, Meddle
  <2>2. engine' = NoPort => ~port'[p].tryWrite
    BY <2>1, RemotePort, HandFlowAssumption
  <2> QED
    BY <1>4, <2>1, <2>2
<1>6. CASE SetXoff(p)
  <2>1. /\ Free /\ port[p].isOpen /\ history \subseteq history'
        /\ port' = SetXonXoffHolding(port, p, "off") /\ opening' = opening
    BY <1>6 DEF SetXoff, Meddle
  <2> QED
    BY <1>4, <2>1
<1>7. ASSUME NEW on \in BOOLEAN, SetBreak(p, on) PROVE HeldInv'
  <2> DEFINE s == SetBreakHolding(port, p, on)
             t == UpdateTransmitToggle(s, p)
  <2>1. port \in States /\ Free /\ history \subseteq history'
    BY <1>7 DEF LinesInv, SetBreak, Meddle
  <2>2. s \in States /\ Stirs(port, s)
    BY <2>1, BreakHolding, BreakStir
  <2>3. Stirs(port, t)
    <3> HIDE DEF s
    <3>1. Stirs(s, t)
      BY <2>2, ToggleStir, LinesStirAll
    <3> QED
      BY <2>2, <3>1, StirsTwice
  <2>4. \/ port' = t /\ engine' = Remote(p)
        \/ Run(t, Remote(p))
    BY <1>7 DEF SetBreak
  <2> HIDE DEF s, t
  <2>5. Fine(t) /\ (Orderly' => \A x \in Ports : Served(t, x))
    BY <2>1, <2>3, FreeServed, StirsStayFine, StirsServed DEF Orderly
  <2>6. Remote(p) # NoPort /\ Remote(p) \in Ports
    BY HandFlowAssumption, RemotePort
  <2>7. CASE port' = t /\ engine' = Remote(p)
    BY <2>5, <2>6, <2>7, ServeStep
  <2>8. CASE Run(t, Remote(p))
    BY <2>5, <2>6, <2>8, RunStep
  <2> QED
    BY <2>4, <2>7, <2>8
<1> QED
  BY <1>1, <1>2, <1>3, <1>5, <1>6, <1>7 DEF ByHand

LEMMA PurgeHeld ==
  ASSUME LinesInv, HeldInv, NEW p \in Ports, Purge(p)
  PROVE  HeldInv'
<1> DEFINE c == port[p]
           q == [c EXCEPT !.busy = 0]
           s == [port EXCEPT ![p] = q]
           t == UpdateHandFlow(s, p, TRUE)
<1>1. /\ port \in States /\ port \in [Ports -> PortType] /\ c.isOpen
      /\ c \in PortType /\ Good(c) /\ 0 \in 0 .. BufSize /\ Free
      /\ port \in Loose
  BY HandFlowAssumption, Looser DEF LinesInv, States, Purge
<1>2. /\ Run(t, Remote(p)) /\ Remote(p) \in Ports
      /\ history' = IF engine' = NoPort THEN history \cup {"purge"} ELSE history
  <2>1. [port EXCEPT ![p].busy = 0] = s
    BY <1>1
  <2> HIDE DEF s
  <2> QED
    BY <2>1, RemotePort DEF Purge
<1>3. /\ q \in PortType /\ Good(q) /\ SameSetting(c, q) /\ q.isOpen
      /\ q.tryWrite = c.tryWrite /\ q.sendBreak = c.sendBreak
      /\ q.holding = c.holding /\ q.tx = c.tx /\ q.writing = c.writing
      /\ q.sendXonXoff = c.sendXonXoff
  BY <1>1 DEF PortType, Good, Fit, SameSetting
<1> HIDE DEF q
<1>4. (Sound(c) => Sound(q)) /\ Awake(c, q)
  BY <1>1, <1>3 DEF Sound, Awake, Ready, HasData, HasChar
<1>5. s \in States /\ s[p] = q /\ Fine(s) /\ (Orderly => Served(s, p))
  BY <1>1, <1>3, <1>4, Replaced, ReplacedServes, FreeServed DEF Fine
<1> HIDE DEF s
<1>6. Stirs(s, t)
  BY <1>3, <1>5, UpdateStirs
<1> HIDE DEF t
<1>7. Fine(t) /\ (Orderly => Served(t, p))
  BY <1>5, <1>6, StirsStayFine, StirsServed
<1>8. ASSUME Orderly', NEW x \in Ports, ~Due(x)' PROVE Served(t, x)
  <2>1. engine' = Remote(p) /\ Orderly
    BY <1>2, <1>8 DEF Orderly, Run
  <2>2. x = p
    BY <1>8, <2>1, RemotePort DEF Due
  <2> QED
    BY <1>7, <2>1, <2>2
<1>9. Orderly' => \A x \in Ports : ~Due(x)' => Served(t, x)
  BY <1>8
<1> QED
  BY <1>2, <1>7, <1>9, RunStep

LEMMA OpenLineHeld ==
  ASSUME LinesInv, HeldInv, OpenLine
  PROVE  HeldInv'
<1> DEFINE t == SetModemControl(port, opening, {"OPEN"}, {"OPEN"})
<1>1. /\ opening \in Ports /\ port \in Loose /\ engine = NoPort
      /\ port' = t /\ engine' = Remote(opening) /\ opening' = NoPort
      /\ UNCHANGED history /\ Remote(opening) \in Ports
  BY Looser, RemotePort DEF LinesInv, Counts, OpenLine
<1>2. {"OPEN"} \subseteq Outs
  BY DEF Outs
<1>3. Stirs(port, t)
  BY <1>1, <1>2, SetControlStir, LinesStirAll
<1> HIDE DEF t
<1>4. Fine(t)
  BY <1>3, StirsStayFine DEF HeldInv
<1>5. ASSUME Orderly', NEW x \in Ports, ~Due(x)' PROVE Served(t, x)
  <2>1. x # Remote(opening) /\ x # engine
    BY <1>1, <1>5, HandFlowAssumption DEF Due
  <2>2. Served(port, x)
    BY <1>1, <1>5, <2>1 DEF HeldInv, Serving, Due, Orderly
  <2> QED
    BY <1>3, <2>2, StirsServed
<1>6. Orderly' => \A x \in Ports : ~Due(x)' => Served(t, x)
  BY <1>5
<1>7. engine' # NoPort
  BY <1>1, HandFlowAssumption
<1> QED
  BY <1>1, <1>4, <1>6, <1>7, ServeStep

LEMMA TransferHeld ==
  ASSUME LinesInv, HeldInv, Transfer
  PROVE  HeldInv'
<1> DEFINE w == engine
           r == Remote(engine)
           c == port[w]
           q == [c EXCEPT !.tryWrite = FALSE]
           s == [port EXCEPT ![w] = q]
           t == TryReadWrite(s, w)
<1>1. /\ port \in States /\ port \in [Ports -> PortType] /\ w \in Ports
      /\ c \in PortType /\ Good(c) /\ port \in Loose /\ Wired
      /\ r \in Ports /\ r # w
  BY LinesInvWired, Looser, RemotePort DEF LinesInv, States, Counts, Transfer
<1>2. /\ port' = t /\ UNCHANGED <<opening, history>>
      /\ engine' = IF t[w].tryWrite THEN w
                   ELSE IF t[r].tryWrite THEN r ELSE NoPort
  <2>1. [port EXCEPT ![w].tryWrite = FALSE] = s
    BY <1>1
  <2> HIDE DEF s
  <2> QED
    BY <2>1 DEF Transfer
<1>3. /\ q \in PortType /\ Good(q) /\ SameSetting(c, q) /\ (Full(c) => Full(q))
      /\ Sound(c) => Sound(q)
  BY <1>1 DEF PortType, Good, Fit, SameSetting, Full, Sound
<1> HIDE DEF q
<1>4. /\ s \in States /\ s[w] = q /\ Fine(s)
      /\ Served(port, r) => Served(s, r)
  BY <1>1, <1>3, Replaced, ReplacedServes DEF Fine, HeldInv
<1> HIDE DEF s
<1>5. Rounded(s, t, w)
  BY <1>1, <1>4, TryReadWriteServes DEF Fine
<1> HIDE DEF t
<1>6. Fine(t) /\ Served(t, w) /\ (Served(s, r) => Served(t, r))
  BY <1>4, <1>5, StirsFine DEF Rounded
<1>7. ASSUME Orderly', NEW x \in Ports, ~Due(x)' PROVE Served(t, x)
  <2>1. CASE x = w
    BY <1>6, <2>1
  <2>2. CASE x # w
    <3>1. x = r /\ ~Due(x) /\ Orderly
      BY <1>1, <1>2, <1>7, <2>2, RemotePort DEF Due, Orderly
    <3>2. Served(port, r)
      BY <3>1 DEF HeldInv, Serving
    <3> QED
      BY <1>4, <1>6, <3>1, <3>2
  <2> QED
    BY <2>1, <2>2
<1>8. Orderly' => \A x \in Ports : ~Due(x)' => Served(t, x)
  BY <1>7
<1>9. engine' = NoPort => \A x \in Ports : ~t[x].tryWrite
  BY <1>1, <1>2, RemotePort, HandFlowAssumption
<1> QED
  BY <1>2, <1>6, <1>8, <1>9, ServeStep

LEMMA ChangeHeld ==
  ASSUME LinesInv, HeldInv, NEW p \in Ports, NEW flow \in Flows[p],
         ChangeHandFlow(p, flow)
  PROVE  HeldInv'
<1> DEFINE t == SetHandFlow(port, p, flow, FALSE)
           w == IF t[Remote(p)].tryWrite THEN Remote(p) ELSE p
<1>1. /\ port \in States /\ port \in [Ports -> PortType] /\ Wired
      /\ port[p].isOpen /\ Free
      /\ flow \in HandFlows /\ flow.xoffLimit <= BufSize
  BY LinesInvWired, HandFlowAssumption DEF LinesInv, States, ChangeHandFlow
<1>2. /\ Run(t, w) /\ w \in Ports /\ history \subseteq history'
      /\ Eases(t) => "limit" \in history'
  BY RemotePort DEF ChangeHandFlow
<1>3. HandFlowSet(port, t, p, flow) /\ HandFlowGoes(port, t)
  BY <1>1, SetHandFlowKeeps, SetHandFlowGoes
<1> HIDE DEF t, w
<1>4. Fine(t)
  BY <1>1, <1>3, FreeServed DEF HandFlowGoes, AllGo, Goes, Fine
<1>5. ASSUME Orderly', NEW x \in Ports PROVE Served(t, x)
  <2> DEFINE y == Remote(x)
             b == port[y]
             e == t[y]
  <2>1. /\ Orderly /\ ~Eases(t) /\ y \in Ports
        /\ Goes(port[x], t[x]) /\ Goes(b, e)
    BY <1>2, <1>3, <1>5, RemotePort DEF Orderly, HandFlowGoes, AllGo
  <2>2. b \in PortType /\ e \in PortType /\ ~(b.busy >= b.limit /\ e.limit > b.limit)
    BY <1>1, <1>3, <2>1 DEF Eases, HandFlowSet, States
  <2>3. Served(port, x)
    BY <1>1, <1>5, <2>1, FreeServed
  <2> HIDE DEF b, e
  <2>4. /\ b.busy \in Int /\ b.limit \in Int /\ e.limit \in Int
    BY <2>2, HandFlowAssumption DEF PortType
  <2>5. Full(b) => Full(e)
    BY <2>1, <2>2, <2>4 DEF Full, Goes
  <2> QED
    BY <2>1, <2>3, <2>5, ServedKept DEF Goes, b, e
<1>6. Orderly' => \A x \in Ports : ~Due(x)' => Served(t, x)
  BY <1>5
<1> QED
  BY <1>2, <1>4, <1>6, RunStep

LEMMA OpenHeld ==
  ASSUME LinesInv, HeldInv, NEW p \in Ports, Open(p)
  PROVE  HeldInv'
<1>1. PICK q : /\ OpenedAs(p, q)
               /\ port' = SetHandFlow([port EXCEPT ![p] = q], p, q.flow, TRUE)
               /\ opening' = p /\ engine' \in Ports \cup {NoPort}
               /\ UNCHANGED <<wiring, rounds, added, orders, history>>
  BY OpenIs
<1> DEFINE c == port[p]
           r == Remote(p)
           s == [port EXCEPT ![p] = q]
           t == SetHandFlow(s, p, q.flow, TRUE)
<1>2. /\ port \in States /\ port \in [Ports -> PortType] /\ Wired /\ Free
      /\ c \in PortType /\ ~c.isOpen /\ r \in Ports /\ r # p /\ Remote(r) = p
      /\ port[r] \in PortType /\ Good(port[r])
  BY LinesInvWired, RemotePort DEF LinesInv, States, Open
<1>3. /\ q \in PortType /\ Good(q) /\ q.isOpen
      /\ q.flow \in HandFlows /\ q.flow.xoffLimit <= BufSize
      /\ q.flow.out = c.flow.out /\ q.holdingRemote = {}
      /\ q.holding = c.holding /\ q.tx = c.tx /\ q.writing = c.writing
      /\ q.sendXonXoff = c.sendXonXoff /\ q.sendBreak = c.sendBreak
  BY <1>1 DEF OpenedAs
<1>4. /\ Fine(port) /\ Sound(c) /\ c.writing = 0
      /\ Orderly => Served(port, p)
      /\ c.tryWrite => ~port[r].isOpen
  BY <1>2, FreeServed DEF Fine, Sound
<1>5. s \in States /\ s[p] = q /\ s[r] = port[r]
  BY <1>2, <1>3, Replaced
<1>6. port' = t
  BY <1>1
<1> HIDE DEF s
<1>7. HandFlowSet(s, t, p, q.flow) /\ HandFlowGoes(s, t)
  BY <1>2, <1>3, <1>4, <1>5, SetHandFlowKeeps, SetHandFlowGoes
<1> HIDE DEF t, c
<1>8. Sound(q) /\ (Ready(q) => Ready(c))
  BY <1>3, <1>4 DEF Sound, Ready, HasData, HasChar
<1>9. Goes(q, t[p]) /\ Goes(port[r], t[r]) /\ \A x \in Ports : Limited(t, x)
  BY <1>2, <1>5, <1>7 DEF HandFlowGoes, AllGo
<1>10. Fine(t)
  <2>1. \A x \in Ports : Sound(t[x])
    BY <1>2, <1>4, <1>8, <1>9, RemotePort DEF Goes, Fine
  <2> QED
    BY <1>9, <2>1 DEF Fine
<1>11. t[r].limit = port[r].limit
  <2>1. /\ t[p].flow = q.flow /\ t[r].flow = port[r].flow
        /\ t[r].size = port[r].size
    BY <1>2, <1>5, <1>7, <1>9 DEF HandFlowSet, Goes
  <2>2. LimitFor(t[r], t[p]) = LimitFor(port[r], port[p])
    BY <1>3, <2>1, LimitForSame DEF c
  <2>3. Limited(t, r) /\ Limited(port, r)
    BY <1>2, <1>4, <1>9 DEF Fine
  <2> QED
    BY <1>2, <2>2, <2>3 DEF Limited
<1>12. Full(port[r]) => Full(t[r])
  BY <1>9, <1>11 DEF Full, Goes
<1>13. ASSUME Orderly' PROVE Served(t, p)
  <2>1. Orderly
    BY <1>1, <1>13 DEF Orderly
  <2>2. c.tryWrite => Full(port[r])
    BY <1>2, <1>4 DEF Good, Full
  <2>3. Ready(c) => Full(port[r])
    BY <1>4, <2>1, <2>2 DEF Served, c
  <2> QED
    BY <1>8, <1>9, <1>12, <2>3 DEF Served, Goes, Awake
<1>14. Orderly' => \A x \in Ports : ~Due(x)' => Served(t, x)
  BY <1>1, <1>13, RemotePort, HandFlowAssumption DEF Due
<1>15. opening' # NoPort
  BY <1>1, HandFlowAssumption
<1> QED
  BY <1>6, <1>10, <1>14, <1>15, ServeStep

LEMMA AddHeld ==
  ASSUME LinesInv, HeldInv, NEW p \in Ports, AddFdoPort(p)
  PROVE  HeldInv'
<1> DEFINE c == port[p]
           r == Remote(p)
           flow == [NoFlow EXCEPT !.rts = "on", !.dtr = "on"]
           control == c.modemControl \cup {"OUT2"}
           d == [c EXCEPT !.flow = flow, !.tx = <<>>, !.modemControl = control]
           s == [port EXCEPT ![p] = d]
           status == {in \in Ins : Signal(s, p, in)}
           q == [d EXCEPT !.modemStatus = status]
           t == [port EXCEPT ![p] = q]
<1>1. /\ port \in Loose /\ port \in [Ports -> PortType]
      /\ c \in PortType /\ Good(c) /\ p \notin added
      /\ ~c.isOpen /\ c.flow.out = {} /\ Free
      /\ UNCHANGED <<engine, opening, history>>
      /\ r \in Ports /\ r # p /\ Remote(r) = p
  BY Looser, RemotePort DEF LinesInv, States, AddFdoPort, Unborn
<1>2. port' = t
  <2>1. [port EXCEPT ![p].flow = flow, ![p].tx = <<>>,
                     ![p].modemControl = @ \cup {"OUT2"}] = s
    BY <1>1
  <2>2. port' = PinMap(s, p)
    BY <2>1 DEF AddFdoPort
  <2> HIDE DEF d
  <2> QED
    BY <1>1, <2>2 DEF PinMap
<1>3. flow.rts = "on" /\ flow.dtr = "on" /\ flow.out = {}
  BY DEF NoFlow
<1> HIDE DEF flow, control, status
<1>4. /\ q.isOpen = c.isOpen /\ q.size = c.size /\ q.limit = c.limit
      /\ q.busy = c.busy /\ q.reading = c.reading /\ q.flow = flow
      /\ q.tx = <<>> /\ q.writing = c.writing /\ q.holding = c.holding
      /\ q.sendXonXoff = c.sendXonXoff /\ q.sendBreak = c.sendBreak
      /\ q.tryWrite = c.tryWrite
  BY <1>1 DEF PortType
<1>5. c.size = 0 /\ c.limit = 0 /\ Fine(port) /\ Sound(c)
  BY <1>1, FreeServed DEF Good, Fine
<1> HIDE DEF q, c
<1>6. /\ Sound(q) /\ Awake(c, q) /\ (Full(c) => Full(q))
  BY <1>4, <1>5 DEF Sound, Awake, Ready, HasData, HasChar, Full
<1>7. /\ t[p] = q /\ t[r] = port[r]
      /\ Orderly => Served(t, p) /\ Served(t, r)
  BY <1>1, <1>6, ReplacedServes, FreeServed DEF c
<1> HIDE DEF t
<1>8. Limited(t, p)
  BY <1>4, <1>5, <1>7 DEF Limited, LimitFor
<1>9. Limited(t, r)
  <2>1. t[r] = port[r] /\ t[p].flow.out = port[p].flow.out
    BY <1>1, <1>3, <1>4, <1>7 DEF c
  <2> HIDE DEF r
  <2>2. LimitFor(t[r], t[p]) = LimitFor(port[r], port[p])
    BY <2>1, LimitForSame
  <2>3. Limited(port, r) /\ Remote(r) = p
    BY <1>1, <1>5 DEF Fine
  <2> QED
    BY <2>1, <2>2, <2>3 DEF Limited
<1>10. Fine(t)
  <2>1. Sound(t[p]) /\ Sound(t[r])
    BY <1>1, <1>5, <1>6, <1>7 DEF Fine
  <2> QED
    BY <1>8, <1>9, <2>1, RemotePort DEF Fine
<1>11. \A x \in Ports : t[x].tryWrite => ~t[Remote(x)].isOpen
  <2>1. \A x \in Ports : /\ t[x].tryWrite = port[x].tryWrite
                         /\ t[x].isOpen = port[x].isOpen
    BY <1>4, <1>7, RemotePort DEF c
  <2> QED
    BY <1>1, <2>1, FreeServed, RemotePort
<1>12. Orderly' => \A x \in Ports : ~Due(x)' => Served(t, x)
  BY <1>1, <1>7, RemotePort DEF Orderly
<1> QED
  BY <1>2, <1>10, <1>11, <1>12, ServeStep

LEMMA CloseHeld ==
  ASSUME LinesInv, HeldInv, NEW p \in Ports, Close(p)
  PROVE  HeldInv'
<1> DEFINE c == port[p]
           r == Remote(p)
           q == [c EXCEPT !.isOpen = FALSE, !.holdingRemote = {},
                          !.sendXonXoff = "none"]
           s == [port EXCEPT ![p] = q]
           t == SetModemControl(s, p, {"OUT2"}, Outs)
           d == [t[p] EXCEPT !.size = 0, !.limit = 0, !.busy = 0]
           u == [t EXCEPT ![p] = d]
           v == SetBreakHolding(u, p, FALSE)
<1>1. /\ port \in States /\ port \in [Ports -> PortType] /\ Wired
      /\ c \in PortType /\ Good(c) /\ c.reading = 0 /\ c.writing = 0
      /\ 0 \in 0 .. BufSize /\ Free
      /\ r \in Ports /\ r # p /\ Remote(r) = p /\ Good(port[r])
      /\ UNCHANGED <<engine, opening>> /\ history \subseteq history'
  BY LinesInvWired, HandFlowAssumption, RemotePort
     DEF LinesInv, States, Close
<1>2. /\ Fine(port) /\ (Orderly => Served(port, p))
      /\ c.tryWrite => ~port[r].isOpen
  BY <1>1, FreeServed
<1>3. /\ q \in PortType /\ Fit(q) /\ ~q.isOpen /\ q.reading = 0
      /\ q.holdingRemote = {} /\ q.holding = c.holding /\ q.tx = c.tx
      /\ q.writing = 0 /\ q.sendXonXoff = "none"
      /\ q.sendBreak = c.sendBreak /\ q.tryWrite = c.tryWrite
      /\ q.flow = c.flow
  BY <1>1 DEF PortType, Good, Fit
<1> HIDE DEF q
<1>4. s \in Loose /\ s[p] = q /\ s[r] = port[r]
  BY <1>1, <1>3, Looser, ReplacedLoose
<1> HIDE DEF s
<1>5. LinesStir(s, t) /\ t \in Loose /\ SameFlow(s, t)
  BY <1>1, <1>4, SetControl, SetControlStir DEF ControlSet
<1>6. port' = v
  <2>1. [port EXCEPT ![p].isOpen = FALSE, ![p].holdingRemote = {},
                     ![p].sendXonXoff = "none"] = s
    BY <1>1 DEF s, q
  <2>2. [t EXCEPT ![p].size = 0, ![p].limit = 0, ![p].busy = 0] = u
    BY <1>5 DEF Loose
  <2> HIDE DEF t, u
  <2> QED
    BY <2>1, <2>2 DEF Close, t
<1> HIDE DEF t
<1>7. LineStirred(q, t[p]) /\ LineStirred(port[r], t[r])
  BY <1>1, <1>4, <1>5 DEF LinesStir
<1>8. Sound(q) /\ Awake(c, q)
  BY <1>1, <1>2, <1>3 DEF Sound, Fine, Awake, Ready, HasData, HasChar
<1>9. /\ t \in [Ports -> PortType] /\ t[p] \in PortType /\ Fit(t[p])
      /\ ~t[p].isOpen /\ t[p].reading = 0 /\ t[p].holdingRemote = {}
      /\ t[p].writing = 0 /\ t[p].sendXonXoff = "none"
      /\ t[p].tryWrite = c.tryWrite /\ t[p].flow = c.flow
      /\ Sound(t[p]) /\ Awake(q, t[p])
  <2>1. t[p].holdingRemote = {}
    BY <1>3, <1>4, <1>5 DEF SameFlow, SameBuffer
  <2> QED
    BY <1>3, <1>5, <1>7, <1>8, <2>1
       DEF Loose, LineStirred, Stirred, Goes, SameSetting
<1>10. /\ d \in PortType /\ Good(d) /\ ~d.isOpen /\ d.size = 0 /\ d.limit = 0
       /\ d.busy = 0 /\ d.reading = 0 /\ d.writing = 0
       /\ d.sendXonXoff = "none" /\ d.flow = c.flow
       /\ d.tryWrite = t[p].tryWrite /\ d.tx = t[p].tx
       /\ d.holding = t[p].holding /\ d.sendBreak = t[p].sendBreak
  BY <1>1, <1>9 DEF PortType, Good, Fit
<1> HIDE DEF d
<1>11. u[p] = d /\ u[r] = t[r]
  BY <1>1, <1>9
<1>12. u \in States
  <2>1. Good(t[r])
    BY <1>1, <1>4, <1>5 DEF Loose, Good, SameFlow, SameBuffer
  <2>2. u \in [Ports -> PortType]
    BY <1>9, <1>10
  <2> HIDE DEF u
  <2> QED
    BY <1>10, <1>11, <2>1, <2>2, RemotePort DEF States
<1> HIDE DEF u
<1>13. /\ Stirs(u, v) /\ v[r] = t[r] /\ v[p].tryWrite = c.tryWrite
  BY <1>1, <1>9, <1>10, <1>11, <1>12, BreakStir
<1> HIDE DEF v, c
<1>14. Sound(d) /\ Awake(t[p], d) /\ Full(d)
  BY <1>9, <1>10 DEF Sound, Awake, Ready, HasData, HasChar, Full
<1>15. Fine(u)
  <2>1. Sound(port[r]) /\ Limited(port, r)
    BY <1>1, <1>2 DEF Fine
  <2>2. Sound(t[r]) /\ SameSetting(port[r], t[r])
    BY <1>7, <2>1 DEF LineStirred, Stirred, Goes
  <2>3. LimitFor(u[r], u[p]) = LimitFor(port[r], port[p])
    BY <1>10, <1>11, <2>2, LimitForSame DEF SameSetting, c
  <2>4. Limited(u, r)
    BY <1>1, <1>11, <2>1, <2>2, <2>3 DEF Limited, SameSetting
  <2>5. Limited(u, p)
    BY <1>10, <1>11 DEF Limited, LimitFor
  <2> QED
    BY <1>11, <1>14, <2>2, <2>4, <2>5, RemotePort DEF Fine
<1>16. Fine(v)
  BY <1>13, <1>15, StirsStayFine
<1>17. ASSUME Orderly' PROVE Served(v, p) /\ Served(v, r)
  <2>1. Served(port, p)
    BY <1>1, <1>2, <1>17 DEF Orderly
  <2>2. Awake(c, d)
    BY <1>8, <1>9, <1>14, AwakeTwice
  <2>3. Full(port[r]) => Full(t[r])
    BY <1>7, StirredFull DEF LineStirred
  <2>4. Served(u, p)
    BY <1>11, <2>1, <2>2, <2>3, ServedKept DEF c
  <2>5. Served(u, r)
    BY <1>1, <1>11, <1>14 DEF Served
  <2> QED
    BY <1>1, <1>13, <2>4, <2>5, StirsServed
<1>18. Orderly' => \A x \in Ports : ~Due(x)' => Served(v, x)
  BY <1>17, RemotePort
<1>19. \A x \in Ports : v[x].tryWrite => ~v[Remote(x)].isOpen
  <2>1. /\ v[r].isOpen = port[r].isOpen /\ ~v[p].isOpen
    BY <1>1, <1>7, <1>10, <1>11, <1>13
       DEF Stirs, LineStirred, Stirred, Goes
  <2> QED
    BY <1>1, <1>2, <1>13, <2>1, RemotePort
<1> QED
  BY <1>6, <1>16, <1>18, <1>19, ServeStep

LEMMA HeldStep == LinesInv /\ HeldInv /\ [Next]_vars => HeldInv'
<1> SUFFICES ASSUME LinesInv, HeldInv, [Next]_vars PROVE HeldInv'
  OBVIOUS
<1>1. ASSUME NEW p \in Ports, AddFdoPort(p) PROVE HeldInv'
  BY <1>1, AddHeld
<1>2. ASSUME NEW p \in Ports, Open(p) PROVE HeldInv'
  BY <1>2, OpenHeld
<1>3. ASSUME NEW p \in Ports, Close(p) PROVE HeldInv'
  BY <1>3, CloseHeld
<1>4. ASSUME NEW p \in Ports, NEW n \in WriteSizes, Write(p, n) PROVE HeldInv'
  BY <1>4, WriteHeld
<1>5. ASSUME NEW p \in Ports, NEW n \in ReadSizes, Read(p, n) PROVE HeldInv'
  BY <1>5, ReadHeld
<1>6. ASSUME NEW p \in Ports, Abort(p) PROVE HeldInv'
  BY <1>6, AbortHeld
<1>7. ASSUME NEW p \in Ports, Purge(p) PROVE HeldInv'
  BY <1>7, PurgeHeld
<1>8. ASSUME NEW p \in Ports, NEW flow \in Flows[p], ChangeHandFlow(p, flow)
      PROVE  HeldInv'
  BY <1>8, ChangeHeld
<1>9. ASSUME NEW p \in Ports, ByHand(p) PROVE HeldInv'
  BY <1>9, ByHandHeld
<1>10. CASE OpenLine
  BY <1>10, OpenLineHeld
<1>11. CASE Transfer
  BY <1>11, TransferHeld
<1>12. CASE UNCHANGED vars
  BY <1>12 DEF vars, HeldInv, Fine, Limited, Asked, Serving, Orderly, Due, Served
<1> QED
  BY <1>1, <1>2, <1>3, <1>4, <1>5, <1>6, <1>7, <1>8, <1>9, <1>10, <1>11, <1>12
     DEF Next

(* Nothing waits that could move, whatever the wiring and the settings: a  *)
(* character on its way, a write, or an XON or XOFF that no handshake      *)
(* holds, finds readBuf of the other end full and no read there, and who   *)
(* asked for ReadWrite got it unless the other end is closed.  Whatever    *)
(* lets go a hold (a line, XON, the end of a break) or queues XON or XOFF  *)
(* sets tryWrite, and ReadWrite runs until nobody asks (handflow.c,        *)
(* ioctl.c, ReadWrite in io.c); only a purge or a setting that makes room  *)
(* does neither.                                                           *)
THEOREM NothingIsHeldBack == Spec => []NothingHeldBack
<1>1. LinesInv /\ HeldInv => NothingHeldBack
  <2> SUFFICES ASSUME LinesInv, HeldInv, Free, Orderly, NEW p \in Ports
               PROVE  LET q == port[Remote(p)]
                      IN  /\ port[p].tryWrite => ~q.isOpen
                          /\ Ready(port[p]) => Full(q)
    BY DEF NothingHeldBack, Orderly, Ready, HasData, HasChar, Full
  <2>1. /\ Served(port, p)
        /\ port[p].tryWrite => ~port[Remote(p)].isOpen
    BY FreeServed
  <2>2. ~port[Remote(p)].isOpen => Full(port[Remote(p)])
    BY RemotePort DEF LinesInv, States, Good, Full
  <2> QED
    BY <2>1, <2>2 DEF Served
<1>2. Spec => [](LinesInv /\ HeldInv)
  <2>1. Init => LinesInv /\ HeldInv
    BY LinesInit, HeldInit
  <2>2. LinesInv /\ HeldInv /\ [Next]_vars => (LinesInv /\ HeldInv)'
    BY LinesStep, HeldStep
  <2> QED
    BY <2>1, <2>2, PTL DEF Spec
<1> QED
  BY <1>1, <1>2, PTL
=============================================================================
