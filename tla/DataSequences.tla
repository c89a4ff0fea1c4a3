--------------------------- MODULE DataSequences ----------------------------
(***************************************************************************)
(* Lemmas about sequences that the proofs about DataPath need: the         *)
(* flattening of a sequence of sequences, the elements of a sequence, and  *)
(* what a filter passes.                                                   *)
(***************************************************************************)
EXTENDS Filter, SequencesExt, SequenceTheorems, FiniteSetTheorems,
        WellFoundedInduction, TLAPS

(***************************************************************************)
(* Induction over the naturals as the least of a set of counterexamples.   *)
(***************************************************************************)
(* A set of naturals that is not empty has a least element.                *)
LEMMA LeastOf ==
  ASSUME NEW T \in SUBSET Nat, T # {}
  PROVE  \E x \in T : \A y \in T : x <= y
<1>1. PICK x \in T : \A y \in T : ~ (<<y, x>> \in OpToRel(<, Nat))
  BY NatLessThanWellFounded, WFMin
<1>2. \A y \in T : ~ (y < x)
  BY <1>1 DEF OpToRel
<1> QED
  BY <1>2

(* Max of FiniteSetsExt is the largest element.                            *)
LEMMA MaxIs ==
  ASSUME NEW n \in Nat, NEW T \in SUBSET (0 .. n), T # {}
  PROVE  /\ Max(T) \in T
         /\ \A y \in T : y <= Max(T)
<1> DEFINE U == {n - x : x \in T}
<1>1. U \in SUBSET Nat /\ U # {}
  <2>1. \A x \in T : n - x \in Nat
    OBVIOUS
  <2> QED
    BY <2>1
<1>2. PICK u \in U : \A v \in U : u <= v
  BY <1>1, LeastOf
<1>3. PICK m \in T : u = n - m
  BY <1>2
<1>4. \A y \in T : m >= y
  <2> TAKE y \in T
  <2>1. n - y \in U
    OBVIOUS
  <2>2. n - m <= n - y
    BY <1>2, <1>3, <2>1
  <2> QED
    BY <2>2
<1>5. /\ Max(T) \in T
      /\ \A y \in T : Max(T) >= y
  BY <1>4 DEF Max
<1> QED
  BY <1>5

(***************************************************************************)
(* FlattenSeq.                                                             *)
(***************************************************************************)
Upto(f, ss, n) ==
  f = [i \in 1 .. n |-> IF i = 1 THEN ss[i] ELSE f[i - 1] \o ss[i]]

Flattens(f, ss) == Upto(f, ss, Len(ss))

Agree(f, g, n) == \A i \in 1 .. n : f[i] = g[i]

LEMMA UptoIs ==
  ASSUME NEW ss, NEW n \in Nat, NEW f, Upto(f, ss, n), NEW i \in 1 .. n
  PROVE  f[i] = IF i = 1 THEN ss[i] ELSE f[i - 1] \o ss[i]
  BY DEF Upto

(* Two functions that flatten the same beginning agree on it.              *)
LEMMA FlattensOnce ==
  ASSUME NEW S, NEW ss \in Seq(Seq(S)), NEW tt \in Seq(Seq(S)),
         NEW n \in Nat, n <= Len(ss), n <= Len(tt),
         Agree(ss, tt, n),
         NEW f, NEW g, Flattens(f, ss), Flattens(g, tt)
  PROVE  Agree(f, g, n)
<1> DEFINE T == {i \in 1 .. n : f[i] # g[i]}
<1> SUFFICES ASSUME T # {}
             PROVE  FALSE
  BY DEF Agree
<1>1. PICK i \in T : \A j \in T : i <= j
  <2>1. T \in SUBSET Nat
    OBVIOUS
  <2> QED
    BY <2>1, LeastOf
<1>2. i \in 1 .. Len(ss) /\ i \in 1 .. Len(tt) /\ ss[i] = tt[i]
  BY LenProperties DEF Agree
<1>3. /\ f[i] = IF i = 1 THEN ss[i] ELSE f[i - 1] \o ss[i]
      /\ g[i] = IF i = 1 THEN tt[i] ELSE g[i - 1] \o tt[i]
  BY <1>2, UptoIs, LenProperties DEF Flattens
<1>4. i # 1 => f[i - 1] = g[i - 1]
  BY <1>1
<1> QED
  BY <1>1, <1>2, <1>3, <1>4

(* There is one: each beginning can be flattened.                          *)
LEMMA FlattensExists ==
  ASSUME NEW S, NEW ss \in Seq(Seq(S))
  PROVE  \E f : Flattens(f, ss)
<1> DEFINE T == {n \in 0 .. Len(ss) : ~ \E f : Upto(f, ss, n)}
<1>1. Len(ss) \in Nat
  BY LenProperties
<1>2. SUFFICES T = {}
  BY <1>1 DEF Flattens
<1>3. SUFFICES ASSUME T # {}
               PROVE  FALSE
  OBVIOUS
<1>4. PICK n \in T : \A m \in T : n <= m
  <2>1. T \in SUBSET Nat
    BY <1>1
  <2> HIDE DEF T
  <2> QED
    BY <2>1, <1>3, LeastOf
<1>5. n # 0
  <2>1. Upto(<<>>, ss, 0)
    BY DEF Upto
  <2> QED
    BY <2>1, <1>4
<1>6. n - 1 \in 0 .. Len(ss) /\ n - 1 \notin T
  <2>1. n \in 1 .. Len(ss)
    BY <1>1, <1>4, <1>5
  <2>2. n - 1 \in 0 .. Len(ss) /\ ~(n <= n - 1)
    BY <1>1, <2>1
  <2> HIDE DEF T
  <2> QED
    BY <1>4, <2>2
<1>7. PICK f : Upto(f, ss, n - 1)
  BY <1>6
<1> DEFINE g == [i \in 1 .. n |-> IF i < n THEN f[i]
                                 ELSE IF n = 1 THEN ss[n]
                                 ELSE f[n - 1] \o ss[n]]
<1>8. ASSUME NEW i \in 1 .. n
      PROVE  g[i] = IF i = 1 THEN ss[i] ELSE g[i - 1] \o ss[i]
  <2>1. CASE i = n
    <3>1. n # 1 => g[n - 1] = f[n - 1]
      BY <1>1, <1>4
    <3> QED
      BY <2>1, <3>1
  <2>2. CASE i < n
    <3>1. i \in 1 .. n - 1
      BY <2>2, <1>1, <1>4
    <3>2. f[i] = IF i = 1 THEN ss[i] ELSE f[i - 1] \o ss[i]
      BY <1>7, <3>1, <1>1, <1>4, <1>5, UptoIs
    <3>3. i # 1 => g[i - 1] = f[i - 1]
      BY <3>1, <1>1, <1>4
    <3> QED
      BY <2>2, <3>2, <3>3
  <2> QED
    BY <2>1, <2>2, <1>1, <1>4
<1>9. Upto(g, ss, n)
  BY <1>8 DEF Upto
<1> QED
  BY <1>9, <1>4

(* What FlattenSeq returns.                                                *)
LEMMA FlattenIs ==
  ASSUME NEW S, NEW ss \in Seq(Seq(S)), NEW f, Flattens(f, ss)
  PROVE  FlattenSeq(ss) = IF ss = <<>> THEN <<>> ELSE f[Len(ss)]
<1>1. CASE ss = <<>>
  BY <1>1, EmptySeq DEF FlattenSeq
<1>2. CASE ss # <<>>
  <2> DEFINE g == CHOOSE h : Flattens(h, ss)
  <2>1. Flattens(g, ss)
    BY FlattensExists
  <2>2. Len(ss) \in Nat /\ Len(ss) # 0
    BY <1>2, EmptySeq
  <2>3. FlattenSeq(ss) = g[Len(ss)]
    BY <2>2 DEF FlattenSeq, Flattens, Upto
  <2> HIDE DEF g
  <2>4. Agree(f, g, Len(ss))
    <3>1. Agree(ss, ss, Len(ss))
      BY DEF Agree
    <3> QED
      BY <2>1, <2>2, <3>1, FlattensOnce
  <2> QED
    BY <1>2, <2>2, <2>3, <2>4 DEF Agree
<1> QED
  BY <1>1, <1>2

LEMMA FlattenEmpty == FlattenSeq(<<>>) = <<>>
  BY DEF FlattenSeq

(* One more sequence at the end.                                           *)
LEMMA FlattenAppend ==
  ASSUME NEW S, NEW ss \in Seq(Seq(S)), NEW s \in Seq(S)
  PROVE  FlattenSeq(Append(ss, s)) = FlattenSeq(ss) \o s
<1> DEFINE tt == Append(ss, s)
<1>1. /\ tt \in Seq(Seq(S)) /\ Len(tt) = Len(ss) + 1 /\ tt # <<>>
      /\ tt[Len(tt)] = s /\ \A i \in 1 .. Len(ss) : tt[i] = ss[i]
      /\ Len(ss) \in Nat
  BY AppendProperties, LenProperties
<1> HIDE DEF tt
<1>2. PICK f : Flattens(f, ss)
  BY FlattensExists
<1>3. PICK g : Flattens(g, tt)
  BY <1>1, FlattensExists
<1>4. FlattenSeq(tt) = g[Len(tt)]
  BY <1>1, <1>3, FlattenIs
<1>5. g[Len(tt)] = IF Len(tt) = 1 THEN s ELSE g[Len(ss)] \o s
  <2>1. Len(tt) \in 1 .. Len(tt) /\ Len(tt) - 1 = Len(ss)
    BY <1>1
  <2> QED
    BY <1>1, <1>3, <2>1, UptoIs DEF Flattens
<1>6. CASE ss = <<>>
  BY <1>1, <1>4, <1>5, <1>6, FlattenEmpty, ConcatEmptySeq, EmptySeq DEF tt
<1>7. CASE ss # <<>>
  <2>1. Len(ss) \in Nat /\ Len(ss) # 0
    BY <1>7, EmptySeq
  <2>2. Agree(g, f, Len(ss))
    <3>1. /\ Len(ss) <= Len(ss) /\ Len(ss) <= Len(tt)
          /\ Agree(tt, ss, Len(ss))
      BY <1>1 DEF Agree
    <3> QED
      BY <1>1, <1>2, <1>3, <3>1, FlattensOnce
  <2>3. FlattenSeq(ss) = f[Len(ss)]
    BY <1>2, <1>7, FlattenIs
  <2> QED
    <3>1. Len(tt) # 1 /\ Len(ss) \in 1 .. Len(ss)
      BY <1>1, <2>1
    <3>2. FlattenSeq(tt) = f[Len(ss)] \o s
      BY <1>4, <1>5, <2>2, <3>1 DEF Agree
    <3> QED
      BY <2>3, <3>2 DEF tt
<1> QED
  BY <1>6, <1>7

(* The first n elements, and the others.                                   *)
LEMMA FirstIs ==
  ASSUME NEW S, NEW s \in Seq(S), NEW n \in Nat, n <= Len(s)
  PROVE  /\ SubSeq(s, 1, n) \in Seq(S) /\ Len(SubSeq(s, 1, n)) = n
         /\ \A i \in 1 .. n : SubSeq(s, 1, n)[i] = s[i]
<1>1. \A i \in 1 .. n : s[i] \in S
  BY ElementOfSeq, LenProperties
<1>2. /\ SubSeq(s, 1, n) \in Seq(S)
      /\ Len(SubSeq(s, 1, n)) = IF 1 <= n THEN n - 1 + 1 ELSE 0
      /\ \A i \in 1 .. n - 1 + 1 : SubSeq(s, 1, n)[i] = s[1 + i - 1]
  BY <1>1, SubSeqProperties
<1>3. n - 1 + 1 = n
  OBVIOUS
<1>4. Len(SubSeq(s, 1, n)) = n
  BY <1>2, <1>3
<1>5. ASSUME NEW i \in 1 .. n
      PROVE  SubSeq(s, 1, n)[i] = s[i]
  <2>1. 1 + i - 1 = i
    OBVIOUS
  <2> QED
    BY <1>2, <1>3, <2>1
<1> QED
  BY <1>2, <1>4, <1>5

(* A sequence is empty or has a last element.                              *)
LEMMA SnocCases ==
  ASSUME NEW S, NEW s \in Seq(S)
  PROVE  \/ s = <<>>
         \/ \E t \in Seq(S), c \in S : s = Append(t, c) /\ Len(s) = Len(t) + 1
<1>1. SUFFICES ASSUME s # <<>>
               PROVE  \E t \in Seq(S), c \in S :
                         s = Append(t, c) /\ Len(s) = Len(t) + 1
  OBVIOUS
<1>2. PICK n \in Nat : Len(s) = n + 1
  <2>1. Len(s) \in Nat /\ Len(s) # 0
    BY <1>1, EmptySeq
  <2> QED
    BY <2>1
<1> DEFINE t == SubSeq(s, 1, n)
           c == s[n + 1]
<1>3. /\ t \in Seq(S) /\ Len(t) = n
      /\ \A i \in 1 .. n : t[i] = s[i]
  BY <1>2, FirstIs
<1>4. c \in S
  BY <1>2, ElementOfSeq
<1> HIDE DEF t
<1>5. /\ Append(t, c) \in Seq(S)
      /\ Len(Append(t, c)) = n + 1
      /\ \A i \in 1 .. n : Append(t, c)[i] = s[i]
      /\ Append(t, c)[n + 1] = s[n + 1]
  <2> HIDE DEF c
  <2>1. /\ Append(t, c) \in Seq(S)
        /\ Len(Append(t, c)) = n + 1
        /\ \A i \in 1 .. n : Append(t, c)[i] = t[i]
        /\ Append(t, c)[n + 1] = c
    BY <1>3, <1>4, AppendProperties
  <2> QED
    BY <1>3, <2>1 DEF c
<1>6. Append(t, c) = s
  <2> HIDE DEF c
  <2>1. \A i \in 1 .. Len(s) : Append(t, c)[i] = s[i]
    BY <1>2, <1>5
  <2> QED
    BY <1>2, <1>5, <2>1, SeqEqual
<1> QED
  BY <1>2, <1>3, <1>4, <1>6

(* A concatenation grows at its end.                                       *)
LEMMA ConcatAppend ==
  ASSUME NEW S, NEW s \in Seq(S), NEW t \in Seq(S), NEW c \in S
  PROVE  s \o Append(t, c) = Append(s \o t, c)
<1>1. Append(t, c) = t \o <<c>> /\ Append(s \o t, c) = (s \o t) \o <<c>>
  BY AppendIsConcat, ConcatProperties
<1>2. <<c>> \in Seq(S)
  OBVIOUS
<1> QED
  BY <1>1, <1>2, ConcatAssociative

LEMMA FlattenType ==
  ASSUME NEW S, NEW ss \in Seq(Seq(S))
  PROVE  FlattenSeq(ss) \in Seq(S)
<1> DEFINE T == {n \in Nat : \E tt \in Seq(Seq(S)) :
                    Len(tt) = n /\ FlattenSeq(tt) \notin Seq(S)}
<1> SUFFICES ASSUME T # {}
             PROVE  FALSE
  BY LenProperties
<1>1. PICK n \in T : \A m \in T : n <= m
  <2>1. T \in SUBSET Nat
    OBVIOUS
  <2> HIDE DEF T
  <2> QED
    BY <2>1, LeastOf
<1>2. PICK tt \in Seq(Seq(S)) : Len(tt) = n /\ FlattenSeq(tt) \notin Seq(S)
  BY <1>1
<1>3. CASE tt = <<>>
  BY <1>2, <1>3, FlattenEmpty, EmptySeq
<1>4. ASSUME NEW uu \in Seq(Seq(S)), NEW s \in Seq(S), tt = Append(uu, s),
             Len(tt) = Len(uu) + 1
      PROVE  FALSE
  <2>0. Len(uu) \in Nat
    BY LenProperties
  <2>1. ~(n <= Len(uu))
    BY <1>2, <1>4, <2>0
  <2>2. FlattenSeq(uu) \in Seq(S)
    BY <1>1, <2>0, <2>1
  <2> QED
    BY <1>2, <1>4, <2>2, FlattenAppend, ConcatProperties
<1> QED
  BY <1>3, <1>4, SnocCases

FlatConcat(aa, bb) ==
  FlattenSeq(aa \o bb) = FlattenSeq(aa) \o FlattenSeq(bb)

LEMMA FlatConcatAppend ==
  ASSUME NEW S, NEW aa \in Seq(Seq(S)), NEW uu \in Seq(Seq(S)),
         NEW s \in Seq(S), FlatConcat(aa, uu)
  PROVE  FlatConcat(aa, Append(uu, s))
<1>1. aa \o Append(uu, s) = Append(aa \o uu, s)
  BY ConcatAppend
<1>2. FlattenSeq(Append(aa \o uu, s)) = FlattenSeq(aa \o uu) \o s
  BY ConcatProperties, FlattenAppend
<1>3. FlattenSeq(Append(uu, s)) = FlattenSeq(uu) \o s
  BY FlattenAppend
<1>4. FlattenSeq(aa) \in Seq(S) /\ FlattenSeq(uu) \in Seq(S)
  BY FlattenType
<1>5. (FlattenSeq(aa) \o FlattenSeq(uu)) \o s
        = FlattenSeq(aa) \o (FlattenSeq(uu) \o s)
  BY <1>4, ConcatAssociative
<1> QED
  BY <1>1, <1>2, <1>3, <1>5 DEF FlatConcat

(* FlattenSeq of a concatenation.                                          *)
LEMMA FlattenConcat ==
  ASSUME NEW S, NEW aa \in Seq(Seq(S)), NEW bb \in Seq(Seq(S))
  PROVE  FlattenSeq(aa \o bb) = FlattenSeq(aa) \o FlattenSeq(bb)
<1> DEFINE T == {n \in Nat : \E tt \in Seq(Seq(S)) :
                    Len(tt) = n /\ ~ FlatConcat(aa, tt)}
<1> SUFFICES ASSUME T # {}
             PROVE  FALSE
  BY LenProperties DEF FlatConcat
<1>1. PICK n \in T : \A m \in T : n <= m
  <2>1. T \in SUBSET Nat
    OBVIOUS
  <2> HIDE DEF T
  <2> QED
    BY <2>1, LeastOf
<1>2. PICK tt \in Seq(Seq(S)) : Len(tt) = n /\ ~ FlatConcat(aa, tt)
  BY <1>1
<1>3. CASE tt = <<>>
  <2>1. aa \o <<>> = aa /\ FlattenSeq(aa) \o <<>> = FlattenSeq(aa)
    BY FlattenType, ConcatEmptySeq
  <2> QED
    BY <1>2, <1>3, <2>1, FlattenEmpty DEF FlatConcat
<1>4. ASSUME NEW uu \in Seq(Seq(S)), NEW s \in Seq(S), tt = Append(uu, s),
             Len(tt) = Len(uu) + 1
      PROVE  FALSE
  <2>0. Len(uu) \in Nat
    BY LenProperties
  <2>1. ~(n <= Len(uu))
    BY <1>2, <1>4, <2>0
  <2>2. FlatConcat(aa, uu)
    BY <1>1, <2>0, <2>1
  <2> QED
    BY <1>2, <1>4, <2>2, FlatConcatAppend
<1> QED
  BY <1>3, <1>4, SnocCases

(* FlattenSeq of one sequence, and with one more at the beginning.         *)
LEMMA FlattenOne ==
  ASSUME NEW S, NEW s \in Seq(S)
  PROVE  FlattenSeq(<<s>>) = s
<1>1. <<s>> = Append(<<>>, s) /\ <<>> \in Seq(Seq(S))
  OBVIOUS
<1> QED
  <2>1. FlattenSeq(Append(<<>>, s)) = FlattenSeq(<<>>) \o s
    BY <1>1, FlattenAppend
  <2>2. <<>> \o s = s
    BY ConcatEmptySeq
  <2> QED
    BY <1>1, <2>1, <2>2, FlattenEmpty

(***************************************************************************)
(* The elements of a sequence.                                             *)
(***************************************************************************)
LEMMA RangeIs ==
  ASSUME NEW S, NEW s \in Seq(S)
  PROVE  /\ Range(s) = {s[i] : i \in 1 .. Len(s)}
         /\ Range(s) \subseteq S
  BY LenProperties, ElementOfSeq DEF Range

LEMMA RangeConcat ==
  ASSUME NEW S, NEW s \in Seq(S), NEW t \in Seq(S)
  PROVE  Range(s \o t) = Range(s) \cup Range(t)
<1>1. /\ s \o t \in Seq(S) /\ Len(s \o t) = Len(s) + Len(t)
      /\ \A i \in 1 .. Len(s) + Len(t) :
           (s \o t)[i] = IF i <= Len(s) THEN s[i] ELSE t[i - Len(s)]
      /\ Len(s) \in Nat /\ Len(t) \in Nat
  BY ConcatProperties, LenProperties
<1>2. /\ Range(s \o t) = {(s \o t)[i] : i \in 1 .. Len(s \o t)}
      /\ Range(s) = {s[i] : i \in 1 .. Len(s)}
      /\ Range(t) = {t[i] : i \in 1 .. Len(t)}
  BY <1>1, RangeIs
<1>3. ASSUME NEW c \in Range(s \o t)
      PROVE  c \in Range(s) \cup Range(t)
  <2>1. PICK i \in 1 .. Len(s) + Len(t) : c = (s \o t)[i]
    BY <1>1, <1>2
  <2>2. CASE i <= Len(s)
    <3>1. i \in 1 .. Len(s) /\ c = s[i]
      BY <1>1, <2>1, <2>2
    <3> QED
      BY <1>2, <3>1
  <2>3. CASE ~(i <= Len(s))
    <3>1. i - Len(s) \in 1 .. Len(t) /\ c = t[i - Len(s)]
      BY <1>1, <2>1, <2>3
    <3> QED
      BY <1>2, <3>1
  <2> QED
    BY <2>2, <2>3
<1>4. ASSUME NEW c \in Range(s)
      PROVE  c \in Range(s \o t)
  <2>1. PICK i \in 1 .. Len(s) : c = s[i]
    BY <1>2
  <2>2. i \in 1 .. Len(s \o t) /\ c = (s \o t)[i]
    BY <1>1, <2>1
  <2> QED
    BY <1>2, <2>2
<1>5. ASSUME NEW c \in Range(t)
      PROVE  c \in Range(s \o t)
  <2>1. PICK i \in 1 .. Len(t) : c = t[i]
    BY <1>2
  <2>2. /\ i + Len(s) \in 1 .. Len(s) + Len(t) /\ ~(i + Len(s) <= Len(s))
        /\ i + Len(s) - Len(s) = i
    BY <1>1, <2>1
  <2>3. c = (s \o t)[i + Len(s)]
    BY <1>1, <2>1, <2>2
  <2> QED
    BY <1>1, <1>2, <2>2, <2>3
<1> QED
  BY <1>3, <1>4, <1>5

LEMMA RangeAppend ==
  ASSUME NEW S, NEW s \in Seq(S), NEW c \in S
  PROVE  Range(Append(s, c)) = Range(s) \cup {c}
<1>1. Append(s, c) = s \o <<c>> /\ <<c>> \in Seq(S)
  BY AppendIsConcat
<1>2. Range(<<c>>) = {c}
  BY DEF Range
<1>3. Range(s \o <<c>>) = Range(s) \cup Range(<<c>>)
  BY <1>1, RangeConcat
<1> QED
  BY <1>1, <1>2, <1>3

LEMMA RangeEmpty == Range(<<>>) = {}
  BY DEF Range

Whole(tt, c) ==
  c \in Range(FlattenSeq(tt)) <=> \E i \in 1 .. Len(tt) : c \in Range(tt[i])

(* An element of FlattenSeq is one of a part.                              *)
LEMMA RangeFlatten ==
  ASSUME NEW S, NEW ss \in Seq(Seq(S)), NEW c
  PROVE  c \in Range(FlattenSeq(ss)) <=> \E i \in 1 .. Len(ss) : c \in Range(ss[i])
<1> DEFINE T == {n \in Nat : \E tt \in Seq(Seq(S)) :
                    Len(tt) = n /\ ~ Whole(tt, c)}
<1>0. SUFFICES ASSUME T # {}
               PROVE  FALSE
  BY LenProperties DEF Whole
<1>1. PICK n \in T : \A m \in T : n <= m
  <2>1. T \in SUBSET Nat
    OBVIOUS
  <2> HIDE DEF T
  <2> QED
    BY <1>0, <2>1, LeastOf
<1>2. PICK tt \in Seq(Seq(S)) : Len(tt) = n /\ ~ Whole(tt, c)
  BY <1>1
<1>3. CASE tt = <<>>
  <2>1. Len(tt) = 0
    BY <1>3, EmptySeq
  <2>2. Whole(tt, c)
    BY <1>3, <2>1, FlattenEmpty, RangeEmpty DEF Whole
  <2> QED
    BY <1>2, <2>2
<1>4. ASSUME NEW uu \in Seq(Seq(S)), NEW s \in Seq(S), tt = Append(uu, s),
             Len(tt) = Len(uu) + 1
      PROVE  FALSE
  <2>1. Len(uu) \in Nat
    BY LenProperties
  <2>2. ~(n <= Len(uu))
    BY <1>2, <1>4, <2>1
  <2>3. Whole(uu, c)
    BY <1>1, <2>1, <2>2
  <2>4. Range(FlattenSeq(tt)) = Range(FlattenSeq(uu)) \cup Range(s)
    <3>1. FlattenSeq(tt) = FlattenSeq(uu) \o s
      BY <1>4, FlattenAppend
    <3>2. FlattenSeq(uu) \in Seq(S)
      BY FlattenType
    <3> QED
      BY <3>1, <3>2, RangeConcat
  <2>5. /\ \A i \in 1 .. Len(uu) : tt[i] = uu[i]
        /\ tt[Len(uu) + 1] = s
    BY <1>4, AppendProperties
  <2>6. (\E i \in 1 .. Len(tt) : c \in Range(tt[i]))
          <=> \/ \E i \in 1 .. Len(uu) : c \in Range(uu[i])
              \/ c \in Range(s)
    <3> DEFINE m == Len(uu)
    <3>1. m \in Nat /\ Len(tt) = m + 1
      BY <1>4, <2>1
    <3>2. \A i \in 1 .. m : Range(tt[i]) = Range(uu[i])
      BY <2>5
    <3>3. Range(tt[m + 1]) = Range(s)
      BY <2>5
    <3> HIDE DEF m
    <3>4. (\E i \in 1 .. m + 1 : c \in Range(tt[i]))
            <=> \/ \E i \in 1 .. m : c \in Range(tt[i])
                \/ c \in Range(tt[m + 1])
      BY <3>1
    <3> QED
      BY <3>1, <3>2, <3>3, <3>4 DEF m
  <2> QED
    BY <1>2, <2>3, <2>4, <2>6 DEF Whole
<1> QED
  BY <1>3, <1>4, SnocCases

(***************************************************************************)
(* Without.                                                                *)
(***************************************************************************)
Passed(f, s, gone, i) ==
  IF i = 0 THEN <<>>
  ELSE IF s[i] \in gone THEN f[i - 1]
  ELSE Append(f[i - 1], s[i])

Passes(f, s, gone, n) == f = [i \in 0 .. n |-> Passed(f, s, gone, i)]

LEMMA PassesIs ==
  ASSUME NEW s, NEW gone, NEW n \in Nat, NEW f, Passes(f, s, gone, n),
         NEW i \in 0 .. n
  PROVE  f[i] = Passed(f, s, gone, i)
  BY DEF Passes

(* Two functions that filter the same beginning agree on it.               *)
LEMMA PassesOnce ==
  ASSUME NEW s, NEW t, NEW gone, NEW m \in Nat, NEW k \in Nat,
         NEW n \in Nat, n <= m, n <= k, Agree(s, t, n),
         NEW f, NEW g, Passes(f, s, gone, m), Passes(g, t, gone, k)
  PROVE  \A i \in 0 .. n : f[i] = g[i]
<1> DEFINE T == {i \in 0 .. n : f[i] # g[i]}
<1> SUFFICES ASSUME T # {}
             PROVE  FALSE
  OBVIOUS
<1>1. PICK i \in T : \A j \in T : i <= j
  <2>1. T \in SUBSET Nat
    OBVIOUS
  <2> QED
    BY <2>1, LeastOf
<1>2. i \in 0 .. m /\ i \in 0 .. k /\ (i # 0 => s[i] = t[i])
  BY DEF Agree
<1>3. f[i] = Passed(f, s, gone, i) /\ g[i] = Passed(g, t, gone, i)
  BY <1>2, PassesIs
<1>4. i # 0 => f[i - 1] = g[i - 1]
  BY <1>1
<1>5. Passed(f, s, gone, i) = Passed(g, t, gone, i)
  BY <1>2, <1>4 DEF Passed
<1> QED
  BY <1>1, <1>3, <1>5

LEMMA PassesExists ==
  ASSUME NEW s, NEW gone, NEW len \in Nat
  PROVE  \E f : Passes(f, s, gone, len)
<1> DEFINE T == {n \in 0 .. len : ~ \E f : Passes(f, s, gone, n)}
<1>1. SUFFICES ASSUME T # {}
               PROVE  FALSE
  OBVIOUS
<1>2. PICK n \in T : \A m \in T : n <= m
  <2>1. T \in SUBSET Nat
    OBVIOUS
  <2> HIDE DEF T
  <2> QED
    BY <2>1, <1>1, LeastOf
<1>3. n # 0
  <2>1. Passes([i \in 0 .. 0 |-> <<>>], s, gone, 0)
    BY DEF Passes, Passed
  <2> QED
    BY <2>1, <1>2
<1>4. n - 1 \in 0 .. len /\ n - 1 \notin T
  <2>1. n \in 1 .. len
    BY <1>2, <1>3
  <2>2. n - 1 \in 0 .. len /\ ~(n <= n - 1)
    BY <2>1
  <2> HIDE DEF T
  <2> QED
    BY <1>2, <2>2
<1>5. PICK f : Passes(f, s, gone, n - 1)
  BY <1>4
<1> DEFINE g == [i \in 0 .. n |-> IF i < n THEN f[i]
                                 ELSE IF s[n] \in gone THEN f[n - 1]
                                 ELSE Append(f[n - 1], s[n])]
<1>6. n \in Nat /\ n - 1 \in Nat
  BY <1>2, <1>3
<1>7. ASSUME NEW i \in 0 .. n
      PROVE  g[i] = Passed(g, s, gone, i)
  <2>1. CASE i = n
    <3>1. g[n - 1] = f[n - 1]
      BY <1>6
    <3>2. g[n] = IF s[n] \in gone THEN f[n - 1] ELSE Append(f[n - 1], s[n])
      BY <1>6
    <3> HIDE DEF g
    <3> QED
      BY <2>1, <3>1, <3>2, <1>3 DEF Passed
  <2>2. CASE i < n
    <3>1. i \in 0 .. n - 1
      BY <2>2, <1>6
    <3>2. f[i] = Passed(f, s, gone, i)
      BY <1>5, <1>6, <3>1, PassesIs
    <3>3. i # 0 => g[i - 1] = f[i - 1]
      BY <3>1, <1>6
    <3>4. g[i] = f[i]
      BY <2>2
    <3> HIDE DEF g
    <3> QED
      BY <3>2, <3>3, <3>4 DEF Passed
  <2> QED
    BY <2>1, <2>2, <1>6
<1>8. Passes(g, s, gone, n)
  BY <1>7 DEF Passes
<1> QED
  BY <1>8, <1>2

(* What Without returns.                                                   *)
LEMMA WithoutIs ==
  ASSUME NEW S, NEW s \in Seq(S), NEW gone,
         NEW f, Passes(f, s, gone, Len(s))
  PROVE  Without(s, gone) = f[Len(s)]
<1>1. Len(s) \in Nat
  BY LenProperties
<1> DEFINE g == CHOOSE h : Passes(h, s, gone, Len(s))
<1>2. Passes(g, s, gone, Len(s))
  BY <1>1, PassesExists
<1>3. Without(s, gone) = g[Len(s)]
  BY DEF Without, Passes, Passed
<1> HIDE DEF g
<1>4. Agree(s, s, Len(s))
  BY DEF Agree
<1>5. \A i \in 0 .. Len(s) : f[i] = g[i]
  BY <1>1, <1>2, <1>4, PassesOnce
<1> QED
  BY <1>1, <1>3, <1>5

LEMMA WithoutEmpty ==
  ASSUME NEW gone
  PROVE  Without(<<>>, gone) = <<>>
<1>1. <<>> \in Seq({}) /\ Len(<<>>) = 0
  BY EmptySeq
<1>2. PICK f : Passes(f, <<>>, gone, 0)
  BY PassesExists
<1>3. f[0] = <<>>
  <2>1. 0 \in Nat /\ 0 \in 0 .. 0
    OBVIOUS
  <2>2. f[0] = Passed(f, <<>>, gone, 0)
    BY <1>2, <2>1, PassesIs
  <2> QED
    BY <2>2 DEF Passed
<1> QED
  BY <1>1, <1>2, <1>3, WithoutIs

LEMMA WithoutAppend ==
  ASSUME NEW S, NEW s \in Seq(S), NEW c \in S, NEW gone
  PROVE  Without(Append(s, c), gone)
           = IF c \in gone THEN Without(s, gone)
             ELSE Append(Without(s, gone), c)
<1> DEFINE t == Append(s, c)
           n == Len(s)
<1>1. /\ t \in Seq(S) /\ Len(t) = n + 1 /\ n \in Nat
      /\ t[n + 1] = c /\ Agree(t, s, n)
  BY AppendProperties, LenProperties DEF Agree
<1> HIDE DEF t, n
<1>2. PICK f : Passes(f, s, gone, n)
  BY <1>1, PassesExists
<1>3. PICK g : Passes(g, t, gone, n + 1)
  <2>1. n + 1 \in Nat
    BY <1>1
  <2> QED
    BY <2>1, PassesExists
<1>4. Without(s, gone) = f[n]
  BY <1>2, WithoutIs DEF n
<1>5. Without(t, gone) = g[n + 1]
  BY <1>1, <1>3, WithoutIs
<1>6. g[n + 1] = IF c \in gone THEN g[n] ELSE Append(g[n], c)
  <2>1. n + 1 \in Nat /\ n + 1 \in 0 .. n + 1 /\ n + 1 # 0 /\ n + 1 - 1 = n
    BY <1>1
  <2>2. g[n + 1] = Passed(g, t, gone, n + 1)
    BY <1>3, <2>1, PassesIs
  <2> QED
    BY <1>1, <2>1, <2>2 DEF Passed
<1>7. g[n] = f[n]
  <2>1. n + 1 \in Nat /\ n <= n + 1 /\ n <= n /\ n \in 0 .. n
    BY <1>1
  <2>2. \A i \in 0 .. n : g[i] = f[i]
    BY <1>1, <1>2, <1>3, <2>1, PassesOnce
  <2> QED
    BY <2>1, <2>2
<1> QED
  BY <1>4, <1>5, <1>6, <1>7 DEF t

(* What Without keeps, of all it is given.                                 *)
Filtered(s, gone, S) ==
  LET w == Without(s, gone)
  IN  /\ w \in Seq(S) /\ Len(w) <= Len(s)
      /\ Range(w) = Range(s) \ gone
      /\ Range(s) \cap gone = {} => w = s
      /\ Range(s) \subseteq gone => w = <<>>

LEMMA FilteredEmpty ==
  ASSUME NEW S, NEW gone
  PROVE  Filtered(<<>>, gone, S)
<1>1. /\ Without(<<>>, gone) = <<>> /\ Range(<<>>) = {}
      /\ <<>> \in Seq(S) /\ Len(<<>>) <= Len(<<>>)
  BY WithoutEmpty, RangeEmpty, EmptySeq
<1>2. {} = {} \ gone
  OBVIOUS
<1> QED
  BY <1>1, <1>2 DEF Filtered

LEMMA FilteredAppend ==
  ASSUME NEW S, NEW s \in Seq(S), NEW c \in S, NEW gone, Filtered(s, gone, S)
  PROVE  Filtered(Append(s, c), gone, S)
<1> DEFINE t == Append(s, c)
           w == Without(s, gone)
           v == Without(t, gone)
<1>1. v = IF c \in gone THEN w ELSE Append(w, c)
  BY WithoutAppend
<1>2. /\ t \in Seq(S) /\ Len(t) = Len(s) + 1 /\ Len(s) \in Nat
      /\ Range(t) = Range(s) \cup {c}
  BY AppendProperties, LenProperties, RangeAppend
<1>3. /\ w \in Seq(S) /\ Len(w) <= Len(s)
      /\ Range(w) = Range(s) \ gone
      /\ Range(s) \cap gone = {} => w = s
      /\ Range(s) \subseteq gone => w = <<>>
  BY DEF Filtered
<1>4. /\ Append(w, c) \in Seq(S) /\ Len(Append(w, c)) = Len(w) + 1
      /\ Range(Append(w, c)) = Range(w) \cup {c} /\ Len(w) \in Nat
  BY <1>3, AppendProperties, RangeAppend, LenProperties
<1>5. Range(t) \cap gone = {} => v = t
  BY <1>1, <1>2, <1>3
<1> HIDE DEF t, w, v
<1>6. CASE c \in gone
  BY <1>1, <1>2, <1>3, <1>5, <1>6 DEF Filtered, t, v
<1>7. CASE c \notin gone
  <2>1. v = Append(w, c)
    BY <1>1, <1>7
  <2>2. v \in Seq(S) /\ Len(v) <= Len(t)
    BY <1>2, <1>3, <1>4, <2>1
  <2>3. Range(v) = Range(t) \ gone /\ ~(Range(t) \subseteq gone)
    BY <1>2, <1>3, <1>4, <1>7, <2>1
  <2> QED
    BY <1>5, <2>2, <2>3 DEF Filtered, t, v
<1> QED
  BY <1>6, <1>7

LEMMA WithoutFilters ==
  ASSUME NEW S, NEW s \in Seq(S), NEW gone
  PROVE  Filtered(s, gone, S)
<1> DEFINE T == {n \in Nat : \E t \in Seq(S) :
                    Len(t) = n /\ ~ Filtered(t, gone, S)}
<1>0. SUFFICES ASSUME T # {}
               PROVE  FALSE
  BY LenProperties
<1>1. PICK n \in T : \A m \in T : n <= m
  <2>1. T \in SUBSET Nat
    OBVIOUS
  <2> HIDE DEF T
  <2> QED
    BY <1>0, <2>1, LeastOf
<1>2. PICK t \in Seq(S) : Len(t) = n /\ ~ Filtered(t, gone, S)
  BY <1>1
<1>3. CASE t = <<>>
  <2>1. Filtered(<<>>, gone, S)
    BY FilteredEmpty
  <2> QED
    BY <1>2, <1>3, <2>1
<1>4. ASSUME NEW u \in Seq(S), NEW c \in S, t = Append(u, c),
             Len(t) = Len(u) + 1
      PROVE  FALSE
  <2>1. Len(u) \in Nat
    BY LenProperties
  <2>2. ~(n <= Len(u))
    BY <1>2, <1>4, <2>1
  <2>3. Filtered(u, gone, S)
    BY <1>1, <2>1, <2>2
  <2> QED
    BY <1>2, <1>4, <2>3, FilteredAppend
<1> QED
  BY <1>3, <1>4, SnocCases

(* Without of a concatenation.                                             *)
WithoutBoth(s, t, gone) ==
  Without(s \o t, gone) = Without(s, gone) \o Without(t, gone)

LEMMA WithoutBothAppend ==
  ASSUME NEW S, NEW s \in Seq(S), NEW t \in Seq(S), NEW c \in S, NEW gone,
         WithoutBoth(s, t, gone)
  PROVE  WithoutBoth(s, Append(t, c), gone)
<1>1. Without(s, gone) \in Seq(S) /\ Without(t, gone) \in Seq(S)
  BY WithoutFilters DEF Filtered
<1>2. s \o Append(t, c) = Append(s \o t, c) /\ s \o t \in Seq(S)
  BY ConcatAppend, ConcatProperties
<1>3. Without(Append(s \o t, c), gone)
        = IF c \in gone THEN Without(s \o t, gone)
          ELSE Append(Without(s \o t, gone), c)
  <2> DEFINE v == s \o t
  <2>1. v \in Seq(S)
    BY <1>2
  <2> HIDE DEF v
  <2>2. Without(Append(v, c), gone)
          = IF c \in gone THEN Without(v, gone)
            ELSE Append(Without(v, gone), c)
    BY <2>1, WithoutAppend
  <2> QED
    BY <2>2 DEF v
<1>4. Without(Append(t, c), gone)
        = IF c \in gone THEN Without(t, gone)
          ELSE Append(Without(t, gone), c)
  BY WithoutAppend
<1>5. Without(s, gone) \o Append(Without(t, gone), c)
        = Append(Without(s, gone) \o Without(t, gone), c)
  BY <1>1, ConcatAppend
<1> QED
  BY <1>2, <1>3, <1>4, <1>5 DEF WithoutBoth

LEMMA WithoutConcat ==
  ASSUME NEW S, NEW s \in Seq(S), NEW r \in Seq(S), NEW gone
  PROVE  Without(s \o r, gone) = Without(s, gone) \o Without(r, gone)
<1> DEFINE T == {n \in Nat : \E t \in Seq(S) :
                    Len(t) = n /\ ~ WithoutBoth(s, t, gone)}
<1>0. SUFFICES ASSUME T # {}
               PROVE  FALSE
  BY LenProperties DEF WithoutBoth
<1>1. PICK n \in T : \A m \in T : n <= m
  <2>1. T \in SUBSET Nat
    OBVIOUS
  <2> HIDE DEF T
  <2> QED
    BY <1>0, <2>1, LeastOf
<1>2. PICK t \in Seq(S) : Len(t) = n /\ ~ WithoutBoth(s, t, gone)
  BY <1>1
<1>3. CASE t = <<>>
  <2>1. Without(s, gone) \in Seq(S)
    BY WithoutFilters DEF Filtered
  <2>2. WithoutBoth(s, <<>>, gone)
    BY <2>1, WithoutEmpty, ConcatEmptySeq DEF WithoutBoth
  <2> QED
    BY <1>2, <1>3, <2>2
<1>4. ASSUME NEW u \in Seq(S), NEW c \in S, t = Append(u, c),
             Len(t) = Len(u) + 1
      PROVE  FALSE
  <2>1. Len(u) \in Nat
    BY LenProperties
  <2>2. ~(n <= Len(u))
    BY <1>2, <1>4, <2>1
  <2>3. WithoutBoth(s, u, gone)
    BY <1>1, <2>1, <2>2
  <2> QED
    BY <1>2, <1>4, <2>3, WithoutBothAppend
<1> QED
  BY <1>3, <1>4, SnocCases
=============================================================================
