--------------------------- MODULE IrpQueueProofs ---------------------------
(***************************************************************************)
(* Theorems about IrpQueue for any requests, kinds, bounds and timeouts.   *)
(***************************************************************************)
EXTENDS IrpQueue, SequenceTheorems, TLAPS

-----------------------------------------------------------------------------
(***************************************************************************)
(* The queue: pCurrent, the list and the flags change together.            *)
(***************************************************************************)
Places == [current : Irps \cup {NoIrp}, list : Seq(Irps),
           flags : [Irps -> SUBSET Flags]]

Listed(p, i) == \E n \in DOMAIN p.list : p.list[n] = i

\* A request flagged IN_QUEUE is in the list, so that CancelRoutine finds
\* what it unlinks.
WellPlaced(p) ==
  /\ p \in Places
  /\ \A i \in Irps : "IN_QUEUE" \in p.flags[i] => Listed(p, i)

\* ShiftQueue keeps the flags and the list together.
LEMMA ShiftPlaced ==
  ASSUME NEW p, WellPlaced(p)
  PROVE  WellPlaced(Shift(p))
<1> DEFINE off == [i \in Irps |-> IF i = p.current
                   THEN p.flags[i] \ {"IS_CURRENT"} ELSE p.flags[i]]
<1>1. off \in [Irps -> SUBSET Flags]
  BY DEF WellPlaced, Places
<1>2. CASE p.list = <<>>
  BY <1>1, <1>2 DEF WellPlaced, Places, Listed, Shift, Place
<1>3. CASE p.list # <<>>
  <2> DEFINE h == Head(p.list)
             f == [off EXCEPT ![h] = (@ \ {"IN_QUEUE"}) \cup {"IS_CURRENT"}]
             q == Place(h, Tail(p.list), f)
  <2>1. /\ p.list \in Seq(Irps) /\ h \in Irps /\ Tail(p.list) \in Seq(Irps)
        /\ Len(p.list) \in Nat \ {0}
        /\ Len(Tail(p.list)) = Len(p.list) - 1
        /\ \A n \in 1 .. Len(p.list) - 1 : Tail(p.list)[n] = p.list[n + 1]
        /\ h = p.list[1]
    BY <1>3, HeadTailProperties, EmptySeq DEF WellPlaced, Places
  <2>2. f \in [Irps -> SUBSET Flags]
    BY <1>1, <2>1 DEF Flags
  <2>3. ASSUME NEW i \in Irps, "IN_QUEUE" \in f[i]
        PROVE  Listed(q, i)
    <3>1. i # h
      BY <1>1, <2>1, <2>3
    <3>2. "IN_QUEUE" \in p.flags[i]
      BY <1>1, <2>1, <2>3, <3>1
    <3>3. PICK n \in 1 .. Len(p.list) : p.list[n] = i
      BY <3>2, <2>1 DEF WellPlaced, Listed
    <3>4. n - 1 \in 1 .. Len(p.list) - 1 /\ Tail(p.list)[n - 1] = i
      BY <3>1, <3>3, <2>1
    <3>5. DOMAIN Tail(p.list) = 1 .. Len(p.list) - 1
      BY <2>1
    <3> QED BY <3>4, <3>5 DEF Listed, Place
  <2>4. Shift(p) = q
    BY <1>3 DEF Shift
  <2> HIDE DEF f
  <2>5. q \in Places
    BY <2>1, <2>2 DEF Places, Place
  <2>6. q.flags = f
    BY DEF Place
  <2> QED BY <2>3, <2>4, <2>5, <2>6 DEF WellPlaced
<1> QED BY <1>2, <1>3

LEMMA MakeCurrentPlaced ==
  ASSUME NEW p, NEW i \in Irps \cup {NoIrp}, WellPlaced(p)
  PROVE  WellPlaced(MakeCurrent(p, i))
BY DEF WellPlaced, Places, Listed, MakeCurrent, Place, Flags

LEMMA InsertTailPlaced ==
  ASSUME NEW p, NEW i \in Irps, WellPlaced(p)
  PROVE  WellPlaced(InsertTail(p, i))
<1> DEFINE q == InsertTail(p, i)
<1>1. /\ q.list = Append(p.list, i) /\ q.current = p.current
      /\ q.flags = [p.flags EXCEPT ![i] = @ \cup {"IN_QUEUE"}]
      /\ q \in Places
  BY DEF WellPlaced, Places, InsertTail, Place, Flags
<1>2. /\ p.list \in Seq(Irps)
      /\ Len(q.list) = Len(p.list) + 1
      /\ \A n \in 1 .. Len(p.list) : q.list[n] = p.list[n]
      /\ q.list[Len(p.list) + 1] = i
      /\ DOMAIN q.list = 1 .. Len(p.list) + 1
      /\ DOMAIN p.list = 1 .. Len(p.list)
      /\ Len(p.list) \in Nat
  BY <1>1, AppendProperties DEF WellPlaced, Places
<1>3. ASSUME NEW j \in Irps, "IN_QUEUE" \in q.flags[j] PROVE Listed(q, j)
  <2>1. CASE j = i
    BY <2>1, <1>2 DEF Listed
  <2>2. CASE j # i
    <3>1. "IN_QUEUE" \in p.flags[j]
      BY <1>1, <1>3, <2>2 DEF WellPlaced, Places
    <3>2. PICK n \in 1 .. Len(p.list) : p.list[n] = j
      BY <3>1, <1>2 DEF WellPlaced, Listed
    <3> QED BY <3>2, <1>2 DEF Listed
  <2> QED BY <2>1, <2>2
<1> QED BY <1>1, <1>3 DEF WellPlaced

LEMMA PushCurrentPlaced ==
  ASSUME NEW p, WellPlaced(p), p.current \in Irps
  PROVE  WellPlaced(PushCurrent(p))
<1> DEFINE q == PushCurrent(p)
<1>1. /\ q.list = <<p.current>> \o p.list /\ q.current = NoIrp
      /\ q.flags = [p.flags EXCEPT ![p.current] =
                      (@ \ {"IS_CURRENT"}) \cup {"IN_QUEUE"}]
      /\ p.list \in Seq(Irps) /\ <<p.current>> \in Seq(Irps)
      /\ Len(<<p.current>>) = 1 /\ Len(p.list) \in Nat
      /\ DOMAIN p.list = 1 .. Len(p.list)
  BY DEF WellPlaced, Places, PushCurrent, Place, Flags
<1>2. /\ q.list \in Seq(Irps)
      /\ Len(q.list) = Len(p.list) + 1
      /\ q.list[1] = p.current
      /\ \A n \in 1 .. Len(p.list) : q.list[n + 1] = p.list[n]
  BY <1>1
<1>3. q \in Places
  BY <1>2 DEF WellPlaced, Places, PushCurrent, Place, Flags
<1>4. ASSUME NEW j \in Irps, "IN_QUEUE" \in q.flags[j] PROVE Listed(q, j)
  <2>1. CASE j = p.current
    BY <2>1, <1>1, <1>2 DEF Listed
  <2>2. CASE j # p.current
    <3>1. "IN_QUEUE" \in p.flags[j]
      BY <1>1, <1>4, <2>2 DEF WellPlaced, Places
    <3>2. PICK n \in 1 .. Len(p.list) : p.list[n] = j
      BY <3>1, <1>1 DEF WellPlaced, Listed
    <3>3. n + 1 \in DOMAIN q.list
      BY <1>1, <1>2, <3>2
    <3> QED BY <3>2, <3>3, <1>2 DEF Listed
  <2> QED BY <2>1, <2>2
<1> QED BY <1>3, <1>4 DEF WellPlaced

\* RemoveEntryList takes one entry out and keeps the order of the others.
LEMMA UnlinkList ==
  ASSUME NEW p, NEW i \in Irps, WellPlaced(p), Listed(p, i)
  PROVE  \E at \in 1 .. Len(p.list) :
           /\ p.list[at] = i
           /\ Unlink(p, i).list \in Seq(Irps)
           /\ Len(Unlink(p, i).list) = Len(p.list) - 1
           /\ \A n \in 1 .. at - 1 : Unlink(p, i).list[n] = p.list[n]
           /\ \A n \in at .. Len(p.list) - 1 :
                Unlink(p, i).list[n] = p.list[n + 1]
<1> DEFINE at == CHOOSE n \in DOMAIN p.list : p.list[n] = i
           q  == Unlink(p, i)
           L  == Len(p.list)
<1>1. /\ p.list \in Seq(Irps) /\ L \in Nat /\ DOMAIN p.list = 1 .. L
      /\ at \in 1 .. L /\ p.list[at] = i
  BY DEF WellPlaced, Places, Listed
<1> HIDE DEF at
<1>2. q.list = SubSeq(p.list, 1, at - 1) \o SubSeq(p.list, at + 1, L)
  BY DEF Unlink, Place, RemoveAt, at
<1> DEFINE a == SubSeq(p.list, 1, at - 1)
           b == SubSeq(p.list, at + 1, L)
<1>3. /\ a \in Seq(Irps) /\ Len(a) = at - 1
      /\ \A n \in 1 .. at - 1 : a[n] = p.list[n]
  BY <1>1, SubSeqProperties
<1>4. /\ b \in Seq(Irps) /\ Len(b) = L - at
      /\ \A n \in 1 .. L - at : b[n] = p.list[at + n]
  BY <1>1, SubSeqProperties
<1> HIDE DEF a, b, q
<1>5. q.list = a \o b
  BY <1>2 DEF a, b
<1>6. /\ q.list \in Seq(Irps) /\ Len(q.list) = Len(a) + Len(b)
      /\ \A n \in 1 .. Len(a) + Len(b) :
           q.list[n] = IF n <= Len(a) THEN a[n] ELSE b[n - Len(a)]
  <2>1. a \in Seq(Irps) /\ b \in Seq(Irps)
    BY <1>3, <1>4
  <2>2. /\ a \o b \in Seq(Irps) /\ Len(a \o b) = Len(a) + Len(b)
        /\ \A n \in 1 .. Len(a) + Len(b) :
             (a \o b)[n] = IF n <= Len(a) THEN a[n] ELSE b[n - Len(a)]
    BY <2>1, ConcatProperties
  <2> QED BY <1>5, <2>2
<1>7. ASSUME NEW n \in at .. L - 1 PROVE q.list[n] = p.list[n + 1]
  <2>1. /\ n \in 1 .. Len(a) + Len(b) /\ ~(n <= Len(a))
        /\ n - (at - 1) \in 1 .. L - at
    BY <1>1, <1>3, <1>4
  <2>2. q.list[n] = b[n - (at - 1)]
    BY <1>3, <1>6, <2>1
  <2>3. b[n - (at - 1)] = p.list[at + (n - (at - 1))]
    BY <1>4, <2>1
  <2>4. at + (n - (at - 1)) = n + 1
    BY <1>1
  <2> QED BY <2>2, <2>3, <2>4
<1>8. Len(q.list) = L - 1
  BY <1>1, <1>3, <1>4, <1>6
<1>9. ASSUME NEW n \in 1 .. at - 1 PROVE q.list[n] = p.list[n]
  <2>1. n \in 1 .. Len(a) + Len(b) /\ n <= Len(a)
    BY <1>1, <1>3, <1>4
  <2>2. q.list[n] = a[n]
    BY <1>6, <2>1
  <2> QED BY <1>3, <2>2
<1> QED BY <1>1, <1>6, <1>7, <1>8, <1>9 DEF q

LEMMA UnlinkPlaced ==
  ASSUME NEW p, NEW i \in Irps, WellPlaced(p), Listed(p, i)
  PROVE  WellPlaced(Unlink(p, i))
<1> DEFINE q == Unlink(p, i)
           L == Len(p.list)
<1>1. /\ p.list \in Seq(Irps) /\ L \in Nat /\ DOMAIN p.list = 1 .. L
      /\ q.flags = [p.flags EXCEPT ![i] = @ \ {"IN_QUEUE"}]
      /\ q.current = p.current
  BY DEF WellPlaced, Places, Unlink, Place
<1>2. PICK at \in 1 .. L :
        /\ p.list[at] = i
        /\ q.list \in Seq(Irps) /\ Len(q.list) = L - 1
        /\ \A n \in 1 .. at - 1 : q.list[n] = p.list[n]
        /\ \A n \in at .. L - 1 : q.list[n] = p.list[n + 1]
  BY UnlinkList
<1>3. q \in Places
  <2>1. q = [current |-> q.current, list |-> q.list, flags |-> q.flags]
    BY DEF Unlink, Place
  <2> HIDE DEF q
  <2>2. /\ q.current \in Irps \cup {NoIrp} /\ q.list \in Seq(Irps)
        /\ q.flags \in [Irps -> SUBSET Flags]
    BY <1>1, <1>2 DEF WellPlaced, Places
  <2> QED BY <2>1, <2>2 DEF Places
<1> HIDE DEF q
<1>4. ASSUME NEW j \in Irps, "IN_QUEUE" \in q.flags[j] PROVE Listed(q, j)
  <2>1. j # i /\ "IN_QUEUE" \in p.flags[j]
    BY <1>1, <1>4 DEF WellPlaced, Places
  <2>2. PICK n \in 1 .. L : p.list[n] = j
    BY <1>1, <2>1 DEF WellPlaced, Listed
  <2>3. DOMAIN q.list = 1 .. L - 1
    BY <1>1, <1>2
  <2>4. CASE n < at
    <3>1. n \in 1 .. at - 1 /\ n \in 1 .. L - 1
      BY <1>1, <1>2, <2>2, <2>4
    <3>2. q.list[n] = j
      BY <1>2, <2>2, <3>1
    <3> QED BY <2>3, <3>1, <3>2 DEF Listed
  <2>5. CASE n > at
    <3>1. n - 1 \in at .. L - 1 /\ n - 1 \in 1 .. L - 1 /\ (n - 1) + 1 = n
      BY <1>1, <1>2, <2>2, <2>5
    <3>2. q.list[n - 1] = j
      BY <1>2, <2>2, <3>1
    <3> QED BY <2>3, <3>1, <3>2 DEF Listed
  <2>6. n \in Int /\ at \in Int /\ n # at
    BY <1>2, <2>1, <2>2
  <2>7. n < at \/ n > at
    BY <2>6
  <2> QED BY <2>4, <2>5, <2>7
<1> QED BY <1>3, <1>4 DEF WellPlaced, q

LEMMA PutPlaced ==
  ASSUME NEW p, WellPlaced(p), Put(p)
  PROVE  WellPlaced(Here)'
<1>1. Here' = p
  BY DEF WellPlaced, Places, Put, Here, Place
<1> QED BY <1>1

-----------------------------------------------------------------------------
(***************************************************************************)
(* Type correctness.                                                       *)
(***************************************************************************)
TypedIrps ==
  /\ kind \in [Irps -> Kinds]
  /\ information \in [Irps -> 0 .. DataLength]
  /\ status \in [Irps -> Status]
  /\ ioCancel \in [Irps -> {"no", "marked", "done"}]
  /\ cancelRoutine \subseteq Irps
  /\ completions \in [Irps -> Nat]
  /\ ret \in [Irps -> Status]

TypedThreads ==
  /\ lock \in Threads \cup {Free}
  /\ pc \in [Threads -> Labels]
  /\ toComplete \in [Threads -> Seq(Irps)]

TypedRest ==
  /\ amountInWriteQueue \in 0 .. UlongRange - 1
  /\ timer \in BOOLEAN
  /\ local \in [irp : Irps \cup {NoIrp}, first : BOOLEAN,
                sent : BOOLEAN, rounds : 0 .. MaxRounds]
  /\ ios \in 0 .. MaxIo
  /\ purges \in 0 .. MaxPurges

Typed == TypedIrps /\ TypedThreads /\ TypedRest

\* The engine knows the request whose cancel routine it is about to restore.
Held == \A t \in Threads : At(t, "restore") => local.irp \in Irps

TypeInv == Typed /\ Held /\ WellPlaced(Here)

LEMMA TypeInvTypeOK == TypeInv => TypeOK
BY DEF TypeInv, Typed, TypedIrps, TypedThreads, TypedRest, TypeOK, WellPlaced, Places, Here, Place

LEMMA InitTypeInv == Init => TypeInv
<1> SUFFICES ASSUME Init PROVE TypeInv
  OBVIOUS
<1> USE IrpAssumption
<1>1. Typed
  <2>1. /\ local \in [irp : Irps \cup {NoIrp}, first : BOOLEAN,
                     sent : BOOLEAN, rounds : 0 .. MaxRounds]
        /\ ios \in 0 .. MaxIo /\ purges \in 0 .. MaxPurges
        /\ amountInWriteQueue \in 0 .. UlongRange - 1
    BY DEF Init, NoLocal
  <2>2. /\ kind \in [Irps -> Kinds]
        /\ information \in [Irps -> 0 .. DataLength]
        /\ completions \in [Irps -> Nat]
    BY DEF Init
  <2>3. /\ status \in [Irps -> Status] /\ ret \in [Irps -> Status]
        /\ ioCancel \in [Irps -> {"no", "marked", "done"}]
        /\ pc \in [Threads -> Labels]
        /\ toComplete \in [Threads -> Seq(Irps)]
    BY DEF Init, Status, Labels
  <2>4. cancelRoutine \subseteq Irps /\ timer \in BOOLEAN /\ lock = Free
    BY DEF Init
  <2> QED BY <2>1, <2>2, <2>3, <2>4 DEF Typed, TypedIrps, TypedThreads, TypedRest
<1>2. Held
  BY DEF Init, Held, At, Threads, Free, Dpc, Io, Purger
<1>3. WellPlaced(Here)
  BY DEF Init, WellPlaced, Places, Here, Place, Flags
<1> QED BY <1>1, <1>2, <1>3 DEF TypeInv

\* The operators the actions share.
LEMMA SubType ==
  ASSUME NEW a \in Int, NEW n \in Int
  PROVE  /\ Sub(a, n) \in 0 .. UlongRange - 1
         /\ Add(a, n) \in 0 .. UlongRange - 1
BY IrpAssumption DEF Sub, Add

LEMMA LengthType ==
  ASSUME TypeInv, NEW i \in Irps
  PROVE  /\ GetWriteLength(i) \in 0 .. DataLength
         /\ Length(i) \in 0 .. DataLength
         /\ information[i] \in 0 .. DataLength
         /\ \A k \in 0 .. Rest(i) : information[i] + k \in 0 .. DataLength
         /\ \A k \in 0 .. Rest(i) : k \in 0 .. DataLength
<1>1. GetWriteLength(i) \in 0 .. DataLength
  BY IrpAssumption DEF GetWriteLength
<1>2. Length(i) \in 0 .. DataLength
  BY <1>1, IrpAssumption DEF Length
<1>3. information[i] \in 0 .. DataLength
  BY DEF TypeInv, Typed, TypedIrps
<1> QED BY <1>1, <1>2, <1>3, IrpAssumption DEF Rest

LEMMA AmountType ==
  ASSUME TypeInv, NEW i \in Irps
  PROVE  /\ Add(amountInWriteQueue, GetWriteLength(i)) \in 0 .. UlongRange - 1
         /\ Sub(amountInWriteQueue, GetWriteLength(i) - information[i])
              \in 0 .. UlongRange - 1
         /\ \A k \in 0 .. DataLength :
              /\ Sub(amountInWriteQueue, k) \in 0 .. UlongRange - 1
              /\ Sub(Add(amountInWriteQueue, GetWriteLength(i)), k)
                   \in 0 .. UlongRange - 1
<1>1. /\ GetWriteLength(i) \in Int /\ information[i] \in Int
      /\ amountInWriteQueue \in Int
      /\ GetWriteLength(i) - information[i] \in Int
  BY LengthType, IrpAssumption DEF TypeInv, Typed, TypedRest
<1>2. /\ Add(amountInWriteQueue, GetWriteLength(i)) \in 0 .. UlongRange - 1
      /\ Sub(amountInWriteQueue, GetWriteLength(i) - information[i])
           \in 0 .. UlongRange - 1
  BY <1>1, SubType
<1>3. Add(amountInWriteQueue, GetWriteLength(i)) \in Int
  BY <1>2, IrpAssumption
<1>4. ASSUME NEW k \in 0 .. DataLength
      PROVE  /\ Sub(amountInWriteQueue, k) \in 0 .. UlongRange - 1
             /\ Sub(Add(amountInWriteQueue, GetWriteLength(i)), k)
                  \in 0 .. UlongRange - 1
  <2>1. k \in Int
    BY IrpAssumption
  <2> QED BY <1>1, <1>3, <2>1, SubType
<1> QED BY <1>2, <1>4

LEMMA CountType ==
  ASSUME NEW i
  PROVE  /\ completions \in [Irps -> Nat] =>
              [completions EXCEPT ![i] = @ + 1] \in [Irps -> Nat]
         /\ information \in [Irps -> 0 .. DataLength] =>
              [information EXCEPT ![i] = 0] \in [Irps -> 0 .. DataLength]
<1>1. 0 \in 0 .. DataLength
  BY IrpAssumption
<1>2. ASSUME completions \in [Irps -> Nat]
      PROVE  [completions EXCEPT ![i] = @ + 1] \in [Irps -> Nat]
  <2>1. \A j \in Irps : completions[j] + 1 \in Nat
    BY <1>2
  <2> QED BY <1>2, <2>1
<1>3. ASSUME information \in [Irps -> 0 .. DataLength]
      PROVE  [information EXCEPT ![i] = 0] \in [Irps -> 0 .. DataLength]
  BY <1>1, <1>3
<1> QED BY <1>2, <1>3

LEMMA ListType ==
  ASSUME NEW f \in [Threads -> Seq(Irps)], NEW t \in Threads, NEW i \in Irps
  PROVE  [f EXCEPT ![t] = Append(@, i)] \in [Threads -> Seq(Irps)]
<1>1. Append(f[t], i) \in Seq(Irps)
  BY AppendProperties
<1> QED BY <1>1

LEMMA ThreadFacts ==
  /\ Dpc \in Threads /\ Io \in Threads /\ Purger \in Threads
  /\ \A i \in Irps : Starter(i) \in Threads /\ Canceller(i) \in Threads
  /\ Free \notin Threads
BY DEF Threads, Dpc, Io, Purger, Free, Starter, Canceller

-----------------------------------------------------------------------------
\* A step of a thread leaves the queue as it was or puts a well placed one.
LEMMA PlacedStep ==
  ASSUME TypeInv, Next PROVE WellPlaced(Here)'
<1> USE DEF TypeInv, queueVars, irpVars, At
<1>0. WellPlaced(Here) /\ Here.current = pCurrent /\ Here.list = queue /\ Here.flags = flags
  BY DEF Here, Place
<1>1. ASSUME UNCHANGED <<pCurrent, queue, flags>> PROVE WellPlaced(Here)'
  BY <1>0, <1>1 DEF Here
<1>2. ASSUME NEW i \in Irps,
             IoCancelMark(i) \/ IoCancelTake(i) \/ StartRefuse(i) \/ Return(i)
      PROVE  WellPlaced(Here)'
  BY <1>1, <1>2 DEF IoCancelMark, IoCancelTake, StartRefuse, Return
<1>3. ASSUME NEW i \in Irps, StartEnter(i) PROVE WellPlaced(Here)'
  BY <1>3 DEF StartEnter, WellPlaced, Places, Here, Place, Listed, Flags
<1>4. ASSUME NEW t, NEW i \in Irps, NEW k, NEW p, NEW a, WellPlaced(p),
             StartIrp(t, i, k, p, a)
      PROVE  WellPlaced(Here)'
  BY <1>4, MakeCurrentPlaced, ShiftPlaced, PutPlaced DEF StartIrp
<1>5. ASSUME NEW i \in Irps, StartCheck(i) PROVE WellPlaced(Here)'
  <2>1. ASSUME NEW st, Refuse(i, st) PROVE WellPlaced(Here)'
    BY <1>1, <2>1 DEF Refuse
  <2>2. CASE StartFirst(i)
    BY <1>0, <1>4, <2>1, <2>2 DEF StartFirst
  <2>3. CASE StartImmediate(i)
    <3>1. pCurrent # NoIrp => WellPlaced(PushCurrent(Here))
      BY <1>0, PushCurrentPlaced DEF WellPlaced, Places
    <3> QED BY <1>4, <2>1, <2>3, <3>1 DEF StartImmediate
  <2>4. CASE StartLater(i)
    BY <1>0, <2>4, InsertTailPlaced, PutPlaced DEF StartLater
  <2>5. CASE StartOverXoff(i)
    BY <1>0, <2>1, <2>5, InsertTailPlaced, ShiftPlaced, PutPlaced DEF StartOverXoff
  <2> QED BY <1>5, <2>1, <2>2, <2>3, <2>4, <2>5 DEF StartCheck
<1>6. ASSUME NEW i \in Irps, StartMore(i) PROVE WellPlaced(Here)'
  BY <1>0, <1>4, <1>6 DEF StartMore
<1>7. ASSUME NEW i \in Irps, StartEnd(i) PROVE WellPlaced(Here)'
  BY <1>0, <1>1, <1>7, ShiftPlaced, PutPlaced DEF StartEnd
<1>8. ASSUME NEW i \in Irps, CancelRoutine(i) PROVE WellPlaced(Here)'
  <2>1. "IN_QUEUE" \in flags[i] => Listed(Here, i)
    BY <1>0 DEF WellPlaced
  <2>2. "IN_QUEUE" \in flags[i] => WellPlaced(Unlink(Here, i))
    BY <1>0, <2>1, UnlinkPlaced
  <2> QED BY <1>0, <1>8, <2>2, ShiftPlaced, PutPlaced DEF CancelRoutine
<1>9. ASSUME NEW t \in Threads, Engine(t) PROVE WellPlaced(Here)'
  <2>1. CASE EngineEmpty(t) \/ EngineRestore(t) \/ EngineDrop(t)
             \/ EngineAgain(t) \/ EngineLeave(t)
    BY <1>1, <2>1
       DEF EngineEmpty, EngineRestore, EngineDrop, EngineAgain, EngineLeave
  <2>2. CASE EngineSkip(t) \/ EngineWork(t) \/ EngineRecheck(t) \/ XoffSent(t)
    BY <1>0, <1>1, <2>2, ShiftPlaced, PutPlaced
       DEF EngineSkip, EngineWork, EngineRecheck, XoffSent
  <2>3. CASE XoffSweep(t)
    <3>1. local.irp \in Irps \cup {NoIrp}
      BY DEF Typed, TypedRest
    <3> QED BY <1>0, <1>1, <2>3, <3>1, ShiftPlaced, MakeCurrentPlaced, PutPlaced
            DEF XoffSweep
  <2> QED BY <1>9, <2>1, <2>2, <2>3 DEF Engine
<1>10. ASSUME TimerFire \/ IoEnter \/ PurgeEnter PROVE WellPlaced(Here)'
  BY <1>1, <1>10 DEF TimerFire, IoEnter, PurgeEnter
<1>11. ASSUME TimeoutRoutine PROVE WellPlaced(Here)'
  <2>1. \/ flags' = flags
        \/ /\ pCurrent \in Irps
           /\ flags' = [flags EXCEPT ![pCurrent] = @ \cup {"EXPIRED"}]
    BY <1>0, <1>11 DEF TimeoutRoutine, WellPlaced, Places
  <2>2. pCurrent' = pCurrent /\ queue' = queue
    BY <1>11 DEF TimeoutRoutine
  <2>3. /\ flags' \in [Irps -> SUBSET Flags]
        /\ \A i \in Irps : "IN_QUEUE" \in flags'[i] => "IN_QUEUE" \in flags[i]
    BY <1>0, <2>1 DEF WellPlaced, Places, Flags
  <2> QED BY <1>0, <2>2, <2>3 DEF WellPlaced, Places, Here, Place, Listed
<1>12. ASSUME IoXoffCounted \/ CancelQueue PROVE WellPlaced(Here)'
  BY <1>0, <1>1, <1>12, ShiftPlaced, PutPlaced DEF IoXoffCounted, CancelQueue
<1>13. ASSUME NEW t \in Threads, CompleteOne(t) PROVE WellPlaced(Here)'
  BY <1>1, <1>13 DEF CompleteOne
<1> QED BY <1>2, <1>3, <1>5, <1>6, <1>7, <1>8, <1>9, <1>10, <1>11, <1>12, <1>13
        DEF Next, Start

LEMMA HeldStep ==
  ASSUME TypeInv, Next PROVE Held'
<1> USE ThreadFacts DEF TypeInv, Held, At, Goto, queueVars, irpVars, Acquire, Leave
<1>0. pc \in [Threads -> Labels] /\ lock \in Threads \cup {Free} /\ cancelRoutine \subseteq Irps
  BY DEF Typed, TypedIrps, TypedThreads
<1>1. ASSUME NEW i \in Irps,
             IoCancelMark(i) \/ IoCancelTake(i) \/ StartRefuse(i) \/ Return(i)
             \/ StartEnter(i) \/ StartEnd(i) \/ CancelRoutine(i)
      PROVE  Held'
  BY <1>0, <1>1 DEF IoCancelMark, IoCancelTake, StartRefuse, Return, StartEnter,
                    StartEnd, CancelRoutine
<1>2. ASSUME NEW i \in Irps, StartCheck(i) \/ StartMore(i) PROVE Held'
  BY <1>0, <1>2 DEF StartCheck, StartMore, StartIrp, StartFirst, StartImmediate,
                    StartLater, StartOverXoff, Refuse
<1>3. ASSUME NEW t \in Threads, Engine(t) PROVE Held'
  <2>1. CASE EngineWork(t)
    <3>1. lock' = lock /\ pCurrent \in Irps
      BY <1>0, <2>1 DEF EngineWork
    <3>2. \/ pc' = [pc EXCEPT ![t] = "restore"] /\ local'.irp = pCurrent
          \/ pc' = pc /\ pc[t] = "next"
      BY <2>1 DEF EngineWork, Typed, TypedRest
    <3> QED BY <1>0, <2>1, <3>1, <3>2 DEF EngineWork
  <2>2. CASE EngineSkip(t) \/ EngineDrop(t) \/ XoffSweep(t)
    BY <1>0, <2>2 DEF EngineSkip, EngineDrop, XoffSweep
  <2>3. CASE EngineEmpty(t) \/ EngineRestore(t) \/ EngineRecheck(t)
             \/ XoffSent(t) \/ EngineAgain(t) \/ EngineLeave(t)
    BY <1>0, <2>3 DEF EngineEmpty, EngineRestore, EngineRecheck, XoffSent,
                      EngineAgain, EngineLeave
  <2> QED BY <1>3, <2>1, <2>2, <2>3 DEF Engine
<1>4. ASSUME TimerFire \/ TimeoutRoutine \/ IoEnter \/ IoXoffCounted
             \/ PurgeEnter \/ CancelQueue
      PROVE  Held'
  BY <1>0, <1>4 DEF TimerFire, TimeoutRoutine, IoEnter, IoXoffCounted, PurgeEnter,
                    CancelQueue
<1>5. ASSUME NEW t \in Threads, CompleteOne(t) PROVE Held'
  BY <1>0, <1>5 DEF CompleteOne
<1> QED BY <1>1, <1>2, <1>3, <1>4, <1>5 DEF Next, Start

LEMMA TypedIrpsStep ==
  ASSUME TypeInv, Next PROVE TypedIrps'
<1> USE DEF TypeInv, Typed, TypedIrps, queueVars, irpVars, Status
<1>1. ASSUME NEW i \in Irps,
             IoCancelMark(i) \/ IoCancelTake(i) \/ StartRefuse(i) \/ Return(i)
             \/ StartEnter(i) \/ CancelRoutine(i)
      PROVE  TypedIrps'
  <2>1. CASE IoCancelMark(i) \/ IoCancelTake(i)
    BY <2>1 DEF IoCancelMark, IoCancelTake
  <2>2. CASE StartRefuse(i) \/ StartEnter(i)
    BY <2>2 DEF StartRefuse, NoPending, StartEnter
  <2>3. CASE Return(i)
    BY <2>3, CountType DEF Return
  <2>4. CASE CancelRoutine(i)
    BY <2>4 DEF CancelRoutine
  <2> QED BY <1>1, <2>1, <2>2, <2>3, <2>4
<1>2. ASSUME NEW i \in Irps, StartEnd(i) PROVE TypedIrps'
  <2>1. information' \in [Irps -> 0 .. DataLength]
    BY <1>2, CountType DEF StartEnd
  <2>2. ret' \in [Irps -> Status] /\ cancelRoutine' \subseteq Irps
    BY <1>2 DEF StartEnd, NoPending
  <2>3. status' \in [Irps -> Status]
    BY <1>2 DEF StartEnd
  <2> QED BY <1>2, <2>1, <2>2, <2>3 DEF StartEnd
<1>3. ASSUME NEW t \in Threads, CompleteOne(t) PROVE TypedIrps'
  <2>1. information' \in [Irps -> 0 .. DataLength]
    <3>1. information' = information
          \/ information' = [information EXCEPT ![Head(toComplete[t])] = 0]
      BY <1>3 DEF CompleteOne
    <3> QED BY <3>1, CountType
  <2>2. completions' \in [Irps -> Nat]
    BY <1>3, CountType DEF CompleteOne
  <2>3. Head(toComplete[t]) \in Irps
    BY <1>3 DEF CompleteOne, TypedThreads
  <2>4. status' \in [Irps -> Status]
    BY <1>3, <2>3 DEF CompleteOne
  <2> QED BY <1>3, <2>1, <2>2, <2>4 DEF CompleteOne
<1>4. ASSUME NEW t, NEW i \in Irps, NEW k \in 0 .. Rest(i), NEW p, NEW a,
             StartIrp(t, i, k, p, a)
      PROVE  /\ information' \in [Irps -> 0 .. DataLength]
             /\ ret' \in [Irps -> Status]
  <2>1. information[i] + k \in 0 .. DataLength
    BY LengthType
  <2> QED BY <1>4, <2>1 DEF StartIrp
<1>5. ASSUME NEW i \in Irps, StartCheck(i) PROVE TypedIrps'
  <2>1. /\ information' \in [Irps -> 0 .. DataLength]
        /\ ret' \in [Irps -> Status]
        /\ status' \in [Irps -> Status]
    BY <1>4, <1>5 DEF StartCheck, StartFirst, StartImmediate, StartLater,
                      StartOverXoff, Refuse
  <2> QED BY <1>5, <2>1 DEF StartCheck
<1>6. ASSUME NEW i \in Irps, StartMore(i) PROVE TypedIrps'
  <2>1. /\ information' \in [Irps -> 0 .. DataLength]
        /\ ret' \in [Irps -> Status]
    BY <1>4, <1>6 DEF StartMore
  <2> QED BY <1>6, <2>1 DEF StartMore, CompleteIrp
<1>7. ASSUME NEW t \in Threads, Engine(t) PROVE TypedIrps'
  <2>1. CASE EngineWork(t)
    <3>1. information' \in [Irps -> 0 .. DataLength]
      BY <2>1, LengthType DEF EngineWork
    <3>2. status' \in [Irps -> Status]
      BY <2>1 DEF EngineWork, StopStatus
    <3> QED BY <2>1, <3>1, <3>2 DEF EngineWork
  <2>2. CASE EngineRestore(t)
    BY <2>2 DEF EngineRestore, Held
  <2>3. CASE EngineSkip(t) \/ EngineDrop(t) \/ XoffSweep(t)
    BY <2>3 DEF EngineSkip, EngineDrop, XoffSweep, CompleteIrp
  <2>4. CASE EngineEmpty(t) \/ EngineRecheck(t)
             \/ XoffSent(t) \/ EngineAgain(t) \/ EngineLeave(t)
    BY <2>4 DEF EngineEmpty, EngineRecheck, XoffSent, EngineAgain, EngineLeave
  <2> QED BY <1>7, <2>1, <2>2, <2>3, <2>4 DEF Engine
<1>8. ASSUME TimerFire \/ TimeoutRoutine \/ IoEnter \/ PurgeEnter
             \/ IoXoffCounted \/ CancelQueue
      PROVE  TypedIrps'
  BY <1>8 DEF TimerFire, TimeoutRoutine, IoEnter, PurgeEnter, IoXoffCounted,
              CancelQueue, CompleteIrp
<1> QED BY <1>1, <1>2, <1>3, <1>5, <1>6, <1>7, <1>8 DEF Next, Start

LEMMA TypedThreadsStep ==
  ASSUME TypeInv, Next PROVE TypedThreads'
<1> USE ThreadFacts
    DEF TypeInv, Typed, TypedThreads, queueVars, irpVars, Goto, Acquire, At, Leave, Labels
<1>0. cancelRoutine \subseteq Irps
  BY DEF TypedIrps
<1>1. ASSUME NEW t \in Threads, NEW i, NEW st, CompleteIrp(t, i, st)
      PROVE  toComplete' \in [Threads -> Seq(Irps)]
  <2>1. CASE i \in cancelRoutine
    <3>1. [toComplete EXCEPT ![t] = Append(@, i)] \in [Threads -> Seq(Irps)]
      BY <1>0, <2>1, ListType
    <3> QED BY <1>1, <2>1, <3>1 DEF CompleteIrp
  <2>2. CASE i \notin cancelRoutine
    BY <1>1, <2>2 DEF CompleteIrp
  <2> QED BY <2>1, <2>2
<1>2. ASSUME NEW i \in Irps,
             IoCancelMark(i) \/ IoCancelTake(i) \/ StartRefuse(i) \/ Return(i)
             \/ StartEnter(i) \/ StartEnd(i)
      PROVE  TypedThreads'
  BY <1>2 DEF IoCancelMark, IoCancelTake, StartRefuse, Return, StartEnter, StartEnd
<1>3. ASSUME NEW i \in Irps, CancelRoutine(i) PROVE TypedThreads'
  <2>1. toComplete' \in [Threads -> Seq(Irps)]
    BY <1>3, ListType DEF CancelRoutine
  <2> QED BY <1>3, <2>1 DEF CancelRoutine
<1>4. ASSUME NEW t \in Threads, CompleteOne(t) PROVE TypedThreads'
  <2>1. toComplete' \in [Threads -> Seq(Irps)]
    BY <1>4, HeadTailProperties DEF CompleteOne
  <2> QED BY <1>4, <2>1 DEF CompleteOne
<1>5. ASSUME NEW i \in Irps, StartCheck(i) PROVE TypedThreads'
  BY <1>5 DEF StartCheck, StartIrp, StartFirst, StartImmediate, StartLater,
              StartOverXoff, Refuse
<1>6. ASSUME NEW i \in Irps, StartMore(i) PROVE TypedThreads'
  BY <1>1, <1>6 DEF StartMore, StartIrp
<1>7. ASSUME NEW t \in Threads, Engine(t) PROVE TypedThreads'
  <2>1. CASE EngineWork(t)
    <3>1. toComplete' \in [Threads -> Seq(Irps)]
      <4>1. pCurrent \in Irps
        BY <1>0, <2>1 DEF EngineWork
      <4>2. [toComplete EXCEPT ![t] = Append(@, pCurrent)]
              \in [Threads -> Seq(Irps)]
        BY <4>1, ListType
      <4>3. \/ toComplete' = toComplete
            \/ toComplete' = [toComplete EXCEPT ![t] = Append(@, pCurrent)]
        BY <2>1 DEF EngineWork
      <4> QED BY <4>2, <4>3
    <3>2. lock' = lock /\ pc' \in [Threads -> Labels]
      BY <2>1 DEF EngineWork
    <3> QED BY <3>1, <3>2
  <2>2. CASE EngineSkip(t) \/ EngineDrop(t) \/ XoffSweep(t)
    <3>1. toComplete' \in [Threads -> Seq(Irps)]
      BY <1>1, <2>2 DEF EngineSkip, EngineDrop, XoffSweep
    <3> QED BY <2>2, <3>1 DEF EngineSkip, EngineDrop, XoffSweep
  <2>3. CASE EngineEmpty(t) \/ EngineRestore(t) \/ EngineRecheck(t)
             \/ XoffSent(t) \/ EngineAgain(t) \/ EngineLeave(t)
    BY <2>3 DEF EngineEmpty, EngineRestore, EngineRecheck, XoffSent,
                EngineAgain, EngineLeave
  <2> QED BY <1>7, <2>1, <2>2, <2>3 DEF Engine
<1>8. ASSUME TimerFire \/ TimeoutRoutine \/ IoEnter \/ PurgeEnter
             \/ IoXoffCounted \/ CancelQueue
      PROVE  TypedThreads'
  BY <1>1, <1>8 DEF TimerFire, TimeoutRoutine, IoEnter, PurgeEnter, IoXoffCounted,
                    CancelQueue
<1> QED BY <1>2, <1>3, <1>4, <1>5, <1>6, <1>7, <1>8 DEF Next, Start

LEMMA TypedRestStep ==
  ASSUME TypeInv, Next PROVE TypedRest'
<1> USE IrpAssumption
    DEF TypeInv, Typed, TypedRest, queueVars, irpVars, At, Leave
<1>0. /\ pCurrent \in Irps \cup {NoIrp}
      /\ \A i \in Irps : information[i] \in 0 .. DataLength
      /\ \A i \in Irps : GetWriteLength(i) \in 0 .. DataLength
  BY LengthType DEF WellPlaced, Places, Here, Place
<1>1. NoLocal \in [irp : Irps \cup {NoIrp}, first : BOOLEAN,
                   sent : BOOLEAN, rounds : 0 .. MaxRounds]
  BY DEF NoLocal
<1>2. ASSUME NEW i \in Irps,
             IoCancelMark(i) \/ IoCancelTake(i) \/ StartRefuse(i) \/ Return(i)
             \/ StartEnter(i) \/ CancelRoutine(i)
      PROVE  TypedRest'
  BY <1>1, <1>2 DEF IoCancelMark, IoCancelTake, StartRefuse, Return, StartEnter,
                    CancelRoutine
<1>3. ASSUME NEW i \in Irps, StartEnd(i) PROVE TypedRest'
  <2>1. amountInWriteQueue' \in 0 .. UlongRange - 1
    BY <1>3, AmountType DEF StartEnd
  <2> QED BY <1>1, <1>3, <2>1 DEF StartEnd
<1>4. ASSUME NEW t \in Threads, CompleteOne(t) PROVE TypedRest'
  <2>1. Head(toComplete[t]) \in Irps
    BY <1>4 DEF CompleteOne, TypedThreads
  <2>2. amountInWriteQueue' \in 0 .. UlongRange - 1
    BY <1>4, <2>1, AmountType DEF CompleteOne
  <2> QED BY <1>4, <2>2 DEF CompleteOne
<1>5. ASSUME NEW t, NEW i \in Irps, NEW k \in 0 .. Rest(i), NEW p,
             StartIrp(t, i, k, p, amountInWriteQueue)
      PROVE  /\ amountInWriteQueue' \in 0 .. UlongRange - 1
             /\ timer' \in BOOLEAN
             /\ local' \in [irp : Irps \cup {NoIrp}, first : BOOLEAN,
                            sent : BOOLEAN, rounds : 0 .. MaxRounds]
  <2>1. k \in 0 .. DataLength
    BY LengthType
  <2>2. Sub(Add(amountInWriteQueue, GetWriteLength(i)), k) \in 0 .. UlongRange - 1
    BY <2>1, AmountType
  <2> QED BY <1>5, <2>2 DEF StartIrp, SetIrpTimeout
<1>6. ASSUME NEW i \in Irps, StartCheck(i) PROVE TypedRest'
  <2>1. /\ amountInWriteQueue' \in 0 .. UlongRange - 1
        /\ timer' \in BOOLEAN
        /\ local' \in [irp : Irps \cup {NoIrp}, first : BOOLEAN,
                       sent : BOOLEAN, rounds : 0 .. MaxRounds]
    <3>1. CASE StartFirst(i) \/ StartImmediate(i)
      BY <1>5, <3>1 DEF StartFirst, StartImmediate, Refuse
    <3>2. CASE StartLater(i)
      BY <1>1, <3>2, AmountType DEF StartLater
    <3>3. CASE StartOverXoff(i)
      BY <1>0, <3>3, AmountType DEF StartOverXoff, Refuse
    <3> QED BY <1>6, <3>1, <3>2, <3>3 DEF StartCheck, Refuse
  <2> QED BY <1>6, <2>1 DEF StartCheck
<1>7. ASSUME NEW i \in Irps, StartMore(i) PROVE TypedRest'
  BY <1>5, <1>7 DEF StartMore
<1>8. ASSUME NEW t \in Threads, Engine(t) PROVE TypedRest'
  <2>1. CASE EngineWork(t)
    <3>1. pCurrent \in Irps
      BY <1>0, <2>1 DEF EngineWork, TypedIrps
    <3>2. amountInWriteQueue' \in 0 .. UlongRange - 1
      <4>1. PICK k \in 0 .. Rest(pCurrent) :
              amountInWriteQueue' = IF IsWriteQueue THEN Sub(amountInWriteQueue, k)
                                    ELSE amountInWriteQueue
        BY <2>1 DEF EngineWork
      <4>2. k \in 0 .. DataLength
        BY <3>1, LengthType
      <4> QED BY <3>1, <4>1, <4>2, AmountType
    <3>3. timer' \in BOOLEAN
      BY <2>1 DEF EngineWork, SetIrpTimeout
    <3>4. local' \in [irp : Irps \cup {NoIrp}, first : BOOLEAN,
                      sent : BOOLEAN, rounds : 0 .. MaxRounds]
      BY <2>1, <3>1 DEF EngineWork
    <3> QED BY <2>1, <3>2, <3>3, <3>4 DEF EngineWork
  <2>2. CASE EngineEmpty(t) \/ EngineRestore(t) \/ EngineRecheck(t)
             \/ EngineSkip(t) \/ EngineDrop(t) \/ EngineLeave(t)
    BY <1>1, <2>2 DEF EngineEmpty, EngineRestore, EngineRecheck, EngineSkip,
                      EngineDrop, EngineLeave
  <2>3. CASE XoffSent(t) \/ XoffSweep(t)
    BY <1>0, <2>3 DEF XoffSent, XoffSweep
  <2>4. CASE EngineAgain(t)
    <3>1. local.rounds + 1 \in 0 .. MaxRounds
      BY <2>4 DEF EngineAgain
    <3>2. [NoLocal EXCEPT !.rounds = local.rounds + 1]
            \in [irp : Irps \cup {NoIrp}, first : BOOLEAN,
                 sent : BOOLEAN, rounds : 0 .. MaxRounds]
      BY <3>1 DEF NoLocal
    <3> QED BY <2>4, <3>2 DEF EngineAgain
  <2> QED BY <1>8, <2>1, <2>2, <2>3, <2>4 DEF Engine
<1>9. ASSUME TimerFire \/ TimeoutRoutine \/ IoEnter \/ PurgeEnter
             \/ IoXoffCounted \/ CancelQueue
      PROVE  TypedRest'
  <2>1. CASE TimerFire \/ TimeoutRoutine
    BY <1>1, <2>1 DEF TimerFire, TimeoutRoutine
  <2>2. CASE IoEnter \/ PurgeEnter
    BY <2>2 DEF IoEnter, PurgeEnter
  <2>3. CASE IoXoffCounted
    BY <1>1, <2>3 DEF IoXoffCounted
  <2>4. CASE CancelQueue
    BY <1>1, <2>4 DEF CancelQueue
  <2> QED BY <1>9, <2>1, <2>2, <2>3, <2>4
<1> QED BY <1>2, <1>3, <1>4, <1>6, <1>7, <1>8, <1>9 DEF Next, Start

LEMMA TypeInvInvariant == Spec => []TypeInv
<1>1. Init => TypeInv
  BY InitTypeInv
<1>2. TypeInv /\ [Next]_vars => TypeInv'
  <2> SUFFICES ASSUME TypeInv, [Next]_vars PROVE TypeInv'
    OBVIOUS
  <2>1. CASE Next
    BY <2>1, PlacedStep, HeldStep, TypedIrpsStep, TypedThreadsStep, TypedRestStep
       DEF TypeInv, Typed
  <2>2. CASE UNCHANGED vars
    BY <2>2 DEF TypeInv, Typed, TypedIrps, TypedThreads, TypedRest, Held, At, Here, vars
  <2> QED BY <2>1, <2>2
<1> QED BY <1>1, <1>2, PTL DEF Spec

\* The state of the queue keeps its type, whatever the requests, their kinds
\* and the bounds: in particular no request counts more bytes than it has, and
\* CancelRoutine never unlinks a request that is not in the list.
THEOREM TypeCorrect == Spec => []TypeOK
BY TypeInvInvariant, TypeInvTypeOK, PTL

-----------------------------------------------------------------------------
(***************************************************************************)
(* Who may complete a request: at any time at most one of                  *)
(*   its cancel routine, still set; its cancel routine, running; the       *)
(*   engine, between taking the routine and putting it back; a completion  *)
(*   list; its own dispatch routine; and nobody once it was completed.     *)
(***************************************************************************)
Running(i)    == pc[Canceller(i)] = "call"
Holding(i)    == \E t \in Threads : At(t, "restore") /\ local.irp = i
Completing(i) == \E t \in Threads : InToComplete(t, i)
Returning(i)  == pc[Starter(i)] = "complete" /\ ret[i] # "PENDING"

ListedOnce ==
  \A t, u \in Threads :
    \A m \in DOMAIN toComplete[t], n \in DOMAIN toComplete[u] :
      toComplete[t][m] = toComplete[u][n] => t = u /\ m = n

OneOwner(i) ==
  /\ ret[i] = "none" => /\ pc[Starter(i)] = "idle" /\ completions[i] = 0
                        /\ i \notin cancelRoutine
                        /\ ~Running(i) /\ ~Holding(i) /\ ~Completing(i)
  /\ ioCancel[i] # "done" => pc[Canceller(i)] = "idle"
  /\ completions[i] \in {0, 1}
  /\ i \in cancelRoutine => /\ ~Running(i) /\ ~Holding(i) /\ ~Completing(i)
                            /\ ~Returning(i) /\ completions[i] = 0
  /\ Running(i) => /\ ~Holding(i) /\ ~Completing(i) /\ ~Returning(i)
                   /\ completions[i] = 0
  /\ Holding(i) => ~Completing(i) /\ ~Returning(i) /\ completions[i] = 0
  /\ Completing(i) => ~Returning(i) /\ completions[i] = 0
  /\ Returning(i) => completions[i] = 0

OwnerInv == ListedOnce /\ \A i \in Irps : OneOwner(i)

LEMMA ThreadsDiffer ==
  /\ \A i, j \in Irps : /\ Starter(i) # Canceller(j)
                        /\ Starter(i) = Starter(j) => i = j
                        /\ Canceller(i) = Canceller(j) => i = j
  /\ \A i \in Irps : /\ Starter(i) \notin {Dpc, Io, Purger}
                     /\ Canceller(i) \notin {Dpc, Io, Purger}
                     /\ Starter(i)[1] = "start"
BY DEF Starter, Canceller, Dpc, Io, Purger

\* What an append to a completion list and a removal from it do.
LEMMA AppendOnce ==
  ASSUME TypedThreads, ListedOnce, NEW t \in Threads, NEW i \in Irps,
         ~Completing(i), toComplete' = [toComplete EXCEPT ![t] = Append(@, i)]
  PROVE  /\ ListedOnce'
         /\ \A j \in Irps : Completing(j)' <=> Completing(j) \/ j = i
<1> DEFINE L == Len(toComplete[t])
<1>1. /\ toComplete \in [Threads -> Seq(Irps)]
      /\ L \in Nat
      /\ DOMAIN toComplete[t] = 1 .. L
      /\ DOMAIN toComplete'[t] = 1 .. L + 1
      /\ \A n \in 1 .. L : toComplete'[t][n] = toComplete[t][n]
      /\ toComplete'[t][L + 1] = i
      /\ \A u \in Threads \ {t} : toComplete'[u] = toComplete[u]
  <2>1. toComplete[t] \in Seq(Irps)
    BY DEF TypedThreads
  <2>2. toComplete'[t] = Append(toComplete[t], i)
    BY DEF TypedThreads
  <2> QED BY <2>1, <2>2, AppendProperties DEF TypedThreads
<1> HIDE DEF L
<1>2. \A n \in 1 .. L + 1 : n \in 1 .. L \/ n = L + 1
  BY <1>1
<1>2a. L + 1 \in 1 .. L + 1 /\ \A n \in 1 .. L : n \in 1 .. L + 1
  BY <1>1
<1>3. ASSUME NEW j \in Irps, NEW u \in Threads
      PROVE  InToComplete(u, j)' <=> InToComplete(u, j) \/ (u = t /\ j = i)
  BY <1>1, <1>2, <1>2a DEF InToComplete
<1>4. ASSUME NEW u \in Threads, NEW v \in Threads,
             NEW m \in DOMAIN toComplete'[u], NEW n \in DOMAIN toComplete'[v],
             toComplete'[u][m] = toComplete'[v][n]
      PROVE  u = v /\ m = n
  <2>1. CASE toComplete'[u][m] # i
    <3>1. /\ m \in DOMAIN toComplete[u] /\ toComplete'[u][m] = toComplete[u][m]
          /\ n \in DOMAIN toComplete[v] /\ toComplete'[v][n] = toComplete[v][n]
      BY <1>1, <1>2, <1>4, <2>1
    <3> QED BY <1>4, <3>1 DEF ListedOnce
  <2>2. CASE toComplete'[u][m] = i
    <3>1. \A w \in Threads : \A k \in DOMAIN toComplete[w] : toComplete[w][k] # i
      BY DEF Completing, InToComplete
    <3>2. ASSUME NEW w \in Threads, NEW k \in DOMAIN toComplete'[w],
                 toComplete'[w][k] = i
          PROVE  w = t /\ k = L + 1
      BY <1>1, <1>2, <3>1, <3>2
    <3> QED BY <1>4, <2>2, <3>2
  <2> QED BY <2>1, <2>2
<1> QED BY <1>3, <1>4 DEF ListedOnce, Completing

LEMMA TailOnce ==
  ASSUME TypedThreads, ListedOnce, NEW t \in Threads, toComplete[t] # <<>>,
         toComplete' = [toComplete EXCEPT ![t] = Tail(@)]
  PROVE  /\ ListedOnce'
         /\ Head(toComplete[t]) \in Irps /\ Completing(Head(toComplete[t]))
         /\ \A j \in Irps : Completing(j)' <=> Completing(j) /\ j # Head(toComplete[t])
<1> DEFINE L == Len(toComplete[t])
           h == Head(toComplete[t])
<1>1. /\ toComplete \in [Threads -> Seq(Irps)]
      /\ L \in Nat \ {0}
      /\ DOMAIN toComplete[t] = 1 .. L
      /\ DOMAIN toComplete'[t] = 1 .. L - 1
      /\ \A n \in 1 .. L - 1 : toComplete'[t][n] = toComplete[t][n + 1]
      /\ h = toComplete[t][1] /\ h \in Irps
      /\ \A u \in Threads \ {t} : toComplete'[u] = toComplete[u]
  <2>1. toComplete[t] \in Seq(Irps)
    BY DEF TypedThreads
  <2>2. toComplete'[t] = Tail(toComplete[t])
    BY DEF TypedThreads
  <2>3. /\ h \in Irps /\ h = toComplete[t][1]
        /\ Tail(toComplete[t]) \in Seq(Irps)
        /\ Len(Tail(toComplete[t])) = L - 1
        /\ L \in Nat \ {0}
        /\ \A n \in 1 .. L - 1 : Tail(toComplete[t])[n] = toComplete[t][n + 1]
    BY <2>1, HeadTailProperties, EmptySeq
  <2> QED BY <2>1, <2>2, <2>3 DEF TypedThreads
<1> HIDE DEF L, h
<1>2. /\ 1 \in 1 .. L
      /\ \A n \in 1 .. L - 1 : n + 1 \in 1 .. L /\ n + 1 # 1
      /\ \A n \in 1 .. L : n = 1 \/ (n - 1 \in 1 .. L - 1 /\ (n - 1) + 1 = n)
      /\ \A m, n \in 1 .. L - 1 : m + 1 = n + 1 => m = n
  BY <1>1
<1>3. \A u \in Threads : \A n \in DOMAIN toComplete[u] :
        toComplete[u][n] = h => u = t /\ n = 1
  BY <1>1, <1>2 DEF ListedOnce
<1>4. ASSUME NEW j \in Irps, NEW u \in Threads
      PROVE  InToComplete(u, j)' <=> InToComplete(u, j) /\ j # h
  <2>1. CASE u # t
    BY <1>1, <1>3, <2>1 DEF InToComplete
  <2>2. CASE u = t
    <3>1. ASSUME NEW n \in 1 .. L - 1, toComplete'[t][n] = j
          PROVE  j # h /\ n + 1 \in 1 .. L /\ toComplete[t][n + 1] = j
      <4>1. n + 1 \in 1 .. L /\ n + 1 # 1 /\ toComplete[t][n + 1] = j
        BY <1>1, <1>2, <3>1
      <4> QED BY <1>1, <1>3, <4>1
    <3>2. ASSUME NEW n \in 1 .. L, toComplete[t][n] = j, j # h
          PROVE  n - 1 \in 1 .. L - 1 /\ toComplete'[t][n - 1] = j
      <4>1. n - 1 \in 1 .. L - 1 /\ (n - 1) + 1 = n
        BY <1>1, <1>2, <3>2
      <4>2. toComplete'[t][n - 1] = toComplete[t][(n - 1) + 1]
        BY <1>1, <4>1
      <4> QED BY <3>2, <4>1, <4>2
    <3> QED BY <1>1, <1>2, <2>2, <3>1, <3>2 DEF InToComplete
  <2> QED BY <2>1, <2>2
<1>5. ASSUME NEW u \in Threads, NEW v \in Threads,
             NEW m \in DOMAIN toComplete'[u], NEW n \in DOMAIN toComplete'[v],
             toComplete'[u][m] = toComplete'[v][n]
      PROVE  u = v /\ m = n
  <2> DEFINE at(w, k) == IF w = t THEN k + 1 ELSE k
  <2>1. \A w \in Threads : \A k \in DOMAIN toComplete'[w] :
          at(w, k) \in DOMAIN toComplete[w] /\ toComplete[w][at(w, k)] = toComplete'[w][k]
    BY <1>1, <1>2
  <2>2. u = v /\ at(u, m) = at(v, n)
    BY <1>5, <2>1 DEF ListedOnce
  <2>3. CASE u = t
    BY <1>1, <1>2, <2>2, <2>3
  <2>4. CASE u # t
    BY <2>2, <2>4
  <2> QED BY <2>2, <2>3, <2>4
<1>6. InToComplete(t, h)
  BY <1>1, <1>2 DEF InToComplete
<1> QED BY <1>1, <1>4, <1>5, <1>6 DEF ListedOnce, Completing, h

LEMMA SameLists ==
  ASSUME toComplete' = toComplete
  PROVE  /\ ListedOnce' <=> ListedOnce
         /\ \A j \in Irps : Completing(j)' <=> Completing(j)
BY DEF ListedOnce, Completing, InToComplete

\* A step that touches nothing OneOwner(j) speaks of preserves it.
LEMMA OwnerFrame ==
  ASSUME NEW j \in Irps, OneOwner(j),
         ret'[j] = ret[j] \/ (ret[j] # "none" /\ ret'[j] # "none"),
         ret[j] = "none" => pc'[Starter(j)] = "idle",
         ioCancel'[j] = ioCancel[j],
         pc'[Canceller(j)] = pc[Canceller(j)] \/ ioCancel[j] = "done",
         completions'[j] = completions[j],
         j \in cancelRoutine' => j \in cancelRoutine,
         Running(j)' => Running(j),
         Holding(j)' => Holding(j),
         Completing(j)' => Completing(j),
         Returning(j)' => Returning(j)
  PROVE  OneOwner(j)'
BY DEF OneOwner

\* CompleteIrp moves the right to complete i from its cancel routine to the
\* list, and only if the routine was there to take.
LEMMA CompleteIrpMoves ==
  ASSUME TypeInv, OwnerInv, NEW t \in Threads, NEW i, NEW st,
         CompleteIrp(t, i, st)
  PROVE  /\ ListedOnce'
         /\ cancelRoutine' = cancelRoutine \ {i}
         /\ \A j \in Irps : Completing(j)' <=> Completing(j) \/ (j = i /\ i \in cancelRoutine)
<1>1. CASE i \in cancelRoutine
  <2>1. i \in Irps /\ ~Completing(i)
    BY <1>1 DEF TypeInv, Typed, TypedIrps, OwnerInv, OneOwner
  <2> QED BY <1>1, <2>1, AppendOnce DEF CompleteIrp, TypeInv, Typed, OwnerInv
<1>2. CASE i \notin cancelRoutine
  BY <1>2, SameLists DEF CompleteIrp, OwnerInv
<1> QED BY <1>1, <1>2

\* Taking the right from the cancel routine for the completion list leaves
\* one owner, if the step does nothing else to the owners.
LEMMA CompleteIrpOwner ==
  ASSUME TypeInv, OwnerInv, NEW t \in Threads, NEW i, NEW st,
         CompleteIrp(t, i, st),
         ioCancel' = ioCancel, completions' = completions,
         \A j \in Irps :
           /\ ret'[j] = ret[j] \/ (ret[j] # "none" /\ ret'[j] # "none")
           /\ ret[j] = "none" => pc'[Starter(j)] = "idle"
           /\ pc'[Canceller(j)] = pc[Canceller(j)] \/ ioCancel[j] = "done"
           /\ Running(j)' => Running(j)
           /\ ~Holding(j)'
           /\ Returning(j)' => Returning(j)
  PROVE  OwnerInv'
<1>1. ListedOnce'
  BY CompleteIrpMoves
<1>2. ASSUME NEW j \in Irps PROVE OneOwner(j)'
  <2>0. OneOwner(j)
    BY DEF OwnerInv
  <2>1. CASE j = i /\ i \in cancelRoutine
    <3>1. j \notin cancelRoutine'
      BY <2>1, CompleteIrpMoves
    <3> QED BY <2>0, <2>1, <3>1 DEF OneOwner
  <2>2. CASE ~(j = i /\ i \in cancelRoutine)
    <3>1. (Completing(j)' => Completing(j)) /\ (j \in cancelRoutine' => j \in cancelRoutine)
      BY <2>2, CompleteIrpMoves
    <3> QED BY <2>0, <3>1, OwnerFrame
  <2> QED BY <2>1, <2>2
<1> QED BY <1>1, <1>2 DEF OwnerInv

LEMMA QuietOwner ==
  ASSUME TypeInv, OwnerInv, toComplete' = toComplete,
         ioCancel' = ioCancel, completions' = completions,
         cancelRoutine' = cancelRoutine,
         \A j \in Irps :
           /\ ret'[j] = ret[j] \/ (ret[j] # "none" /\ ret'[j] # "none")
           /\ ret[j] = "none" => pc'[Starter(j)] = "idle"
           /\ pc'[Canceller(j)] = pc[Canceller(j)] \/ ioCancel[j] = "done"
           /\ Running(j)' => Running(j)
           /\ Holding(j)' => Holding(j)
           /\ Returning(j)' => Returning(j)
  PROVE  OwnerInv'
BY SameLists, OwnerFrame DEF OwnerInv

\* What a step that moves one thread does to the places of the owners.
LEMMA MoveThread ==
  ASSUME TypeInv, OwnerInv, NEW t \in Threads, NEW label,
         label \notin {"call", "restore", "complete"} \/ (label = "complete" /\ t[1] # "start"),
         lock' \in {t, Free}, lock \in {t, Free},
         lock = Free => t \in {Dpc, Io, Purger} \/ pc[t] # "idle",
         lock = t => pc[t] \notin {"idle", "restore"},
         pc' = [pc EXCEPT ![t] = label]
  PROVE  \A j \in Irps :
           /\ ret[j] = "none" => pc'[Starter(j)] = "idle"
           /\ pc'[Canceller(j)] = pc[Canceller(j)] \/ ioCancel[j] = "done"
           /\ Running(j)' => Running(j)
           /\ ~Holding(j)'
           /\ pc'[Starter(j)] = "complete" => pc[Starter(j)] = "complete"
           /\ t = Starter(j) => pc'[Starter(j)] # "complete"
<1>0. /\ pc \in [Threads -> Labels] /\ Free \notin Threads
      /\ \A j \in Irps : Starter(j) \in Threads /\ Canceller(j) \in Threads
  BY ThreadFacts DEF TypeInv, Typed, TypedThreads
<1> TAKE j \in Irps
<1>1. OneOwner(j)
  BY DEF OwnerInv
<1>2. t = Starter(j) \/ t = Canceller(j) => pc[t] # "idle"
  BY ThreadsDiffer
<1>3. ret[j] = "none" => pc'[Starter(j)] = "idle"
  BY <1>0, <1>1, <1>2 DEF OneOwner
<1>4. pc'[Canceller(j)] = pc[Canceller(j)] \/ ioCancel[j] = "done"
  BY <1>0, <1>1, <1>2 DEF OneOwner
<1>5. Running(j)' => Running(j)
  BY <1>0 DEF Running
<1>6. ~Holding(j)'
  BY <1>0 DEF Holding, At
<1>7. /\ pc'[Starter(j)] = "complete" => pc[Starter(j)] = "complete"
      /\ t = Starter(j) => pc'[Starter(j)] # "complete"
  BY <1>0, ThreadsDiffer
<1> QED BY <1>3, <1>4, <1>5, <1>6, <1>7

LEMMA OwnerStep ==
  ASSUME TypeInv, OwnerInv, Next PROVE OwnerInv'
<1> USE ThreadFacts, ThreadsDiffer DEF irpVars, queueVars
<1>0. /\ pc \in [Threads -> Labels] /\ lock \in Threads \cup {Free}
      /\ cancelRoutine \subseteq Irps /\ ret \in [Irps -> Status]
      /\ completions \in [Irps -> Nat]
      /\ ioCancel \in [Irps -> {"no", "marked", "done"}]
      /\ \A j \in Irps : OneOwner(j)
  BY DEF TypeInv, Typed, TypedIrps, TypedThreads, OwnerInv
<1>1. ASSUME NEW i \in Irps, IoCancelMark(i) PROVE OwnerInv'
  BY <1>0, <1>1, SameLists
     DEF IoCancelMark, OwnerInv, OneOwner, Running, Holding, At, Returning
<1>2. ASSUME NEW i \in Irps, IoCancelTake(i) PROVE OwnerInv'
  <2>1. /\ \A j \in Irps : Completing(j)' <=> Completing(j)
        /\ ListedOnce'
    BY <1>2, SameLists DEF IoCancelTake, OwnerInv
  <2>2. ASSUME NEW j \in Irps PROVE OneOwner(j)'
    <3>1. CASE i \in cancelRoutine
      BY <1>0, <1>2, <2>1, <3>1
         DEF IoCancelTake, Goto, OneOwner, Running, Holding, At, Returning
    <3>2. CASE i \notin cancelRoutine
      BY <1>0, <1>2, <2>1, <3>2
         DEF IoCancelTake, OneOwner, Running, Holding, At, Returning
    <3> QED BY <3>1, <3>2
  <2> QED BY <2>1, <2>2 DEF OwnerInv
<1>3. ASSUME NEW i \in Irps, StartEnter(i) PROVE OwnerInv'
  <2>1. /\ \A j \in Irps : Completing(j)' <=> Completing(j)
        /\ ListedOnce'
    BY <1>3, SameLists DEF StartEnter, OwnerInv
  <2>2. ASSUME NEW j \in Irps PROVE OneOwner(j)'
    BY <1>0, <1>3, <2>1
       DEF StartEnter, Acquire, Goto, OneOwner, Running, Holding, At, Returning
  <2> QED BY <2>1, <2>2 DEF OwnerInv
<1>4. ASSUME NEW i \in Irps, StartRefuse(i) PROVE OwnerInv'
  <2>1. /\ \A j \in Irps : Completing(j)' <=> Completing(j)
        /\ ListedOnce'
    BY <1>4, SameLists DEF StartRefuse, OwnerInv
  <2>2. ASSUME NEW j \in Irps PROVE OneOwner(j)'
    BY <1>0, <1>4, <2>1
       DEF StartRefuse, NoPending, Leave, Goto, OneOwner, Running, Holding, At, Returning
  <2> QED BY <2>1, <2>2 DEF OwnerInv
<1>5. ASSUME NEW i \in Irps, StartEnd(i) PROVE OwnerInv'
  <2>1. /\ \A j \in Irps : Completing(j)' <=> Completing(j)
        /\ ListedOnce'
    BY <1>5, SameLists DEF StartEnd, OwnerInv
  <2>2. ASSUME NEW j \in Irps PROVE OneOwner(j)'
    BY <1>0, <1>5, <2>1
       DEF StartEnd, NoPending, Leave, Goto, OneOwner, Running, Holding, At, Returning
  <2> QED BY <2>1, <2>2 DEF OwnerInv
<1>6. ASSUME NEW i \in Irps, Return(i) PROVE OwnerInv'
  <2>1. /\ \A j \in Irps : Completing(j)' <=> Completing(j)
        /\ ListedOnce'
    BY <1>6, SameLists DEF Return, OwnerInv
  <2>2. ASSUME NEW j \in Irps PROVE OneOwner(j)'
    BY <1>0, <1>6, <2>1
       DEF Return, Goto, OneOwner, Running, Holding, At, Returning
  <2> QED BY <2>1, <2>2 DEF OwnerInv
<1>7. ASSUME NEW i \in Irps, StartCheck(i) PROVE OwnerInv'
  <2>1. /\ lock = Starter(i) /\ pc[Starter(i)] = "check" /\ lock' \in {lock, Free}
        /\ toComplete' = toComplete /\ ioCancel' = ioCancel
        /\ completions' = completions /\ cancelRoutine' = cancelRoutine
    BY <1>7 DEF StartCheck, At, StartIrp, StartFirst, StartImmediate, StartLater,
                StartOverXoff, Refuse, Leave
  <2>2. PICK label \in {"refuse", "xoff", "next", "end", "idle", "more"} :
          pc' = [pc EXCEPT ![Starter(i)] = label]
    BY <1>7 DEF StartCheck, StartIrp, StartFirst, StartImmediate, StartLater,
                StartOverXoff, Refuse, Leave, Goto
  <2>3. \/ ret' = ret
        \/ \E st \in Status \ {"none"} : ret' = [ret EXCEPT ![i] = st]
    BY <1>7 DEF StartCheck, StartIrp, StartFirst, StartImmediate, StartLater,
                StartOverXoff, Refuse, Status
  <2>4. ret[i] # "none"
    BY <1>0, <2>1 DEF OneOwner
  <2>5. \A j \in Irps : Returning(j)' => Returning(j)
    BY <1>0, <2>2, <2>3 DEF Returning
  <2>6. \A j \in Irps : ret'[j] = ret[j] \/ (ret[j] # "none" /\ ret'[j] # "none")
    BY <1>0, <2>3, <2>4
  <2>7. \A j \in Irps :
          /\ ret[j] = "none" => pc'[Starter(j)] = "idle"
          /\ pc'[Canceller(j)] = pc[Canceller(j)] \/ ioCancel[j] = "done"
          /\ Running(j)' => Running(j)
          /\ ~Holding(j)'
    BY <2>1, <2>2, MoveThread
  <2> QED BY <2>1, <2>5, <2>6, <2>7, QuietOwner
<1>8. ASSUME NEW i \in Irps, StartMore(i) PROVE OwnerInv'
  <2>1. /\ lock = Starter(i) /\ pc[Starter(i)] = "more" /\ lock' = lock
        /\ ioCancel' = ioCancel /\ completions' = completions
        /\ CompleteIrp(Starter(i), local.irp, "MORE_WRITES")
    BY <1>8 DEF StartMore, At, StartIrp
  <2>2. PICK label \in {"xoff", "next", "end"} :
          pc' = [pc EXCEPT ![Starter(i)] = label]
    BY <1>8 DEF StartMore, StartIrp, Goto
  <2>3. \E st \in Status \ {"none"} : ret' = [ret EXCEPT ![i] = st]
    BY <1>8 DEF StartMore, StartIrp, Status
  <2>4. ret[i] # "none"
    BY <1>0, <2>1 DEF OneOwner
  <2>5. \A j \in Irps : Returning(j)' => Returning(j)
    BY <1>0, <2>2, <2>3 DEF Returning
  <2>6. \A j \in Irps : ret'[j] = ret[j] \/ (ret[j] # "none" /\ ret'[j] # "none")
    BY <1>0, <2>3, <2>4
  <2>7. \A j \in Irps :
          /\ ret[j] = "none" => pc'[Starter(j)] = "idle"
          /\ pc'[Canceller(j)] = pc[Canceller(j)] \/ ioCancel[j] = "done"
          /\ Running(j)' => Running(j)
          /\ ~Holding(j)'
    BY <2>1, <2>2, MoveThread
  <2> QED BY <2>1, <2>5, <2>6, <2>7, CompleteIrpOwner
<1>9. ASSUME NEW i \in Irps, CancelRoutine(i) PROVE OwnerInv'
  <2>1. Running(i) /\ ~Completing(i)
    BY <1>0, <1>9 DEF CancelRoutine, Running, OneOwner
  <2>2. /\ \A j \in Irps : Completing(j)' <=> Completing(j) \/ j = i
        /\ ListedOnce'
    BY <1>9, <2>1, AppendOnce DEF CancelRoutine, OwnerInv, TypeInv, Typed
  <2>3. ASSUME NEW j \in Irps PROVE OneOwner(j)'
    BY <1>0, <1>9, <2>1, <2>2
       DEF CancelRoutine, Leave, Acquire, Goto, OneOwner, Running, Holding, At, Returning
  <2> QED BY <2>2, <2>3 DEF OwnerInv
<1>10. ASSUME NEW t \in Threads, Engine(t) PROVE OwnerInv'
  <2>1. CASE EngineEmpty(t) \/ EngineRecheck(t) \/ XoffSent(t)
             \/ EngineAgain(t) \/ EngineLeave(t)
    <3>1. /\ lock = t /\ lock' \in {t, Free}
          /\ pc[t] \in {"next", "recheck", "xoff", "end"}
          /\ toComplete' = toComplete /\ ioCancel' = ioCancel /\ ret' = ret
          /\ completions' = completions /\ cancelRoutine' = cancelRoutine
      BY <2>1 DEF EngineEmpty, EngineRecheck, XoffSent, EngineAgain, EngineLeave,
                  At, Leave
    <3>2. PICK label \in {"end", "drop", "xoff", "sweep", "next", "idle", "complete"} :
            /\ pc' = [pc EXCEPT ![t] = label]
            /\ label = "complete" => t[1] # "start"
      BY <2>1 DEF EngineEmpty, EngineRecheck, XoffSent, EngineAgain, EngineLeave,
                  Goto, Leave
    <3> QED BY <1>0, <3>1, <3>2, MoveThread, QuietOwner DEF Returning
  <2>2. CASE EngineSkip(t)
    <3>1. \A j \in Irps : /\ Running(j)' <=> Running(j)
                          /\ Holding(j)' => Holding(j)
                          /\ Returning(j)' <=> Returning(j)
      BY <1>0, <2>2 DEF EngineSkip, Running, Holding, Returning, At
    <3> QED BY <1>0, <2>2, <3>1, QuietOwner DEF EngineSkip, OneOwner
  <2>3. CASE EngineDrop(t)
    <3>1. lock = t /\ pc[t] = "drop" /\ lock' = lock /\ pc' = [pc EXCEPT ![t] = "next"]
      BY <2>3 DEF EngineDrop, At, Goto
    <3> QED BY <1>0, <2>3, <3>1, MoveThread, CompleteIrpOwner DEF EngineDrop, Returning
  <2>4. CASE XoffSweep(t)
    <3>1. /\ lock = t /\ pc[t] = "sweep" /\ lock' = lock
          /\ pc' = pc \/ \E label \in {"end", "next"} : pc' = [pc EXCEPT ![t] = label]
          /\ ioCancel' = ioCancel /\ completions' = completions /\ ret' = ret
      BY <2>4 DEF XoffSweep, At, Goto
    <3>2. \A j \in Irps :
            /\ ret[j] = "none" => pc'[Starter(j)] = "idle"
            /\ pc'[Canceller(j)] = pc[Canceller(j)] \/ ioCancel[j] = "done"
            /\ Running(j)' => Running(j)
            /\ ~Holding(j)'
            /\ Returning(j)' => Returning(j)
      <4>1. CASE pc' = pc
        BY <1>0, <3>1, <4>1 DEF OneOwner, Running, Holding, At, Returning
      <4>2. CASE pc' # pc
        BY <1>0, <3>1, <4>2, MoveThread DEF Returning
      <4> QED BY <4>1, <4>2
    <3>3. \/ toComplete' = toComplete /\ cancelRoutine' = cancelRoutine
          \/ \E i, st : CompleteIrp(t, i, st)
      BY <2>4 DEF XoffSweep
    <3> QED BY <3>1, <3>2, <3>3, QuietOwner, CompleteIrpOwner
  <2>5. CASE EngineWork(t)
    <3> DEFINE i == pCurrent
    <3>1. /\ i \in Irps /\ i \in cancelRoutine /\ ~Completing(i)
          /\ cancelRoutine' = cancelRoutine \ {i}
          /\ lock = t /\ lock' = t /\ pc[t] = "next"
          /\ ioCancel' = ioCancel /\ completions' = completions /\ ret' = ret
      BY <1>0, <2>5 DEF EngineWork, At, OneOwner
    <3>2. \/ /\ toComplete' = toComplete /\ local'.irp = i
             /\ pc' = [pc EXCEPT ![t] = "restore"]
          \/ /\ toComplete' = [toComplete EXCEPT ![t] = Append(@, i)]
             /\ pc' = pc
      BY <2>5 DEF EngineWork, Goto, TypeInv, Typed, TypedRest
    <3>3. CASE toComplete' = toComplete /\ local'.irp = i
               /\ pc' = [pc EXCEPT ![t] = "restore"]
      <4>1. /\ \A j \in Irps : Completing(j)' <=> Completing(j)
            /\ ListedOnce'
        BY <3>3, SameLists DEF OwnerInv
      <4>2. ASSUME NEW j \in Irps PROVE OneOwner(j)'
        BY <1>0, <3>1, <3>3, <4>1 DEF OneOwner, Running, Holding, At, Returning
      <4> QED BY <4>1, <4>2 DEF OwnerInv
    <3>4. CASE toComplete' = [toComplete EXCEPT ![t] = Append(@, i)] /\ pc' = pc
      <4>1. /\ \A j \in Irps : Completing(j)' <=> Completing(j) \/ j = i
            /\ ListedOnce'
        BY <3>1, <3>4, AppendOnce DEF OwnerInv, TypeInv, Typed
      <4>2. ASSUME NEW j \in Irps PROVE OneOwner(j)'
        BY <1>0, <3>1, <3>4, <4>1 DEF OneOwner, Running, Holding, At, Returning
      <4> QED BY <4>1, <4>2 DEF OwnerInv
    <3> QED BY <3>2, <3>3, <3>4
  <2>6. CASE EngineRestore(t)
    <3>1. /\ \A j \in Irps : Completing(j)' <=> Completing(j)
          /\ ListedOnce'
      BY <2>6, SameLists DEF EngineRestore, OwnerInv
    <3>2. ASSUME NEW j \in Irps PROVE OneOwner(j)'
      BY <1>0, <2>6, <3>1
         DEF EngineRestore, Goto, OneOwner, Running, Holding, At, Returning
    <3> QED BY <3>1, <3>2 DEF OwnerInv
  <2> QED BY <1>10, <2>1, <2>2, <2>3, <2>4, <2>5, <2>6 DEF Engine
<1>11. ASSUME NEW t \in Threads, CompleteOne(t) PROVE OwnerInv'
  <2>1. /\ \A j \in Irps : Completing(j)' <=> Completing(j) /\ j # Head(toComplete[t])
        /\ ListedOnce'
        /\ Head(toComplete[t]) \in Irps /\ Completing(Head(toComplete[t]))
    BY <1>11, TailOnce DEF CompleteOne, OwnerInv, TypeInv, Typed
  <2>2. ASSUME NEW j \in Irps PROVE OneOwner(j)'
    BY <1>0, <1>11, <2>1
       DEF CompleteOne, Goto, OneOwner, Running, Holding, At, Returning
  <2> QED BY <2>1, <2>2 DEF OwnerInv
<1>12. ASSUME TimerFire \/ TimeoutRoutine \/ IoEnter \/ PurgeEnter PROVE OwnerInv'
  <2>1. /\ toComplete' = toComplete /\ ioCancel' = ioCancel /\ ret' = ret
        /\ completions' = completions /\ cancelRoutine' = cancelRoutine
    BY <1>12 DEF TimerFire, TimeoutRoutine, IoEnter, PurgeEnter
  <2>2. /\ lock' # lock => lock = Free
        /\ \E t \in {Dpc, Io, Purger} : \E label \in Labels \ {"restore"} :
             /\ pc' = [pc EXCEPT ![t] = label]
             /\ lock' # lock => lock' = t
    BY <1>12 DEF TimerFire, TimeoutRoutine, IoEnter, PurgeEnter, Acquire, Goto, Leave,
                 Labels
  <2>3. \A j \in Irps : /\ pc'[Starter(j)] = pc[Starter(j)]
                        /\ pc'[Canceller(j)] = pc[Canceller(j)]
    BY <1>0, <2>2
  <2>4. \A j \in Irps : Holding(j)' => Holding(j)
    <3>1. CASE TimerFire
      BY <1>0, <3>1 DEF TimerFire, Goto, Holding, At
    <3>2. CASE TimeoutRoutine \/ IoEnter \/ PurgeEnter
      BY <1>0, <3>2
         DEF TimeoutRoutine, IoEnter, PurgeEnter, Acquire, Goto, Leave, Holding, At
    <3> QED BY <1>12, <3>1, <3>2
  <2> QED BY <1>0, <2>1, <2>3, <2>4, QuietOwner DEF OneOwner, Running, Returning
<1>13. ASSUME IoXoffCounted PROVE OwnerInv'
  <2>1. /\ pc' = [pc EXCEPT ![Io] = "complete"] \/ pc' = [pc EXCEPT ![Io] = "idle"]
        /\ lock' = Free /\ CompleteIrp(Io, pCurrent, "SUCCESS")
        /\ ioCancel' = ioCancel /\ ret' = ret /\ completions' = completions
    BY <1>13 DEF IoXoffCounted, Leave, Goto
  <2>2. \A j \in Irps : /\ pc'[Starter(j)] = pc[Starter(j)]
                        /\ pc'[Canceller(j)] = pc[Canceller(j)]
                        /\ ~Holding(j)'
    BY <1>0, <2>1 DEF Holding, At
  <2> QED BY <1>0, <2>1, <2>2, CompleteIrpOwner DEF OneOwner, Running, Returning
<1>14. ASSUME CancelQueue PROVE OwnerInv'
  <2>1. /\ lock = Purger /\ pc[Purger] = "purge"
        /\ ioCancel' = ioCancel /\ ret' = ret /\ completions' = completions
        /\ \/ pc' = pc /\ lock' = lock
           \/ /\ \E label \in {"complete", "idle"} : pc' = [pc EXCEPT ![Purger] = label]
              /\ lock' = Free
    BY <1>14 DEF CancelQueue, At, Leave, Goto
  <2>2. \A j \in Irps : /\ pc'[Starter(j)] = pc[Starter(j)]
                        /\ pc'[Canceller(j)] = pc[Canceller(j)]
                        /\ ~Holding(j)'
    BY <1>0, <2>1 DEF Holding, At
  <2>3. \/ toComplete' = toComplete /\ cancelRoutine' = cancelRoutine
        \/ \E i, st : CompleteIrp(Purger, i, st)
    BY <1>14 DEF CancelQueue
  <2> QED BY <1>0, <2>1, <2>2, <2>3, QuietOwner, CompleteIrpOwner
          DEF OneOwner, Running, Returning
<1> QED BY <1>1, <1>2, <1>3, <1>4, <1>5, <1>6, <1>7, <1>8, <1>9, <1>10, <1>11,
           <1>12, <1>13, <1>14
        DEF Next, Start

LEMMA InitOwnerInv == Init => OwnerInv
BY ThreadFacts, EmptySeq
   DEF Init, OwnerInv, ListedOnce, OneOwner, Running, Holding, Completing, Returning,
       InToComplete, At

LEMMA OwnerInvCompletedOnce == TypeInv /\ OwnerInv => CompletedOnce
BY DEF OwnerInv, OneOwner, CompletedOnce, Completing, Running

LEMMA OwnerInvInvariant == Spec => [](TypeInv /\ OwnerInv)
<1>1. Init => TypeInv /\ OwnerInv
  BY InitTypeInv, InitOwnerInv
<1>2. OwnerInv /\ TypeInv /\ [Next]_vars => OwnerInv'
  <2> SUFFICES ASSUME OwnerInv, TypeInv, [Next]_vars PROVE OwnerInv'
    OBVIOUS
  <2>1. CASE Next
    BY <2>1, OwnerStep
  <2>2. CASE UNCHANGED vars
    BY <2>2 DEF vars, OwnerInv, ListedOnce, OneOwner, Running, Holding, Completing,
                Returning, InToComplete, At
  <2> QED BY <2>1, <2>2
<1> QED BY <1>1, <1>2, TypeInvInvariant, PTL DEF Spec

\* Whatever the interleaving of dispatch, cancel, timer, transfer and purge,
\* no request is completed twice, and nobody is left holding a completed one.
THEOREM NeverCompletedTwice == Spec => []CompletedOnce
BY OwnerInvInvariant, OwnerInvCompletedOnce, PTL
-----------------------------------------------------------------------------
(***************************************************************************)
(* No cancel of a request of IrpQueue is lost.  The argument builds on the *)
(* single owner above: as long as a request was not given back, somebody  *)
(* has the right to complete it.                                           *)
(***************************************************************************)
\* The converse of OneOwner: as long as a request that was sent was not
\* given back, somebody has the right to complete it.
SomeOwner(i) ==
  ret[i] # "none" /\ completions[i] = 0 =>
    i \in cancelRoutine \/ Running(i) \/ Holding(i) \/ Completing(i) \/ Returning(i)

\* IoCancelIrp found no cancel routine, and now it is set: the thread that set
\* it has still to look at Cancel, or did and gives the request up.
Noticed(i) ==
  ioCancel[i] = "done" /\ i \in cancelRoutine =>
    \/ At(Starter(i), "check") \/ At(Starter(i), "refuse")
    \/ \E t \in Threads : (At(t, "recheck") \/ At(t, "drop")) /\ local.irp = i

Refused(i) == At(Starter(i), "refuse") => ret[i] \notin {"PENDING", "none"}

\* A thread with nothing to do, or that just began, has no list to complete.
Drained ==
  \A t \in Threads :
    pc[t] \in {"idle", "call", "check", "refuse", "more"} => toComplete[t] = <<>>

CancelInv == Drained /\ \A i \in Irps : SomeOwner(i) /\ Noticed(i) /\ Refused(i)

LEMMA InitCancelInv == Init => CancelInv
BY DEF Init, CancelInv, Drained, SomeOwner, Noticed, Refused, At, Threads, Free,
       Starter

\* Typing that every step below needs.
LEMMA Facts ==
  ASSUME TypeInv, OwnerInv
  PROVE  /\ pc \in [Threads -> Labels] /\ lock \in Threads \cup {Free}
         /\ toComplete \in [Threads -> Seq(Irps)]
         /\ cancelRoutine \subseteq Irps /\ ret \in [Irps -> Status]
         /\ completions \in [Irps -> Nat]
         /\ ioCancel \in [Irps -> {"no", "marked", "done"}]
         /\ \A j \in Irps : OneOwner(j)
         /\ local.irp \in Irps \cup {NoIrp}
BY DEF TypeInv, Typed, TypedIrps, TypedThreads, TypedRest, OwnerInv

LEMMA SomeOwnerStep ==
  ASSUME TypeInv, OwnerInv, CancelInv, Next, NEW j \in Irps
  PROVE  SomeOwner(j)'
<1> USE ThreadFacts, ThreadsDiffer DEF irpVars, queueVars
<1>0. /\ pc \in [Threads -> Labels] /\ lock \in Threads \cup {Free}
      /\ cancelRoutine \subseteq Irps /\ ret \in [Irps -> Status]
      /\ completions \in [Irps -> Nat]
      /\ OneOwner(j) /\ SomeOwner(j) /\ \A i \in Irps : Refused(i)
  BY Facts DEF CancelInv
<1>1. ASSUME NEW i \in Irps,
             IoCancelMark(i) \/ IoCancelTake(i) \/ StartEnter(i)
             \/ StartRefuse(i) \/ StartEnd(i) \/ Return(i)
      PROVE  SomeOwner(j)'
  <2>0. Completing(j)' <=> Completing(j)
    BY <1>1, SameLists
       DEF IoCancelMark, IoCancelTake, StartEnter, StartRefuse, StartEnd, Return
  <2>1. CASE IoCancelMark(i)
    BY <1>0, <2>0, <2>1 DEF IoCancelMark, SomeOwner, Running, Holding, Returning, At
  <2>2. CASE IoCancelTake(i)
    <3>1. pc[Canceller(i)] = "idle"
      BY <2>2, Facts DEF IoCancelTake, OneOwner
    <3> QED BY <1>0, <2>0, <2>2, <3>1
            DEF IoCancelTake, Goto, SomeOwner, Running, Holding, Returning, At
  <2>3. CASE StartEnter(i)
    BY <1>0, <2>0, <2>3
       DEF StartEnter, Acquire, Goto, SomeOwner, Running, Holding, Returning, At
  <2>4. CASE StartRefuse(i)
    BY <1>0, <2>0, <2>4
       DEF StartRefuse, NoPending, Leave, Goto, SomeOwner, Running, Holding,
           Returning, At, Refused
  <2>5. CASE StartEnd(i)
    <3>1. /\ lock = Starter(i) /\ pc[Starter(i)] = "end" /\ completions' = completions
          /\ \E label \in {"complete", "idle"} :
               /\ pc' = [pc EXCEPT ![Starter(i)] = label]
               /\ ret[i] # "PENDING" /\ i \in cancelRoutine => label = "complete"
      BY <2>5 DEF StartEnd, Leave, Goto, At
    <3>2. \/ ret' = ret /\ cancelRoutine' = cancelRoutine /\ ret[i] = "PENDING"
          \/ /\ ret[i] # "PENDING" /\ i \in cancelRoutine
             /\ ret' = ret /\ cancelRoutine' = cancelRoutine \ {i}
          \/ /\ i \notin cancelRoutine /\ cancelRoutine' = cancelRoutine
             /\ ret' = [ret EXCEPT ![i] = "PENDING"]
      BY <2>5 DEF StartEnd, NoPending
    <3>3. ret[i] # "none" /\ ~Holding(j)
      BY <1>0, <3>1, Facts DEF OneOwner, Holding, At
    <3> QED BY <1>0, <2>0, <3>1, <3>2, <3>3 DEF SomeOwner, Running, Returning
  <2>6. CASE Return(i)
    BY <1>0, <2>0, <2>6
       DEF Return, Goto, SomeOwner, Running, Holding, Returning, At
  <2> QED BY <1>1, <2>1, <2>2, <2>3, <2>4, <2>5, <2>6
<1>2. ASSUME NEW i \in Irps, StartCheck(i) PROVE SomeOwner(j)'
  <2>1. /\ lock = Starter(i) /\ pc[Starter(i)] = "check"
        /\ toComplete' = toComplete
        /\ completions' = completions /\ cancelRoutine' = cancelRoutine
    BY <1>2 DEF StartCheck, At
  <2>2. \E label : pc' = [pc EXCEPT ![Starter(i)] = label]
    BY <1>2 DEF StartCheck, StartIrp, StartFirst, StartImmediate, StartLater,
                StartOverXoff, Refuse, Leave, Goto
  <2>3. ret' = ret \/ \E st : ret' = [ret EXCEPT ![i] = st]
    BY <1>2 DEF StartCheck, StartIrp, StartFirst, StartImmediate, StartLater,
                StartOverXoff, Refuse
  <2>4. ret[i] # "none" /\ ~Holding(j) /\ (Completing(j)' <=> Completing(j))
    BY <1>0, <2>1, SameLists, Facts DEF OneOwner, Holding, At
  <2> QED BY <1>0, <2>1, <2>2, <2>3, <2>4 DEF SomeOwner, Running, Returning
<1>3. ASSUME NEW i \in Irps, StartMore(i) PROVE SomeOwner(j)'
  <2>1. /\ lock = Starter(i) /\ pc[Starter(i)] = "more"
        /\ completions' = completions
        /\ CompleteIrp(Starter(i), local.irp, "MORE_WRITES")
    BY <1>3 DEF StartMore, At
  <2>2. \E label : pc' = [pc EXCEPT ![Starter(i)] = label]
    BY <1>3 DEF StartMore, StartIrp, Goto
  <2>3. \E st : ret' = [ret EXCEPT ![i] = st]
    BY <1>3 DEF StartMore, StartIrp
  <2>4. ret[i] # "none" /\ ~Holding(j)
    BY <1>0, <2>1, Facts DEF OneOwner, Holding, At
  <2>5. /\ cancelRoutine' = cancelRoutine \ {local.irp}
        /\ Completing(j)' <=> Completing(j) \/ (j = local.irp /\ j \in cancelRoutine)
    BY <2>1, CompleteIrpMoves
  <2> QED BY <1>0, <2>1, <2>2, <2>3, <2>4, <2>5 DEF SomeOwner, Running, Returning
<1>4. ASSUME NEW i \in Irps, CancelRoutine(i) PROVE SomeOwner(j)'
  <2>1. ~Completing(i)
    BY <1>4, Facts DEF CancelRoutine, Running, OneOwner
  <2>2. Completing(j)' <=> Completing(j) \/ j = i
    BY <1>4, <2>1, AppendOnce DEF CancelRoutine, OwnerInv, TypeInv, Typed
  <2> QED BY <1>0, <1>4, <2>2
          DEF CancelRoutine, Leave, Acquire, Goto, SomeOwner, Running, Holding,
              Returning, At
<1>5. ASSUME NEW t \in Threads, Engine(t) PROVE SomeOwner(j)'
  <2>0. ASSUME lock = t, pc[t] \in {"next", "drop", "sweep"},
               \/ pc' = pc
               \/ \E label \in Labels \ {"call"} : pc' = [pc EXCEPT ![t] = label],
               completions' = completions, ret' = ret,
               \/ toComplete' = toComplete /\ cancelRoutine' = cancelRoutine
               \/ \E i, st : CompleteIrp(t, i, st)
        PROVE  SomeOwner(j)'
    <3>1. \/ /\ Completing(j)' <=> Completing(j)
             /\ cancelRoutine' = cancelRoutine
          \/ \E i : /\ cancelRoutine' = cancelRoutine \ {i}
                    /\ Completing(j)' <=> Completing(j) \/ (j = i /\ j \in cancelRoutine)
      BY <2>0, SameLists, CompleteIrpMoves
    <3>2. ~Holding(j)
      BY <1>0, <2>0 DEF Holding, At
    <3>3. Running(j) => Running(j)'
      BY <1>0, <2>0 DEF Running
    <3>4. Returning(j) => Returning(j)'
      BY <1>0, <2>0 DEF Returning
    <3> QED BY <1>0, <2>0, <3>1, <3>2, <3>3, <3>4 DEF SomeOwner
  <2>1. CASE EngineSkip(t) \/ EngineDrop(t) \/ XoffSweep(t)
    BY <1>0, <2>0, <2>1 DEF EngineSkip, EngineDrop, XoffSweep, At, Goto, Labels
  <2>2. CASE EngineEmpty(t) \/ EngineRecheck(t) \/ XoffSent(t)
             \/ EngineAgain(t) \/ EngineLeave(t)
    <3>1. /\ lock = t /\ pc[t] \in {"next", "recheck", "xoff", "end"}
          /\ \E label : pc' = [pc EXCEPT ![t] = label]
          /\ toComplete' = toComplete /\ ret' = ret
          /\ completions' = completions /\ cancelRoutine' = cancelRoutine
      BY <2>2 DEF EngineEmpty, EngineRecheck, XoffSent, EngineAgain, EngineLeave,
                  At, Leave, Goto
    <3>2. /\ ~Holding(j) /\ (Completing(j)' <=> Completing(j))
      BY <1>0, <3>1, SameLists DEF Holding, At
    <3> QED BY <1>0, <3>1, <3>2 DEF SomeOwner, Running, Returning
  <2>3. CASE EngineRestore(t)
    <3>1. Completing(j)' <=> Completing(j)
      BY <2>3, SameLists DEF EngineRestore
    <3> QED BY <1>0, <2>3, <3>1
            DEF EngineRestore, Goto, SomeOwner, Running, Holding, Returning, At
  <2>4. CASE EngineWork(t)
    <3> DEFINE i == pCurrent
    <3>1. /\ i \in Irps /\ i \in cancelRoutine /\ ~Completing(i)
          /\ cancelRoutine' = cancelRoutine \ {i}
          /\ lock = t /\ lock' = t /\ pc[t] = "next"
          /\ completions' = completions /\ ret' = ret
      BY <1>0, <2>4, Facts DEF EngineWork, At, OneOwner
    <3>2. \/ /\ toComplete' = toComplete /\ local'.irp = i
             /\ pc' = [pc EXCEPT ![t] = "restore"]
          \/ /\ toComplete' = [toComplete EXCEPT ![t] = Append(@, i)]
             /\ pc' = pc
      BY <2>4 DEF EngineWork, Goto, TypeInv, Typed, TypedRest
    <3>3. CASE toComplete' = toComplete /\ local'.irp = i
               /\ pc' = [pc EXCEPT ![t] = "restore"]
      <4>1. Completing(j)' <=> Completing(j)
        BY <3>3, SameLists
      <4> QED BY <1>0, <3>1, <3>3, <4>1 DEF SomeOwner, Running, Holding, At, Returning
    <3>4. CASE toComplete' = [toComplete EXCEPT ![t] = Append(@, i)] /\ pc' = pc
      <4>1. Completing(j)' <=> Completing(j) \/ j = i
        BY <3>1, <3>4, AppendOnce DEF OwnerInv, TypeInv, Typed
      <4> QED BY <1>0, <3>1, <3>4, <4>1 DEF SomeOwner, Running, Holding, At, Returning
    <3> QED BY <3>2, <3>3, <3>4
  <2> QED BY <1>5, <2>1, <2>2, <2>3, <2>4 DEF Engine
<1>6. ASSUME NEW t \in Threads, CompleteOne(t) PROVE SomeOwner(j)'
  <2>1. Completing(j)' <=> Completing(j) /\ j # Head(toComplete[t])
    BY <1>6, TailOnce DEF CompleteOne, OwnerInv, TypeInv, Typed
  <2> QED BY <1>0, <1>6, <2>1
          DEF CompleteOne, Goto, SomeOwner, Running, Holding, At, Returning, Starter
<1>7. ASSUME TimerFire \/ TimeoutRoutine \/ IoEnter \/ PurgeEnter PROVE SomeOwner(j)'
  <2>1. /\ toComplete' = toComplete /\ ret' = ret
        /\ completions' = completions /\ cancelRoutine' = cancelRoutine
        /\ \E t \in {Dpc, Io, Purger} : \E label :
             /\ pc' = [pc EXCEPT ![t] = label]
             /\ lock = Free \/ (lock' = lock /\ local' = local /\ pc[t] = "idle")
    BY <1>7 DEF TimerFire, TimeoutRoutine, IoEnter, PurgeEnter, Acquire, Goto, Leave
  <2>2. Completing(j)' <=> Completing(j)
    BY <2>1, SameLists
  <2> QED BY <1>0, <2>1, <2>2 DEF SomeOwner, Running, Holding, At, Returning
<1>8. ASSUME IoXoffCounted \/ CancelQueue PROVE SomeOwner(j)'
  <2>1. /\ completions' = completions /\ ret' = ret /\ ~Holding(j)
        /\ \/ pc' = pc
           \/ \E t \in {Io, Purger} : \E label : pc' = [pc EXCEPT ![t] = label]
        /\ \/ toComplete' = toComplete /\ cancelRoutine' = cancelRoutine
           \/ \E t \in {Io, Purger} : \E i, st : CompleteIrp(t, i, st)
    BY <1>0, <1>8 DEF IoXoffCounted, CancelQueue, Leave, Goto, Holding, At
  <2>2. \/ (Completing(j)' <=> Completing(j)) /\ cancelRoutine' = cancelRoutine
        \/ \E i : /\ cancelRoutine' = cancelRoutine \ {i}
                  /\ Completing(j)' <=> Completing(j) \/ (j = i /\ j \in cancelRoutine)
    BY <2>1, SameLists, CompleteIrpMoves
  <2> QED BY <1>0, <2>1, <2>2 DEF SomeOwner, Running, Returning
<1> QED BY <1>1, <1>2, <1>3, <1>4, <1>5, <1>6, <1>7, <1>8 DEF Next, Start

LEMMA NoticedStep ==
  ASSUME TypeInv, OwnerInv, CancelInv, Next, NEW j \in Irps
  PROVE  Noticed(j)'
<1> USE ThreadFacts, ThreadsDiffer DEF irpVars, queueVars
<1>0. /\ pc \in [Threads -> Labels] /\ lock \in Threads \cup {Free}
      /\ cancelRoutine \subseteq Irps
      /\ ioCancel \in [Irps -> {"no", "marked", "done"}]
      /\ Noticed(j)
  BY Facts DEF CancelInv
\* Who holds the lock and is not at one of these labels leaves no such cancel.
<1>1. ASSUME NEW t \in Threads \cup {Free}, lock = t,
             t \in Threads => pc[t] \notin {"check", "refuse", "recheck", "drop"},
             ioCancel' = ioCancel, j \in cancelRoutine' => j \in cancelRoutine
      PROVE  Noticed(j)'
  BY <1>0, <1>1 DEF Noticed, At
<1>2. ASSUME NEW i \in Irps, IoCancelMark(i) \/ IoCancelTake(i) PROVE Noticed(j)'
  <2>1. CASE IoCancelMark(i)
    BY <1>0, <2>1 DEF IoCancelMark, Noticed, At
  <2>2. CASE IoCancelTake(i)
    <3>1. pc[Canceller(i)] = "idle"
      BY <2>2, Facts DEF IoCancelTake, OneOwner
    <3> QED BY <1>0, <2>2, <3>1 DEF IoCancelTake, Goto, Noticed, At
  <2> QED BY <1>2, <2>1, <2>2
<1>3. ASSUME NEW i \in Irps, StartEnter(i) PROVE Noticed(j)'
  <2>1. CASE j = i
    BY <1>0, <1>3, <2>1 DEF StartEnter, Acquire, Goto, Noticed, At
  <2>2. CASE j # i
    BY <1>1, <1>3, <2>2 DEF StartEnter, Acquire
  <2> QED BY <2>1, <2>2
<1>4. ASSUME NEW i \in Irps, StartCheck(i) PROVE Noticed(j)'
  <2>1. /\ lock = Starter(i) /\ pc[Starter(i)] = "check"
        /\ ioCancel' = ioCancel /\ cancelRoutine' = cancelRoutine
        /\ ioCancel[i] # "no" =>
             lock' = lock /\ pc' = [pc EXCEPT ![Starter(i)] = "refuse"]
    BY <1>4 DEF StartCheck, At, Refuse, Goto
  <2> QED BY <1>0, <2>1 DEF Noticed, At
<1>5. ASSUME NEW i \in Irps, StartRefuse(i) \/ StartMore(i) \/ StartEnd(i)
             \/ Return(i) \/ CancelRoutine(i)
      PROVE  Noticed(j)'
  <2>1. CASE StartRefuse(i)
    BY <1>0, <2>1 DEF StartRefuse, NoPending, Noticed, At
  <2>2. CASE StartMore(i)
    <3>1. /\ lock = Starter(i) /\ pc[Starter(i)] = "more" /\ ioCancel' = ioCancel
          /\ j \in cancelRoutine' => j \in cancelRoutine
      BY <2>2 DEF StartMore, At, CompleteIrp
    <3> QED BY <1>1, <3>1
  <2>3. CASE StartEnd(i)
    <3>1. /\ lock = Starter(i) /\ pc[Starter(i)] = "end" /\ ioCancel' = ioCancel
          /\ j \in cancelRoutine' => j \in cancelRoutine
      BY <2>3 DEF StartEnd, At, NoPending
    <3> QED BY <1>1, <3>1
  <2>4. CASE Return(i)
    BY <1>0, <2>4 DEF Return, Goto, Noticed, At
  <2>5. CASE CancelRoutine(i)
    BY <1>1, <2>5 DEF CancelRoutine, Acquire
  <2> QED BY <1>5, <2>1, <2>2, <2>3, <2>4, <2>5
<1>6. ASSUME NEW t \in Threads, Engine(t) PROVE Noticed(j)'
  <2>1. CASE EngineEmpty(t) \/ EngineSkip(t) \/ EngineWork(t) \/ XoffSent(t)
             \/ XoffSweep(t) \/ EngineAgain(t) \/ EngineLeave(t)
    <3>1. /\ lock = t /\ pc[t] \in {"next", "xoff", "sweep", "end"}
          /\ ioCancel' = ioCancel /\ (j \in cancelRoutine' => j \in cancelRoutine)
      BY <2>1 DEF EngineEmpty, EngineSkip, EngineWork, XoffSent, XoffSweep,
                  EngineAgain, EngineLeave, At, CompleteIrp
    <3> QED BY <1>1, <3>1
  <2>2. CASE EngineRestore(t)
    <3>1. CASE j = local.irp
      BY <1>0, <2>2, <3>1 DEF EngineRestore, Goto, Noticed, At
    <3>2. CASE j # local.irp
      BY <1>1, <2>2, <3>2 DEF EngineRestore, At
    <3> QED BY <3>1, <3>2
  <2>3. CASE EngineRecheck(t)
    <3>1. ioCancel[j] = "done" /\ j \in cancelRoutine => local.irp = j
      BY <1>0, <2>3 DEF EngineRecheck, Noticed, At
    <3> QED BY <1>0, <2>3, <3>1 DEF EngineRecheck, Goto, Noticed, At
  <2>4. CASE EngineDrop(t)
    <3>1. ioCancel[j] = "done" /\ j \in cancelRoutine => local.irp = j
      BY <1>0, <2>4 DEF EngineDrop, Noticed, At
    <3>2. ioCancel' = ioCancel /\ cancelRoutine' = cancelRoutine \ {local.irp}
      BY <2>4 DEF EngineDrop, CompleteIrp
    <3> QED BY <3>1, <3>2 DEF Noticed
  <2> QED BY <1>6, <2>1, <2>2, <2>3, <2>4 DEF Engine
<1>7. ASSUME NEW t \in Threads, CompleteOne(t) PROVE Noticed(j)'
  BY <1>0, <1>7 DEF CompleteOne, Goto, Noticed, At
<1>8. ASSUME TimerFire PROVE Noticed(j)'
  BY <1>0, <1>8 DEF TimerFire, Goto, Noticed, At
<1>9. ASSUME TimeoutRoutine \/ IoEnter \/ PurgeEnter \/ IoXoffCounted PROVE Noticed(j)'
  <2>1. /\ lock = Free /\ ioCancel' = ioCancel
        /\ j \in cancelRoutine' => j \in cancelRoutine
    BY <1>9 DEF TimeoutRoutine, IoEnter, PurgeEnter, IoXoffCounted, Acquire,
                CompleteIrp
  <2> QED BY <1>1, <2>1
<1>10. ASSUME CancelQueue PROVE Noticed(j)'
  <2>1. /\ lock = Purger /\ pc[Purger] = "purge" /\ ioCancel' = ioCancel
        /\ j \in cancelRoutine' => j \in cancelRoutine
    BY <1>10 DEF CancelQueue, At, CompleteIrp
  <2> QED BY <1>1, <2>1
<1> QED BY <1>2, <1>3, <1>4, <1>5, <1>6, <1>7, <1>8, <1>9, <1>10 DEF Next, Start

LEMMA RefusedStep ==
  ASSUME TypeInv, OwnerInv, CancelInv, Next, NEW j \in Irps
  PROVE  Refused(j)'
<1> USE ThreadFacts, ThreadsDiffer DEF irpVars, queueVars
<1>0. /\ pc \in [Threads -> Labels] /\ lock \in Threads \cup {Free}
      /\ ret \in [Irps -> Status] /\ Refused(j)
  BY Facts DEF CancelInv
<1>1. ASSUME NEW i \in Irps, StartCheck(i) PROVE Refused(j)'
  <2>1. lock = Starter(i)
    BY <1>1 DEF StartCheck, At
  <2>2. \/ \E label \in Labels \ {"refuse"} : pc' = [pc EXCEPT ![Starter(i)] = label]
        \/ /\ pc' = [pc EXCEPT ![Starter(i)] = "refuse"]
           /\ \E st \in {"CANCELLED", "INVALID", "SUCCESS"} : ret' = [ret EXCEPT ![i] = st]
    BY <1>1 DEF StartCheck, StartIrp, StartFirst, StartImmediate, StartLater,
                StartOverXoff, Refuse, Leave, Goto, Labels
  <2>3. lock' \in {Starter(i), Free}
    BY <1>1, <2>1 DEF StartCheck, StartIrp, StartFirst, StartImmediate, StartLater,
                StartOverXoff, Refuse, Leave
  <2> QED BY <1>0, <2>2, <2>3 DEF Refused, At
<1>2. ASSUME NEW i \in Irps,
             IoCancelMark(i) \/ IoCancelTake(i) \/ StartEnter(i) \/ StartRefuse(i)
             \/ StartMore(i) \/ StartEnd(i) \/ Return(i) \/ CancelRoutine(i)
      PROVE  Refused(j)'
  <2>1. CASE IoCancelMark(i) \/ IoCancelTake(i)
    BY <1>0, <2>1 DEF IoCancelMark, IoCancelTake, Goto, Refused, At
  <2>2. CASE StartEnter(i)
    BY <1>0, <2>2 DEF StartEnter, Acquire, Goto, Refused, At
  <2>3. CASE StartRefuse(i) \/ StartEnd(i)
    BY <1>0, <2>3 DEF StartRefuse, StartEnd, Leave, Refused, At
  <2>4. CASE StartMore(i)
    BY <1>0, <2>4 DEF StartMore, StartIrp, Goto, Refused, At
  <2>5. CASE Return(i)
    BY <1>0, <2>5 DEF Return, Goto, Refused, At
  <2>6. CASE CancelRoutine(i)
    BY <1>0, <2>6 DEF CancelRoutine, Acquire, Leave, Goto, Refused, At
  <2> QED BY <1>2, <2>1, <2>2, <2>3, <2>4, <2>5, <2>6
<1>3. ASSUME NEW t \in Threads, Engine(t) PROVE Refused(j)'
  <2>1. /\ lock = t /\ pc[t] # "refuse" /\ ret' = ret /\ lock' \in {t, Free}
        /\ \/ pc' = pc
           \/ \E label \in Labels \ {"refuse"} : pc' = [pc EXCEPT ![t] = label]
    BY <1>3 DEF Engine, EngineEmpty, EngineSkip, EngineWork, EngineRestore,
                EngineRecheck, EngineDrop, XoffSent, XoffSweep, EngineAgain,
                EngineLeave, At, Goto, Leave, Labels
  <2> QED BY <1>0, <2>1 DEF Refused, At
<1>4. ASSUME NEW t \in Threads, CompleteOne(t) PROVE Refused(j)'
  BY <1>0, <1>4 DEF CompleteOne, Goto, Refused, At
<1>5. ASSUME TimerFire \/ TimeoutRoutine \/ IoEnter \/ PurgeEnter
             \/ IoXoffCounted \/ CancelQueue
      PROVE  Refused(j)'
  <2>1. /\ ret' = ret /\ lock' \in {lock, Dpc, Io, Purger, Free}
        /\ \/ pc' = pc
           \/ \E t \in {Dpc, Io, Purger} : \E label : pc' = [pc EXCEPT ![t] = label]
    BY <1>5 DEF TimerFire, TimeoutRoutine, IoEnter, PurgeEnter, IoXoffCounted,
                CancelQueue, Acquire, Leave, Goto
  <2> QED BY <1>0, <2>1 DEF Refused, At
<1> QED BY <1>1, <1>2, <1>3, <1>4, <1>5 DEF Next, Start

LEMMA DrainedStep ==
  ASSUME TypeInv, OwnerInv, CancelInv, Next PROVE Drained'
<1> USE ThreadFacts, ThreadsDiffer DEF irpVars, queueVars
<1>0. /\ pc \in [Threads -> Labels] /\ lock \in Threads \cup {Free}
      /\ toComplete \in [Threads -> Seq(Irps)]
      /\ Drained
  BY Facts DEF CancelInv
\* One thread moves, and only its list may change.
<1>1. ASSUME NEW t \in Threads, NEW label,
             \A u \in Threads \ {t} : toComplete'[u] = toComplete[u],
             pc' = [pc EXCEPT ![t] = label],
             label \in {"idle", "call", "check", "refuse", "more"} =>
               toComplete'[t] = <<>>
      PROVE  Drained'
  BY <1>0, <1>1 DEF Drained
<1>2. ASSUME NEW i \in Irps, IoCancelMark(i) \/ IoCancelTake(i) PROVE Drained'
  <2>1. CASE IoCancelMark(i)
    BY <1>0, <2>1 DEF IoCancelMark, Drained
  <2>2. CASE IoCancelTake(i)
    <3>1. toComplete' = toComplete /\ toComplete[Canceller(i)] = <<>>
      BY <1>0, <2>2, Facts DEF IoCancelTake, OneOwner, Drained
    <3> QED BY <1>0, <1>1, <2>2, <3>1 DEF IoCancelTake, Goto, Drained
  <2> QED BY <1>2, <2>1, <2>2
<1>3. ASSUME NEW i \in Irps, StartEnter(i) PROVE Drained'
  <2>1. toComplete' = toComplete /\ toComplete[Starter(i)] = <<>>
    BY <1>0, <1>3, Facts DEF StartEnter, OneOwner, Drained
  <2> QED BY <1>1, <1>3, <2>1 DEF StartEnter, Goto
<1>4. ASSUME NEW i \in Irps, StartRefuse(i) \/ StartCheck(i) PROVE Drained'
  <2>1. toComplete' = toComplete /\ toComplete[Starter(i)] = <<>>
    BY <1>0, <1>4 DEF StartRefuse, StartCheck, At, Drained
  <2>2. \E label : pc' = [pc EXCEPT ![Starter(i)] = label]
    BY <1>4 DEF StartRefuse, StartCheck, StartIrp, StartFirst, StartImmediate,
                StartLater, StartOverXoff, Refuse, Leave, Goto
  <2> QED BY <1>1, <2>1, <2>2
<1>5. ASSUME NEW i \in Irps, StartMore(i) PROVE Drained'
  <2>1. \E label \in {"xoff", "next", "end"} : pc' = [pc EXCEPT ![Starter(i)] = label]
    BY <1>5 DEF StartMore, StartIrp, Goto
  <2>2. \A u \in Threads \ {Starter(i)} : toComplete'[u] = toComplete[u]
    BY <1>0, <1>5 DEF StartMore, CompleteIrp
  <2> QED BY <1>1, <2>1, <2>2
<1>6. ASSUME NEW i \in Irps, StartEnd(i) \/ Return(i) PROVE Drained'
  BY <1>0, <1>1, <1>6 DEF StartEnd, Leave, Return, Goto
<1>7. ASSUME NEW i \in Irps, CancelRoutine(i) PROVE Drained'
  <2>1. \E label \in {"next", "complete"} : pc' = [pc EXCEPT ![Canceller(i)] = label]
    BY <1>7 DEF CancelRoutine, Leave, Goto
  <2>2. \A u \in Threads \ {Canceller(i)} : toComplete'[u] = toComplete[u]
    BY <1>0, <1>7 DEF CancelRoutine
  <2> QED BY <1>1, <2>1, <2>2
<1>8. ASSUME NEW t \in Threads, Engine(t) PROVE Drained'
  <2>1. CASE EngineLeave(t)
    <3>1. toComplete' = toComplete
      BY <2>1 DEF EngineLeave
    <3>2. pc' = [pc EXCEPT ![t] = IF toComplete[t] # <<>> THEN "complete" ELSE "idle"]
      BY <2>1 DEF EngineLeave, Leave, Goto
    <3> QED BY <1>1, <3>1, <3>2
  <2>2. CASE EngineEmpty(t) \/ EngineSkip(t) \/ EngineWork(t) \/ EngineRestore(t)
             \/ EngineRecheck(t) \/ EngineDrop(t) \/ XoffSent(t) \/ XoffSweep(t)
             \/ EngineAgain(t)
    <3>1. /\ pc[t] \in {"next", "restore", "recheck", "drop", "xoff", "sweep", "end"}
          /\ pc' = pc
             \/ \E label \in {"next", "restore", "recheck", "drop", "xoff", "sweep", "end"} :
                  pc' = [pc EXCEPT ![t] = label]
      BY <2>2 DEF EngineEmpty, EngineSkip, EngineWork, EngineRestore, EngineRecheck,
                  EngineDrop, XoffSent, XoffSweep, EngineAgain, At, Goto
    <3>2. \A u \in Threads \ {t} : toComplete'[u] = toComplete[u]
      BY <1>0, <2>2 DEF EngineEmpty, EngineSkip, EngineWork, EngineRestore,
                  EngineRecheck, EngineDrop, XoffSent, XoffSweep, EngineAgain,
                  CompleteIrp
    <3> QED BY <1>0, <3>1, <3>2 DEF Drained
  <2> QED BY <1>8, <2>1, <2>2 DEF Engine
<1>9. ASSUME NEW t \in Threads, CompleteOne(t) PROVE Drained'
  <2>1. /\ toComplete'[t] = Tail(toComplete[t])
        /\ \A u \in Threads \ {t} : toComplete'[u] = toComplete[u]
    BY <1>0, <1>9 DEF CompleteOne
  <2>2. Len(toComplete[t]) = 1 => Tail(toComplete[t]) = <<>>
    <3>1. toComplete[t] \in Seq(Irps) /\ toComplete[t] # <<>>
      BY <1>0, <1>9 DEF CompleteOne
    <3>2. /\ Tail(toComplete[t]) \in Seq(Irps)
          /\ Len(Tail(toComplete[t])) = Len(toComplete[t]) - 1
      BY <3>1, HeadTailProperties
    <3>3. Len(toComplete[t]) = 1 => Len(Tail(toComplete[t])) = 0
      BY <3>2
    <3>4. Len(Tail(toComplete[t])) = 0 => Tail(toComplete[t]) = <<>>
      BY <3>2, EmptySeq
    <3> QED BY <3>3, <3>4
  <2>3. \/ pc' = [pc EXCEPT ![t] = "complete"]
        \/ pc' = [pc EXCEPT ![t] = "idle"] /\ Len(toComplete[t]) = 1
    BY <1>9 DEF CompleteOne, Goto
  <2> QED BY <1>1, <2>1, <2>2, <2>3
<1>10. ASSUME TimerFire \/ TimeoutRoutine \/ IoEnter \/ PurgeEnter PROVE Drained'
  <2>1. /\ toComplete' = toComplete
        /\ \E t \in {Dpc, Io, Purger} : \E label :
             pc[t] \in {"idle", "call"} /\ pc' = [pc EXCEPT ![t] = label]
    BY <1>10 DEF TimerFire, TimeoutRoutine, IoEnter, PurgeEnter, Acquire, Leave, Goto
  <2> QED BY <1>0, <2>1 DEF Drained
<1>11. ASSUME IoXoffCounted PROVE Drained'
  <2>1. toComplete[Io] = <<>>
    BY <1>0, <1>11 DEF IoXoffCounted, Drained
  <2>2. /\ \A u \in Threads \ {Io} : toComplete'[u] = toComplete[u]
        /\ pCurrent \notin cancelRoutine => toComplete' = toComplete
    BY <1>0, <1>11 DEF IoXoffCounted, CompleteIrp
  <2>3. pc' = [pc EXCEPT ![Io] = IF pCurrent \in cancelRoutine THEN "complete" ELSE "idle"]
    BY <1>11 DEF IoXoffCounted, Leave, Goto
  <2> QED BY <1>1, <2>1, <2>2, <2>3
<1>12. ASSUME CancelQueue PROVE Drained'
  <2>1. CASE pCurrent # NoIrp
    BY <1>0, <1>12, <2>1 DEF CancelQueue, CompleteIrp, At, Drained
  <2>2. CASE pCurrent = NoIrp
    BY <1>1, <1>12, <2>2 DEF CancelQueue, Leave, Goto
  <2> QED BY <2>1, <2>2
<1> QED BY <1>2, <1>3, <1>4, <1>5, <1>6, <1>7, <1>8, <1>9, <1>10, <1>11, <1>12
        DEF Next, Start

LEMMA CancelInvInvariant == Spec => []CancelInv
<1>1. Init => CancelInv
  BY InitCancelInv
<1>2. CancelInv /\ TypeInv /\ OwnerInv /\ [Next]_vars => CancelInv'
  <2> SUFFICES ASSUME CancelInv, TypeInv, OwnerInv, [Next]_vars PROVE CancelInv'
    OBVIOUS
  <2>1. CASE Next
    BY <2>1, SomeOwnerStep, NoticedStep, RefusedStep, DrainedStep DEF CancelInv
  <2>2. CASE UNCHANGED vars
    BY <2>2 DEF vars, CancelInv, Drained, SomeOwner, Noticed, Refused, At, Running,
                Holding, Completing, Returning, InToComplete
  <2> QED BY <2>1, <2>2
<1> QED BY <1>1, <1>2, OwnerInvInvariant, PTL DEF Spec

LEMMA CancelInvEnds == TypeInv /\ OwnerInv /\ CancelInv => CancelledEnds
<1> SUFFICES ASSUME TypeInv, OwnerInv, CancelInv,
                    \A t \in Threads : pc[t] = "idle",
                    NEW i \in Irps, ioCancel[i] = "done", ret[i] # "none"
             PROVE  completions[i] = 1
  BY DEF CancelledEnds
<1> USE ThreadFacts
<1>1. completions[i] \in {0, 1} /\ toComplete \in [Threads -> Seq(Irps)]
  BY Facts DEF OneOwner
<1>2. ~Running(i) /\ ~Holding(i) /\ ~Returning(i)
  BY DEF Running, Holding, Returning, At
<1>3. ~Completing(i)
  BY DEF CancelInv, Drained, Completing, InToComplete
<1>4. i \notin cancelRoutine
  BY DEF CancelInv, Noticed, At
<1> QED BY <1>1, <1>2, <1>3, <1>4 DEF CancelInv, SomeOwner

\* A cancel is never lost: wherever IoCancelIrp comes - before the request is
\* started, while the engine has the cancel routine off, after it was put back
\* - once every thread is done the request was given back.
THEOREM CancelNeverLost == Spec => []CancelledEnds
BY OwnerInvInvariant, CancelInvInvariant, CancelInvEnds, PTL
-----------------------------------------------------------------------------
(***************************************************************************)
(* Where the requests of IrpQueue are: the queue, the flags and the owners *)
(* of the requests agree.                                                  *)
(***************************************************************************)
(***************************************************************************)
(* The queue.  Its operators are described by who is current, who is       *)
(* listed, and who is listed behind another.                               *)
(***************************************************************************)
In(p, i) == p.current = i \/ Listed(p, i)

Behind(p, i) == \E n \in DOMAIN p.list : n > 1 /\ p.list[n] = i

\* Nobody is listed twice, or current and listed, and the flags say where.
Sound(p) ==
  /\ p \in Places
  /\ \A m, n \in DOMAIN p.list : p.list[m] = p.list[n] => m = n
  /\ \A i \in Irps :
       /\ "IN_QUEUE" \in p.flags[i] <=> Listed(p, i)
       /\ "IS_CURRENT" \in p.flags[i] <=> p.current = i
       /\ ~(p.current = i /\ Listed(p, i))

LEMMA SoundPlaced == ASSUME NEW p, Sound(p) PROVE WellPlaced(p)
BY DEF Sound, WellPlaced

LEMMA SoundFacts ==
  ASSUME NEW p, Sound(p)
  PROVE  /\ p.current \in Irps \cup {NoIrp}
         /\ p.list \in Seq(Irps) /\ Len(p.list) \in Nat
         /\ DOMAIN p.list = 1 .. Len(p.list)
         /\ p.flags \in [Irps -> SUBSET Flags]
         /\ \A i : Listed(p, i) => i \in Irps
BY DEF Sound, Places, Listed

LEMMA MakeCurrentSound ==
  ASSUME NEW p, Sound(p), NEW i \in Irps,
         (p.current = NoIrp /\ ~Listed(p, i)) \/ p.current = i
  PROVE  /\ Sound(MakeCurrent(p, i))
         /\ MakeCurrent(p, i).current = i
         /\ MakeCurrent(p, i).list = p.list
<1> DEFINE q == MakeCurrent(p, i)
<1>1. /\ q.current = i /\ q.list = p.list
      /\ q.flags = [p.flags EXCEPT ![i] = @ \cup {"IS_CURRENT"}]
  BY DEF MakeCurrent, Place
<1>2. WellPlaced(q)
  BY MakeCurrentPlaced, SoundPlaced
<1>3. \A j : Listed(q, j) <=> Listed(p, j)
  BY <1>1 DEF Listed
<1> HIDE DEF q
<1>4. ASSUME NEW j \in Irps
      PROVE  /\ "IN_QUEUE" \in q.flags[j] <=> Listed(q, j)
             /\ "IS_CURRENT" \in q.flags[j] <=> q.current = j
             /\ ~(q.current = j /\ Listed(q, j))
  BY <1>1, <1>3, SoundFacts, IrpAssumption DEF Sound
<1> QED BY <1>1, <1>2, <1>4 DEF Sound, WellPlaced, q

LEMMA InsertTailSound ==
  ASSUME NEW p, Sound(p), NEW i \in Irps, ~In(p, i)
  PROVE  /\ Sound(InsertTail(p, i))
         /\ InsertTail(p, i).current = p.current
         /\ \A j : /\ Listed(InsertTail(p, i), j) <=> Listed(p, j) \/ j = i
                   /\ Behind(InsertTail(p, i), j) => Behind(p, j) \/ j = i
<1> DEFINE q == InsertTail(p, i)
           L == Len(p.list)
<1>1. /\ q.list = Append(p.list, i) /\ q.current = p.current
      /\ q.flags = [p.flags EXCEPT ![i] = @ \cup {"IN_QUEUE"}]
      /\ WellPlaced(q)
  BY InsertTailPlaced, SoundPlaced DEF InsertTail, Place
<1>2. /\ L \in Nat /\ DOMAIN p.list = 1 .. L /\ DOMAIN q.list = 1 .. L + 1
      /\ \A n \in 1 .. L : q.list[n] = p.list[n]
      /\ q.list[L + 1] = i
      /\ \A n \in 1 .. L + 1 : n \in 1 .. L \/ n = L + 1
      /\ L + 1 \in 1 .. L + 1 /\ \A n \in 1 .. L : n \in 1 .. L + 1
  BY <1>1, SoundFacts, AppendProperties
<1> HIDE DEF q, L
<1>3. ASSUME NEW j PROVE Listed(q, j) <=> Listed(p, j) \/ j = i
  BY <1>2 DEF Listed
<1>4. ASSUME NEW j, Behind(q, j) PROVE Behind(p, j) \/ j = i
  BY <1>2, <1>4 DEF Behind
<1>5. ASSUME NEW m \in DOMAIN q.list, NEW n \in DOMAIN q.list, q.list[m] = q.list[n]
      PROVE  m = n
  <2>1. \A k \in 1 .. L : p.list[k] # i
    BY <1>2 DEF In, Listed
  <2> QED BY <1>2, <1>5, <2>1 DEF Sound
<1>6. ASSUME NEW j \in Irps
      PROVE  /\ "IN_QUEUE" \in q.flags[j] <=> Listed(q, j)
             /\ "IS_CURRENT" \in q.flags[j] <=> q.current = j
             /\ ~(q.current = j /\ Listed(q, j))
  BY <1>1, <1>3, SoundFacts DEF Sound, In
<1> QED BY <1>1, <1>3, <1>4, <1>5, <1>6 DEF Sound, WellPlaced, q

LEMMA PushCurrentSound ==
  ASSUME NEW p, Sound(p), p.current \in Irps
  PROVE  /\ Sound(PushCurrent(p))
         /\ PushCurrent(p).current = NoIrp
         /\ \A j : /\ Listed(PushCurrent(p), j) <=> Listed(p, j) \/ p.current = j
                   /\ Behind(PushCurrent(p), j) => Listed(p, j)
<1> DEFINE q == PushCurrent(p)
           L == Len(p.list)
<1>1. /\ q.list = <<p.current>> \o p.list /\ q.current = NoIrp
      /\ q.flags = [p.flags EXCEPT ![p.current] =
                      (@ \ {"IS_CURRENT"}) \cup {"IN_QUEUE"}]
      /\ WellPlaced(q)
  BY PushCurrentPlaced, SoundPlaced DEF PushCurrent, Place
<1>2. /\ L \in Nat /\ DOMAIN p.list = 1 .. L /\ DOMAIN q.list = 1 .. L + 1
      /\ q.list[1] = p.current
      /\ \A n \in 1 .. L : q.list[n + 1] = p.list[n]
  <2>1. /\ p.list \in Seq(Irps) /\ <<p.current>> \in Seq(Irps)
        /\ Len(<<p.current>>) = 1 /\ L \in Nat /\ DOMAIN p.list = 1 .. L
    BY SoundFacts
  <2> QED BY <1>1, <2>1
<1>3. /\ \A n \in 1 .. L : n + 1 \in 1 .. L + 1 /\ n + 1 > 1
      /\ \A n \in 1 .. L + 1 : n = 1 \/ (n - 1 \in 1 .. L /\ (n - 1) + 1 = n)
      /\ 1 \in 1 .. L + 1
  BY <1>2
<1> HIDE DEF q, L
<1>4. \A n \in 1 .. L + 1 : n # 1 => n - 1 \in 1 .. L /\ q.list[n] = p.list[n - 1]
  BY <1>2, <1>3
<1>5. ASSUME NEW j PROVE Listed(q, j) <=> Listed(p, j) \/ p.current = j
  <2>1. ASSUME NEW n \in 1 .. L + 1, q.list[n] = j
        PROVE  Listed(p, j) \/ p.current = j
    <3>1. CASE n = 1
      BY <1>2, <2>1, <3>1
    <3>2. CASE n # 1
      <4>1. n - 1 \in 1 .. L /\ p.list[n - 1] = j
        BY <1>4, <2>1, <3>2
      <4> QED BY <1>2, <4>1 DEF Listed
    <3> QED BY <3>1, <3>2
  <2>2. ASSUME NEW n \in 1 .. L, p.list[n] = j PROVE Listed(q, j)
    <3>1. n + 1 \in 1 .. L + 1 /\ q.list[n + 1] = j
      BY <1>2, <1>3, <2>2
    <3> QED BY <1>2, <3>1 DEF Listed
  <2>3. Listed(q, p.current)
    BY <1>2, <1>3 DEF Listed
  <2> QED BY <1>2, <2>1, <2>2, <2>3 DEF Listed
<1>6. ASSUME NEW j, Behind(q, j) PROVE Listed(p, j)
  <2>1. PICK n \in 1 .. L + 1 : n > 1 /\ q.list[n] = j
    BY <1>2, <1>6 DEF Behind
  <2>2. n # 1
    BY <2>1
  <2> QED BY <1>2, <1>4, <2>1, <2>2 DEF Listed
<1>7. ASSUME NEW m \in DOMAIN q.list, NEW n \in DOMAIN q.list, q.list[m] = q.list[n]
      PROVE  m = n
  <2>1. \A k \in 1 .. L : p.list[k] # p.current
    BY <1>2 DEF Sound, Listed
  <2>2. m = 1 <=> n = 1
    BY <1>2, <1>4, <1>7, <2>1
  <2>3. CASE m # 1 /\ n # 1
    <3>1. m - 1 \in 1 .. L /\ n - 1 \in 1 .. L /\ p.list[m - 1] = p.list[n - 1]
      BY <1>2, <1>4, <1>7, <2>3
    <3>2. m - 1 = n - 1
      BY <1>2, <3>1 DEF Sound
    <3> QED BY <1>2, <3>2
  <2> QED BY <2>2, <2>3
<1>8. ASSUME NEW j \in Irps
      PROVE  /\ "IN_QUEUE" \in q.flags[j] <=> Listed(q, j)
             /\ "IS_CURRENT" \in q.flags[j] <=> q.current = j
             /\ ~(q.current = j /\ Listed(q, j))
  BY <1>1, <1>5, SoundFacts, IrpAssumption DEF Sound
<1> QED BY <1>1, <1>5, <1>6, <1>7, <1>8 DEF Sound, WellPlaced, q

LEMMA ShiftSound ==
  ASSUME NEW p, Sound(p)
  PROVE  /\ Sound(Shift(p))
         /\ \A j \in Irps : /\ In(Shift(p), j) <=> Listed(p, j)
                            /\ Listed(Shift(p), j) => Behind(p, j)
                            /\ Behind(Shift(p), j) => Behind(p, j)
         /\ Shift(p).current = NoIrp => Shift(p).list = <<>>
<1> DEFINE off == [i \in Irps |-> IF i = p.current
                   THEN p.flags[i] \ {"IS_CURRENT"} ELSE p.flags[i]]
           L == Len(p.list)
<1>0. /\ off \in [Irps -> SUBSET Flags]
      /\ L \in Nat /\ DOMAIN p.list = 1 .. L /\ p.list \in Seq(Irps)
  BY SoundFacts
<1>1. CASE p.list = <<>>
  <2> DEFINE q == Shift(p)
  <2>1. q.current = NoIrp /\ q.list = <<>> /\ q.flags = off /\ WellPlaced(q)
    BY <1>1, ShiftPlaced, SoundPlaced DEF Shift, Place
  <2>2. \A j : ~Listed(p, j) /\ ~Listed(q, j) /\ ~Behind(q, j)
    BY <1>1, <2>1 DEF Listed, Behind
  <2> HIDE DEF q
  <2>3. \A j \in Irps : ~In(q, j)
    BY <2>1, <2>2, IrpAssumption DEF In
  <2>4. \A j \in Irps : "IN_QUEUE" \notin q.flags[j] /\ "IS_CURRENT" \notin q.flags[j]
    BY <2>1, <2>2 DEF Sound
  <2>5. \A m, n \in DOMAIN q.list : q.list[m] = q.list[n] => m = n
    BY <2>1
  <2> QED BY <2>1, <2>2, <2>3, <2>4, <2>5 DEF Sound, WellPlaced, In, q
<1>2. CASE p.list # <<>>
  <2> DEFINE h == Head(p.list)
             q == Shift(p)
  <2>1. /\ q.current = h /\ q.list = Tail(p.list)
        /\ q.flags = [off EXCEPT ![h] = (@ \ {"IN_QUEUE"}) \cup {"IS_CURRENT"}]
        /\ WellPlaced(q)
    BY <1>2, ShiftPlaced, SoundPlaced DEF Shift, Place
  <2>2. /\ L \in Nat \ {0} /\ h \in Irps /\ h = p.list[1]
        /\ Tail(p.list) \in Seq(Irps) /\ Len(Tail(p.list)) = L - 1
        /\ \A n \in 1 .. L - 1 : Tail(p.list)[n] = p.list[n + 1]
    BY <1>0, <1>2, HeadTailProperties, EmptySeq
  <2>3. /\ DOMAIN q.list = 1 .. L - 1
        /\ \A n \in 1 .. L - 1 : q.list[n] = p.list[n + 1]
        /\ \A n \in 1 .. L - 1 : n + 1 \in 1 .. L /\ n + 1 > 1 /\ n + 1 # 1
        /\ \A n \in 1 .. L : n = 1 \/ (n - 1 \in 1 .. L - 1 /\ (n - 1) + 1 = n)
        /\ 1 \in 1 .. L
        /\ \A m, n \in 1 .. L - 1 : m + 1 = n + 1 => m = n
    BY <2>1, <2>2
  <2> HIDE DEF q, h, L
  <2>4. \A n \in 1 .. L : n # 1 => p.list[n] # h
    BY <1>0, <2>2, <2>3 DEF Sound
  <2>5. ASSUME NEW j PROVE Listed(q, j) <=> Listed(p, j) /\ j # h
    <3>1. ASSUME NEW n \in 1 .. L - 1, q.list[n] = j
          PROVE  Listed(p, j) /\ j # h
      BY <1>0, <2>3, <2>4, <3>1 DEF Listed
    <3>2. ASSUME NEW n \in 1 .. L, p.list[n] = j, j # h
          PROVE  Listed(q, j)
      <4>1. n # 1
        BY <2>2, <3>2
      <4>2. n - 1 \in 1 .. L - 1 /\ q.list[n - 1] = j
        BY <2>3, <3>2, <4>1
      <4> QED BY <2>3, <4>2 DEF Listed
    <3> QED BY <1>0, <2>3, <3>1, <3>2 DEF Listed
  <2>6. ASSUME NEW j, Listed(q, j) PROVE Behind(p, j)
    BY <1>0, <2>3, <2>6 DEF Listed, Behind
  <2>7. ASSUME NEW m \in DOMAIN q.list, NEW n \in DOMAIN q.list, q.list[m] = q.list[n]
        PROVE  m = n
    <3>1. m + 1 = n + 1
      BY <1>0, <2>3, <2>7 DEF Sound
    <3> QED BY <2>3, <3>1
  <2>8. Listed(p, h)
    BY <1>0, <2>2, <2>3 DEF Listed
  <2>9. ASSUME NEW j \in Irps
        PROVE  /\ "IN_QUEUE" \in q.flags[j] <=> Listed(q, j)
               /\ "IS_CURRENT" \in q.flags[j] <=> q.current = j
               /\ ~(q.current = j /\ Listed(q, j))
    BY <1>0, <2>1, <2>2, <2>5, SoundFacts DEF Sound
  <2>10. h # NoIrp
    BY <2>2, IrpAssumption
  <2>11. \A j : Behind(q, j) => Listed(q, j)
    BY DEF Behind, Listed
  <2> QED BY <2>1, <2>5, <2>6, <2>7, <2>8, <2>9, <2>10, <2>11
          DEF Sound, WellPlaced, In, q
<1> QED BY <1>1, <1>2

LEMMA UnlinkSound ==
  ASSUME NEW p, Sound(p), NEW i \in Irps, Listed(p, i)
  PROVE  /\ Sound(Unlink(p, i))
         /\ Unlink(p, i).current = p.current
         /\ \A j : /\ Listed(Unlink(p, i), j) <=> Listed(p, j) /\ j # i
                   /\ Behind(Unlink(p, i), j) => Behind(p, j)
<1> DEFINE q == Unlink(p, i)
           L == Len(p.list)
<1>1. /\ q.flags = [p.flags EXCEPT ![i] = @ \ {"IN_QUEUE"}]
      /\ q.current = p.current /\ WellPlaced(q)
  BY UnlinkPlaced, SoundPlaced DEF Unlink, Place
<1>2. PICK at \in 1 .. L :
        /\ p.list[at] = i
        /\ q.list \in Seq(Irps) /\ Len(q.list) = L - 1
        /\ \A n \in 1 .. at - 1 : q.list[n] = p.list[n]
        /\ \A n \in at .. L - 1 : q.list[n] = p.list[n + 1]
  BY UnlinkList, SoundPlaced
<1> DEFINE from == [n \in 1 .. L - 1 |-> IF n < at THEN n ELSE n + 1]
<1>3. L \in Nat /\ DOMAIN p.list = 1 .. L /\ DOMAIN q.list = 1 .. L - 1
  BY <1>2, SoundFacts
<1> HIDE DEF q, L
<1>4. ASSUME NEW n \in 1 .. L - 1
      PROVE  /\ from[n] \in 1 .. L /\ from[n] # at
             /\ n > 1 => from[n] > 1
             /\ q.list[n] = p.list[from[n]]
  BY <1>2, <1>3
<1>5. ASSUME NEW m \in 1 .. L - 1, NEW n \in 1 .. L - 1, from[m] = from[n]
      PROVE  m = n
  <2>1. m \in Int /\ n \in Int /\ at \in Int
    BY <1>2, <1>3
  <2>2. CASE m < at /\ n < at
    BY <1>5, <2>2
  <2>3. CASE m < at /\ ~(n < at)
    BY <1>5, <2>1, <2>3
  <2>4. CASE ~(m < at) /\ n < at
    BY <1>5, <2>1, <2>4
  <2>5. CASE ~(m < at) /\ ~(n < at)
    BY <1>5, <2>1, <2>5
  <2> QED BY <2>2, <2>3, <2>4, <2>5
<1>6. \A n \in 1 .. L : n # at => \E k \in 1 .. L - 1 : from[k] = n
  <2> SUFFICES ASSUME NEW n \in 1 .. L, n # at
               PROVE  \E k \in 1 .. L - 1 : from[k] = n
    OBVIOUS
  <2>1. CASE n < at
    <3>1. n \in 1 .. L - 1
      BY <1>3, <2>1
    <3> QED BY <2>1, <3>1
  <2>2. CASE n > at
    <3>1. n - 1 \in 1 .. L - 1 /\ ~(n - 1 < at) /\ (n - 1) + 1 = n
      BY <1>3, <2>2
    <3>2. from[n - 1] = n
      BY <3>1
    <3> QED BY <3>1, <3>2
  <2> QED BY <2>1, <2>2
<1> HIDE DEF from
<1>7. \A n \in 1 .. L : p.list[n] = i => n = at
  BY <1>2, <1>3 DEF Sound
<1>8. ASSUME NEW j PROVE Listed(q, j) <=> Listed(p, j) /\ j # i
  <2>1. ASSUME NEW n \in 1 .. L - 1, q.list[n] = j
        PROVE  Listed(p, j) /\ j # i
    <3>1. from[n] \in 1 .. L /\ from[n] # at /\ p.list[from[n]] = j
      BY <1>4, <2>1
    <3> QED BY <1>3, <1>7, <3>1 DEF Listed
  <2>2. ASSUME NEW n \in 1 .. L, p.list[n] = j, j # i
        PROVE  Listed(q, j)
    <3>1. PICK k \in 1 .. L - 1 : from[k] = n
      BY <1>2, <1>6, <2>2
    <3>2. q.list[k] = j
      BY <1>4, <2>2, <3>1
    <3> QED BY <1>3, <3>2 DEF Listed
  <2> QED BY <1>3, <2>1, <2>2 DEF Listed
<1>9. ASSUME NEW j, Behind(q, j) PROVE Behind(p, j)
  <2>1. PICK n \in 1 .. L - 1 : n > 1 /\ q.list[n] = j
    BY <1>3, <1>9 DEF Behind
  <2>2. from[n] \in 1 .. L /\ from[n] > 1 /\ p.list[from[n]] = j
    BY <1>4, <2>1
  <2> QED BY <1>3, <2>2 DEF Behind
<1>10. ASSUME NEW m \in DOMAIN q.list, NEW n \in DOMAIN q.list, q.list[m] = q.list[n]
       PROVE  m = n
  <2>1. m \in 1 .. L - 1 /\ n \in 1 .. L - 1
    BY <1>3, <1>10
  <2>2. /\ from[m] \in 1 .. L /\ from[n] \in 1 .. L
        /\ p.list[from[m]] = p.list[from[n]]
    BY <1>4, <1>10, <2>1
  <2>3. from[m] = from[n]
    BY <1>3, <2>2 DEF Sound
  <2> QED BY <1>5, <2>1, <2>3
<1>11. ASSUME NEW j \in Irps
       PROVE  /\ "IN_QUEUE" \in q.flags[j] <=> Listed(q, j)
              /\ "IS_CURRENT" \in q.flags[j] <=> q.current = j
              /\ ~(q.current = j /\ Listed(q, j))
  BY <1>1, <1>8, SoundFacts DEF Sound
<1> QED BY <1>1, <1>8, <1>9, <1>10, <1>11 DEF Sound, WellPlaced, q

LEMMA PutHere ==
  ASSUME NEW p, p \in Places, Put(p)
  PROVE  /\ Here' = p
         /\ pCurrent' = p.current /\ queue' = p.list /\ flags' = p.flags
BY DEF Places, Put, Here, Place

-----------------------------------------------------------------------------
(***************************************************************************)
(* Where each request is.  With both XOFF_COUNTER and IMMEDIATE_CHAR       *)
(* requests at work a counting XOFF_COUNTER can be pushed back before      *)
(* others and then be overtaken, and StartIrp forgets the request that is  *)
(* current (run IrpQueue_order): what follows is true of queues that get   *)
(* at most one of the two kinds.                                           *)
(***************************************************************************)
NoOvertaking == "xoff" \notin Kinds \/ "immediate" \notin Kinds

\* The cancel routine of the request is set, or was called and waits.
Live(i) == i \in cancelRoutine \/ Running(i)

\* A request in the queue has somebody else who may take it from there.
Charged(i) == In(Here, i) => Live(i) \/ Holding(i)

\* The dispatch of a request, step by step.
Dispatched(i) ==
  /\ ret[i] = "none" => ~In(Here, i) /\ information[i] = 0
  /\ At(Starter(i), "check") => ~In(Here, i) /\ information[i] = 0 /\ Live(i)
  /\ At(Starter(i), "refuse") => ~In(Here, i)
  /\ At(Starter(i), "more") =>
       pCurrent = i /\ queue = <<>> /\ information[i] = 0
  /\ lock = Starter(i) /\ ret[i] # "PENDING" => ~Listed(Here, i)

\* What the holder of the lock has to do with the request it remembers.
Engaged ==
  \A t \in Threads :
    /\ At(t, "restore") \/ At(t, "recheck") =>
         pCurrent = local.irp /\ pCurrent # NoIrp
    /\ At(t, "xoff") => pCurrent # NoIrp
    /\ At(t, "drop") \/ At(t, "sweep") \/ At(t, "more") =>
         local.irp \in Irps /\ ~In(Here, local.irp)
    /\ At(t, "sweep") => Live(local.irp)

\* A counting XOFF_COUNTER never waits, and none waits behind it, but for the
\* moment in which it starts to count.
Alone ==
  /\ \A i \in Irps : Listed(Here, i) => ~IsStartedXoff(i)
  /\ pCurrent # NoIrp /\ IsStartedXoff(pCurrent) =>
       \/ queue = <<>>
       \/ \E t \in Threads :
            \/ At(t, "xoff")
            \/ (At(t, "restore") \/ At(t, "recheck")) /\ local.sent

NotStuck == pCurrent = NoIrp => queue = <<>>

PlacesInv ==
  /\ Sound(Here) /\ NotStuck /\ Engaged /\ Alone
  /\ \A i \in Irps : Charged(i) /\ Dispatched(i)

LEMMA InitPlacesInv == Init => PlacesInv
<1> SUFFICES ASSUME Init PROVE PlacesInv
  OBVIOUS
<1>1. /\ Here.current = NoIrp /\ Here.list = <<>>
      /\ Here.flags = [i \in Irps |-> {}] /\ Here \in Places
  BY DEF Init, Here, Place, Places, Flags
<1>2. \A i : ~Listed(Here, i)
  BY <1>1 DEF Listed
<1>3. \A i \in Irps : ~In(Here, i)
  BY <1>1, <1>2, IrpAssumption DEF In
<1>4. Sound(Here)
  BY <1>1, <1>2, <1>3 DEF Sound, In
<1>5. \A t \in Threads : lock # t
  BY ThreadFacts DEF Init
<1>6. Engaged /\ NotStuck
  BY <1>5 DEF Init, Engaged, NotStuck, At
<1>7. Alone
  BY <1>2 DEF Init, Alone
<1>8. \A i \in Irps : Charged(i) /\ Dispatched(i)
  BY <1>3, <1>5, ThreadFacts DEF Init, Charged, Dispatched, At
<1> QED BY <1>4, <1>6, <1>7, <1>8 DEF PlacesInv

\* The state, as the steps below use it.
LEMMA HereFacts ==
  ASSUME TypeInv, OwnerInv, PlacesInv
  PROVE  /\ Sound(Here) /\ Here \in Places /\ NoIrp \notin Irps
         /\ Here.current = pCurrent /\ Here.list = queue /\ Here.flags = flags
         /\ pCurrent \in Irps \cup {NoIrp} /\ queue \in Seq(Irps)
         /\ flags \in [Irps -> SUBSET Flags]
         /\ \A j : Listed(Here, j) => j \in Irps
         /\ queue = <<>> => \A j : ~Listed(Here, j)
BY IrpAssumption DEF PlacesInv, Sound, Places, Here, Place, Listed

\* A request gets into the queue by its dispatch or by the sweep that makes a
\* counting XOFF_COUNTER current again, and into the list by its dispatch or
\* by an IMMEDIATE_CHAR that takes its place.
Appears(j) ==
  /\ In(Here, j)' =>
       \/ In(Here, j) \/ At(Starter(j), "check")
       \/ \E t \in Threads : At(t, "sweep") /\ local.irp = j /\ pCurrent = NoIrp
  /\ Listed(Here, j)' =>
       \/ Listed(Here, j) \/ At(Starter(j), "check")
       \/ j = pCurrent /\ \E i \in Irps : /\ At(Starter(i), "check")
                                          /\ kind[i] = "immediate"

\* What the dispatch of a request may come to.
LEMMA CheckCases ==
  ASSUME NEW i, StartCheck(i)
  PROVE  \/ \E st \in {"CANCELLED", "INVALID", "SUCCESS"} : Refuse(i, st)
         \/ /\ pCurrent = NoIrp
            /\ \E k \in 0 .. Rest(i) :
                 StartIrp(Starter(i), i, k, Here, amountInWriteQueue)
         \/ /\ pCurrent # NoIrp
            /\ kind[i] = "immediate" /\ kind[pCurrent] # "immediate"
            /\ \E k \in 0 .. Rest(i) :
                 StartIrp(Starter(i), i, k, PushCurrent(Here), amountInWriteQueue)
         \/ StartLater(i)
         \/ /\ StartOverXoff(i)
            /\ Put(Shift(InsertTail(Here, i)))
            /\ local' = [local EXCEPT !.irp = pCurrent]
            /\ Goto(Starter(i), "more")
            /\ UNCHANGED <<information, status, timer, lock, ret>>
BY DEF StartCheck, StartFirst, StartImmediate, StartOverXoff

\* StartIrp makes the request current; if it is done at once the next one is.
LEMMA StartIrpPlace ==
  ASSUME NEW i \in Irps, NEW t, NEW k, NEW p, NEW a, Sound(p),
         (p.current = NoIrp /\ ~Listed(p, i)) \/ p.current = i,
         StartIrp(t, i, k, p, a)
  PROVE  /\ Sound(Here)' /\ NotStuck'
         /\ \A j \in Irps : /\ In(Here, j)' => Listed(p, j) \/ j = i
                            /\ Listed(Here, j)' => Listed(p, j)
         /\ p.list = <<>> => queue' = <<>>
<1> DEFINE q == MakeCurrent(p, i)
<1>1. Sound(q) /\ q.current = i /\ q.list = p.list
  BY MakeCurrentSound
<1>2. \A j : Listed(q, j) <=> Listed(p, j)
  BY <1>1 DEF Listed
<1>3. CASE Put(q)
  <2>1. Here' = q /\ pCurrent' = i /\ queue' = p.list
    BY <1>1, <1>3, PutHere DEF Sound
  <2>2. i # NoIrp
    BY IrpAssumption
  <2> QED BY <1>1, <1>2, <2>1, <2>2 DEF NotStuck, In
<1>4. CASE Put(Shift(q))
  <2>1. /\ Sound(Shift(q))
        /\ \A j \in Irps : /\ In(Shift(q), j) <=> Listed(q, j)
                           /\ Listed(Shift(q), j) => Behind(q, j)
        /\ Shift(q).current = NoIrp => Shift(q).list = <<>>
    BY <1>1, ShiftSound
  <2>2. Here' = Shift(q) /\ NotStuck' /\ queue' = Shift(q).list
    BY <1>4, <2>1, PutHere DEF Sound, NotStuck
  <2>3. \A j \in Irps : Behind(q, j) => Listed(q, j)
    BY DEF Behind, Listed
  <2>4. p.list = <<>> => queue' = <<>>
    BY <1>1, <2>2 DEF Shift, Place
  <2> QED BY <1>2, <2>1, <2>2, <2>3, <2>4
<1> QED BY <1>3, <1>4 DEF StartIrp

LEMMA PlacesStep ==
  ASSUME TypeInv, OwnerInv, PlacesInv, Next
  PROVE  Sound(Here)' /\ NotStuck' /\ \A j \in Irps : Appears(j)
<1> DEFINE Goal == Sound(Here)' /\ NotStuck' /\ \A j \in Irps : Appears(j)
<1> SUFFICES Goal
  OBVIOUS
<1> USE ThreadFacts, HereFacts DEF irpVars, queueVars
<1>0. NotStuck /\ \A i \in Irps : Dispatched(i)
  BY DEF PlacesInv
<1>1. ASSUME UNCHANGED <<pCurrent, queue, flags>> PROVE Goal
  <2>1. Here' = Here
    BY <1>1 DEF Here
  <2> QED BY <1>0, <1>1, <2>1 DEF NotStuck, Appears
<1>2. ASSUME Put(Shift(Here)) PROVE Goal
  <2>1. /\ Sound(Shift(Here))
        /\ \A j \in Irps : /\ In(Shift(Here), j) <=> Listed(Here, j)
                           /\ Listed(Shift(Here), j) => Behind(Here, j)
        /\ Shift(Here).current = NoIrp => Shift(Here).list = <<>>
    BY ShiftSound
  <2>2. Here' = Shift(Here) /\ NotStuck'
    BY <1>2, <2>1, PutHere DEF Sound, NotStuck
  <2>3. \A j \in Irps : Behind(Here, j) => Listed(Here, j)
    BY DEF Behind, Listed
  <2> QED BY <2>1, <2>2, <2>3 DEF Appears, In
<1>4. ASSUME NEW i \in Irps,
             IoCancelMark(i) \/ IoCancelTake(i) \/ StartRefuse(i) \/ Return(i)
      PROVE  Goal
  BY <1>1, <1>4 DEF IoCancelMark, IoCancelTake, StartRefuse, Return
<1>5. ASSUME NEW i \in Irps, StartEnter(i) PROVE Goal
  <2>1. /\ ~In(Here, i) /\ pCurrent' = pCurrent /\ queue' = queue
        /\ flags' = [flags EXCEPT ![i] = {}]
    BY <1>0, <1>5 DEF StartEnter, Dispatched
  <2>2. Sound(Here)' /\ \A j : In(Here, j)' <=> In(Here, j)
    BY <2>1 DEF Sound, Places, Here, Place, In, Listed, Flags
  <2>3. \A j : Listed(Here, j)' <=> Listed(Here, j)
    BY <2>1 DEF Here, Place, Listed
  <2> QED BY <1>0, <2>1, <2>2, <2>3 DEF NotStuck, Appears
<1>6. ASSUME NEW i \in Irps, StartCheck(i) PROVE Goal
  <2>0. At(Starter(i), "check") /\ ~In(Here, i)
    BY <1>0, <1>6 DEF StartCheck, Dispatched
  <2>1. ASSUME NEW st, Refuse(i, st) PROVE Goal
    BY <1>1, <2>1 DEF Refuse
  <2>2. ASSUME NEW k, StartIrp(Starter(i), i, k, Here, amountInWriteQueue),
               pCurrent = NoIrp
        PROVE  Goal
    <3>1. Here.current = NoIrp /\ ~Listed(Here, i)
      BY <2>0, <2>2 DEF In
    <3> QED BY StartIrpPlace, <2>0, <2>2, <3>1 DEF Appears, In
  <2>3. ASSUME NEW k, pCurrent # NoIrp, kind[i] = "immediate",
               StartIrp(Starter(i), i, k, PushCurrent(Here), amountInWriteQueue)
        PROVE  Goal
    <3> DEFINE p == PushCurrent(Here)
    <3>1. /\ Sound(p) /\ p.current = NoIrp
          /\ \A j : Listed(p, j) <=> Listed(Here, j) \/ pCurrent = j
      BY <2>3, PushCurrentSound
    <3>2. ~Listed(p, i)
      BY <2>0, <3>1 DEF In
    <3> HIDE DEF p
    <3>3. /\ Sound(Here)' /\ NotStuck'
          /\ \A j \in Irps : /\ In(Here, j)' => Listed(p, j) \/ j = i
                             /\ Listed(Here, j)' => Listed(p, j)
      BY StartIrpPlace, <2>3, <3>1, <3>2 DEF p
    <3> QED BY <2>0, <2>3, <3>1, <3>3 DEF Appears, In
  <2>4. CASE StartLater(i)
    <3> DEFINE p == InsertTail(Here, i)
    <3>1. /\ Sound(p) /\ p.current = pCurrent /\ Put(p) /\ pCurrent # NoIrp
          /\ \A j : Listed(p, j) <=> Listed(Here, j) \/ j = i
      BY <2>0, <2>4, InsertTailSound DEF StartLater
    <3>2. Here' = p /\ NotStuck'
      BY <3>1, PutHere DEF Sound, NotStuck
    <3> QED BY <2>0, <3>1, <3>2 DEF Appears, In
  <2>5. CASE Put(Shift(InsertTail(Here, i)))
    <3> DEFINE p == InsertTail(Here, i)
    <3>1. Sound(p) /\ \A j : Listed(p, j) <=> Listed(Here, j) \/ j = i
      BY <2>0, InsertTailSound
    <3> HIDE DEF p
    <3>2. /\ Sound(Shift(p))
          /\ \A j \in Irps : /\ In(Shift(p), j) <=> Listed(p, j)
                             /\ Listed(Shift(p), j) => Behind(p, j)
          /\ Shift(p).current = NoIrp => Shift(p).list = <<>>
      BY <3>1, ShiftSound
    <3>3. Here' = Shift(p) /\ NotStuck'
      BY <2>5, <3>2, PutHere DEF Sound, NotStuck, p
    <3>4. \A j \in Irps : Behind(p, j) => Listed(p, j)
      BY DEF Behind, Listed
    <3> QED BY <2>0, <3>1, <3>2, <3>3, <3>4 DEF Appears, In
  <2> QED BY <1>6, <2>1, <2>2, <2>3, <2>4, <2>5, CheckCases
<1>7. ASSUME NEW i \in Irps, StartMore(i) PROVE Goal
  <2>1. PICK k : StartIrp(Starter(i), i, k, Here, amountInWriteQueue)
    BY <1>7 DEF StartMore
  <2>2. Here.current = i
    BY <1>0, <1>7 DEF StartMore, Dispatched
  <2> QED BY StartIrpPlace, <2>1, <2>2 DEF Appears, In
<1>8. ASSUME NEW i \in Irps, StartEnd(i) PROVE Goal
  BY <1>1, <1>2, <1>8 DEF StartEnd, Put, Here, Place
<1>9. ASSUME NEW i \in Irps, CancelRoutine(i) PROVE Goal
  <2> DEFINE p == IF "IN_QUEUE" \in flags[i] THEN Unlink(Here, i) ELSE Here
  <2>1. /\ Sound(p) /\ p.current = pCurrent
        /\ \A j : Listed(p, j) => Listed(Here, j)
    BY UnlinkSound DEF Sound
  <2>2. pCurrent = NoIrp => p.list = <<>>
    BY <1>0, <2>1 DEF NotStuck, Sound, Listed
  <2>3. Put(p) \/ Put(Shift(p))
    BY <1>9 DEF CancelRoutine
  <2> HIDE DEF p
  <2>4. CASE Put(p)
    <3>1. Here' = p /\ NotStuck'
      BY <2>1, <2>2, <2>4, PutHere DEF Sound, NotStuck
    <3> QED BY <2>1, <3>1 DEF Appears, In
  <2>5. CASE Put(Shift(p))
    <3>1. /\ Sound(Shift(p))
          /\ \A j \in Irps : /\ In(Shift(p), j) <=> Listed(p, j)
                             /\ Listed(Shift(p), j) => Behind(p, j)
          /\ Shift(p).current = NoIrp => Shift(p).list = <<>>
      BY <2>1, ShiftSound
    <3>2. Here' = Shift(p) /\ NotStuck'
      BY <2>5, <3>1, PutHere DEF Sound, NotStuck
    <3>3. \A j \in Irps : Behind(p, j) => Listed(p, j)
      BY DEF Behind, Listed
    <3> QED BY <2>1, <3>1, <3>2, <3>3 DEF Appears, In
  <2> QED BY <2>3, <2>4, <2>5
<1>10. ASSUME NEW t \in Threads, Engine(t) PROVE Goal
  <2>1. CASE EngineEmpty(t) \/ EngineSkip(t) \/ EngineWork(t) \/ EngineRestore(t)
             \/ EngineRecheck(t) \/ EngineDrop(t) \/ XoffSent(t)
             \/ EngineAgain(t) \/ EngineLeave(t)
    <3>1. UNCHANGED <<pCurrent, queue, flags>> \/ Put(Shift(Here))
      BY <2>1 DEF EngineEmpty, EngineSkip, EngineWork, EngineRestore,
                  EngineRecheck, EngineDrop, XoffSent, EngineAgain, EngineLeave
    <3> QED BY <1>1, <1>2, <3>1
  <2>2. CASE XoffSweep(t)
    <3>1. \/ UNCHANGED <<pCurrent, queue, flags>>
          \/ Put(Shift(Here))
          \/ pCurrent = NoIrp /\ Put(MakeCurrent(Here, local.irp))
      BY <2>2 DEF XoffSweep
    <3>2. CASE pCurrent = NoIrp /\ Put(MakeCurrent(Here, local.irp))
      <4> DEFINE q == MakeCurrent(Here, local.irp)
      <4>1. At(t, "sweep") /\ local.irp \in Irps /\ ~In(Here, local.irp)
        BY <2>2 DEF XoffSweep, PlacesInv, Engaged
      <4>2. Sound(q) /\ q.current = local.irp /\ q.list = queue
        BY <3>2, <4>1, MakeCurrentSound DEF In
      <4>3. Here' = q /\ NotStuck'
        BY <3>2, <4>1, <4>2, PutHere DEF Sound, NotStuck
      <4>4. \A j : Listed(q, j) <=> Listed(Here, j)
        BY <4>2 DEF Listed
      <4> QED BY <3>2, <4>1, <4>2, <4>3, <4>4 DEF Appears, In
    <3> QED BY <1>1, <1>2, <3>1, <3>2
  <2> QED BY <1>10, <2>1, <2>2 DEF Engine
<1>11. ASSUME NEW t \in Threads, CompleteOne(t) PROVE Goal
  BY <1>1, <1>11 DEF CompleteOne
<1>12. ASSUME TimerFire \/ IoEnter \/ PurgeEnter PROVE Goal
  BY <1>1, <1>12 DEF TimerFire, IoEnter, PurgeEnter
<1>13. ASSUME TimeoutRoutine PROVE Goal
  <2>1. CASE pCurrent # NoIrp
    <3>1. /\ pCurrent' = pCurrent /\ queue' = queue
          /\ flags' = [flags EXCEPT ![pCurrent] = @ \cup {"EXPIRED"}]
      BY <1>13, <2>1 DEF TimeoutRoutine
    <3>2. /\ flags' \in [Irps -> SUBSET Flags]
          /\ \A i \in Irps : /\ "IN_QUEUE" \in flags'[i] <=> "IN_QUEUE" \in flags[i]
                             /\ "IS_CURRENT" \in flags'[i] <=> "IS_CURRENT" \in flags[i]
      BY <3>1 DEF Flags
    <3>3. /\ Here' \in Places /\ Here'.list = queue /\ Here'.current = pCurrent
          /\ Here'.flags = flags'
      BY <3>1, <3>2 DEF Here, Place, Places
    <3>4. \A j : /\ Listed(Here, j)' <=> Listed(Here, j)
                 /\ In(Here, j)' <=> In(Here, j)
      BY <3>3 DEF Listed, In
    <3>5. Sound(Here)'
      BY <3>2, <3>3, <3>4 DEF Sound
    <3> QED BY <1>0, <3>1, <3>4, <3>5 DEF NotStuck, Appears
  <2>2. CASE pCurrent = NoIrp
    BY <1>1, <1>13, <2>2 DEF TimeoutRoutine
  <2> QED BY <2>1, <2>2
<1>14. ASSUME IoXoffCounted \/ CancelQueue PROVE Goal
  BY <1>1, <1>2, <1>14 DEF IoXoffCounted, CancelQueue
<1> QED BY <1>4, <1>5, <1>6, <1>7, <1>8, <1>9, <1>10, <1>11, <1>12, <1>13, <1>14
        DEF Next, Start

\* The steps that need no lock change nothing that its holder relies on.
LEMMA QuietFacts ==
  ASSUME TypeInv, OwnerInv,
         \/ \E i \in Irps : IoCancelMark(i) \/ IoCancelTake(i) \/ Return(i)
         \/ \E t \in Threads : CompleteOne(t)
         \/ TimerFire
  PROVE  /\ UNCHANGED <<kind, pCurrent, queue, lock, local, ret>>
         /\ \A j : /\ In(Here, j)' <=> In(Here, j)
                   /\ Listed(Here, j)' <=> Listed(Here, j)
                   /\ Behind(Here, j)' <=> Behind(Here, j)
         /\ \A t \in Threads : \A label \in Labels \ {"idle", "call", "complete"} :
              At(t, label)' <=> At(t, label)
         /\ \A j \in Irps : /\ Live(j)' <=> Live(j)
                            /\ Holding(j)' <=> Holding(j)
                            /\ information'[j] \in {information[j], 0}
<1> USE ThreadFacts, ThreadsDiffer, Facts DEF irpVars, queueVars
<1>1. /\ UNCHANGED <<kind, pCurrent, queue, flags, lock, local, ret>>
      /\ \A j \in Irps : information'[j] \in {information[j], 0}
  <2>1. information \in [Irps -> 0 .. DataLength]
    BY DEF TypeInv, Typed, TypedIrps
  <2>2. ASSUME NEW t \in Threads, CompleteOne(t)
        PROVE  /\ UNCHANGED <<kind, pCurrent, queue, flags, lock, local, ret>>
               /\ \A j \in Irps : information'[j] \in {information[j], 0}
    <3>1. UNCHANGED <<kind, pCurrent, queue, flags, lock, local, ret>>
      BY <2>2 DEF CompleteOne
    <3>2. \E h, x : information' = [information EXCEPT ![h] = IF x THEN 0 ELSE @]
      BY <2>2 DEF CompleteOne
    <3> QED BY <2>1, <3>1, <3>2
  <2> QED BY <2>2 DEF IoCancelMark, IoCancelTake, Return, TimerFire
<1>2. Here' = Here
  BY <1>1 DEF Here
<1>3. \/ pc' = pc
      \/ \E t \in Threads : \E label \in {"idle", "call", "complete"} :
           pc[t] \in {"idle", "complete"} /\ pc' = [pc EXCEPT ![t] = label]
  <2>1. ASSUME NEW i \in Irps, IoCancelTake(i)
        PROVE  pc' = pc \/ (pc[Canceller(i)] = "idle"
                            /\ pc' = [pc EXCEPT ![Canceller(i)] = "call"])
    BY <2>1 DEF IoCancelTake, OneOwner, Goto
  <2> QED BY <2>1 DEF IoCancelMark, Return, CompleteOne, TimerFire, Goto
<1>4. \A t \in Threads : \A label \in Labels \ {"idle", "call", "complete"} :
        At(t, label)' <=> At(t, label)
  BY <1>1, <1>3 DEF At
<1>5. ASSUME NEW j \in Irps PROVE Live(j)' <=> Live(j)
  <2>1. CASE \E i \in Irps : IoCancelTake(i)
    <3>1. PICK i \in Irps : IoCancelTake(i)
      BY <2>1
    <3>2. pc[Canceller(i)] = "idle" /\ ~Running(i)
      BY <3>1 DEF IoCancelTake, OneOwner, Running
    <3> QED BY <3>1, <3>2 DEF IoCancelTake, Goto, Live, Running
  <2>2. CASE ~\E i \in Irps : IoCancelTake(i)
    <3>1. /\ cancelRoutine' = cancelRoutine
          /\ \/ pc' = pc
             \/ \E i \in Irps : \E label :
                  pc[Starter(i)] = "complete" /\ pc' = [pc EXCEPT ![Starter(i)] = label]
             \/ pc' = [pc EXCEPT ![Dpc] = "call"]
             \/ \E t \in Threads : \E label \in {"idle", "complete"} :
                  pc[t] = "complete" /\ pc' = [pc EXCEPT ![t] = label]
      BY <2>2 DEF IoCancelMark, Return, CompleteOne, TimerFire, Goto
    <3> QED BY <3>1 DEF Live, Running
  <2> QED BY <2>1, <2>2
<1>6. "restore" \in Labels \ {"idle", "call", "complete"}
  BY DEF Labels
<1> QED BY <1>1, <1>2, <1>4, <1>5, <1>6 DEF Holding

LEMMA EngagedStep ==
  ASSUME TypeInv, OwnerInv, PlacesInv, Next
  PROVE  Engaged'
<1> USE ThreadFacts, ThreadsDiffer DEF irpVars, queueVars
<1>0. /\ pc \in [Threads -> Labels] /\ lock \in Threads \cup {Free}
      /\ local \in [irp : Irps \cup {NoIrp}, first : BOOLEAN,
                    sent : BOOLEAN, rounds : 0 .. MaxRounds]
      /\ cancelRoutine \subseteq Irps
      /\ Engaged /\ \A i \in Irps : Charged(i) /\ Dispatched(i)
  BY Facts DEF PlacesInv, TypeInv, Typed, TypedRest
<1>1. ASSUME NEW t \in Threads, lock' = t \/ lock' = Free,
             pc'[t] \notin {"restore", "recheck", "xoff", "drop", "sweep", "more"}
      PROVE  Engaged'
  BY <1>1 DEF Engaged, At
<1>2. ASSUME \/ \E i \in Irps : IoCancelMark(i) \/ IoCancelTake(i) \/ Return(i)
             \/ \E t \in Threads : CompleteOne(t)
             \/ TimerFire
      PROVE  Engaged'
  <2>1. {"restore", "recheck", "xoff", "drop", "sweep", "more"}
          \subseteq Labels \ {"idle", "call", "complete"}
    BY DEF Labels
  <2> QED BY <1>0, <1>2, <2>1, QuietFacts DEF Engaged
<1>3. ASSUME NEW i \in Irps, StartEnter(i) \/ StartRefuse(i) \/ StartEnd(i)
             \/ CancelRoutine(i)
      PROVE  Engaged'
  <2>1. CASE StartEnter(i)
    BY <1>0, <1>1, <2>1 DEF StartEnter, Acquire, Goto
  <2>2. CASE StartRefuse(i) \/ StartEnd(i)
    BY <1>1, <2>2 DEF StartRefuse, StartEnd, Leave, Goto, Engaged, At
  <2>3. CASE CancelRoutine(i)
    BY <1>0, <1>1, <2>3 DEF CancelRoutine, Acquire, Leave, Goto, Engaged, At
  <2> QED BY <1>3, <2>1, <2>2, <2>3
<1>4. ASSUME NEW i \in Irps, NEW k, NEW p, NEW a, p \in Places, lock = Starter(i),
             StartIrp(Starter(i), i, k, p, a)
      PROVE  Engaged'
  <2>1. /\ lock' = Starter(i) /\ pc'[Starter(i)] \in {"xoff", "next", "end"}
        /\ pc'[Starter(i)] = "xoff" => Put(MakeCurrent(p, i))
    BY <1>0, <1>4 DEF StartIrp, Goto
  <2>2. Put(MakeCurrent(p, i)) => pCurrent' = i
    BY DEF Put, MakeCurrent, Place
  <2> QED BY <2>1, <2>2, IrpAssumption DEF Engaged, At
<1>5. ASSUME NEW i \in Irps, StartCheck(i) PROVE Engaged'
  <2>0. lock = Starter(i) /\ ~In(Here, i) /\ Here \in Places
    BY <1>0, <1>5, HereFacts DEF StartCheck, At, Dispatched
  <2>1. ASSUME NEW st, Refuse(i, st) PROVE Engaged'
    BY <1>0, <1>1, <2>0, <2>1 DEF Refuse, Goto
  <2>2. CASE pCurrent # NoIrp
    <3>1. PushCurrent(Here) \in Places
      BY <2>2, HereFacts, PushCurrentSound DEF Sound
    <3>2. ASSUME NEW k, StartIrp(Starter(i), i, k, PushCurrent(Here), amountInWriteQueue)
          PROVE  Engaged'
      BY <1>4, <2>0, <3>1, <3>2
    <3>3. CASE StartLater(i)
      BY <3>3 DEF StartLater, Leave, Engaged, At
    <3>4. CASE /\ Put(Shift(InsertTail(Here, i)))
               /\ local' = [local EXCEPT !.irp = pCurrent]
               /\ Goto(Starter(i), "more") /\ lock' = lock
      <4> DEFINE p == InsertTail(Here, i)
      <4>1. /\ Sound(p) /\ \A j : Listed(p, j) <=> Listed(Here, j) \/ j = i
            /\ p.current = pCurrent
        BY <2>0, HereFacts, InsertTailSound
      <4>2. /\ pCurrent \in Irps /\ ~Listed(p, pCurrent)
        BY <2>2, <4>1, HereFacts DEF Sound
      <4> HIDE DEF p
      <4>3. Sound(Shift(p)) /\ ~In(Shift(p), pCurrent)
        BY <4>1, <4>2, ShiftSound
      <4>4. Here' = Shift(p) /\ local'.irp = pCurrent
        BY <1>0, <3>4, <4>3, PutHere DEF Sound, p
      <4>5. pc'[Starter(i)] = "more" /\ lock' = Starter(i)
        BY <1>0, <2>0, <3>4 DEF Goto
      <4>6. local'.irp \in Irps /\ ~In(Here, local.irp)'
        BY <4>2, <4>3, <4>4
      <4> QED BY <4>5, <4>6 DEF Engaged, At
    <3> QED BY <1>5, <2>1, <2>2, <3>2, <3>3, <3>4, CheckCases
  <2>3. CASE pCurrent = NoIrp
    BY <1>4, <1>5, <2>0, <2>1, <2>3, CheckCases DEF StartLater, StartOverXoff
  <2> QED BY <2>2, <2>3
<1>6. ASSUME NEW i \in Irps, StartMore(i) PROVE Engaged'
  BY <1>4, <1>6, HereFacts DEF StartMore, At
<1>7. ASSUME NEW t \in Threads, Engine(t) PROVE Engaged'
  <2>1. CASE EngineEmpty(t) \/ EngineSkip(t) \/ EngineDrop(t) \/ EngineAgain(t)
             \/ EngineLeave(t)
    <3>1. /\ lock' = t \/ lock' = Free
          /\ pc'[t] \in {"next", "end", "complete", "idle"}
      BY <1>0, <2>1 DEF EngineEmpty, EngineSkip, EngineDrop, EngineAgain,
                        EngineLeave, At, Leave, Goto
    <3> QED BY <1>1, <3>1
  <2>2. CASE EngineWork(t)
    <3>1. CASE pc' = pc
      BY <1>1, <2>2, <3>1 DEF EngineWork, At
    <3>2. CASE pc' # pc
      <4>1. /\ pc' = [pc EXCEPT ![t] = "restore"] /\ local'.irp = pCurrent
            /\ pCurrent' = pCurrent /\ lock' = t /\ pCurrent \in Irps
        BY <1>0, <2>2, <3>2 DEF EngineWork, Goto, At
      <4> QED BY <1>0, <4>1, IrpAssumption DEF Engaged, At
    <3> QED BY <3>1, <3>2
  <2>3. CASE EngineRestore(t)
    <3>1. /\ pc' = [pc EXCEPT ![t] = "recheck"] /\ lock' = t /\ lock = t
          /\ pc[t] = "restore" /\ local' = local /\ pCurrent' = pCurrent
      BY <2>3 DEF EngineRestore, Goto, At
    <3> QED BY <1>0, <3>1 DEF Engaged, At
  <2>4. CASE EngineRecheck(t)
    <3>1. /\ lock = t /\ lock' = t /\ local' = local
          /\ pCurrent = local.irp /\ pCurrent # NoIrp
      BY <1>0, <2>4 DEF EngineRecheck, Engaged, At
    <3>2. CASE pc' = [pc EXCEPT ![t] = "drop"] /\ Put(Shift(Here))
      <4>1. Sound(Shift(Here)) /\ ~In(Shift(Here), pCurrent) /\ pCurrent \in Irps
        BY <3>1, HereFacts, ShiftSound DEF Sound
      <4>2. Here' = Shift(Here)
        BY <3>2, <4>1, PutHere DEF Sound
      <4>3. local'.irp \in Irps /\ ~In(Here, local.irp)' /\ pc'[t] = "drop"
        BY <1>0, <3>1, <3>2, <4>1, <4>2
      <4> QED BY <3>1, <4>3 DEF Engaged, At
    <3>3. CASE pc' = [pc EXCEPT ![t] = "xoff"] /\ pCurrent' = pCurrent
      BY <1>0, <3>1, <3>3 DEF Engaged, At
    <3>4. CASE pc' = [pc EXCEPT ![t] = "end"]
      BY <1>0, <1>1, <3>1, <3>4
    <3> QED BY <2>4, <3>2, <3>3, <3>4 DEF EngineRecheck, Goto
  <2>5. CASE XoffSent(t)
    <3>1. /\ lock = t /\ lock' = t /\ pc[t] = "xoff" /\ local'.irp = pCurrent
          /\ pc' = [pc EXCEPT ![t] = "sweep"] /\ Put(Shift(Here))
          /\ cancelRoutine' = cancelRoutine /\ pCurrent # NoIrp
      BY <1>0, <2>5 DEF XoffSent, Goto, Engaged, At
    <3>2. Sound(Shift(Here)) /\ ~In(Shift(Here), pCurrent) /\ pCurrent \in Irps
      BY <3>1, HereFacts, ShiftSound DEF Sound
    <3>3. Here' = Shift(Here)
      BY <3>1, <3>2, PutHere DEF Sound
    <3>4. Live(pCurrent)
      <4>1. ~Holding(pCurrent)
        BY <3>1 DEF Holding, At
      <4> QED BY <1>0, <3>2, <4>1, HereFacts DEF Charged, In
    <3>5. Live(local.irp)'
      BY <1>0, <3>1, <3>4 DEF Live, Running
    <3>6. local'.irp \in Irps /\ ~In(Here, local.irp)' /\ pc'[t] = "sweep"
      BY <1>0, <3>1, <3>2, <3>3
    <3> QED BY <3>1, <3>5, <3>6 DEF Engaged, At
  <2>6. CASE XoffSweep(t)
    <3>1. CASE pc' # pc
      BY <1>0, <1>1, <2>6, <3>1 DEF XoffSweep, At, Goto
    <3>2. CASE pc' = pc
      <4>1. /\ lock = t /\ lock' = t /\ pc[t] = "sweep" /\ local' = local
            /\ pCurrent # NoIrp /\ Put(Shift(Here))
            /\ CompleteIrp(t, pCurrent, "SUCCESS")
        BY <1>0, <2>6, <3>2 DEF XoffSweep, At, Goto
      <4>2. /\ local.irp \in Irps /\ ~In(Here, local.irp) /\ Live(local.irp)
        BY <1>0, <4>1 DEF Engaged, At
      <4>3. local.irp # pCurrent /\ ~Listed(Here, local.irp)
        BY <4>2, HereFacts DEF In
      <4>4. Sound(Shift(Here)) /\ ~In(Shift(Here), local.irp)
        BY <4>2, <4>3, HereFacts, ShiftSound
      <4>5. Here' = Shift(Here)
        BY <4>1, <4>4, PutHere DEF Sound
      <4>6. Live(local.irp)'
        BY <3>2, <4>1, <4>2, <4>3 DEF Live, Running, CompleteIrp
      <4> QED BY <3>2, <4>1, <4>2, <4>4, <4>5, <4>6 DEF Engaged, At
    <3> QED BY <3>1, <3>2
  <2> QED BY <1>7, <2>1, <2>2, <2>3, <2>4, <2>5, <2>6 DEF Engine
<1>8. ASSUME IoEnter \/ PurgeEnter \/ TimeoutRoutine \/ IoXoffCounted \/ CancelQueue
      PROVE  Engaged'
  <2>1. \E t \in Threads : /\ lock' = t \/ lock' = Free
                           /\ pc'[t] \in {"next", "purge", "idle", "complete"}
    BY <1>0, <1>8 DEF IoEnter, PurgeEnter, TimeoutRoutine, IoXoffCounted, CancelQueue,
                      Acquire, Leave, Goto, At
  <2> QED BY <1>1, <2>1
<1> QED BY <1>2, <1>3, <1>5, <1>6, <1>7, <1>8 DEF Next, Start

LEMMA ShiftOut ==
  ASSUME TypeInv, OwnerInv, PlacesInv, Put(Shift(Here)), pCurrent \in Irps
  PROVE  \A i : i = pCurrent => ~In(Here, i)'
<1>1. Sound(Shift(Here)) /\ ~In(Shift(Here), pCurrent)
  BY HereFacts, ShiftSound DEF Sound
<1>2. Here' = Shift(Here)
  BY <1>1, PutHere DEF Sound
<1> QED BY <1>1, <1>2

LEMMA ChargedStep ==
  ASSUME TypeInv, OwnerInv, PlacesInv, Next, NEW j \in Irps
  PROVE  Charged(j)'
<1> USE ThreadFacts, ThreadsDiffer DEF irpVars, queueVars
<1>0. /\ pc \in [Threads -> Labels] /\ lock \in Threads \cup {Free}
      /\ cancelRoutine \subseteq Irps
      /\ Engaged /\ Charged(j) /\ \A i \in Irps : Dispatched(i)
      /\ NoIrp \notin Irps /\ pCurrent \in Irps \cup {NoIrp}
  BY Facts, HereFacts DEF PlacesInv
<1>1. /\ Appears(j)
      /\ At(Starter(j), "check") => Live(j)
      /\ \A t \in Threads : At(t, "sweep") => Live(local.irp)
      /\ \A t \in Threads : At(t, "drop") \/ At(t, "sweep") \/ At(t, "more") =>
           ~In(Here, local.irp)
  BY <1>0, PlacesStep DEF Dispatched, Engaged
\* Who is in the queue now, and was not being worked on, is live.
<1>2. ~Holding(j) /\ In(Here, j)' => Live(j)
  BY <1>0, <1>1 DEF Charged, Appears
<1>3. ASSUME ~Holding(j), cancelRoutine \subseteq cancelRoutine',
             Running(j) => Running(j)'
      PROVE  Charged(j)'
  BY <1>2, <1>3 DEF Charged, Live
<1>4. ASSUME ~Holding(j), NEW x, cancelRoutine' = cancelRoutine \ {x},
             x = j => ~In(Here, x)',
             Running(j) => Running(j)'
      PROVE  Charged(j)'
  BY <1>2, <1>4 DEF Charged, Live
<1>5. ASSUME \/ \E i \in Irps : IoCancelMark(i) \/ IoCancelTake(i) \/ Return(i)
             \/ \E t \in Threads : CompleteOne(t)
             \/ TimerFire
      PROVE  Charged(j)'
  BY <1>0, <1>5, QuietFacts DEF Charged
<1>6. ASSUME NEW i \in Irps, StartEnter(i) PROVE Charged(j)'
  BY <1>0, <1>3, <1>6 DEF StartEnter, Acquire, Goto, Holding, Running, At
<1>7. ASSUME NEW i \in Irps, StartCheck(i) PROVE Charged(j)'
  <2>1. /\ lock = Starter(i) /\ pc[Starter(i)] = "check"
        /\ cancelRoutine' = cancelRoutine
        /\ \E label : pc' = [pc EXCEPT ![Starter(i)] = label]
    BY <1>7 DEF StartCheck, StartIrp, StartFirst, StartImmediate, StartLater,
                StartOverXoff, Refuse, Leave, Goto, At
  <2> QED BY <1>0, <1>3, <2>1 DEF Holding, Running, At
<1>8. ASSUME NEW i \in Irps, StartMore(i) PROVE Charged(j)'
  <2>1. /\ lock = Starter(i) /\ pc[Starter(i)] = "more"
        /\ CompleteIrp(Starter(i), local.irp, "MORE_WRITES")
        /\ \E label : pc' = [pc EXCEPT ![Starter(i)] = label]
    BY <1>8 DEF StartMore, StartIrp, Goto, At
  <2>2. /\ cancelRoutine' = cancelRoutine \ {local.irp} /\ ~Holding(j)
        /\ Running(j) => Running(j)'
    BY <1>0, <2>1, CompleteIrpMoves DEF Holding, Running, At
  <2>3. local.irp = j => ~In(Here, j)'
    BY <1>0, <1>1, <2>1 DEF Appears, At
  <2> QED BY <1>4, <2>2, <2>3
<1>9. ASSUME NEW i \in Irps, StartRefuse(i) PROVE Charged(j)'
  <2>1. /\ lock = Starter(i) /\ pc[Starter(i)] = "refuse" /\ ~In(Here, i)
        /\ cancelRoutine' = cancelRoutine \ {i}
        /\ \E label : pc' = [pc EXCEPT ![Starter(i)] = label]
    BY <1>0, <1>9 DEF StartRefuse, Leave, Goto, At, NoPending, Dispatched
  <2>2. ~Holding(j) /\ (Running(j) => Running(j)')
    BY <1>0, <2>1 DEF Holding, Running, At
  <2>3. i = j => ~In(Here, j)'
    BY <1>0, <1>1, <2>1 DEF Appears, At
  <2> QED BY <1>4, <2>1, <2>2, <2>3
<1>10. ASSUME NEW i \in Irps, StartEnd(i) PROVE Charged(j)'
  <2>1. /\ lock = Starter(i) /\ pc[Starter(i)] = "end"
        /\ \E label : pc' = [pc EXCEPT ![Starter(i)] = label]
    BY <1>10 DEF StartEnd, Leave, Goto, At
  <2>2. ~Holding(j) /\ (Running(j) => Running(j)')
    BY <1>0, <2>1 DEF Holding, Running, At
  <2>3. CASE ret[i] = "PENDING"
    BY <1>3, <1>10, <2>2, <2>3 DEF StartEnd
  <2>4. CASE ret[i] # "PENDING"
    <3>1. cancelRoutine' = cancelRoutine \ {i}
      BY <1>10, <2>4 DEF StartEnd, NoPending
    <3>2. ~Listed(Here, i)
      BY <1>0, <2>1, <2>4 DEF Dispatched
    <3>3. CASE pCurrent = i
      <4>1. Put(Shift(Here))
        BY <1>10, <2>4, <3>3 DEF StartEnd
      <4>2. ~In(Here, i)'
        BY <3>3, <4>1, ShiftOut
      <4> QED BY <1>4, <2>2, <3>1, <4>2
    <3>4. CASE pCurrent # i
      <4>1. i = j => ~In(Here, i)'
        BY <1>0, <1>1, <2>1, <3>2, <3>4, HereFacts DEF Appears, At, In
      <4> QED BY <1>4, <2>2, <3>1, <4>1
    <3> QED BY <3>3, <3>4
  <2> QED BY <2>3, <2>4
<1>11. ASSUME NEW i \in Irps, CancelRoutine(i) PROVE Charged(j)'
  <2> DEFINE p == IF "IN_QUEUE" \in flags[i] THEN Unlink(Here, i) ELSE Here
  <2>1. /\ lock = Free /\ cancelRoutine' = cancelRoutine
        /\ \E label : pc' = [pc EXCEPT ![Canceller(i)] = label]
    BY <1>11 DEF CancelRoutine, Acquire, Leave, Goto
  <2>2. CASE j # i
    BY <1>0, <1>3, <2>1, <2>2 DEF Holding, Running, At
  <2>3. CASE j = i
    <3>1. Sound(p) /\ p.current = pCurrent /\ ~Listed(p, i)
      BY HereFacts, UnlinkSound DEF Sound
    <3>2. "IS_CURRENT" \in flags[i] <=> pCurrent = i
      BY HereFacts DEF Sound
    <3>3. IF pCurrent = i THEN Put(Shift(p)) ELSE Put(p)
      BY <1>11, <3>2 DEF CancelRoutine
    <3> HIDE DEF p
    <3>4. Sound(Shift(p)) /\ ~In(Shift(p), i)
      BY <3>1, ShiftSound
    <3>5. ~In(Here, i)'
      BY <3>1, <3>3, <3>4, PutHere DEF Sound, In
    <3> QED BY <2>3, <3>5 DEF Charged
  <2> QED BY <2>2, <2>3
<1>12. ASSUME NEW t \in Threads, Engine(t) PROVE Charged(j)'
  <2>1. CASE EngineEmpty(t) \/ EngineSkip(t) \/ EngineRecheck(t) \/ XoffSent(t)
             \/ EngineAgain(t) \/ EngineLeave(t)
    <3>1. /\ lock = t /\ pc[t] \in {"next", "recheck", "xoff", "end"}
          /\ cancelRoutine' = cancelRoutine
          /\ pc' = pc \/ \E label : pc' = [pc EXCEPT ![t] = label]
      BY <2>1 DEF EngineEmpty, EngineSkip, EngineRecheck, XoffSent, EngineAgain,
                  EngineLeave, At, Leave, Goto
    <3> QED BY <1>0, <1>3, <3>1 DEF Holding, Running, At
  <2>2. CASE EngineWork(t)
    <3>1. /\ lock = t /\ pc[t] = "next" /\ pCurrent \in Irps
          /\ cancelRoutine' = cancelRoutine \ {pCurrent}
      BY <1>0, <2>2 DEF EngineWork, At
    <3>2. \/ /\ pc' = [pc EXCEPT ![t] = "restore"] /\ local'.irp = pCurrent
             /\ lock' = t
          \/ pc' = pc /\ Put(Shift(Here))
      BY <2>2 DEF EngineWork, At, Goto, TypeInv, Typed, TypedRest
    <3>3. ~Holding(j) /\ (Running(j) => Running(j)')
      BY <1>0, <3>1, <3>2 DEF Holding, Running, At
    <3>4. CASE pc' = pc /\ Put(Shift(Here))
      BY <1>4, <3>1, <3>3, <3>4, ShiftOut
    <3>5. CASE pc' = [pc EXCEPT ![t] = "restore"] /\ local'.irp = pCurrent /\ lock' = t
      <4>1. j = pCurrent => Holding(j)'
        BY <1>0, <3>5 DEF Holding, At
      <4> QED BY <1>2, <3>1, <3>3, <4>1 DEF Charged, Live
    <3> QED BY <3>2, <3>4, <3>5
  <2>3. CASE EngineRestore(t)
    <3>1. /\ lock = t /\ pc[t] = "restore"
          /\ cancelRoutine' = cancelRoutine \cup {local.irp}
          /\ pc' = [pc EXCEPT ![t] = "recheck"]
      BY <2>3 DEF EngineRestore, At, Goto
    <3>2. Holding(j) => j = local.irp
      BY <3>1 DEF Holding, At
    <3>3. Running(j) => Running(j)'
      BY <1>0, <3>1 DEF Running
    <3> QED BY <1>2, <3>1, <3>2, <3>3 DEF Charged, Live
  <2>4. CASE EngineDrop(t)
    <3>1. /\ lock = t /\ pc[t] = "drop" /\ CompleteIrp(t, local.irp, "CANCELLED")
          /\ pc' = [pc EXCEPT ![t] = "next"]
      BY <2>4 DEF EngineDrop, At, Goto
    <3>2. /\ cancelRoutine' = cancelRoutine \ {local.irp} /\ ~Holding(j)
          /\ Running(j) => Running(j)'
      BY <1>0, <3>1, CompleteIrpMoves DEF Holding, Running, At
    <3>3. local.irp = j => ~In(Here, j)'
      BY <1>0, <1>1, <3>1 DEF Appears, At
    <3> QED BY <1>4, <3>2, <3>3
  <2>5. CASE XoffSweep(t)
    <3>1. /\ lock = t /\ pc[t] = "sweep"
          /\ pc' = pc \/ \E label : pc' = [pc EXCEPT ![t] = label]
      BY <2>5 DEF XoffSweep, At, Goto
    <3>2. ~Holding(j) /\ (Running(j) => Running(j)')
      BY <1>0, <3>1 DEF Holding, Running, At
    <3>3. \/ cancelRoutine' = cancelRoutine
          \/ /\ pCurrent # NoIrp /\ Put(Shift(Here))
             /\ CompleteIrp(t, pCurrent, "SUCCESS")
          \/ /\ pCurrent # NoIrp /\ CompleteIrp(t, local.irp, "MORE_WRITES")
      BY <2>5 DEF XoffSweep
    <3>4. CASE pCurrent # NoIrp /\ Put(Shift(Here)) /\ CompleteIrp(t, pCurrent, "SUCCESS")
      <4>1. cancelRoutine' = cancelRoutine \ {pCurrent} /\ \A i : i = pCurrent => ~In(Here, i)'
        BY <1>0, <3>4, CompleteIrpMoves, ShiftOut
      <4> QED BY <1>4, <3>2, <4>1
    <3>5. CASE pCurrent # NoIrp /\ CompleteIrp(t, local.irp, "MORE_WRITES")
      <4>1. cancelRoutine' = cancelRoutine \ {local.irp}
        BY <3>5, CompleteIrpMoves
      <4>2. local.irp = j => ~In(Here, j)'
        BY <1>0, <1>1, <3>1, <3>5 DEF Appears, At
      <4> QED BY <1>4, <3>2, <4>1, <4>2
    <3> QED BY <1>3, <3>2, <3>3, <3>4, <3>5
  <2> QED BY <1>12, <2>1, <2>2, <2>3, <2>4, <2>5 DEF Engine
<1>13. ASSUME IoEnter \/ PurgeEnter \/ TimeoutRoutine PROVE Charged(j)'
  <2>1. /\ lock = Free /\ cancelRoutine' = cancelRoutine
        /\ \E t \in {Dpc, Io, Purger} : \E label : pc' = [pc EXCEPT ![t] = label]
    BY <1>13 DEF IoEnter, PurgeEnter, TimeoutRoutine, Acquire, Leave, Goto
  <2> QED BY <1>0, <1>3, <2>1 DEF Holding, Running, At
<1>14. ASSUME IoXoffCounted \/ CancelQueue PROVE Charged(j)'
  <2>1. /\ ~Holding(j) /\ (Running(j) => Running(j)')
    BY <1>0, <1>14 DEF IoXoffCounted, CancelQueue, Leave, Goto, Holding, Running, At
  <2>2. \/ cancelRoutine' = cancelRoutine
        \/ /\ pCurrent # NoIrp /\ Put(Shift(Here))
           /\ \E t \in Threads : \E st : CompleteIrp(t, pCurrent, st)
    BY <1>14 DEF IoXoffCounted, CancelQueue
  <2>3. CASE /\ pCurrent # NoIrp /\ Put(Shift(Here))
             /\ \E t \in Threads : \E st : CompleteIrp(t, pCurrent, st)
    <3>1. cancelRoutine' = cancelRoutine \ {pCurrent} /\ \A i : i = pCurrent => ~In(Here, i)'
      BY <1>0, <2>3, CompleteIrpMoves, ShiftOut
    <3> QED BY <1>4, <2>1, <3>1
  <2> QED BY <1>3, <2>1, <2>2, <2>3
<1> QED BY <1>5, <1>6, <1>7, <1>8, <1>9, <1>10, <1>11, <1>12, <1>13, <1>14
        DEF Next, Start

\* The same with what it does to the queue.  Nothing waits behind a counting
\* XOFF_COUNTER that gives way, so that the request is alone.
LEMMA StartCases ==
  ASSUME TypeInv, OwnerInv, PlacesInv, NEW i \in Irps, StartCheck(i) \/ StartMore(i)
  PROVE  \/ \E st : Refuse(i, st)
         \/ /\ \E k \in 0 .. Rest(i) : \E p, a : StartIrp(Starter(i), i, k, p, a)
            /\ ~Listed(Here, i)'
            /\ queue' = <<>> \/ kind[i] = "immediate"
         \/ StartLater(i)
         \/ /\ pCurrent' = i /\ queue' = <<>> /\ Goto(Starter(i), "more")
            /\ UNCHANGED <<information, lock, ret>>
<1> USE HereFacts
<1>0. NotStuck /\ Alone /\ Dispatched(i)
  BY DEF PlacesInv
<1>1. CASE StartMore(i)
  <2>1. PICK k \in 0 .. Rest(i) : StartIrp(Starter(i), i, k, Here, amountInWriteQueue)
    BY <1>1 DEF StartMore
  <2>2. Here.current = i /\ Here.list = <<>> /\ ~Listed(Here, i)
    BY <1>0, <1>1 DEF StartMore, Dispatched
  <2>3. ~Listed(Here, i)' /\ queue' = <<>>
    BY <2>1, <2>2, StartIrpPlace
  <2> QED BY <2>1, <2>3
<1>2. CASE StartCheck(i)
  <2>0. /\ ~In(Here, i) /\ lock = Starter(i) /\ pc[Starter(i)] = "check"
    BY <1>0, <1>2 DEF StartCheck, Dispatched, At
  <2>1. ASSUME NEW k \in 0 .. Rest(i), pCurrent = NoIrp,
               StartIrp(Starter(i), i, k, Here, amountInWriteQueue)
        PROVE  ~Listed(Here, i)' /\ queue' = <<>>
    <3>1. /\ Here.current = NoIrp /\ ~Listed(Here, i) /\ Here.list = <<>>
      BY <1>0, <2>0, <2>1 DEF NotStuck, In
    <3> QED BY <2>1, <3>1, StartIrpPlace
  <2>2. ASSUME NEW k \in 0 .. Rest(i), pCurrent # NoIrp,
               StartIrp(Starter(i), i, k, PushCurrent(Here), amountInWriteQueue)
        PROVE  ~Listed(Here, i)'
    <3> DEFINE p == PushCurrent(Here)
    <3>1. /\ Sound(p) /\ p.current = NoIrp
          /\ \A j : Listed(p, j) <=> Listed(Here, j) \/ pCurrent = j
      BY <2>2, PushCurrentSound
    <3>2. ~Listed(p, i)
      BY <2>0, <3>1 DEF In
    <3> HIDE DEF p
    <3> QED BY <2>2, <3>1, <3>2, StartIrpPlace DEF p
  <2>3. ASSUME StartOverXoff(i), Put(Shift(InsertTail(Here, i)))
        PROVE  pCurrent' = i /\ queue' = <<>>
    <3>1. pCurrent # NoIrp /\ IsStartedXoff(pCurrent)
      BY <2>3 DEF StartOverXoff
    <3>2. queue = <<>>
      <4>1. \A t : ~At(t, "xoff") /\ ~At(t, "restore") /\ ~At(t, "recheck")
        BY <2>0 DEF At
      <4> QED BY <1>0, <3>1, <4>1 DEF Alone
    <3> DEFINE l == Append(queue, i)
    <3>3. InsertTail(Here, i).list = l /\ Head(l) = i /\ Tail(l) = <<>> /\ l # <<>>
      <4>1. /\ l \in Seq(Irps) /\ Len(l) = 1 /\ l[1] = i /\ l # <<>>
        BY <3>2, AppendProperties
      <4>2. Head(l) = l[1] /\ Tail(l) \in Seq(Irps) /\ Len(Tail(l)) = 0
        BY <4>1, HeadTailProperties
      <4>3. Tail(l) = <<>>
        BY <4>2, EmptySeq
      <4> QED BY <4>1, <4>2, <4>3 DEF InsertTail, Place
    <3>4. /\ Shift(InsertTail(Here, i)).current = i
          /\ Shift(InsertTail(Here, i)).list = <<>>
      BY <3>3 DEF Shift, Place
    <3> QED BY <2>3, <3>4 DEF Put
  <2> QED BY <1>2, <2>1, <2>2, <2>3, CheckCases
<1> QED BY <1>1, <1>2

\* Bytes are counted by the engine for the current request, and by its own
\* dispatch for one that does not wait.
LEMMA InformationStep ==
  ASSUME TypeInv, OwnerInv, PlacesInv, Next, NEW j \in Irps
  PROVE  \/ information'[j] \in {information[j], 0}
         \/ \E t \in Threads : EngineWork(t) /\ j = pCurrent
         \/ StartCheck(j) /\ ~Listed(Here, j)'
         \/ StartMore(j) /\ ~Listed(Here, j)'
<1> USE DEF irpVars, queueVars
<1>1. information \in [Irps -> 0 .. DataLength]
  BY DEF TypeInv, Typed, TypedIrps
<1>2. ASSUME NEW i \in Irps, StartCheck(i) \/ StartMore(i)
      PROVE  \/ information'[j] = information[j]
             \/ j = i /\ ~Listed(Here, j)'
  <2>1. ASSUME NEW k, NEW p, NEW a, StartIrp(Starter(i), i, k, p, a), j # i
        PROVE  information'[j] = information[j]
    BY <1>1, <2>1 DEF StartIrp
  <2> QED BY <1>2, <2>1, StartCases DEF Refuse, StartLater
<1>3. ASSUME NEW i \in Irps, StartEnter(i) \/ StartRefuse(i) \/ StartEnd(i)
             \/ CancelRoutine(i)
      PROVE  information'[j] \in {information[j], 0}
  BY <1>1, <1>3 DEF StartEnter, StartRefuse, StartEnd, CancelRoutine
<1>4. ASSUME NEW t \in Threads, Engine(t)
      PROVE  information'[j] = information[j] \/ (EngineWork(t) /\ j = pCurrent)
  <2>1. CASE EngineWork(t)
    <3>1. \E k : information' = [information EXCEPT ![pCurrent] = @ + k]
      BY <2>1 DEF EngineWork
    <3> QED BY <1>1, <2>1, <3>1
  <2>2. CASE EngineEmpty(t) \/ EngineSkip(t) \/ EngineRestore(t) \/ EngineRecheck(t)
             \/ EngineDrop(t) \/ XoffSent(t) \/ XoffSweep(t) \/ EngineAgain(t)
             \/ EngineLeave(t)
    BY <2>2 DEF EngineEmpty, EngineSkip, EngineRestore, EngineRecheck, EngineDrop,
                XoffSent, XoffSweep, EngineAgain, EngineLeave
  <2> QED BY <1>4, <2>1, <2>2 DEF Engine
<1>5. ASSUME \/ \E i \in Irps : IoCancelMark(i) \/ IoCancelTake(i) \/ Return(i)
             \/ \E t \in Threads : CompleteOne(t)
             \/ TimerFire
      PROVE  information'[j] \in {information[j], 0}
  BY <1>5, QuietFacts
<1>6. ASSUME IoEnter \/ PurgeEnter \/ TimeoutRoutine \/ IoXoffCounted \/ CancelQueue
      PROVE  information' = information
  BY <1>6 DEF IoEnter, PurgeEnter, TimeoutRoutine, IoXoffCounted, CancelQueue
<1> QED BY <1>2, <1>3, <1>4, <1>5, <1>6 DEF Next, Start

LEMMA DispatchedStep ==
  ASSUME TypeInv, OwnerInv, PlacesInv, Next, NEW j \in Irps
  PROVE  Dispatched(j)'
<1> USE ThreadFacts, ThreadsDiffer DEF irpVars, queueVars
<1> DEFINE u == Starter(j)
<1>0. /\ pc \in [Threads -> Labels] /\ lock \in Threads \cup {Free}
      /\ cancelRoutine \subseteq Irps /\ ret \in [Irps -> Status]
      /\ Engaged /\ Dispatched(j) /\ OneOwner(j) /\ Appears(j)
      /\ NoIrp \notin Irps /\ pCurrent \in Irps \cup {NoIrp}
  BY Facts, HereFacts, PlacesStep DEF PlacesInv
<1>1. ASSUME ret'[j] = "none" PROVE ~In(Here, j)' /\ information'[j] = 0
  <2>1. ret[j] = "none"
    <3>1. CASE ret' = ret
      BY <1>1, <3>1
    <3>2. CASE ret' # ret
      <4>1. \E i \in Irps : \E st : ret' = [ret EXCEPT ![i] = st] /\ st # "none"
        <5>1. ASSUME NEW i \in Irps, StartCheck(i)
              PROVE  ret' = ret \/ \E st : ret' = [ret EXCEPT ![i] = st] /\ st # "none"
          BY <5>1, CheckCases DEF StartIrp, StartLater, Refuse
        <5>2. ASSUME NEW i \in Irps, StartEnter(i) \/ StartMore(i) \/ StartRefuse(i)
                     \/ StartEnd(i) \/ IoCancelMark(i) \/ IoCancelTake(i)
                     \/ Return(i) \/ CancelRoutine(i)
              PROVE  ret' = ret \/ \E st : ret' = [ret EXCEPT ![i] = st] /\ st # "none"
          BY <5>2 DEF StartEnter, StartMore, StartIrp, StartRefuse, StartEnd, NoPending,
                      IoCancelMark, IoCancelTake, Return, CancelRoutine
        <5>3. ASSUME NEW t \in Threads, Engine(t) PROVE ret' = ret
          BY <5>3 DEF Engine, EngineEmpty, EngineSkip, EngineWork, EngineRestore,
                      EngineRecheck, EngineDrop, XoffSent, XoffSweep, EngineAgain,
                      EngineLeave
        <5> QED BY <3>2, <5>1, <5>2, <5>3
                DEF Next, Start, CompleteOne, TimerFire, TimeoutRoutine, IoEnter,
                    IoXoffCounted, PurgeEnter, CancelQueue
      <4> QED BY <1>0, <1>1, <4>1
    <3> QED BY <3>1, <3>2
  <2>2. ~In(Here, j) /\ information[j] = 0 /\ pc[u] = "idle" /\ ~Live(j)
    BY <1>0, <2>1 DEF Dispatched, OneOwner, Live
  <2>3. ~In(Here, j)'
    BY <1>0, <2>2 DEF Appears, Engaged, At
  <2>4. ~StartCheck(j) /\ ~StartMore(j)
    BY <2>2 DEF StartCheck, StartMore, At
  <2>5. ASSUME NEW t, EngineWork(t) PROVE j # pCurrent
    BY <2>2, <2>5 DEF EngineWork, Live
  <2> QED BY <2>2, <2>3, <2>4, <2>5, InformationStep
<1>2. ASSUME lock' # u PROVE Dispatched(j)'
  BY <1>1, <1>2 DEF Dispatched, At
<1>3. ASSUME \/ \E i \in Irps : IoCancelMark(i) \/ IoCancelTake(i) \/ Return(i)
             \/ \E t \in Threads : CompleteOne(t)
             \/ TimerFire
      PROVE  Dispatched(j)'
  <2>1. {"check", "refuse", "more"} \subseteq Labels \ {"idle", "call", "complete"}
    BY DEF Labels
  <2> QED BY <1>0, <1>3, <2>1, QuietFacts DEF Dispatched
<1>4. ASSUME StartEnter(j) PROVE Dispatched(j)'
  <2>1. /\ ret'[j] = "PENDING" /\ pc'[u] = "check" /\ ret[j] = "none" /\ lock = Free
        /\ j \in cancelRoutine' /\ information' = information
    BY <1>0, <1>4 DEF StartEnter, Acquire, Goto
  <2>2. ~In(Here, j)' /\ information'[j] = 0
    BY <1>0, <2>1 DEF Dispatched, Appears, At
  <2> QED BY <2>1, <2>2 DEF Dispatched, At, Live
<1>5. ASSUME NEW i \in Irps, StartCheck(i) \/ StartMore(i) PROVE Dispatched(j)'
  <2>1. lock = Starter(i) /\ pc[Starter(i)] \in {"check", "more"} /\ ret[i] # "none"
    BY <1>0, <1>5, Facts DEF StartCheck, StartMore, At, OneOwner
  <2>2. \E label : pc' = [pc EXCEPT ![Starter(i)] = label]
    BY <1>5 DEF StartCheck, StartMore, StartIrp, StartFirst, StartImmediate,
                StartLater, StartOverXoff, Refuse, Leave, Goto
  <2>3. lock' = Starter(i) \/ lock' = Free
    BY <1>5, <2>1 DEF StartCheck, StartMore, StartIrp, StartFirst, StartImmediate,
                StartLater, StartOverXoff, Refuse, Leave
  <2>4. CASE i # j
    BY <1>2, <2>3, <2>4
  <2>5. CASE i = j
    <3>1. ASSUME NEW st, Refuse(j, st) PROVE Dispatched(j)'
      <4>1. /\ pc'[u] = "refuse" /\ UNCHANGED <<pCurrent, queue, flags>>
        BY <1>0, <3>1 DEF Refuse, Goto
      <4>2. pc[u] = "check"
        BY <1>5, <2>1, <2>5, <3>1, <1>0 DEF StartCheck, StartMore, At, Refuse, StartIrp,
              Goto
      <4>3. ~In(Here, j) /\ Here' = Here
        BY <1>0, <2>1, <2>5, <4>1, <4>2 DEF Dispatched, At, Here
      <4> QED BY <1>1, <4>1, <4>3 DEF Dispatched, At, In
    <3>2. ASSUME NEW k, NEW p, NEW a, StartIrp(u, j, k, p, a), ~Listed(Here, j)'
          PROVE  Dispatched(j)'
      <4>1. pc'[u] \in {"xoff", "next", "end"}
        BY <1>0, <3>2 DEF StartIrp, Goto
      <4> QED BY <1>1, <3>2, <4>1 DEF Dispatched, At
    <3>3. CASE StartLater(j)
      BY <1>2, <3>3 DEF StartLater, Leave
    <3>4. CASE /\ pCurrent' = j /\ queue' = <<>> /\ Goto(u, "more")
               /\ UNCHANGED <<information, lock, ret>>
      <4>1. pc'[u] = "more" /\ ~Listed(Here, j)'
        BY <1>0, <3>4 DEF Goto, Here, Place, Listed
      <4>2. pc[u] = "check"
        <5>1. StartMore(j) => pc'[u] \in {"xoff", "next", "end"}
          BY <1>0 DEF StartMore, StartIrp, Goto
        <5> QED BY <1>5, <2>1, <2>5, <4>1, <5>1 DEF StartCheck, At
      <4>3. information[j] = 0
        BY <1>0, <2>1, <2>5, <4>2 DEF Dispatched, At
      <4> QED BY <1>1, <3>4, <4>1, <4>3 DEF Dispatched, At
    <3> QED BY <1>5, <2>5, <3>1, <3>2, <3>3, <3>4, StartCases
  <2> QED BY <2>4, <2>5
<1>6. ASSUME NEW i \in Irps, StartRefuse(i) \/ StartEnd(i) \/ CancelRoutine(i)
      PROVE  Dispatched(j)'
  BY <1>2, <1>6 DEF StartRefuse, StartEnd, CancelRoutine, Leave, Acquire
<1>7. ASSUME NEW t \in Threads, Engine(t) PROVE Dispatched(j)'
  <2>1. /\ lock = t /\ ret' = ret
        /\ lock' = t \/ lock' = Free
        /\ pc[t] \in {"next", "restore", "recheck", "drop", "xoff", "sweep", "end"}
        /\ pc' = pc
           \/ \E label \in {"next", "restore", "recheck", "drop", "xoff", "sweep", "end",
                            "complete", "idle"} : pc' = [pc EXCEPT ![t] = label]
    BY <1>7 DEF Engine, EngineEmpty, EngineSkip, EngineWork, EngineRestore,
                EngineRecheck, EngineDrop, XoffSent, XoffSweep, EngineAgain,
                EngineLeave, At, Leave, Goto
  <2>2. CASE t = u /\ lock' = t
    <3>1. pc'[u] \notin {"check", "refuse", "more"}
      BY <1>0, <2>1, <2>2
    <3>2. Listed(Here, j)' => Listed(Here, j)
      BY <1>0, <2>1, <2>2 DEF Appears, At
    <3> QED BY <1>0, <1>1, <2>1, <2>2, <3>1, <3>2 DEF Dispatched, At
  <2> QED BY <1>2, <2>1, <2>2
<1>8. ASSUME NEW i \in Irps \ {j}, StartEnter(i) PROVE Dispatched(j)'
  BY <1>2, <1>8 DEF StartEnter, Acquire
<1>9. ASSUME IoEnter \/ PurgeEnter \/ TimeoutRoutine \/ IoXoffCounted \/ CancelQueue
      PROVE  Dispatched(j)'
  <2>1. lock' \in {Io, Purger, Dpc, Free}
    BY <1>9 DEF IoEnter, PurgeEnter, TimeoutRoutine, IoXoffCounted, CancelQueue,
                Acquire, Leave, At
  <2> QED BY <1>2, <2>1
<1> QED BY <1>3, <1>4, <1>5, <1>6, <1>7, <1>8, <1>9 DEF Next, Start

LEMMA KindStays ==
  ASSUME Next PROVE kind' = kind
<1> USE DEF irpVars, queueVars
<1>1. \A i \in Irps : StartCheck(i) \/ StartMore(i) \/ StartRefuse(i) \/ StartEnd(i)
                      \/ Return(i) => kind' = kind
  BY DEF StartCheck, StartMore, StartRefuse, StartEnd, Return
<1>2. \A t : Engine(t) => kind' = kind
  BY DEF Engine, EngineEmpty, EngineSkip, EngineWork, EngineRestore, EngineRecheck,
         EngineDrop, XoffSent, XoffSweep, EngineAgain, EngineLeave
<1> QED BY <1>1, <1>2
        DEF Next, Start, IoCancelMark, IoCancelTake, StartEnter, CancelRoutine,
            CompleteOne, TimerFire, TimeoutRoutine, IoEnter, IoXoffCounted,
            PurgeEnter, CancelQueue

LEMMA AloneStep ==
  ASSUME NoOvertaking, TypeInv, OwnerInv, PlacesInv, Next
  PROVE  Alone'
<1> USE ThreadFacts, ThreadsDiffer DEF irpVars, queueVars
<1> DEFINE Marks(t) == \/ At(t, "xoff")
                       \/ (At(t, "restore") \/ At(t, "recheck")) /\ local.sent
           Counting == \E t \in Threads : Marks(t)
           First == pCurrent # NoIrp /\ IsStartedXoff(pCurrent) => queue = <<>> \/ Counting
<1>0. /\ pc \in [Threads -> Labels] /\ lock \in Threads \cup {Free}
      /\ Alone /\ First /\ NotStuck /\ Sound(Here)
      /\ \A j \in Irps : Dispatched(j) /\ Appears(j)
      /\ NoIrp \notin Irps /\ pCurrent \in Irps \cup {NoIrp}
      /\ \A j \in Irps : information[j] \in Int
  <2>1. \A j \in Irps : information[j] \in Int
    BY LengthType
  <2>2. First
    BY DEF PlacesInv, Alone
  <2> QED BY <2>1, <2>2, Facts, HereFacts, PlacesStep DEF PlacesInv
<1>1. kind' = kind /\ kind \in [Irps -> Kinds]
  BY KindStays DEF TypeInv, Typed, TypedIrps
<1>2. CASE "xoff" \notin Kinds
  <2>1. \A i \in Irps : ~IsStartedXoff(i)'
    BY <1>1, <1>2 DEF IsStartedXoff
  <2>2. pCurrent' \in Irps \cup {NoIrp}
    BY PlacesStep DEF Sound, Places, Here, Place
  <2> QED BY <2>1, <2>2 DEF Alone
<1>3. CASE "immediate" \notin Kinds
  <2>0. \A i \in Irps : kind[i] # "immediate"
    BY <1>1, <1>3
  \* Nobody who waits counts.
  <2>1. ASSUME NEW j \in Irps, Listed(Here, j)' PROVE ~IsStartedXoff(j)'
    <3>1. Listed(Here, j) \/ (At(Starter(j), "check") /\ information[j] = 0)
      BY <1>0, <2>0, <2>1 DEF Appears, Dispatched
    <3>2. kind[j] = "xoff" => information[j] = 0
      BY <1>0, <3>1 DEF Alone, IsStartedXoff
    <3>3. ~\E t \in Threads : EngineWork(t) /\ j = pCurrent
      BY <1>0, <3>1, HereFacts DEF EngineWork, At, Sound
    <3>4. information'[j] \in {information[j], 0}
      BY <2>1, <3>3, InformationStep
    <3> QED BY <1>1, <3>2, <3>4 DEF IsStartedXoff
  \* The one that became current by a shift was waiting.
  <2>2. ASSUME pCurrent' \in Irps => Listed(Here, pCurrent') /\ pCurrent' # pCurrent,
               \A i \in Irps : ~StartCheck(i) /\ ~StartMore(i)
        PROVE  Alone'
    <3>1. ASSUME pCurrent' \in Irps PROVE ~IsStartedXoff(pCurrent)'
      <4>1. kind[pCurrent'] = "xoff" => information[pCurrent'] = 0
        BY <1>0, <2>2, <3>1 DEF Alone, IsStartedXoff
      <4>2. information'[pCurrent'] \in {information[pCurrent'], 0}
        BY <2>2, <3>1, InformationStep
      <4> QED BY <1>1, <4>1, <4>2 DEF IsStartedXoff
    <3>2. pCurrent' \in Irps \cup {NoIrp}
      BY PlacesStep DEF Sound, Places, Here, Place
    <3> QED BY <2>1, <3>1, <3>2 DEF Alone
  <2>3. ASSUME Put(Shift(Here)), \A i \in Irps : ~StartCheck(i) /\ ~StartMore(i)
        PROVE  Alone'
    <3>1. /\ Sound(Shift(Here))
          /\ \A i \in Irps : In(Shift(Here), i) <=> Listed(Here, i)
      BY HereFacts, ShiftSound
    <3>2. pCurrent' = Shift(Here).current
      BY <2>3, <3>1, PutHere DEF Sound
    <3>3. pCurrent' \in Irps => Listed(Here, pCurrent')
      BY <3>1, <3>2 DEF In
    <3> QED BY <2>2, <2>3, <3>3, HereFacts DEF Sound
  \* The same request stays current and no bytes are counted.
  <2>4. ASSUME UNCHANGED <<pCurrent, queue>>, Counting => Counting',
               \A i \in Irps : information'[i] \in {information[i], 0}
        PROVE  Alone'
    <3>1. pCurrent # NoIrp /\ IsStartedXoff(pCurrent)' => IsStartedXoff(pCurrent)
      BY <1>0, <1>1, <2>4 DEF IsStartedXoff
    <3> QED BY <1>0, <2>1, <2>4, <3>1 DEF Alone
  <2>5. ASSUME queue' = <<>> PROVE Alone'
    BY <2>1, <2>5 DEF Alone
  <2>6. ASSUME \/ \E i \in Irps : IoCancelMark(i) \/ IoCancelTake(i) \/ Return(i)
               \/ \E t \in Threads : CompleteOne(t)
               \/ TimerFire
        PROVE  Alone'
    <3>1. {"xoff", "restore", "recheck"} \subseteq Labels \ {"idle", "call", "complete"}
      BY DEF Labels
    <3> QED BY <2>4, <2>6, <3>1, QuietFacts
  <2>7. ASSUME NEW i \in Irps, StartCheck(i) \/ StartMore(i) PROVE Alone'
    <3>0. lock = Starter(i) /\ pc[Starter(i)] \in {"check", "more"}
      BY <2>7 DEF StartCheck, StartMore, At
    <3>1. ~Counting
      BY <3>0 DEF At
    <3>2. ASSUME NEW st, Refuse(i, st) PROVE Alone'
      BY <2>4, <3>1, <3>2 DEF Refuse
    <3>3. CASE StartLater(i)
      <4>1. /\ pCurrent # NoIrp /\ ~IsStartedXoff(pCurrent)
            /\ pCurrent' = pCurrent /\ information' = information
        BY <3>3 DEF StartLater, Put, InsertTail, Here, Place
      <4>2. ~IsStartedXoff(pCurrent)'
        BY <1>1, <4>1 DEF IsStartedXoff
      <4> QED BY <2>1, <4>2 DEF Alone
    <3> QED BY <2>0, <2>5, <2>7, <3>2, <3>3, StartCases
  <2>8. ASSUME NEW i \in Irps, StartEnter(i) \/ StartRefuse(i) \/ StartEnd(i)
        PROVE  Alone'
    <3>0. lock \in {Free, Starter(i)} /\ (lock = Starter(i) => pc[lock] \in {"refuse", "end"})
      BY <2>8 DEF StartEnter, StartRefuse, StartEnd, Acquire, At
    <3>1. ~Counting /\ ~StartCheck(i) /\ ~StartMore(i)
      BY <3>0 DEF At, StartCheck, StartMore
    <3>2. \A j \in Irps : ~StartCheck(j) /\ ~StartMore(j)
      BY <3>0 DEF At, StartCheck, StartMore
    <3>3. \A j \in Irps : information'[j] \in {information[j], 0}
      BY <2>8, Facts DEF StartEnter, StartRefuse, StartEnd, TypeInv, Typed, TypedIrps
    <3>4. Put(Shift(Here)) \/ UNCHANGED <<pCurrent, queue>>
      BY <2>8 DEF StartEnter, StartRefuse, StartEnd, Put, Here, Place
    <3> QED BY <2>3, <2>4, <3>1, <3>2, <3>3, <3>4
  <2>9. ASSUME NEW i \in Irps, CancelRoutine(i) PROVE Alone'
    <3> DEFINE p == IF "IN_QUEUE" \in flags[i] THEN Unlink(Here, i) ELSE Here
    <3>0. lock = Free /\ information' = information
      BY <2>9 DEF CancelRoutine, Acquire
    <3>1. ~Counting /\ \A j \in Irps : ~StartCheck(j) /\ ~StartMore(j)
      BY <3>0 DEF At, StartCheck, StartMore
    <3>2. /\ Sound(p) /\ p.current = pCurrent
          /\ \A j : Listed(p, j) => Listed(Here, j)
          /\ "IN_QUEUE" \in flags[i] => Listed(Here, i)
      BY HereFacts, UnlinkSound DEF Sound
    <3>3. Put(p) \/ Put(Shift(p))
      BY <2>9 DEF CancelRoutine
    <3>4. CASE Put(Shift(p))
      <4>1. /\ Sound(Shift(p))
            /\ \A j \in Irps : In(Shift(p), j) <=> Listed(p, j)
        BY <3>2, ShiftSound
      <4>2. pCurrent' = Shift(p).current
        BY <3>4, <4>1, PutHere DEF Sound
      <4>3. pCurrent' \in Irps => Listed(Here, pCurrent')
        BY <3>2, <4>1, <4>2 DEF In
      <4> QED BY <2>2, <3>1, <4>3, HereFacts DEF Sound
    <3>5. CASE Put(p) /\ "IN_QUEUE" \in flags[i]
      <4>1. queue # <<>> /\ pCurrent' = pCurrent
        BY <3>2, <3>5, HereFacts, PutHere DEF Sound
      <4>2. pCurrent # NoIrp => ~IsStartedXoff(pCurrent)
        BY <1>0, <3>1, <4>1
      <4>3. pCurrent # NoIrp => ~IsStartedXoff(pCurrent)'
        BY <1>1, <3>0, <4>1, <4>2 DEF IsStartedXoff
      <4> QED BY <2>1, <4>1, <4>3 DEF Alone
    <3>6. CASE Put(p) /\ "IN_QUEUE" \notin flags[i]
      <4>1. pCurrent' = pCurrent /\ queue' = queue
        BY <3>6 DEF Put, Here, Place
      <4> QED BY <2>4, <3>0, <3>1, <4>1
    <3> QED BY <3>3, <3>4, <3>5, <3>6
  <2>10. ASSUME NEW t \in Threads, Engine(t) PROVE Alone'
    <3>0. /\ lock = t
          /\ pc[t] \in {"next", "restore", "recheck", "drop", "xoff", "sweep", "end"}
      BY <2>10 DEF Engine, EngineEmpty, EngineSkip, EngineWork, EngineRestore,
                   EngineRecheck, EngineDrop, XoffSent, XoffSweep, EngineAgain,
                   EngineLeave, At
    <3>1. \A j \in Irps : ~StartCheck(j) /\ ~StartMore(j)
      BY <3>0 DEF At, StartCheck, StartMore
    <3>2. Counting <=> Marks(t)
      BY <3>0 DEF At
    <3>3. CASE EngineEmpty(t) \/ EngineDrop(t) \/ EngineAgain(t) \/ EngineLeave(t)
      <4>1. /\ UNCHANGED <<pCurrent, queue, information>>
            /\ pc[t] \in {"next", "drop", "end"}
        BY <3>3 DEF EngineEmpty, EngineDrop, EngineAgain, EngineLeave, At
      <4> QED BY <2>4, <3>2, <4>1 DEF At
    <3>4. CASE EngineSkip(t) \/ XoffSent(t)
      BY <2>3, <3>1, <3>4 DEF EngineSkip, XoffSent
    <3>5. CASE EngineRestore(t)
      <4>1. /\ UNCHANGED <<pCurrent, queue, information, local>>
            /\ pc[t] = "restore" /\ lock' = t /\ pc'[t] = "recheck"
        BY <1>0, <3>0, <3>5 DEF EngineRestore, At, Goto
      <4>2. Counting => Counting'
        BY <3>2, <4>1 DEF At
      <4> QED BY <2>4, <4>1, <4>2
    <3>6. CASE EngineRecheck(t)
      <4>1. CASE Put(Shift(Here))
        BY <2>3, <3>1, <4>1
      <4>2. CASE ~Put(Shift(Here))
        <5>1. /\ UNCHANGED <<pCurrent, queue, information, local>>
              /\ pc[t] = "recheck" /\ lock' = t
              /\ local.sent => pc'[t] = "xoff"
          BY <1>0, <3>0, <3>6, <4>2 DEF EngineRecheck, At, Goto
        <5>2. Counting => Counting'
          BY <3>2, <5>1 DEF At
        <5> QED BY <2>4, <5>1, <5>2
      <4> QED BY <4>1, <4>2
    <3>7. CASE XoffSweep(t)
      <4>1. \/ Put(Shift(Here))
            \/ UNCHANGED <<pCurrent, queue>>
            \/ pCurrent = NoIrp /\ queue' = queue
        BY <3>7 DEF XoffSweep, Put, MakeCurrent, Here, Place
      <4>2. information' = information /\ ~Counting
        BY <3>2, <3>7 DEF XoffSweep, At
      <4> QED BY <1>0, <2>3, <2>4, <2>5, <3>1, <4>1, <4>2 DEF NotStuck
    <3>8. CASE EngineWork(t)
      <4>1. CASE Put(Shift(Here))
        BY <2>3, <3>1, <4>1
      <4>2. CASE ~Put(Shift(Here))
        <5>1. PICK k \in 0 .. Rest(pCurrent) :
                /\ pCurrent \in cancelRoutine /\ pc[t] = "next"
                /\ information' = [information EXCEPT ![pCurrent] = @ + k]
                /\ pCurrent' = pCurrent /\ queue' = queue /\ lock' = t
                /\ pc' = [pc EXCEPT ![t] = "restore"]
                /\ local' = [local EXCEPT !.irp = pCurrent,
                               !.sent = k > 0 /\ k = Rest(pCurrent)]
          BY <3>0, <3>8, <4>2 DEF EngineWork, At, Goto
        <5>2. CASE kind[pCurrent] = "xoff" /\ information[pCurrent] = 0 /\ k # 0
          <6>1. k > 0 /\ k = Rest(pCurrent)
            BY <5>1, <5>2 DEF Rest, Length, GetWriteLength
          <6>2. local'.sent
            BY <5>1, <6>1 DEF TypeInv, Typed, TypedRest
          <6>3. Counting'
            BY <1>0, <5>1, <6>2 DEF At
          <6> QED BY <2>1, <6>3 DEF Alone
        <5>3. CASE kind[pCurrent] # "xoff" \/ information[pCurrent] # 0 \/ k = 0
          <6>1. pCurrent \in Irps /\ ~Counting
            BY <3>2, <5>1, Facts DEF At
          <6>2. IsStartedXoff(pCurrent)' => IsStartedXoff(pCurrent)
            BY <1>0, <1>1, <5>1, <5>3, <6>1, Facts
               DEF IsStartedXoff, TypeInv, Typed, TypedIrps
          <6> QED BY <1>0, <2>1, <5>1, <6>1, <6>2 DEF Alone
        <5> QED BY <5>2, <5>3
      <4> QED BY <4>1, <4>2
    <3> QED BY <2>10, <3>3, <3>4, <3>5, <3>6, <3>7, <3>8 DEF Engine
  <2>11. ASSUME IoEnter \/ PurgeEnter \/ TimeoutRoutine PROVE Alone'
    <3>1. lock = Free /\ UNCHANGED <<pCurrent, queue, information>>
      BY <2>11 DEF IoEnter, PurgeEnter, TimeoutRoutine, Acquire
    <3> QED BY <2>4, <3>1 DEF At
  <2>12. ASSUME IoXoffCounted \/ CancelQueue PROVE Alone'
    <3>0. lock \in {Free, Purger} /\ (lock = Purger => pc[lock] = "purge")
      BY <2>12 DEF IoXoffCounted, CancelQueue, At
    <3>1. ~Counting /\ \A j \in Irps : ~StartCheck(j) /\ ~StartMore(j)
      BY <3>0 DEF At, StartCheck, StartMore
    <3>2. Put(Shift(Here)) \/ UNCHANGED <<pCurrent, queue, information>>
      BY <2>12 DEF IoXoffCounted, CancelQueue
    <3> QED BY <2>3, <2>4, <3>1, <3>2
  <2> QED BY <2>6, <2>7, <2>8, <2>9, <2>10, <2>11, <2>12 DEF Next, Start
<1> QED BY <1>2, <1>3 DEF NoOvertaking

LEMMA PlacesInvInvariant ==
  ASSUME NoOvertaking PROVE Spec => [](TypeInv /\ OwnerInv /\ PlacesInv)
<1>1. Init => PlacesInv
  BY InitPlacesInv
<1>2. PlacesInv /\ TypeInv /\ OwnerInv /\ [Next]_vars => PlacesInv'
  <2> SUFFICES ASSUME PlacesInv, TypeInv, OwnerInv, [Next]_vars PROVE PlacesInv'
    OBVIOUS
  <2>1. CASE Next
    <3>1. Sound(Here)' /\ NotStuck' /\ Engaged' /\ Alone'
      BY <2>1, PlacesStep, EngagedStep, AloneStep
    <3>2. \A j \in Irps : Charged(j)' /\ Dispatched(j)'
      BY <2>1, ChargedStep, DispatchedStep
    <3> QED BY <3>1, <3>2 DEF PlacesInv
  <2>2. CASE UNCHANGED vars
    <3>1. Here' = Here
      BY <2>2 DEF vars, Here
    <3> QED BY <2>2, <3>1
            DEF vars, PlacesInv, NotStuck, Engaged, Alone, IsStartedXoff, Charged,
                Dispatched, Live, Running, Holding, At
  <2> QED BY <2>1, <2>2
<1> QED BY <1>1, <1>2, OwnerInvInvariant, PTL DEF Spec

LEMMA PlacesInvFlags == TypeInv /\ OwnerInv /\ PlacesInv => FlagsMatch
<1> SUFFICES ASSUME TypeInv, OwnerInv, PlacesInv PROVE FlagsMatch
  OBVIOUS
<1>1. \A i : Listed(Here, i) <=> InQueue(i)
  BY HereFacts DEF Listed, InQueue
<1> QED BY <1>1, HereFacts DEF Sound, FlagsMatch

LEMMA PlacesInvReleased == TypeInv /\ OwnerInv /\ PlacesInv => Released
<1> SUFFICES ASSUME TypeInv, OwnerInv, PlacesInv, NEW i \in Irps, completions[i] = 1
             PROVE  pCurrent # i /\ ~InQueue(i)
  BY DEF Released
<1>1. ~Live(i) /\ ~Holding(i)
  BY Facts DEF OneOwner, Live
<1>2. ~In(Here, i)
  BY <1>1 DEF PlacesInv, Charged
<1> QED BY <1>2, HereFacts DEF In, Listed, InQueue

\* CancelRoutine decides by IN_QUEUE and IS_CURRENT where to take a request
\* from: they always tell where it really is.
THEOREM FlagsNeverLie == ASSUME NoOvertaking PROVE Spec => []FlagsMatch
BY PlacesInvInvariant, PlacesInvFlags, PTL

\* The queue never refers to a request that was given back: neither pCurrent
\* nor an entry of the list points to an IRP the I/O manager owns again.
THEOREM NoDanglingIrp == ASSUME NoOvertaking PROVE Spec => []Released
BY PlacesInvInvariant, PlacesInvReleased, PTL

-----------------------------------------------------------------------------
(***************************************************************************)
(* No request falls between the queue and the threads: one whose cancel    *)
(* routine is set is in the queue, or the thread that holds the lock knows *)
(* it and has still to give it back.                                       *)
(***************************************************************************)
Reachable(i) ==
  i \in cancelRoutine =>
    \/ In(Here, i)
    \/ lock = Starter(i) /\ (pc[lock] = "check" \/ ret[i] # "PENDING")
    \/ \E t \in Threads : /\ At(t, "drop") \/ At(t, "sweep") \/ At(t, "more")
                          /\ local.irp = i

ReachableInv == \A i \in Irps : Reachable(i)

LEMMA ShiftKeeps ==
  ASSUME TypeInv, OwnerInv, PlacesInv, Put(Shift(Here)), NEW j \in Irps
  PROVE  /\ In(Here, j) /\ j # pCurrent => In(Here, j)'
         /\ Listed(Here, j)' => Behind(Here, j)
         /\ Behind(Here, j)' => Behind(Here, j)
<1>1. /\ Sound(Shift(Here))
      /\ In(Shift(Here), j) <=> Listed(Here, j)
      /\ Listed(Shift(Here), j) => Behind(Here, j)
      /\ Behind(Shift(Here), j) => Behind(Here, j)
  BY HereFacts, ShiftSound
<1>2. Here' = Shift(Here)
  BY <1>1, PutHere DEF Sound
<1> QED BY <1>1, <1>2, HereFacts DEF In

\* StartIrp leaves the request current, or ends it with a status of its own.
LEMMA StartIrpKeeps ==
  ASSUME NEW i \in Irps, NEW t, NEW k, NEW p, NEW a, Sound(p),
         (p.current = NoIrp /\ ~Listed(p, i)) \/ p.current = i,
         ret \in [Irps -> Status], StartIrp(t, i, k, p, a)
  PROVE  /\ In(Here, i)' \/ ret'[i] # "PENDING"
         /\ \A j \in Irps : Listed(p, j) => In(Here, j)'
         /\ lock' = lock
<1> DEFINE q == MakeCurrent(p, i)
<1>1. Sound(q) /\ q.current = i /\ q.list = p.list
  BY MakeCurrentSound
<1>2. \A j : Listed(q, j) <=> Listed(p, j)
  BY <1>1 DEF Listed
<1>3. CASE Put(q)
  <2>1. Here' = q
    BY <1>1, <1>3, PutHere DEF Sound
  <2> QED BY <1>1, <1>2, <2>1 DEF StartIrp, In
<1>4. CASE Put(Shift(q)) /\ ~Put(q)
  <2>1. /\ Sound(Shift(q))
        /\ \A j \in Irps : In(Shift(q), j) <=> Listed(q, j)
    BY <1>1, ShiftSound
  <2>2. Here' = Shift(q)
    BY <1>4, <2>1, PutHere DEF Sound
  <2>3. ret' = [ret EXCEPT ![i] = "SUCCESS"]
    BY <1>4 DEF StartIrp
  <2> QED BY <1>2, <2>1, <2>2, <2>3 DEF StartIrp
<1> QED BY <1>3, <1>4 DEF StartIrp

LEMMA ReachableStep ==
  ASSUME TypeInv, OwnerInv, CancelInv, PlacesInv, ReachableInv, Next,
         NEW j \in Irps, j \in cancelRoutine'
  PROVE  Reachable(j)'
<1> USE ThreadFacts, ThreadsDiffer DEF irpVars, queueVars
<1>0. /\ pc \in [Threads -> Labels] /\ lock \in Threads \cup {Free}
      /\ cancelRoutine \subseteq Irps /\ ret \in [Irps -> Status]
      /\ Engaged /\ \A i \in Irps : Charged(i) /\ Dispatched(i) /\ Refused(i)
      /\ NoIrp \notin Irps /\ pCurrent \in Irps \cup {NoIrp}
      /\ Reachable(j)
  BY Facts, HereFacts DEF PlacesInv, ReachableInv, CancelInv
\* The lock is not held by a thread that knows a request outside the queue.
<1>1. ASSUME NEW t \in Threads \cup {Free}, lock = t, j \in cancelRoutine,
             t \in Threads => pc[t] \notin {"check", "drop", "sweep", "more"},
             t # Starter(j) \/ ret[j] = "PENDING"
      PROVE  In(Here, j)
  BY <1>0, <1>1 DEF Reachable, At
<1>2. ASSUME UNCHANGED <<pCurrent, queue, flags>>
      PROVE  In(Here, j)' <=> In(Here, j)
  <2>1. Here' = Here
    BY <1>2 DEF Here
  <2> QED BY <2>1 DEF In, Listed
<1>3. ASSUME \/ \E i \in Irps : IoCancelMark(i) \/ IoCancelTake(i) \/ Return(i)
             \/ \E t \in Threads : CompleteOne(t)
             \/ TimerFire
      PROVE  Reachable(j)'
  <2>1. {"check", "drop", "sweep", "more"} \subseteq Labels \ {"idle", "call", "complete"}
    BY DEF Labels
  <2>2. j \in cancelRoutine
    BY <1>3 DEF IoCancelMark, IoCancelTake, Return, CompleteOne, TimerFire
  <2>3. \A t \in Threads : lock = t => (pc'[t] = "check" <=> pc[t] = "check")
    BY <1>3, <2>1, QuietFacts DEF At
  <2> QED BY <1>0, <1>3, <2>1, <2>2, <2>3, QuietFacts DEF Reachable
<1>4. ASSUME NEW i \in Irps, StartEnter(i) PROVE Reachable(j)'
  <2>1. /\ lock = Free /\ lock' = Starter(i) /\ pc'[Starter(i)] = "check"
        /\ cancelRoutine' = cancelRoutine \cup {i}
        /\ pCurrent' = pCurrent /\ queue' = queue
    BY <1>0, <1>4 DEF StartEnter, Acquire, Goto
  <2>2. j # i => In(Here, j)
    BY <1>1, <2>1
  <2>3. In(Here, j)' <=> In(Here, j)
    BY <2>1 DEF In, Listed, Here, Place
  <2> QED BY <2>1, <2>2, <2>3 DEF Reachable
<1>5. ASSUME NEW i \in Irps, StartCheck(i) PROVE Reachable(j)'
  <2>0. /\ lock = Starter(i) /\ pc[Starter(i)] = "check" /\ ~In(Here, i)
        /\ cancelRoutine' = cancelRoutine
    BY <1>0, <1>5 DEF StartCheck, At, Dispatched
  <2>1. j # i => In(Here, j)
    BY <1>0, <2>0 DEF Reachable, At
  <2>2. ASSUME NEW st \in {"CANCELLED", "INVALID", "SUCCESS"}, Refuse(i, st)
        PROVE  Reachable(j)'
    <3>1. lock' = Starter(i) /\ ret'[i] # "PENDING" /\ UNCHANGED <<pCurrent, queue, flags>>
      BY <1>0, <2>0, <2>2 DEF Refuse
    <3> QED BY <1>2, <2>1, <3>1 DEF Reachable
  <2>3. ASSUME NEW k, StartIrp(Starter(i), i, k, Here, amountInWriteQueue),
               pCurrent = NoIrp
        PROVE  Reachable(j)'
    <3>1. Here.current = NoIrp /\ ~Listed(Here, i) /\ Sound(Here)
      BY <2>0, <2>3, HereFacts DEF In
    <3>2. j # i => Listed(Here, j)
      BY <1>0, <2>1, <3>1 DEF In
    <3>3. /\ In(Here, i)' \/ ret'[i] # "PENDING"
          /\ \A x \in Irps : Listed(Here, x) => In(Here, x)'
          /\ lock' = lock
      BY <1>0, <2>3, <3>1, StartIrpKeeps
    <3> QED BY <2>0, <3>2, <3>3 DEF Reachable
  <2>4. ASSUME NEW k, pCurrent # NoIrp,
               StartIrp(Starter(i), i, k, PushCurrent(Here), amountInWriteQueue)
        PROVE  Reachable(j)'
    <3> DEFINE p == PushCurrent(Here)
    <3>1. /\ Sound(p) /\ p.current = NoIrp
          /\ \A x : Listed(p, x) <=> Listed(Here, x) \/ pCurrent = x
      BY <2>4, HereFacts, PushCurrentSound
    <3>2. ~Listed(p, i)
      BY <2>0, <3>1, HereFacts DEF In
    <3> HIDE DEF p
    <3>3. /\ In(Here, i)' \/ ret'[i] # "PENDING"
          /\ \A x \in Irps : Listed(p, x) => In(Here, x)'
          /\ lock' = lock
      BY <1>0, <2>4, <3>1, <3>2, StartIrpKeeps DEF p
    <3>4. j # i => Listed(p, j)
      BY <2>1, <3>1, HereFacts DEF In
    <3> QED BY <2>0, <3>3, <3>4 DEF Reachable
  <2>5. CASE StartLater(i)
    <3> DEFINE p == InsertTail(Here, i)
    <3>1. /\ Sound(p) /\ p.current = pCurrent /\ Put(p)
          /\ \A x : Listed(p, x) <=> Listed(Here, x) \/ x = i
      BY <2>0, <2>5, HereFacts, InsertTailSound DEF StartLater
    <3>2. Here' = p
      BY <3>1, PutHere DEF Sound
    <3>3. In(Here, j)'
      BY <2>1, <3>1, <3>2, HereFacts DEF In
    <3> QED BY <3>3 DEF Reachable
  <2>6. ASSUME pCurrent # NoIrp, Put(Shift(InsertTail(Here, i))),
               local' = [local EXCEPT !.irp = pCurrent],
               Goto(Starter(i), "more"), lock' = lock
        PROVE  Reachable(j)'
    <3> DEFINE p == InsertTail(Here, i)
    <3>1. /\ Sound(p) /\ \A x : Listed(p, x) <=> Listed(Here, x) \/ x = i
      BY <2>0, HereFacts, InsertTailSound
    <3> HIDE DEF p
    <3>2. Sound(Shift(p)) /\ \A x \in Irps : In(Shift(p), x) <=> Listed(p, x)
      BY <3>1, ShiftSound
    <3>3. Here' = Shift(p)
      BY <2>6, <3>2, PutHere DEF Sound, p
    <3>4. local'.irp = pCurrent /\ pc'[Starter(i)] = "more" /\ lock' = Starter(i)
      BY <1>0, <2>0, <2>6 DEF Goto, TypeInv, Typed, TypedRest
    <3>5. In(Here, j)' \/ j = pCurrent
      BY <2>1, <3>1, <3>2, <3>3, HereFacts DEF In
    <3> QED BY <3>4, <3>5 DEF Reachable, At
  <2> QED BY <1>5, <2>0, <2>2, <2>3, <2>4, <2>5, <2>6, CheckCases DEF StartOverXoff
<1>6. ASSUME NEW i \in Irps, StartMore(i) PROVE Reachable(j)'
  <2>1. PICK k : StartIrp(Starter(i), i, k, Here, amountInWriteQueue)
    BY <1>6 DEF StartMore
  <2>2. /\ lock = Starter(i) /\ pc[Starter(i)] = "more" /\ j # local.irp
        /\ j \in cancelRoutine /\ Here.current = i /\ queue = <<>>
    <3>1. cancelRoutine' = cancelRoutine \ {local.irp}
      BY <1>6, CompleteIrpMoves DEF StartMore
    <3> QED BY <1>0, <1>6, <3>1, HereFacts DEF StartMore, At, Dispatched
  <2>3. j = i
    BY <1>0, <2>2, HereFacts DEF Reachable, At, In
  <2>4. In(Here, i)' \/ ret'[i] # "PENDING"
    BY <1>0, <2>1, <2>2, HereFacts, StartIrpKeeps
  <2>5. lock' = lock
    BY <2>1 DEF StartIrp
  <2> QED BY <2>2, <2>3, <2>4, <2>5 DEF Reachable
<1>7. ASSUME NEW i \in Irps, StartRefuse(i) PROVE Reachable(j)'
  <2>1. /\ lock = Starter(i) /\ pc[Starter(i)] = "refuse"
        /\ cancelRoutine' = cancelRoutine \ {i}
        /\ UNCHANGED <<pCurrent, queue, flags>>
    BY <1>0, <1>7 DEF StartRefuse, At, NoPending
  <2>2. In(Here, j)
    BY <1>1, <2>1
  <2> QED BY <1>2, <2>1, <2>2 DEF Reachable
<1>8. ASSUME NEW i \in Irps, StartEnd(i) PROVE Reachable(j)'
  <2>0. lock = Starter(i) /\ pc[Starter(i)] = "end"
    BY <1>8 DEF StartEnd, At
  <2>1. CASE ret[i] = "PENDING"
    <3>1. /\ j \in cancelRoutine /\ UNCHANGED <<pCurrent, queue, flags>>
      BY <1>8, <2>1 DEF StartEnd
    <3>2. In(Here, j)
      BY <1>1, <2>0, <2>1, <3>1
    <3> QED BY <1>2, <3>1, <3>2 DEF Reachable
  <2>2. CASE ret[i] # "PENDING"
    <3>1. cancelRoutine' = cancelRoutine \ {i}
      BY <1>8, <2>2 DEF StartEnd, NoPending
    <3>2. In(Here, j)
      BY <1>1, <2>0, <3>1
    <3>3. (Put(Shift(Here)) /\ pCurrent = i) \/ Put(Here)
      BY <1>8, <2>2 DEF StartEnd
    <3>4. CASE Put(Shift(Here)) /\ pCurrent = i
      BY <3>1, <3>2, <3>4, ShiftKeeps DEF Reachable
    <3>5. CASE Put(Here)
      <4>1. UNCHANGED <<pCurrent, queue, flags>>
        BY <3>5 DEF Put, Here, Place
      <4> QED BY <1>2, <3>2, <4>1 DEF Reachable
    <3> QED BY <3>3, <3>4, <3>5
  <2> QED BY <2>1, <2>2
<1>9. ASSUME NEW i \in Irps, CancelRoutine(i) PROVE Reachable(j)'
  <2> DEFINE p == IF "IN_QUEUE" \in flags[i] THEN Unlink(Here, i) ELSE Here
  <2>1. lock = Free /\ cancelRoutine' = cancelRoutine /\ Running(i)
    BY <1>9 DEF CancelRoutine, Acquire, Leave, Running
  <2>2. j # i /\ In(Here, j)
    BY <1>1, <2>1, Facts DEF OneOwner
  <2>3. Sound(p) /\ p.current = pCurrent /\ In(p, j)
    BY <2>2, HereFacts, UnlinkSound DEF Sound, In
  <2>4. \/ Put(Shift(p)) /\ pCurrent = i
        \/ Put(p)
    BY <1>9, HereFacts DEF CancelRoutine, Sound
  <2> HIDE DEF p
  <2>5. Sound(Shift(p)) /\ (In(Shift(p), j) <=> Listed(p, j))
    BY <2>3, ShiftSound
  <2>6. In(Here, j)'
    BY <2>2, <2>3, <2>4, <2>5, PutHere DEF Sound, In
  <2> QED BY <2>6 DEF Reachable
<1>10. ASSUME NEW t \in Threads, Engine(t) PROVE Reachable(j)'
  <2>1. CASE EngineEmpty(t) \/ EngineAgain(t) \/ EngineLeave(t)
    <3>1. /\ lock = t /\ pc[t] \in {"next", "end"} /\ cancelRoutine' = cancelRoutine
          /\ UNCHANGED <<pCurrent, queue, flags, ret>>
          /\ lock' = t \/ (lock' = Free /\ t[1] # "start")
      BY <2>1 DEF EngineEmpty, EngineAgain, EngineLeave, At, Leave
    <3> QED BY <1>0, <1>2, <3>1 DEF Reachable, At
  <2>2. CASE EngineSkip(t)
    <3>1. /\ lock = t /\ pc[t] = "next" /\ cancelRoutine' = cancelRoutine
          /\ j # pCurrent /\ Put(Shift(Here)) /\ lock' = t /\ ret' = ret
      BY <2>2 DEF EngineSkip, At
    <3>2. In(Here, j) => In(Here, j)'
      BY <3>1, ShiftKeeps
    <3> QED BY <1>0, <3>1, <3>2 DEF Reachable, At
  <2>3. CASE EngineWork(t)
    <3>1. /\ lock = t /\ pc[t] = "next" /\ cancelRoutine' = cancelRoutine \ {pCurrent}
          /\ lock' = t /\ ret' = ret
          /\ Put(Shift(Here)) \/ UNCHANGED <<pCurrent, queue, flags>>
      BY <2>3 DEF EngineWork, At
    <3>2. In(Here, j) => In(Here, j)'
      BY <1>2, <3>1, ShiftKeeps
    <3> QED BY <1>0, <3>1, <3>2 DEF Reachable, At
  <2>4. CASE EngineRestore(t)
    <3>1. /\ lock = t /\ pc[t] = "restore" /\ local.irp = pCurrent
          /\ cancelRoutine' = cancelRoutine \cup {local.irp}
          /\ lock' = t /\ ret' = ret /\ UNCHANGED <<pCurrent, queue, flags>>
      BY <1>0, <2>4 DEF EngineRestore, At, Engaged
    <3>2. j = local.irp => In(Here, j)
      BY <3>1, HereFacts DEF In
    <3> QED BY <1>0, <1>2, <3>1, <3>2 DEF Reachable, At
  <2>5. CASE EngineRecheck(t)
    <3>1. /\ lock = t /\ pc[t] = "recheck" /\ local.irp = pCurrent /\ local' = local
          /\ cancelRoutine' = cancelRoutine /\ lock' = t /\ ret' = ret
          /\ \/ Put(Shift(Here)) /\ pc'[t] = "drop"
             \/ UNCHANGED <<pCurrent, queue, flags>>
      BY <1>0, <2>5 DEF EngineRecheck, At, Engaged, Goto
    <3>2. In(Here, j) => In(Here, j)' \/ (j = local.irp /\ pc'[t] = "drop")
      BY <1>2, <3>1, ShiftKeeps
    <3> QED BY <1>0, <3>1, <3>2 DEF Reachable, At
  <2>6. CASE EngineDrop(t)
    <3>1. /\ lock = t /\ pc[t] = "drop" /\ lock' = t /\ ret' = ret
          /\ UNCHANGED <<pCurrent, queue, flags>>
          /\ cancelRoutine' = cancelRoutine \ {local.irp}
      BY <2>6, CompleteIrpMoves DEF EngineDrop, At
    <3> QED BY <1>0, <1>2, <3>1 DEF Reachable, At
  <2>7. CASE XoffSent(t)
    <3>1. /\ lock = t /\ pc[t] = "xoff" /\ local'.irp = pCurrent /\ Put(Shift(Here))
          /\ cancelRoutine' = cancelRoutine /\ lock' = t /\ ret' = ret
          /\ pc'[t] = "sweep"
      BY <1>0, <2>7 DEF XoffSent, At, Goto, TypeInv, Typed, TypedRest
    <3>2. In(Here, j) => In(Here, j)' \/ j = local'.irp
      BY <3>1, ShiftKeeps
    <3> QED BY <1>0, <3>1, <3>2 DEF Reachable, At
  <2>8. CASE XoffSweep(t)
    <3>1. /\ lock = t /\ pc[t] = "sweep" /\ lock' = t /\ ret' = ret
          /\ local.irp \in Irps /\ ~In(Here, local.irp)
      BY <1>0, <2>8 DEF XoffSweep, At, Engaged
    <3>2. j \in cancelRoutine
      BY <2>8 DEF XoffSweep, CompleteIrp
    <3>3. CASE pCurrent = NoIrp /\ Put(MakeCurrent(Here, local.irp))
      <4> DEFINE q == MakeCurrent(Here, local.irp)
      <4>1. Sound(q) /\ q.current = local.irp /\ q.list = queue
        BY <3>1, <3>3, HereFacts, MakeCurrentSound DEF In
      <4>2. Here' = q
        BY <4>1, PutHere, <3>3 DEF Sound
      <4>3. In(Here, j) => Listed(Here, j)
        BY <1>0, <3>3, HereFacts DEF In
      <4>4. Listed(Here, j) => Listed(q, j)
        BY <4>1, HereFacts DEF Listed
      <4>5. In(Here, j) \/ j = local.irp => In(Here, j)'
        BY <4>1, <4>2, <4>3, <4>4 DEF In
      <4> QED BY <1>0, <3>1, <3>2, <4>5 DEF Reachable, At
    <3>4. CASE /\ pCurrent # NoIrp /\ Put(Shift(Here))
               /\ CompleteIrp(t, pCurrent, "SUCCESS") /\ UNCHANGED <<pc, local>>
      <4>1. j # pCurrent
        BY <3>4, CompleteIrpMoves
      <4>2. In(Here, j) => In(Here, j)'
        BY <3>4, <4>1, ShiftKeeps
      <4> QED BY <1>0, <3>1, <3>2, <3>4, <4>2 DEF Reachable, At
    <3>5. CASE /\ CompleteIrp(t, local.irp, "MORE_WRITES")
               /\ UNCHANGED <<pCurrent, queue, flags>>
      <4>1. j # local.irp
        BY <3>5, CompleteIrpMoves
      <4> QED BY <1>0, <1>2, <3>1, <3>2, <3>5, <4>1 DEF Reachable, At
    <3> QED BY <2>8, <3>3, <3>4, <3>5 DEF XoffSweep
  <2> QED BY <1>10, <2>1, <2>2, <2>3, <2>4, <2>5, <2>6, <2>7, <2>8 DEF Engine
<1>11. ASSUME IoEnter \/ PurgeEnter \/ TimeoutRoutine PROVE Reachable(j)'
  <2>1. lock = Free /\ cancelRoutine' = cancelRoutine /\ UNCHANGED <<pCurrent, queue>>
    BY <1>11 DEF IoEnter, PurgeEnter, TimeoutRoutine, Acquire
  <2>2. In(Here, j)
    BY <1>1, <2>1
  <2>3. In(Here, j)'
    BY <2>1, <2>2 DEF In, Listed, Here, Place
  <2> QED BY <2>3 DEF Reachable
<1>12. ASSUME IoXoffCounted \/ CancelQueue PROVE Reachable(j)'
  <2>1. /\ lock \in {Free, Purger} /\ (lock = Purger => pc[lock] = "purge")
        /\ j \in cancelRoutine
    BY <1>12 DEF IoXoffCounted, CancelQueue, At, CompleteIrp
  <2>2. In(Here, j)
    BY <1>1, <2>1
  <2>3. \/ UNCHANGED <<pCurrent, queue, flags>>
        \/ Put(Shift(Here)) /\ j # pCurrent
    BY <1>12, CompleteIrpMoves DEF IoXoffCounted, CancelQueue
  <2>4. In(Here, j)'
    BY <1>2, <2>2, <2>3, ShiftKeeps
  <2> QED BY <2>4 DEF Reachable
<1> QED BY <1>3, <1>4, <1>5, <1>6, <1>7, <1>8, <1>9, <1>10, <1>11, <1>12 DEF Next, Start

LEMMA ReachableInvInvariant ==
  ASSUME NoOvertaking
  PROVE  Spec => [](TypeInv /\ OwnerInv /\ CancelInv /\ PlacesInv /\ ReachableInv)
<1>1. Init => ReachableInv
  BY DEF Init, ReachableInv, Reachable
<1>2. ReachableInv /\ TypeInv /\ OwnerInv /\ CancelInv /\ PlacesInv /\ [Next]_vars
        => ReachableInv'
  <2> SUFFICES ASSUME ReachableInv, TypeInv, OwnerInv, CancelInv, PlacesInv, [Next]_vars,
                      NEW j \in Irps
               PROVE  Reachable(j)'
    BY DEF ReachableInv
  <2>1. CASE Next
    BY <2>1, ReachableStep DEF Reachable
  <2>2. CASE UNCHANGED vars
    <3>1. Here' = Here /\ Reachable(j)
      BY <2>2 DEF vars, Here, ReachableInv
    <3> QED BY <2>2, <3>1 DEF vars, Reachable, In, Listed, At
  <2> QED BY <2>1, <2>2
<1> QED BY <1>1, <1>2, PlacesInvInvariant, CancelInvInvariant, PTL DEF Spec

LEMMA ReachableInvOwned ==
  TypeInv /\ OwnerInv /\ CancelInv /\ PlacesInv /\ ReachableInv => PendingIsOwned
<1> SUFFICES ASSUME TypeInv, OwnerInv, CancelInv, PlacesInv, ReachableInv,
                    lock = Free, NEW i \in Irps, Owed(i)
             PROVE  /\ Owners(i) # {}
                    /\ Owners(i) \subseteq {<<"current", i>>, <<"queue", i>>}
                         => i \in cancelRoutine
  BY DEF PendingIsOwned
<1>1. ~Holding(i) /\ ~Returning(i)
  BY ThreadFacts DEF Holding, At, Owed, Returning
<1>2. i \in cancelRoutine \/ Running(i) \/ Completing(i)
  BY <1>1 DEF CancelInv, SomeOwner, Owed, Status
<1>3. CASE i \in cancelRoutine
  <2>1. In(Here, i)
    BY <1>3, ThreadFacts DEF ReachableInv, Reachable, At
  <2>2. pCurrent = i \/ InQueue(i)
    BY <2>1, HereFacts DEF In, Listed, InQueue
  <2> QED BY <1>3, <2>2 DEF Owners
<1>4. CASE Running(i)
  <2>1. Canceller(i) \in Owners(i)
    BY <1>4 DEF Owners, Running
  <2> QED BY <2>1 DEF Canceller
<1>5. CASE Completing(i)
  <2>1. PICK t \in Threads : t \in Owners(i)
    BY <1>5 DEF Owners, Completing
  <2> QED BY <2>1 DEF Threads, Dpc, Io, Purger
<1> QED BY <1>2, <1>3, <1>4, <1>5

\* Whenever the lock is free a pending request has somebody who will complete
\* it: no cancel, purge, timeout or preemption lets one fall between.
THEOREM PendingNeverLost == ASSUME NoOvertaking PROVE Spec => []PendingIsOwned
BY ReachableInvInvariant, ReachableInvOwned, PTL

-----------------------------------------------------------------------------
(***************************************************************************)
(* The order of the queue.  Who is ahead of whom is a matter of the place  *)
(* operators: none of them lets a request pass one that stays.             *)
(***************************************************************************)
Before(p, i, j) ==
  \/ p.current = i /\ Listed(p, j)
  \/ \E m, n \in DOMAIN p.list : m < n /\ p.list[m] = i /\ p.list[n] = j

LEMMA LineIsHere ==
  /\ \A i : InLine(i) <=> In(Here, i)
  /\ \A i, j : Ahead(i, j) <=> Before(Here, i, j)
BY DEF InLine, InQueue, In, Listed, Ahead, Before, Here, Place

\* The same of the next state.
LEMMA LineIsHereNext ==
  /\ \A i : InLine(i)' <=> In(Here, i)'
  /\ \A i, j : Ahead(i, j)' <=> Before(Here, i, j)'
BY DEF InLine, InQueue, In, Listed, Ahead, Before, Here, Place

LEMMA BeforeFacts ==
  ASSUME NEW p, Sound(p), NEW i, NEW j, Before(p, i, j)
  PROVE  Listed(p, j) /\ In(p, i)
BY DEF Before, Listed, In

\* The list of a place without its first entry, and with one more in front.
LEMMA ShiftOrder ==
  ASSUME NEW p, Sound(p), NEW i \in Irps, NEW j \in Irps, Before(p, i, j),
         i # p.current
  PROVE  Before(Shift(p), i, j)
<1> DEFINE l == p.list
           q == Shift(p)
<1>1. PICK m, n \in DOMAIN l : m < n /\ l[m] = i /\ l[n] = j
  BY DEF Before
<1>2. /\ l \in Seq(Irps) /\ Len(l) \in Nat /\ DOMAIN l = 1 .. Len(l) /\ l # <<>>
  BY <1>1, SoundFacts
<1>3. /\ q.current = l[1] /\ q.list = Tail(l)
      /\ Tail(l) \in Seq(Irps) /\ Len(Tail(l)) = Len(l) - 1
      /\ \A k \in 1 .. Len(l) - 1 : Tail(l)[k] = l[k + 1]
  BY <1>2, HeadTailProperties DEF Shift, Place
<1> HIDE DEF q, l
<1>4. /\ DOMAIN q.list = 1 .. Len(l) - 1
      /\ n - 1 \in 1 .. Len(l) - 1 /\ q.list[n - 1] = j
  <2>1. DOMAIN q.list = 1 .. Len(l) - 1
    BY <1>2, <1>3
  <2>2. n - 1 \in 1 .. Len(l) - 1 /\ (n - 1) + 1 = n
    BY <1>1, <1>2
  <2> QED BY <1>1, <1>3, <2>1, <2>2
<1>5. CASE m = 1
  BY <1>1, <1>3, <1>4, <1>5 DEF Before, Listed, q
<1>6. CASE m # 1
  <2>1. m - 1 \in 1 .. Len(l) - 1 /\ (m - 1) + 1 = m /\ m - 1 < n - 1
    BY <1>1, <1>2, <1>6
  <2>2. q.list[m - 1] = i
    BY <1>1, <1>3, <2>1
  <2> QED BY <1>4, <2>1, <2>2 DEF Before, q
<1> QED BY <1>5, <1>6

LEMMA InsertTailOrder ==
  ASSUME NEW p, Sound(p), NEW x \in Irps
  PROVE  /\ \A i, j \in Irps : Before(p, i, j) => Before(InsertTail(p, x), i, j)
         /\ \A i \in Irps : In(p, i) => Before(InsertTail(p, x), i, x)
<1> DEFINE q == InsertTail(p, x)
           L == Len(p.list)
<1>1. /\ q.list = Append(p.list, x) /\ q.current = p.current
      /\ p.list \in Seq(Irps) /\ L \in Nat /\ DOMAIN p.list = 1 .. L
  BY SoundFacts DEF InsertTail, Place
<1>2. /\ DOMAIN q.list = 1 .. L + 1 /\ q.list[L + 1] = x
      /\ \A n \in 1 .. L : q.list[n] = p.list[n] /\ n \in 1 .. L + 1 /\ n < L + 1
      /\ L + 1 \in 1 .. L + 1
  BY <1>1, AppendProperties
<1> HIDE DEF q, L
<1>3. ASSUME NEW i \in Irps, NEW j \in Irps, Before(p, i, j) PROVE Before(q, i, j)
  <2>1. CASE p.current = i /\ Listed(p, j)
    <3>1. Listed(q, j)
      BY <1>1, <1>2, <2>1 DEF Listed
    <3> QED BY <1>1, <2>1, <3>1 DEF Before
  <2>2. CASE \E m, n \in DOMAIN p.list : m < n /\ p.list[m] = i /\ p.list[n] = j
    BY <1>1, <1>2, <2>2 DEF Before
  <2> QED BY <1>3, <2>1, <2>2 DEF Before
<1>4. ASSUME NEW i \in Irps, In(p, i) PROVE Before(q, i, x)
  <2>1. CASE p.current = i
    BY <1>1, <1>2, <2>1 DEF Before, Listed
  <2>2. CASE Listed(p, i)
    BY <1>1, <1>2, <2>2 DEF Before, Listed
  <2> QED BY <1>4, <2>1, <2>2 DEF In
<1> QED BY <1>3, <1>4 DEF q

LEMMA PushCurrentOrder ==
  ASSUME NEW p, Sound(p), p.current \in Irps, NEW i \in Irps, NEW j \in Irps,
         Before(p, i, j)
  PROVE  Before(PushCurrent(p), i, j)
<1> DEFINE q == PushCurrent(p)
           L == Len(p.list)
<1>1. /\ p.list \in Seq(Irps) /\ L \in Nat /\ DOMAIN p.list = 1 .. L
      /\ <<p.current>> \in Seq(Irps) /\ Len(<<p.current>>) = 1
  BY SoundFacts
<1>2. /\ DOMAIN q.list = 1 .. L + 1 /\ q.list[1] = p.current
      /\ \A n \in 1 .. L : q.list[n + 1] = p.list[n]
  BY <1>1 DEF PushCurrent, Place
<1>3. /\ \A n \in 1 .. L : n + 1 \in 1 .. L + 1 /\ 1 < n + 1
      /\ \A m, n \in 1 .. L : m < n => m + 1 < n + 1
      /\ 1 \in 1 .. L + 1
  BY <1>1
<1> HIDE DEF q, L
<1>4. CASE p.current = i /\ Listed(p, j)
  <2>1. PICK n \in 1 .. L : p.list[n] = j
    BY <1>1, <1>4 DEF Listed
  <2>2. q.list[n + 1] = j
    BY <1>2, <2>1
  <2> QED BY <1>2, <1>3, <1>4, <2>2 DEF Before, q
<1>5. CASE \E m, n \in DOMAIN p.list : m < n /\ p.list[m] = i /\ p.list[n] = j
  <2>1. PICK m, n \in 1 .. L : m < n /\ p.list[m] = i /\ p.list[n] = j
    BY <1>1, <1>5
  <2>2. q.list[m + 1] = i /\ q.list[n + 1] = j
    BY <1>2, <2>1
  <2>3. m + 1 < n + 1 /\ m + 1 \in 1 .. L + 1 /\ n + 1 \in 1 .. L + 1
    BY <1>3, <2>1
  <2> QED BY <1>2, <2>2, <2>3 DEF Before, q
<1> QED BY <1>4, <1>5 DEF Before

LEMMA UnlinkOrder ==
  ASSUME NEW p, Sound(p), NEW x \in Irps, Listed(p, x),
         NEW i \in Irps, NEW j \in Irps, i # x, j # x, Before(p, i, j)
  PROVE  Before(Unlink(p, x), i, j)
<1> DEFINE q == Unlink(p, x)
           L == Len(p.list)
<1>1. q.current = p.current /\ \A k : Listed(q, k) <=> Listed(p, k) /\ k # x
  BY UnlinkSound
<1>2. PICK at \in 1 .. L :
        /\ p.list[at] = x
        /\ q.list \in Seq(Irps) /\ Len(q.list) = L - 1
        /\ \A n \in 1 .. at - 1 : q.list[n] = p.list[n]
        /\ \A n \in at .. L - 1 : q.list[n] = p.list[n + 1]
  BY UnlinkList, SoundPlaced
<1>3. L \in Nat /\ DOMAIN p.list = 1 .. L /\ DOMAIN q.list = 1 .. L - 1
  BY <1>2, SoundFacts
<1> HIDE DEF q, L
<1>4. CASE p.current = i /\ Listed(p, j)
  BY <1>1, <1>4 DEF Before, q
<1>5. CASE \E m, n \in DOMAIN p.list : m < n /\ p.list[m] = i /\ p.list[n] = j
  <2> DEFINE to(n) == IF n < at THEN n ELSE n - 1
  <2>1. PICK m, n \in 1 .. L : m < n /\ p.list[m] = i /\ p.list[n] = j
    BY <1>3, <1>5
  <2>2. m # at /\ n # at
    BY <1>2, <2>1
  <2>3. ASSUME NEW k \in 1 .. L, k # at
        PROVE  to(k) \in 1 .. L - 1 /\ q.list[to(k)] = p.list[k]
    <3>1. CASE k < at
      <4>1. k \in 1 .. at - 1 /\ k \in 1 .. L - 1
        BY <1>3, <3>1
      <4> QED BY <1>2, <3>1, <4>1
    <3>2. CASE ~(k < at)
      <4>1. k - 1 \in at .. L - 1 /\ k - 1 \in 1 .. L - 1 /\ (k - 1) + 1 = k
        BY <1>3, <2>3, <3>2
      <4> QED BY <1>2, <3>2, <4>1
    <3> QED BY <3>1, <3>2
  <2>4. to(m) < to(n)
    BY <1>3, <2>1, <2>2
  <2> HIDE DEF to
  <2> QED BY <1>3, <2>1, <2>2, <2>3, <2>4 DEF Before, q
<1> QED BY <1>4, <1>5 DEF Before

LEMMA MakeCurrentOrder ==
  ASSUME NEW p, Sound(p), NEW x \in Irps, p.current = NoIrp
  PROVE  /\ \A i, j \in Irps : Before(p, i, j) => Before(MakeCurrent(p, x), i, j)
         /\ \A j : Listed(p, j) => Before(MakeCurrent(p, x), x, j)
BY IrpAssumption DEF MakeCurrent, Place, Before, Listed

-----------------------------------------------------------------------------
\* What InOrder says of two requests: of their places ...
KeepsPlaces(i, j) ==
  /\ i # j /\ In(Here, i) /\ ~In(Here, j) /\ In(Here, i)' /\ In(Here, j)' =>
       IF kind[j] = "immediate" THEN Before(Here, j, i)' ELSE Before(Here, i, j)'
  /\ Before(Here, i, j) /\ In(Here, j)' =>
       Before(Here, i, j)' \/ (~In(Here, i)' /\ GivenUp(i)')

\* The request at the front leaves: nobody passes one that stays.
LEMMA ShiftOfTwo ==
  ASSUME NEW p, Sound(p), Put(Shift(p)), NEW i \in Irps, NEW j \in Irps,
         In(p, i) <=> In(Here, i), In(p, j) <=> In(Here, j),
         Before(Here, i, j) => Before(p, i, j),
         i = p.current => GivenUp(i)'
  PROVE  KeepsPlaces(i, j)
<1>1. /\ Sound(Shift(p))
      /\ \A k \in Irps : In(Shift(p), k) <=> Listed(p, k)
  BY ShiftSound
<1>2. Here' = Shift(p)
  BY <1>1, PutHere DEF Sound
<1>3. In(Here, j)' => In(Here, j)
  BY <1>1, <1>2 DEF In
<1>4. ASSUME Before(Here, i, j) PROVE Before(Here, i, j)' \/ (~In(Here, i)' /\ GivenUp(i)')
  <2>1. CASE i = p.current
    BY <1>1, <1>2, <2>1 DEF Sound
  <2>2. CASE i # p.current
    BY <1>2, <1>4, <2>2, ShiftOrder
  <2> QED BY <2>1, <2>2
<1> QED BY <1>3, <1>4 DEF KeepsPlaces

LEMMA OrderStep ==
  ASSUME TypeInv, OwnerInv, PlacesInv, Next, NEW i \in Irps, NEW j \in Irps
  PROVE  KeepsPlaces(i, j)
<1> USE ThreadFacts, HereFacts DEF irpVars, queueVars
<1>0. NotStuck /\ Engaged /\ \A k \in Irps : Dispatched(k) /\ OneOwner(k)
  BY Facts DEF PlacesInv
<1>1. ASSUME UNCHANGED <<pCurrent, queue>> PROVE KeepsPlaces(i, j)
  BY <1>1 DEF KeepsPlaces, Before, In, Listed, Here, Place
<1>2. ASSUME Put(Shift(Here)), \A k \in Irps : k = pCurrent => GivenUp(k)'
      PROVE  KeepsPlaces(i, j)
  BY <1>2, ShiftOfTwo
\* Nobody is in the line, or only the one that is started.
<1>3. ASSUME NEW x, \A k \in Irps : In(Here, k) => k = x,
             \A k \in Irps : In(Here, k)' => k = x
      PROVE  KeepsPlaces(i, j)
  <2>1. Before(Here, i, j) => i # j /\ In(Here, i) /\ In(Here, j)
    BY DEF Before, Listed, In, Sound
  <2> QED BY <1>3, <2>1 DEF KeepsPlaces
<1>4. ASSUME NEW x \in Irps,
             IoCancelMark(x) \/ IoCancelTake(x) \/ StartEnter(x) \/ StartRefuse(x)
             \/ Return(x)
      PROVE  KeepsPlaces(i, j)
  BY <1>1, <1>4 DEF IoCancelMark, IoCancelTake, StartEnter, StartRefuse, Return
<1>5. ASSUME NEW x \in Irps, StartMore(x) PROVE KeepsPlaces(i, j)
  <2>1. PICK k : StartIrp(Starter(x), x, k, Here, amountInWriteQueue)
    BY <1>5 DEF StartMore
  <2>2. Here.current = x /\ Here.list = <<>> /\ \A y : ~Listed(Here, y)
    BY <1>0, <1>5 DEF StartMore, Dispatched
  <2>3. \A y \in Irps : In(Here, y)' => y = x
    BY <2>1, <2>2, StartIrpPlace
  <2> QED BY <1>3, <2>2, <2>3 DEF In
<1>6. ASSUME NEW x \in Irps, StartCheck(x) PROVE KeepsPlaces(i, j)
  <2>0. ~In(Here, x)
    BY <1>0, <1>6 DEF StartCheck, Dispatched
  <2>1. ASSUME NEW k, pCurrent = NoIrp,
               StartIrp(Starter(x), x, k, Here, amountInWriteQueue)
        PROVE  KeepsPlaces(i, j)
    <3>1. Here.current = NoIrp /\ \A y : ~Listed(Here, y)
      BY <1>0, <2>1 DEF NotStuck
    <3>2. \A y \in Irps : In(Here, y)' => y = x
      BY <2>1, <3>1, StartIrpPlace
    <3> QED BY <1>3, <3>1, <3>2 DEF In
  <2>2. ASSUME NEW k, pCurrent # NoIrp, kind[x] = "immediate",
               StartIrp(Starter(x), x, k, PushCurrent(Here), amountInWriteQueue)
        PROVE  KeepsPlaces(i, j)
    <3> DEFINE p == PushCurrent(Here)
               q == MakeCurrent(p, x)
    <3>1. /\ Sound(p) /\ p.current = NoIrp
          /\ \A y : Listed(p, y) <=> Listed(Here, y) \/ pCurrent = y
          /\ Before(Here, i, j) => Before(p, i, j)
      BY <2>2, PushCurrentSound, PushCurrentOrder
    <3>2. ~Listed(p, x)
      BY <2>0, <3>1 DEF In
    <3> HIDE DEF p
    <3>3. /\ Sound(q) /\ q.current = x /\ q.list = p.list
          /\ Before(p, i, j) => Before(q, i, j)
          /\ \A y : Listed(p, y) => Before(q, x, y)
      BY <3>1, <3>2, MakeCurrentSound, MakeCurrentOrder
    <3>4. \A y : Listed(q, y) <=> In(Here, y)
      BY <3>1, <3>3 DEF Listed, In
    <3> HIDE DEF q
    <3>5. CASE Put(q)
      <4>1. Here' = q
        BY <3>3, <3>5, PutHere DEF Sound
      <4>2. In(Here, j)' /\ ~In(Here, j) => j = x
        BY <3>3, <3>4, <4>1 DEF In
      <4>3. In(Here, i) => Before(q, x, i)
        BY <3>1, <3>3 DEF In
      <4> QED BY <2>2, <3>1, <3>3, <4>1, <4>2, <4>3 DEF KeepsPlaces
    <3>6. CASE Put(Shift(q))
      <4>1. /\ Sound(Shift(q))
            /\ \A y \in Irps : In(Shift(q), y) <=> Listed(q, y)
        BY <3>3, ShiftSound
      <4>2. Here' = Shift(q)
        BY <3>6, <4>1, PutHere DEF Sound
      <4>3. In(Here, j)' => In(Here, j)
        BY <3>4, <4>1, <4>2
      <4>4. Before(Here, i, j) => i # x
        BY <2>0, BeforeFacts
      <4>5. Before(Here, i, j) => Before(Shift(q), i, j)
        BY <3>1, <3>3, <4>4, ShiftOrder
      <4> QED BY <4>2, <4>3, <4>5 DEF KeepsPlaces
    <3> QED BY <2>2, <3>5, <3>6 DEF StartIrp, p, q
  <2>3. CASE StartLater(x)
    <3> DEFINE p == InsertTail(Here, x)
    <3>1. /\ Sound(p) /\ p.current = pCurrent /\ Put(p) /\ kind[x] # "immediate"
          /\ \A y : Listed(p, y) <=> Listed(Here, y) \/ y = x
          /\ Before(Here, i, j) => Before(p, i, j)
          /\ In(Here, i) => Before(p, i, x)
      BY <2>0, <2>3, InsertTailSound, InsertTailOrder DEF StartLater
    <3> HIDE DEF p
    <3>2. Here' = p
      BY <3>1, PutHere DEF Sound
    <3>3. In(Here, j)' /\ ~In(Here, j) => j = x
      BY <3>1, <3>2 DEF In
    <3> QED BY <3>1, <3>2, <3>3 DEF KeepsPlaces
  <2>4. ASSUME StartOverXoff(x), Put(Shift(InsertTail(Here, x))),
               local' = [local EXCEPT !.irp = pCurrent]
        PROVE  KeepsPlaces(i, j)
    <3>1. pCurrent # NoIrp
      BY <2>4 DEF StartOverXoff
    <3> DEFINE p == InsertTail(Here, x)
    <3>2. /\ Sound(p) /\ p.current = pCurrent
          /\ \A y : Listed(p, y) <=> Listed(Here, y) \/ y = x
          /\ Before(Here, i, j) => Before(p, i, j)
          /\ In(Here, i) => Before(p, i, x)
      BY <2>0, InsertTailSound, InsertTailOrder
    <3> HIDE DEF p
    <3>3. local'.irp = pCurrent
      BY <2>4 DEF TypeInv, Typed, TypedRest
    <3>4. /\ Sound(Shift(p))
          /\ \A y \in Irps : In(Shift(p), y) <=> Listed(p, y)
      BY <3>2, ShiftSound
    <3>5. Here' = Shift(p)
      BY <2>4, <3>4, PutHere DEF Sound, p
    <3>6. In(Here, j)' /\ ~In(Here, j) => j = x
      BY <3>2, <3>4, <3>5 DEF In
    <3>7. kind[x] # "immediate"
      BY <2>4 DEF StartOverXoff
    <3>8. In(Here, i) /\ In(Here, i)' => Before(Shift(p), i, x)
      <4>1. CASE i = pCurrent
        BY <3>2, <3>4, <3>5, <4>1 DEF Sound, In
      <4>2. CASE i # pCurrent
        BY <3>2, <4>2, ShiftOrder
      <4> QED BY <4>1, <4>2
    <3>9. Before(Here, i, j) => Before(Shift(p), i, j) \/ (~In(Here, i)' /\ GivenUp(i)')
      <4>1. CASE i = pCurrent
        <5>1. ~In(Here, i)' \/ i = x
          BY <3>2, <3>4, <3>5, <4>1 DEF Sound
        <5>2. i # x
          BY <2>0, <3>1, <4>1 DEF In
        <5> QED BY <3>3, <4>1, <5>1, <5>2 DEF GivenUp
      <4>2. CASE i # pCurrent
        BY <3>2, <4>2, ShiftOrder
      <4> QED BY <4>1, <4>2
    <3> QED BY <3>5, <3>6, <3>7, <3>8, <3>9 DEF KeepsPlaces
  <2> QED BY <1>1, <1>6, <2>1, <2>2, <2>3, <2>4, CheckCases DEF Refuse
<1>7. ASSUME NEW x \in Irps, StartEnd(x) PROVE KeepsPlaces(i, j)
  <2>1. CASE ret[x] # "PENDING" /\ pCurrent = x
    <3>1. Put(Shift(Here)) /\ x \notin cancelRoutine'
      BY <1>7, <2>1 DEF StartEnd, NoPending
    <3> QED BY <1>2, <2>1, <3>1 DEF GivenUp
  <2>2. CASE ~(ret[x] # "PENDING" /\ pCurrent = x)
    BY <1>1, <1>7, <2>2 DEF StartEnd, Put, Here, Place
  <2> QED BY <2>1, <2>2
<1>8. ASSUME NEW x \in Irps, CancelRoutine(x) PROVE KeepsPlaces(i, j)
  <2>1. x \notin cancelRoutine' /\ GivenUp(x)'
    BY <1>0, <1>8 DEF CancelRoutine, OneOwner, Running, GivenUp
  <2>2. /\ "IN_QUEUE" \in flags[x] <=> Listed(Here, x)
        /\ "IS_CURRENT" \in flags[x] <=> pCurrent = x
        /\ ~(pCurrent = x /\ Listed(Here, x))
    BY DEF Sound
  <2>3. CASE pCurrent = x
    BY <1>2, <1>8, <2>1, <2>2, <2>3 DEF CancelRoutine
  <2>4. CASE Listed(Here, x)
    <3> DEFINE p == Unlink(Here, x)
    <3>1. /\ Sound(p) /\ p.current = pCurrent
          /\ \A y : Listed(p, y) <=> Listed(Here, y) /\ y # x
      BY <2>4, UnlinkSound
    <3>2. Put(p)
      BY <1>8, <2>2, <2>4 DEF CancelRoutine
    <3>3. i # x /\ j # x /\ Before(Here, i, j) => Before(p, i, j)
      BY <2>4, UnlinkOrder
    <3> HIDE DEF p
    <3>4. Here' = p
      BY <3>1, <3>2, PutHere DEF Sound
    <3>5. \A y \in Irps : In(Here, y)' <=> In(Here, y) /\ y # x
      BY <2>2, <2>4, <3>1, <3>4 DEF In
    <3> QED BY <2>1, <3>3, <3>4, <3>5 DEF KeepsPlaces
  <2>5. CASE pCurrent # x /\ ~Listed(Here, x)
    BY <1>1, <1>8, <2>2, <2>5 DEF CancelRoutine, Put, Here, Place
  <2> QED BY <2>3, <2>4, <2>5
<1>9. ASSUME NEW t \in Threads, Engine(t) PROVE KeepsPlaces(i, j)
  <2>1. CASE EngineEmpty(t) \/ EngineRestore(t) \/ EngineDrop(t) \/ EngineAgain(t)
             \/ EngineLeave(t)
    BY <1>1, <2>1 DEF EngineEmpty, EngineRestore, EngineDrop, EngineAgain, EngineLeave
  <2>2. CASE EngineSkip(t)
    BY <1>2, <2>2 DEF EngineSkip, GivenUp
  <2>3. CASE EngineWork(t)
    <3>1. UNCHANGED <<pCurrent, queue>> \/ Put(Shift(Here))
      BY <2>3 DEF EngineWork
    <3>2. cancelRoutine' = cancelRoutine \ {pCurrent}
      BY <2>3 DEF EngineWork
    <3> QED BY <1>1, <1>2, <3>1, <3>2 DEF GivenUp
  <2>4. CASE EngineRecheck(t)
    <3>1. pCurrent = local.irp /\ local' = local
      BY <1>0, <2>4 DEF EngineRecheck, Engaged
    <3>2. UNCHANGED <<pCurrent, queue>> \/ Put(Shift(Here))
      BY <2>4 DEF EngineRecheck
    <3> QED BY <1>1, <1>2, <3>1, <3>2 DEF GivenUp
  <2>5. CASE XoffSent(t)
    <3>1. Put(Shift(Here)) /\ local'.irp = pCurrent
      BY <2>5 DEF XoffSent, TypeInv, Typed, TypedRest
    <3> QED BY <1>2, <3>1 DEF GivenUp
  <2>6. CASE XoffSweep(t)
    <3>1. \/ UNCHANGED <<pCurrent, queue>>
          \/ Put(Shift(Here)) /\ CompleteIrp(t, pCurrent, "SUCCESS")
          \/ pCurrent = NoIrp /\ Put(MakeCurrent(Here, local.irp))
      BY <2>6 DEF XoffSweep
    <3>2. CASE Put(Shift(Here)) /\ CompleteIrp(t, pCurrent, "SUCCESS")
      BY <1>2, <3>2, CompleteIrpMoves DEF GivenUp
    <3>3. CASE pCurrent = NoIrp /\ Put(MakeCurrent(Here, local.irp))
      <4>1. \A y \in Irps : ~In(Here, y)
        BY <1>0, <3>3 DEF NotStuck, In
      <4>2. pCurrent' = local.irp /\ queue' = queue
        BY <3>3 DEF Put, MakeCurrent, Here, Place
      <4>3. \A y \in Irps : In(Here, y)' => y = local.irp
        BY <1>0, <3>3, <4>2 DEF NotStuck, In, Listed, Here, Place
      <4> QED BY <1>3, <4>1, <4>3
    <3> QED BY <1>1, <3>1, <3>2, <3>3
  <2> QED BY <1>9, <2>1, <2>2, <2>3, <2>4, <2>5, <2>6 DEF Engine
<1>10. ASSUME NEW t \in Threads, CompleteOne(t) PROVE KeepsPlaces(i, j)
  BY <1>1, <1>10 DEF CompleteOne
<1>11. ASSUME TimerFire \/ IoEnter \/ PurgeEnter \/ TimeoutRoutine PROVE KeepsPlaces(i, j)
  BY <1>1, <1>11 DEF TimerFire, IoEnter, PurgeEnter, TimeoutRoutine
<1>12. ASSUME IoXoffCounted \/ CancelQueue PROVE KeepsPlaces(i, j)
  <2>1. \/ UNCHANGED <<pCurrent, queue>>
        \/ Put(Shift(Here)) /\ \E t \in Threads : \E st : CompleteIrp(t, pCurrent, st)
    BY <1>12 DEF IoXoffCounted, CancelQueue
  <2>2. CASE Put(Shift(Here)) /\ \E t \in Threads : \E st : CompleteIrp(t, pCurrent, st)
    BY <1>2, <2>2, CompleteIrpMoves DEF GivenUp
  <2> QED BY <1>1, <2>1, <2>2
<1> QED BY <1>4, <1>5, <1>6, <1>7, <1>8, <1>9, <1>10, <1>11, <1>12 DEF Next, Start

\* ... and of what they move: only the request that is not behind another.
LEMMA MovesStep ==
  ASSUME TypeInv, OwnerInv, PlacesInv, Next, NEW j \in Irps, Listed(Here, j)'
  PROVE  information'[j] <= information[j]
<1> USE HereFacts DEF queueVars
<1>1. information[j] \in Nat /\ information'[j] \in {information[j], 0} =>
        information'[j] <= information[j]
  OBVIOUS
<1>2. information[j] \in Nat
  BY IrpAssumption DEF TypeInv, Typed, TypedIrps
<1>3. ASSUME NEW t \in Threads, EngineWork(t), j = pCurrent PROVE FALSE
  <2>1. ~Listed(Here, j)
    BY <1>3 DEF Sound
  <2>2. CASE UNCHANGED <<pCurrent, queue>>
    BY <2>1, <2>2 DEF Listed, Here, Place
  <2>3. CASE Put(Shift(Here))
    <3>1. Listed(Here, j)' => In(Here, j)'
      BY DEF In
    <3> QED BY <1>3, <2>3, <3>1, ShiftOut
  <2> QED BY <1>3, <2>2, <2>3 DEF EngineWork
<1> QED BY <1>1, <1>2, <1>3, InformationStep

\* Overlapped requests are processed in the order of their arrival: nobody
\* joins the line before another, save an IMMEDIATE_CHAR, nobody passes another
\* that was not given up, and nobody moves a byte behind another.
THEOREM NeverOutOfOrder == ASSUME NoOvertaking PROVE Spec => InOrder
<1> DEFINE A == \A i, j \in Irps :
       /\ i # j /\ InLine(i) /\ ~InLine(j) /\ InLine(i)' /\ InLine(j)' =>
            IF kind[j] = "immediate" THEN Ahead(j, i)' ELSE Ahead(i, j)'
       /\ Ahead(i, j) /\ InLine(j)' =>
            Ahead(i, j)' \/ (~InLine(i)' /\ GivenUp(i)')
       /\ Ahead(i, j)' => information'[j] <= information[j]
<1>1. TypeInv /\ OwnerInv /\ PlacesInv /\ Next => A
  <2> SUFFICES ASSUME TypeInv, OwnerInv, PlacesInv, Next,
                      NEW i \in Irps, NEW j \in Irps
               PROVE  /\ KeepsPlaces(i, j)
                      /\ Before(Here, i, j)' => information'[j] <= information[j]
    BY LineIsHere, LineIsHereNext DEF KeepsPlaces
  <2>1. Before(Here, i, j)' => Listed(Here, j)'
    BY DEF Before, Listed
  <2> QED BY <2>1, OrderStep, MovesStep
<1>2. TypeInv /\ OwnerInv /\ PlacesInv /\ [Next]_vars => [A]_vars
  BY <1>1
<1>3. Spec => [][A]_vars
  BY <1>2, PlacesInvInvariant, PTL DEF Spec
<1> QED BY <1>3 DEF InOrder

-----------------------------------------------------------------------------
(***************************************************************************)
(* What a step writes to.  A request is written to by a thread that may    *)
(* complete it, by one that takes it through the queue, and by its own     *)
(* dispatch; none of them does so after IoCompleteRequest.                 *)
(***************************************************************************)
\* While its dispatch holds the lock nobody else completes the request.
Own(i) == lock = Starter(i) => Live(i) \/ Holding(i) \/ InToComplete(Starter(i), i)

\* Who holds the lock is in a section under it.
Busy == lock # Free => pc[lock] \notin {"idle", "call", "complete"}

OwnInv == Busy /\ \A i \in Irps : Own(i)

LEMMA BusyStep ==
  ASSUME TypeInv, OwnerInv, Busy, Next PROVE Busy'
<1> USE ThreadFacts, ThreadsDiffer DEF irpVars, queueVars
<1>0. /\ pc \in [Threads -> Labels] /\ lock \in Threads \cup {Free}
      /\ Busy /\ \A i \in Irps : OneOwner(i)
  BY Facts DEF OwnInv
\* A step of the holder.
<1>1. ASSUME NEW t \in Threads, NEW label \in Labels \ {"idle", "call", "complete"},
             lock' = t, pc' = [pc EXCEPT ![t] = label]
      PROVE  Busy'
  BY <1>0, <1>1 DEF Busy
<1>2. ASSUME lock' = Free PROVE Busy'
  BY <1>2 DEF Busy
\* A step of another thread.
<1>3. ASSUME lock' = lock, NEW t \in Threads, lock # t, NEW label,
             pc' = [pc EXCEPT ![t] = label]
      PROVE  Busy'
  BY <1>0, <1>3 DEF Busy
<1>4. ASSUME lock' = lock, pc' = pc PROVE Busy'
  BY <1>0, <1>4 DEF Busy
<1>5. ASSUME NEW i \in Irps,
             IoCancelMark(i) \/ IoCancelTake(i) \/ Return(i) \/ StartEnter(i)
      PROVE  Busy'
  <2>1. CASE IoCancelMark(i)
    BY <1>4, <2>1 DEF IoCancelMark
  <2>2. CASE IoCancelTake(i)
    <3>1. pc[Canceller(i)] = "idle" /\ lock # Canceller(i)
      BY <1>0, <2>2 DEF IoCancelTake, OneOwner, Busy
    <3> QED BY <1>3, <1>4, <2>2, <3>1 DEF IoCancelTake, Goto
  <2>3. CASE Return(i)
    <3>1. lock # Starter(i)
      BY <1>0, <2>3 DEF Return, Busy
    <3> QED BY <1>3, <2>3, <3>1 DEF Return, Goto
  <2>4. CASE StartEnter(i)
    BY <1>1, <2>4 DEF StartEnter, Acquire, Goto, Labels
  <2> QED BY <1>5, <2>1, <2>2, <2>3, <2>4
<1>6. ASSUME NEW i \in Irps, StartCheck(i) \/ StartMore(i) PROVE Busy'
  <2>1. lock = Starter(i)
    BY <1>6 DEF StartCheck, StartMore, At
  <2>2. \/ lock' = Free
        \/ /\ lock' = lock
           /\ \E label \in Labels \ {"idle", "call", "complete"} :
                pc' = [pc EXCEPT ![Starter(i)] = label]
    BY <1>6 DEF StartCheck, StartMore, StartIrp, StartFirst, StartImmediate, StartLater,
                StartOverXoff, Refuse, Leave, Goto, Labels
  <2> QED BY <1>1, <1>2, <2>1, <2>2
<1>7. ASSUME NEW i \in Irps, StartRefuse(i) \/ StartEnd(i) PROVE Busy'
  BY <1>2, <1>7 DEF StartRefuse, StartEnd, Leave
<1>8. ASSUME NEW i \in Irps, CancelRoutine(i) PROVE Busy'
  BY <1>1, <1>2, <1>8 DEF CancelRoutine, Acquire, Leave, Goto, Labels
<1>9. ASSUME NEW t \in Threads, Engine(t) PROVE Busy'
  <2>1. /\ lock = t
        /\ \/ lock' = Free
           \/ /\ lock' = lock
              /\ \/ pc' = pc
                 \/ \E label \in Labels \ {"idle", "call", "complete"} :
                      pc' = [pc EXCEPT ![t] = label]
    BY <1>9 DEF Engine, EngineEmpty, EngineSkip, EngineWork, EngineRestore,
                EngineRecheck, EngineDrop, XoffSent, XoffSweep, EngineAgain,
                EngineLeave, At, Leave, Goto, Labels
  <2> QED BY <1>1, <1>2, <1>4, <2>1
<1>10. ASSUME NEW t \in Threads, CompleteOne(t) PROVE Busy'
  <2>1. lock # t
    BY <1>0, <1>10 DEF CompleteOne, Busy
  <2> QED BY <1>3, <1>10, <2>1 DEF CompleteOne, Goto
<1>11. ASSUME TimerFire PROVE Busy'
  <2>1. lock # Dpc
    BY <1>0, <1>11 DEF TimerFire, Busy
  <2> QED BY <1>3, <1>11, <2>1 DEF TimerFire, Goto
<1>12. ASSUME IoEnter \/ PurgeEnter \/ TimeoutRoutine PROVE Busy'
  BY <1>1, <1>2, <1>12 DEF IoEnter, PurgeEnter, TimeoutRoutine, Acquire, Leave, Goto,
                           Labels
<1>13. ASSUME IoXoffCounted \/ CancelQueue PROVE Busy'
  BY <1>2, <1>4, <1>13 DEF IoXoffCounted, CancelQueue, Leave
<1> QED BY <1>5, <1>6, <1>7, <1>8, <1>9, <1>10, <1>11, <1>12, <1>13 DEF Next, Start

LEMMA OwnStep ==
  ASSUME TypeInv, OwnerInv, PlacesInv, OwnInv, Next, NEW j \in Irps
  PROVE  Own(j)'
<1> USE ThreadFacts, ThreadsDiffer DEF irpVars, queueVars
<1> DEFINE u == Starter(j)
<1>0. /\ pc \in [Threads -> Labels] /\ lock \in Threads \cup {Free}
      /\ toComplete \in [Threads -> Seq(Irps)]
      /\ cancelRoutine \subseteq Irps
      /\ Busy /\ Own(j) /\ OneOwner(j)
  BY Facts DEF OwnInv
<1>1. ASSUME lock' # u PROVE Own(j)'
  BY <1>1 DEF Own
\* What the holder puts on a completion list it puts on its own.
<1>2. ASSUME NEW i, NEW st, CompleteIrp(u, i, st), ~Holding(j), lock = u,
             Running(j) => Running(j)'
      PROVE  Own(j)'
  <2>1. CASE toComplete' = toComplete /\ cancelRoutine' = cancelRoutine
    BY <1>0, <1>2, <2>1 DEF Own, Live, InToComplete
  <2>2. CASE i \in cancelRoutine
    <3>1. /\ toComplete' = [toComplete EXCEPT ![u] = Append(@, i)] /\ i \in Irps
          /\ cancelRoutine' = cancelRoutine \ {i}
      BY <1>0, <1>2, <2>2 DEF CompleteIrp
    <3>2. /\ j = i => InToComplete(u, j)'
          /\ InToComplete(u, j) => InToComplete(u, j)'
      <4> DEFINE L == Len(toComplete[u])
      <4>1. toComplete[u] \in Seq(Irps)
        BY <1>0
      <4>2. /\ L \in Nat /\ DOMAIN toComplete[u] = 1 .. L
            /\ DOMAIN toComplete'[u] = 1 .. L + 1
            /\ \A n \in 1 .. L : toComplete'[u][n] = toComplete[u][n]
            /\ toComplete'[u][L + 1] = i
        BY <1>0, <3>1, <4>1, AppendProperties
      <4>3. L + 1 \in 1 .. L + 1 /\ \A n \in 1 .. L : n \in 1 .. L + 1
        BY <4>2
      <4> HIDE DEF L
      <4> QED BY <4>2, <4>3 DEF InToComplete
    <3> QED BY <1>0, <1>2, <3>1, <3>2 DEF Own, Live
  <2> QED BY <1>2, <2>1, <2>2 DEF CompleteIrp
<1>3. ASSUME lock = u, ~Holding(j), Running(j) => Running(j)',
             UNCHANGED <<cancelRoutine, toComplete>>
      PROVE  Own(j)'
  BY <1>0, <1>3 DEF Own, Live, InToComplete
<1>4. ASSUME \/ \E i \in Irps : IoCancelMark(i) \/ IoCancelTake(i) \/ Return(i)
             \/ \E t \in Threads : CompleteOne(t)
             \/ TimerFire
      PROVE  Own(j)'
  <2>1. CASE lock = u
    <3>1. toComplete'[u] = toComplete[u]
      <4>1. ASSUME NEW t \in Threads, CompleteOne(t) PROVE toComplete'[u] = toComplete[u]
        <5>1. t # u /\ toComplete' = [toComplete EXCEPT ![t] = Tail(@)]
          BY <1>0, <2>1, <4>1 DEF CompleteOne, Busy
        <5> QED BY <1>0, <5>1
      <4> QED BY <1>4, <4>1 DEF IoCancelMark, IoCancelTake, Return, TimerFire
    <3> QED BY <1>0, <1>4, <3>1, QuietFacts DEF Own, InToComplete
  <2>2. CASE lock # u
    BY <1>1, <1>4, <2>2, QuietFacts
  <2> QED BY <2>1, <2>2
<1>5. ASSUME NEW i \in Irps, StartEnter(i) PROVE Own(j)'
  BY <1>1, <1>5 DEF StartEnter, Acquire, Own, Live
<1>6. ASSUME NEW i \in Irps, StartCheck(i) \/ StartMore(i) PROVE Own(j)'
  <2>1. /\ lock = Starter(i) /\ pc[Starter(i)] \in {"check", "more"}
        /\ lock' = lock \/ lock' = Free
    BY <1>6 DEF StartCheck, StartMore, StartIrp, StartFirst, StartImmediate,
                StartLater, StartOverXoff, Refuse, Leave, At
  <2>2. \E label : pc' = [pc EXCEPT ![Starter(i)] = label]
    BY <1>6 DEF StartCheck, StartMore, StartIrp, StartFirst, StartImmediate,
                StartLater, StartOverXoff, Refuse, Leave, Goto
  <2>3. ~Holding(j) /\ (Running(j) => Running(j)')
    BY <1>0, <2>1, <2>2 DEF Holding, Running, At
  <2>4. \/ UNCHANGED <<cancelRoutine, toComplete>>
        \/ \E x, st : CompleteIrp(Starter(i), x, st)
    BY <1>6 DEF StartCheck, StartMore
  <2> QED BY <1>1, <1>2, <1>3, <2>1, <2>3, <2>4
<1>7. ASSUME NEW i \in Irps, StartRefuse(i) \/ StartEnd(i) \/ CancelRoutine(i)
      PROVE  Own(j)'
  BY <1>1, <1>7 DEF StartRefuse, StartEnd, CancelRoutine, Leave, Acquire
<1>8. ASSUME NEW t \in Threads, Engine(t) PROVE Own(j)'
  <2>0. lock = t
    BY <1>8 DEF Engine, EngineEmpty, EngineSkip, EngineWork, EngineRestore,
                EngineRecheck, EngineDrop, XoffSent, XoffSweep, EngineAgain,
                EngineLeave, At
  <2>1. CASE t # u
    BY <1>0, <1>1, <1>8, <2>0, <2>1
       DEF Engine, EngineEmpty, EngineSkip, EngineWork, EngineRestore, EngineRecheck,
           EngineDrop, XoffSent, XoffSweep, EngineAgain, EngineLeave, Leave
  <2>2. CASE t = u /\ EngineWork(t)
    <3>1. /\ lock' = u /\ pc[u] = "next" /\ pCurrent \in cancelRoutine
          /\ cancelRoutine' = cancelRoutine \ {pCurrent} /\ pCurrent \in Irps
      BY <1>0, <2>2 DEF EngineWork, At
    <3>2. \/ /\ pc' = [pc EXCEPT ![u] = "restore"] /\ local'.irp = pCurrent
             /\ toComplete' = toComplete
          \/ pc' = pc /\ \E st : CompleteIrp(u, pCurrent, st)
      <4>1. \/ /\ pc' = [pc EXCEPT ![u] = "restore"] /\ local'.irp = pCurrent
               /\ toComplete' = toComplete
            \/ /\ pc' = pc
               /\ toComplete' = [toComplete EXCEPT ![u] = Append(@, pCurrent)]
               /\ \E st : status' = [status EXCEPT ![pCurrent] = st]
        BY <2>2 DEF EngineWork, At, Goto, TypeInv, Typed, TypedRest
      <4> QED BY <3>1, <4>1 DEF CompleteIrp
    <3>3. ~Holding(j) /\ (Running(j) => Running(j)')
      BY <1>0, <2>0, <2>2, <3>1, <3>2 DEF Holding, Running, At
    <3>4. CASE /\ pc' = [pc EXCEPT ![u] = "restore"] /\ local'.irp = pCurrent
               /\ toComplete' = toComplete
      <4>1. j = pCurrent => Holding(j)'
        BY <1>0, <3>1, <3>4 DEF Holding, At
      <4> QED BY <1>0, <2>0, <2>2, <3>1, <3>3, <3>4, <4>1 DEF Own, Live, InToComplete
    <3> QED BY <1>2, <2>0, <2>2, <3>2, <3>3, <3>4
  <2>3. CASE t = u /\ EngineRestore(t)
    <3>1. /\ pc[u] = "restore" /\ cancelRoutine' = cancelRoutine \cup {local.irp}
          /\ pc' = [pc EXCEPT ![u] = "recheck"] /\ toComplete' = toComplete
      BY <2>3 DEF EngineRestore, At, Goto
    <3>2. (Running(j) => Running(j)') /\ (Holding(j) => j = local.irp)
      BY <1>0, <2>0, <2>3, <3>1 DEF Running, Holding, At
    <3> QED BY <1>0, <2>0, <2>3, <3>1, <3>2 DEF Own, Live, InToComplete
  <2>4. CASE t = u /\ ~EngineWork(t) /\ ~EngineRestore(t)
    <3>1. /\ pc[u] \in {"next", "recheck", "drop", "xoff", "sweep", "end"}
          /\ pc' = pc \/ \E label : pc' = [pc EXCEPT ![u] = label]
          /\ \/ UNCHANGED <<cancelRoutine, toComplete>>
             \/ \E x, st : CompleteIrp(u, x, st)
      BY <1>8, <2>4 DEF Engine, EngineEmpty, EngineSkip, EngineRecheck, EngineDrop,
                        XoffSent, XoffSweep, EngineAgain, EngineLeave, At, Leave, Goto
    <3>2. ~Holding(j) /\ (Running(j) => Running(j)')
      BY <1>0, <2>0, <2>4, <3>1 DEF Holding, Running, At
    <3> QED BY <1>2, <1>3, <2>0, <2>4, <3>1, <3>2
  <2> QED BY <2>1, <2>2, <2>3, <2>4
<1>9. ASSUME IoEnter \/ PurgeEnter \/ TimeoutRoutine \/ IoXoffCounted \/ CancelQueue
      PROVE  Own(j)'
  <2>1. lock' \in {Io, Purger, Dpc, Free}
    BY <1>9 DEF IoEnter, PurgeEnter, TimeoutRoutine, IoXoffCounted, CancelQueue,
                Acquire, Leave, At
  <2> QED BY <1>1, <2>1
<1> QED BY <1>4, <1>5, <1>6, <1>7, <1>8, <1>9 DEF Next, Start

LEMMA OwnInvInvariant ==
  ASSUME NoOvertaking PROVE Spec => [](TypeInv /\ OwnerInv /\ PlacesInv /\ OwnInv)
<1>1. Init => OwnInv
  <2> SUFFICES ASSUME Init PROVE OwnInv
    OBVIOUS
  <2>1. lock = Free /\ \A i \in Irps : Starter(i) # Free
    BY ThreadFacts DEF Init
  <2> QED BY <2>1 DEF OwnInv, Busy, Own
<1>2. OwnInv /\ TypeInv /\ OwnerInv /\ PlacesInv /\ [Next]_vars => OwnInv'
  <2> SUFFICES ASSUME OwnInv, TypeInv, OwnerInv, PlacesInv, [Next]_vars PROVE OwnInv'
    OBVIOUS
  <2>1. CASE Next
    BY <2>1, BusyStep, OwnStep DEF OwnInv
  <2>2. CASE UNCHANGED vars
    BY <2>2 DEF vars, OwnInv, Busy, Own, Live, Running, Holding, At, InToComplete
  <2> QED BY <2>1, <2>2
<1> QED BY <1>1, <1>2, PlacesInvInvariant, PTL DEF Spec

\* The queue operations change the flags of who is in the queue only.
LEMMA FlagsOf ==
  ASSUME NEW p, Sound(p), NEW j \in Irps, ~In(p, j)
  PROVE  /\ Shift(p).flags[j] = p.flags[j]
         /\ \A i \in Irps \ {j} : /\ MakeCurrent(p, i).flags[j] = p.flags[j]
                                  /\ InsertTail(p, i).flags[j] = p.flags[j]
                                  /\ Unlink(p, i).flags[j] = p.flags[j]
         /\ PushCurrent(p).flags[j] = p.flags[j]
<1>1. p.flags \in [Irps -> SUBSET Flags] /\ p.current # j
  BY SoundFacts DEF In
<1>2. p.list # <<>> => Head(p.list) # j
  <2> SUFFICES ASSUME p.list # <<>> PROVE Head(p.list) # j
    OBVIOUS
  <2>1. p.list \in Seq(Irps) /\ Len(p.list) \in Nat /\ DOMAIN p.list = 1 .. Len(p.list)
    BY SoundFacts
  <2>2. Head(p.list) = p.list[1] /\ 1 \in DOMAIN p.list
    BY <2>1, HeadTailProperties, EmptySeq
  <2> QED BY <2>2 DEF In, Listed
<1> QED BY <1>1, <1>2 DEF Shift, MakeCurrent, InsertTail, Unlink, PushCurrent, Place

LEMMA UntouchedStep ==
  ASSUME TypeInv, OwnerInv, PlacesInv, OwnInv, Next,
         NEW j \in Irps, completions[j] > 0
  PROVE  UNCHANGED <<status[j], information[j], flags[j]>>
<1> DEFINE Goal == UNCHANGED <<status[j], information[j], flags[j]>>
<1> SUFFICES Goal
  OBVIOUS
<1> USE ThreadFacts, ThreadsDiffer, HereFacts DEF irpVars, queueVars
<1>0. /\ status \in [Irps -> Status] /\ information \in [Irps -> 0 .. DataLength]
      /\ toComplete \in [Threads -> Seq(Irps)] /\ lock \in Threads \cup {Free}
      /\ Engaged /\ \A i \in Irps : Charged(i) /\ Dispatched(i) /\ OneOwner(i) /\ Own(i)
  BY Facts DEF TypeInv, Typed, TypedIrps, PlacesInv, OwnInv
<1>1. /\ ~Live(j) /\ ~Holding(j) /\ ~Completing(j) /\ ~Returning(j)
      /\ ret[j] # "none" /\ j \notin cancelRoutine /\ ~Running(j)
  BY <1>0 DEF OneOwner, Live
<1>2. ~In(Here, j) /\ lock # Starter(j)
  BY <1>0, <1>1 DEF Charged, Own, Completing
<1>3. Put(Shift(Here)) => flags'[j] = flags[j]
  BY <1>2, FlagsOf DEF Put
<1>4. \A t, i, st : CompleteIrp(t, i, st) => status'[j] = status[j]
  BY <1>0, <1>1 DEF CompleteIrp
<1>5. ASSUME NEW i \in Irps, IoCancelMark(i) \/ IoCancelTake(i) \/ StartEnter(i)
             \/ StartRefuse(i) \/ Return(i)
      PROVE  Goal
  <2>1. CASE StartEnter(i)
    <3>1. i # j
      BY <1>1, <2>1 DEF StartEnter
    <3> QED BY <2>1, <3>1 DEF StartEnter
  <2>2. CASE Return(i)
    <3>1. i # j
      BY <1>1, <2>2 DEF Return, Returning
    <3> QED BY <1>0, <2>2, <3>1 DEF Return
  <2> QED BY <1>5, <2>1, <2>2 DEF IoCancelMark, IoCancelTake, StartRefuse
<1>6. ASSUME NEW i \in Irps, StartCheck(i) \/ StartMore(i) PROVE Goal
  <2>0. lock = Starter(i) /\ i # j
    BY <1>2, <1>6 DEF StartCheck, StartMore, At
  <2>1. ASSUME NEW k, NEW p, NEW a, StartIrp(Starter(i), i, k, p, a), Sound(p),
               (p.current = NoIrp /\ ~Listed(p, i)) \/ p.current = i, ~In(p, j),
               p.flags[j] = flags[j]
        PROVE  information'[j] = information[j] /\ flags'[j] = flags[j]
    <3> DEFINE q == MakeCurrent(p, i)
    <3>1. Sound(q) /\ q.current = i /\ q.list = p.list /\ q.flags[j] = p.flags[j]
      BY <2>0, <2>1, MakeCurrentSound, FlagsOf
    <3>2. ~In(q, j)
      BY <2>0, <2>1, <3>1 DEF In, Listed
    <3>3. Shift(q).flags[j] = q.flags[j]
      BY <3>1, <3>2, FlagsOf
    <3>4. flags'[j] = flags[j]
      BY <2>1, <3>1, <3>3 DEF StartIrp, Put
    <3>5. information'[j] = information[j]
      BY <1>0, <2>0, <2>1 DEF StartIrp
    <3> QED BY <3>4, <3>5
  <2>2. CASE StartMore(i)
    <3>1. PICK k : StartIrp(Starter(i), i, k, Here, amountInWriteQueue)
      BY <2>2 DEF StartMore
    <3>2. Here.current = i
      BY <1>0, <2>2 DEF StartMore, Dispatched
    <3>3. status'[j] = status[j]
      BY <1>4, <2>2 DEF StartMore
    <3> QED BY <1>2, <2>1, <3>1, <3>2, <3>3
  <2>3. CASE StartCheck(i)
    <3>0. ~In(Here, i)
      BY <1>0, <2>3 DEF StartCheck, Dispatched
    <3>1. status'[j] = status[j]
      BY <1>0, <2>0, <2>3 DEF StartCheck, StartFirst, StartImmediate, StartLater,
                              StartOverXoff, Refuse
    <3>2. ASSUME NEW k, pCurrent = NoIrp,
                 StartIrp(Starter(i), i, k, Here, amountInWriteQueue)
          PROVE  Goal
      <4>1. Here.current = NoIrp /\ ~Listed(Here, i)
        BY <3>0, <3>2 DEF In
      <4> QED BY <1>2, <2>1, <3>1, <3>2, <4>1
    <3>3. ASSUME NEW k, pCurrent # NoIrp,
                 StartIrp(Starter(i), i, k, PushCurrent(Here), amountInWriteQueue)
          PROVE  Goal
      <4> DEFINE p == PushCurrent(Here)
      <4>1. /\ Sound(p) /\ p.current = NoIrp
            /\ \A x : Listed(p, x) <=> Listed(Here, x) \/ pCurrent = x
        BY <3>3, PushCurrentSound
      <4>2. ~Listed(p, i) /\ ~In(p, j) /\ p.flags[j] = flags[j]
        BY <1>2, <3>0, <4>1, FlagsOf DEF In
      <4> HIDE DEF p
      <4>3. information'[j] = information[j] /\ flags'[j] = flags[j]
        BY <2>1, <3>3, <4>1, <4>2 DEF p
      <4> QED BY <3>1, <4>3
    <3>4. CASE StartLater(i)
      <4>1. flags'[j] = flags[j]
        BY <1>2, <2>0, <3>4, FlagsOf DEF StartLater, Put
      <4> QED BY <3>1, <3>4, <4>1 DEF StartLater
    <3>5. ASSUME Put(Shift(InsertTail(Here, i))), information' = information
          PROVE  Goal
      <4> DEFINE p == InsertTail(Here, i)
      <4>1. /\ Sound(p) /\ p.current = pCurrent
            /\ \A x : Listed(p, x) <=> Listed(Here, x) \/ x = i
        BY <3>0, InsertTailSound
      <4>2. ~In(p, j) /\ p.flags[j] = flags[j]
        BY <1>2, <2>0, <4>1, FlagsOf DEF In
      <4> HIDE DEF p
      <4>3. Shift(p).flags[j] = p.flags[j]
        BY <4>1, <4>2, FlagsOf
      <4>4. flags' = Shift(p).flags
        BY <3>5 DEF Put, p
      <4> QED BY <3>1, <3>5, <4>2, <4>3, <4>4
    <3> QED BY <2>3, <3>1, <3>2, <3>3, <3>4, <3>5, CheckCases DEF Refuse
  <2> QED BY <1>6, <2>2, <2>3
<1>7. ASSUME NEW i \in Irps, StartEnd(i) PROVE Goal
  <2>1. i # j
    BY <1>2, <1>7 DEF StartEnd, At
  <2>2. status'[j] = status[j] /\ information'[j] = information[j]
    BY <1>0, <1>7, <2>1 DEF StartEnd
  <2>3. Put(Shift(Here)) \/ flags' = flags
    BY <1>7 DEF StartEnd, Put, Here, Place
  <2> QED BY <1>3, <2>2, <2>3
<1>8. ASSUME NEW i \in Irps, CancelRoutine(i) PROVE Goal
  <2> DEFINE p == IF "IN_QUEUE" \in flags[i] THEN Unlink(Here, i) ELSE Here
  <2>1. i # j
    BY <1>1, <1>8 DEF CancelRoutine, Running
  <2>2. /\ Sound(p) /\ p.current = pCurrent
        /\ \A x : Listed(p, x) => Listed(Here, x)
        /\ p.flags[j] = flags[j]
    BY <1>2, <2>1, UnlinkSound, FlagsOf DEF Sound
  <2>3. ~In(p, j)
    BY <1>2, <2>2 DEF In
  <2>4. Put(p) \/ Put(Shift(p))
    BY <1>8 DEF CancelRoutine
  <2> HIDE DEF p
  <2>5. flags'[j] = flags[j]
    BY <2>2, <2>3, <2>4, FlagsOf DEF Put
  <2>6. status'[j] = status[j] /\ information'[j] = information[j]
    BY <1>0, <1>8, <2>1 DEF CancelRoutine
  <2> QED BY <2>5, <2>6
<1>9. ASSUME NEW t \in Threads, Engine(t) PROVE Goal
  <2>1. CASE EngineWork(t)
    <3>1. /\ pCurrent \in Irps /\ pCurrent # j
          /\ \E k : information' = [information EXCEPT ![pCurrent] = @ + k]
          /\ status' = status \/ \E st : status' = [status EXCEPT ![pCurrent] = st]
          /\ Put(Shift(Here)) \/ flags' = flags
      BY <1>1, <2>1, Facts DEF EngineWork
    <3> QED BY <1>0, <1>3, <3>1
  <2>2. CASE XoffSweep(t)
    <3>1. local.irp \in Irps /\ ~In(Here, local.irp) /\ Live(local.irp)
      BY <1>0, <2>2 DEF XoffSweep, Engaged, At
    <3>2. \/ Put(MakeCurrent(Here, local.irp))
          \/ Put(Shift(Here))
          \/ flags' = flags
      BY <2>2 DEF XoffSweep
    <3>3. local.irp # j
      BY <1>1, <3>1
    <3>4. Put(MakeCurrent(Here, local.irp)) => flags'[j] = flags[j]
      BY <1>2, <3>1, <3>3, FlagsOf DEF Put
    <3>5. status'[j] = status[j] /\ information' = information
      BY <1>4, <2>2 DEF XoffSweep
    <3> QED BY <1>3, <3>2, <3>4, <3>5
  <2>3. CASE EngineDrop(t)
    BY <1>4, <2>3 DEF EngineDrop
  <2>4. CASE EngineEmpty(t) \/ EngineSkip(t) \/ EngineRestore(t) \/ EngineRecheck(t)
             \/ XoffSent(t) \/ EngineAgain(t) \/ EngineLeave(t)
    BY <1>3, <2>4 DEF EngineEmpty, EngineSkip, EngineRestore, EngineRecheck, XoffSent,
                      EngineAgain, EngineLeave
  <2> QED BY <1>9, <2>1, <2>2, <2>3, <2>4 DEF Engine
<1>10. ASSUME NEW t \in Threads, CompleteOne(t) PROVE Goal
  <2> DEFINE h == Head(toComplete[t])
  <2>1. toComplete[t] \in Seq(Irps) /\ toComplete[t] # <<>>
    BY <1>0, <1>10 DEF CompleteOne
  <2>2. h = toComplete[t][1] /\ 1 \in DOMAIN toComplete[t]
    BY <2>1, HeadTailProperties, EmptySeq
  <2>3. h # j
    BY <1>1, <2>2 DEF Completing, InToComplete
  <2>4. /\ \E st : status' = [status EXCEPT ![h] = st]
        /\ \E x : information' = [information EXCEPT ![h] = IF x THEN 0 ELSE @]
        /\ flags' = flags
    BY <1>10 DEF CompleteOne
  <2> QED BY <1>0, <2>3, <2>4
<1>11. ASSUME TimerFire \/ IoEnter \/ PurgeEnter PROVE Goal
  BY <1>11 DEF TimerFire, IoEnter, PurgeEnter
<1>12. ASSUME TimeoutRoutine PROVE Goal
  <2>1. pCurrent # j
    BY <1>2 DEF In
  <2> QED BY <1>12, <2>1 DEF TimeoutRoutine
<1>13. ASSUME IoXoffCounted \/ CancelQueue PROVE Goal
  <2>1. /\ Put(Shift(Here)) \/ flags' = flags
        /\ information' = information
        /\ status' = status \/ \E t, st : CompleteIrp(t, pCurrent, st)
    BY <1>13 DEF IoXoffCounted, CancelQueue
  <2> QED BY <1>3, <1>4, <2>1
<1> QED BY <1>5, <1>6, <1>7, <1>8, <1>9, <1>10, <1>11, <1>12, <1>13 DEF Next, Start

\* After IoCompleteRequest the IRP belongs to the I/O manager: no step of the
\* driver writes to its status, its byte count or the state kept in it.
THEOREM NoWriteAfterCompletion ==
  ASSUME NoOvertaking PROVE Spec => UntouchedAfterCompletion
<1> DEFINE A == \A i \in Irps : completions[i] > 0 =>
                  UNCHANGED <<status[i], information[i], flags[i]>>
<1>1. TypeInv /\ OwnerInv /\ PlacesInv /\ OwnInv /\ [Next]_vars => [A]_vars
  BY UntouchedStep
<1>2. Spec => [][A]_vars
  BY <1>1, OwnInvInvariant, PTL DEF Spec
<1> QED BY <1>2 DEF UntouchedAfterCompletion

-----------------------------------------------------------------------------
(***************************************************************************)
(* What STATUS_PENDING may hide.  The thread that dispatches a request and *)
(* ends it in a second round writes STATUS_PENDING over its status.  While *)
(* it holds the lock no timeout can have marked the request, and whatever  *)
(* it ends itself has moved all its bytes or was cancelled.  This needs    *)
(* nothing of where the requests are, and is true of every queue.          *)
(***************************************************************************)
Full(i) == information[i] = Length(i) \/ ioCancel[i] # "no"

\* An XOFF_COUNTER whose character is out.
Counted(i) == i \in Irps /\ kind[i] = "xoff" /\ information[i] = 1

\* The requests that the holder of the lock remembers.
Remembered ==
  \A t \in Threads :
    /\ At(t, "restore") \/ At(t, "recheck") => local.irp \in Irps
    /\ At(t, "more") \/ At(t, "sweep") => Counted(local.irp)
    /\ At(t, "xoff") => Counted(pCurrent)
    /\ (At(t, "restore") \/ At(t, "recheck")) /\ local.sent =>
         pCurrent = local.irp /\ Counted(pCurrent)
    /\ At(t, "drop") => local.irp \in Irps /\ ioCancel[local.irp] # "no"

Bounded == \A i \in Irps : information[i] <= Length(i)

\* The queue of the writes holds nothing else.
OneQueue == IsWriteQueue \/ \A i \in Irps : kind[i] \notin WriteKinds

EndsFull(i) ==
  /\ Completing(i) /\ status[i] \in {"none", "PENDING"} => Full(i)
  /\ lock = Starter(i) => "EXPIRED" \notin flags[i] /\ (Completing(i) => Full(i))

FullInv == OneQueue /\ Bounded /\ Remembered /\ \A i \in Irps : EndsFull(i)

LEMMA InitFullInv == Init => FullInv
<1> SUFFICES ASSUME Init PROVE FullInv
  OBVIOUS
<1>1. OneQueue
  BY DEF Init, OneQueue, IsWriteQueue, WriteKinds
<1>2. Bounded
  BY IrpAssumption DEF Init, Bounded, Length, GetWriteLength
<1>3. lock = Free /\ \A t \in Threads : lock # t
  BY ThreadFacts DEF Init
<1>4. \A i \in Irps : ~Completing(i) /\ lock # Starter(i)
  BY <1>3, ThreadFacts DEF Init, Completing, InToComplete
<1> QED BY <1>1, <1>2, <1>3, <1>4 DEF FullInv, Remembered, At, EndsFull

LEMMA LengthStays ==
  ASSUME Next
  PROVE  /\ \A i : Length(i)' = Length(i)
         /\ IsWriteQueue' <=> IsWriteQueue
         /\ OneQueue' <=> OneQueue
BY KindStays DEF Length, GetWriteLength, IsWriteQueue, OneQueue

\* A byte count grows by what was missing at most, and is reset only when the
\* request is given back, in a write queue not while a thread holds the lock.
LEMMA CountedStep ==
  ASSUME TypeInv, OwnerInv, Bounded, Next, NEW j \in Irps
  PROVE  \/ \E k \in 0 .. Rest(j) : information'[j] = information[j] + k
         \/ /\ information'[j] = 0 /\ ~Completing(j)'
            /\ lock' = Free \/ ~IsWriteQueue
<1> DEFINE Grows == \E k \in 0 .. Rest(j) : information'[j] = information[j] + k
<1> USE DEF irpVars, queueVars
<1>0. /\ information \in [Irps -> 0 .. DataLength]
      /\ information[j] \in Int /\ Length(j) \in Int /\ information[j] <= Length(j)
  BY LengthType, IrpAssumption DEF TypeInv, Typed, TypedIrps, Bounded
<1>1. ASSUME information'[j] = information[j] PROVE Grows
  BY <1>0, <1>1 DEF Rest
<1>2. ASSUME NEW i \in Irps, StartCheck(i) \/ StartMore(i) PROVE Grows
  <2>1. ASSUME NEW k \in 0 .. Rest(i), NEW p, NEW a, StartIrp(Starter(i), i, k, p, a)
        PROVE  Grows
    <3>1. information' = [information EXCEPT ![i] = @ + k]
      BY <2>1 DEF StartIrp
    <3> QED BY <1>0, <1>1, <3>1
  <2>2. CASE StartMore(i)
    BY <2>1, <2>2 DEF StartMore
  <2>3. CASE StartCheck(i)
    BY <1>1, <2>1, <2>3, CheckCases DEF Refuse, StartLater
  <2> QED BY <1>2, <2>2, <2>3
<1>3. ASSUME NEW i \in Irps, StartEnter(i) \/ StartRefuse(i) \/ CancelRoutine(i)
             \/ IoCancelMark(i) \/ IoCancelTake(i) \/ Return(i)
      PROVE  Grows
  BY <1>1, <1>3 DEF StartEnter, StartRefuse, CancelRoutine, IoCancelMark, IoCancelTake,
                    Return
<1>4. ASSUME NEW i \in Irps, StartEnd(i)
      PROVE  \/ Grows
             \/ information'[j] = 0 /\ ~Completing(j)' /\ lock' = Free
  <2>1. CASE information' = information
    BY <1>1, <2>1
  <2>2. CASE i \in cancelRoutine /\ information' = [information EXCEPT ![i] = 0]
    <3>1. ~Completing(i) /\ toComplete' = toComplete /\ lock' = Free
      BY <1>4, <2>2, Facts DEF StartEnd, OneOwner, Leave
    <3> QED BY <1>0, <1>1, <2>2, <3>1, SameLists
  <2> QED BY <1>4, <2>1, <2>2 DEF StartEnd
<1>5. ASSUME NEW t \in Threads, Engine(t) PROVE Grows
  <2>1. CASE EngineWork(t)
    <3>1. PICK k \in 0 .. Rest(pCurrent) :
            information' = [information EXCEPT ![pCurrent] = @ + k]
      BY <2>1 DEF EngineWork
    <3> QED BY <1>0, <1>1, <3>1
  <2>2. CASE EngineEmpty(t) \/ EngineSkip(t) \/ EngineRestore(t) \/ EngineRecheck(t)
             \/ EngineDrop(t) \/ XoffSent(t) \/ XoffSweep(t) \/ EngineAgain(t)
             \/ EngineLeave(t)
    BY <1>1, <2>2 DEF EngineEmpty, EngineSkip, EngineRestore, EngineRecheck, EngineDrop,
                XoffSent, XoffSweep, EngineAgain, EngineLeave
  <2> QED BY <1>5, <2>1, <2>2 DEF Engine
<1>6. ASSUME NEW t \in Threads, CompleteOne(t)
      PROVE  \/ Grows
             \/ /\ information'[j] = 0 /\ ~Completing(j)'
                /\ lock' = Free \/ ~IsWriteQueue
  <2> DEFINE h == Head(toComplete[t])
  <2>1. /\ toComplete[t] # <<>> /\ toComplete' = [toComplete EXCEPT ![t] = Tail(@)]
        /\ lock' = lock /\ (IsWriteQueue => lock = Free)
        /\ \E x : information' = [information EXCEPT ![h] = IF x THEN 0 ELSE @]
    BY <1>6 DEF CompleteOne
  <2>2. h \in Irps /\ (Completing(j)' <=> Completing(j) /\ j # h)
    BY <2>1, TailOnce DEF TypeInv, Typed, OwnerInv
  <2> HIDE DEF h
  <2> QED BY <1>0, <1>1, <2>1, <2>2
<1>7. ASSUME TimerFire \/ IoEnter \/ PurgeEnter \/ TimeoutRoutine \/ IoXoffCounted
             \/ CancelQueue
      PROVE  Grows
  BY <1>1, <1>7 DEF TimerFire, IoEnter, PurgeEnter, TimeoutRoutine, IoXoffCounted,
                    CancelQueue
<1> QED BY <1>2, <1>3, <1>4, <1>5, <1>6, <1>7 DEF Next, Start

LEMMA CountedIsFull ==
  ASSUME NEW j, Counted(j)
  PROVE  Length(j) = 1 /\ Full(j)
BY DEF Counted, Full, Length, GetWriteLength

LEMMA FullStep ==
  ASSUME TypeInv, OwnerInv, OneQueue, Bounded, Next, NEW j \in Irps
  PROVE  /\ information'[j] <= Length(j)'
         /\ ioCancel[j] # "no" => ioCancel'[j] # "no"
         /\ Full(j) /\ Completing(j)' => Full(j)'
         /\ Counted(j) /\ lock' # Free => Counted(j)'
<1>0. /\ information[j] \in Int /\ Length(j) \in Nat /\ information[j] <= Length(j)
      /\ Length(j)' = Length(j)
  BY LengthType, LengthStays, IrpAssumption DEF TypeInv, Typed, TypedIrps, Bounded
<1>1. ioCancel[j] # "no" => ioCancel'[j] # "no"
  <2>1. ioCancel \in [Irps -> {"no", "marked", "done"}]
    BY Facts
  <2>2. \/ ioCancel' = ioCancel
        \/ \E i \in Irps : ioCancel' = [ioCancel EXCEPT ![i] = "marked"]
        \/ \E i \in Irps : ioCancel' = [ioCancel EXCEPT ![i] = "done"]
    BY DEF Next, Start, Engine, IoCancelMark, IoCancelTake, StartEnter, StartCheck,
           StartMore, StartRefuse, StartEnd, Return, CancelRoutine, EngineEmpty,
           EngineSkip, EngineWork, EngineRestore, EngineRecheck, EngineDrop, XoffSent,
           XoffSweep, EngineAgain, EngineLeave, CompleteOne, TimerFire, TimeoutRoutine,
           IoEnter, IoXoffCounted, PurgeEnter, CancelQueue
  <2> QED BY <2>1, <2>2
<1>2. CASE \E k \in 0 .. Rest(j) : information'[j] = information[j] + k
  <2>1. /\ information'[j] <= Length(j)
        /\ information[j] = Length(j) => information'[j] = Length(j)
    BY <1>0, <1>2 DEF Rest
  <2>2. Counted(j) => Counted(j)'
    BY <1>0, <1>2, CountedIsFull, KindStays DEF Counted, Rest
  <2> QED BY <1>0, <1>1, <2>1, <2>2 DEF Full
<1>3. CASE /\ information'[j] = 0 /\ ~Completing(j)'
           /\ lock' = Free \/ ~IsWriteQueue
  <2>1. Counted(j) => IsWriteQueue
    BY DEF Counted, OneQueue, WriteKinds
  <2> QED BY <1>0, <1>1, <1>3, <2>1
<1> QED BY <1>2, <1>3, CountedStep

\* Only the timer marks a request as expired.
LEMMA ExpiredStep ==
  ASSUME TypeInv, OwnerInv, Next, NEW j \in Irps,
         "EXPIRED" \in flags'[j], "EXPIRED" \notin flags[j]
  PROVE  lock' \in {Dpc, Free}
<1> DEFINE Goal == lock' \in {Dpc, Free}
<1> USE DEF irpVars, queueVars
<1>0. flags \in [Irps -> SUBSET Flags]
  BY DEF TypeInv, WellPlaced, Places, Here, Place
<1>1. ASSUME NEW p, p.flags \in [Irps -> SUBSET Flags], "EXPIRED" \notin p.flags[j]
      PROVE  /\ "EXPIRED" \notin Shift(p).flags[j]
             /\ Shift(p).flags \in [Irps -> SUBSET Flags]
             /\ \A i \in Irps :
                  /\ "EXPIRED" \notin MakeCurrent(p, i).flags[j]
                  /\ MakeCurrent(p, i).flags \in [Irps -> SUBSET Flags]
                  /\ "EXPIRED" \notin InsertTail(p, i).flags[j]
                  /\ InsertTail(p, i).flags \in [Irps -> SUBSET Flags]
                  /\ "EXPIRED" \notin Unlink(p, i).flags[j]
                  /\ Unlink(p, i).flags \in [Irps -> SUBSET Flags]
             /\ "EXPIRED" \notin PushCurrent(p).flags[j]
             /\ PushCurrent(p).flags \in [Irps -> SUBSET Flags]
  <2>1. /\ "EXPIRED" \notin Shift(p).flags[j]
        /\ Shift(p).flags \in [Irps -> SUBSET Flags]
    BY <1>1 DEF Shift, Place, Flags
  <2>2. /\ "EXPIRED" \notin PushCurrent(p).flags[j]
        /\ PushCurrent(p).flags \in [Irps -> SUBSET Flags]
    BY <1>1 DEF PushCurrent, Place, Flags
  <2>3. ASSUME NEW i \in Irps
        PROVE  /\ "EXPIRED" \notin MakeCurrent(p, i).flags[j]
               /\ MakeCurrent(p, i).flags \in [Irps -> SUBSET Flags]
               /\ "EXPIRED" \notin InsertTail(p, i).flags[j]
               /\ InsertTail(p, i).flags \in [Irps -> SUBSET Flags]
               /\ "EXPIRED" \notin Unlink(p, i).flags[j]
               /\ Unlink(p, i).flags \in [Irps -> SUBSET Flags]
    BY <1>1 DEF MakeCurrent, InsertTail, Unlink, Place, Flags
  <2> QED BY <2>1, <2>2, <2>3
<1>2. Here.flags \in [Irps -> SUBSET Flags] /\ "EXPIRED" \notin Here.flags[j]
  BY <1>0 DEF Here, Place
<1>3. ~Put(Shift(Here)) /\ flags' # flags /\ ~Put(Here)
  BY <1>1, <1>2 DEF Put, Here, Place
<1>4. ASSUME NEW i \in Irps, NEW k, NEW p, NEW a, StartIrp(Starter(i), i, k, p, a),
             p.flags \in [Irps -> SUBSET Flags], "EXPIRED" \notin p.flags[j]
      PROVE  FALSE
  <2> DEFINE q == MakeCurrent(p, i)
  <2>1. q.flags \in [Irps -> SUBSET Flags] /\ "EXPIRED" \notin q.flags[j]
    BY <1>1, <1>4
  <2>2. flags' = q.flags \/ flags' = Shift(q).flags
    BY <1>4 DEF StartIrp, Put
  <2> HIDE DEF q
  <2> QED BY <1>1, <2>1, <2>2
<1>5. ASSUME NEW i \in Irps, StartCheck(i) \/ StartMore(i) PROVE FALSE
  <2>1. CASE StartMore(i)
    BY <1>2, <1>4, <2>1 DEF StartMore
  <2>2. ASSUME NEW k, StartIrp(Starter(i), i, k, PushCurrent(Here), amountInWriteQueue)
        PROVE  FALSE
    <3> DEFINE p == PushCurrent(Here)
    <3>1. p.flags \in [Irps -> SUBSET Flags] /\ "EXPIRED" \notin p.flags[j]
      BY <1>1, <1>2
    <3> HIDE DEF p
    <3> QED BY <1>4, <2>2, <3>1 DEF p
  <2>3. CASE StartLater(i)
    BY <1>1, <1>2, <2>3 DEF StartLater, Put
  <2>4. CASE Put(Shift(InsertTail(Here, i)))
    <3> DEFINE p == InsertTail(Here, i)
    <3>1. p.flags \in [Irps -> SUBSET Flags] /\ "EXPIRED" \notin p.flags[j]
      BY <1>1, <1>2
    <3> HIDE DEF p
    <3> QED BY <1>1, <2>4, <3>1 DEF Put, p
  <2>5. CASE StartCheck(i)
    BY <1>2, <1>3, <1>4, <2>2, <2>3, <2>4, <2>5, CheckCases DEF Refuse
  <2> QED BY <1>5, <2>1, <2>5
<1>6. ASSUME NEW i \in Irps, StartEnter(i) PROVE FALSE
  BY <1>0, <1>6 DEF StartEnter
<1>7. ASSUME NEW i \in Irps, CancelRoutine(i) PROVE FALSE
  <2> DEFINE p == IF "IN_QUEUE" \in flags[i] THEN Unlink(Here, i) ELSE Here
  <2>1. p.flags \in [Irps -> SUBSET Flags] /\ "EXPIRED" \notin p.flags[j]
    BY <1>1, <1>2
  <2>2. Put(p) \/ Put(Shift(p))
    BY <1>7 DEF CancelRoutine
  <2> HIDE DEF p
  <2> QED BY <1>1, <2>1, <2>2 DEF Put
<1>8. ASSUME NEW i \in Irps, IoCancelMark(i) \/ IoCancelTake(i) \/ StartRefuse(i)
             \/ StartEnd(i) \/ Return(i)
      PROVE  FALSE
  BY <1>3, <1>8 DEF IoCancelMark, IoCancelTake, StartRefuse, StartEnd, Return
<1>9. ASSUME NEW t \in Threads, Engine(t) PROVE FALSE
  <2>1. CASE XoffSweep(t)
    <3>1. Put(MakeCurrent(Here, local.irp))
      BY <1>3, <2>1 DEF XoffSweep
    <3>2. "EXPIRED" \notin MakeCurrent(Here, local.irp).flags[j]
      BY <1>2 DEF MakeCurrent, Place
    <3> QED BY <3>1, <3>2 DEF Put
  <2> QED BY <1>3, <1>9, <2>1
          DEF Engine, EngineEmpty, EngineSkip, EngineWork, EngineRestore, EngineRecheck,
              EngineDrop, XoffSent, EngineAgain, EngineLeave
<1>10. TimeoutRoutine => Goal
  BY DEF TimeoutRoutine, Acquire, Leave
<1> QED BY <1>3, <1>5, <1>6, <1>7, <1>8, <1>9, <1>10
        DEF Next, Start, CompleteOne, TimerFire, IoEnter, IoXoffCounted, PurgeEnter,
            CancelQueue

\* Who puts a request on a completion list gives it a final status, and while
\* its own dispatch holds the lock only one that is full.
LEMMA AddedStep ==
  ASSUME TypeInv, OwnerInv, FullInv, Next, NEW j \in Irps,
         ~Completing(j), Completing(j)'
  PROVE  /\ status'[j] \notin {"none", "PENDING"}
         /\ lock' = Starter(j) => Full(j)'
<1> DEFINE Final == status'[j] \notin {"none", "PENDING"}
           Goal  == Final /\ (lock' = Starter(j) => Full(j)')
<1> SUFFICES Goal
  OBVIOUS
<1> USE ThreadFacts, ThreadsDiffer DEF irpVars, queueVars
<1>0. /\ status \in [Irps -> Status] /\ cancelRoutine \subseteq Irps
      /\ OneQueue /\ Bounded /\ Remembered /\ EndsFull(j)
      /\ toComplete' # toComplete
  BY SameLists, Facts DEF TypeInv, Typed, TypedIrps, FullInv
<1>1. Full(j) => Full(j)'
  BY <1>0, FullStep
\* What CompleteIrp puts on a list.
<1>2. ASSUME NEW t \in Threads, NEW i, NEW st, CompleteIrp(t, i, st)
      PROVE  j = i /\ status'[j] = st
  <2>1. j = i /\ i \in cancelRoutine
    BY <1>2, CompleteIrpMoves
  <2> QED BY <1>0, <1>2, <2>1 DEF CompleteIrp
<1>3. ASSUME NEW t \in Threads, CompleteOne(t) PROVE FALSE
  <2>1. toComplete[t] # <<>> /\ toComplete' = [toComplete EXCEPT ![t] = Tail(@)]
    BY <1>3 DEF CompleteOne
  <2>2. Completing(j)' => Completing(j)
    BY <2>1, TailOnce DEF TypeInv, Typed, OwnerInv
  <2> QED BY <2>2
<1>4. ASSUME NEW i \in Irps, StartMore(i) PROVE Goal
  <2>1. j = local.irp /\ status'[j] = "MORE_WRITES"
    BY <1>2, <1>4 DEF StartMore
  <2>2. Full(j)
    BY <1>0, <1>4, <2>1, CountedIsFull DEF StartMore, Remembered
  <2> QED BY <1>1, <2>1, <2>2
<1>5. ASSUME NEW i \in Irps, CancelRoutine(i) PROVE Goal
  <2>1. /\ status' = [status EXCEPT ![i] = "CANCELLED"]
        /\ toComplete' = [toComplete EXCEPT ![Canceller(i)] = Append(@, i)]
        /\ lock' \in {Canceller(i), Free} /\ ~Completing(i)
    BY <1>5, Facts DEF CancelRoutine, Acquire, Leave, OneOwner, Running
  <2>2. j = i
    BY <2>1, AppendOnce DEF TypeInv, Typed, OwnerInv
  <2> QED BY <1>0, <2>1, <2>2
<1>6. ASSUME NEW t \in Threads, EngineWork(t) PROVE Goal
  <2>1. PICK k \in 0 .. Rest(pCurrent) :
          LET st == StopStatus(pCurrent, k = Rest(pCurrent)) IN
          /\ st # "PENDING"
          /\ information' = [information EXCEPT ![pCurrent] = @ + k]
          /\ status' = [status EXCEPT ![pCurrent] = st]
          /\ toComplete' = [toComplete EXCEPT ![t] = Append(@, pCurrent)]
    BY <1>0, <1>6 DEF EngineWork
  <2>2. pCurrent \in cancelRoutine /\ lock = t /\ lock' = t
    BY <1>6 DEF EngineWork, At
  <2>3. ~Completing(pCurrent) /\ pCurrent \in Irps
    BY <2>2, Facts DEF OneOwner
  <2>4. j = pCurrent
    BY <2>1, <2>3, AppendOnce DEF TypeInv, Typed, OwnerInv
  <2>5. CASE k = Rest(pCurrent) /\ kind[pCurrent] # "xoff"
    <3>1. status'[j] = "SUCCESS"
      BY <1>0, <2>1, <2>4, <2>5 DEF StopStatus
    <3>2. information[j] \in Int /\ Length(j) \in Int /\ Length(j)' = Length(j)
      BY LengthType, LengthStays, IrpAssumption
    <3>3. information'[j] = information[j] + Rest(j)
      BY <2>1, <2>4, <2>5 DEF TypeInv, Typed, TypedIrps
    <3>4. information'[j] = Length(j)'
      BY <3>2, <3>3 DEF Rest
    <3> QED BY <3>1, <3>4 DEF Full
  <2>6. CASE ~(k = Rest(pCurrent) /\ kind[pCurrent] # "xoff")
    <3>1. status'[j] = "TIMEOUT" /\ "EXPIRED" \in flags[j]
      BY <1>0, <2>1, <2>4, <2>6 DEF StopStatus
    <3> QED BY <1>0, <2>2, <3>1 DEF EndsFull
  <2> QED BY <2>5, <2>6
<1>7. ASSUME NEW t \in Threads, EngineDrop(t) PROVE Goal
  <2>1. j = local.irp /\ status'[j] = "CANCELLED"
    BY <1>2, <1>7 DEF EngineDrop
  <2>2. Full(j)
    BY <1>0, <1>7, <2>1 DEF EngineDrop, Remembered, Full
  <2> QED BY <1>1, <2>1, <2>2
<1>8. ASSUME NEW t \in Threads, XoffSweep(t) PROVE Goal
  <2>1. \/ CompleteIrp(t, pCurrent, "SUCCESS") /\ kind[pCurrent] = "flush"
        \/ CompleteIrp(t, local.irp, "MORE_WRITES")
    BY <1>0, <1>8 DEF XoffSweep
  <2>2. CASE CompleteIrp(t, pCurrent, "SUCCESS") /\ kind[pCurrent] = "flush"
    <3>1. j = pCurrent /\ status'[j] = "SUCCESS"
      BY <1>2, <2>2
    <3>2. Length(j) = 0
      BY <2>2, <3>1 DEF Length, GetWriteLength
    <3>3. information[j] = 0
      BY <1>0, <3>2, LengthType, IrpAssumption DEF Bounded
    <3> QED BY <1>1, <3>1, <3>2, <3>3 DEF Full
  <2>3. CASE CompleteIrp(t, local.irp, "MORE_WRITES")
    <3>1. j = local.irp /\ status'[j] = "MORE_WRITES"
      BY <1>2, <2>3
    <3>2. Full(j)
      BY <1>0, <1>8, <3>1, CountedIsFull DEF XoffSweep, Remembered
    <3> QED BY <1>1, <3>1, <3>2
  <2> QED BY <2>1, <2>2, <2>3
<1>9. ASSUME IoXoffCounted \/ CancelQueue PROVE Goal
  <2>1. /\ lock' \in {Free, Purger}
        /\ \E t \in Threads : \E st \in {"SUCCESS", "CANCELLED"} :
             CompleteIrp(t, pCurrent, st)
    BY <1>0, <1>9 DEF IoXoffCounted, CancelQueue, Leave, At
  <2>2. status'[j] \in {"SUCCESS", "CANCELLED"}
    BY <1>2, <2>1
  <2> QED BY <2>1, <2>2
<1>10. ASSUME \/ \E i \in Irps : StartEnter(i) \/ StartCheck(i) \/ StartRefuse(i)
                                 \/ StartEnd(i) \/ IoCancelMark(i) \/ IoCancelTake(i)
                                 \/ Return(i)
              \/ \E t : EngineEmpty(t) \/ EngineSkip(t) \/ EngineRestore(t)
                        \/ EngineRecheck(t) \/ XoffSent(t) \/ EngineAgain(t)
                        \/ EngineLeave(t)
              \/ TimerFire \/ TimeoutRoutine \/ IoEnter \/ PurgeEnter
       PROVE  toComplete' = toComplete
  BY <1>10 DEF StartEnter, StartCheck, StartRefuse, StartEnd, IoCancelMark,
               IoCancelTake, Return, EngineEmpty, EngineSkip, EngineRestore,
               EngineRecheck, XoffSent, EngineAgain, EngineLeave, TimerFire,
               TimeoutRoutine, IoEnter, PurgeEnter
<1> QED BY <1>0, <1>3, <1>4, <1>5, <1>6, <1>7, <1>8, <1>9, <1>10
        DEF Next, Start, Engine

\* STATUS_PENDING is written by the dispatch of the request, under the lock.
LEMMA PendingStep ==
  ASSUME TypeInv, OwnerInv, Next, NEW j \in Irps,
         Completing(j), Completing(j)', status'[j] \in {"none", "PENDING"},
         status'[j] # status[j]
  PROVE  lock = Starter(j)
<1> USE ThreadFacts DEF irpVars, queueVars
<1>0. status \in [Irps -> Status] /\ OneOwner(j)
  BY Facts DEF TypeInv, Typed, TypedIrps
<1>1. ASSUME NEW t, NEW i,
             NEW st \in {"SUCCESS", "CANCELLED", "MORE_WRITES"}, CompleteIrp(t, i, st)
      PROVE  FALSE
  <2>1. status' = status \/ status' = [status EXCEPT ![i] = st]
    BY <1>1 DEF CompleteIrp
  <2> QED BY <1>0, <2>1
<1>2. ASSUME NEW i \in Irps, StartCheck(i) \/ StartEnd(i) PROVE lock = Starter(j)
  <2>1. lock = Starter(i)
    BY <1>2 DEF StartCheck, StartEnd, At
  <2>2. status' = status \/ status' = [status EXCEPT ![i] = "PENDING"]
    BY <1>2 DEF StartCheck, StartFirst, StartImmediate, StartLater, StartOverXoff,
                Refuse, StartEnd
  <2> QED BY <1>0, <2>1, <2>2
<1>3. ASSUME NEW i \in Irps, StartMore(i) PROVE FALSE
  BY <1>1, <1>3 DEF StartMore
<1>4. ASSUME NEW i \in Irps, CancelRoutine(i) PROVE FALSE
  BY <1>0, <1>4 DEF CancelRoutine
<1>5. ASSUME NEW i \in Irps, Return(i) PROVE FALSE
  <2>1. i = j /\ pc[Starter(i)] = "complete" /\ ret[i] # "PENDING"
    BY <1>0, <1>5 DEF Return
  <2> QED BY <1>0, <2>1 DEF OneOwner, Returning
<1>6. ASSUME NEW t \in Threads, CompleteOne(t) PROVE FALSE
  <2> DEFINE h == Head(toComplete[t])
  <2>1. /\ toComplete[t] # <<>> /\ toComplete' = [toComplete EXCEPT ![t] = Tail(@)]
        /\ \E st : status' = [status EXCEPT ![h] = st]
    BY <1>6 DEF CompleteOne
  <2>2. Completing(j)' <=> Completing(j) /\ j # h
    BY <2>1, TailOnce DEF TypeInv, Typed, OwnerInv
  <2> HIDE DEF h
  <2> QED BY <1>0, <2>1, <2>2
<1>7. ASSUME NEW t \in Threads, Engine(t) PROVE FALSE
  <2>1. CASE EngineWork(t)
    <3>1. \/ status' = status
          \/ \E st \in {"SUCCESS", "TIMEOUT"} : status' = [status EXCEPT ![pCurrent] = st]
      BY <2>1 DEF EngineWork, StopStatus
    <3> QED BY <1>0, <3>1
  <2>2. CASE EngineDrop(t)
    BY <1>1, <2>2 DEF EngineDrop
  <2>3. CASE XoffSweep(t)
    BY <1>1, <2>3 DEF XoffSweep
  <2> QED BY <1>7, <2>1, <2>2, <2>3
          DEF Engine, EngineEmpty, EngineSkip, EngineRestore, EngineRecheck, XoffSent,
              EngineAgain, EngineLeave
<1>8. ASSUME IoXoffCounted \/ CancelQueue PROVE FALSE
  BY <1>1, <1>8 DEF IoXoffCounted, CancelQueue
<1> QED BY <1>2, <1>3, <1>4, <1>5, <1>6, <1>7, <1>8
        DEF Next, Start, IoCancelMark, IoCancelTake, StartEnter, StartRefuse, TimerFire,
            TimeoutRoutine, IoEnter, PurgeEnter

\* A dispatch thread gets the lock by entering.
LEMMA StarterTakes ==
  ASSUME Next, NEW j \in Irps, lock' = Starter(j), lock # Starter(j)
  PROVE  StartEnter(j)
<1> USE ThreadFacts, ThreadsDiffer DEF irpVars, queueVars
<1>1. ASSUME NEW i \in Irps, StartEnter(i) PROVE i = j
  BY <1>1 DEF StartEnter, Acquire
<1>2. ASSUME NEW i \in Irps, StartCheck(i) \/ StartMore(i) \/ StartRefuse(i) \/ StartEnd(i)
      PROVE  lock' \in {lock, Free}
  BY <1>2 DEF StartCheck, StartMore, StartIrp, StartFirst, StartImmediate, StartLater,
              StartOverXoff, Refuse, StartRefuse, StartEnd, Leave
<1>3. ASSUME NEW i \in Irps, CancelRoutine(i) PROVE lock' \in {Canceller(i), Free}
  BY <1>3 DEF CancelRoutine, Acquire, Leave
<1>4. ASSUME NEW t \in Threads, Engine(t) PROVE lock' \in {lock, Free}
  BY <1>4 DEF Engine, EngineEmpty, EngineSkip, EngineWork, EngineRestore, EngineRecheck,
              EngineDrop, XoffSent, XoffSweep, EngineAgain, EngineLeave, Leave
<1>5. ASSUME TimeoutRoutine \/ IoEnter \/ IoXoffCounted \/ PurgeEnter \/ CancelQueue
      PROVE  lock' \in {lock, Free, Dpc, Io, Purger}
  BY <1>5 DEF TimeoutRoutine, IoEnter, IoXoffCounted, PurgeEnter, CancelQueue, Acquire,
              Leave
<1> QED BY <1>1, <1>2, <1>3, <1>4, <1>5
        DEF Next, Start, IoCancelMark, IoCancelTake, Return, CompleteOne, TimerFire

LEMMA EndsFullStep ==
  ASSUME TypeInv, OwnerInv, FullInv, Next, NEW j \in Irps
  PROVE  EndsFull(j)'
<1>0. EndsFull(j) /\ OneQueue /\ Bounded /\ OneOwner(j)
  BY Facts DEF FullInv
<1>1. ASSUME Completing(j)', status'[j] \in {"none", "PENDING"} PROVE Full(j)'
  <2>1. CASE ~Completing(j)
    BY <1>1, <2>1, AddedStep
  <2>2. CASE Completing(j) /\ status'[j] = status[j]
    BY <1>0, <1>1, <2>2, FullStep DEF EndsFull
  <2>3. CASE Completing(j) /\ status'[j] # status[j]
    <3>1. lock = Starter(j)
      BY <1>1, <2>3, PendingStep
    <3> QED BY <1>0, <1>1, <2>3, <3>1, FullStep DEF EndsFull
  <2> QED BY <2>1, <2>2, <2>3
<1>2. ASSUME lock' = Starter(j) PROVE "EXPIRED" \notin flags'[j] /\ (Completing(j)' => Full(j)')
  <2>1. Starter(j) \notin {Dpc, Free}
    BY ThreadsDiffer, ThreadFacts
  <2>2. CASE lock = Starter(j)
    <3>1. "EXPIRED" \notin flags'[j]
      BY <1>0, <1>2, <2>1, <2>2, ExpiredStep DEF EndsFull
    <3>2. ASSUME Completing(j)' PROVE Full(j)'
      BY <1>0, <1>2, <2>2, <3>2, AddedStep, FullStep DEF EndsFull
    <3> QED BY <3>1, <3>2
  <2>3. CASE lock # Starter(j)
    <3>1. StartEnter(j)
      BY <1>2, <2>1, <2>3, StarterTakes
    <3>2. flags' = [flags EXCEPT ![j] = {}] /\ toComplete' = toComplete /\ ~Completing(j)
      BY <1>0, <3>1 DEF StartEnter, OneOwner
    <3>3. flags'[j] = {}
      BY <3>2 DEF TypeInv, WellPlaced, Places, Here, Place
    <3> QED BY <3>2, <3>3, SameLists
  <2> QED BY <2>2, <2>3
<1> QED BY <1>1, <1>2 DEF EndsFull

\* What the step of a thread t leaves for its next one to rely on.
LEMMA RememberedStep ==
  ASSUME TypeInv, OwnerInv, FullInv, Next
  PROVE  Remembered'
<1> USE ThreadFacts, ThreadsDiffer DEF irpVars, queueVars
<1> DEFINE Marks == {"more", "sweep", "xoff", "restore", "recheck", "drop"}
<1>0. /\ pc \in [Threads -> Labels] /\ lock \in Threads \cup {Free}
      /\ information \in [Irps -> 0 .. DataLength]
      /\ local \in [irp : Irps \cup {NoIrp}, first : BOOLEAN, sent : BOOLEAN,
                    rounds : 0 .. MaxRounds]
      /\ OneQueue /\ Bounded /\ Remembered
  BY Facts DEF TypeInv, Typed, TypedIrps, TypedRest, FullInv
<1>1. /\ \A j : Counted(j) /\ lock' # Free => Counted(j)'
      /\ \A j \in Irps : ioCancel[j] # "no" => ioCancel'[j] # "no"
  BY <1>0, FullStep DEF Counted
<1>2. \A t \in Threads : \A label : At(t, label) => t # Free
  OBVIOUS
\* Nobody is where something is remembered.
<1>3. ASSUME \A t \in Threads : \A label \in Marks : ~At(t, label)' PROVE Remembered'
  BY <1>3 DEF Remembered
<1>4. ASSUME lock' = Free PROVE Remembered'
  BY <1>3, <1>4 DEF At
<1>5. ASSUME NEW t \in Threads, lock' = t, NEW label, label \notin Marks,
             pc' = [pc EXCEPT ![t] = label]
      PROVE  Remembered'
  BY <1>0, <1>3, <1>5 DEF At
<1>6. ASSUME UNCHANGED <<pCurrent, local>>,
             \A t \in Threads : \A label \in Marks : At(t, label)' => At(t, label)
      PROVE  Remembered'
  <2> SUFFICES ASSUME NEW t \in Threads, lock' = t PROVE
         /\ (At(t, "restore") \/ At(t, "recheck") => local.irp \in Irps)'
         /\ (At(t, "more") \/ At(t, "sweep") => Counted(local.irp))'
         /\ (At(t, "xoff") => Counted(pCurrent))'
         /\ ((At(t, "restore") \/ At(t, "recheck")) /\ local.sent =>
               pCurrent = local.irp /\ Counted(pCurrent))'
         /\ (At(t, "drop") => local.irp \in Irps /\ ioCancel[local.irp] # "no")'
    BY DEF Remembered, At
  <2>1. lock' # Free
    OBVIOUS
  <2>2. Counted(local.irp) => Counted(local.irp)'
    BY <1>1, <1>6, <2>1 DEF Counted
  <2>3. Counted(pCurrent) => Counted(pCurrent)'
    BY <1>1, <1>6, <2>1 DEF Counted
  <2>4. local.irp \in Irps /\ ioCancel[local.irp] # "no" =>
          (local.irp \in Irps /\ ioCancel[local.irp] # "no")'
    BY <1>1, <1>6
  <2> QED BY <1>0, <1>6, <2>2, <2>3, <2>4 DEF Remembered
<1>7. ASSUME \/ \E i \in Irps : IoCancelMark(i) \/ IoCancelTake(i) \/ Return(i)
             \/ \E t \in Threads : CompleteOne(t)
             \/ TimerFire
      PROVE  Remembered'
  <2>1. Marks \subseteq Labels \ {"idle", "call", "complete"}
    BY DEF Labels
  <2>2. /\ UNCHANGED <<pCurrent, local>>
        /\ \A t \in Threads : \A label \in Marks : At(t, label)' => At(t, label)
    BY <1>7, <2>1, QuietFacts
  <2> HIDE DEF Marks
  <2> QED BY <1>6, <2>2
<1>8. ASSUME NEW i \in Irps, StartEnter(i) PROVE Remembered'
  BY <1>5, <1>8 DEF StartEnter, Acquire, Goto
<1>9. ASSUME NEW i \in Irps, NEW k \in 0 .. Rest(i), NEW p, NEW a,
             lock = Starter(i), StartIrp(Starter(i), i, k, p, a)
      PROVE  Remembered'
  <2>1. \/ \E label \in {"next", "end"} : pc' = [pc EXCEPT ![Starter(i)] = label]
        \/ /\ pc' = [pc EXCEPT ![Starter(i)] = "xoff"]
           /\ k = Rest(i) /\ kind[i] = "xoff" /\ Put(MakeCurrent(p, i))
    BY <1>9 DEF StartIrp, Goto
  <2>2. lock' = Starter(i) /\ information'[i] = information[i] + k
    BY <1>0, <1>9 DEF StartIrp
  <2>3. CASE \E label \in {"next", "end"} : pc' = [pc EXCEPT ![Starter(i)] = label]
    BY <1>5, <2>2, <2>3
  <2>4. CASE /\ pc' = [pc EXCEPT ![Starter(i)] = "xoff"]
             /\ k = Rest(i) /\ kind[i] = "xoff" /\ Put(MakeCurrent(p, i))
    <3>1. pCurrent' = i
      BY <2>4 DEF Put, MakeCurrent, Place
    <3>2. information[i] \in Int /\ Length(i) = 1
      BY <2>4, LengthType, IrpAssumption DEF Length, GetWriteLength
    <3>3. information'[i] = 1
      BY <2>2, <2>4, <3>2 DEF Rest
    <3>5. kind'[i] = "xoff"
      BY <2>4, KindStays
    <3>6. \A t \in Threads : \A label : At(t, label)' => t = Starter(i) /\ label = "xoff"
      BY <1>0, <2>2, <2>4 DEF At
    <3> QED BY <3>1, <3>3, <3>5, <3>6 DEF Remembered, Counted
  <2> QED BY <2>1, <2>3, <2>4
<1>10. ASSUME NEW i \in Irps, StartMore(i) PROVE Remembered'
  BY <1>9, <1>10 DEF StartMore, At
<1>11. ASSUME NEW i \in Irps, StartCheck(i) PROVE Remembered'
  <2>0. lock = Starter(i)
    BY <1>11 DEF StartCheck, At
  <2>1. ASSUME NEW st, Refuse(i, st) PROVE Remembered'
    BY <1>5, <2>0, <2>1 DEF Refuse, Goto
  <2>2. CASE StartLater(i)
    BY <1>4, <2>2 DEF StartLater, Leave
  <2>3. ASSUME StartOverXoff(i), local' = [local EXCEPT !.irp = pCurrent],
               Goto(Starter(i), "more"), UNCHANGED <<information, lock>>
        PROVE  Remembered'
    <3>1. pCurrent \in Irps
      BY <2>3 DEF StartOverXoff, TypeInv, WellPlaced, Places, Here, Place
    <3>2. kind[pCurrent] = "xoff" /\ information[pCurrent] # 0
      BY <2>3 DEF StartOverXoff, IsStartedXoff
    <3>3. Length(pCurrent) = 1 /\ information[pCurrent] \in Nat
      BY <3>1, <3>2, LengthType, IrpAssumption DEF Length, GetWriteLength
    <3>4. information'[pCurrent] = 1 /\ kind'[pCurrent] = "xoff"
      BY <1>0, <2>3, <3>1, <3>2, <3>3, KindStays DEF Bounded
    <3>8. local'.irp = pCurrent
      BY <1>0, <2>3
    <3>9. Counted(local.irp)'
      BY <3>1, <3>4, <3>8 DEF Counted
    <3>10. \A t \in Threads : \A label : At(t, label)' => t = Starter(i) /\ label = "more"
      BY <1>0, <2>0, <2>3 DEF At, Goto
    <3> QED BY <3>9, <3>10 DEF Remembered
  <2> QED BY <1>9, <1>11, <2>0, <2>1, <2>2, <2>3, CheckCases
<1>12. ASSUME NEW i \in Irps, StartRefuse(i) \/ StartEnd(i) PROVE Remembered'
  BY <1>4, <1>12 DEF StartRefuse, StartEnd, Leave
<1>13. ASSUME NEW i \in Irps, CancelRoutine(i) PROVE Remembered'
  BY <1>4, <1>5, <1>13 DEF CancelRoutine, Acquire, Leave, Goto
<1>14. ASSUME TimeoutRoutine \/ IoEnter \/ PurgeEnter \/ IoXoffCounted PROVE Remembered'
  BY <1>4, <1>5, <1>14 DEF TimeoutRoutine, IoEnter, PurgeEnter, IoXoffCounted, Acquire,
                           Leave, Goto
<1>15. ASSUME CancelQueue PROVE Remembered'
  <2>1. lock = Purger /\ pc[Purger] = "purge"
    BY <1>15 DEF CancelQueue, At
  <2>2. lock' = Free \/ (lock' = lock /\ pc' = pc)
    BY <1>15 DEF CancelQueue, Leave
  <2> QED BY <1>3, <1>4, <2>1, <2>2 DEF At
<1>16. ASSUME NEW t \in Threads, Engine(t) PROVE Remembered'
  <2>0. lock = t
    BY <1>16 DEF Engine, EngineEmpty, EngineSkip, EngineWork, EngineRestore,
                 EngineRecheck, EngineDrop, XoffSent, XoffSweep, EngineAgain,
                 EngineLeave, At
  \* One thread only is where lock and pc say.
  <2>1. ASSUME lock' = t, NEW label, pc' = [pc EXCEPT ![t] = label] \/ (pc' = pc /\ pc[t] = label)
        PROVE  \A u \in Threads : \A l : At(u, l)' => u = t /\ l = label
    BY <1>0, <2>1 DEF At
  <2>2. CASE EngineEmpty(t) \/ EngineSkip(t) \/ EngineDrop(t) \/ EngineAgain(t)
             \/ EngineLeave(t)
    <3>1. \/ lock' = Free
          \/ /\ lock' = t
             /\ \/ pc' = pc /\ pc[t] = "next"
                \/ \E label \in {"next", "end"} : pc' = [pc EXCEPT ![t] = label]
      BY <2>0, <2>2 DEF EngineEmpty, EngineSkip, EngineDrop, EngineAgain, EngineLeave,
                        At, Goto, Leave
    <3> QED BY <1>0, <1>3, <1>4, <1>5, <3>1 DEF At
  <2>3. CASE EngineWork(t)
    <3>1. CASE pc' = pc
      BY <1>3, <2>0, <2>3, <3>1 DEF EngineWork, At
    <3>2. CASE pc' # pc
      <4>1. PICK k \in 0 .. Rest(pCurrent) :
              /\ StopStatus(pCurrent, k = Rest(pCurrent)) = "PENDING"
              /\ information' = [information EXCEPT ![pCurrent] = @ + k]
              /\ local' = [local EXCEPT !.irp = pCurrent,
                             !.sent = k > 0 /\ k = Rest(pCurrent)]
              /\ pCurrent' = pCurrent /\ lock' = lock
              /\ pc' = [pc EXCEPT ![t] = "restore"]
              /\ pCurrent \in Irps
        BY <2>3, <3>2, Facts DEF EngineWork, Goto
      <4>2. local'.irp = pCurrent /\ (local'.sent => k = Rest(pCurrent))
        BY <1>0, <4>1
      <4>3. ASSUME local'.sent PROVE Counted(pCurrent)'
        <5>1. kind[pCurrent] = "xoff"
          BY <4>1, <4>2, <4>3 DEF StopStatus
        <5>2. information[pCurrent] \in Int /\ Length(pCurrent) = 1
          BY <4>1, <5>1, LengthType, IrpAssumption DEF Length, GetWriteLength
        <5>3. information'[pCurrent] = 1
          BY <1>0, <4>1, <4>2, <4>3, <5>2 DEF Rest
        <5> QED BY <4>1, <5>1, <5>3, KindStays DEF Counted
      <4>4. \A u \in Threads : \A l : At(u, l)' => u = t /\ l = "restore"
        BY <2>0, <2>1, <4>1
      <4> QED BY <4>1, <4>2, <4>3, <4>4 DEF Remembered
    <3> QED BY <3>1, <3>2
  <2>4. CASE EngineRestore(t)
    <3>1. /\ At(t, "restore") /\ UNCHANGED <<pCurrent, local, lock>>
          /\ pc' = [pc EXCEPT ![t] = "recheck"]
      BY <2>4 DEF EngineRestore, Goto
    <3>2. local.irp \in Irps /\ (local.sent => pCurrent = local.irp /\ Counted(pCurrent)')
      BY <1>0, <1>1, <2>0, <3>1 DEF Remembered, Counted
    <3>3. \A u \in Threads : \A l : At(u, l)' => u = t /\ l = "recheck"
      BY <2>0, <2>1, <3>1
    <3> QED BY <3>1, <3>2, <3>3 DEF Remembered
  <2>5. CASE EngineRecheck(t)
    <3>1. At(t, "recheck") /\ UNCHANGED <<local, lock, ioCancel>>
      BY <2>5 DEF EngineRecheck
    <3>2. CASE ioCancel[local.irp] # "no" /\ pc' = [pc EXCEPT ![t] = "drop"]
      <4>1. local.irp \in Irps
        BY <1>0, <3>1 DEF Remembered
      <4>2. \A u \in Threads : \A l : At(u, l)' => u = t /\ l = "drop"
        BY <2>0, <2>1, <3>1, <3>2
      <4> QED BY <3>1, <3>2, <4>1, <4>2 DEF Remembered
    <3>3. CASE /\ pCurrent' = pCurrent
               /\ pc' = [pc EXCEPT ![t] = IF local.sent THEN "xoff" ELSE "end"]
      <4>1. CASE local.sent
        <5>1. Counted(pCurrent)'
          BY <1>0, <1>1, <2>0, <3>1, <3>3, <4>1 DEF Remembered, Counted
        <5>2. \A u \in Threads : \A l : At(u, l)' => u = t /\ l = "xoff"
          BY <2>0, <2>1, <3>1, <3>3, <4>1
        <5> QED BY <5>1, <5>2 DEF Remembered
      <4>2. CASE ~local.sent
        BY <1>5, <2>0, <3>1, <3>3, <4>2
      <4> QED BY <4>1, <4>2
    <3> QED BY <2>5, <3>2, <3>3 DEF EngineRecheck, Goto
  <2>6. CASE XoffSent(t)
    <3>1. /\ At(t, "xoff") /\ lock' = lock /\ local'.irp = pCurrent
          /\ pc' = [pc EXCEPT ![t] = "sweep"]
      BY <1>0, <2>6 DEF XoffSent, Goto
    <3>2. Counted(local.irp)'
      BY <1>0, <1>1, <2>0, <3>1 DEF Remembered, Counted
    <3>3. \A u \in Threads : \A l : At(u, l)' => u = t /\ l = "sweep"
      BY <2>0, <2>1, <3>1
    <3> QED BY <3>2, <3>3 DEF Remembered
  <2>7. CASE XoffSweep(t)
    <3>1. /\ At(t, "sweep") /\ lock' = lock
          /\ \/ local' = local /\ pc' = pc
             \/ \E label \in {"end", "next"} : pc' = [pc EXCEPT ![t] = label]
      BY <2>7 DEF XoffSweep, Goto
    <3>2. CASE local' = local /\ pc' = pc
      <4>1. Counted(local.irp)'
        BY <1>0, <1>1, <2>0, <3>1, <3>2 DEF Remembered, Counted
      <4>2. pc[t] = "sweep"
        BY <3>1 DEF At
      <4> QED BY <2>0, <2>1, <3>1, <3>2, <4>1, <4>2 DEF Remembered
    <3> QED BY <1>5, <2>0, <3>1, <3>2
  <2> QED BY <1>16, <2>2, <2>3, <2>4, <2>5, <2>6, <2>7 DEF Engine
<1> QED BY <1>7, <1>8, <1>10, <1>11, <1>12, <1>13, <1>14, <1>15, <1>16 DEF Next, Start

LEMMA FullInvInvariant == Spec => [](TypeInv /\ OwnerInv /\ FullInv)
<1>1. FullInv /\ TypeInv /\ OwnerInv /\ [Next]_vars => FullInv'
  <2> SUFFICES ASSUME FullInv, TypeInv, OwnerInv, [Next]_vars PROVE FullInv'
    OBVIOUS
  <2>1. CASE Next
    <3>1. OneQueue'
      BY <2>1, LengthStays DEF FullInv
    <3>2. Bounded'
      BY <2>1, FullStep DEF FullInv, Bounded
    <3> QED BY <2>1, <3>1, <3>2, RememberedStep, EndsFullStep DEF FullInv
  <2>2. CASE UNCHANGED vars
    BY <2>2 DEF vars, FullInv, OneQueue, IsWriteQueue, Bounded, Remembered, Counted, At,
                EndsFull, Full, Completing, InToComplete, Length, GetWriteLength
  <2> QED BY <2>1, <2>2
<1> QED BY <1>1, InitFullInv, OwnerInvInvariant, PTL DEF Spec

\* A request given back with STATUS_PENDING got all it asked for, or somebody
\* cancelled it: what a second round of ReadWrite writes over hides no timeout,
\* no purge and no end by another thread.
THEOREM PendingHidesNoFailure == Spec => PendingIsWhole
<1> DEFINE A == \A i \in Irps :
       completions'[i] > completions[i] /\ status'[i] \in {"none", "PENDING"} =>
         information[i] = Length(i) \/ ioCancel[i] # "no"
<1>1. TypeInv /\ OwnerInv /\ FullInv /\ Next => A
  <2> SUFFICES ASSUME TypeInv, OwnerInv, FullInv, Next, NEW i \in Irps,
                      completions'[i] > completions[i],
                      status'[i] \in {"none", "PENDING"}
               PROVE  Full(i)
    BY DEF Full
  <2>0. /\ completions \in [Irps -> Nat] /\ status \in [Irps -> Status]
        /\ completions'[i] # completions[i] /\ OneOwner(i)
    BY Facts DEF TypeInv, Typed, TypedIrps
  <2>1. ASSUME NEW j \in Irps, Return(j) PROVE FALSE
    <3>1. j = i /\ status'[i] = ret[i] /\ ret[i] # "PENDING" /\ pc[Starter(i)] = "complete"
      BY <2>0, <2>1 DEF Return
    <3> QED BY <2>0, <3>1 DEF OneOwner
  <2>2. ASSUME NEW t \in Threads, CompleteOne(t) PROVE Full(i)
    <3> DEFINE h == Head(toComplete[t])
    <3>1. /\ toComplete[t] # <<>> /\ toComplete' = [toComplete EXCEPT ![t] = Tail(@)]
          /\ completions' = [completions EXCEPT ![h] = @ + 1]
          /\ \E x : status' = [status EXCEPT ![h] = IF x THEN "COUNTER_TIMEOUT"
                                                    ELSE status[h]]
      BY <2>2 DEF CompleteOne
    <3>2. Completing(h)
      BY <3>1, TailOnce DEF TypeInv, Typed, OwnerInv
    <3> HIDE DEF h
    <3>3. i = h /\ status'[i] = status[i]
      BY <2>0, <3>1
    <3> QED BY <3>2, <3>3 DEF FullInv, EndsFull
  <2>3. Next /\ ~(\E j \in Irps : Return(j)) /\ ~(\E t \in Threads : CompleteOne(t)) =>
          completions' = completions
    BY DEF Next, Start, Engine, irpVars, IoCancelMark, IoCancelTake, StartEnter,
           StartCheck, StartMore, StartRefuse, StartEnd, CancelRoutine, EngineEmpty,
           EngineSkip, EngineWork, EngineRestore, EngineRecheck, EngineDrop, XoffSent,
           XoffSweep, EngineAgain, EngineLeave, TimerFire, TimeoutRoutine, IoEnter,
           IoXoffCounted, PurgeEnter, CancelQueue
  <2> QED BY <2>0, <2>1, <2>2, <2>3
<1>2. TypeInv /\ OwnerInv /\ FullInv /\ [Next]_vars => [A]_vars
  BY <1>1
<1>3. Spec => [][A]_vars
  BY <1>2, FullInvInvariant, PTL DEF Spec
<1> QED BY <1>3 DEF PendingIsWhole
=============================================================================
