------------------------- MODULE SerialWriteProofs -------------------------
(***************************************************************************)
(* Theorems about SerialWrite: the references, the results, the count of   *)
(* characters and the write queue are right for any number of requests.    *)
(***************************************************************************)
EXTENDS SerialWriteSteps

-----------------------------------------------------------------------------
(***************************************************************************)
(* The next write.                                                         *)
(***************************************************************************)
(* Nothing is current, and what comes next is what the queue gives.        *)
Popped(c, u) ==
  LET queue == c.ext.WriteQueue
  IN  /\ u \in StateType /\ u.req = c.req
      /\ u.ext.isr = c.ext.isr /\ u.ext.timer = c.ext.timer
      /\ u.ext.dpc = c.ext.dpc
      /\ \A i \in Slots : i # "write" =>
                            u.ext.current[i] = c.ext.current[i]
      /\ \/ /\ u.ext.current["write"] = NoRequest
            /\ u.ext.WriteQueue = queue
         \/ /\ queue # <<>>
            /\ u.ext.current["write"] = Head(queue)
            /\ u.ext.WriteQueue = Tail(queue)

LEMMA HeadTail ==
  ASSUME NEW c, NEW u, c.ext.WriteQueue \in Seq(Requests),
         c.ext.WriteQueue # <<>>, u.ext.WriteQueue = Tail(c.ext.WriteQueue)
  PROVE  LET h == Head(c.ext.WriteQueue)
         IN  /\ h \in Requests /\ Waits(c, h)
             /\ Once(c) => Once(u) /\ ~Waits(u, h)
             /\ \A r : r # h => (Waits(u, r) <=> Waits(c, r))
<1> DEFINE queue == c.ext.WriteQueue
           rest == Tail(queue)
           h == Head(queue)
<1>1. queue \in Seq(Requests) /\ queue # <<>> /\ u.ext.WriteQueue = rest
  OBVIOUS
<1>2. /\ rest \in Seq(Requests) /\ Len(rest) = Len(queue) - 1
      /\ \A n \in 1 .. Len(rest) : rest[n] = queue[n + 1]
      /\ h = queue[1] /\ Len(queue) \in Nat /\ Len(queue) >= 1
  <2> HIDE DEF queue
  <2>1. Len(queue) \in Nat /\ Len(queue) # 0
    BY <1>1, EmptySeq
  <2> QED
    BY <1>1, <2>1, HeadTailProperties
<1>3. DOMAIN queue = 1 .. Len(queue) /\ DOMAIN rest = 1 .. Len(rest)
  <2> HIDE DEF queue, rest
  <2> QED
    BY <1>1, <1>2
<1>4. h \in Requests
  <2> HIDE DEF queue
  <2> QED
    BY <1>1, <1>2
<1> HIDE DEF rest, h
<1>5. Waits(c, h)
  <2>1. 1 \in 1 .. Len(queue)
    BY <1>2
  <2> QED
    BY <1>2, <1>3, <2>1 DEF Waits
<1>6. ASSUME Once(c)
      PROVE  Once(u) /\ ~Waits(u, h)
  <2>1. \A m, n \in 1 .. Len(queue) : queue[m] = queue[n] => m = n
    BY <1>3, <1>6 DEF Once
  <2> HIDE DEF queue
  <2>2. \A m, n \in 1 .. Len(rest) : rest[m] = rest[n] => m = n
    <3> SUFFICES ASSUME NEW m \in 1 .. Len(rest), NEW n \in 1 .. Len(rest),
                        rest[m] = rest[n]
                 PROVE  m = n
      OBVIOUS
    <3>1. m + 1 \in 1 .. Len(queue) /\ n + 1 \in 1 .. Len(queue)
      BY <1>2
    <3>2. queue[m + 1] = queue[n + 1]
      BY <1>2
    <3>3. m + 1 = n + 1
      BY <2>1, <3>1, <3>2
    <3> QED
      BY <3>3
  <2>3. \A n \in 1 .. Len(rest) : rest[n] # h
    <3> SUFFICES ASSUME NEW n \in 1 .. Len(rest), rest[n] = h
                 PROVE  FALSE
      OBVIOUS
    <3>1. n + 1 \in 1 .. Len(queue) /\ 1 \in 1 .. Len(queue)
      BY <1>2
    <3>2. queue[n + 1] = queue[1]
      BY <1>2
    <3>3. n + 1 = 1
      BY <2>1, <3>1, <3>2
    <3> QED
      BY <3>3
  <2> QED
    BY <1>1, <1>3, <2>2, <2>3 DEF Once, Waits
<1>7. ASSUME NEW r, r # h
      PROVE  Waits(u, r) <=> Waits(c, r)
  <2>1. ASSUME Waits(u, r)
        PROVE  Waits(c, r)
    <3>1. PICK n \in 1 .. Len(rest) : rest[n] = r
      BY <1>1, <1>3, <2>1 DEF Waits
    <3>2. n + 1 \in 1 .. Len(queue)
      <4> HIDE DEF queue
      <4> QED
        BY <1>2
    <3> QED
      BY <1>2, <1>3, <3>1, <3>2 DEF Waits
  <2>2. ASSUME Waits(c, r)
        PROVE  Waits(u, r)
    <3>1. PICK n \in 1 .. Len(queue) : queue[n] = r
      BY <1>3, <2>2 DEF Waits
    <3> HIDE DEF queue
    <3>2. n # 1
      BY <1>2, <1>7, <3>1
    <3>3. n - 1 \in 1 .. Len(rest) /\ (n - 1) + 1 = n
      BY <1>2, <3>2
    <3>4. rest[n - 1] = r
      BY <1>2, <3>1, <3>3
    <3> QED
      BY <1>1, <1>3, <3>3, <3>4 DEF Waits
  <2> QED
    BY <2>1, <2>2
<1> QED
  BY <1>4, <1>5, <1>6, <1>7 DEF h

Starts(m, u) ==
  IF u.ext.current["write"] = NoRequest THEN m
  ELSE [m EXCEPT !["write"] = "start"]

LEMMA PopWhole ==
  ASSUME NEW c, NEW ab, NEW m \in [Slots -> Modes], Whole(c, ab, m),
         m["write"] = "steady", c.ext.current["write"] = NoRequest,
         NEW u, Popped(c, u)
  PROVE  Whole(u, ab, Starts(m, u))
<1> DEFINE slot == "write"
           queue == c.ext.WriteQueue
           h == Head(queue)
<1>1. /\ slot \in Slots /\ "xoff" \in Slots /\ c \in StateType
      /\ c.ext \in ExtensionType /\ NoRequest \notin Requests
      /\ SlotOk(c, ab, slot, "steady")
  BY StateFacts, SerialAssumption DEF Slots, Whole
<1>2. queue \in Seq(Requests)
  BY <1>1 DEF ExtensionType
<1>3. Silent(c, slot)
  BY <1>1 DEF SlotOk, Busy
<1>4. /\ u \in StateType /\ u.req = c.req
      /\ u.ext.isr = c.ext.isr /\ u.ext.timer = c.ext.timer
      /\ u.ext.dpc = c.ext.dpc
      /\ \A i \in Slots : i # slot => u.ext.current[i] = c.ext.current[i]
  BY DEF Popped
<1>5. Shape(u) /\ Owed(u, ab)
  BY <1>1, <1>4 DEF Whole, Shape, Owed
<1>6. \A i \in Slots : i # slot => SlotOk(u, ab, i, m[i])
  <2> SUFFICES ASSUME NEW i \in Slots, i # slot
               PROVE  SlotOk(u, ab, i, m[i])
    OBVIOUS
  <2>1. SlotOk(c, ab, i, m[i])
    BY DEF Whole
  <2> QED
    BY <1>4, <2>1, SlotSame
<1>7. Silent(u, slot)
  BY <1>3, <1>4 DEF Silent
<1>8. CASE u.ext.current[slot] = NoRequest /\ u.ext.WriteQueue = queue
  <2>1. u.ext.current[slot] = c.ext.current[slot]
    BY <1>8
  <2>2. \A i \in Slots : u.ext.current[i] = c.ext.current[i]
    BY <1>4, <2>1
  <2>3. SlotOk(u, ab, slot, "steady")
    BY <1>7, <1>8 DEF SlotOk
  <2>4. \A i \in Slots : SlotOk(u, ab, i, m[i])
    BY <1>6, <2>3
  <2>5. Apart(u) /\ Once(u)
    BY <1>8, <2>2 DEF Whole, Apart, Once
  <2>6. \A r \in Requests : Placed(u, r)
    BY <1>4, <1>8, <2>2 DEF Whole, Placed, Current, Waits
  <2>7. Whole(u, ab, m)
    BY <1>4, <1>5, <2>4, <2>5, <2>6 DEF Whole
  <2> QED
    BY <1>8, <2>7 DEF Starts
<1>9. CASE queue # <<>> /\ u.ext.current[slot] = h
           /\ u.ext.WriteQueue = Tail(queue)
  <2> DEFINE n == [m EXCEPT ![slot] = "start"]
  <2>1. /\ h \in Requests /\ Waits(c, h) /\ Once(u) /\ ~Waits(u, h)
        /\ \A r : r # h => (Waits(u, r) <=> Waits(c, r))
    BY <1>2, <1>9, HeadTail DEF Whole
  <2> HIDE DEF h
  <2>2. /\ ~Current(c, h) /\ Fresh(c.req[h]) /\ c.req[h].issued
        /\ c.req[h].kind # "immediate"
    <3>1. Placed(c, h)
      BY <2>1 DEF Whole
    <3> QED
      BY <2>1, <3>1 DEF Placed
  <2>3. SlotOk(u, ab, slot, "start")
    <3>1. Fits(c.req[h].kind, slot)
      BY <2>2 DEF Fits
    <3> QED
      BY <1>4, <1>7, <1>9, <2>1, <2>2, <3>1 DEF SlotOk
  <2>4. \A i \in Slots : SlotOk(u, ab, i, n[i])
    BY <1>1, <1>6, <2>3
  <2>5. Apart(u)
    <3>1. \A i \in Slots : c.ext.current[i] # h
      BY <2>2 DEF Current
    <3> QED
      BY <1>4, <1>9, <3>1 DEF Whole, Apart
  <2>6. ASSUME NEW r \in Requests
        PROVE  Placed(u, r)
    <3>1. CASE r = h
      <4>1. Current(u, r)
        BY <1>1, <1>9, <3>1 DEF Current
      <4> QED
        BY <2>1, <3>1, <4>1 DEF Placed
    <3>2. CASE r # h
      <4>1. Current(u, r) <=> Current(c, r)
        BY <1>1, <1>4, <1>9, <3>2 DEF Current
      <4>2. Waits(u, r) <=> Waits(c, r)
        BY <2>1, <3>2
      <4>3. Placed(c, r)
        BY DEF Whole
      <4> QED
        BY <1>4, <4>1, <4>2, <4>3 DEF Placed
    <3> QED
      BY <3>1, <3>2
  <2> HIDE DEF n
  <2>7. Whole(u, ab, n)
    BY <1>4, <1>5, <2>1, <2>4, <2>5, <2>6 DEF Whole
  <2>8. u.ext.current[slot] # NoRequest
    BY <1>1, <1>9, <2>1
  <2> QED
    BY <2>7, <2>8 DEF Starts, n
<1> QED
  BY <1>8, <1>9 DEF Popped

(* The XOFF counter in the write slot goes on in a slot of its own.        *)
Moved(t, c, w) ==
  /\ c \in StateType /\ c.ext.WriteQueue = t.ext.WriteQueue
  /\ \A x \in Requests : x # w => c.req[x] = t.req[x]
  /\ c.req[w].kind = t.req[w].kind /\ c.req[w].length = t.req[w].length
  /\ c.ext.current["write"] = NoRequest /\ c.ext.current["xoff"] = w
  /\ c.ext.current["immediate"] = t.ext.current["immediate"]
  /\ \A i \in Slots : i # "xoff" => /\ c.ext.isr[i] = t.ext.isr[i]
                                    /\ c.ext.timer[i] = t.ext.timer[i]
                                    /\ i \in c.ext.dpc <=> i \in t.ext.dpc

(* There is one XOFF counter at most.                                      *)
LEMMA XoffIsFree ==
  ASSUME NEW t, NEW ab, NEW m \in [Slots -> Modes], Whole(t, ab, m),
         m["xoff"] = "steady", t.ext.current["write"] \in Requests,
         IsXoff(t.req[t.ext.current["write"]])
  PROVE  /\ t.ext.current["xoff"] = NoRequest /\ Silent(t, "xoff")
         /\ ab = {}
<1> DEFINE x == t.ext.current["xoff"]
           w == t.ext.current["write"]
<1>1. SlotOk(t, ab, "xoff", "steady") /\ NoRequest \notin Requests
      /\ "xoff" \in Slots /\ "write" \in Slots
  BY SerialAssumption DEF Whole, Slots
<1>2. x = NoRequest /\ Silent(t, "xoff")
  <2> SUFFICES ASSUME Busy(t, ab, "xoff", "none")
               PROVE  FALSE
    BY <1>1 DEF SlotOk
  <2>1. x \in Requests /\ IsXoff(t.req[x])
    BY DEF Busy, Work, Fits, IsXoff
  <2>2. x = w
    BY <2>1 DEF Whole, Shape
  <2> QED
    BY <1>1, <2>1, <2>2 DEF Whole, Apart
<1>3. ab = {}
  BY <1>1, <1>2 DEF Whole, Owed
<1> QED
  BY <1>2, <1>3

LEMMA MoveWhole ==
  ASSUME NEW t, NEW ab, NEW m \in [Slots -> Modes], Whole(t, ab, m),
         m["xoff"] = "steady", m["write"] = "due", Settled(t, "write"),
         IsXoff(t.req[t.ext.current["write"]]),
         NEW c, Moved(t, c, t.ext.current["write"]),
         SlotOk(c, ab, "xoff", "steady")
  PROVE  Whole(c, ab, [m EXCEPT !["write"] = "steady"])
<1> DEFINE w == t.ext.current["write"]
           n == [m EXCEPT !["write"] = "steady"]
<1>1. /\ NoRequest \notin Requests /\ t \in StateType
      /\ "xoff" \in Slots /\ "write" \in Slots /\ "immediate" \in Slots
      /\ \A i \in Slots : i # "xoff" /\ i # "write" => i = "immediate"
  BY SerialAssumption DEF Whole, Slots
<1>2. w \in Requests /\ Busy(t, ab, "write", "none")
  BY <1>1, BusyModes
<1>3. t.ext.current["xoff"] = NoRequest /\ ab = {}
  BY <1>2, XoffIsFree
<1>4. Silent(t, "write")
  BY <1>1, <1>2, SettledIsSilent DEF AllSent
<1>5. /\ c \in StateType /\ c.ext.WriteQueue = t.ext.WriteQueue
      /\ \A x \in Requests : x # w => c.req[x] = t.req[x]
      /\ c.req[w].kind = t.req[w].kind /\ c.req[w].length = t.req[w].length
      /\ c.ext.current["write"] = NoRequest /\ c.ext.current["xoff"] = w
      /\ c.ext.current["immediate"] = t.ext.current["immediate"]
  BY DEF Moved
<1>6. Shape(c)
  <2>1. \A x \in Requests : /\ c.req[x].kind = t.req[x].kind
                            /\ c.req[x].length = t.req[x].length
    BY <1>5
  <2> QED
    BY <2>1 DEF Whole, Shape, IsXoff
<1>7. t.ext.current["immediate"] # w
  BY <1>1, <1>2 DEF Whole, Apart
<1>8. Apart(c)
  BY <1>1, <1>5, <1>7 DEF Apart
<1>9. Once(c) /\ Owed(c, ab)
  BY <1>3, <1>5 DEF Whole, Once, Owed
<1>10. SlotOk(c, ab, "write", "steady")
  <2>1. Silent(c, "write")
    BY <1>1, <1>4 DEF Moved, Silent
  <2> QED
    BY <1>5, <2>1 DEF SlotOk
<1>11. SlotOk(c, ab, "immediate", m["immediate"])
  <2>1. SlotOk(t, ab, "immediate", m["immediate"])
    BY <1>1 DEF Whole
  <2>2. /\ c.ext.isr["immediate"] = t.ext.isr["immediate"]
        /\ c.ext.timer["immediate"] = t.ext.timer["immediate"]
        /\ "immediate" \in c.ext.dpc <=> "immediate" \in t.ext.dpc
    BY <1>1 DEF Moved
  <2>3. t.ext.current["immediate"] \in Requests =>
          c.req[t.ext.current["immediate"]] = t.req[t.ext.current["immediate"]]
    BY <1>5, <1>7
  <2> QED
    BY <1>5, <2>1, <2>2, <2>3, SlotSame
<1>12. \A i \in Slots : SlotOk(c, ab, i, n[i])
  BY <1>1, <1>10, <1>11
<1>13. ASSUME NEW x \in Requests
       PROVE  Placed(c, x)
  <2>1. Placed(t, x)
    BY DEF Whole
  <2>2. Waits(c, x) <=> Waits(t, x)
    BY <1>5 DEF Waits
  <2>3. Current(c, x) <=> Current(t, x)
    BY <1>1, <1>2, <1>3, <1>5 DEF Current
  <2>4. Current(t, w)
    BY <1>1 DEF Current
  <2> QED
    BY <1>5, <2>1, <2>2, <2>3, <2>4 DEF Placed
<1> HIDE DEF n
<1>14. Whole(c, ab, n)
  BY <1>5, <1>6, <1>8, <1>9, <1>12, <1>13 DEF Whole
<1> QED
  BY <1>14 DEF n

(* What SerialGetNextRequest takes out of the queue.                       *)
NextWrite(s) ==
  LET queue == s.ext.WriteQueue
  IN  IF queue = <<>> \/ s.ext.stopped
        THEN [s EXCEPT !.ext.current["write"] = NoRequest]
        ELSE [s EXCEPT !.ext =
                [s.ext EXCEPT
                   !.current["write"] = Head(queue),
                   !.WriteQueue = Tail(queue),
                   !.delivered = s.ext.delivered \cup {Head(queue)}]]

Takes(s, u) ==
  LET queue == s.ext.WriteQueue
  IN  /\ u \in StateType /\ u.req = s.req
      /\ u.ext.isr = s.ext.isr /\ u.ext.timer = s.ext.timer
      /\ u.ext.dpc = s.ext.dpc
      /\ u.ext.TotalCharsQueued = s.ext.TotalCharsQueued
      /\ \A i \in Slots : i # "write" =>
                            u.ext.current[i] = s.ext.current[i]
      /\ \/ /\ queue = <<>> \/ s.ext.stopped
            /\ u.ext.current["write"] = NoRequest
            /\ u.ext.WriteQueue = queue
         \/ /\ queue # <<>>
            /\ u.ext.current["write"] = Head(queue)
            /\ Head(queue) \in Requests
            /\ u.ext.WriteQueue = Tail(queue)

(* Writes stay behind only in a queue that was stopped.                    *)
LEMMA TakesServes ==
  ASSUME NEW s, NEW u, Takes(s, u)
  PROVE  /\ u.ext.current["write"] = NoRequest /\ u.ext.WriteQueue # <<>>
              => s.ext.stopped
         /\ s.ext.WriteQueue = <<>> => u.ext.WriteQueue = <<>>
BY SerialAssumption DEF Takes

LEMMA NextWriteTakes ==
  ASSUME NEW s \in StateType
  PROVE  Takes(s, NextWrite(s))
<1> DEFINE queue == s.ext.WriteQueue
           h == Head(queue)
           rest == Tail(queue)
           u == NextWrite(s)
<1>1. s.ext \in ExtensionType /\ "write" \in Slots
  BY StateFacts DEF Slots
<1>2. queue \in Seq(Requests)
  BY <1>1 DEF ExtensionType
<1>3. CASE queue = <<>> \/ s.ext.stopped
  <2> DEFINE e == [s.ext EXCEPT !.current = [s.ext.current EXCEPT
                                               !["write"] = NoRequest]]
  <2>1. u = PutExt(s, e)
    BY <1>3 DEF NextWrite, PutExt, StateType
  <2>2. /\ e \in ExtensionType /\ e.current["write"] = NoRequest
        /\ \A i \in Slots : i # "write" => e.current[i] = s.ext.current[i]
        /\ e.WriteQueue = queue /\ e.isr = s.ext.isr
        /\ e.timer = s.ext.timer /\ e.dpc = s.ext.dpc
        /\ e.TotalCharsQueued = s.ext.TotalCharsQueued
    BY <1>1 DEF ExtensionType
  <2> HIDE DEF e, u
  <2>3. u \in StateType /\ u.ext = e /\ u.req = s.req
    BY <2>1, <2>2, PutExtFacts
  <2> QED
    BY <1>3, <2>2, <2>3 DEF Takes, u
<1>4. CASE queue # <<>> /\ ~s.ext.stopped
  <2> DEFINE e == [s.ext EXCEPT
                     !.current["write"] = h,
                     !.WriteQueue = rest,
                     !.delivered = s.ext.delivered \cup {h}]
  <2>1. u = PutExt(s, e)
    BY <1>4 DEF NextWrite, PutExt, StateType
  <2>2. h \in Requests /\ rest \in Seq(Requests)
    <3> HIDE DEF queue
    <3> QED
      BY <1>2, <1>4, HeadTailProperties
  <2> HIDE DEF h, rest
  <2>3. /\ e \in ExtensionType /\ e.current["write"] = h
        /\ \A i \in Slots : i # "write" => e.current[i] = s.ext.current[i]
        /\ e.WriteQueue = rest /\ e.isr = s.ext.isr
        /\ e.timer = s.ext.timer /\ e.dpc = s.ext.dpc
        /\ e.TotalCharsQueued = s.ext.TotalCharsQueued
    BY <1>1, <2>2 DEF ExtensionType
  <2> HIDE DEF e, u
  <2>4. u \in StateType /\ u.ext = e /\ u.req = s.req
    BY <2>1, <2>3, PutExtFacts
  <2> QED
    BY <1>4, <2>2, <2>3, <2>4 DEF Takes, u, h, rest
<1> QED
  BY <1>3, <1>4

(* The verdict, and the characters of the write are subtracted.            *)
Lessened(t, v, status) ==
  LET w == t.ext.current["write"]
  IN  /\ v \in StateType
      /\ \A x \in Requests : x # w => v.req[x] = t.req[x]
      /\ Judged(t.req[w], v.req[w], status)
      /\ v.req[w].ended = t.req[w].ended
      /\ v.ext.current = t.ext.current
      /\ v.ext.WriteQueue = t.ext.WriteQueue
      /\ v.ext.stopped = t.ext.stopped
      /\ v.ext.isr = t.ext.isr /\ v.ext.timer = t.ext.timer
      /\ v.ext.dpc = t.ext.dpc /\ v.ext.Timeouts = t.ext.Timeouts
      /\ v.ext.TotalCharsQueued = t.ext.TotalCharsQueued - t.req[w].length

Less(t, status) ==
  [Verdict(t, "write", status) EXCEPT
     !.ext.TotalCharsQueued = @ - t.req[t.ext.current["write"]].length]

LEMMA LessIs ==
  ASSUME NEW t \in StateType, NEW status \in Statuses,
         t.ext.current["write"] \in Requests
  PROVE  Lessened(t, Less(t, status), status)
<1> DEFINE w == t.ext.current["write"]
           q == t.req[w]
           v == Verdict(t, "write", status)
           n == v.ext.TotalCharsQueued - q.length
           u == [v EXCEPT !.ext.TotalCharsQueued = n]
<1>1. "write" \in Slots /\ t.ext \in ExtensionType /\ q \in RequestType
  BY StateFacts DEF Slots
<1>2. PICK f \in RequestType : /\ v = Put(t, w, f)
                               /\ Judged(q, f, status) /\ f.ended = q.ended
  BY <1>1, VerdictIs
<1>3. Less(t, status) = u
  BY DEF Less
<1> HIDE DEF v
<1>4. /\ v \in StateType /\ v.ext = t.ext /\ v.req[w] = f
      /\ \A x \in Requests : x # w => v.req[x] = t.req[x]
  BY <1>2, PutFacts
<1>5. n \in Int /\ n = t.ext.TotalCharsQueued - q.length
  <2>1. q.length \in Nat /\ t.ext.TotalCharsQueued \in Int
    BY <1>1, RequestFacts DEF ExtensionType
  <2> HIDE DEF q
  <2> QED
    BY <1>4, <2>1
<1> HIDE DEF n
<1>6. /\ Stands(v, u) /\ u.ext.TotalCharsQueued = n
      /\ u.ext.stopped = v.ext.stopped
  BY <1>4, <1>5, TotalStands
<1> HIDE DEF u
<1>7. u.req[w] = f /\ u.req = v.req
  BY <1>4, <1>6 DEF Stands
<1>8. Lessened(t, u, status)
  BY <1>2, <1>4, <1>5, <1>6, <1>7 DEF Stands, Lessened
<1> QED
  BY <1>3, <1>8

(* The current write is gone, and so are its characters.                   *)
Leaves(t, u) ==
  LET w == t.ext.current["write"]
  IN  /\ \A r \in Requests : u.req[r].length = t.req[r].length
      /\ Counted(u) = Counted(t) \ {w}
      /\ u.ext.TotalCharsQueued = t.ext.TotalCharsQueued - t.req[w].length

LEMMA PoppedCounted ==
  ASSUME NEW t, NEW ab, NEW m, Whole(t, ab, m),
         t.ext.current["write"] \in Requests,
         NEW c, c.ext.WriteQueue = t.ext.WriteQueue,
         c.ext.current["immediate"] = t.ext.current["immediate"],
         NEW u, Popped(c, u)
  PROVE  Counted(u) = Counted(t) \ {t.ext.current["write"]}
<1> DEFINE w == t.ext.current["write"]
           queue == c.ext.WriteQueue
<1>1. /\ NoRequest \notin Requests /\ "write" \in Slots
      /\ "immediate" \in Slots /\ t \in StateType
  BY SerialAssumption DEF Slots, Whole
<1>2. queue \in Seq(Requests)
  BY <1>1, StateFacts DEF ExtensionType
<1>3. u.ext.current["immediate"] = t.ext.current["immediate"]
  BY <1>1 DEF Popped
<1>4. \A r : Waits(c, r) <=> Waits(t, r)
  BY DEF Waits
<1>5. ASSUME NEW r \in Requests
      PROVE  Waits(u, r) \/ r = u.ext.current["write"] <=> Waits(t, r)
  <2>1. CASE u.ext.current["write"] = NoRequest /\ u.ext.WriteQueue = queue
    <3>1. Waits(u, r) <=> Waits(c, r)
      BY <2>1 DEF Waits
    <3> QED
      BY <1>1, <1>4, <2>1, <3>1
  <2>2. CASE /\ queue # <<>> /\ u.ext.current["write"] = Head(queue)
             /\ u.ext.WriteQueue = Tail(queue)
    <3>1. /\ Waits(c, Head(queue))
          /\ \A x : x # Head(queue) => (Waits(u, x) <=> Waits(c, x))
      BY <1>2, <2>2, HeadTail
    <3> HIDE DEF queue
    <3> QED
      BY <1>4, <2>2, <3>1
  <2> QED
    BY <2>1, <2>2 DEF Popped
<1>6. ~Waits(t, w)
  <2>1. Current(t, w) /\ Placed(t, w)
    BY <1>1 DEF Current, Whole
  <2> QED
    BY <2>1 DEF Placed
<1>7. t.ext.current["immediate"] # w
  BY <1>1 DEF Whole, Apart
<1>8. \A r \in Requests : r \in Counted(u) <=> r \in Counted(t) /\ r # w
  BY <1>3, <1>5, <1>6, <1>7 DEF Counted
<1>9. Counted(u) \subseteq Requests /\ Counted(t) \subseteq Requests
  BY DEF Counted
<1> HIDE DEF w
<1>10. Counted(u) = Counted(t) \ {w}
  BY <1>8, <1>9
<1> QED
  BY <1>10 DEF w

(* What SerialGetNextRequest leaves.                                       *)
Given(t, u, ab, m) ==
  /\ Whole(u, ab, Starts([m EXCEPT !["write"] = "steady"], u))
  /\ Leaves(t, u)
  /\ u.ext.current["write"] = NoRequest /\ u.ext.WriteQueue # <<>>
       => t.ext.stopped
  /\ t.ext.WriteQueue = <<>> => u.ext.WriteQueue = <<>>

LEMMA CompletesGiven ==
  ASSUME NEW t, NEW ab, NEW m \in [Slots -> Modes], Whole(t, ab, m),
         m["write"] = "due", Settled(t, "write"), NEW status \in Statuses,
         Earned(t, "write", status),
         NEW v, Lessened(t, v, status), NEW n, Takes(v, n),
         NEW u, Ended(n, u, t.ext.current["write"], status)
  PROVE  Given(t, u, ab, m)
<1> DEFINE slot == "write"
           w == t.ext.current[slot]
           f == [t.ext EXCEPT !.current = [t.ext.current EXCEPT
                                             ![slot] = NoRequest]]
           c == [req |-> u.req, ext |-> f]
<1>1. /\ t \in StateType /\ t.ext \in ExtensionType /\ slot \in Slots
      /\ w \in Requests /\ v \in StateType /\ n \in StateType
      /\ u \in StateType
  <2>1. slot \in Slots /\ t \in StateType
    BY DEF Slots, Whole
  <2>2. w \in Requests
    BY <2>1, BusyModes
  <2>3. v \in StateType /\ n \in StateType /\ u \in StateType
    BY DEF Lessened, Takes, Ended
  <2> QED
    BY <2>1, <2>2, <2>3, StateFacts
<1>2. /\ f \in ExtensionType /\ f.current[slot] = NoRequest
      /\ \A i \in Slots : i # slot => f.current[i] = t.ext.current[i]
      /\ f.WriteQueue = t.ext.WriteQueue /\ f.stopped = t.ext.stopped
      /\ f.isr = t.ext.isr /\ f.timer = t.ext.timer
      /\ f.dpc = t.ext.dpc /\ f.Timeouts = t.ext.Timeouts
      /\ f.TotalCharsQueued = t.ext.TotalCharsQueued
  BY <1>1 DEF ExtensionType
<1> HIDE DEF f
<1>3. c \in StateType /\ c.ext = f /\ c.req = u.req
  BY <1>1, <1>2, StateFacts DEF StateType
<1> HIDE DEF c
<1>4. /\ n.req = v.req
      /\ \A x \in Requests : x # w => u.req[x] = t.req[x]
      /\ u.req[w] = [v.req[w] EXCEPT !.ended = v.req[w].ended + 1,
                                     !.Status = status]
  <2>1. n.req = v.req
    BY DEF Takes
  <2>2. \A x \in Requests : x # w => v.req[x] = t.req[x]
    BY DEF Lessened
  <2>3. /\ \A x \in Requests : x # w => u.req[x] = n.req[x]
        /\ u.req[w] = [n.req[w] EXCEPT !.ended = n.req[w].ended + 1,
                                       !.Status = status]
    BY DEF Ended
  <2> HIDE DEF w
  <2> QED
    BY <2>1, <2>2, <2>3
<1>5. /\ Judged(t.req[w], u.req[w], status)
      /\ u.req[w].ended = t.req[w].ended + 1
  <2> DEFINE g == v.req[w]
             e == u.req[w]
             q == t.req[w]
  <2>1. g \in RequestType /\ e \in RequestType
    BY <1>1, StateFacts
  <2>2. Judged(q, g, status) /\ g.ended = q.ended
    BY DEF Lessened
  <2>3. e = [g EXCEPT !.ended = g.ended + 1, !.Status = status]
    BY <1>4
  <2> HIDE DEF g, e, q
  <2>4. /\ e.kind = g.kind /\ e.length = g.length /\ e.onWire = g.onWire
        /\ e.issued = g.issued /\ e.RefCount = g.RefCount
        /\ e.cancel = g.cancel /\ e.Information = g.Information
        /\ e.CancelRoutine = g.CancelRoutine /\ e.Cancelled = g.Cancelled
        /\ e.Status = status /\ e.ended = g.ended + 1
    BY <2>1, <2>3 DEF RequestType
  <2>5. Judged(q, e, status) /\ e.ended = q.ended + 1
    BY <2>1, <2>2, <2>4 DEF Judged
  <2> QED
    BY <2>5 DEF e, q
<1>6. Completed(t, c, slot, status)
  <2>1. c.req[w].kind = t.req[w].kind /\ c.req[w].length = t.req[w].length
    BY <1>3, <1>5 DEF Judged
  <2>2. Beside(t, c, slot)
    BY <1>2, <1>3, <1>4, <2>1 DEF Beside
  <2> QED
    BY <1>2, <1>3, <1>5, <2>2 DEF Completed
<1>7. Whole(c, ab, [m EXCEPT ![slot] = "steady"])
  BY <1>1, <1>6, SettledEnds
<1>8. /\ u.ext.isr = n.ext.isr /\ u.ext.timer = n.ext.timer
      /\ u.ext.dpc = n.ext.dpc /\ u.ext.current = n.ext.current
      /\ u.ext.WriteQueue = n.ext.WriteQueue
      /\ u.ext.TotalCharsQueued = n.ext.TotalCharsQueued
  <2>1. u.ext = [n.ext EXCEPT !.delivered = n.ext.delivered \ {w}]
    BY DEF Ended
  <2>2. n.ext \in ExtensionType
    BY <1>1, StateFacts
  <2> QED
    BY <2>1, <2>2 DEF ExtensionType
<1>9. /\ v.ext.current = t.ext.current
      /\ v.ext.WriteQueue = t.ext.WriteQueue
      /\ v.ext.stopped = t.ext.stopped
      /\ v.ext.isr = t.ext.isr /\ v.ext.timer = t.ext.timer
      /\ v.ext.dpc = t.ext.dpc
      /\ v.ext.TotalCharsQueued = t.ext.TotalCharsQueued - t.req[w].length
  BY DEF Lessened
<1>10. Popped(c, u)
  <2>1. /\ u.ext.isr = c.ext.isr /\ u.ext.timer = c.ext.timer
        /\ u.ext.dpc = c.ext.dpc
        /\ \A i \in Slots : i # "write" =>
                              u.ext.current[i] = c.ext.current[i]
    BY <1>2, <1>3, <1>8, <1>9 DEF Takes
  <2>2. LET queue == c.ext.WriteQueue
        IN  \/ /\ u.ext.current["write"] = NoRequest
               /\ u.ext.WriteQueue = queue
            \/ /\ queue # <<>>
               /\ u.ext.current["write"] = Head(queue)
               /\ u.ext.WriteQueue = Tail(queue)
    BY <1>2, <1>3, <1>8, <1>9 DEF Takes
  <2> QED
    BY <1>1, <1>3, <2>1, <2>2 DEF Popped
<1>11. Whole(u, ab, Starts([m EXCEPT ![slot] = "steady"], u))
  <2> DEFINE k == [m EXCEPT ![slot] = "steady"]
  <2>1. k \in [Slots -> Modes] /\ k[slot] = "steady"
    BY <1>1 DEF Modes
  <2>2. Whole(c, ab, k) /\ c.ext.current[slot] = NoRequest
    BY <1>2, <1>3, <1>7
  <2> HIDE DEF k
  <2>3. Whole(u, ab, Starts(k, u))
    BY <1>10, <2>1, <2>2, PopWhole
  <2> QED
    BY <2>3 DEF k
<1>12. Leaves(t, u)
  <2>1. Counted(u) = Counted(t) \ {w}
    <3>1. /\ c.ext.WriteQueue = t.ext.WriteQueue
          /\ c.ext.current["immediate"] = t.ext.current["immediate"]
      BY <1>2, <1>3 DEF Slots
    <3> QED
      BY <1>1, <1>10, <3>1, PoppedCounted
  <2>2. \A r \in Requests : u.req[r].length = t.req[r].length
    BY <1>4, <1>5 DEF Judged
  <2>3. u.ext.TotalCharsQueued = t.ext.TotalCharsQueued - t.req[w].length
    BY <1>8, <1>9 DEF Takes
  <2> QED
    BY <2>1, <2>2, <2>3 DEF Leaves
<1>13. /\ u.ext.current["write"] = NoRequest /\ u.ext.WriteQueue # <<>>
          => t.ext.stopped
       /\ t.ext.WriteQueue = <<>> => u.ext.WriteQueue = <<>>
  <2>1. NoRequest \notin Requests
    BY SerialAssumption
  <2> QED
    BY <1>8, <1>9, <2>1 DEF Takes
<1> QED
  BY <1>11, <1>12, <1>13 DEF Given

(* The XOFF counter has its new slot, and still the old one.               *)
Both(v, y, w) ==
  /\ y \in StateType /\ y.req = v.req
  /\ y.ext.current["xoff"] = w
  /\ \A i \in Slots : i # "xoff" => y.ext.current[i] = v.ext.current[i]
  /\ y.ext.WriteQueue = v.ext.WriteQueue
  /\ y.ext.stopped = v.ext.stopped
  /\ y.ext.isr = v.ext.isr /\ y.ext.timer = v.ext.timer
  /\ y.ext.dpc = v.ext.dpc
  /\ y.ext.TotalCharsQueued = v.ext.TotalCharsQueued

LEMMA BothSlots ==
  ASSUME NEW v \in StateType, NEW w \in Requests
  PROVE  Both(v, [v EXCEPT !.ext.current["xoff"] = w], w)
<1> DEFINE e == [v.ext EXCEPT !.current = [v.ext.current EXCEPT
                                             !["xoff"] = w]]
           y == [v EXCEPT !.ext.current["xoff"] = w]
<1>1. v.ext \in ExtensionType /\ "xoff" \in Slots
  BY StateFacts DEF Slots
<1>2. /\ e \in ExtensionType /\ e.current["xoff"] = w
      /\ \A i \in Slots : i # "xoff" => e.current[i] = v.ext.current[i]
      /\ e.WriteQueue = v.ext.WriteQueue /\ e.stopped = v.ext.stopped
      /\ e.isr = v.ext.isr /\ e.timer = v.ext.timer /\ e.dpc = v.ext.dpc
      /\ e.TotalCharsQueued = v.ext.TotalCharsQueued
  BY <1>1 DEF ExtensionType
<1>3. y = PutExt(v, e)
  BY DEF PutExt, StateType
<1> HIDE DEF e, y
<1>4. y \in StateType /\ y.ext = e /\ y.req = v.req
  BY <1>2, <1>3, PutExtFacts
<1>5. Both(v, y, w)
  BY <1>2, <1>4 DEF Both
<1> QED
  BY <1>5 DEF y

(* An XOFF counter that was sent and begins to count.                      *)
Counts(v, y, on, w) ==
  Both(v, y, w) /\ Begins(y, on, "xoff", w, Counter)

LEMMA StartCountingCounts ==
  ASSUME NEW v \in StateType, NEW w \in Requests, v.req[w].RefCount = {},
         v.ext.timer["xoff"] = {}
  PROVE  \E y : Counts(v, y, StartCounting(v, w), w)
<1> DEFINE slot == "xoff"
           y == [v EXCEPT !.ext.current["xoff"] = w]
           timeouts == v.req[w].kind = "timedXoff"
           fresh == SerialSetCancelRoutine(y, w, slot)
           given == SetReference([fresh EXCEPT !.ext.isr[slot] = Counter],
                                 w, "ISR")
           on == IF timeouts THEN SerialSetTimer(given, slot, w) ELSE given
<1>1. Both(v, y, w)
  BY BothSlots
<1>2. StartCounting(v, w) = on
  BY DEF StartCounting
<1>3. Counter \in Nat /\ slot \in Slots /\ timeouts \in BOOLEAN
  BY SerialAssumption DEF Slots
<1> HIDE DEF y
<1>4. /\ y \in StateType /\ w = y.ext.current[slot]
      /\ y.req[w].RefCount = {} /\ y.ext.timer[slot] = {}
  BY <1>1 DEF Both
<1>5. Begins(y, on, slot, w, Counter)
  <2> HIDE DEF timeouts, slot
  <2> QED
    BY <1>3, <1>4, BeginsByCounting
<1> QED
  BY <1>1, <1>2, <1>5 DEF Counts

LEMMA CountsGiven ==
  ASSUME NEW t, NEW ab, NEW m \in [Slots -> Modes], Whole(t, ab, m),
         m["write"] = "due", m["xoff"] = "steady", Settled(t, "write"),
         NEW status, Earned(t, "write", status), status = "SUCCESS",
         IsXoff(t.req[t.ext.current["write"]]),
         NEW v, Lessened(t, v, status), NEW y, NEW on,
         Counts(v, y, on, t.ext.current["write"]),
         NEW u, Takes(on, u)
  PROVE  Given(t, u, ab, m)
<1> DEFINE w == t.ext.current["write"]
           q == t.req[w]
           f == [on.ext EXCEPT !.current = [on.ext.current EXCEPT
                                              !["write"] = NoRequest]]
           c == [req |-> on.req, ext |-> f]
<1>1. /\ "xoff" \in Slots /\ "write" \in Slots /\ "immediate" \in Slots
      /\ t \in StateType
  BY DEF Slots, Whole
<1>2. w \in Requests /\ Busy(t, ab, "write", "none")
  BY <1>1, BusyModes
<1>3. t.ext.current["xoff"] = NoRequest /\ Silent(t, "xoff") /\ ab = {}
  BY <1>2, XoffIsFree
<1>4. /\ q.issued /\ q.ended = 0 /\ q.RefCount = {}
      /\ q.onWire = q.length /\ IsXoff(q)
  <2>1. q.issued /\ q.ended = 0 /\ q.RefCount = {}
    BY <1>1, <1>2, SettledIsSilent DEF AllSent
  <2>2. q.onWire = q.length
    BY DEF Earned
  <2> QED
    BY <2>1, <2>2
<1>5. /\ v \in StateType /\ \A x \in Requests : x # w => v.req[x] = t.req[x]
      /\ v.req[w].kind = q.kind /\ v.req[w].length = q.length
      /\ v.req[w].onWire = q.onWire /\ v.req[w].issued = q.issued
      /\ v.req[w].RefCount = q.RefCount /\ v.req[w].ended = q.ended
      /\ v.ext.current = t.ext.current
      /\ v.ext.WriteQueue = t.ext.WriteQueue
      /\ v.ext.stopped = t.ext.stopped
      /\ v.ext.isr = t.ext.isr /\ v.ext.timer = t.ext.timer
      /\ v.ext.dpc = t.ext.dpc
      /\ v.ext.TotalCharsQueued = t.ext.TotalCharsQueued - q.length
  BY DEF Lessened, Judged
<1>6. /\ y \in StateType /\ y.req = v.req /\ y.ext.current["xoff"] = w
      /\ \A i \in Slots : i # "xoff" => y.ext.current[i] = v.ext.current[i]
      /\ y.ext.WriteQueue = v.ext.WriteQueue
      /\ y.ext.stopped = v.ext.stopped
      /\ y.ext.isr = v.ext.isr /\ y.ext.timer = v.ext.timer
      /\ y.ext.dpc = v.ext.dpc
      /\ y.ext.TotalCharsQueued = v.ext.TotalCharsQueued
  BY DEF Counts, Both
<1>7. Begins(y, on, "xoff", w, Counter)
  BY DEF Counts
<1>8. Near(y, on, "xoff")
  BY <1>7 DEF Begins
<1> HIDE DEF q
<1>9. SlotOk(on, ab, "xoff", "steady")
  <2>1. Counter \in Nat /\ Counter > 0
    BY SerialAssumption
  <2>2. /\ y.req[w].issued /\ y.req[w].ended = 0 /\ y.req[w].RefCount = {}
        /\ Fits(y.req[w].kind, "xoff") /\ "xoff" \notin y.ext.dpc
        /\ y.req[w].onWire = y.req[w].length
    <3> HIDE DEF w
    <3>1. /\ y.req[w].issued /\ y.req[w].ended = 0
          /\ y.req[w].RefCount = {} /\ y.req[w].onWire = y.req[w].length
          /\ y.req[w].kind = q.kind
      <4>1. y.req[w] = v.req[w]
        BY <1>6
      <4>2. v.req[w].issued = TRUE
        BY <1>2, <1>4, <1>5, StateFacts DEF RequestType
      <4>3. v.req[w].issued
        BY <4>2
      <4>4. /\ v.req[w].ended = 0 /\ v.req[w].RefCount = {}
            /\ v.req[w].onWire = v.req[w].length
            /\ v.req[w].kind = q.kind
        BY <1>4, <1>5
      <4> QED
        BY <4>1, <4>3, <4>4
    <3>2. "xoff" \notin y.ext.dpc
      BY <1>3, <1>5, <1>6 DEF Silent
    <3>3. Fits(q.kind, "xoff")
      BY <1>4 DEF Fits, IsXoff, XoffKinds
    <3> QED
      BY <3>1, <3>2, <3>3
  <2>3. w \notin ab /\ w = y.ext.current["xoff"]
    BY <1>3, <1>6
  <2> HIDE DEF w
  <2> QED
    BY <1>1, <1>2, <1>6, <1>7, <2>1, <2>2, <2>3, BeginsSteady
<1>10. /\ on \in StateType /\ on.ext.current = y.ext.current
       /\ on.ext.WriteQueue = y.ext.WriteQueue
       /\ on.ext.stopped = y.ext.stopped /\ on.ext.dpc = y.ext.dpc
       /\ on.ext.TotalCharsQueued = y.ext.TotalCharsQueued
       /\ \A i \in Slots : i # "xoff" => /\ on.ext.isr[i] = y.ext.isr[i]
                                         /\ on.ext.timer[i] = y.ext.timer[i]
       /\ \A x \in Requests : x # w => on.req[x] = y.req[x]
       /\ on.req[w].kind = y.req[w].kind
       /\ on.req[w].length = y.req[w].length
  BY <1>6, <1>8 DEF Near
<1>11. /\ f \in ExtensionType /\ f.current["write"] = NoRequest
       /\ \A i \in Slots : i # "write" => f.current[i] = on.ext.current[i]
       /\ f.WriteQueue = on.ext.WriteQueue
       /\ f.isr = on.ext.isr /\ f.timer = on.ext.timer
       /\ f.dpc = on.ext.dpc
  <2>1. on.ext \in ExtensionType
    BY <1>10, StateFacts
  <2> QED
    BY <1>1, <2>1 DEF ExtensionType
<1> HIDE DEF f
<1>12. c \in StateType /\ c.ext = f /\ c.req = on.req
  BY <1>10, <1>11, StateFacts DEF StateType
<1> HIDE DEF c
<1>13. Moved(t, c, w)
  <2>1. /\ \A x \in Requests : x # w => c.req[x] = t.req[x]
        /\ c.req[w].kind = q.kind /\ c.req[w].length = q.length
    <3> HIDE DEF w
    <3> QED
      BY <1>5, <1>6, <1>10, <1>12
  <2>2. /\ c.ext.WriteQueue = t.ext.WriteQueue
        /\ c.ext.current["write"] = NoRequest /\ c.ext.current["xoff"] = w
        /\ c.ext.current["immediate"] = t.ext.current["immediate"]
    <3> HIDE DEF w
    <3>1. c.ext.WriteQueue = t.ext.WriteQueue
      BY <1>5, <1>6, <1>10, <1>11, <1>12
    <3>2. c.ext.current["xoff"] = w
      BY <1>1, <1>6, <1>10, <1>11, <1>12
    <3>3. c.ext.current["immediate"] = t.ext.current["immediate"]
      BY <1>1, <1>5, <1>6, <1>10, <1>11, <1>12
    <3> QED
      BY <1>11, <1>12, <3>1, <3>2, <3>3
  <2>3. \A i \in Slots : i # "xoff" =>
          /\ c.ext.isr[i] = t.ext.isr[i] /\ c.ext.timer[i] = t.ext.timer[i]
          /\ i \in c.ext.dpc <=> i \in t.ext.dpc
    <3> HIDE DEF w
    <3> QED
      BY <1>5, <1>6, <1>10, <1>11, <1>12
  <2> QED
    BY <1>12, <2>1, <2>2, <2>3 DEF Moved, q
<1>14. SlotOk(c, ab, "xoff", "steady")
  <2>1. /\ c.ext.current["xoff"] = on.ext.current["xoff"]
        /\ c.ext.isr["xoff"] = on.ext.isr["xoff"]
        /\ c.ext.timer["xoff"] = on.ext.timer["xoff"]
        /\ "xoff" \in c.ext.dpc <=> "xoff" \in on.ext.dpc
    BY <1>1, <1>11, <1>12
  <2> QED
    BY <1>9, <1>12, <2>1, SlotSame
<1>15. Whole(c, ab, [m EXCEPT !["write"] = "steady"])
  BY <1>13, <1>14, MoveWhole
<1>16. Popped(c, u)
  <2>1. /\ u \in StateType /\ u.req = c.req
        /\ u.ext.isr = c.ext.isr /\ u.ext.timer = c.ext.timer
        /\ u.ext.dpc = c.ext.dpc
        /\ \A i \in Slots : i # "write" =>
                              u.ext.current[i] = c.ext.current[i]
    BY <1>11, <1>12 DEF Takes
  <2>2. LET queue == c.ext.WriteQueue
        IN  \/ /\ u.ext.current["write"] = NoRequest
               /\ u.ext.WriteQueue = queue
            \/ /\ queue # <<>>
               /\ u.ext.current["write"] = Head(queue)
               /\ u.ext.WriteQueue = Tail(queue)
    BY <1>11, <1>12 DEF Takes
  <2> QED
    BY <2>1, <2>2 DEF Popped
<1>17. Whole(u, ab, Starts([m EXCEPT !["write"] = "steady"], u))
  <2> DEFINE k == [m EXCEPT !["write"] = "steady"]
  <2>1. k \in [Slots -> Modes] /\ k["write"] = "steady"
    BY <1>1 DEF Modes
  <2>2. Whole(c, ab, k) /\ c.ext.current["write"] = NoRequest
    BY <1>11, <1>12, <1>15
  <2> HIDE DEF k
  <2>3. Whole(u, ab, Starts(k, u))
    BY <1>16, <2>1, <2>2, PopWhole
  <2> QED
    BY <2>3 DEF k
<1>18. Leaves(t, u)
  <2>1. Counted(u) = Counted(t) \ {w}
    <3>1. /\ c.ext.WriteQueue = t.ext.WriteQueue
          /\ c.ext.current["immediate"] = t.ext.current["immediate"]
      BY <1>13 DEF Moved
    <3> QED
      BY <1>2, <1>16, <3>1, PoppedCounted
  <2>2. \A r \in Requests : u.req[r].length = t.req[r].length
    <3>1. \A r \in Requests : c.req[r].length = t.req[r].length
      BY <1>13 DEF Moved
    <3> QED
      BY <1>16, <3>1 DEF Popped
  <2>3. u.ext.TotalCharsQueued = t.ext.TotalCharsQueued - t.req[w].length
    BY <1>5, <1>6, <1>10 DEF Takes, q
  <2> QED
    BY <2>1, <2>2, <2>3 DEF Leaves
<1>19. /\ u.ext.current["write"] = NoRequest /\ u.ext.WriteQueue # <<>>
          => t.ext.stopped
       /\ t.ext.WriteQueue = <<>> => u.ext.WriteQueue = <<>>
  <2>1. /\ on.ext.WriteQueue = t.ext.WriteQueue
        /\ on.ext.stopped = t.ext.stopped
    <3> HIDE DEF q, w
    <3> QED
      BY <1>5, <1>6, <1>10
  <2>2. Takes(on, u)
    OBVIOUS
  <2> QED
    BY <2>1, <2>2, TakesServes
<1> QED
  BY <1>17, <1>18, <1>19 DEF Given

LEMMA GetNextRequestGiven ==
  ASSUME NEW t, NEW ab, NEW m \in [Slots -> Modes], Whole(t, ab, m),
         m["write"] = "due", m["xoff"] = "steady", Settled(t, "write"),
         NEW status \in Statuses, Earned(t, "write", status)
  PROVE  LET w == t.ext.current["write"]
             counts == IsXoff(t.req[w]) /\ status = "SUCCESS"
                                        /\ ~t.req[w].Cancelled
             on == IF counts THEN StartCounting(Less(t, status), w)
                   ELSE Less(t, status)
         IN  Given(t, SerialGetNextRequest(on, ~counts), ab, m)
<1> DEFINE w == t.ext.current["write"]
           counts == IsXoff(t.req[w]) /\ status = "SUCCESS"
                                      /\ ~t.req[w].Cancelled
           v == Less(t, status)
           on == IF counts THEN StartCounting(v, w) ELSE v
           u == SerialGetNextRequest(on, ~counts)
<1>1. /\ "write" \in Slots /\ t \in StateType
  BY DEF Slots, Whole
<1>2. w \in Requests /\ Busy(t, ab, "write", "none")
  BY <1>1, BusyModes
<1>3. Lessened(t, v, status)
  BY <1>1, <1>2, LessIs
<1> HIDE DEF v
<1>4. v \in StateType /\ w = v.ext.current["write"]
      /\ v.req[w].Status = status /\ v.req[w].RefCount = t.req[w].RefCount
  BY <1>3 DEF Lessened, Judged
<1>5. CASE ~counts
  <2>1. on = v
    BY <1>5
  <2>2. u = SerialCompleteRequest(NextWrite(v), w, status)
    BY <1>4, <1>5, <2>1 DEF SerialGetNextRequest, NextWrite
  <2> DEFINE n == NextWrite(v)
  <2>3. Takes(v, n)
    BY <1>4, NextWriteTakes
  <2> HIDE DEF n, u, w
  <2>4. n \in StateType
    BY <2>3 DEF Takes
  <2>5. Ended(n, u, w, status)
    BY <1>2, <2>2, <2>4, SerialCompleteRequestEnds DEF n
  <2>6. Given(t, u, ab, m)
    BY <1>3, <2>3, <2>5, CompletesGiven DEF w
  <2> QED
    BY <2>6 DEF u, v, w
<1>6. CASE counts
  <2>1. on = StartCounting(v, w)
    BY <1>6
  <2>2. u = NextWrite(on)
    BY <1>6 DEF SerialGetNextRequest, NextWrite
  <2>3. v.req[w].RefCount = {} /\ v.ext.timer["xoff"] = {}
    <3>1. t.req[w].RefCount = {}
      BY DEF Settled
    <3>2. Silent(t, "xoff")
      BY <1>2, <1>6, XoffIsFree
    <3> QED
      BY <1>3, <1>4, <3>1, <3>2 DEF Lessened, Silent
  <2>4. IsXoff(t.req[w]) /\ status = "SUCCESS"
    BY <1>6
  <2>5. PICK y : Counts(v, y, on, w)
    BY <1>2, <1>4, <2>1, <2>3, StartCountingCounts
  <2> HIDE DEF on, u
  <2>6. on \in StateType
    BY <2>5 DEF Counts, Begins, Near
  <2>7. Takes(on, u)
    BY <2>2, <2>6, NextWriteTakes
  <2>8. Given(t, u, ab, m)
    BY <1>3, <2>4, <2>5, <2>7, CountsGiven
  <2> QED
    BY <2>8 DEF u, on, v
<1> QED
  BY <1>5, <1>6

LEMMA KeepsCounted ==
  ASSUME NEW s, NEW u, Keeps(s, u)
  PROVE  Counted(u) = Counted(s)
BY DEF Keeps, Counted, Waits

WriteEnded(t, u, ab, m) ==
  /\ Whole(u, ab, [m EXCEPT !["write"] = "steady"])
  /\ Keeps(t, u) \/ Leaves(t, u)
  /\ u.ext.current["write"] = NoRequest /\ u.ext.WriteQueue # <<>>
       => t.ext.stopped
  /\ t.ext.WriteQueue = <<>> => u.ext.WriteQueue = <<>>

LEMMA GetNextWriteWhole ==
  ASSUME NEW t, NEW ab, NEW m \in [Slots -> Modes], Whole(t, ab, m),
         m["write"] = "due", m["xoff"] = "steady", Settled(t, "write"),
         NEW status \in Statuses, Earned(t, "write", status),
         NEW early \in BOOLEAN
  PROVE  WriteEnded(t, SerialGetNextWrite(t, status, early), ab, m)
<1> DEFINE w == t.ext.current["write"]
           counts == IsXoff(t.req[w]) /\ status = "SUCCESS"
                                      /\ ~t.req[w].Cancelled
           on == IF counts THEN StartCounting(Less(t, status), w)
                 ELSE Less(t, status)
           n == SerialGetNextRequest(on, ~counts)
           p == IF early THEN PutChar(n) ELSE n
           u == SerialGetNextWrite(t, status, early)
           k == [m EXCEPT !["write"] = "steady"]
           b == [m EXCEPT !["write"] = "start"]
<1>1. Given(t, n, ab, m)
  BY GetNextRequestGiven
<1>2. u = IF n.ext.current["write"] = NoRequest THEN n
          ELSE SerialStartWrite(p)
  BY DEF SerialGetNextWrite, Less
<1> HIDE DEF n, u
<1>3. Whole(n, ab, Starts(k, n)) /\ Leaves(t, n)
      /\ (n.ext.current["write"] = NoRequest /\ n.ext.WriteQueue # <<>>
            => t.ext.stopped)
      /\ (t.ext.WriteQueue = <<>> => n.ext.WriteQueue = <<>>)
  BY <1>1 DEF Given
<1>4. CASE n.ext.current["write"] = NoRequest
  <2>1. u = n /\ Whole(n, ab, k)
    BY <1>2, <1>3, <1>4 DEF Starts
  <2> QED
    BY <1>3, <2>1 DEF WriteEnded, u
<1>5. CASE n.ext.current["write"] # NoRequest
  <2>1. u = SerialStartWrite(p)
    BY <1>2, <1>5
  <2>2. Whole(n, ab, b)
    <3>1. [k EXCEPT !["write"] = "start"] = b
      OBVIOUS
    <3> QED
      BY <1>3, <1>5, <3>1 DEF Starts
  <2>3. /\ b \in [Slots -> Modes] /\ b["write"] = "start"
        /\ b["xoff"] = "steady" /\ [b EXCEPT !["write"] = "steady"] = k
    BY DEF Slots, Modes
  <2> HIDE DEF b, k
  <2>4. Whole(p, ab, b) /\ Keeps(n, p)
    <3>1. CASE early
      <4>1. p = PutChar(n)
        BY <3>1
      <4>2. Whole(p, ab, b) /\ Puts(n, p)
        BY <2>2, <2>3, <4>1, PutCharWhole
      <4> HIDE DEF p
      <4> QED
        BY <4>2, BesideKeeps DEF Puts
    <3>2. CASE ~early
      <4>1. p = n /\ n \in StateType
        BY <2>2, <3>2 DEF Whole
      <4> QED
        BY <2>2, <4>1 DEF Keeps
    <3> QED
      BY <3>1, <3>2
  <2> HIDE DEF p
  <2>5. Whole(u, ab, k) /\ Keeps(p, u)
    BY <2>1, <2>3, <2>4, StartWriteWhole
  <2>6. Keeps(n, u)
    BY <2>4, <2>5, KeepsTransitive
  <2>7. Leaves(t, u)
    BY <1>3, <2>6, KeepsCounted DEF Leaves, Keeps
  <2>8. /\ u.ext.current["write"] # NoRequest
        /\ t.ext.WriteQueue = <<>> => u.ext.WriteQueue = <<>>
    BY <1>3, <1>5, <2>6 DEF Keeps
  <2> QED
    BY <2>5, <2>7, <2>8 DEF WriteEnded, k, u
<1> QED
  BY <1>4, <1>5
-----------------------------------------------------------------------------
(***************************************************************************)
(* The count of characters.                                                *)
(***************************************************************************)
LEMMA CharsOfOne ==
  ASSUME NEW r, NEW n \in Nat
  PROVE  IsFiniteSet({r} \X (1 .. n)) /\ Cardinality({r} \X (1 .. n)) = n
<1> DEFINE S == 1 .. n
           T == {r} \X (1 .. n)
           f == [i \in S |-> <<r, i>>]
<1>1. IsFiniteSet(S) /\ Cardinality(S) = n
  BY FS_Interval
<1>2. f \in [S -> T] /\ \A i, j \in S : f[i] = f[j] => i = j
  OBVIOUS
<1>3. \A t \in T : \E i \in S : f[i] = t
  <2> SUFFICES ASSUME NEW t \in T
               PROVE  \E i \in S : f[i] = t
    OBVIOUS
  <2>1. t[2] \in S /\ t = <<r, t[2]>>
    OBVIOUS
  <2> QED
    BY <2>1
<1> HIDE DEF S, T, f
<1>4. f \in Bijection(S, T)
  BY <1>2, <1>3, Fun_IsBij
<1>5. ExistsBijection(S, T)
  BY <1>4, Fun_ExistsBij
<1>6. IsFiniteSet(T) /\ Cardinality(T) = n
  BY <1>1, <1>5, FS_Bijection
<1> QED
  BY <1>6 DEF T

LEMMA CharsOfWithout ==
  ASSUME NEW s, NEW rs, NEW w \in rs
  PROVE  /\ CharsOf(s, rs) = CharsOf(s, rs \ {w}) \cup
                             ({w} \X (1 .. s.req[w].length))
         /\ CharsOf(s, rs \ {w}) \cap ({w} \X (1 .. s.req[w].length)) = {}
<1> DEFINE C(r) == {r} \X (1 .. s.req[r].length)
<1>1. \A R : \A x : x \in CharsOf(s, R) <=> \E r \in R : x \in C(r)
  BY DEF CharsOf
<1>2. \A r, x : x \in C(r) => x[1] = r
  OBVIOUS
<1> HIDE DEF C
<1>3. \A x : x \in CharsOf(s, rs) <=> x \in CharsOf(s, rs \ {w}) \cup C(w)
  BY <1>1
<1>4. \A x : ~(x \in CharsOf(s, rs \ {w}) /\ x \in C(w))
  BY <1>1, <1>2
<1>5. CharsOf(s, rs) = CharsOf(s, rs \ {w}) \cup C(w)
  BY <1>3
<1>6. CharsOf(s, rs \ {w}) \cap C(w) = {}
  BY <1>4
<1> QED
  BY <1>5, <1>6 DEF C

(* A smallest set of requests with infinitely many characters would have   *)
(* a member, and without that one finitely many.                           *)
LEMMA CharsOfFinite ==
  ASSUME NEW s \in StateType, NEW rs \in SUBSET Requests
  PROVE  IsFiniteSet(CharsOf(s, rs))
<1> DEFINE T == {R \in SUBSET Requests : ~IsFiniteSet(CharsOf(s, R))}
           Smaller == StrictSubsetOrdering(Requests)
<1>1. IsFiniteSet(Requests)
  BY SerialAssumption
<1>2. IsWellFoundedOn(Smaller, SUBSET Requests)
  BY <1>1, FS_StrictSubsetOrderingWellFounded, FS_FiniteSubsetsOfFinite
<1>3. SUFFICES ASSUME T # {}
               PROVE  FALSE
  OBVIOUS
<1>4. T \subseteq SUBSET Requests
  OBVIOUS
<1>5. PICK R \in T : \A U \in T : <<U, R>> \notin Smaller
  <2> HIDE DEF T, Smaller
  <2> QED
    BY <1>2, <1>3, <1>4, WFMin
<1>6. CASE R = {}
  <2>1. CharsOf(s, R) = {}
    BY <1>6 DEF CharsOf
  <2> QED
    BY <1>5, <2>1, FS_EmptySet
<1>7. CASE R # {}
  <2>1. PICK w \in R : TRUE
    BY <1>7
  <2>2. w \in Requests /\ R \ {w} \in SUBSET Requests
    BY <1>5
  <2>3. <<R \ {w}, R>> \in Smaller
    BY <1>5, <2>1, <2>2 DEF StrictSubsetOrdering
  <2>4. IsFiniteSet(CharsOf(s, R \ {w}))
    BY <1>5, <2>2, <2>3
  <2>5. s.req[w].length \in Nat
    BY <2>2, StateFacts, RequestFacts
  <2>6. IsFiniteSet({w} \X (1 .. s.req[w].length))
    BY <2>5, CharsOfOne
  <2>7. IsFiniteSet(CharsOf(s, R))
    <3> DEFINE A == CharsOf(s, R \ {w})
               B == {w} \X (1 .. s.req[w].length)
    <3>1. CharsOf(s, R) = A \cup B
      BY <2>1, CharsOfWithout
    <3>2. IsFiniteSet(A) /\ IsFiniteSet(B)
      BY <2>4, <2>6
    <3> HIDE DEF A, B
    <3> QED
      BY <3>1, <3>2, FS_Union
  <2> QED
    BY <1>5, <2>7
<1> QED
  BY <1>6, <1>7

LEMMA NumberWithout ==
  ASSUME NEW s \in StateType, NEW rs \in SUBSET Requests, NEW w \in rs
  PROVE  /\ NumberOfChars(s, rs) \in Nat
         /\ NumberOfChars(s, rs \ {w}) \in Nat
         /\ NumberOfChars(s, rs) =
              NumberOfChars(s, rs \ {w}) + s.req[w].length
<1> DEFINE A == CharsOf(s, rs \ {w})
           B == {w} \X (1 .. s.req[w].length)
           C == CharsOf(s, rs)
           n == s.req[w].length
<1>1. n \in Nat
  BY StateFacts, RequestFacts
<1>2. IsFiniteSet(B) /\ Cardinality(B) = n
  BY <1>1, CharsOfOne
<1>3. IsFiniteSet(A) /\ IsFiniteSet(C)
  BY CharsOfFinite
<1>4. C = A \cup B /\ A \cap B = {}
  BY CharsOfWithout
<1> HIDE DEF A, B, C, n
<1>5. Cardinality(A \cap B) = 0
  BY <1>4, FS_EmptySet
<1>6. Cardinality(A) \in Nat /\ Cardinality(C) \in Nat
  BY <1>3, FS_CardinalityType
<1>7. Cardinality(C) = Cardinality(A) + Cardinality(B) - Cardinality(A \cap B)
  BY <1>2, <1>3, <1>4, FS_Union
<1>8. Cardinality(C) = Cardinality(A) + n
  BY <1>1, <1>2, <1>5, <1>6, <1>7
<1> QED
  BY <1>6, <1>8 DEF A, C, n, NumberOfChars

LEMMA NumberSame ==
  ASSUME NEW s, NEW u, NEW rs \in SUBSET Requests,
         \A r \in Requests : u.req[r].length = s.req[r].length
  PROVE  NumberOfChars(u, rs) = NumberOfChars(s, rs)
<1>1. CharsOf(u, rs) = CharsOf(s, rs)
  <2>1. \A r \in rs : 1 .. u.req[r].length = 1 .. s.req[r].length
    OBVIOUS
  <2> QED
    BY <2>1 DEF CharsOf
<1> QED
  BY <1>1 DEF NumberOfChars
-----------------------------------------------------------------------------
(***************************************************************************)
(* What a step does to the count of characters.                            *)
(***************************************************************************)
Tallies(s, u) == Balanced(s) => Balanced(u)

LEMMA CountedIsRequests ==
  ASSUME NEW s
  PROVE  Counted(s) \in SUBSET Requests
BY DEF Counted

LEMMA KeepsTallies ==
  ASSUME NEW s, NEW u, Keeps(s, u)
  PROVE  Tallies(s, u)
<1>1. Counted(u) = Counted(s)
  BY KeepsCounted
<1>2. \A r \in Requests : u.req[r].length = s.req[r].length
  BY DEF Keeps
<1>3. NumberOfChars(u, Counted(s)) = NumberOfChars(s, Counted(s))
  BY <1>2, CountedIsRequests, NumberSame
<1> QED
  BY <1>1, <1>3 DEF Tallies, Balanced, Keeps

(* A request and its characters leave the count.                           *)
Drops(s, u, w) ==
  /\ \A r \in Requests : u.req[r].length = s.req[r].length
  /\ w \in Counted(s) /\ Counted(u) = Counted(s) \ {w}
  /\ u.ext.TotalCharsQueued = s.ext.TotalCharsQueued - s.req[w].length

LEMMA DropsTallies ==
  ASSUME NEW s \in StateType, NEW u, NEW w, Drops(s, u, w)
  PROVE  Tallies(s, u)
<1> DEFINE rs == Counted(s)
           n == NumberOfChars(s, rs)
           less == NumberOfChars(s, rs \ {w})
<1>1. rs \in SUBSET Requests /\ w \in rs
  BY CountedIsRequests DEF Drops
<1>2. /\ n \in Nat /\ less \in Nat /\ n = less + s.req[w].length
  BY <1>1, NumberWithout
<1>3. NumberOfChars(u, rs \ {w}) = less
  <2>1. rs \ {w} \in SUBSET Requests
    BY <1>1
  <2> QED
    BY <2>1, NumberSame DEF Drops
<1>4. NumberOfChars(u, Counted(u)) = less
  BY <1>3 DEF Drops
<1>5. s.req[w].length \in Nat
  BY <1>1, StateFacts, RequestFacts
<1>6. Balanced(s) => Balanced(u)
  <2>1. u.ext.TotalCharsQueued = s.ext.TotalCharsQueued - s.req[w].length
    BY DEF Drops
  <2> HIDE DEF n, less
  <2> QED
    BY <1>2, <1>4, <1>5, <2>1 DEF Balanced, n
<1> QED
  BY <1>6 DEF Tallies

(* A request and its characters join it.                                   *)
Joins(s, u, w) ==
  /\ \A r \in Requests : u.req[r].length = s.req[r].length
  /\ w \in Requests \ Counted(s) /\ Counted(u) = Counted(s) \cup {w}
  /\ u.ext.TotalCharsQueued = s.ext.TotalCharsQueued + s.req[w].length

LEMMA JoinsTallies ==
  ASSUME NEW s \in StateType, NEW u, NEW w, Joins(s, u, w)
  PROVE  Tallies(s, u)
<1> DEFINE rs == Counted(s) \cup {w}
           n == NumberOfChars(s, rs)
           less == NumberOfChars(s, Counted(s))
<1>1. /\ rs \in SUBSET Requests /\ w \in rs /\ rs \ {w} = Counted(s)
  BY CountedIsRequests DEF Joins
<1>2. /\ n \in Nat /\ less \in Nat /\ n = less + s.req[w].length
  <2> HIDE DEF rs
  <2> QED
    BY <1>1, NumberWithout
<1>3. NumberOfChars(u, rs) = n
  <2> HIDE DEF rs
  <2> QED
    BY <1>1, NumberSame DEF Joins
<1>4. NumberOfChars(u, Counted(u)) = n
  BY <1>3 DEF Joins
<1>5. s.req[w].length \in Nat
  BY <1>1, StateFacts, RequestFacts
<1>6. Balanced(s) => Balanced(u)
  <2>1. u.ext.TotalCharsQueued = s.ext.TotalCharsQueued + s.req[w].length
    BY DEF Joins
  <2> HIDE DEF n, less
  <2> QED
    BY <1>2, <1>4, <1>5, <2>1 DEF Balanced, less
<1> QED
  BY <1>6 DEF Tallies

LEMMA LeavesTallies ==
  ASSUME NEW t \in StateType, NEW u, Leaves(t, u),
         t.ext.current["write"] \in Requests
  PROVE  Tallies(t, u)
<1>1. Drops(t, u, t.ext.current["write"])
  BY DEF Leaves, Drops, Counted
<1> QED
  BY <1>1, DropsTallies

LEMMA TalliesTransitive ==
  ASSUME NEW s, NEW t, NEW u, Tallies(s, t), Tallies(t, u)
  PROVE  Tallies(s, u)
BY DEF Tallies

(* The immediate character is a request of one character.                  *)
LEMMA ImmediateTallies ==
  ASSUME NEW s, NEW ab, NEW m \in [Slots -> Modes], Whole(s, ab, m),
         s.ext.current["immediate"] \in Requests,
         NEW u, ImmediateEnded(s, u, ab, m)
  PROVE  Tallies(s, u)
<1> DEFINE x == s.ext.current["immediate"]
<1>1. /\ s \in StateType /\ Shape(s) /\ Apart(s)
      /\ \A r \in Requests : Placed(s, r)
      /\ "write" \in Slots /\ "immediate" \in Slots
      /\ NoRequest \notin Requests
  BY SerialAssumption DEF Whole, Slots
<1>2. Beside(s, u, "immediate")
  BY DEF ImmediateEnded
<1>3. /\ \A r \in Requests : u.req[r].length = s.req[r].length
      /\ u.ext.WriteQueue = s.ext.WriteQueue
      /\ u.ext.current["write"] = s.ext.current["write"]
      /\ u.ext.stopped = s.ext.stopped /\ u \in StateType
  <2>1. /\ \A r \in Requests : r # x => u.req[r].length = s.req[r].length
        /\ u.req[x].length = s.req[x].length
    BY <1>2 DEF Beside
  <2>2. /\ u.ext.WriteQueue = s.ext.WriteQueue
        /\ u.ext.current["write"] = s.ext.current["write"]
        /\ u.ext.stopped = s.ext.stopped /\ u \in StateType
    BY <1>1, <1>2 DEF Beside
  <2> HIDE DEF x
  <2> QED
    BY <2>1, <2>2
<1>4. CASE /\ u.ext.current = s.ext.current
           /\ u.ext.TotalCharsQueued = s.ext.TotalCharsQueued
  <2>1. Keeps(s, u)
    BY <1>3, <1>4 DEF Keeps
  <2> QED
    BY <2>1, KeepsTallies
<1>5. CASE /\ u.ext.current["immediate"] = NoRequest
           /\ u.ext.TotalCharsQueued = s.ext.TotalCharsQueued - 1
  <2>1. x \in Requests /\ ~Waits(s, x) /\ x # s.ext.current["write"]
    <3>1. Current(s, x)
      BY <1>1 DEF Current
    <3>2. x # s.ext.current["write"]
      BY <1>1 DEF Apart
    <3> QED
      BY <1>1, <3>1, <3>2 DEF Placed
  <2>2. x \in Counted(s)
    BY <2>1 DEF Counted
  <2>3. \A r : Waits(u, r) <=> Waits(s, r)
    BY <1>3 DEF Waits
  <2>4. Counted(u) = Counted(s) \ {x}
    <3> DEFINE v == s.ext.current["write"]
    <3>1. Counted(s) = {r \in Requests : Waits(s, r) \/ r = v \/ r = x}
      BY DEF Counted
    <3>2. Counted(u) = {r \in Requests : Waits(s, r) \/ r = v}
      BY <1>1, <1>3, <1>5, <2>3 DEF Counted
    <3> HIDE DEF x, v
    <3>3. ~Waits(s, x) /\ x # v
      BY <2>1 DEF v
    <3> QED
      BY <3>1, <3>2, <3>3
  <2>5. s.req[x].length = 1
    <3>1. SlotOk(s, ab, "immediate", m["immediate"])
      BY <1>1 DEF Whole
    <3>2. Fits(s.req[x].kind, "immediate")
      BY <1>1, <2>1, <3>1 DEF SlotOk, Busy, Work
    <3>3. s.req[x].kind # "write"
      BY <3>2 DEF Fits
    <3> QED
      BY <1>1, <2>1, <3>3 DEF Shape
  <2>6. Drops(s, u, x)
    BY <1>3, <1>5, <2>2, <2>4, <2>5 DEF Drops
  <2> QED
    BY <1>1, <2>6, DropsTallies
<1> QED
  BY <1>4, <1>5 DEF ImmediateEnded
-----------------------------------------------------------------------------
(***************************************************************************)
(* Who takes a slot to its end.                                            *)
(***************************************************************************)
(* Writes wait and none is current.                                        *)
Stuck(s) == s.ext.current["write"] = NoRequest /\ s.ext.WriteQueue # <<>>

(* What a step does to the count and to the queue.                         *)
Serves(s, u) ==
  /\ Tallies(s, u)
  /\ Stuck(u) => s.ext.stopped \/ Stuck(s)
  /\ s.ext.WriteQueue = <<>> => u.ext.WriteQueue = <<>>

SlotEnded(s, u, ab, m, slot) ==
  Whole(u, ab, [m EXCEPT ![slot] = "steady"]) /\ Serves(s, u)

LEMMA KeepsServes ==
  ASSUME NEW s, NEW u, Keeps(s, u)
  PROVE  Serves(s, u)
<1>1. Tallies(s, u)
  BY KeepsTallies
<1> QED
  BY <1>1 DEF Serves, Stuck, Keeps

LEMMA TriesKeeps ==
  ASSUME NEW s, NEW t, NEW slot, NEW m, NEW left, NEW status,
         Tries(s, t, slot, m, left, status)
  PROVE  Keeps(s, t)
<1> DEFINE r == s.ext.current[slot]
<1>1. /\ t \in StateType /\ t.ext.current = s.ext.current
      /\ t.ext.TotalCharsQueued = s.ext.TotalCharsQueued
      /\ Beside(s, t, slot)
  BY DEF Tries
<1>2. \A x \in Requests : t.req[x].length = s.req[x].length
  <2>1. /\ \A x \in Requests : x # r => t.req[x] = s.req[x]
        /\ t.req[r].length = s.req[r].length
    BY <1>1 DEF Beside
  <2> HIDE DEF r
  <2> QED
    BY <2>1
<1>3. t.ext.WriteQueue = s.ext.WriteQueue /\ t.ext.stopped = s.ext.stopped
  BY <1>1 DEF Beside
<1> QED
  BY <1>1, <1>2, <1>3 DEF Keeps

LEMMA EndWriteWhole ==
  ASSUME NEW s, NEW ab, NEW m \in [Slots -> Modes], Whole(s, ab, m),
         NEW by \in Callers, m["write"] = Mode(by), m["xoff"] = "steady",
         NEW grab \in BOOLEAN, grab \/ by = "ISR",
         NEW status \in Statuses,
         status \in {"SUCCESS", "MORE_WRITES"} => by = "ISR",
         NEW early \in BOOLEAN
  PROVE  SlotEnded(s, EndWrite(s, grab, by, status, early), ab, m, "write")
<1> DEFINE t == TryToComplete(s, "write", grab, "write", by, status)
           u == EndWrite(s, grab, by, status, early)
           k == [m EXCEPT !["write"] = "due"]
<1>1. "write" \in Slots /\ "xoff" \in Slots /\ "xoff" # "write"
  BY DEF Slots
<1>2. Tries(s, t, "write", m, ab, status)
  <2>1. Names(s, "write", by, "write", ab, ab)
    BY DEF Names
  <2> QED
    BY <1>1, <2>1, EndsWhole
<1>3. u = IF Settled(t, "write") THEN SerialGetNextWrite(t, status, early)
          ELSE t
  BY DEF EndWrite
<1> SUFFICES SlotEnded(s, u, ab, m, "write")
  OBVIOUS
<1> HIDE DEF t, u
<1>4. Keeps(s, t) /\ t \in StateType
  BY <1>2, TriesKeeps DEF Tries
<1>5. CASE ~Settled(t, "write")
  <2>1. u = t /\ Whole(t, ab, [m EXCEPT !["write"] = "steady"])
    BY <1>2, <1>3, <1>5 DEF Tries
  <2> QED
    BY <1>4, <2>1, KeepsServes DEF SlotEnded
<1>6. CASE Settled(t, "write")
  <2>1. u = SerialGetNextWrite(t, status, early)
    BY <1>3, <1>6
  <2>2. /\ k \in [Slots -> Modes] /\ k["write"] = "due"
        /\ k["xoff"] = "steady"
        /\ [k EXCEPT !["write"] = "steady"] = [m EXCEPT !["write"] = "steady"]
    BY <1>1 DEF Modes
  <2>3. Whole(t, ab, k) /\ Earned(t, "write", status)
        /\ t.ext.current["write"] \in Requests
    BY <1>2 DEF Tries
  <2> HIDE DEF k
  <2>4. WriteEnded(t, u, ab, k)
    BY <1>6, <2>1, <2>2, <2>3, GetNextWriteWhole
  <2>5. Tallies(s, u)
    <3>1. Tallies(t, u)
      BY <1>4, <2>3, <2>4, KeepsTallies, LeavesTallies DEF WriteEnded
    <3> QED
      BY <1>4, <3>1, KeepsTallies, TalliesTransitive
  <2>6. /\ Stuck(u) => s.ext.stopped \/ Stuck(s)
        /\ s.ext.WriteQueue = <<>> => u.ext.WriteQueue = <<>>
    BY <1>4, <2>4 DEF WriteEnded, Keeps, Stuck
  <2> QED
    BY <2>2, <2>4, <2>5, <2>6 DEF SlotEnded, WriteEnded, Serves
<1> QED
  BY <1>5, <1>6

LEMMA EndSlotWhole ==
  ASSUME NEW s, NEW ab, NEW m \in [Slots -> Modes], Whole(s, ab, m),
         NEW slot \in Slots, NEW by \in Callers, m[slot] = Mode(by),
         slot = "write" => m["xoff"] = "steady",
         NEW grab \in BOOLEAN, grab \/ by = "ISR",
         NEW status \in Statuses,
         status \in {"SUCCESS", "MORE_WRITES"} => by = "ISR",
         NEW early \in BOOLEAN
  PROVE  SlotEnded(s, EndSlot(s, slot, grab, by, status, early), ab, m, slot)
<1>1. CASE slot = "write"
  BY <1>1, EndWriteWhole DEF EndSlot
<1>2. CASE slot = "xoff"
  <2> DEFINE u == EndXoff(s, grab, slot, by, status)
  <2>1. EndSlot(s, slot, grab, by, status, early) = u
    BY <1>2 DEF EndSlot
  <2>2. XoffEnded(s, u, ab, m)
    <3>1. Names(s, "xoff", by, slot, ab, ab)
      BY <1>2 DEF Names
    <3> QED
      BY <1>2, <3>1, EndXoffWhole
  <2> HIDE DEF u
  <2>3. Keeps(s, u)
    BY <2>2, BesideKeeps DEF XoffEnded
  <2>4. SlotEnded(s, u, ab, m, slot)
    BY <1>2, <2>2, <2>3, KeepsServes DEF SlotEnded, XoffEnded
  <2> QED
    BY <2>1, <2>4
<1>3. CASE slot = "immediate"
  <2> DEFINE u == EndImmediate(s, grab, by, status)
  <2>1. EndSlot(s, slot, grab, by, status, early) = u
    BY <1>3 DEF EndSlot
  <2>2. ImmediateEnded(s, u, ab, m)
    BY <1>3, EndImmediateWhole
  <2> HIDE DEF u
  <2>3. s.ext.current["immediate"] \in Requests
    <3>1. m[slot] \in {"due", "ISR", "TOTAL_TIMER"}
      BY DEF Mode
    <3> QED
      BY <1>3, <3>1, BusyModes
  <2>4. Tallies(s, u)
    BY <2>2, <2>3, ImmediateTallies
  <2>5. u.ext.WriteQueue = s.ext.WriteQueue
        /\ u.ext.current["write"] = s.ext.current["write"]
    BY <2>2 DEF ImmediateEnded, Beside, Slots
  <2>6. SlotEnded(s, u, ab, m, slot)
    BY <1>3, <2>2, <2>4, <2>5
       DEF SlotEnded, ImmediateEnded, Serves, Stuck
  <2> QED
    BY <2>1, <2>6
<1> QED
  BY <1>1, <1>2, <1>3 DEF Slots
-----------------------------------------------------------------------------
(***************************************************************************)
(* A callback comes with the reference that a slot lends it.               *)
(***************************************************************************)
LEMMA SteadyDue ==
  ASSUME NEW s, NEW ab, NEW m \in [Slots -> Modes], Whole(s, ab, m),
         NEW slot \in Slots, m[slot] = "steady",
         s.ext.current[slot] # NoRequest
  PROVE  Whole(s, ab, [m EXCEPT ![slot] = "due"])
<1> DEFINE n == [m EXCEPT ![slot] = "due"]
<1>1. SlotOk(s, ab, slot, "steady")
  BY DEF Whole
<1>2. SlotOk(s, ab, slot, "due")
  BY <1>1 DEF SlotOk
<1>3. \A i \in Slots : SlotOk(s, ab, i, n[i])
  BY <1>2 DEF Whole
<1> HIDE DEF n
<1>4. Whole(s, ab, n)
  BY <1>3 DEF Whole
<1> QED
  BY <1>4 DEF n

LEMMA WorkLendsDpc ==
  ASSUME NEW q, NEW slot, NEW left \in Nat, NEW timer, NEW gone,
         Work(q, slot, left, TRUE, timer, "none", gone)
  PROVE  Work(q, slot, left, FALSE, timer, "ISR", gone)
<1>1. left = 0
  BY DEF Work
<1> QED
  BY <1>1 DEF Work

LEMMA WorkLendsTimer ==
  ASSUME NEW q, NEW slot, NEW left, NEW dpc, NEW timer, NEW gone,
         Work(q, slot, left, dpc, timer, "none", gone), "fired" \in timer
  PROVE  Work(q, slot, left, dpc, timer \ {"fired"}, "TOTAL_TIMER", gone)
<1>1. timer = {"fired"} /\ timer \ {"fired"} = {}
  BY DEF Work
<1> QED
  BY <1>1 DEF Work

(* Something is there to come for a request.                               *)
LEMMA SteadyBusy ==
  ASSUME NEW s, NEW ab, NEW m, Whole(s, ab, m), NEW slot \in Slots,
         m[slot] = "steady", ~Silent(s, slot)
  PROVE  Busy(s, ab, slot, "none") /\ s.ext.current[slot] \in Requests
<1>1. SlotOk(s, ab, slot, "steady")
  BY DEF Whole
<1>2. Busy(s, ab, slot, "none")
  BY <1>1 DEF SlotOk
<1> QED
  BY <1>2 DEF Busy

LEMMA DpcTaken ==
  ASSUME NEW s \in StateType, NEW slot \in Slots
  PROVE  LET u == [s EXCEPT !.ext.dpc = @ \ {slot}]
         IN  /\ u \in StateType /\ u.req = s.req
             /\ u.ext.current = s.ext.current
             /\ u.ext.WriteQueue = s.ext.WriteQueue
             /\ u.ext.stopped = s.ext.stopped
             /\ u.ext.Timeouts = s.ext.Timeouts
             /\ u.ext.isr = s.ext.isr /\ u.ext.timer = s.ext.timer
             /\ u.ext.dpc = s.ext.dpc \ {slot}
             /\ u.ext.TotalCharsQueued = s.ext.TotalCharsQueued
<1> DEFINE e == [s.ext EXCEPT !.dpc = s.ext.dpc \ {slot}]
           u == [s EXCEPT !.ext.dpc = @ \ {slot}]
<1>1. s.ext \in ExtensionType
  BY StateFacts
<1>2. /\ e \in ExtensionType /\ e.current = s.ext.current
      /\ e.WriteQueue = s.ext.WriteQueue /\ e.stopped = s.ext.stopped
      /\ e.Timeouts = s.ext.Timeouts /\ e.isr = s.ext.isr
      /\ e.timer = s.ext.timer /\ e.dpc = s.ext.dpc \ {slot}
      /\ e.TotalCharsQueued = s.ext.TotalCharsQueued
  BY <1>1 DEF ExtensionType
<1>3. u = PutExt(s, e)
  BY DEF PutExt, StateType
<1> HIDE DEF e, u
<1>4. u \in StateType /\ u.ext = e /\ u.req = s.req
  BY <1>2, <1>3, PutExtFacts
<1> QED
  BY <1>2, <1>4 DEF u

(* Only what the slot has changes, and nothing of it that is counted.      *)
Lends(s, u, slot) ==
  /\ Beside(s, u, slot) /\ u.ext.current = s.ext.current
  /\ u.ext.TotalCharsQueued = s.ext.TotalCharsQueued

LEMMA LendsKeeps ==
  ASSUME NEW s, NEW u, NEW slot, Lends(s, u, slot)
  PROVE  Keeps(s, u)
<1> DEFINE r == s.ext.current[slot]
<1>1. \A x \in Requests : u.req[x].length = s.req[x].length
  <2>1. /\ \A x \in Requests : x # r => u.req[x] = s.req[x]
        /\ u.req[r].length = s.req[r].length
    BY DEF Lends, Beside
  <2> HIDE DEF r
  <2> QED
    BY <2>1
<1> QED
  BY <1>1 DEF Keeps, Lends, Beside

LEMMA LendsWhole ==
  ASSUME NEW s, NEW ab, NEW m \in [Slots -> Modes], Whole(s, ab, m),
         NEW u, NEW slot \in Slots, NEW mode \in Modes, Lends(s, u, slot),
         SlotOk(u, ab, slot, mode), s.ext.current[slot] \in Requests
  PROVE  Whole(u, ab, [m EXCEPT ![slot] = mode])
<1>1. Owed(u, ab) /\ Beside(s, u, slot) /\ u.ext.current = s.ext.current
  BY DEF Whole, Owed, Lends
<1> QED
  BY <1>1, BesideWhole

LEMMA LendsDpc ==
  ASSUME NEW s, NEW ab, NEW m \in [Slots -> Modes], Whole(s, ab, m),
         NEW slot \in Slots, m[slot] = "steady", slot \in s.ext.dpc
  PROVE  LET u == [s EXCEPT !.ext.dpc = @ \ {slot}]
         IN  Whole(u, ab, [m EXCEPT ![slot] = "ISR"]) /\ Keeps(s, u)
<1> DEFINE u == [s EXCEPT !.ext.dpc = @ \ {slot}]
           r == s.ext.current[slot]
<1>1. s \in StateType /\ s.ext \in ExtensionType
  BY StateFacts DEF Whole
<1>2. Busy(s, ab, slot, "none") /\ r \in Requests
  BY SteadyBusy DEF Silent
<1>3. /\ u \in StateType /\ u.req = s.req
      /\ u.ext.current = s.ext.current
      /\ u.ext.WriteQueue = s.ext.WriteQueue
      /\ u.ext.stopped = s.ext.stopped
      /\ u.ext.Timeouts = s.ext.Timeouts
      /\ u.ext.isr = s.ext.isr /\ u.ext.timer = s.ext.timer
      /\ u.ext.dpc = s.ext.dpc \ {slot}
      /\ u.ext.TotalCharsQueued = s.ext.TotalCharsQueued
  BY <1>1, DpcTaken
<1> HIDE DEF u
<1>4. Lends(s, u, slot)
  BY <1>3 DEF Lends, Beside
<1>5. SlotOk(u, ab, slot, "ISR")
  <2> DEFINE q == s.req[r]
             left == s.ext.isr[slot]
             timer == s.ext.timer[slot]
             gone == slot = "xoff" /\ r \in ab
  <2>1. left \in Nat
    BY <1>1 DEF ExtensionType
  <2>2. slot \in s.ext.dpc <=> TRUE
    OBVIOUS
  <2>3. Work(q, slot, left, TRUE, timer, "none", gone)
    BY <1>2, <2>2 DEF Busy
  <2> HIDE DEF q, left, timer, gone
  <2>4. Work(q, slot, left, FALSE, timer, "ISR", gone)
    BY <2>1, <2>3, WorkLendsDpc
  <2> DEFINE dpc == slot \in u.ext.dpc
  <2>5. dpc = FALSE
    BY <1>3
  <2> HIDE DEF dpc
  <2>6. Work(q, slot, left, dpc, timer, "ISR", gone)
    BY <2>4, <2>5
  <2>7. Busy(u, ab, slot, "ISR")
    BY <1>2, <1>3, <2>6 DEF Busy, q, left, timer, gone, dpc
  <2> QED
    BY <2>7 DEF SlotOk
<1>6. Whole(u, ab, [m EXCEPT ![slot] = "ISR"])
  BY <1>2, <1>4, <1>5, LendsWhole DEF Modes
<1> QED
  BY <1>4, <1>6, LendsKeeps DEF u

LEMMA LendsTimer ==
  ASSUME NEW s, NEW ab, NEW m \in [Slots -> Modes], Whole(s, ab, m),
         NEW slot \in Slots, m[slot] = "steady", "fired" \in s.ext.timer[slot]
  PROVE  LET u == [s EXCEPT !.ext.timer[slot] = @ \ {"fired"}]
         IN  Whole(u, ab, [m EXCEPT ![slot] = "TOTAL_TIMER"]) /\ Keeps(s, u)
<1> DEFINE T == s.ext.timer[slot] \ {"fired"}
           u == [s EXCEPT !.ext.timer[slot] = T]
           r == s.ext.current[slot]
<1>1. s \in StateType /\ s.ext \in ExtensionType
  BY StateFacts DEF Whole
<1>2. Busy(s, ab, slot, "none") /\ r \in Requests
  BY SteadyBusy DEF Silent
<1>3. T \in SUBSET {"queued", "fired"}
  BY <1>1 DEF ExtensionType
<1>4. /\ Near(s, u, slot) /\ u.req = s.req
      /\ u.ext.isr = s.ext.isr /\ u.ext.timer[slot] = T
  <2> HIDE DEF T
  <2> QED
    BY <1>1, <1>3, NearTimer
<1>5. [s EXCEPT !.ext.timer[slot] = @ \ {"fired"}] = u
  OBVIOUS
<1> HIDE DEF u
<1>6. Lends(s, u, slot) /\ u.ext.current = s.ext.current
      /\ u.ext.dpc = s.ext.dpc
  BY <1>4, NearBeside DEF Lends, Near
<1>7. SlotOk(u, ab, slot, "TOTAL_TIMER")
  <2>1. Work(s.req[r], slot, s.ext.isr[slot], slot \in s.ext.dpc, T,
             "TOTAL_TIMER", slot = "xoff" /\ r \in ab)
    BY <1>2, WorkLendsTimer DEF Busy
  <2>2. Busy(u, ab, slot, "TOTAL_TIMER")
    BY <1>2, <1>4, <1>6, <2>1 DEF Busy
  <2> QED
    BY <2>2 DEF SlotOk
<1>8. Whole(u, ab, [m EXCEPT ![slot] = "TOTAL_TIMER"])
  BY <1>2, <1>6, <1>7, LendsWhole DEF Modes
<1>9. Keeps(s, u)
  BY <1>6, LendsKeeps
<1> QED
  BY <1>5, <1>8, <1>9
-----------------------------------------------------------------------------
(***************************************************************************)
(* Requests that come, and requests that leave the queue.                  *)
(***************************************************************************)
LEMMA CurrentIsIssued ==
  ASSUME NEW s, NEW ab, NEW m, Whole(s, ab, m), NEW slot \in Slots,
         s.ext.current[slot] # NoRequest
  PROVE  s.ext.current[slot] \in Requests /\ s.req[s.ext.current[slot]].issued
<1>1. SlotOk(s, ab, slot, m[slot])
  BY DEF Whole
<1> QED
  BY <1>1 DEF SlotOk, Busy, Work

LEMMA NewIsFresh ==
  ASSUME NEW s, NEW ab, NEW m, Whole(s, ab, m), NEW r \in Requests,
         ~s.req[r].issued
  PROVE  ~Current(s, r) /\ ~Waits(s, r) /\ Fresh(s.req[r])
<1>1. NoRequest \notin Requests /\ Placed(s, r)
  BY SerialAssumption DEF Whole
<1>2. ~Current(s, r)
  BY <1>1, CurrentIsIssued DEF Current
<1> QED
  BY <1>1, <1>2 DEF Placed, Done

Admits(s, u, r) ==
  /\ u \in StateType
  /\ \A x \in Requests : x # r => u.req[x] = s.req[x]
  /\ u.req[r].kind = s.req[r].kind /\ u.req[r].length = s.req[r].length
  /\ u.ext.isr = s.ext.isr /\ u.ext.timer = s.ext.timer
  /\ u.ext.dpc = s.ext.dpc

LEMMA AdmitsShape ==
  ASSUME NEW s, NEW ab, NEW m, Whole(s, ab, m), NEW r \in Requests,
         NEW u, Admits(s, u, r)
  PROVE  Shape(u)
<1>1. \A x \in Requests : /\ u.req[x].kind = s.req[x].kind
                          /\ u.req[x].length = s.req[x].length
  BY DEF Admits
<1> QED
  BY <1>1 DEF Shape, Whole, IsXoff

(* It becomes current in a free slot.                                      *)
LEMMA CurrentAdmitted ==
  ASSUME NEW s, NEW ab, NEW m \in [Slots -> Modes], Whole(s, ab, m),
         NEW r \in Requests, ~s.req[r].issued, NEW u, Admits(s, u, r),
         NEW slot \in {"write", "immediate"}, m[slot] = "steady",
         s.ext.current[slot] = NoRequest, u.ext.current[slot] = r,
         \A i \in Slots : i # slot => u.ext.current[i] = s.ext.current[i],
         u.ext.WriteQueue = s.ext.WriteQueue,
         Fresh(u.req[r]), u.req[r].issued, Fits(u.req[r].kind, slot)
  PROVE  Whole(u, ab, [m EXCEPT ![slot] = "start"])
<1>1. /\ slot \in Slots /\ slot # "xoff" /\ "xoff" \in Slots
      /\ NoRequest \notin Requests
  BY SerialAssumption DEF Slots
<1>2. ~Current(s, r) /\ ~Waits(s, r)
  BY NewIsFresh
<1>3. Shape(u) /\ u \in StateType
  BY AdmitsShape DEF Admits
<1>4. Apart(u)
  <2>1. \A i \in Slots : i # slot => u.ext.current[i] # r
    BY <1>2 DEF Current
  <2>2. Apart(s)
    BY DEF Whole
  <2> QED
    BY <2>1, <2>2 DEF Apart
<1>5. Once(u)
  BY DEF Whole, Once
<1>6. Owed(u, ab)
  BY <1>1 DEF Whole, Owed
<1>7. \A x : Waits(u, x) <=> Waits(s, x)
  BY DEF Waits
<1>8. \A x \in Requests : Placed(u, x)
  <2> SUFFICES ASSUME NEW x \in Requests
               PROVE  Placed(u, x)
    OBVIOUS
  <2>1. CASE x = r
    <3>1. Current(u, x) /\ ~Waits(u, x)
      BY <1>1, <1>2, <1>7, <2>1 DEF Current
    <3> QED
      BY <3>1 DEF Placed
  <2>2. CASE x # r
    <3>1. Current(u, x) <=> Current(s, x)
      BY <1>1, <2>2 DEF Current
    <3>2. u.req[x] = s.req[x]
      BY <2>2 DEF Admits
    <3>3. Placed(s, x)
      BY DEF Whole
    <3> QED
      BY <1>7, <3>1, <3>2, <3>3 DEF Placed
  <2> QED
    BY <2>1, <2>2
<1>9. \A i \in Slots : SlotOk(u, ab, i, [m EXCEPT ![slot] = "start"][i])
  <2> SUFFICES ASSUME NEW i \in Slots
               PROVE  SlotOk(u, ab, i, [m EXCEPT ![slot] = "start"][i])
    OBVIOUS
  <2>1. SlotOk(s, ab, i, m[i])
    BY DEF Whole
  <2>2. CASE i = slot
    <3>1. Silent(s, slot)
      BY <1>1, <2>1, <2>2 DEF SlotOk, Busy
    <3>2. Silent(u, slot)
      BY <3>1 DEF Silent, Admits
    <3>3. SlotOk(u, ab, slot, "start")
      BY <3>2 DEF SlotOk
    <3> QED
      BY <1>1, <2>2, <3>3
  <2>3. CASE i # slot
    <3>1. s.ext.current[i] \in Requests =>
            u.req[s.ext.current[i]] = s.req[s.ext.current[i]]
      BY <1>2 DEF Current, Admits
    <3>2. /\ u.ext.current[i] = s.ext.current[i]
          /\ u.ext.isr[i] = s.ext.isr[i] /\ u.ext.timer[i] = s.ext.timer[i]
          /\ i \in u.ext.dpc <=> i \in s.ext.dpc
      BY <2>3 DEF Admits
    <3>3. SlotOk(u, ab, i, m[i])
      BY <2>1, <3>1, <3>2, SlotSame
    <3> QED
      BY <2>3, <3>3
  <2> QED
    BY <2>2, <2>3
<1> QED
  BY <1>3, <1>4, <1>5, <1>6, <1>8, <1>9 DEF Whole

LEMMA AppendWaits ==
  ASSUME NEW s, NEW u, NEW r \in Requests,
         s.ext.WriteQueue \in Seq(Requests),
         u.ext.WriteQueue = Append(s.ext.WriteQueue, r)
  PROVE  /\ \A x : Waits(u, x) <=> Waits(s, x) \/ x = r
         /\ Once(s) /\ ~Waits(s, r) => Once(u)
<1> DEFINE q == s.ext.WriteQueue
           p == u.ext.WriteQueue
<1>1. /\ q \in Seq(Requests) /\ p = Append(q, r)
      /\ Len(q) \in Nat /\ DOMAIN q = 1 .. Len(q)
      /\ DOMAIN p = 1 .. Len(q) + 1
      /\ \A n \in DOMAIN q : p[n] = q[n]
      /\ p[Len(q) + 1] = r
  OBVIOUS
<1>2. \A x : Waits(s, x) <=> \E n \in DOMAIN q : q[n] = x
  BY DEF Waits
<1>3. \A x : Waits(u, x) <=> \E n \in DOMAIN p : p[n] = x
  BY DEF Waits
<1>4. /\ Once(s) <=> \A i, n \in DOMAIN q : q[i] = q[n] => i = n
      /\ Once(u) <=> \A i, n \in DOMAIN p : p[i] = p[n] => i = n
  BY DEF Once
<1> HIDE DEF q, p
<1>5. \A x : Waits(u, x) <=> Waits(s, x) \/ x = r
  <2>1. ASSUME NEW x, NEW n \in DOMAIN p, p[n] = x, x # r
        PROVE  \E k \in DOMAIN q : q[k] = x
    <3>1. n \in DOMAIN q
      BY <1>1, <2>1
    <3> QED
      BY <1>1, <2>1, <3>1
  <2>2. ASSUME NEW x, NEW n \in DOMAIN q, q[n] = x
        PROVE  \E k \in DOMAIN p : p[k] = x
    <3>1. n \in DOMAIN p
      BY <1>1
    <3> QED
      BY <1>1, <2>2, <3>1
  <2>3. \E k \in DOMAIN p : p[k] = r
    BY <1>1
  <2> QED
    BY <1>2, <1>3, <2>1, <2>2, <2>3
<1>6. Once(s) /\ ~Waits(s, r) => Once(u)
  BY <1>1, <1>2, <1>4
<1> QED
  BY <1>5, <1>6

(* It waits, or it was refused.                                            *)
LEMMA OtherAdmitted ==
  ASSUME NEW s, NEW ab, NEW m \in [Slots -> Modes], Whole(s, ab, m),
         NEW r \in Requests, ~s.req[r].issued, NEW u, Admits(s, u, r),
         u.ext.current = s.ext.current,
         \/ /\ u.ext.WriteQueue = Append(s.ext.WriteQueue, r)
            /\ Fresh(u.req[r]) /\ u.req[r].issued
            /\ u.req[r].kind # "immediate"
         \/ u.ext.WriteQueue = s.ext.WriteQueue /\ Done(u.req[r])
  PROVE  Whole(u, ab, m)
<1>1. s \in StateType /\ s.ext.WriteQueue \in Seq(Requests) /\ Once(s)
  BY StateFacts DEF Whole, ExtensionType
<1>2. ~Current(s, r) /\ ~Waits(s, r)
  BY NewIsFresh
<1>3. Shape(u) /\ u \in StateType
  BY AdmitsShape DEF Admits
<1>4. Apart(u) /\ Owed(u, ab)
  BY DEF Apart, Owed, Whole
<1>5. /\ Once(u)
      /\ \A x : x # r => (Waits(u, x) <=> Waits(s, x))
      /\ \/ /\ Waits(u, r) /\ Fresh(u.req[r]) /\ u.req[r].issued
            /\ u.req[r].kind # "immediate"
         \/ ~Waits(u, r) /\ Done(u.req[r])
  <2>1. CASE /\ u.ext.WriteQueue = Append(s.ext.WriteQueue, r)
             /\ Fresh(u.req[r]) /\ u.req[r].issued
             /\ u.req[r].kind # "immediate"
    BY <1>1, <1>2, <2>1, AppendWaits
  <2>2. CASE u.ext.WriteQueue = s.ext.WriteQueue /\ Done(u.req[r])
    BY <1>1, <1>2, <2>2 DEF Waits, Once
  <2> QED
    BY <2>1, <2>2
<1>6. \A x : Current(u, x) <=> Current(s, x)
  BY DEF Current
<1>7. \A x \in Requests : Placed(u, x)
  <2> SUFFICES ASSUME NEW x \in Requests
               PROVE  Placed(u, x)
    OBVIOUS
  <2>1. CASE x = r
    BY <1>2, <1>5, <1>6, <2>1 DEF Placed
  <2>2. CASE x # r
    <3>1. u.req[x] = s.req[x]
      BY <2>2 DEF Admits
    <3>2. Placed(s, x)
      BY DEF Whole
    <3> QED
      BY <1>5, <1>6, <2>2, <3>1, <3>2 DEF Placed
  <2> QED
    BY <2>1, <2>2
<1>8. \A i \in Slots : SlotOk(u, ab, i, m[i])
  <2> SUFFICES ASSUME NEW i \in Slots
               PROVE  SlotOk(u, ab, i, m[i])
    OBVIOUS
  <2>1. SlotOk(s, ab, i, m[i])
    BY DEF Whole
  <2>2. s.ext.current[i] \in Requests =>
          u.req[s.ext.current[i]] = s.req[s.ext.current[i]]
    BY <1>2 DEF Current, Admits
  <2>3. /\ u.ext.current[i] = s.ext.current[i]
        /\ u.ext.isr[i] = s.ext.isr[i] /\ u.ext.timer[i] = s.ext.timer[i]
        /\ i \in u.ext.dpc <=> i \in s.ext.dpc
    BY DEF Admits
  <2> QED
    BY <2>1, <2>2, <2>3, SlotSame
<1> QED
  BY <1>3, <1>4, <1>5, <1>7, <1>8 DEF Whole

(* Requests are taken out of the queue and completed.                      *)
Dismisses(s, u) ==
  /\ u \in StateType
  /\ u.ext.current = s.ext.current /\ u.ext.isr = s.ext.isr
  /\ u.ext.timer = s.ext.timer /\ u.ext.dpc = s.ext.dpc
  /\ \A x \in Requests : /\ u.req[x].kind = s.req[x].kind
                         /\ u.req[x].length = s.req[x].length
  /\ Once(u) /\ \A x : Waits(u, x) => Waits(s, x)
  /\ \A x \in Requests : IF Waits(s, x) /\ ~Waits(u, x)
                           THEN Done(u.req[x]) ELSE u.req[x] = s.req[x]

LEMMA DismissesWhole ==
  ASSUME NEW s, NEW ab, NEW m \in [Slots -> Modes], Whole(s, ab, m),
         NEW u, Dismisses(s, u)
  PROVE  Whole(u, ab, m)
<1>1. u \in StateType /\ Shape(u) /\ Apart(u) /\ Once(u) /\ Owed(u, ab)
  BY DEF Dismisses, Whole, Shape, Apart, Owed, IsXoff
<1>2. \A x : Current(u, x) <=> Current(s, x)
  BY DEF Current, Dismisses
<1>3. \A x \in Requests : Placed(s, x)
  BY DEF Whole
<1>4. \A x \in Requests : Placed(u, x)
  <2> SUFFICES ASSUME NEW x \in Requests
               PROVE  Placed(u, x)
    OBVIOUS
  <2>1. /\ Waits(u, x) => Waits(s, x)
        /\ IF Waits(s, x) /\ ~Waits(u, x)
             THEN Done(u.req[x]) ELSE u.req[x] = s.req[x]
    BY DEF Dismisses
  <2> QED
    BY <1>2, <1>3, <2>1 DEF Placed
<1>5. \A i \in Slots : SlotOk(u, ab, i, m[i])
  <2> SUFFICES ASSUME NEW i \in Slots
               PROVE  SlotOk(u, ab, i, m[i])
    OBVIOUS
  <2>1. SlotOk(s, ab, i, m[i])
    BY DEF Whole
  <2>2. s.ext.current[i] \in Requests =>
          u.req[s.ext.current[i]] = s.req[s.ext.current[i]]
    <3> DEFINE x == s.ext.current[i]
    <3>1. Current(s, x)
      BY DEF Current
    <3> HIDE DEF x
    <3>2. x \in Requests => ~Waits(s, x)
      BY <1>3, <3>1 DEF Placed
    <3>3. x \in Requests => u.req[x] = s.req[x]
      BY <3>2 DEF Dismisses
    <3> QED
      BY <3>3 DEF x
  <2>3. /\ u.ext.current[i] = s.ext.current[i]
        /\ u.ext.isr[i] = s.ext.isr[i] /\ u.ext.timer[i] = s.ext.timer[i]
        /\ i \in u.ext.dpc <=> i \in s.ext.dpc
    BY DEF Dismisses
  <2> QED
    BY <2>1, <2>2, <2>3, SlotSame
<1> QED
  BY <1>1, <1>4, <1>5 DEF Whole
-----------------------------------------------------------------------------
(***************************************************************************)
(* Writes and XOFF counters that come.                                     *)
(***************************************************************************)
Issued(s, i, r) ==
  /\ i \in StateType /\ i.ext = s.ext
  /\ \A x \in Requests : x # r => i.req[x] = s.req[x]
  /\ i.req[r].kind = s.req[r].kind /\ i.req[r].length = s.req[r].length
  /\ Fresh(i.req[r]) /\ i.req[r].issued

LEMMA IssuedIs ==
  ASSUME NEW s \in StateType, NEW r \in Requests, Fresh(s.req[r])
  PROVE  Issued(s, [s EXCEPT !.req[r].issued = TRUE], r)
<1> DEFINE q == s.req[r]
           u == [q EXCEPT !.issued = TRUE]
           i == [s EXCEPT !.req[r].issued = TRUE]
<1>1. q \in RequestType
  BY StateFacts
<1>2. i = Put(s, r, u)
  BY DEF Put, StateType
<1>3. Fresh(q)
  OBVIOUS
<1> HIDE DEF q, i
<1>4. /\ u \in RequestType /\ u.kind = q.kind /\ u.length = q.length
      /\ u.issued = TRUE /\ Fresh(u)
  <2>1. /\ u \in RequestType /\ u.kind = q.kind /\ u.length = q.length
        /\ u.issued = TRUE /\ u.ended = q.ended /\ u.RefCount = q.RefCount
        /\ u.cancel = q.cancel /\ u.onWire = q.onWire
        /\ u.Information = q.Information
    BY <1>1 DEF RequestType
  <2> QED
    BY <1>3, <2>1 DEF Fresh
<1> HIDE DEF u
<1>5. /\ i \in StateType /\ i.ext = s.ext /\ i.req[r] = u
      /\ \A x \in Requests : x # r => i.req[x] = s.req[x]
  BY <1>2, <1>4, PutFacts
<1>6. Issued(s, i, r)
  BY <1>4, <1>5 DEF Issued, q
<1> QED
  BY <1>6 DEF i

(* It is the current one of a slot, and its characters are counted.        *)
Comes(s, c, r, n) ==
  /\ Admits(s, c, r) /\ Fresh(c.req[r]) /\ c.req[r].issued
  /\ c.ext.stopped = s.ext.stopped
  /\ c.ext.TotalCharsQueued = s.ext.TotalCharsQueued + n

ComesCurrent(s, c, slot, r, n) ==
  /\ Comes(s, c, r, n)
  /\ c.ext.current[slot] = r
  /\ \A i \in Slots : i # slot => c.ext.current[i] = s.ext.current[i]
  /\ c.ext.WriteQueue = s.ext.WriteQueue

LEMMA ComesCurrentIs ==
  ASSUME NEW s, NEW i, NEW r \in Requests, Issued(s, i, r),
         NEW slot \in Slots, NEW n \in Nat
  PROVE  ComesCurrent(s, [i EXCEPT !.ext.TotalCharsQueued = @ + n,
                                   !.ext.current[slot] = r], slot, r, n)
<1> DEFINE c == [i EXCEPT !.ext.TotalCharsQueued = @ + n,
                          !.ext.current[slot] = r]
           e == [i.ext EXCEPT !.TotalCharsQueued = i.ext.TotalCharsQueued + n,
                              !.current = [i.ext.current EXCEPT ![slot] = r]]
<1>1. i \in StateType /\ i.ext \in ExtensionType /\ i.ext = s.ext
  BY StateFacts DEF Issued
<1>2. c = PutExt(i, e)
  BY <1>1 DEF PutExt, StateType, ExtensionType
<1>3. /\ e \in ExtensionType /\ e.current[slot] = r
      /\ \A j \in Slots : j # slot => e.current[j] = i.ext.current[j]
      /\ e.WriteQueue = i.ext.WriteQueue /\ e.stopped = i.ext.stopped
      /\ e.isr = i.ext.isr /\ e.timer = i.ext.timer /\ e.dpc = i.ext.dpc
      /\ e.TotalCharsQueued = i.ext.TotalCharsQueued + n
  <2>1. i.ext.TotalCharsQueued + n \in Int
    BY <1>1 DEF ExtensionType
  <2> QED
    BY <1>1, <2>1 DEF ExtensionType
<1> SUFFICES ComesCurrent(s, c, slot, r, n)
  OBVIOUS
<1> HIDE DEF c, e
<1>4. c \in StateType /\ c.ext = e /\ c.req = i.req
  BY <1>1, <1>2, <1>3, PutExtFacts
<1>5. Comes(s, c, r, n)
  BY <1>1, <1>3, <1>4 DEF Comes, Admits, Issued
<1> QED
  BY <1>1, <1>3, <1>4, <1>5 DEF ComesCurrent

ComesQueued(s, c, r, n) ==
  /\ Comes(s, c, r, n) /\ c.ext.current = s.ext.current
  /\ c.ext.WriteQueue = Append(s.ext.WriteQueue, r)

LEMMA ComesQueuedIs ==
  ASSUME NEW s, NEW i, NEW r \in Requests, Issued(s, i, r), NEW n \in Nat
  PROVE  ComesQueued(s, [i EXCEPT !.ext.TotalCharsQueued = @ + n,
                                  !.ext.WriteQueue = Append(@, r)], r, n)
<1> DEFINE c == [i EXCEPT !.ext.TotalCharsQueued = @ + n,
                          !.ext.WriteQueue = Append(@, r)]
           p == Append(i.ext.WriteQueue, r)
           e == [i.ext EXCEPT !.TotalCharsQueued = i.ext.TotalCharsQueued + n,
                              !.WriteQueue = p]
<1>1. i \in StateType /\ i.ext \in ExtensionType /\ i.ext = s.ext
  BY StateFacts DEF Issued
<1>2. c = PutExt(i, e)
  BY <1>1 DEF PutExt, StateType, ExtensionType
<1>3. /\ e \in ExtensionType /\ e.current = i.ext.current
      /\ e.WriteQueue = p /\ e.stopped = i.ext.stopped
      /\ e.isr = i.ext.isr /\ e.timer = i.ext.timer /\ e.dpc = i.ext.dpc
      /\ e.TotalCharsQueued = i.ext.TotalCharsQueued + n
  <2>1. i.ext.TotalCharsQueued + n \in Int
    BY <1>1 DEF ExtensionType
  <2>2. p \in Seq(Requests)
    BY <1>1 DEF ExtensionType
  <2> HIDE DEF p
  <2> QED
    BY <1>1, <2>1, <2>2 DEF ExtensionType
<1> SUFFICES ComesQueued(s, c, r, n)
  OBVIOUS
<1> HIDE DEF c, e
<1>4. c \in StateType /\ c.ext = e /\ c.req = i.req
  BY <1>1, <1>2, <1>3, PutExtFacts
<1>5. Comes(s, c, r, n)
  BY <1>1, <1>3, <1>4 DEF Comes, Admits, Issued
<1> QED
  BY <1>1, <1>3, <1>4, <1>5 DEF ComesQueued

LEMMA ComesTallies ==
  ASSUME NEW s, NEW ab, NEW m, Whole(s, ab, m), NEW r \in Requests,
         ~s.req[r].issued, NEW c, NEW n, n = s.req[r].length,
         NEW slot \in {"write", "immediate"},
         \/ /\ ComesCurrent(s, c, slot, r, n)
            /\ s.ext.current[slot] = NoRequest
         \/ ComesQueued(s, c, r, n)
  PROVE  Tallies(s, c)
<1>1. /\ "write" \in Slots /\ "immediate" \in Slots /\ slot \in Slots
      /\ NoRequest \notin Requests /\ s \in StateType
      /\ s.ext.WriteQueue \in Seq(Requests)
  BY SerialAssumption, StateFacts DEF Slots, Whole, ExtensionType
<1>2. ~Current(s, r) /\ ~Waits(s, r)
  BY NewIsFresh
<1>3. Comes(s, c, r, n)
  BY DEF ComesCurrent, ComesQueued
<1>4. \A x \in Requests : c.req[x].length = s.req[x].length
  BY <1>3 DEF Comes, Admits
<1>5. r \notin Counted(s)
  BY <1>1, <1>2 DEF Counted, Current
<1>6. Counted(c) = Counted(s) \cup {r}
  <2>1. CASE ComesCurrent(s, c, slot, r, n) /\ s.ext.current[slot] = NoRequest
    <3>1. \A x : Waits(c, x) <=> Waits(s, x)
      BY <2>1 DEF ComesCurrent, Waits
    <3>2. \A x \in Requests :
            \/ x = c.ext.current["write"]
            \/ x = c.ext.current["immediate"]
            <=> \/ x = s.ext.current["write"]
                \/ x = s.ext.current["immediate"] \/ x = r
      BY <1>1, <2>1 DEF ComesCurrent
    <3> QED
      BY <3>1, <3>2 DEF Counted
  <2>2. CASE ComesQueued(s, c, r, n)
    <3>1. \A x : Waits(c, x) <=> Waits(s, x) \/ x = r
      BY <1>1, <2>2, AppendWaits DEF ComesQueued
    <3>2. c.ext.current = s.ext.current
      BY <2>2 DEF ComesQueued
    <3> QED
      BY <3>1, <3>2 DEF Counted
  <2> QED
    BY <2>1, <2>2
<1>7. Joins(s, c, r)
  BY <1>3, <1>4, <1>5, <1>6 DEF Joins, Comes
<1> QED
  BY <1>1, <1>7, JoinsTallies
(* A write comes while writes wait, or while the driver has a request that *)
(* came out of the queue.                                                  *)
Passes(s) ==
  /\ s.ext.current["write"] = NoRequest
  /\ s.ext.WriteQueue = <<>> /\ s.ext.delivered # {}

Arrived(s, u, ab) ==
  /\ Whole(u, ab, Steady) /\ Tallies(s, u)
  /\ Stuck(u) => Stuck(s) \/ Passes(s)

LEMMA SteadyFacts ==
  ASSUME NEW slot \in Slots, NEW mode \in Modes
  PROVE  /\ Steady \in [Slots -> Modes] /\ Steady[slot] = "steady"
         /\ [Steady EXCEPT ![slot] = mode] \in [Slots -> Modes]
         /\ [Steady EXCEPT ![slot] = mode][slot] = mode
         /\ [[Steady EXCEPT ![slot] = mode] EXCEPT ![slot] = "steady"] = Steady
         /\ \A i \in Slots : i # slot =>
              [Steady EXCEPT ![slot] = mode][i] = "steady"
BY DEF Steady, Modes

LEMMA StartOrQueueWhole ==
  ASSUME NEW s, NEW ab, Whole(s, ab, Steady), NEW r \in Requests,
         ~s.req[r].issued, s.req[r].kind # "immediate"
  PROVE  Arrived(s, SerialStartOrQueue([s EXCEPT !.req[r].issued = TRUE], r),
                 ab)
<1> DEFINE i == [s EXCEPT !.req[r].issued = TRUE]
           u == SerialStartOrQueue(i, r)
           n == s.req[r].length
           k == [Steady EXCEPT !["write"] = "start"]
<1>1. /\ s \in StateType /\ NoRequest \notin Requests
      /\ "write" \in Slots /\ "xoff" \in Slots /\ "xoff" # "write"
  BY SerialAssumption DEF Whole, Slots
<1>2. Issued(s, i, r) /\ n \in Nat
  BY <1>1, NewIsFresh, IssuedIs, StateFacts, RequestFacts
<1>3. i.req[r].length = n /\ i.ext = s.ext /\ i.req[r].kind = s.req[r].kind
  BY <1>2 DEF Issued
<1> SUFFICES Arrived(s, u, ab)
  OBVIOUS
<1>4. u = IF MayStart(i)
            THEN SerialStartWrite(
                   [i EXCEPT !.ext.TotalCharsQueued = @ + n,
                             !.ext.current["write"] = r])
            ELSE [i EXCEPT !.ext.TotalCharsQueued = @ + n,
                           !.ext.WriteQueue = Append(@, r)]
  <2> HIDE DEF i, n
  <2> DEFINE more == [i EXCEPT !.ext.TotalCharsQueued = @ + n]
  <2>1. i \in StateType
    BY <1>2 DEF Issued
  <2>2. u = IF MayStart(i)
              THEN SerialStartWrite([more EXCEPT !.ext.current["write"] = r])
              ELSE [more EXCEPT !.ext.WriteQueue = Append(@, r)]
    BY <1>3 DEF SerialStartOrQueue
  <2> HIDE DEF i, u, n
  <2>3. /\ [more EXCEPT !.ext.current["write"] = r] =
             [i EXCEPT !.ext.TotalCharsQueued = @ + n,
                       !.ext.current["write"] = r]
        /\ [more EXCEPT !.ext.WriteQueue = Append(@, r)] =
             [i EXCEPT !.ext.TotalCharsQueued = @ + n,
                       !.ext.WriteQueue = Append(@, r)]
    BY <2>1 DEF StateType, ExtensionType
  <2> HIDE DEF more
  <2> QED
    BY <2>2, <2>3
<1> HIDE DEF i, u, n
<1>5. CASE MayStart(i)
  <2> DEFINE c == [i EXCEPT !.ext.TotalCharsQueued = @ + n,
                            !.ext.current["write"] = r]
  <2>1. u = SerialStartWrite(c)
    BY <1>4, <1>5
  <2>2. ComesCurrent(s, c, "write", r, n)
    BY <1>1, <1>2, ComesCurrentIs
  <2> HIDE DEF c
  <2>3. s.ext.current["write"] = NoRequest
    BY <1>3, <1>5 DEF MayStart
  <2>4. /\ k \in [Slots -> Modes] /\ k["write"] = "start"
        /\ k["xoff"] = "steady" /\ [k EXCEPT !["write"] = "steady"] = Steady
        /\ Steady \in [Slots -> Modes] /\ Steady["write"] = "steady"
    <3>1. "start" \in Modes
      BY DEF Modes
    <3> QED
      BY <1>1, <3>1, SteadyFacts
  <2>5. Whole(c, ab, k)
    <3>1. Fits(c.req[r].kind, "write") /\ Fresh(c.req[r])
          /\ c.req[r].issued /\ Admits(s, c, r)
      <4>1. Admits(s, c, r) /\ Fresh(c.req[r]) /\ c.req[r].issued
        BY <2>2 DEF ComesCurrent, Comes
      <4>2. c.req[r].kind # "immediate"
        BY <4>1 DEF Admits
      <4> QED
        BY <4>1, <4>2 DEF Fits
    <3> QED
      BY <2>2, <2>3, <2>4, <3>1, CurrentAdmitted DEF ComesCurrent
  <2> HIDE DEF k
  <2>6. Whole(u, ab, Steady) /\ Keeps(c, u)
    BY <2>1, <2>4, <2>5, StartWriteWhole
  <2>7. Tallies(s, c)
    BY <1>1, <2>2, <2>3, ComesTallies DEF n
  <2>8. Tallies(s, u)
    BY <2>6, <2>7, KeepsTallies, TalliesTransitive
  <2>9. ~Stuck(u)
    BY <1>1, <2>2, <2>6 DEF Stuck, Keeps, ComesCurrent
  <2> QED
    BY <2>6, <2>8, <2>9 DEF Arrived
<1>6. CASE ~MayStart(i)
  <2>1. u = [i EXCEPT !.ext.TotalCharsQueued = @ + n,
                      !.ext.WriteQueue = Append(@, r)]
    BY <1>4, <1>6
  <2>2. ComesQueued(s, u, r, n)
    BY <1>1, <1>2, <2>1, ComesQueuedIs
  <2>3. Steady \in [Slots -> Modes]
    BY DEF Steady, Modes
  <2>4. /\ Admits(s, u, r) /\ Fresh(u.req[r]) /\ u.req[r].issued
        /\ u.req[r].kind # "immediate" /\ u.ext.current = s.ext.current
        /\ u.ext.WriteQueue = Append(s.ext.WriteQueue, r)
    BY <2>2 DEF ComesQueued, Comes, Admits
  <2>5. Whole(u, ab, Steady)
    BY <2>3, <2>4, OtherAdmitted
  <2>6. Tallies(s, u)
    BY <2>2, ComesTallies DEF n
  <2>7. Stuck(u) => Stuck(s) \/ Passes(s)
    BY <1>3, <1>6, <2>4 DEF Stuck, Passes, MayStart
  <2> QED
    BY <2>5, <2>6, <2>7 DEF Arrived
<1> QED
  BY <1>5, <1>6
-----------------------------------------------------------------------------
(***************************************************************************)
(* Immediate characters that come.                                         *)
(***************************************************************************)
Entered(s, u, ab) ==
  Whole(u, ab, Steady) /\ Tallies(s, u) /\ (Stuck(u) => Stuck(s))

LEMMA RefusedWhole ==
  ASSUME NEW s, NEW ab, Whole(s, ab, Steady), NEW r \in Requests,
         ~s.req[r].issued, s.req[r].kind = "immediate",
         NEW i, Issued(s, i, r)
  PROVE  Entered(s, SerialCompleteRequest(i, r, "INVALID"), ab)
<1> DEFINE u == SerialCompleteRequest(i, r, "INVALID")
           q == i.req[r]
<1>1. /\ s \in StateType /\ i \in StateType /\ i.ext = s.ext
      /\ i.ext \in ExtensionType /\ q \in RequestType
      /\ Steady \in [Slots -> Modes]
  BY StateFacts DEF Issued, Whole, Steady, Modes
<1>2. Ended(i, u, r, "INVALID")
  BY <1>1, SerialCompleteRequestEnds DEF Statuses
<1> SUFFICES Entered(s, u, ab)
  OBVIOUS
<1> HIDE DEF u
<1>3. /\ u \in StateType /\ u.ext = [i.ext EXCEPT !.delivered = i.ext.delivered \ {r}]
      /\ u.req[r] = [q EXCEPT !.ended = q.ended + 1, !.Status = "INVALID"]
      /\ \A x \in Requests : x # r => u.req[x] = i.req[x]
  BY <1>2 DEF Ended
<1>4. /\ q.ended = 0 /\ q.RefCount = {} /\ q.cancel = "no" /\ q.issued
      /\ q.kind = "immediate" /\ q.length = s.req[r].length
      /\ q.kind = s.req[r].kind
  BY DEF Issued, Fresh
<1> HIDE DEF q
<1>5. Done(u.req[r]) /\ u.req[r].kind = s.req[r].kind
      /\ u.req[r].length = s.req[r].length
  <2> DEFINE e == u.req[r]
  <2>1. e = [q EXCEPT !.ended = q.ended + 1, !.Status = "INVALID"]
    BY <1>3
  <2> HIDE DEF e
  <2>2. /\ e.ended = q.ended + 1 /\ e.Status = "INVALID"
        /\ e.RefCount = q.RefCount /\ e.cancel = q.cancel
        /\ e.issued = q.issued /\ e.kind = q.kind /\ e.length = q.length
    BY <1>1, <2>1 DEF RequestType
  <2>3. e.ended = 1
    BY <1>4, <2>2
  <2>4. Done(e)
    BY <1>4, <2>2, <2>3 DEF Done
  <2> QED
    BY <1>4, <2>2, <2>4 DEF e
<1>6. /\ u.ext.current = s.ext.current /\ u.ext.WriteQueue = s.ext.WriteQueue
      /\ u.ext.isr = s.ext.isr /\ u.ext.timer = s.ext.timer
      /\ u.ext.dpc = s.ext.dpc /\ u.ext.stopped = s.ext.stopped
      /\ u.ext.TotalCharsQueued = s.ext.TotalCharsQueued
  BY <1>1, <1>3 DEF ExtensionType
<1>7. Admits(s, u, r)
  BY <1>3, <1>5, <1>6 DEF Admits, Issued
<1>8. Whole(u, ab, Steady)
  BY <1>1, <1>5, <1>6, <1>7, OtherAdmitted
<1>9. Keeps(s, u)
  <2>1. \A x \in Requests : u.req[x].length = s.req[x].length
    BY <1>7 DEF Admits
  <2> QED
    BY <1>3, <1>6, <2>1 DEF Keeps
<1> QED
  BY <1>6, <1>8, <1>9, KeepsTallies DEF Entered, Stuck

LEMMA StartImmediateWhole ==
  ASSUME NEW s, NEW ab, Whole(s, ab, Steady), NEW r \in Requests,
         ~s.req[r].issued, s.req[r].kind = "immediate"
  PROVE  Entered(s, StartImmediate([s EXCEPT !.req[r].issued = TRUE], r), ab)
<1> DEFINE slot == "immediate"
           i == [s EXCEPT !.req[r].issued = TRUE]
           u == StartImmediate(i, r)
           c == [i EXCEPT !.ext.TotalCharsQueued = @ + 1,
                          !.ext.current[slot] = r]
           k == [Steady EXCEPT ![slot] = "start"]
           timeouts == i.ext.Timeouts
           fresh == SerialSetCancelRoutine(c, r, slot)
           timed == IF timeouts THEN SerialSetTimer(fresh, slot, r) ELSE fresh
<1>1. /\ s \in StateType /\ NoRequest \notin Requests
      /\ slot \in Slots /\ slot # "xoff" /\ "write" \in Slots
  BY SerialAssumption DEF Whole, Slots
<1>2. Issued(s, i, r)
  BY <1>1, NewIsFresh, IssuedIs
<1>3. s.req[r].length = 1
  <2>1. Shape(s)
    BY DEF Whole
  <2> QED
    BY <2>1 DEF Shape
<1>4. i.ext = s.ext /\ timeouts \in BOOLEAN
  BY <1>1, <1>2, StateFacts DEF Issued, ExtensionType
<1> SUFFICES Entered(s, u, ab)
  OBVIOUS
<1>5. u = IF i.ext.current[slot] # NoRequest
            THEN SerialCompleteRequest(i, r, "INVALID")
            ELSE SetReference([timed EXCEPT !.ext.isr[slot] = 1], r, "ISR")
  <2> DEFINE more == [i EXCEPT !.ext.current[slot] = r,
                               !.ext.TotalCharsQueued = @ + 1]
  <2> HIDE DEF i
  <2>1. more = c
    BY <1>2 DEF Issued, StateType, ExtensionType
  <2> DEFINE f == SerialSetCancelRoutine(more, r, slot)
             t == IF timeouts THEN SerialSetTimer(f, slot, r) ELSE f
  <2>2. u = IF i.ext.current[slot] # NoRequest
              THEN SerialCompleteRequest(i, r, "INVALID")
              ELSE SetReference([t EXCEPT !.ext.isr[slot] = 1], r, "ISR")
    BY DEF StartImmediate
  <2> HIDE DEF more, c
  <2>3. f = fresh
    BY <2>1
  <2> HIDE DEF f, fresh
  <2>4. t = timed
    BY <2>3
  <2> HIDE DEF t, timed
  <2> QED
    BY <2>2, <2>4
<1>6. CASE i.ext.current[slot] # NoRequest
  <2>1. u = SerialCompleteRequest(i, r, "INVALID")
    BY <1>5, <1>6
  <2> HIDE DEF i, u
  <2> QED
    BY <1>2, <2>1, RefusedWhole
<1>7. CASE i.ext.current[slot] = NoRequest
  <2>1. u = SetReference([timed EXCEPT !.ext.isr[slot] = 1], r, "ISR")
    BY <1>5, <1>7
  <2> HIDE DEF i, u
  <2>2. ComesCurrent(s, c, slot, r, 1)
    BY <1>1, <1>2, ComesCurrentIs
  <2> HIDE DEF c
  <2>3. /\ Admits(s, c, r) /\ Fresh(c.req[r]) /\ c.req[r].issued
        /\ c.ext.current[slot] = r
        /\ \A j \in Slots : j # slot => c.ext.current[j] = s.ext.current[j]
        /\ c.ext.WriteQueue = s.ext.WriteQueue
    BY <2>2 DEF ComesCurrent, Comes
  <2>4. /\ k \in [Slots -> Modes] /\ k[slot] = "start"
        /\ [k EXCEPT ![slot] = "steady"] = Steady
        /\ Steady \in [Slots -> Modes] /\ Steady[slot] = "steady"
    <3>1. "start" \in Modes
      BY DEF Modes
    <3> QED
      BY <1>1, <3>1, SteadyFacts
  <2>5. Fits(c.req[r].kind, slot)
    <3>1. c.req[r].kind = "immediate"
      BY <2>3 DEF Admits
    <3> QED
      BY <3>1 DEF Fits
  <2>6. s.ext.current[slot] = NoRequest
    BY <1>4, <1>7
  <2>7. Whole(c, ab, k)
    BY <2>3, <2>4, <2>5, <2>6, CurrentAdmitted
  <2> HIDE DEF k
  <2>8. /\ c \in StateType /\ c.ext.timer[slot] = {} /\ slot \notin c.ext.dpc
        /\ c.req[r].RefCount = {} /\ c.req[r].ended = 0
        /\ c.req[r].onWire + 1 = c.req[r].length
    <3>1. SlotOk(c, ab, slot, "start")
      BY <1>1, <2>4, <2>7 DEF Whole
    <3>2. Silent(c, slot)
      BY <3>1 DEF SlotOk
    <3>3. c.req[r].onWire = 0 /\ c.req[r].length = 1
      BY <1>3, <2>3 DEF Fresh, Admits
    <3> QED
      BY <2>3, <3>2, <3>3 DEF Silent, Fresh, Admits
  <2>9. Begins(c, u, slot, r, 1)
    <3> HIDE DEF timeouts
    <3>1. Begins(c, SetReference([timed EXCEPT !.ext.isr[slot] = 1], r, "ISR"),
                 slot, r, 1)
      BY <1>1, <1>4, <2>3, <2>8, BeginsByDirect
    <3> QED
      BY <2>1, <3>1
  <2> HIDE DEF timed, fresh, timeouts
  <2>10. SlotOk(u, ab, slot, "steady")
    <3>1. slot # "xoff" /\ 1 \in Nat /\ 1 > 0
      OBVIOUS
    <3> QED
      BY <1>1, <2>3, <2>5, <2>8, <2>9, <3>1, BeginsSteady
  <2>11. Near(c, u, slot)
    BY <2>9 DEF Begins
  <2>12. Lends(c, u, slot)
    BY <2>11, NearBeside DEF Lends, Near
  <2>13. Whole(u, ab, Steady) /\ Keeps(c, u)
    <3>1. Whole(u, ab, [k EXCEPT ![slot] = "steady"])
      BY <1>1, <2>3, <2>4, <2>7, <2>10, <2>12, LendsWhole DEF Modes
    <3> QED
      BY <2>4, <2>12, <3>1, LendsKeeps
  <2>14. Tallies(s, c)
    BY <1>3, <2>2, <2>6, ComesTallies
  <2>15. Tallies(s, u)
    BY <2>13, <2>14, KeepsTallies, TalliesTransitive
  <2>16. Stuck(u) => Stuck(s)
    BY <1>1, <2>3, <2>13 DEF Stuck, Keeps
  <2> QED
    BY <2>13, <2>15, <2>16 DEF Entered
<1> QED
  BY <1>6, <1>7
-----------------------------------------------------------------------------
(***************************************************************************)
(* Requests that are cancelled while they wait.                            *)
(***************************************************************************)
LEMMA RemoveAtIs ==
  ASSUME NEW q \in Seq(Requests), NEW n \in DOMAIN q
  PROVE  /\ RemoveAt(q, n) \in Seq(Requests)
         /\ Len(RemoveAt(q, n)) = Len(q) - 1
         /\ \A k \in 1 .. Len(q) - 1 :
              RemoveAt(q, n)[k] = IF k < n THEN q[k] ELSE q[k + 1]
<1> DEFINE a == SubSeq(q, 1, n - 1)
           b == SubSeq(q, n + 1, Len(q))
<1>1. Len(q) \in Nat /\ n \in 1 .. Len(q)
  OBVIOUS
<1>2. /\ a \in Seq(Requests) /\ Len(a) = n - 1
      /\ \A k \in 1 .. n - 1 : a[k] = q[k]
  BY <1>1
<1>3. /\ b \in Seq(Requests) /\ Len(b) = Len(q) - n
      /\ \A k \in 1 .. Len(q) - n : b[k] = q[n + k]
  BY <1>1
<1>4. RemoveAt(q, n) = a \o b
  BY DEF RemoveAt
<1> HIDE DEF a, b
<1>5. /\ a \o b \in Seq(Requests) /\ Len(a \o b) = Len(q) - 1
      /\ \A k \in 1 .. Len(q) - 1 :
           (a \o b)[k] = IF k <= Len(a) THEN a[k] ELSE b[k - Len(a)]
  <2>1. /\ a \o b \in Seq(Requests) /\ Len(a \o b) = Len(a) + Len(b)
        /\ \A k \in 1 .. Len(a) + Len(b) :
             (a \o b)[k] = IF k <= Len(a) THEN a[k] ELSE b[k - Len(a)]
    BY <1>2, <1>3, ConcatProperties
  <2>2. Len(a) + Len(b) = Len(q) - 1
    BY <1>1, <1>2, <1>3
  <2> QED
    BY <2>1, <2>2
<1>6. \A k \in 1 .. Len(q) - 1 :
        (a \o b)[k] = IF k < n THEN q[k] ELSE q[k + 1]
  <2> SUFFICES ASSUME NEW k \in 1 .. Len(q) - 1
               PROVE  (a \o b)[k] = IF k < n THEN q[k] ELSE q[k + 1]
    OBVIOUS
  <2>1. CASE k < n
    BY <1>1, <1>2, <1>5, <2>1
  <2>2. CASE ~(k < n)
    <3>1. (a \o b)[k] = b[k - (n - 1)]
      BY <1>1, <1>2, <1>5, <2>2
    <3>2. k - (n - 1) \in 1 .. Len(q) - n /\ n + (k - (n - 1)) = k + 1
      BY <1>1, <2>2
    <3> QED
      BY <1>3, <2>2, <3>1, <3>2
  <2> QED
    BY <2>1, <2>2
<1> QED
  BY <1>4, <1>5, <1>6

LEMMA RemovedWaits ==
  ASSUME NEW s, NEW u, s.ext.WriteQueue \in Seq(Requests), Once(s),
         NEW n \in DOMAIN s.ext.WriteQueue,
         u.ext.WriteQueue = RemoveAt(s.ext.WriteQueue, n)
  PROVE  /\ \A x : Waits(u, x) <=> Waits(s, x) /\ x # s.ext.WriteQueue[n]
         /\ Once(u)
<1> DEFINE q == s.ext.WriteQueue
           p == u.ext.WriteQueue
<1>1. /\ q \in Seq(Requests) /\ n \in DOMAIN q /\ p = RemoveAt(q, n)
      /\ DOMAIN q = 1 .. Len(q) /\ Len(q) \in Nat
      /\ \A i, k \in DOMAIN q : q[i] = q[k] => i = k
  BY DEF Once
<1>2. \A x : Waits(s, x) <=> \E i \in DOMAIN q : q[i] = x
  BY DEF Waits
<1>3. \A x : Waits(u, x) <=> \E i \in DOMAIN p : p[i] = x
  BY DEF Waits
<1>4. Once(u) <=> \A i, k \in DOMAIN p : p[i] = p[k] => i = k
  BY DEF Once
<1> HIDE DEF q, p
<1>5. /\ p \in Seq(Requests) /\ DOMAIN p = 1 .. Len(q) - 1
      /\ \A k \in 1 .. Len(q) - 1 : p[k] = IF k < n THEN q[k] ELSE q[k + 1]
  <2>1. /\ p \in Seq(Requests) /\ Len(p) = Len(q) - 1
        /\ \A k \in 1 .. Len(q) - 1 :
             p[k] = IF k < n THEN q[k] ELSE q[k + 1]
    <3> DEFINE rest == RemoveAt(q, n)
    <3>1. q \in Seq(Requests) /\ n \in DOMAIN q
      BY <1>1
    <3>2. /\ rest \in Seq(Requests) /\ Len(rest) = Len(q) - 1
          /\ \A k \in 1 .. Len(q) - 1 :
               rest[k] = IF k < n THEN q[k] ELSE q[k + 1]
      BY <3>1, RemoveAtIs
    <3>3. p = rest
      BY <1>1
    <3> HIDE DEF rest
    <3> QED
      BY <3>2, <3>3
  <2>2. DOMAIN p = 1 .. Len(p)
    BY <2>1
  <2> QED
    BY <2>1, <2>2
<1>6. \A x : Waits(u, x) <=> Waits(s, x) /\ x # q[n]
  <2> SUFFICES ASSUME NEW x
               PROVE  Waits(u, x) <=> Waits(s, x) /\ x # q[n]
    OBVIOUS
  <2>1. ASSUME NEW k \in DOMAIN p, p[k] = x
        PROVE  \E i \in DOMAIN q : q[i] = x /\ i # n
    <3>1. CASE k < n
      BY <1>1, <1>5, <2>1, <3>1
    <3>2. CASE ~(k < n)
      <4>1. k + 1 \in DOMAIN q /\ k + 1 # n /\ q[k + 1] = x
        BY <1>1, <1>5, <2>1, <3>2
      <4> QED
        BY <4>1
    <3> QED
      BY <3>1, <3>2
  <2>2. ASSUME NEW i \in DOMAIN q, q[i] = x, i # n
        PROVE  \E k \in DOMAIN p : p[k] = x
    <3>1. CASE i < n
      BY <1>1, <1>5, <2>2, <3>1
    <3>2. CASE ~(i < n)
      <4>1. i - 1 \in DOMAIN p /\ ~(i - 1 < n) /\ (i - 1) + 1 = i
        BY <1>1, <1>5, <2>2, <3>2
      <4>2. p[i - 1] = x
        BY <1>5, <2>2, <4>1
      <4> QED
        BY <4>1, <4>2
    <3> QED
      BY <3>1, <3>2
  <2> QED
    BY <1>1, <1>2, <1>3, <2>1, <2>2
<1>7. Once(u)
  <2> SUFFICES ASSUME NEW i \in DOMAIN p, NEW k \in DOMAIN p, p[i] = p[k]
               PROVE  i = k
    BY <1>4
  <2> DEFINE at(j) == IF j < n THEN j ELSE j + 1
  <2>1. \A j \in DOMAIN p : at(j) \in DOMAIN q /\ p[j] = q[at(j)]
    BY <1>1, <1>5
  <2>2. at(i) = at(k)
    <3> HIDE DEF at
    <3> QED
      BY <1>1, <2>1
  <2> QED
    BY <1>1, <1>5, <2>2
<1> QED
  BY <1>6, <1>7 DEF q

(* It has not begun, so it ends with nothing sent.                         *)
LEMMA FreshIsDone ==
  ASSUME NEW q \in RequestType, Fresh(q), q.issued, NEW e,
         e = [q EXCEPT !.ended = q.ended + 1, !.Status = "CANCELLED"]
  PROVE  Done(e) /\ e.kind = q.kind /\ e.length = q.length
<1>1. /\ e.ended = q.ended + 1 /\ e.Status = "CANCELLED"
      /\ e.RefCount = q.RefCount /\ e.cancel = q.cancel
      /\ e.issued = q.issued /\ e.kind = q.kind /\ e.length = q.length
      /\ e.Information = q.Information
  BY DEF RequestType
<1>2. e.ended = 1 /\ e.RefCount = {} /\ e.cancel = "no" /\ e.Information = 0
  BY <1>1 DEF Fresh
<1> QED
  BY <1>1, <1>2 DEF Done
LEMMA CanceledOnQueueWhole ==
  ASSUME NEW s, NEW ab, NEW m \in [Slots -> Modes], Whole(s, ab, m),
         NEW n \in DOMAIN s.ext.WriteQueue
  PROVE  /\ Whole(SerialEvtCanceledOnQueue(s, n), ab, m)
         /\ Tallies(s, SerialEvtCanceledOnQueue(s, n))
         /\ Stuck(SerialEvtCanceledOnQueue(s, n)) => Stuck(s)
<1> DEFINE r == s.ext.WriteQueue[n]
           p == RemoveAt(s.ext.WriteQueue, n)
           less == s.ext.TotalCharsQueued - s.req[r].length
           e == [s.ext EXCEPT !.WriteQueue = p, !.TotalCharsQueued = less]
           v == [s EXCEPT !.ext.WriteQueue = RemoveAt(@, n),
                          !.ext.TotalCharsQueued = @ - s.req[r].length]
           u == SerialEvtCanceledOnQueue(s, n)
<1>1. /\ s \in StateType /\ s.ext \in ExtensionType
      /\ s.ext.WriteQueue \in Seq(Requests) /\ Once(s)
      /\ NoRequest \notin Requests
      /\ \A x \in Requests : Placed(s, x)
      /\ "write" \in Slots /\ "immediate" \in Slots
  BY SerialAssumption, StateFacts DEF Whole, ExtensionType, Slots
<1>2. r \in Requests /\ Waits(s, r)
  BY <1>1 DEF Waits
<1>3. ~Current(s, r) /\ Fresh(s.req[r]) /\ s.req[r].issued
  BY <1>1, <1>2 DEF Placed
<1>4. v = PutExt(s, e)
  BY <1>1 DEF PutExt, StateType, ExtensionType
<1>5. u = SerialCompleteRequest(v, r, "CANCELLED")
  BY DEF SerialEvtCanceledOnQueue
<1>6. p \in Seq(Requests)
  BY <1>1, RemoveAtIs
<1>7. less \in Int
  <2>1. s.req[r].length \in Nat /\ s.ext.TotalCharsQueued \in Int
    BY <1>1, <1>2, StateFacts, RequestFacts DEF ExtensionType
  <2> QED
    BY <2>1
<1> HIDE DEF p, less
<1>8. /\ e \in ExtensionType /\ e.WriteQueue = p
      /\ e.TotalCharsQueued = less /\ e.current = s.ext.current
      /\ e.isr = s.ext.isr /\ e.timer = s.ext.timer /\ e.dpc = s.ext.dpc
      /\ e.stopped = s.ext.stopped
  BY <1>1, <1>6, <1>7 DEF ExtensionType
<1> HIDE DEF e, v
<1>9. v \in StateType /\ v.ext = e /\ v.req = s.req
  BY <1>1, <1>4, <1>8, PutExtFacts
<1>10. Ended(v, u, r, "CANCELLED")
  <2> HIDE DEF u, r
  <2> QED
    BY <1>2, <1>5, <1>9, SerialCompleteRequestEnds DEF Statuses
<1> HIDE DEF u
<1>11. /\ u \in StateType
       /\ \A x \in Requests : x # r => u.req[x] = s.req[x]
       /\ u.req[r] = [s.req[r] EXCEPT !.ended = s.req[r].ended + 1,
                                      !.Status = "CANCELLED"]
       /\ u.ext.WriteQueue = p /\ u.ext.TotalCharsQueued = less
       /\ u.ext.current = s.ext.current /\ u.ext.isr = s.ext.isr
       /\ u.ext.timer = s.ext.timer /\ u.ext.dpc = s.ext.dpc
       /\ u.ext.stopped = s.ext.stopped
  <2>1. u.ext = [e EXCEPT !.delivered = e.delivered \ {r}]
    BY <1>9, <1>10 DEF Ended
  <2>2. /\ u.ext.WriteQueue = e.WriteQueue
        /\ u.ext.TotalCharsQueued = e.TotalCharsQueued
        /\ u.ext.current = e.current /\ u.ext.isr = e.isr
        /\ u.ext.timer = e.timer /\ u.ext.dpc = e.dpc
        /\ u.ext.stopped = e.stopped
    BY <1>8, <2>1 DEF ExtensionType
  <2>3. /\ u \in StateType
        /\ \A x \in Requests : x # r => u.req[x] = s.req[x]
        /\ u.req[r] = [s.req[r] EXCEPT !.ended = s.req[r].ended + 1,
                                       !.Status = "CANCELLED"]
    BY <1>9, <1>10 DEF Ended
  <2> QED
    BY <1>8, <2>2, <2>3
<1>12. /\ Done(u.req[r]) /\ u.req[r].kind = s.req[r].kind
       /\ u.req[r].length = s.req[r].length
  <2>1. s.req[r] \in RequestType
    BY <1>1, <1>2, StateFacts
  <2> QED
    BY <1>3, <1>11, <2>1, FreshIsDone
<1>13. (\A x : Waits(u, x) <=> Waits(s, x) /\ x # r) /\ Once(u)
  BY <1>1, <1>11, RemovedWaits DEF p
<1>14. Dismisses(s, u)
  <2>1. \A x \in Requests : /\ u.req[x].kind = s.req[x].kind
                            /\ u.req[x].length = s.req[x].length
    <3> HIDE DEF r
    <3> QED
      BY <1>11, <1>12
  <2>2. \A x \in Requests : IF Waits(s, x) /\ ~Waits(u, x)
                              THEN Done(u.req[x]) ELSE u.req[x] = s.req[x]
    <3> HIDE DEF r
    <3> QED
      BY <1>2, <1>11, <1>12, <1>13
  <2> QED
    BY <1>11, <1>13, <2>1, <2>2 DEF Dismisses
<1>15. Drops(s, u, r)
  <2>1. r \in Counted(s)
    BY <1>2 DEF Counted
  <2>2. r # s.ext.current["write"] /\ r # s.ext.current["immediate"]
    BY <1>1, <1>3 DEF Current
  <2>3. Counted(u) = Counted(s) \ {r}
    BY <1>11, <1>13, <2>2 DEF Counted
  <2> QED
    BY <1>11, <1>14, <2>1, <2>3 DEF Drops, Dismisses, less
<1>16. Tallies(s, u) /\ (Stuck(u) => Stuck(s))
  <2>1. s.ext.WriteQueue # <<>>
    BY <1>1
  <2> QED
    BY <1>1, <1>11, <1>15, <2>1, DropsTallies DEF Stuck
<1> QED
  BY <1>14, <1>16, DismissesWhole DEF u

LEMMA NumberSplit ==
  ASSUME NEW s \in StateType, NEW rs \in SUBSET Requests, NEW gone \in SUBSET rs
  PROVE  /\ NumberOfChars(s, rs) \in Nat /\ NumberOfChars(s, gone) \in Nat
         /\ NumberOfChars(s, rs \ gone) \in Nat
         /\ NumberOfChars(s, rs) =
              NumberOfChars(s, rs \ gone) + NumberOfChars(s, gone)
<1> DEFINE A == CharsOf(s, rs \ gone)
           B == CharsOf(s, gone)
           C == CharsOf(s, rs)
           E(r) == {r} \X (1 .. s.req[r].length)
<1>1. IsFiniteSet(A) /\ IsFiniteSet(B) /\ IsFiniteSet(C)
  <2>1. gone \in SUBSET Requests /\ rs \ gone \in SUBSET Requests
    OBVIOUS
  <2> QED
    BY <2>1, CharsOfFinite
<1>2. \A R : \A x : x \in CharsOf(s, R) <=> \E r \in R : x \in E(r)
  BY DEF CharsOf
<1>3. \A r, x : x \in E(r) => x[1] = r
  OBVIOUS
<1> HIDE DEF E
<1>4. \A x : x \in C <=> x \in A \cup B
  BY <1>2
<1>5. \A x : ~(x \in A /\ x \in B)
  BY <1>2, <1>3
<1> HIDE DEF A, B, C
<1>6. C = A \cup B /\ A \cap B = {}
  BY <1>4, <1>5
<1>7. Cardinality(A \cap B) = 0
  BY <1>6, FS_EmptySet
<1>8. /\ Cardinality(A) \in Nat /\ Cardinality(B) \in Nat
      /\ Cardinality(C) \in Nat
  BY <1>1, FS_CardinalityType
<1>9. Cardinality(C) = Cardinality(A) + Cardinality(B) - Cardinality(A \cap B)
  BY <1>1, <1>6, FS_Union
<1>10. Cardinality(C) = Cardinality(A) + Cardinality(B)
  BY <1>7, <1>8, <1>9
<1> QED
  BY <1>8, <1>10 DEF A, B, C, NumberOfChars

LEMMA PurgedQueueWhole ==
  ASSUME NEW s, NEW ab, NEW m \in [Slots -> Modes], Whole(s, ab, m)
  PROVE  /\ Whole(WdfIoQueuePurge(s), ab, m)
         /\ Tallies(s, WdfIoQueuePurge(s))
         /\ WdfIoQueuePurge(s).ext.WriteQueue = <<>>
<1> DEFINE gone == Range(s.ext.WriteQueue)
           End(r) == [s.req[r] EXCEPT !.ended = s.req[r].ended + 1,
                                      !.Status = "CANCELLED"]
           f == [r \in Requests |-> IF r \in gone THEN End(r) ELSE s.req[r]]
           n == NumberOfChars(s, gone)
           e == [s.ext EXCEPT
                   !.WriteQueue = <<>>,
                   !.delivered = s.ext.delivered \ gone,
                   !.TotalCharsQueued = s.ext.TotalCharsQueued - n]
           u == WdfIoQueuePurge(s)
<1>1. /\ s \in StateType /\ s.ext \in ExtensionType
      /\ s.ext.WriteQueue \in Seq(Requests)
      /\ NoRequest \notin Requests
      /\ \A x \in Requests : Placed(s, x) /\ s.req[x] \in RequestType
      /\ "write" \in Slots /\ "immediate" \in Slots
  BY SerialAssumption, StateFacts DEF Whole, ExtensionType, Slots
<1>2. \A x : x \in gone <=> Waits(s, x)
  BY DEF Range, Waits
<1>3. gone \in SUBSET Requests /\ n \in Nat
  <2>1. gone \in SUBSET Requests
    BY <1>1 DEF Range
  <2> HIDE DEF gone
  <2> QED
    BY <1>1, <2>1, NumberSplit
<1>4. u.req = f /\ u.ext = e /\ u = [req |-> f, ext |-> e]
  <2>1. u = [s EXCEPT !.req = f,
                      !.ext.WriteQueue = <<>>,
                      !.ext.delivered = @ \ gone,
                      !.ext.TotalCharsQueued = @ - n]
    BY DEF WdfIoQueuePurge
  <2> HIDE DEF u, f, gone, n
  <2> QED
    BY <1>1, <2>1 DEF StateType, ExtensionType
<1> HIDE DEF gone, n, u
<1>5. \A r \in Requests :
        r \in gone => Done(End(r)) /\ End(r).kind = s.req[r].kind
                                   /\ End(r).length = s.req[r].length
                                   /\ End(r) \in RequestType
  <2> SUFFICES ASSUME NEW r \in Requests, r \in gone
               PROVE  /\ Done(End(r)) /\ End(r).kind = s.req[r].kind
                      /\ End(r).length = s.req[r].length
                      /\ End(r) \in RequestType
    OBVIOUS
  <2> DEFINE q == s.req[r]
  <2>1. Fresh(q) /\ q.issued
    BY <1>1, <1>2 DEF Placed
  <2>2. q \in RequestType
    BY <1>1
  <2> HIDE DEF q
  <2>3. LET d == [q EXCEPT !.ended = q.ended + 1, !.Status = "CANCELLED"]
        IN  Done(d) /\ d.kind = q.kind /\ d.length = q.length
    BY <2>1, <2>2, FreshIsDone
  <2>4. [q EXCEPT !.ended = q.ended + 1, !.Status = "CANCELLED"] \in RequestType
    <3>1. q.ended + 1 \in Nat /\ "CANCELLED" \in Statuses
      BY <2>2, RequestFacts DEF Statuses
    <3> QED
      BY <2>2, <3>1 DEF RequestType
  <2> QED
    BY <2>3, <2>4 DEF q
<1> HIDE DEF End
<1>6. /\ f \in [Requests -> RequestType]
      /\ \A x \in Requests : /\ f[x].kind = s.req[x].kind
                             /\ f[x].length = s.req[x].length
      /\ \A x \in Requests : IF x \in gone THEN Done(f[x])
                                           ELSE f[x] = s.req[x]
  BY <1>1, <1>5
<1>7. /\ e \in ExtensionType /\ e.WriteQueue = <<>>
      /\ e.TotalCharsQueued = s.ext.TotalCharsQueued - n
      /\ e.current = s.ext.current /\ e.isr = s.ext.isr
      /\ e.timer = s.ext.timer /\ e.dpc = s.ext.dpc
      /\ e.stopped = s.ext.stopped
  <2>1. s.ext.TotalCharsQueued - n \in Int
    BY <1>1, <1>3 DEF ExtensionType
  <2>2. <<>> \in Seq(Requests)
    OBVIOUS
  <2> QED
    BY <1>1, <2>1, <2>2 DEF ExtensionType
<1> HIDE DEF e, f
<1>8. u \in StateType
  BY <1>4, <1>6, <1>7 DEF StateType
<1>9. (\A x : ~Waits(u, x)) /\ Once(u) /\ u.ext.WriteQueue = <<>>
  BY <1>4, <1>7 DEF Waits, Once
<1>10. Dismisses(s, u)
  BY <1>2, <1>4, <1>6, <1>7, <1>8, <1>9 DEF Dismisses
<1>11. Counted(u) = Counted(s) \ gone /\ gone \in SUBSET Counted(s)
  <2>1. \A x \in gone : x # s.ext.current["write"]
                        /\ x # s.ext.current["immediate"]
    <3> SUFFICES ASSUME NEW x \in gone
                 PROVE  ~Current(s, x)
      BY <1>1 DEF Current
    <3> QED
      BY <1>1, <1>2, <1>3 DEF Placed
  <2>2. gone \in SUBSET Counted(s)
    BY <1>2, <1>3 DEF Counted
  <2>3. u.ext.current = s.ext.current
    BY <1>4, <1>7
  <2>4. Counted(u) = Counted(s) \ gone
    BY <1>2, <1>9, <2>1, <2>3 DEF Counted
  <2> QED
    BY <2>2, <2>4
<1>12. Tallies(s, u)
  <2> DEFINE all == NumberOfChars(s, Counted(s))
             rest == NumberOfChars(s, Counted(s) \ gone)
  <2>1. /\ all \in Nat /\ rest \in Nat /\ all = rest + n
    BY <1>1, <1>11, CountedIsRequests, NumberSplit DEF n
  <2>2. NumberOfChars(u, Counted(u)) = rest
    <3>1. \A x \in Requests : u.req[x].length = s.req[x].length
      BY <1>4, <1>6
    <3>2. Counted(s) \ gone \in SUBSET Requests
      BY CountedIsRequests
    <3> QED
      BY <1>11, <3>1, <3>2, NumberSame
  <2>3. u.ext.TotalCharsQueued = s.ext.TotalCharsQueued - n
    BY <1>4, <1>7
  <2> HIDE DEF rest
  <2>4. s.ext.TotalCharsQueued = all => u.ext.TotalCharsQueued = rest
    <3> HIDE DEF all
    <3> QED
      BY <1>3, <2>1, <2>3
  <2> QED
    BY <2>2, <2>4 DEF Tallies, Balanced
<1> QED
  BY <1>9, <1>10, <1>12, DismissesWhole DEF u
-----------------------------------------------------------------------------
(***************************************************************************)
(* Callbacks.                                                              *)
(***************************************************************************)
Called(s, u, ab) == Whole(u, ab, Steady) /\ Serves(s, u)

LEMMA ServesAfterKeeps ==
  ASSUME NEW s, NEW t, NEW u, Keeps(s, t), Serves(t, u)
  PROVE  Serves(s, u)
<1>1. Tallies(s, u)
  BY KeepsTallies, TalliesTransitive DEF Serves
<1> QED
  BY <1>1 DEF Serves, Stuck, Keeps

LEMMA CancelRoutineCalled ==
  ASSUME NEW s, NEW ab, Whole(s, ab, Steady), NEW slot \in Slots,
         s.ext.current[slot] # NoRequest
  PROVE  Called(s, RunCancelRoutine(s, slot), ab)
<1> DEFINE m == [Steady EXCEPT ![slot] = "due"]
           u == RunCancelRoutine(s, slot)
<1>1. /\ m \in [Slots -> Modes] /\ m[slot] = Mode("CANCEL")
      /\ slot = "write" => m["xoff"] = "steady"
      /\ [m EXCEPT ![slot] = "steady"] = Steady
      /\ Steady \in [Slots -> Modes] /\ Steady[slot] = "steady"
  BY DEF Steady, Modes, Mode, Slots
<1>2. Whole(s, ab, m)
  BY <1>1, SteadyDue
<1>3. u = EndSlot(s, slot, TRUE, "CANCEL", "CANCELLED", FALSE)
  BY DEF RunCancelRoutine
<1> HIDE DEF m, u
<1>4. "CANCEL" \in Callers /\ "CANCELLED" \in Statuses
  BY DEF Callers, Statuses
<1>5. SlotEnded(s, u, ab, m, slot)
  BY <1>1, <1>2, <1>3, <1>4, EndSlotWhole
<1> QED
  BY <1>1, <1>5 DEF SlotEnded, Called, u

LEMMA CompletionDpcCalled ==
  ASSUME NEW s, NEW ab, Whole(s, ab, Steady), NEW slot \in Slots,
         slot \in s.ext.dpc, NEW early \in BOOLEAN
  PROVE  Called(s, EndSlot([s EXCEPT !.ext.dpc = @ \ {slot}], slot, FALSE,
                           "ISR", "SUCCESS", early), ab)
<1> DEFINE m == [Steady EXCEPT ![slot] = "ISR"]
           t == [s EXCEPT !.ext.dpc = @ \ {slot}]
           u == EndSlot(t, slot, FALSE, "ISR", "SUCCESS", early)
<1>1. /\ m \in [Slots -> Modes] /\ m[slot] = Mode("ISR")
      /\ slot = "write" => m["xoff"] = "steady"
      /\ [m EXCEPT ![slot] = "steady"] = Steady
      /\ Steady \in [Slots -> Modes] /\ Steady[slot] = "steady"
  BY DEF Steady, Modes, Mode, Slots
<1>2. Whole(t, ab, m) /\ Keeps(s, t)
  BY <1>1, LendsDpc
<1> HIDE DEF m, t
<1>3. "ISR" \in Callers /\ "SUCCESS" \in Statuses
  BY DEF Callers, Statuses
<1>4. SlotEnded(t, u, ab, m, slot)
  BY <1>1, <1>2, <1>3, EndSlotWhole
<1> HIDE DEF u
<1>5. Called(s, u, ab)
  BY <1>1, <1>2, <1>4, ServesAfterKeeps DEF SlotEnded, Called
<1> QED
  BY <1>5 DEF u, t

LEMMA TimeoutCalled ==
  ASSUME NEW s, NEW ab, Whole(s, ab, Steady), NEW slot \in Slots,
         "fired" \in s.ext.timer[slot]
  PROVE  Called(s, EndSlot([s EXCEPT !.ext.timer[slot] = @ \ {"fired"}], slot,
                           TRUE, "TOTAL_TIMER", "TIMEOUT", FALSE), ab)
<1> DEFINE m == [Steady EXCEPT ![slot] = "TOTAL_TIMER"]
           t == [s EXCEPT !.ext.timer[slot] = @ \ {"fired"}]
           u == EndSlot(t, slot, TRUE, "TOTAL_TIMER", "TIMEOUT", FALSE)
<1>1. /\ m \in [Slots -> Modes] /\ m[slot] = Mode("TOTAL_TIMER")
      /\ slot = "write" => m["xoff"] = "steady"
      /\ [m EXCEPT ![slot] = "steady"] = Steady
      /\ Steady \in [Slots -> Modes] /\ Steady[slot] = "steady"
  BY DEF Steady, Modes, Mode, Slots
<1>2. Whole(t, ab, m) /\ Keeps(s, t)
  BY <1>1, LendsTimer
<1> HIDE DEF m, t
<1>3. "TOTAL_TIMER" \in Callers /\ "TIMEOUT" \in Statuses
  BY DEF Callers, Statuses
<1>4. SlotEnded(t, u, ab, m, slot)
  BY <1>1, <1>2, <1>3, EndSlotWhole
<1> HIDE DEF u
<1>5. Called(s, u, ab)
  BY <1>1, <1>2, <1>4, ServesAfterKeeps DEF SlotEnded, Called
<1> QED
  BY <1>5 DEF u, t

LEMMA TimeoutXoffCalled ==
  ASSUME NEW s, NEW ab, Whole(s, ab, Steady),
         "fired" \in s.ext.timer["xoff"]
  PROVE  LET u == EndXoff([s EXCEPT !.ext.timer["xoff"] = @ \ {"fired"}],
                          TRUE, "none", "TOTAL_TIMER", "COUNTER_TIMEOUT")
         IN  /\ Whole(u, ab \cup {s.ext.current["xoff"]}, Steady)
             /\ Keeps(s, u)
<1> DEFINE slot == "xoff"
           m == [Steady EXCEPT ![slot] = "TOTAL_TIMER"]
           t == [s EXCEPT !.ext.timer[slot] = @ \ {"fired"}]
           u == EndXoff(t, TRUE, "none", "TOTAL_TIMER", "COUNTER_TIMEOUT")
           left == ab \cup {s.ext.current[slot]}
<1>1. /\ m \in [Slots -> Modes] /\ m[slot] = Mode("TOTAL_TIMER")
      /\ [m EXCEPT ![slot] = "steady"] = Steady
      /\ Steady \in [Slots -> Modes] /\ Steady[slot] = "steady"
      /\ slot \in Slots
  BY DEF Steady, Modes, Mode, Slots
<1>2. Whole(t, ab, m) /\ Keeps(s, t)
  BY <1>1, LendsTimer
<1>3. s \in StateType /\ t.ext.current = s.ext.current
  <2>1. s \in StateType
    BY DEF Whole
  <2> QED
    BY <2>1 DEF StateType, ExtensionType
<1> HIDE DEF m, t
<1>4. /\ "TOTAL_TIMER" \in Callers /\ "COUNTER_TIMEOUT" \in Statuses
      /\ Names(t, slot, "TOTAL_TIMER", "none", ab, left)
  BY <1>3 DEF Callers, Statuses, Names
<1> HIDE DEF left
<1>5. XoffEnded(t, u, left, m)
  BY <1>1, <1>2, <1>4, EndXoffWhole
<1> HIDE DEF u
<1>6. Keeps(t, u)
  BY <1>5, BesideKeeps DEF XoffEnded
<1>7. Whole(u, left, Steady) /\ Keeps(s, u)
  BY <1>1, <1>2, <1>5, <1>6, KeepsTransitive DEF XoffEnded
<1> QED
  BY <1>7 DEF u, t, left

LEMMA CancelCurrentCalled ==
  ASSUME NEW s, NEW ab, Whole(s, ab, Steady), NEW slot \in Slots
  PROVE  Called(s, CancelCurrent(s, slot), ab)
<1> DEFINE r == s.ext.current[slot]
           u == CancelCurrent(s, slot)
<1>1. CASE ~(r # NoRequest /\ s.req[r].cancel = "armed")
  <2>1. u = s
    BY <1>1 DEF CancelCurrent
  <2>2. Serves(s, s)
    BY DEF Serves, Tallies
  <2> QED
    BY <2>1, <2>2 DEF Called
<1>2. CASE r # NoRequest /\ s.req[r].cancel = "armed"
  <2>1. SlotOk(s, ab, slot, "steady")
    BY DEF Whole, Steady
  <2>2. s.req[r].CancelRoutine = slot
    BY <1>2, <2>1 DEF SlotOk, Busy, Work
  <2>3. u = RunCancelRoutine(s, slot)
    BY <1>2, <2>2 DEF CancelCurrent
  <2> QED
    BY <1>2, <2>3, CancelRoutineCalled
<1> QED
  BY <1>1, <1>2

LEMMA StartedAgain ==
  ASSUME NEW s \in StateType
  PROVE  LET u == [s EXCEPT !.ext.stopped = FALSE]
         IN  /\ Stands(s, u) /\ u.ext.TotalCharsQueued = s.ext.TotalCharsQueued
             /\ ~u.ext.stopped
<1> DEFINE e == [s.ext EXCEPT !.stopped = FALSE]
           u == [s EXCEPT !.ext.stopped = FALSE]
<1>1. s.ext \in ExtensionType
  BY StateFacts
<1>2. /\ e \in ExtensionType /\ e.current = s.ext.current
      /\ e.WriteQueue = s.ext.WriteQueue /\ e.stopped = FALSE
      /\ e.Timeouts = s.ext.Timeouts /\ e.isr = s.ext.isr
      /\ e.timer = s.ext.timer /\ e.dpc = s.ext.dpc
      /\ e.TotalCharsQueued = s.ext.TotalCharsQueued
  BY <1>1 DEF ExtensionType
<1>3. u = PutExt(s, e)
  BY DEF PutExt, StateType
<1> HIDE DEF e, u
<1>4. u \in StateType /\ u.ext = e /\ u.req = s.req
  BY <1>2, <1>3, PutExtFacts
<1>5. ~u.ext.stopped
  BY <1>2, <1>4
<1> QED
  BY <1>2, <1>4, <1>5 DEF u, Stands

LEMMA StandsTallies ==
  ASSUME NEW s, NEW u, Stands(s, u),
         u.ext.TotalCharsQueued = s.ext.TotalCharsQueued
  PROVE  Tallies(s, u)
<1>1. Counted(u) = Counted(s) /\ Counted(s) \in SUBSET Requests
  BY DEF Stands, Counted, Waits
<1>2. NumberOfChars(u, Counted(s)) = NumberOfChars(s, Counted(s))
  BY <1>1, NumberSame DEF Stands
<1> QED
  BY <1>1, <1>2 DEF Tallies, Balanced

LEMMA PurgeCalled ==
  ASSUME NEW s, NEW ab, Whole(s, ab, Steady)
  PROVE  Entered(s, SerialPurgeRequests(s), ab)
<1> DEFINE p == WdfIoQueuePurge(s)
           a == CancelCurrent(p, "write")
           b == CancelCurrent(a, "xoff")
           u == [b EXCEPT !.ext.stopped = FALSE]
<1>1. SerialPurgeRequests(s) = u
  BY DEF SerialPurgeRequests
<1>2. "write" \in Slots /\ "xoff" \in Slots /\ Steady \in [Slots -> Modes]
  BY DEF Slots, Steady, Modes
<1>3. Whole(p, ab, Steady) /\ Tallies(s, p) /\ p.ext.WriteQueue = <<>>
  BY <1>2, PurgedQueueWhole
<1> HIDE DEF p
<1>4. Called(p, a, ab)
  BY <1>2, <1>3, CancelCurrentCalled
<1> HIDE DEF a
<1>5. Called(a, b, ab)
  BY <1>2, <1>4, CancelCurrentCalled DEF Called
<1> HIDE DEF b
<1>6. Whole(b, ab, Steady) /\ b.ext.WriteQueue = <<>> /\ Tallies(s, b)
  BY <1>3, <1>4, <1>5, TalliesTransitive DEF Called, Serves
<1>7. Stands(b, u) /\ u.ext.TotalCharsQueued = b.ext.TotalCharsQueued
  BY <1>6, StartedAgain DEF Whole
<1> HIDE DEF u
<1>8. Whole(u, ab, Steady)
  BY <1>6, <1>7, StandsWhole
<1>9. Tallies(s, u)
  BY <1>6, <1>7, StandsTallies, TalliesTransitive
<1>10. u.ext.WriteQueue = <<>>
  BY <1>6, <1>7 DEF Stands
<1>11. Entered(s, u, ab)
  BY <1>8, <1>9, <1>10 DEF Entered, Stuck
<1> QED
  BY <1>1, <1>11 DEF u
-----------------------------------------------------------------------------
(***************************************************************************)
(* The interrupt of the transmitter, timers that expire and requests that  *)
(* are cancelled while they are in work.                                   *)
(***************************************************************************)
LEMMA LendsSteady ==
  ASSUME NEW s, NEW ab, Whole(s, ab, Steady), NEW u, NEW slot \in Slots,
         Lends(s, u, slot), SlotOk(u, ab, slot, "steady"),
         s.ext.current[slot] \in Requests
  PROVE  Whole(u, ab, Steady) /\ Keeps(s, u)
<1> DEFINE m == Steady
<1>1. /\ m \in [Slots -> Modes] /\ [m EXCEPT ![slot] = "steady"] = m
      /\ "steady" \in Modes
  BY DEF Steady, Modes
<1> HIDE DEF m
<1>2. Whole(s, ab, m)
  BY DEF m
<1>3. Whole(u, ab, [m EXCEPT ![slot] = "steady"])
  BY <1>1, <1>2, LendsWhole
<1>4. Whole(u, ab, m)
  BY <1>1, <1>3
<1> QED
  BY <1>4, LendsKeeps DEF m

LEMMA WorkOfIsr ==
  ASSUME NEW q, NEW slot, NEW left \in Nat, left > 0, NEW dpc, NEW timer,
         NEW gone, Work(q, slot, left, dpc, timer, "none", gone)
  PROVE  q.RefCount # {} /\ ~dpc
<1>1. "ISR" \in q.RefCount /\ left # 0
  BY DEF Work
<1> QED
  BY <1>1 DEF Work

LEMMA WorkSends ==
  ASSUME NEW q \in RequestType, NEW slot, slot # "xoff", NEW left \in Nat,
         NEW dpc, NEW timer, NEW gone,
         Work(q, slot, left, dpc, timer, "none", gone),
         NEW n \in Nat, 0 < n, n <= left, NEW u \in RequestType,
         u.issued = q.issued, u.ended = q.ended, u.kind = q.kind,
         u.cancel = q.cancel, u.CancelRoutine = q.CancelRoutine,
         u.RefCount = q.RefCount, u.length = q.length,
         u.onWire = q.onWire + n,
         slot = "write" /\ n = left => u.Information = q.length
  PROVE  Work(u, slot, left - n, n = left, timer, "none", gone)
<1>1. q.onWire \in Nat /\ q.length \in Nat /\ u.onWire \in Nat
  BY RequestFacts
<1>2. q.onWire + left = q.length
  BY DEF Work
<1>3. u.onWire + (left - n) = u.length
  BY <1>1, <1>2
<1>4. left - n \in Nat /\ (left - n = 0 <=> n = left)
      /\ (left - n > 0 <=> n # left)
  OBVIOUS
<1>5. n = left => u.onWire = u.length
  BY <1>1, <1>3
<1> DEFINE rest == left - n
           over == n = left
<1>6. /\ "ISR" \in u.RefCount /\ (rest > 0 \/ over)
      /\ over => rest = 0
  BY <1>4 DEF Work
<1>7. /\ rest \in Nat /\ (rest = 0 <=> over)
      /\ u.onWire + rest = u.length
      /\ over => u.onWire = u.length
  BY <1>3, <1>4, <1>5
<1> HIDE DEF rest, over
<1>8. slot = "write" /\ over => u.Information = u.onWire
  BY <1>7 DEF over
<1>9. Work(u, slot, rest, over, timer, "none", gone)
  BY <1>6, <1>7, <1>8 DEF Work
<1> QED
  BY <1>9 DEF rest, over

(* The ISR hands n characters to the hardware.                             *)
Sends(s, u, slot, n) ==
  LET r    == s.ext.current[slot]
      left == s.ext.isr[slot]
  IN  /\ u \in StateType
      /\ \A x \in Requests : x # r => u.req[x] = s.req[x]
      /\ Alike([s.req[r] EXCEPT !.onWire = u.req[r].onWire,
                                !.Information = u.req[r].Information],
               u.req[r])
      /\ u.req[r].cancel = s.req[r].cancel
      /\ u.req[r].CancelRoutine = s.req[r].CancelRoutine
      /\ u.req[r].RefCount = s.req[r].RefCount
      /\ u.req[r].onWire = s.req[r].onWire + n
      /\ slot = "write" /\ n = left => u.req[r].Information = s.req[r].length
      /\ u.ext.current = s.ext.current
      /\ u.ext.WriteQueue = s.ext.WriteQueue
      /\ u.ext.stopped = s.ext.stopped
      /\ u.ext.Timeouts = s.ext.Timeouts
      /\ u.ext.timer = s.ext.timer
      /\ u.ext.isr[slot] = left - n
      /\ \A i \in Slots : i # slot => u.ext.isr[i] = s.ext.isr[i]
      /\ u.ext.dpc = IF n = left THEN s.ext.dpc \cup {slot} ELSE s.ext.dpc
      /\ u.ext.TotalCharsQueued = s.ext.TotalCharsQueued

LEMMA SendsWhole ==
  ASSUME NEW s, NEW ab, Whole(s, ab, Steady),
         NEW slot \in {"write", "immediate"},
         NEW n \in Nat, 0 < n, n <= s.ext.isr[slot],
         NEW u, Sends(s, u, slot, n)
  PROVE  Whole(u, ab, Steady) /\ Keeps(s, u)
<1> DEFINE r == s.ext.current[slot]
           q == s.req[r]
           e == u.req[r]
           left == s.ext.isr[slot]
<1>1. /\ s \in StateType /\ s.ext \in ExtensionType /\ u \in StateType
      /\ slot \in Slots /\ slot # "xoff"
      /\ Steady \in [Slots -> Modes] /\ Steady[slot] = "steady"
      /\ [Steady EXCEPT ![slot] = "steady"] = Steady
  BY StateFacts DEF Whole, Slots, Steady, Modes, Sends
<1>2. left \in Nat /\ left > 0
  BY <1>1 DEF ExtensionType
<1>3. Busy(s, ab, slot, "none") /\ r \in Requests
  BY <1>1, <1>2, SteadyBusy DEF Silent
<1>4. q.RefCount # {} /\ slot \notin s.ext.dpc
  <2> DEFINE dpc == slot \in s.ext.dpc
             gone == slot = "xoff" /\ r \in ab
  <2>1. Work(q, slot, left, dpc, s.ext.timer[slot], "none", gone)
    BY <1>3 DEF Busy
  <2> HIDE DEF dpc, gone
  <2>2. q.RefCount # {} /\ ~dpc
    BY <1>2, <2>1, WorkOfIsr
  <2> QED
    BY <2>2 DEF dpc
<1>5. q \in RequestType /\ e \in RequestType
  BY <1>1, <1>3, StateFacts
<1>6. /\ e.issued = q.issued /\ e.ended = q.ended /\ e.kind = q.kind
      /\ e.length = q.length
      /\ e.cancel = q.cancel /\ e.CancelRoutine = q.CancelRoutine
      /\ e.RefCount = q.RefCount /\ e.onWire = q.onWire + n
      /\ slot = "write" /\ n = left => e.Information = q.length
  <2> DEFINE d == [q EXCEPT !.onWire = e.onWire,
                            !.Information = e.Information]
  <2>1. Alike(d, e)
    BY DEF Sends
  <2>2. /\ e.cancel = q.cancel /\ e.CancelRoutine = q.CancelRoutine
        /\ e.RefCount = q.RefCount /\ e.onWire = q.onWire + n
        /\ slot = "write" /\ n = left => e.Information = q.length
    BY DEF Sends
  <2> HIDE DEF q, e
  <2>3. /\ d.issued = q.issued /\ d.ended = q.ended /\ d.kind = q.kind
        /\ d.length = q.length
    BY <1>5 DEF RequestType
  <2> HIDE DEF d
  <2> QED
    BY <2>1, <2>2, <2>3 DEF Alike
<1>7. Work(e, slot, left - n, n = left, s.ext.timer[slot], "none",
           slot = "xoff" /\ r \in ab)
  <2> DEFINE gone == slot = "xoff" /\ r \in ab
             dpc == slot \in s.ext.dpc
             timer == s.ext.timer[slot]
  <2>1. Work(q, slot, left, dpc, timer, "none", gone)
    BY <1>3 DEF Busy
  <2> HIDE DEF q, e, left, gone, dpc, timer
  <2>2. n <= left
    BY DEF left
  <2>3. Work(e, slot, left - n, n = left, timer, "none", gone)
    BY <1>1, <1>2, <1>5, <1>6, <2>1, <2>2, WorkSends
  <2> QED
    BY <2>3 DEF gone, timer
<1>8. /\ u.ext.current = s.ext.current /\ u.ext.isr[slot] = left - n
      /\ u.ext.timer = s.ext.timer
      /\ slot \in u.ext.dpc <=> n = left
      /\ \A i \in Slots : i # slot => /\ u.ext.isr[i] = s.ext.isr[i]
                                      /\ i \in u.ext.dpc <=> i \in s.ext.dpc
      /\ u.ext.TotalCharsQueued = s.ext.TotalCharsQueued
  BY <1>4 DEF Sends
<1>9. SlotOk(u, ab, slot, "steady")
  <2> DEFINE dpc == slot \in u.ext.dpc
             over == n = left
  <2>1. dpc = over
    BY <1>8
  <2>2. Work(e, slot, left - n, over, s.ext.timer[slot], "none",
             slot = "xoff" /\ r \in ab)
    BY <1>7
  <2> HIDE DEF dpc, over
  <2>3. Work(e, slot, left - n, dpc, s.ext.timer[slot], "none",
             slot = "xoff" /\ r \in ab)
    BY <2>1, <2>2
  <2>4. Busy(u, ab, slot, "none")
    BY <1>3, <1>8, <2>3 DEF Busy, dpc
  <2>5. e.RefCount # {}
    BY <1>4, <1>6
  <2> QED
    BY <1>8, <2>4, <2>5 DEF SlotOk
<1>10. Lends(s, u, slot)
  <2>1. Beside(s, u, slot)
    BY <1>6, <1>8 DEF Beside, Sends
  <2> QED
    BY <1>8, <2>1 DEF Lends
<1> QED
  BY <1>1, <1>3, <1>9, <1>10, LendsSteady

LEMMA WorkExpires ==
  ASSUME NEW q, NEW slot, NEW left, NEW dpc, NEW timer, NEW gone,
         Work(q, slot, left, dpc, timer, "none", gone), "queued" \in timer
  PROVE  Work(q, slot, left, dpc, {"fired"}, "none", gone)
         /\ timer = {"queued"}
<1>1. timer = {"queued"}
  BY DEF Work
<1> QED
  BY <1>1 DEF Work

LEMMA ExpiresWhole ==
  ASSUME NEW s, NEW ab, Whole(s, ab, Steady), NEW slot \in Slots,
         "queued" \in s.ext.timer[slot], NEW u, u \in StateType,
         u.req = s.req, u.ext.current = s.ext.current,
         u.ext.WriteQueue = s.ext.WriteQueue,
         u.ext.stopped = s.ext.stopped, u.ext.Timeouts = s.ext.Timeouts,
         u.ext.isr = s.ext.isr, u.ext.dpc = s.ext.dpc,
         u.ext.TotalCharsQueued = s.ext.TotalCharsQueued,
         u.ext.timer[slot] = (s.ext.timer[slot] \ {"queued"}) \cup {"fired"},
         \A i \in Slots : i # slot => u.ext.timer[i] = s.ext.timer[i]
  PROVE  Whole(u, ab, Steady) /\ Keeps(s, u)
<1> DEFINE r == s.ext.current[slot]
<1>1. /\ Steady \in [Slots -> Modes] /\ Steady[slot] = "steady"
      /\ [Steady EXCEPT ![slot] = "steady"] = Steady
  BY DEF Steady, Modes
<1>2. Busy(s, ab, slot, "none") /\ r \in Requests
  BY <1>1, SteadyBusy DEF Silent
<1>3. Work(s.req[r], slot, s.ext.isr[slot], slot \in s.ext.dpc, {"fired"},
           "none", slot = "xoff" /\ r \in ab)
      /\ u.ext.timer[slot] = {"fired"}
  BY <1>2, WorkExpires DEF Busy
<1>4. Busy(u, ab, slot, "none")
  BY <1>2, <1>3 DEF Busy
<1>5. s.req[r].RefCount # {}
  BY <1>3 DEF Work
<1>6. SlotOk(u, ab, slot, "steady")
  BY <1>4, <1>5 DEF SlotOk
<1>7. Lends(s, u, slot)
  BY DEF Lends, Beside
<1> QED
  BY <1>1, <1>2, <1>6, <1>7, LendsSteady

LEMMA WorkCalled ==
  ASSUME NEW q, NEW slot, NEW left, NEW dpc, NEW timer, NEW gone,
         Work(q, slot, left, dpc, timer, "none", gone), q.cancel = "armed",
         NEW u, Alike(q, u), u.RefCount = q.RefCount,
         u.cancel = "called", u.CancelRoutine = q.CancelRoutine
  PROVE  Work(u, slot, left, dpc, timer, "none", gone) /\ u.RefCount # {}
BY DEF Work, Alike

LEMMA CancelledInWork ==
  ASSUME NEW s, NEW ab, Whole(s, ab, Steady), NEW r \in Requests,
         s.req[r].cancel # "no"
  PROVE  \E slot \in Slots : /\ r = s.ext.current[slot]
                             /\ Busy(s, ab, slot, "none")
                             /\ s.req[r].CancelRoutine = slot
<1>1. Placed(s, r) /\ NoRequest \notin Requests
  BY SerialAssumption DEF Whole
<1>2. Current(s, r)
  BY <1>1 DEF Placed, Fresh, Done
<1>3. PICK slot \in Slots : s.ext.current[slot] = r
  BY <1>2 DEF Current
<1>4. SlotOk(s, ab, slot, "steady")
  BY DEF Whole, Steady
<1>5. Busy(s, ab, slot, "none")
  BY <1>1, <1>3, <1>4 DEF SlotOk
<1>6. s.req[r].CancelRoutine = slot
  BY <1>3, <1>5 DEF Busy, Work
<1> QED
  BY <1>3, <1>5, <1>6

LEMMA CalledWhole ==
  ASSUME NEW s, NEW ab, Whole(s, ab, Steady), NEW r \in Requests,
         s.req[r].cancel = "armed"
  PROVE  LET u == Put(s, r, [s.req[r] EXCEPT !.cancel = "called"])
         IN  Whole(u, ab, Steady) /\ Keeps(s, u)
<1> DEFINE q == s.req[r]
           e == [q EXCEPT !.cancel = "called"]
           u == Put(s, r, e)
<1>1. PICK slot \in Slots : r = s.ext.current[slot]
                            /\ Busy(s, ab, slot, "none")
  BY CancelledInWork
<1>2. /\ Steady \in [Slots -> Modes] /\ Steady[slot] = "steady"
      /\ [Steady EXCEPT ![slot] = "steady"] = Steady
      /\ s \in StateType /\ q \in RequestType
  BY StateFacts DEF Steady, Modes, Whole
<1> HIDE DEF q
<1>3. /\ e \in RequestType /\ Alike(q, e) /\ e.RefCount = q.RefCount
      /\ e.cancel = "called" /\ e.CancelRoutine = q.CancelRoutine
  BY <1>2 DEF RequestType, Alike
<1> HIDE DEF e, u
<1>4. /\ u \in StateType /\ u.ext = s.ext /\ u.req[r] = e
      /\ \A x \in Requests : x # r => u.req[x] = s.req[x]
  BY <1>2, <1>3, PutFacts DEF u
<1>5. Work(e, slot, s.ext.isr[slot], slot \in s.ext.dpc, s.ext.timer[slot],
           "none", slot = "xoff" /\ r \in ab) /\ e.RefCount # {}
  <2> DEFINE gone == slot = "xoff" /\ r \in ab
             dpc == slot \in s.ext.dpc
  <2>1. Work(q, slot, s.ext.isr[slot], dpc, s.ext.timer[slot], "none", gone)
    BY <1>1 DEF Busy, q
  <2> HIDE DEF gone, dpc
  <2>2. q.cancel = "armed"
    BY DEF q
  <2>3. Work(e, slot, s.ext.isr[slot], dpc, s.ext.timer[slot], "none", gone)
        /\ e.RefCount # {}
    BY <1>3, <2>1, <2>2, WorkCalled
  <2> QED
    BY <2>3 DEF gone, dpc
<1>6. SlotOk(u, ab, slot, "steady")
  BY <1>1, <1>4, <1>5 DEF SlotOk, Busy
<1>7. Lends(s, u, slot)
  BY <1>1, <1>3, <1>4 DEF Lends, Beside, Alike, q
<1>8. Whole(u, ab, Steady) /\ Keeps(s, u)
  BY <1>1, <1>2, <1>6, <1>7, LendsSteady
<1> QED
  BY <1>8 DEF u, e, q
-----------------------------------------------------------------------------
(***************************************************************************)
(* The inductive invariant, and its initial states.                        *)
(***************************************************************************)
Inv ==
  /\ IInv /\ Balanced(State) /\ QueueServed
  /\ flushing \in BOOLEAN /\ orders \in 0 .. MaxOrders
  /\ history \subseteq Past

LEMMA StateIs ==
  ASSUME NEW u \in StateType
  PROVE  [req |-> u.req, ext |-> u.ext] = u
BY DEF StateType

LEMMA StateOf ==
  ASSUME IInv
  PROVE  /\ State \in StateType /\ State.req = req /\ State.ext = ext
         /\ Whole(State, abandoned, Steady)
BY DEF IInv, Whole, State

LEMMA NumberOfNone ==
  ASSUME NEW s
  PROVE  NumberOfChars(s, {}) = 0
<1>1. CharsOf(s, {}) = {}
  BY DEF CharsOf
<1> QED
  BY <1>1, FS_EmptySet DEF NumberOfChars

LEMMA InitInv ==
  ASSUME Init
  PROVE  Inv
<1> DEFINE s == State
<1>1. PICK batch \in Batches, n \in WriteLengths :
        req = [r \in Requests |->
                 NewRequest(batch[r], IF batch[r] = "write" THEN n ELSE 1)]
  BY DEF Init
<1>2. PICK timeouts \in TimeoutsSet :
       ext = [current |-> [slot \in Slots |-> NoRequest],
              WriteQueue |-> <<>>, delivered |-> {}, stopped |-> FALSE,
              isr |-> [slot \in Slots |-> 0],
              timer |-> [slot \in Slots |-> {}], dpc |-> {},
              TotalCharsQueued |-> 0, Timeouts |-> timeouts]
  BY DEF Init
<1>3. /\ batch \in [Requests -> Kinds] /\ timeouts \in BOOLEAN
      /\ n \in WriteLengths /\ NoRequest \notin Requests
      /\ \A r, x \in Requests :
           batch[r] \in XoffKinds /\ batch[x] \in XoffKinds => r = x
  BY <1>1, <1>2, SerialAssumption
<1>4. \A r \in Requests :
        /\ req[r] \in RequestType
        /\ req[r].kind = batch[r] /\ Fresh(req[r]) /\ req[r].issued = FALSE
        /\ batch[r] # "write" => req[r].length = 1
  <2> SUFFICES ASSUME NEW r \in Requests
               PROVE  /\ req[r] \in RequestType
                      /\ req[r].kind = batch[r] /\ Fresh(req[r])
                      /\ req[r].issued = FALSE
                      /\ batch[r] # "write" => req[r].length = 1
    OBVIOUS
  <2> DEFINE kind == batch[r]
             length == IF kind = "write" THEN n ELSE 1
  <2>1. kind \in Kinds /\ length \in WriteLengths \cup {1}
        /\ (kind # "write" => length = 1)
    BY <1>3
  <2>2. req[r] = NewRequest(kind, length)
    BY <1>1
  <2> HIDE DEF kind, length
  <2>3. /\ NewRequest(kind, length) \in RequestType
        /\ NewRequest(kind, length).kind = kind
        /\ NewRequest(kind, length).length = length
        /\ NewRequest(kind, length).issued = FALSE
        /\ Fresh(NewRequest(kind, length))
    BY <2>1 DEF NewRequest, RequestType, Fresh, Statuses
  <2>4. /\ req[r] \in RequestType /\ req[r].kind = kind /\ Fresh(req[r])
        /\ req[r].issued = FALSE
        /\ kind # "write" => req[r].length = 1
    BY <2>1, <2>2, <2>3
  <2> QED
    BY <2>4 DEF kind
<1>5. req \in [Requests -> RequestType]
  <2>1. req = [r \in Requests |-> req[r]]
    BY <1>1
  <2> QED
    BY <1>4, <2>1
<1>6. /\ ext \in ExtensionType /\ ext.WriteQueue = <<>>
      /\ ext.TotalCharsQueued = 0
      /\ \A slot \in Slots : /\ ext.current[slot] = NoRequest
                             /\ ext.isr[slot] = 0 /\ ext.timer[slot] = {}
                             /\ slot \notin ext.dpc
  BY <1>2, <1>3 DEF ExtensionType
<1>7. s \in StateType /\ s.req = req /\ s.ext = ext
  BY <1>5, <1>6 DEF State, StateType
<1> HIDE DEF s
<1>8. abandoned = {} /\ history = {} /\ flushing = FALSE /\ orders = 0
  BY DEF Init
<1>9. \A r \in Requests : ~Current(s, r) /\ ~Waits(s, r)
  BY <1>3, <1>6, <1>7 DEF Current, Waits
<1>10. \A r \in Requests : Placed(s, r)
  BY <1>4, <1>7, <1>9 DEF Placed
<1>11. Shape(s)
  BY <1>3, <1>4, <1>7 DEF Shape, IsXoff
<1>12. Apart(s) /\ Once(s) /\ Owed(s, abandoned)
  BY <1>6, <1>7, <1>8 DEF Apart, Once, Owed
<1>13. \A slot \in Slots : SlotOk(s, abandoned, slot, Steady[slot])
  BY <1>6, <1>7 DEF SlotOk, Silent, Steady
<1>14. IInv
  BY <1>7, <1>10, <1>11, <1>12, <1>13 DEF Whole, IInv, s
<1>15. Balanced(State)
  <2>1. Counted(s) = {}
    BY <1>3, <1>6, <1>7, <1>9 DEF Counted, Slots
  <2>2. NumberOfChars(s, Counted(s)) = 0
    BY <2>1, NumberOfNone
  <2> QED
    BY <1>6, <1>7, <2>2 DEF Balanced, s
<1>16. QueueServed
  BY <1>6 DEF QueueServed
<1>17. orders \in 0 .. MaxOrders /\ flushing \in BOOLEAN /\ history \subseteq Past
  <2>1. MaxOrders \in Nat
    BY SerialAssumption
  <2>2. orders = 0 /\ flushing = FALSE /\ history = {}
    BY <1>8
  <2>3. orders \in 0 .. MaxOrders
    BY <2>1, <2>2
  <2> QED
    BY <2>2, <2>3
<1> QED
  BY <1>14, <1>15, <1>16, <1>17 DEF Inv

-----------------------------------------------------------------------------
(***************************************************************************)
(* What it says of the properties.                                         *)
(***************************************************************************)
LEMMA InvTypeOK ==
  ASSUME Inv
  PROVE  TypeOK
<1>1. State \in StateType /\ State.req = req /\ State.ext = ext
      /\ Whole(State, abandoned, Steady)
  BY StateOf DEF Inv
<1>2. req \in [Requests -> RequestType] /\ ext \in ExtensionType
  BY <1>1 DEF StateType
<1>3. abandoned \subseteq Requests
  BY <1>1 DEF Whole, Owed
<1> QED
  BY <1>2, <1>3 DEF Inv, TypeOK

LEMMA InvCharsQueued ==
  ASSUME Inv
  PROVE  CharsQueuedExact
<1>1. State.ext = ext
  BY DEF State
<1>2. Counted(State) = {r \in Requests : \/ Queued(r)
                                         \/ r = ext.current["write"]
                                         \/ r = ext.current["immediate"]}
  BY <1>1 DEF Counted, Queued, Waits
<1> QED
  BY <1>1, <1>2 DEF CharsQueuedExact, Inv, Balanced

LEMMA InvEnds ==
  ASSUME Inv
  PROVE  EndsAsPromised
<1>1. State \in StateType /\ State.req = req /\ State.ext = ext
      /\ Whole(State, abandoned, Steady)
  BY StateOf DEF Inv
<1>2. \A r \in Requests : Placed(State, r)
  BY <1>1 DEF Whole
<1> SUFFICES ASSUME NEW r \in Requests
             PROVE  LET q == req[r]
                    IN  /\ q.ended <= 1
                        /\ q.ended = 1 =>
                             /\ ~Queued(r) /\ q.RefCount = {} /\ q.cancel = "no"
                             /\ q.Status \in {"SUCCESS", "MORE_WRITES"} =>
                                  q.onWire = q.length
                             /\ q.kind = "write" =>
                                  q.Information = IF q.Status = "CANCELLED"
                                                    THEN 0 ELSE q.onWire
  BY DEF EndsAsPromised
<1> DEFINE q == req[r]
<1>3. Queued(r) <=> Waits(State, r)
  BY <1>1 DEF Queued, Waits
<1>4. CASE Current(State, r)
  <2>1. PICK slot \in Slots : ext.current[slot] = r
    BY <1>1, <1>4 DEF Current
  <2>2. SlotOk(State, abandoned, slot, "steady")
    BY <1>1 DEF Whole, Steady
  <2>3. r # NoRequest
    BY SerialAssumption
  <2>4. q.ended = 0
    BY <1>1, <2>1, <2>2, <2>3 DEF SlotOk, Busy, Work
  <2> QED
    BY <2>4
<1>5. CASE ~Current(State, r)
  <2>1. \/ Fresh(q)
        \/ ~Waits(State, r) /\ Done(q)
    BY <1>1, <1>2, <1>5 DEF Placed
  <2> QED
    BY <1>3, <2>1 DEF Fresh, Done
<1> QED
  BY <1>4, <1>5
LEMMA InvRefs ==
  ASSUME Inv
  PROVE  RefsAreHeld
<1> DEFINE isr(slot) == ext.isr[slot] > 0 \/ slot \in ext.dpc
           timer(slot) == ext.timer[slot] # {}
<1>1. State \in StateType /\ State.req = req /\ State.ext = ext
      /\ Whole(State, abandoned, Steady)
  BY StateOf DEF Inv
<1>2. /\ \A r \in Requests : Placed(State, r)
      /\ \A slot \in Slots : SlotOk(State, abandoned, slot, "steady")
      /\ NoRequest \notin Requests /\ Apart(State)
      /\ \A slot \in Slots : ext.isr[slot] \in Nat
  <2>1. ext \in ExtensionType
    BY <1>1, StateFacts
  <2> QED
    BY <1>1, <2>1, SerialAssumption DEF Whole, Steady, ExtensionType
<1>3. \A slot \in Slots :
        isr(slot) \/ timer(slot) => ext.current[slot] # NoRequest
  <2> SUFFICES ASSUME NEW slot \in Slots, ext.current[slot] = NoRequest
               PROVE  ~isr(slot) /\ ~timer(slot)
    OBVIOUS
  <2>1. Silent(State, slot)
    BY <1>1, <1>2 DEF SlotOk, Busy
  <2> QED
    BY <1>1, <2>1 DEF Silent
<1>4. ASSUME NEW r \in Requests, r \notin abandoned,
             NEW slot \in Slots, ext.current[slot] = r
      PROVE  /\ "ISR" \in req[r].RefCount <=> isr(slot)
             /\ "TOTAL_TIMER" \in req[r].RefCount <=> timer(slot)
             /\ "CANCEL" \in req[r].RefCount <=> req[r].cancel # "no"
             /\ "XOFF_REF" \notin req[r].RefCount
             /\ req[r].RefCount # {}
  <2>1. Busy(State, abandoned, slot, "none") /\ req[r].RefCount # {}
    BY <1>1, <1>2, <1>4 DEF SlotOk
  <2> DEFINE gone == slot = "xoff" /\ r \in abandoned
             dpc == slot \in ext.dpc
             left == ext.isr[slot]
             q == req[r]
             T == ext.timer[slot]
  <2>2. Work(q, slot, left, dpc, T, "none", gone) /\ ~gone
    BY <1>1, <1>4, <2>1 DEF Busy
  <2> HIDE DEF gone, dpc, left, q, T
  <2>3. /\ "ISR" \in q.RefCount <=> left > 0 \/ dpc
        /\ "TOTAL_TIMER" \in q.RefCount <=> T # {}
        /\ "CANCEL" \in q.RefCount <=> q.cancel # "no"
        /\ "XOFF_REF" \notin q.RefCount
    BY <2>2 DEF Work
  <2> QED
    BY <2>1, <2>3 DEF dpc, left, q, T
<1>5. ASSUME NEW r \in Requests, ~Current(State, r)
      PROVE  req[r].RefCount = {} /\ req[r].cancel = "no"
  BY <1>1, <1>2, <1>5 DEF Placed, Fresh, Done
<1>6. \A r \in Requests : Current(State, r) <=> InWork(r)
  BY <1>1 DEF Current, InWork
<1>7. ASSUME NEW r \in Requests, NEW i \in Slots, NEW j \in Slots,
             ext.current[i] = r, ext.current[j] = r
      PROVE  i = j
  BY <1>1, <1>2, <1>7 DEF Apart
<1> HIDE DEF isr, timer
<1>8. \A r \in Requests \ abandoned :
        /\ "ISR" \in req[r].RefCount <=>
             \E slot \in Slots : ext.current[slot] = r /\ isr(slot)
        /\ "TOTAL_TIMER" \in req[r].RefCount <=>
             \E slot \in Slots : ext.current[slot] = r /\ timer(slot)
        /\ "CANCEL" \in req[r].RefCount <=> req[r].cancel # "no"
        /\ "XOFF_REF" \notin req[r].RefCount
        /\ InWork(r) <=> req[r].RefCount # {}
  <2> SUFFICES ASSUME NEW r \in Requests, r \notin abandoned
               PROVE  /\ "ISR" \in req[r].RefCount <=>
                           \E slot \in Slots : ext.current[slot] = r /\ isr(slot)
                      /\ "TOTAL_TIMER" \in req[r].RefCount <=>
                           \E slot \in Slots : ext.current[slot] = r /\ timer(slot)
                      /\ "CANCEL" \in req[r].RefCount <=> req[r].cancel # "no"
                      /\ "XOFF_REF" \notin req[r].RefCount
                      /\ InWork(r) <=> req[r].RefCount # {}
    OBVIOUS
  <2>1. CASE Current(State, r)
    <3>1. PICK i \in Slots : ext.current[i] = r
      BY <1>6, <2>1 DEF InWork
    <3>2. \A j \in Slots : ext.current[j] = r => j = i
      BY <1>7, <3>1
    <3> QED
      BY <1>4, <1>6, <2>1, <3>1, <3>2
  <2>2. CASE ~Current(State, r)
    <3>1. \A j \in Slots : ext.current[j] # r
      BY <1>6, <2>2 DEF InWork
    <3> QED
      BY <1>5, <1>6, <2>2, <3>1
  <2> QED
    BY <2>1, <2>2
<1> QED
  BY <1>3, <1>8 DEF RefsAreHeld, isr, timer
-----------------------------------------------------------------------------
(***************************************************************************)
(* Every action keeps the invariant.                                       *)
(***************************************************************************)
(* What a step may do to the rest of the state.                            *)
Rest ==
  /\ flushing' \in BOOLEAN /\ orders' \in 0 .. MaxOrders
  /\ history' \subseteq Past /\ history \subseteq history'

LEMMA StepKeeps ==
  ASSUME Inv, NEW u, req' = u.req, ext' = u.ext,
         Whole(u, abandoned', Steady), Tallies(State, u), Rest,
         Stuck(u) => Stuck(State) \/ history' # {}
  PROVE  Inv'
<1>1. State' = u
  <2>1. u \in StateType
    BY DEF Whole
  <2> QED
    BY <2>1, StateIs DEF State
<1>2. IInv' /\ Balanced(State)'
  <2>1. Balanced(State) => Balanced(u)
    BY DEF Tallies
  <2>2. IInv'
    BY <1>1 DEF IInv, Steady
  <2>3. Balanced(State)'
    BY <1>1, <2>1 DEF Inv, Balanced
  <2> QED
    BY <2>2, <2>3
<1>3. QueueServed'
  <2>1. Stuck(State) => history # {}
    BY DEF Inv, QueueServed, Stuck, State
  <2>2. Stuck(u) => history' # {}
    BY <2>1 DEF Rest
  <2> QED
    BY <2>2 DEF QueueServed, Stuck
<1> QED
  BY <1>2, <1>3 DEF Inv, Rest

LEMMA StillSteady ==
  ASSUME Inv, NEW u, req' = u.req, ext' = u.ext,
         Whole(u, abandoned, Steady), Keeps(State, u),
         UNCHANGED <<flushing, orders, abandoned, history>>
  PROVE  Inv'
<1>1. Rest
  BY DEF Rest, Inv
<1>2. Serves(State, u)
  BY KeepsServes
<1>3. Stuck(u) => Stuck(State)
  BY DEF Keeps, Stuck
<1>4. Whole(u, abandoned', Steady)
  OBVIOUS
<1> QED
  BY <1>1, <1>2, <1>3, <1>4, StepKeeps DEF Serves

(* A callback that may leave writes behind in a queue that was stopped.    *)
LEMMA PassedKeeps ==
  ASSUME Inv, NEW u, Callback(u), Called(State, u, abandoned'),
         UNCHANGED <<flushing, orders>>, Passed
  PROVE  Inv'
<1>1. req' = u.req /\ ext' = u.ext
  BY DEF Callback
<1>2. Rest
  BY DEF Rest, Inv, Passed, Past
<1>3. Stuck(u) => Stuck(State) \/ history' # {}
  <2>1. Stuck(u) => ext.stopped \/ Stuck(State)
    BY DEF Called, Serves, State
  <2>2. CASE Stuck(u) /\ ext.stopped
    BY <1>1, <2>2 DEF Stuck, Passed
  <2> QED
    BY <2>1, <2>2
<1> QED
  BY <1>1, <1>2, <1>3, StepKeeps DEF Called, Serves

LEMMA WriteKeeps ==
  ASSUME Inv, NEW r \in Requests, Write(r)
  PROVE  Inv'
<1> DEFINE u == SerialStartOrQueue([State EXCEPT !.req[r].issued = TRUE], r)
<1>1. /\ State.req = req /\ State.ext = ext
      /\ Whole(State, abandoned, Steady)
  BY StateOf DEF Inv
<1>2. Arrived(State, u, abandoned)
  BY <1>1, StartOrQueueWhole DEF Write
<1>3. req' = u.req /\ ext' = u.ext
  BY DEF Write, Callback
<1> HIDE DEF u
<1>4. Rest
  BY DEF Write, Rest, Inv, Past
<1>5. Stuck(u) => Stuck(State) \/ history' # {}
  BY <1>1, <1>2 DEF Arrived, Passes, Write
<1>6. Whole(u, abandoned', Steady)
  BY <1>2 DEF Write, Arrived
<1> QED
  BY <1>2, <1>3, <1>4, <1>5, <1>6, StepKeeps DEF Arrived

LEMMA ImmediateKeeps ==
  ASSUME Inv, NEW r \in Requests, Immediate(r)
  PROVE  Inv'
<1> DEFINE u == StartImmediate([State EXCEPT !.req[r].issued = TRUE], r)
<1>1. /\ State.req = req /\ State.ext = ext
      /\ Whole(State, abandoned, Steady)
  BY StateOf DEF Inv
<1>2. Entered(State, u, abandoned)
  BY <1>1, StartImmediateWhole DEF Immediate
<1>3. req' = u.req /\ ext' = u.ext
  BY DEF Immediate, Callback
<1> HIDE DEF u
<1>4. Rest
  BY DEF Immediate, Rest, Inv
<1>5. Whole(u, abandoned', Steady)
  BY <1>2 DEF Immediate, Entered
<1> QED
  BY <1>2, <1>3, <1>4, <1>5, StepKeeps DEF Entered

(* What is in work for a request that has something to send.               *)
LEMMA SendsFrom ==
  ASSUME NEW s, NEW ab, Whole(s, ab, Steady),
         NEW slot \in {"write", "immediate"}, s.ext.isr[slot] > 0
  PROVE  LET r == s.ext.current[slot]
         IN  /\ r \in Requests /\ s.req[r] \in RequestType
             /\ s.ext.isr[slot] \in Nat
             /\ s.req[r].onWire + s.ext.isr[slot] = s.req[r].length
             /\ slot = "immediate" => s.req[r].length = 1
<1> DEFINE r == s.ext.current[slot]
           q == s.req[r]
           left == s.ext.isr[slot]
<1>1. /\ s \in StateType /\ s.ext \in ExtensionType /\ slot \in Slots
      /\ slot # "xoff" /\ Steady[slot] = "steady" /\ Shape(s)
  BY StateFacts DEF Whole, Slots, Steady
<1>2. left \in Nat /\ left # 0
  BY <1>1 DEF ExtensionType
<1>3. Busy(s, ab, slot, "none") /\ r \in Requests
  BY <1>1, <1>2, SteadyBusy DEF Silent
<1>4. q \in RequestType
  BY <1>1, <1>3, StateFacts
<1>5. q.onWire + left = q.length /\ (slot = "immediate" => q.kind = "immediate")
  <2> DEFINE dpc == slot \in s.ext.dpc
             gone == slot = "xoff" /\ r \in ab
  <2>1. Work(q, slot, left, dpc, s.ext.timer[slot], "none", gone)
    BY <1>3 DEF Busy
  <2> HIDE DEF dpc, gone, q, left
  <2> QED
    BY <1>1, <1>2, <2>1 DEF Work, Fits
<1>6. slot = "immediate" => q.length = 1
  BY <1>1, <1>3, <1>5 DEF Shape
<1> QED
  BY <1>2, <1>3, <1>4, <1>5, <1>6

(* It hands n characters to the hardware.                                  *)
Hands(slot, n, i) ==
  LET r    == ext.current[slot]
      q    == req[r]
      left == ext.isr[slot]
  IN  /\ req' = [req EXCEPT ![r] = [q EXCEPT !.onWire = q.onWire + n,
                                             !.Information = i]]
      /\ ext' = [ext EXCEPT !.isr[slot] = left - n,
                            !.dpc = IF n = left THEN ext.dpc \cup {slot}
                                    ELSE ext.dpc]
      /\ UNCHANGED <<flushing, orders, abandoned, history>>

LEMMA OneChanged ==
  ASSUME NEW f \in [Requests -> RequestType], NEW r \in Requests,
         NEW e \in RequestType
  PROVE  /\ [f EXCEPT ![r] = e] \in [Requests -> RequestType]
         /\ [f EXCEPT ![r] = e][r] = e
         /\ \A x \in Requests : x # r => [f EXCEPT ![r] = e][x] = f[x]
OBVIOUS

LEMMA SentKeeps ==
  ASSUME Inv, NEW slot \in {"write", "immediate"}, ext.isr[slot] > 0,
         NEW n \in Nat, 0 < n, n <= ext.isr[slot], NEW i \in Nat,
         slot = "write" /\ n = ext.isr[slot] =>
           i = req[ext.current[slot]].length,
         Hands(slot, n, i)
  PROVE  Inv'
<1> DEFINE u == [req |-> req', ext |-> ext']
           r == ext.current[slot]
           left == ext.isr[slot]
           q == req[r]
           e == [q EXCEPT !.onWire = q.onWire + n, !.Information = i]
<1>1. /\ State \in StateType /\ State.req = req /\ State.ext = ext
      /\ Whole(State, abandoned, Steady) /\ slot \in Slots
  BY StateOf DEF Inv, Slots
<1>2. /\ r \in Requests /\ q \in RequestType /\ left \in Nat
  BY <1>1, SendsFrom
<1>3. /\ req \in [Requests -> RequestType] /\ ext \in ExtensionType
  BY <1>1 DEF StateType
<1>0. /\ req' = [req EXCEPT ![r] = e]
      /\ ext' = [ext EXCEPT
                   !.isr[slot] = left - n,
                   !.dpc = IF n = left THEN ext.dpc \cup {slot} ELSE ext.dpc]
      /\ UNCHANGED <<flushing, orders, abandoned, history>>
  BY DEF Hands
<1> HIDE DEF q
<1>4. /\ e \in RequestType /\ e.onWire = q.onWire + n /\ e.Information = i
      /\ Alike([q EXCEPT !.onWire = e.onWire, !.Information = e.Information],
               e)
      /\ e.cancel = q.cancel /\ e.CancelRoutine = q.CancelRoutine
      /\ e.RefCount = q.RefCount
  <2>1. q.onWire + n \in Nat
    BY <1>2 DEF RequestType
  <2> QED
    BY <1>2, <2>1 DEF RequestType, Alike
<1> HIDE DEF e
<1>6. /\ req' \in [Requests -> RequestType] /\ req'[r] = e
      /\ \A x \in Requests : x # r => req'[x] = req[x]
  BY <1>0, <1>2, <1>3, <1>4, OneChanged
<1>7. left - n \in Nat
  BY <1>2
<1>8. /\ ext' \in ExtensionType /\ ext'.current = ext.current
      /\ ext'.WriteQueue = ext.WriteQueue /\ ext'.stopped = ext.stopped
      /\ ext'.Timeouts = ext.Timeouts /\ ext'.timer = ext.timer
      /\ ext'.isr[slot] = left - n
      /\ \A j \in Slots : j # slot => ext'.isr[j] = ext.isr[j]
      /\ ext'.dpc = IF n = left THEN ext.dpc \cup {slot} ELSE ext.dpc
      /\ ext'.TotalCharsQueued = ext.TotalCharsQueued
  BY <1>0, <1>1, <1>3, <1>7 DEF ExtensionType
<1>9. u \in StateType /\ u.req = req' /\ u.ext = ext'
  BY <1>6, <1>8 DEF StateType
<1> HIDE DEF u
<1>10. State.req[r] = q /\ u.req[r] = e
  BY <1>1, <1>6, <1>9 DEF q
<1>11. Sends(State, u, slot, n)
  <2>1. u.req[r].onWire = State.req[r].onWire + n
    BY <1>4, <1>10
  <2>2. slot = "write" /\ n = left =>
          u.req[r].Information = State.req[r].length
    BY <1>4, <1>10 DEF q
  <2>3. Alike([State.req[r] EXCEPT !.onWire = u.req[r].onWire,
                                   !.Information = u.req[r].Information],
              u.req[r])
    BY <1>4, <1>10
  <2>4. /\ u.req[r].cancel = State.req[r].cancel
        /\ u.req[r].CancelRoutine = State.req[r].CancelRoutine
        /\ u.req[r].RefCount = State.req[r].RefCount
    BY <1>4, <1>10
  <2>5. \A x \in Requests : x # r => u.req[x] = State.req[x]
    BY <1>1, <1>6, <1>9
  <2>6. r = State.ext.current[slot] /\ left = State.ext.isr[slot]
    BY <1>1
  <2> HIDE DEF r, left
  <2> QED
    BY <1>1, <1>8, <1>9, <2>1, <2>2, <2>3, <2>4, <2>5, <2>6 DEF Sends
<1>12. Whole(u, abandoned, Steady) /\ Keeps(State, u)
  BY <1>1, <1>11, SendsWhole
<1> QED
  BY <1>0, <1>9, <1>12, StillSteady

LEMMA TransmitImmediateKeeps ==
  ASSUME Inv, TransmitImmediate
  PROVE  Inv'
<1> DEFINE r == ext.current["immediate"]
           q == req[r]
           left == ext.isr["immediate"]
<1>1. /\ State.req = req /\ State.ext = ext /\ State \in StateType
      /\ Whole(State, abandoned, Steady) /\ left > 0
  BY StateOf DEF Inv, TransmitImmediate
<1>2. /\ r \in Requests /\ q \in RequestType /\ left \in Nat
      /\ q.onWire + left = q.length /\ q.length = 1
  BY <1>1, SendsFrom
<1>3. q.onWire \in Nat /\ q.Information \in Nat
  BY <1>2 DEF RequestType
<1> HIDE DEF left
<1>4. left = 1 /\ q.onWire + 1 = 1
  BY <1>1, <1>2, <1>3
<1> HIDE DEF q
<1>5. req' = [req EXCEPT ![r] = [q EXCEPT !.onWire = q.onWire + 1,
                                          !.Information = q.Information]]
  <2>1. req' = [req EXCEPT ![r] = [q EXCEPT !.onWire = 1]]
    BY DEF TransmitImmediate, q
  <2>2. [q EXCEPT !.onWire = 1] =
          [q EXCEPT !.onWire = q.onWire + 1, !.Information = q.Information]
    BY <1>2, <1>4 DEF RequestType
  <2> QED
    BY <2>1, <2>2
<1>6. ext' = [ext EXCEPT !.isr["immediate"] = left - 1,
                         !.dpc = IF 1 = left THEN ext.dpc \cup {"immediate"}
                                 ELSE ext.dpc]
  <2>1. left - 1 = 0
    BY <1>4
  <2> QED
    BY <1>4, <2>1 DEF TransmitImmediate
<1>7. UNCHANGED <<flushing, orders, abandoned, history>>
  BY DEF TransmitImmediate
<1>8. Hands("immediate", 1, q.Information)
  BY <1>5, <1>6, <1>7 DEF Hands, left, q
<1>9. q.Information \in Nat /\ ext.isr["immediate"] = 1
  BY <1>3, <1>4 DEF left
<1> HIDE DEF r
<1> QED
  BY <1>8, <1>9, SentKeeps

LEMMA TransmitWriteKeeps ==
  ASSUME Inv, TransmitWrite
  PROVE  Inv'
<1> DEFINE r == ext.current["write"]
           q == req[r]
           left == ext.isr["write"]
           n == IF Fifo < left THEN Fifo ELSE left
           i == IF left - n = 0 THEN q.length ELSE q.Information
<1>1. /\ State.req = req /\ State.ext = ext /\ State \in StateType
      /\ Whole(State, abandoned, Steady) /\ left > 0
  BY StateOf DEF Inv, TransmitWrite
<1>2. /\ r \in Requests /\ q \in RequestType /\ left \in Nat
  BY <1>1, SendsFrom
<1>3. q.length \in Nat /\ q.Information \in Nat
  BY <1>2, RequestFacts DEF RequestType
<1>4. req' = [req EXCEPT ![r] = [q EXCEPT !.onWire = q.onWire + n,
                                          !.Information = i]]
  <2>1. req \in [Requests -> RequestType]
    BY <1>1 DEF StateType
  <2>2. req' = [req EXCEPT ![r].onWire = @ + n, ![r].Information =
                  IF left - n = 0 THEN req[r].length ELSE @]
    BY DEF TransmitWrite
  <2> HIDE DEF n, left
  <2> QED
    BY <1>2, <2>1, <2>2 DEF RequestType
<1> HIDE DEF left, q
<1>5. n \in Nat /\ 0 < n /\ n <= left /\ (left - n = 0 <=> n = left)
  BY <1>1, <1>2, SerialAssumption
<1>6. i \in Nat /\ (n = left => i = q.length)
  BY <1>3, <1>5
<1>7. ext' = [ext EXCEPT !.isr["write"] = left - n,
                         !.dpc = IF n = left THEN ext.dpc \cup {"write"}
                                 ELSE ext.dpc]
  <2>1. ext' = [ext EXCEPT !.isr["write"] = left - n,
                           !.dpc = IF left - n = 0
                                     THEN ext.dpc \cup {"write"}
                                     ELSE ext.dpc]
    BY DEF TransmitWrite, left
  <2> HIDE DEF n
  <2> QED
    BY <1>5, <2>1
<1>8. UNCHANGED <<flushing, orders, abandoned, history>>
  BY DEF TransmitWrite
<1> HIDE DEF n, i
<1>9. Hands("write", n, i)
  BY <1>4, <1>7, <1>8 DEF Hands, left, q
<1>10. /\ ext.isr["write"] > 0 /\ n <= ext.isr["write"]
       /\ n = ext.isr["write"] => i = req[ext.current["write"]].length
  BY <1>1, <1>5, <1>6 DEF left, q
<1> HIDE DEF r
<1> QED
  BY <1>5, <1>6, <1>9, <1>10, SentKeeps

LEMMA ReceiveCharKeeps ==
  ASSUME Inv, ReceiveChar
  PROVE  Inv'
<1> DEFINE u == PutChar(State)
<1>1. Whole(State, abandoned, Steady) /\ Steady \in [Slots -> Modes]
      /\ Steady["xoff"] = "steady"
  BY StateOf DEF Inv, Steady, Modes, Slots
<1>2. Whole(u, abandoned, Steady) /\ Puts(State, u)
  BY <1>1, PutCharWhole
<1>3. req' = u.req /\ ext' = u.ext
      /\ UNCHANGED <<flushing, orders, abandoned, history>>
  BY DEF ReceiveChar, Callback
<1> HIDE DEF u
<1>4. Keeps(State, u)
  BY <1>2, BesideKeeps DEF Puts
<1> QED
  BY <1>2, <1>3, <1>4, StillSteady

LEMMA CompletionDpcKeeps ==
  ASSUME Inv, NEW slot \in Slots, NEW early \in BOOLEAN,
         CompletionDpc(slot, early)
  PROVE  Inv'
<1> DEFINE u == EndSlot([State EXCEPT !.ext.dpc = @ \ {slot}], slot, FALSE,
                        "ISR", "SUCCESS", early)
<1>1. Whole(State, abandoned, Steady) /\ slot \in State.ext.dpc
  BY StateOf DEF Inv, CompletionDpc
<1>2. Called(State, u, abandoned)
  BY <1>1, CompletionDpcCalled
<1>3. Callback(u) /\ Passed /\ UNCHANGED <<flushing, orders, abandoned>>
  BY DEF CompletionDpc
<1> HIDE DEF u
<1> QED
  BY <1>2, <1>3, PassedKeeps

LEMMA TimeoutKeeps ==
  ASSUME Inv, NEW slot \in Slots, Timeout(slot)
  PROVE  Inv'
<1> DEFINE u == EndSlot([State EXCEPT !.ext.timer[slot] = @ \ {"fired"}],
                        slot, TRUE, "TOTAL_TIMER", "TIMEOUT", FALSE)
<1>1. Whole(State, abandoned, Steady) /\ "fired" \in State.ext.timer[slot]
  BY StateOf DEF Inv, Timeout
<1>2. Called(State, u, abandoned)
  BY <1>1, TimeoutCalled
<1>3. Callback(u) /\ Passed /\ UNCHANGED <<flushing, orders, abandoned>>
  BY DEF Timeout
<1> HIDE DEF u
<1> QED
  BY <1>2, <1>3, PassedKeeps

LEMMA CancelRoutineKeeps ==
  ASSUME Inv, NEW r \in Requests, CancelRoutine(r)
  PROVE  Inv'
<1> DEFINE routine == req[r].CancelRoutine
           u == RunCancelRoutine(State, routine)
<1>1. /\ Whole(State, abandoned, Steady)
      /\ State.req = req /\ NoRequest \notin Requests
  BY StateOf, SerialAssumption DEF Inv
<1>2. PICK slot \in Slots : /\ r = State.ext.current[slot]
                            /\ State.req[r].CancelRoutine = slot
  BY <1>1, CancelledInWork DEF CancelRoutine
<1>3. routine = slot /\ State.ext.current[slot] # NoRequest
  BY <1>1, <1>2
<1>4. Called(State, RunCancelRoutine(State, slot), abandoned)
  BY <1>1, <1>3, CancelRoutineCalled
<1>5. Callback(u) /\ Passed /\ UNCHANGED <<flushing, orders, abandoned>>
  BY DEF CancelRoutine
<1>6. Called(State, u, abandoned)
  BY <1>3, <1>4
<1> HIDE DEF u
<1> QED
  BY <1>5, <1>6, PassedKeeps

LEMMA SerialTimeoutXoffKeeps ==
  ASSUME Inv, SerialTimeoutXoff
  PROVE  Inv'
<1> DEFINE u == EndXoff([State EXCEPT !.ext.timer["xoff"] = @ \ {"fired"}],
                        TRUE, "none", "TOTAL_TIMER", "COUNTER_TIMEOUT")
<1>1. Whole(State, abandoned, Steady) /\ "fired" \in State.ext.timer["xoff"]
      /\ State.ext = ext
  BY StateOf DEF Inv, SerialTimeoutXoff
<1>2. /\ Whole(u, abandoned \cup {State.ext.current["xoff"]}, Steady)
      /\ Keeps(State, u)
  BY <1>1, TimeoutXoffCalled
<1>3. /\ req' = u.req /\ ext' = u.ext
      /\ abandoned' = abandoned \cup {ext.current["xoff"]}
      /\ UNCHANGED <<flushing, orders, history>>
  BY DEF SerialTimeoutXoff, Callback
<1> HIDE DEF u
<1>4. Whole(u, abandoned', Steady)
  BY <1>1, <1>2, <1>3
<1>5. Tallies(State, u) /\ (Stuck(u) => Stuck(State))
  BY <1>2, KeepsTallies DEF Keeps, Stuck
<1>6. Rest
  BY <1>3 DEF Rest, Inv
<1> QED
  BY <1>3, <1>4, <1>5, <1>6, StepKeeps

LEMMA TimerExpiresKeeps ==
  ASSUME Inv, NEW slot \in Slots, TimerExpires(slot)
  PROVE  Inv'
<1> DEFINE u == [req |-> req', ext |-> ext']
           left == (ext.timer[slot] \ {"queued"}) \cup {"fired"}
<1>1. /\ State \in StateType /\ State.req = req /\ State.ext = ext
      /\ Whole(State, abandoned, Steady)
  BY StateOf DEF Inv
<1>2. req \in [Requests -> RequestType] /\ ext \in ExtensionType
  BY <1>1 DEF StateType
<1>3. /\ "queued" \in ext.timer[slot]
      /\ ext' = [ext EXCEPT !.timer[slot] = left] /\ req' = req
      /\ UNCHANGED <<flushing, orders, abandoned, history>>
  BY DEF TimerExpires
<1>4. left \in SUBSET {"queued", "fired"}
  BY <1>2 DEF ExtensionType
<1> HIDE DEF left
<1>5. /\ ext' \in ExtensionType /\ ext'.current = ext.current
      /\ ext'.WriteQueue = ext.WriteQueue /\ ext'.stopped = ext.stopped
      /\ ext'.Timeouts = ext.Timeouts /\ ext'.isr = ext.isr
      /\ ext'.dpc = ext.dpc /\ ext'.TotalCharsQueued = ext.TotalCharsQueued
      /\ ext'.timer[slot] = left
      /\ \A i \in Slots : i # slot => ext'.timer[i] = ext.timer[i]
  BY <1>2, <1>3, <1>4 DEF ExtensionType
<1>6. u \in StateType /\ u.req = req' /\ u.ext = ext'
  BY <1>2, <1>3, <1>5 DEF StateType
<1> HIDE DEF u
<1>7. Whole(u, abandoned, Steady) /\ Keeps(State, u)
  <2>1. /\ "queued" \in State.ext.timer[slot]
        /\ u.ext.timer[slot] =
             (State.ext.timer[slot] \ {"queued"}) \cup {"fired"}
    BY <1>1, <1>3, <1>5, <1>6 DEF left
  <2>2. /\ u.req = State.req /\ u.ext.current = State.ext.current
        /\ u.ext.WriteQueue = State.ext.WriteQueue
        /\ u.ext.stopped = State.ext.stopped
        /\ u.ext.Timeouts = State.ext.Timeouts
        /\ u.ext.isr = State.ext.isr /\ u.ext.dpc = State.ext.dpc
        /\ u.ext.TotalCharsQueued = State.ext.TotalCharsQueued
        /\ \A i \in Slots : i # slot => u.ext.timer[i] = State.ext.timer[i]
    BY <1>1, <1>3, <1>5, <1>6
  <2> QED
    BY <1>1, <1>6, <2>1, <2>2, ExpiresWhole
<1> QED
  BY <1>3, <1>6, <1>7, StillSteady

LEMMA CancelRequestKeeps ==
  ASSUME Inv, NEW r \in Requests, CancelRequest(r)
  PROVE  Inv'
<1>1. /\ State \in StateType /\ State.req = req /\ State.ext = ext
      /\ Whole(State, abandoned, Steady) /\ Steady \in [Slots -> Modes]
  BY StateOf DEF Inv, Steady, Modes
<1>2. UNCHANGED <<flushing, orders, abandoned, history>>
  BY DEF CancelRequest
<1>3. CASE \E n \in DOMAIN ext.WriteQueue :
             Callback(SerialEvtCanceledOnQueue(State, n))
  <2>1. PICK n \in DOMAIN State.ext.WriteQueue :
               Callback(SerialEvtCanceledOnQueue(State, n))
    BY <1>1, <1>3
  <2> DEFINE u == SerialEvtCanceledOnQueue(State, n)
  <2>2. /\ Whole(u, abandoned, Steady) /\ Tallies(State, u)
        /\ Stuck(u) => Stuck(State)
    BY <1>1, CanceledOnQueueWhole
  <2>3. req' = u.req /\ ext' = u.ext
    BY <2>1 DEF Callback
  <2> HIDE DEF u
  <2>4. Rest /\ Whole(u, abandoned', Steady)
    BY <1>2, <2>2 DEF Rest, Inv
  <2> QED
    BY <2>2, <2>3, <2>4, StepKeeps
<1>4. CASE req[r].cancel = "armed" /\ ext' = ext
           /\ req' = [req EXCEPT ![r].cancel = "called"]
  <2> DEFINE q == State.req[r]
             u == Put(State, r, [q EXCEPT !.cancel = "called"])
  <2>1. Whole(u, abandoned, Steady) /\ Keeps(State, u)
    BY <1>1, <1>4, CalledWhole
  <2>2. u.req = req' /\ u.ext = ext'
    BY <1>1, <1>4 DEF Put, StateType
  <2> HIDE DEF u
  <2> QED
    BY <1>2, <2>1, <2>2, StillSteady
<1> QED
  BY <1>3, <1>4 DEF CancelRequest

LEMMA PurgeKeeps ==
  ASSUME Inv, Purge
  PROVE  Inv'
<1> DEFINE u == SerialPurgeRequests(State)
<1>1. Whole(State, abandoned, Steady)
  BY StateOf DEF Inv
<1>2. Entered(State, u, abandoned)
  BY <1>1, PurgeCalled
<1>3. /\ req' = u.req /\ ext' = u.ext
      /\ orders < MaxOrders /\ orders' = orders + 1
      /\ UNCHANGED <<flushing, abandoned, history>>
  BY DEF Purge, Callback
<1> HIDE DEF u
<1>4. Rest
  <2>1. orders \in 0 .. MaxOrders /\ MaxOrders \in Nat
    BY SerialAssumption DEF Inv
  <2>2. orders' \in 0 .. MaxOrders
    BY <1>3, <2>1
  <2> QED
    BY <1>3, <2>2 DEF Rest, Inv
<1>5. Whole(u, abandoned', Steady)
  BY <1>2, <1>3 DEF Entered
<1> QED
  BY <1>2, <1>3, <1>4, <1>5, StepKeeps DEF Entered

(* The queue is stopped, or it delivers again.                             *)
LEMMA StopsKeeps ==
  ASSUME Inv, NEW stopped \in BOOLEAN,
         ext' = [ext EXCEPT !.stopped = stopped], Rest,
         UNCHANGED <<req, abandoned>>
  PROVE  Inv'
<1> DEFINE u == [req |-> req', ext |-> ext']
<1>1. /\ State \in StateType /\ State.req = req /\ State.ext = ext
      /\ Whole(State, abandoned, Steady)
  BY StateOf DEF Inv
<1>2. req \in [Requests -> RequestType] /\ ext \in ExtensionType
  BY <1>1 DEF StateType
<1>3. /\ ext' \in ExtensionType /\ ext'.current = ext.current
      /\ ext'.WriteQueue = ext.WriteQueue /\ ext'.timer = ext.timer
      /\ ext'.Timeouts = ext.Timeouts /\ ext'.isr = ext.isr
      /\ ext'.dpc = ext.dpc /\ ext'.TotalCharsQueued = ext.TotalCharsQueued
  BY <1>2 DEF ExtensionType
<1>4. u \in StateType /\ u.req = req' /\ u.ext = ext'
  BY <1>2, <1>3 DEF StateType
<1> HIDE DEF u
<1>5. /\ Stands(State, u) /\ req' = u.req /\ ext' = u.ext
      /\ u.ext.TotalCharsQueued = State.ext.TotalCharsQueued
  BY <1>1, <1>3, <1>4 DEF Stands
<1>6. Whole(u, abandoned', Steady) /\ Tallies(State, u)
  BY <1>1, <1>5, StandsWhole, StandsTallies
<1>7. Stuck(u) => Stuck(State)
  BY <1>5 DEF Stands, Stuck
<1> QED
  BY <1>5, <1>6, <1>7, StepKeeps

LEMMA SerialFlushKeeps ==
  ASSUME Inv, SerialFlush
  PROVE  Inv'
<1>1. orders' \in 0 .. MaxOrders
  <2>1. orders \in 0 .. MaxOrders /\ MaxOrders \in Nat
    BY SerialAssumption DEF Inv
  <2> QED
    BY <2>1 DEF SerialFlush
<1>2. Rest
  BY <1>1 DEF Rest, Inv, SerialFlush
<1> QED
  BY <1>2, StopsKeeps DEF SerialFlush

LEMMA FlushDoneKeeps ==
  ASSUME Inv, FlushDone
  PROVE  Inv'
<1>1. Rest
  BY DEF Rest, Inv, FlushDone
<1> QED
  BY <1>1, StopsKeeps DEF FlushDone

LEMMA NextInv ==
  ASSUME Inv, [Next]_vars
  PROVE  Inv'
<1>1. ASSUME NEW r \in Requests,
             \/ Write(r) \/ Immediate(r)
             \/ CancelRequest(r) \/ CancelRoutine(r)
      PROVE  Inv'
  BY <1>1, WriteKeeps, ImmediateKeeps, CancelRequestKeeps, CancelRoutineKeeps
<1>2. ASSUME NEW slot \in Slots, NEW early \in BOOLEAN,
             CompletionDpc(slot, early)
      PROVE  Inv'
  BY <1>2, CompletionDpcKeeps
<1>3. ASSUME NEW slot \in Slots, TimerExpires(slot) \/ Timeout(slot)
      PROVE  Inv'
  BY <1>3, TimerExpiresKeeps, TimeoutKeeps
<1>4. CASE \/ TransmitImmediate \/ TransmitWrite \/ ReceiveChar
           \/ SerialTimeoutXoff \/ Purge \/ SerialFlush \/ FlushDone
  BY <1>4, TransmitImmediateKeeps, TransmitWriteKeeps, ReceiveCharKeeps,
     SerialTimeoutXoffKeeps, PurgeKeeps, SerialFlushKeeps, FlushDoneKeeps
<1>5. CASE UNCHANGED vars
  BY <1>5 DEF vars, Inv, IInv, Balanced, State, QueueServed
<1> QED
  BY <1>1, <1>2, <1>3, <1>4, <1>5 DEF Next

(* What the callbacks, the interrupts and the applications leave of the    *)
(* requests, in whatever order they come.                                  *)
THEOREM Invariance == Spec => []Inv
<1>1. Init => Inv
  BY InitInv
<1>2. Inv /\ [Next]_vars => Inv'
  BY NextInv
<1> QED
  BY <1>1, <1>2, PTL DEF Spec

(* Every field keeps its type: the counts of the ISR never go below zero,  *)
(* and nothing is queued or current but requests.                          *)
THEOREM SerialTypeCorrect == Spec => []TypeOK
<1>1. Inv => TypeOK
  BY InvTypeOK
<1> QED
  BY <1>1, Invariance, PTL

(* A request has a reference for the ISR, its cancel routine and its timer *)
(* exactly as long as each may still come for it.                          *)
THEOREM ReferencesAreHeld == Spec => []RefsAreHeld
<1>1. Inv => RefsAreHeld
  BY InvRefs
<1> QED
  BY <1>1, Invariance, PTL

(* A request is completed at most once, with no reference left, and what   *)
(* it reports is what went over the wire.                                  *)
THEOREM RequestsEndAsPromised == Spec => []EndsAsPromised
<1>1. Inv => EndsAsPromised
  BY InvEnds
<1> QED
  BY <1>1, Invariance, PTL

(* TotalCharsQueued is the number of characters of the requests that are   *)
(* queued or current.                                                      *)
THEOREM CharsQueuedIsExact == Spec => []CharsQueuedExact
<1>1. Inv => CharsQueuedExact
  BY InvCharsQueued
<1> QED
  BY <1>1, Invariance, PTL

(* Writes wait without a current one only after SerialFlush had stopped    *)
(* the queue, or after it had delivered an XOFF counter.                   *)
THEOREM WriteQueueIsServed == Spec => []QueueServed
<1>1. Inv => QueueServed
  BY DEF Inv
<1> QED
  BY <1>1, Invariance, PTL
=============================================================================
