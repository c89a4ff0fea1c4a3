------------------------- MODULE SerialWriteSteps --------------------------
(***************************************************************************)
(* The inductive invariant of SerialWrite, and what its operators keep of  *)
(* it while a callback runs: SerialTryToCompleteCurrent, what ends a       *)
(* request, SerialSetCancelRoutine, SerialSetTimer, PutChar and            *)
(* SerialStartWrite.  The theorems are in SerialWriteProofs.               *)
(***************************************************************************)
EXTENDS SerialWrite, SequenceTheorems, FunctionTheorems,
        FiniteSetTheorems, TLAPS

-----------------------------------------------------------------------------
(***************************************************************************)
(* The state inside a callback.  A change is told by what it puts: the     *)
(* context of one request, or the device extension.                        *)
(***************************************************************************)
StateType == [req : [Requests -> RequestType], ext : ExtensionType]

Put(s, r, q) == [s EXCEPT !.req = [s.req EXCEPT ![r] = q]]

PutExt(s, e) == [s EXCEPT !.ext = e]

LEMMA StateFacts ==
  ASSUME NEW s \in StateType
  PROVE  /\ s.req \in [Requests -> RequestType] /\ s.ext \in ExtensionType
         /\ \A r \in Requests : s.req[r] \in RequestType
BY DEF StateType

LEMMA PutFacts ==
  ASSUME NEW s \in StateType, NEW r \in Requests, NEW q \in RequestType
  PROVE  /\ Put(s, r, q) \in StateType
         /\ Put(s, r, q).ext = s.ext
         /\ Put(s, r, q).req[r] = q
         /\ \A x \in Requests : x # r => Put(s, r, q).req[x] = s.req[x]
BY DEF Put, StateType

LEMMA PutTwice ==
  ASSUME NEW s \in StateType, NEW r \in Requests, NEW q, NEW u
  PROVE  Put(Put(s, r, q), r, u) = Put(s, r, u)
BY DEF Put, StateType

LEMMA PutExtFacts ==
  ASSUME NEW s \in StateType, NEW e \in ExtensionType
  PROVE  /\ PutExt(s, e) \in StateType
         /\ PutExt(s, e).ext = e /\ PutExt(s, e).req = s.req
BY DEF PutExt, StateType

LEMMA ClearReferenceIs ==
  ASSUME NEW s \in StateType, NEW r \in Requests, NEW ref
  PROVE  ClearReference(s, r, ref) =
           Put(s, r, [s.req[r] EXCEPT !.RefCount = s.req[r].RefCount \ {ref}])
BY DEF ClearReference, StateType, Put

LEMMA SetReferenceIs ==
  ASSUME NEW s \in StateType, NEW r \in Requests, NEW ref
  PROVE  SetReference(s, r, ref) =
           Put(s, r, [s.req[r] EXCEPT !.RefCount = s.req[r].RefCount \cup {ref}])
BY DEF SetReference, StateType, Put

(* What a callback puts is a new context for the request it works on.      *)
LEMMA SerialSetCancelRoutineIs ==
  ASSUME NEW s \in StateType, NEW r \in Requests, NEW routine \in Slots
  PROVE  SerialSetCancelRoutine(s, r, routine) =
           Put(s, r, [s.req[r] EXCEPT
                        !.RefCount = s.req[r].RefCount \cup {"CANCEL"},
                        !.cancel = "armed", !.CancelRoutine = routine])
<1> DEFINE q == [s.req[r] EXCEPT !.cancel = "armed", !.CancelRoutine = routine]
           s1 == [s EXCEPT !.req[r] = [s.req[r] EXCEPT
                                     !.cancel = "armed",
                                     !.CancelRoutine = routine]]
           u == [q EXCEPT !.RefCount = q.RefCount \cup {"CANCEL"}]
<1>1. s.req[r] \in RequestType
  BY StateFacts
<1>2. q \in RequestType /\ q.RefCount = s.req[r].RefCount
  BY <1>1 DEF RequestType
<1>3. s1 = Put(s, r, q)
  BY DEF Put, StateType
<1>4. u = [s.req[r] EXCEPT !.RefCount = s.req[r].RefCount \cup {"CANCEL"},
                           !.cancel = "armed", !.CancelRoutine = routine]
  BY <1>1, <1>2 DEF RequestType
<1>5. SerialSetCancelRoutine(s, r, routine) = SetReference(s1, r, "CANCEL")
  BY DEF SerialSetCancelRoutine
<1> HIDE DEF s1, q
<1>6. s1 \in StateType /\ s1.req[r] = q
  BY <1>2, <1>3, PutFacts
<1>7. SerialSetCancelRoutine(s, r, routine) = Put(s1, r, u)
  BY <1>5, <1>6, SetReferenceIs
<1>8. Put(s1, r, u) = Put(s, r, u)
  BY <1>3, PutTwice
<1> HIDE DEF u
<1> QED
  BY <1>4, <1>7, <1>8

LEMMA UnmarkIs ==
  ASSUME NEW s \in StateType, NEW r \in Requests
  PROVE  Unmark(s, r) =
           Put(s, r, [s.req[r] EXCEPT
                        !.RefCount = s.req[r].RefCount \ {"CANCEL"},
                        !.cancel = "no", !.CancelRoutine = "none"])
<1> DEFINE q == [s.req[r] EXCEPT !.cancel = "no", !.CancelRoutine = "none"]
           s1 == [s EXCEPT !.req[r] = [s.req[r] EXCEPT
                                     !.cancel = "no",
                                     !.CancelRoutine = "none"]]
           u == [q EXCEPT !.RefCount = q.RefCount \ {"CANCEL"}]
<1>1. s.req[r] \in RequestType
  BY StateFacts
<1>2. q \in RequestType /\ q.RefCount = s.req[r].RefCount
  BY <1>1 DEF RequestType
<1>3. s1 = Put(s, r, q)
  BY DEF Put, StateType
<1>4. u = [s.req[r] EXCEPT !.RefCount = s.req[r].RefCount \ {"CANCEL"},
                           !.cancel = "no", !.CancelRoutine = "none"]
  BY <1>1, <1>2 DEF RequestType
<1>5. Unmark(s, r) = ClearReference(s1, r, "CANCEL")
  BY DEF Unmark
<1> HIDE DEF s1, q
<1>6. s1 \in StateType /\ s1.req[r] = q
  BY <1>2, <1>3, PutFacts
<1>7. Unmark(s, r) = Put(s1, r, u)
  BY <1>5, <1>6, ClearReferenceIs
<1>8. Put(s1, r, u) = Put(s, r, u)
  BY <1>3, PutTwice
<1> HIDE DEF u
<1> QED
  BY <1>4, <1>7, <1>8
-----------------------------------------------------------------------------
(***************************************************************************)
(* The invariant.                                                          *)
(***************************************************************************)
Fits(kind, slot) ==
  /\ slot = "xoff" => kind \in XoffKinds
  /\ slot = "immediate" <=> kind = "immediate"

(* The context q of a request in work in a slot: left is what the ISR      *)
(* owns, dpc tells if the completion DPC is queued, by is the reference of *)
(* the callback that runs now, gone tells if its timer was given up.       *)
Work(q, slot, left, dpc, timer, by, gone) ==
  /\ q.issued /\ q.ended = 0 /\ Fits(q.kind, slot)
  /\ q.cancel # "no" => q.CancelRoutine = slot
  /\ "ISR" \in q.RefCount <=> (left > 0 \/ dpc \/ by = "ISR")
  /\ "TOTAL_TIMER" \in q.RefCount <=>
       (timer # {} \/ gone \/ by = "TOTAL_TIMER")
  /\ "CANCEL" \in q.RefCount <=> q.cancel # "no"
  /\ "XOFF_REF" \notin q.RefCount
  /\ timer \in {{}, {"queued"}, {"fired"}}
  /\ gone => timer = {} /\ by # "TOTAL_TIMER"
  /\ by = "TOTAL_TIMER" => timer = {}
  /\ by = "ISR" => left = 0 /\ ~dpc
  /\ dpc => left = 0
  /\ slot = "xoff" \/ dpc \/ by = "ISR" => q.onWire = q.length
  /\ slot # "xoff" /\ left > 0 => q.onWire + left = q.length
  /\ slot = "write" /\ left = 0 /\ q.kind = "write" =>
       q.Information = q.onWire

(* Nobody has touched it yet.                                              *)
Fresh(q) ==
  /\ q.ended = 0 /\ q.RefCount = {} /\ q.cancel = "no"
  /\ q.onWire = 0 /\ q.Information = 0

Done(q) ==
  /\ q.issued /\ q.ended = 1 /\ q.RefCount = {} /\ q.cancel = "no"
  /\ q.Status \in {"SUCCESS", "MORE_WRITES"} => q.onWire = q.length
  /\ q.kind = "write" =>
       q.Information = IF q.Status = "CANCELLED" THEN 0 ELSE q.onWire

Silent(s, slot) ==
  s.ext.isr[slot] = 0 /\ slot \notin s.ext.dpc /\ s.ext.timer[slot] = {}

Busy(s, ab, slot, by) ==
  LET r == s.ext.current[slot]
  IN  /\ r \in Requests
      /\ Work(s.req[r], slot, s.ext.isr[slot], slot \in s.ext.dpc,
              s.ext.timer[slot], by, slot = "xoff" /\ r \in ab)

(* Between callbacks a slot is steady.  Inside one it may be due: the last *)
(* reference may be gone; it may lend a reference to the callback; and the *)
(* next write may be there before it has any.                              *)
SlotOk(s, ab, slot, mode) ==
  LET r == s.ext.current[slot]
  IN  IF mode = "start"
        THEN /\ r \in Requests /\ Silent(s, slot)
             /\ Fresh(s.req[r]) /\ s.req[r].issued
             /\ Fits(s.req[r].kind, slot)
      ELSE IF mode = "steady"
        THEN \/ r = NoRequest /\ Silent(s, slot)
             \/ Busy(s, ab, slot, "none") /\ s.req[r].RefCount # {}
      ELSE Busy(s, ab, slot, IF mode = "due" THEN "none" ELSE mode)

Current(s, r) == \E slot \in Slots : s.ext.current[slot] = r

Waits(s, r) == \E n \in DOMAIN s.ext.WriteQueue : s.ext.WriteQueue[n] = r

(* Requests that are not in work.                                          *)
Placed(s, r) ==
  IF Current(s, r) THEN ~Waits(s, r)
  ELSE IF Waits(s, r)
    THEN Fresh(s.req[r]) /\ s.req[r].issued /\ s.req[r].kind # "immediate"
  ELSE \/ Fresh(s.req[r]) /\ ~s.req[r].issued
       \/ Done(s.req[r])

(* What never changes.                                                     *)
Shape(s) ==
  /\ \A r \in Requests : s.req[r].kind # "write" => s.req[r].length = 1
  /\ \A r, x \in Requests :
       IsXoff(s.req[r]) /\ IsXoff(s.req[x]) => r = x

Counted(s) ==
  {r \in Requests : \/ Waits(s, r)
                    \/ r = s.ext.current["write"]
                    \/ r = s.ext.current["immediate"]}

Apart(s) ==
  \A i, j \in Slots :
     s.ext.current[i] = s.ext.current[j] /\ s.ext.current[i] # NoRequest
       => i = j

Once(s) ==
  \A m, n \in DOMAIN s.ext.WriteQueue :
     s.ext.WriteQueue[m] = s.ext.WriteQueue[n] => m = n

Owed(s, ab) == \A r \in ab : r \in Requests /\ r = s.ext.current["xoff"]

Balanced(s) == s.ext.TotalCharsQueued = NumberOfChars(s, Counted(s))

Whole(s, ab, m) ==
  /\ s \in StateType /\ Shape(s) /\ Apart(s) /\ Once(s) /\ Owed(s, ab)
  /\ \A slot \in Slots : SlotOk(s, ab, slot, m[slot])
  /\ \A r \in Requests : Placed(s, r)

Steady == [slot \in Slots |-> "steady"]

IInv == Whole(State, abandoned, Steady)
-----------------------------------------------------------------------------
(***************************************************************************)
(* SerialTryToCompleteCurrent changes one request and its slot.            *)
(***************************************************************************)
Near(s, t, slot) ==
  LET r == s.ext.current[slot]
  IN  /\ t \in StateType
      /\ \A x \in Requests : x # r => t.req[x] = s.req[x]
      /\ t.req[r].kind = s.req[r].kind
      /\ t.req[r].length = s.req[r].length
      /\ t.req[r].onWire = s.req[r].onWire
      /\ t.ext.current = s.ext.current
      /\ t.ext.WriteQueue = s.ext.WriteQueue
      /\ t.ext.delivered = s.ext.delivered
      /\ t.ext.stopped = s.ext.stopped
      /\ t.ext.dpc = s.ext.dpc
      /\ t.ext.TotalCharsQueued = s.ext.TotalCharsQueued
      /\ t.ext.Timeouts = s.ext.Timeouts
      /\ \A i \in Slots : i # slot => /\ t.ext.isr[i] = s.ext.isr[i]
                                      /\ t.ext.timer[i] = s.ext.timer[i]

LEMMA NearTransitive ==
  ASSUME NEW s, NEW t, NEW u, NEW slot, Near(s, t, slot), Near(t, u, slot)
  PROVE  Near(s, u, slot)
<1> DEFINE r == s.ext.current[slot]
<1>1. u \in StateType /\ t.ext.current[slot] = r
  BY DEF Near
<1>2. /\ \A x \in Requests : x # r => t.req[x] = s.req[x]
      /\ t.req[r].kind = s.req[r].kind /\ t.req[r].length = s.req[r].length
      /\ t.req[r].onWire = s.req[r].onWire
  BY DEF Near
<1>3. /\ \A x \in Requests : x # r => u.req[x] = t.req[x]
      /\ u.req[r].kind = t.req[r].kind /\ u.req[r].length = t.req[r].length
      /\ u.req[r].onWire = t.req[r].onWire
  BY <1>1 DEF Near
<1>4. /\ u.ext.current = s.ext.current
      /\ u.ext.WriteQueue = s.ext.WriteQueue
      /\ u.ext.delivered = s.ext.delivered
      /\ u.ext.stopped = s.ext.stopped
  BY DEF Near
<1>5. /\ u.ext.dpc = s.ext.dpc
      /\ u.ext.TotalCharsQueued = s.ext.TotalCharsQueued
      /\ u.ext.Timeouts = s.ext.Timeouts
  BY DEF Near
<1>6. ASSUME NEW i \in Slots, i # slot
      PROVE  /\ u.ext.isr[i] = s.ext.isr[i]
             /\ u.ext.timer[i] = s.ext.timer[i]
  BY <1>6 DEF Near
<1> HIDE DEF r
<1>7. /\ \A x \in Requests : x # r => u.req[x] = s.req[x]
      /\ u.req[r].kind = s.req[r].kind /\ u.req[r].length = s.req[r].length
      /\ u.req[r].onWire = s.req[r].onWire
  BY <1>2, <1>3
<1> QED
  BY <1>1, <1>4, <1>5, <1>6, <1>7 DEF Near, r

LEMMA NearSelf ==
  ASSUME NEW s \in StateType, NEW slot
  PROVE  Near(s, s, slot)
BY DEF Near

(* A new context with the same kind, length and characters on the wire.    *)
LEMMA NearPut ==
  ASSUME NEW s \in StateType, NEW slot \in Slots, NEW q \in RequestType,
         s.ext.current[slot] \in Requests,
         q.kind = s.req[s.ext.current[slot]].kind,
         q.length = s.req[s.ext.current[slot]].length,
         q.onWire = s.req[s.ext.current[slot]].onWire
  PROVE  Near(s, Put(s, s.ext.current[slot], q), slot)
<1> DEFINE r == s.ext.current[slot]
           t == Put(s, r, q)
<1>1. /\ t \in StateType /\ t.ext = s.ext /\ t.req[r] = q
      /\ \A x \in Requests : x # r => t.req[x] = s.req[x]
  <2>1. r \in Requests
    OBVIOUS
  <2> HIDE DEF r
  <2> QED
    BY <2>1, PutFacts
<1> SUFFICES Near(s, t, slot)
  OBVIOUS
<1> HIDE DEF t
<1> QED
  BY <1>1 DEF Near

LEMMA RequestFacts ==
  ASSUME NEW q \in RequestType
  PROVE  /\ q.length \in Nat \ {0} /\ q.onWire \in Nat /\ q.ended \in Nat
         /\ q.RefCount \subseteq {"ISR", "CANCEL", "TOTAL_TIMER", "XOFF_REF"}
<1>1. q.length \in WriteLengths \cup {1}
  BY DEF RequestType
<1>2. \A n \in WriteLengths : n \in Nat \ {0}
  BY SerialAssumption
<1>3. q.length \in Nat \ {0}
  BY <1>1, <1>2
<1> QED
  BY <1>3 DEF RequestType

LEMMA NearIsr ==
  ASSUME NEW s \in StateType, NEW slot \in Slots, NEW n \in Nat
  PROVE  LET t == [s EXCEPT !.ext.isr[slot] = n]
         IN  /\ Near(s, t, slot) /\ t.req = s.req
             /\ t.ext.timer = s.ext.timer /\ t.ext.isr[slot] = n
<1> DEFINE e == [s.ext EXCEPT !.isr = [s.ext.isr EXCEPT ![slot] = n]]
           t == [s EXCEPT !.ext.isr[slot] = n]
<1>1. s.ext \in ExtensionType
  BY StateFacts
<1>2. /\ e \in ExtensionType
      /\ e.isr[slot] = n /\ e.timer = s.ext.timer
      /\ \A i \in Slots : i # slot => e.isr[i] = s.ext.isr[i]
      /\ e.current = s.ext.current /\ e.WriteQueue = s.ext.WriteQueue
      /\ e.delivered = s.ext.delivered /\ e.stopped = s.ext.stopped
      /\ e.dpc = s.ext.dpc /\ e.Timeouts = s.ext.Timeouts
      /\ e.TotalCharsQueued = s.ext.TotalCharsQueued
  BY <1>1 DEF ExtensionType
<1>3. t = PutExt(s, e)
  BY <1>1 DEF PutExt, StateType
<1> HIDE DEF e, t
<1>4. t \in StateType /\ t.ext = e /\ t.req = s.req
  BY <1>2, <1>3, PutExtFacts
<1>5. Near(s, t, slot)
  BY <1>2, <1>4 DEF Near
<1> QED
  BY <1>2, <1>4, <1>5 DEF t

LEMMA NearTimer ==
  ASSUME NEW s \in StateType, NEW slot \in Slots, NEW T \in SUBSET {"queued", "fired"}
  PROVE  LET t == [s EXCEPT !.ext.timer[slot] = T]
         IN  /\ Near(s, t, slot) /\ t.req = s.req
             /\ t.ext.isr = s.ext.isr /\ t.ext.timer[slot] = T
<1> DEFINE e == [s.ext EXCEPT !.timer = [s.ext.timer EXCEPT ![slot] = T]]
           t == [s EXCEPT !.ext.timer[slot] = T]
<1>1. s.ext \in ExtensionType
  BY StateFacts
<1>2. /\ e \in ExtensionType
      /\ e.timer[slot] = T /\ e.isr = s.ext.isr
      /\ \A i \in Slots : i # slot => e.timer[i] = s.ext.timer[i]
      /\ e.current = s.ext.current /\ e.WriteQueue = s.ext.WriteQueue
      /\ e.delivered = s.ext.delivered /\ e.stopped = s.ext.stopped
      /\ e.dpc = s.ext.dpc /\ e.Timeouts = s.ext.Timeouts
      /\ e.TotalCharsQueued = s.ext.TotalCharsQueued
  BY <1>1 DEF ExtensionType
<1>3. t = PutExt(s, e)
  BY <1>1 DEF PutExt, StateType
<1> HIDE DEF e, t
<1>4. t \in StateType /\ t.ext = e /\ t.req = s.req
  BY <1>2, <1>3, PutExtFacts
<1>5. Near(s, t, slot)
  BY <1>2, <1>4 DEF Near
<1> QED
  BY <1>2, <1>4, <1>5 DEF t

LEMMA WorkOnWire ==
  ASSUME NEW q, NEW slot, NEW left \in Nat, NEW dpc, NEW timer, NEW by,
         NEW gone, Work(q, slot, left, dpc, timer, by, gone),
         slot # "xoff", left # 0
  PROVE  q.onWire + left = q.length
BY DEF Work

(* Who runs gives its reference back.                                      *)
LEMMA WorkGivesBack ==
  ASSUME NEW q \in RequestType, NEW slot \in Slots, NEW left \in Nat,
         NEW dpc \in BOOLEAN, NEW timer, NEW gone \in BOOLEAN,
         Work(q, slot, left, dpc, timer, "ISR", gone)
  PROVE  Work([q EXCEPT !.RefCount = q.RefCount \ {"ISR"}],
              slot, left, dpc, timer, "none", gone)
<1> DEFINE u == [q EXCEPT !.RefCount = q.RefCount \ {"ISR"}]
<1>1. /\ u.issued = q.issued /\ u.ended = q.ended /\ u.kind = q.kind
      /\ u.cancel = q.cancel /\ u.CancelRoutine = q.CancelRoutine
      /\ u.RefCount = q.RefCount \ {"ISR"} /\ u.onWire = q.onWire
      /\ u.length = q.length /\ u.Information = q.Information
  BY DEF RequestType
<1> HIDE DEF u
<1>2. Work(u, slot, left, dpc, timer, "none", gone)
  BY <1>1 DEF Work
<1> QED
  BY <1>2 DEF u

(* What the ISR had is taken from it.                                      *)
LEMMA WorkGrabbed ==
  ASSUME NEW q \in RequestType, NEW slot \in Slots, NEW left \in Nat,
         NEW dpc \in BOOLEAN, NEW timer, NEW by, NEW gone \in BOOLEAN,
         Work(q, slot, left, dpc, timer, by, gone), left > 0,
         NEW u \in RequestType,
         u.issued = q.issued, u.ended = q.ended, u.kind = q.kind,
         u.cancel = q.cancel, u.CancelRoutine = q.CancelRoutine,
         u.RefCount = q.RefCount \ {"ISR"}, u.onWire = q.onWire,
         u.length = q.length,
         slot = "write" /\ q.kind = "write" =>
           u.Information = q.length - left
  PROVE  Work(u, slot, 0, dpc, timer, by, gone)
<1>1. slot = "write" /\ q.kind = "write" => u.Information = u.onWire
  BY DEF Work, RequestType
<1>2. ~dpc /\ by # "ISR"
  BY DEF Work
<1> QED
  BY <1>1, <1>2 DEF Work

(* The cancel routine and the timer are stopped, or will still come.       *)
LEMMA WorkRunDown ==
  ASSUME NEW q \in RequestType, NEW slot \in Slots,
         NEW dpc \in BOOLEAN, NEW timer, NEW by, NEW gone \in BOOLEAN,
         Work(q, slot, 0, dpc, timer, by, gone), by # "ISR",
         NEW u \in RequestType,
         u.issued = q.issued, u.ended = q.ended, u.kind = q.kind,
         u.onWire = q.onWire, u.length = q.length,
         u.Information = q.Information,
         \/ u.cancel = q.cancel /\ u.CancelRoutine = q.CancelRoutine
         \/ u.cancel = "no",
         "CANCEL" \in u.RefCount <=> u.cancel # "no",
         "ISR" \in u.RefCount <=> "ISR" \in q.RefCount,
         "XOFF_REF" \notin u.RefCount,
         "TOTAL_TIMER" \in u.RefCount <=> /\ "TOTAL_TIMER" \in q.RefCount
                                          /\ "queued" \notin timer
                                          /\ by # "TOTAL_TIMER"
  PROVE  Work(u, slot, 0, dpc, timer \ {"queued"}, "none", gone)
<1>1. "TOTAL_TIMER" \in u.RefCount <=> (timer \ {"queued"} # {} \/ gone)
  BY DEF Work
<1>2. /\ timer \ {"queued"} \in {{}, {"queued"}, {"fired"}}
      /\ gone => timer \ {"queued"} = {}
  BY DEF Work
<1> QED
  BY <1>1, <1>2 DEF Work

(* What Work does not look at.                                             *)
LEMMA WorkElse ==
  ASSUME NEW q \in RequestType, NEW slot \in Slots, NEW left \in Nat,
         NEW dpc \in BOOLEAN, NEW timer, NEW by, NEW gone \in BOOLEAN,
         Work(q, slot, left, dpc, timer, by, gone),
         NEW u \in RequestType,
         u.issued = q.issued, u.ended = q.ended, u.kind = q.kind,
         u.cancel = q.cancel, u.CancelRoutine = q.CancelRoutine,
         u.RefCount = q.RefCount, u.onWire = q.onWire,
         u.length = q.length,
         slot = "write" => u.Information = q.Information
  PROVE  Work(u, slot, left, dpc, timer, by, gone)
BY DEF Work

(* The same without the timer, whose reference stays for good.             *)
LEMMA WorkAbandoned ==
  ASSUME NEW q \in RequestType, NEW slot \in Slots,
         NEW dpc \in BOOLEAN, NEW timer, NEW gone \in BOOLEAN,
         Work(q, slot, 0, dpc, timer, "TOTAL_TIMER", gone),
         NEW u \in RequestType,
         u.issued = q.issued, u.ended = q.ended, u.kind = q.kind,
         u.onWire = q.onWire, u.length = q.length,
         u.Information = q.Information,
         \/ u.cancel = q.cancel /\ u.CancelRoutine = q.CancelRoutine
         \/ u.cancel = "no",
         "CANCEL" \in u.RefCount <=> u.cancel # "no",
         "ISR" \in u.RefCount <=> "ISR" \in q.RefCount,
         "XOFF_REF" \notin u.RefCount,
         "TOTAL_TIMER" \in u.RefCount <=> "TOTAL_TIMER" \in q.RefCount
  PROVE  Work(u, slot, 0, dpc, timer, "none", TRUE)
BY DEF Work

(***************************************************************************)
(* The same for the state.                                                 *)
(***************************************************************************)
LEMMA BusyGivesBack ==
  ASSUME NEW s \in StateType, NEW ab, NEW slot \in Slots,
         Busy(s, ab, slot, "ISR")
  PROVE  LET t == ClearReference(s, s.ext.current[slot], "ISR")
         IN  Near(s, t, slot) /\ Busy(t, ab, slot, "none")
<1> DEFINE r == s.ext.current[slot]
           q == s.req[r]
           u == [q EXCEPT !.RefCount = q.RefCount \ {"ISR"}]
           t == Put(s, r, u)
           gone == slot = "xoff" /\ r \in ab
<1>1. r \in Requests /\ s.ext \in ExtensionType /\ q \in RequestType
  BY StateFacts DEF Busy
<1>2. /\ u \in RequestType /\ u.kind = q.kind /\ u.length = q.length
      /\ u.onWire = q.onWire
  BY <1>1 DEF RequestType
<1>3. s.ext.isr[slot] \in Nat /\ (slot \in s.ext.dpc) \in BOOLEAN
  BY <1>1 DEF ExtensionType
<1>4. Work(q, slot, s.ext.isr[slot], slot \in s.ext.dpc, s.ext.timer[slot],
           "ISR", gone)
  BY DEF Busy
<1>5. Work(u, slot, s.ext.isr[slot], slot \in s.ext.dpc, s.ext.timer[slot],
           "none", gone)
  BY <1>1, <1>3, <1>4, WorkGivesBack
<1>6. ClearReference(s, r, "ISR") = t
  BY <1>1, ClearReferenceIs
<1> HIDE DEF u
<1>7. Near(s, t, slot)
  BY <1>1, <1>2, NearPut
<1>8. t.ext = s.ext /\ t.req[r] = u
  BY <1>1, <1>2, PutFacts
<1>9. Busy(t, ab, slot, "none")
  BY <1>1, <1>5, <1>8 DEF Busy
<1> QED
  BY <1>6, <1>7, <1>9

LEMMA BusyGrabbed ==
  ASSUME NEW s \in StateType, NEW ab, NEW slot \in Slots, NEW by,
         Busy(s, ab, slot, by)
  PROVE  LET t == GrabFromIsr(s, slot)
         IN  /\ Near(s, t, slot) /\ Busy(t, ab, slot, by)
             /\ t.ext.isr[slot] = 0
<1> DEFINE r == s.ext.current[slot]
           q == s.req[r]
           left == s.ext.isr[slot]
           gone == slot = "xoff" /\ r \in ab
           dpc == slot \in s.ext.dpc
           p == [s EXCEPT !.ext.isr[slot] = 0]
           sent == IF q.kind = "write" THEN q.length - left ELSE 0
           f == [q EXCEPT !.RefCount = q.RefCount \ {"ISR"}]
           u == IF slot # "write" THEN f ELSE [f EXCEPT !.Information = sent]
           t == Put(p, r, u)
<1>1. /\ r \in Requests /\ s.ext \in ExtensionType /\ q \in RequestType
  BY StateFacts DEF Busy
<1>2. left \in Nat /\ s.ext.timer[slot] \in SUBSET {"queued", "fired"}
  BY <1>1 DEF ExtensionType
<1>3. Work(q, slot, left, dpc, s.ext.timer[slot], by, gone)
  BY DEF Busy
<1>4. CASE left = 0
  <2>1. GrabFromIsr(s, slot) = s
    BY <1>4 DEF GrabFromIsr
  <2> QED
    BY <1>4, <2>1, NearSelf
<1>5. CASE left # 0
  <2>1. q.length \in Nat /\ q.onWire \in Nat
    BY <1>1, RequestFacts
  <2>2. slot = "write" => q.onWire + left = q.length
    BY <1>2, <1>3, <1>5, WorkOnWire
  <2>3. slot = "write" /\ q.kind = "write" => sent \in Nat
    BY <1>2, <2>1, <2>2
  <2>4. /\ f \in RequestType
        /\ f.issued = q.issued /\ f.ended = q.ended /\ f.kind = q.kind
        /\ f.cancel = q.cancel /\ f.CancelRoutine = q.CancelRoutine
        /\ f.RefCount = q.RefCount \ {"ISR"} /\ f.onWire = q.onWire
        /\ f.length = q.length /\ f.Information = q.Information
    BY <1>1 DEF RequestType
  <2>5. slot = "write" => sent \in Nat
    BY <2>3
  <2> HIDE DEF f, sent
  <2>6. /\ u \in RequestType
        /\ u.issued = f.issued /\ u.ended = f.ended /\ u.kind = f.kind
        /\ u.cancel = f.cancel /\ u.CancelRoutine = f.CancelRoutine
        /\ u.RefCount = f.RefCount /\ u.onWire = f.onWire
        /\ u.length = f.length
        /\ slot = "write" => u.Information = sent
    BY <2>4, <2>5 DEF RequestType
  <2>7. slot = "write" /\ q.kind = "write" => u.Information = q.length - left
    BY <2>6 DEF sent
  <2>8. /\ Near(s, p, slot) /\ p.req = s.req
        /\ p.ext.isr[slot] = 0 /\ p.ext.timer[slot] = s.ext.timer[slot]
    BY NearIsr
  <2>9. p \in StateType /\ p.ext.current = s.ext.current /\ p.ext.dpc = s.ext.dpc
    BY <2>8 DEF Near
  <2>10. GrabFromIsr(s, slot) = t
    <3>2. ClearReference(p, r, "ISR") = Put(p, r, f)
      BY ZenonT(40), <1>1, <2>8, <2>9, ClearReferenceIs DEF f
    <3>3. GrabFromIsr(s, slot) =
            IF slot # "write" THEN Put(p, r, f)
            ELSE [Put(p, r, f) EXCEPT !.req[r].Information = sent]
      BY <1>5, <3>2 DEF GrabFromIsr, sent
    <3>4. Put(p, r, f) \in StateType /\ Put(p, r, f).req[r] = f
      <4>1. p \in StateType /\ r \in Requests /\ f \in RequestType
        BY <1>1, <2>4, <2>9
      <4> HIDE DEF p, f
      <4> QED
        BY <4>1, PutFacts
    <3>5. [Put(p, r, f) EXCEPT !.req[r].Information = sent] =
             Put(Put(p, r, f), r, [f EXCEPT !.Information = sent])
      BY <1>1, <3>4 DEF StateType, Put
    <3>6. Put(Put(p, r, f), r, [f EXCEPT !.Information = sent]) =
             Put(p, r, [f EXCEPT !.Information = sent])
      BY <1>1, <2>9, PutTwice
    <3> QED
      BY <3>3, <3>5, <3>6
  <2> HIDE DEF u, p
  <2>11. Near(p, t, slot) /\ t.ext = p.ext /\ t.req[r] = u
    <3>1. r = p.ext.current[slot] /\ p.req[r] = q
      BY <2>8, <2>9
    <3>2. u.kind = q.kind /\ u.length = q.length /\ u.onWire = q.onWire
      BY <2>4, <2>6
    <3> HIDE DEF r, q
    <3> QED
      BY ZenonT(40), <1>1, <2>6, <2>9, <3>1, <3>2, NearPut, PutFacts
  <2>12. Near(s, t, slot)
    BY <2>8, <2>11, NearTransitive
  <2>13. dpc \in BOOLEAN /\ gone \in BOOLEAN /\ left > 0
    BY <1>2, <1>5
  <2>14. Work(u, slot, 0, dpc, s.ext.timer[slot], by, gone)
    <3>1. /\ u.issued = q.issued /\ u.ended = q.ended /\ u.kind = q.kind
          /\ u.cancel = q.cancel /\ u.CancelRoutine = q.CancelRoutine
          /\ u.RefCount = q.RefCount \ {"ISR"} /\ u.onWire = q.onWire
          /\ u.length = q.length
      BY <2>4, <2>6
    <3> HIDE DEF r, q, left, gone, dpc
    <3> QED
      BY <1>1, <1>2, <1>3, <2>6, <2>7, <2>13, <3>1, WorkGrabbed
  <2>15. Busy(t, ab, slot, by) /\ t.ext.isr[slot] = 0
    BY <1>1, <2>8, <2>9, <2>11, <2>14 DEF Busy
  <2> QED
    BY <2>10, <2>12, <2>15
<1> QED
  BY <1>4, <1>5

(* All but the references and the cancel routine.                          *)
Alike(q, u) ==
  /\ u.issued = q.issued /\ u.ended = q.ended /\ u.kind = q.kind
  /\ u.onWire = q.onWire /\ u.length = q.length
  /\ u.Information = q.Information /\ u.Status = q.Status

RoutineStopped(s, t, slot, r) ==
  /\ Near(s, t, slot) /\ t.ext = s.ext
  /\ Alike(s.req[r], t.req[r])
  /\ \/ /\ t.req[r].cancel = s.req[r].cancel
        /\ t.req[r].CancelRoutine = s.req[r].CancelRoutine
     \/ t.req[r].cancel = "no"
  /\ "CANCEL" \in t.req[r].RefCount <=> t.req[r].cancel # "no"
  /\ t.req[r].RefCount \ {"CANCEL"} = s.req[r].RefCount \ {"CANCEL"}

LEMMA CancelRoutineCleared ==
  ASSUME NEW s \in StateType, NEW slot \in Slots, NEW by,
         NEW r \in Requests, r = s.ext.current[slot],
         "CANCEL" \in s.req[r].RefCount <=> s.req[r].cancel # "no"
  PROVE  RoutineStopped(s, StopCancelRoutine(s, r, by), slot, r)
<1> DEFINE t == StopCancelRoutine(s, r, by)
<1>1. s.req[r] \in RequestType
  BY StateFacts
<1> SUFFICES RoutineStopped(s, t, slot, r)
  OBVIOUS
<1> HIDE DEF t
<1>2. CASE t = s
  BY <1>2, NearSelf DEF Alike, RoutineStopped
<1>3. CASE t = Unmark(s, r)
  <2> DEFINE q == s.req[r]
             u == [q EXCEPT !.RefCount = q.RefCount \ {"CANCEL"},
                            !.cancel = "no", !.CancelRoutine = "none"]
  <2>1. t = Put(s, r, u)
    BY <1>3, UnmarkIs
  <2>2. /\ u \in RequestType /\ u.cancel = "no"
        /\ u.RefCount = q.RefCount \ {"CANCEL"} /\ Alike(q, u)
    BY <1>1 DEF RequestType, Alike
  <2> HIDE DEF u
  <2>3. u.kind = q.kind /\ u.length = q.length /\ u.onWire = q.onWire
    BY <2>2 DEF Alike
  <2>4. t.ext = s.ext /\ t.req[r] = u
    BY <2>1, <2>2, PutFacts
  <2>5. Near(s, t, slot)
    BY <2>1, <2>2, <2>3, NearPut
  <2>6. "CANCEL" \notin u.RefCount
        /\ u.RefCount \ {"CANCEL"} = q.RefCount \ {"CANCEL"}
    BY <2>2
  <2> QED
    BY <2>2, <2>4, <2>5, <2>6 DEF RoutineStopped
<1>4. t = s \/ t = Unmark(s, r)
  BY DEF t, StopCancelRoutine, SerialClearCancelRoutine
<1> QED
  BY <1>2, <1>3, <1>4

(* The timer with its reference.                                           *)
TimerStopped(s, t, slot, r) ==
  /\ Near(s, t, slot) /\ t.ext.isr = s.ext.isr
  /\ t.ext.timer[slot] = s.ext.timer[slot] \ {"queued"}
  /\ Alike(s.req[r], t.req[r])
  /\ t.req[r].cancel = s.req[r].cancel
  /\ t.req[r].CancelRoutine = s.req[r].CancelRoutine
  /\ t.req[r].RefCount = s.req[r].RefCount \ {"TOTAL_TIMER"}

LEMMA TimerCleared ==
  ASSUME NEW s \in StateType, NEW slot \in Slots, NEW r \in Requests,
         r = s.ext.current[slot]
  PROVE  TimerStopped(s, StopTimer(s, r, slot), slot, r)
<1> DEFINE t == StopTimer(s, r, slot)
           T == s.ext.timer[slot] \ {"queued"}
           p == [s EXCEPT !.ext.timer[slot] = T]
           q == s.req[r]
           u == [q EXCEPT !.RefCount = q.RefCount \ {"TOTAL_TIMER"}]
<1>1. s.ext \in ExtensionType /\ q \in RequestType
  BY StateFacts
<1>2. T \in SUBSET {"queued", "fired"}
  BY <1>1 DEF ExtensionType
<1>3. t = ClearReference(p, r, "TOTAL_TIMER")
  BY DEF StopTimer
<1> HIDE DEF T, t
<1>4. /\ Near(s, p, slot) /\ p.req = s.req
      /\ p.ext.isr = s.ext.isr /\ p.ext.timer[slot] = T
  BY <1>2, NearTimer
<1> HIDE DEF p
<1>5. p \in StateType /\ p.ext.current = s.ext.current
  BY <1>4 DEF Near
<1>6. t = Put(p, r, u)
  BY <1>3, <1>4, <1>5, ClearReferenceIs
<1>7. /\ u \in RequestType /\ Alike(q, u) /\ u.cancel = q.cancel
      /\ u.CancelRoutine = q.CancelRoutine
      /\ u.RefCount = q.RefCount \ {"TOTAL_TIMER"}
  BY <1>1 DEF RequestType, Alike
<1> HIDE DEF u
<1>8. u.kind = q.kind /\ u.length = q.length /\ u.onWire = q.onWire
  BY <1>7 DEF Alike
<1>9. Near(p, t, slot) /\ t.ext = p.ext /\ t.req[r] = u
  <2>1. r = p.ext.current[slot] /\ p.req[r] = q
    BY <1>4, <1>5
  <2> HIDE DEF q
  <2>2. t.ext = p.ext /\ t.req[r] = u
    BY <1>5, <1>6, <1>7, PutFacts
  <2>3. Near(p, Put(p, p.ext.current[slot], u), slot)
    BY <1>5, <1>7, <1>8, <2>1, NearPut
  <2> QED
    BY <1>6, <2>1, <2>2, <2>3
<1>10. Near(s, t, slot)
  BY <1>4, <1>9, NearTransitive
<1> QED
  BY <1>4, <1>7, <1>9, <1>10 DEF T, t, TimerStopped

LEMMA BusyRunDown ==
  ASSUME NEW s \in StateType, NEW ab, NEW slot \in Slots, NEW by,
         by # "ISR", Busy(s, ab, slot, by), s.ext.isr[slot] = 0
  PROVE  LET t == SerialRundownIrpRefs(s, s.ext.current[slot], slot, by)
         IN  /\ Near(s, t, slot) /\ Busy(t, ab, slot, "none")
             /\ t.ext.isr[slot] = 0
<1> DEFINE r == s.ext.current[slot]
           q == s.req[r]
           c == StopCancelRoutine(s, r, by)
           d == StopTimer(c, r, slot)
           t == SerialRundownIrpRefs(s, r, slot, by)
           timer == s.ext.timer[slot]
           dpc == slot \in s.ext.dpc
           gone == slot = "xoff" /\ r \in ab
           runs == "queued" \in timer \/ by = "TOTAL_TIMER"
<1>1. /\ r \in Requests /\ s.ext \in ExtensionType /\ q \in RequestType
      /\ dpc \in BOOLEAN /\ gone \in BOOLEAN /\ slot # "none"
  BY StateFacts DEF Busy, Slots
<1>2. Work(q, slot, 0, dpc, timer, by, gone)
  BY DEF Busy
<1>2a. "CANCEL" \in q.RefCount <=> q.cancel # "no"
  BY <1>2 DEF Work
<1> HIDE DEF r
<1>5. t = IF runs THEN d ELSE c
  BY <1>1 DEF SerialRundownIrpRefs
<1>3. r = s.ext.current[slot]
  BY DEF r
<1> HIDE DEF c, d, t
<1>4. /\ Near(s, c, slot) /\ c.ext = s.ext /\ Alike(q, c.req[r])
      /\ \/ /\ c.req[r].cancel = q.cancel
            /\ c.req[r].CancelRoutine = q.CancelRoutine
         \/ c.req[r].cancel = "no"
      /\ "CANCEL" \in c.req[r].RefCount <=> c.req[r].cancel # "no"
      /\ c.req[r].RefCount \ {"CANCEL"} = q.RefCount \ {"CANCEL"}
  <2>1. RoutineStopped(s, StopCancelRoutine(s, r, by), slot, r)
    BY <1>1, <1>2a, <1>3, CancelRoutineCleared
  <2>2. RoutineStopped(s, c, slot, r)
    BY <2>1 DEF c
  <2> QED
    BY <2>2 DEF RoutineStopped
<1>6. /\ c \in StateType /\ c.req[r] \in RequestType
      /\ r = c.ext.current[slot] /\ c.ext.timer[slot] = timer
  BY <1>1, <1>4, <1>3, StateFacts DEF Near
<1>7. /\ Near(c, d, slot) /\ d.ext.isr = c.ext.isr
      /\ d.ext.timer[slot] = timer \ {"queued"}
      /\ Alike(c.req[r], d.req[r])
      /\ d.req[r].cancel = c.req[r].cancel
      /\ d.req[r].CancelRoutine = c.req[r].CancelRoutine
      /\ d.req[r].RefCount = c.req[r].RefCount \ {"TOTAL_TIMER"}
  <2>1. TimerStopped(c, d, slot, r)
    BY <1>1, <1>6, TimerCleared DEF d
  <2> QED
    BY <1>6, <2>1 DEF TimerStopped
<1>8. /\ Near(s, t, slot) /\ t.ext.isr[slot] = 0
      /\ t.ext.timer[slot] = timer \ {"queued"}
      /\ Alike(q, t.req[r])
      /\ \/ /\ t.req[r].cancel = q.cancel
            /\ t.req[r].CancelRoutine = q.CancelRoutine
         \/ t.req[r].cancel = "no"
      /\ t.req[r].RefCount = IF runs THEN c.req[r].RefCount \ {"TOTAL_TIMER"}
                             ELSE c.req[r].RefCount
      /\ t.req[r].cancel = c.req[r].cancel
  <2>1. CASE runs
    <3>1. t = d
      BY <1>5, <2>1
    <3>2. Near(s, t, slot)
      BY <1>4, <1>7, <3>1, NearTransitive
    <3>3. Alike(q, t.req[r])
      BY <1>4, <1>7, <3>1 DEF Alike
    <3> QED
      BY <1>4, <1>7, <2>1, <3>1, <3>2, <3>3
  <2>2. CASE ~runs
    <3>1. t = c /\ timer \ {"queued"} = timer
      BY <1>5, <2>2
    <3> QED
      BY <1>4, <2>2, <3>1
  <2> QED
    BY <2>1, <2>2
<1>9. t \in StateType /\ t.req[r] \in RequestType
  BY <1>1, <1>8, StateFacts DEF Near
<1>10. /\ "CANCEL" \in t.req[r].RefCount <=> t.req[r].cancel # "no"
       /\ "ISR" \in t.req[r].RefCount <=> "ISR" \in q.RefCount
       /\ "XOFF_REF" \notin t.req[r].RefCount
       /\ "TOTAL_TIMER" \in t.req[r].RefCount <=>
            "TOTAL_TIMER" \in q.RefCount /\ ~runs
  <2>1. "XOFF_REF" \notin q.RefCount
    BY <1>2 DEF Work
  <2> HIDE DEF q, r, runs
  <2> QED
    BY <1>4, <1>8, <2>1
<1>11. Work(t.req[r], slot, 0, dpc, timer \ {"queued"}, "none", gone)
  <2>1. /\ t.req[r].issued = q.issued /\ t.req[r].ended = q.ended
        /\ t.req[r].kind = q.kind /\ t.req[r].onWire = q.onWire
        /\ t.req[r].length = q.length
        /\ t.req[r].Information = q.Information
    BY <1>8 DEF Alike
  <2>2. "TOTAL_TIMER" \in t.req[r].RefCount <=>
          /\ "TOTAL_TIMER" \in q.RefCount
          /\ "queued" \notin timer /\ by # "TOTAL_TIMER"
    BY <1>10
  <2> DEFINE u == t.req[r]
  <2> HIDE DEF u, q, dpc, timer, gone, r
  <2>3. Work(u, slot, 0, dpc, timer \ {"queued"}, "none", gone)
    BY <1>1, <1>2, <1>8, <1>9, <1>10, <2>1, <2>2, WorkRunDown DEF u
  <2> QED
    BY <2>3 DEF u
<1>12. Busy(t, ab, slot, "none")
  <2>1. /\ t.ext.current[slot] = r
        /\ (slot \in t.ext.dpc) = dpc
    BY <1>3, <1>8 DEF Near
  <2> QED
    BY <1>1, <1>8, <1>11, <2>1 DEF Busy
<1> QED
  BY <1>3, <1>8, <1>12 DEF t

LEMMA BusyAbandoned ==
  ASSUME NEW s \in StateType, NEW ab, Busy(s, ab, "xoff", "TOTAL_TIMER"),
         s.ext.isr["xoff"] = 0
  PROVE  LET r == s.ext.current["xoff"]
             t == SerialRundownIrpRefs(s, r, "none", "TOTAL_TIMER")
         IN  /\ Near(s, t, "xoff")
             /\ Busy(t, ab \cup {r}, "xoff", "none")
             /\ t.ext.isr["xoff"] = 0
<1> DEFINE slot == "xoff"
           r == s.ext.current[slot]
           q == s.req[r]
           c == StopCancelRoutine(s, r, "TOTAL_TIMER")
           timer == s.ext.timer[slot]
           dpc == slot \in s.ext.dpc
           gone == slot = "xoff" /\ r \in ab
<1>1. /\ r \in Requests /\ s.ext \in ExtensionType /\ q \in RequestType
      /\ dpc \in BOOLEAN /\ gone \in BOOLEAN /\ slot \in Slots
  BY StateFacts DEF Busy, Slots
<1>2. Work(q, slot, 0, dpc, timer, "TOTAL_TIMER", gone)
  BY DEF Busy
<1>3. /\ "CANCEL" \in q.RefCount <=> q.cancel # "no"
      /\ "XOFF_REF" \notin q.RefCount
  BY <1>2 DEF Work
<1>4. SerialRundownIrpRefs(s, r, "none", "TOTAL_TIMER") = c
  BY DEF SerialRundownIrpRefs
<1>5. /\ Near(s, c, slot) /\ c.ext = s.ext /\ Alike(q, c.req[r])
      /\ \/ /\ c.req[r].cancel = q.cancel
            /\ c.req[r].CancelRoutine = q.CancelRoutine
         \/ c.req[r].cancel = "no"
      /\ "CANCEL" \in c.req[r].RefCount <=> c.req[r].cancel # "no"
      /\ c.req[r].RefCount \ {"CANCEL"} = q.RefCount \ {"CANCEL"}
  <2>1. RoutineStopped(s, c, slot, r)
    BY <1>1, <1>3, CancelRoutineCleared
  <2> QED
    BY <2>1 DEF RoutineStopped
<1> DEFINE u == c.req[r]
<1> HIDE DEF c
<1>6. u \in RequestType
  BY <1>1, <1>5, StateFacts DEF Near
<1>7. Work(u, slot, 0, dpc, timer, "none", TRUE)
  <2>1. /\ u.issued = q.issued /\ u.ended = q.ended /\ u.kind = q.kind
        /\ u.onWire = q.onWire /\ u.length = q.length
        /\ u.Information = q.Information
    BY <1>5 DEF Alike
  <2>2. /\ "ISR" \in u.RefCount <=> "ISR" \in q.RefCount
        /\ "TOTAL_TIMER" \in u.RefCount <=> "TOTAL_TIMER" \in q.RefCount
        /\ "XOFF_REF" \notin u.RefCount
    BY <1>3, <1>5
  <2>3. /\ \/ /\ u.cancel = q.cancel
              /\ u.CancelRoutine = q.CancelRoutine
           \/ u.cancel = "no"
        /\ "CANCEL" \in u.RefCount <=> u.cancel # "no"
    BY <1>5
  <2> HIDE DEF u, q, dpc, timer, gone, r, slot
  <2> QED
    BY <1>1, <1>2, <1>6, <2>1, <2>2, <2>3, WorkAbandoned
<1>8. Busy(c, ab \cup {r}, slot, "none")
  BY <1>1, <1>5, <1>7 DEF Busy
<1> QED
  BY <1>4, <1>5, <1>8

(* A state that differs in what Work does not look at.                     *)
LEMMA BusyCancelled ==
  ASSUME NEW s \in StateType, NEW ab, NEW slot \in Slots, NEW by,
         Busy(s, ab, slot, by)
  PROVE  LET t == [s EXCEPT !.req[s.ext.current[slot]].Cancelled = TRUE]
         IN  Near(s, t, slot) /\ Busy(t, ab, slot, by) /\ t.ext = s.ext
<1> DEFINE r == s.ext.current[slot]
           q == s.req[r]
           u == [q EXCEPT !.Cancelled = TRUE]
           t == [s EXCEPT !.req[s.ext.current[slot]].Cancelled = TRUE]
<1>1. r \in Requests /\ q \in RequestType
  BY StateFacts DEF Busy
<1>2. t = Put(s, r, u)
  BY <1>1 DEF StateType, Put
<1>3. /\ u \in RequestType /\ u.issued = q.issued /\ u.ended = q.ended
      /\ u.kind = q.kind /\ u.cancel = q.cancel
      /\ u.CancelRoutine = q.CancelRoutine /\ u.RefCount = q.RefCount
      /\ u.onWire = q.onWire /\ u.length = q.length
      /\ u.Information = q.Information
  BY <1>1 DEF RequestType
<1> HIDE DEF u, t
<1>4. t.ext = s.ext /\ t.req[r] = u
  BY <1>1, <1>2, <1>3, PutFacts
<1>5. Near(s, t, slot)
  BY <1>1, <1>2, <1>3, NearPut
<1>6. Busy(t, ab, slot, by)
  <2> DEFINE left == s.ext.isr[slot]
             dpc == slot \in s.ext.dpc
             timer == s.ext.timer[slot]
             gone == slot = "xoff" /\ r \in ab
  <2>1. left \in Nat /\ dpc \in BOOLEAN /\ gone \in BOOLEAN
    BY StateFacts DEF ExtensionType
  <2>2. Work(q, slot, left, dpc, timer, by, gone)
    BY DEF Busy
  <2>3. Work(u, slot, left, dpc, timer, by, gone)
    <3> HIDE DEF left, dpc, timer, gone, q, r
    <3> QED
      BY <1>1, <1>3, <2>1, <2>2, WorkElse
  <2> QED
    BY <1>1, <1>4, <2>3 DEF Busy
<1> QED
  BY <1>4, <1>5, <1>6 DEF t

LEMMA ClearNothing ==
  ASSUME NEW s \in StateType, NEW r \in Requests, NEW ref,
         ref \notin s.req[r].RefCount
  PROVE  ClearReference(s, r, ref) = s
<1> DEFINE q == s.req[r]
<1>1. q \in RequestType
  BY StateFacts
<1>2. q.RefCount \ {ref} = q.RefCount
  OBVIOUS
<1>3. [q EXCEPT !.RefCount = q.RefCount] = q
  BY <1>1 DEF RequestType
<1>4. Put(s, r, q) = s
  BY DEF Put, StateType
<1> QED
  BY <1>2, <1>3, <1>4, ClearReferenceIs

(* The reference the caller has.                                           *)
Lent(by) == IF by \in {"ISR", "TOTAL_TIMER"} THEN by ELSE "none"

Callers == {"ISR", "CANCEL", "TOTAL_TIMER", "XOFF_REF"}

LEMMA BusyLent ==
  ASSUME NEW s, NEW ab, NEW slot, NEW by, NEW held,
         Busy(s, ab, slot, held),
         by = "ISR" <=> held = "ISR",
         by = "TOTAL_TIMER" <=> held = "TOTAL_TIMER"
  PROVE  Busy(s, ab, slot, by)
BY DEF Busy, Work

(* SerialTryToCompleteCurrent leaves the slot with what still may come.    *)
Tried(s, t, ab, slot) ==
  Near(s, t, slot) /\ Busy(t, ab, slot, "none") /\ t.ext.isr[slot] = 0

LEMMA BusyMine ==
  ASSUME NEW s \in StateType, NEW ab, NEW slot \in Slots, NEW by \in Callers,
         Busy(s, ab, slot, Lent(by))
  PROVE  LET r == s.ext.current[slot]
             t == IF by \in {"ISR", "XOFF_REF"} THEN ClearReference(s, r, by)
                  ELSE s
         IN  /\ Near(s, t, slot)
             /\ Busy(t, ab, slot, IF by = "ISR" THEN "none" ELSE by)
<1> DEFINE r == s.ext.current[slot]
<1>1. CASE by = "ISR"
  BY <1>1, BusyGivesBack DEF Lent
<1>2. CASE by = "XOFF_REF"
  <2>1. r \in Requests /\ "XOFF_REF" \notin s.req[r].RefCount
    BY DEF Busy, Work
  <2>2. ClearReference(s, r, "XOFF_REF") = s
    BY <2>1, ClearNothing
  <2>3. Busy(s, ab, slot, "XOFF_REF")
    BY <1>2, BusyLent DEF Lent
  <2> QED
    BY <1>2, <2>2, <2>3, NearSelf
<1>3. CASE by \in {"CANCEL", "TOTAL_TIMER"}
  <2>1. Busy(s, ab, slot, by)
    BY <1>3, BusyLent DEF Lent
  <2> QED
    BY <1>3, <2>1, NearSelf
<1> QED
  BY <1>1, <1>2, <1>3 DEF Callers

LEMMA TryToCompleteWorks ==
  ASSUME NEW s \in StateType, NEW ab, NEW slot \in Slots, NEW by \in Callers,
         NEW grab \in BOOLEAN, grab \/ by = "ISR", NEW status,
         NEW timer, NEW left,
         Busy(s, ab, slot, Lent(by)),
         \/ timer = slot /\ left = ab
         \/ /\ timer = "none" /\ slot = "xoff" /\ by = "TOTAL_TIMER"
            /\ left = ab \cup {s.ext.current[slot]}
  PROVE  Tried(s, TryToComplete(s, slot, grab, timer, by, status), left, slot)
<1> DEFINE r == s.ext.current[slot]
           mine == IF by \in {"ISR", "XOFF_REF"} THEN ClearReference(s, r, by)
                   ELSE s
           got == IF grab THEN GrabFromIsr(mine, slot) ELSE mine
           down == SerialRundownIrpRefs(got, r, timer, by)
           held == IF by = "ISR" THEN "none" ELSE by
           last == [down EXCEPT !.req[r].Cancelled = TRUE]
<1>1. TryToComplete(s, slot, grab, timer, by, status) =
        IF status = "CANCELLED" THEN last ELSE down
  BY DEF TryToComplete
<1>2. Near(s, mine, slot) /\ Busy(mine, ab, slot, held)
  BY BusyMine
<1> HIDE DEF mine
<1>3. mine \in StateType
  BY <1>2 DEF Near
<1>4. Near(s, got, slot) /\ Busy(got, ab, slot, held) /\ got.ext.isr[slot] = 0
  <2>1. CASE grab
    BY <1>2, <1>3, <2>1, BusyGrabbed, NearTransitive
  <2>2. CASE ~grab
    <3>1. Busy(s, ab, slot, "ISR") /\ got = mine /\ by = "ISR"
      BY <2>2 DEF Lent
    <3>2. s.ext.isr[slot] = 0
      BY <3>1 DEF Busy, Work
    <3>3. mine.ext = s.ext
      <4>1. r \in Requests
        BY DEF Busy
      <4>2. [s.req[r] EXCEPT !.RefCount = s.req[r].RefCount \ {"ISR"}]
              \in RequestType
        <5>1. s.req[r] \in RequestType
          BY <4>1, StateFacts
        <5> HIDE DEF r
        <5> QED
          BY <5>1 DEF RequestType
      <4> QED
        BY <3>1, <4>1, <4>2, ClearReferenceIs, PutFacts DEF mine
    <3> QED
      BY <1>2, <3>1, <3>2, <3>3
  <2> QED
    BY <2>1, <2>2
<1> HIDE DEF got
<1>5. got \in StateType /\ r = got.ext.current[slot]
  BY <1>4 DEF Near
<1>6. Tried(s, down, left, slot)
  <2>1. CASE timer = slot /\ left = ab
    <3>1. Busy(got, ab, slot, IF by = "ISR" THEN "none" ELSE by)
      BY <1>4
    <3>2. down = SerialRundownIrpRefs(got, r, slot, held)
      BY <2>1 DEF SerialRundownIrpRefs, StopCancelRoutine
    <3>3. Near(got, down, slot) /\ Busy(down, ab, slot, "none")
          /\ down.ext.isr[slot] = 0
      BY <1>4, <1>5, <3>2, BusyRunDown
    <3> QED
      BY <1>4, <2>1, <3>3, NearTransitive DEF Tried
  <2>2. CASE /\ timer = "none" /\ slot = "xoff" /\ by = "TOTAL_TIMER"
             /\ left = ab \cup {r}
    <3>1. Near(got, down, slot) /\ Busy(down, left, slot, "none")
          /\ down.ext.isr[slot] = 0
      BY <1>4, <1>5, <2>2, BusyAbandoned
    <3> QED
      BY <1>4, <3>1, NearTransitive DEF Tried
  <2> QED
    BY <2>1, <2>2
<1> HIDE DEF down
<1>7. Tried(s, last, left, slot)
  <2>1. down \in StateType /\ r = down.ext.current[slot]
        /\ Busy(down, left, slot, "none")
    BY <1>6 DEF Tried, Near
  <2>2. Near(down, last, slot) /\ Busy(last, left, slot, "none")
        /\ last.ext = down.ext
    BY <2>1, BusyCancelled
  <2> QED
    BY <1>6, <2>2, NearTransitive DEF Tried
<1> QED
  BY <1>1, <1>6, <1>7
-----------------------------------------------------------------------------
(***************************************************************************)
(* A step that works on one slot and on its request.                       *)
(***************************************************************************)
Modes == {"steady", "due", "start", "ISR", "TOTAL_TIMER"}

Beside(s, u, slot) ==
  LET r == s.ext.current[slot]
  IN  /\ u \in StateType
      /\ \A x \in Requests : x # r => u.req[x] = s.req[x]
      /\ u.req[r].kind = s.req[r].kind
      /\ u.req[r].length = s.req[r].length
      /\ u.ext.WriteQueue = s.ext.WriteQueue
      /\ u.ext.stopped = s.ext.stopped
      /\ u.ext.Timeouts = s.ext.Timeouts
      /\ \A i \in Slots : i # slot =>
           /\ u.ext.current[i] = s.ext.current[i]
           /\ u.ext.isr[i] = s.ext.isr[i]
           /\ u.ext.timer[i] = s.ext.timer[i]
           /\ i \in u.ext.dpc <=> i \in s.ext.dpc

LEMMA NearBeside ==
  ASSUME NEW s, NEW t, NEW slot, Near(s, t, slot)
  PROVE  Beside(s, t, slot)
BY DEF Near, Beside

LEMMA SlotSame ==
  ASSUME NEW s, NEW ab, NEW t, NEW left, NEW i, NEW mode,
         SlotOk(s, ab, i, mode),
         t.ext.current[i] = s.ext.current[i],
         t.ext.isr[i] = s.ext.isr[i], t.ext.timer[i] = s.ext.timer[i],
         i \in t.ext.dpc <=> i \in s.ext.dpc,
         s.ext.current[i] \in Requests =>
           t.req[s.ext.current[i]] = s.req[s.ext.current[i]],
         i = "xoff" => left = ab
  PROVE  SlotOk(t, left, i, mode)
<1> DEFINE r == s.ext.current[i]
<1>1. (i \in t.ext.dpc) = (i \in s.ext.dpc)
  OBVIOUS
<1>2. (i = "xoff" /\ r \in left) = (i = "xoff" /\ r \in ab)
  OBVIOUS
<1>3. \A by : Busy(s, ab, i, by) => Busy(t, left, i, by)
  <2> SUFFICES ASSUME NEW by, Busy(s, ab, i, by)
               PROVE  Busy(t, left, i, by)
    OBVIOUS
  <2>1. r \in Requests /\ t.req[r] = s.req[r]
    BY DEF Busy
  <2>2. Work(s.req[r], i, s.ext.isr[i], i \in s.ext.dpc, s.ext.timer[i],
             by, i = "xoff" /\ r \in ab)
    BY DEF Busy
  <2>3. Work(t.req[r], i, t.ext.isr[i], i \in t.ext.dpc, t.ext.timer[i],
             by, i = "xoff" /\ r \in left)
    BY <1>1, <1>2, <2>1, <2>2
  <2> QED
    BY <2>1, <2>3 DEF Busy
<1>4. Silent(s, i) => Silent(t, i)
  BY DEF Silent
<1>5. CASE mode = "start"
  BY <1>4, <1>5 DEF SlotOk
<1>6. CASE mode = "steady"
  <2>1. CASE r = NoRequest /\ Silent(s, i)
    BY <1>4, <1>6, <2>1 DEF SlotOk
  <2>2. CASE Busy(s, ab, i, "none") /\ s.req[r].RefCount # {}
    <3>1. r \in Requests
      BY <2>2 DEF Busy
    <3> QED
      BY <1>3, <1>6, <2>2, <3>1 DEF SlotOk
  <2> QED
    BY <1>6, <2>1, <2>2 DEF SlotOk
<1>7. CASE mode # "start" /\ mode # "steady"
  BY <1>3, <1>7 DEF SlotOk
<1> QED
  BY <1>5, <1>6, <1>7

(* What one slot does leaves the rest as it was.                           *)
LEMMA BesideWhole ==
  ASSUME NEW s, NEW ab, NEW m \in [Slots -> Modes], Whole(s, ab, m),
         NEW u, NEW left, NEW slot \in Slots, NEW mode \in Modes,
         Beside(s, u, slot), SlotOk(u, left, slot, mode), Owed(u, left),
         slot = "xoff" \/ left = ab,
         s.ext.current[slot] \in Requests,
         \/ u.ext.current[slot] = s.ext.current[slot]
         \/ /\ u.ext.current[slot] = NoRequest
            /\ Done(u.req[s.ext.current[slot]])
  PROVE  Whole(u, left, [m EXCEPT ![slot] = mode])
<1> DEFINE r == s.ext.current[slot]
<1>1. u \in StateType /\ s \in StateType
  BY DEF Beside, Whole
<1>2. Shape(u)
  <2>1. \A x \in Requests : /\ u.req[x].kind = s.req[x].kind
                            /\ u.req[x].length = s.req[x].length
    BY DEF Beside
  <2> QED
    BY <2>1 DEF Whole, Shape, IsXoff
<1>3. NoRequest \notin Requests
  BY SerialAssumption
<1>4. \A i \in Slots : i # slot => s.ext.current[i] # r
  BY <1>3 DEF Whole, Apart
<1>5. Apart(u)
  BY <1>3 DEF Whole, Apart, Beside
<1>6. Once(u)
  BY DEF Whole, Once, Beside
<1>7. ASSUME NEW i \in Slots
      PROVE  SlotOk(u, left, i, [m EXCEPT ![slot] = mode][i])
  <2>1. CASE i = slot
    BY <2>1
  <2>2. CASE i # slot
    <3>1. SlotOk(s, ab, i, m[i])
      BY DEF Whole
    <3>2. /\ u.ext.current[i] = s.ext.current[i]
          /\ u.ext.isr[i] = s.ext.isr[i] /\ u.ext.timer[i] = s.ext.timer[i]
          /\ i \in u.ext.dpc <=> i \in s.ext.dpc
      BY <2>2 DEF Beside
    <3>3. s.ext.current[i] \in Requests =>
            u.req[s.ext.current[i]] = s.req[s.ext.current[i]]
      BY <1>4, <2>2 DEF Beside
    <3>4. i = "xoff" => left = ab
      BY <2>2
    <3>5. SlotOk(u, left, i, m[i])
      BY <3>1, <3>2, <3>3, <3>4, SlotSame
    <3> QED
      BY <2>2, <3>5
  <2> QED
    BY <2>1, <2>2
<1>8. ASSUME NEW x \in Requests
      PROVE  Placed(u, x)
  <2>1. Placed(s, x)
    BY DEF Whole
  <2>2. Waits(u, x) <=> Waits(s, x)
    BY DEF Waits, Beside
  <2>3. CASE x = r
    <3>1. Current(s, x) /\ ~Waits(s, x)
      BY <2>1, <2>3 DEF Current, Placed
    <3>2. CASE u.ext.current[slot] = r
      <4>1. Current(u, x)
        BY <2>3, <3>2 DEF Current
      <4> QED
        BY <2>2, <3>1, <4>1 DEF Placed
    <3>3. CASE u.ext.current[slot] = NoRequest /\ Done(u.req[r])
      <4>1. ~Current(u, x)
        BY <1>3, <1>4, <2>3, <3>3 DEF Current, Beside
      <4> QED
        BY <2>2, <2>3, <3>1, <3>3, <4>1 DEF Placed
    <3> QED
      BY <3>2, <3>3
  <2>4. CASE x # r
    <3>1. u.req[x] = s.req[x]
      BY <2>4 DEF Beside
    <3>2. Current(u, x) <=> Current(s, x)
      BY <1>3, <2>4 DEF Current, Beside
    <3> QED
      BY <2>1, <2>2, <3>1, <3>2 DEF Placed
  <2> QED
    BY <2>3, <2>4
<1> QED
  BY <1>1, <1>2, <1>5, <1>6, <1>7, <1>8 DEF Whole
-----------------------------------------------------------------------------
(***************************************************************************)
(* Completion.                                                             *)
(***************************************************************************)
(* What the application is told when q becomes u.                          *)
Judged(q, u, status) ==
  /\ u \in RequestType
  /\ u.kind = q.kind /\ u.length = q.length /\ u.onWire = q.onWire
  /\ u.issued = q.issued /\ u.RefCount = q.RefCount /\ u.cancel = q.cancel
  /\ u.CancelRoutine = q.CancelRoutine /\ u.Cancelled = q.Cancelled
  /\ u.Status = status
  /\ u.Information = IF status = "CANCELLED" THEN 0 ELSE q.Information

LEMMA VerdictIs ==
  ASSUME NEW s \in StateType, NEW slot \in Slots, NEW status \in Statuses,
         NEW r \in Requests, r = s.ext.current[slot]
  PROVE  \E u \in RequestType :
           /\ Verdict(s, slot, status) = Put(s, r, u)
           /\ Judged(s.req[r], u, status) /\ u.ended = s.req[r].ended
<1> DEFINE q == s.req[r]
<1>1. q \in RequestType
  BY StateFacts
<1>2. CASE status = "CANCELLED"
  <2> DEFINE u == [q EXCEPT !.Status = status, !.Information = 0]
  <2>1. /\ u \in RequestType /\ Judged(q, u, status) /\ u.ended = q.ended
    BY <1>1, <1>2 DEF RequestType, Judged
  <2>2. Verdict(s, slot, status) = Put(s, r, u)
    BY <1>2 DEF Verdict, Put, StateType
  <2> QED
    BY <2>1, <2>2
<1>3. CASE status # "CANCELLED"
  <2> DEFINE u == [q EXCEPT !.Status = status]
  <2>1. /\ u \in RequestType /\ Judged(q, u, status) /\ u.ended = q.ended
    BY <1>1, <1>3 DEF RequestType, Judged
  <2>2. Verdict(s, slot, status) = Put(s, r, u)
    BY <1>3 DEF Verdict, Put, StateType
  <2> QED
    BY <2>1, <2>2
<1> QED
  BY <1>2, <1>3

(* A request is completed with a status.                                   *)
Ended(s, t, r, status) ==
  /\ t \in StateType
  /\ \A x \in Requests : x # r => t.req[x] = s.req[x]
  /\ t.req[r] = [s.req[r] EXCEPT !.ended = s.req[r].ended + 1,
                                 !.Status = status]
  /\ t.ext = [s.ext EXCEPT !.delivered = s.ext.delivered \ {r}]

LEMMA SerialCompleteRequestEnds ==
  ASSUME NEW s \in StateType, NEW r \in Requests, NEW status \in Statuses
  PROVE  Ended(s, SerialCompleteRequest(s, r, status), r, status)
<1> DEFINE q == s.req[r]
           n == q.ended + 1
           u == [q EXCEPT !.ended = n, !.Status = status]
           e == [s.ext EXCEPT !.delivered = s.ext.delivered \ {r}]
           t == SerialCompleteRequest(s, r, status)
<1>1. q \in RequestType /\ s.ext \in ExtensionType /\ n \in Nat
  BY StateFacts, RequestFacts
<1>2. u \in RequestType
  <2> HIDE DEF n
  <2> QED
    BY <1>1 DEF RequestType
<1>3. e \in ExtensionType
  BY <1>1 DEF ExtensionType
<1>4. t = [s EXCEPT !.req[r] = u, !.ext.delivered = @ \ {r}]
  BY DEF SerialCompleteRequest
<1> HIDE DEF u, t
<1>5. t.req = [s.req EXCEPT ![r] = u] /\ t.ext = e /\ t \in StateType
  <2>1. t.req = [s.req EXCEPT ![r] = u] /\ t.ext = e
    BY <1>1, <1>4 DEF StateType, ExtensionType
  <2>2. DOMAIN t = {"req", "ext"} /\ t = [req |-> t.req, ext |-> t.ext]
    BY <1>4 DEF StateType
  <2> HIDE DEF e
  <2> QED
    BY <1>2, <1>3, <2>1, <2>2 DEF StateType
<1>6. t.req[r] = u /\ \A x \in Requests : x # r => t.req[x] = s.req[x]
  BY <1>5 DEF StateType
<1> QED
  BY <1>5, <1>6 DEF Ended, t, u, e

Completed(s, u, slot, status) ==
  LET r == s.ext.current[slot]
  IN  /\ Beside(s, u, slot) /\ Judged(s.req[r], u.req[r], status)
      /\ u.req[r].ended = s.req[r].ended + 1
      /\ u.ext.current[slot] = NoRequest
      /\ u.ext.isr[slot] = s.ext.isr[slot]
      /\ u.ext.timer[slot] = s.ext.timer[slot]
      /\ u.ext.dpc = s.ext.dpc
      /\ u.ext.TotalCharsQueued = s.ext.TotalCharsQueued

LEMMA CompleteSlotWorks ==
  ASSUME NEW s \in StateType, NEW slot \in Slots, NEW status \in Statuses,
         s.ext.current[slot] \in Requests
  PROVE  Completed(s, CompleteSlot(s, slot, status), slot, status)
<1> DEFINE r == s.ext.current[slot]
           v == Verdict(s, slot, status)
           f == [s.ext EXCEPT !.current = [s.ext.current EXCEPT
                                             ![slot] = NoRequest]]
           w == [v EXCEPT !.ext.current[slot] = NoRequest]
<1>1. PICK q \in RequestType : /\ v = Put(s, r, q)
                               /\ Judged(s.req[r], q, status)
                               /\ q.ended = s.req[r].ended
  BY VerdictIs
<1>2. s.ext \in ExtensionType
  BY StateFacts
<1>3. f \in ExtensionType
  BY <1>2 DEF ExtensionType
<1>4. v \in StateType /\ v.ext = s.ext /\ v.req[r] = q
      /\ \A x \in Requests : x # r => v.req[x] = s.req[x]
  BY <1>1, PutFacts
<1> HIDE DEF v
<1>5. w = PutExt(v, f)
  BY <1>2, <1>4 DEF StateType, PutExt
<1> HIDE DEF f, w
<1>6. w \in StateType /\ w.ext = f /\ w.req = v.req
  BY <1>3, <1>4, <1>5, PutExtFacts
<1>7. CompleteSlot(s, slot, status) = SerialCompleteRequest(w, r, status)
  BY DEF CompleteSlot, v, w
<1> DEFINE t == SerialCompleteRequest(w, r, status)
           e == t.ext
           u == t.req[r]
<1>8. Ended(w, t, r, status)
  BY <1>6, SerialCompleteRequestEnds
<1> HIDE DEF t
<1>9. /\ t \in StateType /\ e = [f EXCEPT !.delivered = f.delivered \ {r}]
      /\ u = [q EXCEPT !.ended = q.ended + 1, !.Status = status]
      /\ \A x \in Requests : x # r => t.req[x] = s.req[x]
  BY <1>4, <1>6, <1>8 DEF Ended
<1>10. u \in RequestType
  BY <1>9, StateFacts
<1>12. Judged(s.req[r], u, status) /\ u.ended = s.req[r].ended + 1
  <2>1. /\ u.kind = q.kind /\ u.length = q.length /\ u.onWire = q.onWire
        /\ u.issued = q.issued /\ u.RefCount = q.RefCount
        /\ u.cancel = q.cancel /\ u.Information = q.Information
        /\ u.CancelRoutine = q.CancelRoutine /\ u.Cancelled = q.Cancelled
        /\ u.Status = status /\ u.ended = q.ended + 1
    BY <1>9 DEF RequestType
  <2> HIDE DEF u
  <2> QED
    BY <1>1, <1>10, <2>1 DEF Judged
<1>13. /\ e.current = [s.ext.current EXCEPT ![slot] = NoRequest]
       /\ e.WriteQueue = s.ext.WriteQueue /\ e.stopped = s.ext.stopped
       /\ e.isr = s.ext.isr /\ e.timer = s.ext.timer /\ e.dpc = s.ext.dpc
       /\ e.TotalCharsQueued = s.ext.TotalCharsQueued
       /\ e.Timeouts = s.ext.Timeouts
  BY <1>2, <1>3, <1>9 DEF ExtensionType, f
<1>14. /\ e.current[slot] = NoRequest
       /\ \A i \in Slots : i # slot => e.current[i] = s.ext.current[i]
  BY <1>2, <1>13 DEF ExtensionType
<1>15. Beside(s, t, slot)
  BY <1>9, <1>12, <1>13, <1>14 DEF Beside, Judged
<1>16. Completed(s, t, slot, status)
  BY <1>12, <1>13, <1>14, <1>15 DEF Completed
<1> QED
  BY <1>7, <1>16 DEF t

(* SUCCESS and MORE_WRITES are only for what was sent.                     *)
Earned(s, slot, status) ==
  LET q == s.req[s.ext.current[slot]]
  IN  status \in {"SUCCESS", "MORE_WRITES"} => q.onWire = q.length

LEMMA TriedWhole ==
  ASSUME NEW s, NEW ab, NEW m \in [Slots -> Modes], Whole(s, ab, m),
         NEW slot \in Slots, NEW t, NEW left, Tried(s, t, left, slot),
         s.ext.current[slot] \in Requests,
         left = ab \/ (slot = "xoff" /\ left = ab \cup {s.ext.current[slot]})
  PROVE  Whole(t, left, [m EXCEPT ![slot] = "due"])
<1>1. Beside(s, t, slot) /\ t.ext.current = s.ext.current
  BY NearBeside DEF Tried, Near
<1>2. SlotOk(t, left, slot, "due")
  BY DEF Tried, SlotOk
<1>3. Owed(t, left)
  BY <1>1 DEF Whole, Owed
<1>4. slot = "xoff" \/ left = ab
  OBVIOUS
<1>5. "due" \in Modes
  BY DEF Modes
<1> QED
  BY <1>1, <1>2, <1>3, <1>4, <1>5, BesideWhole

LEMMA BusyModes ==
  ASSUME NEW s, NEW ab, NEW m, Whole(s, ab, m), NEW slot \in Slots,
         m[slot] \in {"due", "ISR", "TOTAL_TIMER"}
  PROVE  /\ s.ext.current[slot] \in Requests
         /\ Busy(s, ab, slot, IF m[slot] = "due" THEN "none" ELSE m[slot])
BY DEF Whole, SlotOk, Busy

(* Somebody will still come.                                               *)
LEMMA Unsettled ==
  ASSUME NEW s, NEW ab, NEW m \in [Slots -> Modes], Whole(s, ab, m),
         NEW slot \in Slots, m[slot] = "due", ~Settled(s, slot)
  PROVE  Whole(s, ab, [m EXCEPT ![slot] = "steady"])
<1> DEFINE n == [m EXCEPT ![slot] = "steady"]
<1>1. Busy(s, ab, slot, "none") /\ s.req[s.ext.current[slot]].RefCount # {}
  BY BusyModes DEF Settled
<1>2. SlotOk(s, ab, slot, "steady")
  BY <1>1 DEF SlotOk
<1>3. \A i \in Slots : SlotOk(s, ab, i, n[i])
  BY <1>2 DEF Whole
<1> HIDE DEF n
<1>4. Whole(s, ab, n)
  BY <1>3 DEF Whole
<1> QED
  BY <1>4 DEF n

(* Nobody will.                                                            *)
AllSent(s, ab, slot) ==
  LET q == s.req[s.ext.current[slot]]
  IN  /\ Silent(s, slot)
      /\ slot = "xoff" => s.ext.current[slot] \notin ab
      /\ q.issued /\ q.ended = 0 /\ q.RefCount = {} /\ q.cancel = "no"
      /\ Fits(q.kind, slot)
      /\ slot = "xoff" => q.onWire = q.length
      /\ q.kind = "write" => q.Information = q.onWire

LEMMA SettledIsSilent ==
  ASSUME NEW s \in StateType, NEW ab, NEW slot \in Slots,
         Busy(s, ab, slot, "none"), Settled(s, slot)
  PROVE  AllSent(s, ab, slot)
<1> DEFINE r == s.ext.current[slot]
           q == s.req[r]
           left == s.ext.isr[slot]
           dpc == slot \in s.ext.dpc
           timer == s.ext.timer[slot]
           gone == slot = "xoff" /\ r \in ab
<1>1. Work(q, slot, left, dpc, timer, "none", gone) /\ q.RefCount = {}
  BY DEF Busy, Settled
<1>2. left \in Nat
  BY StateFacts DEF ExtensionType
<1>3. left = 0 /\ ~dpc /\ timer = {} /\ ~gone
  <2> HIDE DEF left, dpc, timer, gone, q
  <2> QED
    BY <1>1, <1>2 DEF Work
<1>4. Silent(s, slot)
  BY <1>3 DEF Silent
<1>5. q.kind = "write" => slot = "write"
  BY <1>1 DEF Work, Fits, XoffKinds, Slots
<1>6. /\ q.issued /\ q.ended = 0 /\ q.cancel = "no" /\ Fits(q.kind, slot)
      /\ slot = "xoff" => q.onWire = q.length
      /\ q.kind = "write" => q.Information = q.onWire
  <2> HIDE DEF left, dpc, timer, gone, q
  <2> QED
    BY <1>1, <1>3, <1>5 DEF Work
<1>7. slot = "xoff" => r \notin ab
  BY <1>3
<1> QED
  BY <1>1, <1>4, <1>6, <1>7 DEF AllSent

LEMMA SettledEnds ==
  ASSUME NEW s, NEW ab, NEW m \in [Slots -> Modes], Whole(s, ab, m),
         NEW slot \in Slots, m[slot] = "due", Settled(s, slot),
         NEW status, Earned(s, slot, status),
         NEW u, Completed(s, u, slot, status)
  PROVE  Whole(u, ab, [m EXCEPT ![slot] = "steady"])
<1> DEFINE r == s.ext.current[slot]
           q == s.req[r]
<1>1. r \in Requests /\ Busy(s, ab, slot, "none") /\ s \in StateType
  BY BusyModes DEF Whole
<1>2. /\ Silent(s, slot) /\ (slot = "xoff" => r \notin ab)
      /\ q.issued /\ q.ended = 0 /\ q.RefCount = {} /\ q.cancel = "no"
      /\ q.kind = "write" => q.Information = q.onWire
  <2>1. AllSent(s, ab, slot)
    BY <1>1, SettledIsSilent
  <2> QED
    BY <2>1 DEF AllSent
<1>3. Done(u.req[r])
  <2> DEFINE v == u.req[r]
  <2>1. Judged(q, v, status) /\ v.ended = q.ended + 1
    BY DEF Completed
  <2>2. status \in {"SUCCESS", "MORE_WRITES"} => q.onWire = q.length
    BY DEF Earned
  <2> HIDE DEF q, v
  <2>3. v.ended = 1 /\ v.Information =
                         IF status = "CANCELLED" THEN 0 ELSE q.Information
    BY <1>2, <2>1 DEF Judged
  <2>4. Done(v)
    BY <1>2, <2>1, <2>2, <2>3 DEF Judged, Done
  <2> QED
    BY <2>4 DEF v
<1>4. SlotOk(u, ab, slot, "steady")
  BY <1>2 DEF Completed, SlotOk, Silent
<1>5. Owed(u, ab)
  BY ZenonT(40), <1>2 DEF Owed, Whole, Completed, Beside, Slots
<1>6. "steady" \in Modes
  BY DEF Modes
<1>7. Beside(s, u, slot) /\ u.ext.current[slot] = NoRequest
  BY DEF Completed
<1> QED
  BY <1>1, <1>3, <1>4, <1>5, <1>6, <1>7, BesideWhole
-----------------------------------------------------------------------------
(***************************************************************************)
(* The ends of XOFF counters and immediate characters.                     *)
(***************************************************************************)
Mode(by) == IF by \in {"ISR", "TOTAL_TIMER"} THEN by ELSE "due"

LEMMA BesideTransitive ==
  ASSUME NEW s, NEW t, NEW u, NEW slot, Beside(s, t, slot),
         t.ext.current[slot] = s.ext.current[slot], Beside(t, u, slot)
  PROVE  Beside(s, u, slot)
<1> DEFINE r == s.ext.current[slot]
<1>1. u \in StateType /\ t.ext.current[slot] = r
  BY DEF Beside
<1>2. /\ \A x \in Requests : x # r => t.req[x] = s.req[x]
      /\ t.req[r].kind = s.req[r].kind /\ t.req[r].length = s.req[r].length
  BY DEF Beside
<1>3. /\ \A x \in Requests : x # r => u.req[x] = t.req[x]
      /\ u.req[r].kind = t.req[r].kind /\ u.req[r].length = t.req[r].length
  BY <1>1 DEF Beside
<1>4. /\ u.ext.WriteQueue = s.ext.WriteQueue
      /\ u.ext.stopped = s.ext.stopped
      /\ u.ext.Timeouts = s.ext.Timeouts
  BY DEF Beside
<1>5. ASSUME NEW i \in Slots, i # slot
      PROVE  /\ u.ext.current[i] = s.ext.current[i]
             /\ u.ext.isr[i] = s.ext.isr[i]
             /\ u.ext.timer[i] = s.ext.timer[i]
             /\ i \in u.ext.dpc <=> i \in s.ext.dpc
  BY <1>5 DEF Beside
<1> HIDE DEF r
<1>6. /\ \A x \in Requests : x # r => u.req[x] = s.req[x]
      /\ u.req[r].kind = s.req[r].kind /\ u.req[r].length = s.req[r].length
  BY <1>2, <1>3
<1> QED
  BY <1>1, <1>4, <1>5, <1>6 DEF Beside, r

LEMMA TriedEarned ==
  ASSUME NEW s, NEW ab, NEW slot, NEW by, Busy(s, ab, slot, Lent(by)),
         NEW t, NEW left, Tried(s, t, left, slot), NEW status,
         status \in {"SUCCESS", "MORE_WRITES"} => by = "ISR" \/ slot = "xoff"
  PROVE  Earned(t, slot, status)
<1> DEFINE r == s.ext.current[slot]
<1>1. t.ext.current[slot] = r /\ t.req[r].onWire = s.req[r].onWire
      /\ t.req[r].length = s.req[r].length
  BY DEF Tried, Near
<1>2. by = "ISR" \/ slot = "xoff" => s.req[r].onWire = s.req[r].length
  BY DEF Busy, Work, Lent
<1> QED
  BY <1>1, <1>2 DEF Earned

(* Changes that none of the parts of the invariant looks at.               *)
Stands(s, u) ==
  /\ u \in StateType /\ u.req = s.req
  /\ u.ext.current = s.ext.current /\ u.ext.WriteQueue = s.ext.WriteQueue
  /\ u.ext.isr = s.ext.isr /\ u.ext.timer = s.ext.timer
  /\ u.ext.dpc = s.ext.dpc /\ u.ext.Timeouts = s.ext.Timeouts

LEMMA StandsWhole ==
  ASSUME NEW s, NEW ab, NEW m, Whole(s, ab, m), NEW u, Stands(s, u)
  PROVE  Whole(u, ab, m)
<1>1. \A i \in Slots : SlotOk(u, ab, i, m[i])
  <2> TAKE i \in Slots
  <2>1. SlotOk(s, ab, i, m[i])
    BY DEF Whole
  <2> QED
    BY <2>1, SlotSame DEF Stands
<1>2. \A r \in Requests : Placed(u, r)
  BY DEF Whole, Stands, Placed, Current, Waits
<1>3. Shape(u) /\ Apart(u) /\ Once(u) /\ Owed(u, ab)
  BY DEF Whole, Stands, Shape, Apart, Once, Owed
<1> QED
  BY <1>1, <1>2, <1>3 DEF Whole, Stands

LEMMA TotalStands ==
  ASSUME NEW s \in StateType, NEW n \in Int
  PROVE  LET u == [s EXCEPT !.ext.TotalCharsQueued = n]
         IN  /\ Stands(s, u) /\ u.ext.TotalCharsQueued = n
             /\ u.ext.stopped = s.ext.stopped
             /\ u.ext.delivered = s.ext.delivered
<1> DEFINE e == [s.ext EXCEPT !.TotalCharsQueued = n]
           u == [s EXCEPT !.ext.TotalCharsQueued = n]
<1>1. s.ext \in ExtensionType
  BY StateFacts
<1>2. e \in ExtensionType
  BY <1>1 DEF ExtensionType
<1>3. u = PutExt(s, e)
  BY DEF PutExt, StateType
<1> HIDE DEF u
<1>4. u \in StateType /\ u.ext = e /\ u.req = s.req
  BY <1>2, <1>3, PutExtFacts
<1>5. /\ Stands(s, u) /\ u.ext.TotalCharsQueued = n
      /\ u.ext.stopped = s.ext.stopped
      /\ u.ext.delivered = s.ext.delivered
  BY <1>1, <1>4 DEF Stands, ExtensionType
<1> QED
  BY <1>5 DEF u

LEMMA StandsBeside ==
  ASSUME NEW s, NEW u, NEW slot, Stands(s, u),
         u.ext.stopped = s.ext.stopped
  PROVE  Beside(s, u, slot)
BY DEF Stands, Beside

(* The timer that is named, and who is abandoned if none is.               *)
Names(s, slot, by, timer, ab, left) ==
  \/ timer = slot /\ left = ab
  \/ /\ timer = "none" /\ slot = "xoff" /\ by = "TOTAL_TIMER"
     /\ left = ab \cup {s.ext.current[slot]}

(* From the caller's reference to a steady slot, or to one that can end.   *)
Tries(s, t, slot, m, left, status) ==
  /\ t \in StateType /\ t.ext.current = s.ext.current
  /\ t.ext.current[slot] \in Requests
  /\ t.ext.TotalCharsQueued = s.ext.TotalCharsQueued
  /\ Beside(s, t, slot) /\ Earned(t, slot, status)
  /\ Whole(t, left, [m EXCEPT ![slot] = "due"])
  /\ ~Settled(t, slot) => Whole(t, left, [m EXCEPT ![slot] = "steady"])

LEMMA EndsWhole ==
  ASSUME NEW s, NEW ab, NEW m \in [Slots -> Modes], Whole(s, ab, m),
         NEW slot \in Slots, NEW by \in Callers, m[slot] = Mode(by),
         NEW grab \in BOOLEAN, grab \/ by = "ISR",
         NEW status \in Statuses,
         status \in {"SUCCESS", "MORE_WRITES"} => by = "ISR" \/ slot = "xoff",
         NEW timer, NEW left, Names(s, slot, by, timer, ab, left)
  PROVE  Tries(s, TryToComplete(s, slot, grab, timer, by, status), slot, m,
               left, status)
<1> DEFINE t == TryToComplete(s, slot, grab, timer, by, status)
<1> HIDE DEF t
<1>1. /\ s \in StateType /\ s.ext.current[slot] \in Requests
      /\ Busy(s, ab, slot, Lent(by))
  BY BusyModes DEF Whole, Mode, Lent
<1>2. Tried(s, t, left, slot)
  BY <1>1, TryToCompleteWorks DEF t, Names
<1>3. /\ Whole(t, left, [m EXCEPT ![slot] = "due"])
      /\ t.ext.current = s.ext.current /\ Beside(s, t, slot)
      /\ t.ext.TotalCharsQueued = s.ext.TotalCharsQueued
  <2>1. left = ab \/ (slot = "xoff" /\ left = ab \cup {s.ext.current[slot]})
    BY DEF Names
  <2>2. Whole(t, left, [m EXCEPT ![slot] = "due"])
    BY <1>1, <1>2, <2>1, TriedWhole
  <2> QED
    BY <1>2, <2>2, NearBeside DEF Tried, Near
<1>4. Earned(t, slot, status)
  BY <1>1, <1>2, TriedEarned
<1>5. ~Settled(t, slot) => Whole(t, left, [m EXCEPT ![slot] = "steady"])
  <2> DEFINE n == [m EXCEPT ![slot] = "due"]
  <2>1. n \in [Slots -> Modes] /\ n[slot] = "due"
    BY DEF Modes
  <2>2. [n EXCEPT ![slot] = "steady"] = [m EXCEPT ![slot] = "steady"]
    OBVIOUS
  <2>3. Whole(t, left, n)
    BY <1>3
  <2> HIDE DEF n
  <2> QED
    BY <2>1, <2>2, <2>3, Unsettled
<1> QED
  BY <1>1, <1>3, <1>4, <1>5 DEF Whole, Tries, t

LEMMA CompletesWhole ==
  ASSUME NEW t, NEW left, NEW m \in [Slots -> Modes], NEW slot \in Slots,
         Whole(t, left, [m EXCEPT ![slot] = "due"]), Settled(t, slot),
         NEW status \in Statuses, Earned(t, slot, status),
         t.ext.current[slot] \in Requests,
         NEW u, u = CompleteSlot(t, slot, status)
  PROVE  /\ Whole(u, left, [m EXCEPT ![slot] = "steady"])
         /\ Completed(t, u, slot, status)
<1> DEFINE n == [m EXCEPT ![slot] = "due"]
<1>1. t \in StateType
  BY DEF Whole
<1>2. Completed(t, u, slot, status)
  BY <1>1, CompleteSlotWorks
<1>3. n \in [Slots -> Modes] /\ n[slot] = "due" /\ Whole(t, left, n)
  BY DEF Modes
<1>4. [n EXCEPT ![slot] = "steady"] = [m EXCEPT ![slot] = "steady"]
  OBVIOUS
<1> HIDE DEF n
<1>5. Whole(u, left, [n EXCEPT ![slot] = "steady"])
  BY <1>2, <1>3, SettledEnds
<1> QED
  BY <1>2, <1>4, <1>5

XoffEnded(s, u, left, m) ==
  /\ Whole(u, left, [m EXCEPT !["xoff"] = "steady"])
  /\ Beside(s, u, "xoff")
  /\ u.ext.TotalCharsQueued = s.ext.TotalCharsQueued

LEMMA EndXoffWhole ==
  ASSUME NEW s, NEW ab, NEW m \in [Slots -> Modes], Whole(s, ab, m),
         NEW by \in Callers, m["xoff"] = Mode(by),
         NEW grab \in BOOLEAN, grab \/ by = "ISR",
         NEW status \in Statuses, NEW timer, NEW left,
         Names(s, "xoff", by, timer, ab, left)
  PROVE  XoffEnded(s, EndXoff(s, grab, timer, by, status), left, m)
<1> DEFINE t == TryToComplete(s, "xoff", grab, timer, by, status)
           v == CompleteSlot(t, "xoff", status)
           u == EndXoff(s, grab, timer, by, status)
<1>1. "xoff" \in Slots
  BY DEF Slots
<1>2. u = IF Settled(t, "xoff") THEN v ELSE t
  BY DEF EndXoff
<1> SUFFICES XoffEnded(s, u, left, m)
  OBVIOUS
<1> HIDE DEF t, u
<1>3. /\ t \in StateType /\ t.ext.current = s.ext.current
      /\ t.ext.current["xoff"] \in Requests
      /\ t.ext.TotalCharsQueued = s.ext.TotalCharsQueued
      /\ Beside(s, t, "xoff") /\ Earned(t, "xoff", status)
      /\ Whole(t, left, [m EXCEPT !["xoff"] = "due"])
      /\ ~Settled(t, "xoff") => Whole(t, left, [m EXCEPT !["xoff"] = "steady"])
  <2>1. Tries(s, t, "xoff", m, left, status)
    BY <1>1, EndsWhole DEF t
  <2> QED
    BY <2>1 DEF Tries
<1>4. CASE Settled(t, "xoff")
  <2>1. /\ Whole(v, left, [m EXCEPT !["xoff"] = "steady"])
        /\ Completed(t, v, "xoff", status)
    BY <1>1, <1>3, <1>4, CompletesWhole
  <2>2. Beside(t, v, "xoff")
        /\ v.ext.TotalCharsQueued = t.ext.TotalCharsQueued
    BY <2>1 DEF Completed
  <2>3. Beside(s, v, "xoff")
    BY <1>3, <2>2, BesideTransitive
  <2> QED
    <3>1. u = v /\ v.ext.TotalCharsQueued = s.ext.TotalCharsQueued
      BY <1>2, <1>3, <1>4, <2>2
    <3> HIDE DEF v
    <3> QED
      BY <2>1, <2>3, <3>1 DEF XoffEnded
<1>5. CASE ~Settled(t, "xoff")
  <2>1. u = t
    BY <1>2, <1>5
  <2> QED
    BY <1>3, <1>5, <2>1 DEF XoffEnded
<1> QED
  BY <1>4, <1>5

ImmediateEnded(s, u, ab, m) ==
  /\ Whole(u, ab, [m EXCEPT !["immediate"] = "steady"])
  /\ Beside(s, u, "immediate")
  /\ \/ /\ u.ext.current = s.ext.current
        /\ u.ext.TotalCharsQueued = s.ext.TotalCharsQueued
     \/ /\ u.ext.current["immediate"] = NoRequest
        /\ u.ext.TotalCharsQueued = s.ext.TotalCharsQueued - 1

LEMMA EndImmediateWhole ==
  ASSUME NEW s, NEW ab, NEW m \in [Slots -> Modes], Whole(s, ab, m),
         NEW by \in Callers, m["immediate"] = Mode(by),
         NEW grab \in BOOLEAN, grab \/ by = "ISR",
         NEW status \in Statuses,
         status \in {"SUCCESS", "MORE_WRITES"} => by = "ISR"
  PROVE  ImmediateEnded(s, EndImmediate(s, grab, by, status), ab, m)
<1> DEFINE slot == "immediate"
           t == TryToComplete(s, slot, grab, slot, by, status)
           v == CompleteSlot(t, slot, status)
           n == v.ext.TotalCharsQueued - 1
           w == [v EXCEPT !.ext.TotalCharsQueued = n]
           u == EndImmediate(s, grab, by, status)
<1>1. slot \in Slots
  BY DEF Slots
<1>2. u = IF Settled(t, slot) THEN w ELSE t
  BY DEF EndImmediate
<1> SUFFICES ImmediateEnded(s, u, ab, m)
  OBVIOUS
<1> HIDE DEF t, u
<1>3. /\ t \in StateType /\ t.ext.current = s.ext.current
      /\ t.ext.current[slot] \in Requests
      /\ t.ext.TotalCharsQueued = s.ext.TotalCharsQueued
      /\ Beside(s, t, slot) /\ Earned(t, slot, status)
      /\ Whole(t, ab, [m EXCEPT ![slot] = "due"])
      /\ ~Settled(t, slot) => Whole(t, ab, [m EXCEPT ![slot] = "steady"])
  <2>1. Names(s, slot, by, slot, ab, ab)
    BY DEF Names
  <2>2. Tries(s, t, slot, m, ab, status)
    BY <1>1, <2>1, EndsWhole DEF t
  <2> QED
    BY <2>2 DEF Tries
<1>4. CASE Settled(t, slot)
  <2>1. /\ Whole(v, ab, [m EXCEPT ![slot] = "steady"])
        /\ Completed(t, v, slot, status)
    BY <1>1, <1>3, <1>4, CompletesWhole
  <2> HIDE DEF v
  <2>2. /\ Beside(t, v, slot) /\ v.ext.current[slot] = NoRequest
        /\ v.ext.TotalCharsQueued = t.ext.TotalCharsQueued
    BY <2>1 DEF Completed
  <2>3. v \in StateType /\ n \in Int
    BY <2>2, StateFacts DEF Beside, ExtensionType
  <2>4. /\ Stands(v, w) /\ w.ext.TotalCharsQueued = n
        /\ w.ext.stopped = v.ext.stopped
    <3> HIDE DEF n
    <3> QED
      BY <2>3, TotalStands
  <2> HIDE DEF w
  <2>5. Whole(w, ab, [m EXCEPT ![slot] = "steady"])
    BY <2>1, <2>4, StandsWhole
  <2>6. Beside(s, v, slot)
    BY <1>3, <2>2, BesideTransitive
  <2>7. Beside(s, w, slot)
    BY <2>4, <2>6 DEF Stands, Beside
  <2>8. w.ext.current[slot] = NoRequest
    BY <2>2, <2>4 DEF Stands
  <2> QED
    <3>1. u = w /\ w.ext.TotalCharsQueued = s.ext.TotalCharsQueued - 1
      BY <1>2, <1>3, <1>4, <2>2, <2>4
    <3> QED
      BY <2>5, <2>7, <2>8, <3>1 DEF ImmediateEnded
<1>5. CASE ~Settled(t, slot)
  <2>1. u = t
    BY <1>2, <1>5
  <2> QED
    BY <1>3, <1>5, <2>1 DEF ImmediateEnded
<1> QED
  BY <1>4, <1>5
-----------------------------------------------------------------------------
(***************************************************************************)
(* The start of a request: its cancel routine, its timer and the ISR.      *)
(***************************************************************************)
(* One more reference.                                                     *)
Gains(s, t, slot, r, ref) ==
  /\ Near(s, t, slot) /\ Alike(s.req[r], t.req[r])
  /\ t.req[r].RefCount = s.req[r].RefCount \cup {ref}

LEMMA GainsReference ==
  ASSUME NEW s \in StateType, NEW slot \in Slots, NEW r \in Requests,
         r = s.ext.current[slot],
         NEW ref \in {"ISR", "CANCEL", "TOTAL_TIMER", "XOFF_REF"}
  PROVE  LET t == SetReference(s, r, ref)
         IN  /\ Gains(s, t, slot, r, ref) /\ t.ext = s.ext
             /\ t.req[r].cancel = s.req[r].cancel
             /\ t.req[r].CancelRoutine = s.req[r].CancelRoutine
<1> DEFINE q == s.req[r]
           u == [q EXCEPT !.RefCount = q.RefCount \cup {ref}]
           t == SetReference(s, r, ref)
<1>1. q \in RequestType
  BY StateFacts
<1>2. /\ u \in RequestType /\ Alike(q, u) /\ u.cancel = q.cancel
      /\ u.CancelRoutine = q.CancelRoutine
      /\ u.RefCount = q.RefCount \cup {ref}
  BY <1>1 DEF RequestType, Alike
<1>3. t = Put(s, r, u)
  BY SetReferenceIs
<1> HIDE DEF u, t
<1>4. t.ext = s.ext /\ t.req[r] = u
  BY <1>2, <1>3, PutFacts
<1>5. u.kind = q.kind /\ u.length = q.length /\ u.onWire = q.onWire
  BY <1>2 DEF Alike
<1>6. Near(s, t, slot)
  BY <1>2, <1>3, <1>5, NearPut
<1>7. /\ Gains(s, t, slot, r, ref) /\ t.ext = s.ext
      /\ t.req[r].cancel = q.cancel
      /\ t.req[r].CancelRoutine = q.CancelRoutine
  BY <1>2, <1>4, <1>6 DEF Gains
<1> QED
  BY <1>7 DEF t

LEMMA GainsCancelRoutine ==
  ASSUME NEW s \in StateType, NEW slot \in Slots, NEW r \in Requests,
         r = s.ext.current[slot]
  PROVE  LET t == SerialSetCancelRoutine(s, r, slot)
         IN  /\ Gains(s, t, slot, r, "CANCEL") /\ t.ext = s.ext
             /\ t.req[r].cancel = "armed" /\ t.req[r].CancelRoutine = slot
<1> DEFINE q == s.req[r]
           u == [q EXCEPT !.RefCount = q.RefCount \cup {"CANCEL"},
                          !.cancel = "armed", !.CancelRoutine = slot]
           t == SerialSetCancelRoutine(s, r, slot)
<1>1. q \in RequestType
  BY StateFacts
<1>2. /\ u \in RequestType /\ Alike(q, u) /\ u.cancel = "armed"
      /\ u.CancelRoutine = slot
      /\ u.RefCount = q.RefCount \cup {"CANCEL"}
  BY <1>1 DEF RequestType, Alike
<1>3. t = Put(s, r, u)
  BY SerialSetCancelRoutineIs
<1> HIDE DEF u, t
<1>4. t.ext = s.ext /\ t.req[r] = u
  BY <1>2, <1>3, PutFacts
<1>5. u.kind = q.kind /\ u.length = q.length /\ u.onWire = q.onWire
  BY <1>2 DEF Alike
<1>6. Near(s, t, slot)
  BY <1>2, <1>3, <1>5, NearPut
<1>7. /\ Gains(s, t, slot, r, "CANCEL") /\ t.ext = s.ext
      /\ t.req[r].cancel = "armed" /\ t.req[r].CancelRoutine = slot
  BY <1>2, <1>4, <1>6 DEF Gains
<1> QED
  BY <1>7 DEF t

GetsTimer(s, t, slot, r) ==
  /\ Gains(s, t, slot, r, "TOTAL_TIMER")
  /\ t.ext.isr = s.ext.isr /\ t.ext.timer[slot] = {"queued"}
  /\ t.req[r].cancel = s.req[r].cancel
  /\ t.req[r].CancelRoutine = s.req[r].CancelRoutine

LEMMA GainsTimer ==
  ASSUME NEW s \in StateType, NEW slot \in Slots, NEW r \in Requests,
         r = s.ext.current[slot], s.ext.timer[slot] = {}
  PROVE  GetsTimer(s, SerialSetTimer(s, slot, r), slot, r)
<1> DEFINE T == {"queued"}
           p == [s EXCEPT !.ext.timer[slot] = T]
           t == SetReference(p, r, "TOTAL_TIMER")
<1>1. s.ext.timer[slot] \cup {"queued"} = T
  OBVIOUS
<1>2. SerialSetTimer(s, slot, r) = t
  BY <1>1 DEF SerialSetTimer
<1>3. T \in SUBSET {"queued", "fired"}
  OBVIOUS
<1> HIDE DEF T
<1>4. /\ Near(s, p, slot) /\ p.req = s.req
      /\ p.ext.isr = s.ext.isr /\ p.ext.timer[slot] = T
  BY <1>3, NearTimer
<1> HIDE DEF p
<1>5. p \in StateType /\ p.ext.current = s.ext.current
  BY <1>4 DEF Near
<1>6. /\ Gains(p, t, slot, r, "TOTAL_TIMER") /\ t.ext = p.ext
      /\ t.req[r].cancel = p.req[r].cancel
      /\ t.req[r].CancelRoutine = p.req[r].CancelRoutine
  BY <1>5, GainsReference
<1> HIDE DEF t
<1>7. Gains(s, t, slot, r, "TOTAL_TIMER")
  BY <1>4, <1>6, NearTransitive DEF Gains
<1>8. /\ t.ext.isr = s.ext.isr /\ t.ext.timer[slot] = {"queued"}
      /\ t.req[r].cancel = s.req[r].cancel
      /\ t.req[r].CancelRoutine = s.req[r].CancelRoutine
  BY <1>4, <1>6 DEF T
<1> QED
  BY <1>2, <1>7, <1>8 DEF GetsTimer

GetsIsr(s, t, slot, r, n) ==
  /\ Gains(s, t, slot, r, "ISR")
  /\ t.ext.timer = s.ext.timer /\ t.ext.isr[slot] = n
  /\ t.req[r].cancel = s.req[r].cancel
  /\ t.req[r].CancelRoutine = s.req[r].CancelRoutine

LEMMA GainsIsr ==
  ASSUME NEW s \in StateType, NEW slot \in Slots, NEW r \in Requests,
         r = s.ext.current[slot], NEW n \in Nat
  PROVE  GetsIsr(s, SetReference([s EXCEPT !.ext.isr[slot] = n], r, "ISR"),
                 slot, r, n)
<1> DEFINE p == [s EXCEPT !.ext.isr[slot] = n]
           t == SetReference(p, r, "ISR")
<1>4. /\ Near(s, p, slot) /\ p.req = s.req
      /\ p.ext.timer = s.ext.timer /\ p.ext.isr[slot] = n
  BY NearIsr
<1> HIDE DEF p
<1>5. p \in StateType /\ p.ext.current = s.ext.current
  BY <1>4 DEF Near
<1>6. /\ Gains(p, t, slot, r, "ISR") /\ t.ext = p.ext
      /\ t.req[r].cancel = p.req[r].cancel
      /\ t.req[r].CancelRoutine = p.req[r].CancelRoutine
  BY <1>5, GainsReference
<1> HIDE DEF t
<1>7. Gains(s, t, slot, r, "ISR")
  BY <1>4, <1>6, NearTransitive DEF Gains
<1>8. /\ t.ext.timer = s.ext.timer /\ t.ext.isr[slot] = n
      /\ t.req[r].cancel = s.req[r].cancel
      /\ t.req[r].CancelRoutine = s.req[r].CancelRoutine
  BY <1>4, <1>6
<1> QED
  BY <1>7, <1>8 DEF t, p, GetsIsr

Referred(u, slot, T) ==
  /\ u.cancel = "armed" /\ u.CancelRoutine = slot
  /\ u.RefCount = {"CANCEL", "ISR"} \cup
                     IF T = {} THEN {} ELSE {"TOTAL_TIMER"}

(* A request that begins in a slot where nothing is left of another one.   *)
LEMMA WorkStarts ==
  ASSUME NEW q \in RequestType, NEW slot \in Slots, NEW n \in Nat, n > 0,
         q.issued, q.ended = 0, q.RefCount = {}, Fits(q.kind, slot),
         slot = "xoff" => q.onWire = q.length,
         slot # "xoff" => q.onWire + n = q.length,
         NEW T \in {{}, {"queued"}},
         NEW u \in RequestType, Alike(q, u), Referred(u, slot, T)
  PROVE  Work(u, slot, n, FALSE, T, "none", FALSE) /\ u.RefCount # {}
<1>1. /\ "ISR" \in u.RefCount /\ "CANCEL" \in u.RefCount
      /\ "XOFF_REF" \notin u.RefCount
      /\ "TOTAL_TIMER" \in u.RefCount <=> T # {}
      /\ u.RefCount # {} /\ u.cancel = "armed" /\ u.CancelRoutine = slot
  BY DEF Referred
<1>2. T \in {{}, {"queued"}, {"fired"}} /\ n # 0
  OBVIOUS
<1>3. /\ u.issued /\ u.ended = 0 /\ u.kind = q.kind /\ u.length = q.length
      /\ u.onWire = q.onWire
  BY DEF Alike
<1> QED
  BY <1>1, <1>2, <1>3 DEF Work

Begins(s, u, slot, r, n) ==
  /\ Near(s, u, slot) /\ Alike(s.req[r], u.req[r])
  /\ u.ext.isr[slot] = n /\ u.ext.timer[slot] \in {{}, {"queued"}}
  /\ Referred(u.req[r], slot, u.ext.timer[slot])

LEMMA BeginsByDirect ==
  ASSUME NEW s \in StateType, NEW slot \in Slots, NEW r \in Requests,
         r = s.ext.current[slot], s.req[r].RefCount = {},
         s.ext.timer[slot] = {}, NEW n \in Nat, NEW timeouts \in BOOLEAN
  PROVE  LET fresh == SerialSetCancelRoutine(s, r, slot)
             timed == IF timeouts THEN SerialSetTimer(fresh, slot, r)
                      ELSE fresh
         IN  Begins(s, SetReference([timed EXCEPT !.ext.isr[slot] = n],
                                    r, "ISR"), slot, r, n)
<1> DEFINE fresh == SerialSetCancelRoutine(s, r, slot)
           timed == IF timeouts THEN SerialSetTimer(fresh, slot, r)
                    ELSE fresh
           u == SetReference([timed EXCEPT !.ext.isr[slot] = n], r, "ISR")
<1>1. /\ Gains(s, fresh, slot, r, "CANCEL") /\ fresh.ext = s.ext
      /\ fresh.req[r].cancel = "armed"
      /\ fresh.req[r].CancelRoutine = slot
  BY GainsCancelRoutine
<1> HIDE DEF fresh
<1>2. /\ Near(s, fresh, slot) /\ Alike(s.req[r], fresh.req[r])
      /\ fresh.req[r].RefCount = {"CANCEL"}
      /\ fresh \in StateType /\ r = fresh.ext.current[slot]
      /\ fresh.ext.timer[slot] = {}
  BY <1>1 DEF Gains, Near
<1>3. /\ Near(s, timed, slot) /\ Alike(s.req[r], timed.req[r])
      /\ timed.req[r].cancel = "armed"
      /\ timed.req[r].CancelRoutine = slot
      /\ \/ timed.ext.timer[slot] = {} /\ timed.req[r].RefCount = {"CANCEL"}
         \/ /\ timed.ext.timer[slot] = {"queued"}
            /\ timed.req[r].RefCount = {"CANCEL", "TOTAL_TIMER"}
  <2>1. CASE ~timeouts
    BY <1>1, <1>2, <2>1
  <2>2. CASE timeouts
    <3>1. timed = SerialSetTimer(fresh, slot, r)
      BY <2>2
    <3>2. /\ Gains(fresh, timed, slot, r, "TOTAL_TIMER")
          /\ timed.ext.timer[slot] = {"queued"}
          /\ timed.req[r].cancel = fresh.req[r].cancel
          /\ timed.req[r].CancelRoutine = fresh.req[r].CancelRoutine
      <4>1. GetsTimer(fresh, timed, slot, r)
        BY <1>2, <3>1, GainsTimer
      <4> QED
        BY <4>1 DEF GetsTimer
    <3> HIDE DEF timed
    <3>3. Near(s, timed, slot) /\ Alike(s.req[r], timed.req[r])
      BY <1>2, <3>2, NearTransitive DEF Gains, Alike
    <3>4. timed.req[r].RefCount = {"CANCEL", "TOTAL_TIMER"}
      BY <1>2, <3>2 DEF Gains
    <3> QED
      BY <1>1, <3>2, <3>3, <3>4
  <2> QED
    BY <2>1, <2>2
<1> HIDE DEF timed
<1>4. timed \in StateType /\ r = timed.ext.current[slot]
  BY <1>3 DEF Near
<1>5. /\ Gains(timed, u, slot, r, "ISR")
      /\ u.ext.timer = timed.ext.timer /\ u.ext.isr[slot] = n
      /\ u.req[r].cancel = timed.req[r].cancel
      /\ u.req[r].CancelRoutine = timed.req[r].CancelRoutine
  <2>1. GetsIsr(timed, u, slot, r, n)
    BY <1>4, GainsIsr
  <2> QED
    BY <2>1 DEF GetsIsr
<1> HIDE DEF u
<1>6. Near(s, u, slot) /\ Alike(s.req[r], u.req[r])
  BY <1>3, <1>5, NearTransitive DEF Gains, Alike
<1>7. u.ext.timer[slot] \in {{}, {"queued"}}
      /\ u.req[r].RefCount = {"CANCEL", "ISR"} \cup
            IF u.ext.timer[slot] = {} THEN {} ELSE {"TOTAL_TIMER"}
  <2>1. u.req[r].RefCount = timed.req[r].RefCount \cup {"ISR"}
    BY <1>5 DEF Gains
  <2> QED
    BY <1>3, <1>5, <2>1
<1>8. Begins(s, u, slot, r, n)
  BY <1>3, <1>5, <1>6, <1>7 DEF Begins, Referred
<1> QED
  BY <1>8 DEF u, timed, fresh

LEMMA BeginsByCounting ==
  ASSUME NEW s \in StateType, NEW slot \in Slots, NEW r \in Requests,
         r = s.ext.current[slot], s.req[r].RefCount = {},
         s.ext.timer[slot] = {}, NEW n \in Nat, NEW timeouts \in BOOLEAN
  PROVE  LET fresh == SerialSetCancelRoutine(s, r, slot)
             given == SetReference([fresh EXCEPT !.ext.isr[slot] = n],
                                   r, "ISR")
         IN  Begins(s, IF timeouts THEN SerialSetTimer(given, slot, r)
                       ELSE given, slot, r, n)
<1> DEFINE fresh == SerialSetCancelRoutine(s, r, slot)
           given == SetReference([fresh EXCEPT !.ext.isr[slot] = n], r, "ISR")
           u == IF timeouts THEN SerialSetTimer(given, slot, r) ELSE given
<1>1. /\ Gains(s, fresh, slot, r, "CANCEL") /\ fresh.ext = s.ext
      /\ fresh.req[r].cancel = "armed"
      /\ fresh.req[r].CancelRoutine = slot
  BY GainsCancelRoutine
<1> HIDE DEF fresh
<1>2. /\ Near(s, fresh, slot) /\ Alike(s.req[r], fresh.req[r])
      /\ fresh.req[r].RefCount = {"CANCEL"}
      /\ fresh \in StateType /\ r = fresh.ext.current[slot]
      /\ fresh.ext.timer[slot] = {}
  BY <1>1 DEF Gains, Near
<1>3. /\ Gains(fresh, given, slot, r, "ISR")
      /\ given.ext.timer = fresh.ext.timer /\ given.ext.isr[slot] = n
      /\ given.req[r].cancel = fresh.req[r].cancel
      /\ given.req[r].CancelRoutine = fresh.req[r].CancelRoutine
  <2>1. GetsIsr(fresh, given, slot, r, n)
    BY <1>2, GainsIsr
  <2> QED
    BY <2>1 DEF GetsIsr
<1> HIDE DEF given
<1>4. Near(s, given, slot) /\ Alike(s.req[r], given.req[r])
  BY <1>2, <1>3, NearTransitive DEF Gains, Alike
<1>5. given.req[r].RefCount = {"CANCEL", "ISR"}
  BY <1>2, <1>3 DEF Gains
<1>6. given \in StateType /\ r = given.ext.current[slot]
      /\ given.ext.timer[slot] = {}
  BY <1>2, <1>3, <1>4 DEF Near
<1>7. CASE ~timeouts
  <2>1. u = given
    BY <1>7
  <2>2. Begins(s, given, slot, r, n)
    BY <1>1, <1>3, <1>4, <1>5, <1>6 DEF Begins, Referred
  <2> QED
    BY <2>1, <2>2 DEF fresh, given
<1>8. CASE timeouts
  <2>1. u = SerialSetTimer(given, slot, r)
    BY <1>8
  <2> HIDE DEF u
  <2>2. /\ Gains(given, u, slot, r, "TOTAL_TIMER")
        /\ u.ext.isr = given.ext.isr /\ u.ext.timer[slot] = {"queued"}
        /\ u.req[r].cancel = given.req[r].cancel
        /\ u.req[r].CancelRoutine = given.req[r].CancelRoutine
    <3>1. GetsTimer(given, u, slot, r)
      BY <1>6, <2>1, GainsTimer
    <3> QED
      BY <3>1 DEF GetsTimer
  <2>3. Near(s, u, slot) /\ Alike(s.req[r], u.req[r])
    BY <1>4, <2>2, NearTransitive DEF Gains, Alike
  <2>4. u.req[r].RefCount = {"CANCEL", "ISR"} \cup
            IF u.ext.timer[slot] = {} THEN {} ELSE {"TOTAL_TIMER"}
    BY <1>5, <2>2 DEF Gains
  <2>5. Begins(s, u, slot, r, n)
    BY <1>1, <1>3, <2>2, <2>3, <2>4 DEF Begins, Referred
  <2> QED
    BY <2>5 DEF u, given, fresh
<1> QED
  BY <1>7, <1>8

LEMMA BeginsSteady ==
  ASSUME NEW s \in StateType, NEW slot \in Slots, NEW r \in Requests,
         r = s.ext.current[slot], NEW n \in Nat, n > 0, NEW ab,
         s.req[r].issued, s.req[r].ended = 0, s.req[r].RefCount = {},
         Fits(s.req[r].kind, slot), slot \notin s.ext.dpc,
         slot = "xoff" => s.req[r].onWire = s.req[r].length /\ r \notin ab,
         slot # "xoff" => s.req[r].onWire + n = s.req[r].length,
         NEW u, Begins(s, u, slot, r, n)
  PROVE  SlotOk(u, ab, slot, "steady")
<1> DEFINE q == s.req[r]
           v == u.req[r]
           T == u.ext.timer[slot]
<1>1. u \in StateType /\ u.ext.current[slot] = r /\ u.ext.isr[slot] = n
      /\ slot \notin u.ext.dpc
  BY DEF Begins, Near
<1>2. q \in RequestType /\ v \in RequestType
  BY <1>1, StateFacts
<1>3. /\ T \in {{}, {"queued"}} /\ Alike(q, v)
      /\ Referred(v, slot, T)
  BY DEF Begins
<1>4. Work(v, slot, n, FALSE, T, "none", FALSE) /\ v.RefCount # {}
  <2> HIDE DEF q, v, T
  <2>1. /\ q.issued /\ q.ended = 0 /\ q.RefCount = {} /\ Fits(q.kind, slot)
        /\ slot = "xoff" => q.onWire = q.length
        /\ slot # "xoff" => q.onWire + n = q.length
    BY DEF q
  <2>2. Work(v, slot, n, FALSE, T, "none", FALSE)
    BY <1>2, <1>3, <2>1, WorkStarts
  <2>3. "ISR" \in v.RefCount
    BY <1>3 DEF Referred
  <2> QED
    BY <2>2, <2>3
<1>5. (slot \in u.ext.dpc) = FALSE /\ (slot = "xoff" /\ r \in ab) = FALSE
  <2>1. slot \notin u.ext.dpc
    BY <1>1
  <2>4. ~(slot = "xoff" /\ r \in ab)
    OBVIOUS
  <2> DEFINE A == slot \in u.ext.dpc
             B == slot = "xoff" /\ r \in ab
  <2>2. A \in BOOLEAN /\ B \in BOOLEAN /\ ~A /\ ~B
    BY <2>1, <2>4
  <2>3. A = FALSE /\ B = FALSE
    <3> HIDE DEF A, B
    <3> QED
      BY <2>2
  <2> QED
    BY <2>3
<1>6. Busy(u, ab, slot, "none")
  BY <1>1, <1>4, <1>5 DEF Busy
<1> QED
  BY <1>1, <1>4, <1>6 DEF SlotOk
-----------------------------------------------------------------------------
(***************************************************************************)
(* A character that counts, and the start of a write.                      *)
(***************************************************************************)
(* What the queue and the count of characters depend on.                   *)
Keeps(s, u) ==
  /\ u \in StateType
  /\ \A r \in Requests : u.req[r].length = s.req[r].length
  /\ u.ext.current["write"] = s.ext.current["write"]
  /\ u.ext.current["immediate"] = s.ext.current["immediate"]
  /\ u.ext.WriteQueue = s.ext.WriteQueue
  /\ u.ext.stopped = s.ext.stopped
  /\ u.ext.TotalCharsQueued = s.ext.TotalCharsQueued

LEMMA BesideKeeps ==
  ASSUME NEW s, NEW u, Beside(s, u, "xoff"),
         u.ext.TotalCharsQueued = s.ext.TotalCharsQueued
  PROVE  Keeps(s, u)
BY DEF Beside, Keeps, Slots

LEMMA KeepsTransitive ==
  ASSUME NEW s, NEW t, NEW u, Keeps(s, t), Keeps(t, u)
  PROVE  Keeps(s, u)
BY DEF Keeps

Puts(s, u) ==
  /\ Beside(s, u, "xoff") /\ u.ext.current = s.ext.current
  /\ u.ext.TotalCharsQueued = s.ext.TotalCharsQueued

LEMMA PutCharWhole ==
  ASSUME NEW s, NEW ab, NEW m \in [Slots -> Modes], Whole(s, ab, m),
         m["xoff"] = "steady"
  PROVE  Whole(PutChar(s), ab, m) /\ Puts(s, PutChar(s))
<1> DEFINE slot == "xoff"
           r == s.ext.current[slot]
           q == s.req[r]
           left == s.ext.isr[slot] - 1
           less == [s EXCEPT !.ext.isr["xoff"] = left]
           f == [q EXCEPT !.Status = "SUCCESS", !.Information = 0]
           d == [less.ext EXCEPT !.dpc = less.ext.dpc \cup {"xoff"}]
           last == [less EXCEPT !.req[r] = f, !.ext.dpc = @ \cup {"xoff"}]
           u == PutChar(s)
<1>1. slot \in Slots /\ s \in StateType /\ s.ext \in ExtensionType
      /\ SlotOk(s, ab, slot, "steady")
  BY StateFacts DEF Slots, Whole
<1>2. s.ext.isr[slot] \in Nat
  BY <1>1 DEF ExtensionType
<1>3. CASE s.ext.isr[slot] = 0
  <2>1. u = s
    BY <1>3 DEF PutChar
  <2> QED
    BY <1>1, <2>1 DEF Puts, Beside
<1>4. CASE s.ext.isr[slot] # 0
  <2>1. u = IF s.ext.isr[slot] = 1 THEN last ELSE less
    BY <1>4 DEF PutChar
  <2>2. Busy(s, ab, slot, "none") /\ q.RefCount # {} /\ r \in Requests
    BY <1>1, <1>4 DEF SlotOk, Silent, Busy
  <2>3. left \in Nat /\ q \in RequestType
    BY <1>1, <1>2, <1>4, <2>2, StateFacts
  <2> DEFINE dpc == slot \in s.ext.dpc
             timer == s.ext.timer[slot]
             gone == slot = "xoff" /\ r \in ab
  <2>4. Work(q, slot, s.ext.isr[slot], dpc, timer, "none", gone)
    BY <2>2 DEF Busy
  <2>5. ~dpc /\ "ISR" \in q.RefCount /\ q.onWire = q.length
    <3>1. s.ext.isr[slot] > 0 /\ slot = "xoff"
      BY <1>2, <1>4
    <3> HIDE DEF dpc, timer, gone, q, slot
    <3> QED
      BY <2>4, <3>1 DEF Work
  <2>6. /\ Near(s, less, slot) /\ less.req = s.req
        /\ less.ext.timer = s.ext.timer /\ less.ext.isr[slot] = left
    <3> HIDE DEF left
    <3> QED
      BY <1>1, <2>3, NearIsr
  <2> HIDE DEF less
  <2>7. /\ less \in StateType /\ less.ext.current = s.ext.current
        /\ less.ext.dpc = s.ext.dpc /\ less.ext \in ExtensionType
        /\ less.ext.TotalCharsQueued = s.ext.TotalCharsQueued
    BY <2>6, StateFacts DEF Near
  <2>8. CASE s.ext.isr[slot] = 1
    <3>1. f \in RequestType /\ d \in ExtensionType
      <4>1. f \in RequestType
        <5> HIDE DEF q
        <5> QED
          BY <2>3 DEF RequestType, Statuses
      <4>2. d \in ExtensionType
        BY <1>1, <2>7 DEF ExtensionType
      <4> QED
        BY <4>1, <4>2
    <3>2. /\ f.issued = q.issued /\ f.ended = q.ended /\ f.kind = q.kind
          /\ f.cancel = q.cancel /\ f.CancelRoutine = q.CancelRoutine
          /\ f.RefCount = q.RefCount /\ f.onWire = q.onWire
          /\ f.length = q.length
      BY <2>3 DEF RequestType
    <3>3. last = PutExt(Put(less, r, f), d)
      BY <2>7 DEF StateType, Put, PutExt
    <3>4. /\ d.current = less.ext.current /\ d.isr = less.ext.isr
          /\ d.timer = less.ext.timer /\ d.WriteQueue = less.ext.WriteQueue
          /\ d.stopped = less.ext.stopped /\ d.Timeouts = less.ext.Timeouts
          /\ d.TotalCharsQueued = less.ext.TotalCharsQueued
          /\ d.dpc = less.ext.dpc \cup {"xoff"}
      BY <2>7 DEF ExtensionType
    <3> HIDE DEF f, d, last
    <3>5. Put(less, r, f) \in StateType /\ Put(less, r, f).req[r] = f
          /\ \A x \in Requests : x # r => Put(less, r, f).req[x] = s.req[x]
      BY <2>2, <2>6, <2>7, <3>1, PutFacts
    <3>6. last \in StateType /\ last.ext = d /\ last.req = Put(less, r, f).req
      BY <3>1, <3>3, <3>5, PutExtFacts
    <3>7. Beside(s, last, slot)
      <4>1. /\ less.ext.WriteQueue = s.ext.WriteQueue
            /\ less.ext.stopped = s.ext.stopped
            /\ less.ext.Timeouts = s.ext.Timeouts
            /\ \A i \in Slots : i # slot =>
                 /\ less.ext.isr[i] = s.ext.isr[i]
                 /\ less.ext.timer[i] = s.ext.timer[i]
        BY <2>6 DEF Near
      <4>2. \A i \in Slots : i # slot => (i \in d.dpc <=> i \in s.ext.dpc)
        BY <2>7, <3>4
      <4>3. last.req[r].kind = q.kind /\ last.req[r].length = q.length
        BY <3>2, <3>5, <3>6
      <4>4. \A x \in Requests : x # r => last.req[x] = s.req[x]
        BY <3>5, <3>6
      <4>5. /\ last.ext.WriteQueue = s.ext.WriteQueue
            /\ last.ext.stopped = s.ext.stopped
            /\ last.ext.Timeouts = s.ext.Timeouts
        BY <3>4, <3>6, <4>1
      <4>6. \A i \in Slots : i # slot =>
              /\ last.ext.current[i] = s.ext.current[i]
              /\ last.ext.isr[i] = s.ext.isr[i]
              /\ last.ext.timer[i] = s.ext.timer[i]
              /\ i \in last.ext.dpc <=> i \in s.ext.dpc
        BY <2>7, <3>4, <3>6, <4>1, <4>2
      <4> QED
        BY <3>6, <4>3, <4>4, <4>5, <4>6 DEF Beside
    <3>8. /\ last.ext.current = s.ext.current /\ last.ext.isr[slot] = 0
          /\ last.ext.timer = s.ext.timer /\ slot \in last.ext.dpc
          /\ last.ext.TotalCharsQueued = s.ext.TotalCharsQueued
          /\ last.req[r] = f
      BY <2>6, <2>7, <2>8, <3>4, <3>5, <3>6
    <3>9. Work(f, slot, 0, TRUE, timer, "none", gone)
      BY <2>4, <2>5, <3>2 DEF Work
    <3>10. Busy(last, ab, slot, "none")
      <4>1. (slot \in last.ext.dpc) = TRUE
        BY <3>8
      <4> QED
        BY <2>2, <3>8, <3>9, <4>1 DEF Busy
    <3> QED
      <4>1. u = last /\ f.RefCount # {}
        BY <2>1, <2>2, <2>8, <3>2
      <4>2. SlotOk(last, ab, slot, "steady")
        BY <3>8, <3>10, <4>1 DEF SlotOk
      <4>3. Owed(last, ab)
        BY <3>8 DEF Owed, Whole
      <4>4. [m EXCEPT ![slot] = "steady"] = m
        OBVIOUS
      <4>5. Whole(last, ab, [m EXCEPT ![slot] = "steady"])
        BY <1>1, <2>2, <3>7, <3>8, <4>2, <4>3, BesideWhole DEF Modes
      <4> QED
        BY <3>7, <3>8, <4>1, <4>4, <4>5 DEF Puts
  <2>9. CASE s.ext.isr[slot] # 1
    <3>1. u = less /\ left > 0
      BY <1>2, <1>4, <2>1, <2>9
    <3>2. Beside(s, less, slot)
      BY <2>6, NearBeside
    <3>3. Work(q, slot, left, dpc, timer, "none", gone)
      <4> HIDE DEF left
      <4> QED
        BY <1>2, <1>4, <2>3, <2>4, <2>5, <3>1 DEF Work
    <3>4. Busy(less, ab, slot, "none")
      BY <2>2, <2>6, <2>7, <3>3 DEF Busy
    <3>5. SlotOk(less, ab, slot, "steady")
      BY <2>2, <2>6, <2>7, <3>4 DEF SlotOk
    <3>6. Owed(less, ab)
      BY <2>7 DEF Owed, Whole
    <3>7. [m EXCEPT ![slot] = "steady"] = m
      OBVIOUS
    <3>8. Whole(less, ab, [m EXCEPT ![slot] = "steady"])
      BY <1>1, <2>2, <2>7, <3>2, <3>5, <3>6, BesideWhole DEF Modes
    <3> QED
      BY <2>7, <3>1, <3>2, <3>7, <3>8 DEF Puts
  <2> QED
    BY <2>8, <2>9
<1> QED
  BY <1>3, <1>4

(* What is left of the XOFF counter when a write starts.                   *)
Way(s) ==
  LET x == s.ext.current["xoff"]
  IN  IF x # NoRequest /\ s.req[x].RefCount # {}
        THEN EndXoff([s EXCEPT !.req[x].Information = 0], TRUE,
                     "xoff", "XOFF_REF", "MORE_WRITES")
        ELSE s

LEMMA InformationCleared ==
  ASSUME NEW s, NEW ab, NEW m \in [Slots -> Modes], Whole(s, ab, m),
         m["xoff"] = "due"
  PROVE  LET p == [s EXCEPT !.req[s.ext.current["xoff"]].Information = 0]
         IN  Whole(p, ab, m) /\ Puts(s, p)
<1> DEFINE slot == "xoff"
           p == [s EXCEPT !.req[s.ext.current["xoff"]].Information = 0]
           r == s.ext.current[slot]
           q == s.req[r]
           u == [q EXCEPT !.Information = 0]
<1>1. slot \in Slots /\ s \in StateType
  BY DEF Slots, Whole
<1>2. r \in Requests /\ Busy(s, ab, slot, "none")
  BY <1>1, BusyModes
<1>3. q \in RequestType
  BY <1>1, <1>2, StateFacts
<1>4. /\ u \in RequestType /\ u.issued = q.issued /\ u.ended = q.ended
      /\ u.kind = q.kind /\ u.cancel = q.cancel
      /\ u.CancelRoutine = q.CancelRoutine /\ u.RefCount = q.RefCount
      /\ u.onWire = q.onWire /\ u.length = q.length
  <2> HIDE DEF q
  <2> QED
    BY <1>3 DEF RequestType
<1>5. p = Put(s, r, u)
  BY <1>1, <1>2 DEF StateType, Put
<1> HIDE DEF u, p
<1>6. p.ext = s.ext /\ p.req[r] = u
  BY <1>1, <1>2, <1>4, <1>5, PutFacts
<1>7. Near(s, p, slot)
  <2> HIDE DEF slot
  <2> QED
    BY <1>1, <1>2, <1>4, <1>5, NearPut
<1>8. Beside(s, p, slot)
  BY <1>7, NearBeside
<1>9. Busy(p, ab, slot, "none")
  <2> DEFINE left == s.ext.isr[slot]
             dpc == slot \in s.ext.dpc
             timer == s.ext.timer[slot]
             gone == slot = "xoff" /\ r \in ab
  <2>1. left \in Nat /\ dpc \in BOOLEAN /\ gone \in BOOLEAN
    BY <1>1, StateFacts DEF ExtensionType
  <2>2. Work(q, slot, left, dpc, timer, "none", gone)
    BY <1>2 DEF Busy
  <2>3. Work(u, slot, left, dpc, timer, "none", gone)
    <3>1. slot # "write"
      OBVIOUS
    <3> HIDE DEF left, dpc, timer, gone, q, r, slot
    <3> QED
      BY <1>1, <1>3, <1>4, <2>1, <2>2, <3>1, WorkElse
  <2> QED
    BY <1>2, <1>6, <2>3 DEF Busy
<1>10. SlotOk(p, ab, slot, "due") /\ Owed(p, ab)
  BY <1>6, <1>9 DEF SlotOk, Owed, Whole
<1>11. [m EXCEPT ![slot] = "due"] = m
  OBVIOUS
<1>12. Whole(p, ab, [m EXCEPT ![slot] = "due"])
  BY <1>1, <1>2, <1>6, <1>8, <1>10, BesideWhole DEF Modes
<1>13. Whole(p, ab, m) /\ Puts(s, p)
  BY <1>6, <1>8, <1>11, <1>12 DEF Puts
<1> QED
  BY <1>13 DEF p

LEMMA XoffGivesWay ==
  ASSUME NEW s, NEW ab, NEW m \in [Slots -> Modes], Whole(s, ab, m),
         m["xoff"] = "due"
  PROVE  XoffEnded(s, EndXoff(s, TRUE, "xoff", "XOFF_REF", "MORE_WRITES"),
                   ab, m)
<1>1. Names(s, "xoff", "XOFF_REF", "xoff", ab, ab)
  BY DEF Names
<1>2. /\ "XOFF_REF" \in Callers /\ Mode("XOFF_REF") = "due"
      /\ "MORE_WRITES" \in Statuses
  BY DEF Callers, Mode, Statuses
<1>3. m["xoff"] = Mode("XOFF_REF")
  BY <1>2
<1> QED
  BY <1>1, <1>2, <1>3, EndXoffWhole

LEMMA WayWhole ==
  ASSUME NEW s, NEW ab, NEW m \in [Slots -> Modes], Whole(s, ab, m),
         m["xoff"] = "steady"
  PROVE  /\ Whole(Way(s), ab, m) /\ Beside(s, Way(s), "xoff")
         /\ Keeps(s, Way(s))
<1> DEFINE slot == "xoff"
           x == s.ext.current[slot]
           p == [s EXCEPT !.req[x].Information = 0]
           n == [m EXCEPT ![slot] = "due"]
           u == EndXoff(p, TRUE, "xoff", "XOFF_REF", "MORE_WRITES")
<1>1. slot \in Slots /\ s \in StateType
  BY DEF Slots, Whole
<1>2. CASE ~(x # NoRequest /\ s.req[x].RefCount # {})
  <2>1. Way(s) = s
    BY <1>2 DEF Way
  <2>2. Beside(s, s, slot)
    BY <1>1, NearSelf, NearBeside
  <2> QED
    BY <2>1, <2>2, BesideKeeps
<1>3. CASE x # NoRequest /\ s.req[x].RefCount # {}
  <2>1. Way(s) = u
    BY <1>3 DEF Way
  <2>2. SlotOk(s, ab, slot, "steady")
    BY <1>1 DEF Whole
  <2>3. SlotOk(s, ab, slot, "due")
    BY <1>3, <2>2 DEF SlotOk
  <2>4. n \in [Slots -> Modes] /\ n[slot] = "due"
    BY <1>1 DEF Modes
  <2>5. \A i \in Slots : SlotOk(s, ab, i, n[i])
    BY <1>1, <2>3 DEF Whole
  <2>6. [n EXCEPT ![slot] = "steady"] = m
    OBVIOUS
  <2> HIDE DEF n
  <2>7. Whole(s, ab, n)
    BY <2>5 DEF Whole
  <2>8. Whole(p, ab, n) /\ Puts(s, p)
    BY <2>4, <2>7, InformationCleared
  <2>8a. XoffEnded(p, u, ab, n)
    <3> HIDE DEF p
    <3> QED
      BY <2>4, <2>8, XoffGivesWay
  <2> HIDE DEF u, p
  <2>9. /\ Whole(u, ab, [n EXCEPT ![slot] = "steady"])
        /\ Beside(p, u, slot)
        /\ u.ext.TotalCharsQueued = p.ext.TotalCharsQueued
    BY <2>8a DEF XoffEnded
  <2>10. Beside(s, u, slot)
    BY <2>8, <2>9, BesideTransitive DEF Puts
  <2>11. u.ext.TotalCharsQueued = s.ext.TotalCharsQueued
    BY <2>8, <2>9 DEF Puts
  <2> QED
    BY <2>1, <2>6, <2>9, <2>10, <2>11, BesideKeeps
<1> QED
  BY <1>2, <1>3

LEMMA StartWriteWhole ==
  ASSUME NEW s, NEW ab, NEW m \in [Slots -> Modes], Whole(s, ab, m),
         m["xoff"] = "steady", m["write"] = "start"
  PROVE  /\ Whole(SerialStartWrite(s), ab, [m EXCEPT !["write"] = "steady"])
         /\ Keeps(s, SerialStartWrite(s))
<1> DEFINE slot == "write"
           w == s.ext.current[slot]
           way == Way(s)
           none == [way EXCEPT !.req[w].RefCount = {}]
           q == s.req[w]
           n == q.length
           u == SerialStartWrite(s)
<1>1. slot \in Slots /\ slot # "xoff" /\ "xoff" \in Slots /\ s \in StateType
      /\ SlotOk(s, ab, slot, "start")
  BY DEF Slots, Whole
<1>2. w \in Requests /\ Silent(s, slot) /\ Fresh(q) /\ q.issued
      /\ Fits(q.kind, slot)
  BY <1>1 DEF SlotOk
<1>3. Whole(way, ab, m) /\ Beside(s, way, "xoff") /\ Keeps(s, way)
  BY WayWhole
<1> HIDE DEF way
<1>4. way \in StateType /\ w = way.ext.current[slot]
      /\ way.ext.timer[slot] = {} /\ slot \notin way.ext.dpc
  BY <1>1, <1>2, <1>3 DEF Beside, Silent
<1>5. way.req[w] = q
  <2>1. s.ext.current["xoff"] # w
    <3>1. NoRequest \notin Requests
      BY SerialAssumption
    <3>2. Apart(s)
      BY DEF Whole
    <3> QED
      BY <1>1, <1>2, <3>1, <3>2 DEF Apart
  <2> QED
    BY <1>2, <1>3, <2>1 DEF Beside
<1>6. q \in RequestType /\ q.RefCount = {} /\ q.ended = 0 /\ q.onWire = 0
  BY <1>1, <1>2, StateFacts DEF Fresh
<1>7. n \in Nat /\ n > 0
  <2>1. n \in Nat \ {0}
    BY <1>6, RequestFacts
  <2> HIDE DEF n
  <2> QED
    BY <2>1
<1>8. none = way
  <2>1. [q EXCEPT !.RefCount = {}] = q
    <3> HIDE DEF q
    <3> QED
      BY <1>6 DEF RequestType
  <2>2. none = Put(way, w, [q EXCEPT !.RefCount = {}])
    BY <1>2, <1>4, <1>5 DEF Put, StateType
  <2>3. Put(way, w, q) = way
    BY <1>2, <1>4, <1>5 DEF Put, StateType
  <2> QED
    BY <2>1, <2>2, <2>3
<1>9. Begins(way, u, slot, w, n)
  <2> DEFINE timeouts == s.ext.Timeouts
             fresh == SerialSetCancelRoutine(way, w, slot)
             timed == IF timeouts THEN SerialSetTimer(fresh, slot, w)
                      ELSE fresh
  <2>1. timeouts \in BOOLEAN
    BY <1>1, StateFacts DEF ExtensionType
  <2>2. u = SetReference([timed EXCEPT !.ext.isr[slot] = n], w, "ISR")
    BY <1>8 DEF SerialStartWrite, Way, way
  <2>3. way.req[w].RefCount = {}
    BY <1>5, <1>6
  <2> HIDE DEF timeouts, u, n, w, q, slot
  <2>4. Begins(way, SetReference([timed EXCEPT !.ext.isr[slot] = n], w, "ISR"),
               slot, w, n)
    BY <1>1, <1>2, <1>4, <1>7, <2>1, <2>3, BeginsByDirect
  <2> QED
    BY <2>2, <2>4
<1> HIDE DEF u
<1>10. SlotOk(u, ab, slot, "steady")
  <2>1. /\ way.req[w].issued /\ way.req[w].ended = 0
        /\ way.req[w].RefCount = {} /\ Fits(way.req[w].kind, slot)
        /\ way.req[w].onWire + n = way.req[w].length
    <3>1. q.issued /\ q.ended = 0 /\ Fits(q.kind, slot)
          /\ q.onWire = 0 /\ q.RefCount = {} /\ n = q.length
      BY <1>2, <1>6
    <3> HIDE DEF q, n, w, slot
    <3>2. q.onWire + n = q.length
      BY <1>7, <3>1
    <3> QED
      BY <1>5, <3>1, <3>2
  <2>2. slot # "xoff"
    BY <1>1
  <2>3. slot \in Slots /\ w \in Requests /\ n \in Nat /\ n > 0
    BY <1>1, <1>2, <1>7
  <2> HIDE DEF n, w, q, slot
  <2> QED
    BY <1>4, <1>9, <2>1, <2>2, <2>3, BeginsSteady
<1>11. Near(way, u, slot)
  BY <1>9 DEF Begins
<1>12. u.ext.current = way.ext.current /\ u \in StateType
       /\ way.ext.current[slot] \in Requests
  BY <1>2, <1>4, <1>11 DEF Near
<1>13. Whole(u, ab, [m EXCEPT ![slot] = "steady"])
  <2>1. Owed(u, ab)
    BY <1>3, <1>12 DEF Owed, Whole
  <2>2. Beside(way, u, slot)
    BY <1>11, NearBeside
  <2> QED
    BY <1>1, <1>3, <1>10, <1>12, <2>1, <2>2, BesideWhole DEF Modes
<1>14. Keeps(way, u)
  <2>1. \A r \in Requests : u.req[r].length = way.req[r].length
    BY <1>11 DEF Near
  <2> QED
    BY <1>11, <1>12, <2>1 DEF Near, Keeps
<1> QED
  BY <1>3, <1>13, <1>14, KeepsTransitive DEF u
=============================================================================
