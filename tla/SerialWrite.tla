---------------------------- MODULE SerialWrite ----------------------------
(***************************************************************************)
(* The transmit side of the WDK serial driver (wdk7-samples/serial):       *)
(* writes, IMMEDIATE_CHAR and XOFF_COUNTER requests, each shared by its    *)
(* cancel routine, its timer, the interrupt service routine and its DPC.   *)
(* A request carries one reference for each of these (RefCount), and who   *)
(* takes the last one away completes it and starts the next.               *)
(*                                                                         *)
(* The device is created with WdfSynchronizationScopeDevice: callbacks of  *)
(* queues, timers, DPCs and cancel routines exclude each other, so each is *)
(* one action.  The interrupt service routine runs between them; what it   *)
(* does inside one commutes with the rest of it, but for a character that  *)
(* comes between SerialGiveXoffToIsr and the start of the next write.      *)
(*                                                                         *)
(* Three requests are in work at a time, one for each slot: the current    *)
(* write, the XOFF counter that counts characters, the immediate one.      *)
(***************************************************************************)
EXTENDS Integers, FiniteSets, SequencesExt

CONSTANTS
  Requests,     (* the requests of the applications                        *)
  NoRequest,    (* NULL                                                    *)
  Batches,      (* what the requests may be                                *)
  WriteLengths, (* lengths of writes                                       *)
  Counter,      (* the characters an XOFF_COUNTER waits for                *)
  Fifo,         (* TxFifoAmount                                            *)
  TimeoutsSet,  (* the device may have total timeouts for writes or not    *)
  MaxOrders     (* bound: purges and flushes                               *)

Slots == {"write", "xoff", "immediate"}

Kinds == {"write", "immediate", "xoff", "timedXoff"}

XoffKinds == {"xoff", "timedXoff"}

ASSUME SerialAssumption ==
  /\ IsFiniteSet(Requests) /\ NoRequest \notin Requests
  /\ Batches \subseteq [Requests -> Kinds]
  /\ \A b \in Batches : \A r, x \in Requests :
       b[r] \in XoffKinds /\ b[x] \in XoffKinds => r = x
  /\ WriteLengths \subseteq Nat \ {0}
  /\ Counter \in Nat \ {0} /\ Fifo \in Nat \ {0}
  /\ TimeoutsSet \subseteq BOOLEAN
  /\ MaxOrders \in Nat

VARIABLES
  req,          (* REQUEST_CONTEXT of each request                         *)
  ext,          (* the device extension                                    *)
  flushing,     (* SerialFlush waits for the write queue to stop           *)
  orders,
  abandoned,    (* the XOFF counters whose timer has run out               *)
  history       (* how requests came to be left in the queue, see Past     *)

vars == <<req, ext, flushing, orders, abandoned, history>>

Past == {"paused", "delivered"}

Statuses == {"none", "SUCCESS", "CANCELLED", "TIMEOUT", "MORE_WRITES",
             "COUNTER_TIMEOUT", "INVALID"}

RequestType ==
  [kind : Kinds, length : WriteLengths \cup {1},
   RefCount : SUBSET {"ISR", "CANCEL", "TOTAL_TIMER", "XOFF_REF"},
   Status : Statuses,
   Information : Nat, Cancelled : BOOLEAN,
   CancelRoutine : Slots \cup {"none"},
   cancel : {"no", "armed", "called"},  (* what the framework knows of it  *)
   issued : BOOLEAN,
   ended : Nat,                         (* times it was completed          *)
   onWire : Nat]                        (* characters transmitted          *)

ExtensionType ==
  [current : [Slots -> Requests \cup {NoRequest}],
   WriteQueue : Seq(Requests),
   delivered : SUBSET Requests,  (* the driver's, out of the write queue   *)
   stopped : BOOLEAN,            (* the write queue delivers nothing       *)
   isr : [Slots -> Nat],         (* WriteLength, CountSinceXoff and        *)
                                 (* TransmitImmediate: what the ISR owns   *)
   timer : [Slots -> SUBSET {"queued", "fired"}],
   dpc : SUBSET Slots,           (* the completion DPCs that are queued    *)
   TotalCharsQueued : Int, Timeouts : BOOLEAN]

TypeOK ==
  /\ req \in [Requests -> RequestType]
  /\ ext \in ExtensionType
  /\ flushing \in BOOLEAN
  /\ orders \in 0 .. MaxOrders
  /\ abandoned \subseteq Requests
  /\ history \subseteq Past

IsXoff(r) == r.kind \in XoffKinds

(***************************************************************************)
(* The operators below take the state s = [req, ext] inside a callback and *)
(* return it changed.                                                      *)
(***************************************************************************)
SetReference(s, r, ref) ==
  [s EXCEPT !.req[r].RefCount = @ \cup {ref}]

ClearReference(s, r, ref) ==
  [s EXCEPT !.req[r].RefCount = @ \ {ref}]

SerialSetCancelRoutine(s, r, routine) ==
  SetReference([s EXCEPT !.req[r] = [s.req[r] EXCEPT
                                       !.cancel = "armed",
                                       !.CancelRoutine = routine]],
               r, "CANCEL")

(* The cancel routine is gone, and its reference with it.                  *)
Unmark(s, r) ==
  ClearReference([s EXCEPT !.req[r] = [s.req[r] EXCEPT
                                         !.cancel = "no",
                                         !.CancelRoutine = "none"]],
                 r, "CANCEL")

(* Fails when the framework has called the routine already, which then     *)
(* waits for the callback that runs now.                                   *)
SerialClearCancelRoutine(s, r) ==
  IF s.req[r].cancel = "armed" THEN Unmark(s, r) ELSE s

(* The timer takes a reference unless it had been running.                 *)
SerialSetTimer(s, slot, r) ==
  LET set == [s EXCEPT !.ext.timer[slot] = @ \cup {"queued"}]
  IN  IF "queued" \in s.ext.timer[slot] THEN set
      ELSE SetReference(set, r, "TOTAL_TIMER")

SerialCompleteRequest(s, r, status) ==
  [s EXCEPT !.req[r] = [s.req[r] EXCEPT !.ended = s.req[r].ended + 1,
                                        !.Status = status],
            !.ext.delivered = @ \ {r}]

(* Mutant: what is left is reported, not what was sent.                    *)
GrabFromIsrLeft(s, slot) ==
  LET r == s.ext.current[slot]
  IN  IF s.ext.isr[slot] = 0 THEN s
      ELSE ClearReference(
             [s EXCEPT !.ext.isr[slot] = 0,
                       !.req[r].Information =
                          IF slot = "write"
                            THEN s.ext.isr[slot] - s.req[r].length ELSE @],
             r, "ISR")

(* Mutant: the reference of the ISR stays.                                 *)
GrabFromIsrKeep(s, slot) == [s EXCEPT !.ext.isr[slot] = 0]

(* SerialGrabWriteFromIsr, SerialGrabXoffFromIsr and                       *)
(* SerialGrabImmediateFromIsr.                                             *)
GrabFromIsr(s, slot) ==
  LET r    == s.ext.current[slot]
      free == ClearReference([s EXCEPT !.ext.isr[slot] = 0], r, "ISR")
      sent == IF s.req[r].kind = "write"
                THEN s.req[r].length - s.ext.isr[slot] ELSE 0
  IN  IF s.ext.isr[slot] = 0 THEN s
      ELSE IF slot # "write" THEN free
      ELSE [free EXCEPT !.req[r].Information = sent]

(* Nothing comes from the cancel routine any more; the caller may be it.   *)
StopCancelRoutine(s, r, by) ==
  IF by = "CANCEL" THEN Unmark(s, r) ELSE SerialClearCancelRoutine(s, r)

(* The timer does not run any more, and its reference is gone.             *)
StopTimer(s, r, slot) ==
  ClearReference([s EXCEPT !.ext.timer[slot] = @ \ {"queued"}],
                 r, "TOTAL_TIMER")

(* Mutant: a timer that had fired is taken for stopped.                    *)
SerialRundownIrpRefsAll(s, r, timer, by) ==
  LET cleared == StopCancelRoutine(s, r, by)
  IN  IF timer # "none" THEN StopTimer(cleared, r, timer) ELSE cleared

(* Who holds a reference gives it up, or cannot be stopped any more and    *)
(* will come to give it up itself; by is the reference of the caller.      *)
SerialRundownIrpRefs(s, r, timer, by) ==
  LET cleared == StopCancelRoutine(s, r, by)
  IN  IF timer # "none" /\ \/ "queued" \in s.ext.timer[timer]
                           \/ by = "TOTAL_TIMER"
        THEN StopTimer(cleared, r, timer) ELSE cleared
-----------------------------------------------------------------------------
(***************************************************************************)
(* SerialTryToCompleteCurrent up to the test of the reference count.       *)
(***************************************************************************)
TryToComplete(s, slot, grab, timer, by, status) ==
  LET r    == s.ext.current[slot]
      mine == IF by \in {"ISR", "XOFF_REF"} THEN ClearReference(s, r, by)
              ELSE s
      got  == IF grab THEN GrabFromIsr(mine, slot) ELSE mine
      down == SerialRundownIrpRefs(got, r, timer, by)
  IN  IF status = "CANCELLED" THEN [down EXCEPT !.req[r].Cancelled = TRUE]
      ELSE down

(* The last reference is gone.                                             *)
Settled(s, slot) == s.req[s.ext.current[slot]].RefCount = {}

(* Mutant: a cancelled request reports what it had.                        *)
VerdictCounts(s, slot, status) ==
  [s EXCEPT !.req[s.ext.current[slot]].Status = status]

(* The status and the count the request will end with.                     *)
Verdict(s, slot, status) ==
  LET r == s.ext.current[slot]
  IN  IF status = "CANCELLED"
        THEN [s EXCEPT !.req[r] = [s.req[r] EXCEPT !.Status = status,
                                                   !.Information = 0]]
        ELSE [s EXCEPT !.req[r].Status = status]

(* A slot without a queue.                                                 *)
CompleteSlot(s, slot, status) ==
  LET r == s.ext.current[slot]
      v == Verdict(s, slot, status)
  IN  SerialCompleteRequest([v EXCEPT !.ext.current[slot] = NoRequest],
                            r, status)

(* XOFF counters: SerialCompleteXoff, SerialCancelCurrentXoff and the      *)
(* write that starts; only SerialTimeoutXoff does not name the timer.      *)
EndXoff(s, grab, timer, by, status) ==
  LET t == TryToComplete(s, "xoff", grab, timer, by, status)
  IN  IF Settled(t, "xoff") THEN CompleteSlot(t, "xoff", status) ELSE t

(* SerialGetNextImmediate                                                  *)
EndImmediate(s, grab, by, status) ==
  LET t == TryToComplete(s, "immediate", grab, "immediate", by, status)
  IN  IF Settled(t, "immediate")
        THEN [CompleteSlot(t, "immediate", status)
                EXCEPT !.ext.TotalCharsQueued = @ - 1]
        ELSE t

(* A received character counts for the XOFF counter (SerialPutChar).       *)
PutChar(s) ==
  LET r    == s.ext.current["xoff"]
      less == [s EXCEPT !.ext.isr["xoff"] = @ - 1]
      last == [less EXCEPT !.req[r] = [s.req[r] EXCEPT !.Status = "SUCCESS",
                                                       !.Information = 0],
                           !.ext.dpc = @ \cup {"xoff"}]
  IN  IF s.ext.isr["xoff"] = 0 THEN s
      ELSE IF s.ext.isr["xoff"] = 1 THEN last ELSE less

(* The current write goes to the ISR; an XOFF counter gives way to it.     *)
SerialStartWrite(s) ==
  LET w == s.ext.current["write"]
      x == s.ext.current["xoff"]
      way == IF x # NoRequest /\ s.req[x].RefCount # {}
               THEN EndXoff([s EXCEPT !.req[x].Information = 0], TRUE,
                            "xoff", "XOFF_REF", "MORE_WRITES")
               ELSE s
      fresh == SerialSetCancelRoutine(
                 [way EXCEPT !.req[w].RefCount = {}], w, "write")
      timed == IF s.ext.Timeouts THEN SerialSetTimer(fresh, "write", w)
               ELSE fresh
  IN  SetReference([timed EXCEPT !.ext.isr["write"] = s.req[w].length],
                   w, "ISR")

(* An XOFF counter whose character was sent starts to count.               *)
StartCounting(s, x) ==
  LET armed == SerialSetCancelRoutine(
                 [s EXCEPT !.ext.current["xoff"] = x], x, "xoff")
      given == SetReference([armed EXCEPT !.ext.isr["xoff"] = Counter],
                            x, "ISR")
  IN  IF s.req[x].kind = "timedXoff" THEN SerialSetTimer(given, "xoff", x)
      ELSE given

(* Mutant: no next write when the old one goes on as an XOFF counter.      *)
SerialGetNextRequestNot(s, complete) ==
  LET old   == s.ext.current["write"]
      queue == s.ext.WriteQueue
      none  == [s EXCEPT !.ext.current["write"] = NoRequest]
      next  == IF queue = <<>> \/ s.ext.stopped \/ ~complete THEN none
               ELSE [s EXCEPT !.ext.current["write"] = Head(queue),
                              !.ext.WriteQueue = Tail(queue),
                              !.ext.delivered = @ \cup {Head(queue)}]
  IN  IF complete THEN SerialCompleteRequest(next, old, s.req[old].Status)
      ELSE next

(* SerialGetNextRequest: the next write becomes current, if the framework  *)
(* gives one, and the old one is completed.                                *)
SerialGetNextRequest(s, complete) ==
  LET old   == s.ext.current["write"]
      queue == s.ext.WriteQueue
      next  == IF queue = <<>> \/ s.ext.stopped
                 THEN [s EXCEPT !.ext.current["write"] = NoRequest]
                 ELSE [s EXCEPT !.ext =
                         [s.ext EXCEPT
                            !.current["write"] = Head(queue),
                            !.WriteQueue = Tail(queue),
                            !.delivered = s.ext.delivered \cup {Head(queue)}]]
  IN  IF complete THEN SerialCompleteRequest(next, old, s.req[old].Status)
      ELSE next

(* SerialGetNextWrite, and the start of the next write.  If the XOFF       *)
(* counter has begun to count, its last character may come in between.     *)
SerialGetNextWrite(s, status, early) ==
  LET w    == s.ext.current["write"]
      v    == Verdict(s, "write", status)
      less == [v EXCEPT !.ext.TotalCharsQueued = @ - s.req[w].length]
      counts == IsXoff(s.req[w]) /\ status = "SUCCESS"
                                 /\ ~s.req[w].Cancelled
      on   == IF counts THEN StartCounting(less, w) ELSE less
      next == SerialGetNextRequest(on, ~counts)
  IN  IF next.ext.current["write"] = NoRequest THEN next
      ELSE SerialStartWrite(IF early THEN PutChar(next) ELSE next)

(* SerialCompleteWrite, SerialCancelCurrentWrite, SerialWriteTimeout       *)
EndWrite(s, grab, by, status, early) ==
  LET t == TryToComplete(s, "write", grab, "write", by, status)
  IN  IF Settled(t, "write") THEN SerialGetNextWrite(t, status, early)
      ELSE t

(* IsQueueEmpty asks the framework whether the queue is idle, which it is  *)
(* not as long as the driver has a request that came out of it.            *)
MayStart(s) ==
  /\ s.ext.current["write"] = NoRequest
  /\ s.ext.WriteQueue = <<>> /\ s.ext.delivered = {}

SerialStartOrQueue(s, r) ==
  LET more == [s EXCEPT !.ext.TotalCharsQueued = @ + s.req[r].length]
  IN  IF MayStart(s)
        THEN SerialStartWrite([more EXCEPT !.ext.current["write"] = r])
        ELSE [more EXCEPT !.ext.WriteQueue = Append(@, r)]

(* A second immediate character is refused.                                *)
StartImmediate(s, r) ==
  LET more  == [s EXCEPT !.ext.current["immediate"] = r,
                           !.ext.TotalCharsQueued = @ + 1]
      fresh == SerialSetCancelRoutine(more, r, "immediate")
      timed == IF s.ext.Timeouts THEN SerialSetTimer(fresh, "immediate", r)
               ELSE fresh
  IN  IF s.ext.current["immediate"] # NoRequest
        THEN SerialCompleteRequest(s, r, "INVALID")
        ELSE SetReference([timed EXCEPT !.ext.isr["immediate"] = 1],
                          r, "ISR")

(* Mutant: the characters of the request are not subtracted.               *)
SerialEvtCanceledOnQueueOnly(s, n) ==
  SerialCompleteRequest([s EXCEPT !.ext.WriteQueue = RemoveAt(@, n)],
                        s.ext.WriteQueue[n], "CANCELLED")

(* The framework takes the n-th request out of the write queue.            *)
SerialEvtCanceledOnQueue(s, n) ==
  LET r == s.ext.WriteQueue[n]
  IN  SerialCompleteRequest(
        [s EXCEPT !.ext.WriteQueue = RemoveAt(@, n),
                  !.ext.TotalCharsQueued = @ - s.req[r].length],
        r, "CANCELLED")

(* Who takes a slot to its end: the DPC of the ISR, a timer or a cancel    *)
(* routine.                                                                *)
EndSlot(s, slot, grab, by, status, early) ==
  IF slot = "write" THEN EndWrite(s, grab, by, status, early)
  ELSE IF slot = "xoff" THEN EndXoff(s, grab, slot, by, status)
  ELSE EndImmediate(s, grab, by, status)

(* SerialCancelCurrentWrite, SerialCancelCurrentXoff, SerialCancelImmediate *)
RunCancelRoutine(s, routine) ==
  EndSlot(s, routine, TRUE, "CANCEL", "CANCELLED", FALSE)

(* The current request of a slot, if its cancel routine can be taken away: *)
(* WdfIoQueuePurge calls it, or SerialPurgeRequests does.                  *)
CancelCurrent(s, slot) ==
  LET r == s.ext.current[slot]
  IN  IF r # NoRequest /\ s.req[r].cancel = "armed"
        THEN RunCancelRoutine(s, s.req[r].CancelRoutine) ELSE s

(* Each character of these requests, and how many they are.                *)
CharsOf(s, rs) == UNION {{r} \X (1 .. s.req[r].length) : r \in rs}

NumberOfChars(s, rs) == Cardinality(CharsOf(s, rs))

(* SerialEvtCanceledOnQueue for all that waits, whatever the order.        *)
WdfIoQueuePurge(s) ==
  LET gone == Range(s.ext.WriteQueue)
      Ended(r) == [s.req[r] EXCEPT !.ended = s.req[r].ended + 1,
                                   !.Status = "CANCELLED"]
  IN  [s EXCEPT !.req = [r \in Requests |-> IF r \in gone THEN Ended(r)
                                            ELSE s.req[r]],
                !.ext.WriteQueue = <<>>,
                !.ext.delivered = @ \ gone,
                !.ext.TotalCharsQueued = @ - NumberOfChars(s, gone)]

(* SerialFlushRequests for the write queue: all that waits in it is        *)
(* cancelled, then what is current, and the queue is started again.        *)
SerialPurgeRequests(s) ==
  [CancelCurrent(CancelCurrent(WdfIoQueuePurge(s), "write"), "xoff")
     EXCEPT !.ext.stopped = FALSE]
-----------------------------------------------------------------------------
State == [req |-> req, ext |-> ext]

(* A callback under the lock of the device.                                *)
Callback(s) == req' = s.req /\ ext' = s.ext

NewRequest(kind, length) ==
  [kind |-> kind, length |-> length, RefCount |-> {}, Status |-> "none",
   Information |-> 0, Cancelled |-> FALSE, CancelRoutine |-> "none",
   cancel |-> "no", issued |-> FALSE, ended |-> 0, onWire |-> 0]

Init ==
  /\ \E batch \in Batches : \E n \in WriteLengths :
       req = [r \in Requests |->
                NewRequest(batch[r], IF batch[r] = "write" THEN n ELSE 1)]
  /\ \E timeouts \in TimeoutsSet :
       ext = [current |-> [slot \in Slots |-> NoRequest],
              WriteQueue |-> <<>>, delivered |-> {}, stopped |-> FALSE,
              isr |-> [slot \in Slots |-> 0],
              timer |-> [slot \in Slots |-> {}], dpc |-> {},
              TotalCharsQueued |-> 0, Timeouts |-> timeouts]
  /\ flushing = FALSE /\ orders = 0
  /\ abandoned = {} /\ history = {}

(* SerialEvtIoWrite, IOCTL_SERIAL_XOFF_COUNTER                             *)
Write(r) ==
  /\ ~req[r].issued /\ req[r].kind # "immediate"
  /\ LET s == [State EXCEPT !.req[r].issued = TRUE]
     IN  Callback(SerialStartOrQueue(s, r))
  /\ history' = IF /\ ext.current["write"] = NoRequest
                   /\ ext.delivered # {} /\ ext.WriteQueue = <<>>
                  THEN history \cup {"delivered"} ELSE history
  /\ UNCHANGED <<flushing, orders, abandoned>>

(* IOCTL_SERIAL_IMMEDIATE_CHAR                                             *)
Immediate(r) ==
  /\ ~req[r].issued /\ req[r].kind = "immediate"
  /\ Callback(StartImmediate([State EXCEPT !.req[r].issued = TRUE], r))
  /\ UNCHANGED <<flushing, orders, abandoned, history>>

(* The interrupt of the empty transmitter; an immediate character goes     *)
(* first.  Flow control may hold it back for any time.                     *)
TransmitImmediate ==
  /\ ext.isr["immediate"] > 0
  /\ req' = [req EXCEPT ![ext.current["immediate"]].onWire = 1]
  /\ ext' = [ext EXCEPT !.isr["immediate"] = 0,
                        !.dpc = @ \cup {"immediate"}]
  /\ UNCHANGED <<flushing, orders, abandoned, history>>

TransmitWrite ==
  /\ ext.isr["write"] > 0 /\ ext.isr["immediate"] = 0
  /\ LET w    == ext.current["write"]
         n    == IF Fifo < ext.isr["write"] THEN Fifo ELSE ext.isr["write"]
         left == ext.isr["write"] - n
     IN  /\ req' = [req EXCEPT
              ![w].onWire = @ + n,
              ![w].Information = IF left = 0 THEN req[w].length ELSE @]
         /\ ext' = [ext EXCEPT
              !.isr["write"] = left,
              !.dpc = IF left = 0 THEN @ \cup {"write"} ELSE @]
  /\ UNCHANGED <<flushing, orders, abandoned, history>>

ReceiveChar ==
  /\ ext.isr["xoff"] > 0
  /\ Callback(PutChar(State))
  /\ UNCHANGED <<flushing, orders, abandoned, history>>

(* A write that ends while SerialFlush has stopped the queue finds none    *)
(* that could follow it.                                                   *)
Passed ==
  history' = IF /\ ext'.current["write"] = NoRequest
                /\ ext'.WriteQueue # <<>> /\ ext.stopped
               THEN history \cup {"paused"} ELSE history

(* SerialCompleteWrite, SerialCompleteXoff, SerialCompleteImmediate        *)
CompletionDpc(slot, early) ==
  /\ slot \in ext.dpc
  /\ LET s == [State EXCEPT !.ext.dpc = @ \ {slot}]
     IN  Callback(EndSlot(s, slot, FALSE, "ISR", "SUCCESS", early))
  /\ Passed
  /\ UNCHANGED <<flushing, orders, abandoned>>

TimerExpires(slot) ==
  /\ "queued" \in ext.timer[slot]
  /\ ext' = [ext EXCEPT !.timer[slot] = (@ \ {"queued"}) \cup {"fired"}]
  /\ UNCHANGED <<req, flushing, orders, abandoned, history>>

(* SerialWriteTimeout, SerialTimeoutImmediate                              *)
Timeout(slot) ==
  /\ slot # "xoff" /\ "fired" \in ext.timer[slot]
  /\ LET s == [State EXCEPT !.ext.timer[slot] = @ \ {"fired"}]
     IN  Callback(EndSlot(s, slot, TRUE, "TOTAL_TIMER", "TIMEOUT", FALSE))
  /\ Passed
  /\ UNCHANGED <<flushing, orders, abandoned>>

(* SerialTimeoutXoff hands no timer to SerialTryToCompleteCurrent.         *)
SerialTimeoutXoff ==
  /\ "fired" \in ext.timer["xoff"]
  /\ LET s == [State EXCEPT !.ext.timer["xoff"] = @ \ {"fired"}]
     IN  Callback(EndXoff(s, TRUE, "none", "TOTAL_TIMER",
                          "COUNTER_TIMEOUT"))
  /\ abandoned' = abandoned \cup {ext.current["xoff"]}
  /\ UNCHANGED <<flushing, orders, history>>

(* The application cancels: the framework takes a request out of the       *)
(* queue, or calls the cancel routine as soon as the lock is free.         *)
CancelRequest(r) ==
  /\ req[r].issued
  /\ \/ \E n \in DOMAIN ext.WriteQueue :
          /\ ext.WriteQueue[n] = r
          /\ Callback(SerialEvtCanceledOnQueue(State, n))
     \/ /\ req[r].cancel = "armed"
        /\ req' = [req EXCEPT ![r].cancel = "called"]
        /\ UNCHANGED ext
  /\ UNCHANGED <<flushing, orders, abandoned, history>>

CancelRoutine(r) ==
  /\ req[r].cancel = "called"
  /\ Callback(RunCancelRoutine(State, req[r].CancelRoutine))
  /\ Passed
  /\ UNCHANGED <<flushing, orders, abandoned>>

(* IOCTL_SERIAL_PURGE with SERIAL_PURGE_TXABORT                            *)
Purge ==
  /\ orders < MaxOrders /\ orders' = orders + 1
  /\ Callback(SerialPurgeRequests(State))
  /\ UNCHANGED <<flushing, abandoned, history>>

(* SerialFlush runs without the lock: it stops the queue, waits until the  *)
(* driver has no request from it, and starts it again.                     *)
SerialFlush ==
  /\ ~flushing /\ orders < MaxOrders
  /\ flushing' = TRUE /\ orders' = orders + 1
  /\ ext' = [ext EXCEPT !.stopped = TRUE]
  /\ UNCHANGED <<req, abandoned, history>>

FlushDone ==
  /\ flushing /\ ext.delivered = {}
  /\ flushing' = FALSE
  /\ ext' = [ext EXCEPT !.stopped = FALSE]
  /\ UNCHANGED <<req, orders, abandoned, history>>

Next ==
  \/ \E r \in Requests :
       Write(r) \/ Immediate(r) \/ CancelRequest(r) \/ CancelRoutine(r)
  \/ TransmitImmediate \/ TransmitWrite \/ ReceiveChar
  \/ \E slot \in Slots :
       \/ \E early \in BOOLEAN : CompletionDpc(slot, early)
       \/ TimerExpires(slot) \/ Timeout(slot)
  \/ SerialTimeoutXoff
  \/ Purge \/ SerialFlush \/ FlushDone

(* Weak fairness of TimerExpires, Timeout, SerialTimeoutXoff,              *)
(* CompletionDpc and CancelRoutine: timers expire and callbacks get the    *)
(* lock.  Each ends with what enables it gone, which nothing else takes    *)
(* away for good, so weak fairness says that it is gone again and again.   *)
(* No fairness for characters: flow control may hold them back, and nobody *)
(* need send any.                                                          *)
Fairness ==
  /\ \A slot \in Slots : /\ []<>(slot \notin ext.dpc)
                         /\ []<>("queued" \notin ext.timer[slot])
                         /\ []<>("fired" \notin ext.timer[slot])
  /\ \A r \in Requests : []<>(req[r].cancel # "called")

Spec == Init /\ [][Next]_vars

FairSpec == Spec /\ Fairness
-----------------------------------------------------------------------------
(***************************************************************************)
(* Properties.                                                             *)
(***************************************************************************)
InWork(r) == \E slot \in Slots : ext.current[slot] = r

Queued(r) == \E n \in DOMAIN ext.WriteQueue : ext.WriteQueue[n] = r

(* A request has a reference for the ISR, its cancel routine and its timer *)
(* as long as each may still come for it, and none otherwise: nobody comes *)
(* for a request that was completed, and who comes last completes it.      *)
(* SerialTimeoutXoff leaves its own reference behind.                      *)
RefsAreHeld ==
  /\ \A slot \in Slots :
       ext.isr[slot] > 0 \/ slot \in ext.dpc \/ ext.timer[slot] # {} =>
         ext.current[slot] # NoRequest
  /\ \A r \in Requests \ abandoned :
     LET Held(by(_)) == \E slot \in Slots :
                           ext.current[slot] = r /\ by(slot)
         Isr(slot)   == ext.isr[slot] > 0 \/ slot \in ext.dpc
         Timer(slot) == ext.timer[slot] # {}
         refs        == req[r].RefCount
     IN  /\ "ISR" \in refs <=> Held(Isr)
         /\ "TOTAL_TIMER" \in refs <=> Held(Timer)
         /\ "CANCEL" \in refs <=> req[r].cancel # "no"
         /\ "XOFF_REF" \notin refs
         /\ InWork(r) <=> refs # {}

(* "In the case of "a", then the timer itself will be coming along and     *)
(* decrement it's reference" (utils.c): a request keeps the reference of a *)
(* timer only as long as the timer runs or its callback is still to come.  *)
TimerGivesBack ==
  \A r \in Requests :
     "TOTAL_TIMER" \in req[r].RefCount =>
       \E slot \in Slots : ext.current[slot] = r /\ ext.timer[slot] # {}

(* TotalCharsQueued, from which GET_COMMSTATUS and ProcessEmptyTransmit    *)
(* tell what is left to send, counts the requests that are queued or are   *)
(* current, whichever of the ways they came and go.                        *)
CharsQueuedExact ==
  ext.TotalCharsQueued =
    NumberOfChars(State, {r \in Requests : \/ Queued(r)
                                           \/ r = ext.current["write"]
                                           \/ r = ext.current["immediate"]})

(* A request is completed at most once, by whoever comes last, and what    *)
(* it reports is what went over the wire: SUCCESS only if all of it, and   *)
(* for a write that timed out the characters the ISR had sent.             *)
EndsAsPromised ==
  \A r \in Requests :
     LET q == req[r]
     IN  /\ q.ended <= 1
         /\ q.ended = 1 =>
              /\ ~Queued(r) /\ q.RefCount = {} /\ q.cancel = "no"
              /\ q.Status \in {"SUCCESS", "MORE_WRITES"} =>
                   q.onWire = q.length
              /\ q.kind = "write" =>
                   q.Information = IF q.Status = "CANCELLED" THEN 0
                                   ELSE q.onWire

(* Writes wait only behind a current one, or the queue was stopped by      *)
(* SerialFlush when that ended, or it had delivered the XOFF counter that  *)
(* was in work when the write came.                                        *)
QueueServed ==
  ext.current["write"] = NoRequest /\ ext.WriteQueue # <<>> => history # {}

(* With total timeouts every write and every immediate character ends,     *)
(* even if flow control never lets it go: in whatever order timer, ISR,    *)
(* cancel routine and purge come, no reference is lost and the next write  *)
(* is started; those left in the queue excepted.                           *)
WriteEnds ==
  \A r \in Requests :
     ext.Timeouts /\ req[r].issued /\ req[r].kind \notin XoffKinds
       ~> req[r].ended = 1 \/ history # {}
=============================================================================
