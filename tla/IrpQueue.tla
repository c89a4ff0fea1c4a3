------------------------------ MODULE IrpQueue ------------------------------
(***************************************************************************)
(* One IRP queue of a com0com port (struct C0C_IRP_QUEUE) and every thread *)
(* that touches it: the dispatch threads that bring requests               *)
(* (FdoPortStartIrp), IoCancelIrp and the cancel routine it calls, the     *)
(* timer DPC, the transfer engine run on behalf of either port (ReadWrite) *)
(* and purge or cleanup (CancelQueue).                                     *)
(*                                                                         *)
(* A section under pIoLock is a sequence of steps of its holder.  Only the *)
(* I/O manager can interleave with it, and all it shares with the holder   *)
(* is the cancel state of a request, so each step makes at most one access *)
(* to that state and takes with it everything the lock alone protects.     *)
(*                                                                         *)
(* The bytes of a request are counted, not carried: how many of them a     *)
(* round of the transfer engine moves is any number, which covers buffers, *)
(* flow control and the other port.                                        *)
(***************************************************************************)
EXTENDS Integers, SequencesExt

CONSTANTS
  Irps,          (* the requests                                           *)
  NoIrp,         (* NULL                                                   *)
  Kinds,         (* the kinds of request the applications send             *)
  DataLength,    (* bytes of a read or of a write                          *)
  UlongRange,    (* stands for 2^32, the range of amountInWriteQueue       *)
  Cancellable,   (* the requests IoCancelIrp may be called for             *)
  MaxIo,         (* bound: transfers started by other handlers             *)
  MaxPurges,     (* bound: purges and cleanups                             *)
  MaxRounds,     (* bound: extra TryReadWrite rounds inside one ReadWrite  *)
  TotalTimeout,  (* the port has total timeouts set                        *)
  XoffTimeout    (* XOFF_COUNTER requests carry a timeout                  *)

WriteKinds == {"write", "flush", "immediate", "xoff"}

ASSUME IrpAssumption ==
  /\ NoIrp \notin Irps
  /\ Kinds \subseteq WriteKinds \cup {"read", "wait"}
  /\ DataLength \in Nat \ {0}
  /\ UlongRange \in Nat \ {0}
  /\ Cancellable \subseteq Irps
  /\ MaxIo \in Nat /\ MaxPurges \in Nat /\ MaxRounds \in Nat
  /\ TotalTimeout \in BOOLEAN /\ XoffTimeout \in BOOLEAN

VARIABLES
  kind,          (* what each request is                                   *)
  information,   (* IoStatus.Information                                   *)
  status,        (* IoStatus.Status                                        *)
  ioCancel,      (* IoCancelIrp: "no", "marked" (Cancel is TRUE), "done"   *)
  cancelRoutine, (* the requests whose cancel routine is set               *)
  completions,   (* calls of IoCompleteRequest for each request            *)
  flags,         (* IN_QUEUE, IS_CURRENT and EXPIRED                       *)
  pCurrent, queue,
  amountInWriteQueue,
  timer,         (* the total timer is set                                 *)
  lock,          (* the thread that holds pIoLock                          *)
  pc,            (* where each thread is                                   *)
  toComplete,    (* queueToComplete, a local of each thread                *)
  ret,           (* the status FdoPortStartIrp returns                     *)
  local,         (* the locals of the section under the lock               *)
  ios, purges

irpVars   == <<kind, information, status, completions, flags>>
queueVars == <<pCurrent, queue, amountInWriteQueue>>
vars == <<kind, information, status, ioCancel, cancelRoutine, completions,
          flags, pCurrent, queue, amountInWriteQueue, timer, lock, pc,
          toComplete, ret, local, ios, purges>>

(***************************************************************************)
(* Threads, and the values of the variables.                               *)
(***************************************************************************)
Starter(i)   == <<"start", i>>
Canceller(i) == <<"cancel", i>>
Dpc     == <<"dpc", NoIrp>>
Io      == <<"io", NoIrp>>
Purger  == <<"purge", NoIrp>>
Free    == <<"free", NoIrp>>
Threads == ({"start", "cancel"} \X Irps) \cup {Dpc, Io, Purger}

Labels == {"idle", "call", "check", "refuse", "more", "next", "restore",
           "recheck", "drop", "xoff", "sweep", "end", "purge", "complete"}

Status == {"none", "PENDING", "SUCCESS", "CANCELLED", "TIMEOUT",
           "MORE_WRITES", "INVALID", "COUNTER_TIMEOUT"}

Flags  == {"IN_QUEUE", "IS_CURRENT", "EXPIRED"}

NoLocal == [irp |-> NoIrp, first |-> TRUE, sent |-> FALSE, rounds |-> 0]

IsWriteQueue == \A i \in Irps : kind[i] \in WriteKinds

IsWaitQueue == \A i \in Irps : kind[i] = "wait"

TypeOK ==
  /\ kind \in [Irps -> Kinds]
  /\ information \in [Irps -> 0 .. DataLength]
  /\ status \in [Irps -> Status]
  /\ ioCancel \in [Irps -> {"no", "marked", "done"}]
  /\ cancelRoutine \subseteq Irps
  /\ completions \in [Irps -> Nat]
  /\ flags \in [Irps -> SUBSET Flags]
  /\ pCurrent \in Irps \cup {NoIrp}
  /\ queue \in Seq(Irps)
  /\ amountInWriteQueue \in 0 .. UlongRange - 1
  /\ timer \in BOOLEAN
  /\ lock \in Threads \cup {Free}
  /\ pc \in [Threads -> Labels]
  /\ toComplete \in [Threads -> Seq(Irps)]
  /\ ret \in [Irps -> Status]
  /\ local \in [irp : Irps \cup {NoIrp}, first : BOOLEAN,
                sent : BOOLEAN, rounds : 0 .. MaxRounds]
  /\ ios \in 0 .. MaxIo
  /\ purges \in 0 .. MaxPurges

\* One of the queues of the port: each holds the kinds of its own.
Init ==
  /\ \E queued \in {Kinds \cap WriteKinds, Kinds \cap {"read"},
                    Kinds \cap {"wait"}} : kind \in [Irps -> queued]
  /\ information = [i \in Irps |-> 0]
  /\ status = [i \in Irps |-> "none"]
  /\ ioCancel = [i \in Irps |-> "no"]
  /\ cancelRoutine = {}
  /\ completions = [i \in Irps |-> 0]
  /\ flags = [i \in Irps |-> {}]
  /\ pCurrent = NoIrp
  /\ queue = <<>>
  /\ amountInWriteQueue = 0
  /\ timer = FALSE
  /\ lock = Free
  /\ pc = [t \in Threads |-> "idle"]
  /\ toComplete = [t \in Threads |-> <<>>]
  /\ ret = [i \in Irps |-> "none"]
  /\ local = NoLocal
  /\ ios = 0
  /\ purges = 0

(***************************************************************************)
(* The requests.                                                           *)
(***************************************************************************)
\* Bytes the request is accounted for in amountInWriteQueue.
GetWriteLength(i) ==
  CASE kind[i] = "write" -> DataLength
    [] kind[i] \in {"immediate", "xoff"} -> 1
    [] OTHER -> 0

\* Bytes (or, for WAIT_ON_MASK, the event) the request waits for.
Length(i) ==
  CASE kind[i] = "read" -> DataLength
    [] kind[i] = "wait" -> 1
    [] OTHER -> GetWriteLength(i)

\* Mutant: a request that is continued starts over.
RestFromStart(i) == Length(i)

Rest(i) == Length(i) - information[i]

\* An XOFF_COUNTER whose XOFF character was sent and that now counts.
IsStartedXoff(i) == kind[i] = "xoff" /\ information[i] # 0

Sub(amount, n) == (amount - n) % UlongRange
Add(amount, n) == (amount + n) % UlongRange

\* SetIrpTimeout: FLUSH and WAIT_ON_MASK have no timeout.
SetIrpTimeout(i) ==
  IF kind[i] \in {"flush", "wait"} THEN timer ELSE TotalTimeout

(***************************************************************************)
(* The queue.  Each operator gives the new values of pCurrent, queue and   *)
(* flags as a record, for the step that performs the operation.            *)
(***************************************************************************)
Place(c, q, f) == [current |-> c, list |-> q, flags |-> f]

Here == Place(pCurrent, queue, flags)

\* Mutant: the old current request keeps IS_CURRENT.
ShiftFlagged(p) ==
  IF p.list = <<>>
  THEN Place(NoIrp, <<>>, p.flags)
  ELSE Place(Head(p.list), Tail(p.list),
             [p.flags EXCEPT ![Head(p.list)] =
                (@ \ {"IN_QUEUE"}) \cup {"IS_CURRENT"}])

\* pCurrent loses IS_CURRENT and the head of the list takes its place.
Shift(p) ==
  LET off == [i \in Irps |-> IF i = p.current
                             THEN p.flags[i] \ {"IS_CURRENT"} ELSE p.flags[i]]
  IN  IF p.list = <<>>
      THEN Place(NoIrp, <<>>, off)
      ELSE Place(Head(p.list), Tail(p.list),
                 [off EXCEPT ![Head(p.list)] =
                    (@ \ {"IN_QUEUE"}) \cup {"IS_CURRENT"}])

MakeCurrent(p, i) ==
  Place(i, p.list, [p.flags EXCEPT ![i] = @ \cup {"IS_CURRENT"}])

InsertTail(p, i) ==
  Place(p.current, Append(p.list, i),
        [p.flags EXCEPT ![i] = @ \cup {"IN_QUEUE"}])

\* Mutant: the current request goes to the tail.
PushCurrentLast(p) ==
  Place(NoIrp, Append(p.list, p.current),
        [p.flags EXCEPT ![p.current] =
           (@ \ {"IS_CURRENT"}) \cup {"IN_QUEUE"}])

\* The current request goes back to the head of the list.
PushCurrent(p) ==
  Place(NoIrp, <<p.current>> \o p.list,
        [p.flags EXCEPT ![p.current] =
           (@ \ {"IS_CURRENT"}) \cup {"IN_QUEUE"}])

\* RemoveEntryList: the entry leaves the list wherever it is.
Unlink(p, i) ==
  LET at == CHOOSE n \in DOMAIN p.list : p.list[n] = i
  IN  Place(p.current, RemoveAt(p.list, at),
            [p.flags EXCEPT ![i] = @ \ {"IN_QUEUE"}])

Put(p) ==
  /\ pCurrent' = p.current
  /\ queue' = p.list
  /\ flags' = p.flags

(***************************************************************************)
(* Control.                                                                *)
(***************************************************************************)
Goto(t, label) == pc' = [pc EXCEPT ![t] = label]

Acquire(t) == lock = Free /\ lock' = t

At(t, label) == lock = t /\ pc[t] = label

\* KeReleaseSpinLock; requests to give back are completed after it.
Leave(t, owes) ==
  /\ lock' = Free
  /\ Goto(t, IF owes THEN "complete" ELSE "idle")
  /\ local' = NoLocal

\* Mutant: the request is completed even if its cancel routine was taken.
CompleteIrpAnyway(t, i, st) ==
  /\ cancelRoutine' = cancelRoutine \ {i}
  /\ status' = [status EXCEPT ![i] = st]
  /\ toComplete' = [toComplete EXCEPT ![t] = Append(@, i)]

\* Mutant: the status is not set.
CompleteIrpNoStatus(t, i, st) ==
  /\ IF i \in cancelRoutine
     THEN /\ cancelRoutine' = cancelRoutine \ {i}
          /\ toComplete' = [toComplete EXCEPT ![t] = Append(@, i)]
     ELSE UNCHANGED <<cancelRoutine, toComplete>>
  /\ UNCHANGED status

\* IoSetCancelRoutine(i, NULL), and InsertTailList only if the routine was
\* still there: otherwise the cancel routine completes the request.
CompleteIrp(t, i, st) ==
  IF i \in cancelRoutine
  THEN /\ cancelRoutine' = cancelRoutine \ {i}
       /\ status' = [status EXCEPT ![i] = st]
       /\ toComplete' = [toComplete EXCEPT ![t] = Append(@, i)]
  ELSE UNCHANGED <<cancelRoutine, status, toComplete>>

(***************************************************************************)
(* The I/O manager: IoCancelIrp sets Cancel and then takes the cancel      *)
(* routine, if there is one to take.                                       *)
(***************************************************************************)
IoCancelMark(i) ==
  /\ i \in Cancellable
  /\ ioCancel[i] = "no" /\ completions[i] = 0
  /\ ioCancel' = [ioCancel EXCEPT ![i] = "marked"]
  /\ UNCHANGED <<irpVars, cancelRoutine, queueVars, timer, lock, pc,
                 toComplete, ret, local, ios, purges>>

IoCancelTake(i) ==
  /\ ioCancel[i] = "marked"
  /\ ioCancel' = [ioCancel EXCEPT ![i] = "done"]
  /\ IF i \in cancelRoutine
     THEN /\ cancelRoutine' = cancelRoutine \ {i}
          /\ Goto(Canceller(i), "call")
     ELSE UNCHANGED <<cancelRoutine, pc>>
  /\ UNCHANGED <<irpVars, queueVars, timer, lock, toComplete, ret, local,
                 ios, purges>>

(***************************************************************************)
(* FdoPortStartIrp.                                                        *)
(***************************************************************************)
StartEnter(i) ==
  LET t == Starter(i) IN
  /\ ret[i] = "none"
  /\ Acquire(t)
  /\ Goto(t, "check")
  /\ ret' = [ret EXCEPT ![i] = "PENDING"]
  /\ cancelRoutine' = cancelRoutine \cup {i}
  /\ flags' = [flags EXCEPT ![i] = {}]
  /\ UNCHANGED <<kind, information, status, completions, ioCancel, queueVars,
                 timer, toComplete, local, ios, purges>>

\* The request gets a status of its own; NoPending is the next step.
Refuse(i, st) ==
  /\ Goto(Starter(i), "refuse")
  /\ ret' = [ret EXCEPT ![i] = st]
  /\ UNCHANGED <<information, status, flags, queueVars, timer, lock, local>>

\* StartIrp up to the return of the start routine's own work on the request:
\* it becomes current and k bytes move at once.  Its cancel routine stays set.
StartIrp(t, i, k, p, amount) ==
  LET q   == MakeCurrent(p, i)
      all == k = Rest(i)
  IN
  /\ information' = [information EXCEPT ![i] = @ + k]
  /\ amountInWriteQueue' =
       IF IsWriteQueue THEN Sub(Add(amount, GetWriteLength(i)), k) ELSE amount
  /\ ret' = [ret EXCEPT ![i] = IF all /\ kind[i] # "xoff" THEN "SUCCESS"
                               ELSE "PENDING"]
  /\ timer' = IF all THEN timer ELSE SetIrpTimeout(i)
  /\ local' = [local EXCEPT !.first = ~all]
  /\ IF all /\ kind[i] \notin {"xoff", "wait"} THEN Put(Shift(q)) ELSE Put(q)
  /\ Goto(t, CASE all /\ kind[i] = "xoff" -> "xoff"
               [] all /\ kind[i] \notin {"xoff", "wait"} -> "next"
               [] OTHER -> "end")
  /\ UNCHANGED lock

\* Nothing is current: the request starts.  A WAIT_ON_MASK may find no wait
\* mask set and end at once.
StartFirst(i) ==
  /\ pCurrent = NoIrp
  /\ \/ /\ \E k \in 0 .. Rest(i) :
             StartIrp(Starter(i), i, k, Here, amountInWriteQueue)
        /\ UNCHANGED status
     \/ kind[i] = "wait" /\ Refuse(i, "INVALID")

\* An IMMEDIATE_CHAR goes before the current request, but not before another.
StartImmediate(i) ==
  /\ pCurrent # NoIrp /\ kind[i] = "immediate"
  /\ \/ kind[pCurrent] = "immediate" /\ Refuse(i, "INVALID")
     \/ /\ kind[pCurrent] # "immediate"
        /\ \E k \in 0 .. Rest(i) :
             StartIrp(Starter(i), i, k, PushCurrent(Here), amountInWriteQueue)
        /\ UNCHANGED status

\* Anything else waits for its turn.
StartLater(i) ==
  /\ pCurrent # NoIrp /\ kind[i] \notin {"wait", "immediate"}
  /\ ~IsStartedXoff(pCurrent)
  /\ Put(InsertTail(Here, i))
  /\ amountInWriteQueue' = Add(amountInWriteQueue, GetWriteLength(i))
  /\ status' = [status EXCEPT ![i] = "PENDING"]
  /\ Leave(Starter(i), FALSE)
  /\ UNCHANGED <<information, timer, ret>>

\* A counting XOFF_COUNTER lets a FLUSH pass and gives way to the others.
StartOverXoff(i) ==
  /\ pCurrent # NoIrp /\ kind[i] \notin {"wait", "immediate"}
  /\ IsStartedXoff(pCurrent)
  /\ IF kind[i] = "flush" THEN Refuse(i, "SUCCESS")
     ELSE /\ Put(Shift(InsertTail(Here, i)))
          /\ amountInWriteQueue' = Add(amountInWriteQueue, GetWriteLength(i))
          /\ local' = [local EXCEPT !.irp = pCurrent]
          /\ Goto(Starter(i), "more")
          /\ UNCHANGED <<information, status, timer, lock, ret>>

StartCheck(i) ==
  /\ At(Starter(i), "check")
  /\ IF ioCancel[i] # "no" THEN Refuse(i, "CANCELLED")
     ELSE \/ StartFirst(i)
          \/ StartImmediate(i)
          \/ StartLater(i)
          \/ StartOverXoff(i)
          \/ pCurrent # NoIrp /\ kind[i] = "wait" /\ Refuse(i, "INVALID")
  /\ UNCHANGED <<kind, completions, ioCancel, cancelRoutine, toComplete, ios,
                 purges>>

\* Mutant: the XOFF_COUNTER that gave way is not completed.
StartMoreForgets(i) ==
  LET t == Starter(i) IN
  /\ At(t, "more")
  /\ \E k \in 0 .. Rest(i) : StartIrp(t, i, k, Here, amountInWriteQueue)
  /\ UNCHANGED <<kind, status, completions, ioCancel, cancelRoutine,
                 toComplete, ios, purges>>

StartMore(i) ==
  LET t == Starter(i) IN
  /\ At(t, "more")
  /\ CompleteIrp(t, local.irp, "MORE_WRITES")
  /\ \E k \in 0 .. Rest(i) : StartIrp(t, i, k, Here, amountInWriteQueue)
  /\ UNCHANGED <<kind, completions, ioCancel, ios, purges>>

\* NoPending: the dispatch thread completes the request itself, unless the
\* cancel routine has been taken and will.
NoPending(i) ==
  IF i \in cancelRoutine
  THEN cancelRoutine' = cancelRoutine \ {i} /\ UNCHANGED ret
  ELSE ret' = [ret EXCEPT ![i] = "PENDING"] /\ UNCHANGED cancelRoutine

StartRefuse(i) ==
  /\ At(Starter(i), "refuse")
  /\ NoPending(i)
  /\ Leave(Starter(i), i \in cancelRoutine)
  /\ UNCHANGED <<irpVars, ioCancel, queueVars, timer, toComplete, ios, purges>>

\* The end of StartIrp.
StartEnd(i) ==
  LET t == Starter(i) IN
  /\ At(t, "end")
  /\ IF ret[i] = "PENDING"
     THEN /\ status' = [status EXCEPT ![i] = "PENDING"]
          /\ UNCHANGED <<information, cancelRoutine, ret, flags, queueVars>>
     ELSE /\ NoPending(i)
          /\ amountInWriteQueue' =
               IF i \in cancelRoutine /\ IsWriteQueue
               THEN Sub(amountInWriteQueue, GetWriteLength(i) - information[i])
               ELSE amountInWriteQueue
          /\ information' =
               IF i \in cancelRoutine /\ kind[i] \in {"immediate", "xoff"}
               THEN [information EXCEPT ![i] = 0] ELSE information
          /\ Put(IF pCurrent = i THEN Shift(Here) ELSE Here)
          /\ UNCHANGED status
  /\ Leave(t, toComplete[t] # <<>> \/ (ret[i] # "PENDING" /\ i \in cancelRoutine))
  /\ UNCHANGED <<kind, completions, ioCancel, timer, toComplete, ios, purges>>

(***************************************************************************)
(* The transfer engine: TryReadWrite (FdoPortIo for WAIT_ON_MASK) takes    *)
(* the requests one after the other, with the cancel routine off while it  *)
(* works on one.                                                           *)
(***************************************************************************)
EngineEmpty(t) ==
  /\ At(t, "next") /\ pCurrent = NoIrp
  /\ Goto(t, "end")
  /\ UNCHANGED <<irpVars, ioCancel, cancelRoutine, queueVars, timer, lock,
                 toComplete, ret, local, ios, purges>>

\* StartCurrentIrp skips a request whose cancel routine is about to run.
EngineSkip(t) ==
  /\ At(t, "next") /\ pCurrent # NoIrp /\ pCurrent \notin cancelRoutine
  /\ Put(Shift(Here))
  /\ local' = [local EXCEPT !.first = FALSE]
  /\ UNCHANGED <<kind, information, status, completions, ioCancel,
                 cancelRoutine, amountInWriteQueue, timer, lock, pc,
                 toComplete, ret, ios, purges>>

\* Mutant: an expired request never ends.
StopStatusNoTimeout(i, all) ==
  IF all /\ kind[i] # "xoff" THEN "SUCCESS" ELSE "PENDING"

\* Mutant: an expired request ends well, whatever it moved.
StopStatusSuccess(i, all) ==
  IF (all /\ kind[i] # "xoff") \/ "EXPIRED" \in flags[i]
  THEN "SUCCESS" ELSE "PENDING"

\* What StopCurrentIrp makes of a request after its bytes moved.
StopStatus(i, all) ==
  CASE all /\ kind[i] # "xoff" -> "SUCCESS"
    [] ~(all /\ kind[i] # "xoff") /\ "EXPIRED" \in flags[i] -> "TIMEOUT"
    [] OTHER -> "PENDING"

EngineWork(t) ==
  LET i == pCurrent IN
  /\ At(t, "next") /\ i \in cancelRoutine
  /\ cancelRoutine' = cancelRoutine \ {i}
  /\ \E k \in 0 .. Rest(i) :
       LET st == StopStatus(i, k = Rest(i)) IN
       /\ kind[i] = "wait" => k = Rest(i)
       /\ information' = [information EXCEPT ![i] = @ + k]
       /\ amountInWriteQueue' =
            IF IsWriteQueue THEN Sub(amountInWriteQueue, k)
            ELSE amountInWriteQueue
       /\ timer' = IF st = "PENDING" /\ ~local.first THEN SetIrpTimeout(i)
                   ELSE timer
       /\ IF st = "PENDING"
          THEN /\ Goto(t, "restore")
               /\ local' = [local EXCEPT !.irp = i,
                              !.sent = k > 0 /\ k = Rest(i)]
               /\ UNCHANGED <<pCurrent, queue, flags, status, toComplete>>
          ELSE /\ Put(Shift(Here))
               /\ status' = [status EXCEPT ![i] = st]
               /\ toComplete' = [toComplete EXCEPT ![t] = Append(@, i)]
               /\ local' = [local EXCEPT !.first = FALSE]
               /\ UNCHANGED pc
  /\ UNCHANGED <<kind, completions, ioCancel, lock, ret, ios, purges>>

\* The request stays current: its cancel routine comes back ...
EngineRestore(t) ==
  /\ At(t, "restore")
  /\ cancelRoutine' = cancelRoutine \cup {local.irp}
  /\ Goto(t, "recheck")
  /\ UNCHANGED <<irpVars, ioCancel, queueVars, timer, lock, toComplete, ret,
                 local, ios, purges>>

\* Mutant: a cancel that came meanwhile goes unnoticed.
EngineRecheckNothing(t) ==
  /\ At(t, "recheck")
  /\ Goto(t, IF local.sent THEN "xoff" ELSE "end")
  /\ UNCHANGED <<irpVars, ioCancel, cancelRoutine, queueVars, timer, lock,
                 toComplete, ret, local, ios, purges>>

\* ... and a cancel that came meanwhile is noticed.
EngineRecheck(t) ==
  /\ At(t, "recheck")
  /\ IF ioCancel[local.irp] # "no"
     THEN Put(Shift(Here)) /\ Goto(t, "drop")
     ELSE /\ Goto(t, IF local.sent THEN "xoff" ELSE "end")
          /\ UNCHANGED <<pCurrent, queue, flags>>
  /\ UNCHANGED <<kind, information, status, completions, ioCancel,
                 cancelRoutine, amountInWriteQueue, timer, lock, toComplete,
                 ret, local, ios, purges>>

EngineDrop(t) ==
  /\ At(t, "drop")
  /\ CompleteIrp(t, local.irp, "CANCELLED")
  /\ local' = [local EXCEPT !.first = FALSE]
  /\ Goto(t, "next")
  /\ UNCHANGED <<kind, information, completions, flags, ioCancel, queueVars,
                 timer, lock, ret, ios, purges>>

\* StartXoffCounter: the XOFF character is sent and the counter starts ...
XoffSent(t) ==
  /\ At(t, "xoff")
  /\ local' = [local EXCEPT !.irp = pCurrent, !.sent = FALSE]
  /\ Put(Shift(Here))
  /\ Goto(t, "sweep")
  /\ UNCHANGED <<kind, information, status, completions, ioCancel,
                 cancelRoutine, amountInWriteQueue, timer, lock, toComplete,
                 ret, ios, purges>>

\* ... once the FLUSHes queued behind it are through, if nothing else is.
XoffSweep(t) ==
  /\ At(t, "sweep")
  /\ \/ /\ pCurrent = NoIrp
        /\ Put(MakeCurrent(Here, local.irp))
        /\ timer' = XoffTimeout
        /\ Goto(t, "end")
        /\ UNCHANGED <<cancelRoutine, status, toComplete, local>>
     \/ /\ pCurrent # NoIrp /\ kind[pCurrent] = "flush"
        /\ Put(Shift(Here))
        /\ CompleteIrp(t, pCurrent, "SUCCESS")
        /\ UNCHANGED <<timer, pc, local>>
     \/ /\ pCurrent # NoIrp /\ kind[pCurrent] # "flush"
        /\ CompleteIrp(t, local.irp, "MORE_WRITES")
        /\ local' = [local EXCEPT !.first = FALSE]
        /\ Goto(t, "next")
        /\ UNCHANGED <<pCurrent, queue, flags, timer>>
  /\ UNCHANGED <<kind, information, completions, ioCancel, amountInWriteQueue,
                 lock, ret, ios, purges>>

\* ReadWrite tries again when what moved released the flow control of a port.
EngineAgain(t) ==
  /\ At(t, "end") /\ ~IsWaitQueue /\ local.rounds < MaxRounds
  /\ local' = [NoLocal EXCEPT !.rounds = local.rounds + 1]
  /\ Goto(t, "next")
  /\ UNCHANGED <<irpVars, ioCancel, cancelRoutine, queueVars, timer, lock,
                 toComplete, ret, ios, purges>>

EngineLeave(t) ==
  /\ At(t, "end") /\ t[1] # "start"
  /\ Leave(t, toComplete[t] # <<>>)
  /\ UNCHANGED <<irpVars, ioCancel, cancelRoutine, queueVars, timer,
                 toComplete, ret, ios, purges>>

Engine(t) ==
  \/ EngineEmpty(t) \/ EngineSkip(t) \/ EngineWork(t) \/ EngineRestore(t)
  \/ EngineRecheck(t) \/ EngineDrop(t) \/ XoffSent(t) \/ XoffSweep(t)
  \/ EngineAgain(t) \/ EngineLeave(t)

(***************************************************************************)
(* The other handlers.                                                     *)
(***************************************************************************)
\* Mutant: a queued request is not removed from the queue.
CancelRoutineNoUnlink(i) ==
  LET t == Canceller(i) IN
  /\ pc[t] = "call"
  /\ status' = [status EXCEPT ![i] = "CANCELLED"]
  /\ toComplete' = [toComplete EXCEPT ![t] = Append(@, i)]
  /\ IF "IS_CURRENT" \in flags[i]
     THEN Put(Shift(Here)) ELSE Put(Here)
  /\ IF "IS_CURRENT" \in flags[i] /\ IsWriteQueue
     THEN Acquire(t) /\ Goto(t, "next") /\ UNCHANGED local
     ELSE lock = Free /\ Leave(t, TRUE)
  /\ UNCHANGED <<kind, information, completions, ioCancel, cancelRoutine,
                 amountInWriteQueue, timer, ret, ios, purges>>

CancelRoutine(i) ==
  LET t == Canceller(i)
      p == IF "IN_QUEUE" \in flags[i] THEN Unlink(Here, i) ELSE Here
  IN
  /\ pc[t] = "call"
  /\ status' = [status EXCEPT ![i] = "CANCELLED"]
  /\ toComplete' = [toComplete EXCEPT ![t] = Append(@, i)]
  /\ IF "IS_CURRENT" \in flags[i]
     THEN Put(Shift(p)) ELSE Put(p)
  /\ IF "IS_CURRENT" \in flags[i] /\ IsWriteQueue
     THEN Acquire(t) /\ Goto(t, "next") /\ UNCHANGED local
     ELSE lock = Free /\ Leave(t, TRUE)
  /\ UNCHANGED <<kind, information, completions, ioCancel, cancelRoutine,
                 amountInWriteQueue, timer, ret, ios, purges>>

\* The total timer expires and queues its DPC.
TimerFire ==
  /\ timer /\ pc[Dpc] = "idle"
  /\ timer' = FALSE
  /\ Goto(Dpc, "call")
  /\ UNCHANGED <<irpVars, ioCancel, cancelRoutine, queueVars, lock,
                 toComplete, ret, local, ios, purges>>

TimeoutRoutine ==
  /\ pc[Dpc] = "call"
  /\ IF pCurrent # NoIrp
     THEN /\ Acquire(Dpc) /\ Goto(Dpc, "next")
          /\ flags' = [flags EXCEPT ![pCurrent] = @ \cup {"EXPIRED"}]
          /\ UNCHANGED local
     ELSE lock = Free /\ Leave(Dpc, FALSE) /\ UNCHANGED flags
  /\ UNCHANGED <<kind, information, status, completions, ioCancel,
                 cancelRoutine, queueVars, timer, toComplete, ret, ios,
                 purges>>

\* Another handler of either port runs the engine.
IoEnter ==
  /\ pc[Io] = "idle" /\ ios < MaxIo
  /\ Acquire(Io)
  /\ ios' = ios + 1
  /\ Goto(Io, "next")
  /\ UNCHANGED <<irpVars, ioCancel, cancelRoutine, queueVars, timer,
                 toComplete, ret, local, purges>>

\* OnRxChars: the counting XOFF_COUNTER has seen its last character.
IoXoffCounted ==
  /\ pc[Io] = "idle" /\ ios < MaxIo
  /\ lock = Free /\ pCurrent # NoIrp /\ IsStartedXoff(pCurrent)
  /\ ios' = ios + 1
  /\ Put(Shift(Here))
  /\ CompleteIrp(Io, pCurrent, "SUCCESS")
  /\ Leave(Io, pCurrent \in cancelRoutine)
  /\ UNCHANGED <<kind, information, completions, ioCancel, amountInWriteQueue,
                 timer, ret, purges>>

PurgeEnter ==
  /\ pc[Purger] = "idle" /\ purges < MaxPurges
  /\ Acquire(Purger)
  /\ purges' = purges + 1
  /\ Goto(Purger, "purge")
  /\ UNCHANGED <<irpVars, ioCancel, cancelRoutine, queueVars, timer,
                 toComplete, ret, local, ios>>

CancelQueue ==
  /\ At(Purger, "purge")
  /\ IF pCurrent # NoIrp
     THEN /\ Put(Shift(Here))
          /\ CompleteIrp(Purger, pCurrent, "CANCELLED")
          /\ UNCHANGED <<pc, lock, local>>
     ELSE /\ Leave(Purger, toComplete[Purger] # <<>>)
          /\ UNCHANGED <<pCurrent, queue, flags, cancelRoutine, status,
                         toComplete>>
  /\ UNCHANGED <<kind, information, completions, ioCancel, amountInWriteQueue,
                 timer, ret, ios, purges>>

(***************************************************************************)
(* After the lock: FdoPortCompleteQueue, and the end of a dispatch.        *)
(***************************************************************************)
\* Mutant: amountInWriteQueue loses the whole length once more.
CompleteOneWhole(t) ==
  LET i == Head(toComplete[t]) IN
  /\ pc[t] = "complete" /\ toComplete[t] # <<>>
  /\ lock = Free
  /\ toComplete' = [toComplete EXCEPT ![t] = Tail(@)]
  /\ amountInWriteQueue' = Sub(amountInWriteQueue, GetWriteLength(i))
  /\ completions' = [completions EXCEPT ![i] = @ + 1]
  /\ Goto(t, IF Len(toComplete[t]) = 1 /\ (t[1] = "start" => ret[t[2]] = "PENDING")
             THEN "idle" ELSE "complete")
  /\ UNCHANGED <<kind, information, status, flags, ioCancel, cancelRoutine,
                 pCurrent, queue, timer, lock, ret, local, ios, purges>>

CompleteOne(t) ==
  LET i == Head(toComplete[t])
      st == IF status[i] = "TIMEOUT" /\ IsStartedXoff(i)
            THEN "COUNTER_TIMEOUT" ELSE status[i]
  IN
  /\ pc[t] = "complete" /\ toComplete[t] # <<>>
  /\ IsWriteQueue => lock = Free
  /\ toComplete' = [toComplete EXCEPT ![t] = Tail(@)]
  /\ amountInWriteQueue' =
       IF IsWriteQueue
       THEN Sub(amountInWriteQueue, GetWriteLength(i) - information[i])
       ELSE amountInWriteQueue
  /\ status' = [status EXCEPT ![i] = st]
  /\ information' =
       [information EXCEPT ![i] =
          IF st = "CANCELLED" \/ kind[i] \in {"immediate", "xoff"}
          THEN 0 ELSE @]
  /\ completions' = [completions EXCEPT ![i] = @ + 1]
  /\ Goto(t, IF Len(toComplete[t]) = 1 /\ (t[1] = "start" => ret[t[2]] = "PENDING")
             THEN "idle" ELSE "complete")
  /\ UNCHANGED <<kind, flags, ioCancel, cancelRoutine, pCurrent, queue, timer,
                 lock, ret, local, ios, purges>>

\* The dispatch routine completes the request when it is not pending.
Return(i) ==
  LET t == Starter(i) IN
  /\ pc[t] = "complete" /\ toComplete[t] = <<>> /\ ret[i] # "PENDING"
  /\ Goto(t, "idle")
  /\ status' = [status EXCEPT ![i] = ret[i]]
  /\ completions' = [completions EXCEPT ![i] = @ + 1]
  /\ UNCHANGED <<kind, information, flags, ioCancel, cancelRoutine, queueVars,
                 timer, lock, toComplete, ret, local, ios, purges>>

Start(i) ==
  StartCheck(i) \/ StartMore(i) \/ StartRefuse(i) \/ StartEnd(i) \/ Return(i)

Next ==
  \/ \E i \in Irps : \/ IoCancelMark(i) \/ IoCancelTake(i)
                     \/ StartEnter(i) \/ Start(i) \/ CancelRoutine(i)
  \/ \E t \in Threads : Engine(t) \/ CompleteOne(t)
  \/ TimerFire \/ TimeoutRoutine
  \/ IoEnter \/ IoXoffCounted
  \/ PurgeEnter \/ CancelQueue

\* Every thread of the driver runs on, a timer that is set expires, and
\* IoCancelIrp finishes; nothing makes an application send or cancel.
Fairness ==
  /\ \A i \in Irps : /\ WF_vars(IoCancelTake(i))
                     /\ WF_vars(Start(i))
                     /\ WF_vars(CancelRoutine(i))
  /\ \A t \in Threads : WF_vars(Engine(t)) /\ WF_vars(CompleteOne(t))
  /\ WF_vars(TimerFire) /\ WF_vars(TimeoutRoutine)
  /\ WF_vars(CancelQueue)

Spec == Init /\ [][Next]_vars

FairSpec == Spec /\ Fairness

(***************************************************************************)
(* Properties.                                                             *)
(***************************************************************************)
InQueue(i) == \E n \in DOMAIN queue : queue[n] = i

InToComplete(t, i) == \E n \in DOMAIN toComplete[t] : toComplete[t][n] = i

\* The request was accepted and the driver owes it a completion.
Owed(i) == /\ ret[i] = "PENDING" /\ completions[i] = 0
           /\ pc[Starter(i)] # "check"

\* The places from which a request can still be completed.
Owners(i) ==
  (IF pCurrent = i THEN {<<"current", i>>} ELSE {}) \cup
  (IF InQueue(i) THEN {<<"queue", i>>} ELSE {}) \cup
  (IF pc[Canceller(i)] = "call" THEN {Canceller(i)} ELSE {}) \cup
  {t \in Threads : InToComplete(t, i)}

\* A request is completed at most once, and once it is nobody is left to do
\* it again: its cancel routine is not set, was not called, and no completion
\* list holds it (CompleteIrp, StopCurrentIrp, NoPending and CancelRoutine
\* against each other, each after it took the cancel routine).
CompletedOnce ==
  \A i \in Irps :
    /\ completions[i] <= 1
    /\ completions[i] = 1 => /\ i \notin cancelRoutine
                             /\ pc[Canceller(i)] # "call"
                             /\ \A t \in Threads : ~InToComplete(t, i)

\* The queue does not refer to a request that was given back.
Released ==
  \A i \in Irps : completions[i] = 1 => pCurrent # i /\ ~InQueue(i)

\* Whenever pIoLock is free, a pending request has somebody who will complete
\* it: it is current or queued with its cancel routine set, or a thread is on
\* its way to complete it.  No cancel and no purge lets one fall between.
PendingIsOwned ==
  lock = Free =>
    \A i \in Irps : Owed(i) =>
      /\ Owners(i) # {}
      /\ Owners(i) \subseteq {<<"current", i>>, <<"queue", i>>} => i \in cancelRoutine

\* The flags CancelRoutine decides by tell where the request really is.
FlagsMatch ==
  \A i \in Irps :
    /\ "IN_QUEUE" \in flags[i] <=> InQueue(i)
    /\ "IS_CURRENT" \in flags[i] <=> pCurrent = i

\* The bytes still to move of the requests that the write queue holds.
BytesOwed ==
  MapThenSumSet(LAMBDA i : GetWriteLength(i) - information[i],
                {i \in Irps : Owed(i)})

\* AmountInOutQueue of SERIAL_STATUS (amountInWriteQueue) is what is left to
\* send, however requests were queued, restarted, preempted and completed.
AmountExact == lock = Free => amountInWriteQueue = BytesOwed % UlongRange

\* The device has nothing left to do for any request.
Quiet == lock = Free /\ \A i \in Irps : Owners(i) = {} /\ ~Owed(i)

\* When the last request is gone nothing is left to send: FdoPortOpen warns
\* when it finds amountInWriteQueue other than zero.
NothingLeftToSend == Quiet => amountInWriteQueue = 0

\* The line of requests to serve: the current one, then the list.
InLine(i) == pCurrent = i \/ InQueue(i)

Ahead(i, j) ==
  \/ pCurrent = i /\ InQueue(j)
  \/ \E m, n \in DOMAIN queue : m < n /\ queue[m] = i /\ queue[n] = j

\* Whoever ends the request has taken its cancel routine, or it is the one the
\* holder of the lock is busy with.
GivenUp(i) == i \notin cancelRoutine \/ local.irp = i

\* Overlapped requests are processed in the order of their arrival.  A request
\* joins the line behind everybody there, an IMMEDIATE_CHAR before everybody;
\* it stays behind those that are ahead of it until they are given up, and
\* moves nothing while somebody is (FdoPortStartIrp and ShiftQueue, whoever
\* queues, preempts, cancels, purges and completes).
InOrder ==
  [][\A i, j \in Irps :
       /\ i # j /\ InLine(i) /\ ~InLine(j) /\ InLine(i)' /\ InLine(j)' =>
            IF kind[j] = "immediate" THEN Ahead(j, i)' ELSE Ahead(i, j)'
       /\ Ahead(i, j) /\ InLine(j)' =>
            Ahead(i, j)' \/ (~InLine(i)' /\ GivenUp(i)')
       /\ Ahead(i, j)' => information'[j] <= information[j]]_vars

\* A second round of ReadWrite inside a dispatch may end the request that is
\* dispatched, and StartIrp then writes STATUS_PENDING over its status.  It
\* hides no failure: a request that is given back without a final status got
\* all it asked for, or somebody cancelled it.  No timeout, no purge and no
\* other thread ends a request so.
PendingIsWhole ==
  [][\A i \in Irps :
       completions'[i] > completions[i] /\ status'[i] \in {"none", "PENDING"} =>
         information[i] = Length(i) \/ ioCancel[i] # "no"]_vars

\* After IoCompleteRequest the IRP is no longer the driver's: no step writes
\* to it.
UntouchedAfterCompletion ==
  [][\A i \in Irps : completions[i] > 0 =>
       UNCHANGED <<status[i], information[i], flags[i]>>]_vars

\* A cancel is never lost: once all threads are done, wherever IoCancelIrp
\* came (the routine off, put back, not yet set), the request is completed.
CancelledEnds ==
  (\A t \in Threads : pc[t] = "idle") =>
    \A i \in Irps :
      ioCancel[i] = "done" /\ ret[i] # "none" => completions[i] = 1

\* With total timeouts every request that has one ends, even if nothing is
\* ever read or sent and nobody cancels.
TimeoutEnds ==
  \A i \in Irps :
     ret[i] # "none" /\ kind[i] # "wait" ~> completions[i] = 1

\* The driver has given its verdict: IoCompleteRequest was called, or the
\* dispatch routine is on its way to call it with the status it returns.
Decided(i) ==
  completions[i] > 0 \/ (pc[Starter(i)] = "complete" /\ ret[i] # "PENDING")

Verdict(i) == IF completions[i] > 0 THEN status[i] ELSE ret[i]

\* What the applications see: each request completed at most once, with a
\* status its history justifies and the count of the bytes that moved.
Promise ==
  INSTANCE Requests WITH
    Timeouts <- TotalTimeout \/ XoffTimeout,
    sent     <- {i \in Irps : ret[i] # "none"},
    endings  <- [i \in Irps |-> IF completions[i] = 0 /\ Decided(i) THEN 1
                                ELSE completions[i]],
    moved    <- information,
    outcome  <- [i \in Irps |-> IF Decided(i) THEN Verdict(i) ELSE "none"],
    asked    <- [i \in Irps |-> ioCancel[i] # "no"],
    purged   <- purges > 0

\* The queue keeps the promise of module Requests.
KeepsPromise == Promise!Spec
=============================================================================
