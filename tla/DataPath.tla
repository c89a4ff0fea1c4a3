------------------------------ MODULE DataPath ------------------------------
(***************************************************************************)
(* The data path of a pair of com0com ports in one direction: from the     *)
(* write requests of one port through its transmit buffer (txBuf, a ring   *)
(* that stands for FIFO and shift register) and the receive buffer         *)
(* (readBuf) of the other to the read requests there, as TryReadWrite      *)
(* moves it.                                                               *)
(*                                                                         *)
(* All of it runs under pIoLock.  A section under the lock is a sequence   *)
(* of steps, one for each iteration of the loops of TryReadWrite and of    *)
(* the copies it calls: phase tells where it is, and is "free" while       *)
(* nobody holds the lock.                                                  *)
(*                                                                         *)
(* Characters are numbered in the order they are written.  Those in        *)
(* Dropped are the ones the receiver strips (NULLs, or XON and XOFF).      *)
(***************************************************************************)
EXTENDS Integers, SequencesExt, Filter

CONSTANTS
  MaxChars,    (* bound: characters ever written                           *)
  RxSize,      (* C0C_BUFFER_SIZE of readBuf                               *)
  TxSize,      (* C0C_TX_BUFFER_SIZE: TX FIFO and shift register           *)
  Lengths,     (* lengths of the read and write requests                   *)
  MaxReads, MaxWrites,  (* bounds: requests in the queues                  *)
  MaxAborts,   (* bound: cancels, timeouts of writes, and purges           *)
  Settings     (* how the two ports may be configured                      *)

(***************************************************************************)
(* A configuration: dropped, the characters the receiver strips; rxLimit,  *)
(* the limit of readBuf, which RTS and DTR handshake lower; readMode, when *)
(* a read ends by itself ("all": full; "one": WAIT_ONE, something is       *)
(* there; "now": at once); expires, reads may time out; emuBR, baud rate   *)
(* emulation (pWriteDelay is not NULL); emuOverrun, what finds no room is  *)
(* lost; mayHold, flow control may hold the writer.                        *)
(***************************************************************************)
ASSUME DataAssumption ==
  /\ MaxChars \in Nat /\ RxSize \in Nat
  /\ TxSize \in Nat /\ TxSize >= 2
  /\ Lengths \subseteq Nat \ {0}
  /\ MaxReads \in Nat /\ MaxWrites \in Nat /\ MaxAborts \in Nat
  /\ Settings \subseteq
       [dropped : SUBSET (1 .. MaxChars), rxLimit : 0 .. RxSize,
        readMode : {"all", "one", "now"}, expires : BOOLEAN,
        emuBR : BOOLEAN, emuOverrun : BOOLEAN, mayHold : BOOLEAN]

VARIABLES
  port,     (* the configuration                                           *)
  written,  (* how many characters were written                            *)
  writes,   (* what is left of each write request, pCurrent first          *)
  tx, txAt, (* txBuf: its characters, and pBusy - pBase                    *)
  rx,       (* readBuf                                                     *)
  reads,    (* the read requests, pCurrent first                           *)
  taken,    (* the characters of the completed reads                       *)
  holding,  (* writeHolding of the writing port                            *)
  phase,    (* where the holder of pIoLock is                              *)
  limit,    (* writeLimit; without emuBR as large as ever needed        *)
  expired,  (* EXPIRED is set for the current read                         *)
  aborts

vars == <<port, written, writes, tx, txAt, rx, reads, taken, holding, phase,
          limit, expired, aborts>>

Chars  == 1 .. MaxChars
Phases == {"free", "rx", "tx", "send", "direct", "buffer"}

TypeOK ==
  /\ port \in Settings
  /\ written \in 0 .. MaxChars
  /\ writes \in Seq(Seq(Chars)) /\ Len(writes) <= MaxWrites
  /\ tx \in Seq(Chars) /\ Len(tx) <= TxSize
  /\ txAt \in 0 .. TxSize - 1
  /\ rx \in Seq(Chars) /\ Len(rx) <= port.rxLimit
  /\ reads \in Seq([length : Lengths, got : Seq(Chars)])
  /\ Len(reads) <= MaxReads
  /\ \A i \in 1 .. Len(reads) : Len(reads[i].got) <= reads[i].length
  /\ taken \in Seq(Chars)
  /\ holding \in BOOLEAN /\ expired \in BOOLEAN
  /\ phase \in Phases
  /\ limit \in 0 .. MaxChars
  /\ aborts \in 0 .. MaxAborts

Least(a, b) == IF a < b THEN a ELSE b

First(s, n) == SubSeq(s, 1, n)
Rest(s, n)  == SubSeq(s, n + 1, Len(s))

(***************************************************************************)
(* CopyCharsWithEscape: the filter passes these of the characters, and the *)
(* loop takes characters from src as long as there is room for the next.   *)
(***************************************************************************)
Kept(src) == Without(src, port.dropped)

ConsumedByCount(src, room) == Least(Len(src), room)

Consumed(src, room) ==
  Max({0} \cup {k \in 1 .. Len(src) : Len(Kept(First(src, k - 1))) < room})

(***************************************************************************)
(* WriteToBuffer: how much of src goes, and what of it is stored.  What    *)
(* finds the buffer full is consumed all the same if overrun is emulated.  *)
(***************************************************************************)
RxRoomShort == Max({0, port.rxLimit - Len(rx) - 1})

RxRoom == port.rxLimit - Len(rx)

Accepted(src) ==
  IF port.emuOverrun /\ port.rxLimit = RxSize
    THEN Len(src) ELSE Consumed(src, RxRoom)

Stored(src) ==
  LET kept == Kept(First(src, Accepted(src)))
  IN  First(kept, Least(RxRoom, Len(kept)))

(* The next stretch of txBuf: up to the end of the ring and the limit.     *)
Chunk == First(tx, Least(Least(Len(tx), TxSize - txAt), limit))

SentFromTx(n) ==
  /\ tx' = Rest(tx, n)
  /\ txAt' = (txAt + n) % TxSize
  /\ limit' = limit - n

(***************************************************************************)
(* The current read: what it can still take, and when it ends.             *)
(***************************************************************************)
ReadRoom == Head(reads).length - Len(Head(reads).got)

Got(chars) == [reads EXCEPT ![1].got = @ \o chars]

EndsWith(got) ==
  \/ Len(got) = Head(reads).length
  \/ expired
  \/ port.readMode = "now"
  \/ port.readMode = "one" /\ got # <<>>

CompleteRead(got) ==
  /\ taken' = taken \o got
  /\ reads' = Tail(reads)
  /\ expired' = FALSE

AfterWriting(n) ==
  IF n = Len(Head(writes)) THEN Tail(writes)
                           ELSE [writes EXCEPT ![1] = Rest(@, n)]
-----------------------------------------------------------------------------
Init ==
  /\ port \in Settings
  /\ written = 0 /\ writes = <<>>
  /\ tx = <<>> /\ txAt = 0 /\ rx = <<>>
  /\ reads = <<>> /\ taken = <<>>
  /\ holding = FALSE
  /\ phase = "free" /\ limit = 0 /\ expired = FALSE
  /\ aborts = 0

(* ReadWrite begins: GetWriteLimit gives what the baud rate allows so far. *)
StartTransfer ==
  /\ phase' = "rx"
  /\ limit' \in IF port.emuBR THEN 0 .. MaxChars ELSE {MaxChars}

NoTransfer == phase' = "free" /\ limit' = 0

Write(n) ==
  /\ phase = "free" /\ Len(writes) < MaxWrites /\ written + n <= MaxChars
  /\ written' = written + n
  /\ writes' = Append(writes, [i \in 1 .. n |-> written + i])
  /\ IF writes = <<>> THEN StartTransfer ELSE NoTransfer
  /\ UNCHANGED <<port, tx, txAt, rx, reads, taken, holding, expired, aborts>>

Read(n) ==
  /\ phase = "free" /\ Len(reads) < MaxReads
  /\ reads' = Append(reads, [length |-> n, got |-> <<>>])
  /\ IF reads = <<>> THEN StartTransfer ELSE NoTransfer
  /\ UNCHANGED <<port, written, writes, tx, txAt, rx, taken, holding,
                 expired, aborts>>

TickWritesOnly ==
  /\ phase = "free" /\ port.emuBR
  /\ writes # <<>>
  /\ StartTransfer
  /\ UNCHANGED <<port, written, writes, tx, txAt, rx, reads, taken, holding,
                 expired, aborts>>

(* The DPC of the write delay timer, set while there is something to send. *)
Tick ==
  /\ phase = "free" /\ port.emuBR
  /\ tx # <<>> \/ writes # <<>>
  /\ StartTransfer
  /\ UNCHANGED <<port, written, writes, tx, txAt, rx, reads, taken, holding,
                 expired, aborts>>

(* The DPC of a read timer.                                                *)
Expire ==
  /\ phase = "free" /\ port.expires /\ reads # <<>>
  /\ expired' = TRUE
  /\ StartTransfer
  /\ UNCHANGED <<port, written, writes, tx, txAt, rx, reads, taken, holding,
                 aborts>>

Hold ==
  /\ phase = "free" /\ port.mayHold /\ ~holding
  /\ holding' = TRUE
  /\ UNCHANGED <<port, written, writes, tx, txAt, rx, reads, taken, phase,
                 limit, expired, aborts>>

Resume == IF writes # <<>> THEN StartTransfer ELSE NoTransfer

(* Flow control lets the writer go on: with a current write tryWrite is    *)
(* set, and ReadWrite runs.                                                *)
Release ==
  /\ phase = "free" /\ holding
  /\ holding' = FALSE
  /\ Resume
  /\ UNCHANGED <<port, written, writes, tx, txAt, rx, reads, taken, expired,
                 aborts>>

Abort == phase = "free" /\ aborts < MaxAborts /\ aborts' = aborts + 1

(* A cancelled read gives its characters to nobody.                        *)
CancelRead(i) ==
  /\ Abort
  /\ reads' = RemoveAt(reads, i)
  /\ UNCHANGED <<port, written, writes, tx, txAt, rx, taken, holding, phase,
                 limit, expired>>

(* A write that is cancelled or times out; ReadWrite runs for its successor. *)
CancelWrite(i) ==
  /\ Abort
  /\ writes' = RemoveAt(writes, i)
  /\ IF i = 1 THEN StartTransfer ELSE NoTransfer
  /\ UNCHANGED <<port, written, tx, txAt, rx, reads, taken, holding,
                 expired>>

PurgeQuiet ==
  /\ Abort
  /\ rx' = <<>>
  /\ holding' \in {holding, FALSE}
  /\ NoTransfer
  /\ UNCHANGED <<port, written, writes, tx, txAt, reads, taken, expired>>

(* IOCTL_SERIAL_PURGE with RXCLEAR.  If the handshake now lets the writer  *)
(* go on ReadWrite runs, and otherwise it does not.                        *)
Purge ==
  /\ Abort
  /\ rx' = <<>>
  /\ \/ holding /\ holding' = FALSE /\ Resume
     \/ UNCHANGED holding /\ NoTransfer
  /\ UNCHANGED <<port, written, writes, tx, txAt, reads, taken, expired>>
-----------------------------------------------------------------------------
(* An iteration over the read queue: ReadFromBuffers takes from readBuf.   *)
ReadFromRx ==
  /\ phase = "rx" /\ reads # <<>>
  /\ LET n   == Least(Len(rx), ReadRoom)
         got == Head(reads).got \o First(rx, n)
     IN  /\ rx' = Rest(rx, n)
         /\ IF n = ReadRoom
              THEN CompleteRead(got) /\ phase' = "rx"
              ELSE /\ reads' = Got(First(rx, n))
                   /\ phase' = "tx"
                   /\ UNCHANGED <<taken, expired>>
  /\ UNCHANGED <<port, written, writes, tx, txAt, holding, limit, aborts>>

AfterReadTxAgain(chars) == "tx"

AfterReadTx(chars) == IF chars = <<>> THEN "direct" ELSE "tx"

(* An iteration of ReadFromTxBuffer, which ends when nothing was read.     *)
ReadFromTx ==
  /\ phase = "tx"
  /\ LET n     == Consumed(Chunk, ReadRoom)
         chars == Kept(First(Chunk, n))
     IN  /\ SentFromTx(n)
         /\ IF Len(chars) = ReadRoom
              THEN CompleteRead(Head(reads).got \o chars) /\ phase' = "rx"
              ELSE /\ reads' = Got(chars)
                   /\ phase' = AfterReadTx(chars)
                   /\ UNCHANGED <<taken, expired>>
  /\ UNCHANGED <<port, written, writes, rx, holding, aborts>>

NoReadSkipsTx ==
  /\ phase = "rx" /\ reads = <<>>
  /\ phase' = "direct"
  /\ UNCHANGED <<port, written, writes, tx, txAt, rx, reads, taken, holding,
                 limit, expired, aborts>>

NoRead ==
  /\ phase = "rx" /\ reads = <<>>
  /\ phase' = "send"
  /\ UNCHANGED <<port, written, writes, tx, txAt, rx, reads, taken, holding,
                 limit, expired, aborts>>

(* An iteration of MoveFromTxBuffer: from the transmit to the receive buffer. *)
MoveFromTx ==
  /\ phase = "send"
  /\ LET n == Accepted(Chunk)
     IN  /\ rx' = rx \o Stored(Chunk)
         /\ SentFromTx(n)
         /\ phase' = IF n = 0 THEN "direct" ELSE "send"
  /\ UNCHANGED <<port, written, writes, reads, taken, holding, expired,
                 aborts>>

(* ReadWriteDirect: from the current write to the current read.            *)
CanCopy ==
  /\ reads # <<>> /\ writes # <<>>
  /\ ~holding /\ limit > 0 /\ ReadRoom > 0

ReadWriteDirect ==
  /\ phase = "direct" /\ CanCopy
  /\ LET src == First(Head(writes), Least(Len(Head(writes)), limit))
         n   == Consumed(src, ReadRoom)
     IN  /\ reads' = Got(Kept(First(src, n)))
         /\ writes' = AfterWriting(n)
         /\ limit' = limit - n
  /\ UNCHANGED <<port, written, tx, txAt, rx, taken, holding, phase, expired,
                 aborts>>

(* No more for this read: it ends, or waits and the loop over reads ends.  *)
EndRead ==
  /\ phase = "direct" /\ ~CanCopy
  /\ IF reads # <<>> /\ EndsWith(Head(reads).got)
       THEN CompleteRead(Head(reads).got) /\ UNCHANGED phase
       ELSE phase' = "buffer" /\ UNCHANGED <<reads, taken, expired>>
  /\ limit' = IF port.emuBR /\ holding /\ reads # <<>> /\ writes # <<>>
                THEN 0 ELSE limit
  /\ UNCHANGED <<port, written, writes, tx, txAt, rx, holding, aborts>>

ToTxTooMuch(rest) ==
  IF Len(tx) <= 1 THEN First(rest, Least(Len(rest), TxSize)) ELSE <<>>

(* WriteToTxBuffer: not before the holding register is empty.              *)
ToTx(rest) ==
  IF Len(tx) <= 1 THEN First(rest, Least(Len(rest), TxSize - 1)) ELSE <<>>

(* An iteration over the write queue: WriteToBuffers fills both buffers.   *)
WriteToBuffers ==
  /\ phase = "buffer" /\ writes # <<>> /\ ~holding
  /\ LET src  == First(Head(writes), Least(Len(Head(writes)), limit))
         n    == Accepted(src)
         more == ToTx(Rest(Head(writes), n))
         done == n + Len(more)
     IN  /\ rx' = rx \o Stored(src)
         /\ tx' = tx \o more
         /\ writes' = AfterWriting(done)
         /\ IF done = Len(Head(writes))
              THEN limit' = limit - n /\ UNCHANGED phase
              ELSE NoTransfer
  /\ UNCHANGED <<port, written, txAt, reads, taken, holding, expired,
                 aborts>>

EndTransfer ==
  /\ phase = "buffer" /\ (writes = <<>> \/ holding)
  /\ NoTransfer
  /\ UNCHANGED <<port, written, writes, tx, txAt, rx, reads, taken, holding,
                 expired, aborts>>

Engine ==
  \/ ReadFromRx \/ ReadFromTx \/ NoRead \/ MoveFromTx
  \/ ReadWriteDirect \/ EndRead \/ WriteToBuffers \/ EndTransfer

Next ==
  \/ \E n \in Lengths : Write(n) \/ Read(n)
  \/ Tick \/ Expire \/ Hold \/ Release \/ Purge
  \/ \E i \in 1 .. Len(reads) : CancelRead(i)
  \/ \E i \in 1 .. Len(writes) : CancelWrite(i)
  \/ Engine

Spec == Init /\ [][Next]_vars

(* A section under the lock runs to its end.  The timer keeps firing while *)
(* it is set, and a limit of 0 does not last: GetWriteLimit counts the     *)
(* frames since the start of the timer, and what was not sent adds up.     *)
TickOn == Tick /\ limit' > 0

FairSpec == Spec /\ WF_vars(Engine) /\ SF_vars(TickOn)
-----------------------------------------------------------------------------
(***************************************************************************)
(* Properties.                                                             *)
(***************************************************************************)
InReads == FlattenSeq([i \in 1 .. Len(reads) |-> reads[i].got])
Waiting == rx \o tx \o FlattenSeq(writes)
InTransit == InReads \o Waiting

Cable == INSTANCE Wire WITH
  sent <- written, pipe <- InTransit, out <- taken,
  overrun <- port.emuOverrun, dropped <- port.dropped

(* The four places a character can be in, and every loop that moves it     *)
(* (TryReadWrite of io.c with the copies of bufutils.c), make one cable:   *)
(* the reader gets the characters in the order they were written, none     *)
(* twice and none missing but those its filter strips.                     *)
BehavesAsCable == Cable!Spec

(* What the applications see of it: they read in the order of writing.     *)
ReadInOrder == \A i, j \in 1 .. Len(taken) : i < j => taken[i] < taken[j]

(* When the lock is dropped and nothing holds the writer, what was written *)
(* has gone as far as there is room: with no baud rate emulation and room  *)
(* in readBuf, nothing waits in txBuf or in the write queue.  What a round *)
(* of TryReadWrite leaves there, no later event would come to fetch.  (A   *)
(* purge makes room and fetches nothing, so this is up to the first one.)  *)
NothingWaitsForRoom ==
  phase = "free" /\ aborts = 0 /\ ~port.emuBR /\ ~holding
  /\ Len(rx) < port.rxLimit
    => tx = <<>> /\ writes = <<>>

(* A read is left pending only when there is nothing for it: readBuf is    *)
(* empty, and without baud rate emulation txBuf is too, and so is the      *)
(* write queue unless flow control holds it.                               *)
PendingReadIsHungry ==
  phase = "free" /\ reads # <<>>
    => /\ rx = <<>>
       /\ ~port.emuBR => tx = <<>> /\ (holding \/ writes = <<>>)

(* Overrun emulation (WriteToBuffer, SendTxBuffer) loses a character that  *)
(* the receiver wants only when readBuf is full to its size, and only      *)
(* while no read is pending.                                               *)
LostOnlyWhenFull ==
  [][LET lost == Range(InTransit) \ (Range(InTransit') \cup Range(taken')
                                      \cup port.dropped)
     IN  lost # {} /\ aborts' = aborts
           => port.emuOverrun /\ Len(rx') = RxSize /\ reads = <<>>]_vars

(* Every section under the lock ends: each loop of TryReadWrite and of the *)
(* copies moves something in each iteration or leaves.                     *)
TransferEnds == phase # "free" ~> phase = "free"

(* With baud rate emulation a character only moves when the timer of the   *)
(* write delay fires.  As long as a read is pending and the writer is not  *)
(* held, each character that waits in the write queue or in a buffer is    *)
(* read (or stripped by the filter).                                       *)
ReadGetsData ==
  \A c \in Chars :
    (reads # <<>> /\ c \in Range(Waiting))
      ~> (reads = <<>> \/ holding \/ c \notin Range(Waiting))
=============================================================================
