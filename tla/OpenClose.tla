----------------------------- MODULE OpenClose -----------------------------
(***************************************************************************)
(* Opening and closing the two ports of a pair: FdoPortOpen, c0cCleanup    *)
(* and FdoPortClose, the queue and the timer of close requests, and the    *)
(* PnP query that hides and shows a port in plug-in and exclusive mode.    *)
(*                                                                         *)
(* Only parts of these run under pIoLock: openCount is changed by          *)
(* interlocked operations, isOpen is written after the lock was dropped    *)
(* and read without it, and the query runs whenever the PnP manager gets   *)
(* to it.  An action is a section under the lock or one access outside.    *)
(***************************************************************************)
EXTENDS Integers, Sequences, FiniteSets

CONSTANTS
  Apps,      (* applications; each has at most one port open               *)
  NoApp,     (* none of them                                               *)
  Modes,     (* how the ports may be configured                            *)
  MaxOpens   (* bound: calls of FdoPortOpen                                *)

Ports == {"A", "B"}

Remote(p) == IF p = "A" THEN "B" ELSE "A"   (* pIoPortRemote *)

(* A configuration: the ports in exclusive and those in plug-in mode.      *)
ASSUME OpenAssumption ==
  /\ IsFiniteSet(Apps) /\ NoApp \notin Apps
  /\ Modes \subseteq [exclusive : SUBSET Ports, plugIn : SUBSET Ports]
  /\ MaxOpens \in Nat

VARIABLES
  mode,        (* the configuration                                        *)
  openCount,   (* per port                                                 *)
  isOpen,      (* per port                                                 *)
  readBuf,     (* per port: memory is allocated for readBuf                *)
  closeQueue,  (* per port: the applications whose close waits             *)
  timer, dpc,  (* per port: timerClose is set, its DPC is queued           *)
  stale,       (* per port: IoInvalidateDeviceRelations asked for a query  *)
  query,       (* per port: where QUERY_DEVICE_RELATIONS is                *)
  shown,       (* per port: ShowPort was last, not HidePort                *)
  pc, at,      (* per application: where it is, and in which port          *)
  opens

ports    == <<openCount, isOpen, readBuf>>
closing  == <<closeQueue, timer, dpc>>
pnp      == <<stale, query, shown>>
vars     == <<mode, ports, closing, pnp, pc, at, opens>>

Opening   == {"plugIn", "relations", "init", "mark"}
Connected == {"notify", "using", "cleaned"}
Leaving   == {"unplug", "free", "start", "pending"}
Inside    == Opening \cup Connected \cup Leaving

TypeOK ==
  /\ mode \in Modes
  /\ openCount \in [Ports -> 0 .. Cardinality(Apps)]
  /\ isOpen \in [Ports -> BOOLEAN] /\ readBuf \in [Ports -> BOOLEAN]
  /\ closeQueue \in [Ports -> Seq(Apps)]
  /\ timer \in [Ports -> BOOLEAN] /\ dpc \in [Ports -> BOOLEAN]
  /\ stale \in [Ports -> BOOLEAN] /\ shown \in [Ports -> BOOLEAN]
  /\ query \in [Ports -> {"idle", "remote", "hide", "show", "complete"}]
  /\ pc \in [Apps -> Inside \cup {"idle", "denied", "done"}]
  /\ at \in [Apps -> Ports]
  /\ opens \in 0 .. MaxOpens

Init ==
  /\ mode \in Modes
  /\ openCount = [p \in Ports |-> 0]
  /\ isOpen = [p \in Ports |-> FALSE]
  /\ readBuf = [p \in Ports |-> FALSE]
  /\ closeQueue = [p \in Ports |-> <<>>]
  /\ timer = [p \in Ports |-> FALSE]
  /\ dpc = [p \in Ports |-> FALSE]
  /\ stale = [p \in Ports |-> FALSE]
  /\ query = [p \in Ports |-> "idle"]
  /\ shown = [p \in Ports |-> p \notin mode.plugIn]
  /\ pc = [a \in Apps |-> "idle"]
  /\ at = [a \in Apps |-> "A"]
  /\ opens = 0

Goto(a, from, to) ==
  /\ pc[a] = from
  /\ pc' = [pc EXCEPT ![a] = to]
  /\ UNCHANGED <<mode, at, opens>>

Invalidate(p) == stale' = [stale EXCEPT ![p] = TRUE]

SetCloseTimeoutNot(p) == UNCHANGED timer

SetCloseTimeout(p) == timer' = [timer EXCEPT ![p] = TRUE]

CloseCompleteAnyway(p) ==
  /\ openCount' = [openCount EXCEPT ![p] = @ - 1]
  /\ pc' = [a \in Apps |->
              IF \E i \in DOMAIN closeQueue[p] : closeQueue[p][i] = a
                THEN "done" ELSE pc[a]]
  /\ closeQueue' = [closeQueue EXCEPT ![p] = <<>>]
  /\ UNCHANGED <<mode, isOpen, readBuf, at, opens>>

(* FdoPortIo with C0C_IO_TYPE_CLOSE_COMPLETE ends whatever close waits.    *)
CloseComplete(p) ==
  /\ openCount' = [openCount EXCEPT ![p] = @ - Len(closeQueue[p])]
  /\ pc' = [a \in Apps |->
              IF \E i \in DOMAIN closeQueue[p] : closeQueue[p][i] = a
                THEN "done" ELSE pc[a]]
  /\ closeQueue' = [closeQueue EXCEPT ![p] = <<>>]
  /\ UNCHANGED <<mode, isOpen, readBuf, at, opens>>
-----------------------------------------------------------------------------
(* FdoPortOpen                                                             *)

OpenEnterUnlessOpen(a, p) ==
  /\ opens < MaxOpens
  /\ pc[a] = "idle"
  /\ openCount' = [openCount EXCEPT ![p] = @ + 1]
  /\ pc' = [pc EXCEPT ![a] = IF ~isOpen[p] THEN "plugIn" ELSE "denied"]
  /\ at' = [at EXCEPT ![a] = p]
  /\ opens' = opens + 1
  /\ UNCHANGED <<mode, isOpen, readBuf, closing, pnp>>

(* The interlocked increment; whoever does not get 1 takes it back later.  *)
OpenEnter(a, p) ==
  /\ opens < MaxOpens
  /\ pc[a] = "idle"
  /\ openCount' = [openCount EXCEPT ![p] = @ + 1]
  /\ pc' = [pc EXCEPT ![a] = IF openCount[p] = 0 THEN "plugIn" ELSE "denied"]
  /\ at' = [at EXCEPT ![a] = p]
  /\ opens' = opens + 1
  /\ UNCHANGED <<mode, isOpen, readBuf, closing, pnp>>

OpenDenied(a) ==
  /\ Goto(a, "denied", "idle")
  /\ openCount' = [openCount EXCEPT ![at[a]] = @ - 1]
  /\ UNCHANGED <<isOpen, readBuf, closing, pnp>>

OpenPlugInForgets(a) ==
  /\ \/ /\ at[a] \in mode.plugIn /\ ~isOpen[Remote(at[a])]
        /\ Goto(a, "plugIn", "idle")
     \/ /\ at[a] \notin mode.plugIn \/ isOpen[Remote(at[a])]
        /\ Goto(a, "plugIn", "relations")
  /\ UNCHANGED <<ports, closing, pnp>>

(* isOpen of the other port is read without the lock.                      *)
OpenPlugIn(a) ==
  /\ \/ /\ at[a] \in mode.plugIn /\ ~isOpen[Remote(at[a])]
        /\ Goto(a, "plugIn", "denied")
     \/ /\ at[a] \notin mode.plugIn \/ isOpen[Remote(at[a])]
        /\ Goto(a, "plugIn", "relations")
  /\ UNCHANGED <<ports, closing, pnp>>

OpenRelations(a) ==
  /\ Goto(a, "relations", "init")
  /\ IF at[a] \in mode.exclusive THEN Invalidate(at[a]) ELSE UNCHANGED stale
  /\ UNCHANGED <<ports, closing, query, shown>>

(* Under the lock: InitBuffer, with or without memory from the pool.       *)
OpenInit(a) ==
  /\ Goto(a, "init", "mark")
  /\ \E got \in BOOLEAN : readBuf' = [readBuf EXCEPT ![at[a]] = got]
  /\ UNCHANGED <<openCount, isOpen, closing, pnp>>

OpenMark(a) ==
  /\ Goto(a, "mark", "notify")
  /\ isOpen' = [isOpen EXCEPT ![at[a]] = TRUE]
  /\ UNCHANGED <<openCount, readBuf, closing, pnp>>

OpenNotify(a) ==
  /\ Goto(a, "notify", "using")
  /\ IF Remote(at[a]) \in mode.plugIn
       THEN Invalidate(Remote(at[a])) ELSE UNCHANGED stale
  /\ UNCHANGED <<ports, closing, query, shown>>
-----------------------------------------------------------------------------
(* c0cCleanup and FdoPortClose                                             *)

(* The last handle is closed: CancelQueue, also for the close queue.       *)
Cleanup(a) ==
  /\ pc[a] = "using"
  /\ pc' = [b \in Apps |->
              IF b = a THEN "cleaned"
              ELSE IF \E i \in DOMAIN closeQueue[at[a]] :
                        closeQueue[at[a]][i] = b
                THEN "done" ELSE pc[b]]
  /\ closeQueue' = [closeQueue EXCEPT ![at[a]] = <<>>]
  /\ UNCHANGED <<mode, ports, timer, dpc, pnp, at, opens>>

CloseEnterKeeps(a) ==
  /\ Goto(a, "cleaned", IF isOpen[at[a]] THEN "unplug" ELSE "idle")
  /\ UNCHANGED <<ports, closing, pnp>>

CloseEnter(a) ==
  /\ Goto(a, "cleaned", IF isOpen[at[a]] THEN "unplug" ELSE "idle")
  /\ isOpen' = [isOpen EXCEPT ![at[a]] = FALSE]
  /\ UNCHANGED <<openCount, readBuf, closing, pnp>>

CloseNotifyNot(a) ==
  /\ Goto(a, "unplug", "free")
  /\ UNCHANGED <<ports, closing, pnp>>

CloseNotify(a) ==
  /\ Goto(a, "unplug", "free")
  /\ IF Remote(at[a]) \in mode.plugIn
       THEN Invalidate(Remote(at[a])) ELSE UNCHANGED stale
  /\ UNCHANGED <<ports, closing, query, shown>>

CloseFreeNot(a) ==
  /\ Goto(a, "free", "start")
  /\ UNCHANGED <<ports, closing, pnp>>

CloseFree(a) ==
  /\ Goto(a, "free", "start")
  /\ readBuf' = [readBuf EXCEPT ![at[a]] = FALSE]
  /\ UNCHANGED <<openCount, isOpen, closing, pnp>>

(* FdoPortStartIrp with StartIrpClose: the close queues up, ends at once   *)
(* or waits for the query or the timer.                                    *)
CloseStart(a) ==
  LET p == at[a]
      first == closeQueue[p] = <<>>
      waits == ~first \/ p \in mode.exclusive
  IN  /\ Goto(a, "start", IF waits THEN "pending" ELSE "done")
      /\ openCount' = [openCount EXCEPT ![p] = IF waits THEN @ ELSE @ - 1]
      /\ closeQueue' = [closeQueue EXCEPT ![p] =
                          IF waits THEN Append(@, a) ELSE @]
      /\ IF first /\ waits
           THEN Invalidate(p) /\ SetCloseTimeout(p)
           ELSE UNCHANGED <<stale, timer>>
      /\ UNCHANGED <<isOpen, readBuf, dpc, query, shown>>

(* IoCompleteRequest: CloseHandle returns to the application.              *)
CloseReturn(a) ==
  /\ Goto(a, "done", "idle")
  /\ UNCHANGED <<ports, closing, pnp>>

TimerFire(p) ==
  /\ timer[p]
  /\ timer' = [timer EXCEPT ![p] = FALSE]
  /\ dpc' = [dpc EXCEPT ![p] = TRUE]
  /\ UNCHANGED <<mode, ports, closeQueue, pnp, pc, at, opens>>

TimeoutClose(p) ==
  /\ dpc[p]
  /\ dpc' = [dpc EXCEPT ![p] = FALSE]
  /\ CloseComplete(p)
  /\ UNCHANGED <<timer, pnp>>
-----------------------------------------------------------------------------
(* IRP_MN_QUERY_DEVICE_RELATIONS in FdoPortPnp; the PnP manager sends one  *)
(* at a time to a device.                                                  *)

QueryStep(p, from, to) ==
  /\ query[p] = from
  /\ query' = [query EXCEPT ![p] = to]

(* A query may come unasked and leave the one asked for to come.  The two  *)
(* flags isOpen are read one after the other, without the lock.            *)
QueryLocal(p) ==
  /\ stale' \in {stale, [stale EXCEPT ![p] = FALSE]}
  /\ QueryStep(p, "idle", IF p \in mode.exclusive /\ isOpen[p]
                            THEN "hide" ELSE "remote")
  /\ UNCHANGED <<mode, ports, closing, shown, pc, at, opens>>

QueryRemote(p) ==
  /\ QueryStep(p, "remote", IF p \in mode.plugIn /\ ~isOpen[Remote(p)]
                              THEN "hide" ELSE "show")
  /\ UNCHANGED <<mode, ports, closing, stale, shown, pc, at, opens>>

HidePort(p) ==
  /\ QueryStep(p, "hide", "complete")
  /\ shown' = [shown EXCEPT ![p] = FALSE]
  /\ UNCHANGED <<mode, ports, closing, stale, pc, at, opens>>

ShowPort(p) ==
  /\ QueryStep(p, "show", "complete")
  /\ shown' = [shown EXCEPT ![p] = TRUE]
  /\ UNCHANGED <<mode, ports, closing, stale, pc, at, opens>>

QueryComplete(p) ==
  /\ QueryStep(p, "complete", "idle")
  /\ CloseComplete(p)
  /\ UNCHANGED <<timer, dpc, stale, shown>>
-----------------------------------------------------------------------------
OpenSteps(a) ==
  \/ OpenDenied(a) \/ OpenPlugIn(a) \/ OpenRelations(a)
  \/ OpenInit(a) \/ OpenMark(a) \/ OpenNotify(a)

CloseSteps(a) ==
  \/ Cleanup(a) \/ CloseEnter(a) \/ CloseNotify(a) \/ CloseFree(a)
  \/ CloseStart(a) \/ CloseReturn(a)

QuerySteps(p) ==
  \/ QueryLocal(p) \/ QueryRemote(p) \/ HidePort(p) \/ ShowPort(p)
  \/ QueryComplete(p)

Next ==
  \/ \E a \in Apps : \/ \E p \in Ports : OpenEnter(a, p)
                    \/ OpenSteps(a) \/ CloseSteps(a)
  \/ \E p \in Ports : TimerFire(p) \/ TimeoutClose(p) \/ QuerySteps(p)

Spec == Init /\ [][Next]_vars
-----------------------------------------------------------------------------
Having(p, where) == {a \in Apps : at[a] = p /\ pc[a] \in where}

(* openCount counts the session of the port and the calls that are about   *)
(* to be refused, whatever the order in which opens, closes, timers and    *)
(* queries come: the port never stays closed to everyone.                  *)
OpenCountExact ==
  \A p \in Ports :
    openCount[p] = Cardinality(Having(p, Inside \cup {"denied"}))

(* A port is open for exactly one application, from line 210 of            *)
(* openclos.c to line 264, and nobody else is between open and close.      *)
OneSession ==
  \A p \in Ports :
    /\ Cardinality(Having(p, Inside)) <= 1
    /\ isOpen[p] <=> Having(p, Connected) # {}

(* The memory of readBuf belongs to the session: it is gone before the     *)
(* next FdoPortOpen overwrites the pointer, else it would leak.            *)
BufferOfSession ==
  \A p \in Ports :
    readBuf[p] => Having(p, Connected \cup {"mark", "unplug", "free"}) # {}

(* A close that waits has a timer or a DPC on its way, also when the DPC   *)
(* of an earlier close or a query came in between.                         *)
PendingCloseHasTimer ==
  \A p \in Ports :
    /\ closeQueue[p] # <<>> => timer[p] \/ dpc[p]
    /\ Having(p, {"pending"}) = {a \in Apps : \E i \in DOMAIN closeQueue[p] :
                                                closeQueue[p][i] = a}

(* No query is asked for or under way, and nobody who changed what it      *)
(* looks at is yet to ask for one.                                         *)
Settled(p) ==
  /\ ~stale[p] /\ query[p] = "idle"
  /\ Having(p, {"unplug", "free", "start"}) = {}
  /\ Having(Remote(p), {"notify", "unplug"}) = {}

Absent(p) == p \in mode.plugIn /\ ~isOpen[Remote(p)]
Busy(p)   == p \in mode.exclusive /\ isOpen[p]

(* Once the queries are done, a plug-in port is hidden without the other   *)
(* port, and no port stays hidden without a reason.                        *)
ShownWithReason ==
  \A p \in Ports : Settled(p) =>
    /\ Absent(p) => ~shown[p]
    /\ ~shown[p] => Absent(p) \/ Busy(p)

(* "the exclusive mode port is hidden if it is open" (setup/params.cpp).   *)
HiddenWhileOpen ==
  \A p \in Ports : Settled(p) /\ Busy(p) => ~shown[p]
-----------------------------------------------------------------------------
(* The session of a port in terms of the abstract specification.           *)
Owner(p) ==
  IF Having(p, Inside) = {} THEN NoApp
                            ELSE CHOOSE a \in Apps : a \in Having(p, Inside)

Stage(p) ==
  CASE isOpen[p]                -> "open"
    [] Having(p, Opening) # {}  -> "entering"
    [] Having(p, Leaving) # {}  -> "leaving"
    [] OTHER                    -> "closed"

Promise == INSTANCE Session WITH
  owner <- [p \in Ports |-> Owner(p)],
  stage <- [p \in Ports |-> Stage(p)]

(* Opening and closing implement Session.                                  *)
KeepsSessions == Promise!Spec
=============================================================================
