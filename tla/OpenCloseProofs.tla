-------------------------- MODULE OpenCloseProofs --------------------------
(***************************************************************************)
(* Theorems about OpenClose, for any number of applications.               *)
(*                                                                         *)
(* The inductive invariant says who is where: at most one application is   *)
(* inside a port, isOpen and readBuf are set only while it is where it     *)
(* sets them, the close queue holds exactly the application that waits,    *)
(* and openCount is the number of those who increased it.                  *)
(***************************************************************************)
EXTENDS OpenClose, FiniteSetTheorems, TLAPS

Counted == Inside \cup {"denied"}

Buffered == Connected \cup {"mark", "unplug", "free"}

Typed ==
  /\ mode \in Modes
  /\ openCount \in [Ports -> Int]
  /\ isOpen \in [Ports -> BOOLEAN] /\ readBuf \in [Ports -> BOOLEAN]
  /\ closeQueue \in [Ports -> Seq(Apps)]
  /\ timer \in [Ports -> BOOLEAN] /\ dpc \in [Ports -> BOOLEAN]
  /\ stale \in [Ports -> BOOLEAN] /\ shown \in [Ports -> BOOLEAN]
  /\ query \in [Ports -> {"idle", "remote", "hide", "show", "complete"}]
  /\ pc \in [Apps -> Inside \cup {"idle", "denied", "done"}]
  /\ at \in [Apps -> Ports]
  /\ opens \in 0 .. MaxOpens

Sole ==
  \A a, b \in Apps :
    pc[a] \in Inside /\ pc[b] \in Inside /\ at[a] = at[b] => a = b

OpenByOne ==
  \A p \in Ports :
    isOpen[p] <=> Having(p, Connected) # {}

BufferByOne ==
  \A p \in Ports : readBuf[p] => Having(p, Buffered) # {}

WaitsAlone ==
  \A p \in Ports :
    \/ /\ closeQueue[p] = <<>>
       /\ \A a \in Apps : pc[a] = "pending" => at[a] # p
    \/ \E a \in Apps :
         closeQueue[p] = <<a>> /\ pc[a] = "pending" /\ at[a] = p

TimerRuns == \A p \in Ports : closeQueue[p] # <<>> => timer[p] \/ dpc[p]

CountRight ==
  \A p \in Ports : openCount[p] = Cardinality(Having(p, Counted))

Where == Sole /\ OpenByOne /\ BufferByOne /\ WaitsAlone /\ TimerRuns

IInv == Typed /\ Where /\ CountRight
-----------------------------------------------------------------------------
(* Some application does not increase a count, one that comes or goes      *)
(* changes the count of its port by one.                                   *)
LEMMA HavingFinite ==
  ASSUME NEW p, NEW where
  PROVE  /\ IsFiniteSet(Having(p, where))
         /\ Cardinality(Having(p, where)) \in Nat
         /\ Cardinality(Having(p, where)) <= Cardinality(Apps)
<1>1. Having(p, where) \in SUBSET Apps
  BY DEF Having
<1> QED
  BY <1>1, FS_Subset, FS_CardinalityType, OpenAssumption

LEMMA HavingSame ==
  ASSUME Typed, NEW a \in Apps, NEW to, NEW where,
         pc' = [pc EXCEPT ![a] = to], at' = at,
         pc[a] \in where <=> to \in where
  PROVE  \A p \in Ports : Having(p, where)' = Having(p, where)
BY DEF Having, Typed

LEMMA HavingBeside ==
  ASSUME Typed, NEW a \in Apps, NEW to, NEW where,
         pc' = [pc EXCEPT ![a] = to], at' = at
  PROVE  \A p \in Ports : p # at[a] => Having(p, where)' = Having(p, where)
BY DEF Having, Typed

LEMMA SoleKept ==
  ASSUME Typed, Sole, NEW a \in Apps, NEW to,
         pc' = [pc EXCEPT ![a] = to], at' = at,
         to \in Inside => pc[a] \in Inside
  PROVE  Sole'
BY DEF Sole, Typed

LEMMA CountLess ==
  ASSUME Typed, NEW a \in Apps, NEW to,
         pc' = [pc EXCEPT ![a] = to], at' = at,
         pc[a] \in Counted, to \notin Counted
  PROVE  \A p \in Ports :
           Cardinality(Having(p, Counted)') =
             Cardinality(Having(p, Counted)) - (IF p = at[a] THEN 1 ELSE 0)
<1> SUFFICES ASSUME NEW p \in Ports
             PROVE  Cardinality(Having(p, Counted)') =
                      Cardinality(Having(p, Counted))
                        - (IF p = at[a] THEN 1 ELSE 0)
  OBVIOUS
<1>1. CASE p = at[a]
  <2>1. Having(p, Counted)' = Having(p, Counted) \ {a}
    BY <1>1 DEF Having, Typed
  <2>2. a \in Having(p, Counted)
    BY <1>1 DEF Having, Typed
  <2> QED
    BY <1>1, <2>1, <2>2, HavingFinite, FS_RemoveElement
<1>2. CASE p # at[a]
  <2>1. Having(p, Counted)' = Having(p, Counted)
    BY <1>2 DEF Having, Typed
  <2> QED
    BY <1>2, <2>1, HavingFinite
<1> QED
  BY <1>1, <1>2

LEMMA CountMore ==
  ASSUME Typed, NEW a \in Apps, NEW q \in Ports, NEW to,
         pc' = [pc EXCEPT ![a] = to], at' = [at EXCEPT ![a] = q],
         pc[a] \notin Counted, to \in Counted
  PROVE  \A p \in Ports :
           Cardinality(Having(p, Counted)') =
             Cardinality(Having(p, Counted)) + (IF p = q THEN 1 ELSE 0)
<1> SUFFICES ASSUME NEW p \in Ports
             PROVE  Cardinality(Having(p, Counted)') =
                      Cardinality(Having(p, Counted))
                        + (IF p = q THEN 1 ELSE 0)
  OBVIOUS
<1>1. CASE p = q
  <2>1. Having(p, Counted)' = Having(p, Counted) \cup {a}
    BY <1>1 DEF Having, Typed
  <2>2. a \notin Having(p, Counted)
    BY DEF Having
  <2> QED
    BY <1>1, <2>1, <2>2, HavingFinite, FS_AddElement
<1>2. CASE p # q
  <2>1. Having(p, Counted)' = Having(p, Counted)
    BY <1>2 DEF Having, Typed
  <2> QED
    BY <1>2, <2>1, HavingFinite
<1> QED
  BY <1>1, <1>2
-----------------------------------------------------------------------------
(* The close queue holds at most one close.                                *)
LEMMA CompleteOne ==
  ASSUME IInv, NEW p \in Ports, CloseComplete(p)
  PROVE  \/ /\ closeQueue[p] = <<>>
            /\ pc' = pc /\ openCount' = openCount /\ closeQueue' = closeQueue
         \/ \E a \in Apps :
              /\ closeQueue[p] = <<a>> /\ pc[a] = "pending" /\ at[a] = p
              /\ pc' = [pc EXCEPT ![a] = "done"]
              /\ openCount' = [openCount EXCEPT ![p] = @ - 1]
              /\ closeQueue' = [closeQueue EXCEPT ![p] = <<>>]
<1>1. CASE closeQueue[p] = <<>>
  BY <1>1 DEF CloseComplete, IInv, Typed
<1>2. ASSUME NEW a \in Apps,
             closeQueue[p] = <<a>>, pc[a] = "pending", at[a] = p
      PROVE  /\ pc' = [pc EXCEPT ![a] = "done"]
             /\ openCount' = [openCount EXCEPT ![p] = @ - 1]
             /\ closeQueue' = [closeQueue EXCEPT ![p] = <<>>]
  <2>1. \A b \in Apps : (\E i \in DOMAIN closeQueue[p] : closeQueue[p][i] = b)
                       <=> b = a
    BY <1>2
  <2>2. pc' = [pc EXCEPT ![a] = "done"]
    BY <1>2, <2>1 DEF CloseComplete, IInv, Typed
  <2> QED
    BY <1>2, <2>2 DEF CloseComplete, IInv, Typed
<1> QED
  BY <1>1, <1>2 DEF IInv, Where, WaitsAlone

LEMMA CleanupOne ==
  ASSUME IInv, NEW a \in Apps, Cleanup(a)
  PROVE  /\ pc' = [pc EXCEPT ![a] = "cleaned"]
         /\ closeQueue' = closeQueue
<1>1. closeQueue[at[a]] = <<>>
  BY DEF IInv, Typed, Where, WaitsAlone, Sole, Cleanup, Inside, Connected,
         Leaving
<1>2. \A b \in Apps : ~ \E i \in DOMAIN closeQueue[at[a]] :
                         closeQueue[at[a]][i] = b
  BY <1>1
<1>3. pc' = [pc EXCEPT ![a] = "cleaned"]
  BY <1>2 DEF Cleanup, IInv, Typed
<1>4. closeQueue' = closeQueue
  BY <1>1 DEF Cleanup, IInv, Typed
<1> QED
  BY <1>3, <1>4

LEMMA InitInvariant == Init => IInv
<1> SUFFICES ASSUME Init PROVE IInv
  OBVIOUS
<1>1. Typed
  BY OpenAssumption DEF Init, Typed, Ports, pnp
<1>2. Where
  BY DEF Init, Where, Sole, OpenByOne, BufferByOne, WaitsAlone, TimerRuns,
         Having, Inside, Opening, Connected, Leaving
<1>3. CountRight
  <2>1. \A p \in Ports : Having(p, Counted) = {}
    BY DEF Init, Having, Counted, Inside, Opening, Connected, Leaving
  <2> QED
    BY <2>1, FS_EmptySet DEF Init, CountRight
<1> QED
  BY <1>1, <1>2, <1>3 DEF IInv

(* The steps of an application in its port: where it goes, and so who is   *)
(* where afterwards and how many are counted.                              *)
LEMMA OpenDeniedStep ==
  ASSUME IInv, NEW a \in Apps, OpenDenied(a)
  PROVE  IInv'
<1>1. PICK to \in {"idle"} : pc' = [pc EXCEPT ![a] = to]
  BY DEF OpenDenied, Goto
<1>2. pc[a] = "denied" /\ at' = at
  BY DEF OpenDenied, Goto
<1>3. Typed'
  BY <1>1, <1>2
     DEF IInv, Typed, OpenDenied, Goto, ports, closing, pnp, Inside, Opening,
         Connected, Leaving
<1>4. Sole'
  BY <1>1, <1>2, SoleKept DEF IInv, Where, Inside, Opening, Connected, Leaving
<1>5. OpenByOne'
  <2>1. \A p \in Ports : Having(p, Connected)' = Having(p, Connected)
    BY <1>1, <1>2, HavingSame DEF IInv, Inside, Opening, Connected, Leaving
  <2>2. isOpen' = isOpen
    BY DEF OpenDenied, ports
  <2> QED
    BY <2>1, <2>2 DEF IInv, Where, OpenByOne
<1>6. BufferByOne'
  <2>1. \A p \in Ports : Having(p, Buffered)' = Having(p, Buffered)
    BY <1>1, <1>2, HavingSame
       DEF IInv, Buffered, Inside, Opening, Connected, Leaving
  <2>2. readBuf' = readBuf
    BY DEF OpenDenied, ports
  <2> QED
    BY <2>1, <2>2 DEF IInv, Where, BufferByOne
<1>7. WaitsAlone' /\ TimerRuns'
  BY <1>1, <1>2
     DEF IInv, Typed, Where, WaitsAlone, TimerRuns, OpenDenied, closing
<1>8. CountRight'
  <2>1. \A p \in Ports :
          Cardinality(Having(p, Counted)') =
            Cardinality(Having(p, Counted)) - (IF p = at[a] THEN 1 ELSE 0)
    BY <1>1, <1>2, CountLess
       DEF IInv, Counted, Inside, Opening, Connected, Leaving
  <2>2. openCount' = [openCount EXCEPT ![at[a]] = @ - 1]
    BY DEF OpenDenied
  <2> QED
    BY <2>1, <2>2, HavingFinite DEF IInv, Typed, CountRight
<1> QED
  BY <1>3, <1>4, <1>5, <1>6, <1>7, <1>8 DEF IInv, Where

LEMMA OpenPlugInStep ==
  ASSUME IInv, NEW a \in Apps, OpenPlugIn(a)
  PROVE  IInv'
<1>1. PICK to \in {"denied", "relations"} : pc' = [pc EXCEPT ![a] = to]
  BY DEF OpenPlugIn, Goto
<1>2. pc[a] = "plugIn" /\ at' = at
  BY DEF OpenPlugIn, Goto
<1>3. Typed'
  BY <1>1, <1>2
     DEF IInv, Typed, OpenPlugIn, Goto, ports, closing, pnp, Inside, Opening,
         Connected, Leaving
<1>4. Sole'
  BY <1>1, <1>2, SoleKept DEF IInv, Where, Inside, Opening, Connected, Leaving
<1>5. OpenByOne'
  <2>1. \A p \in Ports : Having(p, Connected)' = Having(p, Connected)
    BY <1>1, <1>2, HavingSame DEF IInv, Inside, Opening, Connected, Leaving
  <2>2. isOpen' = isOpen
    BY DEF OpenPlugIn, ports
  <2> QED
    BY <2>1, <2>2 DEF IInv, Where, OpenByOne
<1>6. BufferByOne'
  <2>1. \A p \in Ports : Having(p, Buffered)' = Having(p, Buffered)
    BY <1>1, <1>2, HavingSame
       DEF IInv, Buffered, Inside, Opening, Connected, Leaving
  <2>2. readBuf' = readBuf
    BY DEF OpenPlugIn, ports
  <2> QED
    BY <2>1, <2>2 DEF IInv, Where, BufferByOne
<1>7. WaitsAlone' /\ TimerRuns'
  BY <1>1, <1>2
     DEF IInv, Typed, Where, WaitsAlone, TimerRuns, OpenPlugIn, closing
<1>8. CountRight'
  <2>1. \A p \in Ports : Having(p, Counted)' = Having(p, Counted)
    BY <1>1, <1>2, HavingSame
       DEF IInv, Counted, Inside, Opening, Connected, Leaving
  <2>2. openCount' = openCount
    BY DEF OpenPlugIn, ports
  <2> QED
    BY <2>1, <2>2 DEF IInv, CountRight
<1> QED
  BY <1>3, <1>4, <1>5, <1>6, <1>7, <1>8 DEF IInv, Where

LEMMA OpenRelationsStep ==
  ASSUME IInv, NEW a \in Apps, OpenRelations(a)
  PROVE  IInv'
<1>1. PICK to \in {"init"} : pc' = [pc EXCEPT ![a] = to]
  BY DEF OpenRelations, Goto
<1>2. pc[a] = "relations" /\ at' = at
  BY DEF OpenRelations, Goto
<1>3. Typed'
  BY <1>1, <1>2
     DEF IInv, Typed, OpenRelations, Invalidate, Goto, ports, closing, pnp,
         Inside, Opening, Connected, Leaving
<1>4. Sole'
  BY <1>1, <1>2, SoleKept DEF IInv, Where, Inside, Opening, Connected, Leaving
<1>5. OpenByOne'
  <2>1. \A p \in Ports : Having(p, Connected)' = Having(p, Connected)
    BY <1>1, <1>2, HavingSame DEF IInv, Inside, Opening, Connected, Leaving
  <2>2. isOpen' = isOpen
    BY DEF OpenRelations, ports
  <2> QED
    BY <2>1, <2>2 DEF IInv, Where, OpenByOne
<1>6. BufferByOne'
  <2>1. \A p \in Ports : Having(p, Buffered)' = Having(p, Buffered)
    BY <1>1, <1>2, HavingSame
       DEF IInv, Buffered, Inside, Opening, Connected, Leaving
  <2>2. readBuf' = readBuf
    BY DEF OpenRelations, ports
  <2> QED
    BY <2>1, <2>2 DEF IInv, Where, BufferByOne
<1>7. WaitsAlone' /\ TimerRuns'
  BY <1>1, <1>2
     DEF IInv, Typed, Where, WaitsAlone, TimerRuns, OpenRelations, closing
<1>8. CountRight'
  <2>1. \A p \in Ports : Having(p, Counted)' = Having(p, Counted)
    BY <1>1, <1>2, HavingSame
       DEF IInv, Counted, Inside, Opening, Connected, Leaving
  <2>2. openCount' = openCount
    BY DEF OpenRelations, ports
  <2> QED
    BY <2>1, <2>2 DEF IInv, CountRight
<1> QED
  BY <1>3, <1>4, <1>5, <1>6, <1>7, <1>8 DEF IInv, Where

LEMMA OpenInitStep ==
  ASSUME IInv, NEW a \in Apps, OpenInit(a)
  PROVE  IInv'
<1>1. PICK to \in {"mark"} : pc' = [pc EXCEPT ![a] = to]
  BY DEF OpenInit, Goto
<1>2. pc[a] = "init" /\ at' = at
  BY DEF OpenInit, Goto
<1>3. Typed'
  BY <1>1, <1>2
     DEF IInv, Typed, OpenInit, Goto, ports, closing, pnp, Inside, Opening,
         Connected, Leaving
<1>4. Sole'
  BY <1>1, <1>2, SoleKept DEF IInv, Where, Inside, Opening, Connected, Leaving
<1>5. OpenByOne'
  <2>1. \A p \in Ports : Having(p, Connected)' = Having(p, Connected)
    BY <1>1, <1>2, HavingSame DEF IInv, Inside, Opening, Connected, Leaving
  <2>2. isOpen' = isOpen
    BY DEF OpenInit, ports
  <2> QED
    BY <2>1, <2>2 DEF IInv, Where, OpenByOne
<1>6. BufferByOne'
  <2>1. \A p \in Ports :
          p # at[a] => Having(p, Buffered)' = Having(p, Buffered)
    BY <1>1, <1>2, HavingBeside DEF IInv
  <2>2. a \in Having(at[a], Buffered)'
    BY <1>1, <1>2 DEF IInv, Typed, Having, Buffered, Connected
  <2> QED
    BY <1>2, <2>1, <2>2 DEF IInv, Typed, Where, BufferByOne, OpenInit
<1>7. WaitsAlone' /\ TimerRuns'
  BY <1>1, <1>2
     DEF IInv, Typed, Where, WaitsAlone, TimerRuns, OpenInit, closing
<1>8. CountRight'
  <2>1. \A p \in Ports : Having(p, Counted)' = Having(p, Counted)
    BY <1>1, <1>2, HavingSame
       DEF IInv, Counted, Inside, Opening, Connected, Leaving
  <2>2. openCount' = openCount
    BY DEF OpenInit, ports
  <2> QED
    BY <2>1, <2>2 DEF IInv, CountRight
<1> QED
  BY <1>3, <1>4, <1>5, <1>6, <1>7, <1>8 DEF IInv, Where

LEMMA OpenMarkStep ==
  ASSUME IInv, NEW a \in Apps, OpenMark(a)
  PROVE  IInv'
<1>1. PICK to \in {"notify"} : pc' = [pc EXCEPT ![a] = to]
  BY DEF OpenMark, Goto
<1>2. pc[a] = "mark" /\ at' = at
  BY DEF OpenMark, Goto
<1>3. Typed'
  BY <1>1, <1>2
     DEF IInv, Typed, OpenMark, Goto, ports, closing, pnp, Inside, Opening,
         Connected, Leaving
<1>4. Sole'
  BY <1>1, <1>2, SoleKept DEF IInv, Where, Inside, Opening, Connected, Leaving
<1>5. OpenByOne'
  <2>1. \A p \in Ports :
          p # at[a] => Having(p, Connected)' = Having(p, Connected)
    BY <1>1, <1>2, HavingBeside DEF IInv
  <2>2. a \in Having(at[a], Connected)'
    BY <1>1, <1>2 DEF IInv, Typed, Having, Connected
  <2> QED
    BY <1>2, <2>1, <2>2 DEF IInv, Typed, Where, OpenByOne, OpenMark
<1>6. BufferByOne'
  <2>1. \A p \in Ports : Having(p, Buffered)' = Having(p, Buffered)
    BY <1>1, <1>2, HavingSame
       DEF IInv, Buffered, Inside, Opening, Connected, Leaving
  <2>2. readBuf' = readBuf
    BY DEF OpenMark, ports
  <2> QED
    BY <2>1, <2>2 DEF IInv, Where, BufferByOne
<1>7. WaitsAlone' /\ TimerRuns'
  BY <1>1, <1>2
     DEF IInv, Typed, Where, WaitsAlone, TimerRuns, OpenMark, closing
<1>8. CountRight'
  <2>1. \A p \in Ports : Having(p, Counted)' = Having(p, Counted)
    BY <1>1, <1>2, HavingSame
       DEF IInv, Counted, Inside, Opening, Connected, Leaving
  <2>2. openCount' = openCount
    BY DEF OpenMark, ports
  <2> QED
    BY <2>1, <2>2 DEF IInv, CountRight
<1> QED
  BY <1>3, <1>4, <1>5, <1>6, <1>7, <1>8 DEF IInv, Where

LEMMA OpenNotifyStep ==
  ASSUME IInv, NEW a \in Apps, OpenNotify(a)
  PROVE  IInv'
<1>1. PICK to \in {"using"} : pc' = [pc EXCEPT ![a] = to]
  BY DEF OpenNotify, Goto
<1>2. pc[a] = "notify" /\ at' = at
  BY DEF OpenNotify, Goto
<1>3. Typed'
  BY <1>1, <1>2
     DEF IInv, Typed, OpenNotify, Invalidate, Goto, ports, closing, pnp,
         Inside, Opening, Connected, Leaving
<1>4. Sole'
  BY <1>1, <1>2, SoleKept DEF IInv, Where, Inside, Opening, Connected, Leaving
<1>5. OpenByOne'
  <2>1. \A p \in Ports : Having(p, Connected)' = Having(p, Connected)
    BY <1>1, <1>2, HavingSame DEF IInv, Inside, Opening, Connected, Leaving
  <2>2. isOpen' = isOpen
    BY DEF OpenNotify, ports
  <2> QED
    BY <2>1, <2>2 DEF IInv, Where, OpenByOne
<1>6. BufferByOne'
  <2>1. \A p \in Ports : Having(p, Buffered)' = Having(p, Buffered)
    BY <1>1, <1>2, HavingSame
       DEF IInv, Buffered, Inside, Opening, Connected, Leaving
  <2>2. readBuf' = readBuf
    BY DEF OpenNotify, ports
  <2> QED
    BY <2>1, <2>2 DEF IInv, Where, BufferByOne
<1>7. WaitsAlone' /\ TimerRuns'
  BY <1>1, <1>2
     DEF IInv, Typed, Where, WaitsAlone, TimerRuns, OpenNotify, closing
<1>8. CountRight'
  <2>1. \A p \in Ports : Having(p, Counted)' = Having(p, Counted)
    BY <1>1, <1>2, HavingSame
       DEF IInv, Counted, Inside, Opening, Connected, Leaving
  <2>2. openCount' = openCount
    BY DEF OpenNotify, ports
  <2> QED
    BY <2>1, <2>2 DEF IInv, CountRight
<1> QED
  BY <1>3, <1>4, <1>5, <1>6, <1>7, <1>8 DEF IInv, Where

LEMMA CleanupStep ==
  ASSUME IInv, NEW a \in Apps, Cleanup(a)
  PROVE  IInv'
<1>1. PICK to \in {"cleaned"} : pc' = [pc EXCEPT ![a] = to]
  BY CleanupOne DEF Cleanup, Goto
<1>2. pc[a] = "using" /\ at' = at
  BY DEF Cleanup, Goto
<1>3. Typed'
  BY <1>1, <1>2, CleanupOne
     DEF IInv, Typed, Cleanup, Goto, ports, closing, pnp, Inside, Opening,
         Connected, Leaving
<1>4. Sole'
  BY <1>1, <1>2, SoleKept DEF IInv, Where, Inside, Opening, Connected, Leaving
<1>5. OpenByOne'
  <2>1. \A p \in Ports : Having(p, Connected)' = Having(p, Connected)
    BY <1>1, <1>2, HavingSame DEF IInv, Inside, Opening, Connected, Leaving
  <2>2. isOpen' = isOpen
    BY DEF Cleanup, ports
  <2> QED
    BY <2>1, <2>2 DEF IInv, Where, OpenByOne
<1>6. BufferByOne'
  <2>1. \A p \in Ports : Having(p, Buffered)' = Having(p, Buffered)
    BY <1>1, <1>2, HavingSame
       DEF IInv, Buffered, Inside, Opening, Connected, Leaving
  <2>2. readBuf' = readBuf
    BY DEF Cleanup, ports
  <2> QED
    BY <2>1, <2>2 DEF IInv, Where, BufferByOne
<1>7. WaitsAlone' /\ TimerRuns'
  <2>1. closeQueue' = closeQueue /\ timer' = timer /\ dpc' = dpc
    BY CleanupOne DEF Cleanup
  <2> QED
    BY <1>1, <1>2, <2>1
       DEF IInv, Typed, Where, WaitsAlone, TimerRuns
<1>8. CountRight'
  <2>1. \A p \in Ports : Having(p, Counted)' = Having(p, Counted)
    BY <1>1, <1>2, HavingSame
       DEF IInv, Counted, Inside, Opening, Connected, Leaving
  <2>2. openCount' = openCount
    BY DEF Cleanup, ports
  <2> QED
    BY <2>1, <2>2 DEF IInv, CountRight
<1> QED
  BY <1>3, <1>4, <1>5, <1>6, <1>7, <1>8 DEF IInv, Where

LEMMA CloseNotifyStep ==
  ASSUME IInv, NEW a \in Apps, CloseNotify(a)
  PROVE  IInv'
<1>1. PICK to \in {"free"} : pc' = [pc EXCEPT ![a] = to]
  BY DEF CloseNotify, Goto
<1>2. pc[a] = "unplug" /\ at' = at
  BY DEF CloseNotify, Goto
<1>3. Typed'
  BY <1>1, <1>2
     DEF IInv, Typed, CloseNotify, Invalidate, Goto, ports, closing, pnp,
         Inside, Opening, Connected, Leaving
<1>4. Sole'
  BY <1>1, <1>2, SoleKept DEF IInv, Where, Inside, Opening, Connected, Leaving
<1>5. OpenByOne'
  <2>1. \A p \in Ports : Having(p, Connected)' = Having(p, Connected)
    BY <1>1, <1>2, HavingSame DEF IInv, Inside, Opening, Connected, Leaving
  <2>2. isOpen' = isOpen
    BY DEF CloseNotify, ports
  <2> QED
    BY <2>1, <2>2 DEF IInv, Where, OpenByOne
<1>6. BufferByOne'
  <2>1. \A p \in Ports : Having(p, Buffered)' = Having(p, Buffered)
    BY <1>1, <1>2, HavingSame
       DEF IInv, Buffered, Inside, Opening, Connected, Leaving
  <2>2. readBuf' = readBuf
    BY DEF CloseNotify, ports
  <2> QED
    BY <2>1, <2>2 DEF IInv, Where, BufferByOne
<1>7. WaitsAlone' /\ TimerRuns'
  BY <1>1, <1>2
     DEF IInv, Typed, Where, WaitsAlone, TimerRuns, CloseNotify, closing
<1>8. CountRight'
  <2>1. \A p \in Ports : Having(p, Counted)' = Having(p, Counted)
    BY <1>1, <1>2, HavingSame
       DEF IInv, Counted, Inside, Opening, Connected, Leaving
  <2>2. openCount' = openCount
    BY DEF CloseNotify, ports
  <2> QED
    BY <2>1, <2>2 DEF IInv, CountRight
<1> QED
  BY <1>3, <1>4, <1>5, <1>6, <1>7, <1>8 DEF IInv, Where

LEMMA CloseFreeStep ==
  ASSUME IInv, NEW a \in Apps, CloseFree(a)
  PROVE  IInv'
<1>1. PICK to \in {"start"} : pc' = [pc EXCEPT ![a] = to]
  BY DEF CloseFree, Goto
<1>2. pc[a] = "free" /\ at' = at
  BY DEF CloseFree, Goto
<1>3. Typed'
  BY <1>1, <1>2
     DEF IInv, Typed, CloseFree, Goto, ports, closing, pnp, Inside, Opening,
         Connected, Leaving
<1>4. Sole'
  BY <1>1, <1>2, SoleKept DEF IInv, Where, Inside, Opening, Connected, Leaving
<1>5. OpenByOne'
  <2>1. \A p \in Ports : Having(p, Connected)' = Having(p, Connected)
    BY <1>1, <1>2, HavingSame DEF IInv, Inside, Opening, Connected, Leaving
  <2>2. isOpen' = isOpen
    BY DEF CloseFree, ports
  <2> QED
    BY <2>1, <2>2 DEF IInv, Where, OpenByOne
<1>6. BufferByOne'
  <2>1. \A p \in Ports :
          p # at[a] => Having(p, Buffered)' = Having(p, Buffered)
    BY <1>1, <1>2, HavingBeside DEF IInv
  <2> QED
    BY <2>1 DEF IInv, Typed, Where, BufferByOne, CloseFree
<1>7. WaitsAlone' /\ TimerRuns'
  BY <1>1, <1>2
     DEF IInv, Typed, Where, WaitsAlone, TimerRuns, CloseFree, closing
<1>8. CountRight'
  <2>1. \A p \in Ports : Having(p, Counted)' = Having(p, Counted)
    BY <1>1, <1>2, HavingSame
       DEF IInv, Counted, Inside, Opening, Connected, Leaving
  <2>2. openCount' = openCount
    BY DEF CloseFree, ports
  <2> QED
    BY <2>1, <2>2 DEF IInv, CountRight
<1> QED
  BY <1>3, <1>4, <1>5, <1>6, <1>7, <1>8 DEF IInv, Where

LEMMA CloseReturnStep ==
  ASSUME IInv, NEW a \in Apps, CloseReturn(a)
  PROVE  IInv'
<1>1. PICK to \in {"idle"} : pc' = [pc EXCEPT ![a] = to]
  BY DEF CloseReturn, Goto
<1>2. pc[a] = "done" /\ at' = at
  BY DEF CloseReturn, Goto
<1>3. Typed'
  BY <1>1, <1>2
     DEF IInv, Typed, CloseReturn, Goto, ports, closing, pnp, Inside, Opening,
         Connected, Leaving
<1>4. Sole'
  BY <1>1, <1>2, SoleKept DEF IInv, Where, Inside, Opening, Connected, Leaving
<1>5. OpenByOne'
  <2>1. \A p \in Ports : Having(p, Connected)' = Having(p, Connected)
    BY <1>1, <1>2, HavingSame DEF IInv, Inside, Opening, Connected, Leaving
  <2>2. isOpen' = isOpen
    BY DEF CloseReturn, ports
  <2> QED
    BY <2>1, <2>2 DEF IInv, Where, OpenByOne
<1>6. BufferByOne'
  <2>1. \A p \in Ports : Having(p, Buffered)' = Having(p, Buffered)
    BY <1>1, <1>2, HavingSame
       DEF IInv, Buffered, Inside, Opening, Connected, Leaving
  <2>2. readBuf' = readBuf
    BY DEF CloseReturn, ports
  <2> QED
    BY <2>1, <2>2 DEF IInv, Where, BufferByOne
<1>7. WaitsAlone' /\ TimerRuns'
  BY <1>1, <1>2
     DEF IInv, Typed, Where, WaitsAlone, TimerRuns, CloseReturn, closing
<1>8. CountRight'
  <2>1. \A p \in Ports : Having(p, Counted)' = Having(p, Counted)
    BY <1>1, <1>2, HavingSame
       DEF IInv, Counted, Inside, Opening, Connected, Leaving
  <2>2. openCount' = openCount
    BY DEF CloseReturn, ports
  <2> QED
    BY <2>1, <2>2 DEF IInv, CountRight
<1> QED
  BY <1>3, <1>4, <1>5, <1>6, <1>7, <1>8 DEF IInv, Where

(* The timer, and a query before it completes closes, leave everyone where *)
(* it is.                                                                  *)
LEMMA TimerFireStep ==
  ASSUME IInv, NEW p \in Ports, TimerFire(p)
  PROVE  IInv'
<1>1. Typed'
  BY DEF IInv, Typed, TimerFire, ports, closing, pnp
<1>2. Sole' /\ OpenByOne' /\ BufferByOne'
  BY DEF IInv, Where, Sole, OpenByOne, BufferByOne, Having, TimerFire, ports
<1>3. WaitsAlone' /\ TimerRuns'
  BY DEF IInv, Typed, Where, WaitsAlone, TimerRuns, TimerFire, closing
<1>4. CountRight'
  BY DEF IInv, CountRight, Having, TimerFire, ports
<1> QED
  BY <1>1, <1>2, <1>3, <1>4 DEF IInv, Where

LEMMA QueryLocalStep ==
  ASSUME IInv, NEW p \in Ports, QueryLocal(p)
  PROVE  IInv'
<1>1. Typed'
  BY DEF IInv, Typed, QueryLocal, QueryStep, ports, closing, pnp
<1>2. Sole' /\ OpenByOne' /\ BufferByOne'
  BY DEF IInv, Where, Sole, OpenByOne, BufferByOne, Having, QueryLocal, ports
<1>3. WaitsAlone' /\ TimerRuns'
  BY DEF IInv, Typed, Where, WaitsAlone, TimerRuns, QueryLocal, closing
<1>4. CountRight'
  BY DEF IInv, CountRight, Having, QueryLocal, ports
<1> QED
  BY <1>1, <1>2, <1>3, <1>4 DEF IInv, Where

LEMMA QueryRemoteStep ==
  ASSUME IInv, NEW p \in Ports, QueryRemote(p)
  PROVE  IInv'
<1>1. Typed'
  BY DEF IInv, Typed, QueryRemote, QueryStep, ports, closing, pnp
<1>2. Sole' /\ OpenByOne' /\ BufferByOne'
  BY DEF IInv, Where, Sole, OpenByOne, BufferByOne, Having, QueryRemote, ports
<1>3. WaitsAlone' /\ TimerRuns'
  BY DEF IInv, Typed, Where, WaitsAlone, TimerRuns, QueryRemote, closing
<1>4. CountRight'
  BY DEF IInv, CountRight, Having, QueryRemote, ports
<1> QED
  BY <1>1, <1>2, <1>3, <1>4 DEF IInv, Where

LEMMA HidePortStep ==
  ASSUME IInv, NEW p \in Ports, HidePort(p)
  PROVE  IInv'
<1>1. Typed'
  BY DEF IInv, Typed, HidePort, QueryStep, ports, closing, pnp
<1>2. Sole' /\ OpenByOne' /\ BufferByOne'
  BY DEF IInv, Where, Sole, OpenByOne, BufferByOne, Having, HidePort, ports
<1>3. WaitsAlone' /\ TimerRuns'
  BY DEF IInv, Typed, Where, WaitsAlone, TimerRuns, HidePort, closing
<1>4. CountRight'
  BY DEF IInv, CountRight, Having, HidePort, ports
<1> QED
  BY <1>1, <1>2, <1>3, <1>4 DEF IInv, Where

LEMMA ShowPortStep ==
  ASSUME IInv, NEW p \in Ports, ShowPort(p)
  PROVE  IInv'
<1>1. Typed'
  BY DEF IInv, Typed, ShowPort, QueryStep, ports, closing, pnp
<1>2. Sole' /\ OpenByOne' /\ BufferByOne'
  BY DEF IInv, Where, Sole, OpenByOne, BufferByOne, Having, ShowPort, ports
<1>3. WaitsAlone' /\ TimerRuns'
  BY DEF IInv, Typed, Where, WaitsAlone, TimerRuns, ShowPort, closing
<1>4. CountRight'
  BY DEF IInv, CountRight, Having, ShowPort, ports
<1> QED
  BY <1>1, <1>2, <1>3, <1>4 DEF IInv, Where

(* An application enters a port whose count was 0, where nobody is.        *)
LEMMA OpenEnterStep ==
  ASSUME IInv, NEW a \in Apps, NEW q \in Ports, OpenEnter(a, q)
  PROVE  IInv'
<1>1. PICK to \in {"plugIn", "denied"} : pc' = [pc EXCEPT ![a] = to]
  BY DEF OpenEnter
<1>2. pc[a] = "idle" /\ at' = [at EXCEPT ![a] = q]
  BY DEF OpenEnter
<1>3. Typed'
  BY <1>1, <1>2, OpenAssumption
     DEF IInv, Typed, OpenEnter, closing, pnp, Inside, Opening
<1>4. Sole'
  <2>1. CASE to = "denied"
    BY <1>1, <1>2, <2>1
       DEF IInv, Typed, Where, Sole, Inside, Opening, Connected, Leaving
  <2>2. CASE to = "plugIn"
    <3>1. openCount[q] = 0
      BY <1>1, <2>2 DEF OpenEnter, IInv, Typed
    <3>2. Having(q, Counted) = {}
      BY <3>1, FS_EmptySet, HavingFinite DEF IInv, CountRight
    <3>3. \A b \in Apps : at[b] = q => pc[b] \notin Inside
      BY <3>2 DEF Having, Counted
    <3> QED
      BY <1>1, <1>2, <3>3 DEF IInv, Typed, Where, Sole
  <2> QED
    BY <2>1, <2>2
<1>5. \A p \in Ports : /\ Having(p, Connected)' = Having(p, Connected)
                      /\ Having(p, Buffered)' = Having(p, Buffered)
  BY <1>1, <1>2 DEF IInv, Typed, Having, Buffered, Connected
<1>6. OpenByOne' /\ BufferByOne'
  BY <1>5 DEF IInv, Where, OpenByOne, BufferByOne, OpenEnter
<1>7. WaitsAlone' /\ TimerRuns'
  BY <1>1, <1>2
     DEF IInv, Typed, Where, WaitsAlone, TimerRuns, OpenEnter, closing
<1>8. CountRight'
  <2>1. \A p \in Ports :
          Cardinality(Having(p, Counted)') =
            Cardinality(Having(p, Counted)) + (IF p = q THEN 1 ELSE 0)
    BY <1>1, <1>2, CountMore
       DEF IInv, Counted, Inside, Opening, Connected, Leaving
  <2>2. openCount' = [openCount EXCEPT ![q] = @ + 1]
    BY DEF OpenEnter
  <2> QED
    BY <2>1, <2>2, HavingFinite DEF IInv, Typed, CountRight
<1> QED
  BY <1>3, <1>4, <1>6, <1>7, <1>8 DEF IInv, Where

(* The port of an application that closes it is open.                      *)
LEMMA CloseEnterStep ==
  ASSUME IInv, NEW a \in Apps, CloseEnter(a)
  PROVE  IInv'
<1>0. isOpen[at[a]]
  BY DEF CloseEnter, Goto, IInv, Typed, Where, OpenByOne, Having, Connected
<1>1. PICK to \in {"unplug"} : pc' = [pc EXCEPT ![a] = to]
  BY <1>0 DEF CloseEnter, Goto
<1>2. pc[a] = "cleaned" /\ at' = at
  BY DEF CloseEnter, Goto
<1>3. Typed'
  BY <1>1, <1>2
     DEF IInv, Typed, CloseEnter, Goto, ports, closing, pnp, Inside, Opening,
         Connected, Leaving
<1>4. Sole'
  BY <1>1, <1>2, SoleKept DEF IInv, Where, Inside, Opening, Connected, Leaving
<1>5. OpenByOne'
  <2>1. \A p \in Ports :
          p # at[a] => Having(p, Connected)' = Having(p, Connected)
    BY <1>1, <1>2, HavingBeside DEF IInv
  <2>2. Having(at[a], Connected)' = {}
    BY <1>1, <1>2
       DEF IInv, Typed, Where, Sole, Having, Inside, Opening, Connected,
           Leaving
  <2>3. isOpen' = [isOpen EXCEPT ![at[a]] = FALSE]
    BY DEF CloseEnter
  <2>4. \A p \in Ports : isOpen'[p] <=> p # at[a] /\ isOpen[p]
    BY <2>3 DEF IInv, Typed
  <2> QED
    BY <1>2, <2>1, <2>2, <2>4 DEF IInv, Where, OpenByOne
<1>6. BufferByOne'
  <2>1. \A p \in Ports : Having(p, Buffered)' = Having(p, Buffered)
    BY <1>1, <1>2, HavingSame
       DEF IInv, Buffered, Inside, Opening, Connected, Leaving
  <2>2. readBuf' = readBuf
    BY DEF CloseEnter, ports
  <2> QED
    BY <2>1, <2>2 DEF IInv, Where, BufferByOne
<1>7. WaitsAlone' /\ TimerRuns'
  BY <1>1, <1>2
     DEF IInv, Typed, Where, WaitsAlone, TimerRuns, CloseEnter, closing
<1>8. CountRight'
  <2>1. \A p \in Ports : Having(p, Counted)' = Having(p, Counted)
    BY <1>1, <1>2, HavingSame
       DEF IInv, Counted, Inside, Opening, Connected, Leaving
  <2>2. openCount' = openCount
    BY DEF CloseEnter, ports
  <2> QED
    BY <2>1, <2>2 DEF IInv, CountRight
<1> QED
  BY <1>3, <1>4, <1>5, <1>6, <1>7, <1>8 DEF IInv, Where

(* A close that starts finds the queue empty; it waits or is done.         *)
LEMMA CloseStartStep ==
  ASSUME IInv, NEW a \in Apps, CloseStart(a)
  PROVE  IInv'
<1>1. pc[a] = "start" /\ at' = at /\ closeQueue[at[a]] = <<>>
  BY DEF CloseStart, Goto, IInv, Typed, Where, WaitsAlone, Sole, Inside,
         Leaving
<1>2. PICK to \in {"pending", "done"} : pc' = [pc EXCEPT ![a] = to]
  BY DEF CloseStart, Goto
<1>3. Typed'
  <2>1. /\ pc' \in [Apps -> Inside \cup {"idle", "denied", "done"}]
        /\ openCount' \in [Ports -> Int]
        /\ closeQueue' \in [Ports -> Seq(Apps)]
    BY <1>1, <1>2 DEF CloseStart, IInv, Typed, Inside, Leaving
  <2>2. timer' \in [Ports -> BOOLEAN] /\ stale' \in [Ports -> BOOLEAN]
    BY DEF CloseStart, Invalidate, SetCloseTimeout, IInv, Typed
  <2> QED
    BY <1>1, <2>1, <2>2 DEF CloseStart, Goto, IInv, Typed
<1>4. Sole'
  BY <1>1, <1>2, SoleKept
     DEF IInv, Where, Inside, Opening, Connected, Leaving
<1>5. OpenByOne' /\ BufferByOne'
  <2>1. \A p \in Ports : /\ Having(p, Connected)' = Having(p, Connected)
                        /\ Having(p, Buffered)' = Having(p, Buffered)
    BY <1>1, <1>2, HavingSame DEF IInv, Buffered, Connected
  <2>2. isOpen' = isOpen /\ readBuf' = readBuf
    BY DEF CloseStart
  <2> QED
    BY <2>1, <2>2 DEF IInv, Where, OpenByOne, BufferByOne
<1>6. CASE at[a] \in mode.exclusive
  <2>1. /\ pc' = [pc EXCEPT ![a] = "pending"]
        /\ closeQueue' = [closeQueue EXCEPT ![at[a]] = <<a>>]
        /\ timer' = [timer EXCEPT ![at[a]] = TRUE]
        /\ dpc' = dpc /\ openCount' = openCount
    BY <1>1, <1>6 DEF CloseStart, Goto, SetCloseTimeout, IInv, Typed
  <2>2. WaitsAlone' /\ TimerRuns'
    BY <1>1, <2>1
       DEF IInv, Typed, Where, WaitsAlone, TimerRuns
  <2>3. CountRight'
    <3>1. \A p \in Ports : Having(p, Counted)' = Having(p, Counted)
      BY <1>1, <2>1, HavingSame DEF IInv, Counted, Inside, Leaving
    <3> QED
      BY <2>1, <3>1 DEF IInv, CountRight
  <2> QED
    BY <1>3, <1>4, <1>5, <2>2, <2>3 DEF IInv, Where
<1>7. CASE at[a] \notin mode.exclusive
  <2>1. /\ pc' = [pc EXCEPT ![a] = "done"]
        /\ closeQueue' = closeQueue /\ timer' = timer /\ dpc' = dpc
        /\ openCount' = [openCount EXCEPT ![at[a]] = @ - 1]
    BY <1>1, <1>7 DEF CloseStart, Goto, IInv, Typed
  <2>2. WaitsAlone' /\ TimerRuns'
    BY <1>1, <2>1 DEF IInv, Typed, Where, WaitsAlone, TimerRuns
  <2>3. CountRight'
    <3>1. \A p \in Ports :
            Cardinality(Having(p, Counted)') =
              Cardinality(Having(p, Counted)) - (IF p = at[a] THEN 1 ELSE 0)
      BY <1>1, <2>1, CountLess
         DEF IInv, Counted, Inside, Opening, Connected, Leaving
    <3> QED
      BY <2>1, <3>1, HavingFinite DEF IInv, Typed, CountRight
  <2> QED
    BY <1>3, <1>4, <1>5, <2>2, <2>3 DEF IInv, Where
<1> QED
  BY <1>6, <1>7

(* The timer and the query complete the close that waits, if there is one. *)
LEMMA CompleteStep ==
  ASSUME IInv, NEW p \in Ports, CloseComplete(p), Typed',
         \A q \in Ports :
           q # p /\ (timer[q] \/ dpc[q]) => (timer[q] \/ dpc[q])'
  PROVE  IInv'
<1>1. isOpen' = isOpen /\ readBuf' = readBuf /\ at' = at
  BY DEF CloseComplete
<1>2. CASE /\ closeQueue[p] = <<>> /\ pc' = pc
           /\ openCount' = openCount /\ closeQueue' = closeQueue
  <2>1. Sole' /\ OpenByOne' /\ BufferByOne' /\ WaitsAlone'
    BY <1>1, <1>2
       DEF IInv, Where, Sole, OpenByOne, BufferByOne, WaitsAlone, Having
  <2>2. TimerRuns'
    BY <1>2 DEF IInv, Where, TimerRuns
  <2>3. CountRight'
    BY <1>1, <1>2 DEF IInv, CountRight, Having
  <2> QED
    BY <2>1, <2>2, <2>3 DEF IInv, Where
<1>3. ASSUME NEW a \in Apps,
             closeQueue[p] = <<a>>, pc[a] = "pending", at[a] = p,
             pc' = [pc EXCEPT ![a] = "done"],
             openCount' = [openCount EXCEPT ![p] = @ - 1],
             closeQueue' = [closeQueue EXCEPT ![p] = <<>>]
      PROVE  IInv'
  <2>1. Sole'
    BY <1>1, <1>3, SoleKept
       DEF IInv, Where, Inside, Opening, Connected, Leaving
  <2>2. OpenByOne' /\ BufferByOne'
    <3>1. \A q \in Ports : /\ Having(q, Connected)' = Having(q, Connected)
                          /\ Having(q, Buffered)' = Having(q, Buffered)
      BY <1>1, <1>3, HavingSame DEF IInv, Buffered, Connected
    <3> QED
      BY <1>1, <3>1 DEF IInv, Where, OpenByOne, BufferByOne
  <2>3. WaitsAlone'
    BY <1>1, <1>3
       DEF IInv, Typed, Where, WaitsAlone, Sole, Inside, Leaving
  <2>4. TimerRuns'
    BY <1>3 DEF IInv, Typed, Where, TimerRuns
  <2>5. CountRight'
    <3>1. \A q \in Ports :
            Cardinality(Having(q, Counted)') =
              Cardinality(Having(q, Counted)) - (IF q = at[a] THEN 1 ELSE 0)
      BY <1>1, <1>3, CountLess
         DEF IInv, Counted, Inside, Opening, Connected, Leaving
    <3> QED
      BY <1>3, <3>1, HavingFinite DEF IInv, Typed, CountRight
  <2> QED
    BY <2>1, <2>2, <2>3, <2>4, <2>5 DEF IInv, Where
<1> QED
  BY <1>2, <1>3, CompleteOne

LEMMA CompleteTyped ==
  ASSUME IInv, NEW p \in Ports, CloseComplete(p)
  PROVE  /\ pc' \in [Apps -> Inside \cup {"idle", "denied", "done"}]
         /\ openCount' \in [Ports -> Int]
         /\ closeQueue' \in [Ports -> Seq(Apps)]
<1>1. CASE /\ closeQueue[p] = <<>> /\ pc' = pc
           /\ openCount' = openCount /\ closeQueue' = closeQueue
  BY <1>1 DEF IInv, Typed
<1>2. CASE \E a \in Apps :
             /\ pc' = [pc EXCEPT ![a] = "done"]
             /\ openCount' = [openCount EXCEPT ![p] = @ - 1]
             /\ closeQueue' = [closeQueue EXCEPT ![p] = <<>>]
  <2>1. pc' \in [Apps -> Inside \cup {"idle", "denied", "done"}]
    BY <1>2 DEF IInv, Typed
  <2>2. openCount' \in [Ports -> Int]
    BY <1>2 DEF IInv, Typed
  <2>3. closeQueue' \in [Ports -> Seq(Apps)]
    BY <1>2 DEF IInv, Typed
  <2> QED
    BY <2>1, <2>2, <2>3
<1> QED
  BY <1>1, <1>2, CompleteOne

LEMMA TimeoutCloseStep ==
  ASSUME IInv, NEW p \in Ports, TimeoutClose(p)
  PROVE  IInv'
<1>1. CloseComplete(p)
  BY DEF TimeoutClose
<1>2. dpc' \in [Ports -> BOOLEAN]
  BY DEF TimeoutClose, IInv, Typed
<1>3. Typed'
  <2>1. /\ pc' \in [Apps -> Inside \cup {"idle", "denied", "done"}]
        /\ openCount' \in [Ports -> Int]
        /\ closeQueue' \in [Ports -> Seq(Apps)]
    BY <1>1, CompleteTyped
  <2>2. UNCHANGED <<mode, isOpen, readBuf, at, opens, timer, stale, shown, query>>
    BY DEF TimeoutClose, CloseComplete, pnp
  <2> QED
    BY <1>2, <2>1, <2>2 DEF IInv, Typed
<1>4. \A q \in Ports :
        q # p /\ (timer[q] \/ dpc[q]) => (timer[q] \/ dpc[q])'
  BY DEF TimeoutClose, IInv, Typed
<1> QED
  BY <1>1, <1>3, <1>4, CompleteStep

LEMMA QueryCompleteStep ==
  ASSUME IInv, NEW p \in Ports, QueryComplete(p)
  PROVE  IInv'
<1>1. CloseComplete(p)
  BY DEF QueryComplete
<1>2. query' \in [Ports -> {"idle", "remote", "hide", "show", "complete"}]
  BY DEF QueryComplete, QueryStep, IInv, Typed
<1>3. Typed'
  <2>1. /\ pc' \in [Apps -> Inside \cup {"idle", "denied", "done"}]
        /\ openCount' \in [Ports -> Int]
        /\ closeQueue' \in [Ports -> Seq(Apps)]
    BY <1>1, CompleteTyped
  <2>2. UNCHANGED <<mode, isOpen, readBuf, at, opens, timer, dpc, stale, shown>>
    BY DEF QueryComplete, CloseComplete
  <2> QED
    BY <1>2, <2>1, <2>2 DEF IInv, Typed
<1>4. \A q \in Ports :
        q # p /\ (timer[q] \/ dpc[q]) => (timer[q] \/ dpc[q])'
  BY DEF QueryComplete
<1> QED
  BY <1>1, <1>3, <1>4, CompleteStep

LEMMA StutterStep == ASSUME IInv, UNCHANGED vars PROVE IInv'
BY DEF IInv, Typed, Where, Sole, OpenByOne, BufferByOne, WaitsAlone,
       TimerRuns, CountRight, Having, vars, ports, closing, pnp

LEMMA NextInvariant == IInv /\ [Next]_vars => IInv'
BY OpenEnterStep, OpenDeniedStep, OpenPlugInStep, OpenRelationsStep,
   OpenInitStep, OpenMarkStep, OpenNotifyStep, CleanupStep, CloseEnterStep,
   CloseNotifyStep, CloseFreeStep, CloseStartStep, CloseReturnStep,
   TimerFireStep, TimeoutCloseStep, QueryLocalStep, QueryRemoteStep,
   HidePortStep, ShowPortStep, QueryCompleteStep, StutterStep
   DEF Next, OpenSteps, CloseSteps, QuerySteps

LEMMA InvariantHolds == Spec => []IInv
BY InitInvariant, NextInvariant, PTL DEF Spec
-----------------------------------------------------------------------------
LEMMA InvariantTypes == IInv => TypeOK
<1> SUFFICES ASSUME IInv PROVE TypeOK
  OBVIOUS
<1>1. openCount \in [Ports -> 0 .. Cardinality(Apps)]
  BY HavingFinite DEF IInv, Typed, CountRight
<1> QED
  BY <1>1 DEF IInv, Typed, TypeOK

LEMMA InvariantSession == IInv => OneSession
<1> SUFFICES ASSUME IInv, NEW p \in Ports
             PROVE  /\ Cardinality(Having(p, Inside)) <= 1
                    /\ isOpen[p] <=> Having(p, Connected) # {}
  BY DEF OneSession
<1>1. CASE Having(p, Inside) = {}
  BY <1>1, FS_EmptySet DEF IInv, Where, OpenByOne
<1>2. CASE Having(p, Inside) # {}
  <2>1. PICK a \in Having(p, Inside) : TRUE
    BY <1>2
  <2>2. Having(p, Inside) = {a}
    BY <2>1 DEF IInv, Where, Sole, Having
  <2>3. Cardinality(Having(p, Inside)) = 1
    BY <2>2, FS_Singleton
  <2> QED
    BY <2>3 DEF IInv, Where, OpenByOne
<1> QED
  BY <1>1, <1>2

LEMMA InvariantBuffer == IInv => BufferOfSession
BY DEF IInv, Where, BufferByOne, BufferOfSession, Buffered

LEMMA InvariantTimer == IInv => PendingCloseHasTimer
<1> SUFFICES ASSUME IInv, NEW p \in Ports
             PROVE  Having(p, {"pending"}) =
                      {a \in Apps : \E i \in DOMAIN closeQueue[p] :
                                      closeQueue[p][i] = a}
  BY DEF PendingCloseHasTimer, IInv, Where, TimerRuns
<1>1. CASE /\ closeQueue[p] = <<>>
           /\ \A a \in Apps : pc[a] = "pending" => at[a] # p
  BY <1>1 DEF Having
<1>2. ASSUME NEW a \in Apps, closeQueue[p] = <<a>>, pc[a] = "pending",
             at[a] = p
      PROVE  Having(p, {"pending"}) =
               {b \in Apps : \E i \in DOMAIN closeQueue[p] :
                               closeQueue[p][i] = b}
  <2>1. \A b \in Apps : (\E i \in DOMAIN closeQueue[p] : closeQueue[p][i] = b)
                       <=> b = a
    BY <1>2
  <2>2. \A b \in Apps : pc[b] = "pending" /\ at[b] = p <=> b = a
    BY <1>2 DEF IInv, Where, Sole, Inside, Leaving
  <2> QED
    BY <2>1, <2>2 DEF Having
<1> QED
  BY <1>1, <1>2 DEF IInv, Where, WaitsAlone

(* Opening and closing keep every variable in its type; in particular      *)
(* openCount is never negative and never more than the applications.       *)
THEOREM OpenTypeCorrect == Spec => []TypeOK
BY InvariantHolds, InvariantTypes, PTL

(* The count of a port is the number of those who have or try it, so that  *)
(* no order of opens, closes, timers and queries locks everybody out.      *)
THEOREM CountNeverDrifts == Spec => []OpenCountExact
<1>1. IInv => OpenCountExact
  BY DEF IInv, CountRight, OpenCountExact, Counted
<1> QED
  BY <1>1, InvariantHolds, PTL

(* A port serves one application at a time, and isOpen says so.            *)
THEOREM NeverTwoSessions == Spec => []OneSession
BY InvariantHolds, InvariantSession, PTL

(* The memory of the receive buffer never outlives its session: the next   *)
(* FdoPortOpen does not overwrite a pointer that still owns memory.        *)
THEOREM BufferNeverLeaks == Spec => []BufferOfSession
BY InvariantHolds, InvariantBuffer, PTL

(* A close that waits has a timer or a DPC to end it, and whoever waits is *)
(* in the close queue, in any order of closes, timers and queries.         *)
THEOREM CloseNeverStuck == Spec => []PendingCloseHasTimer
BY InvariantHolds, InvariantTimer, PTL
-----------------------------------------------------------------------------
(* What a query does to a port.  A query is owed while one is asked for or *)
(* while somebody is between the change of isOpen and the call of          *)
(* IoInvalidateDeviceRelations; while none is owed, the stage of the query *)
(* and what it showed last agree with isOpen of both ports.                *)
Owed(p) ==
  \/ stale[p]
  \/ p \in mode.exclusive /\ \E a \in Apps :
       at[a] = p /\ pc[a] \in {"unplug", "free", "start"}
  \/ p \in mode.plugIn /\ \E a \in Apps :
       at[a] = Remote(p) /\ pc[a] \in {"notify", "unplug"}

Agrees(p) ==
  /\ query[p] = "hide" => Absent(p) \/ Busy(p)
  /\ query[p] = "show" => ~Absent(p)
  /\ query[p] \in {"idle", "complete"} /\ Absent(p) => ~shown[p]
  /\ query[p] \in {"idle", "complete"} /\ ~shown[p] => Absent(p) \/ Busy(p)

Queried == \A p \in Ports : Owed(p) \/ Agrees(p)

LEMMA InitQueried == Init => Queried
BY DEF Init, Queried, Agrees, Absent, Busy, Ports, Remote

(* A step that changes nothing a query looks at only has to go on owing    *)
(* what is owed.                                                           *)
LEMMA QueriedKept ==
  ASSUME Queried, UNCHANGED <<mode, isOpen, query, shown>>,
         \A p \in Ports : Owed(p) => Owed(p)'
  PROVE  Queried'
BY DEF Queried, Agrees, Absent, Busy

LEMMA OwedKept ==
  ASSUME Typed, NEW a \in Apps, NEW to,
         pc' = [pc EXCEPT ![a] = to], at' = at, mode' = mode,
         \A p \in Ports : stale[p] => stale'[p],
         pc[a] \in {"free", "unplug", "start"} /\ at[a] \in mode.exclusive
           => to \in {"free", "unplug", "start"} \/ stale'[at[a]],
         pc[a] \in {"notify", "unplug"} /\ Remote(at[a]) \in mode.plugIn
           => to \in {"notify", "unplug"} \/ stale'[Remote(at[a])]
  PROVE  \A p \in Ports : Owed(p) => Owed(p)'
<1> SUFFICES ASSUME NEW p \in Ports, Owed(p) PROVE Owed(p)'
  OBVIOUS
<1>1. \A q \in Ports : Remote(q) \in Ports /\ Remote(Remote(q)) = q
  BY DEF Ports, Remote
<1>2. CASE stale[p]
  BY <1>2 DEF Owed
<1>3. ASSUME p \in mode.exclusive, NEW b \in Apps, at[b] = p,
             pc[b] \in {"unplug", "free", "start"}
      PROVE  Owed(p)'
  BY <1>3 DEF Owed, Typed
<1>4. ASSUME p \in mode.plugIn, NEW b \in Apps, at[b] = Remote(p),
             pc[b] \in {"notify", "unplug"}
      PROVE  Owed(p)'
  BY <1>1, <1>4 DEF Owed, Typed
<1> QED
  BY <1>2, <1>3, <1>4 DEF Owed

LEMMA QueriedOpen ==
  ASSUME IInv, Queried, NEW a \in Apps,
         \/ OpenDenied(a) \/ OpenPlugIn(a) \/ OpenRelations(a)
         \/ OpenInit(a) \/ OpenNotify(a)
  PROVE  Queried'
<1> USE DEF Goto, ports, pnp
<1>1. UNCHANGED <<mode, isOpen, query, shown>>
  BY DEF OpenDenied, OpenPlugIn, OpenRelations, OpenInit, OpenNotify
<1>2. PICK to : /\ pc' = [pc EXCEPT ![a] = to]
                /\ to \notin {"free", "unplug", "start", "notify"}
  BY DEF OpenDenied, OpenPlugIn, OpenRelations, OpenInit, OpenNotify
<1>3. at' = at /\ pc[a] \notin {"free", "unplug", "start"}
  BY DEF OpenDenied, OpenPlugIn, OpenRelations, OpenInit, OpenNotify
<1>4. \A p \in Ports : stale[p] => stale'[p]
  BY DEF OpenDenied, OpenPlugIn, OpenRelations, OpenInit, OpenNotify,
         Invalidate, IInv, Typed
<1>5. pc[a] = "notify" /\ Remote(at[a]) \in mode.plugIn
        => stale'[Remote(at[a])]
  BY DEF OpenDenied, OpenPlugIn, OpenRelations, OpenInit, OpenNotify,
         Invalidate, IInv, Typed, Ports, Remote
<1>6. \A p \in Ports : Owed(p) => Owed(p)'
  BY <1>1, <1>2, <1>3, <1>4, <1>5, OwedKept DEF IInv
<1> QED
  BY <1>1, <1>6, QueriedKept

LEMMA QueriedClose ==
  ASSUME IInv, Queried, NEW a \in Apps,
         \/ Cleanup(a) \/ CloseNotify(a) \/ CloseFree(a) \/ CloseStart(a)
         \/ CloseReturn(a)
  PROVE  Queried'
<1> USE DEF Goto, ports, pnp
<1>1. UNCHANGED <<mode, isOpen, query, shown>>
  BY DEF Cleanup, CloseNotify, CloseFree, CloseStart, CloseReturn
<1>2. CASE Cleanup(a)
  <2>1. pc' = [pc EXCEPT ![a] = "cleaned"]
    BY <1>2, CleanupOne
  <2>2. \A p \in Ports : Owed(p) => Owed(p)'
    BY <1>1, <1>2, <2>1, OwedKept DEF IInv, Cleanup
  <2> QED
    BY <1>1, <2>2, QueriedKept
<1>3. CASE CloseStart(a)
  <2>1. closeQueue[at[a]] = <<>>
    BY <1>3 DEF IInv, Typed, Where, WaitsAlone, Sole, CloseStart, Inside,
               Leaving
  <2>2. at[a] \in mode.exclusive => stale'[at[a]]
    BY <1>3, <2>1 DEF CloseStart, Invalidate, IInv, Typed
  <2>3. \A p \in Ports : stale[p] => stale'[p]
    BY <1>3 DEF CloseStart, Invalidate, IInv, Typed
  <2>4. /\ pc[a] = "start" /\ at' = at
        /\ \E to : pc' = [pc EXCEPT ![a] = to]
    BY <1>3 DEF CloseStart
  <2>5. \A p \in Ports : Owed(p) => Owed(p)'
    BY <1>1, <2>2, <2>3, <2>4, OwedKept DEF IInv
  <2> QED
    BY <1>1, <2>5, QueriedKept
<1>4. CASE CloseNotify(a)
  <2>1. Remote(at[a]) \in mode.plugIn => stale'[Remote(at[a])]
    BY <1>4 DEF CloseNotify, Invalidate, IInv, Typed, Ports, Remote
  <2>2. \A p \in Ports : stale[p] => stale'[p]
    BY <1>4 DEF CloseNotify, Invalidate, IInv, Typed
  <2>3. \A p \in Ports : Owed(p) => Owed(p)'
    BY <1>1, <1>4, <2>1, <2>2, OwedKept DEF IInv, CloseNotify
  <2> QED
    BY <1>1, <2>3, QueriedKept
<1>5. CASE CloseFree(a)
  <2>1. \A p \in Ports : Owed(p) => Owed(p)'
    BY <1>1, <1>5, OwedKept DEF IInv, CloseFree
  <2> QED
    BY <1>1, <2>1, QueriedKept
<1>6. CASE CloseReturn(a)
  <2>1. \A p \in Ports : Owed(p) => Owed(p)'
    BY <1>1, <1>6, OwedKept DEF IInv, CloseReturn
  <2> QED
    BY <1>1, <2>1, QueriedKept
<1> QED
  BY <1>2, <1>3, <1>4, <1>5, <1>6

LEMMA QueriedEnter ==
  ASSUME IInv, Queried, NEW a \in Apps, NEW p \in Ports, OpenEnter(a, p)
  PROVE  Queried'
<1>1. UNCHANGED <<mode, isOpen, query, shown, stale>>
  BY DEF OpenEnter, pnp
<1>2. \A b \in Apps :
        b # a => pc'[b] = pc[b] /\ at'[b] = at[b]
  BY DEF OpenEnter, IInv, Typed
<1>3. pc[a] = "idle"
  BY DEF OpenEnter
<1>4. \A q \in Ports : Owed(q) => Owed(q)'
  BY <1>1, <1>2, <1>3 DEF Owed
<1> QED
  BY <1>1, <1>4, QueriedKept

(* isOpen becomes TRUE: the port is busy now, and whoever watches it from  *)
(* the other side is asked next.                                           *)
LEMMA QueriedMark ==
  ASSUME IInv, Queried, NEW a \in Apps, OpenMark(a)
  PROVE  Queried'
<1>1. UNCHANGED <<mode, query, shown, stale, at>> /\ at[a] \in Ports
  BY DEF OpenMark, Goto, pnp, IInv, Typed
<1>2. pc' = [pc EXCEPT ![a] = "notify"] /\ pc[a] = "mark"
  BY DEF OpenMark, Goto
<1>3. isOpen' = [isOpen EXCEPT ![at[a]] = TRUE]
  BY DEF OpenMark
<1>4. \A p \in Ports : Owed(p) => Owed(p)'
  BY <1>1, <1>2, OwedKept DEF IInv
<1>5. \A p \in Ports : Busy(p) => Busy(p)'
  BY <1>1, <1>3 DEF Busy, IInv, Typed
<1>6. \A p \in Ports : p \in mode.plugIn /\ at[a] = Remote(p) => Owed(p)'
  BY <1>1, <1>2 DEF Owed, IInv, Typed
<1>7. \A p \in Ports :
        p \notin mode.plugIn \/ at[a] # Remote(p) => Absent(p)' = Absent(p)
  BY <1>1, <1>3 DEF Absent, IInv, Typed
<1> QED
  BY <1>1, <1>4, <1>5, <1>6, <1>7 DEF Queried, Agrees

LEMMA QueriedLeave ==
  ASSUME IInv, Queried, NEW a \in Apps, CloseEnter(a)
  PROVE  Queried'
<1>1. UNCHANGED <<mode, query, shown, stale, at>> /\ at[a] \in Ports
  BY DEF CloseEnter, Goto, pnp, IInv, Typed
<1>2. isOpen[at[a]]
  BY DEF CloseEnter, Goto, IInv, Typed, Where, OpenByOne, Having, Connected
<1>3. pc' = [pc EXCEPT ![a] = "unplug"] /\ pc[a] = "cleaned"
  BY <1>2 DEF CloseEnter, Goto
<1>4. isOpen' = [isOpen EXCEPT ![at[a]] = FALSE]
  BY DEF CloseEnter
<1>5. \A p \in Ports : Owed(p) => Owed(p)'
  BY <1>1, <1>3, OwedKept DEF IInv
<1>6. \A p \in Ports : \/ p \in mode.plugIn /\ at[a] = Remote(p)
                       \/ p \in mode.exclusive /\ at[a] = p
                       => Owed(p)'
  BY <1>1, <1>3 DEF Owed, IInv, Typed
<1>7. \A p \in Ports : p \notin mode.exclusive \/ at[a] # p
                       => Busy(p)' = Busy(p)
  BY <1>1, <1>4 DEF Busy, IInv, Typed
<1>8. \A p \in Ports :
        p \notin mode.plugIn \/ at[a] # Remote(p) => Absent(p)' = Absent(p)
  BY <1>1, <1>4 DEF Absent, IInv, Typed
<1> QED
  BY <1>1, <1>5, <1>6, <1>7, <1>8 DEF Queried, Agrees

LEMMA QueriedQuery ==
  ASSUME IInv, Queried, NEW p \in Ports,
         \/ QueryLocal(p) \/ QueryRemote(p) \/ HidePort(p) \/ ShowPort(p)
  PROVE  Queried'
<1> USE DEF QueryStep, ports, IInv, Typed
<1>1. UNCHANGED <<mode, isOpen, at, pc>>
  BY DEF QueryLocal, QueryRemote, HidePort, ShowPort
<1>2. \A q \in Ports : q # p => /\ stale'[q] = stale[q]
                                /\ query'[q] = query[q]
                                /\ shown'[q] = shown[q]
  BY DEF QueryLocal, QueryRemote, HidePort, ShowPort
<1>3. \A q \in Ports :
        q # p /\ (Owed(q) \/ Agrees(q)) => (Owed(q) \/ Agrees(q))'
  BY <1>1, <1>2 DEF Owed, Agrees, Absent, Busy
<1>4. QueryLocal(p) => Agrees(p)'
  BY <1>1 DEF QueryLocal, Agrees, Absent, Busy
<1>5. QueryRemote(p) => Agrees(p)'
  BY <1>1 DEF QueryRemote, Agrees, Absent, Busy
<1>6. ~QueryLocal(p) => (Owed(p) => Owed(p)')
  BY <1>1 DEF QueryRemote, HidePort, ShowPort, Owed
<1>7. HidePort(p) => (Agrees(p) => Agrees(p)')
  BY <1>1 DEF HidePort, Agrees, Absent, Busy
<1>8. ShowPort(p) => (Agrees(p) => Agrees(p)')
  BY <1>1 DEF ShowPort, Agrees, Absent, Busy
<1> QED
  BY <1>3, <1>4, <1>5, <1>6, <1>7, <1>8 DEF Queried

(* What the timer and the end of a query complete is a close that waits.   *)
LEMMA QueriedComplete ==
  ASSUME IInv, Queried, NEW p \in Ports, CloseComplete(p),
         UNCHANGED <<mode, stale, shown>>,
         \/ query' = query
         \/ /\ query[p] = "complete"
            /\ query' = [query EXCEPT ![p] = "idle"]
  PROVE  Queried'
<1>1. UNCHANGED <<isOpen, at>>
  BY DEF CloseComplete
<1>2. \A a \in Apps : pc'[a] = pc[a] \/ pc[a] = "pending"
  BY CompleteOne DEF IInv, Typed
<1>3. \A q \in Ports : Owed(q) => Owed(q)'
  BY <1>1, <1>2 DEF Owed
<1>4. \A q \in Ports : Agrees(q) => Agrees(q)'
  BY <1>1 DEF Agrees, Absent, Busy, IInv, Typed
<1> QED
  BY <1>3, <1>4 DEF Queried

LEMMA NextQueried == IInv /\ Queried /\ [Next]_vars => Queried'
<1> SUFFICES ASSUME IInv, Queried, [Next]_vars PROVE Queried'
  OBVIOUS
<1>1. ASSUME NEW p \in Ports, TimerFire(p) PROVE Queried'
  BY <1>1, QueriedKept DEF TimerFire, ports, pnp, Owed
<1>2. ASSUME NEW p \in Ports, TimeoutClose(p) PROVE Queried'
  BY <1>2, QueriedComplete DEF TimeoutClose, CloseComplete, pnp
<1>3. ASSUME NEW p \in Ports, QueryComplete(p) PROVE Queried'
  BY <1>3, QueriedComplete DEF QueryComplete, QueryStep, CloseComplete
<1>4. CASE UNCHANGED vars
  BY <1>4, QueriedKept DEF vars, ports, pnp, Owed
<1> QED
  BY <1>1, <1>2, <1>3, <1>4, QueriedEnter, QueriedOpen, QueriedMark,
     QueriedClose, QueriedLeave, QueriedQuery
     DEF Next, OpenSteps, CloseSteps, QuerySteps

(* Once the queries are done, a plug-in port is hidden exactly while it    *)
(* has a reason to be, however opens, closes and queries interleave,       *)
(* although the queries read both flags isOpen without the lock.           *)
THEOREM HiddenOnlyWithReason == Spec => []ShownWithReason
<1>1. Queried => ShownWithReason
  BY DEF Queried, Owed, Agrees, ShownWithReason, Settled, Having
<1> QED
  BY <1>1, InvariantHolds, InitQueried, NextQueried, PTL DEF Spec
-----------------------------------------------------------------------------
(***************************************************************************)
(* OpenClose implements Session, for any number of applications.  Where    *)
(* the one application inside a port is decides the stage of the session,  *)
(* so each action either leaves every application in its part of the code  *)
(* or takes one of them to the next part.                                  *)
(***************************************************************************)
In(a, p, part) == at[a] = p /\ pc[a] \in part

StageAt(p) ==
  /\ (\A a \in Apps : ~In(a, p, Inside))
       => Stage(p) = "closed" /\ Owner(p) = NoApp
  /\ \A a \in Apps :
       /\ In(a, p, Inside) => Owner(p) = a
       /\ In(a, p, Opening) => Stage(p) = "entering"
       /\ In(a, p, Connected) => Stage(p) = "open"
       /\ In(a, p, Leaving) => Stage(p) = "leaving"

Staged == \A p \in Ports : StageAt(p)

LEMMA StageFacts == IInv => Staged
<1> SUFFICES ASSUME IInv, NEW p \in Ports PROVE StageAt(p)
  BY DEF Staged
<1>1. CASE \A a \in Apps : ~In(a, p, Inside)
  <2>1. /\ Having(p, Connected) = {} /\ Having(p, Opening) = {}
        /\ Having(p, Leaving) = {} /\ Having(p, Inside) = {}
    BY <1>1 DEF Having, Inside, In
  <2>2. ~isOpen[p]
    BY <2>1 DEF IInv, Where, OpenByOne
  <2>3. Stage(p) = "closed" /\ Owner(p) = NoApp
    BY <2>1, <2>2 DEF Stage, Owner
  <2> QED
    BY <1>1, <2>3 DEF StageAt, In, Inside
<1>2. ASSUME NEW a \in Apps, In(a, p, Inside)
      PROVE  StageAt(p)
  <2>1. \A b \in Apps : In(b, p, Inside) => b = a
    BY <1>2 DEF IInv, Where, Sole, In
  <2>2. Having(p, Inside) = {a}
    BY <1>2, <2>1 DEF Having, In
  <2>3. Owner(p) = a
    BY <2>2 DEF Owner
  <2>4. isOpen[p] <=> pc[a] \in Connected
    BY <1>2, <2>1 DEF IInv, Where, OpenByOne, Having, In, Inside
  <2>5. /\ Having(p, Opening) # {} <=> pc[a] \in Opening
        /\ Having(p, Leaving) # {} <=> pc[a] \in Leaving
    BY <1>2, <2>1 DEF Having, In, Inside
  <2>6. /\ pc[a] \in Opening => Stage(p) = "entering"
        /\ pc[a] \in Connected => Stage(p) = "open"
        /\ pc[a] \in Leaving => Stage(p) = "leaving"
    <3>1. CASE pc[a] \in Opening
      <4>1. ~isOpen[p] /\ pc[a] \notin Connected /\ pc[a] \notin Leaving
        BY <2>4, <3>1 DEF Opening, Connected, Leaving
      <4> QED
        BY <2>5, <3>1, <4>1 DEF Stage
    <3>2. CASE pc[a] \in Connected
      <4>1. isOpen[p] /\ pc[a] \notin Opening /\ pc[a] \notin Leaving
        BY <2>4, <3>2 DEF Opening, Connected, Leaving
      <4> QED
        BY <2>5, <3>2, <4>1 DEF Stage
    <3>3. CASE pc[a] \in Leaving
      <4>1. ~isOpen[p] /\ pc[a] \notin Opening /\ pc[a] \notin Connected
        BY <2>4, <3>3 DEF Opening, Connected, Leaving
      <4> QED
        BY <2>5, <3>3, <4>1 DEF Stage
    <3> QED
      BY <3>1, <3>2, <3>3
  <2> QED
    BY <1>2, <2>1, <2>3, <2>6 DEF StageAt, In, Inside
<1> QED
  BY <1>1, <1>2
-----------------------------------------------------------------------------
(* A port keeps its stage when nobody enters or leaves a part of it.       *)
Kept(p) == Owner(p)' = Owner(p) /\ Stage(p)' = Stage(p)

LEMMA SamePlaces ==
  ASSUME NEW p \in Ports, Staged, Staged',
         \A a \in Apps : /\ In(a, p, Opening)' <=> In(a, p, Opening)
                         /\ In(a, p, Connected)' <=> In(a, p, Connected)
                         /\ In(a, p, Leaving)' <=> In(a, p, Leaving)
  PROVE  Kept(p)
<1>1. StageAt(p) /\ StageAt(p)'
  BY DEF Staged
<1>2. \A a \in Apps : In(a, p, Inside) <=> \/ In(a, p, Opening)
                                           \/ In(a, p, Connected)
                                           \/ In(a, p, Leaving)
  BY DEF In, Inside
<1>3. \A a \in Apps : In(a, p, Inside)' <=> \/ In(a, p, Opening)'
                                            \/ In(a, p, Connected)'
                                            \/ In(a, p, Leaving)'
  BY DEF In, Inside
<1>4. CASE \A a \in Apps : ~In(a, p, Inside)
  BY <1>1, <1>2, <1>3, <1>4 DEF StageAt, Kept
<1>5. ASSUME NEW a \in Apps, In(a, p, Inside) PROVE Kept(p)
  BY <1>1, <1>2, <1>3, <1>5 DEF StageAt, Kept
<1> QED
  BY <1>4, <1>5

LEMMA AllKept ==
  ASSUME \A p \in Ports : Kept(p)
  PROVE  UNCHANGED Promise!vars
BY DEF Kept, Promise!vars

LEMMA NothingMoves ==
  ASSUME Staged, Staged', UNCHANGED <<pc, at>>
  PROVE  UNCHANGED Promise!vars
<1>1. \A p \in Ports : Kept(p)
  BY SamePlaces DEF In
<1> QED
  BY <1>1, AllKept

LEMMA MovesWithin ==
  ASSUME Typed, Staged, Staged', NEW a \in Apps, NEW to,
         pc' = [pc EXCEPT ![a] = to], at' = at,
         pc[a] \in Opening <=> to \in Opening,
         pc[a] \in Connected <=> to \in Connected,
         pc[a] \in Leaving <=> to \in Leaving
  PROVE  UNCHANGED Promise!vars
<1>1. ASSUME NEW p \in Ports PROVE Kept(p)
  <2>1. \A b \in Apps : /\ In(b, p, Opening)' <=> In(b, p, Opening)
                        /\ In(b, p, Connected)' <=> In(b, p, Connected)
                        /\ In(b, p, Leaving)' <=> In(b, p, Leaving)
    BY DEF In, Typed
  <2> QED
    BY <2>1, SamePlaces
<1> QED
  BY <1>1, AllKept

LEMMA MovesElsewhere ==
  ASSUME Typed, Staged, Staged', NEW a \in Apps, NEW to, NEW p \in Ports,
         pc' = [pc EXCEPT ![a] = to], at' = [at EXCEPT ![a] = p],
         at[a] = p \/ pc[a] \notin Inside
  PROVE  \A q \in Ports : q # p => Kept(q)
<1> SUFFICES ASSUME NEW q \in Ports, q # p PROVE Kept(q)
  OBVIOUS
<1>1. \A b \in Apps : /\ In(b, q, Opening)' <=> In(b, q, Opening)
                      /\ In(b, q, Connected)' <=> In(b, q, Connected)
                      /\ In(b, q, Leaving)' <=> In(b, q, Leaving)
  BY DEF In, Typed, Inside
<1> QED
  BY <1>1, SamePlaces

(* One application enters, connects, disconnects or leaves.                *)
LEMMA PromiseStep ==
  ASSUME NEW p \in Ports, \A q \in Ports : q # p => Kept(q),
         \/ /\ Stage(p) = "closed" /\ Stage(p)' = "entering"
            /\ Owner(p)' \in Apps
         \/ /\ Stage(p) = "entering" /\ Stage(p)' = "open"
            /\ Owner(p)' = Owner(p)
         \/ /\ Stage(p) = "open" /\ Stage(p)' = "leaving"
            /\ Owner(p)' = Owner(p)
         \/ /\ Stage(p) \in {"entering", "leaving"} /\ Stage(p)' = "closed"
            /\ Owner(p)' = NoApp
  PROVE  Promise!Next
<1>1. ASSUME Stage(p) = "closed", Stage(p)' = "entering", Owner(p)' \in Apps
      PROVE  Promise!Next
  <2>1. Promise!Enter(p, Owner(p)')
    BY <1>1 DEF Kept, Promise!Enter
  <2> QED
    BY <1>1, <2>1 DEF Promise!Next
<1>2. ASSUME Stage(p) = "entering", Stage(p)' = "open", Owner(p)' = Owner(p)
      PROVE  Promise!Next
  <2>1. Promise!Connect(p)
    BY <1>2 DEF Kept, Promise!Connect
  <2> QED
    BY <2>1 DEF Promise!Next
<1>3. ASSUME Stage(p) = "open", Stage(p)' = "leaving", Owner(p)' = Owner(p)
      PROVE  Promise!Next
  <2>1. Promise!Disconnect(p)
    BY <1>3 DEF Kept, Promise!Disconnect
  <2> QED
    BY <2>1 DEF Promise!Next
<1>4. ASSUME Stage(p) \in {"entering", "leaving"}, Stage(p)' = "closed",
             Owner(p)' = NoApp
      PROVE  Promise!Next
  <2>1. Promise!Leave(p)
    BY <1>4 DEF Kept, Promise!Leave
  <2> QED
    BY <2>1 DEF Promise!Next
<1> QED
  BY <1>1, <1>2, <1>3, <1>4

(* The application inside p goes from one part of the code to the next.    *)
LEMMA MovesOn ==
  ASSUME IInv, Staged, Staged', NEW a \in Apps, NEW to, NEW p \in Ports,
         pc' = [pc EXCEPT ![a] = to], at' = [at EXCEPT ![a] = p],
         at[a] = p \/ pc[a] \notin Inside,
         \/ pc[a] \in Opening /\ to \in Connected
         \/ pc[a] \in Connected /\ to \in Leaving
         \/ pc[a] \in Opening \cup Leaving /\ to \notin Inside
         \/ /\ to \in Opening /\ pc[a] \notin Inside
            /\ \A b \in Apps : ~In(b, p, Inside)
  PROVE  Promise!Next
<1>1. StageAt(p) /\ StageAt(p)' /\ Typed
  BY DEF Staged, IInv
<1>2. \A q \in Ports : q # p => Kept(q)
  BY <1>1, MovesElsewhere
<1>3. pc'[a] = to /\ at'[a] = p /\ \A b \in Apps : b # a => pc'[b] = pc[b]
                                                   /\ at'[b] = at[b]
  BY <1>1 DEF Typed
<1>4. CASE pc[a] \in Opening /\ to \in Connected
  <2>1. In(a, p, Opening) /\ In(a, p, Inside)
    BY <1>4 DEF In, Inside
  <2>2. In(a, p, Connected)' /\ In(a, p, Inside)'
    BY <1>3, <1>4 DEF In, Inside
  <2>3. /\ Stage(p) = "entering" /\ Stage(p)' = "open"
        /\ Owner(p)' = Owner(p)
    BY <1>1, <2>1, <2>2 DEF StageAt
  <2> QED
    BY <1>2, <2>3, PromiseStep
<1>5. CASE pc[a] \in Connected /\ to \in Leaving
  <2>1. In(a, p, Connected) /\ In(a, p, Inside)
    BY <1>5 DEF In, Inside
  <2>2. In(a, p, Leaving)' /\ In(a, p, Inside)'
    BY <1>3, <1>5 DEF In, Inside
  <2>3. /\ Stage(p) = "open" /\ Stage(p)' = "leaving"
        /\ Owner(p)' = Owner(p)
    BY <1>1, <2>1, <2>2 DEF StageAt
  <2> QED
    BY <1>2, <2>3, PromiseStep
<1>6. CASE pc[a] \in Opening \cup Leaving /\ to \notin Inside
  <2>1. at[a] = p
    BY <1>6 DEF Inside
  <2>2. In(a, p, Opening) \/ In(a, p, Leaving)
    BY <1>6, <2>1 DEF In
  <2>3. \A b \in Apps : ~In(b, p, Inside)'
    BY <1>3, <1>6, <2>1 DEF In, Inside, IInv, Where, Sole
  <2>4. /\ Stage(p) \in {"entering", "leaving"} /\ Stage(p)' = "closed"
        /\ Owner(p)' = NoApp
    BY <1>1, <2>2, <2>3 DEF StageAt
  <2> QED
    BY <1>2, <2>4, PromiseStep
<1>7. CASE /\ to \in Opening /\ pc[a] \notin Inside
           /\ \A b \in Apps : ~In(b, p, Inside)
  <2>1. In(a, p, Opening)' /\ In(a, p, Inside)'
    BY <1>3, <1>7 DEF In, Inside
  <2>2. /\ Stage(p) = "closed" /\ Stage(p)' = "entering"
        /\ Owner(p)' \in Apps
    BY <1>1, <1>7, <2>1 DEF StageAt
  <2> QED
    BY <1>2, <2>2, PromiseStep
<1> QED
  BY <1>4, <1>5, <1>6, <1>7

LEMMA MovesOutside ==
  ASSUME Typed, Staged, Staged', NEW a \in Apps, NEW to, NEW p \in Ports,
         pc' = [pc EXCEPT ![a] = to], at' = [at EXCEPT ![a] = p],
         pc[a] \notin Inside, to \notin Inside
  PROVE  UNCHANGED Promise!vars
<1>1. ASSUME NEW q \in Ports PROVE Kept(q)
  <2>1. \A b \in Apps : /\ In(b, q, Opening)' <=> In(b, q, Opening)
                        /\ In(b, q, Connected)' <=> In(b, q, Connected)
                        /\ In(b, q, Leaving)' <=> In(b, q, Leaving)
    BY DEF In, Typed, Inside
  <2> QED
    BY <2>1, SamePlaces
<1> QED
  BY <1>1, AllKept
-----------------------------------------------------------------------------
LEMMA OpenEnterRefines ==
  ASSUME IInv, Staged, Staged', NEW a \in Apps, NEW p \in Ports,
         OpenEnter(a, p)
  PROVE  [Promise!Next]_(Promise!vars)
<1>1. Typed /\ pc[a] \notin Inside /\ at' = [at EXCEPT ![a] = p]
  BY DEF IInv, OpenEnter, Inside, Opening, Connected, Leaving
<1>2. CASE openCount[p] = 0
  <2>1. Having(p, Counted) = {}
    BY <1>2, HavingFinite, FS_EmptySet DEF IInv, CountRight
  <2>2. \A b \in Apps : ~In(b, p, Inside)
    BY <2>1 DEF Having, Counted, In
  <2>3. pc' = [pc EXCEPT ![a] = "plugIn"] /\ "plugIn" \in Opening
    BY <1>2 DEF OpenEnter, Opening
  <2> QED
    BY <1>1, <2>2, <2>3, MovesOn
<1>3. CASE openCount[p] # 0
  <2>1. pc' = [pc EXCEPT ![a] = "denied"] /\ "denied" \notin Inside
    BY <1>3 DEF OpenEnter, Inside, Opening, Connected, Leaving
  <2> QED
    BY <1>1, <2>1, MovesOutside
<1> QED
  BY <1>2, <1>3

LEMMA OpenPlugInRefines ==
  ASSUME IInv, Staged, Staged', NEW a \in Apps, OpenPlugIn(a)
  PROVE  [Promise!Next]_(Promise!vars)
<1>1. /\ Typed /\ at[a] \in Ports /\ pc[a] = "plugIn"
      /\ at' = at /\ at = [at EXCEPT ![a] = at[a]]
  BY DEF IInv, Typed, OpenPlugIn, Goto
<1>2. CASE pc' = [pc EXCEPT ![a] = "denied"]
  <2>1. pc[a] \in Opening /\ "denied" \notin Inside
    BY <1>1 DEF Inside, Opening, Connected, Leaving
  <2> QED
    BY <1>1, <1>2, <2>1, MovesOn
<1>3. CASE pc' = [pc EXCEPT ![a] = "relations"]
  <2>1. /\ pc[a] \in Opening <=> "relations" \in Opening
        /\ pc[a] \in Connected <=> "relations" \in Connected
        /\ pc[a] \in Leaving <=> "relations" \in Leaving
    BY <1>1 DEF Opening, Connected, Leaving
  <2> QED
    BY <1>1, <1>3, <2>1, MovesWithin
<1> QED
  BY <1>2, <1>3 DEF OpenPlugIn, Goto

LEMMA OpenRefines ==
  ASSUME IInv, Staged, Staged', NEW a \in Apps, OpenSteps(a)
  PROVE  [Promise!Next]_(Promise!vars)
<1>1. Typed /\ at[a] \in Ports /\ at = [at EXCEPT ![a] = at[a]]
  BY DEF IInv, Typed
<1>2. ASSUME OpenDenied(a) PROVE UNCHANGED Promise!vars
  <2>1. pc[a] = "denied" /\ pc' = [pc EXCEPT ![a] = "idle"] /\ at' = at
    BY <1>2 DEF OpenDenied, Goto
  <2>2. /\ pc[a] \in Opening <=> "idle" \in Opening
        /\ pc[a] \in Connected <=> "idle" \in Connected
        /\ pc[a] \in Leaving <=> "idle" \in Leaving
    BY <2>1 DEF Opening, Connected, Leaving
  <2> QED
    BY <1>1, <2>1, <2>2, MovesWithin
<1>3. ASSUME OpenRelations(a) PROVE UNCHANGED Promise!vars
  <2>1. pc[a] = "relations" /\ pc' = [pc EXCEPT ![a] = "init"] /\ at' = at
    BY <1>3 DEF OpenRelations, Goto
  <2>2. /\ pc[a] \in Opening <=> "init" \in Opening
        /\ pc[a] \in Connected <=> "init" \in Connected
        /\ pc[a] \in Leaving <=> "init" \in Leaving
    BY <2>1 DEF Opening, Connected, Leaving
  <2> QED
    BY <1>1, <2>1, <2>2, MovesWithin
<1>4. ASSUME OpenInit(a) PROVE UNCHANGED Promise!vars
  <2>1. pc[a] = "init" /\ pc' = [pc EXCEPT ![a] = "mark"] /\ at' = at
    BY <1>4 DEF OpenInit, Goto
  <2>2. /\ pc[a] \in Opening <=> "mark" \in Opening
        /\ pc[a] \in Connected <=> "mark" \in Connected
        /\ pc[a] \in Leaving <=> "mark" \in Leaving
    BY <2>1 DEF Opening, Connected, Leaving
  <2> QED
    BY <1>1, <2>1, <2>2, MovesWithin
<1>5. ASSUME OpenNotify(a) PROVE UNCHANGED Promise!vars
  <2>1. pc[a] = "notify" /\ pc' = [pc EXCEPT ![a] = "using"] /\ at' = at
    BY <1>5 DEF OpenNotify, Goto
  <2>2. /\ pc[a] \in Opening <=> "using" \in Opening
        /\ pc[a] \in Connected <=> "using" \in Connected
        /\ pc[a] \in Leaving <=> "using" \in Leaving
    BY <2>1 DEF Opening, Connected, Leaving
  <2> QED
    BY <1>1, <2>1, <2>2, MovesWithin
<1>6. ASSUME OpenMark(a) PROVE Promise!Next
  <2>1. pc[a] = "mark" /\ pc' = [pc EXCEPT ![a] = "notify"] /\ at' = at
    BY <1>6 DEF OpenMark, Goto
  <2>2. pc[a] \in Opening /\ "notify" \in Connected
    BY <2>1 DEF Inside, Opening, Connected, Leaving
  <2> QED
    BY <1>1, <2>1, <2>2, MovesOn
<1> QED
  BY <1>2, <1>3, <1>4, <1>5, <1>6, OpenPlugInRefines DEF OpenSteps

LEMMA CloseStartRefines ==
  ASSUME IInv, Staged, Staged', NEW a \in Apps, CloseStart(a)
  PROVE  [Promise!Next]_(Promise!vars)
<1>1. /\ Typed /\ at[a] \in Ports /\ pc[a] = "start"
      /\ at' = at /\ at = [at EXCEPT ![a] = at[a]]
  BY DEF IInv, Typed, CloseStart, Goto
<1>2. CASE pc' = [pc EXCEPT ![a] = "done"]
  <2>1. pc[a] \in Leaving /\ "done" \notin Inside
    BY <1>1 DEF Inside, Opening, Connected, Leaving
  <2> QED
    BY <1>1, <1>2, <2>1, MovesOn
<1>3. CASE pc' = [pc EXCEPT ![a] = "pending"]
  <2>1. /\ pc[a] \in Opening <=> "pending" \in Opening
        /\ pc[a] \in Connected <=> "pending" \in Connected
        /\ pc[a] \in Leaving <=> "pending" \in Leaving
    BY <1>1 DEF Opening, Connected, Leaving
  <2> QED
    BY <1>1, <1>3, <2>1, MovesWithin
<1> QED
  BY <1>2, <1>3 DEF CloseStart, Goto

LEMMA CloseRefines ==
  ASSUME IInv, Staged, Staged', NEW a \in Apps, CloseSteps(a)
  PROVE  [Promise!Next]_(Promise!vars)
<1>1. Typed /\ at[a] \in Ports /\ at = [at EXCEPT ![a] = at[a]]
  BY DEF IInv, Typed
<1>2. ASSUME Cleanup(a) PROVE UNCHANGED Promise!vars
  <2>1. pc[a] = "using" /\ pc' = [pc EXCEPT ![a] = "cleaned"] /\ at' = at
    BY <1>2, CleanupOne DEF Cleanup
  <2>2. /\ pc[a] \in Opening <=> "cleaned" \in Opening
        /\ pc[a] \in Connected <=> "cleaned" \in Connected
        /\ pc[a] \in Leaving <=> "cleaned" \in Leaving
    BY <2>1 DEF Opening, Connected, Leaving
  <2> QED
    BY <1>1, <2>1, <2>2, MovesWithin
<1>3. ASSUME CloseEnter(a) PROVE Promise!Next
  <2>1. pc[a] = "cleaned" /\ at' = at
    BY <1>3 DEF CloseEnter, Goto
  <2>2. isOpen[at[a]]
    BY <1>1, <2>1 DEF IInv, Where, OpenByOne, Having, Connected
  <2>3. pc' = [pc EXCEPT ![a] = "unplug"]
    BY <1>3, <2>2 DEF CloseEnter, Goto
  <2>4. pc[a] \in Connected /\ "unplug" \in Leaving
    BY <2>1 DEF Connected, Leaving
  <2> QED
    BY <1>1, <2>1, <2>3, <2>4, MovesOn
<1>4. ASSUME CloseNotify(a) PROVE UNCHANGED Promise!vars
  <2>1. pc[a] = "unplug" /\ pc' = [pc EXCEPT ![a] = "free"] /\ at' = at
    BY <1>4 DEF CloseNotify, Goto
  <2>2. /\ pc[a] \in Opening <=> "free" \in Opening
        /\ pc[a] \in Connected <=> "free" \in Connected
        /\ pc[a] \in Leaving <=> "free" \in Leaving
    BY <2>1 DEF Opening, Connected, Leaving
  <2> QED
    BY <1>1, <2>1, <2>2, MovesWithin
<1>5. ASSUME CloseFree(a) PROVE UNCHANGED Promise!vars
  <2>1. pc[a] = "free" /\ pc' = [pc EXCEPT ![a] = "start"] /\ at' = at
    BY <1>5 DEF CloseFree, Goto
  <2>2. /\ pc[a] \in Opening <=> "start" \in Opening
        /\ pc[a] \in Connected <=> "start" \in Connected
        /\ pc[a] \in Leaving <=> "start" \in Leaving
    BY <2>1 DEF Opening, Connected, Leaving
  <2> QED
    BY <1>1, <2>1, <2>2, MovesWithin
<1>6. ASSUME CloseReturn(a) PROVE UNCHANGED Promise!vars
  <2>1. pc[a] = "done" /\ pc' = [pc EXCEPT ![a] = "idle"] /\ at' = at
    BY <1>6 DEF CloseReturn, Goto
  <2>2. /\ pc[a] \in Opening <=> "idle" \in Opening
        /\ pc[a] \in Connected <=> "idle" \in Connected
        /\ pc[a] \in Leaving <=> "idle" \in Leaving
    BY <2>1 DEF Opening, Connected, Leaving
  <2> QED
    BY <1>1, <2>1, <2>2, MovesWithin
<1> QED
  BY <1>2, <1>3, <1>4, <1>5, <1>6, CloseStartRefines DEF CloseSteps

LEMMA CompleteRefines ==
  ASSUME IInv, Staged, Staged', NEW p \in Ports, CloseComplete(p)
  PROVE  [Promise!Next]_(Promise!vars)
<1>1. Typed /\ at' = at
  BY DEF IInv, CloseComplete
<1>2. CASE pc' = pc
  BY <1>1, <1>2, NothingMoves
<1>3. ASSUME NEW a \in Apps, pc[a] = "pending", at[a] = p,
             pc' = [pc EXCEPT ![a] = "done"]
      PROVE  Promise!Next
  <2>1. pc[a] \in Leaving /\ "done" \notin Inside
    BY <1>3 DEF Inside, Opening, Connected, Leaving
  <2>2. at' = [at EXCEPT ![a] = p]
    BY <1>1, <1>3 DEF Typed
  <2> QED
    BY <1>1, <1>3, <2>1, <2>2, MovesOn
<1> QED
  BY <1>2, <1>3, CompleteOne

LEMMA NextRefines ==
  IInv /\ Staged /\ Staged' /\ [Next]_vars => [Promise!Next]_(Promise!vars)
<1> SUFFICES ASSUME IInv, Staged, Staged', [Next]_vars
             PROVE  [Promise!Next]_(Promise!vars)
  OBVIOUS
<1>1. ASSUME NEW p \in Ports,
             \/ TimerFire(p) \/ QueryLocal(p) \/ QueryRemote(p)
             \/ HidePort(p) \/ ShowPort(p)
      PROVE  UNCHANGED Promise!vars
  BY <1>1, NothingMoves
     DEF TimerFire, QueryLocal, QueryRemote, HidePort, ShowPort
<1>2. ASSUME NEW p \in Ports, TimeoutClose(p) \/ QueryComplete(p)
      PROVE  [Promise!Next]_(Promise!vars)
  BY <1>2, CompleteRefines DEF TimeoutClose, QueryComplete
<1>3. CASE UNCHANGED vars
  BY <1>3, NothingMoves DEF vars
<1> QED
  BY <1>1, <1>2, <1>3, OpenEnterRefines, OpenRefines, CloseRefines
     DEF Next, QuerySteps

LEMMA InitRefines == Init => Promise!Init
<1> SUFFICES ASSUME Init PROVE Promise!Init
  OBVIOUS
<1>1. ASSUME NEW p \in Ports PROVE Stage(p) = "closed" /\ Owner(p) = NoApp
  <2>1. \A a \in Apps : ~In(a, p, Inside)
    BY DEF Init, In, Inside, Opening, Connected, Leaving
  <2> QED
    BY <2>1, InitInvariant, StageFacts DEF Staged, StageAt
<1> QED
  BY <1>1 DEF Promise!Init

(* Opening and closing, with all that happens outside the lock, give each  *)
(* port to one application after the other: Session is implemented.        *)
THEOREM SessionsKept == Spec => KeepsSessions
<1>1. IInv /\ IInv' => Staged /\ Staged'
  <2>1. IInv => Staged
    BY StageFacts
  <2>2. IInv' => Staged'
    BY <2>1, PTL
  <2> QED
    BY <2>1, <2>2
<1>2. IInv /\ IInv' /\ [Next]_vars => [Promise!Next]_(Promise!vars)
  BY <1>1, NextRefines
<1> QED
  BY <1>2, InitRefines, InvariantHolds, PTL
     DEF Spec, KeepsSessions, Promise!Spec
=============================================================================
