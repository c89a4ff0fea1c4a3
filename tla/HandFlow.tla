----------------------------- MODULE HandFlow ------------------------------
(***************************************************************************)
(* Modem lines and flow control of a pair of com0com ports: the wiring of  *)
(* the pins (pinouts.c), SetModemStatus, the RTS, DTR and XON/XOFF         *)
(* handshakes (handflow.c), the handlers that change them (ioctl.c,        *)
(* openclos.c), and ReadWrite with its loop.                               *)
(*                                                                         *)
(* Every handler runs under pIoLock and is one step, up to its call of     *)
(* ReadWrite; a call of TryReadWrite is a step, and engine says for which  *)
(* writing port it runs next.  The lock is free when no call is due.       *)
(*                                                                         *)
(* Characters are counted, except in txBuf, where XON and XOFF travel      *)
(* among them.  Applications do not write XON or XOFF themselves; noise,   *)
(* baud rate and overrun emulation, inserted status bytes and the filters  *)
(* for NULL and DSR are left out.                                          *)
(***************************************************************************)
EXTENDS Integers, Sequences, FiniteSets

CONSTANTS
  NoPort,    (* no port                                                    *)
  BufSize,   (* size of readBuf in a session                               *)
  TxSize,    (* size of txBuf: FIFO and shift register                     *)
  WriteSizes, ReadSizes,  (* lengths of the requests                       *)
  Wirings,   (* how the pins may be wired                                  *)
  Flows,     (* settings that the application of a port may choose         *)
  Outputs,   (* what IOCTL_SERIAL_SET_MODEM_CONTROL may set                *)
  MaxOrders, (* bound: settings, orders, closes, purges                    *)
  MaxRounds  (* how often ReadWrite goes round, at most                    *)

Ports == {"A", "B"}

Remote(p) == IF p = "A" THEN "B" ELSE "A"   (* pIoPortRemote *)

Outs   == {"RTS", "DTR", "OUT1", "OUT2", "OPEN"}   (* modemControl         *)
Ins    == {"CTS", "DSR", "DCD", "RI"}              (* modemStatus          *)
Lines  == {"CTS", "DSR", "DCD"}       (* those a writer may be held by     *)
Holds  == Lines \cup {"XON", "BREAK"}

(* What an input pin is wired to: an output of the remote or the local     *)
(* port, inverted or not.  (Pins wired to ON do not change.)               *)
Sources == [end : {"remote", "local"}, pin : Outs, negative : BOOLEAN]

(* History: a hold was set or dropped by hand ("byHand"), a close left the *)
(* other end as it was ("close"), a purge made room and ran no ReadWrite   *)
(* ("purge"), a setting raised a limit readBuf had reached, which runs no  *)
(* ReadWrite either ("limit"), a handshake was switched while it held      *)
(* ("switch"), an XOFF was taken back ("cancel").                          *)
Past == {"byHand", "close", "purge", "limit", "switch", "cancel"}

RtsModes == {"off", "on", "handshake", "toggle"}

(* SERIAL_HANDFLOW: rts, dtr, the lines that hold the writer, and          *)
(* SERIAL_AUTO_RECEIVE, SERIAL_AUTO_TRANSMIT, SERIAL_XOFF_CONTINUE.        *)
HandFlows ==
  [rts : RtsModes, dtr : {"off", "on", "handshake"}, out : SUBSET Lines,
   autoReceive : BOOLEAN, autoTransmit : BOOLEAN, xoffContinue : BOOLEAN,
   xonLimit : Nat, xoffLimit : Nat]

ASSUME HandFlowAssumption ==
  /\ NoPort \notin Ports
  /\ BufSize \in Nat \ {0} /\ TxSize \in Nat /\ TxSize >= 2
  /\ WriteSizes \subseteq Nat \ {0} /\ ReadSizes \subseteq Nat \ {0}
  /\ Wirings \subseteq [Ports -> [Ins -> Sources]]
  /\ Flows \in [Ports -> SUBSET HandFlows]
  /\ \A p \in Ports : \A f \in Flows[p] :
       f.xonLimit <= BufSize /\ f.xoffLimit <= BufSize
  /\ Outputs \subseteq SUBSET (Outs \ {"OPEN"})
  /\ MaxOrders \in Nat /\ MaxRounds \in Nat

VARIABLES
  wiring,   (* what the pins of both ports are wired to                    *)
  port,     (* C0C_IO_PORT of both ports                                   *)
  added,    (* the ports AddFdoPort has run for                            *)
  engine,   (* the writing port of the next TryReadWrite, or NoPort        *)
  opening,  (* the port whose open is in its SetHandFlow, or NoPort        *)
  rounds,   (* rounds of ReadWrite so far under this hold of the lock      *)
  orders,
  history   (* what went around the handshakes, see Past                   *)

vars == <<wiring, port, added, engine, opening, rounds, orders, history>>

(***************************************************************************)
(* A port.  flow is handFlow, holding writeHolding, holdingRemote          *)
(* writeHoldingRemote; size, limit and busy are those of readBuf; writing  *)
(* and reading are what is left of the pending requests.                   *)
(***************************************************************************)
PortType ==
  [isOpen : BOOLEAN, flow : HandFlows,
   modemControl : SUBSET Outs, modemStatus : SUBSET Ins,
   holding : SUBSET Holds, holdingRemote : SUBSET {"CTS", "DSR", "XON"},
   sendXonXoff : {"none", "on", "off"}, sendBreak : BOOLEAN,
   tryWrite : BOOLEAN, size : {0, BufSize}, limit : 0 .. BufSize,
   busy : 0 .. BufSize, tx : Seq({"data", "on", "off"}),
   writing : Nat, reading : Nat]

TypeOK ==
  /\ wiring \in Wirings
  /\ port \in [Ports -> PortType]
  /\ \A p \in Ports : Len(port[p].tx) <= TxSize
  /\ added \subseteq Ports
  /\ engine \in Ports \cup {NoPort} /\ opening \in Ports \cup {NoPort}
  /\ rounds \in Nat /\ orders \in 0 .. MaxOrders
  /\ history \subseteq Past

Least(a, b) == IF a < b THEN a ELSE b
-----------------------------------------------------------------------------
(***************************************************************************)
(* Pins.  The operators below take the state of both ports and return it   *)
(* changed: s[p] is the C0C_IO_PORT that the code calls pIoPort.           *)
(***************************************************************************)

(* The signal at a pin of p, as PinWire reads it.                          *)
Signal(s, p, in) ==
  LET src == wiring[p][in]
      end == IF src.end = "remote" THEN Remote(p) ELSE p
  IN  (src.pin \in s[end].modemControl) # src.negative

(* pinOuts of p: the pins that hang on its output, at one end of the wire; *)
(* those of a port that AddFdoPort has not run for are not wired yet.      *)
PinOuts(p, out, end) ==
  LET q == IF end = "remote" THEN Remote(p) ELSE p
  IN  {in \in Ins : /\ q \in added
                    /\ wiring[q][in].end = end /\ wiring[q][in].pin = out}

PinMap(s, p) ==
  [s EXCEPT ![p].modemStatus = {in \in Ins : Signal(s, p, in)}]

SetModemStatusHolding(s, p) ==
  LET old    == s[p].holding
      held   == {line \in s[p].flow.out : line \notin s[p].modemStatus}
      new    == (old \ Lines) \cup held
      resume == /\ new \subseteq {"XON"} /\ ~(old \subseteq {"XON"})
                /\ \/ s[p].sendXonXoff # "none"
                   \/ new = {} /\ s[p].writing > 0
  IN  [s EXCEPT ![p].holding = new, ![p].tryWrite = @ \/ resume]

(* Mutant: the holds are not looked at again.                              *)
SetModemStatusOnly(s, p, bits, mask) ==
  [s EXCEPT ![p].modemStatus = (@ \ mask) \cup (bits \cap mask)]

SetModemStatus(s, p, bits, mask) ==
  LET new == (s[p].modemStatus \ mask) \cup (bits \cap mask)
  IN  IF new = s[p].modemStatus THEN s
      ELSE SetModemStatusHolding([s EXCEPT ![p].modemStatus = new], p)

(* Mutant: only the pins of the other end follow.                          *)
SetModemControlRemote(s, p, bits, mask) ==
  LET old     == s[p].modemControl
      new     == (old \ mask) \cup (bits \cap mask)
      set     == [s EXCEPT ![p].modemControl = new]
      Pins    == UNION {PinOuts(p, out, "remote") :
                          out \in (old \ new) \cup (new \ old)}
      High    == {in \in Pins : Signal(set, Remote(p), in)}
  IN  SetModemStatus(set, Remote(p), High, Pins)

(* SetModemControl: the outputs in mask become bits, and the pins wired to *)
(* those that changed follow, at the remote end first.                     *)
SetModemControl(s, p, bits, mask) ==
  LET old     == s[p].modemControl
      new     == (old \ mask) \cup (bits \cap mask)
      changed == (old \ new) \cup (new \ old)
      set     == [s EXCEPT ![p].modemControl = new]
      Pins(end) == UNION {PinOuts(p, out, end) : out \in changed}
      High(end) ==
        {in \in Pins(end) :
           Signal(set, IF end = "remote" THEN Remote(p) ELSE p, in)}
      far     == SetModemStatus(set, Remote(p), High("remote"),
                                Pins("remote"))
  IN  SetModemStatus(far, p, High("local"), Pins("local"))
-----------------------------------------------------------------------------
(***************************************************************************)
(* Flow control.                                                           *)
(***************************************************************************)
(* Mutant: XON does not ask for ReadWrite.                                 *)
SetXonXoffHoldingOnly(s, p, char) ==
  [s EXCEPT ![p].holding = CASE char = "on" -> @ \ {"XON"}
                             [] char = "off" -> @ \cup {"XON"}
                             [] OTHER -> @]

SetXonXoffHolding(s, p, char) ==
  CASE char = "on" /\ "XON" \in s[p].holding ->
         [s EXCEPT ![p].holding = @ \ {"XON"},
                   ![p].tryWrite = \/ @
                                   \/ /\ s[p].holding = {"XON"}
                                      /\ s[p].writing > 0]
    [] char = "off" -> [s EXCEPT ![p].holding = @ \cup {"XON"}]
    [] OTHER -> s

SetBreakHolding(s, p, on) ==
  CASE on /\ "BREAK" \notin s[p].holding ->
         [s EXCEPT ![p].holding = @ \cup {"BREAK"},
                   ![p].sendBreak = TRUE, ![p].tryWrite = TRUE]
    [] ~on /\ "BREAK" \in s[p].holding ->
         LET new == s[p].holding \ {"BREAK"}
         IN  [s EXCEPT ![p].holding = new, ![p].sendBreak = FALSE,
                ![p].tryWrite =
                   \/ @
                   \/ new \subseteq {"XON"} /\ s[p].sendXonXoff # "none"
                   \/ new = {} /\ s[p].writing > 0]
    [] OTHER -> s

(* RTS is up while there is something to send (SERIAL_TRANSMIT_TOGGLE).    *)
UpdateTransmitToggle(s, p) ==
  LET sending == \/ "BREAK" \in s[p].holding
                 \/ s[p].tx # <<>>
                 \/ s[p].writing > 0 /\ s[p].holding = {}
                 \/ s[p].sendXonXoff # "none" /\ s[p].holding \subseteq {"XON"}
  IN  IF s[p].flow.rts # "toggle" THEN s
      ELSE SetModemControl(s, p, IF sending THEN {"RTS"} ELSE {}, {"RTS"})

SetLimit(s, p) ==
  LET flow == s[p].flow
      out  == s[Remote(p)].flow.out
      shakes == \/ flow.rts = "handshake" /\ "CTS" \in out
                \/ flow.dtr = "handshake" /\ out \cap {"DSR", "DCD"} # {}
      size == s[p].size
  IN  [s EXCEPT ![p].limit =
         IF shakes /\ size > 0 THEN Least(size, size - flow.xoffLimit + 1)
                               ELSE size]

(* The receiver holds the other end, or lets it go on.                     *)
Crowded(q, flow) == q.busy > q.size - flow.xoffLimit
DrainedBelow(q, flow) == q.busy < flow.xonLimit      (* Mutant *)
Drained(q, flow) == q.busy <= flow.xonLimit

HoldXon(q) ==
  [q EXCEPT !.holdingRemote = @ \cup {"XON"},
            !.holding = IF q.flow.xoffContinue THEN @ ELSE @ \cup {"XON"},
            !.sendXonXoff = "off", !.tryWrite = TRUE]

(* Mutant: the XON is forgotten.                                           *)
ReleaseXonOnly(q) ==
  [q EXCEPT !.holdingRemote = @ \ {"XON"}, !.holding = @ \ {"XON"}]

ReleaseXon(q) ==
  [q EXCEPT !.holdingRemote = @ \ {"XON"}, !.holding = @ \ {"XON"},
            !.sendXonXoff = "on", !.tryWrite = TRUE]

(* The handshakes on lines that a setting uses, with their reason.         *)
Shaken(flow) ==
  {x \in {<<"RTS", "CTS">>, <<"DTR", "DSR">>} :
     (IF x[1] = "RTS" THEN flow.rts ELSE flow.dtr) = "handshake"}

UpdateHandFlow(s, p, freed) ==
  LET q       == s[p]
      outs    == {x[1] : x \in Shaken(q.flow)}
      reasons == {x[2] : x \in Shaken(q.flow)}
      hold    == q.holdingRemote = {} /\ ~freed /\ Crowded(q, q.flow)
      release == q.holdingRemote # {} /\ freed /\ Drained(q, q.flow)
      Xon(r)  == IF ~q.flow.autoReceive THEN r
                 ELSE IF hold THEN HoldXon(r) ELSE ReleaseXon(r)
      new     == Xon([q EXCEPT !.holdingRemote =
                        IF hold THEN @ \cup reasons ELSE @ \ reasons])
  IN  IF hold \/ release
        THEN SetModemControl([s EXCEPT ![p] = new], p,
                             IF hold THEN {} ELSE outs, outs)
        ELSE s

(* Mutant: a line that need not be low is left as it was.                  *)
LineForUp(q, flow, mode, reason) ==
  CASE mode = "off" -> "low"
    [] mode = "on" -> "high"
    [] mode = "toggle" -> "same"
    [] OTHER -> IF Crowded(q, flow) THEN "low" ELSE "same"

(* What SetHandFlow makes of a line that is a handshake or not: low, high, *)
(* or what it was.                                                         *)
LineFor(q, flow, mode, reason) ==
  CASE mode = "off" -> "low"
    [] mode = "on" -> "high"
    [] mode = "toggle" -> "same"
    [] OTHER -> IF Crowded(q, flow) THEN "low"
                ELSE IF reason \in q.holdingRemote /\ ~Drained(q, flow)
                  THEN "same" ELSE "high"

ReasonFor(q, flow, mode, reason) ==
  LET line == LineFor(q, flow, mode, reason)
  IN  IF line = "same" THEN q.holdingRemote \cap {reason}
      ELSE IF line = "low" /\ mode = "handshake" THEN {reason} ELSE {}

(* The change of SERIAL_AUTO_RECEIVE; an XOFF not sent yet is taken back.  *)
SetAutoReceive(q) ==
  IF q.flow.autoReceive THEN IF Crowded(q, q.flow) THEN HoldXon(q) ELSE q
  ELSE IF "XON" \notin q.holdingRemote THEN q
  ELSE IF q.sendXonXoff # "off" THEN ReleaseXon(q)
  ELSE [q EXCEPT !.holdingRemote = @ \ {"XON"}, !.holding = @ \ {"XON"},
                 !.sendXonXoff = "none"]

(* SetHandFlow up to its calls of ReadWrite.  all: nothing is taken to be  *)
(* as it was (pHandFlow is NULL).                                          *)
SetHandFlow(s, p, flow, all) ==
  LET old   == s[p].flow
      s1    == IF all THEN [s EXCEPT ![p].holding = @ \ {"XON"}]
               ELSE IF old.autoTransmit /\ ~flow.autoTransmit
                 THEN SetXonXoffHolding(s, p, "on") ELSE s
      q     == s1[p]
      lines == {x \in {<<"RTS", "CTS", old.rts, flow.rts>>,
                       <<"DTR", "DSR", old.dtr, flow.dtr>>} :
                  all \/ x[3] # x[4]}
      Line(x) == LineFor(q, flow, x[4], x[2])
      kept    == q.holdingRemote \ {x[2] : x \in lines}
      reasons == kept \cup UNION {ReasonFor(q, flow, x[4], x[2]) :
                                    x \in lines}
      mask  == {x[1] : x \in {y \in lines : Line(y) # "same"}}
      bits  == {x[1] : x \in {y \in lines : Line(y) = "high"}}
      q1    == [q EXCEPT !.holdingRemote = reasons, !.flow = flow]
      s2    == [s1 EXCEPT ![p] =
                  IF all \/ old.autoReceive # flow.autoReceive
                    THEN SetAutoReceive(q1) ELSE q1]
      s3    == IF all \/ old.out # flow.out
                 THEN SetModemStatusHolding(s2, p) ELSE s2
      s4    == UpdateTransmitToggle(SetModemControl(s3, p, bits, mask), p)
  IN  SetLimit(SetLimit(s4, Remote(p)), p)
-----------------------------------------------------------------------------
(***************************************************************************)
(* TryReadWrite: from the writing port w to the other.                     *)
(***************************************************************************)

(* What CopyCharsWithEscape makes of characters from w: a break replaces   *)
(* the first, and while w is in break state nothing else arrives.          *)
OnLine(q, chars) ==
  [i \in 1 .. Len(chars) |->
     IF "BREAK" \notin q.holding THEN chars[i]
     ELSE IF q.sendBreak /\ i = 1 THEN "data" ELSE "lost"]

(* The receiver keeps all but XON and XOFF, if it obeys those.             *)
Keeps(q, c) ==
  c = "data" \/ (c \in {"on", "off"} /\ ~q.flow.autoTransmit)

Kept(q, chars) == Cardinality({i \in DOMAIN chars : Keeps(q, chars[i])})

LastXonXoff(q, chars) ==
  LET seen == {i \in 1 .. Len(chars) :
                 q.flow.autoTransmit /\ chars[i] \in {"on", "off"}}
  IN  IF seen = {} THEN "none"
      ELSE chars[CHOOSE i \in seen : \A j \in seen : j <= i]

(* How many of chars go as long as there is room for the next.             *)
Taken(q, chars, room) ==
  LET fits == {k \in 1 .. Len(chars) :
                 Kept(q, SubSeq(chars, 1, k - 1)) < room}
  IN  IF fits = {} THEN 0 ELSE CHOOSE k \in fits : \A j \in fits : j <= k

(* chars of w go to a place in the other port, the read or readBuf; the    *)
(* rest of txBuf or of the write is rest(n).                               *)
Arrive(s, w, chars, place) ==
  LET r    == Remote(w)
      q    == s[r]
      line == OnLine(s[w], chars)
      room == IF place = "reading" THEN q.reading ELSE q.limit - q.busy
      n    == Taken(q, line, room)
      went == SubSeq(line, 1, n)
      got  == Kept(q, went)
      sent == [s EXCEPT
                ![w].sendBreak = @ /\ (n = 0),
                ![r].reading = IF place = "reading" THEN @ - got ELSE @,
                ![r].busy = IF place = "busy" THEN @ + got ELSE @]
  IN  [n |-> n, s |-> SetXonXoffHolding(sent, r, LastXonXoff(q, went))]

FromTx(s, w, place) ==
  LET a == Arrive(s, w, s[w].tx, place)
  IN  [a.s EXCEPT ![w].tx = SubSeq(@, a.n + 1, Len(@))]

(* Mutant: the FIFO is filled whether it is empty or not.                  *)
ToTxFull(s, w, chars) ==
  LET n == Least(Len(chars), TxSize - 1)
  IN  [n |-> n, s |-> [s EXCEPT ![w].tx = @ \o SubSeq(chars, 1, n)]]

ToTx(s, w, chars) ==
  IF Len(s[w].tx) > 1 THEN [n |-> 0, s |-> s]
  ELSE LET n == Least(Len(chars), TxSize - 1)
       IN  [n |-> n,
            s |-> [s EXCEPT ![w].tx = @ \o SubSeq(chars, 1, n)]]

(* The break, or XON or XOFF: those are held back by lines only.           *)
SendChar(s, w, place) ==
  LET char == <<s[w].sendXonXoff>>
      a    == Arrive(s, w, char, place)
      b    == IF place = "busy" /\ a.n = 0 THEN ToTx(s, w, char) ELSE a
  IN  IF s[w].sendBreak THEN Arrive(s, w, <<"data">>, place).s
      ELSE IF s[w].sendXonXoff = "none" \/ ~(s[w].holding \subseteq {"XON"})
        THEN s
      ELSE [b.s EXCEPT ![w].sendXonXoff = IF b.n = 1 THEN "none" ELSE @]

SendData(s, w, place) ==
  LET chars(n) == [i \in 1 .. n |-> "data"]
      a    == Arrive(s, w, chars(s[w].writing), place)
      left == s[w].writing - a.n
      b    == IF place = "busy" /\ left > 0 THEN ToTx(a.s, w, chars(left))
              ELSE [n |-> 0, s |-> a.s]
  IN  IF s[w].holding # {} \/ s[w].writing = 0 THEN s
      ELSE [b.s EXCEPT ![w].writing = left - b.n]

(* To the read of p what readBuf holds.                                    *)
FromBuffer(s, p) ==
  LET n == Least(s[p].busy, s[p].reading)
  IN  [s EXCEPT ![p].busy = @ - n, ![p].reading = @ - n]

FromWrite(s, w, place) == SendData(SendChar(s, w, place), w, place)

(* What readBuf and txBuf of w hold goes to the read of the other port,    *)
(* and without a read what txBuf holds goes to readBuf.                    *)
ToRead(s, w) == FromTx(FromBuffer(s, Remote(w)), w, "reading")

ToBuffer(s, w) == IF s[Remote(w)].reading > 0 THEN s ELSE FromTx(s, w, "busy")

(* The handshake of p learns what new has in readBuf, and s had.           *)
Shake(s, new, p) ==
  IF new[p].busy = s[p].busy THEN new
  ELSE UpdateHandFlow(new, p, new[p].busy < s[p].busy)

(* The characters of readBuf, txBuf and the write, in this order, go to    *)
(* the read while there is one, then to readBuf.                           *)
TryReadWrite(s, w) ==
  LET sent == FromWrite(ToBuffer(ToRead(s, w), w), w, "reading")
  IN  UpdateTransmitToggle(
        Shake(s, FromWrite(sent, w, "busy"), Remote(w)), w)
-----------------------------------------------------------------------------
(***************************************************************************)
(* The handlers.                                                           *)
(***************************************************************************)

(* As in the zeroed C0C_IO_PORT before AddFdoPort.                         *)
NoFlow == [rts |-> "off", dtr |-> "off", out |-> {},
           autoReceive |-> FALSE, autoTransmit |-> FALSE,
           xoffContinue |-> FALSE, xonLimit |-> 0, xoffLimit |-> 0]

NewPort ==
  [isOpen |-> FALSE, flow |-> NoFlow,
   modemControl |-> {}, modemStatus |-> {},
   holding |-> {}, holdingRemote |-> {},
   sendXonXoff |-> "none", sendBreak |-> FALSE, tryWrite |-> FALSE,
   size |-> 0, limit |-> 0, busy |-> 0, tx |-> <<>>,
   writing |-> 0, reading |-> 0]

Init ==
  /\ wiring \in Wirings
  /\ port = [p \in Ports |-> NewPort]
  /\ added = {} /\ engine = NoPort /\ opening = NoPort
  /\ rounds = 0 /\ orders = 0 /\ history = {}

Free == engine = NoPort /\ opening = NoPort

AddFdoPort(p) ==
  /\ Free /\ p \notin added
  /\ added' = added \cup {p}
  /\ LET s == [port EXCEPT
                 ![p].flow = [NoFlow EXCEPT !.rts = "on", !.dtr = "on"],
                 ![p].tx = <<>>,
                 ![p].modemControl = @ \cup {"OUT2"}]
     IN  port' = PinMap(s, p)
  /\ UNCHANGED <<wiring, rounds, engine, opening, orders, history>>

Order == orders < MaxOrders /\ orders' = orders + 1

Run(s, w) ==
  /\ port' = s
  /\ engine' = IF \E p \in Ports : s[p].tryWrite THEN w ELSE NoPort

(* FdoPortOpen up to SetHandFlow, which runs ReadWrite for itself.         *)
Open(p) ==
  /\ Free /\ p \in added /\ ~port[p].isOpen
  /\ LET s == [port EXCEPT
                 ![p].isOpen = TRUE, ![p].size = BufSize,
                 ![p].limit = BufSize, ![p].busy = 0, ![p].tryWrite = FALSE,
                 ![p].flow.xoffLimit = BufSize \div 8,
                 ![p].flow.xonLimit = BufSize \div 2]
         t == SetHandFlow(s, p, s[p].flow, TRUE)
     IN  Run(t, IF t[Remote(p)].tryWrite THEN Remote(p) ELSE p)
  /\ opening' = p
  /\ UNCHANGED <<wiring, rounds, added, orders, history>>

OpenLine ==
  /\ engine = NoPort /\ opening # NoPort
  /\ port' = SetModemControl(port, opening, {"OPEN"}, {"OPEN"})
  /\ engine' = Remote(opening) /\ opening' = NoPort
  /\ UNCHANGED <<wiring, rounds, added, orders, history>>

(* The requests of a handle are gone when it is closed.                    *)
Close(p) ==
  /\ Free /\ Order /\ port[p].isOpen
  /\ port[p].writing = 0 /\ port[p].reading = 0
  /\ LET s == [port EXCEPT ![p].isOpen = FALSE, ![p].holdingRemote = {},
                           ![p].sendXonXoff = "none"]
         t == SetModemControl(s, p, {"OUT2"}, Outs)
         u == [t EXCEPT ![p].size = 0, ![p].limit = 0, ![p].busy = 0]
     IN  port' = SetBreakHolding(u, p, FALSE)
  /\ history' = history \cup {"close"}
  /\ UNCHANGED <<wiring, rounds, added, engine, opening>>

Write(p, n) ==
  /\ Free /\ port[p].isOpen /\ port[p].writing = 0
  /\ port' = [port EXCEPT ![p].writing = n]
  /\ engine' = p
  /\ UNCHANGED <<wiring, rounds, added, opening, orders, history>>

Read(p, n) ==
  /\ Free /\ port[p].isOpen /\ port[p].reading = 0
  /\ port' = [port EXCEPT ![p].reading = n]
  /\ engine' = Remote(p)
  /\ UNCHANGED <<wiring, rounds, added, opening, orders, history>>

(* CancelQueue for both queues: IOCTL_SERIAL_PURGE and IRP_MJ_CLEANUP.     *)
Abort(p) ==
  /\ Free /\ Order /\ port[p].writing + port[p].reading > 0
  /\ port' = [port EXCEPT ![p].writing = 0, ![p].reading = 0]
  /\ UNCHANGED <<wiring, rounds, added, engine, opening, history>>

(* IOCTL_SERIAL_PURGE with SERIAL_PURGE_RXCLEAR.                           *)
Purge(p) ==
  /\ Free /\ Order /\ port[p].isOpen /\ port[p].busy > 0
  /\ Run(UpdateHandFlow([port EXCEPT ![p].busy = 0], p, TRUE), Remote(p))
  /\ history' = IF engine' = NoPort THEN history \cup {"purge"} ELSE history
  /\ UNCHANGED <<wiring, rounds, added, opening>>

Switches(p, flow) ==
  \/ flow.rts = "toggle" /\ "CTS" \in port[p].holdingRemote
  \/ /\ flow.autoTransmit # port[p].flow.autoTransmit
     /\ "XON" \in port[Remote(p)].holdingRemote

(* The branch "XOFF still was not sent so cancel it" of SetHandFlow.       *)
Cancels(p, flow) ==
  /\ port[p].flow.autoReceive /\ ~flow.autoReceive
  /\ "XON" \in port[p].holdingRemote /\ port[p].sendXonXoff = "off"

(* SetLimit gives readBuf of a port more room than it had.                 *)
Eases(t) ==
  \E p \in Ports : port[p].busy >= port[p].limit /\ t[p].limit > port[p].limit

(* IOCTL_SERIAL_SET_HANDFLOW.                                              *)
ChangeHandFlow(p, flow) ==
  /\ Free /\ Order /\ port[p].isOpen
  /\ LET t == SetHandFlow(port, p, flow, FALSE)
     IN  /\ Run(t, IF t[Remote(p)].tryWrite THEN Remote(p) ELSE p)
         /\ history' = history
              \cup {x \in {"switch"} : Switches(p, flow)}
              \cup {x \in {"cancel"} : Cancels(p, flow)}
              \cup {x \in {"limit"} : Eases(t)}
  /\ UNCHANGED <<wiring, rounds, added, opening>>

(* The application sets by hand what the handshakes set.                   *)
Meddle(p) ==
  /\ Free /\ Order /\ port[p].isOpen
  /\ history' = history \cup {"byHand"}

SetRts(p, bits) ==
  /\ Meddle(p) /\ port[p].flow.rts \notin {"handshake", "toggle"}
  /\ Run(SetModemControl(port, p, bits, {"RTS"}), Remote(p))
  /\ UNCHANGED <<wiring, rounds, added, opening>>

SetDtr(p, bits) ==
  /\ Meddle(p) /\ port[p].flow.dtr # "handshake"
  /\ Run(SetModemControl(port, p, bits, {"DTR"}), Remote(p))
  /\ UNCHANGED <<wiring, rounds, added, opening>>

SetOutputs(p, bits) ==
  /\ Meddle(p)
  /\ Run(SetModemControl(port, p, bits, Outs \ {"OPEN"}), Remote(p))
  /\ UNCHANGED <<wiring, rounds, added, opening>>

SetXon(p) ==
  /\ Meddle(p)
  /\ port' = SetXonXoffHolding(port, p, "on")
  /\ engine' = IF port'[p].tryWrite THEN Remote(p) ELSE NoPort
  /\ UNCHANGED <<wiring, rounds, added, opening>>

SetXoff(p) ==
  /\ Meddle(p)
  /\ port' = SetXonXoffHolding(port, p, "off")
  /\ UNCHANGED <<wiring, rounds, added, engine, opening>>

SetBreak(p, on) ==
  /\ Meddle(p)
  /\ LET s == UpdateTransmitToggle(SetBreakHolding(port, p, on), p)
     IN  IF on THEN port' = s /\ engine' = Remote(p)
               ELSE Run(s, Remote(p))
  /\ UNCHANGED <<wiring, rounds, added, opening>>

(* Mutant: tryWrite is not reset.                                          *)
TransferAgain ==
  /\ engine # NoPort
  /\ LET t == TryReadWrite(port, engine)
     IN  /\ port' = t
         /\ engine' = IF t[engine].tryWrite THEN engine
                      ELSE IF t[Remote(engine)].tryWrite
                        THEN Remote(engine) ELSE NoPort
  /\ rounds' = IF engine' = NoPort THEN 0 ELSE rounds + 1
  /\ UNCHANGED <<wiring, added, opening, orders, history>>

(* A round of ReadWrite: while either port asks, the one just tried first. *)
Transfer ==
  /\ engine # NoPort
  /\ LET s == [port EXCEPT ![engine].tryWrite = FALSE]
         t == TryReadWrite(s, engine)
     IN  /\ port' = t
         /\ engine' = IF t[engine].tryWrite THEN engine
                      ELSE IF t[Remote(engine)].tryWrite
                        THEN Remote(engine) ELSE NoPort
  /\ rounds' = IF engine' = NoPort THEN 0 ELSE rounds + 1
  /\ UNCHANGED <<wiring, added, opening, orders, history>>

ByHand(p) ==
  \/ \E bits \in {{}, {"RTS"}} : SetRts(p, bits)
  \/ \E bits \in {{}, {"DTR"}} : SetDtr(p, bits)
  \/ \E bits \in Outputs : SetOutputs(p, bits)
  \/ SetXon(p) \/ SetXoff(p)
  \/ \E on \in BOOLEAN : SetBreak(p, on)

Next ==
  \/ \E p \in Ports :
       \/ AddFdoPort(p) \/ Open(p) \/ Close(p)
       \/ \E n \in WriteSizes : Write(p, n)
       \/ \E n \in ReadSizes : Read(p, n)
       \/ Abort(p) \/ Purge(p)
       \/ \E flow \in Flows[p] : ChangeHandFlow(p, flow)
       \/ ByHand(p)
  \/ OpenLine \/ Transfer

Spec == Init /\ [][Next]_vars

(* The lock is released in the end, and the applications go on reading:    *)
(* each gets its turn at the lock, between those of the other.             *)
FairSpec ==
  /\ Spec
  /\ WF_vars(OpenLine)
  /\ []<>(engine = NoPort) \/ []<><<Transfer>>_vars  (* WF_vars(Transfer) *)
  /\ \A p \in Ports : SF_vars(\E n \in ReadSizes : Read(p, n))
-----------------------------------------------------------------------------
(***************************************************************************)
(* Properties.                                                             *)
(***************************************************************************)

(* An input pin shows the output it is wired to: SetModemControl, its two  *)
(* calls of SetModemStatus and PinMap of either port never miss a change.  *)
(* Pins wired to OUT2 are another matter: AddFdoPort of the other end sets *)
(* that without them.                                                      *)
StatusFollowsPins ==
  \A p \in added : \A in \in Ins :
     wiring[p][in].pin # "OUT2" =>
       (in \in port[p].modemStatus <=> Signal(port, p, in))

(* A writer is held by the lines of its handshake that are low, and by no  *)
(* other: SetModemStatusHolding runs for every change of modemStatus and   *)
(* of ControlHandShake.                                                    *)
HoldingFollowsStatus ==
  \A p \in Ports :
     port[p].holding \cap Lines = port[p].flow.out \ port[p].modemStatus

(* writeHoldingRemote tells the truth: a line of a handshake is low if and *)
(* only if its reason is there, as long as nobody sets the line by hand.   *)
LineTellsReason ==
  \A p \in Ports :
     port[p].isOpen /\ history \cap {"byHand", "switch"} = {} =>
       \A x \in Shaken(port[p].flow) :
          x[1] \in port[p].modemControl <=> x[2] \notin port[p].holdingRemote

(* Who waits for XON will be sent one: the other end holds it and sends    *)
(* XON when it has drained, or XON is on its way, or the port waits        *)
(* because of its own XOFF.  No XON is lost between UpdateHandFlow,        *)
(* SetHandFlow, sendXonXoff and txBuf.                                     *)
XonIsOwed ==
  \A p \in Ports :
     LET q == port[Remote(p)]
     IN  /\ "XON" \in port[p].holding
         /\ history \cap {"byHand", "close", "cancel"} = {}
         => \/ "XON" \in q.holdingRemote \/ q.sendXonXoff = "on"
            \/ \E i \in 1 .. Len(q.tx) : q.tx[i] = "on"
            \/ "XON" \in port[p].holdingRemote

(* "XOFF still was not sent so cancel it": when SetHandFlow takes an XOFF  *)
(* back, the other end is not left waiting for XON (handflow.c).           *)
XoffTakenBackInTime ==
  [][\A p \in Ports :
       /\ "cancel" \in history' \ history /\ "byHand" \notin history
       /\ port[p].flow.autoReceive /\ ~port'[p].flow.autoReceive
       => \/ "XON" \notin port'[Remote(p)].holding
          \/ "XON" \in port'[Remote(p)].holdingRemote]_vars

(* When the lock is free nothing that could move waits: a character that   *)
(* is on its way, a write or an XON or XOFF that no handshake holds finds  *)
(* readBuf full and no read; and a port that asked for ReadWrite got it,   *)
(* unless the other end is closed.  (The close of an end runs none, and    *)
(* may let go a writer that an inverted pin held.  A purge or a setting    *)
(* may make room and run none.)                                            *)
NothingHeldBack ==
  Free /\ history \cap {"purge", "limit"} = {} =>
    \A p \in Ports :
       LET q == port[Remote(p)]
       IN  /\ port[p].tryWrite => ~q.isOpen
           /\ \/ port[p].tx # <<>>
              \/ port[p].writing > 0 /\ port[p].holding = {}
              \/ /\ port[p].sendXonXoff # "none"
                 /\ port[p].holding \subseteq {"XON"}
              => q.reading = 0 /\ q.busy >= q.limit

(* The ports never keep ReadWrite, and with it pIoLock, busy by asking     *)
(* each other for XON and XOFF: each round but the last ends with a change *)
(* of a hold, and every port changes those a few times only.               *)
ReadWriteEnds == rounds < MaxRounds

(* The lines that may hold a writer, or its XON, are those of the other    *)
(* end, driven by a handshake or up; if p holds itself with its XOFF, the  *)
(* other end obeys that.                                                   *)
Driven(src, p) ==
  LET q == port[Remote(p)]
  IN  /\ ~src.negative /\ src.end = "remote"
      /\ \/ src.pin = "RTS" /\ q.flow.rts \in {"on", "handshake"}
         \/ src.pin = "DTR" /\ q.flow.dtr \in {"on", "handshake"}
         \/ src.pin = "OPEN"

Untouched(p) ==
  /\ history = {} /\ port[p].isOpen /\ port[Remote(p)].isOpen
  /\ \A q \in Ports : \A line \in port[q].flow.out :
       Driven(wiring[q][line], q)
  /\ port[p].flow.autoReceive => port[Remote(p)].flow.autoTransmit

(* A writer that the other end holds is let go on when that has read.      *)
HeldWriterResumes ==
  \A p \in Ports :
     Untouched(p) /\ port[p].writing > 0
       ~> ~Untouched(p) \/ port[p].writing = 0
=============================================================================
