----------------------------- MODULE MCHandFlow -----------------------------
(* Instances of HandFlow: wirings and settings to choose from.             *)
EXTENDS HandFlow

Wire(end, pin) == [end |-> end, pin |-> pin, negative |-> FALSE]

(* The default wiring: a null modem cable.                                 *)
NullModem == [CTS |-> Wire("remote", "RTS"), DSR |-> Wire("remote", "DTR"),
              DCD |-> Wire("remote", "DTR"), RI |-> Wire("remote", "OPEN")]

(* With a loopback of DTR, and an inverted pin.                            *)
Crossed == [NullModem EXCEPT
              !.DSR = Wire("local", "DTR"),
              !.RI  = [Wire("remote", "OUT1") EXCEPT !.negative = TRUE]]

MCWirings == {[A |-> NullModem, B |-> Crossed]}

Plain == [rts |-> "on", dtr |-> "on", out |-> {}, autoReceive |-> FALSE,
          autoTransmit |-> FALSE, xoffContinue |-> FALSE,
          xonLimit |-> 1, xoffLimit |-> 1]

Lines3 == [Plain EXCEPT !.rts = "handshake", !.out = {"CTS"},
                        !.autoTransmit = TRUE,
                        !.xonLimit = 0, !.xoffLimit = 2]
XonXoff == [Plain EXCEPT !.dtr = "handshake", !.out = {"DCD"},
                         !.autoReceive = TRUE, !.autoTransmit = TRUE]
Toggle == [Plain EXCEPT !.rts = "toggle",
                        !.autoReceive = TRUE, !.autoTransmit = TRUE,
                        !.xoffContinue = TRUE]


MCFlows == [p \in Ports |-> {Lines3, XonXoff, Toggle}]

CancelFlows == [A |-> {XonXoff, Lines3}, B |-> {XonXoff, Toggle}]
=============================================================================
