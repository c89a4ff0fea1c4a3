------------------------------ MODULE Requests ------------------------------
(***************************************************************************)
(* What a com0com port promises about each request it is sent, and all an  *)
(* application can see of it: the request is completed at most once, with  *)
(* a final status that what happened to it justifies, and with the count   *)
(* of the bytes that moved.  IrpQueue implements it.                       *)
(***************************************************************************)
EXTENDS Integers

CONSTANTS Irps, Kinds, DataLength, Timeouts

VARIABLES
  kind,      (* what each request is                                       *)
  sent,      (* the requests the driver has been given                     *)
  endings,   (* how many times each was completed                          *)
  moved,     (* the bytes moved, and once it ended the bytes it reports    *)
  outcome,   (* the status it ended with                                   *)
  asked,     (* somebody asked for its cancellation                        *)
  purged     (* a purge or a cleanup was asked for                         *)

vars == <<kind, sent, endings, moved, outcome, asked, purged>>

Whole(i) ==
  CASE kind[i] = "flush" -> 0
    [] kind[i] \in {"read", "write"} -> DataLength
    [] OTHER -> 1

Init ==
  /\ kind \in [Irps -> Kinds]
  /\ sent = {}
  /\ endings = [i \in Irps |-> 0]
  /\ moved = [i \in Irps |-> 0]
  /\ outcome = [i \in Irps |-> "none"]
  /\ asked = [i \in Irps |-> FALSE]
  /\ purged = FALSE

Pending(i) == i \in sent /\ endings[i] = 0

Send(i) ==
  /\ i \notin sent
  /\ sent' = sent \cup {i}
  /\ UNCHANGED <<kind, endings, moved, outcome, asked, purged>>

Move(i) ==
  /\ Pending(i)
  /\ \E n \in moved[i] + 1 .. Whole(i) : moved' = [moved EXCEPT ![i] = n]
  /\ UNCHANGED <<kind, sent, endings, outcome, asked, purged>>

Ask(i) ==
  /\ asked' = [asked EXCEPT ![i] = TRUE]
  /\ UNCHANGED <<kind, sent, endings, moved, outcome, purged>>

Purge ==
  /\ purged' = TRUE
  /\ UNCHANGED <<kind, sent, endings, moved, outcome, asked>>

\* The statuses that the history of the request justifies.
Justified(i) ==
  {st \in {"SUCCESS", "CANCELLED", "TIMEOUT", "MORE_WRITES", "INVALID",
           "COUNTER_TIMEOUT"} :
     CASE st = "SUCCESS"     -> moved[i] = Whole(i)
       [] st = "CANCELLED"   -> asked[i] \/ purged
       [] st = "TIMEOUT"     -> Timeouts /\ kind[i] # "flush"
       [] st = "INVALID"     -> moved[i] = 0 /\ kind[i] \in {"wait", "immediate"}
       [] st = "MORE_WRITES" -> kind[i] = "xoff" /\ moved[i] = Whole(i)
       [] OTHER -> Timeouts /\ kind[i] = "xoff" /\ moved[i] = Whole(i)}

\* Only a read or a write reports bytes, and not when it was cancelled.
Reported(i, st) ==
  IF st = "CANCELLED" \/ kind[i] \in {"immediate", "xoff"} THEN 0 ELSE moved[i]

End(i) ==
  /\ Pending(i)
  /\ endings' = [endings EXCEPT ![i] = 1]
  /\ \E st \in Justified(i) :
       /\ outcome' = [outcome EXCEPT ![i] = st]
       /\ moved' = [moved EXCEPT ![i] = Reported(i, st)]
  /\ UNCHANGED <<kind, sent, asked, purged>>

Next ==
  \/ \E i \in Irps : Send(i) \/ Move(i) \/ Ask(i) \/ End(i)
  \/ Purge

Spec == Init /\ [][Next]_vars
=============================================================================
