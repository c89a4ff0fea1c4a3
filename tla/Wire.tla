-------------------------------- MODULE Wire --------------------------------
(***************************************************************************)
(* One direction of a null-modem cable as its two applications see it:     *)
(* characters come out in the order they went in, each at most once, and   *)
(* the only ones missing are those the receiver asked to strip and those   *)
(* lost to overrun, to a purge or a cancel.  DataPath implements it.       *)
(***************************************************************************)
EXTENDS Integers, SequencesExt, Filter

CONSTANT MaxChars

VARIABLES
  dropped,  (* the characters the receiver strips                           *)
  overrun,  (* the line loses characters when the receiver is full          *)
  aborts,   (* cancels and purges so far                                    *)
  sent,     (* how many characters went in: they are 1, 2, ..., sent        *)
  pipe,     (* those on the way, the oldest first                           *)
  out       (* those the receiving application has                          *)

vars == <<dropped, overrun, aborts, sent, pipe, out>>

Init ==
  /\ dropped \subseteq 1 .. MaxChars /\ overrun \in BOOLEAN /\ aborts = 0
  /\ sent = 0 /\ pipe = <<>> /\ out = <<>>

Send(n) ==
  /\ sent + n <= MaxChars
  /\ sent' = sent + n
  /\ pipe' = pipe \o [i \in 1 .. n |-> sent + i]
  /\ UNCHANGED <<dropped, overrun, aborts, out>>

(* The receiver strips some of what arrives and gets the first k others.   *)
Arrive(stripped, k) ==
  LET rest == Without(pipe, stripped)
  IN  /\ k <= Len(rest)
      /\ out' = out \o SubSeq(rest, 1, k)
      /\ pipe' = SubSeq(rest, k + 1, Len(rest))
      /\ UNCHANGED <<dropped, overrun, aborts, sent>>

(* Characters get lost by overrun, or with whatever is aborted.            *)
Lose(gone) ==
  /\ \/ overrun /\ UNCHANGED aborts
     \/ aborts' = aborts + 1
  /\ pipe' = Without(pipe, gone)
  /\ UNCHANGED <<dropped, overrun, sent, out>>

Next ==
  \/ \E n \in 1 .. MaxChars : Send(n)
  \/ \E stripped \in SUBSET (Range(pipe) \cap dropped), k \in 0 .. Len(pipe) :
       Arrive(stripped, k)
  \/ \E gone \in SUBSET Range(pipe) : Lose(gone)

Spec == Init /\ [][Next]_vars
=============================================================================
