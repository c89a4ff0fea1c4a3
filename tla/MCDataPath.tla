---------------------------- MODULE MCDataPath -----------------------------
(***************************************************************************)
(* Instances of DataPath for TLC.                                          *)
(***************************************************************************)
EXTENDS DataPath

Plain == [dropped |-> {}, rxLimit |-> RxSize, readMode |-> "all",
          expires |-> TRUE, emuBR |-> FALSE, emuOverrun |-> FALSE,
          mayHold |-> TRUE]

(* Plain, a filter with WAIT_ONE reads and a limit, a slow line with reads *)
(* that do not wait and one whose reads have no timeout, overrun emulation. *)
MCSettings ==
  {Plain,
   [Plain EXCEPT !.dropped = {1, 2}, !.rxLimit = RxSize - 1,
                 !.readMode = "one"],
   [Plain EXCEPT !.readMode = "now", !.emuBR = TRUE],
   [Plain EXCEPT !.dropped = {2}, !.expires = FALSE, !.emuBR = TRUE],
   [Plain EXCEPT !.dropped = {2}, !.emuOverrun = TRUE]}

(* A receiver that strips a character in the middle.                       *)
MCStripping == {[Plain EXCEPT !.dropped = {4}, !.mayHold = FALSE]}
=============================================================================
