---------------------------- MODULE MCOpenClose ----------------------------
(***************************************************************************)
(* Instances of OpenClose for TLC.                                         *)
(***************************************************************************)
EXTENDS OpenClose, TLC

(* A plug-in port beside an exclusive one, and a port that is both beside  *)
(* one that is exclusive.                                                  *)
MCModes ==
  {[exclusive |-> {"A"}, plugIn |-> {"B"}],
   [exclusive |-> {"A", "B"}, plugIn |-> {"A"}]}

MCSymmetry == Permutations(Apps)

MCExclusive == {[exclusive |-> {"A"}, plugIn |-> {}]}
============================================================================
