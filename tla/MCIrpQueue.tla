----------------------------- MODULE MCIrpQueue -----------------------------
(* Instances of IrpQueue for TLC. *)
EXTENDS IrpQueue

\* The requests are interchangeable: their kinds are chosen freely in Init.
Symmetry == Permutations(Irps)
=============================================================================
