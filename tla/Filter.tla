------------------------------- MODULE Filter -------------------------------
(***************************************************************************)
(* What passes a filter: a sequence without some of its elements.          *)
(***************************************************************************)
EXTENDS Integers, Sequences

Without(s, gone) ==
  LET passed[i \in 0 .. Len(s)] ==
        IF i = 0 THEN <<>>
        ELSE IF s[i] \in gone THEN passed[i - 1]
        ELSE Append(passed[i - 1], s[i])
  IN  passed[Len(s)]
=============================================================================
