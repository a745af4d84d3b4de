------------------------------ MODULE MCUiNav ------------------------------
(* Bounds for TLC: the remotes stored at power-up; the numbers of sessions  *)
(* and recordings are only compared.                                       *)
EXTENDS UiNavProperties, TLC

McStarts == {<< >>, <<Blank, [Blank EXCEPT !.kind = "keyed", !.bonded = TRUE]>>}
IdSymmetry == Permutations(Ids)
=============================================================================
