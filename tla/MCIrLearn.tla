----------------------------- MODULE MCIrLearn ------------------------------
(***************************************************************************)
(* An instance of IrLearn for TLC: how often the user records and sends,   *)
(* how many frames arrive and how many calls fail.                         *)
(***************************************************************************)
EXTENDS IrProperties

McLimit == [learns |-> 2, frames |-> 2, sends |-> 1, faults |-> 1]
=============================================================================
