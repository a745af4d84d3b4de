------------------------------ MODULE MCInput -------------------------------
(* Bounds for TLC: the keys each kind of remote distinguishes, and how much *)
(* the host and the calls do.                                              *)
EXTENDS InputProperties

McUsed == [mapped |-> {"up", "ok", "mode"}, patterns |-> {"organic", "mode"},
           firetv |-> {"power", "ok", "mode"}, text |-> {"up", "mode"}]
McPresses == [mapped |-> 2, patterns |-> 2, firetv |-> 2, text |-> 2]
McTrouble == [mapped |-> 1, patterns |-> 1, firetv |-> 1, text |-> 1]
=============================================================================
