---------------------------- MODULE BtRuntime -----------------------------
(***************************************************************************)
(* The Bluetooth runtime: the worker, the callback task with the hosts and *)
(* the UI task, over the state they share.                                 *)
(***************************************************************************)
EXTENDS BtWorker, BtLink, BtUi

IdleWorker == [session |-> 0, generation |-> 0, profile |-> NoRemote, store |-> NoProfile,
               layers |-> {}, ready |-> {}, phase |-> "resetting", advertising |-> FALSE,
               connected |-> FALSE, encrypted |-> FALSE, subscribed |-> FALSE, saved |-> FALSE,
               suspended |-> FALSE, pairing |-> FALSE, awaiting_save |-> FALSE, forgetting |-> FALSE,
               pair_after |-> FALSE, deadlines |-> {}, due |-> {}]
IdleLink == [live |-> FALSE, host |-> NoPeer, enc |-> FALSE, up |-> FALSE, down |-> TRUE, phase |-> "idle"]
IdleWork == [pc |-> "idle", k |-> "none", post |-> "idle", msg |-> NoMessage, ok |-> TRUE]
IdleCtl == [adv |-> "off", wl |-> {}, resolving |-> FALSE, ops |-> {}, advStopped |-> FALSE, bondRemoved |-> "no"]
IdleUi == [session |-> 0, profile |-> NoProfile, seq |-> 0, previous |-> 0, pc |-> "idle"]
OffStatus == [session |-> 0, state |-> "OFF"]

Init ==
    /\ \E start \in Starts : nvm = start.nvm /\ budget = start.limit
    /\ desired = 0 /\ callbackGen = 0
    /\ snapshot = OffStatus
    /\ queue = <<>> /\ evtq = <<>>
    /\ s = IdleWorker /\ work = IdleWork
    /\ link = IdleLink /\ ctl = IdleCtl
    /\ ccc = FALSE
    /\ ui = IdleUi

\* Power is lost at any instant: only what NVS holds survives
PowerLoss ==
    /\ Spend("crashes")
    /\ desired' = 0 /\ callbackGen' = 0
    /\ snapshot' = OffStatus
    /\ queue' = <<>> /\ evtq' = <<>>
    /\ s' = IdleWorker /\ work' = IdleWork
    /\ link' = IdleLink /\ ctl' = IdleCtl
    /\ ccc' = FALSE
    /\ ui' = IdleUi
    /\ UNCHANGED nvm

Next == Worker \/ Completions \/ LinkCallbacks \/ Host \/ UiMenu \/ UiTurn \/ DeadlinePasses \/ PowerLoss

Spec == Init /\ [][Next]_vars

\* The tasks run, requests complete and time passes; hosts and the user may
\* stop for good.
Fairness ==
    /\ WF_vars(Worker) /\ WF_vars(DeadlinePasses) /\ WF_vars(UiTurn)
    /\ WF_vars(Completions) /\ WF_vars(LinkCallbacks)
    /\ WF_vars(LinkEnds /\ Op("disconnect") \in ctl.ops)
FairSpec == Spec /\ Fairness
=============================================================================
