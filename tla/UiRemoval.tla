----------------------------- MODULE UiRemoval -----------------------------
(***************************************************************************)
(* UiNav, with a tick right after every key as in the loop of the UI task  *)
(* (app_ui_task.c 31-44) and a history variable: a removal was confirmed   *)
(* and has neither ended nor failed.                                       *)
(***************************************************************************)
EXTENDS UiNavProperties

VARIABLES ticked, removing
removalVars == <<vars, ticked, removing>>

KeyStep == ui' # ui /\ events' = events /\ ~Sampled
WorkerStep == ui' = ui /\ (worker' # worker \/ Len(events') > Len(events))
(* No answer to an earlier request is on its way.                          *)
ForgetFailed == worker'.state = "error" /\ worker'.forgets < worker.forgets /\ events = << >>

RemovalInit == Init /\ ticked = TRUE /\ removing = FALSE
Tick ==
    /\ ui.session = NoId \/ worker.state = ui.status
    /\ ticked' = TRUE /\ UNCHANGED <<vars, removing>>
RemovalNext ==
    \/ Tick
    \/ /\ Next
       /\ KeyStep \/ WorkerStep => ticked
       /\ ticked' = (~KeyStep /\ (ticked \/ Sampled))
       /\ removing' = (ui'.pending /\ (removing \/ ~ui.pending) /\ ~ForgetFailed)
RemovalSpec == RemovalInit /\ [][RemovalNext]_removalVars

(* Pair new and Unpair forget the peer, not the remote (docs/bluetooth.md  *)
(* 46-52): a remote with Bluetooth is deleted only for a confirmed removal *)
(* that has not failed.                                                    *)
UnpairKeepsRemote ==
    [][Len(remotes') < Len(remotes) /\ Active.kind \in BtKinds => removing]_removalVars
=============================================================================
