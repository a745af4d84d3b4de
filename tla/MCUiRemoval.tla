---------------------------- MODULE MCUiRemoval ----------------------------
(* UiRemoval with the bounds of MCUiNav.                                   *)
EXTENDS MCUiNav, UiRemoval
=============================================================================
