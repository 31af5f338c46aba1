----------------------------- MODULE MCSafeSave -----------------------------
(***************************************************************************)
(* Instances of SafeSave for TLC.                                          *)
(***************************************************************************)
EXTENDS SafeSave

(* Up to the end of the drift check. *)
BetweenCalls == {"closed", "fingerprinting", "loading", "ready", "checking", "comparing"}

UntilReplaced == Saving \ {"rereading", "absorbing"}
=============================================================================
