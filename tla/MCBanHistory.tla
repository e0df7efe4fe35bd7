---------------------------- MODULE MCBanHistory ----------------------------
(* The values of MCEventLoop for the event loop with its history variable.   *)
EXTENDS BanHistory, MCEventLoop
=============================================================================
