---------------------------- MODULE MCHotplugLock ----------------------------
(* HotplugLock on three concurrent chains.  The lock treats the four         *)
(* state-transition events alike, so one of them stands for all.             *)
EXTENDS HotplugLock

MCEvents == {"NOTIFY_MASTER", "NOTIFY_SYNC"}
MCTimeouts == {0, 1}
=============================================================================
