---------------------------- MODULE MCWifiRuntime ----------------------------
(* The instances of WifiRuntime that TLC checks: two identities of the start   *)
(* task, so that a new one can be created before a lost one has ended.         *)
EXTENDS WifiRuntime

CONSTANTS s1, s2
StartTasks == {s1, s2}
=============================================================================
