----------------------------- MODULE MCLockTask -----------------------------
(* The instance of LockTask that TLC checks: four cards, which share halves,   *)
(* for a table of three slots in the second of two pages.                      *)
EXTENDS LockTask

Cards == {<<0, 0>>, <<0, 1>>, <<1, 0>>, <<1, 1>>}
=============================================================================
