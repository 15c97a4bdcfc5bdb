--------------------------- MODULE MCStatusReport ---------------------------
(* The instance of StatusReport that TLC checks: two tasks report.           *)
EXTENDS StatusReport, TLC

CONSTANTS r1, r2
Reporters == {r1, r2}
ReporterSymmetry == Permutations(Reporters)
=============================================================================
