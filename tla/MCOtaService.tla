---------------------------- MODULE MCOtaService ----------------------------
(* The instances of OtaService that TLC checks: two clients, a URL of each   *)
(* kind, and one updater or two.                                             *)
EXTENDS OtaService, TLC

CONSTANTS c1, c2, u1, u2, http, https
Clients == {c1, c2}
Updaters == {u1, u2}
OneTask == {u1}
Urls == {http, https}
HttpsUrls == {https}

\* Clients and updaters differ in nothing but their names.
Names == Permutations(Clients) \cup Permutations(Updaters)
=============================================================================
