----------------------------- MODULE MCStaServer -----------------------------
(* The instance of StaServer that TLC checks: two identities of a server, of *)
(* which the connection and the leaks use up the three sockets.              *)
EXTENDS StaServer, TLC

CONSTANTS t1, t2, c1, s1, s2, s3
Servers == {t1, t2}
Clients == {c1}
Socks == {s1, s2, s3}

\* The names of tasks and sockets do not matter.
Names == Permutations(Servers) \cup Permutations(Socks)
=============================================================================
