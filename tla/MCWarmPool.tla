----------------------------- MODULE MCWarmPool -----------------------------
(***************************************************************************)
(* Instances of WarmPool: requests inside one fluxvm serve, or one in it    *)
(* and one from a CLI process beside it.                                    *)
(***************************************************************************)
EXTENDS WarmPool, TLC

CONSTANTS daemon, cli, c1, c2

\* Every request runs in the daemon.
InDaemon == [c \in Client |-> daemon]

\* c2 comes from the command line.
OneOutside == [c \in Client |-> IF c = c2 THEN cli ELSE daemon]

\* Only VM ids are interchangeable: the two clients live in different homes.
Alike == Permutations(Vm)
=============================================================================
