----------------------------- MODULE MCMainLogin -----------------------------
(* Instances of MainLogin for TLC.                                         *)
EXTENDS MainLogin, TLC

\* Where the exploration stops: at more than one open socket that nobody refers to, and,
\* once logins have overlapped, at a forgotten heartbeat, which no action looks at.
Explored == Cardinality(open \ Referred) <= 1 /\ (stray => ~overlapped)

Symm == Permutations(Callers) \cup Permutations(Hosts) \cup Permutations(Sockets)
=============================================================================
