-------------------------- MODULE MCPushSubscriptions --------------------------
(* Instances of PushSubscriptions for TLC.                                 *)
EXTENDS PushSubscriptions, TLC

\* Where the exploration stops: after an activation and a stop have overlapped the
\* server accepts nothing more.
Explored == overlapped => \A s \in Sockets : wire[s] = 0

Symm == Permutations(Callers) \cup Permutations(Readers) \cup Permutations(Sockets)
=============================================================================
