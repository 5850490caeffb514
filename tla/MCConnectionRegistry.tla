------------------------ MODULE MCConnectionRegistry ------------------------
(* Instances of ConnectionRegistry for TLC.                                *)
EXTENDS ConnectionRegistry, TLC

\* Narrow instances, for one disagreement each.
RetryOps == {"acquire", "drop"}
RebuildOps == {"acquire"}

\* Where the exploration stops: a disconnect() is not explored beside another one,
\* beside close() or update_profile(), which remove connections as it does.
Explored ==
    \A t, u \in Threads :
       t # u /\ op[t] = "disconnect" => op[u] \notin {"disconnect", "close", "update"}

Interchangeable ==
    Permutations(Threads) \cup Permutations(Socks) \cup Permutations(Conns)
=============================================================================
