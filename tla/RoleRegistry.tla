---------------------------- MODULE RoleRegistry ----------------------------
(***************************************************************************)
(* What a connection registry promises its users, whatever locks, sockets  *)
(* and threads it is made of: a role is served by at most one connection,  *)
(* which stays open for as long as it is registered; a new one is          *)
(* installed only where none is; and a connection is shut once, after it   *)
(* was removed.                                                            *)
(***************************************************************************)
CONSTANTS Roles, Conns, None

VARIABLES
    entry,   \* entry[r]: the connection that serves role r, or None
    open     \* connections in use: registered, or removed and not shut yet

Init ==
    /\ entry = [r \in Roles |-> None]
    /\ open = {}

Registered(c) == \E r \in Roles : entry[r] = c

Install(r, c) ==
    /\ entry[r] = None /\ c \notin open
    /\ entry' = [entry EXCEPT ![r] = c]
    /\ open' = open \cup {c}

Remove(R) ==
    /\ \A r \in R : entry[r] # None
    /\ entry' = [r \in Roles |-> IF r \in R THEN None ELSE entry[r]]
    /\ open' = open

Shut(c) ==
    /\ c \in open /\ ~Registered(c)
    /\ open' = open \ {c}
    /\ entry' = entry

Next ==
    \/ \E r \in Roles, c \in Conns : Install(r, c)
    \/ \E R \in SUBSET Roles : Remove(R)
    \/ \E c \in Conns : Shut(c)

Spec == Init /\ [][Next]_<<entry, open>>
=============================================================================
