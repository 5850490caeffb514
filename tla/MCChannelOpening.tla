--------------------------- MODULE MCChannelOpening ---------------------------
(* Instances of ChannelOpening for TLC.                                    *)
EXTENDS ChannelOpening, FiniteSets, TLC

\* Where the exploration stops: a second round is one of an opener that nobody
\* overlaps with, and of a file that holds the offset of one role at most.
Explored ==
    \A o \in Openers : round[o] = 2 =>
       /\ \A p \in Openers \ {o} : pc[p] = "idle"
       /\ Cardinality({r \in Roles : file[r] < N}) <= 1

Symm == Permutations(Openers)
=============================================================================
