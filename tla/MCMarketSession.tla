--------------------------- MODULE MCMarketSession ---------------------------
(* Instances of MarketSession for TLC.  Calls are interchangeable.         *)
EXTENDS MarketSession, TLC

\* Everything that goes through one ManagedConnection.
LaneKinds == AllKinds \ {"pushRead"}

\* Narrow instances, for one disagreement each.
PushLaneKinds == {"pushRead", "dispatch"}
QuoteKinds == {"request", "dispatch", "isAlive"}
RetimeKinds == {"request", "dispatch"}
ProbeKinds == {"tryDispatch", "dispatch"}
CloseKinds == {"dispatch", "close"}

\* Where the exploration stops: of a third call, an unsolicited frame and a second
\* request in a bundle, a behaviour has one beside its first two calls, or two with
\* one call.
Explored ==
    LET begun == Cardinality({c \in Calls : pc[c] # "idle"})
        bundled == \E r \in Req : r[2] > 1 /\ fut[r] # "new"
    IN  begun + pushes + (IF bundled THEN 1 ELSE 0) <= 3

CallSymmetry == Permutations(Calls)
=============================================================================
