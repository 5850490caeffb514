------------------------------- MODULE ThsServer -------------------------------
(***************************************************************************)
(* The server: its HTTP handlers and preheating thread, the streams of      *)
(* stocks and of anomalies, over one client.                               *)
(***************************************************************************)
EXTENDS StockStreams, RealOrderStream

\* Each thread is one thing, and nobody is a thread.
ASSUME ActorsAssumption ==
    /\ Requests \cap (Viewers \cup Timers \cup Pagers \cup {Collector, Preheater}) = {}
    /\ (Viewers \cup Timers) \cap (Pagers \cup {Collector, Preheater}) = {}
    /\ Viewers \cap Timers = {}
    /\ Pagers \cap {Collector, Preheater} = {} /\ Collector # Preheater
    /\ Nobody \notin Viewers \cup Timers \cup LaneReaders \cup Codes

vars == <<runtimeVars, stockVars, dxjlVars>>

Init == RuntimeInit /\ StockInit /\ DxjlInit

\* The end of close(): client.close() leaves no socket and no subscription.
CloseClient ==
    /\ Shuts("client", "done")
    /\ main' = "none" /\ line' = "none" /\ air' = {} /\ events' = {}
    /\ wire' = <<>> /\ missed' = missed \cup Pushes(wire)
    /\ UNCHANGED <<load, losses, connected, call, request, preheat, heater,
                   streamLock, subscribers, active, release, timer, viewer, lane, reader,
                   breaks, lineLock, marked, pending, pages, pushed, pager, roomVars>>

Next ==
    \/ RuntimeStep /\ UNCHANGED <<stockVars, dxjlVars>>
    \/ StockStep /\ UNCHANGED dxjlVars
    \/ DxjlStep /\ UNCHANGED stockVars
    \/ CloseClient

Spec == Init /\ [][Next]_vars

-----------------------------------------------------------------------------
(* Fairness                                                                *)

\* The thread that holds the stream lock goes on with what it holds it for.
HolderRuns ==
    \/ /\ streamLock \in Threads /\ CallStep(streamLock)
       /\ UNCHANGED <<stockVars, dxjlVars>>
    \/ /\ streamLock \in Viewers /\ (Activates(streamLock) \/ Joined(streamLock))
       /\ UNCHANGED dxjlVars
    \/ /\ streamLock \in Timers
       /\ Deactivates(streamLock) \/ StopsSnapshot(streamLock) \/ Released(streamLock)
       /\ UNCHANGED dxjlVars

\* A lock that is free again and again is had in the end.
StockFairness ==
    /\ SF_vars(HolderRuns)
    /\ \A p \in Readers : SF_vars(Publishes(p) /\ UNCHANGED dxjlVars)

FairSpec == Spec /\ StockFairness

\* The collector runs, and what it tries again and again succeeds in the end: the
\* server takes its logins, and a connection can be had.
CollectorFairness ==
    /\ WF_vars(Collect /\ UNCHANGED stockVars)
    /\ WF_vars(CallStep(Collector) /\ UNCHANGED <<stockVars, dxjlVars>>)
    /\ SF_vars(LogsIn(Collector) /\ connected' /\ UNCHANGED <<stockVars, dxjlVars>>)
    /\ SF_vars((CollectorAcquires \/ CollectorReceives) /\ line' = "up" /\ UNCHANGED stockVars)

RecoverySpec == Spec /\ CollectorFairness
=============================================================================
