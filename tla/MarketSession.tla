---------------------------- MODULE MarketSession ----------------------------
(***************************************************************************)
(* The request lane of one market-data socket: MarketSession               *)
(* (_transport/session.py) over its ResponseDispatcher, with the two       *)
(* operations of ManagedConnection that also take the request lock,        *)
(* close() and is_alive.                                                   *)
(*                                                                         *)
(* Each call runs in a thread of its own and is made once, at any time.    *)
(* A blocking call waits for the request lock until its deadline.  A       *)
(* synchronous call then waits for the dispatcher to be idle, writes and   *)
(* reads the answer itself, all under the lock; a dispatching call holds   *)
(* the lock only while it submits, and the dispatcher's reader reads.      *)
(***************************************************************************)
EXTENDS ResponseDispatcher

CONSTANTS
    Kinds,       \* the calls made: a subset of AllKinds
    OwnsSocket   \* ManagedConnection closes the socket it lets go

Synchronous == {"request", "latest", "receive"}
AllKinds == Synchronous \cup {"dispatch", "trySend", "tryDispatch", "close",
                              "isAlive", "pushRead"}

ASSUME KindsAssumption == Kinds \subseteq AllKinds
ASSUME OwnsAssumption == OwnsSocket \in BOOLEAN

VARIABLES
    lock,       \* the call that holds the request lock, or Nobody
    pc,         \* pc[c]: where call c is
    kind,       \* kind[c]: what it was called for
    via,        \* via[c]: the session it goes through
    gate,       \* gate[c]: the gate of a latest-wins request
    gates,      \* gates handed out so far (KlineService._kline_gate)
    latest,     \* latest[s]: the session's _latest_gate
    victim,     \* victim[c]: the future close() is about to fail
    sent        \* history: the synchronous calls whose frame was written

callVars == <<lock, pc, kind, via, gate, gates, latest, victim, sent>>
vars == <<dispatcherVars, callVars>>

Places == {"idle", "gated", "lock", "waitIdle", "gate", "send", "read",
           "submit", "await", "retime", "try", "trySend", "trySubmit", "closing",
           "failing", "failed", "detach", "probe", "done"}

\* Places at which the call holds the request lock.
Holding == {"waitIdle", "gate", "send", "read", "submit", "trySend",
            "trySubmit", "closing", "failing", "failed", "detach", "probe"}

Init ==
    /\ DispatcherInit
    /\ lock = Nobody
    /\ pc = [c \in Calls |-> "idle"]
    /\ kind = [c \in Calls |-> "none"]
    /\ via = [c \in Calls |-> Nobody]
    /\ gate = [c \in Calls |-> 0]
    /\ gates = 0
    /\ latest = [s \in Sessions |-> 0]
    /\ victim = [c \in Calls |-> Nobody]
    /\ sent = {}

Goto(c, place) == pc' = [pc EXCEPT ![c] = place]
GoReleasing(c, place) == Goto(c, place) /\ lock' = Nobody
Nonblocking == {"trySend", "tryDispatch"}
Bounded(c) == kind[c] \notin {"close", "isAlive", "pushRead"}
Asks(c) == kind[c] \in {"request", "latest"}
FirstReq(c) == <<c, 1>>
Bundle(c) == {r \in Req : CallOf(r) = c /\ fut[r] # "new"}

-----------------------------------------------------------------------------

\* A latest-wins caller draws its gate from the service's counter first.
Begin(c) ==
    /\ pc[c] = "idle"
    /\ \E k \in Kinds, s \in Sessions :
          /\ kind' = [kind EXCEPT ![c] = k]
          /\ via' = [via EXCEPT ![c] = s]
          /\ IF k = "latest"
             THEN /\ gates' = gates + 1
                  /\ gate' = [gate EXCEPT ![c] = gates + 1]
                  /\ Goto(c, "gated")
             ELSE /\ UNCHANGED <<gates, gate>>
                  /\ Goto(c, IF k \in Nonblocking THEN "try" ELSE "lock")
    /\ UNCHANGED <<dispatcherVars, lock, latest, victim, sent>>

\* request_latest() publishes the gate before it queues for the lock.
PublishGate(c) ==
    /\ pc[c] = "gated"
    /\ latest' = [latest EXCEPT ![via[c]] = IF gate[c] > @ THEN gate[c] ELSE @]
    /\ Goto(c, "lock")
    /\ UNCHANGED <<dispatcherVars, lock, kind, via, gate, gates, victim, sent>>

Deadline(c) ==
    /\ pc[c] # "idle" /\ c \notin due /\ Bounded(c)
    /\ due' = due \cup {c}
    /\ UNCHANGED <<wireVars, attached, futVars, greedy, stop, cond,
                   readerVars, tmo, callVars>>

AfterLock(k) ==
    CASE k \in Synchronous -> "waitIdle"
      [] k = "dispatch" -> "submit"
      [] k = "close" -> "closing"
      [] k = "isAlive" -> "probe"
      [] OTHER -> "send"

\* The push reader of an L2 lane (snapshot_loop) does not wait for idleness.
Acquire(c) ==
    /\ pc[c] = "lock" /\ lock = Nobody
    /\ c \notin due
    /\ lock' = c
    /\ Goto(c, AfterLock(kind[c]))
    /\ UNCHANGED <<dispatcherVars, kind, via, gate, gates, latest, victim, sent>>

LockTimeout(c) ==
    /\ pc[c] = "lock" /\ c \in due
    /\ Goto(c, "done")
    /\ UNCHANGED <<dispatcherVars, lock, kind, via, gate, gates, latest, victim, sent>>

-----------------------------------------------------------------------------
(* request(), request_latest() and receive()                               *)

\* Mutant: the caller writes without waiting for the dispatcher.
WaitIdle_NoWait(c) ==
    /\ pc[c] = "waitIdle"
    /\ Goto(c, IF kind[c] = "latest" THEN "gate" ELSE "send")
    /\ UNCHANGED <<dispatcherVars, lock, kind, via, gate, gates, latest, victim, sent>>

WaitIdle(c) ==
    /\ pc[c] = "waitIdle" /\ CondFree(via[c]) /\ ~Busy(via[c])
    /\ Goto(c, IF kind[c] = "latest" THEN "gate" ELSE "send")
    /\ UNCHANGED <<dispatcherVars, lock, kind, via, gate, gates, latest, victim, sent>>

\* The wait ends at the deadline or at DISPATCHER_IDLE_WAIT_CAP before it.
WaitIdleTimeout(c) ==
    /\ pc[c] = "waitIdle"
    /\ c \in due \/ Busy(via[c])
    /\ GoReleasing(c, "done")
    /\ UNCHANGED <<dispatcherVars, kind, via, gate, gates, latest, victim, sent>>

\* Mutant: a superseded request is sent all the same.
CheckGate_NoCheck(c) ==
    /\ pc[c] = "gate"
    /\ Goto(c, "send") /\ lock' = lock
    /\ UNCHANGED <<dispatcherVars, kind, via, gate, gates, latest, victim, sent>>

CheckGate(c) ==
    /\ pc[c] = "gate"
    /\ IF gate[c] = latest[via[c]]
       THEN Goto(c, "send") /\ lock' = lock
       ELSE GoReleasing(c, "done")
    /\ UNCHANGED <<dispatcherVars, kind, via, gate, gates, latest, victim, sent>>

\* Mutant: the lock covers the write and not the read.
Send_ReadsUnlocked(c) ==
    /\ pc[c] = "send" /\ c \notin due
    /\ attached[via[c]] /\ link # "closed"
    /\ tmo' = c
    /\ asked' = IF Asks(c) THEN asked \cup {FirstReq(c)} ELSE asked
    /\ sent' = IF Asks(c) THEN sent \cup {c} ELSE sent
    /\ GoReleasing(c, "read")
    /\ UNCHANGED <<link, wire, pushes, attached, futVars, greedy, stop, cond,
                   readerVars, due, kind, via, gate, gates, latest, victim>>

\* settimeout() and sendall(); a receiver only sets the timeout.
Send(c) ==
    /\ pc[c] = "send" /\ c \notin due
    /\ attached[via[c]] /\ link # "closed"
    /\ tmo' = c
    /\ asked' = IF Asks(c) THEN asked \cup {FirstReq(c)} ELSE asked
    /\ sent' = IF Asks(c) THEN sent \cup {c} ELSE sent
    /\ Goto(c, "read")
    /\ UNCHANGED <<link, wire, pushes, attached, futVars, greedy, stop, cond,
                   readerVars, due, lock, kind, via, gate, gates, latest, victim>>

\* Mutant: a failure before the read leaves the lock taken.
SendFails_KeepsLock(c) ==
    /\ pc[c] = "send"
    /\ ~attached[via[c]] \/ c \in due \/ link # "up"
    /\ Goto(c, "done") /\ lock' = lock
    /\ UNCHANGED <<dispatcherVars, kind, via, gate, gates, latest, victim, sent>>

\* No socket, no time left, or the write raises.
SendFails(c) ==
    /\ pc[c] = "send"
    /\ ~attached[via[c]] \/ c \in due \/ link # "up"
    /\ GoReleasing(c, "done")
    /\ UNCHANGED <<dispatcherVars, kind, via, gate, gates, latest, victim, sent>>

\* The caller's loop in the request context: a frame that is not its answer
\* is skipped, or was the last its frame budget allows.  A receiver, and the
\* push reader, take one frame.
ReadFrame(c) ==
    /\ pc[c] = "read" /\ FrameReady
    /\ wire' = Tail(wire)
    /\ \/ GoReleasing(c, "done")
       \/ /\ Asks(c)
          /\ Head(wire) # FirstReq(c)
          /\ UNCHANGED <<pc, lock>>
    /\ UNCHANGED <<link, asked, pushes, attached, futVars, greedy, stop, cond,
                   readerVars, tmo, due, kind, via, gate, gates, latest, victim, sent>>

\* recv() times out or raises, and the context manager releases the lock.
\* The push reader has a timeout of its own, of two seconds.
ReadFails(c) ==
    /\ pc[c] = "read"
    /\ \/ RecvFails /\ wire' = wire
       \/ /\ c \in due \/ kind[c] = "pushRead"
          /\ wire' = wire \/ FrameLost
    /\ GoReleasing(c, "done")
    /\ UNCHANGED <<link, asked, pushes, attached, futVars, greedy, stop, cond,
                   readerVars, tmo, due, kind, via, gate, gates, latest, victim, sent>>

-----------------------------------------------------------------------------
(* dispatch()                                                              *)

\* Bundles are numbered from 1, so FirstReq(c) is in each of them.
BundleOf(c, n) == {<<c, i>> : i \in 1..n}

Submit(c) ==
    /\ pc[c] = "submit" /\ c \notin due /\ CondFree(via[c])
    /\ \E n \in 1..MaxBundle : Submitted(via[c], BundleOf(c, n), FALSE)
    /\ GoReleasing(c, "await")
    /\ UNCHANGED <<kind, via, gate, gates, latest, victim, sent>>

SubmitFails(c) ==
    /\ pc[c] = "submit"
    /\ \/ c \in due /\ UNCHANGED dispatcherVars
       \/ CondFree(via[c]) /\ SubmitRefused(via[c])
       \/ /\ CondFree(via[c])
          /\ \E n \in 1..MaxBundle : SubmitWriteFails(via[c], BundleOf(c, n))
    /\ GoReleasing(c, "done")
    /\ UNCHANGED <<kind, via, gate, gates, latest, victim, sent>>

\* future.result() in bundle order: the first failed future raises, once
\* those before it are there.
AwaitResult(c) ==
    /\ pc[c] = "await"
    /\ \/ /\ \A r \in Bundle(c) : fut[r] = "ok"
          /\ Goto(c, "retime")
       \/ /\ \E r \in Bundle(c) :
                /\ fut[r] = "err"
                /\ \A q \in Bundle(c) : q[2] < r[2] => fut[q] = "ok"
          /\ Goto(c, "done")
    /\ UNCHANGED <<dispatcherVars, lock, kind, via, gate, gates, latest, victim, sent>>

AwaitTimeout(c) ==
    /\ pc[c] = "await" /\ c \in due
    /\ Goto(c, "done")
    /\ UNCHANGED <<dispatcherVars, lock, kind, via, gate, gates, latest, victim, sent>>

\* With its results, dispatch() leaves the rest of its time as the socket's
\* timeout; it holds no lock here.
Retime(c) ==
    /\ pc[c] = "retime"
    /\ tmo' = IF attached[via[c]] THEN c ELSE tmo
    /\ Goto(c, "done")
    /\ UNCHANGED <<wireVars, attached, futVars, greedy, stop, cond, readerVars,
                   due, lock, kind, via, gate, gates, latest, victim, sent>>

-----------------------------------------------------------------------------
(* try_send() and try_dispatch()                                           *)

TryAcquire(c) ==
    /\ pc[c] = "try"
    /\ IF lock = Nobody
       THEN /\ lock' = c
            /\ Goto(c, IF kind[c] = "trySend" THEN "trySend" ELSE "trySubmit")
       ELSE lock' = lock /\ Goto(c, "done")
    /\ UNCHANGED <<dispatcherVars, kind, via, gate, gates, latest, victim, sent>>

\* The heartbeat skips a busy lane, and a lane without a socket.
TrySkips(c) ==
    /\ pc[c] \in {"trySend", "trySubmit"} /\ CondFree(via[c])
    /\ Busy(via[c]) \/ (pc[c] = "trySend" /\ ~attached[via[c]])
    /\ GoReleasing(c, "done")
    /\ UNCHANGED <<dispatcherVars, kind, via, gate, gates, latest, victim, sent>>

\* A keep-alive frame wants no answer; the write may raise.
TrySend(c) ==
    /\ pc[c] = "trySend" /\ CondFree(via[c])
    /\ ~Busy(via[c]) /\ attached[via[c]]
    /\ GoReleasing(c, "done")
    /\ UNCHANGED <<dispatcherVars, kind, via, gate, gates, latest, victim, sent>>

\* The probe's consumer takes the next frame, whatever it is.
TrySubmit(c) ==
    /\ pc[c] = "trySubmit" /\ CondFree(via[c]) /\ ~Busy(via[c])
    /\ \/ Submitted(via[c], {FirstReq(c)}, TRUE)
       \/ SubmitRefused(via[c])
       \/ SubmitWriteFails(via[c], {FirstReq(c)})
    /\ GoReleasing(c, "done")
    /\ UNCHANGED <<kind, via, gate, gates, latest, victim, sent>>

-----------------------------------------------------------------------------
(* ManagedConnection.close() and ManagedConnection.is_alive                *)

Close(c) ==
    /\ pc[c] = "closing"
    /\ CloseBegins(via[c], c)
    /\ Goto(c, "failing")
    /\ UNCHANGED <<lock, kind, via, gate, gates, latest, victim, sent>>

\* One turn of the loop over the pending list: the future is tested ...
CloseTests(c) ==
    /\ pc[c] = "failing"
    /\ \E r \in pending[via[c]] :
          /\ Waiting(r)
          /\ victim' = [victim EXCEPT ![c] = r]
    /\ Goto(c, "failed")
    /\ UNCHANGED <<dispatcherVars, lock, kind, via, gate, gates, latest, sent>>

\* ... and completed; when that raises, close() is over.
CloseCompletes(c) ==
    /\ pc[c] = "failed"
    /\ \/ CloseFails(victim[c]) /\ Goto(c, "failing") /\ lock' = lock
       \/ CloseBreaks(via[c], victim[c]) /\ GoReleasing(c, "done")
    /\ victim' = [victim EXCEPT ![c] = Nobody]
    /\ UNCHANGED <<kind, via, gate, gates, latest, sent>>

CloseEnds(c) ==
    /\ pc[c] = "failing"
    /\ CloseClears(via[c])
    /\ Goto(c, "detach")
    /\ UNCHANGED <<lock, kind, via, gate, gates, latest, victim, sent>>

\* The connection forgets its socket and closes it if it owns it.
Detach(c) ==
    /\ pc[c] = "detach"
    /\ attached' = [attached EXCEPT ![via[c]] = FALSE]
    /\ link' = IF attached[via[c]] /\ OwnsSocket THEN "closed" ELSE link
    /\ GoReleasing(c, "done")
    /\ UNCHANGED <<wire, asked, pushes, futVars, greedy, stop, cond, readerVars,
                   tmo, due, kind, via, gate, gates, latest, victim, sent>>

\* probe_socket_alive() makes the socket non-blocking from Acquire to here.
ProbeEnds(c) ==
    /\ pc[c] = "probe"
    /\ GoReleasing(c, "done")
    /\ UNCHANGED <<dispatcherVars, kind, via, gate, gates, latest, victim, sent>>

-----------------------------------------------------------------------------

\* The steps of a call's own thread.
Call(c) ==
    \/ PublishGate(c) \/ Acquire(c) \/ LockTimeout(c)
    \/ WaitIdle(c) \/ WaitIdleTimeout(c) \/ CheckGate(c)
    \/ Send(c) \/ SendFails(c) \/ ReadFrame(c) \/ ReadFails(c)
    \/ Submit(c) \/ SubmitFails(c) \/ AwaitResult(c) \/ AwaitTimeout(c)
    \/ Retime(c)
    \/ TryAcquire(c) \/ TrySkips(c) \/ TrySend(c) \/ TrySubmit(c)
    \/ Close(c) \/ CloseTests(c) \/ CloseCompletes(c) \/ CloseEnds(c)
    \/ Detach(c) \/ ProbeEnds(c)

ReaderThread(s) == Reader(s) /\ UNCHANGED callVars

Server ==
    /\ \/ \E r \in Req : ServerAnswers(r)
       \/ ServerPushes
       \/ ServerLeaves
    /\ UNCHANGED callVars

Next ==
    \/ \E c \in Calls : Begin(c) \/ Call(c) \/ Deadline(c)
    \/ \E s \in Sessions : ReaderThread(s)
    \/ Server

\* Threads that can run do run, and deadlines pass; nothing is assumed of the
\* server or of the application, which need not make another call.
Fairness ==
    /\ \A c \in Calls : WF_vars(Call(c)) /\ WF_vars(Deadline(c))
    /\ \A s \in Sessions : WF_vars(ReaderThread(s))

Spec == Init /\ [][Next]_vars
FairSpec == Spec /\ Fairness

-----------------------------------------------------------------------------

MarketSessionTypeOK ==
    /\ lock \in Calls \cup {Nobody}
    /\ pc \in [Calls -> Places]
    /\ kind \in [Calls -> AllKinds \cup {"none"}]
    /\ via \in [Calls -> Sessions \cup {Nobody}]
    /\ gate \in [Calls -> Nat]
    /\ gates \in Nat
    /\ latest \in [Sessions -> Nat]
    /\ victim \in [Calls -> Req \cup {Nobody}]
    /\ sent \subseteq Calls

\* Every variable has its type (the fields of MarketSession and
\* ResponseDispatcher, the places of their threads).
TypeOK == DispatcherTypeOK /\ MarketSessionTypeOK

\* At most one thread reads the socket: a synchronous caller between its
\* settimeout() and its release of the lock, or a dispatcher's reader
\* (docs/architecture/ARCHITECTURE.md, connection invariants 1, 2 and 5).
ReadingSocket ==
    {c \in Calls : pc[c] = "read"} \cup {s \in Sessions : rpc[s] = "recv"}
SoleReader == \A x, y \in ReadingSocket : x = y

\* A list with requests in it always has a reader to serve it, across the
\* window in which a reader decides to leave and a submitter appends work.
PendingIsServed ==
    \A s \in Sessions : pending[s] # {} /\ ~stop[s] => rpc[s] # "none"

\* Once a connection has let its socket go, no future submitted through it is
\* left waiting, whatever its reader and other submitters were doing.
DetachedIsSettled ==
    \A c \in Calls : via[c] # Nobody /\ ~attached[via[c]] =>
        \A r \in Bundle(c) : ~Waiting(r)

\* A synchronous caller never takes off the wire a frame that answers a
\* request a dispatcher still has pending.
NoStolenAnswer ==
    [][\A c \in Calls : ReadFrame(c) =>
          \A s \in Sessions : Head(wire) \notin Candidates(s)]_vars

\* Latest-wins: requests of one session reach the socket in the order of their
\* gates, so a stale chart request is never sent after a newer one.
GatesIncrease ==
    [][\A c \in Calls : Send(c) /\ kind[c] = "latest" =>
          \A d \in sent : kind[d] = "latest" /\ via[d] = via[c] =>
              gate[d] < gate[c]]_vars

\* Every call ends: no order of lock waits, idle waits, condition waits and
\* future waits leaves a thread blocked for ever.
CallsEnd == \A c \in Calls : pc[c] # "idle" ~> pc[c] = "done"

\* Every submitted future is completed, by an answer, an expiry or a failure,
\* unless its dispatcher was closed.
FuturesSettle == \A r \in Req : Waiting(r) ~> ~Waiting(r) \/ \E s \in Sessions : stop[s]

\* A socket is not probed in non-blocking mode while a thread reads it
\* (_transport/connection.py, is_alive).
ProbeExcludesReader ==
    (\E c \in Calls : pc[c] = "probe") => ReadingSocket = {}

\* A frame that answers a pending request completes that request or none
\* (services/quote.py, market_view_pipeline).
AnswerToItsRequest ==
    [][\A s \in Sessions : ReaderOffers(s) /\ inHand[s] \in Candidates(s) =>
          winner'[s] \in {inHand[s], Nobody}]_vars

\* A connection that was closed is no longer active.
ClosedIsInactive ==
    \A c \in Calls : kind[c] = "close" /\ pc[c] = "done" => ~attached[via[c]]

\* A synchronous caller reads under the timeout it set for its own deadline:
\* the request lock covers the setting of the timeout
\* (docs/architecture/ARCHITECTURE.md, connection invariant 2).
TimeoutIsOwn == \A c \in Calls : pc[c] = "read" => tmo = c

-----------------------------------------------------------------------------
(* The parts of the inductive invariants of MarketSession_proofs.          *)

\* A call that has begun has a kind and a session, and only the blocking
\* kinds queue for the lock.
WellCalled ==
    \A c \in Calls :
        /\ pc[c] # "idle" => kind[c] \in Kinds /\ via[c] \in Sessions
        /\ pc[c] \in {"gated", "lock"} => kind[c] \notin Nonblocking

\* The request lock excludes: who is at a place that holds it is its holder.
LockExcludes == \A c \in Calls : pc[c] \in Holding <=> lock = c

\* No dispatcher works while a caller that waited for idleness has the lane.
Owner(c) == pc[c] \in {"gate", "send", "read"} /\ kind[c] # "pushRead"
OwnerIsAlone == \A c \in Calls : Owner(c) => \A s \in Sessions : ~Busy(s)

\* A waiting future is in the list of the dispatcher it was submitted to.
WaitingIsPending ==
    \A r \in Req : Waiting(r) =>
        /\ pc[CallOf(r)] # "idle"
        /\ r \in pending[via[CallOf(r)]]

\* A session loses its socket after its dispatcher was closed and emptied.
DetachedIsEmpty ==
    /\ \A s \in Sessions : ~attached[s] => stop[s] /\ pending[s] = {}
    /\ \A c \in Calls : pc[c] \in {"failing", "failed", "detach"} => stop[via[c]]
    /\ \A c \in Calls : pc[c] = "detach" => pending[via[c]] = {}

\* Gates are drawn once, published before the wait for the lock, and a caller
\* about to send has a gate above all that were sent.
Charts == {c \in Calls : pc[c] # "idle" /\ kind[c] = "latest"}
GatesInOrder ==
    /\ \A c \in Charts : gate[c] <= gates
    /\ \A c, d \in Charts : gate[c] = gate[d] => c = d
    /\ \A c \in Charts : pc[c] # "gated" => gate[c] <= latest[via[c]]
    /\ \A c \in sent : pc[c] \in {"read", "done"}
    /\ \A c \in Charts : pc[c] = "send" =>
           \A d \in sent \cap Charts : via[d] = via[c] => gate[d] < gate[c]
=============================================================================
