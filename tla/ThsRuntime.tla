------------------------------ MODULE ThsRuntime ------------------------------
(***************************************************************************)
(* The server's client and who calls it (server/runtime.py, server/app.py). *)
(* Every use of the client goes through call(): an unlocked look at         *)
(* _connected_once, a login under the lifecycle lock when it is not set,    *)
(* the operation, and after an OSError a look at the MAIN connection.       *)
(*                                                                         *)
(* The HTTP handlers and the preheating thread are here; the streams of a   *)
(* stock are in StockStreams, those of the anomalies in RealOrderStream.    *)
(* The lifecycle lock is held for whole logins, and nothing that holds it   *)
(* waits for another lock of the server: a login is one step.              *)
(***************************************************************************)
EXTENDS Integers, Sequences, FiniteSets

CONSTANTS
    Loads,        \* what the server is asked for and what befalls it: sets of "http",
                  \* "preheat", "stock", "dxjl", "pages", "loss", "break", "close"
    Requests,     \* HTTP requests
    Preheater,    \* the preheating thread
    Threads,      \* all that call the client
    MaxLosses     \* bound on the times the MAIN connection breaks

ASSUME ThreadsAssumption == Requests \cup {Preheater} \subseteq Threads
ASSUME LossesAssumption == MaxLosses \in Nat

VARIABLES
    load,         \* what this server is asked for, and what befalls it
    main,         \* the client's MAIN connection, for is_connected
    losses,       \* how often it broke
    connected,    \* _connected_once
    call,         \* call[x]: where thread x is in call()
    request,      \* request[r]: an HTTP request
    preheat,      \* _preheat_state
    heater,       \* where the preheating thread is
    closing       \* how far close() is

runtimeVars == <<load, main, losses, connected, call, request, preheat, heater, closing>>
beside == <<load, losses, request, preheat, heater, closing>>

Serves(kind) == kind \in load /\ closing = "no"

NoRequest == [at |-> "none", retries |-> FALSE, attempt |-> 1, fresh |-> FALSE]

RuntimeInit ==
    /\ load \in Loads
    /\ main = "none" /\ losses = 0 /\ connected = FALSE
    /\ call = [x \in Threads |-> "no"]
    /\ request = [r \in Requests |-> NoRequest]
    /\ preheat = "not_started" /\ heater = "none" /\ closing = "no"

-----------------------------------------------------------------------------
(* call()                                                                  *)

Step(x, place) == call' = [call EXCEPT ![x] = place]

\* The flag is read without the lock.
Looks(x) ==
    /\ call[x] = "looks"
    /\ Step(x, IF connected THEN "acts" ELSE "waits")
    /\ UNCHANGED <<beside, main, connected>>

\* client.connect(): a connection that lives is used again, another takes a login.
Connects(ok) ==
    /\ ok \/ main # "up"
    /\ main' = IF ok THEN "up" ELSE main

\* Under the lifecycle lock, after another look.
LogsIn(x) ==
    /\ call[x] = "waits"
    /\ IF connected
       THEN Step(x, "acts") /\ UNCHANGED <<main, connected>>
       ELSE \E ok \in BOOLEAN :
               /\ Connects(ok)
               /\ connected' = ok
               /\ Step(x, IF ok THEN "acts" ELSE "failed")
    /\ UNCHANGED beside

\* Mutant: the flag outlives the connection.
Verdict_Keeps == "failed"

\* What an OSError makes of the call: the MAIN connection is looked at.
Verdict == IF main = "up" THEN "failed" ELSE "resets"

Resets(x) ==
    /\ call[x] = "resets"
    /\ connected' = FALSE /\ Step(x, "failed")
    /\ UNCHANGED <<beside, main>>

CallStep(x) == Looks(x) \/ LogsIn(x) \/ Resets(x)

\* How an operation of the client may end.  The services open MAIN again on their own.
Succeeds(x) == call[x] = "acts" /\ Step(x, "done")
Breaks(x) == call[x] = "acts" /\ Step(x, Verdict)
Refuses(x) == call[x] = "acts" /\ Step(x, "failed")
Finished(x) == call[x] \in {"done", "failed"}

-----------------------------------------------------------------------------
(* HTTP requests: _call() of server/app.py                                 *)

Ask(r, new) == request' = [request EXCEPT ![r] = new]
AsideRequests == UNCHANGED <<load, losses, preheat, heater, closing>>

RequestBegins(r) ==
    /\ Serves("http") /\ request[r].at = "none"
    /\ \E retries \in BOOLEAN : Ask(r, [NoRequest EXCEPT !.at = "calls", !.retries = retries])
    /\ Step(r, "looks")
    /\ AsideRequests /\ UNCHANGED <<main, connected>>

\* An answer, the transport's error, or one of the service: it says what failed, and
\* may stand for the transport's, or is final.
RequestActs(r) ==
    /\ request[r].at = "calls"
    /\ \/ main = "up" /\ Succeeds(r) /\ Ask(r, request[r])
       \/ Breaks(r) /\ Ask(r, [request[r] EXCEPT !.fresh = TRUE])
       \/ /\ Refuses(r)
          /\ \E retries \in {FALSE, request[r].retries} :
                Ask(r, [request[r] EXCEPT !.retries = retries])
    /\ AsideRequests /\ UNCHANGED <<main, connected>>

\* Once more, if the handler wants that and the transport failed; else 502.
RequestEnds(r) ==
    /\ request[r].at = "calls" /\ Finished(r)
    /\ IF call[r] = "failed" /\ request[r].retries /\ request[r].attempt = 1
       THEN Ask(r, [request[r] EXCEPT !.attempt = 2]) /\ Step(r, "looks")
       ELSE Ask(r, NoRequest) /\ Step(r, "no")
    /\ AsideRequests /\ UNCHANGED <<main, connected>>

\* POST /api/connect
ConnectRequested ==
    /\ Serves("http")
    /\ \E ok \in BOOLEAN : Connects(ok) /\ connected' = (ok \/ connected)
    /\ UNCHANGED <<beside, call>>

-----------------------------------------------------------------------------
(* start_preheat(), _preheat_worker()                                      *)

Heats(place) == heater' = place
AsideHeater == UNCHANGED <<load, losses, call, request, closing>>

\* Called when the application starts; also on a server that was preheated before.
StartPreheat ==
    /\ Serves("preheat") /\ heater = "none" /\ preheat \notin {"ready", "skipped"}
    /\ preheat' = "running" /\ Heats("looks")
    /\ AsideHeater /\ UNCHANGED <<main, connected>>

HeaterLooks ==
    /\ heater = "looks"
    /\ Heats(IF connected THEN "warms" ELSE "logs in")
    /\ AsideHeater /\ UNCHANGED <<main, connected, preheat>>

\* _connect_with_retry(): one login, and another after a wait when no host answered.
HeaterLogsIn ==
    /\ heater \in {"logs in", "logs in again"}
    /\ \/ connected /\ Heats("warms") /\ UNCHANGED <<main, connected>>
       \/ /\ ~connected /\ Connects(TRUE) /\ connected' = TRUE /\ Heats("warms")
       \/ /\ ~connected /\ Connects(FALSE) /\ UNCHANGED connected
          /\ \/ Heats("fails")
             \/ heater = "logs in" /\ Heats("waits")
    /\ AsideHeater /\ UNCHANGED preheat

\* The wait ends when another thread has logged in.
HeaterWaits ==
    /\ heater = "waits"
    /\ Heats(IF connected THEN "warms" ELSE "logs in again")
    /\ AsideHeater /\ UNCHANGED <<main, connected, preheat>>

\* preheat_service_connections(), and its result.
HeaterEnds ==
    /\ \/ heater = "warms" /\ preheat' \in {"ready", "skipped", "partial", "error"}
       \/ heater = "fails" /\ preheat' = "error"
    /\ Heats("none")
    /\ AsideHeater /\ UNCHANGED <<main, connected>>

Preheat == StartPreheat \/ HeaterLooks \/ HeaterLogsIn \/ HeaterWaits \/ HeaterEnds

-----------------------------------------------------------------------------
(* The connection, and the end                                             *)

MainBreaks ==
    /\ "loss" \in load /\ main = "up" /\ losses < MaxLosses
    /\ main' = "lost" /\ losses' = losses + 1
    /\ request' = [r \in Requests |-> [request[r] EXCEPT !.fresh = FALSE]]
    /\ UNCHANGED <<load, connected, call, preheat, heater, closing>>

\* A service finds the MAIN connection dead and has it opened again.
MainRecovers ==
    /\ main = "lost" /\ \E x \in Threads : call[x] = "acts"
    /\ main' = "up"
    /\ UNCHANGED <<beside, connected, call>>

\* close(): the streams, the collector, the flag, the client, one after the other.
Shuts(from, to) == closing = from /\ closing' = to

CloseFlag ==
    /\ Shuts("flag", "client") /\ connected' = FALSE
    /\ UNCHANGED <<load, main, losses, call, request, preheat, heater>>

RuntimeStep ==
    \/ \E x \in Threads : CallStep(x)
    \/ \E r \in Requests : RequestBegins(r) \/ RequestActs(r) \/ RequestEnds(r)
    \/ ConnectRequested \/ Preheat
    \/ MainBreaks \/ MainRecovers
    \/ CloseFlag

-----------------------------------------------------------------------------
(* Properties                                                              *)

CallPlaces == {"no", "looks", "waits", "acts", "resets", "done", "failed"}

RuntimeTypeOK ==
    /\ load \in Loads /\ main \in {"none", "up", "lost"} /\ losses \in 0 .. MaxLosses
    /\ connected \in BOOLEAN
    /\ call \in [Threads -> CallPlaces]
    /\ request \in [Requests -> [at : {"none", "calls"}, retries : BOOLEAN,
                                 attempt : 1 .. 2, fresh : BOOLEAN]]
    /\ preheat \in {"not_started", "running", "ready", "skipped", "partial", "error"}
    /\ heater \in {"none", "looks", "logs in", "waits", "logs in again", "warms", "fails"}
    /\ closing \in {"no", "streams", "dxjl", "flag", "client", "done"}

\* After an OSError the one retry of a request meets a connection that lives, whoever
\* noticed that the old one was gone and logged in again ("fresh": it did not break
\* once more in between).
SecondChance ==
    \A r \in Requests :
       request[r].attempt = 2 /\ call[r] = "acts" /\ request[r].fresh =>
          main = "up" \/ closing # "no"

-----------------------------------------------------------------------------
(* A part of the inductive invariant of ThsServer_proofs.                  *)

\* Who met a connection that is gone has the flag taken back before it ends, and
\* finds a login due when it looks again.
LoginIsDue ==
    \A r \in Requests :
       request[r].fresh /\ main # "up" /\ closing = "no" =>
          call[r] = "resets" \/ (~connected /\ call[r] # "acts")
=============================================================================
