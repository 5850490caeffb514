------------------------------ MODULE MainLogin ------------------------------
(***************************************************************************)
(* The ordinary login: connect_main(), the rounds of _do_tcp_login_raw()   *)
(* with the hosts that race in _concurrent_login(), and the exchange of    *)
(* the MAIN socket in _finalize_main_login()                               *)
(* (_client/connection_primitives.py).                                     *)
(*                                                                         *)
(* Nothing serialises connect_main(): an application thread, a retry of    *)
(* the facade and the registry's opener may all be in it at once.  A       *)
(* socket that is dropped without a close() stays open until the           *)
(* interpreter collects it.                                                *)
(***************************************************************************)
EXTENDS Naturals, FiniteSets

CONSTANTS
    Callers,   \* threads in connect_main()
    Hosts,     \* candidate servers
    Racing,    \* hosts that race, at most (7)
    CloseLimit,\* closed logins that end a round without the serial part (5)
    MinusLimit,\* answers -1 that end the serial part (5)
    Sockets,   \* sockets; one that is closed and that nothing refers to is a new one
    None       \* no socket

ASSUME NoneAssumption == None \notin Sockets
ASSUME RacingAssumption == Racing \in Nat \ {0} /\ CloseLimit \in Nat /\ MinusLimit \in Nat \ {0}

VARIABLES
    main,      \* _sock
    open,      \* sockets that are open
    ready,     \* sockets on which the init handshake has succeeded
    recent,    \* _last_connect_ts is set
    beating,   \* the heartbeat thread runs
    stray,     \* and so does one that the client has forgotten
    errors,    \* _last_concurrent_login_errors: "closed" when all were closed ones
    pc,        \* pc[c]: where caller c is
    round,     \* round[c]: its first or second round
    work,      \* work[c][h]: where the thread that tries host h is
    wsock,     \* wsock[c][h]: and its socket
    left,      \* left[c]: hosts of the round not tried yet
    minus,     \* minus[c]: answers -1 of the serial part
    mine,      \* mine[c]: the socket it has logged in on
    prior,     \* prior[c]: the MAIN socket it found
    outcome,   \* outcome[c]: the result of its last call
    overlapped \* history: two callers were exchanging the MAIN socket

shared == <<main, open, ready, recent, beating, stray, errors>>
local == <<pc, round, work, wsock, left, minus, mine, prior, outcome>>
vars == <<shared, local, overlapped>>

Places == {"idle", "auth", "race", "after", "serial", "fails", "refresh",
           "halt", "found", "shut", "store", "init", "beat"}
WorkPlaces == {"none", "dial", "sent", "parsed", "won", "closed", "refused"}
Outcomes == {"none", "reused", "success", "http_auth_failed", "all_hosts_failed",
             "login_rejected", "init_failed"}
Exchanging(c) == pc[c] \in {"halt", "found", "shut", "store", "init", "beat"}

Init ==
    /\ main = None /\ open = {} /\ ready = {} /\ recent = FALSE
    /\ beating = FALSE /\ stray = FALSE /\ errors = "other"
    /\ pc = [c \in Callers |-> "idle"] /\ round = [c \in Callers |-> 1]
    /\ work = [c \in Callers |-> [h \in Hosts |-> "none"]]
    /\ wsock = [c \in Callers |-> [h \in Hosts |-> None]]
    /\ left = [c \in Callers |-> {}] /\ minus = [c \in Callers |-> 0]
    /\ mine = [c \in Callers |-> None] /\ prior = [c \in Callers |-> None]
    /\ outcome = [c \in Callers |-> "none"]
    /\ overlapped = FALSE

Goto(c, place) == pc' = [pc EXCEPT ![c] = place]

\* The sockets somebody refers to.
Referred ==
    {main} \cup {mine[c] : c \in Callers} \cup {prior[c] : c \in Callers}
    \cup {wsock[c][h] : c \in Callers, h \in Hosts}
Fresh(s) == s \in Sockets \ (Referred \cup open)

\* The call returns; its frame and what only it referred to is gone.
Returns(c, result) ==
    /\ Goto(c, "idle")
    /\ outcome' = [outcome EXCEPT ![c] = result]
    /\ mine' = [mine EXCEPT ![c] = None] /\ prior' = [prior EXCEPT ![c] = None]
    /\ round' = [round EXCEPT ![c] = 1] /\ minus' = [minus EXCEPT ![c] = 0]
    /\ left' = [left EXCEPT ![c] = {}]
    /\ UNCHANGED <<work, wsock>>

-----------------------------------------------------------------------------
(* connect_main()                                                          *)

\* A connection made recently and still alive is used again: to log in twice in
\* a short time is refused by the servers.  Time may have passed.
Reuse(c) ==
    /\ pc[c] = "idle" /\ recent /\ main \in open
    /\ Returns(c, "reused")
    /\ UNCHANGED shared

Begin(c) ==
    /\ pc[c] = "idle"
    /\ Goto(c, "auth")
    /\ outcome' = [outcome EXCEPT ![c] = "none"]
    /\ UNCHANGED <<shared, round, work, wsock, left, minus, mine, prior>>

AuthFails(c) ==
    /\ pc[c] = "auth"
    /\ Returns(c, "http_auth_failed")
    /\ UNCHANGED shared

\* A round: of the hosts that a test of their speed could reach some start to race,
\* the others are left for later.
Races(c) ==
    /\ pc[c] \in {"auth", "refresh"}
    /\ \E batch \in SUBSET Hosts :
          /\ Cardinality(batch) \in 1..Racing
          /\ work' = [work EXCEPT ![c] = [h \in Hosts |-> IF h \in batch THEN "dial"
                                                          ELSE "none"]]
          /\ left' = [left EXCEPT ![c] = Hosts \ batch]
    /\ round' = [round EXCEPT ![c] = IF pc[c] = "auth" THEN 1 ELSE @ + 1]
    /\ minus' = [minus EXCEPT ![c] = 0]
    /\ Goto(c, "race")
    /\ UNCHANGED <<shared, wsock, mine, prior, outcome>>

-----------------------------------------------------------------------------
(* _concurrent_login(): the thread of one host                             *)

Works(c, h, place, s) ==
    /\ work' = [work EXCEPT ![c][h] = place]
    /\ wsock' = [wsock EXCEPT ![c][h] = s]
    /\ UNCHANGED <<main, ready, recent, beating, stray, errors, pc, round, left, minus,
                   mine, prior, outcome>>

Done(c) == \E h \in Hosts : work[c][h] = "won"

\* It dials and sends, unless another has won by then.
Dials(c, h) ==
    /\ work[c][h] = "dial"
    /\ \/ \E s \in Sockets : /\ Fresh(s) /\ ~Done(c)
                             /\ Works(c, h, "sent", s) /\ open' = open \cup {s}
       \/ Works(c, h, IF Done(c) THEN "none" ELSE "closed", None) /\ UNCHANGED open
       \/ Works(c, h, IF Done(c) THEN "none" ELSE "refused", None) /\ UNCHANGED open

\* The reply arrives, or the server closes, or nothing comes in time, and the socket
\* is left as it is; whoever comes after the winner closes.
Reads(c, h) ==
    /\ work[c][h] = "sent"
    /\ \/ Done(c) /\ Works(c, h, "none", None) /\ open' = open \ {wsock[c][h]}
       \/ ~Done(c) /\ Works(c, h, "parsed", wsock[c][h]) /\ UNCHANGED open
       \/ Works(c, h, "closed", None) /\ open' = open \ {wsock[c][h]}
       \/ Works(c, h, "refused", None) /\ UNCHANGED open

\* Two threads that have looked before either has won both win.
Judges(c, h) ==
    /\ work[c][h] = "parsed"
    /\ \/ Works(c, h, "won", wsock[c][h]) /\ UNCHANGED open
       \/ Works(c, h, "refused", None) /\ open' = open \ {wsock[c][h]}

\* The wait is over, by a winner, by the end of all threads or by the deadline.  One
\* winner is the result.  Nothing closes another, nor what a thread still has that
\* was not waited for: that one closes when it finds that it came too late.
Picks(c) ==
    /\ pc[c] = "race"
    /\ LET winners == {h \in Hosts : work[c][h] = "won"}
           failed == {work[c][h] : h \in Hosts} \cap {"closed", "refused"}
       IN
       IF winners # {}
       THEN /\ \E h \in winners : mine' = [mine EXCEPT ![c] = wsock[c][h]]
            /\ Goto(c, "halt") /\ UNCHANGED errors
       ELSE /\ errors' = IF failed = {"closed"} THEN "closed" ELSE "other"
            /\ Goto(c, "after") /\ UNCHANGED mine
    /\ wsock' = [wsock EXCEPT ![c] = [h \in Hosts |-> None]]
    /\ work' = [work EXCEPT ![c] = [h \in Hosts |-> "none"]]
    /\ UNCHANGED <<main, open, ready, recent, beating, stray, round, left, minus, prior, outcome>>

-----------------------------------------------------------------------------
(* _try_round() after the race, and the second round                       *)

\* A whole batch that was closed is a sign to stop; what the threads met is read
\* from the client, where another login may have left its own.
After(c) ==
    /\ pc[c] = "after"
    /\ Goto(c, IF Cardinality(Hosts \ left[c]) >= CloseLimit /\ errors = "closed"
               THEN "fails" ELSE "serial")
    /\ UNCHANGED <<shared, round, work, wsock, left, minus, mine, prior, outcome>>

\* One host after the other; a -1 too many ends the round.
Serial(c) ==
    /\ pc[c] = "serial" /\ left[c] # {} /\ minus[c] < MinusLimit
    /\ \E h \in left[c] :
          /\ left' = [left EXCEPT ![c] = @ \ {h}]
          /\ \/ \E s \in Sockets : /\ Fresh(s) /\ open' = open \cup {s}
                                   /\ mine' = [mine EXCEPT ![c] = s]
                                   /\ Goto(c, "halt")
                                   /\ UNCHANGED minus
             \/ \E n \in {minus[c], minus[c] + 1} :
                   /\ minus' = [minus EXCEPT ![c] = n]
                   /\ UNCHANGED <<open, mine, pc>>
    /\ UNCHANGED <<main, ready, recent, beating, stray, errors, round, work, wsock, prior, outcome>>

Rejected(c) ==
    /\ pc[c] = "serial" /\ left[c] # {} /\ minus[c] < MinusLimit
    /\ Returns(c, "login_rejected")
    /\ UNCHANGED shared

SerialEnds(c) ==
    /\ pc[c] = "serial" /\ (left[c] = {} \/ minus[c] = MinusLimit)
    /\ Goto(c, "fails")
    /\ UNCHANGED <<shared, round, work, wsock, left, minus, mine, prior, outcome>>

\* After the first round the passport is refreshed, but not if all were closed.
Fails(c) ==
    /\ pc[c] = "fails"
    /\ IF round[c] = 1 /\ errors # "closed"
       THEN Goto(c, "refresh") /\ UNCHANGED <<round, work, wsock, left, minus, mine, prior, outcome>>
       ELSE Returns(c, "all_hosts_failed")
    /\ UNCHANGED shared

RefreshFails(c) ==
    /\ pc[c] = "refresh"
    /\ Returns(c, "all_hosts_failed")
    /\ UNCHANGED shared

-----------------------------------------------------------------------------
(* _finalize_main_login()                                                  *)

Keeps(c) == UNCHANGED <<recent, errors, round, work, wsock, left, minus, mine, outcome>>

\* stop_heartbeat(): the thread is told to end, waited for five seconds and forgotten.
\* It may still be there then, and start_heartbeat() takes the word back.
Stops == beating' = FALSE /\ stray' \in {stray, stray \/ beating}

\* Mutant: the old heartbeat goes on.
Halt_KeepsBeating(c) ==
    /\ pc[c] = "halt" /\ Goto(c, "found")
    /\ UNCHANGED <<main, open, ready, beating, stray, prior>> /\ Keeps(c)

\* The heartbeat of the old connection stops.
Halt(c) ==
    /\ pc[c] = "halt" /\ Goto(c, "found")
    /\ Stops
    /\ UNCHANGED <<main, open, ready, prior>> /\ Keeps(c)

\* The old connection is looked up
Find(c) ==
    /\ pc[c] = "found" /\ Goto(c, "shut")
    /\ prior' = [prior EXCEPT ![c] = main]
    /\ UNCHANGED <<main, open, ready, beating, stray>> /\ Keeps(c)

\* and closed,
Shut(c) ==
    /\ pc[c] = "shut" /\ Goto(c, "store")
    /\ open' = open \ {prior[c]} /\ ready' = ready \ {prior[c]}
    /\ prior' = [prior EXCEPT ![c] = None]
    /\ UNCHANGED <<main, beating, stray>> /\ Keeps(c)

\* and the new one takes its place, and that of one that was stored meanwhile.
Store(c) ==
    /\ pc[c] = "store" /\ Goto(c, "init")
    /\ main' = mine[c]
    /\ UNCHANGED <<open, ready, prior, beating, stray>> /\ Keeps(c)

\* The handshake is made on whatever socket is MAIN by now.
Handshake(c) ==
    /\ pc[c] = "init" /\ main \in open
    /\ Goto(c, "beat")
    /\ ready' = ready \cup {main}
    /\ UNCHANGED <<main, open, beating, stray, prior>> /\ Keeps(c)

\* Mutant: a socket that could not be initialised stays MAIN.
HandshakeFails_Stays(c) ==
    /\ pc[c] = "init"
    /\ recent' = FALSE
    /\ Returns(c, "init_failed")
    /\ UNCHANGED <<main, open, ready, beating, stray, errors>>

\* Its own socket is closed and forgotten.
HandshakeFails(c) ==
    /\ pc[c] = "init"
    /\ open' = open \ {mine[c]} /\ ready' = ready \ {mine[c]}
    /\ main' = IF main = mine[c] THEN None ELSE main
    /\ recent' = FALSE
    /\ Returns(c, "init_failed")
    /\ UNCHANGED <<beating, stray, errors>>

\* Mutant: the time of the login is not taken.
Beat_Timeless(c) ==
    /\ pc[c] = "beat"
    /\ beating' = TRUE
    /\ Returns(c, "success")
    /\ UNCHANGED <<main, open, ready, recent, stray, errors>>

Beat(c) ==
    /\ pc[c] = "beat"
    /\ recent' = TRUE /\ beating' = TRUE
    /\ Returns(c, "success")
    /\ UNCHANGED <<main, open, ready, stray, errors>>

-----------------------------------------------------------------------------
(* The rest of the client and the server                                   *)

\* _drop_connection(), under the request lock,
Drop ==
    /\ main # None
    /\ open' = open \ {main} /\ ready' = ready \ {main}
    /\ main' = None
    /\ UNCHANGED <<recent, beating, stray, errors, local, overlapped>>

\* and after it, whatever happened in between; and disconnect().
StopsBeating ==
    /\ beating /\ Stops
    /\ UNCHANGED <<main, open, ready, recent, errors, local, overlapped>>

\* The forgotten heartbeat sees that it is to end, or fails.
StrayEnds ==
    /\ stray /\ stray' = FALSE
    /\ UNCHANGED <<main, open, ready, recent, beating, errors, local, overlapped>>

\* Or, of a socket that nobody refers to, the interpreter or its last thread.
ServerCloses(s) ==
    /\ s \in open
    /\ open' = open \ {s} /\ ready' = ready \ {s}
    /\ UNCHANGED <<main, recent, beating, stray, errors, local, overlapped>>

\* Threads whose caller waits in the race.
Work(c) == \E h \in Hosts : Dials(c, h) \/ Reads(c, h) \/ Judges(c, h)

\* What a caller does once it has begun.
Goes(c) ==
    \/ AuthFails(c) \/ Races(c) \/ Picks(c) \/ After(c)
    \/ Serial(c) \/ Rejected(c) \/ SerialEnds(c) \/ Fails(c) \/ RefreshFails(c)
    \/ Halt(c) \/ Find(c) \/ Shut(c) \/ Store(c) \/ Handshake(c) \/ HandshakeFails(c)
    \/ Beat(c)

Notes == overlapped' = (overlapped \/ \E c, d \in Callers : c # d /\ Exchanging(c)' /\ Exchanging(d)')

Next ==
    \/ \E c \in Callers : (Reuse(c) \/ Begin(c) \/ Work(c) \/ Goes(c)) /\ Notes
    \/ Drop \/ StopsBeating \/ StrayEnds
    \/ \E s \in Sockets : ServerCloses(s)

Spec == Init /\ [][Next]_vars

-----------------------------------------------------------------------------
(* Properties                                                              *)

TypeOK ==
    /\ main \in Sockets \cup {None} /\ open \subseteq Sockets /\ ready \subseteq open
    /\ recent \in BOOLEAN /\ beating \in BOOLEAN /\ stray \in BOOLEAN
    /\ overlapped \in BOOLEAN
    /\ errors \in {"closed", "other"}
    /\ pc \in [Callers -> Places] /\ round \in [Callers -> 1..2]
    /\ work \in [Callers -> [Hosts -> WorkPlaces]]
    /\ wsock \in [Callers -> [Hosts -> Sockets \cup {None}]]
    /\ left \in [Callers -> SUBSET Hosts] /\ minus \in [Callers -> 0..MinusLimit]
    /\ mine \in [Callers -> Sockets \cup {None}]
    /\ prior \in [Callers -> Sockets \cup {None}]
    /\ outcome \in [Callers -> Outcomes]

\* Whatever logins overlap: once nobody exchanges it, the MAIN socket is one that
\* was initialised, or that the server has closed since.
MainIsUsable ==
    (\A c \in Callers : ~Exchanging(c)) /\ main \in open => main \in ready

\* The heartbeat thread that the client has runs beside no MAIN socket that was not
\* initialised, though connections are dropped and stopped at any time; of logins that
\* do not overlap.  A thread that a stop gave up is another matter: NoBeatBeforeInit.
HeartbeatAfterInit ==
    ~overlapped /\ beating /\ main \in open => main \in ready

\* "先停掉，避免替换 _sock 后抢在 init 之前向新连接发心跳": no heartbeat thread at all is
\* there to send on a new MAIN connection before its handshake.  MC_v_beat.cfg refutes it.
NoBeatBeforeInit ==
    ~overlapped /\ (beating \/ stray) /\ main \in open => main \in ready

\* "用最先成功的，其余关闭": of the hosts that accept a login in a race one keeps its
\* connection and the others are closed.  MC_v_race.cfg refutes it.
RestIsClosed ==
    [][\A c \in Callers, h \in Hosts :
         pc[c] = "race" /\ pc'[c] = "halt" /\ work[c][h] = "won" =>
            wsock[c][h] \notin open' \ {mine'[c]}]_vars

\* A MAIN socket was logged in at a known time, so that ensure_connected() takes a
\* client that has lost it for one that was connected; of logins that do not overlap.
TimeIsKnown == ~overlapped /\ main \in ready /\ (\A c \in Callers : ~Exchanging(c)) => recent

-----------------------------------------------------------------------------
(* The parts of the inductive invariant of MainLogin_proofs.               *)

\* Who refers to a socket is at a place where it uses it, and drops it there.
UsesWhatItHas ==
    \A c \in Callers :
       /\ mine[c] # None => Exchanging(c)
       /\ prior[c] # None => pc[c] = "shut"
       /\ pc[c] = "refresh" => round[c] = 1
       /\ pc[c] # "race" => \A h \in Hosts : work[c][h] = "none"
       /\ \A h \in Hosts : wsock[c][h] # None => work[c][h] \in {"sent", "parsed", "won"}

\* A socket in a race belongs to one thread and was never MAIN.
RacersAreNew ==
    \A c \in Callers, h \in Hosts :
       wsock[c][h] # None =>
          /\ wsock[c][h] # main /\ wsock[c][h] \notin ready
          /\ \A d \in Callers :
                /\ wsock[c][h] # mine[d] /\ wsock[c][h] # prior[d]
                /\ \A k \in Hosts : wsock[d][k] = wsock[c][h] => d = c /\ k = h

\* Who made an open socket MAIN that is not initialised is about to do that.
InitIsDue ==
    main \in open /\ main \notin ready =>
       \E c \in Callers : pc[c] = "init" /\ mine[c] = main

\* A login that exchanges the MAIN socket alone has stopped the heartbeat, and finds
\* its own socket, or none, where it put it.
ExchangesAlone ==
    ~overlapped =>
       /\ \A c, d \in Callers : Exchanging(c) /\ Exchanging(d) => c = d
       /\ \A c \in Callers :
             /\ pc[c] \in {"found", "shut", "store", "init", "beat"} => ~beating
             /\ pc[c] \in {"init", "beat"} => main = mine[c] \/ main = None
=============================================================================
