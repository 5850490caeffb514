--------------------------- MODULE PushSubscriptions ---------------------------
(***************************************************************************)
(* Level-2 subscriptions: registration of a code on the lane's connection  *)
(* (L2SubscriptionCoordinator, services/subscription.py), activation,      *)
(* deactivation and stop_snapshot() of ConnectionRuntime, and the snapshot *)
(* reader thread they start and stop.                                      *)
(*                                                                         *)
(* There are two such lanes, which are alike and share the reader; the     *)
(* module has one.  Callers subscribe, unsubscribe and stop in threads of  *)
(* their own; each attribute they share is read and written in a step of   *)
(* its own, since only the code sets are under _push_lock.  Quotes that    *)
(* are dispatched on the lane (services/quote.py) are left out.            *)
(***************************************************************************)
EXTENDS Naturals

CONSTANTS
    Callers,   \* threads of the application
    Readers,   \* snapshot threads; one that has ended may start as a new one
    Topics,    \* what is subscribed: a kind of delivery and a code
    Sockets,   \* sockets; one that nothing refers to is a new one
    MaxWire,   \* acceptances on their way to the client, at most
    None       \* no thread or socket

ASSUME NoneAssumption == None \notin Callers \cup Readers \cup Sockets
ASSUME DistinctAssumption == Callers \cap Readers = {}
ASSUME TopicsAssumption == Topics # {}
ASSUME WireAssumption == MaxWire \in Nat \ {0}

VARIABLES
    table,     \* _push_sockets of the lane
    conn,      \* the lane's connection in the manager, by its socket
    alive,     \* sockets that are open at both ends
    lane,      \* who holds the lane's request lock
    regLock,   \* regLock[s]: who registers on the connection over s
    known,     \* known[s]: the topics registered on it, for the coordinator
    served,    \* served[s]: the topics the server has accepted on it
    asked,     \* asked[s]: registrations the server has yet to answer
    wire,      \* wire[s]: acceptances on their way to the client
    want,      \* the subscribed codes of the runtime
    stop,      \* snapshot_stop
    thread,    \* snapshot_thread
    rpc,       \* rpc[r]: where reader r is
    rsock,     \* rsock[r]: the socket it works on
    pc,        \* pc[c]: where caller c is
    topic,     \* topic[c]: what it was called for
    sock,      \* sock[c]: the socket it works on
    tries,     \* tries[c]: attempts made to register
    granted,   \* history: subscriptions that succeeded and were not given up
    overlapped \* history: an activation and a stop have overlapped

laneVars == <<table, conn, alive>>
lockVars == <<lane, regLock>>
netVars == <<known, served, asked, wire>>
readerVars == <<stop, thread, rpc, rsock>>
callVars == <<pc, topic, sock, tries>>
vars == <<laneVars, lockVars, netVars, want, readerVars, callVars, granted,
          overlapped>>

Ops == {"subscribe", "unsubscribe", "stop"}
Places == {"idle", "acquire", "register", "send", "await",
           "add", "ensure", "clearStop", "assign", "start",
           "remove", "halt", "join", "close", "clearTable",
           "clearCodes", "closeConn"}
ReaderPlaces == {"none", "new", "top", "select", "read"}
Running(r) == rpc[r] \notin {"none", "new"}

Init ==
    /\ table = None /\ conn = None /\ alive = {}
    /\ lane = None /\ regLock = [s \in Sockets |-> None]
    /\ known = [s \in Sockets |-> {}] /\ served = [s \in Sockets |-> {}]
    /\ asked = [s \in Sockets |-> {}] /\ wire = [s \in Sockets |-> 0]
    /\ want = {} /\ granted = {} /\ overlapped = FALSE
    /\ stop = FALSE /\ thread = None
    /\ rpc = [r \in Readers |-> "none"] /\ rsock = [r \in Readers |-> None]
    /\ pc = [c \in Callers |-> "idle"]
    /\ topic \in [Callers -> {CHOOSE t \in Topics : TRUE}]
    /\ sock = [c \in Callers |-> None]
    /\ tries = [c \in Callers |-> 0]

Goto(c, place) == pc' = [pc EXCEPT ![c] = place]
Hold(c, s) == sock' = [sock EXCEPT ![c] = s]
Alive(s) == s \in alive

\* A socket is no longer open: what was on its way is lost.
Dies(s) ==
    /\ alive' = alive \ {s}
    /\ served' = [served EXCEPT ![s] = {}]
    /\ asked' = [asked EXCEPT ![s] = {}]
    /\ wire' = [wire EXCEPT ![s] = 0]
    /\ UNCHANGED known

-----------------------------------------------------------------------------
(* A call begins and ends                                                  *)

FirstPlace(o) == CASE o = "subscribe" -> "acquire"
                   [] o = "unsubscribe" -> "remove"
                   [] OTHER -> "halt"

Begin(c) ==
    /\ pc[c] = "idle"
    /\ \E o \in Ops, t \in Topics :
          /\ topic' = [topic EXCEPT ![c] = t]
          /\ Goto(c, FirstPlace(o))
          /\ granted' = CASE o = "subscribe" -> granted
                          [] o = "unsubscribe" -> granted \ {t}
                          [] OTHER -> {}
    /\ UNCHANGED <<laneVars, lockVars, netVars, want, readerVars, sock, tries>>

\* The call is over; what it does not need again is forgotten.
Ends(c) ==
    /\ Goto(c, "idle") /\ Hold(c, None)
    /\ tries' = [tries EXCEPT ![c] = 0]
    /\ UNCHANGED topic

-----------------------------------------------------------------------------
(* The lane's connection: ConnectionManager.acquire, ConnectionFactory.open *)

InUse(s) ==
    \/ s \in {table, conn} \cup alive
    \/ \E c \in Callers : sock[c] = s
    \/ \E r \in Readers : rsock[r] = s

\* Nobody but another acquirer, whom the manager's lock keeps out, fills the table:
\* to acquire is one step.  A live connection is used; else the opener takes the
\* lane's socket when it is alive, or dials.
Acquired(c, s) ==
    /\ pc[c] = "acquire"
    /\ IF conn # None /\ Alive(conn)
       THEN s = conn /\ UNCHANGED <<laneVars, served, asked, wire>>
       ELSE /\ conn' = s /\ table' = s
            /\ IF table # None /\ Alive(table)
               THEN s = table /\ UNCHANGED <<alive, served, asked, wire>>
               ELSE /\ ~InUse(s)
                    /\ alive' = alive \cup {s}
                    /\ served' = [served EXCEPT ![s] = {}]
                    /\ asked' = [asked EXCEPT ![s] = {}]
                    /\ wire' = [wire EXCEPT ![s] = 0]
    /\ Hold(c, s) /\ Goto(c, "register")
    /\ UNCHANGED <<lockVars, want, readerVars, topic, tries, granted>>

\* Mutant: a new connection remembers the registrations of the one before.
Acquire_KeepsKnown(c) ==
    \E s \in Sockets :
       /\ Acquired(c, s)
       /\ known' = [known EXCEPT ![s] = UNION {known[o] : o \in Sockets}]

\* A new connection knows no registrations.
Acquire(c) ==
    \E s \in Sockets :
       /\ Acquired(c, s)
       /\ known' = IF conn' = conn THEN known ELSE [known EXCEPT ![s] = {}]

\* Authentication, the dial or the login fails.
AcquireFails(c) ==
    /\ pc[c] = "acquire"
    /\ conn = None \/ ~Alive(conn)
    /\ table = None \/ ~Alive(table)
    /\ table' = None /\ conn' = None
    /\ Ends(c)
    /\ UNCHANGED <<alive, lockVars, netVars, want, readerVars, granted>>

-----------------------------------------------------------------------------
(* ensure_registered()                                                     *)

Register(c) ==
    /\ pc[c] = "register" /\ regLock[sock[c]] = None
    /\ IF topic[c] \in known[sock[c]]
       THEN Goto(c, "add") /\ UNCHANGED regLock
       ELSE Goto(c, "send") /\ regLock' = [regLock EXCEPT ![sock[c]] = c]
    /\ UNCHANGED <<laneVars, lane, netVars, want, readerVars, topic,
                   sock, tries, granted>>

Send(c) ==
    /\ pc[c] = "send" /\ lane = None
    /\ Alive(sock[c]) /\ conn = sock[c]
    /\ lane' = c
    /\ asked' = [asked EXCEPT ![sock[c]] = @ \cup {topic[c]}]
    /\ tries' = [tries EXCEPT ![c] = @ + 1]
    /\ Goto(c, "await")
    /\ UNCHANGED <<laneVars, regLock, known, served, wire, want, readerVars,
                   topic, sock, granted>>

\* An attempt, the n-th, is over without an acceptance: there are two.
AttemptEnds(c, n) ==
    /\ lane' = IF lane = c THEN None ELSE lane
    /\ IF n < 2
       THEN /\ Goto(c, "send")
            /\ tries' = [tries EXCEPT ![c] = n]
            /\ UNCHANGED <<regLock, topic, sock>>
       ELSE /\ regLock' = [regLock EXCEPT ![sock[c]] = None]
            /\ Ends(c)

\* The lock is not got in time, the connection was let go, or writing fails.
SendFails(c) ==
    /\ pc[c] = "send"
    /\ AttemptEnds(c, tries[c] + 1)
    /\ UNCHANGED <<laneVars, netVars, want, readerVars, granted>>

\* Any reply with a CodeListSize above zero counts as the acceptance.
Await(c) ==
    /\ pc[c] = "await" /\ wire[sock[c]] > 0
    /\ wire' = [wire EXCEPT ![sock[c]] = @ - 1]
    /\ known' = [known EXCEPT ![sock[c]] = @ \cup {topic[c]}]
    /\ lane' = None /\ regLock' = [regLock EXCEPT ![sock[c]] = None]
    /\ Goto(c, "add")
    /\ UNCHANGED <<laneVars, served, asked, want, readerVars, topic, sock, tries,
                   granted>>

\* The deadline passes, the server refuses by two empty replies, or the read fails.
AwaitFails(c) ==
    /\ pc[c] = "await"
    /\ AttemptEnds(c, tries[c])
    /\ UNCHANGED <<laneVars, netVars, want, readerVars, granted>>

-----------------------------------------------------------------------------
(* activate_*() and _ensure_snapshot_reader()                              *)

Add(c) ==
    /\ pc[c] = "add"
    /\ want' = want \cup {topic[c]}
    /\ Goto(c, "ensure") /\ Hold(c, None)
    /\ UNCHANGED <<laneVars, lockVars, netVars, readerVars, topic, tries, granted>>

Grants(c) == granted' = granted \cup {topic[c]}

Ensure(c) ==
    /\ pc[c] = "ensure"
    /\ IF thread \in {r \in Readers : Running(r)}
       THEN Ends(c) /\ Grants(c)
       ELSE Goto(c, "clearStop") /\ UNCHANGED <<topic, sock, tries, granted>>
    /\ UNCHANGED <<laneVars, lockVars, netVars, want, readerVars>>

\* Mutant: the flag of the last stop is not taken back.
ClearStop_KeepsFlag(c) ==
    /\ pc[c] = "clearStop"
    /\ Goto(c, "assign")
    /\ UNCHANGED <<laneVars, lockVars, netVars, want, readerVars, topic, sock,
                   tries, granted>>

ClearStop(c) ==
    /\ pc[c] = "clearStop"
    /\ stop' = FALSE
    /\ Goto(c, "assign")
    /\ UNCHANGED <<laneVars, lockVars, netVars, want, thread, rpc, rsock,
                   topic, sock, tries, granted>>

\* A thread object that nobody started and nobody refers to is a new one.
Assign(c) ==
    /\ pc[c] = "assign"
    /\ \E r \in Readers :
       /\ rpc[r] = "none" /\ r # thread
       /\ thread' = r
       /\ rpc' = [n \in Readers |-> IF n = r THEN "new"
                                    ELSE IF rpc[n] = "new" THEN "none" ELSE rpc[n]]
    /\ Goto(c, "start")
    /\ UNCHANGED <<laneVars, lockVars, netVars, want, stop, rsock, topic,
                   sock, tries, granted>>

\* start() is called on whatever snapshot_thread is by now; it raises if that
\* is None or was started before.
Start(c) ==
    /\ pc[c] = "start"
    /\ Ends(c)
    /\ IF thread # None /\ rpc[thread] = "new"
       THEN rpc' = [rpc EXCEPT ![thread] = "top"] /\ Grants(c)
       ELSE UNCHANGED <<rpc, granted>>
    /\ UNCHANGED <<laneVars, lockVars, netVars, want, stop, thread, rsock>>

-----------------------------------------------------------------------------
(* deactivate_*() and stop_snapshot()                                      *)

\* The decision to stop is made under the lock and carried out after it.
Remove(c) ==
    /\ pc[c] = "remove"
    /\ want' = want \ {topic[c]}
    /\ IF want' = {}
       THEN Goto(c, "halt") /\ UNCHANGED <<topic, sock, tries>>
       ELSE Ends(c)
    /\ UNCHANGED <<laneVars, lockVars, netVars, readerVars, granted>>

Step(c, from, to) ==
    /\ pc[c] = from /\ Goto(c, to)
    /\ UNCHANGED <<topic, tries, granted>>

Halt(c) ==
    /\ Step(c, "halt", "join")
    /\ stop' = TRUE
    /\ UNCHANGED <<laneVars, netVars, lockVars, want, thread, rpc, rsock, sock>>

\* The join ends with the reader, after three seconds, or at once when the
\* reader's own callback is the caller; it looks at snapshot_thread anew.
Join(c) ==
    /\ Step(c, "join", "close")
    /\ thread' = None
    /\ rpc' = [r \in Readers |-> IF rpc[r] = "new" THEN "none" ELSE rpc[r]]
    /\ Hold(c, table)
    /\ UNCHANGED <<laneVars, netVars, lockVars, want, stop, rsock>>

\* Mutant: the socket is closed without its request lock.
CloseSocket_Unlocked(c) ==
    /\ Step(c, "close", "clearTable")
    /\ IF sock[c] # None THEN Dies(sock[c]) ELSE UNCHANGED <<alive, netVars>>
    /\ Hold(c, None)
    /\ UNCHANGED <<table, conn, lockVars, want, readerVars>>

CloseSocket(c) ==
    /\ Step(c, "close", "clearTable")
    /\ sock[c] = None \/ lane = None
    /\ IF sock[c] # None THEN Dies(sock[c]) ELSE UNCHANGED <<alive, netVars>>
    /\ Hold(c, None)
    /\ UNCHANGED <<table, conn, lockVars, want, readerVars>>

ClearTable(c) ==
    /\ Step(c, "clearTable", "clearCodes")
    /\ table' = None
    /\ UNCHANGED <<conn, alive, netVars, lockVars, want, readerVars, sock>>

ClearCodes(c) ==
    /\ Step(c, "clearCodes", "closeConn")
    /\ want' = {}
    /\ UNCHANGED <<laneVars, netVars, lockVars, readerVars, sock>>

\* The manager's connection goes too; its socket is the table's, not its own.
CloseConn(c) ==
    /\ pc[c] = "closeConn"
    /\ conn' = None
    /\ Ends(c)
    /\ UNCHANGED <<table, alive, lockVars, netVars, want, readerVars, granted>>

-----------------------------------------------------------------------------
(* snapshot_loop()                                                         *)

RGoto(r, place) == rpc' = [rpc EXCEPT ![r] = place]
RHold(r, s) == rsock' = [rsock EXCEPT ![r] = s]
RKeeps == UNCHANGED <<table, conn, alive, regLock, known, served, asked,
                      want, callVars, granted, stop, thread>>

ReaderTop(r) ==
    /\ rpc[r] = "top"
    /\ IF stop
       THEN RGoto(r, "none") /\ RHold(r, None)
       ELSE /\ table # None
            /\ RGoto(r, "select") /\ RHold(r, table)
    /\ RKeeps /\ UNCHANGED <<lane, wire>>

\* Nothing arrives within a second; else, under the request lock, the reader makes
\* sure that the socket is still the lane's.
ReaderSelects(r) ==
    /\ rpc[r] = "select"
    /\ \/ /\ lane = None /\ table = rsock[r]
          /\ RGoto(r, "read") /\ lane' = r /\ UNCHANGED rsock
       \/ RGoto(r, "top") /\ RHold(r, None) /\ UNCHANGED lane
    /\ RKeeps /\ UNCHANGED wire

\* A frame, delivered without the lock, or a timeout or an error.  An acceptance
\* that nobody waits for any more is such a frame.
ReaderReads(r) ==
    /\ rpc[r] = "read"
    /\ lane' = None
    /\ \/ /\ wire[rsock[r]] > 0
          /\ wire' = [wire EXCEPT ![rsock[r]] = @ - 1]
       \/ UNCHANGED wire
    /\ RGoto(r, "top") /\ RHold(r, None)
    /\ RKeeps

Reader(r) ==
    \/ ReaderTop(r) \/ ReaderSelects(r) \/ ReaderReads(r)

-----------------------------------------------------------------------------
(* The server, the network and the heartbeat                               *)

\* It accepts a registration at its own time, or never answers; its other frames
\* change nothing here.
Answers(s) ==
    /\ s \in alive /\ wire[s] < MaxWire
    /\ \E t \in asked[s] :
          /\ asked' = [asked EXCEPT ![s] = @ \ {t}]
          /\ served' = [served EXCEPT ![s] = @ \cup {t}]
    /\ wire' = [wire EXCEPT ![s] = @ + 1]
    /\ UNCHANGED <<laneVars, lockVars, known, want, readerVars, callVars, granted>>

Drops(s) ==
    /\ s \in alive /\ Dies(s)
    /\ UNCHANGED <<table, conn, lockVars, want, readerVars, callVars, granted>>

\* The heartbeat finds the lane's socket dead: it leaves the table, and the
\* connection the manager.
Bury ==
    /\ table # None /\ ~Alive(table) /\ lane = None
    /\ table' = None /\ conn' = None
    /\ UNCHANGED <<alive, lockVars, netVars, want, readerVars, callVars, granted>>

Call(c) ==
    \/ Acquire(c) \/ AcquireFails(c) \/ Register(c)
    \/ Send(c) \/ SendFails(c) \/ Await(c) \/ AwaitFails(c)
    \/ Add(c) \/ Ensure(c) \/ ClearStop(c) \/ Assign(c) \/ Start(c)
    \/ Remove(c) \/ Halt(c) \/ Join(c) \/ CloseSocket(c) \/ ClearTable(c)
    \/ ClearCodes(c) \/ CloseConn(c)

Activating(c) == pc[c] \in {"ensure", "clearStop", "assign", "start"}
Stopping(c) == pc[c] \in {"halt", "join", "close", "clearTable", "clearCodes"}
Notes == overlapped' = (overlapped \/ \E c, d \in Callers : Activating(c)' /\ Stopping(d)')

Next ==
    \/ \E c \in Callers : (Begin(c) \/ Call(c)) /\ Notes
    \/ \E r \in Readers : Reader(r) /\ UNCHANGED overlapped
    \/ \E s \in Sockets : (Answers(s) \/ Drops(s)) /\ UNCHANGED overlapped
    \/ Bury /\ UNCHANGED overlapped

Spec == Init /\ [][Next]_vars

-----------------------------------------------------------------------------
(* Properties                                                              *)

TypeOK ==
    /\ {table, conn} \subseteq Sockets \cup {None} /\ alive \subseteq Sockets
    /\ lane \in Callers \cup Readers \cup {None}
    /\ regLock \in [Sockets -> Callers \cup {None}]
    /\ known \in [Sockets -> SUBSET Topics] /\ served \in [Sockets -> SUBSET Topics]
    /\ asked \in [Sockets -> SUBSET Topics]
    /\ wire \in [Sockets -> 0..MaxWire]
    /\ want \subseteq Topics /\ granted \subseteq Topics
    /\ stop \in BOOLEAN /\ thread \in Readers \cup {None}
    /\ rpc \in [Readers -> ReaderPlaces] /\ rsock \in [Readers -> Sockets \cup {None}]
    /\ pc \in [Callers -> Places]
    /\ topic \in [Callers -> Topics] /\ sock \in [Callers -> Sockets \cup {None}]
    /\ tries \in [Callers -> 0..2]

\* As long as no activation overlaps a stop: what is subscribed has a reader that
\* goes on, or a thread is about to start one, or one is about to take every
\* subscription back; whatever activations, drops and burials overlap.
WantedIsServed ==
    want # {} /\ ~overlapped =>
       \/ ~stop /\ \E r \in Readers : Running(r)
       \/ \E c \in Callers : Activating(c) \/ Stopping(c)

\* A registration is remembered for the connection it was made on and no longer:
\* a connection that knows one is over a socket on which the server accepted one.
KnownIsLocal == \A s \in alive : known[s] # {} => served[s] # {}

\* stop_snapshot() closes no socket on which a thread works with the lane's request
\* lock held: a snapshot reader in its read, or a caller that registers, though both
\* took the socket from where the stop takes it.  It says nothing of a dispatched quote
\* (services/quote.py), whose reader holds no lock: that one is not in the module, and
\* stop_snapshot() closes its socket.
NoCloseUnderLock ==
    [][\A c \in Callers :
         pc[c] = "close" /\ pc'[c] # "close" /\ sock[c] # None =>
            /\ \A r \in Readers : rpc[r] = "read" => rsock[r] # sock[c]
            /\ \A d \in Callers \ {c} : pc[d] = "await" => sock[d] # sock[c]]_vars

\* deactivate_depth(): "close L2 readers when no consumer remains".  A
\* subscription that succeeded lasts until it is given up.
GrantedLasts == granted \subseteq want

-----------------------------------------------------------------------------
(* The parts of the inductive invariant of PushSubscriptions_proofs.       *)

\* There are two attempts.
TriesCounted ==
    \A c \in Callers :
       /\ pc[c] \in {"idle", "acquire", "register"} => tries[c] = 0
       /\ pc[c] = "send" => tries[c] \in 0..1

\* Who waits for a reply, or reads, has the lane to itself, and a socket.
LaneIsHeld ==
    /\ \A c \in Callers : pc[c] = "await" => lane = c
    /\ \A r \in Readers :
          /\ rpc[r] = "read" => lane = r
          /\ rpc[r] \in {"select", "read"} => rsock[r] # None

\* An acceptance on its way is of a registration that the server took.
AcceptedIsServed == \A s \in Sockets : wire[s] > 0 => served[s] # {}

\* Activations and stops that never overlapped: a stop takes the reader it has told
\* to end out of the client before it is over, an activation that has taken the flag
\* back finds it so, and has a thread object to start that nobody took away.
StopsAreClean ==
    ~overlapped =>
       /\ \A c, d \in Callers : ~(Activating(c) /\ Stopping(d))
       /\ \A c \in Callers : pc[c] \in {"assign", "start"} => ~stop
       /\ \A c \in Callers : pc[c] = "start" => thread # None
       /\ thread # None /\ stop => \E d \in Callers : pc[d] = "join"
       /\ thread # None /\ rpc[thread] = "none" => stop
=============================================================================
