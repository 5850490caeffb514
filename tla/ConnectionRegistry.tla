------------------------- MODULE ConnectionRegistry -------------------------
(***************************************************************************)
(* The registry of role connections: ConnectionManager                     *)
(* (_transport/connection_manager.py), the ConnectionFactory that opens    *)
(* its sockets (_client/connection_runtime.py), and the threads of         *)
(* THSClient that add, replace and remove connections beside it: the       *)
(* heartbeat, the preheat workers, the retry path and the synchronisation  *)
(* with the sockets the client holds itself.                               *)
(*                                                                         *)
(* A role's socket is kept by the client and reused whatever its state     *)
(* (MAIN, REALORDER, BOARD, BOARD_STATS), kept and checked before use      *)
(* (SH_L2, SZ_L2), or owned by its connection (KLINE_FAST, BSE_MAIN, the   *)
(* board constituents).  A block under a lock that waits for nothing is    *)
(* one action.  Objects nothing refers to are used again.                  *)
(***************************************************************************)
CONSTANTS
    Threads,    \* application, heartbeat and preheat threads
    Roles,
    Kept,       \* roles whose socket the client keeps
    Checked,    \* roles whose kept socket is probed before it is used
    Gated,      \* roles a profile may forbid
    Socks,      \* socket objects
    Conns,      \* ManagedConnection objects
    Ops,        \* the operations threads make: a subset of AllOps
    None

AllOps == {"acquire", "close", "drop", "update", "preheat", "heartbeat", "sync",
           "disconnect"}

ASSUME RolesAssumption ==
    /\ Kept \subseteq Roles /\ Checked \subseteq Roles \ Kept
    /\ Gated \subseteq Roles
    /\ Ops \subseteq AllOps
ASSUME NoneAssumption ==
    /\ None \notin Threads \cup Roles \cup Socks \cup Conns
    /\ Roles \cap Conns = {}

Owned == Roles \ (Kept \cup Checked)

VARIABLES
    profile,    \* roles the account profile allows
    table,      \* table[r]: the registered connection of role r
    over,       \* over[c]: the socket connection c wraps, None when closed
    serves,     \* serves[c]: the role connection c was made for
    facade,     \* facade[r]: the socket the client keeps for role r
    life,       \* life[k]: "up", "eof" (the peer left) or "closed"
    manager,    \* the thread that holds ConnectionManager._lock
    lane,       \* lane[l]: the thread that holds request lock l
    pc, op,     \* pc[t], op[t]: where thread t is in which operation
    role,       \* role[t]: the role it is about
    mine,       \* mine[t]: the connection it probes or uses
    hand,       \* hand[t]: the socket it has opened or read
    made,       \* made[t]: the socket in hand is the one it opened
    retiring    \* retiring[t]: removed connections it has still to close

registry == <<profile, table, over, serves>>
sockets == <<facade, life>>
locks == <<manager, lane>>
hands == <<mine, hand, made, retiring>>
vars == <<registry, sockets, locks, pc, op, role, hands>>

Init ==
    /\ profile = Roles
    /\ table = [r \in Roles |-> None]
    /\ over = [c \in Conns |-> None]
    /\ serves = [c \in Conns |-> None]
    /\ facade = [r \in Roles |-> None]
    /\ life = [k \in Socks |-> "closed"]
    /\ manager = None
    /\ lane = [l \in Roles \cup Conns |-> None]
    /\ pc = [t \in Threads |-> "idle"]
    /\ op = [t \in Threads |-> None]
    /\ role = [t \in Threads |-> None]
    /\ mine = [t \in Threads |-> None]
    /\ hand = [t \in Threads |-> None]
    /\ made = [t \in Threads |-> FALSE]
    /\ retiring = [t \in Threads |-> {}]

Registered(c) == \E r \in Roles : table[r] = c
Active(r) == table[r] # None /\ over[table[r]] # None
Alive(k) == life[k] = "up"
Goto(t, place) == pc' = [pc EXCEPT ![t] = place]
Holds(t, k) == hand' = [hand EXCEPT ![t] = k]
Dies(k) == life' = [life EXCEPT ![k] = "closed"]

\* A borrowed socket's request lock belongs to the client, an owned one's to
\* the connection.  Request locks are re-entrant.
LaneOf(c) == IF serves[c] \in Owned THEN c ELSE serves[c]
CanLock(t, l) == lane[l] \in {None, t}

\* Objects nothing refers to: a new object may be any of them.
SpareConns ==
    {c \in Conns : /\ over[c] = None /\ ~Registered(c)
                   /\ \A t \in Threads : mine[t] # c /\ c \notin retiring[t]}
SpareSocks ==
    {k \in Socks : /\ life[k] = "closed"
                   /\ \A r \in Roles : facade[r] # k
                   /\ \A c \in Conns : over[c] # k
                   /\ \A t \in Threads : hand[t] # k}

-----------------------------------------------------------------------------

RolesOf(o) ==
    CASE o \in {"drop", "disconnect"} -> Kept
      [] o = "update" -> Gated
      [] o = "preheat" -> Roles \ Kept
      [] o = "heartbeat" -> Checked
      [] o = "sync" -> Kept \cup Checked
      [] OTHER -> Roles

FirstPlace(o) ==
    CASE o = "acquire" -> "enter"
      [] o = "close" -> "pop"
      [] o = "drop" -> "drop"
      [] o = "update" -> "update"
      [] o = "preheat" -> "peek"
      [] o = "heartbeat" -> "look"
      [] o = "sync" -> "read"
      [] o = "disconnect" -> "closeAll"

Begin(t) ==
    /\ pc[t] = "idle"
    /\ \E o \in Ops : \E r \in RolesOf(o) :
          /\ op' = [op EXCEPT ![t] = o]
          /\ role' = [role EXCEPT ![t] = r]
          /\ Goto(t, FirstPlace(o))
    /\ UNCHANGED <<registry, sockets, locks, hands>>

\* A thread that is done forgets what it had in hand.
Done(t) ==
    /\ Goto(t, "idle")
    /\ op' = [op EXCEPT ![t] = None]
    /\ role' = [role EXCEPT ![t] = None]
    /\ mine' = [mine EXCEPT ![t] = None]
    /\ hand' = [hand EXCEPT ![t] = None]
    /\ made' = [made EXCEPT ![t] = FALSE]
    /\ UNCHANGED retiring

\* The server ends a connection.
ServerLeaves(k) ==
    /\ life[k] = "up"
    /\ life' = [life EXCEPT ![k] = "eof"]
    /\ UNCHANGED <<registry, facade, locks, pc, op, role, hands>>

-----------------------------------------------------------------------------
(* ConnectionManager.acquire(): the manager's lock is held from Enter to   *)
(* Wrap, over the probe of the current connection and the opening.         *)

Enter(t) ==
    /\ pc[t] = "enter" /\ manager = None
    /\ \/ /\ role[t] \notin profile
          /\ Done(t)
          /\ manager' = manager
       \/ /\ role[t] \in profile
          /\ manager' = t
          /\ IF Active(role[t])
             THEN /\ mine' = [mine EXCEPT ![t] = table[role[t]]]
                  /\ Goto(t, "probe")
             ELSE /\ mine' = mine
                  /\ Goto(t, "open")
          /\ UNCHANGED <<op, role, hand, made, retiring>>
    /\ UNCHANGED <<registry, sockets, lane>>

\* is_alive waits for the request lock; a dead connection is removed.
Probe(t) ==
    /\ pc[t] = "probe" /\ CanLock(t, LaneOf(mine[t]))
    /\ IF over[mine[t]] = None \/ Alive(over[mine[t]])
       THEN /\ manager' = None
            /\ Goto(t, "returned")
            /\ UNCHANGED <<table, mine, retiring>>
       ELSE /\ table' = [table EXCEPT ![role[t]] = None]
            /\ retiring' = [retiring EXCEPT ![t] = @ \cup {mine[t]}]
            /\ mine' = [mine EXCEPT ![t] = None]
            /\ manager' = manager
            /\ Goto(t, "open")
    /\ UNCHANGED <<profile, over, serves, sockets, lane, op, role, hand, made>>

\* A kept socket is taken as it is; without one the client logs in.
OpenKept(t) ==
    /\ pc[t] = "open" /\ role[t] \in Kept
    /\ \/ /\ facade[role[t]] # None
          /\ Holds(t, facade[role[t]]) /\ Goto(t, "wrap")
          /\ UNCHANGED sockets
       \/ /\ facade[role[t]] = None
          /\ \E k \in SpareSocks :
                /\ life' = [life EXCEPT ![k] = "up"]
                /\ facade' = [facade EXCEPT ![role[t]] = k]
                /\ Holds(t, k)
          /\ Goto(t, "wrap")
       \/ /\ facade[role[t]] = None
          /\ Goto(t, "failed") /\ hand' = hand
          /\ UNCHANGED sockets
    /\ UNCHANGED <<registry, locks, op, role, mine, made, retiring>>

\* A checked socket is taken when it is alive and discarded when it is not.
OpenChecked(t) ==
    /\ pc[t] = "open" /\ role[t] \in Checked
    /\ Holds(t, facade[role[t]])
    /\ Goto(t, IF facade[role[t]] = None THEN "dial"
               ELSE IF Alive(facade[role[t]]) THEN "wrap" ELSE "discard")
    /\ UNCHANGED <<registry, sockets, locks, op, role, mine, made, retiring>>

\* The client forgets a socket it keeps, if that is still the one in hand.
Forgets(t) ==
    /\ facade' = [facade EXCEPT ![role[t]] = IF @ = hand[t] THEN None ELSE @]
    /\ Dies(hand[t])

Discard(t) ==
    /\ pc[t] = "discard"
    /\ Forgets(t)
    /\ Holds(t, None)
    /\ Goto(t, "dial")
    /\ UNCHANGED <<registry, locks, op, role, mine, made, retiring>>

\* Connect and log in, in acquire() or in a preheat worker.
Dial(t) ==
    /\ pc[t] = "dial" \/ (pc[t] = "open" /\ role[t] \in Owned)
    /\ \E k \in SpareSocks :
          /\ life' = [life EXCEPT ![k] = "up"]
          /\ Holds(t, k)
    /\ made' = [made EXCEPT ![t] = TRUE]
    /\ Goto(t, IF role[t] \in Checked THEN "offer"
               ELSE IF op[t] = "preheat" THEN "adopt" ELSE "wrap")
    /\ UNCHANGED <<registry, facade, locks, op, role, mine, retiring>>

DialFails(t) ==
    /\ pc[t] = "dial" \/ (pc[t] = "open" /\ role[t] \in Owned)
    /\ IF op[t] = "preheat"
       THEN Done(t)
       ELSE Goto(t, "failed") /\ UNCHANGED <<op, role, hands>>
    /\ UNCHANGED <<registry, sockets, locks>>

\* Another thread may have put a socket there: then this one is closed.
Offer(t) ==
    /\ pc[t] = "offer"
    /\ IF facade[role[t]] = None
       THEN /\ facade' = [facade EXCEPT ![role[t]] = hand[t]]
            /\ UNCHANGED <<life, hand, made>>
       ELSE /\ Dies(hand[t])
            /\ Holds(t, facade[role[t]])
            /\ made' = [made EXCEPT ![t] = FALSE]
            /\ facade' = facade
    /\ Goto(t, IF op[t] = "preheat" THEN "adopt" ELSE "wrap")
    /\ UNCHANGED <<registry, locks, op, role, mine, retiring>>

Register(r, c, k) ==
    /\ table' = [table EXCEPT ![r] = c]
    /\ over' = [over EXCEPT ![c] = k]
    /\ serves' = [serves EXCEPT ![c] = r]
    /\ profile' = profile

Wrap(t) ==
    /\ pc[t] = "wrap"
    /\ \E c \in SpareConns :
          /\ Register(role[t], c, hand[t])
          /\ mine' = [mine EXCEPT ![t] = c]
    /\ manager' = None
    /\ Holds(t, None)
    /\ Goto(t, "retire")
    /\ UNCHANGED <<sockets, lane, op, role, made, retiring>>

\* What the caller of acquire() does with the connection: one request.
UseStarts(t) ==
    /\ pc[t] = "returned" /\ lane[LaneOf(mine[t])] = None
    /\ IF over[mine[t]] = None
       THEN Done(t) /\ lane' = lane
       ELSE /\ lane' = [lane EXCEPT ![LaneOf(mine[t])] = t]
            /\ Goto(t, "using")
            /\ UNCHANGED <<op, role, hands>>
    /\ UNCHANGED <<registry, sockets, manager>>

UseEnds(t) ==
    /\ pc[t] = "using"
    /\ lane' = [lane EXCEPT ![LaneOf(mine[t])] = None]
    /\ Done(t)
    /\ UNCHANGED <<registry, sockets, manager>>

-----------------------------------------------------------------------------
(* Removing and closing                                                    *)

\* ManagedConnection.close(): under its request lock the connection lets its
\* socket go, and closes it when it owns it.
Closes(t, c) ==
    /\ CanLock(t, LaneOf(c))
    /\ over' = [over EXCEPT ![c] = None]
    /\ life' = IF serves[c] \in Owned
               THEN [life EXCEPT ![over[c]] = "closed"] ELSE life

\* Mutant: a role without a connection is closed as if it had one.
Pop_Unchecked(t) ==
    /\ pc[t] = "pop" /\ manager = None
    /\ table' = [table EXCEPT ![role[t]] = None]
    /\ retiring' = [retiring EXCEPT ![t] = {table[role[t]]}]
    /\ Goto(t, "retire")
    /\ UNCHANGED <<profile, over, serves, sockets, locks, op, role, mine, hand,
                   made>>

\* Mutant: the connection is closed before it leaves the table.
Pop_ClosesFirst(t) ==
    /\ pc[t] = "pop" /\ manager = None
    /\ IF Active(role[t])
       THEN Closes(t, table[role[t]]) /\ UNCHANGED <<table, pc, retiring>>
       ELSE /\ table' = [table EXCEPT ![role[t]] = None]
            /\ Goto(t, "retire")
            /\ UNCHANGED <<over, life, retiring>>
    /\ UNCHANGED <<profile, serves, facade, locks, op, role, mine, hand, made>>

\* ConnectionManager.close(): out of the table first ...
Pop(t) ==
    /\ pc[t] = "pop" /\ manager = None
    /\ table' = [table EXCEPT ![role[t]] = None]
    /\ retiring' = [retiring EXCEPT ![t] = {table[role[t]]} \ {None}]
    /\ Goto(t, "retire")
    /\ UNCHANGED <<profile, over, serves, sockets, locks, op, role, mine, hand,
                   made>>

\* ... and then closed, outside the manager's lock; only an opener that failed
\* ("failed") closes the stale connection under it.
Retire(t) ==
    /\ pc[t] \in {"retire", "failed"}
    /\ \E c \in retiring[t] :
          /\ Closes(t, c)
          /\ retiring' = [retiring EXCEPT ![t] = @ \ {c}]
    /\ UNCHANGED <<profile, table, serves, facade, locks, pc, op, role, mine,
                   hand, made>>

RetireEnds(t) ==
    /\ pc[t] \in {"retire", "failed"} /\ retiring[t] = {}
    /\ manager' = IF pc[t] = "failed" THEN None ELSE manager
    /\ lane' = IF op[t] = "drop" THEN [lane EXCEPT ![role[t]] = None] ELSE lane
    /\ IF op[t] = "acquire" /\ pc[t] = "retire"
       THEN Goto(t, "returned") /\ UNCHANGED <<op, role, hands>>
       ELSE IF op[t] = "sync" /\ hand[t] # None
            THEN Goto(t, "adopt") /\ UNCHANGED <<op, role, hands>>
       ELSE IF op[t] = "disconnect"
            THEN Goto(t, "hangUp") /\ UNCHANGED <<op, role, hands>>
            ELSE Done(t)
    /\ UNCHANGED <<registry, sockets>>

\* _drop_connection(): the retry path closes the kept socket under its request
\* lock and removes the connection before it releases that lock.
Drop(t) ==
    /\ pc[t] = "drop" /\ lane[role[t]] = None
    /\ lane' = [lane EXCEPT ![role[t]] = t]
    /\ facade' = [facade EXCEPT ![role[t]] = None]
    /\ life' = [k \in Socks |-> IF k = facade[role[t]] THEN "closed" ELSE life[k]]
    /\ Goto(t, "pop")
    /\ UNCHANGED <<registry, manager, op, role, hands>>

\* update_profile(): connections the new profile forbids are removed together.
Update(t) ==
    /\ pc[t] = "update" /\ manager = None
    /\ profile' \in {profile \cup {role[t]}, profile \ {role[t]}}
    /\ table' = [r \in Roles |-> IF r \in profile' THEN table[r] ELSE None]
    /\ retiring' = [retiring EXCEPT
                       ![t] = {table[r] : r \in Roles \ profile'} \ {None}]
    /\ Goto(t, "retire")
    /\ UNCHANGED <<over, serves, sockets, locks, op, role, mine, hand, made>>

\* disconnect(): close_all() removes what is registered, to close it outside the
\* lock, and knows nothing of a connection that is being opened.
CloseAll(t) ==
    /\ pc[t] = "closeAll" /\ manager = None
    /\ table' = [r \in Roles |-> None]
    /\ retiring' = [retiring EXCEPT ![t] = {table[r] : r \in Roles} \ {None}]
    /\ Goto(t, "retire")
    /\ UNCHANGED <<profile, over, serves, sockets, locks, op, role, mine, hand, made>>

\* Then the sockets the client keeps are closed one by one, each under its lock; a
\* thread's disconnect() is about one of them.
HangUp(t) ==
    /\ pc[t] = "hangUp" /\ lane[role[t]] = None
    /\ facade' = [facade EXCEPT ![role[t]] = None]
    /\ life' = [k \in Socks |-> IF k = facade[role[t]] THEN "closed" ELSE life[k]]
    /\ Done(t)
    /\ UNCHANGED <<registry, locks>>

-----------------------------------------------------------------------------
(* Preheat, heartbeat and synchronisation                                  *)

Peek(t) ==
    /\ pc[t] = "peek" /\ manager = None
    /\ IF Active(role[t])
       THEN Done(t)
       ELSE Goto(t, "dial") /\ UNCHANGED <<op, role, hands>>
    /\ UNCHANGED <<registry, sockets, locks>>

Refuses(r, k) ==
    \/ r \notin profile
    \/ \E q \in Roles \ {r} : Active(q) /\ over[table[q]] = k
    \/ Active(r) /\ over[table[r]] # k

\* Mutant: the worker closes the socket it opened also after it was adopted.
Adopt_ClosesAdopted(t) ==
    /\ pc[t] = "adopt" /\ manager = None
    /\ IF Refuses(role[t], hand[t]) \/ Active(role[t])
       THEN UNCHANGED registry
       ELSE \E c \in SpareConns : Register(role[t], c, hand[t])
    /\ IF made[t] THEN Goto(t, "undo") /\ UNCHANGED <<op, role, hands>> ELSE Done(t)
    /\ UNCHANGED <<sockets, locks>>

\* ConnectionManager.adopt(): a refusal leaves the socket to its opener.
Adopt(t) ==
    /\ pc[t] = "adopt" /\ manager = None
    /\ IF Refuses(role[t], hand[t])
       THEN /\ IF made[t] THEN Goto(t, "undo") /\ UNCHANGED <<op, role, hands>>
                          ELSE Done(t)
            /\ UNCHANGED registry
       ELSE /\ IF Active(role[t])
               THEN UNCHANGED registry
               ELSE \E c \in SpareConns : Register(role[t], c, hand[t])
            /\ Done(t)
    /\ UNCHANGED <<sockets, locks>>

\* Mutant: the opener forgets the socket and leaves it open.
Undo_LeavesOpen(t) ==
    /\ pc[t] = "undo"
    /\ facade' = [facade EXCEPT ![role[t]] = IF @ = hand[t] THEN None ELSE @]
    /\ Done(t)
    /\ UNCHANGED <<registry, life, locks>>

Undo(t) ==
    /\ pc[t] = "undo"
    /\ Forgets(t)
    /\ Done(t)
    /\ UNCHANGED <<registry, locks>>

\* The heartbeat looks at a checked socket ...
Look(t) ==
    /\ pc[t] = "look"
    /\ IF facade[role[t]] = None
       THEN Done(t)
       ELSE /\ Holds(t, facade[role[t]])
            /\ Goto(t, "beat")
            /\ UNCHANGED <<op, role, mine, made, retiring>>
    /\ UNCHANGED <<registry, sockets, locks>>

\* ... skips it while its request lock is taken, and buries it when the write
\* fails, which it need not yet when only the peer has left ...
Beat(t) ==
    /\ pc[t] = "beat"
    /\ \/ /\ lane[role[t]] # None \/ life[hand[t]] # "closed"
          /\ Done(t)
       \/ /\ lane[role[t]] = None /\ ~Alive(hand[t])
          /\ Goto(t, "bury")
          /\ UNCHANGED <<op, role, hands>>
    /\ UNCHANGED <<registry, sockets, locks>>

\* ... and then closes whatever connection the role has.
Bury(t) ==
    /\ pc[t] = "bury"
    /\ Forgets(t)
    /\ Holds(t, None)
    /\ Goto(t, "pop")
    /\ UNCHANGED <<registry, locks, op, role, mine, made, retiring>>

\* sync_service_connections() reads the kept sockets ...
Read(t) ==
    /\ pc[t] = "read" /\ (role[t] \in Kept => CanLock(t, role[t]))
    /\ Holds(t, facade[role[t]])
    /\ Goto(t, "compare")
    /\ UNCHANGED <<registry, sockets, locks, op, role, mine, made, retiring>>

\* ... and replaces the connections that wrap another socket.
Compare(t) ==
    /\ pc[t] = "compare" /\ manager = None
    /\ IF Active(role[t]) /\ over[table[role[t]]] # hand[t]
       THEN Goto(t, "pop") /\ UNCHANGED <<op, role, hands>>
       ELSE IF hand[t] # None
            THEN Goto(t, "adopt") /\ UNCHANGED <<op, role, hands>>
            ELSE Done(t)
    /\ UNCHANGED <<registry, sockets, locks>>

-----------------------------------------------------------------------------

Step(t) ==
    \/ Enter(t) \/ Probe(t) \/ OpenKept(t) \/ OpenChecked(t) \/ Discard(t)
    \/ Dial(t) \/ DialFails(t) \/ Offer(t) \/ Wrap(t)
    \/ UseStarts(t) \/ UseEnds(t)
    \/ Pop(t) \/ Retire(t) \/ RetireEnds(t) \/ Drop(t) \/ Update(t)
    \/ CloseAll(t) \/ HangUp(t)
    \/ Peek(t) \/ Adopt(t) \/ Undo(t)
    \/ Look(t) \/ Beat(t) \/ Bury(t) \/ Read(t) \/ Compare(t)

Next ==
    \/ \E t \in Threads : Begin(t) \/ Step(t)
    \/ \E k \in Socks : ServerLeaves(k)

Spec == Init /\ [][Next]_vars

-----------------------------------------------------------------------------

Places == {"idle", "enter", "probe", "open", "discard", "dial", "offer", "wrap",
           "failed", "returned", "using", "pop", "retire", "drop", "update",
           "peek", "adopt", "undo", "look", "beat", "bury", "read", "compare",
           "closeAll", "hangUp"}

\* Every variable has its type.
TypeOK ==
    /\ profile \in SUBSET Roles
    /\ table \in [Roles -> Conns \cup {None}]
    /\ over \in [Conns -> Socks \cup {None}]
    /\ serves \in [Conns -> Roles \cup {None}]
    /\ facade \in [Roles -> Socks \cup {None}]
    /\ life \in [Socks -> {"up", "eof", "closed"}]
    /\ manager \in Threads \cup {None}
    /\ lane \in [Roles \cup Conns -> Threads \cup {None}]
    /\ pc \in [Threads -> Places]
    /\ op \in [Threads -> AllOps \cup {None}]
    /\ role \in [Threads -> Roles \cup {None}]
    /\ mine \in [Threads -> Conns \cup {None}]
    /\ hand \in [Threads -> Socks \cup {None}]
    /\ made \in [Threads -> BOOLEAN]
    /\ retiring \in [Threads -> SUBSET Conns]

\* A connection that owns its socket (KLINE_FAST, BSE_MAIN, constituents) never
\* has it closed under it, by the worker that opened it or by anybody else.
OwnedIsOpen ==
    \A c \in Conns : over[c] # None /\ serves[c] \in Owned => life[over[c]] # "closed"

\* A socket that is open at this end is kept by the client, owned by a
\* connection that is registered or about to be closed, or in the hands of the
\* thread that will put it there or close it.
Owns(c, k) == over[c] = k /\ serves[c] \in Owned
NothingLeaks ==
    \A k \in Socks : life[k] # "closed" =>
        \/ \E r \in Roles : facade[r] = k
        \/ \E c \in Conns : /\ Owns(c, k)
                            /\ Registered(c) \/ \E t \in Threads : c \in retiring[t]
        \/ \E t \in Threads :
              hand[t] = k /\ pc[t] \in {"discard", "offer", "wrap", "adopt", "undo",
                                        "bury"}

\* No two threads wait for each other's lock: one in acquire() for a request
\* lock, one that holds that lock for the manager's.
NoCircularWait ==
    ~ \E t, u \in Threads :
        /\ manager = t /\ pc[t] = "probe" /\ lane[LaneOf(mine[t])] = u
        /\ u # t /\ pc[u] = "pop"

\* A connection found dead is rebuilt over another socket
\* (connection_manager.py, acquire).
RebuiltIsNew ==
    [][\A t \in Threads : Wrap(t) =>
          \A c \in retiring[t] : over[c] # hand[t]]_vars

\* The registry implements what its users are promised.
Abstract == INSTANCE RoleRegistry WITH
                entry <- table, open <- {c \in Conns : over[c] # None}
KeepsPromise == Abstract!Spec

-----------------------------------------------------------------------------
(* The parts of the inductive invariant of ConnectionRegistry_proofs.      *)

\* A thread at work is at work on a role, in an operation that has this place,
\* and with a socket in hand where it needs one.
AtWork ==
    \A t \in Threads :
        /\ pc[t] # "idle" => role[t] \in Roles
        /\ pc[t] \in {"enter", "probe", "open", "discard", "wrap", "failed"} =>
               op[t] = "acquire"
        /\ pc[t] = "peek" => op[t] = "preheat"
        /\ pc[t] \in {"dial", "offer"} => op[t] \in {"acquire", "preheat"}
        /\ pc[t] \in {"discard", "offer", "wrap", "adopt", "undo", "beat", "bury"} =>
               hand[t] \in Socks
        /\ pc[t] = "probe" => mine[t] \in Conns

\* The manager's lock excludes: who is at a place inside it is its holder.
Managing(t) ==
    \/ pc[t] \in {"probe", "open", "discard", "wrap", "failed"}
    \/ pc[t] \in {"dial", "offer"} /\ op[t] = "acquire"
ManagerExcludes == \A t \in Threads : Managing(t) <=> manager = t

\* The holder has the current connection at hand, or there is none.
HolderKnowsEntry ==
    \A t \in Threads : Managing(t) =>
        table[role[t]] = IF pc[t] = "probe" THEN mine[t] ELSE None

\* A registered connection has a socket and serves its role alone.
RegisteredIsOpen ==
    \A r \in Roles : table[r] # None =>
        over[table[r]] # None /\ serves[table[r]] = r

\* A connection about to be closed is out of the table and one thread's to close.
RetiringIsRemoved ==
    \A t \in Threads : \A c \in retiring[t] :
        /\ over[c] # None /\ ~Registered(c)
        /\ \A u \in Threads \ {t} : c \notin retiring[u]

\* Only some roles come to some places.
RolesFit ==
    \A t \in Threads :
        /\ pc[t] \in {"discard", "offer"} => role[t] \in Checked
        /\ pc[t] \in {"peek", "dial"} => role[t] \notin Kept
        /\ op[t] = "sync" => role[t] \notin Owned
        /\ pc[t] \in {"read", "compare"} => op[t] = "sync"

\* Removed connections wait for a thread that will come to close them.
RetiringIsUnderWay ==
    \A t \in Threads : retiring[t] # {} =>
        pc[t] = "retire" \/ (Managing(t) /\ pc[t] # "probe")

\* A thread that has opened a socket nobody else knows of has it to itself.
Private(t) ==
    \/ pc[t] = "offer"
    \/ role[t] \in Owned /\ pc[t] \in {"wrap", "adopt", "undo"}
PrivateIsApart ==
    \A t \in Threads : Private(t) =>
        /\ made[t] /\ life[hand[t]] # "closed"
        /\ \A r \in Roles : facade[r] # hand[t]
        /\ \A u \in Threads \ {t} : hand[u] # hand[t]

\* An owned socket is open, and nobody but its connection can reach it.
OwnedIsApart ==
    \A c \in Conns : over[c] # None /\ serves[c] \in Owned =>
        /\ life[over[c]] # "closed"
        /\ \A r \in Roles : facade[r] # over[c]
        /\ \A t \in Threads : hand[t] # over[c]
        /\ \A d \in Conns \ {c} : serves[d] \in Owned => over[d] # over[c]

\* Any other socket a thread has in hand is one the client keeps, or closed.
HandIsKnown ==
    \A t \in Threads : hand[t] # None /\ ~Private(t) =>
        life[hand[t]] = "closed" \/ \E r \in Roles : facade[r] = hand[t]

\* Every open socket is kept, owned, or private to a thread.
OpenIsHeld ==
    \A k \in Socks : life[k] # "closed" =>
        \/ \E r \in Roles : facade[r] = k
        \/ \E c \in Conns : /\ Owns(c, k)
                            /\ Registered(c) \/ \E t \in Threads : c \in retiring[t]
        \/ \E t \in Threads : Private(t) /\ hand[t] = k
=============================================================================
