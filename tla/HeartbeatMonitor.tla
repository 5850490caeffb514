--------------------------- MODULE HeartbeatMonitor ---------------------------
(***************************************************************************)
(* HeartbeatMonitor (_client/heartbeat_monitor.py) under the threads that  *)
(* feed it: the heartbeat loop of ConnectionRuntime, the dispatchers that  *)
(* complete its probes, whoever reads a frame from an observed socket, and *)
(* disconnect().                                                           *)
(*                                                                         *)
(* Every method of the monitor is one block under its lock.  A lane is     *)
(* known by the socket it is bound to; an event names the lane, the socket *)
(* and the probe it is about, and may arrive after the lane was bound to   *)
(* another socket or has begun another probe.                              *)
(***************************************************************************)
EXTENDS Naturals, FiniteSets

CONSTANTS
    Lanes,       \* the lanes watched
    Sockets,     \* sockets; one that nothing refers to is a new one
    Probes,      \* probe ids, likewise
    Loops,       \* heartbeat threads, likewise
    Threshold,   \* miss_threshold
    None         \* no socket, probe or thread

ASSUME NoneAssumption == None \notin Sockets \cup Probes \cup Loops \cup Lanes
ASSUME ThresholdAssumption == Threshold \in Nat \ {0}

VARIABLES
    kind,       \* kind[l]: how the loop treats the lane; it never changes
    lane,       \* lane[l]: its _LaneState
    current,    \* current[l]: the socket the client has for the lane
    alive,      \* sockets on which writing works
    observer,   \* observer[s]: the lane a frame read from s is reported to
    fut,        \* fut[p]: the dispatcher future of probe p
    about,      \* about[p]: the lane and socket probe p was begun for
    at,         \* at[h]: where heartbeat thread h is
    todo,       \* todo[h]: the lanes left of this tick
    hand,       \* hand[h]: the lane and socket h works on
    token,      \* token[h]: the probe h has begun
    found,      \* found[h]: the probes expire() collected
    dead,       \* dead[h]: dead_l2
    stop,       \* heartbeat_stop
    thread      \* heartbeat_thread

\* main and kline_fast; sh_l2 and sz_l2; realorder and board_stats.
LaneKinds == {"market", "push", "aux"}
PushLanes == {l \in Lanes : kind[l] = "push"}
AuxLanes == {l \in Lanes : kind[l] = "aux"}

laneVars == <<lane, observer>>
wireVars == <<kind, current, alive>>
probeVars == <<fut, about>>
loopVars == <<at, todo, hand, token, found, dead>>
lifeVars == <<stop, thread>>
vars == <<laneVars, wireVars, probeVars, loopVars, lifeVars>>

States == {"idle", "pending", "healthy", "suspect", "ack_silent", "unresponsive"}
FutureStates == {"none", "open", "consuming", "broken", "silent", "down"}
Places == {"off", "wait", "expire", "look", "bind", "keep", "keepFailed",
           "rebind", "begin", "begun", "downed", "bury"}
Nothing == <<None, None>>

Fresh(s) == [sock |-> s, state |-> "idle", prev |-> "idle", pending |-> None,
             late |-> FALSE, misses |-> 0]

Init ==
    /\ kind \in [Lanes -> LaneKinds]
    /\ lane = [l \in Lanes |-> Fresh(None)]
    /\ current = [l \in Lanes |-> None]
    /\ alive = {}
    /\ observer = [s \in Sockets |-> None]
    /\ fut = [p \in Probes |-> "none"]
    /\ about = [p \in Probes |-> Nothing]
    /\ at = [h \in Loops |-> "off"]
    /\ todo = [h \in Loops |-> {}]
    /\ hand = [h \in Loops |-> Nothing]
    /\ token = [h \in Loops |-> None]
    /\ found = [h \in Loops |-> {}]
    /\ dead = [h \in Loops |-> {}]
    /\ stop = FALSE
    /\ thread = None

-----------------------------------------------------------------------------
(* The methods of the monitor, on the record of one lane                   *)

IsCurrent(l, s) == lane[l].sock = s /\ s # None
Matches(l, s, p) == IsCurrent(l, s) /\ lane[l].pending = p

Settled(r, state) == [r EXCEPT !.state = state, !.pending = None,
                                !.late = FALSE, !.prev = "idle"]

Binds(l, s) ==
    lane' = IF lane[l].sock = s THEN lane ELSE [lane EXCEPT ![l] = Fresh(s)]

Begins(l, p) ==
    lane' = [lane EXCEPT ![l].prev = lane[l].state,
                         ![l].pending = p, ![l].state = "pending"]

\* Mutant: an answer leaves the count of misses.
Observed_KeepsMisses(l, s) ==
    IF IsCurrent(l, s) THEN [lane EXCEPT ![l] = Settled(@, "healthy")] ELSE lane

\* observe(): any frame of the socket answers the probe that is pending.
Observed(l, s) ==
    IF IsCurrent(l, s)
    THEN [lane EXCEPT ![l] = [Settled(@, "healthy") EXCEPT !.misses = 0]]
    ELSE lane

\* Mutant: a failure of any socket of the lane is noted on the bound one.
Downed_AnySocket(l, s) ==
    [lane EXCEPT ![l] = Settled(@, "unresponsive")]

\* note_transport_failure()
Downed(l, s) ==
    IF IsCurrent(l, s)
    THEN [lane EXCEPT ![l] = Settled(@, "unresponsive")]
    ELSE lane

\* Mutant: a missed probe forgets that the socket had failed before it.
Missed_Forgets(r) ==
    LET n == r.misses + 1 IN
    [Settled(r, IF n >= Threshold THEN "ack_silent" ELSE "suspect")
     EXCEPT !.misses = IF n > Threshold THEN Threshold ELSE n]

\* A missed probe; misses are counted up to the threshold, their bound here.
Missed(r) ==
    LET n == r.misses + 1 IN
    [Settled(r, IF r.prev = "unresponsive" THEN "unresponsive"
                ELSE IF n >= Threshold THEN "ack_silent" ELSE "suspect")
     EXCEPT !.misses = IF n > Threshold THEN Threshold ELSE n]

\* Mutant: any miss is charged to whatever probe is pending now.
FailProbe_AnyProbe(l, s, p) ==
    IF IsCurrent(l, s) /\ lane[l].pending # None
    THEN [lane EXCEPT ![l] = Missed(@)]
    ELSE lane

FailProbe(l, s, p) ==
    IF Matches(l, s, p) THEN [lane EXCEPT ![l] = Missed(@)] ELSE lane

CancelProbe(l, s, p) ==
    IF Matches(l, s, p) THEN [lane EXCEPT ![l] = Settled(@, @.prev)] ELSE lane

-----------------------------------------------------------------------------
(* The client's sockets                                                    *)

InUse(s) ==
    \/ s \in alive
    \/ \E l \in Lanes : current[l] = s \/ lane[l].sock = s
    \/ \E p \in Probes : about[p][2] = s
    \/ \E h \in Loops : hand[h][2] = s \/ \E d \in dead[h] : d[2] = s

\* A login or an opener gives the lane a new socket; the old one was closed.
Connect(l) ==
    /\ \E s \in Sockets : ~InUse(s)
    /\ LET s == CHOOSE n \in Sockets : ~InUse(n) IN
       /\ current' = [current EXCEPT ![l] = s]
       /\ alive' = (alive \ {current[l]}) \cup {s}
       /\ observer' = [observer EXCEPT ![s] = None]
       /\ UNCHANGED <<kind, lane, probeVars, loopVars, lifeVars>>

Dies(s) ==
    /\ s \in alive
    /\ alive' = alive \ {s}
    /\ UNCHANGED <<laneVars, kind, current, probeVars, loopVars, lifeVars>>

-----------------------------------------------------------------------------
(* Answers, failures and time                                              *)

\* Whoever reads a frame of s reports it; it may go on to a probe's consumer.
Hear(s) ==
    /\ s \in alive /\ observer[s] # None
    /\ lane' = Observed(observer[s], s)
    /\ \/ UNCHANGED fut
       \/ \E p \in Probes : /\ fut[p] = "open" /\ about[p][2] = s
                            /\ fut' = [fut EXCEPT ![p] = "consuming"]
    /\ UNCHANGED <<observer, wireVars, about, loopVars, lifeVars>>

\* The consumer accepts any frame; it reports it again if nobody has.
Consume(p) ==
    /\ fut[p] = "consuming"
    /\ fut' = [fut EXCEPT ![p] = "none"]
    /\ about' = [about EXCEPT ![p] = Nothing]
    /\ LET l == about[p][1]
           s == about[p][2]
       IN lane' = IF Matches(l, s, p) THEN Observed(l, s) ELSE lane
    /\ UNCHANGED <<observer, wireVars, loopVars, lifeVars>>

\* The dispatcher fails the future: with an OSError, or with anything else.
FutureFails(p) ==
    /\ fut[p] = "open"
    /\ \/ fut' = [fut EXCEPT ![p] = "silent"]
       \/ /\ about[p][2] \notin alive
          /\ fut' = [fut EXCEPT ![p] = "broken"]
    /\ UNCHANGED <<laneVars, wireVars, about, loopVars, lifeVars>>

FinishFuture(p) ==
    /\ fut[p] \in {"silent", "broken"}
    /\ lane' = FailProbe(about[p][1], about[p][2], p)
    /\ fut' = [fut EXCEPT ![p] = IF @ = "broken" THEN "down" ELSE "none"]
    /\ about' = [about EXCEPT ![p] = IF fut[p] = "broken" THEN @ ELSE Nothing]
    /\ UNCHANGED <<observer, wireVars, loopVars, lifeVars>>

FinishDown(p) ==
    /\ fut[p] = "down"
    /\ lane' = Downed(about[p][1], about[p][2])
    /\ fut' = [fut EXCEPT ![p] = "none"]
    /\ about' = [about EXCEPT ![p] = Nothing]
    /\ UNCHANGED <<observer, wireVars, loopVars, lifeVars>>

\* The response timeout of a pending probe passes.
Late(l) ==
    /\ lane[l].pending # None /\ ~lane[l].late
    /\ lane' = [lane EXCEPT ![l].late = TRUE]
    /\ UNCHANGED <<observer, wireVars, probeVars, loopVars, lifeVars>>

-----------------------------------------------------------------------------
(* The heartbeat loop                                                      *)

Goto(h, place) == at' = [at EXCEPT ![h] = place]
Lane(h) == hand[h][1]
Sock(h) == hand[h][2]
Letgo(h) == hand' = [hand EXCEPT ![h] = Nothing]

\* Where a lane goes when its keep-alive is done with: every twentieth tick
\* probes, which is any tick here.
ThenProbe(h) ==
    \/ Goto(h, "look") /\ Letgo(h)
    \/ /\ kind[Lane(h)] = "market"
       /\ Goto(h, "rebind") /\ UNCHANGED hand

\* start_heartbeat() with no thread running.
Start ==
    /\ thread \notin {h \in Loops : at[h] # "off"}
    /\ \E h \in Loops :
          /\ at[h] = "off"
          /\ thread' = h
          /\ Goto(h, "wait")
    /\ stop' = FALSE
    /\ UNCHANGED <<laneVars, wireVars, probeVars, todo, hand, token,
                   found, dead>>

\* The lanes whose probe is past its deadline.
Overdue == {l \in Lanes : lane[l].late}

\* A tick begins with expire(), which collects under the lock.
Wake(h) ==
    /\ at[h] = "wait"
    /\ IF stop
       THEN Goto(h, "off") /\ UNCHANGED <<found, todo>>
       ELSE /\ Goto(h, "expire")
            /\ found' = [found EXCEPT ![h] =
                  {<<l, lane[l].sock, lane[l].pending>> : l \in Overdue}]
            /\ todo' = [todo EXCEPT ![h] = Lanes]
    /\ UNCHANGED <<laneVars, wireVars, probeVars, hand, token, dead, lifeVars>>

\* Mutant: the probes that are overdue are not failed.
Expire_Never(h) ==
    /\ at[h] = "expire"
    /\ found' = [found EXCEPT ![h] = {}]
    /\ Goto(h, "look") /\ UNCHANGED lane
    /\ UNCHANGED <<observer, wireVars, probeVars, todo, hand, token,
                   dead, lifeVars>>

\* ... and fails what it collected one by one.
Expire(h) ==
    /\ at[h] = "expire"
    /\ \/ \E e \in found[h] :
             /\ lane' = FailProbe(e[1], e[2], e[3])
             /\ found' = [found EXCEPT ![h] = @ \ {e}]
             /\ UNCHANGED at
       \/ /\ found[h] = {}
          /\ Goto(h, "look") /\ UNCHANGED <<lane, found>>
    /\ UNCHANGED <<observer, wireVars, probeVars, todo, hand, token,
                   dead, lifeVars>>

\* The next lane that has a socket; the 9601 lanes only on probing ticks.
Look(h) ==
    /\ at[h] = "look"
    /\ IF todo[h] = {}
       THEN Goto(h, "bury") /\ UNCHANGED <<todo, hand>>
       ELSE LET l == CHOOSE k \in todo[h] : TRUE IN
               /\ todo' = [todo EXCEPT ![h] = @ \ {l}]
               /\ \/ /\ current[l] = None \/ l \in AuxLanes
                     /\ UNCHANGED <<at, hand>>
                  \/ /\ current[l] # None
                     /\ Goto(h, "bind")
                     /\ hand' = [hand EXCEPT ![h] = <<l, current[l]>>]
    /\ UNCHANGED <<laneVars, wireVars, probeVars, token, found, dead, lifeVars>>

\* _bind_heartbeat_lane(), again before a probe through a dispatcher.
Bind(h) ==
    /\ at[h] \in {"bind", "rebind"}
    /\ Binds(Lane(h), Sock(h))
    /\ observer' = [observer EXCEPT ![Sock(h)] = Lane(h)]
    /\ \/ at[h] = "bind" /\ Goto(h, "keep")
       \/ at[h] = "bind" /\ Lane(h) \in AuxLanes /\ Goto(h, "begin")
       \/ at[h] = "rebind" /\ Goto(h, "begin")
    /\ UNCHANGED <<wireVars, probeVars, todo, hand, token, found, dead, lifeVars>>

\* The keep-alive: written, skipped because the lane is busy, or failed.  A
\* push lane is probed at once if its reader runs.
Keep(h) ==
    /\ at[h] = "keep"
    /\ \/ ThenProbe(h)
       \/ /\ Lane(h) \in PushLanes
          /\ Goto(h, "begin") /\ UNCHANGED hand
       \/ /\ Sock(h) \notin alive
          /\ Goto(h, "keepFailed") /\ UNCHANGED hand
    /\ UNCHANGED <<laneVars, wireVars, probeVars, todo, token, found, dead, lifeVars>>

\* The handler of a 9601 lane reads the client's socket anew.
KeepFailed(h) ==
    /\ at[h] = "keepFailed"
    /\ lane' = Downed(Lane(h), IF Lane(h) \in AuxLanes THEN current[Lane(h)] ELSE Sock(h))
    /\ dead' = [dead EXCEPT ![h] = IF Lane(h) \in PushLanes THEN @ \cup {hand[h]} ELSE @]
    /\ ThenProbe(h)
    /\ UNCHANGED <<observer, wireVars, probeVars, todo, token, found, lifeVars>>

Unspent(p) ==
    /\ fut[p] = "none"
    /\ \A l \in Lanes : lane[l].pending # p
    /\ \A h \in Loops : token[h] # p /\ \A e \in found[h] : e[3] # p

Begin(h) ==
    /\ at[h] = "begin"
    /\ IF IsCurrent(Lane(h), Sock(h)) /\ lane[Lane(h)].pending = None
       THEN /\ \E p \in Probes : Unspent(p)
            /\ LET p == CHOOSE n \in Probes : Unspent(n) IN
               /\ Begins(Lane(h), p)
               /\ token' = [token EXCEPT ![h] = p]
               /\ Goto(h, "begun") /\ UNCHANGED hand
       ELSE Goto(h, "look") /\ Letgo(h) /\ UNCHANGED <<lane, token>>
    /\ UNCHANGED <<observer, wireVars, probeVars, todo, found, dead, lifeVars>>

\* The probe is written; on a dispatcher's lane a future will finish it.
ProbeSent(h) ==
    /\ at[h] = "begun"
    /\ IF Lane(h) \in PushLanes
       THEN UNCHANGED <<fut, about>>
       ELSE /\ fut' = [fut EXCEPT ![token[h]] = "open"]
            /\ about' = [about EXCEPT ![token[h]] = hand[h]]
    /\ token' = [token EXCEPT ![h] = None]
    /\ Goto(h, "look") /\ Letgo(h)
    /\ UNCHANGED <<laneVars, wireVars, todo, found, dead, lifeVars>>

\* try_dispatch() found the lane busy.
ProbeSkipped(h) ==
    /\ at[h] = "begun" /\ Lane(h) \notin PushLanes
    /\ lane' = CancelProbe(Lane(h), Sock(h), token[h])
    /\ token' = [token EXCEPT ![h] = None]
    /\ Goto(h, "look") /\ Letgo(h)
    /\ UNCHANGED <<observer, wireVars, probeVars, todo, found, dead, lifeVars>>

\* Writing the probe fails, on a dispatcher's lane perhaps not with an OSError.
ProbeFails(h) ==
    /\ at[h] = "begun"
    /\ lane' = FailProbe(Lane(h), Sock(h), token[h])
    /\ token' = [token EXCEPT ![h] = None]
    /\ \/ /\ Sock(h) \notin alive
          /\ Goto(h, "downed") /\ UNCHANGED hand
       \/ /\ Lane(h) \notin PushLanes
          /\ Goto(h, "look") /\ Letgo(h)
    /\ UNCHANGED <<observer, wireVars, probeVars, todo, found, dead, lifeVars>>

ProbeDowns(h) ==
    /\ at[h] = "downed"
    /\ lane' = Downed(Lane(h), Sock(h))
    /\ dead' = [dead EXCEPT ![h] = IF Lane(h) \in PushLanes THEN @ \cup {hand[h]} ELSE @]
    /\ Goto(h, "look") /\ Letgo(h)
    /\ UNCHANGED <<observer, wireVars, probeVars, todo, token, found, lifeVars>>

\* The dead push sockets leave the table, unless replaced, and are closed.
Bury(h) ==
    /\ at[h] = "bury"
    /\ IF dead[h] = {}
       THEN Goto(h, "wait") /\ UNCHANGED <<wireVars, dead>>
       ELSE \E d \in dead[h] :
               /\ dead' = [dead EXCEPT ![h] = @ \ {d}]
               /\ current' = [current EXCEPT ![d[1]] = IF @ = d[2] THEN None ELSE @]
               /\ alive' = alive \ {d[2]}
               /\ UNCHANGED at
    /\ UNCHANGED <<kind, laneVars, probeVars, todo, hand, token, found, lifeVars>>

Beat(h) ==
    \/ Wake(h) \/ Expire(h) \/ Look(h) \/ Bind(h) \/ Keep(h) \/ KeepFailed(h)
    \/ Begin(h) \/ ProbeSent(h) \/ ProbeSkipped(h) \/ ProbeFails(h)
    \/ ProbeDowns(h) \/ Bury(h)

-----------------------------------------------------------------------------
(* disconnect()                                                            *)

\* stop_heartbeat() waits for the thread, five seconds at most: it may be anywhere
\* in a tick when it is forgotten.  Then the bound sockets lose their observers,
\* the lanes are cleared and every socket is closed.
Disconnect ==
    /\ stop' = TRUE /\ thread' = None
    /\ observer' = [s \in Sockets |->
          IF \E l \in Lanes : lane[l].sock = s THEN None ELSE observer[s]]
    /\ lane' = [l \in Lanes |-> Fresh(None)]
    /\ current' = [l \in Lanes |-> None] /\ alive' = {}
    /\ UNCHANGED <<kind, probeVars, loopVars>>

Next ==
    \/ \E l \in Lanes : Connect(l) \/ Late(l)
    \/ \E s \in Sockets : Dies(s) \/ Hear(s)
    \/ \E p \in Probes : \/ Consume(p) \/ FutureFails(p) \/ FinishFuture(p)
                         \/ FinishDown(p)
    \/ \E h \in Loops : Beat(h)
    \/ Start \/ Disconnect

Spec == Init /\ [][Next]_vars

\* Threads run and time passes; no answer and no connection is assumed.
FairSpec ==
    /\ Spec
    /\ \A h \in Loops : WF_vars(Beat(h))
    /\ \A l \in Lanes : WF_vars(Late(l))

-----------------------------------------------------------------------------
(* Properties                                                              *)

LaneRecords ==
    [sock : Sockets \cup {None}, state : States, prev : States,
     pending : Probes \cup {None}, late : BOOLEAN, misses : 0..Threshold]

TypeOK ==
    /\ kind \in [Lanes -> LaneKinds]
    /\ lane \in [Lanes -> LaneRecords]
    /\ current \in [Lanes -> Sockets \cup {None}]
    /\ alive \subseteq Sockets
    /\ observer \in [Sockets -> Lanes \cup {None}]
    /\ fut \in [Probes -> FutureStates]
    /\ about \in [Probes -> (Lanes \X Sockets) \cup {Nothing}]
    /\ at \in [Loops -> Places]
    /\ todo \in [Loops -> SUBSET Lanes]
    /\ hand \in [Loops -> (Lanes \X Sockets) \cup {Nothing}]
    /\ token \in [Loops -> Probes \cup {None}]
    /\ found \in [Loops -> SUBSET (Lanes \X Sockets \X Probes)]
    /\ dead \in [Loops -> SUBSET (Lanes \X Sockets)]
    /\ stop \in BOOLEAN
    /\ thread \in Loops \cup {None}

\* What a lane is but for the probe that is pending.
Settles(r) == IF r.pending = None THEN r.state ELSE r.prev

\* The state /api/status reports is the one its misses explain, also the state
\* that a cancelled probe will restore: healthy lanes have none, silent ones
\* have reached the threshold, whatever answers and timeouts overtook each other.
Earned(r) ==
    /\ (r.state = "pending") = (r.pending # None)
    /\ Settles(r) # "pending"
    /\ Settles(r) \in {"idle", "healthy"} => r.misses = 0
    /\ Settles(r) = "suspect" => r.misses \in 1..(Threshold - 1)
    /\ Settles(r) = "ack_silent" => r.misses = Threshold

StateIsEarned == \A l \in Lanes : Earned(lane[l])

\* "unresponsive is reserved for an actual failure": the socket the lane is
\* bound to has failed, not one that it replaced.
UnresponsiveIsDead ==
    \A l \in Lanes \ AuxLanes :
       Settles(lane[l]) = "unresponsive" => lane[l].sock \notin alive

\* A probe counts as missed for its own sake: its time is over, its future
\* failed, or it could not be written; never for an older probe's.
MissIsOwn ==
    [][\A l \in Lanes :
         LET p == lane[l].pending IN
         /\ p # None
         /\ lane'[l].sock = lane[l].sock
         /\ lane'[l].state \in {"suspect", "ack_silent"}
         => \/ lane[l].late
            \/ fut[p] \in {"silent", "broken"}
            \/ \E h \in Loops : at[h] = "begun" /\ token[h] = p]_vars

\* A lane whose socket failed stays so, over probes begun, missed or cancelled,
\* until a frame is heard or another socket is bound.
UnresponsiveSticks ==
    [][\A l \in Lanes :
         Settles(lane[l]) = "unresponsive" /\ lane'[l].sock = lane[l].sock
         => Settles(lane'[l]) \in {"unresponsive", "healthy"}]_vars

\* While the heartbeat is wanted, no probe stays pending: one that neither its
\* socket nor its future settles is expired.
PendingResolves ==
    \A l \in Lanes : lane[l].pending # None /\ ~stop
                    ~> lane[l].pending = None \/ stop

-----------------------------------------------------------------------------
(* Parts of the invariant                                                  *)

\* A lane with a probe or a failure is bound, and only a pending probe is late.
Bound(r) ==
    /\ r.pending # None \/ Settles(r) = "unresponsive" => r.sock # None
    /\ r.late => r.pending # None

LanesAreBound == \A l \in Lanes : Bound(lane[l])

\* A heartbeat thread that works on a lane has one, and a probe it has begun.
AtWork ==
    \A h \in Loops :
       /\ at[h] \notin {"off", "wait", "expire", "look", "bury"}
          => hand[h] \in Lanes \X Sockets
       /\ at[h] = "begun" => token[h] \in Probes

\* A future that is not finished is about a lane and a socket.
FuturesAreAbout == \A p \in Probes : fut[p] # "none" => about[p] \in Lanes \X Sockets

\* What expire() has collected is late as long as it is pending.
ExpiredAreLate ==
    \A h \in Loops : \A e \in found[h] :
       lane[e[1]].pending = e[3] => lane[e[1]].late

\* What is on its way to note_transport_failure() is about a socket that failed.
FailuresAreReal ==
    /\ \A p \in Probes : fut[p] \in {"broken", "down"} => about[p][2] \notin alive
    /\ \A h \in Loops : at[h] \in {"keepFailed", "downed"} => Sock(h) \notin alive
=============================================================================
