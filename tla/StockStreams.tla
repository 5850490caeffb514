------------------------------ MODULE StockStreams ------------------------------
(***************************************************************************)
(* The live streams of stocks: the viewers' WebSockets (server/app.py), the *)
(* subscriptions they share and the delayed release of those nobody views   *)
(* (server/runtime.py), and the delivery of the events, which takes the     *)
(* stream lock under the lane's request lock, while a subscription takes    *)
(* them the other way round.                                                *)
(*                                                                         *)
(* What the client does for a subscription is in PushSubscriptions: here it *)
(* is on or off; the profile allows the lane, whose connection and request  *)
(* lock stay one.  The viewers' queues, which drop the oldest event when    *)
(* they are full, are left out.                                             *)
(***************************************************************************)
EXTENDS ThsRuntime

CONSTANTS
    Codes,        \* stocks
    Viewers,      \* WebSockets of a stock
    Timers,       \* release timers: a timer and its token are one
    LaneReaders,  \* threads that read pushes with the lane's request lock held
    PushReader    \* the snapshot thread, which holds none

ASSUME StockThreadsAssumption == Viewers \cup Timers \subseteq Threads

VARIABLES
    streamLock,   \* who holds _stream_lock
    subscribers,  \* _stream_subscribers
    active,       \* _stream_active_codes
    release,      \* _stream_release_timers
    timer,        \* timer[t]: a timer's thread
    viewer,       \* viewer[v]: a WebSocket's handler
    events,       \* the codes the client delivers events of
    lane,         \* who holds the lane's request lock
    reader        \* reader[p]: a thread that delivers a push

stockVars == <<streamLock, subscribers, active, release, timer, viewer, events, lane, reader>>

Nobody == "nobody"
Readers == LaneReaders \cup {PushReader}
NoTimer == [at |-> "free", code |-> Nobody, live |-> FALSE]

StockInit ==
    /\ streamLock = Nobody /\ lane = Nobody
    /\ subscribers = [code \in Codes |-> {}] /\ active = {} /\ events = {}
    /\ release = [code \in Codes |-> Nobody]
    /\ timer = [t \in Timers |-> NoTimer]
    /\ viewer = [v \in Viewers |-> [at |-> "away", code |-> Nobody, timer |-> Nobody]]
    /\ reader = [p \in Readers |-> [at |-> "none", code |-> Nobody]]

Views(v, place) == viewer' = [viewer EXCEPT ![v].at = place]
Ticks(t, new) == timer' = [timer EXCEPT ![t] = new]
CallAside == UNCHANGED <<beside, main, connected>>

\* Cancels a timer: one that fires already goes on.
Cancelled(t) == [timer EXCEPT ![t].live = FALSE]

-----------------------------------------------------------------------------
(* A viewer                                                                *)

Opens(v) ==
    /\ Serves("stock") /\ viewer[v].at = "away"
    /\ \E code \in Codes : viewer' = [viewer EXCEPT ![v] = [@ EXCEPT !.at = "joins", !.code = code]]
    /\ UNCHANGED <<runtimeVars, streamLock, subscribers, active, release, timer, events, lane, reader>>

\* The timer that would release the subscription is taken out of the table.
StopsRelease(code) ==
    LET t == release[code] IN
    /\ release' = [release EXCEPT ![code] = Nobody]
    /\ timer' = IF t = Nobody THEN timer ELSE Cancelled(t)

\* subscribe_stock_stream(): the lock is kept while the client subscribes.
Joins(v) ==
    LET code == viewer[v].code IN
    /\ viewer[v].at = "joins" /\ streamLock = Nobody
    /\ StopsRelease(code)
    /\ subscribers' = [subscribers EXCEPT ![code] = @ \cup {v}]
    /\ IF code \in active
       THEN Views(v, "watches") /\ UNCHANGED <<call, streamLock>>
       ELSE Views(v, "activates") /\ Step(v, "looks") /\ streamLock' = v
    /\ CallAside /\ UNCHANGED <<active, events, lane, reader>>

\* market_events_subscribe(): acquire() asks the lane's connection whether it lives,
\* which takes the request lock however long that takes; then the registration, whose
\* own wait has a limit, and the callback.
Activates(v) ==
    /\ viewer[v].at = "activates" /\ lane = Nobody
    /\ \/ Succeeds(v) /\ events' = events \cup {viewer[v].code}
       \/ (Breaks(v) \/ Refuses(v)) /\ UNCHANGED events
    /\ CallAside
    /\ UNCHANGED <<streamLock, subscribers, active, release, timer, viewer, lane, reader>>

\* The subscription is known, or the subscriber is taken back.
Joined(v) ==
    LET code == viewer[v].code IN
    /\ viewer[v].at = "activates" /\ Finished(v)
    /\ IF call[v] = "done"
       THEN active' = active \cup {code} /\ Views(v, "watches") /\ UNCHANGED subscribers
       ELSE /\ subscribers' = [subscribers EXCEPT ![code] = @ \ {v}]
            /\ Views(v, "away") /\ UNCHANGED active
    /\ Step(v, "no") /\ streamLock' = Nobody
    /\ CallAside /\ UNCHANGED <<release, timer, events, lane, reader>>

\* unsubscribe_stock_stream(), the first half; the WebSocket is gone.
Leaves(v) ==
    LET code == viewer[v].code
        last == subscribers[code] = {v} IN
    /\ viewer[v].at = "watches" /\ streamLock = Nobody
    /\ subscribers' = [subscribers EXCEPT ![code] = @ \ {v}]
    /\ Views(v, IF last THEN "leaves" ELSE "away")
    /\ UNCHANGED <<runtimeVars, streamLock, active, release, timer, events, lane, reader>>

\* The second half: a timer of its own takes the place of another.
Schedules(v) ==
    LET code == viewer[v].code
        previous == release[code] IN
    /\ viewer[v].at = "leaves" /\ streamLock = Nobody
    /\ \E t \in Timers :
          /\ timer[t].at = "free"
          /\ timer' = [x \in Timers |->
                         IF x = t THEN [at |-> "made", code |-> code, live |-> TRUE]
                         ELSE IF x = previous THEN [timer[x] EXCEPT !.live = FALSE]
                         ELSE timer[x]]
          /\ release' = [release EXCEPT ![code] = t]
          /\ viewer' = [viewer EXCEPT ![v] = [@ EXCEPT !.at = "starts", !.timer = t]]
    /\ UNCHANGED <<runtimeVars, streamLock, subscribers, active, events, lane, reader>>

\* Outside the lock; a timer that was cancelled before it started ends at once.
Starts(v) ==
    LET t == viewer[v].timer IN
    /\ viewer[v].at = "starts"
    /\ Ticks(t, IF timer[t].live THEN [timer[t] EXCEPT !.at = "runs"] ELSE NoTimer)
    /\ viewer' = [viewer EXCEPT ![v] = [@ EXCEPT !.at = "away", !.timer = Nobody]]
    /\ UNCHANGED <<runtimeVars, streamLock, subscribers, active, release, events, lane, reader>>

View(v) ==
    \/ Opens(v) \/ Joins(v) \/ Activates(v) \/ Joined(v)
    \/ Leaves(v) \/ Schedules(v) \/ Starts(v)

-----------------------------------------------------------------------------
(* A timer                                                                 *)

Elapses(t) ==
    /\ timer[t].at = "runs"
    /\ Ticks(t, IF timer[t].live THEN [timer[t] EXCEPT !.at = "fires"] ELSE NoTimer)
    /\ UNCHANGED <<runtimeVars, streamLock, subscribers, active, release, viewer, events, lane, reader>>

\* Mutant: what is in the table is taken out whosever it is.
Taken_Any(t) == [release EXCEPT ![timer[t].code] = Nobody]

\* The timer is taken out of the table if it is still there.
Taken(t) ==
    IF release[timer[t].code] = t THEN [release EXCEPT ![timer[t].code] = Nobody] ELSE release

\* Mutant: nobody looks for viewers that came in the meantime.
Viewed_Not(code) == FALSE
Viewed(code) == subscribers[code] # {}

\* _release_stock_stream(): nothing to do when the table has another timer, when
\* there are viewers again, or when the subscription is gone.
Releases(t) ==
    LET code == timer[t].code
        due == release[code] = t /\ ~Viewed(code) /\ code \in active IN
    /\ timer[t].at = "fires" /\ streamLock = Nobody
    /\ release' = Taken(t)
    /\ IF due
       THEN /\ active' = active \ {code} /\ streamLock' = t
            /\ Ticks(t, [timer[t] EXCEPT !.at = "ends"]) /\ Step(t, "looks")
       ELSE Ticks(t, NoTimer) /\ UNCHANGED <<active, streamLock, call>>
    /\ CallAside /\ UNCHANGED <<subscribers, viewer, events, lane, reader>>

\* market_events_unsubscribe(): the code's events end here.
Deactivates(t) ==
    /\ timer[t].at = "ends" /\ call[t] = "acts" /\ events # {}
    /\ events' = events \ {timer[t].code}
    /\ IF events' = {} THEN UNCHANGED call ELSE Succeeds(t)
    /\ CallAside
    /\ UNCHANGED <<streamLock, subscribers, active, release, timer, viewer, lane, reader>>

\* stop_snapshot(), after the last code: the snapshot thread is waited for three
\* seconds, the lane's request lock, to close the socket under it, as long as it takes.
StopsSnapshot(t) ==
    /\ timer[t].at = "ends" /\ events = {} /\ lane = Nobody
    /\ Succeeds(t) \/ Breaks(t)
    /\ CallAside
    /\ UNCHANGED <<streamLock, subscribers, active, release, timer, viewer, events, lane, reader>>

\* A failure is logged only.
Released(t) ==
    /\ timer[t].at = "ends" /\ Finished(t)
    /\ Ticks(t, NoTimer) /\ Step(t, "no") /\ streamLock' = Nobody
    /\ CallAside /\ UNCHANGED <<subscribers, active, release, viewer, events, lane, reader>>

Tick(t) ==
    Elapses(t) \/ Releases(t) \/ Deactivates(t) \/ StopsSnapshot(t) \/ Released(t)

-----------------------------------------------------------------------------
(* Events                                                                  *)

Reads(p, new) == reader' = [reader EXCEPT ![p] = new]
AsideReaders == UNCHANGED <<runtimeVars, streamLock, subscribers, active, release, timer, viewer, events>>

\* A request on the lane: charts, prepare_stock_stream(), keepalive_stock_stream().
TakesLane(p) ==
    /\ Serves("stock") /\ p \in LaneReaders /\ reader[p].at = "none" /\ lane = Nobody
    /\ lane' = p /\ Reads(p, [at |-> "reads", code |-> Nobody])
    /\ AsideReaders

\* deliver_market_push(): a push of a code with a callback.
Delivers(p) ==
    /\ reader[p].at = IF p = PushReader THEN "none" ELSE "reads"
    /\ \E code \in events : Reads(p, [at |-> "publishes", code |-> code])
    /\ UNCHANGED lane /\ AsideReaders

\* _publish_stock_event(): the viewers are looked up under the stream lock.
Publishes(p) ==
    /\ reader[p].at = "publishes" /\ streamLock = Nobody
    /\ Reads(p, [at |-> IF p = PushReader THEN "none" ELSE "reads", code |-> Nobody])
    /\ UNCHANGED lane /\ AsideReaders

LeavesLane(p) ==
    /\ p \in LaneReaders /\ reader[p].at = "reads"
    /\ lane' = Nobody /\ Reads(p, [at |-> "none", code |-> Nobody])
    /\ AsideReaders

Deliver(p) == TakesLane(p) \/ Delivers(p) \/ Publishes(p) \/ LeavesLane(p)

\* close(), the streams' section.
CloseStreams ==
    /\ Serves("close") /\ streamLock = Nobody /\ closing' = "streams"
    /\ release' = [code \in Codes |-> Nobody]
    /\ timer' = [t \in Timers |-> [timer[t] EXCEPT
                   !.live = @ /\ \A code \in Codes : release[code] # t]]
    /\ subscribers' = [code \in Codes |-> {}] /\ active' = {}
    /\ UNCHANGED <<load, main, losses, connected, call, request, preheat, heater,
                   streamLock, viewer, events, lane, reader>>

StockStep ==
    \/ \E v \in Viewers : View(v)
    \/ \E t \in Timers : Tick(t)
    \/ \E p \in Readers : Deliver(p)
    \/ CloseStreams

-----------------------------------------------------------------------------
(* Properties                                                              *)

ViewerPlaces == {"away", "joins", "activates", "watches", "leaves", "starts"}
TimerPlaces == {"free", "made", "runs", "fires", "ends"}

StockTypeOK ==
    /\ streamLock \in Viewers \cup Timers \cup {Nobody} /\ lane \in LaneReaders \cup {Nobody}
    /\ subscribers \in [Codes -> SUBSET Viewers]
    /\ active \subseteq Codes /\ events \subseteq Codes
    /\ release \in [Codes -> Timers \cup {Nobody}]
    /\ timer \in [Timers -> [at : TimerPlaces, code : Codes \cup {Nobody}, live : BOOLEAN]]
    /\ viewer \in [Viewers -> [at : ViewerPlaces, code : Codes \cup {Nobody},
                               timer : Timers \cup {Nobody}]]
    /\ reader \in [Readers -> [at : {"none", "reads", "publishes"}, code : Codes \cup {Nobody}]]

\* While a stock has viewers its subscription is on, in the server's book and in the
\* client, or being made under the lock: a release that was scheduled before they came
\* does not take it away.
WatchedIsActive ==
    \A code \in Codes :
       subscribers[code] # {} /\ closing = "no" =>
          \/ code \in active /\ code \in events
          \/ \E v \in subscribers[code] : viewer[v].at = "activates" /\ streamLock = v

\* A subscription without viewers is on its way out: a timer that will find itself in
\* the table, or a viewer that is about to schedule one.
IdleIsReleased ==
    \A code \in active :
       \/ subscribers[code] # {}
       \/ \E t \in Timers : release[code] = t /\ timer[t].live /\ timer[t].at # "free"
       \/ \E v \in Viewers : viewer[v].code = code /\ viewer[v].at = "leaves"

\* A thread that brings an event in does not wait for the stream lock for ever.  No run
\* has it: who brings it in with the lane's request lock held waits for a thread that
\* waits for that lock, and MC_v_stream.cfg shows how both wait for good.
EventsPass ==
    \A p \in Readers : (reader[p].at = "publishes") ~> (reader[p].at # "publishes")

-----------------------------------------------------------------------------
(* The parts of the inductive invariant of ThsServer_proofs.               *)

\* Who keeps the lock over a call of the client is in that call.
LockIsHeld ==
    /\ \A v \in Viewers :
          /\ (viewer[v].at = "activates") <=> (streamLock = v)
          /\ viewer[v].at # "away" => viewer[v].code \in Codes
    /\ \A t \in Timers :
          /\ (timer[t].at = "ends") <=> (streamLock = t)
          /\ timer[t].at # "free" => timer[t].code \in Codes

\* A subscriber watches its stock or subscribes to it; who watches is a subscriber
\* of a subscription that is on, and one that is made is not on before that.
SubscribersFit ==
    \A v \in Viewers :
       LET code == viewer[v].code IN
       /\ \A other \in Codes :
             v \in subscribers[other] => code = other /\ viewer[v].at \in {"activates", "watches"}
       /\ viewer[v].at = "activates" => v \in subscribers[code] /\ code \notin active
       /\ viewer[v].at = "activates" /\ call[v] = "done" /\ closing = "no" => code \in events
       /\ viewer[v].at = "watches" /\ closing = "no" => v \in subscribers[code] /\ code \in active

\* What the server has on is on in the client; a timer that ends a subscription has
\* taken it out of the book.
ActiveIsOn ==
    /\ closing = "no" => active \subseteq events
    /\ \A t \in Timers : timer[t].at = "ends" => timer[t].code \notin active

\* A timer in the table is one of its code that lives; a viewer starts the timer it
\* made, and no other viewer does.
TimersFit ==
    /\ \A code \in Codes :
          release[code] # Nobody =>
             LET t == release[code] IN
             timer[t].live /\ timer[t].code = code /\ timer[t].at \in {"made", "runs", "fires"}
    /\ \A v \in Viewers :
          viewer[v].at = "starts" =>
             /\ viewer[v].timer \in Timers /\ timer[viewer[v].timer].at = "made"
             /\ \A w \in Viewers : viewer[w].at = "starts" /\ viewer[w].timer = viewer[v].timer => w = v
=============================================================================
