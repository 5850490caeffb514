---------------------------- MODULE ThsServer_proofs ----------------------------
(***************************************************************************)
(* Theorems about the server: the second chance of a request, the          *)
(* subscriptions of the stocks that are viewed and of those that are not,  *)
(* and the pushes of the anomalies, none of which is lost or shown late.   *)
(*                                                                         *)
(* The three parts share the client and the calls of it.  What a step of   *)
(* one part does to the others is summed up first.                         *)
(***************************************************************************)
EXTENDS ThsServer, SequenceTheorems, FiniteSetTheorems, TLAPS

USE DEF runtimeVars, beside

-----------------------------------------------------------------------------
(* What a step of one part does to the others                              *)

\* No thread but those of S moves in call().
Calls(S) ==
    /\ call' \in [Threads -> CallPlaces]
    /\ \A x \in Threads \ S : call'[x] = call[x]

\* A server that was closed does not open again.
ClosesForGood ==
    /\ closing' \in {"no", "streams", "dxjl", "flag", "client", "done"}
    /\ closing' = "no" => closing = "no"

OnRuntime(S) ==
    /\ Calls(S) /\ ClosesForGood
    /\ UNCHANGED <<load, main, losses, connected, request, preheat, heater>>

LEMMA StepMoves ==
    ASSUME RuntimeTypeOK, NEW x \in Threads, NEW place \in CallPlaces, Step(x, place)
    PROVE  Calls({x}) /\ call'[x] = place
BY DEF RuntimeTypeOK, Step, Calls

LEMMA EndMoves ==
    ASSUME RuntimeTypeOK, NEW x \in Threads,
           Succeeds(x) \/ Breaks(x) \/ Refuses(x) \/ UNCHANGED call
    PROVE  Calls({x})
<1>1. CASE UNCHANGED call
  BY <1>1 DEF RuntimeTypeOK, Calls
<1>2. CASE Succeeds(x) \/ Breaks(x) \/ Refuses(x)
  <2>1. \E place \in CallPlaces : Step(x, place)
    BY <1>2 DEF Succeeds, Breaks, Refuses, Verdict, CallPlaces
  <2> QED
    BY <2>1, StepMoves
<1> QED
  BY <1>1, <1>2

LEMMA ViewOnRuntime ==
    ASSUME RuntimeTypeOK, NEW v \in Viewers, View(v)
    PROVE  OnRuntime({v})
<1> USE DEF OnRuntime, ClosesForGood, CallAside
<1>0. v \in Threads /\ closing \in {"no", "streams", "dxjl", "flag", "client", "done"}
  BY StockThreadsAssumption DEF RuntimeTypeOK
<1>1. ASSUME UNCHANGED runtimeVars
      PROVE  OnRuntime({v})
  BY <1>0, <1>1 DEF RuntimeTypeOK, Calls
<1>2. CASE Opens(v) \/ Leaves(v) \/ Schedules(v) \/ Starts(v)
  <2>1. UNCHANGED runtimeVars
    BY <1>2 DEF Opens, Leaves, Schedules, Starts
  <2> QED
    BY <1>1, <2>1
<1>3. CASE Joins(v)
  <2>1. UNCHANGED call \/ Step(v, "looks")
    BY <1>3 DEF Joins
  <2>2. Calls({v})
    BY <1>0, <2>1, StepMoves DEF CallPlaces, Calls, RuntimeTypeOK
  <2> QED
    BY <1>0, <1>3, <2>2 DEF Joins
<1>4. CASE Activates(v)
  <2>1. Calls({v})
    BY <1>0, <1>4, EndMoves DEF Activates
  <2> QED
    BY <1>0, <1>4, <2>1 DEF Activates
<1>5. CASE Joined(v)
  <2>1. Calls({v})
    BY <1>0, <1>5, StepMoves DEF Joined, CallPlaces
  <2> QED
    BY <1>0, <1>5, <2>1 DEF Joined
<1> QED
  BY <1>2, <1>3, <1>4, <1>5 DEF View

LEMMA TickOnRuntime ==
    ASSUME RuntimeTypeOK, NEW t \in Timers, Tick(t)
    PROVE  OnRuntime({t})
<1> USE DEF OnRuntime, ClosesForGood, CallAside
<1>0. t \in Threads /\ closing \in {"no", "streams", "dxjl", "flag", "client", "done"}
  BY StockThreadsAssumption DEF RuntimeTypeOK
<1>1. CASE Elapses(t)
  BY <1>0, <1>1 DEF Elapses, RuntimeTypeOK, Calls
<1>2. CASE Releases(t)
  <2>1. UNCHANGED call \/ Step(t, "looks")
    BY <1>2 DEF Releases
  <2>2. Calls({t})
    BY <1>0, <2>1, StepMoves DEF CallPlaces, Calls, RuntimeTypeOK
  <2> QED
    BY <1>0, <1>2, <2>2 DEF Releases
<1>3. CASE Deactivates(t) \/ StopsSnapshot(t)
  <2>1. Calls({t})
    BY <1>0, <1>3, EndMoves DEF Deactivates, StopsSnapshot, Calls, RuntimeTypeOK
  <2> QED
    BY <1>0, <1>3, <2>1 DEF Deactivates, StopsSnapshot
<1>4. CASE Released(t)
  <2>1. Calls({t})
    BY <1>0, <1>4, StepMoves DEF Released, CallPlaces
  <2> QED
    BY <1>0, <1>4, <2>1 DEF Released
<1> QED
  BY <1>1, <1>2, <1>3, <1>4 DEF Tick

LEMMA StockOnRuntime ==
    ASSUME RuntimeTypeOK, StockStep
    PROVE  OnRuntime(Viewers \cup Timers)
<1>1. ASSUME NEW S \in SUBSET (Viewers \cup Timers), OnRuntime(S)
      PROVE  OnRuntime(Viewers \cup Timers)
  BY <1>1 DEF OnRuntime, Calls
<1>2. CASE \E v \in Viewers : View(v)
  BY <1>1, <1>2, ViewOnRuntime
<1>3. CASE \E t \in Timers : Tick(t)
  BY <1>1, <1>3, TickOnRuntime
<1>4. CASE \E p \in Readers : Deliver(p)
  <2>1. UNCHANGED runtimeVars
    BY <1>4 DEF Deliver, TakesLane, Delivers, Publishes, LeavesLane, AsideReaders
  <2> QED
    BY <2>1 DEF RuntimeTypeOK, OnRuntime, Calls, ClosesForGood
<1>5. CASE CloseStreams
  BY <1>5 DEF CloseStreams, Serves, RuntimeTypeOK, OnRuntime, Calls, ClosesForGood
<1> QED
  BY <1>2, <1>3, <1>4, <1>5 DEF StockStep

LEMMA PageOnRuntime ==
    ASSUME RuntimeTypeOK, NEW x \in Pagers, Page(x)
    PROVE  OnRuntime({x})
<1>1. x \in Threads
  BY DxjlThreadsAssumption
<1>2. CallKept
  BY DEF Page, PageBegins, PageAsked, PageReads, PageFails, PageEnds
<1>3. \/ Succeeds(x) \/ Breaks(x) \/ Refuses(x) \/ UNCHANGED call
      \/ Step(x, "looks") \/ Step(x, "no")
  BY DEF Page, PageBegins, PageAsked, PageReads, PageFails, PageEnds
<1>4. Calls({x})
  BY <1>1, <1>3, EndMoves, StepMoves DEF CallPlaces
<1> QED
  BY <1>2, <1>4 DEF CallKept, OnRuntime, ClosesForGood, RuntimeTypeOK

LEMMA CollectOnRuntime ==
    ASSUME RuntimeTypeOK, Collect
    PROVE  OnRuntime({Collector})
<1>1. Collector \in Threads
  BY DxjlThreadsAssumption
<1>2. CallKept
  BY DEF Collect, CollectorTurns, CollectorAcquires, CollectorMarks, CollectorSubscribed,
         CollectorSeeds, CollectorReceives, CollectorDrains, CollectorReads, CollectorEnds,
         CollectorReceived, CollectorFails, Stores, Puts, CallKept
<1>3. \/ Succeeds(Collector) \/ Breaks(Collector) \/ Refuses(Collector) \/ UNCHANGED call
      \/ Step(Collector, "looks") \/ Step(Collector, "no")
  BY DEF Collect, CollectorTurns, CollectorAcquires, CollectorMarks, CollectorSubscribed,
         CollectorSeeds, CollectorReceives, CollectorDrains, CollectorReads, CollectorEnds,
         CollectorReceived, CollectorFails, Stores, Puts, Ends
<1>4. Calls({Collector})
  BY <1>1, <1>3, EndMoves, StepMoves DEF CallPlaces
<1> QED
  BY <1>2, <1>4 DEF CallKept, OnRuntime, ClosesForGood, RuntimeTypeOK

LEMMA DxjlOnRuntime ==
    ASSUME RuntimeTypeOK, DxjlStep
    PROVE  OnRuntime(Pagers \cup {Collector})
<1>1. ASSUME NEW S \in SUBSET (Pagers \cup {Collector}), OnRuntime(S)
      PROVE  OnRuntime(Pagers \cup {Collector})
  BY <1>1 DEF OnRuntime, Calls
<1>2. CASE \E x \in Pagers : Page(x)
  BY <1>1, <1>2, PageOnRuntime
<1>3. CASE Collect
  BY <1>1, <1>3, CollectOnRuntime
<1>4. CASE \/ LineBreaks \/ ServerPushes \/ ServerAnswers \/ ProbeReads
           \/ \E w \in Listeners : Listen(w)
  <2>1. UNCHANGED runtimeVars
    BY <1>4 DEF LineBreaks, ServerPushes, ServerAnswers, ProbeReads, Listen, Joins9601, Ensures,
                Snapshots, Takes, Speaks, Strays, Leaves9601, AsideListener
  <2> QED
    BY <2>1 DEF RuntimeTypeOK, OnRuntime, Calls, ClosesForGood
<1>5. CASE CloseDxjl
  BY <1>5 DEF CloseDxjl, Shuts, RuntimeTypeOK, OnRuntime, Calls, ClosesForGood
<1> QED
  BY <1>2, <1>3, <1>4, <1>5 DEF DxjlStep

-----------------------------------------------------------------------------
(* The client and its calls                                                *)

\* The whole of a request's record.
RequestRecord == [at : {"none", "calls"}, retries : BOOLEAN, attempt : 1 .. 2, fresh : BOOLEAN]

LEMMA RecordsFit ==
    /\ NoRequest \in RequestRecord
    /\ \A retries \in BOOLEAN :
          [NoRequest EXCEPT !.at = "calls", !.retries = retries] \in RequestRecord
    /\ \A old \in RequestRecord :
          /\ [old EXCEPT !.attempt = 2] \in RequestRecord
          /\ \A fresh \in BOOLEAN : [old EXCEPT !.fresh = fresh] \in RequestRecord
          /\ \A retries \in {FALSE, old.retries} : [old EXCEPT !.retries = retries] \in RequestRecord
<1>1. NoRequest \in RequestRecord
  BY DEF NoRequest, RequestRecord
<1>2. ASSUME NEW retries \in BOOLEAN
      PROVE  [NoRequest EXCEPT !.at = "calls", !.retries = retries] \in RequestRecord
  BY <1>1 DEF RequestRecord
<1>3. ASSUME NEW old \in RequestRecord
      PROVE  /\ [old EXCEPT !.attempt = 2] \in RequestRecord
             /\ \A fresh \in BOOLEAN : [old EXCEPT !.fresh = fresh] \in RequestRecord
             /\ \A retries \in {FALSE, old.retries} : [old EXCEPT !.retries = retries] \in RequestRecord
  <2>1. [old EXCEPT !.attempt = 2] \in RequestRecord
    BY DEF RequestRecord
  <2>2. ASSUME NEW fresh \in BOOLEAN PROVE [old EXCEPT !.fresh = fresh] \in RequestRecord
    BY DEF RequestRecord
  <2>3. ASSUME NEW retries \in {FALSE, old.retries}
        PROVE  [old EXCEPT !.retries = retries] \in RequestRecord
    BY DEF RequestRecord
  <2> QED
    BY <2>1, <2>2, <2>3
<1> QED
  BY <1>1, <1>2, <1>3

LEMMA RequestActsFits ==
    ASSUME RuntimeTypeOK, NEW r \in Requests,
           RequestBegins(r) \/ RequestActs(r) \/ RequestEnds(r)
    PROVE  /\ Calls({r})
           /\ \E new \in RequestRecord : Ask(r, new)
           /\ UNCHANGED <<load, losses, preheat, heater, closing, main, connected>>
<1>0. r \in Threads /\ request[r] \in RequestRecord
  BY ThreadsAssumption DEF RuntimeTypeOK, RequestRecord
<1>1. CASE RequestBegins(r)
  <2>1. Calls({r})
    BY <1>0, <1>1, StepMoves DEF RequestBegins, CallPlaces
  <2>2. \E new \in RequestRecord : Ask(r, new)
    BY <1>1, RecordsFit DEF RequestBegins
  <2> QED
    BY <1>1, <2>1, <2>2 DEF RequestBegins, AsideRequests
<1>2. CASE RequestActs(r)
  <2>1. Calls({r})
    BY <1>0, <1>2, EndMoves DEF RequestActs
  <2>2. \E new \in RequestRecord : Ask(r, new)
    BY <1>0, <1>2, RecordsFit DEF RequestActs
  <2> QED
    BY <1>2, <2>1, <2>2 DEF RequestActs, AsideRequests
<1>3. CASE RequestEnds(r)
  <2>1. \E new \in RequestRecord : Ask(r, new)
    BY <1>0, <1>3, RecordsFit DEF RequestEnds
  <2>2. Calls({r})
    BY <1>0, <1>3, StepMoves DEF RequestEnds, CallPlaces
  <2> QED
    BY <1>3, <2>1, <2>2 DEF RequestEnds, AsideRequests
<1> QED
  BY <1>1, <1>2, <1>3

LEMMA RuntimeKeepsTypes ==
    ASSUME RuntimeTypeOK, RuntimeStep
    PROVE  RuntimeTypeOK'
<1>1. CASE \E x \in Threads : CallStep(x)
  <2>1. PICK x \in Threads : CallStep(x)
    BY <1>1
  <2>2. \E place \in CallPlaces : Step(x, place)
    BY <2>1 DEF CallStep, Looks, LogsIn, Resets, CallPlaces
  <2>3. Calls({x})
    BY <2>2, StepMoves
  <2>4. main' \in {"none", "up", "lost"} /\ connected' \in BOOLEAN
    BY <2>1 DEF CallStep, Looks, LogsIn, Connects, Resets, RuntimeTypeOK
  <2>5. UNCHANGED beside
    BY <2>1 DEF CallStep, Looks, LogsIn, Resets
  <2> QED
    BY <2>3, <2>4, <2>5 DEF RuntimeTypeOK, Calls
<1>2. CASE \E r \in Requests : RequestBegins(r) \/ RequestActs(r) \/ RequestEnds(r)
  <2>1. PICK r \in Requests : RequestBegins(r) \/ RequestActs(r) \/ RequestEnds(r)
    BY <1>2
  <2>2. \E new \in RequestRecord : Ask(r, new)
    BY <2>1, RequestActsFits
  <2>3. request' \in [Requests -> RequestRecord]
    BY <2>2 DEF Ask, RuntimeTypeOK, RequestRecord
  <2> QED
    BY <2>1, <2>3, RequestActsFits DEF RuntimeTypeOK, RequestRecord, Calls
<1>3. CASE ConnectRequested
  BY <1>3 DEF ConnectRequested, Connects, RuntimeTypeOK
<1>4. CASE Preheat
  BY <1>4 DEF Preheat, StartPreheat, HeaterLooks, HeaterLogsIn, HeaterWaits, HeaterEnds, Heats,
              AsideHeater, Connects, RuntimeTypeOK
<1>5. CASE MainBreaks
  <2>1. request' \in [Requests -> RequestRecord]
    <3>1. request \in [Requests -> RequestRecord]
      BY DEF RuntimeTypeOK, RequestRecord
    <3> QED
      BY <1>5, <3>1, RecordsFit DEF MainBreaks
  <2>2. losses' \in 0 .. MaxLosses
    <3>1. losses \in 0 .. MaxLosses /\ losses < MaxLosses /\ losses' = losses + 1
      BY <1>5 DEF MainBreaks, RuntimeTypeOK
    <3> QED
      BY <3>1, LossesAssumption
  <2> QED
    BY <1>5, <2>1, <2>2 DEF MainBreaks, RuntimeTypeOK, RequestRecord
<1>6. CASE MainRecovers \/ CloseFlag
  BY <1>6 DEF MainRecovers, CloseFlag, Shuts, RuntimeTypeOK
<1> QED
  BY <1>1, <1>2, <1>3, <1>4, <1>5, <1>6 DEF RuntimeStep

LEMMA NextKeepsTypes ==
    ASSUME RuntimeTypeOK, [Next]_vars
    PROVE  RuntimeTypeOK' /\ ClosesForGood
<1>1. CASE RuntimeStep
  <2>1. ClosesForGood
    BY <1>1 DEF RuntimeStep, CallStep, Looks, LogsIn, Resets, RequestBegins, RequestActs,
                RequestEnds, AsideRequests, ConnectRequested, Preheat, StartPreheat, HeaterLooks,
                HeaterLogsIn, HeaterWaits, HeaterEnds, AsideHeater, MainBreaks, MainRecovers,
                CloseFlag, Shuts, ClosesForGood, RuntimeTypeOK
  <2> QED
    BY <1>1, <2>1, RuntimeKeepsTypes
<1>2. ASSUME NEW S, OnRuntime(S)
      PROVE  RuntimeTypeOK' /\ ClosesForGood
  BY <1>2 DEF OnRuntime, Calls, ClosesForGood, RuntimeTypeOK
<1>3. CASE StockStep \/ DxjlStep
  BY <1>2, <1>3, StockOnRuntime, DxjlOnRuntime
<1>4. CASE CloseClient
  BY <1>4 DEF CloseClient, Shuts, RuntimeTypeOK, ClosesForGood
<1>5. CASE UNCHANGED vars
  BY <1>5 DEF vars, RuntimeTypeOK, ClosesForGood
<1> QED
  BY <1>1, <1>3, <1>4, <1>5 DEF Next

LEMMA RuntimeBegins == Init => RuntimeTypeOK /\ LoginIsDue
<1> SUFFICES ASSUME Init PROVE RuntimeTypeOK /\ LoginIsDue
  OBVIOUS
<1>1. request \in [Requests -> RequestRecord]
  BY RecordsFit DEF Init, RuntimeInit
<1>2. RuntimeTypeOK
  <2>1. losses \in 0 .. MaxLosses
    BY LossesAssumption DEF Init, RuntimeInit
  <2>2. call \in [Threads -> CallPlaces]
    BY DEF Init, RuntimeInit, CallPlaces
  <2> QED
    BY <1>1, <2>1, <2>2 DEF Init, RuntimeInit, RuntimeTypeOK, RequestRecord
<1>3. LoginIsDue
  BY DEF Init, RuntimeInit, LoginIsDue, NoRequest
<1> QED
  BY <1>2, <1>3

THEOREM RuntimeTypeCorrect == Spec => []RuntimeTypeOK
<1>1. Init => RuntimeTypeOK
  BY RuntimeBegins
<1>2. RuntimeTypeOK /\ [Next]_vars => RuntimeTypeOK'
  BY NextKeepsTypes
<1> QED
  BY <1>1, <1>2, PTL DEF Spec

-----------------------------------------------------------------------------
(* The second chance of a request                                          *)

\* A thread's step in call() leaves a request where its connection lives or a login
\* is due.
LEMMA CallKeepsLogin ==
    ASSUME RuntimeTypeOK, LoginIsDue, NEW x \in Threads, CallStep(x)
    PROVE  LoginIsDue'
<1> SUFFICES ASSUME NEW r \in Requests, request'[r].fresh, main' # "up", closing' = "no"
             PROVE  call'[r] = "resets" \/ (~connected' /\ call'[r] # "acts")
  BY DEF LoginIsDue
<1>0. r \in Threads /\ x \in Threads
  BY ThreadsAssumption
<1>1. UNCHANGED beside /\ main # "up"
  BY DEF CallStep, Looks, LogsIn, Connects, Resets
<1>2. call[r] = "resets" \/ (~connected /\ call[r] # "acts")
  BY <1>1 DEF LoginIsDue
<1>3. CASE Looks(x)
  BY <1>0, <1>2, <1>3 DEF Looks, Step, RuntimeTypeOK
<1>4. CASE LogsIn(x)
  BY <1>0, <1>1, <1>2, <1>4 DEF LogsIn, Connects, Step, RuntimeTypeOK
<1>5. CASE Resets(x)
  BY <1>0, <1>2, <1>5 DEF Resets, Step, RuntimeTypeOK
<1> QED
  BY <1>3, <1>4, <1>5 DEF CallStep

LEMMA RequestKeepsLogin ==
    ASSUME RuntimeTypeOK, LoginIsDue, NEW q \in Requests,
           RequestBegins(q) \/ RequestActs(q) \/ RequestEnds(q)
    PROVE  LoginIsDue'
<1> SUFFICES ASSUME NEW r \in Requests, request'[r].fresh, main' # "up", closing' = "no"
             PROVE  call'[r] = "resets" \/ (~connected' /\ call'[r] # "acts")
  BY DEF LoginIsDue
<1>0. r \in Threads /\ q \in Threads
  BY ThreadsAssumption
<1>1. UNCHANGED <<main, connected, closing>>
  BY RequestActsFits
<1>2. request[r].fresh => call[r] = "resets" \/ (~connected /\ call[r] # "acts")
  BY <1>1 DEF LoginIsDue
<1>3. CASE r # q
  BY <1>0, <1>1, <1>2, <1>3, RequestActsFits DEF Calls, Ask, RuntimeTypeOK
<1>4. CASE r = q /\ RequestBegins(q)
  BY <1>4 DEF RequestBegins, Ask, NoRequest, RuntimeTypeOK
<1>5. CASE r = q /\ RequestActs(q)
  <2>1. request[r].at = "calls" /\ call[r] = "acts"
    BY <1>5 DEF RequestActs, Succeeds, Breaks, Refuses
  <2>2. CASE Breaks(q)
    BY <1>0, <1>1, <1>5, <2>2 DEF Breaks, Verdict, Step, RuntimeTypeOK
  <2>3. CASE ~Breaks(q)
    <3>1. request'[r].fresh = request[r].fresh
      <4>1. request \in [Requests -> RequestRecord]
        BY DEF RuntimeTypeOK, RequestRecord
      <4>2. CASE Ask(r, request[r])
        BY <4>1, <4>2 DEF Ask
      <4>3. ASSUME NEW retries, Ask(r, [request[r] EXCEPT !.retries = retries])
            PROVE  request'[r].fresh = request[r].fresh
        BY <4>1, <4>3 DEF Ask, RequestRecord
      <4> QED
        BY <1>5, <2>3, <4>2, <4>3 DEF RequestActs
    <3> QED
      BY <1>1, <1>2, <2>1, <3>1
  <2> QED
    BY <2>2, <2>3
<1>6. CASE r = q /\ RequestEnds(q)
  <2>1. call[r] # "resets" /\ call'[r] # "acts"
    BY <1>0, <1>6 DEF RequestEnds, Finished, Step, RuntimeTypeOK
  <2>2. request'[r].fresh => request[r].fresh
    <3>1. request \in [Requests -> RequestRecord] /\ NoRequest.fresh = FALSE
      BY DEF RuntimeTypeOK, RequestRecord, NoRequest
    <3>2. CASE Ask(r, NoRequest)
      BY <3>1, <3>2 DEF Ask
    <3>3. CASE Ask(r, [request[r] EXCEPT !.attempt = 2])
      BY <3>1, <3>3 DEF Ask, RequestRecord
    <3> QED
      BY <1>6, <3>2, <3>3 DEF RequestEnds
  <2> QED
    BY <1>1, <1>2, <2>1, <2>2
<1> QED
  BY <1>3, <1>4, <1>5, <1>6

LEMMA LoginStays ==
    ASSUME RuntimeTypeOK, LoginIsDue, [Next]_vars
    PROVE  LoginIsDue'
<1> USE DEF LoginIsDue
<1>1. ASSUME NEW S, OnRuntime(S), Requests \cap S = {}
      PROVE  LoginIsDue'
  BY <1>1, ThreadsAssumption DEF OnRuntime, Calls, ClosesForGood
<1>2. CASE StockStep \/ DxjlStep
  BY <1>1, <1>2, StockOnRuntime, DxjlOnRuntime, ActorsAssumption
<1>3. CASE RuntimeStep
  <2>1. CASE ConnectRequested
    BY <2>1 DEF ConnectRequested, Connects
  <2>2. CASE Preheat
    BY <2>2 DEF Preheat, StartPreheat, HeaterLooks, HeaterLogsIn, HeaterWaits, HeaterEnds,
                AsideHeater, Connects
  <2>3. CASE MainBreaks
    BY <2>3 DEF MainBreaks, RuntimeTypeOK
  <2>4. CASE MainRecovers \/ CloseFlag
    BY <2>4 DEF MainRecovers, CloseFlag, Shuts
  <2> QED
    BY <1>3, <2>1, <2>2, <2>3, <2>4, CallKeepsLogin, RequestKeepsLogin DEF RuntimeStep
<1>4. CASE CloseClient
  BY <1>4 DEF CloseClient, Shuts
<1>5. CASE UNCHANGED vars
  BY <1>5 DEF vars
<1> QED
  BY <1>2, <1>3, <1>4, <1>5 DEF Next

\* server/runtime.py call(), server/app.py _call(): the one retry of a request meets a
\* connection that lives, whichever threads noticed that the old one was gone.
THEOREM SecondChanceHolds == Spec => []SecondChance
<1>1. Init => RuntimeTypeOK /\ LoginIsDue
  BY RuntimeBegins
<1>2. RuntimeTypeOK /\ LoginIsDue /\ [Next]_vars => RuntimeTypeOK' /\ LoginIsDue'
  BY NextKeepsTypes, LoginStays
<1>3. LoginIsDue => SecondChance
  BY DEF LoginIsDue, SecondChance
<1> QED
  BY <1>1, <1>2, <1>3, PTL DEF Spec

-----------------------------------------------------------------------------
(* The streams of stocks                                                   *)

StockInv ==
    /\ StockTypeOK /\ LockIsHeld /\ SubscribersFit /\ ActiveIsOn /\ TimersFit
    /\ IdleIsReleased

ViewerRecord == [at : ViewerPlaces, code : Codes \cup {Nobody}, timer : Timers \cup {Nobody}]
TimerRecord == [at : TimerPlaces, code : Codes \cup {Nobody}, live : BOOLEAN]
ReaderRecord == [at : {"none", "reads", "publishes"}, code : Codes \cup {Nobody}]

\* A viewer is in another place, and the others where they were.
ViewerAt(v, place) ==
    /\ viewer' \in [Viewers -> ViewerRecord]
    /\ viewer'[v].at = place
    /\ \A w \in Viewers \ {v} : viewer'[w] = viewer[w]

LEMMA ViewsMoves ==
    ASSUME StockTypeOK, NEW v \in Viewers, NEW place \in ViewerPlaces, Views(v, place)
    PROVE  ViewerAt(v, place) /\ viewer'[v].code = viewer[v].code /\ viewer'[v].timer = viewer[v].timer
<1>1. viewer \in [Viewers -> ViewerRecord]
  BY DEF StockTypeOK, ViewerRecord
<1> QED
  BY <1>1 DEF Views, ViewerAt, ViewerRecord

\* Who is not in the streams leaves them alone, unless a call of a viewer ends.
LEMMA StockAside ==
    ASSUME StockInv, UNCHANGED stockVars, ClosesForGood,
           \A v \in Viewers : call'[v] = "done" => call[v] = "done"
    PROVE  StockInv'
<1> USE DEF stockVars
<1>1. StockTypeOK' /\ LockIsHeld' /\ TimersFit' /\ IdleIsReleased'
  BY DEF StockInv, StockTypeOK, LockIsHeld, TimersFit, IdleIsReleased
<1>2. SubscribersFit'
  BY DEF StockInv, SubscribersFit, ClosesForGood
<1>3. ActiveIsOn'
  BY DEF StockInv, ActiveIsOn, ClosesForGood
<1> QED
  BY <1>1, <1>2, <1>3 DEF StockInv

LEMMA OpensKeeps ==
    ASSUME StockInv, NEW v \in Viewers, Opens(v)
    PROVE  StockInv'
<1>0. viewer \in [Viewers -> ViewerRecord]
  BY DEF StockInv, StockTypeOK, ViewerRecord
<1>1. PICK code \in Codes : viewer' = [viewer EXCEPT ![v] = [@ EXCEPT !.at = "joins", !.code = code]]
  BY DEF Opens
<1>2. ViewerAt(v, "joins") /\ viewer'[v].code = code
  BY <1>0, <1>1 DEF ViewerAt, ViewerRecord, ViewerPlaces
<1>3. /\ viewer[v].at = "away"
      /\ UNCHANGED <<call, closing, streamLock, subscribers, active, release, timer, events, lane, reader>>
  BY DEF Opens
<1>4. StockTypeOK'
  BY <1>2, <1>3 DEF StockInv, StockTypeOK, ViewerAt, ViewerRecord
<1>5. LockIsHeld'
  BY <1>2, <1>3 DEF StockInv, LockIsHeld, ViewerAt
<1>6. SubscribersFit'
  BY <1>2, <1>3 DEF StockInv, SubscribersFit, ViewerAt
<1>7. ActiveIsOn'
  BY <1>3 DEF StockInv, ActiveIsOn
<1>8. TimersFit'
  BY <1>2, <1>3 DEF StockInv, TimersFit, ViewerAt
<1>9. IdleIsReleased'
  BY <1>2, <1>3 DEF StockInv, IdleIsReleased, ViewerAt
<1> QED
  BY <1>4, <1>5, <1>6, <1>7, <1>8, <1>9 DEF StockInv

LEMMA JoinsKeeps ==
    ASSUME RuntimeTypeOK, StockInv, NEW v \in Viewers, Joins(v)
    PROVE  StockInv'
<1> DEFINE code == viewer[v].code
<1> DEFINE old == release[code]
<1>0. /\ code \in Codes /\ v \in Threads /\ old \in Timers \cup {Nobody}
      /\ timer \in [Timers -> TimerRecord] /\ viewer[v].at = "joins" /\ streamLock = Nobody
  BY StockThreadsAssumption
     DEF StockInv, StockTypeOK, LockIsHeld, ViewerRecord, TimerRecord, Joins
<1>1. /\ release' = [release EXCEPT ![code] = Nobody]
      /\ subscribers' = [subscribers EXCEPT ![code] = @ \cup {v}]
      /\ UNCHANGED <<closing, active, events, lane, reader>>
  BY DEF Joins, StopsRelease, CallAside
<1>2. /\ timer' \in [Timers -> TimerRecord]
      /\ \A t \in Timers : /\ timer'[t].at = timer[t].at /\ timer'[t].code = timer[t].code
                           /\ t # old => timer'[t] = timer[t]
  <2>1. CASE old = Nobody
    BY <1>0, <2>1 DEF Joins, StopsRelease
  <2>2. CASE old # Nobody
    <3>1. old \in Timers /\ timer' = [timer EXCEPT ![old].live = FALSE]
      BY <1>0, <2>2 DEF Joins, StopsRelease, Cancelled
    <3> QED
      BY <1>0, <3>1 DEF TimerRecord
  <2> QED
    BY <2>1, <2>2
<1>3. \/ /\ code \in active /\ ViewerAt(v, "watches") /\ UNCHANGED <<call, streamLock>>
      \/ /\ code \notin active /\ ViewerAt(v, "activates") /\ call'[v] = "looks" /\ streamLock' = v
         /\ Calls({v})
  <2>1. "watches" \in ViewerPlaces /\ "activates" \in ViewerPlaces /\ "looks" \in CallPlaces
    BY DEF ViewerPlaces, CallPlaces
  <2> QED
    BY <1>0, <2>1, ViewsMoves, StepMoves DEF Joins, StockInv
<1>4. viewer'[v].code = code /\ viewer'[v].timer = viewer[v].timer
  <2>1. "watches" \in ViewerPlaces /\ "activates" \in ViewerPlaces
    BY DEF ViewerPlaces
  <2> QED
    BY <2>1, ViewsMoves DEF Joins, StockInv
<1>5. /\ ViewerAt(v, viewer'[v].at) /\ viewer'[v].at \in {"watches", "activates"}
      /\ viewer'[v].at = "watches" => code \in active /\ streamLock' = Nobody
      /\ viewer'[v].at = "activates" => code \notin active /\ call'[v] # "done" /\ streamLock' = v
      /\ \A w \in Viewers \ {v} : call'[w] = call[w]
  BY <1>0, <1>3, StockThreadsAssumption DEF ViewerAt, Calls
<1> HIDE DEF code, old
<1>6. \A other \in Codes, w \in Viewers : w \in subscribers'[other] <=>
          w \in subscribers[other] \/ (w = v /\ other = code)
  BY <1>0, <1>1 DEF StockInv, StockTypeOK
<1>7. StockTypeOK'
  <2>1. subscribers' \in [Codes -> SUBSET Viewers]
    BY <1>0, <1>1 DEF StockInv, StockTypeOK
  <2>2. release' \in [Codes -> Timers \cup {Nobody}]
    BY <1>0, <1>1 DEF StockInv, StockTypeOK
  <2>3. streamLock' \in Viewers \cup Timers \cup {Nobody}
    BY <1>5
  <2> QED
    BY <1>1, <1>2, <1>5, <2>1, <2>2, <2>3
       DEF StockInv, StockTypeOK, ViewerAt, ViewerRecord, TimerRecord
<1>8. LockIsHeld'
  <2>1. ASSUME NEW w \in Viewers
        PROVE  /\ (viewer'[w].at = "activates") <=> (streamLock' = w)
               /\ viewer'[w].at # "away" => viewer'[w].code \in Codes
    BY <1>0, <1>4, <1>5, <2>1, ActorsAssumption DEF StockInv, LockIsHeld, ViewerAt, code
  <2>2. ASSUME NEW t \in Timers
        PROVE  /\ (timer'[t].at = "ends") <=> (streamLock' = t)
               /\ timer'[t].at # "free" => timer'[t].code \in Codes
    BY <1>0, <1>2, <1>5, <2>2, ActorsAssumption DEF StockInv, LockIsHeld
  <2> QED
    BY <2>1, <2>2 DEF LockIsHeld
<1>9. SubscribersFit'
  <2> SUFFICES ASSUME NEW w \in Viewers
               PROVE  /\ \A other \in Codes : w \in subscribers'[other] =>
                           viewer'[w].code = other /\ viewer'[w].at \in {"activates", "watches"}
                      /\ viewer'[w].at = "activates" =>
                           w \in subscribers'[viewer'[w].code] /\ viewer'[w].code \notin active'
                      /\ viewer'[w].at = "activates" /\ call'[w] = "done" /\ closing' = "no" =>
                           viewer'[w].code \in events'
                      /\ viewer'[w].at = "watches" /\ closing' = "no" =>
                           w \in subscribers'[viewer'[w].code] /\ viewer'[w].code \in active'
    BY DEF SubscribersFit
  <2>1. CASE w = v
    BY <1>0, <1>1, <1>4, <1>5, <1>6, <2>1 DEF StockInv, SubscribersFit, code
  <2>2. CASE w # v
    <3>1. viewer'[w] = viewer[w] /\ call'[w] = call[w]
      BY <1>5, <2>2 DEF ViewerAt
    <3>2. viewer[w].at # "away" => viewer[w].code \in Codes
      BY DEF StockInv, LockIsHeld
    <3> QED
      BY <1>1, <1>6, <2>2, <3>1, <3>2 DEF StockInv, SubscribersFit
  <2> QED
    BY <2>1, <2>2
<1>10. ActiveIsOn'
  BY <1>1, <1>2 DEF StockInv, ActiveIsOn
<1>11. TimersFit'
  <2>1. ASSUME NEW other \in Codes, release'[other] # Nobody
        PROVE  LET t == release'[other] IN
               timer'[t].live /\ timer'[t].code = other /\ timer'[t].at \in {"made", "runs", "fires"}
    <3>1. other # code /\ release'[other] = release[other] /\ release[other] \in Timers
      BY <1>0, <1>1, <2>1 DEF StockInv, StockTypeOK
    <3>2. release[other] # old
      BY <1>0, <2>1, <3>1 DEF StockInv, TimersFit, old
    <3>3. timer'[release[other]] = timer[release[other]]
      BY <1>2, <3>1, <3>2
    <3> QED
      BY <2>1, <3>1, <3>3 DEF StockInv, TimersFit
  <2>2. ASSUME NEW w \in Viewers, viewer'[w].at = "starts"
        PROVE  /\ viewer'[w].timer \in Timers /\ timer'[viewer'[w].timer].at = "made"
               /\ \A u \in Viewers :
                     viewer'[u].at = "starts" /\ viewer'[u].timer = viewer'[w].timer => u = w
    BY <1>2, <1>5, <2>2 DEF StockInv, TimersFit, ViewerAt
  <2> QED
    BY <2>1, <2>2 DEF TimersFit
<1>12. IdleIsReleased'
  <2> SUFFICES ASSUME NEW other \in active, subscribers'[other] = {}
               PROVE  \/ \E t \in Timers : release'[other] = t /\ timer'[t].live /\ timer'[t].at # "free"
                      \/ \E w \in Viewers : viewer'[w].code = other /\ viewer'[w].at = "leaves"
    BY <1>1 DEF IdleIsReleased
  <2>1. other \in Codes /\ other # code /\ subscribers[other] = {} /\ release'[other] = release[other]
    BY <1>0, <1>1, <1>6 DEF StockInv, StockTypeOK
  <2>2. CASE \E w \in Viewers : viewer[w].code = other /\ viewer[w].at = "leaves"
    BY <1>0, <1>5, <2>2 DEF ViewerAt
  <2>3. ASSUME NEW t \in Timers, release[other] = t, timer[t].live, timer[t].at # "free"
        PROVE  release'[other] = t /\ timer'[t].live /\ timer'[t].at # "free"
    <3>1. t # Nobody
      BY <2>3, ActorsAssumption
    <3>2. t # old
      BY <1>0, <2>1, <2>3, <3>1 DEF StockInv, TimersFit, old
    <3> QED
      BY <1>2, <2>1, <2>3, <3>2
  <2> QED
    BY <2>1, <2>2, <2>3 DEF StockInv, IdleIsReleased
<1> QED
  BY <1>7, <1>8, <1>9, <1>10, <1>11, <1>12 DEF StockInv

\* A step of a holder of the lock in its call moves nobody else.
LEMMA ActivatesKeeps ==
    ASSUME RuntimeTypeOK, StockInv, NEW v \in Viewers, Activates(v)
    PROVE  StockInv'
<1>0. viewer[v].at = "activates" /\ viewer[v].code \in Codes
  BY DEF Activates, StockInv, LockIsHeld
<1>1. UNCHANGED <<closing, streamLock, subscribers, active, release, timer, viewer, lane, reader>>
  BY DEF Activates, CallAside
<1>2. /\ \A w \in Viewers \ {v} : call'[w] = call[w]
      /\ call'[v] = "done" => viewer[v].code \in events'
  <2>1. Calls({v})
    BY StockThreadsAssumption, EndMoves DEF Activates
  <2>2. v \in Threads /\ call \in [Threads -> CallPlaces]
    BY StockThreadsAssumption DEF RuntimeTypeOK
  <2>3. Breaks(v) \/ Refuses(v) => call'[v] # "done"
    BY <2>2 DEF Breaks, Refuses, Step, Verdict
  <2>4. call'[v] = "done" => viewer[v].code \in events'
    BY <2>3 DEF Activates
  <2> QED
    BY <2>1, <2>4, StockThreadsAssumption DEF Calls
<1>3. events \subseteq events' /\ events' \subseteq Codes
  BY <1>0 DEF Activates, StockInv, StockTypeOK
<1>4. StockTypeOK' /\ LockIsHeld' /\ TimersFit' /\ IdleIsReleased'
  BY <1>1, <1>3 DEF StockInv, StockTypeOK, LockIsHeld, TimersFit, IdleIsReleased
<1>5. SubscribersFit'
  BY <1>1, <1>2, <1>3 DEF StockInv, SubscribersFit
<1>6. ActiveIsOn'
  BY <1>1, <1>3 DEF StockInv, ActiveIsOn
<1> QED
  BY <1>4, <1>5, <1>6 DEF StockInv

LEMMA JoinedKeeps ==
    ASSUME RuntimeTypeOK, StockInv, NEW v \in Viewers, Joined(v)
    PROVE  StockInv'
<1> DEFINE code == viewer[v].code
<1>0. /\ viewer[v].at = "activates" /\ code \in Codes /\ v \in Threads
      /\ v \in subscribers[code] /\ code \notin active /\ streamLock = v
  BY StockThreadsAssumption DEF Joined, StockInv, LockIsHeld, SubscribersFit
<1>1. streamLock' = Nobody /\ UNCHANGED <<closing, release, timer, events, lane, reader>>
  BY DEF Joined, CallAside
<1>2. Calls({v})
  <2>1. "no" \in CallPlaces
    BY DEF CallPlaces
  <2> QED
    BY <1>0, <2>1, StepMoves DEF Joined
<1>3. /\ ViewerAt(v, viewer'[v].at)
      /\ viewer'[v].code = code /\ viewer'[v].timer = viewer[v].timer
      /\ \/ /\ call[v] = "done" /\ viewer'[v].at = "watches"
            /\ active' = active \cup {code} /\ UNCHANGED subscribers
         \/ /\ viewer'[v].at = "away" /\ UNCHANGED active
            /\ subscribers' = [subscribers EXCEPT ![code] = @ \ {v}]
  <2>1. "watches" \in ViewerPlaces /\ "away" \in ViewerPlaces
    BY DEF ViewerPlaces
  <2>2. CASE call[v] = "done"
    BY <2>1, <2>2, ViewsMoves DEF Joined, StockInv, ViewerAt
  <2>3. CASE call[v] # "done"
    BY <2>1, <2>3, ViewsMoves DEF Joined, StockInv, ViewerAt
  <2> QED
    BY <2>2, <2>3
<1>4. \A w \in Viewers \ {v} : viewer'[w] = viewer[w] /\ call'[w] = call[w]
  BY <1>2, <1>3, StockThreadsAssumption DEF ViewerAt, Calls
<1>5. closing = "no" /\ viewer'[v].at = "watches" => code \in events
  BY <1>0, <1>3 DEF StockInv, SubscribersFit
<1> HIDE DEF code
<1>6. subscribers' \in [Codes -> SUBSET Viewers] /\ active' \subseteq Codes
  BY <1>0, <1>3 DEF StockInv, StockTypeOK
<1>7. \A other \in Codes, w \in Viewers :
         (w \in subscribers'[other]) <=>
            (w \in subscribers[other] /\ (w = v /\ other = code => viewer'[v].at = "watches"))
  BY <1>0, <1>3 DEF StockInv, StockTypeOK
<1>8. StockTypeOK'
  BY <1>1, <1>3, <1>6 DEF StockInv, StockTypeOK, ViewerAt, ViewerRecord
<1>9. LockIsHeld'
  <2>1. viewer'[v].at # "activates" /\ v # Nobody /\ viewer'[v].code \in Codes
    BY <1>0, <1>3, ActorsAssumption
  <2>2. ASSUME NEW w \in Viewers
        PROVE  /\ (viewer'[w].at = "activates") <=> (streamLock' = w)
               /\ viewer'[w].at # "away" => viewer'[w].code \in Codes
    BY <1>0, <1>1, <1>4, <2>1, ActorsAssumption DEF StockInv, LockIsHeld
  <2>3. ASSUME NEW t \in Timers
        PROVE  /\ (timer'[t].at = "ends") <=> (streamLock' = t)
               /\ timer'[t].at # "free" => timer'[t].code \in Codes
    BY <1>0, <1>1, ActorsAssumption DEF StockInv, LockIsHeld
  <2> QED
    BY <2>2, <2>3 DEF LockIsHeld
<1>10. SubscribersFit'
  <2> SUFFICES ASSUME NEW w \in Viewers
               PROVE  /\ \A other \in Codes : w \in subscribers'[other] =>
                           viewer'[w].code = other /\ viewer'[w].at \in {"activates", "watches"}
                      /\ viewer'[w].at = "activates" =>
                           w \in subscribers'[viewer'[w].code] /\ viewer'[w].code \notin active'
                      /\ viewer'[w].at = "activates" /\ call'[w] = "done" /\ closing' = "no" =>
                           viewer'[w].code \in events'
                      /\ viewer'[w].at = "watches" /\ closing' = "no" =>
                           w \in subscribers'[viewer'[w].code] /\ viewer'[w].code \in active'
    BY DEF SubscribersFit
  <2>1. CASE w = v
    BY <1>0, <1>1, <1>3, <1>7, <2>1 DEF StockInv, SubscribersFit, code
  <2>2. CASE w # v
    <3>1. viewer'[w] = viewer[w] /\ viewer[w].at # "activates"
      BY <1>0, <1>4, <2>2 DEF StockInv, LockIsHeld
    <3>2. viewer[w].at # "away" => viewer[w].code \in Codes
      BY DEF StockInv, LockIsHeld
    <3>3. active \subseteq active'
      BY <1>3
    <3> QED
      BY <1>1, <1>7, <2>2, <3>1, <3>2, <3>3 DEF StockInv, SubscribersFit
  <2> QED
    BY <2>1, <2>2
<1>11. ActiveIsOn'
  <2>1. \A t \in Timers : timer[t].at # "ends"
    BY <1>0, ActorsAssumption DEF StockInv, LockIsHeld
  <2> QED
    BY <1>1, <1>3, <1>5, <2>1 DEF StockInv, ActiveIsOn
<1>12. TimersFit'
  BY <1>1, <1>3, <1>4 DEF StockInv, TimersFit
<1>13. IdleIsReleased'
  <2> SUFFICES ASSUME NEW other \in active', subscribers'[other] = {}
               PROVE  \/ \E t \in Timers : release'[other] = t /\ timer'[t].live /\ timer'[t].at # "free"
                      \/ \E w \in Viewers : viewer'[w].code = other /\ viewer'[w].at = "leaves"
    BY DEF IdleIsReleased
  <2>1. other # code /\ other \in active
    BY <1>0, <1>3
  <2>2. other \in Codes /\ subscribers[other] = {}
    BY <1>3, <1>6, <1>7, <2>1 DEF StockInv, StockTypeOK
  <2>3. CASE \E w \in Viewers : viewer[w].code = other /\ viewer[w].at = "leaves"
    BY <1>0, <1>4, <2>3
  <2> QED
    BY <1>1, <2>1, <2>2, <2>3 DEF StockInv, IdleIsReleased
<1> QED
  BY <1>8, <1>9, <1>10, <1>11, <1>12, <1>13 DEF StockInv

LEMMA LeavesKeeps ==
    ASSUME StockInv, NEW v \in Viewers, Leaves(v)
    PROVE  StockInv'
<1> DEFINE code == viewer[v].code
<1>0. viewer[v].at = "watches" /\ code \in Codes /\ streamLock = Nobody
  BY DEF Leaves, StockInv, LockIsHeld
<1>1. /\ UNCHANGED <<call, closing, streamLock, active, release, timer, events, lane, reader>>
      /\ subscribers' = [subscribers EXCEPT ![code] = @ \ {v}]
  BY DEF Leaves
<1>2. /\ ViewerAt(v, viewer'[v].at)
      /\ viewer'[v].code = code /\ viewer'[v].timer = viewer[v].timer
      /\ viewer'[v].at = IF subscribers[code] = {v} THEN "leaves" ELSE "away"
  <2>1. "leaves" \in ViewerPlaces /\ "away" \in ViewerPlaces
    BY DEF ViewerPlaces
  <2> QED
    BY <2>1, ViewsMoves DEF Leaves, StockInv, ViewerAt
<1>3. \A w \in Viewers \ {v} : viewer'[w] = viewer[w]
  BY <1>2 DEF ViewerAt
<1> HIDE DEF code
<1>4. subscribers' \in [Codes -> SUBSET Viewers]
  BY <1>0, <1>1 DEF StockInv, StockTypeOK
<1>5. \A other \in Codes, w \in Viewers :
         (w \in subscribers'[other]) <=> (w \in subscribers[other] /\ ~(w = v /\ other = code))
  BY <1>0, <1>1 DEF StockInv, StockTypeOK
<1>6. StockTypeOK'
  BY <1>1, <1>2, <1>4 DEF StockInv, StockTypeOK, ViewerAt, ViewerRecord
<1>7. LockIsHeld'
  <2>1. ASSUME NEW w \in Viewers
        PROVE  /\ (viewer'[w].at = "activates") <=> (streamLock' = w)
               /\ viewer'[w].at # "away" => viewer'[w].code \in Codes
    BY <1>0, <1>1, <1>2, <1>3, ActorsAssumption DEF StockInv, LockIsHeld
  <2> QED
    BY <1>1, <2>1 DEF StockInv, LockIsHeld
<1>8. SubscribersFit'
  <2>1. viewer'[v].at \notin {"activates", "watches"}
    BY <1>2
  <2>2. \A other \in Codes : v \notin subscribers'[other]
    BY <1>0, <1>5 DEF StockInv, SubscribersFit, code
  <2>3. ASSUME NEW w \in Viewers, w # v
        PROVE  /\ viewer'[w] = viewer[w]
               /\ \A other \in Codes : (w \in subscribers'[other]) <=> (w \in subscribers[other])
               /\ viewer[w].at # "away" => viewer[w].code \in Codes
    BY <1>3, <1>5, <2>3 DEF StockInv, LockIsHeld
  <2> QED
    BY <1>1, <2>1, <2>2, <2>3 DEF StockInv, SubscribersFit
<1>9. ActiveIsOn'
  BY <1>1 DEF StockInv, ActiveIsOn
<1>10. TimersFit'
  BY <1>1, <1>2, <1>3 DEF StockInv, TimersFit
<1>11. IdleIsReleased'
  <2> SUFFICES ASSUME NEW other \in active, subscribers'[other] = {}
               PROVE  \/ \E t \in Timers : release'[other] = t /\ timer'[t].live /\ timer'[t].at # "free"
                      \/ \E w \in Viewers : viewer'[w].code = other /\ viewer'[w].at = "leaves"
    BY <1>1 DEF IdleIsReleased
  <2>1. other \in Codes
    BY DEF StockInv, StockTypeOK
  <2>2. CASE subscribers[other] = {}
    <3>1. ASSUME NEW w \in Viewers, viewer[w].code = other, viewer[w].at = "leaves"
          PROVE  viewer'[w].code = other /\ viewer'[w].at = "leaves"
      BY <1>0, <1>3, <3>1
    <3> QED
      BY <1>1, <2>2, <3>1 DEF StockInv, IdleIsReleased
  <2>3. CASE subscribers[other] # {}
    <3>1. other = code /\ subscribers[code] = {v}
      <4>1. subscribers[other] \subseteq Viewers
        BY <2>1 DEF StockInv, StockTypeOK
      <4> QED
        BY <1>5, <2>1, <2>3, <4>1
    <3> QED
      BY <1>2, <3>1
  <2> QED
    BY <2>2, <2>3
<1> QED
  BY <1>6, <1>7, <1>8, <1>9, <1>10, <1>11 DEF StockInv

LEMMA SchedulesKeeps ==
    ASSUME StockInv, NEW v \in Viewers, Schedules(v)
    PROVE  StockInv'
<1> DEFINE code == viewer[v].code
<1> DEFINE previous == release[code]
<1>0. /\ viewer[v].at = "leaves" /\ code \in Codes /\ streamLock = Nobody
      /\ timer \in [Timers -> TimerRecord] /\ viewer \in [Viewers -> ViewerRecord]
  BY DEF Schedules, StockInv, StockTypeOK, LockIsHeld, ViewerRecord, TimerRecord
<1>1. UNCHANGED <<call, closing, streamLock, subscribers, active, events, lane, reader>>
  BY DEF Schedules
<1>2. PICK t \in Timers :
         /\ timer[t].at = "free"
         /\ timer' = [x \in Timers |->
                         IF x = t THEN [at |-> "made", code |-> code, live |-> TRUE]
                         ELSE IF x = previous THEN [timer[x] EXCEPT !.live = FALSE]
                         ELSE timer[x]]
         /\ release' = [release EXCEPT ![code] = t]
         /\ viewer' = [viewer EXCEPT ![v] = [@ EXCEPT !.at = "starts", !.timer = t]]
  BY DEF Schedules
<1>3. /\ timer' \in [Timers -> TimerRecord]
      /\ timer'[t].at = "made" /\ timer'[t].code = code /\ timer'[t].live
      /\ \A x \in Timers \ {t} : /\ timer'[x].at = timer[x].at /\ timer'[x].code = timer[x].code
                                 /\ x # previous => timer'[x] = timer[x]
  <2>1. [at |-> "made", code |-> code, live |-> TRUE] \in TimerRecord
    BY <1>0 DEF TimerRecord, TimerPlaces
  <2>2. ASSUME NEW x \in Timers
        PROVE  /\ [timer[x] EXCEPT !.live = FALSE] \in TimerRecord
               /\ [timer[x] EXCEPT !.live = FALSE].at = timer[x].at
               /\ [timer[x] EXCEPT !.live = FALSE].code = timer[x].code
    BY <1>0 DEF TimerRecord
  <2>3. timer' \in [Timers -> TimerRecord]
    BY <1>0, <1>2, <2>1, <2>2
  <2>4. timer'[t] = [at |-> "made", code |-> code, live |-> TRUE]
    BY <1>2
  <2>5. ASSUME NEW x \in Timers \ {t}
        PROVE  /\ timer'[x].at = timer[x].at /\ timer'[x].code = timer[x].code
               /\ x # previous => timer'[x] = timer[x]
    BY <1>2, <2>2
  <2> QED
    BY <2>3, <2>4, <2>5
<1>4. /\ ViewerAt(v, "starts") /\ viewer'[v].code = code /\ viewer'[v].timer = t
      /\ \A w \in Viewers \ {v} : viewer'[w] = viewer[w]
  BY <1>0, <1>2 DEF ViewerAt, ViewerRecord, ViewerPlaces
<1> HIDE DEF code, previous
<1>5. t # Nobody /\ \A w \in Viewers : viewer[w].at = "starts" => viewer[w].timer # t
  BY <1>2, ActorsAssumption DEF StockInv, TimersFit
<1>6. StockTypeOK'
  <2>1. release' \in [Codes -> Timers \cup {Nobody}]
    BY <1>0, <1>2 DEF StockInv, StockTypeOK
  <2> QED
    BY <1>1, <1>3, <1>4, <2>1 DEF StockInv, StockTypeOK, ViewerAt, ViewerRecord, TimerRecord
<1>7. LockIsHeld'
  <2>1. ASSUME NEW w \in Viewers
        PROVE  /\ (viewer'[w].at = "activates") <=> (streamLock' = w)
               /\ viewer'[w].at # "away" => viewer'[w].code \in Codes
    BY <1>0, <1>1, <1>4, ActorsAssumption DEF StockInv, LockIsHeld, ViewerAt
  <2>2. ASSUME NEW x \in Timers
        PROVE  /\ (timer'[x].at = "ends") <=> (streamLock' = x)
               /\ timer'[x].at # "free" => timer'[x].code \in Codes
    BY <1>0, <1>1, <1>3, <1>5, ActorsAssumption DEF StockInv, LockIsHeld
  <2> QED
    BY <2>1, <2>2 DEF LockIsHeld
<1>8. SubscribersFit'
  BY <1>0, <1>1, <1>4 DEF StockInv, SubscribersFit, ViewerAt
<1>9. ActiveIsOn'
  BY <1>1, <1>3 DEF StockInv, ActiveIsOn
<1>10. TimersFit'
  <2>1. ASSUME NEW other \in Codes, release'[other] # Nobody
        PROVE  LET x == release'[other] IN
               timer'[x].live /\ timer'[x].code = other /\ timer'[x].at \in {"made", "runs", "fires"}
    <3>1. CASE other = code
      BY <1>0, <1>2, <1>3, <3>1 DEF StockInv, StockTypeOK
    <3>2. CASE other # code
      <4>1. release'[other] = release[other] /\ release[other] \in Timers
        BY <1>0, <1>2, <2>1, <3>2 DEF StockInv, StockTypeOK
      <4>2. release[other] # previous /\ release[other] # t
        BY <1>0, <1>2, <2>1, <3>2, <4>1 DEF StockInv, TimersFit, previous
      <4>3. timer'[release[other]] = timer[release[other]]
        BY <1>3, <4>1, <4>2
      <4> QED
        BY <2>1, <4>1, <4>3 DEF StockInv, TimersFit
    <3> QED
      BY <3>1, <3>2
  <2>2. ASSUME NEW w \in Viewers, viewer'[w].at = "starts"
        PROVE  viewer'[w].timer \in Timers /\ timer'[viewer'[w].timer].at = "made"
    BY <1>3, <1>4, <2>2 DEF StockInv, TimersFit
  <2>3. ASSUME NEW w \in Viewers, NEW u \in Viewers, viewer'[w].at = "starts",
               viewer'[u].at = "starts", viewer'[u].timer = viewer'[w].timer
        PROVE  u = w
    BY <1>4, <1>5, <2>3 DEF StockInv, TimersFit
  <2> QED
    BY <2>1, <2>2, <2>3 DEF TimersFit
<1>11. IdleIsReleased'
  <2> SUFFICES ASSUME NEW other \in active, subscribers[other] = {}
               PROVE  \/ \E x \in Timers : release'[other] = x /\ timer'[x].live /\ timer'[x].at # "free"
                      \/ \E w \in Viewers : viewer'[w].code = other /\ viewer'[w].at = "leaves"
    BY <1>1 DEF IdleIsReleased
  <2>1. CASE other = code
    BY <1>0, <1>2, <1>3, <2>1 DEF StockInv, StockTypeOK
  <2>2. CASE other # code
    <3>0. other \in Codes /\ release'[other] = release[other]
      BY <1>0, <1>2, <2>2 DEF StockInv, StockTypeOK
    <3>1. ASSUME NEW w \in Viewers, viewer[w].code = other, viewer[w].at = "leaves"
          PROVE  viewer'[w].code = other /\ viewer'[w].at = "leaves"
      BY <1>4, <2>2, <3>1 DEF code
    <3>2. ASSUME NEW x \in Timers, release[other] = x, timer[x].live, timer[x].at # "free"
          PROVE  release'[other] = x /\ timer'[x].live /\ timer'[x].at # "free"
      <4>1. x # Nobody /\ x # t
        BY <1>2, <3>2, ActorsAssumption
      <4>2. x # previous
        BY <1>0, <2>2, <3>0, <3>2, <4>1 DEF StockInv, TimersFit, previous
      <4> QED
        BY <1>3, <3>0, <3>2, <4>1, <4>2
    <3> QED
      BY <3>1, <3>2 DEF StockInv, IdleIsReleased
  <2> QED
    BY <2>1, <2>2
<1> QED
  BY <1>6, <1>7, <1>8, <1>9, <1>10, <1>11 DEF StockInv

LEMMA StartsKeeps ==
    ASSUME StockInv, NEW v \in Viewers, Starts(v)
    PROVE  StockInv'
<1> DEFINE t == viewer[v].timer
<1>0. /\ viewer[v].at = "starts" /\ t \in Timers /\ timer[t].at = "made" /\ viewer[v].code \in Codes
      /\ timer \in [Timers -> TimerRecord] /\ viewer \in [Viewers -> ViewerRecord]
      /\ timer[t].code \in Codes
  BY DEF Starts, StockInv, StockTypeOK, LockIsHeld, TimersFit, ViewerRecord, TimerRecord
<1>1. UNCHANGED <<call, closing, streamLock, subscribers, active, release, events, lane, reader>>
  BY DEF Starts
<1>2. /\ timer' \in [Timers -> TimerRecord]
      /\ \A x \in Timers \ {t} : timer'[x] = timer[x]
      /\ timer'[t].at \in {"free", "runs"}
      /\ timer[t].live => timer'[t].at = "runs" /\ timer'[t].live /\ timer'[t].code = timer[t].code
      /\ timer'[t].at = "runs" => timer'[t].code = timer[t].code
  <2>1. CASE timer[t].live
    BY <1>0, <2>1 DEF Starts, Ticks, TimerRecord, TimerPlaces
  <2>2. CASE ~timer[t].live
    <3>1. NoTimer \in TimerRecord /\ NoTimer.at = "free"
      BY DEF NoTimer, TimerRecord, TimerPlaces
    <3> QED
      BY <1>0, <2>2, <3>1 DEF Starts, Ticks
  <2> QED
    BY <2>1, <2>2
<1>3. ViewerAt(v, "away") /\ viewer'[v].code = viewer[v].code
      /\ \A w \in Viewers \ {v} : viewer'[w] = viewer[w]
  BY <1>0 DEF Starts, ViewerAt, ViewerRecord, ViewerPlaces
<1>4. \A w \in Viewers \ {v} : viewer[w].at = "starts" => viewer[w].timer # t
  BY <1>0 DEF StockInv, TimersFit
<1> HIDE DEF t
<1>5. StockTypeOK'
  BY <1>1, <1>2, <1>3 DEF StockInv, StockTypeOK, ViewerAt, ViewerRecord, TimerRecord
<1>6. LockIsHeld'
  <2>1. ASSUME NEW w \in Viewers
        PROVE  /\ (viewer'[w].at = "activates") <=> (streamLock' = w)
               /\ viewer'[w].at # "away" => viewer'[w].code \in Codes
    BY <1>0, <1>1, <1>3 DEF StockInv, LockIsHeld, ViewerAt
  <2>2. ASSUME NEW x \in Timers
        PROVE  /\ (timer'[x].at = "ends") <=> (streamLock' = x)
               /\ timer'[x].at # "free" => timer'[x].code \in Codes
    BY <1>0, <1>1, <1>2 DEF StockInv, LockIsHeld
  <2> QED
    BY <2>1, <2>2 DEF LockIsHeld
<1>7. SubscribersFit'
  BY <1>0, <1>1, <1>3 DEF StockInv, SubscribersFit, ViewerAt
<1>8. ActiveIsOn'
  BY <1>0, <1>1, <1>2 DEF StockInv, ActiveIsOn
<1>9. TimersFit'
  <2>1. ASSUME NEW other \in Codes, release'[other] # Nobody
        PROVE  LET x == release'[other] IN
               timer'[x].live /\ timer'[x].code = other /\ timer'[x].at \in {"made", "runs", "fires"}
    <3>1. release[other] \in Timers
      BY <1>1, <2>1 DEF StockInv, StockTypeOK
    <3>2. /\ timer[release[other]].live /\ timer[release[other]].code = other
          /\ timer[release[other]].at \in {"made", "runs", "fires"}
      BY <1>1, <2>1 DEF StockInv, TimersFit
    <3> QED
      BY <1>1, <1>2, <3>1, <3>2
  <2>2. ASSUME NEW w \in Viewers, viewer'[w].at = "starts"
        PROVE  /\ viewer'[w].timer \in Timers /\ timer'[viewer'[w].timer].at = "made"
               /\ \A u \in Viewers :
                     viewer'[u].at = "starts" /\ viewer'[u].timer = viewer'[w].timer => u = w
    BY <1>2, <1>3, <1>4, <2>2 DEF StockInv, TimersFit, ViewerAt
  <2> QED
    BY <2>1, <2>2 DEF TimersFit
<1>10. IdleIsReleased'
  <2> SUFFICES ASSUME NEW other \in active, subscribers[other] = {}
               PROVE  \/ \E x \in Timers : release'[other] = x /\ timer'[x].live /\ timer'[x].at # "free"
                      \/ \E w \in Viewers : viewer'[w].code = other /\ viewer'[w].at = "leaves"
    BY <1>1 DEF IdleIsReleased
  <2>1. ASSUME NEW w \in Viewers, viewer[w].code = other, viewer[w].at = "leaves"
        PROVE  viewer'[w].code = other /\ viewer'[w].at = "leaves"
    BY <1>0, <1>3, <2>1
  <2>2. ASSUME NEW x \in Timers, release[other] = x, timer[x].live, timer[x].at # "free"
        PROVE  release'[other] = x /\ timer'[x].live /\ timer'[x].at # "free"
    BY <1>1, <1>2, <2>2
  <2> QED
    BY <2>1, <2>2 DEF StockInv, IdleIsReleased
<1> QED
  BY <1>5, <1>6, <1>7, <1>8, <1>9, <1>10 DEF StockInv

\* A timer that is not in the table, and whose viewer has started it, may go on to
\* any place but that of the holder of the lock.
LEMMA TimerKeeps ==
    ASSUME StockInv, NEW t \in Timers,
           \A code \in Codes : release[code] # t,
           timer[t].at \in {"runs", "fires"},
           timer' \in [Timers -> TimerRecord],
           \A x \in Timers \ {t} : timer'[x] = timer[x],
           timer'[t].at \in {"free", "runs", "fires"},
           timer'[t].at # "free" => timer'[t].code \in Codes,
           UNCHANGED <<call, closing, streamLock, subscribers, active, release, viewer, events, lane, reader>>
    PROVE  StockInv'
<1>1. StockTypeOK'
  BY DEF StockInv, StockTypeOK, TimerRecord
<1>2. LockIsHeld'
  BY DEF StockInv, LockIsHeld
<1>3. SubscribersFit'
  BY DEF StockInv, SubscribersFit
<1>4. ActiveIsOn'
  BY DEF StockInv, ActiveIsOn
<1>5. TimersFit'
  <2>1. ASSUME NEW code \in Codes, release[code] # Nobody
        PROVE  release[code] \in Timers \ {t}
    BY <2>1 DEF StockInv, StockTypeOK
  <2> QED
    BY <2>1 DEF StockInv, TimersFit
<1>6. IdleIsReleased'
  <2>1. active \subseteq Codes
    BY DEF StockInv, StockTypeOK
  <2> QED
    BY <2>1 DEF StockInv, IdleIsReleased
<1> QED
  BY <1>1, <1>2, <1>3, <1>4, <1>5, <1>6 DEF StockInv

LEMMA ElapsesKeeps ==
    ASSUME StockInv, NEW t \in Timers, Elapses(t)
    PROVE  StockInv'
<1>0. /\ timer[t].at = "runs" /\ timer[t].code \in Codes /\ timer \in [Timers -> TimerRecord]
      /\ UNCHANGED <<call, closing, streamLock, subscribers, active, release, viewer, events, lane, reader>>
  BY DEF Elapses, StockInv, StockTypeOK, LockIsHeld, TimerRecord
<1>1. CASE ~timer[t].live
  <2>1. \A code \in Codes : release[code] # t
    BY <1>1, ActorsAssumption DEF StockInv, TimersFit
  <2>2. timer' = [timer EXCEPT ![t] = NoTimer] /\ NoTimer \in TimerRecord /\ NoTimer.at = "free"
    BY <1>1 DEF Elapses, Ticks, NoTimer, TimerRecord, TimerPlaces
  <2> QED
    BY <1>0, <2>1, <2>2, TimerKeeps
<1>2. CASE timer[t].live
  <2>1. /\ timer' \in [Timers -> TimerRecord]
        /\ \A x \in Timers \ {t} : timer'[x] = timer[x]
        /\ timer'[t].at = "fires" /\ timer'[t].live /\ timer'[t].code = timer[t].code
    BY <1>0, <1>2 DEF Elapses, Ticks, TimerRecord, TimerPlaces
  <2>2. StockTypeOK'
    BY <1>0, <2>1 DEF StockInv, StockTypeOK, TimerRecord
  <2>3. LockIsHeld'
    BY <1>0, <2>1 DEF StockInv, LockIsHeld
  <2>4. SubscribersFit'
    BY <1>0 DEF StockInv, SubscribersFit
  <2>5. ActiveIsOn'
    BY <1>0, <2>1 DEF StockInv, ActiveIsOn
  <2>6. TimersFit'
    <3>1. ASSUME NEW other \in Codes, release[other] # Nobody
          PROVE  LET x == release[other] IN
                 timer'[x].live /\ timer'[x].code = other /\ timer'[x].at \in {"made", "runs", "fires"}
      <4>1. release[other] \in Timers
        BY <3>1 DEF StockInv, StockTypeOK
      <4>2. /\ timer[release[other]].live /\ timer[release[other]].code = other
            /\ timer[release[other]].at \in {"made", "runs", "fires"}
        BY <3>1 DEF StockInv, TimersFit
      <4> QED
        BY <2>1, <4>1, <4>2
    <3> QED
      BY <1>0, <2>1, <3>1 DEF StockInv, TimersFit
  <2>7. IdleIsReleased'
    BY <1>0, <2>1 DEF StockInv, IdleIsReleased
  <2> QED
    BY <2>2, <2>3, <2>4, <2>5, <2>6, <2>7 DEF StockInv
<1> QED
  BY <1>1, <1>2

LEMMA ReleasesKeeps ==
    ASSUME RuntimeTypeOK, StockInv, NEW t \in Timers, Releases(t)
    PROVE  StockInv'
<1> DEFINE code == timer[t].code
<1> DEFINE due == release[code] = t /\ ~Viewed(code) /\ code \in active
<1>0. /\ timer[t].at = "fires" /\ code \in Codes /\ timer \in [Timers -> TimerRecord]
      /\ streamLock = Nobody /\ t \in Threads /\ t # Nobody
  BY StockThreadsAssumption, ActorsAssumption
     DEF Releases, StockInv, StockTypeOK, LockIsHeld, TimerRecord
<1>1. UNCHANGED <<closing, subscribers, viewer, events, lane, reader>>
  BY DEF Releases, CallAside
<1>2. /\ release' \in [Codes -> Timers \cup {Nobody}]
      /\ release'[code] # t
      /\ release[code] # t => release'[code] = release[code]
      /\ \A other \in Codes \ {code} : release'[other] = release[other] /\ release[other] # t
      /\ release'[code] = Nobody \/ release'[code] = release[code]
  <2>1. \A other \in Codes \ {code} : release[other] # t
    BY <1>0 DEF StockInv, TimersFit
  <2>2. release \in [Codes -> Timers \cup {Nobody}]
    BY DEF StockInv, StockTypeOK
  <2> QED
    BY <1>0, <2>1, <2>2 DEF Releases, Taken
<1>3. /\ \A v \in Viewers : call'[v] = call[v]
      /\ \/ /\ due /\ active' = active \ {code} /\ streamLock' = t /\ timer'[t].at = "ends"
            /\ timer'[t].code = code
         \/ /\ ~due /\ timer'[t].at = "free" /\ UNCHANGED <<active, streamLock>>
      /\ timer' \in [Timers -> TimerRecord]
      /\ \A x \in Timers \ {t} : timer'[x] = timer[x]
  <2>1. CASE due
    <3>1. active' = active \ {code} /\ streamLock' = t /\ Step(t, "looks")
          /\ Ticks(t, [timer[t] EXCEPT !.at = "ends"])
      BY <2>1 DEF Releases
    <3>2. /\ timer' \in [Timers -> TimerRecord] /\ timer'[t].at = "ends" /\ timer'[t].code = code
          /\ \A x \in Timers \ {t} : timer'[x] = timer[x]
      BY <1>0, <3>1 DEF Ticks, TimerRecord, TimerPlaces
    <3>3. Calls({t})
      BY <1>0, <3>1, StepMoves DEF CallPlaces
    <3> QED
      BY <2>1, <3>1, <3>2, <3>3, StockThreadsAssumption, ActorsAssumption DEF Calls
  <2>2. CASE ~due
    <3>1. Ticks(t, NoTimer) /\ UNCHANGED <<active, streamLock, call>>
      BY <2>2 DEF Releases
    <3>2. NoTimer \in TimerRecord /\ NoTimer.at = "free"
      BY DEF NoTimer, TimerRecord, TimerPlaces
    <3> QED
      BY <1>0, <2>2, <3>1, <3>2 DEF Ticks
  <2> QED
    BY <2>1, <2>2
<1> HIDE DEF code
<1>4. active' \subseteq active
  BY <1>3
<1>5. StockTypeOK'
  BY <1>1, <1>2, <1>3, <1>4 DEF StockInv, StockTypeOK, TimerRecord
<1>6. LockIsHeld'
  <2>1. ASSUME NEW v \in Viewers
        PROVE  (viewer'[v].at = "activates") <=> (streamLock' = v)
    BY <1>0, <1>1, <1>3, ActorsAssumption DEF StockInv, LockIsHeld
  <2>2. ASSUME NEW x \in Timers
        PROVE  /\ (timer'[x].at = "ends") <=> (streamLock' = x)
               /\ timer'[x].at # "free" => timer'[x].code \in Codes
    BY <1>0, <1>3, ActorsAssumption DEF StockInv, LockIsHeld
  <2> QED
    BY <1>1, <2>1, <2>2 DEF StockInv, LockIsHeld
<1>7. SubscribersFit'
  <2>1. ASSUME NEW v \in Viewers, viewer[v].at = "watches", closing = "no"
        PROVE  viewer[v].code \in active'
    <3>1. v \in subscribers[viewer[v].code] /\ viewer[v].code \in active
      BY <2>1 DEF StockInv, SubscribersFit
    <3> QED
      BY <1>3, <3>1 DEF Viewed
  <2> QED
    BY <1>1, <1>3, <1>4, <2>1 DEF StockInv, SubscribersFit
<1>8. ActiveIsOn'
  <2>1. \A x \in Timers \ {t} : timer[x].at # "ends"
    BY <1>0, ActorsAssumption DEF StockInv, LockIsHeld
  <2> QED
    BY <1>1, <1>3, <1>4, <2>1 DEF StockInv, ActiveIsOn
<1>9. TimersFit'
  <2>1. ASSUME NEW other \in Codes, release'[other] # Nobody
        PROVE  LET x == release'[other] IN
               timer'[x].live /\ timer'[x].code = other /\ timer'[x].at \in {"made", "runs", "fires"}
    <3>1. release'[other] = release[other] /\ release'[other] \in Timers \ {t}
      BY <1>2, <2>1
    <3> QED
      BY <1>3, <2>1, <3>1 DEF StockInv, TimersFit
  <2> QED
    BY <1>0, <1>1, <1>3, <2>1 DEF StockInv, TimersFit
<1>10. IdleIsReleased'
  <2> SUFFICES ASSUME NEW other \in active', subscribers[other] = {}
               PROVE  \/ \E x \in Timers : release'[other] = x /\ timer'[x].live /\ timer'[x].at # "free"
                      \/ \E v \in Viewers : viewer[v].code = other /\ viewer[v].at = "leaves"
    BY <1>1 DEF IdleIsReleased
  <2>1. other \in active /\ other \in Codes
    BY <1>4 DEF StockInv, StockTypeOK
  <2>2. release[other] # t
    <3>1. CASE other = code
      BY <1>3, <2>1, <3>1 DEF Viewed
    <3> QED
      BY <1>2, <2>1, <3>1
  <2>3. release'[other] = release[other]
    BY <1>2, <2>1, <2>2
  <2> QED
    BY <1>3, <2>1, <2>2, <2>3 DEF StockInv, IdleIsReleased
<1> QED
  BY <1>5, <1>6, <1>7, <1>8, <1>9, <1>10 DEF StockInv

LEMMA DeactivatesKeeps ==
    ASSUME RuntimeTypeOK, StockInv, NEW t \in Timers, Deactivates(t) \/ StopsSnapshot(t)
    PROVE  StockInv'
<1>0. timer[t].at = "ends" /\ timer[t].code \in Codes /\ timer[t].code \notin active
  BY DEF Deactivates, StopsSnapshot, StockInv, LockIsHeld, ActiveIsOn
<1>1. UNCHANGED <<closing, streamLock, subscribers, active, release, timer, viewer, lane, reader>>
  BY DEF Deactivates, StopsSnapshot, CallAside
<1>2. \A v \in Viewers : viewer[v].at # "activates"
  BY <1>0, ActorsAssumption DEF StockInv, LockIsHeld
<1>3. events' \subseteq events /\ events \ {timer[t].code} \subseteq events'
  BY DEF Deactivates, StopsSnapshot
<1>4. StockTypeOK' /\ LockIsHeld' /\ TimersFit' /\ IdleIsReleased'
  BY <1>1, <1>3 DEF StockInv, StockTypeOK, LockIsHeld, TimersFit, IdleIsReleased
<1>5. SubscribersFit'
  BY <1>1, <1>2 DEF StockInv, SubscribersFit
<1>6. ActiveIsOn'
  BY <1>0, <1>1, <1>3 DEF StockInv, ActiveIsOn
<1> QED
  BY <1>4, <1>5, <1>6 DEF StockInv

LEMMA ReleasedKeeps ==
    ASSUME RuntimeTypeOK, StockInv, NEW t \in Timers, Released(t)
    PROVE  StockInv'
<1>0. timer[t].at = "ends" /\ streamLock = t /\ t # Nobody /\ timer \in [Timers -> TimerRecord]
  BY ActorsAssumption DEF Released, StockInv, StockTypeOK, LockIsHeld, TimerRecord
<1>1. /\ streamLock' = Nobody
      /\ UNCHANGED <<closing, subscribers, active, release, viewer, events, lane, reader>>
  BY DEF Released, CallAside
<1>2. /\ timer' \in [Timers -> TimerRecord] /\ timer'[t].at = "free"
      /\ \A x \in Timers \ {t} : timer'[x] = timer[x]
  <2>1. NoTimer \in TimerRecord /\ NoTimer.at = "free"
    BY DEF NoTimer, TimerRecord, TimerPlaces
  <2> QED
    BY <1>0, <2>1 DEF Released, Ticks
<1>3. \A v \in Viewers : viewer[v].at # "activates"
  BY <1>0, ActorsAssumption DEF StockInv, LockIsHeld
<1>4. StockTypeOK'
  BY <1>1, <1>2 DEF StockInv, StockTypeOK, TimerRecord
<1>5. LockIsHeld'
  <2>1. \A v \in Viewers : v # Nobody
    BY ActorsAssumption
  <2>2. ASSUME NEW x \in Timers
        PROVE  /\ (timer'[x].at = "ends") <=> (streamLock' = x)
               /\ timer'[x].at # "free" => timer'[x].code \in Codes
    BY <1>0, <1>1, <1>2, ActorsAssumption DEF StockInv, LockIsHeld
  <2> QED
    BY <1>1, <1>3, <2>1, <2>2 DEF StockInv, LockIsHeld
<1>6. SubscribersFit'
  BY <1>1, <1>3 DEF StockInv, SubscribersFit
<1>7. ActiveIsOn'
  BY <1>1, <1>2 DEF StockInv, ActiveIsOn
<1>8. TimersFit'
  <2>1. ASSUME NEW other \in Codes, release[other] # Nobody
        PROVE  release[other] \in Timers \ {t}
    BY <1>0, <2>1 DEF StockInv, StockTypeOK, TimersFit
  <2> QED
    BY <1>0, <1>1, <1>2, <2>1 DEF StockInv, TimersFit
<1>9. IdleIsReleased'
  <2>1. \A other \in Codes : release[other] # t
    BY <1>0 DEF StockInv, TimersFit
  <2>2. active \subseteq Codes
    BY DEF StockInv, StockTypeOK
  <2> QED
    BY <1>1, <1>2, <2>1, <2>2 DEF StockInv, IdleIsReleased
<1> QED
  BY <1>4, <1>5, <1>6, <1>7, <1>8, <1>9 DEF StockInv

LEMMA DeliverKeeps ==
    ASSUME StockInv, NEW p \in Readers, Deliver(p)
    PROVE  StockInv'
<1>0. reader \in [Readers -> ReaderRecord] /\ events \subseteq Codes
  BY DEF StockInv, StockTypeOK, ReaderRecord
<1>1. UNCHANGED <<call, closing, streamLock, subscribers, active, release, timer, viewer, events>>
  BY DEF Deliver, TakesLane, Delivers, Publishes, LeavesLane, AsideReaders
<1>2. \E new \in ReaderRecord : Reads(p, new)
  <2>1. /\ \A place \in {"none", "reads"} : [at |-> place, code |-> Nobody] \in ReaderRecord
        /\ \A code \in Codes : [at |-> "publishes", code |-> code] \in ReaderRecord
    BY DEF ReaderRecord
  <2> QED
    BY <1>0, <2>1 DEF Deliver, TakesLane, Delivers, Publishes, LeavesLane
<1>3. reader' \in [Readers -> ReaderRecord]
  BY <1>0, <1>2 DEF Reads
<1>4. lane' \in LaneReaders \cup {Nobody}
  BY DEF Deliver, TakesLane, Delivers, Publishes, LeavesLane, StockInv, StockTypeOK
<1>5. StockTypeOK'
  BY <1>1, <1>3, <1>4 DEF StockInv, StockTypeOK, ReaderRecord
<1>6. LockIsHeld' /\ SubscribersFit' /\ ActiveIsOn' /\ TimersFit' /\ IdleIsReleased'
  BY <1>1 DEF StockInv, LockIsHeld, SubscribersFit, ActiveIsOn, TimersFit, IdleIsReleased
<1> QED
  BY <1>5, <1>6 DEF StockInv

LEMMA CloseKeeps ==
    ASSUME StockInv, CloseStreams
    PROVE  StockInv'
<1>1. /\ streamLock = Nobody /\ closing' = "streams" /\ subscribers' = [code \in Codes |-> {}]
      /\ active' = {} /\ release' = [code \in Codes |-> Nobody]
      /\ UNCHANGED <<call, streamLock, viewer, events, lane, reader>>
  BY DEF CloseStreams
<1>2. /\ timer' \in [Timers -> TimerRecord]
      /\ \A t \in Timers : timer'[t].at = timer[t].at /\ timer'[t].code = timer[t].code
  <2>1. timer \in [Timers -> TimerRecord]
    BY DEF StockInv, StockTypeOK, TimerRecord
  <2>2. ASSUME NEW t \in Timers, NEW live \in BOOLEAN
        PROVE  /\ [timer[t] EXCEPT !.live = live] \in TimerRecord
               /\ [timer[t] EXCEPT !.live = live].at = timer[t].at
               /\ [timer[t] EXCEPT !.live = live].code = timer[t].code
    BY <2>1 DEF TimerRecord
  <2>3. \A t \in Timers : \E live \in BOOLEAN : timer'[t] = [timer[t] EXCEPT !.live = live]
    BY DEF CloseStreams
  <2>4. DOMAIN timer' = Timers /\ timer' = [t \in Timers |-> timer'[t]]
    BY DEF CloseStreams
  <2>5. ASSUME NEW t \in Timers
        PROVE  /\ timer'[t] \in TimerRecord
               /\ timer'[t].at = timer[t].at /\ timer'[t].code = timer[t].code
    <3>1. PICK live \in BOOLEAN : timer'[t] = [timer[t] EXCEPT !.live = live]
      BY <2>3
    <3> QED
      BY <2>2, <3>1
  <2>6. timer' \in [Timers -> TimerRecord]
    <3> DEFINE f == timer'
    <3>1. \A t \in Timers : f[t] \in TimerRecord
      BY <2>5
    <3>2. f = [t \in Timers |-> f[t]]
      BY <2>4
    <3> HIDE DEF f
    <3>3. f \in [Timers -> TimerRecord]
      BY <3>1, <3>2
    <3> QED
      BY <3>3 DEF f
  <2> QED
    BY <2>5, <2>6
<1>3. /\ \A v \in Viewers : viewer[v].at # "activates"
      /\ \A t \in Timers : timer[t].at # "ends"
  BY <1>1, ActorsAssumption DEF StockInv, LockIsHeld
<1>4. StockTypeOK'
  BY <1>1, <1>2 DEF StockInv, StockTypeOK, TimerRecord
<1>5. LockIsHeld'
  BY <1>1, <1>2 DEF StockInv, LockIsHeld
<1>6. SubscribersFit'
  BY <1>1, <1>3 DEF SubscribersFit
<1>7. ActiveIsOn'
  BY <1>1 DEF ActiveIsOn
<1>8. TimersFit'
  BY <1>1, <1>2 DEF StockInv, TimersFit
<1>9. IdleIsReleased'
  BY <1>1 DEF IdleIsReleased
<1> QED
  BY <1>4, <1>5, <1>6, <1>7, <1>8, <1>9 DEF StockInv

\* No call of a viewer ends in a step of another thread.
LEMMA CallsOfViewers ==
    ASSUME RuntimeTypeOK, RuntimeStep, NEW v \in Viewers, call'[v] = "done"
    PROVE  call[v] = "done"
<1>0. v \in Threads /\ v \notin Requests
  BY StockThreadsAssumption, ActorsAssumption
<1>1. CASE \E x \in Threads : CallStep(x)
  BY <1>0, <1>1 DEF CallStep, Looks, LogsIn, Resets, Step, RuntimeTypeOK
<1>2. CASE \E r \in Requests : RequestBegins(r) \/ RequestActs(r) \/ RequestEnds(r)
  BY <1>0, <1>2, RequestActsFits DEF Calls
<1>3. CASE ConnectRequested \/ Preheat \/ MainBreaks \/ MainRecovers \/ CloseFlag
  <2>1. UNCHANGED call
    BY <1>3 DEF ConnectRequested, Preheat, StartPreheat, HeaterLooks, HeaterLogsIn, HeaterWaits,
                HeaterEnds, AsideHeater, MainBreaks, MainRecovers, CloseFlag
  <2> QED
    BY <2>1
<1> QED
  BY <1>1, <1>2, <1>3 DEF RuntimeStep

LEMMA StockStays ==
    ASSUME RuntimeTypeOK, StockInv, [Next]_vars
    PROVE  StockInv'
<1>0. ClosesForGood
  BY NextKeepsTypes
<1>1. CASE RuntimeStep /\ UNCHANGED <<stockVars, dxjlVars>>
  BY <1>0, <1>1, CallsOfViewers, StockAside
<1>2. CASE DxjlStep /\ UNCHANGED stockVars
  <2>1. \A v \in Viewers : call'[v] = call[v]
    BY <1>2, DxjlOnRuntime, StockThreadsAssumption, ActorsAssumption DEF OnRuntime, Calls
  <2> QED
    BY <1>0, <1>2, <2>1, StockAside
<1>3. CASE StockStep
  BY <1>3, OpensKeeps, JoinsKeeps, ActivatesKeeps, JoinedKeeps, LeavesKeeps, SchedulesKeeps,
     StartsKeeps, ElapsesKeeps, ReleasesKeeps, DeactivatesKeeps, ReleasedKeeps, DeliverKeeps,
     CloseKeeps DEF StockStep, View, Tick
<1>4. CASE CloseClient
  <2>1. /\ closing' = "done" /\ events' = {}
        /\ UNCHANGED <<call, streamLock, subscribers, active, release, timer, viewer, lane, reader>>
    BY <1>4 DEF CloseClient, Shuts
  <2>2. StockTypeOK' /\ LockIsHeld' /\ TimersFit' /\ IdleIsReleased'
    BY <2>1 DEF StockInv, StockTypeOK, LockIsHeld, TimersFit, IdleIsReleased
  <2>3. SubscribersFit' /\ ActiveIsOn'
    BY <2>1 DEF StockInv, SubscribersFit, ActiveIsOn
  <2> QED
    BY <2>2, <2>3 DEF StockInv
<1>5. CASE UNCHANGED vars
  BY <1>0, <1>5, StockAside DEF vars
<1> QED
  BY <1>1, <1>2, <1>3, <1>4, <1>5 DEF Next

LEMMA StockBegins == Init => StockInv
<1> SUFFICES ASSUME Init PROVE StockInv
  OBVIOUS
<1> USE DEF Init, StockInit
<1>1. StockTypeOK
  BY DEF StockTypeOK, NoTimer, ViewerPlaces, TimerPlaces
<1>2. LockIsHeld
  BY ActorsAssumption DEF LockIsHeld, NoTimer
<1>3. SubscribersFit /\ ActiveIsOn /\ TimersFit /\ IdleIsReleased
  BY DEF SubscribersFit, ActiveIsOn, TimersFit, IdleIsReleased, NoTimer
<1> QED
  BY <1>1, <1>2, <1>3 DEF StockInv

\* The variables of the streams keep their types, and who keeps the stream lock over a
\* call of the client is in it.
THEOREM StockTypeCorrect == Spec => [](StockTypeOK /\ LockIsHeld)
<1>1. Init => RuntimeTypeOK /\ StockInv
  BY RuntimeBegins, StockBegins
<1>2. RuntimeTypeOK /\ StockInv /\ [Next]_vars => RuntimeTypeOK' /\ StockInv'
  BY NextKeepsTypes, StockStays
<1>3. StockInv => StockTypeOK /\ LockIsHeld
  BY DEF StockInv
<1> QED
  BY <1>1, <1>2, <1>3, PTL DEF Spec

\* server/runtime.py subscribe_stock_stream(), _release_stock_stream(): a stock that has
\* viewers is subscribed, or is being subscribed by one of them.
THEOREM WatchedIsActiveHolds == Spec => []WatchedIsActive
<1>1. Init => RuntimeTypeOK /\ StockInv
  BY RuntimeBegins, StockBegins
<1>2. RuntimeTypeOK /\ StockInv /\ [Next]_vars => RuntimeTypeOK' /\ StockInv'
  BY NextKeepsTypes, StockStays
<1>3. StockInv => WatchedIsActive
  <2> SUFFICES ASSUME StockInv, NEW code \in Codes, NEW v \in subscribers[code], closing = "no"
               PROVE  \/ code \in active /\ code \in events
                      \/ \E w \in subscribers[code] : viewer[w].at = "activates" /\ streamLock = w
    BY DEF WatchedIsActive
  <2>1. v \in Viewers
    BY DEF StockInv, StockTypeOK
  <2>2. viewer[v].code = code /\ viewer[v].at \in {"activates", "watches"}
    BY <2>1 DEF StockInv, SubscribersFit
  <2>3. CASE viewer[v].at = "activates"
    BY <2>1, <2>3 DEF StockInv, LockIsHeld
  <2>4. CASE viewer[v].at = "watches"
    BY <2>1, <2>2, <2>4 DEF StockInv, SubscribersFit, ActiveIsOn
  <2> QED
    BY <2>2, <2>3, <2>4
<1> QED
  BY <1>1, <1>2, <1>3, PTL DEF Spec

\* server/runtime.py unsubscribe_stock_stream(): a subscription that nobody views any
\* more is on its way out.
THEOREM IdleIsReleasedHolds == Spec => []IdleIsReleased
<1>1. Init => RuntimeTypeOK /\ StockInv
  BY RuntimeBegins, StockBegins
<1>2. RuntimeTypeOK /\ StockInv /\ [Next]_vars => RuntimeTypeOK' /\ StockInv'
  BY NextKeepsTypes, StockStays
<1>3. StockInv => IdleIsReleased
  BY DEF StockInv
<1> QED
  BY <1>1, <1>2, <1>3, PTL DEF Spec

-----------------------------------------------------------------------------
(* Copies of a push in sequences of rows                                   *)

Places(rows, p) == {i \in DOMAIN rows : rows[i] = p}
Copies(rows, p) == Cardinality(Places(rows, p))

LEMMA PlacesFinite ==
    ASSUME NEW s \in Seq(Nat), NEW p
    PROVE  IsFiniteSet(Places(s, p)) /\ Copies(s, p) \in Nat
<1>1. IsFiniteSet(1 .. Len(s))
  BY FS_Interval
<1>2. Places(s, p) \in SUBSET (1 .. Len(s))
  BY DEF Places
<1> QED
  BY <1>1, <1>2, FS_Subset, FS_CardinalityType DEF Copies

LEMMA CopiesNone ==
    ASSUME NEW s \in Seq(Nat), NEW p
    PROVE  (Copies(s, p) = 0) <=> (\A i \in 1 .. Len(s) : s[i] # p)
BY PlacesFinite, FS_EmptySet DEF Copies, Places

LEMMA CopiesOfNothing == \A p : Copies(<<>>, p) = 0
BY FS_EmptySet DEF Copies, Places

LEMMA CopiesOnce ==
    ASSUME NEW s \in Seq(Nat), NEW p, Copies(s, p) <= 1,
           NEW i \in 1 .. Len(s), NEW j \in 1 .. Len(s), s[i] = p, s[j] = p
    PROVE  i = j
<1>1. i \in Places(s, p) /\ j \in Places(s, p)
  BY DEF Places
<1>2. Copies(s, p) = 1
  BY <1>1, PlacesFinite, CopiesNone
<1>3. \E x : Places(s, p) = {x}
  BY <1>2, PlacesFinite, FS_Singleton DEF Copies
<1> QED
  BY <1>1, <1>3

LEMMA CopiesSingle ==
    ASSUME NEW x \in Nat, NEW p
    PROVE  Copies(<<x>>, p) = (IF x = p THEN 1 ELSE 0)
<1>1. Places(<<x>>, p) = IF x = p THEN {1} ELSE {}
  BY DEF Places
<1> QED
  BY <1>1, FS_Singleton, FS_EmptySet DEF Copies

LEMMA CopiesConcat ==
    ASSUME NEW s \in Seq(Nat), NEW t \in Seq(Nat), NEW p
    PROVE  Copies(s \o t, p) = Copies(s, p) + Copies(t, p)
<1> DEFINE n == Len(s)
<1> DEFINE A == Places(s, p)
<1> DEFINE B == Places(t, p)
<1> DEFINE D == {j + n : j \in B}
<1>1. /\ n \in Nat /\ Len(t) \in Nat /\ s \o t \in Seq(Nat) /\ Len(s \o t) = n + Len(t)
      /\ \A i \in 1 .. n + Len(t) : (s \o t)[i] = IF i <= n THEN s[i] ELSE t[i - n]
  BY ConcatProperties
<1>2. Places(s \o t, p) = A \cup D
  <2>1. ASSUME NEW i \in Places(s \o t, p) PROVE i \in A \cup D
    <3>1. i \in 1 .. n + Len(t) /\ (s \o t)[i] = p
      BY <1>1 DEF Places
    <3>2. CASE i <= n
      BY <1>1, <3>1, <3>2 DEF Places
    <3>3. CASE i > n
      <4>1. i - n \in 1 .. Len(t) /\ t[i - n] = p /\ i = (i - n) + n
        BY <1>1, <3>1, <3>3
      <4>2. i - n \in B
        BY <4>1 DEF Places
      <4> QED
        BY <4>1, <4>2
    <3> QED
      BY <1>1, <3>1, <3>2, <3>3
  <2>2. ASSUME NEW i \in A PROVE i \in Places(s \o t, p)
    BY <1>1 DEF Places
  <2>3. ASSUME NEW j \in B PROVE j + n \in Places(s \o t, p)
    <3>1. j \in 1 .. Len(t) /\ t[j] = p
      BY DEF Places
    <3>2. j + n \in 1 .. n + Len(t) /\ ~(j + n <= n) /\ (j + n) - n = j
      BY <1>1, <3>1
    <3> QED
      BY <1>1, <3>1, <3>2 DEF Places
  <2> QED
    BY <2>1, <2>2, <2>3
<1>3. A \cap D = {}
  BY <1>1 DEF Places
<1>4. IsFiniteSet(A) /\ IsFiniteSet(B)
  BY PlacesFinite
<1>5. IsFiniteSet(D) /\ Cardinality(D) = Cardinality(B)
  <2> DEFINE f == [j \in B |-> j + n]
  <2>1. \A j \in B : j \in Nat
    BY DEF Places
  <2>2. f \in Bijection(B, D)
    <3>1. f \in [B -> D] /\ \A y \in D : \E j \in B : f[j] = y
      OBVIOUS
    <3>2. \A j, k \in B : f[j] = f[k] => j = k
      BY <1>1, <2>1
    <3> QED
      BY <3>1, <3>2 DEF Bijection, Injection, Surjection, IsInjective
  <2>3. ExistsBijection(B, D)
    BY <2>2 DEF ExistsBijection
  <2> QED
    BY <1>4, <2>3, FS_Bijection
<1>6. Cardinality(A \cup D) = Cardinality(A) + Cardinality(D) - Cardinality(A \cap D)
  BY <1>4, <1>5, FS_Union
<1>7. Cardinality(A \cap D) = 0 /\ Cardinality(A) \in Nat /\ Cardinality(B) \in Nat
  BY <1>3, <1>4, FS_EmptySet, FS_CardinalityType
<1>8. Cardinality(A \cup D) = Cardinality(A) + Cardinality(B)
  BY <1>5, <1>6, <1>7
<1> HIDE DEF A, B, D
<1>9. Cardinality(Places(s \o t, p)) = Cardinality(A) + Cardinality(B)
  BY <1>2, <1>8
<1> QED
  BY <1>9 DEF Copies, A, B

LEMMA CopiesAppend ==
    ASSUME NEW s \in Seq(Nat), NEW x \in Nat, NEW p
    PROVE  Copies(Append(s, x), p) = Copies(s, p) + (IF x = p THEN 1 ELSE 0)
<1> DEFINE t == <<x>>
<1> DEFINE u == Append(s, x)
<1>1. u = s \o t /\ t \in Seq(Nat)
  BY AppendIsConcat
<1>2. Copies(t, p) = IF x = p THEN 1 ELSE 0
  BY CopiesSingle
<1> HIDE DEF t, u
<1>3. Copies(u, p) = Copies(s, p) + Copies(t, p)
  BY <1>1, CopiesConcat
<1> QED
  BY <1>2, <1>3 DEF u

LEMMA CopiesHead ==
    ASSUME NEW s \in Seq(Nat), s # <<>>, NEW p
    PROVE  Copies(s, p) = (IF Head(s) = p THEN 1 ELSE 0) + Copies(Tail(s), p)
<1> DEFINE t == Tail(s)
<1> DEFINE u == <<Head(s)>>
<1>1. Head(s) \in Nat /\ t \in Seq(Nat) /\ u \in Seq(Nat)
  BY HeadTailProperties
<1>2. s = <<Head(s)>> \o Tail(s)
  <2>1. /\ Len(<<Head(s)>>) = 1 /\ Len(Tail(s)) = Len(s) - 1 /\ Len(s) \in Nat \ {0}
        /\ \A i \in 1 .. Len(s) - 1 : Tail(s)[i] = s[i + 1]
        /\ Head(s) = s[1]
    BY HeadTailProperties, EmptySeq
  <2>2. /\ <<Head(s)>> \o Tail(s) \in Seq(Nat)
        /\ Len(<<Head(s)>> \o Tail(s)) = Len(s)
        /\ \A i \in 1 .. Len(s) :
              (<<Head(s)>> \o Tail(s))[i] = IF i <= 1 THEN Head(s) ELSE Tail(s)[i - 1]
    BY <1>1, <2>1, ConcatProperties
  <2>3. ASSUME NEW i \in 1 .. Len(s) PROVE s[i] = (<<Head(s)>> \o Tail(s))[i]
    BY <2>1, <2>2
  <2> QED
    BY <2>2, <2>3, SeqEqual
<1>3. Copies(u, p) = IF Head(s) = p THEN 1 ELSE 0
  BY <1>1, CopiesSingle
<1>4. s = u \o t
  BY <1>2
<1> HIDE DEF t, u
<1>5. Copies(s, p) = Copies(u, p) + Copies(t, p)
  BY <1>1, <1>4, CopiesConcat
<1> QED
  BY <1>3, <1>5 DEF t

LEMMA CopiesSplit ==
    ASSUME NEW s \in Seq(Nat), NEW n \in 0 .. Len(s), NEW p
    PROVE  /\ SubSeq(s, 1, n) \in Seq(Nat) /\ SubSeq(s, n + 1, Len(s)) \in Seq(Nat)
           /\ Copies(s, p) = Copies(SubSeq(s, 1, n), p) + Copies(SubSeq(s, n + 1, Len(s)), p)
<1> DEFINE front == SubSeq(s, 1, n)
<1> DEFINE back == SubSeq(s, n + 1, Len(s))
<1>0. Len(s) \in Nat /\ n \in Nat
  OBVIOUS
<1>1. front \in Seq(Nat) /\ back \in Seq(Nat)
  BY <1>0, SubSeqProperties
<1>2. front \o back = SubSeq(s, 1, Len(s))
  <2>1. /\ 1 \in 1 .. Len(s) + 1 /\ n \in 1 - 1 .. Len(s) /\ Len(s) \in n .. Len(s)
    BY <1>0
  <2> QED
    BY <2>1, ConcatAdjacentSubSeq
<1>3. SubSeq(s, 1, Len(s)) = s
  BY SubSeqFull
<1>4. s = front \o back
  BY <1>2, <1>3
<1> HIDE DEF front, back
<1>5. Copies(front \o back, p) = Copies(front, p) + Copies(back, p)
  BY <1>1, CopiesConcat
<1>6. Copies(s, p) = Copies(front, p) + Copies(back, p)
  BY <1>4, <1>5
<1> QED
  BY <1>1, <1>6 DEF front, back

-----------------------------------------------------------------------------
(* The variables of the anomalies                                          *)

PagerRecord == [at : {"none", "calls", "reads"}, kind : {"page", "calcext"}]
CollectorPlaces == CallingPlaces \cup {"off", "on", "again", "stores", "puts"}
ReturnPlaces == {"off", "receives", "drains", "reads"}
CollectorRecord == [at : CollectorPlaces, next : 1 .. Len(Markets), row : Nat,
                    puts : SUBSET Listeners, back : ReturnPlaces]
ListenerRecord == [at : {"away", "ensures", "tails", "listens"}, queue : Seq(Nat),
                   seen : SUBSET Nat, gap : BOOLEAN]

LineTypeOK ==
    /\ line \in {"none", "up", "dead"} /\ breaks \in Nat /\ pages \in Nat
    /\ lineLock \in Pagers \cup {Free}
    /\ air \subseteq MarketSet /\ marked \subseteq MarketSet
    /\ pager \in [Pagers -> PagerRecord]

RoomTypeOK ==
    /\ collector \in CollectorRecord
    /\ halt \in BOOLEAN /\ fans \subseteq Listeners /\ buffer \in Seq(Nat)
    /\ listener \in [Listeners -> ListenerRecord]

LEMMA DxjlTypes ==
    /\ DxjlTypeOK <=> LineTypeOK /\ RoomTypeOK
    /\ DxjlTypeOK' <=> LineTypeOK' /\ RoomTypeOK'
BY DEF DxjlTypeOK, LineTypeOK, RoomTypeOK, PagerRecord, CollectorPlaces, ReturnPlaces,
       CollectorRecord, ListenerRecord

\* What the steps of the collector write into its record.
LEMMA CollectorWrites ==
    ASSUME NEW c \in CollectorRecord
    PROVE  /\ \A at \in CollectorPlaces : [c EXCEPT !.at = at] \in CollectorRecord
           /\ \A at \in CollectorPlaces, next \in 1 .. Len(Markets) :
                 [c EXCEPT !.at = at, !.next = next] \in CollectorRecord
           /\ \A next \in 1 .. Len(Markets) : [c EXCEPT !.next = next] \in CollectorRecord
           /\ \A at \in CollectorPlaces, row \in Nat, back \in ReturnPlaces :
                 [c EXCEPT !.at = at, !.row = row, !.back = back] \in CollectorRecord
           /\ \A at \in CollectorPlaces, row \in Nat, puts \in SUBSET Listeners,
                 back \in ReturnPlaces :
                 [c EXCEPT !.at = at, !.row = row, !.puts = puts, !.back = back] \in CollectorRecord
           /\ \A at \in CollectorPlaces, puts \in SUBSET Listeners :
                 [c EXCEPT !.at = at, !.puts = puts] \in CollectorRecord
           /\ \A puts \in SUBSET Listeners : [c EXCEPT !.puts = puts] \in CollectorRecord
BY DEF CollectorRecord

LEMMA OffIsWritten == Off \in CollectorRecord /\ [Off EXCEPT !.at = "on"] \in CollectorRecord
<1>1. 1 \in 1 .. Len(Markets)
  BY MarketsAssumption
<1>2. Off \in CollectorRecord
  BY <1>1 DEF Off, History, CollectorRecord, CollectorPlaces, ReturnPlaces
<1>3. [Off EXCEPT !.at = "on"] \in CollectorRecord
  BY <1>2, CollectorWrites DEF CollectorRecord, CollectorPlaces
<1> QED
  BY <1>2, <1>3

LEMMA AbsentFits == Absent \in ListenerRecord
BY DEF Absent, ListenerRecord

\* What the steps of a listener write into its record.
LEMMA ListenerWrites ==
    ASSUME NEW l \in ListenerRecord
    PROVE  /\ \A at \in {"away", "ensures", "tails", "listens"} :
                 [l EXCEPT !.at = at] \in ListenerRecord
           /\ \A at \in {"away", "ensures", "tails", "listens"}, seen \in SUBSET Nat :
                 [l EXCEPT !.at = at, !.seen = seen] \in ListenerRecord
           /\ \A queue \in Seq(Nat), seen \in SUBSET Nat :
                 [l EXCEPT !.queue = queue, !.seen = seen] \in ListenerRecord
           /\ \A queue \in Seq(Nat) : [l EXCEPT !.queue = queue] \in ListenerRecord
           /\ [l EXCEPT !.gap = TRUE] \in ListenerRecord
<1>1. \A at \in {"away", "ensures", "tails", "listens"} : [l EXCEPT !.at = at] \in ListenerRecord
  BY DEF ListenerRecord
<1>2. \A at \in {"away", "ensures", "tails", "listens"}, seen \in SUBSET Nat :
         [l EXCEPT !.at = at, !.seen = seen] \in ListenerRecord
  BY DEF ListenerRecord
<1>3. \A queue \in Seq(Nat), seen \in SUBSET Nat :
         [l EXCEPT !.queue = queue, !.seen = seen] \in ListenerRecord
  BY DEF ListenerRecord
<1>4. \A queue \in Seq(Nat) : [l EXCEPT !.queue = queue] \in ListenerRecord
  BY DEF ListenerRecord
<1>5. [l EXCEPT !.gap = TRUE] \in ListenerRecord
  BY DEF ListenerRecord
<1> QED
  BY <1>1, <1>2, <1>3, <1>4, <1>5

\* The last rows, and where they were.
LEMMA LastRowsAre ==
    ASSUME NEW rows \in Seq(Nat), NEW n \in Nat \ {0}
    PROVE  /\ LastRows(rows, n) \in Seq(Nat)
           /\ Len(LastRows(rows, n)) = IF Len(rows) > n THEN n ELSE Len(rows)
           /\ \A k \in 1 .. Len(LastRows(rows, n)) :
                 LastRows(rows, n)[k] = rows[k + (Len(rows) - Len(LastRows(rows, n)))]
<1>1. Len(rows) \in Nat
  OBVIOUS
<1>2. CASE Len(rows) > n
  <2> DEFINE from == Len(rows) - n + 1
  <2>1. LastRows(rows, n) = SubSeq(rows, from, Len(rows))
    BY <1>2 DEF LastRows
  <2>2. from \in 1 .. Len(rows) + 1 /\ Len(rows) \in from - 1 .. Len(rows)
    BY <1>1, <1>2
  <2>3. /\ SubSeq(rows, from, Len(rows)) \in Seq(Nat)
        /\ Len(SubSeq(rows, from, Len(rows))) = Len(rows) - from + 1
        /\ \A k \in 1 .. Len(rows) - from + 1 :
              SubSeq(rows, from, Len(rows))[k] = rows[from + k - 1]
    BY <1>1, <1>2, <2>2, SubSeqProperties
  <2>4. /\ LastRows(rows, n) \in Seq(Nat) /\ Len(LastRows(rows, n)) = n
        /\ \A k \in 1 .. n : LastRows(rows, n)[k] = rows[from + k - 1]
    BY <1>1, <1>2, <2>1, <2>3
  <2>5. \A k \in 1 .. n : from + k - 1 = k + (Len(rows) - n)
    BY <1>1
  <2> HIDE DEF from
  <2> QED
    BY <1>2, <2>4, <2>5
<1>3. CASE ~(Len(rows) > n)
  <2>1. LastRows(rows, n) = rows
    BY <1>3, SubSeqFull DEF LastRows
  <2> QED
    BY <1>1, <1>3, <2>1
<1> QED
  BY <1>2, <1>3

LEMMA PageKeepsTypes ==
    ASSUME DxjlTypeOK, NEW x \in Pagers, Page(x)
    PROVE  DxjlTypeOK'
<1>0. LineTypeOK /\ RoomTypeOK
  BY DxjlTypes
<1>1. UNCHANGED <<breaks, air, marked, pushed, roomVars>>
  BY DEF Page, PageBegins, PageAsked, PageReads, PageFails, PageEnds, AsidePager
<1>2. RoomTypeOK'
  BY <1>0, <1>1 DEF RoomTypeOK, roomVars
<1>3. pager' \in [Pagers -> PagerRecord]
  BY <1>0 DEF LineTypeOK, PagerRecord, Page, PageBegins, PageAsked, PageReads, PageFails, PageEnds,
              Pages, Kept
<1>4. line' \in {"none", "up", "dead"} /\ pages' \in Nat /\ lineLock' \in Pagers \cup {Free}
  BY <1>0 DEF LineTypeOK, Page, PageBegins, PageAsked, PageReads, PageFails, PageEnds, Acquires
<1>5. LineTypeOK'
  BY <1>0, <1>1, <1>3, <1>4 DEF LineTypeOK
<1> QED
  BY <1>2, <1>5, DxjlTypes

LEMMA CollectKeepsTypes ==
    ASSUME DxjlTypeOK, RowsWereSent, Collect
    PROVE  DxjlTypeOK'
<1>0. LineTypeOK /\ RoomTypeOK
  BY DxjlTypes
<1>1. AsideLoop
  BY DEF Collect, CollectorTurns, CollectorAcquires, CollectorMarks, CollectorSubscribed,
         CollectorSeeds, CollectorReceives, CollectorDrains, CollectorReads, CollectorEnds,
         CollectorReceived, CollectorFails, Stores, Puts
<1>2. line' \in {"none", "up", "dead"} /\ lineLock' \in Pagers \cup {Free}
  BY <1>0 DEF LineTypeOK, Acquires, AsideLine, Collect, CollectorTurns, CollectorAcquires,
         CollectorMarks, CollectorSubscribed, CollectorSeeds, CollectorReceives, CollectorDrains,
         CollectorReads, CollectorEnds, CollectorReceived, CollectorFails, Stores, Puts
<1>3. air' \subseteq MarketSet /\ marked' \subseteq MarketSet
  <2>1. CASE UNCHANGED <<air, marked>>
    BY <1>0, <2>1 DEF LineTypeOK
  <2>2. CASE CollectorMarks
    <3>1. Markets[collector.next] \in MarketSet
      BY <1>0 DEF RoomTypeOK, CollectorRecord, MarketSet
    <3>2. \/ UNCHANGED <<air, marked>>
          \/ /\ air' = air \cup {Markets[collector.next]}
             /\ marked' = marked \cup {Markets[collector.next]}
      BY <2>2 DEF CollectorMarks
    <3> QED
      BY <1>0, <3>1, <3>2 DEF LineTypeOK
  <2> QED
    BY <2>1, <2>2 DEF AsideLine, Collect, CollectorTurns, CollectorAcquires,
         CollectorSubscribed, CollectorSeeds, CollectorReceives, CollectorDrains,
         CollectorReads, CollectorEnds, CollectorReceived, CollectorFails, Stores, Puts
<1>4. LineTypeOK'
  BY <1>0, <1>1, <1>2, <1>3 DEF LineTypeOK, AsideLoop
<1>5. collector' \in CollectorRecord
  <2> USE <1>0 DEF RoomTypeOK
  <2>0. /\ collector.at \in CollectorPlaces /\ collector.row \in Nat /\ collector.back \in ReturnPlaces
        /\ collector.next \in 1 .. Len(Markets) /\ collector.puts \in SUBSET Listeners
    BY DEF CollectorRecord
  <2>1. CASE \/ CollectorTurns \/ CollectorSubscribed \/ CollectorReceived \/ CollectorFails
             \/ CollectorReceives
    <3>1. UNCHANGED collector \/ \E place \in CollectorPlaces : Collects(place)
      BY <2>1 DEF CollectorTurns, CollectorSubscribed, CollectorReceived, CollectorFails,
         CollectorReceives, CollectorPlaces, CallingPlaces
    <3> QED
      BY <3>1, CollectorWrites DEF Collects
  <2>2. CASE CollectorAcquires
    <3>1. 1 \in 1 .. Len(Markets)
      BY MarketsAssumption
    <3>2. "marks" \in CollectorPlaces
      BY DEF CollectorPlaces, CallingPlaces
    <3>3. UNCHANGED collector \/ collector' = [collector EXCEPT !.at = "marks", !.next = 1]
      BY <2>2 DEF CollectorAcquires
    <3>4. ASSUME NEW next \in 1 .. Len(Markets)
          PROVE  [collector EXCEPT !.at = "marks", !.next = next] \in CollectorRecord
      BY <3>2, CollectorWrites
    <3> QED
      BY <3>1, <3>3, <3>4
  <2>3. CASE CollectorMarks
    <3>1. CASE UNCHANGED collector
      BY <3>1
    <3>2. CASE collector.next # Len(Markets) /\ collector' = [collector EXCEPT !.next = @ + 1]
      <4>1. collector.next + 1 \in 1 .. Len(Markets)
        BY <2>0, <3>2, MarketsAssumption
      <4>2. collector' = [collector EXCEPT !.next = collector.next + 1]
        BY <3>2 DEF CollectorRecord
      <4> QED
        BY <4>1, <4>2, CollectorWrites
    <3> QED
      BY <2>3, <3>1, <3>2 DEF CollectorMarks
  <2>4. CASE CollectorSeeds
    BY <2>4, CollectorWrites DEF CollectorSeeds, History, CollectorPlaces, ReturnPlaces
  <2>5. CASE CollectorDrains
    <3>1. pending # <<>> => Head(pending) \in Nat
      BY HeadTailProperties DEF RowsWereSent
    <3>2. /\ "reads" \in CollectorPlaces /\ "stores" \in CollectorPlaces
          /\ "drains" \in ReturnPlaces
      BY DEF CollectorPlaces, CallingPlaces, ReturnPlaces
    <3>3. CASE pending = <<>>
      BY <2>5, <3>2, <3>3, CollectorWrites DEF CollectorDrains, Collects
    <3>4. CASE pending # <<>>
      <4>1. collector' = [collector EXCEPT !.at = "stores", !.row = Head(pending), !.back = "drains"]
        BY <2>5, <3>4 DEF CollectorDrains
      <4>2. ASSUME NEW row \in Nat
            PROVE  [collector EXCEPT !.at = "stores", !.row = row, !.back = "drains"] \in CollectorRecord
        BY <3>2, CollectorWrites
      <4> QED
        BY <3>1, <3>4, <4>1, <4>2
    <3> QED
      BY <3>3, <3>4
  <2>6. CASE CollectorReads
    <3>1. wire # <<>> => Head(wire) \in Nat
      BY HeadTailProperties DEF RowsWereSent
    <3> QED
      BY <2>6, <3>1, CollectorWrites DEF CollectorReads, CollectorPlaces, ReturnPlaces
  <2>7. CASE CollectorEnds
    BY <2>7 DEF CollectorEnds
  <2>8. CASE Stores
    BY <2>8, CollectorWrites DEF Stores, CollectorPlaces
  <2>9. CASE Puts
    <3>1. collector.back \in CollectorPlaces
      BY <2>0 DEF CollectorPlaces, CallingPlaces, ReturnPlaces
    <3>2. {} \in SUBSET Listeners
      OBVIOUS
    <3> QED
      BY <2>9, <3>1, <3>2, CollectorWrites DEF Puts
  <2> QED
    BY <2>1, <2>2, <2>3, <2>4, <2>5, <2>6, <2>7, <2>8, <2>9 DEF Collect
<1>6. buffer' \in Seq(Nat)
  <2>1. CASE Stores
    <3>1. Append(buffer, collector.row) \in Seq(Nat)
      BY <1>0 DEF RoomTypeOK, CollectorRecord
    <3> QED
      BY <2>1, <3>1, LastRowsAre, SizesAssumption DEF Stores
  <2>2. CASE ~Stores
    <3>1. UNCHANGED buffer \/ buffer' = <<History>>
      BY <2>2 DEF AsideRoom, Collect, CollectorTurns, CollectorAcquires, CollectorMarks,
         CollectorSubscribed, CollectorSeeds, CollectorReceives, CollectorDrains, CollectorReads,
         CollectorEnds, CollectorReceived, CollectorFails, Puts
    <3>2. <<History>> \in Seq(Nat)
      BY DEF History
    <3> QED
      BY <1>0, <3>1, <3>2 DEF RoomTypeOK
  <2> QED
    BY <2>1, <2>2
<1>7. listener' \in [Listeners -> ListenerRecord]
  <2>1. CASE Puts
    <3> SUFFICES ASSUME NEW w \in Listeners PROVE listener'[w] \in ListenerRecord
      BY <2>1 DEF Puts
    <3>1. listener[w] \in ListenerRecord /\ collector.row \in Nat
      BY <1>0 DEF RoomTypeOK, CollectorRecord
    <3>2. Append(listener[w].queue, collector.row) \in Seq(Nat)
      BY <3>1 DEF ListenerRecord
    <3>3. \/ listener'[w] = listener[w]
          \/ listener'[w] = [listener[w] EXCEPT !.queue = Append(@, collector.row)]
          \/ listener'[w] = [listener[w] EXCEPT !.gap = TRUE]
      BY <2>1 DEF Puts
    <3> HIDE DEF ListenerRecord
    <3> QED
      BY <3>1, <3>2, <3>3, ListenerWrites
  <2>2. CASE ~Puts
    BY <1>0, <2>2 DEF RoomTypeOK, AsideRoom, Collect, CollectorTurns, CollectorAcquires,
         CollectorMarks, CollectorSubscribed, CollectorSeeds, CollectorReceives, CollectorDrains,
         CollectorReads, CollectorEnds, CollectorReceived, CollectorFails, Stores
  <2> QED
    BY <2>1, <2>2
<1>8. RoomTypeOK'
  BY <1>0, <1>1, <1>5, <1>6, <1>7 DEF RoomTypeOK, AsideLoop
<1> QED
  BY <1>4, <1>8, DxjlTypes

LEMMA ListenKeepsTypes ==
    ASSUME DxjlTypeOK, NEW w \in Listeners, Listen(w)
    PROVE  DxjlTypeOK'
<1>0. LineTypeOK /\ RoomTypeOK
  BY DxjlTypes
<1>1. UNCHANGED <<lineVars, buffer>>
  BY DEF Listen, Joins9601, Ensures, Snapshots, Takes, Speaks, Strays, Leaves9601, AsideListener
<1>2. LineTypeOK'
  BY <1>0, <1>1 DEF LineTypeOK, lineVars
<1>3. collector' \in CollectorRecord /\ halt' \in BOOLEAN /\ fans' \subseteq Listeners
  <2>1. collector.puts \ {w} \in SUBSET Listeners
    BY <1>0 DEF RoomTypeOK, CollectorRecord
  <2>2. [collector EXCEPT !.puts = @ \ {w}] = [collector EXCEPT !.puts = collector.puts \ {w}]
    BY <1>0 DEF RoomTypeOK, CollectorRecord
  <2> QED
    BY <1>0, <2>1, <2>2, CollectorWrites, OffIsWritten DEF RoomTypeOK, Listen, Joins9601, Ensures,
       Snapshots, Takes, Speaks, Strays, Leaves9601
<1>4. listener' \in [Listeners -> ListenerRecord]
  <2>0. listener \in [Listeners -> ListenerRecord] /\ listener[w] \in ListenerRecord
    BY <1>0 DEF RoomTypeOK
  <2>1. ASSUME NEW new \in ListenerRecord, Listens(w, new)
        PROVE  listener' \in [Listeners -> ListenerRecord]
    BY <2>0, <2>1 DEF Listens
  <2>2. CASE Joins9601(w)
    BY <2>1, <2>2, AbsentFits, ListenerWrites DEF Joins9601
  <2>3. CASE Ensures(w)
    BY <2>0, <2>1, <2>3, ListenerWrites DEF Ensures
  <2>4. CASE Snapshots(w)
    <3>1. LastRows(buffer, TailRows) \in Seq(Nat)
      BY <1>0, LastRowsAre, SizesAssumption DEF RoomTypeOK
    <3>2. Pushes(LastRows(buffer, TailRows)) \in SUBSET Nat
      BY <3>1 DEF Pushes
    <3> QED
      BY <2>0, <2>1, <2>4, <3>2, ListenerWrites DEF Snapshots
  <2>5. CASE Takes(w)
    <3> DEFINE old == listener[w]
    <3>1. old.queue \in Seq(Nat) /\ old.queue # <<>> /\ old.seen \in SUBSET Nat
      BY <2>0, <2>5 DEF ListenerRecord, Takes
    <3>2. Tail(old.queue) \in Seq(Nat) /\ Head(old.queue) \in Nat
      BY <3>1, HeadTailProperties
    <3>3. old.seen \cup Pushes(<<Head(old.queue)>>) \in SUBSET Nat
      BY <3>1, <3>2 DEF Pushes
    <3>4. Listens(w, [old EXCEPT !.queue = Tail(old.queue),
                                 !.seen = old.seen \cup Pushes(<<Head(old.queue)>>)])
      BY <2>0, <2>5 DEF Takes, ListenerRecord
    <3> QED
      BY <2>0, <2>1, <3>2, <3>3, <3>4, ListenerWrites
  <2>6. CASE Speaks(w)
    BY <2>0, <2>1, <2>6, ListenerWrites DEF Speaks
  <2>7. CASE Strays(w)
    <3> DEFINE old == listener[w]
    <3>1. old.queue \in Seq(Nat) /\ old.queue # <<>>
      BY <2>0, <2>7 DEF ListenerRecord, Strays
    <3>2. Tail(old.queue) \in Seq(Nat)
      BY <3>1, HeadTailProperties
    <3>3. Listens(w, [old EXCEPT !.queue = Tail(old.queue)])
      BY <2>0, <2>7 DEF Strays, ListenerRecord
    <3> QED
      BY <2>0, <2>1, <3>2, <3>3, ListenerWrites
  <2>8. CASE Leaves9601(w)
    BY <2>1, <2>8, AbsentFits DEF Leaves9601
  <2> QED
    BY <2>2, <2>3, <2>4, <2>5, <2>6, <2>7, <2>8 DEF Listen
<1>5. RoomTypeOK'
  BY <1>0, <1>1, <1>3, <1>4 DEF RoomTypeOK
<1> QED
  BY <1>2, <1>5, DxjlTypes

LEMMA DxjlKeepsTypes ==
    ASSUME RuntimeTypeOK, DxjlTypeOK, RowsWereSent, [Next]_vars
    PROVE  DxjlTypeOK'
<1>0. LineTypeOK /\ RoomTypeOK
  BY DxjlTypes
<1>1. CASE UNCHANGED dxjlVars
  <2>1. LineTypeOK' /\ RoomTypeOK'
    BY <1>0, <1>1 DEF LineTypeOK, RoomTypeOK, dxjlVars, lineVars, roomVars
  <2> QED
    BY <2>1, DxjlTypes
<1>2. CASE LineBreaks \/ ServerPushes \/ ServerAnswers \/ ProbeReads
  <2>1. UNCHANGED roomVars /\ LineTypeOK'
    BY <1>0, <1>2 DEF LineTypeOK, LineBreaks, ServerPushes, ServerAnswers, ProbeReads
  <2>2. RoomTypeOK'
    BY <1>0, <2>1 DEF RoomTypeOK, roomVars
  <2> QED
    BY <2>1, <2>2, DxjlTypes
<1>3. CASE CloseDxjl
  <2>1. LineTypeOK'
    BY <1>0, <1>3 DEF CloseDxjl, LineTypeOK, lineVars
  <2>2. RoomTypeOK'
    BY <1>0, <1>3 DEF CloseDxjl, RoomTypeOK
  <2> QED
    BY <2>1, <2>2, DxjlTypes
<1>4. CASE CloseClient
  <2>1. LineTypeOK' /\ UNCHANGED roomVars
    BY <1>0, <1>4 DEF CloseClient, LineTypeOK
  <2>2. RoomTypeOK'
    BY <1>0, <2>1 DEF RoomTypeOK, roomVars
  <2> QED
    BY <2>1, <2>2, DxjlTypes
<1> QED
  BY <1>1, <1>2, <1>3, <1>4, PageKeepsTypes, CollectKeepsTypes, ListenKeepsTypes
     DEF Next, DxjlStep, vars

-----------------------------------------------------------------------------
(* The way of a push: wire, pending, the collector's hands, the buffer's past *)

RowsStay == UNCHANGED <<wire, pending, Held, stored, pushed, missed>>

PushSent ==
    /\ pushed' = pushed + 1 /\ wire' = Append(wire, pushed + 1)
    /\ UNCHANGED <<pending, Held, stored, missed>>

AnswerSent ==
    /\ wire' = Append(wire, History)
    /\ UNCHANGED <<pending, Held, stored, pushed, missed>>

PushSetAside ==
    /\ wire # <<>> /\ Head(wire) # History
    /\ pending' = Append(pending, Head(wire)) /\ wire' = Tail(wire)
    /\ UNCHANGED <<Held, stored, pushed, missed>>

FramePassed ==
    /\ wire # <<>> /\ wire' = Tail(wire)
    /\ missed' = missed \cup ({Head(wire)} \ {History})
    /\ UNCHANGED <<pending, Held, stored, pushed>>

FramesLost ==
    /\ wire' = <<>> /\ missed' = missed \cup Pushes(wire)
    /\ UNCHANGED <<pending, Held, stored, pushed>>

PushesSeeded ==
    /\ \E n \in 0 .. Len(wire) :
          /\ \A i \in 1 .. n : wire[i] # History
          /\ pending' = pending \o SubSeq(wire, 1, n)
          /\ wire' = SubSeq(wire, n + 1, Len(wire))
    /\ UNCHANGED <<Held, stored, pushed, missed>>

PushDrained ==
    /\ Held = <<>> /\ pending # <<>>
    /\ pending' = Tail(pending) /\ Held' = <<Head(pending)>>
    /\ UNCHANGED <<wire, stored, pushed, missed>>

PushRead ==
    /\ Held = <<>> /\ wire # <<>> /\ Head(wire) # History
    /\ wire' = Tail(wire) /\ Held' = <<Head(wire)>>
    /\ UNCHANGED <<pending, stored, pushed, missed>>

RowStored ==
    /\ Held # <<>> /\ Held' = <<>> /\ stored' = Append(stored, Head(Held))
    /\ UNCHANGED <<wire, pending, pushed, missed>>

RowsMove ==
    \/ RowsStay \/ PushSent \/ AnswerSent \/ PushSetAside \/ FramePassed \/ FramesLost
    \/ PushesSeeded \/ PushDrained \/ PushRead \/ RowStored

LEMMA HeldStays ==
    ASSUME \/ UNCHANGED collector
           \/ collector'.at # "stores" /\ collector.at # "stores"
           \/ collector'.at = collector.at /\ collector'.row = collector.row
    PROVE  UNCHANGED Held
BY DEF Held

LEMMA PageOnRows ==
    ASSUME NEW x \in Pagers, Page(x)
    PROVE  UNCHANGED <<roomVars, pushed>> /\ RowsMove
<1>1. UNCHANGED <<roomVars, pushed>>
  BY DEF Page, PageBegins, PageAsked, PageReads, PageFails, PageEnds, AsidePager
<1>2. UNCHANGED <<stored, pushed, collector>> /\ UNCHANGED Held
  BY <1>1, HeldStays DEF roomVars
<1>3. CASE PageBegins(x) \/ PageAsked(x) \/ PageEnds(x)
  BY <1>1, <1>2, <1>3 DEF PageBegins, PageAsked, PageEnds, RowsMove, RowsStay
<1>4. CASE PageReads(x)
  <2>1. CASE Head(wire) = History
    <3>1. {Head(wire)} \ {History} = {}
      BY <2>1
    <3> QED
      BY <1>1, <1>2, <1>4, <2>1, <3>1 DEF PageReads, RowsMove, FramePassed
  <2>2. CASE Head(wire) # History
    <3>1. {Head(wire)} \ {History} = {Head(wire)}
      BY <2>2
    <3>2. Kept(x, Head(wire)) /\ wire # <<>> /\ wire' = Tail(wire)
      BY <1>4, <2>2 DEF PageReads
    <3> QED
      BY <1>1, <1>2, <2>2, <3>1, <3>2 DEF Kept, RowsMove, FramePassed, PushSetAside
  <2> QED
    BY <2>1, <2>2
<1>5. CASE PageFails(x)
  BY <1>1, <1>2, <1>5 DEF PageFails, RowsMove, RowsStay, FramePassed
<1> QED
  BY <1>1, <1>3, <1>4, <1>5 DEF Page

LEMMA CollectOnRows ==
    ASSUME DxjlTypeOK, Collect
    PROVE  /\ RowsMove
           /\ collector'.row \in {collector.row, History} \/ PushDrained \/ PushRead
<1>0. collector \in CollectorRecord
  BY DxjlTypes DEF RoomTypeOK
<1>1. UNCHANGED pushed
  BY DEF Collect, CollectorTurns, CollectorAcquires, CollectorMarks, CollectorSubscribed,
         CollectorSeeds, CollectorReceives, CollectorDrains, CollectorReads, CollectorEnds,
         CollectorReceived, CollectorFails, Stores, Puts, AsideLoop
<1>2. CASE \/ CollectorTurns \/ CollectorAcquires \/ CollectorMarks \/ CollectorSubscribed
           \/ CollectorReceives \/ CollectorReceived \/ CollectorFails \/ Puts
  <2>1. UNCHANGED <<wire, pending, stored, missed>>
    BY <1>2 DEF AsideLine, AsideRoom, CollectorTurns, CollectorAcquires, CollectorMarks,
         CollectorSubscribed, CollectorReceives, CollectorReceived, CollectorFails, Puts
  <2>2. /\ (collector'.at # "stores" /\ collector.at # "stores") \/ UNCHANGED collector
        /\ collector'.row = collector.row
    BY <1>0, <1>2 DEF CollectorRecord, ReturnPlaces, Acting, Collects, CollectorTurns,
         CollectorAcquires, CollectorMarks, CollectorSubscribed, CollectorReceives,
         CollectorReceived, CollectorFails, Puts
  <2>3. UNCHANGED Held
    BY <2>2, HeldStays
  <2> QED
    BY <1>1, <2>1, <2>2, <2>3 DEF RowsMove, RowsStay
<1>3. CASE CollectorSeeds
  <2>1. collector'.at = "puts" /\ collector.at = "receives" /\ collector'.row = History
    BY <1>0, <1>3 DEF CollectorSeeds, CollectorRecord
  <2>2. UNCHANGED Held
    BY <2>1, HeldStays
  <2>3. PushesSeeded
    BY <1>1, <1>3, <2>2 DEF CollectorSeeds, PushesSeeded
  <2> QED
    BY <2>1, <2>3 DEF RowsMove
<1>4. CASE CollectorDrains
  <2>1. CASE pending = <<>>
    <3>1. /\ collector.at = "drains" /\ collector'.at = "reads" /\ collector'.row = collector.row
          /\ UNCHANGED <<wire, pending, stored, missed>>
      BY <1>0, <1>4, <2>1 DEF CollectorDrains, Collects, CollectorRecord, Acting, AsideRoom
    <3>2. UNCHANGED Held
      BY <3>1, HeldStays
    <3> QED
      BY <1>1, <3>1, <3>2 DEF RowsMove, RowsStay
  <2>2. CASE pending # <<>>
    <3>1. /\ collector.at = "drains" /\ collector'.at = "stores" /\ collector'.row = Head(pending)
          /\ pending' = Tail(pending) /\ UNCHANGED <<wire, stored, missed>>
      BY <1>0, <1>4, <2>2 DEF CollectorDrains, CollectorRecord, Acting, AsideRoom
    <3>2. PushDrained
      BY <1>1, <2>2, <3>1 DEF PushDrained, Held
    <3> QED
      BY <3>2 DEF RowsMove
  <2> QED
    BY <2>1, <2>2
<1>5. CASE CollectorReads
  <2>0. /\ collector.at = "reads" /\ wire # <<>> /\ wire' = Tail(wire)
        /\ UNCHANGED <<pending, stored, missed>>
    BY <1>5 DEF CollectorReads, Acting, AsideRoom
  <2>1. CASE Head(wire) = History
    <3>1. UNCHANGED collector
      BY <1>5, <2>1 DEF CollectorReads
    <3>2. UNCHANGED Held /\ {Head(wire)} \ {History} = {}
      BY <2>1, <3>1, HeldStays
    <3> QED
      BY <1>1, <2>0, <3>1, <3>2 DEF RowsMove, FramePassed
  <2>2. CASE Head(wire) # History
    <3>1. collector'.at = "stores" /\ collector'.row = Head(wire)
      BY <1>0, <1>5, <2>2 DEF CollectorReads, CollectorRecord
    <3>2. PushRead
      BY <1>1, <2>0, <2>2, <3>1 DEF PushRead, Held
    <3> QED
      BY <3>2 DEF RowsMove
  <2> QED
    BY <2>1, <2>2
<1>6. CASE CollectorEnds
  <2>1. UNCHANGED <<collector, pending, stored>>
    BY <1>6 DEF CollectorEnds, AsideRoom
  <2>2. UNCHANGED Held
    BY <2>1, HeldStays
  <2>3. Pushes(<<Head(wire)>>) = {Head(wire)} \ {History}
    BY DEF Pushes
  <2>4. RowsStay \/ FramePassed
    BY <1>1, <1>6, <2>1, <2>2, <2>3 DEF CollectorEnds, RowsStay, FramePassed
  <2> QED
    BY <2>1, <2>4 DEF RowsMove
<1>7. CASE Stores
  <2>1. /\ collector.at = "stores" /\ collector'.at = "puts" /\ collector'.row = collector.row
        /\ stored' = Append(stored, collector.row) /\ UNCHANGED <<wire, pending, missed>>
    BY <1>0, <1>7 DEF Stores, CollectorRecord, AsideLine
  <2>2. RowStored
    BY <1>1, <2>1 DEF RowStored, Held
  <2> QED
    BY <2>1, <2>2 DEF RowsMove
<1> QED
  BY <1>2, <1>3, <1>4, <1>5, <1>6, <1>7 DEF Collect

LEMMA ListenOnRows ==
    ASSUME DxjlTypeOK, NEW w \in Listeners, Listen(w)
    PROVE  RowsStay /\ collector'.row \in {collector.row, History}
<1>0. collector \in CollectorRecord
  BY DxjlTypes DEF RoomTypeOK
<1>1. UNCHANGED <<wire, pending, stored, pushed, missed>>
  BY DEF Listen, Joins9601, Ensures, Snapshots, Takes, Speaks, Strays, Leaves9601, AsideListener,
         lineVars
<1>2. CASE UNCHANGED collector
  BY <1>1, <1>2, HeldStays DEF RowsStay
<1>3. CASE collector.at = "off" /\ collector' = [Off EXCEPT !.at = "on"]
  <2>1. collector'.at = "on" /\ collector'.row = History
    BY <1>3 DEF Off
  <2> QED
    BY <1>1, <1>3, <2>1, HeldStays DEF RowsStay
<1>4. CASE collector' = [collector EXCEPT !.puts = @ \ {w}]
  <2>1. collector'.at = collector.at /\ collector'.row = collector.row
    BY <1>0, <1>4 DEF CollectorRecord
  <2> QED
    BY <1>1, <2>1, HeldStays DEF RowsStay
<1> QED
  BY <1>2, <1>3, <1>4 DEF Listen, Joins9601, Ensures, Snapshots, Takes, Speaks, Strays, Leaves9601

LEMMA StepOnRows ==
    ASSUME DxjlTypeOK, [Next]_vars
    PROVE  /\ RowsMove
           /\ collector'.row \in {collector.row, History} \/ PushDrained \/ PushRead
<1>1. CASE UNCHANGED dxjlVars
  <2>1. UNCHANGED <<wire, pending, stored, pushed, missed, collector>>
    BY <1>1 DEF dxjlVars, lineVars, roomVars
  <2> QED
    BY <2>1, HeldStays DEF RowsMove, RowsStay
<1>2. CASE LineBreaks \/ ServerPushes \/ ServerAnswers \/ ProbeReads \/ CloseDxjl \/ CloseClient
  <2>1. UNCHANGED <<collector, stored>>
    BY <1>2 DEF LineBreaks, ServerPushes, ServerAnswers, ProbeReads, CloseDxjl, CloseClient, roomVars
  <2>2. UNCHANGED Held
    BY <2>1, HeldStays
  <2>3. CASE LineBreaks
    BY <2>1, <2>2, <2>3 DEF LineBreaks, FramesLost, RowsMove
  <2>4. CASE ServerPushes
    BY <2>1, <2>2, <2>4 DEF ServerPushes, PushSent, RowsMove
  <2>5. CASE ServerAnswers
    BY <2>1, <2>2, <2>5 DEF ServerAnswers, AnswerSent, RowsMove
  <2>6. CASE ProbeReads
    BY <2>1, <2>2, <2>6 DEF ProbeReads, PushSetAside, RowsMove
  <2>7. CASE CloseDxjl
    BY <2>1, <2>2, <2>7 DEF CloseDxjl, lineVars, RowsStay, RowsMove
  <2>8. CASE CloseClient
    BY <2>1, <2>2, <2>8 DEF CloseClient, FramesLost, RowsMove
  <2> QED
    BY <1>2, <2>1, <2>3, <2>4, <2>5, <2>6, <2>7, <2>8
<1>3. CASE \E x \in Pagers : Page(x)
  BY <1>3, PageOnRows DEF roomVars
<1>4. CASE \E w \in Listeners : Listen(w)
  BY <1>4, ListenOnRows DEF RowsMove
<1> QED
  BY <1>1, <1>2, <1>3, <1>4, CollectOnRows DEF Next, DxjlStep, vars

-----------------------------------------------------------------------------
(* No push is lost, and none is stored twice                               *)

AllCopies(p) == Copies(wire, p) + Copies(pending, p) + Copies(Held, p) + Copies(stored, p)

RowsCounted == \A p \in 1 .. pushed : AllCopies(p) = IF p \in missed THEN 0 ELSE 1

LEMMA WiderSeq ==
    ASSUME NEW S, NEW T, S \subseteq T, NEW s \in Seq(S)
    PROVE  s \in Seq(T)
OBVIOUS

LEMMA SentFits ==
    ASSUME NEW n \in Nat, NEW s \in Seq(0 .. n)
    PROVE  s \in Seq(Nat) /\ s \in Seq(0 .. n + 1)
BY 0 .. n \subseteq Nat, 0 .. n \subseteq 0 .. n + 1

LEMMA RowsFit ==
    ASSUME RowsWereSent
    PROVE  /\ pushed \in Nat /\ Held \in Seq(1 .. pushed)
           /\ wire \in Seq(Nat) /\ pending \in Seq(Nat) /\ Held \in Seq(Nat) /\ stored \in Seq(Nat)
<1>1. /\ pushed \in Nat /\ wire \in Seq(0 .. pushed)
      /\ pending \in Seq(1 .. pushed) /\ stored \in Seq(1 .. pushed)
  BY DEF RowsWereSent
<1>2. Held \in Seq(1 .. pushed)
  <2>1. CASE collector.at = "stores"
    <3>1. collector.row \in 1 .. pushed
      BY <1>1, <2>1 DEF RowsWereSent, History
    <3> QED
      BY <2>1, <3>1 DEF Held
  <2>2. CASE collector.at # "stores"
    BY <2>2 DEF Held
  <2> QED
    BY <2>1, <2>2
<1>3. ASSUME NEW s \in Seq(1 .. pushed) PROVE s \in Seq(Nat)
  <2>1. 1 .. pushed \subseteq Nat
    BY <1>1
  <2> QED
    BY <2>1, WiderSeq
<1> QED
  BY <1>1, <1>2, <1>3, SentFits

LEMMA CountedIsKept ==
    ASSUME RowsWereSent
    PROVE  PushesKept <=> RowsCounted
<1> DEFINE places == wire \o pending \o Held \o stored
<1> SUFFICES ASSUME NEW p \in 1 .. pushed
             PROVE  Cardinality({i \in DOMAIN places : places[i] = p}) = AllCopies(p)
  BY DEF PushesKept, RowsCounted
<1>1. wire \in Seq(Nat) /\ pending \in Seq(Nat) /\ Held \in Seq(Nat) /\ stored \in Seq(Nat)
  BY RowsFit
<1> DEFINE held == Held
<1> HIDE DEF held
<1>2. held \in Seq(Nat)
  BY <1>1 DEF held
<1> DEFINE first == wire \o pending
<1> DEFINE second == first \o held
<1>3. first \in Seq(Nat) /\ Copies(first, p) = Copies(wire, p) + Copies(pending, p)
  BY <1>1, CopiesConcat
<1> HIDE DEF first
<1>4. second \in Seq(Nat) /\ Copies(second, p) = Copies(first, p) + Copies(held, p)
  BY <1>2, <1>3, CopiesConcat
<1> HIDE DEF second
<1>5. Copies(second \o stored, p) = Copies(second, p) + Copies(stored, p)
  BY <1>1, <1>4, CopiesConcat
<1>6. places = second \o stored
  BY DEF first, second, held
<1>7. Copies(places, p) = AllCopies(p)
  BY <1>3, <1>4, <1>5, <1>6 DEF AllCopies, held
<1> QED
  BY <1>7 DEF Copies, Places

\* Types of the rows after a move.
LEMMA MovesKeepRows ==
    ASSUME RowsWereSent, RowsMove,
           collector'.row \in {collector.row, History} \/ PushDrained \/ PushRead
    PROVE  RowsWereSent'
<1>0. /\ pushed \in Nat /\ missed \subseteq 1 .. pushed /\ wire \in Seq(0 .. pushed)
      /\ pending \in Seq(1 .. pushed) /\ stored \in Seq(1 .. pushed)
      /\ collector.row \in 0 .. pushed
      /\ Held \in Seq(1 .. pushed)
  BY RowsFit DEF RowsWereSent
<1>1. pushed' \in Nat /\ pushed \in 0 .. pushed'
  <2>1. UNCHANGED pushed \/ pushed' = pushed + 1
    BY DEF RowsMove, RowsStay, PushSent, AnswerSent, PushSetAside, FramePassed, FramesLost,
           PushesSeeded, PushDrained, PushRead, RowStored
  <2> QED
    BY <1>0, <2>1
<1>2. ASSUME wire # <<>>
      PROVE  /\ Head(wire) \in 0 .. pushed /\ Tail(wire) \in Seq(0 .. pushed)
             /\ Head(wire) # History => Head(wire) \in 1 .. pushed
  BY <1>0, <1>2, HeadTailProperties DEF History
<1>3. missed' \subseteq 1 .. pushed'
  <2>1. Pushes(wire) \subseteq 1 .. pushed
    BY <1>0 DEF Pushes, History
  <2>2. wire # <<>> => {Head(wire)} \ {History} \subseteq 1 .. pushed
    BY <1>2
  <2>3. missed' \subseteq 1 .. pushed
    BY <1>0, <2>1, <2>2 DEF RowsMove, RowsStay, PushSent, AnswerSent, PushSetAside, FramePassed,
          FramesLost, PushesSeeded, PushDrained, PushRead, RowStored
  <2>4. 1 .. pushed \subseteq 1 .. pushed'
    BY <1>0, <1>1
  <2> QED
    BY <2>3, <2>4
<1>4. wire' \in Seq(0 .. pushed')
  <2>1. CASE PushSent
    <3>1. Append(wire, pushed + 1) \in Seq(0 .. pushed + 1)
      BY <1>0, SentFits
    <3> QED
      BY <2>1, <3>1 DEF PushSent
  <2>2. CASE AnswerSent
    BY <1>0, <2>2 DEF AnswerSent, History
  <2>3. CASE PushesSeeded
    <3>1. PICK n \in 0 .. Len(wire) : wire' = SubSeq(wire, n + 1, Len(wire))
      BY <2>3 DEF PushesSeeded
    <3>2. SubSeq(wire, n + 1, Len(wire)) \in Seq(0 .. pushed)
      BY <1>0, <3>1, SubSeqProperties
    <3> QED
      BY <2>3, <3>1, <3>2 DEF PushesSeeded
  <2>4. CASE ~PushSent /\ ~AnswerSent /\ ~PushesSeeded
    <3>1. UNCHANGED pushed
      BY <2>4 DEF RowsMove, RowsStay, PushSetAside, FramePassed, FramesLost, PushDrained, PushRead,
            RowStored
    <3>2. UNCHANGED wire \/ (wire # <<>> /\ wire' = Tail(wire)) \/ wire' = <<>>
      BY <2>4 DEF RowsMove, RowsStay, PushSetAside, FramePassed, FramesLost, PushDrained, PushRead,
            RowStored
    <3>3. <<>> \in Seq(0 .. pushed)
      OBVIOUS
    <3> QED
      BY <1>0, <1>2, <3>1, <3>2, <3>3
  <2> QED
    BY <2>1, <2>2, <2>3, <2>4
<1>5. pending' \in Seq(1 .. pushed')
  <2>1. CASE PushSent
    <3>1. 1 .. pushed \subseteq 1 .. pushed + 1
      BY <1>0
    <3>2. pending \in Seq(1 .. pushed + 1)
      BY <1>0, <3>1
    <3> QED
      BY <2>1, <3>2 DEF PushSent
  <2>2. CASE PushesSeeded
    <3>1. PICK n \in 0 .. Len(wire) :
             (\A i \in 1 .. n : wire[i] # History) /\ pending' = pending \o SubSeq(wire, 1, n)
      BY <2>2 DEF PushesSeeded
    <3>2. /\ Len(SubSeq(wire, 1, n)) = n
          /\ \A i \in 1 .. n : SubSeq(wire, 1, n)[i] = wire[i]
          /\ SubSeq(wire, 1, n) \in Seq(0 .. pushed)
      BY <1>0, SubSeqProperties
    <3>3. \A i \in 1 .. n : SubSeq(wire, 1, n)[i] \in 1 .. pushed
      BY <1>0, <3>1, <3>2 DEF History
    <3>4. SubSeq(wire, 1, n) \in Seq(1 .. pushed)
      BY <3>2, <3>3
    <3> QED
      BY <1>0, <2>2, <3>1, <3>4, ConcatProperties DEF PushesSeeded
  <2>3. CASE PushSetAside
    BY <1>0, <1>2, <2>3 DEF PushSetAside
  <2>4. CASE PushDrained
    BY <1>0, <2>4, HeadTailProperties DEF PushDrained
  <2>5. CASE ~PushSent /\ ~PushesSeeded /\ ~PushSetAside /\ ~PushDrained
    BY <1>0, <2>5 DEF RowsMove, RowsStay, AnswerSent, FramePassed, FramesLost, PushRead, RowStored
  <2> QED
    BY <2>1, <2>2, <2>3, <2>4, <2>5
<1>6. stored' \in Seq(1 .. pushed')
  <2>1. CASE PushSent
    <3>1. 1 .. pushed \subseteq 1 .. pushed + 1
      BY <1>0
    <3>2. stored \in Seq(1 .. pushed + 1)
      BY <1>0, <3>1
    <3> QED
      BY <2>1, <3>2 DEF PushSent
  <2>2. CASE RowStored
    <3>1. Head(Held) \in 1 .. pushed
      BY <1>0, <2>2, HeadTailProperties DEF RowStored
    <3> QED
      BY <1>0, <2>2, <3>1 DEF RowStored
  <2>3. CASE ~PushSent /\ ~RowStored
    BY <1>0, <2>3 DEF RowsMove, RowsStay, AnswerSent, PushSetAside, FramePassed, FramesLost,
          PushesSeeded, PushDrained, PushRead
  <2> QED
    BY <2>1, <2>2, <2>3
<1>7. Held' \in Seq(1 .. pushed)
  <2>1. CASE PushDrained
    <3>1. Head(pending) \in 1 .. pushed
      BY <1>0, <2>1, HeadTailProperties DEF PushDrained
    <3> QED
      BY <2>1, <3>1 DEF PushDrained
  <2>2. CASE PushRead
    BY <1>2, <2>2 DEF PushRead
  <2>3. CASE ~PushDrained /\ ~PushRead
    <3>1. UNCHANGED Held \/ Held' = <<>>
      BY <2>3 DEF RowsMove, RowsStay, PushSent, AnswerSent, PushSetAside, FramePassed, FramesLost,
            PushesSeeded, RowStored
    <3>2. <<>> \in Seq(1 .. pushed)
      OBVIOUS
    <3> QED
      BY <1>0, <3>1, <3>2
  <2> QED
    BY <2>1, <2>2, <2>3
<1>8. collector'.at = "stores" => collector'.row \in 1 .. pushed
  <2> SUFFICES ASSUME collector'.at = "stores" PROVE collector'.row \in 1 .. pushed
    OBVIOUS
  <2>1. Held' = <<collector'.row>>
    BY DEF Held
  <2>2. <<collector'.row>> \in Seq(1 .. pushed)
    BY <1>7, <2>1
  <2> QED
    BY <2>2
<1>9. collector'.row \in 0 .. pushed'
  <2>1. CASE PushDrained \/ PushRead
    <3>1. Held' # <<>>
      BY <2>1 DEF PushDrained, PushRead
    <3>2. collector'.at = "stores"
      BY <3>1 DEF Held
    <3> QED
      BY <1>0, <1>1, <1>8, <3>2
  <2>2. CASE collector'.row \in {collector.row, History}
    BY <1>0, <1>1, <2>2 DEF History
  <2> QED
    BY <2>1, <2>2
<1> QED
  BY <1>1, <1>3, <1>4, <1>5, <1>6, <1>8, <1>9 DEF RowsWereSent, History

\* No frame is in two places after a move that was in one, and none is gone but those
\* that are written down as missed.
LEMMA MovesKeepCounts ==
    ASSUME RowsWereSent, RowsCounted, RowsMove
    PROVE  RowsCounted'
<1> DEFINE held == Held
<1>0. /\ pushed \in Nat /\ missed \subseteq 1 .. pushed
      /\ wire \in Seq(Nat) /\ pending \in Seq(Nat) /\ held \in Seq(Nat) /\ stored \in Seq(Nat)
  BY RowsFit DEF RowsWereSent
<1>1. \A p : /\ Copies(wire, p) \in Nat /\ Copies(pending, p) \in Nat
             /\ Copies(held, p) \in Nat /\ Copies(stored, p) \in Nat
  BY <1>0, PlacesFinite
<1>2. \A p \in 1 .. pushed :
         Copies(wire, p) + Copies(pending, p) + Copies(held, p) + Copies(stored, p)
            = IF p \in missed THEN 0 ELSE 1
  BY DEF RowsCounted, AllCopies
<1>3. ASSUME NEW s \in Seq(Nat), s # <<>>, NEW p
      PROVE  /\ Copies(s, p) = (IF Head(s) = p THEN 1 ELSE 0) + Copies(Tail(s), p)
             /\ Copies(Tail(s), p) \in Nat /\ Copies(<<Head(s)>>, p) = IF Head(s) = p THEN 1 ELSE 0
  <2>1. Head(s) \in Nat /\ Tail(s) \in Seq(Nat)
    BY <1>3, HeadTailProperties
  <2> QED
    BY <1>3, <2>1, CopiesHead, CopiesSingle, PlacesFinite
<1>4. \A p \in 1 .. pushed : p # History
  BY <1>0 DEF History
<1> DEFINE Goal(p) == Copies(wire', p) + Copies(pending', p) + Copies(held', p) + Copies(stored', p)
                         = IF p \in missed' THEN 0 ELSE 1
<1> SUFFICES ASSUME NEW p \in 1 .. pushed' PROVE Goal(p)
  BY DEF RowsCounted, AllCopies
<1>5. CASE RowsStay
  BY <1>2, <1>5 DEF RowsStay
<1>6. CASE PushSent
  <2>1. Copies(Append(wire, pushed + 1), p) = Copies(wire, p) + (IF pushed + 1 = p THEN 1 ELSE 0)
    <3>1. ASSUME NEW x \in Nat
          PROVE  Copies(Append(wire, x), p) = Copies(wire, p) + (IF x = p THEN 1 ELSE 0)
      BY <1>0, CopiesAppend
    <3> QED
      BY <1>0, <3>1
  <2>2. UNCHANGED <<pending, held, stored, missed>> /\ wire' = Append(wire, pushed + 1)
        /\ pushed' = pushed + 1
    BY <1>6 DEF PushSent
  <2>3. CASE p \in 1 .. pushed
    <3>1. pushed + 1 # p
      BY <1>0, <2>3
    <3> HIDE DEF held
    <3> QED
      BY <1>1, <1>2, <2>1, <2>2, <2>3, <3>1
  <2>4. CASE p = pushed + 1
    <3>1. p \notin missed
      BY <1>0, <2>4
    <3>2. /\ wire \in Seq(0 .. pushed) /\ pending \in Seq(1 .. pushed)
          /\ held \in Seq(1 .. pushed) /\ stored \in Seq(1 .. pushed)
      BY RowsFit DEF RowsWereSent
    <3>3. ASSUME NEW s \in Seq(Nat), s \in Seq(0 .. pushed) PROVE Copies(s, p) = 0
      <4>1. \A i \in 1 .. Len(s) : s[i] # p
        BY <1>0, <2>4, <3>3
      <4> QED
        BY <4>1, CopiesNone
    <3>4. \A s \in Seq(1 .. pushed) : s \in Seq(0 .. pushed)
      <4>1. 1 .. pushed \subseteq 0 .. pushed
        BY <1>0
      <4> QED
        BY <4>1, WiderSeq
    <3>5. /\ Copies(wire, p) = 0 /\ Copies(pending, p) = 0
          /\ Copies(held, p) = 0 /\ Copies(stored, p) = 0
      BY <1>0, <3>2, <3>3, <3>4
    <3> HIDE DEF held
    <3> QED
      BY <2>1, <2>2, <2>4, <3>1, <3>5
  <2> QED
    BY <1>0, <2>2, <2>3, <2>4
<1>7. CASE AnswerSent
  <2>1. p \in 1 .. pushed /\ UNCHANGED <<pending, held, stored, missed>>
    BY <1>7 DEF AnswerSent
  <2>2. Copies(Append(wire, History), p) = Copies(wire, p) + (IF History = p THEN 1 ELSE 0)
    BY <1>0, CopiesAppend DEF History
  <2>3. Copies(wire', p) = Copies(wire, p)
    BY <1>1, <1>4, <1>7, <2>1, <2>2 DEF AnswerSent
  <2> HIDE DEF held
  <2> QED
    BY <1>2, <2>1, <2>3
<1>8. CASE PushSetAside
  <2>1. /\ p \in 1 .. pushed /\ UNCHANGED <<held, stored, missed>> /\ wire # <<>>
        /\ wire' = Tail(wire) /\ pending' = Append(pending, Head(wire))
    BY <1>8 DEF PushSetAside
  <2>2. Head(wire) \in Nat /\ Tail(wire) \in Seq(Nat)
    BY <1>0, <2>1, HeadTailProperties
  <2>3. /\ Copies(wire, p) = (IF Head(wire) = p THEN 1 ELSE 0) + Copies(wire', p)
        /\ Copies(pending', p) = Copies(pending, p) + (IF Head(wire) = p THEN 1 ELSE 0)
        /\ Copies(wire', p) \in Nat
    <3>1. ASSUME NEW x \in Nat
          PROVE  Copies(Append(pending, x), p) = Copies(pending, p) + (IF x = p THEN 1 ELSE 0)
      BY <1>0, CopiesAppend
    <3> QED
      BY <1>0, <1>3, <2>1, <2>2, <3>1
  <2>4. Copies(wire', p) + Copies(pending', p) = Copies(wire, p) + Copies(pending, p)
    BY <1>1, <2>3
  <2>5. Copies(pending', p) \in Nat
    BY <1>1, <2>3
  <2> HIDE DEF held
  <2> QED
    BY <1>1, <1>2, <2>1, <2>3, <2>4, <2>5
<1>9. CASE FramePassed
  <2>1. /\ p \in 1 .. pushed /\ UNCHANGED <<pending, held, stored>> /\ wire # <<>>
        /\ wire' = Tail(wire) /\ missed' = missed \cup ({Head(wire)} \ {History})
    BY <1>9 DEF FramePassed
  <2>2. Tail(wire) \in Seq(Nat)
    BY <1>0, <2>1, HeadTailProperties
  <2>3. /\ Copies(wire, p) = (IF Head(wire) = p THEN 1 ELSE 0) + Copies(wire', p)
        /\ Copies(wire', p) \in Nat
    BY <1>0, <2>1, <2>2, CopiesHead, PlacesFinite
  <2> HIDE DEF held
  <2>4. CASE Head(wire) = p
    <3>1. p \in missed'
      BY <1>4, <2>1, <2>4
    <3>2. Copies(wire, p) = 1 + Copies(wire', p)
      BY <2>3, <2>4
    <3> QED
      BY <1>1, <1>2, <2>1, <2>3, <3>1, <3>2
  <2>5. CASE Head(wire) # p
    <3>1. p \in missed' <=> p \in missed
      BY <2>1, <2>5
    <3>2. Copies(wire, p) = Copies(wire', p)
      BY <2>3, <2>5
    <3> QED
      BY <1>1, <1>2, <2>1, <3>1, <3>2
  <2> QED
    BY <2>4, <2>5
<1>10. CASE FramesLost
  <2>1. /\ p \in 1 .. pushed /\ UNCHANGED <<pending, held, stored>>
        /\ wire' = <<>> /\ missed' = missed \cup Pushes(wire)
    BY <1>10 DEF FramesLost
  <2>2. Copies(wire', p) = 0
    BY <2>1, CopiesOfNothing
  <2> HIDE DEF held
  <2>3. CASE p \in Pushes(wire)
    <3>1. Copies(wire, p) > 0
      BY <1>0, <1>1, <2>3, CopiesNone DEF Pushes
    <3> QED
      BY <1>1, <1>2, <2>1, <2>2, <2>3, <3>1
  <2>4. CASE p \notin Pushes(wire)
    <3>1. \A i \in 1 .. Len(wire) : wire[i] # p
      BY <1>0, <1>4, <2>1, <2>4 DEF Pushes
    <3>2. Copies(wire, p) = 0
      BY <1>0, <3>1, CopiesNone
    <3>3. p \in missed' <=> p \in missed
      BY <2>1, <2>4
    <3> QED
      BY <1>1, <1>2, <2>1, <2>2, <3>2, <3>3
  <2> QED
    BY <2>3, <2>4
<1>11. CASE PushesSeeded
  <2>1. PICK n \in 0 .. Len(wire) :
           /\ pending' = pending \o SubSeq(wire, 1, n)
           /\ wire' = SubSeq(wire, n + 1, Len(wire))
    BY <1>11 DEF PushesSeeded
  <2>2. p \in 1 .. pushed /\ UNCHANGED <<held, stored, missed>>
    BY <1>11 DEF PushesSeeded
  <2> DEFINE front == SubSeq(wire, 1, n)
  <2>3. /\ front \in Seq(Nat) /\ wire' \in Seq(Nat)
        /\ Copies(wire, p) = Copies(front, p) + Copies(wire', p)
    BY <1>0, <2>1, CopiesSplit
  <2>4. pending' = pending \o front
    BY <2>1
  <2> HIDE DEF front, held
  <2>5. Copies(pending', p) = Copies(pending, p) + Copies(front, p)
    BY <1>0, <2>3, <2>4, CopiesConcat
  <2>6. Copies(front, p) \in Nat /\ Copies(wire', p) \in Nat
    BY <2>3, PlacesFinite
  <2> QED
    BY <1>1, <1>2, <2>2, <2>3, <2>5, <2>6
<1>12. CASE PushDrained
  <2>1. /\ p \in 1 .. pushed /\ UNCHANGED <<wire, stored, missed>> /\ pending # <<>>
        /\ pending' = Tail(pending) /\ held = <<>> /\ held' = <<Head(pending)>>
    BY <1>12 DEF PushDrained
  <2> HIDE DEF held
  <2>2. /\ Copies(pending, p) = (IF Head(pending) = p THEN 1 ELSE 0) + Copies(pending', p)
        /\ Copies(held', p) = (IF Head(pending) = p THEN 1 ELSE 0)
        /\ Copies(held, p) = 0
        /\ Copies(pending', p) \in Nat
    BY <1>0, <1>3, <2>1, CopiesOfNothing
  <2> QED
    BY <1>1, <1>2, <2>1, <2>2
<1>13. CASE PushRead
  <2>1. /\ p \in 1 .. pushed /\ UNCHANGED <<pending, stored, missed>> /\ wire # <<>>
        /\ wire' = Tail(wire) /\ held = <<>> /\ held' = <<Head(wire)>>
    BY <1>13 DEF PushRead
  <2> HIDE DEF held
  <2>2. /\ Copies(wire, p) = (IF Head(wire) = p THEN 1 ELSE 0) + Copies(wire', p)
        /\ Copies(held', p) = (IF Head(wire) = p THEN 1 ELSE 0)
        /\ Copies(held, p) = 0
        /\ Copies(wire', p) \in Nat
    BY <1>0, <1>3, <2>1, CopiesOfNothing
  <2> QED
    BY <1>1, <1>2, <2>1, <2>2
<1>14. CASE RowStored
  <2>1. /\ p \in 1 .. pushed /\ UNCHANGED <<wire, pending, missed>>
        /\ held # <<>> /\ held' = <<>> /\ stored' = Append(stored, Head(held))
    BY <1>14 DEF RowStored
  <2>2. held = <<Head(held)>>
    BY <2>1 DEF Held
  <2> HIDE DEF held
  <2>3. Head(held) \in Nat
    BY <1>0, <2>1, HeadTailProperties
  <2>4. /\ Copies(held, p) = (IF Head(held) = p THEN 1 ELSE 0)
        /\ Copies(held', p) = 0
        /\ Copies(stored', p) = Copies(stored, p) + (IF Head(held) = p THEN 1 ELSE 0)
    <3>1. ASSUME NEW x \in Nat
          PROVE  Copies(Append(stored, x), p) = Copies(stored, p) + (IF x = p THEN 1 ELSE 0)
      BY <1>0, CopiesAppend
    <3>2. Copies(held, p) = (IF Head(held) = p THEN 1 ELSE 0)
      BY <1>0, <1>3, <2>1, <2>2
    <3>3. Copies(stored', p) = Copies(stored, p) + (IF Head(held) = p THEN 1 ELSE 0)
      BY <2>1, <2>3, <3>1
    <3>4. Copies(held', p) = 0
      BY <2>1, CopiesOfNothing
    <3> QED
      BY <3>2, <3>3, <3>4
  <2> QED
    BY <1>1, <1>2, <2>1, <2>4
<1> QED
  BY <1>5, <1>6, <1>7, <1>8, <1>9, <1>10, <1>11, <1>12, <1>13, <1>14 DEF RowsMove

RowsInv == DxjlTypeOK /\ RowsWereSent /\ RowsCounted

LEMMA RowsStayCounted ==
    ASSUME RuntimeTypeOK, RowsInv, [Next]_vars
    PROVE  RowsInv'
BY DxjlKeepsTypes, StepOnRows, MovesKeepRows, MovesKeepCounts DEF RowsInv

LEMMA RowsBegin == Init => RowsInv
<1> SUFFICES ASSUME Init PROVE RowsInv
  OBVIOUS
<1> USE DEF Init, DxjlInit
<1>1. RoomTypeOK
  <2>1. buffer \in Seq(Nat) /\ fans \subseteq Listeners
    OBVIOUS
  <2>2. collector \in CollectorRecord
    BY OffIsWritten
  <2>3. listener \in [Listeners -> ListenerRecord]
    BY AbsentFits
  <2>4. halt \in BOOLEAN
    BY Zenon
  <2> QED
    BY <2>1, <2>2, <2>3, <2>4 DEF RoomTypeOK
<1>2. LineTypeOK
  BY DEF LineTypeOK, PagerRecord
<1>3. RowsWereSent
  BY DEF RowsWereSent, Off, History
<1>4. RowsCounted
  BY DEF RowsCounted
<1> QED
  BY <1>1, <1>2, <1>3, <1>4, DxjlTypes DEF RowsInv

\* services/realorder.py _pending_pushes and the readers of the 9601 connection: whoever
\* reads a push, it is in one place until it is in the buffer's past, and is lost only
\* where the code loses it.
THEOREM PushesKeptHolds == Spec => []PushesKept
<1>1. Init => RuntimeTypeOK /\ RowsInv
  BY RuntimeBegins, RowsBegin
<1>2. RuntimeTypeOK /\ RowsInv /\ [Next]_vars => RuntimeTypeOK' /\ RowsInv'
  BY NextKeepsTypes, RowsStayCounted
<1>3. RowsInv => PushesKept
  BY CountedIsKept DEF RowsInv
<1> QED
  BY <1>1, <1>2, <1>3, PTL DEF Spec

-----------------------------------------------------------------------------
(* A listener has no gap                                                   *)

\* Nothing is missing in what w has, behind the first row of it.
Gapless(w) ==
    \A i, j \in 1 .. Len(stored) : i < j /\ stored[i] \in Got(w) => stored[j] \in Got(w)

LEMMA PushesSplit ==
    ASSUME NEW s \in Seq(Nat), s # <<>>
    PROVE  Pushes(s) = Pushes(<<Head(s)>>) \cup Pushes(Tail(s))
<1>1. /\ Len(s) \in Nat \ {0} /\ Len(Tail(s)) = Len(s) - 1 /\ Head(s) = s[1]
      /\ \A i \in 1 .. Len(s) - 1 : Tail(s)[i] = s[i + 1]
  BY HeadTailProperties, EmptySeq
<1>2. Pushes(<<Head(s)>>) = {s[1]} \ {History}
  BY <1>1 DEF Pushes
<1>3. Pushes(Tail(s)) = {s[i + 1] : i \in 1 .. Len(s) - 1} \ {History}
  <2> DEFINE t == Tail(s)
  <2>1. t \in Seq(Nat) /\ Len(t) = Len(s) - 1 /\ \A i \in 1 .. Len(s) - 1 : t[i] = s[i + 1]
    BY <1>1, HeadTailProperties
  <2> HIDE DEF t
  <2>2. DOMAIN t = 1 .. Len(s) - 1
    BY <2>1
  <2>3. Pushes(t) = {s[i + 1] : i \in 1 .. Len(s) - 1} \ {History}
    BY <2>1, <2>2 DEF Pushes
  <2> QED
    BY <2>3 DEF t
<1>4. {s[i] : i \in 1 .. Len(s)} = {s[1]} \cup {s[i + 1] : i \in 1 .. Len(s) - 1}
  <2>1. ASSUME NEW i \in 1 .. Len(s) PROVE i = 1 \/ \E k \in 1 .. Len(s) - 1 : i = k + 1
    <3>1. CASE i # 1
      <4>1. i - 1 \in 1 .. Len(s) - 1 /\ i = (i - 1) + 1
        BY <1>1, <3>1
      <4> QED
        BY <4>1
    <3> QED
      BY <3>1
  <2>2. 1 \in 1 .. Len(s) /\ \A k \in 1 .. Len(s) - 1 : k + 1 \in 1 .. Len(s)
    BY <1>1
  <2> QED
    BY <2>1, <2>2
<1>5. Pushes(s) = {s[i] : i \in 1 .. Len(s)} \ {History}
  BY DEF Pushes
<1> QED
  BY <1>2, <1>3, <1>4, <1>5

LEMMA PushesAppend ==
    ASSUME NEW s \in Seq(Nat), NEW x \in Nat
    PROVE  Pushes(Append(s, x)) = Pushes(s) \cup ({x} \ {History})
<1>1. /\ Append(s, x) \in Seq(Nat) /\ Len(Append(s, x)) = Len(s) + 1 /\ Len(s) \in Nat
      /\ \A i \in 1 .. Len(s) : Append(s, x)[i] = s[i]
      /\ Append(s, x)[Len(s) + 1] = x
  BY AppendProperties
<1>2. \A i \in 1 .. Len(s) + 1 : i \in 1 .. Len(s) \/ i = Len(s) + 1
  BY <1>1
<1>3. \A i \in 1 .. Len(s) : i \in 1 .. Len(s) + 1
  BY <1>1
<1>4. Len(s) + 1 \in 1 .. Len(s) + 1
  BY <1>1
<1> DEFINE u == Append(s, x)
<1>5. Pushes(u) = {u[i] : i \in 1 .. Len(s) + 1} \ {History}
  BY <1>1 DEF Pushes
<1>6. Pushes(s) = {s[i] : i \in 1 .. Len(s)} \ {History}
  BY DEF Pushes
<1>7. {u[i] : i \in 1 .. Len(s) + 1} = {s[i] : i \in 1 .. Len(s)} \cup {x}
  <2> HIDE DEF u
  <2>1. (\A i \in 1 .. Len(s) : u[i] = s[i]) /\ u[Len(s) + 1] = x
    BY <1>1 DEF u
  <2> QED
    BY <1>2, <1>3, <1>4, <2>1
<1> QED
  BY <1>5, <1>6, <1>7

\* The stored pushes are all different, and none of them is on its way.
LEMMA StoredOnce ==
    ASSUME RowsWereSent, RowsCounted
    PROVE  /\ \A i, j \in 1 .. Len(stored) : stored[i] = stored[j] => i = j
           /\ \A i \in 1 .. Len(stored) : stored[i] \in Nat \ {0}
           /\ collector.at = "stores" => \A i \in 1 .. Len(stored) : stored[i] # collector.row
<1> DEFINE held == Held
<1>0. /\ pushed \in Nat /\ wire \in Seq(Nat) /\ pending \in Seq(Nat) /\ stored \in Seq(Nat)
      /\ held \in Seq(Nat) /\ stored \in Seq(1 .. pushed) /\ held \in Seq(1 .. pushed)
  BY RowsFit DEF RowsWereSent
<1>1. \A p : /\ Copies(wire, p) \in Nat /\ Copies(pending, p) \in Nat
             /\ Copies(held, p) \in Nat /\ Copies(stored, p) \in Nat
  BY <1>0, PlacesFinite
<1>2. \A p \in 1 .. pushed :
         Copies(wire, p) + Copies(pending, p) + Copies(held, p) + Copies(stored, p) <= 1
  BY DEF RowsCounted, AllCopies
<1>3. \A i \in 1 .. Len(stored) : stored[i] \in 1 .. pushed
  BY <1>0
<1>4. ASSUME NEW i \in 1 .. Len(stored), NEW j \in 1 .. Len(stored), stored[i] = stored[j]
      PROVE  i = j
  <2> DEFINE p == stored[i]
  <2>1. p \in 1 .. pushed /\ stored[i] = p /\ stored[j] = p
    BY <1>3, <1>4
  <2> HIDE DEF p, held
  <2>2. Copies(stored, p) <= 1
    BY <1>1, <1>2, <2>1
  <2> QED
    BY <1>0, <2>1, <2>2, CopiesOnce
<1>5. ASSUME collector.at = "stores", NEW i \in 1 .. Len(stored), stored[i] = collector.row
      PROVE  FALSE
  <2> DEFINE p == stored[i]
  <2>1. held = <<p>>
    BY <1>5 DEF Held
  <2>2. p \in 1 .. pushed /\ p \in Nat /\ stored[i] = p
    BY <1>0, <1>3
  <2> HIDE DEF p, held
  <2>3. Copies(held, p) = 1
    BY <2>1, <2>2, CopiesSingle
  <2>4. Copies(stored, p) # 0
    BY <1>0, <2>2, CopiesNone
  <2> QED
    BY <1>1, <1>2, <2>2, <2>3, <2>4
<1>6. \A p \in 1 .. pushed : p \in Nat \ {0}
  BY <1>0
<1> QED
  BY <1>3, <1>4, <1>5, <1>6

LEMMA SameGot ==
    ASSUME RowsWereSent, UNCHANGED stored, NEW w \in Listeners, Gapless(w),
           \A p \in Nat \ {0} : p \in Got(w)' <=> p \in Got(w)
    PROVE  Gapless(w)'
<1>1. \A i \in 1 .. Len(stored) : stored[i] \in Nat \ {0}
  BY RowsFit DEF RowsWereSent
<1>2. \A i \in 1 .. Len(stored) : stored[i] \in Got(w)' <=> stored[i] \in Got(w)
  BY <1>1
<1> QED
  BY <1>2 DEF Gapless

\* BufferIsRecent, of any buffer (room) of b rows and any past of m.
Recent(room, b, past, m, size) ==
    /\ b <= size
    /\ m > 0 => b > 0
    /\ b < m => b = size
    /\ \A k \in 1 .. b : room[k] = IF b - k < m THEN past[m - (b - k)] ELSE History

OneMore(rows, n, row, more) == (\A i \in 1 .. n : more[i] = rows[i]) /\ more[n + 1] = row

EndOf(rows, n, size, end, e) ==
    /\ e = IF n > size THEN size ELSE n
    /\ \A k \in 1 .. e : end[k] = rows[k + (n - e)]

LEMMA OneMoreRow ==
    ASSUME NEW room, NEW past, NEW all, NEW after, NEW later, NEW row, NEW size \in Nat \ {0},
           NEW b \in Nat, NEW m \in Nat, NEW n \in Nat,
           Recent(room, b, past, m, size),
           OneMore(room, b, row, all), OneMore(past, m, row, later),
           EndOf(all, b + 1, size, after, n)
    PROVE  Recent(after, n, later, m + 1, size)
<1>0. /\ b <= size /\ (b < m => b = size)
      /\ \A k \in 1 .. b : room[k] = IF b - k < m THEN past[m - (b - k)] ELSE History
      /\ (\A i \in 1 .. b : all[i] = room[i]) /\ all[b + 1] = row
      /\ (\A i \in 1 .. m : later[i] = past[i]) /\ later[m + 1] = row
      /\ n = IF b + 1 > size THEN size ELSE b + 1
      /\ \A k \in 1 .. n : after[k] = all[k + (b + 1 - n)]
  BY DEF Recent, OneMore, EndOf
<1>1. 0 < n /\ n <= size /\ n <= b + 1 /\ (n < m + 1 => n = size)
  BY <1>0
<1>2. ASSUME NEW k \in 1 .. n
      PROVE  after[k] = IF n - k < m + 1 THEN later[m + 1 - (n - k)] ELSE History
  <2>1. CASE k = n
    <3>1. k + (b + 1 - n) = b + 1 /\ n - k = 0 /\ m + 1 - (n - k) = m + 1 /\ n - k < m + 1
      BY <2>1
    <3>2. after[k] = all[k + (b + 1 - n)]
      BY <1>0
    <3> QED
      BY <1>0, <3>1, <3>2
  <2>2. CASE k # n
    <3> DEFINE i == k + (b + 1 - n)
    <3>1. i \in 1 .. b /\ b - i = (n - k) - 1 /\ n - k > 0
      BY <1>1, <2>2
    <3>2. after[k] = room[i]
      BY <1>0, <3>1
    <3> HIDE DEF i
    <3>3. after[k] = IF b - i < m THEN past[m - (b - i)] ELSE History
      BY <1>0, <3>1, <3>2
    <3>4. (b - i < m) <=> (n - k < m + 1)
      BY <3>1
    <3>5. CASE n - k < m + 1
      <4>1. m - (b - i) = m + 1 - (n - k) /\ m - (b - i) \in 1 .. m
        BY <3>1, <3>5
      <4> QED
        BY <1>0, <3>3, <3>4, <3>5, <4>1
    <3>6. CASE ~(n - k < m + 1)
      BY <3>3, <3>4, <3>6
    <3> QED
      BY <3>5, <3>6
  <2> QED
    BY <2>1, <2>2
<1> QED
  BY <1>1, <1>2 DEF Recent

LEMMA RecentStays ==
    ASSUME NEW room \in Seq(Nat), NEW past \in Seq(Nat), NEW row \in Nat,
           NEW size \in Nat \ {0}, Recent(room, Len(room), past, Len(past), size)
    PROVE  LET after == LastRows(Append(room, row), size) IN
           Recent(after, Len(after), Append(past, row), Len(Append(past, row)), size)
<1> DEFINE all == Append(room, row)
<1> DEFINE later == Append(past, row)
<1> DEFINE after == LastRows(all, size)
<1> DEFINE b == Len(room)
<1> DEFINE m == Len(past)
<1> DEFINE n == Len(after)
<1>1. /\ b \in Nat /\ m \in Nat
      /\ all \in Seq(Nat) /\ Len(all) = b + 1 /\ all[b + 1] = row
      /\ \A i \in 1 .. b : all[i] = room[i]
      /\ Len(later) = m + 1 /\ later[m + 1] = row
      /\ \A i \in 1 .. m : later[i] = past[i]
  BY AppendProperties
<1> HIDE DEF all, later
<1>2. /\ after \in Seq(Nat)
      /\ n = IF Len(all) > size THEN size ELSE Len(all)
      /\ \A k \in 1 .. n : after[k] = all[k + (Len(all) - n)]
  BY <1>1, LastRowsAre
<1>3. Recent(room, b, past, m, size)
  OBVIOUS
<1> HIDE DEF after, b, m
<1>4. OneMore(room, b, row, all) /\ OneMore(past, m, row, later)
  BY <1>1 DEF OneMore
<1> HIDE DEF n
<1>5. n \in Nat
  BY <1>2 DEF n
<1>6. EndOf(all, b + 1, size, after, n)
  BY <1>1, <1>2 DEF EndOf
<1>7. Recent(after, n, later, m + 1, size)
  BY <1>1, <1>3, <1>4, <1>5, <1>6, OneMoreRow
<1>8. Recent(after, Len(after), later, Len(later), size)
  BY <1>1, <1>7 DEF n
<1> QED
  BY <1>8 DEF after, later, all

LEMMA BufferStays ==
    ASSUME DxjlTypeOK, RowsWereSent, BufferIsRecent, [Next]_vars
    PROVE  BufferIsRecent'
<1>0. /\ collector \in CollectorRecord /\ buffer \in Seq(Nat) /\ stored \in Seq(Nat)
      /\ collector.row \in Nat /\ Len(buffer) \in Nat /\ Len(stored) \in Nat
      /\ BufferSize \in Nat \ {0}
  BY DxjlTypes, RowsFit, SizesAssumption DEF RoomTypeOK, RowsWereSent, CollectorRecord
<1>1. CASE UNCHANGED <<buffer, stored>>
  BY <1>1 DEF BufferIsRecent
<1>2. CASE CollectorSeeds
  <2>1. buffer = <<>> /\ buffer' = <<History>> /\ UNCHANGED stored
    BY <1>2 DEF CollectorSeeds
  <2>2. Len(stored) = 0
    BY <1>0, <2>1 DEF BufferIsRecent
  <2>3. Len(buffer') = 1 /\ buffer'[1] = History
    BY <2>1
  <2> QED
    BY <1>0, <2>1, <2>2, <2>3 DEF BufferIsRecent
<1>3. CASE Stores
  <2>1. /\ buffer' = LastRows(Append(buffer, collector.row), BufferSize)
        /\ stored' = Append(stored, collector.row)
    BY <1>3 DEF Stores
  <2>2. Recent(buffer, Len(buffer), stored, Len(stored), BufferSize)
    BY DEF Recent, BufferIsRecent
  <2>3. Recent(buffer', Len(buffer'), stored', Len(stored'), BufferSize)
    BY <1>0, <2>1, <2>2, RecentStays
  <2> QED
    BY <2>3 DEF Recent, BufferIsRecent
<1> QED
  <2>1. CASE UNCHANGED dxjlVars \/ CloseClient
    BY <1>1, <2>1 DEF dxjlVars, roomVars, CloseClient
  <2>2. CASE DxjlStep
    <3>1. UNCHANGED <<buffer, stored>> \/ CollectorSeeds \/ Stores
      BY <2>2 DEF DxjlStep, LineBreaks, ServerPushes, ServerAnswers, ProbeReads, CloseDxjl, roomVars,
         Page, PageBegins, PageAsked, PageReads, PageFails, PageEnds, AsidePager,
         AsideRoom, Collect, CollectorTurns, CollectorAcquires, CollectorMarks, CollectorSubscribed,
         CollectorReceives, CollectorDrains, CollectorReads, CollectorEnds, CollectorReceived,
         CollectorFails, Puts, Listen, Joins9601, Ensures, Snapshots, Takes, Speaks, Strays,
         Leaves9601, AsideListener
    <3> QED
      BY <1>1, <1>2, <1>3, <3>1
  <2> QED
    BY <2>1, <2>2 DEF Next, vars

LEMMA FansStay ==
    ASSUME DxjlTypeOK, FansListen, ClosesForGood, [Next]_vars
    PROVE  FansListen'
<1>0. /\ collector \in CollectorRecord /\ fans \subseteq Listeners
      /\ listener \in [Listeners -> ListenerRecord]
  BY DxjlTypes DEF RoomTypeOK
<1>1. CASE UNCHANGED <<fans, listener>> /\ collector'.puts \subseteq fans \cup collector.puts
  BY <1>1 DEF FansListen, ClosesForGood
<1>2. CASE UNCHANGED <<listener, collector>> /\ fans' = {} /\ closing' # "no"
  BY <1>2 DEF FansListen
<1>3. CASE Puts
  <2>1. UNCHANGED fans /\ collector'.puts = {}
    BY <1>0, <1>3 DEF Puts, AsideLoop, CollectorRecord
  <2>2. ASSUME NEW w \in Listeners
        PROVE  listener'[w].at = listener[w].at /\ listener'[w].seen = listener[w].seen
    <3>1. listener[w] \in ListenerRecord
      BY <1>0
    <3> QED
      BY <1>3, <3>1 DEF Puts, ListenerRecord
  <2> QED
    BY <2>1, <2>2 DEF FansListen, ClosesForGood
<1>4. CASE \E w \in Listeners : Listen(w)
  <2>1. PICK w \in Listeners : Listen(w)
    BY <1>4
  <2>2. \A u \in Listeners \ {w} : listener'[u] = listener[u]
    BY <1>0, <2>1 DEF Listen, Joins9601, Ensures, Snapshots, Takes, Speaks, Strays, Leaves9601, Listens
  <2>3. listener[w] \in ListenerRecord
    BY <1>0
  <2>4. CASE Leaves9601(w)
    <3>1. listener'[w] = Absent /\ fans' = fans \ {w}
      BY <1>0, <2>4 DEF Leaves9601, Listens
    <3>2. collector'.puts = collector.puts \ {w}
      BY <1>0, <2>4 DEF Leaves9601, CollectorRecord
    <3> QED
      BY <2>2, <3>1, <3>2 DEF FansListen, ClosesForGood, Absent
  <2>5. CASE ~Leaves9601(w)
    <3>1. collector'.puts \subseteq collector.puts
      BY <1>0, <2>1, <2>5 DEF Listen, Joins9601, Ensures, Snapshots, Takes, Speaks, Strays, Off,
                              CollectorRecord
    <3>2. /\ listener'[w].at # "away"
          /\ listener'[w].at \in {"ensures", "tails"} => listener'[w].seen = {}
          /\ fans' = fans \/ fans' = fans \cup {w}
          /\ listener[w].at # "away" \/ w \in fans'
      <4>1. CASE Joins9601(w)
        BY <1>0, <4>1 DEF Joins9601, Listens, Absent
      <4>2. CASE Ensures(w)
        BY <1>0, <2>3, <4>2 DEF Ensures, Listens, ListenerRecord, FansListen
      <4>3. CASE Snapshots(w)
        BY <1>0, <2>3, <4>3 DEF Snapshots, Listens, ListenerRecord
      <4>4. CASE Takes(w)
        BY <1>0, <2>3, <4>4 DEF Takes, Listens, ListenerRecord
      <4>5. CASE Speaks(w) \/ Strays(w)
        BY <1>0, <2>3, <4>5 DEF Speaks, Strays, Listens, ListenerRecord
      <4> QED
        BY <2>1, <2>5, <4>1, <4>2, <4>3, <4>4, <4>5 DEF Listen
    <3> QED
      BY <2>2, <3>1, <3>2 DEF FansListen, ClosesForGood
  <2> QED
    BY <2>4, <2>5
<1>5. CASE Collect /\ ~Puts
  <2>1. UNCHANGED <<fans, listener>>
    BY <1>5 DEF AsideLoop, AsideRoom, Collect, CollectorTurns, CollectorAcquires, CollectorMarks,
         CollectorSubscribed, CollectorSeeds, CollectorReceives, CollectorDrains, CollectorReads,
         CollectorEnds, CollectorReceived, CollectorFails, Stores
  <2>2. collector'.puts = collector.puts \/ collector'.puts = fans
    BY <1>0, <1>5 DEF CollectorRecord, Collects, Collect, CollectorTurns, CollectorAcquires,
         CollectorMarks, CollectorSubscribed, CollectorSeeds, CollectorReceives, CollectorDrains,
         CollectorReads, CollectorEnds, CollectorReceived, CollectorFails, Stores
  <2> QED
    BY <1>1, <2>1, <2>2
<1>6. CASE CloseDxjl
  BY <1>2, <1>6 DEF CloseDxjl, Shuts
<1>7. CASE UNCHANGED roomVars
  BY <1>1, <1>7 DEF roomVars
<1> QED
  <2>1. LineBreaks \/ ServerPushes \/ ServerAnswers \/ ProbeReads \/ CloseClient
        \/ (\E x \in Pagers : Page(x)) \/ UNCHANGED dxjlVars => UNCHANGED roomVars
    BY DEF LineBreaks, ServerPushes, ServerAnswers, ProbeReads, CloseClient, dxjlVars, Page, PageBegins,
           PageAsked, PageReads, PageFails, PageEnds, AsidePager
  <2> QED
    BY <1>3, <1>4, <1>5, <1>6, <1>7, <2>1 DEF Next, DxjlStep, vars

\* A snapshot is the end of the past: with a row it has all that came after it.
LEMMA SnapshotIsTheEnd ==
    ASSUME RowsWereSent, RowsCounted, BufferIsRecent, buffer \in Seq(Nat),
           NEW i \in 1 .. Len(stored), NEW j \in 1 .. Len(stored), i < j,
           stored[i] \in Pushes(LastRows(buffer, TailRows))
    PROVE  stored[j] \in Pushes(LastRows(buffer, TailRows))
<1> DEFINE rows == LastRows(buffer, TailRows)
<1> DEFINE b == Len(buffer)
<1> DEFINE m == Len(stored)
<1> DEFINE n == Len(rows)
<1>0. /\ stored \in Seq(Nat) /\ b \in Nat /\ m \in Nat
      /\ \A k, l \in 1 .. m : stored[k] = stored[l] => k = l
      /\ \A k \in 1 .. m : stored[k] # History
  <2>1. stored \in Seq(Nat) /\ b \in Nat /\ m \in Nat
    BY RowsFit
  <2>2. /\ \A k, l \in 1 .. m : stored[k] = stored[l] => k = l
        /\ \A k \in 1 .. m : stored[k] \in Nat \ {0}
    BY StoredOnce
  <2> QED
    BY <2>1, <2>2 DEF History
<1>1. /\ rows \in Seq(Nat) /\ n = IF b > TailRows THEN TailRows ELSE b
      /\ \A k \in 1 .. n : rows[k] = buffer[k + (b - n)]
  BY LastRowsAre, SizesAssumption
<1>2. \A k \in 1 .. b : buffer[k] = IF b - k < m THEN stored[m - (b - k)] ELSE History
  BY DEF BufferIsRecent
<1>3. Pushes(rows) = {rows[k] : k \in 1 .. n} \ {History}
  BY <1>1 DEF Pushes
<1>4. stored[i] \in Pushes(rows)
  OBVIOUS
<1>5. n \in Nat /\ n <= b
  BY <1>0, <1>1, SizesAssumption
<1> HIDE DEF rows, b, m, n
<1>6. i \in 1 .. m /\ j \in 1 .. m /\ i < j
  BY DEF m
<1>7. ASSUME NEW k \in 1 .. n
      PROVE  rows[k] = IF n - k < m THEN stored[m - (n - k)] ELSE History
  <2> DEFINE l == k + (b - n)
  <2>1. l \in 1 .. b /\ b - l = n - k
    BY <1>0, <1>5
  <2>2. rows[k] = buffer[l]
    BY <1>1
  <2> HIDE DEF l
  <2> QED
    BY <1>2, <2>1, <2>2
<1>8. PICK k \in 1 .. n : rows[k] = stored[i]
  BY <1>3, <1>4
<1>9. n - k < m /\ stored[m - (n - k)] = stored[i]
  BY <1>0, <1>6, <1>7, <1>8
<1>10. m - (n - k) \in 1 .. m
  BY <1>0, <1>5, <1>9
<1>11. i = m - (n - k)
  BY <1>0, <1>6, <1>9, <1>10
<1> DEFINE l == n - (m - j)
<1>12. l \in 1 .. n /\ n - l < m /\ m - (n - l) = j
  BY <1>0, <1>5, <1>6, <1>11
<1> HIDE DEF l
<1>13. rows[l] = stored[j]
  BY <1>7, <1>12
<1>14. stored[j] \in Pushes(rows)
  BY <1>0, <1>3, <1>6, <1>12, <1>13
<1> QED
  BY <1>14 DEF rows

LEMMA StoresKeepsGapless ==
    ASSUME DxjlTypeOK, RowsWereSent, RowsCounted, FansListen, Stores,
           NEW w \in Listeners, listener[w].at # "away", closing = "no", Gapless(w)
    PROVE  Gapless(w)'
<1>0. /\ collector \in CollectorRecord /\ stored \in Seq(Nat) /\ collector.row \in Nat
      /\ Len(stored) \in Nat
  BY DxjlTypes, RowsFit DEF RoomTypeOK, RowsWereSent, CollectorRecord
<1>1. /\ collector.at = "stores" /\ stored' = Append(stored, collector.row)
      /\ collector'.at = "puts" /\ collector'.puts = fans /\ collector'.row = collector.row
      /\ UNCHANGED listener
  BY <1>0 DEF Stores, CollectorRecord
<1>2. w \in fans
  BY DEF FansListen
<1>3. Got(w) = listener[w].seen \cup Pushes(listener[w].queue)
  BY <1>1 DEF Got
<1>4. Got(w)' = Got(w) \cup {collector.row}
  BY <1>1, <1>2, <1>3 DEF Got
<1>5. /\ Len(stored') = Len(stored) + 1 /\ stored'[Len(stored) + 1] = collector.row
      /\ \A i \in 1 .. Len(stored) : stored'[i] = stored[i]
  BY <1>0, <1>1, AppendProperties
<1>6. \A i \in 1 .. Len(stored) : stored[i] # collector.row
  BY <1>1, StoredOnce
<1> SUFFICES ASSUME NEW i \in 1 .. Len(stored'), NEW j \in 1 .. Len(stored'), i < j,
                    stored'[i] \in Got(w)'
             PROVE  stored'[j] \in Got(w)'
  BY DEF Gapless
<1>7. CASE j = Len(stored) + 1
  BY <1>4, <1>5, <1>7
<1>8. CASE j # Len(stored) + 1
  <2>1. i \in 1 .. Len(stored) /\ j \in 1 .. Len(stored)
    BY <1>0, <1>5, <1>8
  <2>2. stored[i] \in Got(w)
    BY <1>4, <1>5, <1>6, <2>1
  <2>3. stored[j] \in Got(w)
    BY <2>1, <2>2 DEF Gapless
  <2> QED
    BY <1>4, <1>5, <2>1, <2>3
<1> QED
  BY <1>7, <1>8

\* The row that was put is in the queue, or the queue was full.
LEMMA PutsKeepsGapless ==
    ASSUME DxjlTypeOK, RowsWereSent, Puts, NEW w \in Listeners, Gapless(w),
           listener[w].at # "away", ~listener'[w].gap
    PROVE  Gapless(w)'
<1>0. /\ collector \in CollectorRecord /\ collector.row \in Nat /\ listener[w] \in ListenerRecord
      /\ listener[w].queue \in Seq(Nat)
  BY DxjlTypes DEF RoomTypeOK, CollectorRecord, ListenerRecord
<1>1. /\ collector.at = "puts" /\ collector'.puts = {} /\ UNCHANGED stored
  BY <1>0 DEF Puts, CollectorRecord
<1>2. Got(w)' = listener'[w].seen \cup Pushes(listener'[w].queue)
  BY <1>1 DEF Got
<1>3. ASSUME NEW p \in Nat \ {0}
      PROVE  p \in Got(w)' <=> p \in Got(w)
  <2>1. CASE w \notin collector.puts
    <3>1. listener'[w] = listener[w]
      BY <2>1 DEF Puts
    <3> QED
      BY <1>2, <2>1, <3>1 DEF Got
  <2>2. CASE w \in collector.puts
    <3>1. CASE Len(listener[w].queue) < QueueSize
      <4>1. listener'[w] = [listener[w] EXCEPT !.queue = Append(@, collector.row)]
        BY <2>2, <3>1 DEF Puts
      <4>2. /\ listener'[w].queue = Append(listener[w].queue, collector.row)
            /\ listener'[w].seen = listener[w].seen
        BY <1>0, <4>1 DEF ListenerRecord
      <4>3. Pushes(listener'[w].queue) = Pushes(listener[w].queue) \cup ({collector.row} \ {History})
        BY <1>0, <4>2, PushesAppend
      <4> QED
        BY <1>1, <1>2, <2>2, <4>2, <4>3 DEF Got, History
    <3>2. CASE ~(Len(listener[w].queue) < QueueSize)
      <4>1. listener'[w] = [listener[w] EXCEPT !.gap = TRUE]
        BY <2>2, <3>2 DEF Puts
      <4>2. listener'[w].gap
        BY <1>0, <4>1 DEF ListenerRecord
      <4> QED
        BY <4>2
    <3> QED
      BY <3>1, <3>2
  <2> QED
    BY <2>1, <2>2
<1> QED
  BY <1>1, <1>3, SameGot

\* Whatever else the collector does, everybody has what they had.
LEMMA CollectKeepsGapless ==
    ASSUME DxjlTypeOK, RowsWereSent, Collect, ~Stores, ~Puts, NEW w \in Listeners, Gapless(w)
    PROVE  Gapless(w)'
<1>0. collector \in CollectorRecord
  BY DxjlTypes DEF RoomTypeOK
<1>1. UNCHANGED <<stored, listener>>
  BY DEF AsideRoom, Collect, CollectorTurns, CollectorAcquires, CollectorMarks,
         CollectorSubscribed, CollectorSeeds, CollectorReceives, CollectorDrains, CollectorReads,
         CollectorEnds, CollectorReceived, CollectorFails
<1>2. collector.at # "puts"
  BY DEF Collect, CollectorTurns, CollectorAcquires, CollectorMarks, Acting,
         CollectorSubscribed, CollectorSeeds, CollectorReceives, CollectorDrains, CollectorReads,
         CollectorEnds, CollectorReceived, CollectorFails
<1>3. collector'.at # "puts" \/ collector'.row = History
  BY <1>0, <1>2 DEF CollectorRecord, Collects, Acting, Collect, CollectorTurns, CollectorAcquires,
         CollectorMarks, CollectorSubscribed, CollectorSeeds, CollectorReceives, CollectorDrains,
         CollectorReads, CollectorEnds, CollectorReceived, CollectorFails
<1>4. \A p \in Nat \ {0} : p \in Got(w)' <=> p \in Got(w)
  BY <1>1, <1>2, <1>3 DEF Got, History
<1> QED
  BY <1>1, <1>4, SameGot

\* A listener's own step, and what it is to the others.
LEMMA ListenKeepsGapless ==
    ASSUME DxjlTypeOK, RowsWereSent, RowsCounted, BufferIsRecent, FansListen,
           NEW u \in Listeners, Listen(u), NEW w \in Listeners, closing = "no",
           listener'[w].at # "away", ~listener'[w].gap,
           listener[w].at # "away" /\ ~listener[w].gap => Gapless(w)
    PROVE  Gapless(w)'
<1>0. /\ collector \in CollectorRecord /\ listener \in [Listeners -> ListenerRecord]
      /\ buffer \in Seq(Nat) /\ UNCHANGED stored
  BY DxjlTypes DEF RoomTypeOK, Listen, Joins9601, Ensures, Snapshots, Takes, Speaks, Strays,
         Leaves9601, AsideListener
<1>1. listener[w] \in ListenerRecord /\ listener[u] \in ListenerRecord
  BY <1>0
<1>2. CASE u # w
  <2>1. listener'[w] = listener[w]
    BY <1>0, <1>2 DEF Listen, Joins9601, Ensures, Snapshots, Takes, Speaks, Strays, Leaves9601,
                      Listens
  <2>2. \/ UNCHANGED collector
        \/ collector.at = "off" /\ collector'.at = "on"
        \/ /\ collector'.at = collector.at /\ collector'.row = collector.row
           /\ collector'.puts = collector.puts \ {u}
    BY <1>0 DEF Listen, Joins9601, Ensures, Snapshots, Takes, Speaks, Strays, Leaves9601, Off,
                CollectorRecord
  <2>3. Got(w)' = Got(w)
    BY <1>2, <2>1, <2>2 DEF Got
  <2> QED
    BY <1>0, <2>1, <2>3, SameGot
<1>3. CASE u = w
  <2>1. CASE Joins9601(w)
    <3>1. listener'[w].seen = {} /\ listener'[w].queue = <<>> /\ UNCHANGED collector
      BY <1>0, <2>1 DEF Joins9601, Listens, Absent
    <3>2. w \notin collector.puts
      BY <2>1 DEF FansListen, Joins9601
    <3>3. Pushes(<<>>) = {}
      BY DEF Pushes
    <3>4. Got(w)' = {}
      BY <3>1, <3>2, <3>3 DEF Got
    <3> QED
      BY <3>4 DEF Gapless
  <2>2. CASE Ensures(w)
    <3>1. /\ listener'[w].seen = listener[w].seen /\ listener'[w].queue = listener[w].queue
          /\ listener'[w].gap = listener[w].gap /\ listener[w].at # "away"
      BY <1>0, <1>1, <2>2 DEF Ensures, Listens, ListenerRecord
    <3>2. UNCHANGED collector \/ (collector.at = "off" /\ collector'.at = "on")
      BY <2>2 DEF Ensures, Off
    <3>3. Got(w)' = Got(w)
      BY <3>1, <3>2 DEF Got
    <3> QED
      BY <1>0, <3>1, <3>3, SameGot
  <2>3. CASE Snapshots(w)
    <3>1. /\ listener'[w].seen = Pushes(LastRows(buffer, TailRows))
          /\ listener'[w].queue = listener[w].queue /\ listener'[w].gap = listener[w].gap
          /\ listener[w].at # "away" /\ UNCHANGED collector
      BY <1>0, <1>1, <2>3 DEF Snapshots, Listens, ListenerRecord
    <3>2. listener[w].seen = {}
      BY <2>3 DEF Snapshots, FansListen
    <3>3. Got(w)' = Pushes(LastRows(buffer, TailRows)) \cup Got(w)
      BY <3>1, <3>2 DEF Got
    <3>4. Gapless(w)
      BY <3>1
    <3> SUFFICES ASSUME NEW i \in 1 .. Len(stored), NEW j \in 1 .. Len(stored), i < j,
                        stored[i] \in Got(w)'
                 PROVE  stored[j] \in Got(w)'
      BY <1>0 DEF Gapless
    <3>5. CASE stored[i] \in Pushes(LastRows(buffer, TailRows))
      BY <1>0, <3>3, <3>5, SnapshotIsTheEnd
    <3>6. CASE stored[i] \in Got(w)
      BY <3>3, <3>4, <3>6 DEF Gapless
    <3> QED
      BY <3>3, <3>5, <3>6
  <2>4. CASE Takes(w)
    <3> DEFINE queue == listener[w].queue
    <3>1. /\ queue \in Seq(Nat) /\ queue # <<>>
          /\ listener'[w].seen = listener[w].seen \cup Pushes(<<Head(queue)>>)
          /\ listener'[w].queue = Tail(queue) /\ listener'[w].gap = listener[w].gap
          /\ listener[w].at # "away" /\ UNCHANGED collector
      BY <1>0, <1>1, <2>4 DEF Takes, Listens, ListenerRecord
    <3>2. Pushes(queue) = Pushes(<<Head(queue)>>) \cup Pushes(Tail(queue))
      BY <3>1, PushesSplit
    <3>3. Got(w)' = Got(w)
      BY <3>1, <3>2 DEF Got
    <3> QED
      BY <1>0, <3>1, <3>3, SameGot
  <2>5. CASE Speaks(w) \/ Strays(w) \/ Leaves9601(w)
    <3>1. listener'[w].gap \/ listener'[w].at = "away"
      <4>1. CASE Speaks(w)
        BY <1>0, <1>1, <4>1 DEF Speaks, Listens, ListenerRecord
      <4>2. CASE Strays(w)
        BY <1>0, <1>1, <4>2 DEF Strays, Listens, ListenerRecord
      <4>3. CASE Leaves9601(w)
        BY <1>0, <4>3 DEF Leaves9601, Listens, Absent
      <4> QED
        BY <2>5, <4>1, <4>2, <4>3
    <3> QED
      BY <3>1
  <2> QED
    BY <1>3, <2>1, <2>2, <2>3, <2>4, <2>5 DEF Listen
<1> QED
  BY <1>2, <1>3

GapInv == RowsInv /\ BufferIsRecent /\ FansListen /\ LeavesNoGap

LEMMA NoGapIsGapless ==
    ASSUME stored \in Seq(Nat)
    PROVE  LeavesNoGap <=> \A w \in Listeners :
              listener[w].at # "away" /\ ~listener[w].gap /\ closing = "no" => Gapless(w)
BY DEF LeavesNoGap, Gapless

LEMMA GapStays ==
    ASSUME RuntimeTypeOK, GapInv, [Next]_vars
    PROVE  GapInv'
<1>0. ClosesForGood /\ DxjlTypeOK /\ RowsWereSent /\ RowsCounted
  BY NextKeepsTypes DEF GapInv, RowsInv
<1>1. RowsInv' /\ BufferIsRecent' /\ FansListen'
  BY <1>0, RowsStayCounted, BufferStays, FansStay DEF GapInv
<1>2. stored \in Seq(Nat) /\ stored' \in Seq(Nat)
  <2>1. pushed' \in Nat /\ stored' \in Seq(1 .. pushed')
    BY <1>1 DEF RowsInv, RowsWereSent
  <2>2. 1 .. pushed' \subseteq Nat
    BY <2>1
  <2> QED
    BY <1>0, <2>1, <2>2, RowsFit, WiderSeq
<1>3. ASSUME NEW w \in Listeners, listener'[w].at # "away", ~listener'[w].gap, closing' = "no"
      PROVE  Gapless(w)'
  <2>0. /\ closing = "no" /\ listener \in [Listeners -> ListenerRecord]
        /\ listener[w] \in ListenerRecord
        /\ BufferIsRecent /\ FansListen
    BY <1>0, <1>3, DxjlTypes DEF ClosesForGood, RoomTypeOK, GapInv
  <2>1. listener[w].at # "away" /\ ~listener[w].gap => Gapless(w)
    BY <1>2, <2>0, NoGapIsGapless DEF GapInv
  <2>2. CASE UNCHANGED roomVars
    <3>1. UNCHANGED <<stored, listener>> /\ Got(w)' = Got(w)
      BY <2>2 DEF roomVars, Got
    <3> QED
      BY <1>0, <1>3, <2>1, <3>1, SameGot
  <2>3. CASE Collect
    <3>1. listener[w].at # "away" /\ ~listener[w].gap
      <4>1. CASE Puts
        BY <1>3, <2>0, <4>1 DEF Puts, ListenerRecord
      <4>2. CASE ~Puts
        <5>1. UNCHANGED listener
          BY <2>3, <4>2 DEF AsideRoom, Collect, CollectorTurns, CollectorAcquires, CollectorMarks,
             CollectorSubscribed, CollectorSeeds, CollectorReceives, CollectorDrains,
             CollectorReads, CollectorEnds, CollectorReceived, CollectorFails, Stores
        <5> QED
          BY <1>3, <5>1
      <4> QED
        BY <4>1, <4>2
    <3> QED
      BY <1>0, <1>3, <2>0, <2>1, <2>3, <3>1, StoresKeepsGapless, PutsKeepsGapless,
         CollectKeepsGapless
  <2>4. CASE \E u \in Listeners : Listen(u)
    BY <1>0, <1>3, <2>0, <2>1, <2>4, ListenKeepsGapless
  <2>5. CASE CloseDxjl \/ CloseClient
    BY <1>3, <2>5 DEF CloseDxjl, CloseClient, Shuts
  <2>6. \/ LineBreaks \/ ServerPushes \/ ServerAnswers \/ ProbeReads
        \/ (\E x \in Pagers : Page(x)) \/ UNCHANGED dxjlVars
        => UNCHANGED roomVars
    BY DEF LineBreaks, ServerPushes, ServerAnswers, ProbeReads, dxjlVars, Page, PageBegins,
           PageAsked, PageReads, PageFails, PageEnds, AsidePager
  <2> QED
    BY <2>2, <2>3, <2>4, <2>5, <2>6 DEF Next, DxjlStep, vars
<1>4. LeavesNoGap'
  BY <1>2, <1>3 DEF LeavesNoGap, Gapless
<1> QED
  BY <1>1, <1>4 DEF GapInv

LEMMA GapBegins == Init => GapInv
<1> SUFFICES ASSUME Init PROVE GapInv
  OBVIOUS
<1> USE DEF Init, DxjlInit
<1>1. BufferIsRecent
  BY SizesAssumption DEF BufferIsRecent
<1>2. FansListen /\ LeavesNoGap
  BY DEF FansListen, LeavesNoGap, Off, Absent
<1> QED
  BY <1>1, <1>2, RowsBegin DEF GapInv

\* server/app.py dxjl_stream() and server/runtime.py _on_dxjl_record(): the queue is there
\* before the snapshot is taken, and what the snapshot does not have is in the queue.
THEOREM NoGapHolds == Spec => []NoGap
<1>1. Init => RuntimeTypeOK /\ GapInv
  BY RuntimeBegins, GapBegins
<1>2. RuntimeTypeOK /\ GapInv /\ [Next]_vars => RuntimeTypeOK' /\ GapInv'
  BY NextKeepsTypes, GapStays
<1>3. GapInv => NoGap
  BY DEF GapInv, LeavesNoGap, NoGap
<1> QED
  BY <1>1, <1>2, <1>3, PTL DEF Spec
=============================================================================
