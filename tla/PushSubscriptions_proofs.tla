----------------------- MODULE PushSubscriptions_proofs -----------------------
(***************************************************************************)
(* Theorems about the subscriptions: whatever callers and readers overlap,  *)
(* a socket is not closed under its reader and a registration is not        *)
(* remembered for another connection; what is subscribed has a reader, if   *)
(* no activation overlaps a stop.                                          *)
(***************************************************************************)
EXTENDS PushSubscriptions, TLAPS

\* What is the callers'.
CallersFit ==
    /\ pc \in [Callers -> Places]
    /\ topic \in [Callers -> Topics] /\ sock \in [Callers -> Sockets \cup {None}]
    /\ tries \in [Callers -> 0..2]
    /\ TriesCounted

\* What is not the callers'.
OthersFit ==
    /\ {table, conn} \subseteq Sockets \cup {None} /\ alive \subseteq Sockets
    /\ lane \in Callers \cup Readers \cup {None}
    /\ regLock \in [Sockets -> Callers \cup {None}]
    /\ known \in [Sockets -> SUBSET Topics] /\ served \in [Sockets -> SUBSET Topics]
    /\ asked \in [Sockets -> SUBSET Topics]
    /\ wire \in [Sockets -> 0..MaxWire]
    /\ want \subseteq Topics /\ granted \subseteq Topics
    /\ stop \in BOOLEAN /\ thread \in Readers \cup {None}
    /\ rpc \in [Readers -> ReaderPlaces] /\ rsock \in [Readers -> Sockets \cup {None}]

Fits == CallersFit /\ OthersFit /\ overlapped \in BOOLEAN

LEMMA InitFits == Init => Fits
<1> SUFFICES ASSUME Init PROVE Fits
  OBVIOUS
<1>1. overlapped \in BOOLEAN /\ stop \in BOOLEAN
  BY Zenon DEF Init
<1>2. topic \in [Callers -> Topics]
  <2>1. (CHOOSE t \in Topics : TRUE) \in Topics
    BY TopicsAssumption
  <2> QED
    BY <2>1 DEF Init
<1>3. /\ {table, conn} \subseteq Sockets \cup {None} /\ alive \subseteq Sockets
      /\ lane \in Callers \cup Readers \cup {None}
      /\ regLock \in [Sockets -> Callers \cup {None}]
      /\ known \in [Sockets -> SUBSET Topics] /\ served \in [Sockets -> SUBSET Topics]
      /\ asked \in [Sockets -> SUBSET Topics]
      /\ want \subseteq Topics /\ granted \subseteq Topics
      /\ thread \in Readers \cup {None}
  BY DEF Init
<1>4. /\ wire \in [Sockets -> 0..MaxWire]
      /\ rpc \in [Readers -> ReaderPlaces] /\ rsock \in [Readers -> Sockets \cup {None}]
      /\ pc \in [Callers -> Places]
      /\ sock \in [Callers -> Sockets \cup {None}]
      /\ tries \in [Callers -> 0..2]
  BY WireAssumption DEF Init, ReaderPlaces, Places
<1>5. TriesCounted
  BY DEF Init, TriesCounted
<1>6. CallersFit
  BY <1>2, <1>4, <1>5 DEF CallersFit
<1>7. OthersFit
  BY <1>1, <1>3, <1>4 DEF OthersFit
<1> QED
  BY <1>1, <1>6, <1>7 DEF Fits

-----------------------------------------------------------------------------
(* The callers' variables                                                  *)

\* A function stays one when it is changed in one place, which need not be its own.
LEMMA UpdateFits ==
    ASSUME NEW S, NEW T, NEW f \in [S -> T], NEW x, NEW v, x \in S => v \in T
    PROVE  [f EXCEPT ![x] = v] \in [S -> T]
  OBVIOUS

\* A caller goes on, to a place where its attempts are not counted.
LEMMA GoesFits ==
    ASSUME Fits, NEW c \in Callers, NEW place \in Places, Goto(c, place),
           UNCHANGED <<topic, tries>>,
           sock' \in [Callers -> Sockets \cup {None}],
           place \in {"idle", "acquire", "register", "send"} => tries[c] = 0
    PROVE  CallersFit'
<1>1. pc' \in [Callers -> Places] /\ pc'[c] = place /\ \A d \in Callers \ {c} : pc'[d] = pc[d]
  BY DEF Fits, CallersFit, Goto
<1>2. TriesCounted'
  BY <1>1 DEF Fits, CallersFit, TriesCounted
<1> QED
  BY <1>1, <1>2 DEF Fits, CallersFit

\* A call ends.
LEMMA EndsFits ==
    ASSUME Fits, NEW c \in Callers, Ends(c)
    PROVE  CallersFit'
  BY DEF Fits, CallersFit, OthersFit, TriesCounted, Goto, Ends, Hold, Places

LEMMA AttemptFits ==
    ASSUME Fits, NEW c \in Callers, NEW n \in 0..2, AttemptEnds(c, n)
    PROVE  /\ CallersFit' /\ lane' \in {lane, None}
           /\ regLock' \in [Sockets -> Callers \cup {None}]
           /\ pc'[c] \in {"send", "idle"}
           /\ \A d \in Callers \ {c} : pc'[d] = pc[d]
<1>1. lane' \in {lane, None}
  BY DEF AttemptEnds
<1>2. CASE n < 2
  <2>1. /\ pc' = [pc EXCEPT ![c] = "send"] /\ tries' = [tries EXCEPT ![c] = n]
        /\ UNCHANGED <<regLock, topic, sock>>
    BY <1>2 DEF AttemptEnds, Goto
  <2> QED
    BY <1>1, <1>2, <2>1 DEF Fits, CallersFit, OthersFit, TriesCounted, Places
<1>3. CASE ~(n < 2)
  <2>1. regLock' = [regLock EXCEPT ![sock[c]] = None] /\ Ends(c)
    BY <1>3 DEF AttemptEnds
  <2>2. regLock' \in [Sockets -> Callers \cup {None}]
    BY <2>1 DEF Fits, CallersFit, OthersFit
  <2> QED
    BY <1>1, <2>1, <2>2, EndsFits DEF Ends, Goto, Fits, CallersFit, OthersFit
<1> QED
  BY <1>2, <1>3

\* A socket that is no longer open keeps the types.
LEMMA DiesFits ==
    ASSUME Fits, NEW s, Dies(s)
    PROVE  /\ alive' \subseteq Sockets /\ known' \in [Sockets -> SUBSET Topics]
           /\ served' \in [Sockets -> SUBSET Topics]
           /\ asked' \in [Sockets -> SUBSET Topics] /\ wire' \in [Sockets -> 0..MaxWire]
<1>1. wire' \in [Sockets -> 0..MaxWire]
  BY WireAssumption, UpdateFits DEF Fits, OthersFit, Dies
<1>2. served' \in [Sockets -> SUBSET Topics] /\ asked' \in [Sockets -> SUBSET Topics]
  BY UpdateFits DEF Fits, OthersFit, Dies
<1> QED
  BY <1>1, <1>2 DEF Fits, OthersFit, Dies

LEMMA BeginFits ==
    ASSUME Fits, NEW c \in Callers, Begin(c)
    PROVE  CallersFit' /\ OthersFit'
<1>1. PICK o \in Ops, t \in Topics :
        /\ topic' = [topic EXCEPT ![c] = t]
        /\ pc' = [pc EXCEPT ![c] = FirstPlace(o)]
        /\ granted' = CASE o = "subscribe" -> granted
                        [] o = "unsubscribe" -> granted \ {t}
                        [] OTHER -> {}
  BY DEF Begin, Goto
<1>2. granted' \subseteq Topics
  BY <1>1 DEF Fits, OthersFit
<1>3. FirstPlace(o) \in {"acquire", "remove", "halt"}
  BY DEF FirstPlace, Ops
<1>4. tries[c] = 0
  BY DEF Begin, Fits, CallersFit, TriesCounted
<1>5. CallersFit'
  BY <1>1, <1>3, <1>4 DEF Begin, Fits, CallersFit, TriesCounted, Places
<1> QED
  BY <1>2, <1>5 DEF Begin, Fits, OthersFit, laneVars, lockVars, netVars, readerVars

LEMMA AcquireFits ==
    ASSUME Fits, NEW c \in Callers, Acquire(c)
    PROVE  CallersFit' /\ OthersFit'
<1>1. PICK s \in Sockets :
        /\ Acquired(c, s)
        /\ known' = IF conn' = conn THEN known ELSE [known EXCEPT ![s] = {}]
  BY DEF Acquire
<1>2. /\ pc[c] = "acquire" /\ Hold(c, s) /\ Goto(c, "register")
      /\ UNCHANGED <<lockVars, want, readerVars, topic, tries, granted>>
  BY <1>1 DEF Acquired
<1>3. tries[c] = 0
  BY <1>2 DEF Fits, CallersFit, TriesCounted
<1>4. CallersFit'
  <2>1. sock' \in [Callers -> Sockets \cup {None}] /\ "register" \in Places
    BY <1>2 DEF Hold, Fits, CallersFit, OthersFit, Places
  <2> QED
    BY <1>2, <1>3, <2>1, GoesFits
<1>5. /\ {table', conn'} \subseteq Sockets \cup {None} /\ alive' \subseteq Sockets
      /\ served' \in [Sockets -> SUBSET Topics] /\ asked' \in [Sockets -> SUBSET Topics]
      /\ wire' \in [Sockets -> 0..MaxWire]
  BY <1>1, WireAssumption DEF Acquired, laneVars, Fits, CallersFit, OthersFit
<1>6. known' \in [Sockets -> SUBSET Topics]
  BY <1>1 DEF Fits, CallersFit, OthersFit
<1> QED
  BY <1>2, <1>4, <1>5, <1>6 DEF Fits, OthersFit, lockVars, readerVars

LEMMA RegistersFit ==
    ASSUME Fits, NEW c \in Callers,
           \/ AcquireFails(c) \/ Register(c) \/ Send(c) \/ SendFails(c) \/ Await(c)
           \/ AwaitFails(c)
    PROVE  CallersFit' /\ OthersFit'
<1>1. CASE AcquireFails(c)
  BY <1>1, EndsFits DEF AcquireFails, Fits, OthersFit, lockVars, netVars, readerVars
<1>2. CASE Register(c)
  <2>1. tries[c] = 0 /\ UNCHANGED <<topic, sock, tries>>
    BY <1>2 DEF Register, Fits, CallersFit, TriesCounted
  <2>2. Goto(c, "add") \/ Goto(c, "send")
    BY <1>2 DEF Register
  <2>3. sock' \in [Callers -> Sockets \cup {None}] /\ {"add", "send"} \subseteq Places
    BY <2>1 DEF Fits, CallersFit, OthersFit, Places
  <2>4. CallersFit'
    BY <2>1, <2>2, <2>3, GoesFits
  <2>5. regLock' \in [Sockets -> Callers \cup {None}]
    BY <1>2 DEF Register, Fits, CallersFit, OthersFit
  <2> QED
    BY <1>2, <2>4, <2>5 DEF Register, Fits, OthersFit, laneVars, netVars, readerVars
<1>3. CASE Send(c)
  <2>1. tries' \in [Callers -> 0..2]
    BY <1>3 DEF Send, Fits, CallersFit, OthersFit, TriesCounted
  <2>2. asked' \in [Sockets -> SUBSET Topics]
    <3>1. asked' = [asked EXCEPT ![sock[c]] = asked[sock[c]] \cup {topic[c]}]
      BY <1>3 DEF Send
    <3>2. sock[c] \in Sockets => asked[sock[c]] \cup {topic[c]} \in SUBSET Topics
      BY DEF Fits, CallersFit, OthersFit
    <3> QED
      BY <3>1, <3>2, UpdateFits DEF Fits, OthersFit
  <2>3. CallersFit'
    BY <1>3, <2>1 DEF Send, Goto, Fits, CallersFit, OthersFit, TriesCounted, Places
  <2> QED
    BY <1>3, <2>2, <2>3 DEF Send, Fits, OthersFit, laneVars, readerVars
<1>4. CASE SendFails(c) \/ AwaitFails(c)
  <2>1. PICK n \in 0..2 : AttemptEnds(c, n)
    <3>1. tries[c] \in 0..2 /\ (pc[c] = "send" => tries[c] + 1 \in 0..2)
      BY DEF Fits, CallersFit, OthersFit, TriesCounted
    <3> QED
      BY <1>4, <3>1 DEF SendFails, AwaitFails
  <2>2. /\ CallersFit' /\ lane' \in {lane, None}
        /\ regLock' \in [Sockets -> Callers \cup {None}]
    BY <2>1, AttemptFits
  <2> QED
    BY <1>4, <2>2 DEF SendFails, AwaitFails, Fits, OthersFit, laneVars, netVars, readerVars
<1>5. CASE Await(c)
  <2>1. sock' \in [Callers -> Sockets \cup {None}] /\ "add" \in Places
    BY <1>5 DEF Await, Fits, CallersFit, OthersFit, Places
  <2>2. CallersFit'
    BY <1>5, <2>1, GoesFits DEF Await
  <2>3. wire' \in [Sockets -> 0..MaxWire]
    <3>1. wire' = [wire EXCEPT ![sock[c]] = wire[sock[c]] - 1] /\ wire[sock[c]] > 0
      BY <1>5 DEF Await
    <3>2. sock[c] \in Sockets => wire[sock[c]] - 1 \in 0..MaxWire
      BY <3>1, WireAssumption DEF Fits, OthersFit
    <3> QED
      BY <3>1, <3>2, UpdateFits DEF Fits, OthersFit
  <2>4. known' \in [Sockets -> SUBSET Topics]
    <3>1. known' = [known EXCEPT ![sock[c]] = known[sock[c]] \cup {topic[c]}]
      BY <1>5 DEF Await
    <3>2. sock[c] \in Sockets => known[sock[c]] \cup {topic[c]} \in SUBSET Topics
      BY DEF Fits, CallersFit, OthersFit
    <3> QED
      BY <3>1, <3>2, UpdateFits DEF Fits, OthersFit
  <2>5. regLock' \in [Sockets -> Callers \cup {None}]
    BY <1>5 DEF Await, Fits, OthersFit
  <2> QED
    BY <1>5, <2>2, <2>3, <2>4, <2>5 DEF Await, Fits, OthersFit, laneVars, readerVars
<1> QED
  BY <1>1, <1>2, <1>3, <1>4, <1>5

LEMMA ActivatesFit ==
    ASSUME Fits, NEW c \in Callers,
           Add(c) \/ Ensure(c) \/ ClearStop(c) \/ Assign(c) \/ Start(c)
    PROVE  CallersFit' /\ OthersFit'
<1>1. CASE Add(c)
  <2>1. sock' \in [Callers -> Sockets \cup {None}] /\ "ensure" \in Places
    BY <1>1 DEF Add, Hold, Fits, CallersFit, OthersFit, Places
  <2>2. CallersFit'
    BY <1>1, <2>1, GoesFits DEF Add
  <2>3. want' \subseteq Topics
    BY <1>1 DEF Add, Fits, CallersFit, OthersFit
  <2> QED
    BY <1>1, <2>2, <2>3 DEF Add, Fits, OthersFit, laneVars, lockVars, netVars, readerVars
<1>2. CASE Ensure(c)
  <2>1. granted' \subseteq Topics
    BY <1>2 DEF Ensure, Grants, Fits, CallersFit, OthersFit
  <2>2. CallersFit'
    <3>1. CASE Ends(c)
      BY <3>1, EndsFits
    <3>2. CASE ~Ends(c)
      <4>1. Goto(c, "clearStop") /\ UNCHANGED <<topic, sock, tries>>
        BY <1>2, <3>2 DEF Ensure
      <4>2. sock' \in [Callers -> Sockets \cup {None}] /\ "clearStop" \in Places
        BY <4>1 DEF Fits, CallersFit, OthersFit, Places
      <4> QED
        BY <4>1, <4>2, GoesFits
    <3> QED
      BY <3>1, <3>2
  <2> QED
    BY <1>2, <2>1, <2>2 DEF Ensure, Fits, OthersFit, laneVars, lockVars, netVars, readerVars
<1>3. CASE ClearStop(c)
  <2>1. sock' \in [Callers -> Sockets \cup {None}] /\ "assign" \in Places
    BY <1>3 DEF ClearStop, Fits, CallersFit, OthersFit, Places
  <2>2. CallersFit'
    BY <1>3, <2>1, GoesFits DEF ClearStop
  <2>3. stop' \in BOOLEAN
    BY <1>3, Zenon DEF ClearStop
  <2> QED
    BY <1>3, <2>2, <2>3 DEF ClearStop, Fits, OthersFit, laneVars, lockVars, netVars
<1>4. CASE Assign(c)
  <2>1. sock' \in [Callers -> Sockets \cup {None}] /\ "start" \in Places
    BY <1>4 DEF Assign, Fits, CallersFit, OthersFit, Places
  <2>2. CallersFit'
    BY <1>4, <2>1, GoesFits DEF Assign
  <2>3. thread' \in Readers \cup {None} /\ rpc' \in [Readers -> ReaderPlaces]
    BY <1>4 DEF Assign, Fits, CallersFit, OthersFit, ReaderPlaces
  <2> QED
    BY <1>4, <2>2, <2>3 DEF Assign, Fits, OthersFit, laneVars, lockVars, netVars
<1>5. CASE Start(c)
  <2>1. CallersFit'
    BY <1>5, EndsFits DEF Start
  <2>2. granted' \subseteq Topics
    BY <1>5 DEF Start, Grants, Fits, CallersFit, OthersFit
  <2>3. rpc' \in [Readers -> ReaderPlaces]
    BY <1>5 DEF Start, Fits, CallersFit, OthersFit, ReaderPlaces
  <2> QED
    BY <1>5, <2>1, <2>2, <2>3 DEF Start, Fits, OthersFit, laneVars, lockVars, netVars
<1> QED
  BY <1>1, <1>2, <1>3, <1>4, <1>5

LEMMA StopsFit ==
    ASSUME Fits, NEW c \in Callers,
           \/ Remove(c) \/ Halt(c) \/ Join(c) \/ CloseSocket(c) \/ ClearTable(c)
           \/ ClearCodes(c) \/ CloseConn(c)
    PROVE  CallersFit' /\ OthersFit'
<1>1. CASE Remove(c)
  <2>1. want' \subseteq Topics
    BY <1>1 DEF Remove, Fits, CallersFit, OthersFit
  <2>2. CallersFit'
    <3>1. CASE Ends(c)
      BY <3>1, EndsFits
    <3>2. CASE ~Ends(c)
      <4>1. Goto(c, "halt") /\ UNCHANGED <<topic, sock, tries>>
        BY <1>1, <3>2 DEF Remove
      <4>2. sock' \in [Callers -> Sockets \cup {None}] /\ "halt" \in Places
        BY <4>1 DEF Fits, CallersFit, OthersFit, Places
      <4> QED
        BY <4>1, <4>2, GoesFits
    <3> QED
      BY <3>1, <3>2
  <2> QED
    BY <1>1, <2>1, <2>2 DEF Remove, Fits, OthersFit, laneVars, lockVars, netVars, readerVars
<1>2. CASE Halt(c)
  <2>1. sock' \in [Callers -> Sockets \cup {None}] /\ "join" \in Places
    BY <1>2 DEF Halt, Fits, CallersFit, OthersFit, Places
  <2>2. CallersFit'
    BY <1>2, <2>1, GoesFits DEF Halt, Step
  <2>3. stop' \in BOOLEAN
    BY <1>2, Zenon DEF Halt
  <2> QED
    BY <1>2, <2>2, <2>3 DEF Halt, Step, Fits, OthersFit, laneVars, lockVars, netVars
<1>3. CASE Join(c)
  <2>1. sock' \in [Callers -> Sockets \cup {None}] /\ "close" \in Places
    BY <1>3 DEF Join, Hold, Fits, CallersFit, OthersFit, Places
  <2>2. CallersFit'
    BY <1>3, <2>1, GoesFits DEF Join, Step
  <2>3. thread' \in Readers \cup {None} /\ rpc' \in [Readers -> ReaderPlaces]
    BY <1>3 DEF Join, Fits, CallersFit, OthersFit, ReaderPlaces
  <2> QED
    BY <1>3, <2>2, <2>3 DEF Join, Step, Fits, OthersFit, laneVars, lockVars, netVars
<1>4. CASE CloseSocket(c)
  <2>1. sock' \in [Callers -> Sockets \cup {None}] /\ "clearTable" \in Places
    BY <1>4 DEF CloseSocket, Hold, Fits, CallersFit, OthersFit, Places
  <2>2. CallersFit'
    BY <1>4, <2>1, GoesFits DEF CloseSocket, Step
  <2>3. /\ alive' \subseteq Sockets /\ known' \in [Sockets -> SUBSET Topics]
        /\ served' \in [Sockets -> SUBSET Topics]
        /\ asked' \in [Sockets -> SUBSET Topics] /\ wire' \in [Sockets -> 0..MaxWire]
    BY <1>4, DiesFits DEF CloseSocket, netVars, Fits, CallersFit, OthersFit
  <2> QED
    BY <1>4, <2>2, <2>3 DEF CloseSocket, Step, Fits, OthersFit, lockVars, readerVars
<1>5. CASE ClearTable(c)
  <2>1. sock' \in [Callers -> Sockets \cup {None}] /\ "clearCodes" \in Places
    BY <1>5 DEF ClearTable, Fits, CallersFit, OthersFit, Places
  <2>2. CallersFit'
    BY <1>5, <2>1, GoesFits DEF ClearTable, Step
  <2> QED
    BY <1>5, <2>2 DEF ClearTable, Step, Fits, OthersFit, lockVars, netVars, readerVars
<1>6. CASE ClearCodes(c)
  <2>1. sock' \in [Callers -> Sockets \cup {None}] /\ "closeConn" \in Places
    BY <1>6 DEF ClearCodes, Fits, CallersFit, OthersFit, Places
  <2>2. CallersFit'
    BY <1>6, <2>1, GoesFits DEF ClearCodes, Step
  <2> QED
    BY <1>6, <2>2 DEF ClearCodes, Step, Fits, OthersFit, laneVars, lockVars, netVars, readerVars
<1>7. CASE CloseConn(c)
  BY <1>7, EndsFits DEF CloseConn, Fits, OthersFit, lockVars, netVars, readerVars
<1> QED
  BY <1>1, <1>2, <1>3, <1>4, <1>5, <1>6, <1>7

\* A caller's step moves no other caller.
LEMMA OneMoves ==
    ASSUME Fits, NEW c \in Callers, Begin(c) \/ Call(c)
    PROVE  \E place : pc' = [pc EXCEPT ![c] = place]
  BY DEF Begin, Call, Acquire, Acquired, AcquireFails, Register, Send, SendFails, Await,
     AwaitFails, AttemptEnds, Add, Ensure, ClearStop, Assign, Start, Remove, Halt, Join,
     CloseSocket, ClearTable, ClearCodes, CloseConn, Step, Ends, Goto

LEMMA ReadersFit ==
    ASSUME Fits, NEW r \in Readers, Reader(r)
    PROVE  UNCHANGED callVars /\ OthersFit'
<1>1. /\ rpc' \in [Readers -> ReaderPlaces] /\ rsock' \in [Readers -> Sockets \cup {None}]
      /\ lane' \in Callers \cup Readers \cup {None}
  BY DEF Reader, ReaderTop, ReaderSelects, ReaderReads, RGoto, RHold, RKeeps, Fits,
     CallersFit, OthersFit, ReaderPlaces
<1>2. wire' \in [Sockets -> 0..MaxWire]
  BY WireAssumption DEF Reader, ReaderTop, ReaderSelects, ReaderReads, Fits, CallersFit, OthersFit
<1> QED
  BY <1>1, <1>2 DEF Reader, ReaderTop, ReaderSelects, ReaderReads, RKeeps, Fits, OthersFit

LEMMA WorldFits ==
    ASSUME Fits, Bury \/ \E s \in Sockets : Answers(s) \/ Drops(s)
    PROVE  UNCHANGED callVars /\ OthersFit'
<1>1. CASE Bury
  BY <1>1 DEF Bury, Fits, OthersFit, lockVars, netVars, readerVars
<1>2. ASSUME NEW s \in Sockets, Answers(s)
      PROVE  UNCHANGED callVars /\ OthersFit'
  <2>1. wire' \in [Sockets -> 0..MaxWire]
    BY <1>2, WireAssumption DEF Answers, Fits, CallersFit, OthersFit
  <2>2. served' \in [Sockets -> SUBSET Topics] /\ asked' \in [Sockets -> SUBSET Topics]
    BY <1>2 DEF Answers, Fits, CallersFit, OthersFit
  <2> QED
    BY <1>2, <2>1, <2>2 DEF Answers, Fits, OthersFit, laneVars, lockVars, readerVars
<1>3. ASSUME NEW s \in Sockets, Drops(s)
      PROVE  UNCHANGED callVars /\ OthersFit'
  BY <1>3, DiesFits DEF Drops, Fits, OthersFit, lockVars, readerVars
<1> QED
  BY <1>1, <1>2, <1>3

LEMMA NextFits == ASSUME Fits, [Next]_vars PROVE Fits'
<1>1. CASE \E c \in Callers : (Begin(c) \/ Call(c)) /\ Notes
  <2>1. overlapped' \in BOOLEAN
    BY <1>1, Zenon DEF Notes
  <2> QED
    BY <1>1, <2>1, BeginFits, AcquireFits, RegistersFit, ActivatesFit, StopsFit DEF Call, Fits
<1>2. CASE UNCHANGED overlapped /\ (Bury \/ (\E s \in Sockets : Answers(s) \/ Drops(s))
                                    \/ \E r \in Readers : Reader(r))
  <2>1. UNCHANGED callVars /\ OthersFit'
    BY <1>2, ReadersFit, WorldFits
  <2> QED
    BY <1>2, <2>1 DEF callVars, Fits, CallersFit, TriesCounted
<1>3. CASE UNCHANGED vars
  BY <1>3 DEF vars, laneVars, lockVars, netVars, readerVars, callVars, Fits, CallersFit,
      OthersFit, TriesCounted
<1> QED
  BY <1>1, <1>2, <1>3 DEF Next

\* The state keeps its types; no call makes a third attempt to register.
THEOREM FitsHolds == Spec => []Fits
  BY InitFits, NextFits, PTL DEF Spec

THEOREM TypeCorrect == Spec => []TypeOK
<1>1. Fits => TypeOK
  BY DEF Fits, CallersFit, OthersFit, TypeOK
<1> QED
  BY <1>1, FitsHolds, PTL

-----------------------------------------------------------------------------
(* Registrations and the connection they were made on                      *)

\* The tables of registrations where no connection begins and none is accepted.
LEMMA SameServed ==
    ASSUME AcceptedIsServed, KnownIsLocal, alive' \subseteq alive, UNCHANGED <<known, served>>,
           \A s \in Sockets : wire'[s] > 0 => wire[s] > 0
    PROVE  AcceptedIsServed' /\ KnownIsLocal'
  BY DEF AcceptedIsServed, KnownIsLocal

LEMMA DiesServed ==
    ASSUME Fits, AcceptedIsServed, KnownIsLocal, NEW s, Dies(s)
    PROVE  AcceptedIsServed' /\ KnownIsLocal'
<1>1. \A o \in Sockets : /\ served'[o] = IF o = s THEN {} ELSE served[o]
                         /\ wire'[o] = IF o = s THEN 0 ELSE wire[o]
  BY DEF Dies, Fits, OthersFit
<1>2. alive' = alive \ {s} /\ alive \subseteq Sockets /\ known' = known
  BY DEF Dies, Fits, OthersFit
<1> QED
  BY <1>1, <1>2 DEF AcceptedIsServed, KnownIsLocal

LEMMA AcquireServed ==
    ASSUME Fits, AcceptedIsServed, KnownIsLocal, NEW c \in Callers, Acquire(c)
    PROVE  AcceptedIsServed' /\ KnownIsLocal'
<1>1. PICK s \in Sockets :
        /\ Acquired(c, s)
        /\ known' = IF conn' = conn THEN known ELSE [known EXCEPT ![s] = {}]
  BY DEF Acquire
<1>2. CASE conn # None /\ Alive(conn)
  <2>1. UNCHANGED <<laneVars, served, asked, wire, known>>
    BY <1>1, <1>2 DEF Acquired, laneVars
  <2> QED
    BY <2>1 DEF laneVars, AcceptedIsServed, KnownIsLocal
<1>3. CASE ~(conn # None /\ Alive(conn))
  <2>1. /\ conn' = s
        /\ IF table # None /\ Alive(table)
           THEN s = table /\ UNCHANGED <<alive, served, asked, wire>>
           ELSE /\ ~InUse(s) /\ alive' = alive \cup {s}
                /\ served' = [served EXCEPT ![s] = {}] /\ wire' = [wire EXCEPT ![s] = 0]
    BY <1>1, <1>3 DEF Acquired
  <2>2. s # conn
    BY <1>3, <2>1, NoneAssumption DEF InUse, Alive
  <2>3. known' = [known EXCEPT ![s] = {}]
    BY <1>1, <2>1, <2>2
  <2>4. \A o \in Sockets : known'[o] = IF o = s THEN {} ELSE known[o]
    BY <2>3 DEF Fits, OthersFit
  <2>5. /\ \A o \in Sockets \ {s} : served'[o] = served[o] /\ wire'[o] = wire[o]
        /\ wire'[s] > 0 => served'[s] # {}
        /\ alive' \subseteq Sockets /\ \A o \in alive' \ {s} : o \in alive
    BY <2>1 DEF Fits, OthersFit, AcceptedIsServed
  <2> QED
    BY <2>4, <2>5 DEF AcceptedIsServed, KnownIsLocal
<1> QED
  BY <1>2, <1>3

LEMMA AwaitServed ==
    ASSUME Fits, AcceptedIsServed, KnownIsLocal, NEW c \in Callers, Await(c)
    PROVE  AcceptedIsServed' /\ KnownIsLocal'
<1>1. /\ wire[sock[c]] > 0 /\ wire' = [wire EXCEPT ![sock[c]] = wire[sock[c]] - 1]
      /\ known' = [known EXCEPT ![sock[c]] = known[sock[c]] \cup {topic[c]}]
      /\ UNCHANGED <<alive, served>>
  BY DEF Await, laneVars
<1>2. ASSUME NEW s \in Sockets
      PROVE  /\ wire'[s] > 0 => wire[s] > 0
             /\ known'[s] # {} => known[s] # {} \/ s = sock[c]
  BY <1>1 DEF Fits, OthersFit
<1>3. AcceptedIsServed'
  BY <1>1, <1>2 DEF AcceptedIsServed
<1>4. KnownIsLocal'
  BY <1>1, <1>2 DEF AcceptedIsServed, KnownIsLocal, Fits, OthersFit
<1> QED
  BY <1>3, <1>4

LEMMA NextServed ==
    ASSUME Fits, AcceptedIsServed, KnownIsLocal, [Next]_vars
    PROVE  AcceptedIsServed' /\ KnownIsLocal'
<1>1. ASSUME NEW c \in Callers, Begin(c) \/ Call(c)
      PROVE  AcceptedIsServed' /\ KnownIsLocal'
  <2>1. CASE CloseSocket(c)
    BY <2>1, DiesServed, SameServed DEF CloseSocket, netVars
  <2>2. CASE ~(Acquire(c) \/ Await(c) \/ CloseSocket(c))
    <3>1. UNCHANGED <<alive, known, served, wire>>
      BY <1>1, <2>2 DEF Begin, Call, AcquireFails, Register, Send, SendFails, AwaitFails, Add,
         Ensure, ClearStop, Assign, Start, Remove, Halt, Join, ClearTable, ClearCodes,
         CloseConn, laneVars, netVars
    <3> QED
      BY <3>1, SameServed
  <2> QED
    BY <2>1, <2>2, AcquireServed, AwaitServed
<1>2. ASSUME NEW r \in Readers, Reader(r)
      PROVE  AcceptedIsServed' /\ KnownIsLocal'
  <2>1. \A s \in Sockets : wire'[s] > 0 => wire[s] > 0
    BY <1>2 DEF Reader, ReaderTop, ReaderSelects, ReaderReads, Fits, OthersFit
  <2>2. UNCHANGED <<alive, known, served>>
    BY <1>2 DEF Reader, ReaderTop, ReaderSelects, ReaderReads, RKeeps
  <2> QED
    BY <2>1, <2>2, SameServed
<1>3. ASSUME NEW s \in Sockets, Answers(s)
      PROVE  AcceptedIsServed' /\ KnownIsLocal'
  <2>1. PICK t \in asked[s] : served' = [served EXCEPT ![s] = served[s] \cup {t}]
    BY <1>3 DEF Answers
  <2>2. /\ served'[s] # {} /\ \A o \in Sockets \ {s} : served'[o] = served[o]
        /\ \A o \in Sockets \ {s} : wire'[o] = wire[o]
        /\ UNCHANGED <<alive, known>>
    BY <1>3, <2>1 DEF Answers, laneVars, Fits, OthersFit
  <2> QED
    BY <2>2 DEF AcceptedIsServed, KnownIsLocal, Fits, OthersFit
<1>4. ASSUME NEW s \in Sockets, Drops(s)
      PROVE  AcceptedIsServed' /\ KnownIsLocal'
  BY <1>4, DiesServed DEF Drops
<1>5. CASE Bury
  BY <1>5, SameServed DEF Bury, netVars
<1>6. CASE UNCHANGED vars
  BY <1>6, SameServed DEF vars, laneVars, netVars
<1> QED
  BY <1>1, <1>2, <1>3, <1>4, <1>5, <1>6 DEF Next

\* A connection that knows a registration is over a socket on which the server has
\* accepted one: whatever drops, burials and new connections overlap the calls, and
\* however late an acceptance comes.
THEOREM KnownIsLocalHolds == Spec => []KnownIsLocal
<1>1. Init => AcceptedIsServed /\ KnownIsLocal
  BY DEF Init, AcceptedIsServed, KnownIsLocal
<1>2. Fits /\ (AcceptedIsServed /\ KnownIsLocal) /\ [Next]_vars
      => (AcceptedIsServed /\ KnownIsLocal)'
  BY NextServed
<1> QED
  BY <1>1, <1>2, FitsHolds, PTL DEF Spec

-----------------------------------------------------------------------------
(* Who has the lane                                                        *)

LEMMA CallHolders ==
    ASSUME Fits, LaneIsHeld, NEW c \in Callers, Begin(c) \/ Call(c)
    PROVE  LaneIsHeld'
<1>1. \A r \in Readers : r # c /\ r # None
  BY DistinctAssumption, NoneAssumption
<1>2. CASE Send(c)
  <2>1. lane = None /\ lane' = c /\ UNCHANGED <<rpc, rsock>>
    BY <1>2 DEF Send, readerVars
  <2>2. \A d \in Callers \ {c} : pc'[d] = pc[d]
    BY <1>2 DEF Send, Goto, Fits, CallersFit
  <2> QED
    BY <1>1, <2>1, <2>2, NoneAssumption DEF LaneIsHeld
<1>3. CASE SendFails(c) \/ AwaitFails(c)
  <2>1. PICK n \in 0..2 : AttemptEnds(c, n)
    <3>1. tries[c] \in 0..2 /\ (pc[c] = "send" => tries[c] + 1 \in 0..2)
      BY DEF Fits, CallersFit, TriesCounted
    <3> QED
      BY <1>3, <3>1 DEF SendFails, AwaitFails
  <2>2. lane' = (IF lane = c THEN None ELSE lane) /\ UNCHANGED <<rpc, rsock>>
    BY <1>3, <2>1 DEF SendFails, AwaitFails, AttemptEnds, readerVars
  <2>3. pc'[c] \in {"send", "idle"} /\ \A d \in Callers \ {c} : pc'[d] = pc[d]
    BY <2>1, AttemptFits
  <2> QED
    BY <1>1, <2>2, <2>3 DEF LaneIsHeld
<1>4. CASE Await(c)
  <2>1. pc[c] = "await" /\ lane' = None /\ UNCHANGED <<rpc, rsock>>
    BY <1>4 DEF Await, readerVars
  <2>2. pc'[c] = "add" /\ \A d \in Callers \ {c} : pc'[d] = pc[d]
    BY <1>4 DEF Await, Goto, Fits, CallersFit
  <2> QED
    BY <1>1, <2>1, <2>2 DEF LaneIsHeld
<1>5. CASE ~(Send(c) \/ SendFails(c) \/ Await(c) \/ AwaitFails(c))
  <2>1. UNCHANGED <<lane, rsock>>
    BY <1>5 DEF Begin, Call, Acquire, Acquired, AcquireFails, Register, Add,
       Ensure, ClearStop, Assign, Start, Remove, Halt, Join, CloseSocket, ClearTable,
       ClearCodes, CloseConn, lockVars, readerVars
  <2>2. \A d \in Callers : pc'[d] = "await" => pc[d] = "await"
    BY <1>5 DEF Begin, Call, Acquire, Acquired, AcquireFails, Register, Add,
       Ensure, ClearStop, Assign, Start, Remove, Halt, Join, CloseSocket, ClearTable,
       ClearCodes, CloseConn, Ends, Step, Goto, FirstPlace, Fits, CallersFit
  <2>3. \A r \in Readers : rpc'[r] \in {"select", "read"} => rpc'[r] = rpc[r]
    BY <1>5 DEF Begin, Call, Acquire, Acquired, AcquireFails, Register, Add,
       Ensure, ClearStop, Assign, Start, Remove, Halt, Join, CloseSocket, ClearTable,
       ClearCodes, CloseConn, readerVars, Fits, OthersFit
  <2> QED
    BY <2>1, <2>2, <2>3 DEF LaneIsHeld
<1> QED
  BY <1>2, <1>3, <1>4, <1>5

LEMMA ReaderHolders ==
    ASSUME Fits, LaneIsHeld, NEW r \in Readers, Reader(r)
    PROVE  LaneIsHeld'
<1>1. UNCHANGED pc /\ \A c \in Callers : r # c /\ c # None
  BY DistinctAssumption, NoneAssumption DEF Reader, ReaderTop, ReaderSelects, ReaderReads,
     RKeeps, callVars
<1>2. r # None /\ \A o \in Readers \ {r} : rpc'[o] = rpc[o] /\ rsock'[o] = rsock[o]
  BY NoneAssumption DEF Reader, ReaderTop, ReaderSelects, ReaderReads, RGoto, RHold, Fits,
     OthersFit
<1>3. CASE ReaderTop(r)
  <2>1. UNCHANGED lane /\ (rpc'[r] = "none" \/ (rpc'[r] = "select" /\ rsock'[r] # None))
    BY <1>3 DEF ReaderTop, RGoto, RHold, Fits, OthersFit
  <2> QED
    BY <1>1, <1>2, <2>1 DEF LaneIsHeld
<1>4. CASE ReaderSelects(r)
  <2>1. \/ lane = None /\ lane' = r /\ rsock' = rsock /\ rpc[r] = "select"
        \/ lane' = lane /\ rpc'[r] = "top"
    BY <1>4 DEF ReaderSelects, RGoto, RHold, Fits, OthersFit
  <2> QED
    BY <1>1, <1>2, <2>1, NoneAssumption DEF LaneIsHeld
<1>5. CASE ReaderReads(r)
  <2>1. lane = r /\ rpc'[r] = "top"
    BY <1>5 DEF ReaderReads, RGoto, Fits, OthersFit, LaneIsHeld
  <2> QED
    BY <1>1, <1>2, <2>1 DEF LaneIsHeld
<1> QED
  BY <1>3, <1>4, <1>5 DEF Reader

LEMMA NextHolders == ASSUME Fits, LaneIsHeld, [Next]_vars PROVE LaneIsHeld'
<1>1. CASE Bury \/ (\E s \in Sockets : Answers(s) \/ Drops(s)) \/ UNCHANGED vars
  <2>1. UNCHANGED <<lane, rpc, rsock, pc>>
    BY <1>1 DEF Bury, Answers, Drops, vars, lockVars, readerVars, callVars
  <2> QED
    BY <2>1 DEF LaneIsHeld
<1> QED
  BY <1>1, CallHolders, ReaderHolders DEF Next

\* Who waits for a reply, or reads, has the lane to itself.
THEOREM LaneIsHeldHolds == Spec => []LaneIsHeld
<1>1. Init => LaneIsHeld
  BY DEF Init, LaneIsHeld
<1> QED
  BY <1>1, NextHolders, FitsHolds, PTL DEF Spec

\* stop_snapshot() closes no socket on which a snapshot reader reads or a caller
\* registers: both have the lane's request lock, which the close waits for.
THEOREM NoCloseUnderLockHolds == Spec => NoCloseUnderLock
<1>1. ASSUME Fits, LaneIsHeld, [Next]_vars
      PROVE  [\A c \in Callers :
                 pc[c] = "close" /\ pc'[c] # "close" /\ sock[c] # None =>
                    /\ \A r \in Readers : rpc[r] = "read" => rsock[r] # sock[c]
                    /\ \A d \in Callers \ {c} : pc[d] = "await" => sock[d] # sock[c]]_vars
  <2> SUFFICES ASSUME Next, NEW c \in Callers,
                      pc[c] = "close", pc'[c] # "close", sock[c] # None
               PROVE  /\ \A r \in Readers : rpc[r] # "read"
                      /\ \A d \in Callers : pc[d] # "await"
    BY <1>1
  <2>1. CloseSocket(c)
    <3>1. ASSUME NEW d \in Callers \ {c}, Begin(d) \/ Call(d)
          PROVE  FALSE
      BY <1>1, <3>1, OneMoves DEF Fits, CallersFit
    <3>2. ~Begin(c) /\ (Call(c) => CloseSocket(c))
      BY DEF Begin, Call, Acquire, Acquired, AcquireFails, Register, Send, SendFails, Await,
         AwaitFails, Add, Ensure, ClearStop, Assign, Start, Remove, Halt, Join, ClearTable,
         ClearCodes, CloseConn, Step
    <3>3. ~(Bury \/ (\E s \in Sockets : Answers(s) \/ Drops(s)) \/ \E o \in Readers : Reader(o))
      BY DEF Bury, Answers, Drops, Reader, ReaderTop, ReaderSelects, ReaderReads, RKeeps,
         callVars
    <3> QED
      BY <3>1, <3>2, <3>3 DEF Next
  <2>2. lane = None
    BY <2>1 DEF CloseSocket
  <2> QED
    BY <1>1, <2>2, NoneAssumption DEF LaneIsHeld
<1> QED
  BY <1>1, FitsHolds, LaneIsHeldHolds, PTL DEF Spec, NoCloseUnderLock

-----------------------------------------------------------------------------
(* What is subscribed has a reader                                         *)

Clean == StopsAreClean /\ WantedIsServed

\* The threads that are about to start or stop a reader did not overlap.
LEMMA NotesApart ==
    ASSUME StopsAreClean, Notes, ~overlapped'
    PROVE  ~overlapped /\ \A d, e \in Callers : ~(Activating(d)' /\ Stopping(e)')
  BY DEF Notes

\* A step that has nothing to do with the reader, and takes no part in what explains
\* that there is none.
LEMMA QuietClean ==
    ASSUME Clean, NEW c \in Callers, Notes,
           \A d \in Callers \ {c} : pc'[d] = pc[d],
           UNCHANGED <<stop, thread, rpc>>,
           pc[c] # "join", pc'[c] \notin {"assign", "start"},
           \/ want' = {} \/ Activating(c)' \/ Stopping(c)'
           \/ want' \subseteq want /\ ~Activating(c) /\ ~Stopping(c)
    PROVE  Clean'
<1>1. StopsAreClean'
  <2> SUFFICES ASSUME ~overlapped'
               PROVE  /\ \A d, e \in Callers : ~(Activating(d)' /\ Stopping(e)')
                      /\ \A d \in Callers : pc'[d] \in {"assign", "start"} => ~stop'
                      /\ \A d \in Callers : pc'[d] = "start" => thread' # None
                      /\ thread' # None /\ stop' => \E d \in Callers : pc'[d] = "join"
                      /\ thread' # None /\ rpc'[thread'] = "none" => stop'
    BY DEF StopsAreClean
  <2> QED
    BY NotesApart DEF Clean, StopsAreClean
<1>2. WantedIsServed'
  <2> SUFFICES ASSUME want' # {}, ~overlapped'
               PROVE  \/ ~stop' /\ \E r \in Readers : Running(r)'
                      \/ \E d \in Callers : Activating(d)' \/ Stopping(d)'
    BY DEF WantedIsServed
  <2>1. CASE Activating(c)' \/ Stopping(c)'
    BY <2>1
  <2>2. CASE ~(Activating(c)' \/ Stopping(c)')
    <3>1. want # {} /\ ~Activating(c) /\ ~Stopping(c)
      BY <2>2
    <3>2. \/ ~stop /\ \E r \in Readers : Running(r)
          \/ \E d \in Callers \ {c} : Activating(d) \/ Stopping(d)
      BY <3>1, NotesApart DEF Clean, WantedIsServed
    <3> QED
      BY <3>2 DEF Running, Activating, Stopping
  <2> QED
    BY <2>1, <2>2
<1> QED
  BY <1>1, <1>2 DEF Clean

\* Where a caller is when it does not overlap.
LEMMA StartsClean ==
    ASSUME Fits, Clean, NEW c \in Callers, Notes, ClearStop(c) \/ Assign(c) \/ Start(c)
    PROVE  Clean'
<1>1. \A d \in Callers \ {c} : pc'[d] = pc[d]
  BY OneMoves DEF Call, Fits, CallersFit
<1> SUFFICES ASSUME ~overlapped'
             PROVE  /\ \A d \in Callers : pc'[d] \in {"assign", "start"} => ~stop'
                    /\ \A d \in Callers : pc'[d] = "start" => thread' # None
                    /\ thread' # None /\ stop' => \E d \in Callers : pc'[d] = "join"
                    /\ thread' # None /\ rpc'[thread'] = "none" => stop'
                    /\ \/ ~stop' /\ \E r \in Readers : Running(r)'
                       \/ \E d \in Callers : Activating(d)' \/ Stopping(d)'
  <2>1. ~overlapped' => \A d, e \in Callers : ~(Activating(d)' /\ Stopping(e)')
    BY NotesApart DEF Clean
  <2> QED
    BY <2>1 DEF Clean, StopsAreClean, WantedIsServed
<1>2. /\ \A d, e \in Callers : ~(Activating(d) /\ Stopping(e))
      /\ \A d \in Callers : pc[d] \in {"assign", "start"} => ~stop
      /\ \A d \in Callers : pc[d] = "start" => thread # None
      /\ thread # None /\ stop => \E d \in Callers : pc[d] = "join"
      /\ thread # None /\ rpc[thread] = "none" => stop
  BY NotesApart DEF Clean, StopsAreClean
<1>3. Activating(c) => \A d \in Callers : pc[d] # "join"
  BY <1>2 DEF Stopping
<1>4. CASE ClearStop(c)
  <2>1. /\ pc[c] = "clearStop" /\ ~stop' /\ UNCHANGED <<thread, rpc>>
        /\ pc'[c] = "assign"
    BY <1>4 DEF ClearStop, Goto, Fits, CallersFit
  <2>2. thread = None \/ rpc[thread] # "none"
    BY <1>2, <1>3, <2>1 DEF Activating
  <2>3. Activating(c)'
    BY <2>1 DEF Activating
  <2> QED
    BY <1>1, <1>2, <2>1, <2>2, <2>3
<1>5. CASE Assign(c)
  <2>1. PICK r \in Readers : thread' = r /\ rpc'[r] = "new"
    BY <1>5 DEF Assign
  <2>2. ~stop /\ ~stop' /\ pc'[c] = "start" /\ r # None
    BY <1>2, <1>5, NoneAssumption DEF Assign, Goto, Fits, CallersFit
  <2>3. Activating(c)'
    BY <2>2 DEF Activating
  <2> QED
    BY <1>1, <2>1, <2>2, <2>3
<1>6. CASE Start(c)
  <2>1. ~stop /\ thread \in Readers /\ rpc[thread] # "none"
    BY <1>2, <1>6 DEF Start, Fits, OthersFit
  <2>2. pc'[c] = "idle" /\ UNCHANGED <<stop, thread>>
    BY <1>6 DEF Start, Ends, Goto, Fits, CallersFit
  <2>3. rpc'[thread] \notin {"none", "new"}
    BY <1>6, <2>1, NoneAssumption DEF Start, Fits, OthersFit
  <2> QED
    BY <1>1, <1>2, <2>1, <2>2, <2>3 DEF Running
<1> QED
  BY <1>4, <1>5, <1>6

LEMMA EnsureClean ==
    ASSUME Fits, Clean, NEW c \in Callers, Notes, Ensure(c)
    PROVE  Clean'
<1>1. \A d \in Callers \ {c} : pc'[d] = pc[d]
  BY OneMoves DEF Call, Fits, CallersFit
<1>2. pc[c] = "ensure" /\ UNCHANGED <<want, stop, thread, rpc>>
  BY DEF Ensure, readerVars
<1>3. CASE ~(thread \in Readers /\ Running(thread))
  <2>1. pc'[c] = "clearStop"
    BY <1>3 DEF Ensure, Goto, Fits, CallersFit
  <2> QED
    BY <1>1, <1>2, <2>1, QuietClean DEF Activating
<1>4. CASE thread \in Readers /\ Running(thread)
  <2>1. pc'[c] = "idle"
    BY <1>4 DEF Ensure, Ends, Goto, Fits, CallersFit
  <2>2. ~overlapped => ~stop
    BY <1>2, <1>4, NoneAssumption DEF Clean, StopsAreClean, Activating, Stopping
  <2>3. WantedIsServed'
    BY <1>2, <1>4, <2>2, NotesApart DEF Clean, WantedIsServed, Running
  <2>4. StopsAreClean'
    <3> SUFFICES ASSUME ~overlapped'
                 PROVE  /\ \A d, e \in Callers : ~(Activating(d)' /\ Stopping(e)')
                        /\ \A d \in Callers : pc'[d] \in {"assign", "start"} => ~stop'
                        /\ \A d \in Callers : pc'[d] = "start" => thread' # None
                        /\ ~stop'
                        /\ thread' # None /\ rpc'[thread'] = "none" => stop'
      BY DEF StopsAreClean
    <3> QED
      BY <1>1, <1>2, <2>1, <2>2, NotesApart DEF Clean, StopsAreClean
  <2> QED
    BY <2>3, <2>4 DEF Clean
<1> QED
  BY <1>3, <1>4

LEMMA HaltClean ==
    ASSUME Fits, Clean, NEW c \in Callers, Notes, Halt(c) \/ Join(c)
    PROVE  Clean'
<1>1. /\ pc'[c] \in {"join", "close"} /\ (thread' = None \/ (stop' /\ pc'[c] = "join"))
  <2>1. CASE Halt(c)
    BY <2>1 DEF Halt, Step, Goto, Fits, CallersFit
  <2>2. CASE Join(c)
    BY <2>2 DEF Join, Step, Goto, Fits, CallersFit
  <2> QED
    BY <2>1, <2>2
<1>2. Stopping(c)'
  BY <1>1 DEF Stopping
<1>3. ~overlapped' => \A d \in Callers : ~Activating(d)'
  BY <1>2, NotesApart DEF Clean
<1>4. StopsAreClean'
  BY <1>1, <1>2, <1>3 DEF StopsAreClean, Activating
<1> QED
  BY <1>2, <1>4 DEF Clean, WantedIsServed

LEMMA CallClean ==
    ASSUME Fits, Clean, NEW c \in Callers, Notes, Begin(c) \/ Call(c)
    PROVE  Clean'
<1>1. \A d \in Callers \ {c} : pc'[d] = pc[d]
  BY OneMoves DEF Fits, CallersFit
<1>2. CASE \/ Begin(c) \/ Acquire(c) \/ AcquireFails(c) \/ Register(c) \/ Send(c) \/ SendFails(c)
           \/ Await(c) \/ AwaitFails(c) \/ CloseConn(c)
  <2>1. /\ UNCHANGED <<want, stop, thread, rpc>>
        /\ pc[c] \in {"idle", "acquire", "register", "send", "await", "closeConn"}
    BY <1>2 DEF Begin, Acquire, Acquired, AcquireFails, Register, Send, SendFails, Await,
       AwaitFails, CloseConn, readerVars
  <2>2. pc'[c] \notin {"assign", "start"}
    BY <1>2 DEF Begin, Acquire, Acquired, AcquireFails, Register, Send, SendFails, Await,
       AwaitFails, AttemptEnds, CloseConn, Ends, Goto, FirstPlace, Fits, CallersFit
  <2> QED
    BY <1>1, <2>1, <2>2, QuietClean DEF Activating, Stopping
<1>3. CASE Add(c)
  <2>1. pc[c] = "add" /\ pc'[c] = "ensure" /\ UNCHANGED <<stop, thread, rpc>>
    BY <1>3 DEF Add, Goto, readerVars, Fits, CallersFit
  <2> QED
    BY <1>1, <2>1, QuietClean DEF Activating
<1>4. CASE Remove(c)
  <2>1. /\ pc[c] = "remove" /\ pc'[c] \in {"idle", "halt"} /\ UNCHANGED <<stop, thread, rpc>>
        /\ want' \subseteq want
    BY <1>4 DEF Remove, Ends, Goto, readerVars, Fits, CallersFit
  <2> QED
    BY <1>1, <2>1, QuietClean DEF Activating, Stopping
<1>5. CASE CloseSocket(c) \/ ClearTable(c)
  <2>1. /\ pc[c] \in {"close", "clearTable"} /\ pc'[c] \in {"clearTable", "clearCodes"}
        /\ UNCHANGED <<stop, thread, rpc>>
    BY <1>5 DEF CloseSocket, ClearTable, Step, Goto, readerVars, Fits, CallersFit
  <2> QED
    BY <1>1, <2>1, QuietClean DEF Stopping
<1>6. CASE ClearCodes(c)
  <2>1. /\ pc[c] = "clearCodes" /\ pc'[c] = "closeConn" /\ want' = {}
        /\ UNCHANGED <<stop, thread, rpc>>
    BY <1>6 DEF ClearCodes, Step, Goto, readerVars, Fits, CallersFit
  <2> QED
    BY <1>1, <2>1, QuietClean
<1> QED
  BY <1>2, <1>3, <1>4, <1>5, <1>6, StartsClean, EnsureClean, HaltClean DEF Call

LEMMA ReaderClean ==
    ASSUME Fits, Clean, NEW r \in Readers, Reader(r), UNCHANGED overlapped
    PROVE  Clean'
<1>1. UNCHANGED <<pc, stop, thread, want>>
  BY DEF Reader, ReaderTop, ReaderSelects, ReaderReads, RKeeps, callVars
<1>2. /\ \A o \in Readers \ {r} : rpc'[o] = rpc[o]
      /\ rpc[r] \notin {"none", "new"}
      /\ rpc'[r] \in {"none", "top", "select", "read"} /\ (rpc'[r] = "none" => stop)
  BY DEF Reader, ReaderTop, ReaderSelects, ReaderReads, RGoto, Fits, OthersFit
<1>3. StopsAreClean'
  <2>1. thread # None /\ rpc'[thread] = "none" => stop \/ rpc[thread] = "none"
    BY <1>2 DEF Fits, OthersFit
  <2> QED
    BY <1>1, <2>1 DEF Clean, StopsAreClean, Activating, Stopping
<1>4. WantedIsServed'
  <2>1. ~stop => \A o \in Readers : Running(o) => Running(o)'
    BY <1>2 DEF Running
  <2> QED
    BY <1>1, <2>1 DEF Clean, WantedIsServed, Activating, Stopping
<1> QED
  BY <1>3, <1>4 DEF Clean

LEMMA NextClean == ASSUME Fits, Clean, [Next]_vars PROVE Clean'
<1>1. CASE \/ UNCHANGED vars
           \/ UNCHANGED overlapped /\ (Bury \/ \E s \in Sockets : Answers(s) \/ Drops(s))
  <2>1. UNCHANGED <<overlapped, pc, stop, thread, rpc, want>>
    BY <1>1 DEF vars, Bury, Answers, Drops, readerVars, callVars
  <2> QED
    BY <2>1 DEF Clean, StopsAreClean, WantedIsServed, Activating, Stopping, Running
<1> QED
  BY <1>1, CallClean, ReaderClean DEF Next

\* As long as no activation overlaps a stop: what is subscribed has a reader that
\* goes on, or a thread is about to start one, or one is about to take every
\* subscription back; whatever activations, drops and burials overlap.
THEOREM WantedIsServedHolds == Spec => []WantedIsServed
<1>1. Init => Clean
  BY DEF Init, Clean, StopsAreClean, WantedIsServed, Activating, Stopping
<1>2. Clean => WantedIsServed
  BY DEF Clean
<1> QED
  BY <1>1, <1>2, NextClean, FitsHolds, PTL DEF Spec
=============================================================================
