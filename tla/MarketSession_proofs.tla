------------------------ MODULE MarketSession_proofs ------------------------
(***************************************************************************)
(* Theorems about the request lane of MarketSession.                       *)
(***************************************************************************)
EXTENDS MarketSession, TLAPS

USE DEF wireVars, futVars, readerVars

\* What is read off a stream of frames is a frame, and a stream is left.
LEMMA StreamTypes ==
    ASSUME NEW S, NEW q \in Seq(S), q # <<>>
    PROVE  Head(q) \in S /\ Tail(q) \in Seq(S)
  OBVIOUS

-----------------------------------------------------------------------------
(* Type correctness                                                        *)

LEMMA InitTypes == Init => TypeOK
  BY BundleAssumption, PushesAssumption
  DEF Init, DispatcherInit, TypeOK, DispatcherTypeOK, MarketSessionTypeOK,
      Places, ReaderPlaces

\* Every step of a dispatcher's reader keeps the types of its state.
LEMMA ReaderTypes ==
    ASSUME DispatcherTypeOK, NEW s \in Sessions, Reader(s)
    PROVE  DispatcherTypeOK'
<1> USE DEF DispatcherTypeOK, ReaderPlaces
<1>1. CASE ReaderTop(s)
  BY <1>1 DEF ReaderTop, Overdue
<1>2. CASE ReaderGetsFrame(s)
  BY <1>2, StreamTypes DEF ReaderGetsFrame, FrameReady
<1>3. CASE ReaderPolls(s)
  <2>1. wire' \in Seq(Frame)
    BY <1>3, StreamTypes DEF ReaderPolls, FrameLost
  <2> QED
    BY <1>3, <2>1 DEF ReaderPolls
<1>4. CASE ReaderLosesLink(s)
  BY <1>4 DEF ReaderLosesLink
<1>5. CASE ReaderOffers(s)
  BY <1>5 DEF ReaderOffers, Takers, Candidates
<1>6. CASE ReaderConsumerRaises(s)
  BY <1>6 DEF ReaderConsumerRaises
<1>7. CASE ReaderCompletes(s)
  BY <1>7 DEF ReaderCompletes
<1>8. CASE ReaderSweeps(s)
  BY <1>8 DEF ReaderSweeps, Candidates
<1>9. CASE ReaderFails(s)
  BY <1>9 DEF ReaderFails, Candidates
<1>10. CASE ReaderExits(s)
  BY <1>10 DEF ReaderExits
<1> QED
  BY <1>1, <1>2, <1>3, <1>4, <1>5, <1>6, <1>7, <1>8, <1>9, <1>10 DEF Reader

\* Every step of the server keeps the types.
LEMMA ServerTypes ==
    ASSUME TypeOK, Server
    PROVE  TypeOK'
<1> USE DEF TypeOK, DispatcherTypeOK
<1>1. MarketSessionTypeOK'
  BY DEF Server, callVars, MarketSessionTypeOK
<1>2. ASSUME NEW r \in Req, ServerAnswers(r)
      PROVE  DispatcherTypeOK'
  <2>1. r \in Frame
    BY DEF Frame
  <2> QED
    BY <1>2, <2>1 DEF ServerAnswers
<1>3. CASE ServerPushes
  <2>1. Push \in Frame
    BY DEF Frame
  <2>2. pushes' \in 0..MaxPushes
    BY <1>3, PushesAssumption DEF ServerPushes
  <2> QED
    BY <1>1, <1>3, <2>1, <2>2 DEF ServerPushes
<1>4. CASE ServerLeaves
  BY <1>1, <1>4 DEF ServerLeaves
<1> QED
  BY <1>1, <1>2, <1>3, <1>4 DEF Server

\* A submission, accepted, refused or failed, keeps the dispatcher's types.
LEMMA SubmissionTypes ==
    ASSUME DispatcherTypeOK, NEW s \in Sessions, NEW R \in SUBSET Req,
           NEW p \in BOOLEAN,
           Submitted(s, R, p) \/ SubmitWriteFails(s, R) \/ SubmitRefused(s)
    PROVE  DispatcherTypeOK'
<1> USE DEF DispatcherTypeOK, ReaderPlaces
<1>1. CASE Submitted(s, R, p)
  BY <1>1 DEF Submitted
<1>2. CASE SubmitWriteFails(s, R)
  BY <1>2 DEF SubmitWriteFails
<1>3. CASE SubmitRefused(s)
  BY <1>3 DEF SubmitRefused, dispatcherVars
<1> QED
  BY <1>1, <1>2, <1>3

LEMMA BundlesAreRequests ==
    ASSUME NEW c \in Calls
    PROVE  /\ FirstReq(c) \in Req
           /\ \A n \in 1..MaxBundle : BundleOf(c, n) \in SUBSET Req
  BY BundleAssumption DEF FirstReq, BundleOf, Req

\* Every step of a call keeps the types.
LEMMA CallTypes ==
    ASSUME TypeOK, WellCalled, NEW c \in Calls, Call(c)
    PROVE  TypeOK'
<1> USE DEF TypeOK, MarketSessionTypeOK, Places, Goto, GoReleasing
<1>1. CASE PublishGate(c)
  BY <1>1 DEF PublishGate, dispatcherVars, DispatcherTypeOK
<1>2. CASE Acquire(c)
  <2>1. AfterLock(kind[c]) \in Places
    BY DEF AfterLock
  <2> QED
    BY <1>2, <2>1 DEF Acquire, dispatcherVars, DispatcherTypeOK
<1>3. CASE LockTimeout(c)
  BY <1>3 DEF LockTimeout, dispatcherVars, DispatcherTypeOK
<1>4. CASE WaitIdle(c)
  BY <1>4 DEF WaitIdle, dispatcherVars, DispatcherTypeOK
<1>5. CASE WaitIdleTimeout(c)
  BY <1>5 DEF WaitIdleTimeout, dispatcherVars, DispatcherTypeOK
<1>6. CASE CheckGate(c)
  BY <1>6 DEF CheckGate, dispatcherVars, DispatcherTypeOK
<1>7. CASE Send(c)
  BY <1>7, BundlesAreRequests DEF Send, DispatcherTypeOK
<1>8. CASE SendFails(c)
  BY <1>8 DEF SendFails, dispatcherVars, DispatcherTypeOK
<1>9. CASE ReadFrame(c)
  <2>1. wire' \in Seq(Frame)
    BY <1>9, StreamTypes DEF ReadFrame, FrameReady, DispatcherTypeOK
  <2> QED
    BY <1>9, <2>1 DEF ReadFrame, DispatcherTypeOK
<1>10. CASE ReadFails(c)
  <2>0. wire' = wire \/ (wire # <<>> /\ wire' = Tail(wire))
    BY <1>10 DEF ReadFails, FrameLost
  <2>1. wire \in Seq(Frame)
    BY DEF DispatcherTypeOK
  <2>2. wire' \in Seq(Frame)
    BY <2>0, <2>1, StreamTypes
  <2> QED
    BY <1>10, <2>2 DEF ReadFails, DispatcherTypeOK
<1>11. CASE Submit(c)
  <2>1. DispatcherTypeOK'
    BY <1>11, SubmissionTypes, BundlesAreRequests DEF Submit, WellCalled
  <2> QED
    BY <1>11, <2>1 DEF Submit
<1>12. CASE SubmitFails(c)
  <2>1. CASE UNCHANGED dispatcherVars
    BY <1>12, <2>1 DEF SubmitFails, dispatcherVars, DispatcherTypeOK
  <2>2. CASE ~UNCHANGED dispatcherVars
    <3>1. DispatcherTypeOK'
      BY <1>12, <2>2, SubmissionTypes, BundlesAreRequests
      DEF SubmitFails, SubmitRefused, WellCalled
    <3> QED
      BY <1>12, <3>1 DEF SubmitFails
  <2> QED
    BY <2>1, <2>2
<1>13. CASE AwaitResult(c)
  BY <1>13 DEF AwaitResult, dispatcherVars, DispatcherTypeOK
<1>14. CASE AwaitTimeout(c)
  BY <1>14 DEF AwaitTimeout, dispatcherVars, DispatcherTypeOK
<1>15. CASE Retime(c)
  BY <1>15 DEF Retime, DispatcherTypeOK
<1>16. CASE TryAcquire(c)
  BY <1>16 DEF TryAcquire, dispatcherVars, DispatcherTypeOK
<1>17. CASE TrySkips(c)
  BY <1>17 DEF TrySkips, dispatcherVars, DispatcherTypeOK
<1>18. CASE TrySend(c)
  BY <1>18 DEF TrySend, dispatcherVars, DispatcherTypeOK
<1>19. CASE TrySubmit(c)
  <2>1. DispatcherTypeOK'
    BY <1>19, SubmissionTypes, BundlesAreRequests DEF TrySubmit, WellCalled
  <2> QED
    BY <1>19, <2>1 DEF TrySubmit
<1>20. CASE Close(c)
  BY <1>20 DEF Close, CloseBegins, DispatcherTypeOK
<1>21. CASE CloseTests(c)
  BY <1>21 DEF CloseTests, dispatcherVars, DispatcherTypeOK, WellCalled
<1>22. CASE CloseCompletes(c)
  BY <1>22 DEF CloseCompletes, CloseFails, CloseBreaks, DispatcherTypeOK
<1>23. CASE CloseEnds(c)
  BY <1>23 DEF CloseEnds, CloseClears, DispatcherTypeOK
<1>24. CASE Detach(c)
  BY <1>24 DEF Detach, DispatcherTypeOK
<1>25. CASE ProbeEnds(c)
  BY <1>25 DEF ProbeEnds, dispatcherVars, DispatcherTypeOK
<1> QED
  BY <1>1, <1>2, <1>3, <1>4, <1>5, <1>6, <1>7, <1>8, <1>9, <1>10, <1>11,
     <1>12, <1>13, <1>14, <1>15, <1>16, <1>17, <1>18, <1>19, <1>20, <1>21,
     <1>22, <1>23, <1>24, <1>25
  DEF Call

\* Types and the facts about begun calls are kept by every step.
LEMMA TypeStep ==
    ASSUME TypeOK, WellCalled, [Next]_vars
    PROVE  TypeOK' /\ WellCalled'
<1>1. ASSUME NEW c \in Calls, Begin(c)
      PROVE  TypeOK' /\ WellCalled'
  <2>1. DispatcherTypeOK'
    BY <1>1 DEF Begin, TypeOK, DispatcherTypeOK, dispatcherVars
  <2>2. PICK k \in Kinds, s \in Sessions :
           /\ kind' = [kind EXCEPT ![c] = k]
           /\ via' = [via EXCEPT ![c] = s]
           /\ \/ /\ gates' = gates + 1
                 /\ gate' = [gate EXCEPT ![c] = gates + 1]
                 /\ pc' = [pc EXCEPT ![c] = "gated"]
                 /\ k = "latest"
              \/ /\ UNCHANGED <<gates, gate>>
                 /\ pc' = [pc EXCEPT ![c] = IF k \in Nonblocking THEN "try"
                                             ELSE "lock"]
    BY <1>1 DEF Begin, Goto
  <2>3. k \in AllKinds
    BY KindsAssumption
  <2>4. MarketSessionTypeOK'
    BY <1>1, <2>2, <2>3 DEF Begin, TypeOK, MarketSessionTypeOK, Places
  <2>5. WellCalled'
    BY <2>2 DEF TypeOK, MarketSessionTypeOK, WellCalled, Nonblocking
  <2> QED
    BY <2>1, <2>4, <2>5 DEF TypeOK
<1>2. ASSUME NEW c \in Calls, Call(c)
      PROVE  TypeOK' /\ WellCalled'
  <2>1. TypeOK'
    BY <1>2, CallTypes
  <2>2. /\ UNCHANGED <<kind, via>>
        /\ \A d \in Calls : pc'[d] # "idle" => pc[d] # "idle"
        /\ \A d \in Calls : pc'[d] \in {"gated", "lock"}
                             => pc[d] \in {"gated", "lock"}
    BY <1>2 DEF Call, TypeOK, MarketSessionTypeOK, Goto, GoReleasing,
       PublishGate, Acquire, AfterLock, LockTimeout, WaitIdle, WaitIdleTimeout, CheckGate,
       Send, SendFails, ReadFrame, ReadFails, Submit, SubmitFails, AwaitResult,
       AwaitTimeout, Retime, TryAcquire, TrySkips, TrySend, TrySubmit, Close,
       CloseTests, CloseCompletes, CloseEnds, Detach, ProbeEnds
  <2> QED
    BY <2>1, <2>2 DEF WellCalled
<1>3. ASSUME NEW c \in Calls, Deadline(c)
      PROVE  TypeOK' /\ WellCalled'
  BY <1>3 DEF Deadline, callVars, TypeOK, MarketSessionTypeOK,
     DispatcherTypeOK, WellCalled
<1>4. ASSUME NEW s \in Sessions, ReaderThread(s)
      PROVE  TypeOK' /\ WellCalled'
  <2>1. DispatcherTypeOK'
    BY <1>4, ReaderTypes DEF ReaderThread, TypeOK
  <2> QED
    BY <1>4, <2>1
    DEF ReaderThread, callVars, TypeOK, MarketSessionTypeOK, WellCalled
<1>5. CASE Server
  BY <1>5, ServerTypes DEF Server, callVars, WellCalled
<1>6. CASE UNCHANGED vars
  BY <1>6 DEF vars, callVars, dispatcherVars, TypeOK, MarketSessionTypeOK,
     DispatcherTypeOK, WellCalled
<1> QED
  BY <1>1, <1>2, <1>3, <1>4, <1>5, <1>6 DEF Next

\* Type correctness: every variable of the lane keeps its type, for every set
\* of calls, sessions and bounds.
THEOREM TypeCorrect == Spec => [](TypeOK /\ WellCalled)
<1>1. Init => TypeOK /\ WellCalled
  BY InitTypes DEF Init, WellCalled
<1> QED
  BY <1>1, TypeStep, PTL DEF Spec

-----------------------------------------------------------------------------
(* Mutual exclusion                                                        *)

\* What a step of call c leaves alone: the places of the other calls.
LEMMA CallMovesItself ==
    ASSUME TypeOK, NEW c \in Calls, Begin(c) \/ Call(c)
    PROVE  \A d \in Calls \ {c} : pc'[d] = pc[d] /\ kind'[d] = kind[d]
                                  /\ via'[d] = via[d]
  BY DEF Begin, Call, TypeOK, MarketSessionTypeOK, Goto, GoReleasing,
     PublishGate, Acquire, LockTimeout, WaitIdle, WaitIdleTimeout, CheckGate,
     Send, SendFails, ReadFrame, ReadFails, Submit, SubmitFails, AwaitResult,
     AwaitTimeout, Retime, TryAcquire, TrySkips, TrySend, TrySubmit, Close,
     CloseTests, CloseCompletes, CloseEnds, Detach, ProbeEnds

\* A call keeps the lock while it stays at places that hold it, takes it only
\* when it is free, and gives up only its own.
LEMMA CallLocks ==
    ASSUME TypeOK, LockExcludes, NEW c \in Calls, Call(c)
    PROVE  \/ lock = c /\ lock' = c /\ pc'[c] \in Holding
           \/ lock = c /\ lock' = Nobody /\ pc'[c] \notin Holding
           \/ lock = Nobody /\ lock' = c /\ pc'[c] \in Holding
           \/ lock # c /\ lock' = lock /\ pc'[c] \notin Holding
<1> USE DEF TypeOK, MarketSessionTypeOK, LockExcludes, Holding, Goto, GoReleasing
<1>1. CASE \/ PublishGate(c) \/ LockTimeout(c) \/ AwaitResult(c)
           \/ AwaitTimeout(c) \/ Retime(c)
  BY <1>1 DEF PublishGate, LockTimeout, AwaitResult, AwaitTimeout, Retime
<1>2. CASE Acquire(c)
  BY <1>2 DEF Acquire, AfterLock
<1>3. CASE \/ WaitIdle(c) \/ WaitIdleTimeout(c) \/ CheckGate(c) \/ Send(c)
           \/ SendFails(c) \/ ReadFrame(c) \/ ReadFails(c)
  BY <1>3 DEF WaitIdle, WaitIdleTimeout, CheckGate, Send, SendFails,
     ReadFrame, ReadFails
<1>4. CASE Submit(c) \/ SubmitFails(c) \/ TryAcquire(c) \/ TrySkips(c)
           \/ TrySend(c) \/ TrySubmit(c)
  BY <1>4 DEF Submit, SubmitFails, TryAcquire, TrySkips, TrySend, TrySubmit
<1>5. CASE Close(c) \/ CloseTests(c) \/ CloseCompletes(c) \/ CloseEnds(c)
           \/ Detach(c) \/ ProbeEnds(c)
  BY <1>5 DEF Close, CloseTests, CloseCompletes, CloseEnds, Detach, ProbeEnds
<1> QED
  BY <1>1, <1>2, <1>3, <1>4, <1>5 DEF Call

LEMMA LockStep ==
    ASSUME TypeOK, LockExcludes, [Next]_vars
    PROVE  LockExcludes'
<1> USE DEF LockExcludes
<1>1. ASSUME NEW c \in Calls, Begin(c)
      PROVE  LockExcludes'
  BY <1>1 DEF Begin, Goto, Holding, TypeOK, MarketSessionTypeOK
<1>2. ASSUME NEW c \in Calls, Call(c)
      PROVE  LockExcludes'
  BY <1>2, CallLocks, CallMovesItself, NamesAssumption
<1>3. CASE UNCHANGED callVars
  BY <1>3 DEF callVars
<1> QED
  BY <1>1, <1>2, <1>3 DEF Next, vars, Deadline, ReaderThread, Server

-----------------------------------------------------------------------------
(* The dispatcher and the callers that read for themselves                 *)

\* Only the holder of the lock gives a dispatcher work, and it lets go of the
\* lock as it does.
LEMMA CallWorks ==
    ASSUME TypeOK, WellCalled, LockExcludes, NEW c \in Calls, Call(c)
    PROVE  \/ lock = c /\ lock' = Nobody /\ pc'[c] \notin Holding
           \/ rpc' = rpc /\ \A s \in Sessions : pending'[s] \subseteq pending[s]
<1> USE DEF TypeOK, DispatcherTypeOK
<1>1. CASE Submit(c) \/ SubmitFails(c) \/ TrySubmit(c)
  BY <1>1 DEF Submit, SubmitFails, TrySubmit, GoReleasing, Goto, Holding,
     LockExcludes, MarketSessionTypeOK
<1>2. CASE \/ PublishGate(c) \/ Acquire(c) \/ LockTimeout(c) \/ WaitIdle(c)
           \/ WaitIdleTimeout(c) \/ CheckGate(c) \/ SendFails(c) \/ ReadFails(c)
           \/ AwaitResult(c) \/ AwaitTimeout(c) \/ TryAcquire(c)
           \/ TrySkips(c) \/ TrySend(c) \/ CloseTests(c) \/ ProbeEnds(c)
  BY <1>2 DEF PublishGate, Acquire, LockTimeout, WaitIdle, WaitIdleTimeout,
     CheckGate, SendFails, ReadFails, AwaitResult, AwaitTimeout, TryAcquire,
     TrySkips, TrySend, CloseTests, ProbeEnds, dispatcherVars
<1>3. CASE Send(c) \/ ReadFrame(c) \/ Retime(c) \/ Detach(c)
  BY <1>3 DEF Send, ReadFrame, Retime, Detach
<1>4. CASE Close(c) \/ CloseCompletes(c) \/ CloseEnds(c)
  BY <1>4 DEF Close, CloseBegins, CloseCompletes, CloseFails, CloseBreaks,
     CloseEnds, CloseClears
<1> QED
  BY <1>1, <1>2, <1>3, <1>4 DEF Call

\* A caller enters the part of its call that owns the lane from there, or
\* when it finds its dispatcher idle.
LEMMA CallOwns ==
    ASSUME TypeOK, WellCalled, NEW c \in Calls, Call(c), Owner(c)'
    PROVE  \/ Owner(c)
           \/ ~Busy(via[c]) /\ UNCHANGED dispatcherVars
<1> USE DEF Owner, TypeOK, MarketSessionTypeOK, Goto, GoReleasing
<1>1. CASE Acquire(c)
  BY <1>1, KindsAssumption DEF Acquire, AfterLock, WellCalled, AllKinds,
     Synchronous, Nonblocking
<1>2. CASE WaitIdle(c)
  BY <1>2 DEF WaitIdle
<1>3. CASE \/ WaitIdleTimeout(c) \/ CheckGate(c) \/ Send(c) \/ SendFails(c)
           \/ ReadFrame(c) \/ ReadFails(c)
  BY <1>3 DEF WaitIdleTimeout, CheckGate, Send, SendFails, ReadFrame, ReadFails
<1>4. CASE ~(Acquire(c) \/ WaitIdle(c) \/ WaitIdleTimeout(c) \/ CheckGate(c)
             \/ Send(c) \/ SendFails(c) \/ ReadFrame(c) \/ ReadFails(c))
  BY <1>4 DEF Call, PublishGate, LockTimeout, Submit, SubmitFails, AwaitResult,
     AwaitTimeout, Retime, TryAcquire, TrySkips, TrySend, TrySubmit, Close,
     CloseTests, CloseCompletes, CloseEnds, Detach, ProbeEnds
<1> QED
  BY <1>1, <1>2, <1>3, <1>4

LEMMA OwnerStep ==
    ASSUME TypeOK, WellCalled, LockExcludes, OwnerIsAlone, [Next]_vars,
           \A s, t \in Sessions : s = t
    PROVE  OwnerIsAlone'
<1> SUFFICES ASSUME NEW d \in Calls, Owner(d)', NEW s \in Sessions
             PROVE  ~Busy(s)'
  BY DEF OwnerIsAlone
<1>1. ASSUME NEW c \in Calls, Begin(c)
      PROVE  ~Busy(s)'
  <2>1. d # c
    BY <1>1 DEF Begin, Goto, Owner, TypeOK, MarketSessionTypeOK
  <2> QED
    BY <1>1, <2>1, CallMovesItself
    DEF Begin, dispatcherVars, Owner, OwnerIsAlone, Busy
<1>2. ASSUME NEW c \in Calls, Call(c)
      PROVE  ~Busy(s)'
  <2>1. CASE Owner(d)
    <3>1. lock = d /\ ~Busy(s)
      BY <2>1 DEF OwnerIsAlone, LockExcludes, Owner, Holding
    <3>2. rpc' = rpc /\ pending'[s] \subseteq pending[s]
      BY <1>2, <3>1, CallWorks DEF Owner, Holding
    <3> QED
      BY <3>1, <3>2 DEF Busy
  <2>2. CASE ~Owner(d)
    <3>1. d = c
      BY <1>2, <2>2, CallMovesItself DEF Owner
    <3>2. ~Busy(via[c]) /\ UNCHANGED dispatcherVars /\ via[c] \in Sessions
      <4>1. pc[c] # "idle"
        BY <1>2 DEF Call, PublishGate, Acquire, LockTimeout, WaitIdle,
           WaitIdleTimeout, CheckGate, Send, SendFails, ReadFrame, ReadFails,
           Submit, SubmitFails, AwaitResult, AwaitTimeout, Retime, TryAcquire,
           TrySkips, TrySend, TrySubmit, Close, CloseTests, CloseCompletes,
           CloseEnds, Detach, ProbeEnds
      <4> QED
        BY <1>2, <2>2, <3>1, <4>1, CallOwns DEF WellCalled
    <3> QED
      BY <3>2 DEF Busy, dispatcherVars
  <2> QED
    BY <2>1, <2>2
<1>3. ASSUME NEW c \in Calls, Deadline(c)
      PROVE  ~Busy(s)'
  BY <1>3 DEF Deadline, callVars, Owner, OwnerIsAlone, Busy
<1>4. ASSUME NEW t \in Sessions, ReaderThread(t)
      PROVE  ~Busy(s)'
  <2>1. ~Busy(t)
    BY <1>4 DEF ReaderThread, callVars, Owner, OwnerIsAlone
  <2> QED
    BY <1>4, <2>1 DEF ReaderThread, Reader, Busy, ReaderTop, ReaderGetsFrame,
       ReaderPolls, ReaderLosesLink, ReaderOffers, ReaderConsumerRaises,
       ReaderCompletes, ReaderSweeps, ReaderFails, ReaderExits
<1>5. CASE Server
  BY <1>5 DEF Server, ServerAnswers, ServerPushes, ServerLeaves, callVars,
     Owner, OwnerIsAlone, Busy
<1>6. CASE UNCHANGED vars
  BY <1>6 DEF vars, callVars, dispatcherVars, Owner, OwnerIsAlone, Busy
<1> QED
  BY <1>1, <1>2, <1>3, <1>4, <1>5, <1>6 DEF Next

\* The lane's invariant: types, the lock, and the lane of an owner.
LaneInv == TypeOK /\ WellCalled /\ LockExcludes /\ OwnerIsAlone

LEMMA LaneInvariant ==
    ASSUME \A s, t \in Sessions : s = t
    PROVE  Spec => []LaneInv
<1>1. Init => LaneInv
  BY InitTypes, NamesAssumption
  DEF Init, LaneInv, WellCalled, LockExcludes, Holding, OwnerIsAlone, Owner
<1>2. LaneInv /\ [Next]_vars => LaneInv'
  BY TypeStep, LockStep, OwnerStep DEF LaneInv
<1> QED
  BY <1>1, <1>2, PTL DEF Spec

\* Sole reader: on a socket used through one session only, and not read by a
\* legacy push reader, no two threads ever read at the same time, however
\* many calls of whatever kind are made.
THEOREM SoleReaderHolds ==
    ASSUME \A s, t \in Sessions : s = t, "pushRead" \notin Kinds
    PROVE  Spec => []SoleReader
<1>1. LaneInv => SoleReader
  <2> SUFFICES ASSUME LaneInv, NEW x \in ReadingSocket, NEW y \in ReadingSocket
               PROVE  x = y
    BY DEF SoleReader
  <2>1. ASSUME NEW c \in Calls, pc[c] = "read"
        PROVE  lock = c /\ \A s \in Sessions : rpc[s] = "none"
    BY <2>1 DEF LaneInv, LockExcludes, Holding, OwnerIsAlone, Owner, WellCalled,
       Busy
  <2> QED
    BY <2>1 DEF ReadingSocket
<1> QED
  BY <1>1, LaneInvariant, PTL

\* No stolen answer: under the same conditions, a frame that a synchronous
\* caller takes off the wire answers no request a dispatcher has pending.
THEOREM NoStolenAnswerHolds ==
    ASSUME \A s, t \in Sessions : s = t, "pushRead" \notin Kinds
    PROVE  Spec => NoStolenAnswer
<1>1. LaneInv /\ [Next]_vars =>
        [\A c \in Calls : ReadFrame(c) =>
            \A s \in Sessions : Head(wire) \notin Candidates(s)]_vars
  BY DEF LaneInv, OwnerIsAlone, Owner, WellCalled, Busy, Candidates, ReadFrame
<1> QED
  BY <1>1, LaneInvariant, PTL DEF Spec, NoStolenAnswer

-----------------------------------------------------------------------------
(* No request is forgotten                                                 *)

LEMMA ServedStep ==
    ASSUME TypeOK, PendingIsServed, [Next]_vars
    PROVE  PendingIsServed'
<1> USE DEF PendingIsServed, TypeOK, DispatcherTypeOK
<1>1. ASSUME NEW c \in Calls, Begin(c) \/ Deadline(c)
      PROVE  PendingIsServed'
  BY <1>1 DEF Begin, Deadline, dispatcherVars
<1>2. ASSUME NEW c \in Calls, Call(c)
      PROVE  PendingIsServed'
  <2>1. CASE Submit(c) \/ SubmitFails(c) \/ TrySubmit(c)
    BY <2>1 DEF Submit, SubmitFails, TrySubmit, Submitted, SubmitWriteFails,
       SubmitRefused, dispatcherVars
  <2>2. CASE Close(c) \/ CloseCompletes(c) \/ CloseEnds(c)
    BY <2>2 DEF Close, CloseBegins, CloseCompletes, CloseFails, CloseBreaks,
       CloseEnds, CloseClears
  <2>3. CASE ~(Submit(c) \/ SubmitFails(c) \/ TrySubmit(c) \/ Close(c)
               \/ CloseCompletes(c) \/ CloseEnds(c))
    BY <1>2, <2>3 DEF Call, PublishGate, Acquire, LockTimeout, WaitIdle,
       WaitIdleTimeout, CheckGate, Send, SendFails, ReadFrame, ReadFails,
       AwaitResult, AwaitTimeout, Retime, TryAcquire, TrySkips, TrySend,
       CloseTests, Detach, ProbeEnds, dispatcherVars
  <2> QED
    BY <2>1, <2>2, <2>3
<1>3. ASSUME NEW s \in Sessions, ReaderThread(s)
      PROVE  PendingIsServed'
  <2>1. CASE ReaderTop(s)
    BY <2>1 DEF ReaderTop, Overdue
  <2>2. CASE ReaderExits(s)
    BY <2>2 DEF ReaderExits
  <2>3. CASE ~(ReaderTop(s) \/ ReaderExits(s))
    BY <1>3, <2>3 DEF ReaderThread, Reader, ReaderGetsFrame, ReaderPolls,
       ReaderLosesLink, ReaderOffers, ReaderConsumerRaises, ReaderCompletes,
       ReaderSweeps, ReaderFails
  <2> QED
    BY <2>1, <2>2, <2>3
<1>4. CASE Server
  BY <1>4 DEF Server, ServerAnswers, ServerPushes, ServerLeaves
<1>5. CASE UNCHANGED vars
  BY <1>5 DEF vars, dispatcherVars
<1> QED
  BY <1>1, <1>2, <1>3, <1>4, <1>5 DEF Next

\* Pending is served: whatever calls are made and however the reader's
\* decision to leave interleaves with a submission, a list that holds
\* requests has a reader until its dispatcher is closed.
THEOREM PendingIsServedHolds == Spec => []PendingIsServed
<1>1. Init => PendingIsServed
  BY DEF Init, DispatcherInit, PendingIsServed
<1> QED
  BY <1>1, ServedStep, TypeCorrect, PTL DEF Spec

-----------------------------------------------------------------------------
(* Futures and the end of a connection                                     *)

Settling == WaitingIsPending /\ DetachedIsEmpty

\* A reader takes a request off its list with its future completed.
LEMMA ReaderSettles ==
    ASSUME TypeOK, WellCalled, Settling, NEW s \in Sessions, ReaderThread(s)
    PROVE  Settling'
<1>0. /\ \A r \in Req : Waiting(r) => via[CallOf(r)] \in Sessions
      /\ \A c \in Calls : pc[c] # "idle" => via[c] \in Sessions
  BY DEF WellCalled, Settling, WaitingIsPending, Req, CallOf
<1> USE DEF Settling, WaitingIsPending, DetachedIsEmpty, TypeOK,
        DispatcherTypeOK, ReaderThread, callVars, Waiting
<1>1. CASE ReaderTop(s)
  BY <1>0, <1>1 DEF ReaderTop, Overdue
<1>2. CASE \/ ReaderGetsFrame(s) \/ ReaderPolls(s) \/ ReaderLosesLink(s)
           \/ ReaderOffers(s) \/ ReaderConsumerRaises(s) \/ ReaderExits(s)
  BY <1>0, <1>2 DEF ReaderGetsFrame, ReaderPolls, ReaderLosesLink, ReaderOffers,
     ReaderConsumerRaises, ReaderExits
<1>3. CASE ReaderCompletes(s)
  BY <1>0, <1>3 DEF ReaderCompletes
<1>4. CASE ReaderSweeps(s)
  BY <1>0, <1>4 DEF ReaderSweeps, Candidates
<1>5. CASE ReaderFails(s)
  BY <1>0, <1>5 DEF ReaderFails, Candidates
<1> QED
  BY <1>1, <1>2, <1>3, <1>4, <1>5 DEF Reader

LEMMA BundlesAreOwn ==
    ASSUME NEW c \in Calls
    PROVE  /\ CallOf(FirstReq(c)) = c
           /\ \A n \in 1..MaxBundle : \A r \in BundleOf(c, n) : CallOf(r) = c
  BY BundleAssumption DEF FirstReq, BundleOf, CallOf

\* A submission by call c through its session.
LEMMA SubmissionSettles ==
    ASSUME TypeOK, Settling, NEW c \in Calls, via[c] \in Sessions,
           pc[c] # "idle",
           pc'[c] \notin {"idle", "failing", "failed", "detach"},
           \A d \in Calls \ {c} : pc'[d] = pc[d], UNCHANGED via,
           NEW R \in SUBSET Req, \A r \in R : CallOf(r) = c,
           NEW p \in BOOLEAN,
           \/ Submitted(via[c], R, p)
           \/ SubmitWriteFails(via[c], R)
           \/ SubmitRefused(via[c])
           \/ UNCHANGED dispatcherVars
    PROVE  Settling'
<1> USE DEF Settling, WaitingIsPending, DetachedIsEmpty, TypeOK,
        DispatcherTypeOK, Waiting
<1>0. \A r \in Req : CallOf(r) \in Calls
  BY DEF Req, CallOf
<1>1. CASE Submitted(via[c], R, p)
  <2>1. \A r \in Req : fut'[r] = IF r \in R THEN "wait" ELSE fut[r]
    BY <1>1 DEF Submitted
  <2>2. \A r \in R : r \in pending'[via[c]]
    BY <1>1 DEF Submitted
  <2>3. \A s \in Sessions : pending[s] \subseteq pending'[s]
    BY <1>1 DEF Submitted
  <2>4. WaitingIsPending'
    <3> SUFFICES ASSUME NEW r \in Req, fut'[r] = "wait"
                 PROVE  /\ pc'[CallOf(r)] # "idle"
                        /\ r \in pending'[via[CallOf(r)]]
      BY <1>1 DEF Submitted
    <3>1. CASE r \in R
      BY <2>2, <3>1
    <3>2. CASE r \notin R
      BY <1>0, <1>1, <2>1, <3>2 DEF Submitted
    <3> QED
      BY <3>1, <3>2
  <2>5. DetachedIsEmpty'
    BY <1>1 DEF Submitted
  <2> QED
    BY <2>4, <2>5
<1>2. CASE SubmitWriteFails(via[c], R)
  BY <1>0, <1>2 DEF SubmitWriteFails
<1>3. CASE UNCHANGED dispatcherVars
  BY <1>0, <1>3 DEF dispatcherVars
<1> QED
  BY <1>1, <1>2, <1>3 DEF SubmitRefused

\* Steps that take nothing off a list, complete futures at most, and neither
\* begin a call nor move one into close().
LEMMA QuietSettles ==
    ASSUME Settling, via' = via, attached' = attached, stop' = stop,
           pending' = pending,
           \A r \in Req : fut'[r] = "wait" => fut[r] = "wait",
           \A d \in Calls : pc[d] # "idle" => pc'[d] # "idle",
           \A d \in Calls : pc'[d] \in {"failing", "failed"} =>
                             pc[d] \in {"failing", "failed"},
           \A d \in Calls : pc'[d] # "detach" \/ pc[d] = "detach"
    PROVE  Settling'
<1>1. \A r \in Req : CallOf(r) \in Calls
  BY DEF Req, CallOf
<1>2. WaitingIsPending'
  BY <1>1 DEF Settling, WaitingIsPending, Waiting
<1>3. DetachedIsEmpty'
  BY DEF Settling, DetachedIsEmpty
<1> QED
  BY <1>2, <1>3 DEF Settling

\* A call settles what it takes off a list, and detaches an empty dispatcher.
LEMMA CallSettles ==
    ASSUME TypeOK, WellCalled, Settling, NEW c \in Calls, Call(c)
    PROVE  Settling'
<1>0. /\ \A r \in Req : CallOf(r) \in Calls
      /\ \A d \in Calls : pc[d] # "idle" => via[d] \in Sessions
  BY DEF Req, CallOf, WellCalled
<1>1. CASE Submit(c) \/ SubmitFails(c) \/ TrySubmit(c)
  <2>1. /\ via[c] \in Sessions /\ UNCHANGED via
        /\ pc[c] # "idle"
        /\ pc'[c] \notin {"idle", "failing", "failed", "detach"}
        /\ \A d \in Calls \ {c} : pc'[d] = pc[d]
    BY <1>1 DEF WellCalled, Submit, SubmitFails, TrySubmit, TypeOK,
       MarketSessionTypeOK, Goto, GoReleasing
  <2>2. PICK R \in SUBSET Req, p \in BOOLEAN :
           /\ \A r \in R : CallOf(r) = c
           /\ \/ Submitted(via[c], R, p)
              \/ SubmitWriteFails(via[c], R)
              \/ SubmitRefused(via[c])
              \/ UNCHANGED dispatcherVars
    <3>1. CASE Submit(c)
      BY <3>1, BundlesAreRequests, BundlesAreOwn DEF Submit
    <3>2. CASE SubmitFails(c)
      BY <3>2, BundlesAreRequests, BundlesAreOwn DEF SubmitFails
    <3>3. CASE TrySubmit(c)
      <4>1. {FirstReq(c)} \in SUBSET Req /\ \A r \in {FirstReq(c)} : CallOf(r) = c
        BY BundlesAreRequests, BundlesAreOwn
      <4> QED
        BY <3>3, <4>1 DEF TrySubmit
    <3> QED
      BY <1>1, <3>1, <3>2, <3>3
  <2> QED
    BY <2>1, <2>2, SubmissionSettles
<1> USE DEF Settling, WaitingIsPending, DetachedIsEmpty, TypeOK,
        DispatcherTypeOK, MarketSessionTypeOK, Waiting, Goto, GoReleasing
<1>2. CASE Close(c)
  <2>1. WaitingIsPending'
    BY <1>0, <1>2 DEF Close, CloseBegins
  <2>2. DetachedIsEmpty'
    BY <1>0, <1>2 DEF Close, CloseBegins
  <2> QED
    BY <2>1, <2>2
<1>3. CASE CloseCompletes(c)
  <2>1. /\ UNCHANGED <<via, attached, stop, pending>>
        /\ \A r \in Req : fut'[r] = "wait" => fut[r] = "wait"
        /\ pc[c] = "failed" /\ pc'[c] \in {"failing", "done"}
        /\ \A d \in Calls \ {c} : pc'[d] = pc[d]
    <3>1. CASE CloseFails(victim[c])
      BY <1>3, <3>1 DEF CloseCompletes, CloseFails, CloseBreaks
    <3>2. CASE CloseBreaks(via[c], victim[c])
      BY <1>3, <3>2 DEF CloseCompletes, CloseFails, CloseBreaks
    <3> QED
      BY <1>3, <3>1, <3>2 DEF CloseCompletes
  <2> QED
    BY <2>1, QuietSettles
<1>4. CASE CloseEnds(c)
  <2>1. via[c] \in Sessions
    BY <1>4 DEF CloseEnds, WellCalled
  <2>2. WaitingIsPending'
    BY <1>0, <1>4, <2>1 DEF CloseEnds, CloseClears
  <2>3. stop[via[c]]
    BY <1>4 DEF CloseEnds
  <2>4. DetachedIsEmpty'
    BY <1>4, <2>1, <2>3 DEF CloseEnds, CloseClears
  <2> QED
    BY <2>2, <2>4
<1>5. CASE Detach(c)
  <2>1. WaitingIsPending'
    BY <1>0, <1>5 DEF Detach
  <2>2. DetachedIsEmpty'
    BY <1>0, <1>5 DEF Detach
  <2> QED
    BY <2>1, <2>2
<1>6. CASE Send(c) \/ ReadFrame(c) \/ Retime(c)
  <2>1. /\ UNCHANGED <<via, attached, stop, pending, fut>>
        /\ pc[c] # "idle" /\ pc'[c] \in {"read", "done"}
        /\ \A d \in Calls \ {c} : pc'[d] = pc[d]
    BY <1>6 DEF Send, ReadFrame, Retime
  <2> QED
    BY <2>1, QuietSettles
<1>7. CASE ~(Submit(c) \/ SubmitFails(c) \/ TrySubmit(c) \/ Close(c)
             \/ CloseCompletes(c) \/ CloseEnds(c) \/ Detach(c) \/ Send(c)
             \/ ReadFrame(c) \/ Retime(c))
  <2>1. /\ UNCHANGED <<via, attached, stop, pending, fut>>
        /\ pc[c] # "idle" /\ pc'[c] \notin {"idle", "detach"}
        /\ pc'[c] \in {"failing", "failed"} => pc[c] \in {"failing", "failed"}
        /\ \A d \in Calls \ {c} : pc'[d] = pc[d]
    BY <1>7 DEF Call, PublishGate, Acquire, AfterLock, LockTimeout, WaitIdle,
       WaitIdleTimeout, CheckGate, SendFails, ReadFails, AwaitResult,
       AwaitTimeout, TryAcquire, TrySkips, TrySend, CloseTests, ProbeEnds,
       dispatcherVars
  <2> QED
    BY <2>1, QuietSettles
<1> QED
  BY <1>1, <1>2, <1>3, <1>4, <1>5, <1>6, <1>7

LEMMA SettlingStep ==
    ASSUME TypeOK, WellCalled, Settling, [Next]_vars
    PROVE  Settling'
<1>0. \A r \in Req : CallOf(r) \in Calls
  BY DEF Req, CallOf
<1>1. ASSUME NEW c \in Calls, Begin(c)
      PROVE  Settling'
  BY <1>0, <1>1
  DEF Begin, dispatcherVars, Goto, Settling, WaitingIsPending, DetachedIsEmpty,
      Waiting, TypeOK, MarketSessionTypeOK
<1>2. ASSUME NEW c \in Calls, Deadline(c)
      PROVE  Settling'
  BY <1>2 DEF Deadline, callVars, Settling, WaitingIsPending, DetachedIsEmpty,
     Waiting
<1>3. CASE Server
  BY <1>3 DEF Server, ServerAnswers, ServerPushes, ServerLeaves, callVars,
     Settling, WaitingIsPending, DetachedIsEmpty, Waiting
<1>4. CASE UNCHANGED vars
  BY <1>4 DEF vars, callVars, dispatcherVars, Settling, WaitingIsPending,
     DetachedIsEmpty, Waiting
<1> QED
  BY <1>1, <1>2, <1>3, <1>4, CallSettles, ReaderSettles DEF Next

\* Detached is settled: when a connection has let its socket go, every future
\* submitted through it is completed, whatever its reader was doing and
\* whoever was submitting when it was closed.
THEOREM DetachedIsSettledHolds == Spec => []DetachedIsSettled
<1>1. Init => Settling
  BY DEF Init, DispatcherInit, Settling, WaitingIsPending, DetachedIsEmpty,
     Waiting
<1>2. TypeOK /\ Settling => DetachedIsSettled
  BY DEF Settling, WaitingIsPending, DetachedIsEmpty, DetachedIsSettled, Bundle,
     TypeOK, MarketSessionTypeOK
<1> QED
  BY <1>1, <1>2, SettlingStep, TypeCorrect, PTL DEF Spec

-----------------------------------------------------------------------------
(* Latest wins                                                             *)

LEMMA GatesBegin ==
    ASSUME TypeOK, GatesInOrder, NEW c \in Calls, Begin(c)
    PROVE  GatesInOrder'
<1> USE DEF GatesInOrder, Charts, TypeOK, MarketSessionTypeOK
<1>1. PICK k \in Kinds, s \in Sessions :
         /\ kind' = [kind EXCEPT ![c] = k]
         /\ via' = [via EXCEPT ![c] = s]
         /\ \/ /\ k = "latest"
               /\ gates' = gates + 1
               /\ gate' = [gate EXCEPT ![c] = gates + 1]
               /\ pc' = [pc EXCEPT ![c] = "gated"]
            \/ /\ k # "latest"
               /\ UNCHANGED <<gates, gate>>
               /\ pc' = [pc EXCEPT ![c] = IF k \in Nonblocking THEN "try"
                                           ELSE "lock"]
  BY DEF Begin, Goto
<1>2. pc[c] = "idle" /\ UNCHANGED <<latest, sent>> /\ c \notin sent
  BY DEF Begin
<1>3. CASE k = "latest"
  BY <1>1, <1>2, <1>3
<1>4. CASE k # "latest"
  BY <1>1, <1>2, <1>4
<1> QED
  BY <1>3, <1>4

LEMMA GatesCall ==
    ASSUME TypeOK, WellCalled, LockExcludes, GatesInOrder,
           NEW c \in Calls, Call(c)
    PROVE  GatesInOrder'
<1> USE DEF GatesInOrder, Charts, TypeOK, MarketSessionTypeOK, Goto, GoReleasing
<1>1. CASE PublishGate(c)
  <2>1. via[c] \in Sessions
    BY <1>1 DEF PublishGate, WellCalled
  <2> QED
    BY <1>1, <2>1 DEF PublishGate
<1>2. CASE CheckGate(c)
  <2>1. ASSUME gate[c] = latest[via[c]], NEW d \in sent \cap Charts,
               via[d] = via[c], c \in Charts
        PROVE  gate[d] < gate[c]
    BY <1>2, <2>1 DEF CheckGate
  <2> QED
    BY <1>2, <2>1 DEF CheckGate
<1>3. CASE Send(c)
  <2>1. \A d \in Calls : pc[d] = "send" => d = c
    BY <1>3 DEF Send, LockExcludes, Holding
  <2> QED
    BY <1>3, <2>1 DEF Send
<1>4. CASE WaitIdle(c)
  BY <1>4 DEF WaitIdle
<1>5. CASE Acquire(c)
  <2>1. pc[c] = "lock" /\ pc' = [pc EXCEPT ![c] = AfterLock(kind[c])]
    BY <1>5 DEF Acquire
  <2>2. kind[c] = "latest" => AfterLock(kind[c]) = "waitIdle"
    BY DEF AfterLock, Synchronous
  <2>3. AfterLock(kind[c]) \notin {"idle", "gated"}
    BY DEF AfterLock
  <2> QED
    BY <1>5, <2>1, <2>2, <2>3 DEF Acquire
<1>6. CASE ~(PublishGate(c) \/ CheckGate(c) \/ Send(c) \/ WaitIdle(c)
             \/ Acquire(c))
  <2>1. /\ UNCHANGED <<kind, via, gate, gates, latest, sent>>
        /\ pc[c] \notin {"idle", "gated", "done"}
        /\ pc'[c] \notin {"idle", "gated", "send"}
        /\ pc[c] = "read" => pc'[c] \in {"read", "done"}
        /\ \A d \in Calls \ {c} : pc'[d] = pc[d]
    BY <1>6 DEF Call, LockTimeout, WaitIdleTimeout, SendFails, ReadFrame,
       ReadFails, Submit, SubmitFails, AwaitResult, AwaitTimeout, Retime,
       TryAcquire, TrySkips, TrySend, TrySubmit, Close, CloseTests,
       CloseCompletes, CloseEnds, Detach, ProbeEnds
  <2> QED
    BY <2>1
<1> QED
  BY <1>1, <1>2, <1>3, <1>4, <1>5, <1>6

LEMMA GatesStep ==
    ASSUME TypeOK, WellCalled, LockExcludes, GatesInOrder, [Next]_vars
    PROVE  GatesInOrder'
<1>1. CASE UNCHANGED callVars
  BY <1>1 DEF callVars, GatesInOrder, Charts
<1> QED
  BY <1>1, GatesBegin, GatesCall DEF Next, vars, Deadline, ReaderThread, Server

\* Latest wins: latest-wins requests of one session reach the socket in the
\* order of their gates, for any number of callers and sessions.
THEOREM GatesIncreaseHolds == Spec => GatesIncrease
<1>1. Init => TypeOK /\ WellCalled /\ LockExcludes /\ GatesInOrder
  BY InitTypes, NamesAssumption
  DEF Init, WellCalled, LockExcludes, Holding, GatesInOrder, Charts
<1>2. ASSUME TypeOK, GatesInOrder, NEW c \in Calls, Send(c),
             kind[c] = "latest", NEW d \in sent, kind[d] = "latest",
             via[d] = via[c]
      PROVE  gate[d] < gate[c]
  <2>1. c \in Charts /\ pc[c] = "send"
    BY <1>2 DEF Send, Charts
  <2>2. d \in sent \cap Charts
    BY <1>2 DEF GatesInOrder, Charts, TypeOK, MarketSessionTypeOK
  <2> QED
    BY <1>2, <2>1, <2>2 DEF GatesInOrder
<1>3. TypeOK /\ GatesInOrder =>
        [\A c \in Calls : Send(c) /\ kind[c] = "latest" =>
            \A d \in sent : kind[d] = "latest" /\ via[d] = via[c] =>
                gate[d] < gate[c]]_vars
  BY <1>2
<1> QED
  BY <1>1, <1>3, TypeStep, LockStep, GatesStep, PTL DEF Spec, GatesIncrease
=============================================================================
