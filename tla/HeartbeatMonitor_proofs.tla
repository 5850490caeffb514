------------------------ MODULE HeartbeatMonitor_proofs ------------------------
(***************************************************************************)
(* Theorems about the heartbeat monitor: the types, and that what it says  *)
(* of a lane is explained by what happened on the socket it is bound to.   *)
(***************************************************************************)
EXTENDS HeartbeatMonitor, TLAPS

USE DEF Goto, Lane, Sock, Letgo, ThenProbe,
        laneVars, wireVars, probeVars, loopVars, lifeVars

-----------------------------------------------------------------------------
(* The record of a lane                                                    *)

\* A record that is typed, explained by its misses, and bound.
Kept(r) == r \in LaneRecords /\ Earned(r) /\ Bound(r)

LEMMA FreshIsKept ==
    ASSUME NEW s \in Sockets \cup {None}
    PROVE  Kept(Fresh(s))
  BY ThresholdAssumption DEF Kept, Fresh, LaneRecords, States, Earned, Bound, Settles

Answered(r) == [Settled(r, "healthy") EXCEPT !.misses = 0]
Begun(r, p) == [r EXCEPT !.prev = r.state, !.pending = p, !.state = "pending"]

LEMMA AnsweredIsKept ==
    ASSUME NEW r, Kept(r)
    PROVE  Kept(Answered(r))
<1> DEFINE a == Answered(r)
<1>1. /\ a = [r EXCEPT !.state = "healthy", !.pending = None, !.late = FALSE,
                      !.prev = "idle", !.misses = 0]
      /\ r \in LaneRecords
  BY DEF Answered, Settled, Kept, LaneRecords
<1>0. 0 \in 0..Threshold
  BY ThresholdAssumption
<1> HIDE DEF a
<1>2. a \in LaneRecords
  BY <1>0, <1>1 DEF LaneRecords, States
<1>3. a.state = "healthy" /\ a.pending = None /\ a.late = FALSE /\ a.misses = 0
  BY <1>1 DEF LaneRecords
<1>4. Kept(a)
  BY <1>2, <1>3 DEF Kept, Earned, Bound, Settles
<1> QED
  BY <1>4 DEF a

LEMMA DownedIsKept ==
    ASSUME NEW r, Kept(r), r.sock # None
    PROVE  Kept(Settled(r, "unresponsive"))
  BY DEF Settled, Kept, LaneRecords, States, Earned, Bound, Settles

LEMMA MissedIsKept ==
    ASSUME NEW r, Kept(r), r.pending # None
    PROVE  Kept(Missed(r))
<1> DEFINE m == Missed(r)
           n == r.misses + 1
           state == IF r.prev = "unresponsive" THEN "unresponsive"
                    ELSE IF n >= Threshold THEN "ack_silent" ELSE "suspect"
           count == IF n > Threshold THEN Threshold ELSE n
<1>1. /\ m = [r EXCEPT !.state = state, !.pending = None, !.late = FALSE,
                      !.prev = "idle", !.misses = count]
      /\ r \in LaneRecords
  BY DEF Missed, Settled, Kept, LaneRecords
<1>2. /\ state \in {"unresponsive", "ack_silent", "suspect"}
      /\ count \in 0..Threshold
      /\ state = "suspect" => count \in 1..(Threshold - 1)
      /\ state = "ack_silent" => count = Threshold
  BY <1>1, ThresholdAssumption DEF LaneRecords
<1>3. r.sock # None
  BY DEF Kept, Bound
<1> HIDE DEF m, n, state, count
<1>4. m \in LaneRecords
  BY <1>1, <1>2 DEF LaneRecords, States
<1>5. /\ m.state = state /\ m.pending = None /\ m.late = FALSE /\ m.misses = count
      /\ m.sock = r.sock
  BY <1>1 DEF LaneRecords
<1>6. Kept(m)
  BY <1>2, <1>3, <1>4, <1>5 DEF Kept, Earned, Bound, Settles
<1> QED
  BY <1>6 DEF m

LEMMA MissedIsOver ==
    ASSUME NEW r \in LaneRecords
    PROVE  Missed(r).pending = None
  BY DEF Missed, Settled, LaneRecords

LEMMA MissedSticks ==
    ASSUME NEW r \in LaneRecords, r.pending # None
    PROVE  /\ Missed(r).sock = r.sock
           /\ (Settles(Missed(r)) = "unresponsive") = (Settles(r) = "unresponsive")
  BY DEF Missed, Settled, Settles, LaneRecords

LEMMA CancelledIsKept ==
    ASSUME NEW r, Kept(r), r.pending # None
    PROVE  Kept(Settled(r, r.prev))
  BY DEF Settled, Kept, LaneRecords, States, Earned, Bound, Settles

LEMMA LateIsKept ==
    ASSUME NEW r, Kept(r), r.pending # None
    PROVE  Kept([r EXCEPT !.late = TRUE])
  BY DEF Kept, LaneRecords, States, Earned, Bound, Settles

LEMMA BegunIsKept ==
    ASSUME NEW r, Kept(r), r.pending = None, r.sock # None, NEW p \in Probes
    PROVE  Kept(Begun(r, p))
  BY NoneAssumption DEF Begun, Kept, LaneRecords, States, Earned, Bound, Settles

LEMMA FreshIs ==
    ASSUME NEW s
    PROVE  /\ Fresh(s).sock = s /\ Fresh(s).state = "idle"
           /\ Fresh(s).pending = None /\ Settles(Fresh(s)) = "idle"
  BY DEF Fresh, Settles

-----------------------------------------------------------------------------
(* What a step does to the lanes                                           *)

\* The reasons for which a pending probe counts as missed.
Excused(l) ==
    \/ lane[l].late
    \/ fut[lane[l].pending] \in {"silent", "broken"}
    \/ \E h \in Loops : at[h] = "begun" /\ token[h] = lane[l].pending

IsFresh(l) ==
    \E s \in Sockets \cup {None} :
       lane'[l] = Fresh(s) /\ (s = None \/ s # lane[l].sock)
IsDowned(l) ==
    /\ lane'[l] = Settled(lane[l], "unresponsive") /\ lane[l].sock # None
    /\ l \in AuxLanes \/ lane[l].sock \notin alive
IsMissed(l) == lane'[l] = Missed(lane[l]) /\ lane[l].pending # None /\ Excused(l)
IsCancelled(l) ==
    /\ lane'[l] = Settled(lane[l], lane[l].prev) /\ lane[l].pending # None
    /\ Excused(l)
IsLate(l) == lane'[l] = [lane[l] EXCEPT !.late = TRUE] /\ lane[l].pending # None
IsBegun(l) ==
    /\ lane[l].pending = None /\ lane[l].sock # None
    /\ \E p \in Probes : /\ lane'[l] = Begun(lane[l], p)
                         /\ \A h \in Loops : \A e \in found[h] : e[3] # p

Change(l) ==
    \/ lane'[l] = lane[l]
    \/ IsFresh(l)
    \/ lane'[l] = Answered(lane[l])
    \/ IsDowned(l)
    \/ IsMissed(l)
    \/ IsCancelled(l)
    \/ IsLate(l)
    \/ IsBegun(l)

Changes ==
    /\ lane' = [l \in Lanes |-> lane'[l]]
    /\ \A l \in Lanes : Change(l)

LEMMA Unchanged ==
    ASSUME lane \in [Lanes -> LaneRecords], lane' = lane
    PROVE  Changes
  BY DEF Changes, Change

LEMMA ObservedChanges ==
    ASSUME lane \in [Lanes -> LaneRecords], NEW x, NEW s, lane' = Observed(x, s)
    PROVE  Changes
  BY DEF Changes, Change, Observed, Answered

LEMMA DownedChanges ==
    ASSUME lane \in [Lanes -> LaneRecords], NEW x, NEW s, lane' = Downed(x, s),
           x \in AuxLanes \/ s \notin alive
    PROVE  Changes
  BY DEF Changes, Change, Downed, IsCurrent, IsDowned

LEMMA FailProbeChanges ==
    ASSUME lane \in [Lanes -> LaneRecords], NEW x, NEW s, NEW p \in Probes,
           lane' = FailProbe(x, s, p),
           lane[x].pending = p => Excused(x)
    PROVE  Changes
  BY NoneAssumption DEF Changes, Change, FailProbe, Matches, IsMissed

LEMMA CancelChanges ==
    ASSUME lane \in [Lanes -> LaneRecords], NEW x, NEW s, NEW p \in Probes,
           lane' = CancelProbe(x, s, p),
           lane[x].pending = p => Excused(x)
    PROVE  Changes
  BY NoneAssumption DEF Changes, Change, CancelProbe, Matches, IsCancelled

Facts ==
    /\ TypeOK /\ LanesAreBound /\ AtWork /\ FuturesAreAbout
    /\ ExpiredAreLate /\ FailuresAreReal

LEMMA StepChanges ==
    ASSUME Facts, [Next]_vars
    PROVE  Changes
<1> USE DEF Facts
<1>0. lane \in [Lanes -> LaneRecords]
  BY DEF TypeOK
<1>1. CASE UNCHANGED lane
  BY <1>0, <1>1, Unchanged
<1>2. ASSUME NEW l \in Lanes, Late(l)
      PROVE  Changes
  BY <1>0, <1>2 DEF Late, Changes, Change, IsLate
<1>3. ASSUME NEW s \in Sockets, Hear(s)
      PROVE  Changes
  BY <1>0, <1>3, ObservedChanges DEF Hear
<1>4. ASSUME NEW p \in Probes, Consume(p)
      PROVE  Changes
  BY <1>0, <1>4, ObservedChanges, Unchanged DEF Consume
<1>5. ASSUME NEW p \in Probes, FinishFuture(p)
      PROVE  Changes
  <2>1. lane' = FailProbe(about[p][1], about[p][2], p) /\ fut[p] \in {"silent", "broken"}
    BY <1>5 DEF FinishFuture
  <2> QED
    BY <1>0, <2>1, FailProbeChanges DEF Excused
<1>6. ASSUME NEW p \in Probes, FinishDown(p)
      PROVE  Changes
  <2>1. lane' = Downed(about[p][1], about[p][2]) /\ about[p][2] \notin alive
    BY <1>6 DEF FinishDown, FailuresAreReal
  <2> QED
    BY <1>0, <2>1, DownedChanges
<1>7. ASSUME NEW h \in Loops, Expire(h)
      PROVE  Changes
  <2>1. CASE \E e \in found[h] : lane' = FailProbe(e[1], e[2], e[3])
    <3>1. PICK e \in found[h] : lane' = FailProbe(e[1], e[2], e[3])
      BY <2>1
    <3>2. e[3] \in Probes
      BY DEF TypeOK
    <3>3. lane[e[1]].pending = e[3] => Excused(e[1])
      BY DEF ExpiredAreLate, Excused
    <3> QED
      BY <1>0, <3>1, <3>2, <3>3, FailProbeChanges
  <2> QED
    BY <1>1, <1>7, <2>1 DEF Expire
<1>8. ASSUME NEW h \in Loops, Bind(h)
      PROVE  Changes
  <2>1. hand[h][1] \in Lanes /\ hand[h][2] \in Sockets
    BY <1>8 DEF Bind, AtWork
  <2> QED
    BY <1>0, <1>8, <2>1 DEF Bind, Binds, Changes, Change, IsFresh
<1>9. ASSUME NEW h \in Loops, KeepFailed(h)
      PROVE  Changes
  <2>1. hand[h][1] \in AuxLanes \/ hand[h][2] \notin alive
    BY <1>9 DEF KeepFailed, FailuresAreReal
  <2>2. \E s : lane' = Downed(hand[h][1], s) /\ (hand[h][1] \in AuxLanes \/ s \notin alive)
    BY <1>9, <2>1 DEF KeepFailed
  <2> QED
    BY <1>0, <2>2, DownedChanges
<1>10. ASSUME NEW h \in Loops, Begin(h)
       PROVE  Changes
  <2>1. CASE UNCHANGED lane
    BY <1>0, <2>1, Unchanged
  <2>2. CASE IsCurrent(Lane(h), Sock(h)) /\ lane[Lane(h)].pending = None
    <3> DEFINE p == CHOOSE n \in Probes : Unspent(n)
    <3>1. p \in Probes /\ Unspent(p) /\ Begins(hand[h][1], p)
      BY <1>10, <2>2 DEF Begin
    <3>2. \A g \in Loops : \A e \in found[g] : e[3] # p
      BY <3>1 DEF Unspent
    <3> HIDE DEF p
    <3> QED
      BY <1>0, <2>2, <3>1, <3>2 DEF Begins, IsCurrent, Changes, Change, IsBegun, Begun
  <2> QED
    BY <1>10, <2>1, <2>2 DEF Begin
<1>11. ASSUME NEW h \in Loops, ProbeSkipped(h)
       PROVE  Changes
  <2>1. token[h] \in Probes /\ lane' = CancelProbe(hand[h][1], hand[h][2], token[h])
    BY <1>11 DEF ProbeSkipped, AtWork
  <2>2. lane[hand[h][1]].pending = token[h] => Excused(hand[h][1])
    BY <1>11 DEF ProbeSkipped, Excused
  <2> QED
    BY <1>0, <2>1, <2>2, CancelChanges
<1>12. ASSUME NEW h \in Loops, ProbeFails(h)
       PROVE  Changes
  <2>1. token[h] \in Probes /\ lane' = FailProbe(hand[h][1], hand[h][2], token[h])
    BY <1>12 DEF ProbeFails, AtWork
  <2>2. lane[hand[h][1]].pending = token[h] => Excused(hand[h][1])
    BY <1>12 DEF ProbeFails, Excused
  <2> QED
    BY <1>0, <2>1, <2>2, FailProbeChanges
<1>13. ASSUME NEW h \in Loops, ProbeDowns(h)
       PROVE  Changes
  <2>1. lane' = Downed(hand[h][1], hand[h][2]) /\ hand[h][2] \notin alive
    BY <1>13 DEF ProbeDowns, FailuresAreReal
  <2> QED
    BY <1>0, <2>1, DownedChanges
<1>14. CASE Disconnect
  BY <1>14 DEF Disconnect, Changes, Change, IsFresh
<1>15. ASSUME NEW h \in Loops, Beat(h)
       PROVE  Changes
  <2>1. CASE Wake(h) \/ Look(h) \/ Keep(h) \/ ProbeSent(h) \/ Bury(h)
    BY <1>1, <2>1 DEF Wake, Look, Keep, ProbeSent, Bury
  <2> QED
    BY <1>7, <1>8, <1>9, <1>10, <1>11, <1>12, <1>13, <1>15, <2>1 DEF Beat
<1>16. CASE \/ UNCHANGED vars \/ Start
            \/ \E l \in Lanes : Connect(l)
            \/ \E s \in Sockets : Dies(s)
            \/ \E p \in Probes : FutureFails(p)
  BY <1>1, <1>16 DEF vars, Start, Connect, Dies, FutureFails
<1> QED
  BY <1>2, <1>3, <1>4, <1>5, <1>6, <1>14, <1>15, <1>16 DEF Next

LEMMA LanesKept ==
    ASSUME Facts, StateIsEarned, [Next]_vars
    PROVE  /\ lane' \in [Lanes -> LaneRecords]
           /\ StateIsEarned' /\ LanesAreBound'
<1>1. Changes
  BY StepChanges
<1>2. ASSUME NEW l \in Lanes
      PROVE  Kept(lane'[l])
  <2>1. Kept(lane[l]) /\ Change(l)
    BY <1>1 DEF Changes, Kept, Facts, TypeOK, StateIsEarned, LanesAreBound
  <2>2. CASE lane'[l] = lane[l]
    BY <2>1, <2>2
  <2>3. CASE IsFresh(l)
    BY <2>3, FreshIsKept DEF IsFresh
  <2>4. CASE lane'[l] = Answered(lane[l])
    BY <2>1, <2>4, AnsweredIsKept
  <2>5. CASE IsDowned(l)
    BY <2>1, <2>5, DownedIsKept DEF IsDowned
  <2>6. CASE IsMissed(l)
    BY <2>1, <2>6, MissedIsKept DEF IsMissed
  <2>7. CASE IsCancelled(l)
    BY <2>1, <2>7, CancelledIsKept DEF IsCancelled
  <2>8. CASE IsLate(l)
    BY <2>1, <2>8, LateIsKept DEF IsLate
  <2>9. CASE IsBegun(l)
    BY <2>1, <2>9, BegunIsKept DEF IsBegun
  <2> QED
    BY <2>1, <2>2, <2>3, <2>4, <2>5, <2>6, <2>7, <2>8, <2>9 DEF Change
<1>3. lane' \in [Lanes -> LaneRecords]
  BY <1>1, <1>2 DEF Changes, Kept
<1> QED
  BY <1>2, <1>3 DEF Kept, StateIsEarned, LanesAreBound

-----------------------------------------------------------------------------
(* Types and places                                                        *)

Inv == Facts /\ StateIsEarned

LEMMA InitHolds == Init => Inv /\ UnresponsiveIsDead
<1> SUFFICES ASSUME Init
             PROVE  Inv /\ UnresponsiveIsDead
  OBVIOUS
<1>1. \A l \in Lanes : Kept(lane[l]) /\ Settles(lane[l]) = "idle"
  BY FreshIsKept DEF Init, Fresh, Settles
<1>2. lane \in [Lanes -> LaneRecords]
  BY <1>1 DEF Init, Kept
<1>3. TypeOK
  BY <1>2 DEF Init, TypeOK, FutureStates, Places
<1>4. StateIsEarned /\ LanesAreBound /\ UnresponsiveIsDead
  BY <1>1 DEF Kept, StateIsEarned, LanesAreBound, UnresponsiveIsDead
<1>5. AtWork /\ FuturesAreAbout /\ ExpiredAreLate /\ FailuresAreReal
  BY DEF Init, AtWork, FuturesAreAbout, ExpiredAreLate, FailuresAreReal
<1> QED
  BY <1>3, <1>4, <1>5 DEF Inv, Facts

\* The types but for the lanes', and what the places say.
Frame == TypeOK' /\ AtWork' /\ FuturesAreAbout'

LEMMA BeatFrames ==
    ASSUME Facts, lane' \in [Lanes -> LaneRecords], NEW h \in Loops, Beat(h)
    PROVE  Frame
<1> USE DEF Facts, Frame
<1>1. CASE Wake(h)
  <2>1. found' \in [Loops -> SUBSET (Lanes \X Sockets \X Probes)]
    <3>1. \A l \in Overdue : <<l, lane[l].sock, lane[l].pending>> \in Lanes \X Sockets \X Probes
      BY DEF Overdue, TypeOK, LanesAreBound, Bound, LaneRecords
    <3>2. {<<l, lane[l].sock, lane[l].pending>> : l \in Overdue} \subseteq Lanes \X Sockets \X Probes
      BY <3>1
    <3> QED
      BY <1>1, <3>2 DEF Wake, TypeOK
  <2>2. TypeOK'
    BY <1>1, <2>1 DEF Wake, TypeOK, Places
  <2> QED
    BY <1>1, <2>2 DEF Wake, AtWork, FuturesAreAbout, TypeOK
<1>2. CASE Expire(h)
  <2>1. found' \in [Loops -> SUBSET (Lanes \X Sockets \X Probes)]
    BY <1>2 DEF Expire, TypeOK
  <2>2. TypeOK'
    BY <1>2, <2>1 DEF Expire, TypeOK, Places
  <2> QED
    BY <1>2, <2>2 DEF Expire, AtWork, FuturesAreAbout, TypeOK
<1>3. CASE Look(h)
  <2> DEFINE l == CHOOSE k \in todo[h] : TRUE
  <2>1. todo[h] # {} => l \in Lanes
    BY DEF TypeOK
  <2>2. todo[h] # {} /\ current[l] # None => <<l, current[l]>> \in Lanes \X Sockets
    BY <2>1 DEF TypeOK
  <2> HIDE DEF l
  <2>3. \/ todo[h] = {} /\ at' = [at EXCEPT ![h] = "bury"] /\ UNCHANGED <<todo, hand>>
        \/ /\ todo[h] # {} /\ todo' = [todo EXCEPT ![h] = @ \ {l}]
           /\ \/ UNCHANGED <<at, hand>>
              \/ /\ current[l] # None /\ at' = [at EXCEPT ![h] = "bind"]
                 /\ hand' = [hand EXCEPT ![h] = <<l, current[l]>>]
    BY <1>3 DEF Look, l
  <2>4. at[h] = "look" /\ UNCHANGED <<laneVars, wireVars, probeVars, token, found, dead, lifeVars>>
    BY <1>3 DEF Look
  <2>5. todo' \in [Loops -> SUBSET Lanes]
    BY <2>3 DEF TypeOK
  <2>6. hand' \in [Loops -> (Lanes \X Sockets) \cup {Nothing}]
    BY <2>2, <2>3 DEF TypeOK
  <2>7. at' \in [Loops -> Places]
    BY <2>3 DEF TypeOK, Places
  <2>8. TypeOK'
    BY <2>4, <2>5, <2>6, <2>7 DEF TypeOK
  <2>9. AtWork'
    BY <2>2, <2>3, <2>4 DEF AtWork, TypeOK
  <2> QED
    BY <2>4, <2>8, <2>9 DEF FuturesAreAbout
<1>4. CASE Bind(h)
  <2>1. hand[h][1] \in Lanes /\ hand[h][2] \in Sockets
    BY <1>4 DEF Bind, AtWork
  <2> QED
    BY <1>4, <2>1 DEF Bind, TypeOK, Places, AtWork, FuturesAreAbout
<1>5. CASE Keep(h)
  <2>1. TypeOK'
    BY <1>5 DEF Keep, TypeOK, Places
  <2> QED
    BY <1>5, <2>1 DEF Keep, TypeOK, AtWork, FuturesAreAbout
<1>6. CASE KeepFailed(h)
  <2>1. hand[h] \in Lanes \X Sockets
    BY <1>6 DEF KeepFailed, AtWork
  <2>2. TypeOK'
    BY <1>6, <2>1 DEF KeepFailed, TypeOK, Places
  <2> QED
    BY <1>6, <2>2 DEF KeepFailed, TypeOK, AtWork, FuturesAreAbout
<1>7. CASE Begin(h)
  <2> DEFINE p == CHOOSE n \in Probes : Unspent(n)
  <2>1. \/ /\ p \in Probes /\ token' = [token EXCEPT ![h] = p]
           /\ at' = [at EXCEPT ![h] = "begun"] /\ UNCHANGED hand
        \/ /\ at' = [at EXCEPT ![h] = "look"] /\ hand' = [hand EXCEPT ![h] = Nothing]
           /\ UNCHANGED token
    BY <1>7 DEF Begin
  <2>2. at[h] = "begin" /\ UNCHANGED <<observer, wireVars, probeVars, todo, found, dead, lifeVars>>
    BY <1>7 DEF Begin
  <2> HIDE DEF p
  <2>3. TypeOK'
    BY <2>1, <2>2 DEF TypeOK, Places
  <2> QED
    BY <2>1, <2>2, <2>3 DEF TypeOK, AtWork, FuturesAreAbout
<1>8. CASE ProbeSent(h)
  <2>1. hand[h] \in Lanes \X Sockets /\ token[h] \in Probes
    BY <1>8 DEF ProbeSent, AtWork
  <2>2. TypeOK'
    BY <1>8, <2>1 DEF ProbeSent, TypeOK, Places, FutureStates
  <2> QED
    BY <1>8, <2>1, <2>2 DEF ProbeSent, TypeOK, AtWork, FuturesAreAbout
<1>9. CASE ProbeSkipped(h)
  <2>1. TypeOK'
    BY <1>9 DEF ProbeSkipped, TypeOK, Places
  <2> QED
    BY <1>9, <2>1 DEF ProbeSkipped, TypeOK, AtWork, FuturesAreAbout
<1>10. CASE ProbeFails(h)
  <2>1. TypeOK'
    BY <1>10 DEF ProbeFails, TypeOK, Places
  <2> QED
    BY <1>10, <2>1 DEF ProbeFails, TypeOK, AtWork, FuturesAreAbout
<1>11. CASE ProbeDowns(h)
  <2>1. hand[h] \in Lanes \X Sockets
    BY <1>11 DEF ProbeDowns, AtWork
  <2>2. TypeOK'
    BY <1>11, <2>1 DEF ProbeDowns, TypeOK, Places
  <2> QED
    BY <1>11, <2>2 DEF ProbeDowns, TypeOK, AtWork, FuturesAreAbout
<1>12. CASE Bury(h)
  <2>1. TypeOK'
    BY <1>12 DEF Bury, TypeOK, Places
  <2> QED
    BY <1>12, <2>1 DEF Bury, TypeOK, AtWork, FuturesAreAbout
<1> QED
  BY <1>1, <1>2, <1>3, <1>4, <1>5, <1>6, <1>7, <1>8, <1>9, <1>10, <1>11, <1>12, Beat(h) DEF Beat

LEMMA StepFrames ==
    ASSUME Facts, lane' \in [Lanes -> LaneRecords], [Next]_vars
    PROVE  Frame
<1> USE DEF Facts, Frame
<1>1. ASSUME NEW l \in Lanes, Connect(l)
      PROVE  Frame
  <2> DEFINE s == CHOOSE n \in Sockets : ~InUse(n)
  <2>1. /\ s \in Sockets
        /\ current' = [current EXCEPT ![l] = s]
        /\ alive' = (alive \ {current[l]}) \cup {s}
        /\ observer' = [observer EXCEPT ![s] = None]
        /\ UNCHANGED <<kind, lane, probeVars, loopVars, lifeVars>>
    BY <1>1 DEF Connect
  <2> HIDE DEF s
  <2> QED
    BY <2>1 DEF TypeOK, AtWork, FuturesAreAbout
<1>2. ASSUME NEW p \in Probes, Consume(p) \/ FutureFails(p) \/ FinishFuture(p) \/ FinishDown(p)
      PROVE  Frame
  <2>1. CASE Consume(p)
    BY <2>1 DEF Consume, TypeOK, FutureStates, AtWork, FuturesAreAbout
  <2>2. CASE FutureFails(p)
    BY <2>2 DEF FutureFails, TypeOK, FutureStates, AtWork, FuturesAreAbout
  <2>3. CASE FinishFuture(p)
    <3>1. TypeOK'
      BY <2>3 DEF FinishFuture, TypeOK, FutureStates
    <3> QED
      BY <2>3, <3>1 DEF FinishFuture, TypeOK, AtWork, FuturesAreAbout
  <2>4. CASE FinishDown(p)
    BY <2>4 DEF FinishDown, TypeOK, FutureStates, AtWork, FuturesAreAbout
  <2> QED
    BY <1>2, <2>1, <2>2, <2>3, <2>4
<1>3. ASSUME NEW s \in Sockets, Hear(s)
      PROVE  Frame
  <2>1. \/ UNCHANGED fut
        \/ \E p \in Probes : fut[p] = "open" /\ fut' = [fut EXCEPT ![p] = "consuming"]
    BY <1>3 DEF Hear
  <2>2. UNCHANGED <<observer, wireVars, about, loopVars, lifeVars>>
    BY <1>3 DEF Hear
  <2> QED
    BY <2>1, <2>2 DEF TypeOK, FutureStates, AtWork, FuturesAreAbout
<1>4. CASE \/ UNCHANGED vars
           \/ \E l \in Lanes : Late(l)
           \/ \E s \in Sockets : Dies(s)
  BY <1>4 DEF vars, Late, Dies, TypeOK, AtWork, FuturesAreAbout
<1>5. CASE Start
  BY <1>5 DEF Start, TypeOK, Places, AtWork, FuturesAreAbout
<1>6. CASE Disconnect
  BY <1>6 DEF Disconnect, TypeOK, AtWork, FuturesAreAbout
<1> QED
  BY <1>1, <1>2, <1>3, <1>4, <1>5, <1>6, BeatFrames DEF Next

-----------------------------------------------------------------------------
(* Late probes and dead sockets                                            *)

\* What expire() may have collected after a step.
LEMMA Collected ==
    ASSUME Facts, [Next]_vars, NEW h \in Loops, NEW e \in found'[h]
    PROVE  \/ e \in found[h]
           \/ /\ UNCHANGED lane
              /\ \E l \in Lanes : lane[l].late /\ e = <<l, lane[l].sock, lane[l].pending>>
<1>1. CASE UNCHANGED found
  BY <1>1
<1>2. ASSUME NEW g \in Loops, Wake(g)
      PROVE  \/ found'[h] = found[h]
             \/ /\ UNCHANGED lane
                /\ found'[h] = {<<l, lane[l].sock, lane[l].pending>> : l \in Overdue}
  BY <1>2 DEF Wake, Facts, TypeOK
<1>3. ASSUME NEW g \in Loops, Wake(g)
      PROVE  \/ e \in found[h]
             \/ /\ UNCHANGED lane
                /\ \E l \in Lanes : lane[l].late /\ e = <<l, lane[l].sock, lane[l].pending>>
  BY <1>2, <1>3 DEF Overdue
<1>4. ASSUME NEW g \in Loops, Expire(g)
      PROVE  found'[h] \subseteq found[h]
  BY <1>4 DEF Expire, Facts, TypeOK
<1>5. ASSUME NEW g \in Loops, Beat(g), ~Wake(g), ~Expire(g)
      PROVE  UNCHANGED found
  BY <1>5 DEF Beat, Look, Bind, Keep, KeepFailed, Begin, ProbeSent, ProbeSkipped,
              ProbeFails, ProbeDowns, Bury
<1>6. ASSUME ~(\E g \in Loops : Beat(g))
      PROVE  UNCHANGED found
  BY <1>6 DEF Next, vars, Connect, Late, Dies, Hear, Consume, FutureFails, FinishFuture,
              FinishDown, Start, Disconnect
<1> QED
  BY <1>1, <1>3, <1>4, <1>5, <1>6

LEMMA LateStays ==
    ASSUME Facts, [Next]_vars
    PROVE  ExpiredAreLate'
<1>1. Changes
  BY StepChanges
<1> SUFFICES ASSUME NEW h \in Loops, NEW e \in found'[h], lane'[e[1]].pending = e[3]
             PROVE  lane'[e[1]].late
  BY DEF ExpiredAreLate
<1>2. CASE e \in found[h]
  <2>1. e[1] \in Lanes /\ e[3] \in Probes /\ e[3] # None
    BY <1>2, NoneAssumption DEF Facts, TypeOK
  <2> DEFINE l == e[1]
  <2>2. lane[l].pending = e[3] => lane[l].late
    BY <1>2 DEF Facts, ExpiredAreLate
  <2>3. lane[l] \in LaneRecords /\ Change(l)
    BY <1>1, <2>1 DEF Changes, Facts, TypeOK
  <2>4. ~IsBegun(l)
    BY <1>2, <2>3 DEF IsBegun, Begun, LaneRecords
  <2> HIDE DEF l
  <2>5. lane'[l].pending = e[3]
    BY DEF l
  <2>6. lane'[l] = lane[l] \/ IsLate(l)
    <3>1. ~IsFresh(l)
      BY <2>1, <2>5, FreshIs DEF IsFresh
    <3>2. lane'[l] # Answered(lane[l])
      BY <2>1, <2>3, <2>5 DEF Answered, Settled, LaneRecords
    <3>3. ~IsDowned(l) /\ ~IsCancelled(l)
      BY <2>1, <2>3, <2>5 DEF IsDowned, IsCancelled, Settled, LaneRecords
    <3>4. ~IsMissed(l)
      BY <2>1, <2>3, <2>5, MissedIsOver DEF IsMissed
    <3> QED
      BY <2>3, <2>4, <3>1, <3>2, <3>3, <3>4 DEF Change
  <2>7. lane'[l].late
    BY <2>2, <2>3, <2>5, <2>6 DEF IsLate, LaneRecords
  <2> QED
    BY <2>7 DEF l
<1>3. CASE e \notin found[h]
  BY <1>3, Collected
<1> QED
  BY <1>2, <1>3

\* A socket that comes alive is one that nothing refers to.
LEMMA NewSockets ==
    ASSUME [Next]_vars, NEW s \in alive' \ alive
    PROVE  ~InUse(s) /\ UNCHANGED <<lane, kind, fut, about, at, hand>>
<1>1. ASSUME NEW l \in Lanes, Connect(l)
      PROVE  ~InUse(s) /\ UNCHANGED <<lane, kind, fut, about, at, hand>>
  BY <1>1 DEF Connect
<1>2. ASSUME NEW g \in Loops, Beat(g)
      PROVE  FALSE
  BY <1>2 DEF Beat, Wake, Expire, Look, Bind, Keep, KeepFailed, Begin, ProbeSent, ProbeSkipped,
              ProbeFails, ProbeDowns, Bury
<1>3. CASE ~(\E g \in Loops : Beat(g)) /\ ~(\E l \in Lanes : Connect(l))
  BY <1>3 DEF Next, vars, Late, Dies, Hear, Consume, FutureFails, FinishFuture,
              FinishDown, Start, Disconnect
<1> QED
  BY <1>1, <1>2, <1>3

LEMMA FutureStep ==
    ASSUME Facts, [Next]_vars, NEW p \in Probes, fut'[p] \in {"broken", "down"}
    PROVE  /\ about'[p] = about[p]
           /\ fut[p] \in {"broken", "down"} \/ about[p][2] \notin alive
<1>1. CASE UNCHANGED <<fut, about>>
  BY <1>1
<1>2. ASSUME NEW q \in Probes, FutureFails(q)
      PROVE  /\ about'[p] = about[p]
             /\ fut[p] \in {"broken", "down"} \/ about[p][2] \notin alive
  BY <1>2 DEF FutureFails, Facts, TypeOK
<1>3. ASSUME NEW q \in Probes, FinishFuture(q)
      PROVE  /\ about'[p] = about[p]
             /\ fut[p] \in {"broken", "down"} \/ about[p][2] \notin alive
  <2>1. CASE p = q
    BY <1>3, <2>1 DEF FinishFuture, Facts, TypeOK
  <2>2. CASE p # q
    BY <1>3, <2>2 DEF FinishFuture, Facts, TypeOK
  <2> QED
    BY <2>1, <2>2
<1>4. ASSUME NEW q \in Probes, Consume(q) \/ FinishDown(q)
      PROVE  about'[p] = about[p] /\ fut[p] \in {"broken", "down"}
  BY <1>4 DEF Consume, FinishDown, Facts, TypeOK
<1>5. ASSUME NEW s \in Sockets, Hear(s)
      PROVE  about'[p] = about[p] /\ fut[p] \in {"broken", "down"}
  <2>1. \/ UNCHANGED fut
        \/ \E q \in Probes : fut[q] = "open" /\ fut' = [fut EXCEPT ![q] = "consuming"]
    BY <1>5 DEF Hear
  <2> QED
    BY <1>5, <2>1 DEF Hear, Facts, TypeOK
<1>6. ASSUME NEW h \in Loops, ProbeSent(h)
      PROVE  about'[p] = about[p] /\ fut[p] \in {"broken", "down"}
  BY <1>6 DEF ProbeSent, Facts, TypeOK
<1>7. ASSUME NEW h \in Loops, Beat(h), ~ProbeSent(h)
      PROVE  UNCHANGED <<fut, about>>
  BY <1>7 DEF Beat, Wake, Expire, Look, Bind, Keep, KeepFailed, Begin, ProbeSkipped,
              ProbeFails, ProbeDowns, Bury
<1>8. CASE \/ UNCHANGED vars \/ Start \/ Disconnect
           \/ \E l \in Lanes : Connect(l) \/ Late(l)
           \/ \E s \in Sockets : Dies(s)
  BY <1>1, <1>8 DEF vars, Start, Disconnect, Connect, Late, Dies
<1> QED
  BY <1>1, <1>2, <1>3, <1>4, <1>5, <1>6, <1>7, <1>8 DEF Next

LEMMA PlaceStep ==
    ASSUME Facts, [Next]_vars, NEW h \in Loops, at'[h] \in {"keepFailed", "downed"}
    PROVE  /\ hand'[h] = hand[h]
           /\ at[h] \in {"keepFailed", "downed"} \/ hand[h][2] \notin alive
<1> DEFINE Goal == /\ hand'[h] = hand[h]
                   /\ at[h] \in {"keepFailed", "downed"} \/ hand[h][2] \notin alive
<1>1. CASE UNCHANGED <<at, hand>>
  BY <1>1
<1>2. ASSUME NEW g \in Loops, Keep(g) \/ ProbeFails(g)
      PROVE  Goal
  <2>1. CASE g = h
    BY <1>2, <2>1 DEF Keep, ProbeFails, Facts, TypeOK
  <2>2. CASE g # h
    BY <1>2, <2>2 DEF Keep, ProbeFails, Facts, TypeOK
  <2> QED
    BY <2>1, <2>2
<1>3. ASSUME NEW g \in Loops, KeepFailed(g) \/ ProbeDowns(g) \/ ProbeSent(g) \/ ProbeSkipped(g)
      PROVE  Goal
  BY <1>3 DEF KeepFailed, ProbeDowns, ProbeSent, ProbeSkipped, Facts, TypeOK
<1>4. ASSUME NEW g \in Loops, Wake(g) \/ Expire(g) \/ Bind(g) \/ Bury(g)
      PROVE  Goal
  BY <1>4 DEF Wake, Expire, Bind, Bury, Facts, TypeOK
<1>5. ASSUME NEW g \in Loops, Look(g) \/ Begin(g)
      PROVE  Goal
  <2>1. \/ UNCHANGED <<at, hand>>
        \/ \E place \in {"bury", "bind", "begun", "look"} : at' = [at EXCEPT ![g] = place]
    BY <1>5 DEF Look, Begin
  <2>2. \A f \in Loops \ {g} : hand'[f] = hand[f]
    BY <1>5 DEF Look, Begin, Facts, TypeOK
  <2> QED
    BY <2>1, <2>2 DEF Facts, TypeOK
<1>6. CASE \E g \in Loops : Beat(g)
  BY <1>2, <1>3, <1>4, <1>5, <1>6 DEF Beat
<1>7. CASE Start
  BY <1>7 DEF Start, Facts, TypeOK
<1>8. CASE ~(\E g \in Loops : Beat(g)) /\ ~Start
  BY <1>1, <1>8 DEF Next, vars, Disconnect, Connect, Late, Dies, Hear, Consume, FutureFails,
                    FinishFuture, FinishDown
<1> QED
  BY <1>6, <1>7, <1>8

LEMMA FailuresStep ==
    ASSUME Facts, [Next]_vars, FuturesAreAbout'
    PROVE  FailuresAreReal'
<1>1. CASE alive' \subseteq alive
  <2>1. ASSUME NEW p \in Probes, fut'[p] \in {"broken", "down"}
        PROVE  about'[p][2] \notin alive
    <3>1. \/ fut[p] \in {"broken", "down"} /\ about'[p] = about[p]
          \/ about'[p] = about[p] /\ about[p][2] \notin alive
      BY <2>1, FutureStep
    <3> QED
      BY <3>1 DEF Facts, FailuresAreReal
  <2>2. ASSUME NEW h \in Loops, at'[h] \in {"keepFailed", "downed"}
        PROVE  hand'[h][2] \notin alive
    <3>1. \/ at[h] \in {"keepFailed", "downed"} /\ hand'[h] = hand[h]
          \/ hand'[h] = hand[h] /\ hand[h][2] \notin alive
      BY <2>2, PlaceStep
    <3> QED
      BY <3>1 DEF Facts, FailuresAreReal
  <2> QED
    BY <1>1, <2>1, <2>2 DEF FailuresAreReal
<1>2. CASE ~(alive' \subseteq alive)
  <2>1. UNCHANGED <<fut, about, at, hand>>
    BY <1>2, NewSockets
  <2>2. ASSUME NEW p \in Probes, fut[p] \in {"broken", "down"}
        PROVE  about[p][2] \notin alive'
    BY <2>2, NewSockets DEF Facts, FailuresAreReal, InUse
  <2>3. ASSUME NEW h \in Loops, at[h] \in {"keepFailed", "downed"}
        PROVE  hand[h][2] \notin alive'
    BY <2>3, NewSockets DEF Facts, FailuresAreReal, InUse
  <2> QED
    BY <2>1, <2>2, <2>3 DEF FailuresAreReal
<1> QED
  BY <1>1, <1>2

LEMMA InvNext == Inv /\ [Next]_vars => Inv'
<1> SUFFICES ASSUME Inv, [Next]_vars
             PROVE  Inv'
  OBVIOUS
<1>1. lane' \in [Lanes -> LaneRecords] /\ StateIsEarned' /\ LanesAreBound'
  BY LanesKept DEF Inv
<1>2. TypeOK' /\ AtWork' /\ FuturesAreAbout'
  BY <1>1, StepFrames DEF Inv, Frame
<1>3. ExpiredAreLate' /\ FailuresAreReal'
  BY <1>2, LateStays, FailuresStep DEF Inv
<1> QED
  BY <1>1, <1>2, <1>3 DEF Inv, Facts

LEMMA Invariant == Spec => []Inv
  BY InitHolds, InvNext, PTL DEF Spec

-----------------------------------------------------------------------------
(* The theorems                                                            *)

\* Every variable of the monitor and of those who feed it keeps its type.
THEOREM TypeCorrect == Spec => []TypeOK
<1>1. Inv => TypeOK
  BY DEF Inv, Facts
<1> QED
  BY <1>1, Invariant, PTL

\* The state that is reported of a lane is the one its misses explain, for any
\* lanes, sockets, probes, heartbeat threads and threshold.
THEOREM StateIsEarnedHolds == Spec => []StateIsEarned
<1>1. Inv => StateIsEarned
  BY DEF Inv
<1> QED
  BY <1>1, Invariant, PTL

LEMMA DeadStep ==
    ASSUME Inv, UnresponsiveIsDead, [Next]_vars
    PROVE  UnresponsiveIsDead'
<1>1. Changes
  BY StepChanges DEF Inv
<1>2. AuxLanes' = AuxLanes
  <2>1. UNCHANGED kind
    BY DEF Next, vars, Connect, Late, Dies, Hear, Consume, FutureFails, FinishFuture,
           FinishDown, Start, Disconnect, Beat, Wake, Expire, Look, Bind, Keep, KeepFailed,
           Begin, ProbeSent, ProbeSkipped, ProbeFails, ProbeDowns, Bury
  <2> QED
    BY <2>1 DEF AuxLanes
<1> SUFFICES ASSUME NEW l \in Lanes \ AuxLanes, Settles(lane'[l]) = "unresponsive"
             PROVE  lane'[l].sock \notin alive'
  BY <1>2 DEF UnresponsiveIsDead
<1>3. lane[l] \in LaneRecords /\ Change(l) /\ Earned(lane[l])
  BY <1>1 DEF Changes, Inv, Facts, TypeOK, StateIsEarned
<1>4. lane'[l].sock = lane[l].sock /\ lane[l].sock \notin alive
  <2>1. CASE lane'[l] = lane[l]
    BY <2>1 DEF UnresponsiveIsDead
  <2>2. ~IsFresh(l)
    BY FreshIs DEF IsFresh
  <2>3. lane'[l] # Answered(lane[l])
    BY <1>3 DEF Answered, Settled, Settles, LaneRecords
  <2>4. CASE IsDowned(l)
    BY <1>3, <2>4 DEF IsDowned, Settled, LaneRecords
  <2>5. CASE IsMissed(l)
    <3>1. Settles(lane[l]) = "unresponsive" /\ lane'[l].sock = lane[l].sock
      BY <1>3, <2>5, MissedSticks DEF IsMissed
    <3> QED
      BY <3>1 DEF UnresponsiveIsDead
  <2>6. CASE IsCancelled(l)
    BY <1>3, <2>6 DEF IsCancelled, Settled, Settles, LaneRecords, UnresponsiveIsDead
  <2>7. CASE IsLate(l)
    BY <1>3, <2>7 DEF IsLate, Settles, LaneRecords, UnresponsiveIsDead
  <2>8. CASE IsBegun(l)
    BY <1>3, <2>8, NoneAssumption DEF IsBegun, Begun, Settles, LaneRecords, UnresponsiveIsDead
  <2> QED
    BY <1>3, <2>1, <2>2, <2>3, <2>4, <2>5, <2>6, <2>7, <2>8 DEF Change
<1>5. CASE lane[l].sock \in alive' \ alive
  BY <1>5, NewSockets DEF InUse
<1> QED
  BY <1>4, <1>5

\* A lane is called unresponsive only when the socket it is bound to has failed,
\* however late the failure of a socket it replaced is reported.
THEOREM UnresponsiveIsDeadHolds == Spec => []UnresponsiveIsDead
<1>1. Init => UnresponsiveIsDead
  BY InitHolds
<1>2. Inv /\ UnresponsiveIsDead /\ [Next]_vars => UnresponsiveIsDead'
  BY DeadStep
<1> QED
  BY <1>1, <1>2, Invariant, PTL DEF Spec

\* A probe counts as missed for its own sake, never for an older probe's.
THEOREM MissIsOwnHolds == Spec => MissIsOwn
<1>1. ASSUME Inv, [Next]_vars, NEW l \in Lanes,
             lane[l].pending # None, lane'[l].sock = lane[l].sock,
             lane'[l].state \in {"suspect", "ack_silent"}
      PROVE  Excused(l)
  <2>1. lane[l] \in LaneRecords /\ Change(l) /\ Earned(lane[l])
    BY <1>1, StepChanges DEF Changes, Inv, Facts, TypeOK, StateIsEarned
  <2>2. lane[l].state = "pending"
    BY <1>1, <2>1 DEF Earned
  <2>3. ~IsFresh(l) /\ lane'[l] # Answered(lane[l]) /\ ~IsDowned(l)
    <3>1. ~IsFresh(l)
      BY <1>1, FreshIs DEF IsFresh
    <3>2. lane'[l] # Answered(lane[l]) /\ ~IsDowned(l)
      BY <1>1, <2>1 DEF Answered, IsDowned, Settled, LaneRecords
    <3> QED
      BY <3>1, <3>2
  <2>4. lane'[l] # lane[l] /\ ~IsLate(l) /\ ~IsBegun(l)
    BY <1>1, <2>1, <2>2 DEF IsLate, IsBegun, LaneRecords
  <2> QED
    BY <2>1, <2>3, <2>4 DEF Change, IsMissed, IsCancelled
<1> DEFINE Miss ==
       \A l \in Lanes :
          LET p == lane[l].pending IN
          /\ p # None
          /\ lane'[l].sock = lane[l].sock
          /\ lane'[l].state \in {"suspect", "ack_silent"}
          => \/ lane[l].late
             \/ fut[p] \in {"silent", "broken"}
             \/ \E h \in Loops : at[h] = "begun" /\ token[h] = p
<1>2. Inv /\ [Next]_vars => Miss
  BY <1>1 DEF Excused
<1>3. Inv /\ [Next]_vars => [Miss]_vars
  BY <1>2
<1> QED
  BY <1>3, Invariant, PTL DEF Spec, MissIsOwn

\* A lane whose socket failed stays so, over probes begun, missed or cancelled,
\* until a frame is heard or another socket is bound.
THEOREM UnresponsiveSticksHolds == Spec => UnresponsiveSticks
<1>1. ASSUME Inv, [Next]_vars, NEW l \in Lanes,
             Settles(lane[l]) = "unresponsive", lane'[l].sock = lane[l].sock
      PROVE  Settles(lane'[l]) \in {"unresponsive", "healthy"}
  <2>1. lane[l] \in LaneRecords /\ Change(l) /\ Earned(lane[l]) /\ Bound(lane[l])
    BY <1>1, StepChanges DEF Changes, Inv, Facts, TypeOK, StateIsEarned, LanesAreBound
  <2>2. ~IsFresh(l)
    BY <1>1, <2>1, FreshIs DEF IsFresh, Bound
  <2>3. CASE lane'[l] = lane[l]
    BY <1>1, <2>3
  <2>4. CASE lane'[l] = Answered(lane[l]) \/ IsDowned(l)
    BY <2>1, <2>4 DEF Answered, IsDowned, Settled, Settles, LaneRecords
  <2>5. CASE IsMissed(l)
    BY <1>1, <2>1, <2>5, MissedSticks DEF IsMissed
  <2>6. CASE IsCancelled(l)
    BY <1>1, <2>1, <2>6 DEF IsCancelled, Settled, Settles, LaneRecords
  <2>7. CASE IsLate(l)
    BY <1>1, <2>1, <2>7 DEF IsLate, Settles, LaneRecords
  <2>8. CASE IsBegun(l)
    BY <1>1, <2>1, <2>8, NoneAssumption DEF IsBegun, Begun, Settles, LaneRecords
  <2> QED
    BY <2>1, <2>2, <2>3, <2>4, <2>5, <2>6, <2>7, <2>8 DEF Change
<1> DEFINE Sticks ==
       \A l \in Lanes :
          Settles(lane[l]) = "unresponsive" /\ lane'[l].sock = lane[l].sock
          => Settles(lane'[l]) \in {"unresponsive", "healthy"}
<1>2. Inv /\ [Next]_vars => [Sticks]_vars
  BY <1>1
<1> QED
  BY <1>2, Invariant, PTL DEF Spec, UnresponsiveSticks
=============================================================================
