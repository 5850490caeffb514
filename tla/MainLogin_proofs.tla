-------------------------- MODULE MainLogin_proofs --------------------------
(***************************************************************************)
(* Theorems about the ordinary login: whatever logins overlap, the MAIN     *)
(* socket ends initialised; of logins that do not, the client's heartbeat   *)
(* does not run beside a MAIN socket that is not, and the time is known.    *)
(***************************************************************************)
EXTENDS MainLogin, TLAPS

\* Types, and who refers to which socket.
Fits == TypeOK /\ UsesWhatItHas /\ RacersAreNew

LEMMA InitFits == Init => Fits
<1> SUFFICES ASSUME Init PROVE Fits
  OBVIOUS
<1>1. TypeOK
  <2>1. recent \in BOOLEAN /\ beating \in BOOLEAN /\ stray \in BOOLEAN /\ overlapped \in BOOLEAN
    BY Zenon DEF Init
  <2>2. /\ main \in Sockets \cup {None} /\ open \subseteq Sockets /\ ready \subseteq open
        /\ errors \in {"closed", "other"}
        /\ mine \in [Callers -> Sockets \cup {None}]
        /\ prior \in [Callers -> Sockets \cup {None}]
    BY DEF Init
  <2>3. /\ pc \in [Callers -> Places] /\ round \in [Callers -> 1..2]
        /\ left \in [Callers -> SUBSET Hosts] /\ minus \in [Callers -> 0..MinusLimit]
        /\ outcome \in [Callers -> Outcomes]
    BY RacingAssumption DEF Init, Places, Outcomes
  <2>4. /\ work \in [Callers -> [Hosts -> WorkPlaces]]
        /\ wsock \in [Callers -> [Hosts -> Sockets \cup {None}]]
    BY DEF Init, WorkPlaces
  <2> QED
    BY <2>1, <2>2, <2>3, <2>4 DEF TypeOK
<1>2. UsesWhatItHas
  BY DEF Init, UsesWhatItHas, Exchanging
<1>3. RacersAreNew
  BY DEF Init, RacersAreNew
<1> QED
  BY <1>1, <1>2, <1>3 DEF Fits

-----------------------------------------------------------------------------
(* The shared parts of the steps                                           *)

\* What it is to refer to a socket.
LEMMA ReferredIff ==
    ASSUME NEW s
    PROVE  s \in Referred <=>
             \/ s = main
             \/ \E c \in Callers : s = mine[c] \/ s = prior[c]
             \/ \E c \in Callers, h \in Hosts : s = wsock[c][h]
  BY DEF Referred

\* A new socket is in nobody's hands, not open and not ready.
LEMMA FreshIsNew ==
    ASSUME Fits, NEW s \in Sockets, Fresh(s)
    PROVE  /\ s # None /\ s # main /\ s \notin open /\ s \notin ready
           /\ \A c \in Callers : s # mine[c] /\ s # prior[c] /\ \A h \in Hosts : s # wsock[c][h]
<1>1. s \notin Referred /\ s \notin open
  BY DEF Fresh
<1>2. s \notin ready
  BY <1>1 DEF Fits, TypeOK
<1> QED
  BY <1>1, <1>2, ReferredIff, NoneAssumption

\* A call that returns keeps its threads' sockets and refers to no other.
LEMMA ReturnsEffect ==
    ASSUME Fits, NEW c \in Callers, NEW result \in Outcomes, Returns(c, result)
    PROVE  /\ pc' \in [Callers -> Places] /\ round' \in [Callers -> 1..2]
           /\ left' \in [Callers -> SUBSET Hosts] /\ minus' \in [Callers -> 0..MinusLimit]
           /\ mine' \in [Callers -> Sockets \cup {None}]
           /\ prior' \in [Callers -> Sockets \cup {None}]
           /\ outcome' \in [Callers -> Outcomes]
           /\ pc'[c] = "idle" /\ mine'[c] = None /\ prior'[c] = None
           /\ \A d \in Callers \ {c} :
                 pc'[d] = pc[d] /\ mine'[d] = mine[d] /\ prior'[d] = prior[d] /\ round'[d] = round[d]
           /\ work' = work /\ wsock' = wsock
  BY RacingAssumption DEF Fits, TypeOK, Returns, Goto, Places

\* A thread of a race changes its own place and socket.
LEMMA WorksEffect ==
    ASSUME Fits, NEW c \in Callers, NEW h \in Hosts, NEW place \in WorkPlaces,
           NEW s \in Sockets \cup {None}, Works(c, h, place, s)
    PROVE  /\ work' \in [Callers -> [Hosts -> WorkPlaces]]
           /\ wsock' \in [Callers -> [Hosts -> Sockets \cup {None}]]
           /\ work'[c][h] = place /\ wsock'[c][h] = s
           /\ \A d \in Callers, k \in Hosts :
                 d # c \/ k # h => work'[d][k] = work[d][k] /\ wsock'[d][k] = wsock[d][k]
           /\ UNCHANGED <<main, ready, recent, beating, stray, errors, pc, round, left, minus,
                          mine, prior, outcome>>
  BY DEF Fits, TypeOK, Works

\* Nothing of a step that only moves a caller on concerns a socket.
LEMMA MovesFit ==
    ASSUME Fits, NEW c \in Callers, NEW place \in Places, pc' = [pc EXCEPT ![c] = place],
           pc[c] # "race", place # "race",
           overlapped' \in BOOLEAN, errors' \in {"closed", "other"},
           mine[c] # None => place \in {"halt", "found", "shut", "store", "init", "beat"},
           prior[c] = None,
           place = "refresh" => round[c] = 1,
           outcome' \in [Callers -> Outcomes], beating' \in BOOLEAN, stray' \in BOOLEAN,
           UNCHANGED <<main, open, ready, recent, round, work, wsock, left, minus, mine, prior>>
    PROVE  Fits'
<1>1. TypeOK'
  BY DEF Fits, TypeOK
<1>2. UsesWhatItHas'
  BY DEF Fits, TypeOK, UsesWhatItHas, Exchanging
<1>3. RacersAreNew'
  BY DEF Fits, RacersAreNew
<1> QED
  BY <1>1, <1>2, <1>3 DEF Fits

\* A call that returns without a socket in its hands.
LEMMA EmptyReturnsFit ==
    ASSUME Fits, NEW c \in Callers, NEW result \in Outcomes, Returns(c, result),
           mine[c] = None, prior[c] = None, pc[c] # "race",
           overlapped' \in BOOLEAN, UNCHANGED shared
    PROVE  Fits'
<1> USE ReturnsEffect
<1>1. TypeOK'
  BY DEF Fits, TypeOK, shared
<1>2. UsesWhatItHas'
  BY DEF Fits, UsesWhatItHas, Exchanging
<1>3. mine' = mine /\ prior' = prior
  BY DEF Fits, TypeOK
<1>4. RacersAreNew'
  BY <1>3 DEF Fits, RacersAreNew, shared
<1> QED
  BY <1>1, <1>2, <1>4 DEF Fits

-----------------------------------------------------------------------------
(* The threads of a race                                                   *)

\* A thread that drops its socket, if it has one, closed or not, and ends.
LEMMA DropsFit ==
    ASSUME Fits, NEW c \in Callers, NEW h \in Hosts, NEW place \in {"none", "closed", "refused"},
           work[c][h] # "none",
           Works(c, h, place, None), open' \in {open, open \ {wsock[c][h]}},
           overlapped' \in BOOLEAN
    PROVE  Fits'
<1>1. /\ work' \in [Callers -> [Hosts -> WorkPlaces]]
      /\ wsock' \in [Callers -> [Hosts -> Sockets \cup {None}]]
      /\ work'[c][h] = place /\ wsock'[c][h] = None
      /\ \A d \in Callers, k \in Hosts :
            d # c \/ k # h => work'[d][k] = work[d][k] /\ wsock'[d][k] = wsock[d][k]
      /\ UNCHANGED <<main, ready, recent, beating, stray, errors, pc, round, left, minus,
                     mine, prior, outcome>>
  <2>1. place \in WorkPlaces /\ None \in Sockets \cup {None}
    BY DEF WorkPlaces
  <2> QED
    BY <2>1, WorksEffect
<1>2. TypeOK'
  <2>1. ready' \subseteq open'
    <3>1. wsock[c][h] \notin ready
      BY NoneAssumption DEF Fits, TypeOK, RacersAreNew
    <3> QED
      BY <1>1, <3>1 DEF Fits, TypeOK
  <2>2. open' \subseteq Sockets
    BY DEF Fits, TypeOK
  <2> QED
    BY <1>1, <2>1, <2>2 DEF Fits, TypeOK
<1>3. UsesWhatItHas'
  <2> SUFFICES ASSUME NEW d \in Callers
               PROVE  /\ mine'[d] # None => Exchanging(d)'
                      /\ prior'[d] # None => pc'[d] = "shut"
                      /\ pc'[d] = "refresh" => round'[d] = 1
                      /\ pc'[d] # "race" => \A k \in Hosts : work'[d][k] = "none"
                      /\ \A k \in Hosts : wsock'[d][k] # None => work'[d][k] \in {"sent", "parsed", "won"}
    BY DEF UsesWhatItHas
  <2> QED
    BY <1>1 DEF Fits, UsesWhatItHas, Exchanging
<1>4. RacersAreNew'
  <2> SUFFICES ASSUME NEW d \in Callers, NEW k \in Hosts, wsock'[d][k] # None
               PROVE  /\ wsock'[d][k] # main' /\ wsock'[d][k] \notin ready'
                      /\ \A e \in Callers :
                            /\ wsock'[d][k] # mine'[e] /\ wsock'[d][k] # prior'[e]
                            /\ \A j \in Hosts : wsock'[e][j] = wsock'[d][k] => e = d /\ j = k
    BY DEF RacersAreNew
  <2>1. wsock'[d][k] = wsock[d][k]
    BY <1>1
  <2> QED
    BY <1>1, <2>1 DEF Fits, RacersAreNew
<1> QED
  BY <1>2, <1>3, <1>4 DEF Fits

\* A thread that keeps its socket.
LEMMA KeepsFit ==
    ASSUME Fits, NEW c \in Callers, NEW h \in Hosts, NEW place \in {"parsed", "won"},
           work[c][h] # "none",
           Works(c, h, place, wsock[c][h]), open' = open, overlapped' \in BOOLEAN
    PROVE  Fits'
<1>1. /\ work' \in [Callers -> [Hosts -> WorkPlaces]]
      /\ wsock' = wsock
      /\ work'[c][h] = place
      /\ \A d \in Callers, k \in Hosts : d # c \/ k # h => work'[d][k] = work[d][k]
      /\ UNCHANGED <<main, ready, recent, beating, stray, errors, pc, round, left, minus,
                     mine, prior, outcome>>
  BY DEF Fits, TypeOK, Works, WorkPlaces
<1>2. TypeOK'
  BY <1>1 DEF Fits, TypeOK
<1>3. UsesWhatItHas'
  <2> SUFFICES ASSUME NEW d \in Callers
               PROVE  /\ mine'[d] # None => Exchanging(d)'
                      /\ prior'[d] # None => pc'[d] = "shut"
                      /\ pc'[d] = "refresh" => round'[d] = 1
                      /\ pc'[d] # "race" => \A k \in Hosts : work'[d][k] = "none"
                      /\ \A k \in Hosts : wsock'[d][k] # None => work'[d][k] \in {"sent", "parsed", "won"}
    BY DEF UsesWhatItHas
  <2> QED
    BY <1>1 DEF Fits, UsesWhatItHas, Exchanging
<1>4. RacersAreNew'
  BY <1>1 DEF Fits, RacersAreNew
<1> QED
  BY <1>2, <1>3, <1>4 DEF Fits

\* A thread that has dialled.
LEMMA DialledFits ==
    ASSUME Fits, NEW c \in Callers, NEW h \in Hosts, NEW s \in Sockets, Fresh(s),
           work[c][h] = "dial", Works(c, h, "sent", s), open' = open \cup {s},
           overlapped' \in BOOLEAN
    PROVE  Fits'
<1>1. /\ work' \in [Callers -> [Hosts -> WorkPlaces]]
      /\ wsock' \in [Callers -> [Hosts -> Sockets \cup {None}]]
      /\ work'[c][h] = "sent" /\ wsock'[c][h] = s
      /\ \A d \in Callers, k \in Hosts :
            d # c \/ k # h => work'[d][k] = work[d][k] /\ wsock'[d][k] = wsock[d][k]
      /\ UNCHANGED <<main, ready, recent, beating, stray, errors, pc, round, left, minus,
                     mine, prior, outcome>>
  <2>1. "sent" \in WorkPlaces /\ s \in Sockets \cup {None}
    BY DEF WorkPlaces
  <2> QED
    BY <2>1, WorksEffect
<1>2. wsock[c][h] = None /\ pc[c] = "race"
  BY DEF Fits, UsesWhatItHas
<1>3. TypeOK'
  BY <1>1 DEF Fits, TypeOK
<1>4. UsesWhatItHas'
  <2> SUFFICES ASSUME NEW d \in Callers
               PROVE  /\ mine'[d] # None => Exchanging(d)'
                      /\ prior'[d] # None => pc'[d] = "shut"
                      /\ pc'[d] = "refresh" => round'[d] = 1
                      /\ pc'[d] # "race" => \A k \in Hosts : work'[d][k] = "none"
                      /\ \A k \in Hosts : wsock'[d][k] # None => work'[d][k] \in {"sent", "parsed", "won"}
    BY DEF UsesWhatItHas
  <2>1. pc'[d] # "race" => \A k \in Hosts : work'[d][k] = "none"
    BY <1>1, <1>2 DEF Fits, UsesWhatItHas
  <2>2. \A k \in Hosts : wsock'[d][k] # None => work'[d][k] \in {"sent", "parsed", "won"}
    BY <1>1, <1>2 DEF Fits, UsesWhatItHas
  <2> QED
    BY <1>1, <2>1, <2>2 DEF Fits, UsesWhatItHas, Exchanging
<1>5. RacersAreNew'
  <2> SUFFICES ASSUME NEW d \in Callers, NEW k \in Hosts, wsock'[d][k] # None
               PROVE  /\ wsock'[d][k] # main' /\ wsock'[d][k] \notin ready'
                      /\ \A e \in Callers :
                            /\ wsock'[d][k] # mine'[e] /\ wsock'[d][k] # prior'[e]
                            /\ \A j \in Hosts : wsock'[e][j] = wsock'[d][k] => e = d /\ j = k
    BY DEF RacersAreNew
  <2>1. CASE d = c /\ k = h
    BY <1>1, <2>1, FreshIsNew
  <2>2. CASE ~(d = c /\ k = h)
    BY <1>1, <2>2, FreshIsNew DEF Fits, RacersAreNew
  <2> QED
    BY <2>1, <2>2
<1> QED
  BY <1>3, <1>4, <1>5 DEF Fits

LEMMA WorkFits ==
    ASSUME Fits, NEW c \in Callers, Work(c), overlapped' \in BOOLEAN
    PROVE  Fits'
<1>1. PICK h \in Hosts : Dials(c, h) \/ Reads(c, h) \/ Judges(c, h)
  BY DEF Work
<1>3. CASE Dials(c, h)
  BY <1>3, DialledFits, DropsFit DEF Dials
<1>4. CASE Reads(c, h)
  BY <1>4, DropsFit, KeepsFit DEF Reads
<1>5. CASE Judges(c, h)
  BY <1>5, DropsFit, KeepsFit DEF Judges
<1> QED
  BY <1>1, <1>3, <1>4, <1>5

-----------------------------------------------------------------------------
(* The steps of connect_main() and its rounds                              *)

\* A caller that does not exchange the MAIN socket has none in its hands.
LEMMA EmptyHands ==
    ASSUME Fits, NEW c \in Callers
    PROVE  /\ ~Exchanging(c) => mine[c] = None
           /\ pc[c] # "shut" => prior[c] = None
           /\ pc[c] # "race" => \A h \in Hosts : work[c][h] = "none" /\ wsock[c][h] = None
  BY DEF Fits, UsesWhatItHas

LEMMA RacesFit ==
    ASSUME Fits, NEW c \in Callers, Races(c), overlapped' \in BOOLEAN
    PROVE  Fits'
<1>1. /\ work' \in [Callers -> [Hosts -> WorkPlaces]]
      /\ \A d \in Callers \ {c} : work'[d] = work[d]
      /\ pc' = [pc EXCEPT ![c] = "race"]
      /\ UNCHANGED <<main, open, ready, recent, beating, stray, errors, wsock, mine, prior, outcome>>
  BY DEF Fits, TypeOK, Races, WorkPlaces, Goto, shared
<1>2. mine[c] = None /\ prior[c] = None /\ \A h \in Hosts : wsock[c][h] = None
  BY EmptyHands DEF Races, Exchanging
<1>3. TypeOK'
  <2>1. pc' \in [Callers -> Places]
    BY <1>1 DEF Fits, TypeOK, Places
  <2>2. left' \in [Callers -> SUBSET Hosts]
    BY DEF Fits, TypeOK, Races
  <2>3. minus' \in [Callers -> 0..MinusLimit]
    BY RacingAssumption DEF Fits, TypeOK, Races
  <2>4. round' \in [Callers -> 1..2]
    <3>1. pc[c] # "auth" => round[c] = 1
      BY DEF Races, Fits, UsesWhatItHas
    <3> QED
      BY <3>1 DEF Fits, TypeOK, Races
  <2> QED
    BY <1>1, <2>1, <2>2, <2>3, <2>4 DEF Fits, TypeOK
<1>4. UsesWhatItHas'
  <2> SUFFICES ASSUME NEW d \in Callers
               PROVE  /\ mine'[d] # None => Exchanging(d)'
                      /\ prior'[d] # None => pc'[d] = "shut"
                      /\ pc'[d] = "refresh" => round'[d] = 1
                      /\ pc'[d] # "race" => \A k \in Hosts : work'[d][k] = "none"
                      /\ \A k \in Hosts : wsock'[d][k] # None => work'[d][k] \in {"sent", "parsed", "won"}
    BY DEF UsesWhatItHas
  <2>1. d # c => pc'[d] = pc[d] /\ round'[d] = round[d]
    BY DEF Fits, TypeOK, Races, Goto
  <2>2. pc'[c] = "race"
    BY <1>1 DEF Fits, TypeOK
  <2> QED
    BY <1>1, <1>2, <2>1, <2>2 DEF Fits, UsesWhatItHas, Exchanging
<1>5. RacersAreNew'
  BY <1>1 DEF Fits, RacersAreNew
<1> QED
  BY <1>3, <1>4, <1>5 DEF Fits

LEMMA PicksFit ==
    ASSUME Fits, NEW c \in Callers, Picks(c), overlapped' \in BOOLEAN
    PROVE  Fits'
<1>1. /\ pc[c] = "race"
      /\ wsock' \in [Callers -> [Hosts -> Sockets \cup {None}]]
      /\ work' \in [Callers -> [Hosts -> WorkPlaces]]
      /\ \A h \in Hosts : work'[c][h] = "none" /\ wsock'[c][h] = None
      /\ \A d \in Callers \ {c} : work'[d] = work[d] /\ wsock'[d] = wsock[d]
      /\ UNCHANGED <<main, open, ready, recent, beating, stray, round, left, minus, prior, outcome>>
  BY DEF Fits, TypeOK, Picks, WorkPlaces
<1>2. mine[c] = None /\ prior[c] = None
  BY <1>1, EmptyHands DEF Exchanging
<1>4. PICK m, place :
        /\ m \in {wsock[c][h] : h \in Hosts} \cup {None}
        /\ mine' = [mine EXCEPT ![c] = m] /\ pc' = [pc EXCEPT ![c] = place]
        /\ place \in {"halt", "after"} /\ (m # None => place = "halt")
        /\ errors' \in {"closed", "other"}
  <2>1. CASE \E h \in Hosts : work[c][h] = "won"
    <3>1. PICK h \in Hosts : /\ mine' = [mine EXCEPT ![c] = wsock[c][h]]
                             /\ pc' = [pc EXCEPT ![c] = "halt"] /\ errors' = errors
      BY <2>1 DEF Picks, Goto
    <3> WITNESS wsock[c][h], "halt"
    <3> QED
      BY <3>1 DEF Fits, TypeOK
  <2>2. CASE ~ \E h \in Hosts : work[c][h] = "won"
    <3>1. mine' = mine /\ pc' = [pc EXCEPT ![c] = "after"] /\ errors' \in {"closed", "other"}
      BY <2>2 DEF Picks, Goto
    <3>2. mine' = [mine EXCEPT ![c] = None]
      BY <3>1, <1>2 DEF Fits, TypeOK
    <3> WITNESS None, "after"
    <3> QED
      BY <3>1, <3>2
  <2> QED
    BY <2>1, <2>2
<1>5. /\ pc' \in [Callers -> Places] /\ mine' \in [Callers -> Sockets \cup {None}]
      /\ pc'[c] = place /\ mine'[c] = m
      /\ \A d \in Callers \ {c} : pc'[d] = pc[d] /\ mine'[d] = mine[d]
  <2>1. place \in Places /\ m \in Sockets \cup {None}
    BY <1>4 DEF Places, Fits, TypeOK
  <2> QED
    BY <1>4, <2>1 DEF Fits, TypeOK
<1>6. TypeOK'
  BY <1>1, <1>4, <1>5 DEF Fits, TypeOK
<1>7. UsesWhatItHas'
  <2> SUFFICES ASSUME NEW d \in Callers
               PROVE  /\ mine'[d] # None => Exchanging(d)'
                      /\ prior'[d] # None => pc'[d] = "shut"
                      /\ pc'[d] = "refresh" => round'[d] = 1
                      /\ pc'[d] # "race" => \A k \in Hosts : work'[d][k] = "none"
                      /\ \A k \in Hosts : wsock'[d][k] # None => work'[d][k] \in {"sent", "parsed", "won"}
    BY DEF UsesWhatItHas
  <2>1. CASE d = c
    BY <1>1, <1>2, <1>4, <1>5, <2>1 DEF Exchanging
  <2>2. CASE d # c
    <3>1. /\ pc'[d] = pc[d] /\ mine'[d] = mine[d] /\ prior'[d] = prior[d] /\ round'[d] = round[d]
          /\ \A k \in Hosts : work'[d][k] = work[d][k] /\ wsock'[d][k] = wsock[d][k]
      BY <1>1, <1>5, <2>2
    <3>2. /\ mine[d] # None => Exchanging(d)
          /\ prior[d] # None => pc[d] = "shut"
          /\ pc[d] = "refresh" => round[d] = 1
          /\ pc[d] # "race" => \A k \in Hosts : work[d][k] = "none"
          /\ \A k \in Hosts : wsock[d][k] # None => work[d][k] \in {"sent", "parsed", "won"}
      BY DEF Fits, UsesWhatItHas
    <3> QED
      BY <3>1, <3>2 DEF Exchanging
  <2> QED
    BY <2>1, <2>2
<1>8. RacersAreNew'
  <2> SUFFICES ASSUME NEW d \in Callers, NEW k \in Hosts, wsock'[d][k] # None
               PROVE  /\ wsock'[d][k] # main' /\ wsock'[d][k] \notin ready'
                      /\ \A e \in Callers :
                            /\ wsock'[d][k] # mine'[e] /\ wsock'[d][k] # prior'[e]
                            /\ \A j \in Hosts : wsock'[e][j] = wsock'[d][k] => e = d /\ j = k
    BY DEF RacersAreNew
  <2>1. d # c /\ wsock'[d][k] = wsock[d][k]
    BY <1>1
  <2>2. wsock[d][k] # m
    BY <1>4, <2>1 DEF Fits, RacersAreNew
  <2>3. wsock'[d][k] # main' /\ wsock'[d][k] \notin ready'
    BY <1>1, <2>1 DEF Fits, RacersAreNew
  <2>4. ASSUME NEW e \in Callers
        PROVE  wsock'[d][k] # mine'[e] /\ wsock'[d][k] # prior'[e]
    BY <1>1, <1>5, <2>1, <2>2 DEF Fits, RacersAreNew
  <2>5. ASSUME NEW e \in Callers, NEW j \in Hosts, wsock'[e][j] = wsock'[d][k]
        PROVE  e = d /\ j = k
    BY <1>1, <2>1, <2>5 DEF Fits, RacersAreNew
  <2> QED
    BY <2>3, <2>4, <2>5
<1> QED
  BY <1>6, <1>7, <1>8 DEF Fits

LEMMA SerialFits ==
    ASSUME Fits, NEW c \in Callers, Serial(c), overlapped' \in BOOLEAN
    PROVE  Fits'
<1>1. mine[c] = None /\ prior[c] = None
  BY EmptyHands DEF Serial, Exchanging
<1>2. CASE UNCHANGED <<open, mine, pc>>
  <2>1. TypeOK'
    <3>1. minus' \in [Callers -> 0..MinusLimit]
      BY <1>2, RacingAssumption DEF Fits, TypeOK, Serial, Goto
    <3>2. left' \in [Callers -> SUBSET Hosts]
      BY DEF Fits, TypeOK, Serial
    <3> QED
      BY <1>2, <3>1, <3>2 DEF Fits, TypeOK, Serial
  <2>2. UsesWhatItHas' /\ RacersAreNew'
    BY <1>2 DEF Fits, UsesWhatItHas, Exchanging, RacersAreNew, Serial
  <2> QED
    BY <2>1, <2>2 DEF Fits
<1>3. CASE ~UNCHANGED <<open, mine, pc>>
  <2>1. PICK s \in Sockets : /\ Fresh(s) /\ open' = open \cup {s}
                             /\ mine' = [mine EXCEPT ![c] = s]
                             /\ pc' = [pc EXCEPT ![c] = "halt"] /\ minus' = minus
    BY <1>3 DEF Serial, Goto
  <2>2. UNCHANGED <<main, ready, recent, beating, stray, errors, round, work, wsock, prior, outcome>>
    BY DEF Serial
  <2>3. TypeOK'
    <3>1. left' \in [Callers -> SUBSET Hosts]
      BY DEF Fits, TypeOK, Serial
    <3>2. pc' \in [Callers -> Places] /\ mine' \in [Callers -> Sockets \cup {None}]
      BY <2>1 DEF Fits, TypeOK, Places
    <3> QED
      BY <2>1, <2>2, <3>1, <3>2 DEF Fits, TypeOK
  <2>4. /\ pc[c] = "serial" /\ pc'[c] = "halt" /\ mine'[c] = s
        /\ \A d \in Callers \ {c} : pc'[d] = pc[d] /\ mine'[d] = mine[d]
    BY <2>1 DEF Fits, TypeOK, Serial
  <2>5. UsesWhatItHas'
    BY <1>1, <2>2, <2>4 DEF Fits, UsesWhatItHas, Exchanging
  <2>6. RacersAreNew'
    BY <2>1, <2>2, <2>4, FreshIsNew DEF Fits, RacersAreNew
  <2> QED
    BY <2>3, <2>5, <2>6 DEF Fits
<1> QED
  BY <1>2, <1>3

-----------------------------------------------------------------------------
(* The exchange of the MAIN socket                                         *)

\* A step that starts no thread and hands over, drops or closes sockets.
LEMMA HandsFit ==
    ASSUME Fits, TypeOK', UsesWhatItHas', UNCHANGED wsock, ready' \subseteq ready \cup {main},
           main' \in {None, main} \cup {mine[d] : d \in Callers},
           \A d \in Callers : mine'[d] \in {None, mine[d]} /\ prior'[d] \in {None, main, prior[d]}
    PROVE  Fits'
<1>1. RacersAreNew'
  <2> SUFFICES ASSUME NEW d \in Callers, NEW k \in Hosts, wsock[d][k] # None
               PROVE  /\ wsock[d][k] # main' /\ wsock[d][k] \notin ready'
                      /\ \A e \in Callers :
                            /\ wsock[d][k] # mine'[e] /\ wsock[d][k] # prior'[e]
                            /\ \A j \in Hosts : wsock[e][j] = wsock[d][k] => e = d /\ j = k
    BY DEF RacersAreNew
  <2> QED
    BY DEF Fits, RacersAreNew
<1> QED
  BY <1>1 DEF Fits

LEMMA StopsTypes == ASSUME Fits, Stops PROVE beating' \in BOOLEAN /\ stray' \in BOOLEAN
<1>1. beating \in BOOLEAN /\ stray \in BOOLEAN
  BY DEF Fits, TypeOK
<1>2. stray' = stray \/ stray' = TRUE \/ stray' = FALSE
  BY <1>1 DEF Stops
<1> QED
  BY <1>1, <1>2 DEF Stops

LEMMA HaltFits ==
    ASSUME Fits, NEW c \in Callers, Halt(c), overlapped' \in BOOLEAN
    PROVE  Fits'
<1>1. /\ pc[c] = "halt" /\ pc' = [pc EXCEPT ![c] = "found"]
      /\ UNCHANGED <<main, open, ready, recent, errors, round, work, wsock, left, minus,
                     mine, prior, outcome>>
  BY DEF Halt, Goto, Keeps
<1>2. beating' \in BOOLEAN /\ stray' \in BOOLEAN
  BY StopsTypes DEF Halt
<1>3. prior[c] = None /\ "found" \in Places
  BY <1>1, EmptyHands DEF Places
<1>4. errors' \in {"closed", "other"} /\ outcome' \in [Callers -> Outcomes]
  BY <1>1 DEF Fits, TypeOK
<1> QED
  BY <1>1, <1>2, <1>3, <1>4, MovesFit

LEMMA FindFits ==
    ASSUME Fits, NEW c \in Callers, Find(c), overlapped' \in BOOLEAN
    PROVE  Fits'
<1>1. /\ pc[c] = "found" /\ pc' \in [Callers -> Places] /\ pc'[c] = "shut"
      /\ prior' \in [Callers -> Sockets \cup {None}] /\ prior'[c] = main
      /\ \A d \in Callers \ {c} : pc'[d] = pc[d] /\ prior'[d] = prior[d]
      /\ UNCHANGED <<main, open, ready, beating, stray, recent, errors, round, work, wsock, left,
                     minus, mine, outcome>>
  BY DEF Fits, TypeOK, Find, Goto, Keeps, Places
<1>2. TypeOK'
  BY <1>1 DEF Fits, TypeOK
<1>3. UsesWhatItHas'
  BY <1>1 DEF Fits, UsesWhatItHas, Exchanging
<1>4. \A d \in Callers : mine'[d] \in {None, mine[d]} /\ prior'[d] \in {None, main, prior[d]}
  BY <1>1
<1> QED
  BY <1>1, <1>2, <1>3, <1>4, HandsFit

LEMMA ShutFits ==
    ASSUME Fits, NEW c \in Callers, Shut(c), overlapped' \in BOOLEAN
    PROVE  Fits'
<1>1. /\ pc[c] = "shut" /\ pc' \in [Callers -> Places] /\ pc'[c] = "store"
      /\ prior' \in [Callers -> Sockets \cup {None}] /\ prior'[c] = None
      /\ \A d \in Callers \ {c} : pc'[d] = pc[d] /\ prior'[d] = prior[d]
      /\ open' = open \ {prior[c]} /\ ready' = ready \ {prior[c]}
      /\ UNCHANGED <<main, beating, stray, recent, errors, round, work, wsock, left,
                     minus, mine, outcome>>
  BY DEF Fits, TypeOK, Shut, Goto, Keeps, Places
<1>2. TypeOK'
  BY <1>1 DEF Fits, TypeOK
<1>3. UsesWhatItHas'
  BY <1>1 DEF Fits, UsesWhatItHas, Exchanging
<1>4. \A d \in Callers : mine'[d] \in {None, mine[d]} /\ prior'[d] \in {None, main, prior[d]}
  BY <1>1
<1> QED
  BY <1>1, <1>2, <1>3, <1>4, HandsFit

LEMMA StoreFits ==
    ASSUME Fits, NEW c \in Callers, Store(c), overlapped' \in BOOLEAN
    PROVE  Fits'
<1>1. /\ pc[c] = "store" /\ pc' \in [Callers -> Places] /\ pc'[c] = "init"
      /\ \A d \in Callers \ {c} : pc'[d] = pc[d]
      /\ main' = mine[c] /\ main' \in Sockets \cup {None}
      /\ UNCHANGED <<open, ready, beating, stray, recent, errors, round, work, wsock, left,
                     minus, mine, prior, outcome>>
  BY DEF Fits, TypeOK, Store, Goto, Keeps, Places
<1>2. TypeOK'
  BY <1>1 DEF Fits, TypeOK
<1>3. UsesWhatItHas'
  BY <1>1 DEF Fits, UsesWhatItHas, Exchanging
<1> QED
  BY <1>1, <1>2, <1>3, HandsFit

LEMMA HandshakeFits ==
    ASSUME Fits, NEW c \in Callers, Handshake(c), overlapped' \in BOOLEAN
    PROVE  Fits'
<1>1. /\ pc[c] = "init" /\ pc' \in [Callers -> Places] /\ pc'[c] = "beat"
      /\ \A d \in Callers \ {c} : pc'[d] = pc[d]
      /\ main \in open /\ ready' = ready \cup {main}
      /\ UNCHANGED <<main, open, beating, stray, recent, errors, round, work, wsock, left,
                     minus, mine, prior, outcome>>
  BY DEF Fits, TypeOK, Handshake, Goto, Keeps, Places
<1>2. TypeOK'
  BY <1>1 DEF Fits, TypeOK
<1>3. UsesWhatItHas'
  BY <1>1 DEF Fits, UsesWhatItHas, Exchanging
<1> QED
  BY <1>1, <1>2, <1>3, HandsFit

\* A call that returns from the exchange.
LEMMA LeavesFit ==
    ASSUME Fits, NEW c \in Callers, NEW result \in Outcomes, Returns(c, result),
           pc[c] \in {"init", "beat"}, overlapped' \in BOOLEAN,
           recent' \in BOOLEAN, beating' \in BOOLEAN, stray' = stray, errors' = errors,
           open' \subseteq open, ready' = ready \cap open', main' \in {None, main}
    PROVE  Fits'
<1>1. /\ pc' \in [Callers -> Places] /\ round' \in [Callers -> 1..2]
      /\ left' \in [Callers -> SUBSET Hosts] /\ minus' \in [Callers -> 0..MinusLimit]
      /\ mine' \in [Callers -> Sockets \cup {None}]
      /\ prior' \in [Callers -> Sockets \cup {None}]
      /\ outcome' \in [Callers -> Outcomes]
      /\ pc'[c] = "idle" /\ mine'[c] = None /\ prior'[c] = None
      /\ \A d \in Callers \ {c} :
            pc'[d] = pc[d] /\ mine'[d] = mine[d] /\ prior'[d] = prior[d] /\ round'[d] = round[d]
      /\ work' = work /\ wsock' = wsock
  BY ReturnsEffect
<1>2. TypeOK'
  BY <1>1 DEF Fits, TypeOK
<1>3. UsesWhatItHas'
  BY <1>1 DEF Fits, UsesWhatItHas, Exchanging
<1>4. \A d \in Callers : mine'[d] \in {None, mine[d]} /\ prior'[d] \in {None, main, prior[d]}
  BY <1>1
<1> QED
  BY <1>1, <1>2, <1>3, <1>4, HandsFit

LEMMA HandshakeFailsFit ==
    ASSUME Fits, NEW c \in Callers, HandshakeFails(c), overlapped' \in BOOLEAN
    PROVE  Fits'
<1>1. /\ pc[c] = "init" /\ Returns(c, "init_failed") /\ "init_failed" \in Outcomes
      /\ open' = open \ {mine[c]} /\ ready' = ready \ {mine[c]}
      /\ main' = IF main = mine[c] THEN None ELSE main
      /\ beating' = beating /\ stray' = stray /\ errors' = errors
  BY DEF HandshakeFails, Outcomes
<1>2. recent' \in BOOLEAN
  BY Zenon DEF HandshakeFails
<1>3. beating' \in BOOLEAN
  BY <1>1 DEF Fits, TypeOK
<1>4. ready' = ready \cap open'
  BY <1>1 DEF Fits, TypeOK
<1>5. open' \subseteq open /\ main' \in {None, main}
  BY <1>1
<1> QED
  BY <1>1, <1>2, <1>3, <1>4, <1>5, LeavesFit

LEMMA BeatFits ==
    ASSUME Fits, NEW c \in Callers, Beat(c), overlapped' \in BOOLEAN
    PROVE  Fits'
<1>1. /\ pc[c] = "beat" /\ Returns(c, "success") /\ "success" \in Outcomes
      /\ UNCHANGED <<main, open, ready, stray, errors>>
  BY DEF Beat, Outcomes
<1>2. recent' \in BOOLEAN /\ beating' \in BOOLEAN
  BY Zenon DEF Beat
<1>3. ready' = ready \cap open'
  BY <1>1 DEF Fits, TypeOK
<1> QED
  BY <1>1, <1>2, <1>3, LeavesFit

-----------------------------------------------------------------------------
(* The rest of the client and the server                                   *)

LEMMA DropFits == ASSUME Fits, Drop PROVE Fits'
<1>1. /\ open' = open \ {main} /\ ready' = ready \ {main} /\ main' = None
      /\ UNCHANGED <<recent, beating, stray, errors, pc, round, work, wsock, left, minus, mine,
                     prior, outcome, overlapped>>
  BY DEF Drop, local
<1>2. TypeOK' /\ UsesWhatItHas'
  BY <1>1 DEF Fits, TypeOK, UsesWhatItHas, Exchanging
<1> QED
  BY <1>1, <1>2, HandsFit

LEMMA BeatingFits == ASSUME Fits, StopsBeating \/ StrayEnds PROVE Fits'
<1>1. beating' \in BOOLEAN /\ stray' \in BOOLEAN
  <2>1. CASE StopsBeating
    BY <2>1, StopsTypes DEF StopsBeating
  <2>2. CASE StrayEnds
    BY <2>2 DEF StrayEnds, Fits, TypeOK
  <2> QED
    BY <2>1, <2>2
<1>2. UNCHANGED <<main, open, ready, recent, errors, pc, round, work, wsock, left, minus, mine,
                  prior, outcome, overlapped>>
  BY DEF StopsBeating, StrayEnds, local
<1> QED
  BY <1>1, <1>2 DEF Fits, TypeOK, UsesWhatItHas, Exchanging, RacersAreNew

LEMMA ServerClosesFits == ASSUME Fits, NEW s \in Sockets, ServerCloses(s) PROVE Fits'
<1>1. /\ open' = open \ {s} /\ ready' = ready \ {s}
      /\ UNCHANGED <<main, recent, beating, stray, errors, pc, round, work, wsock, left, minus,
                     mine, prior, outcome, overlapped>>
  BY DEF ServerCloses, local
<1>2. TypeOK' /\ UsesWhatItHas'
  BY <1>1 DEF Fits, TypeOK, UsesWhatItHas, Exchanging
<1> QED
  BY <1>1, <1>2, HandsFit

LEMMA GoesFits ==
    ASSUME Fits, NEW c \in Callers, Goes(c), overlapped' \in BOOLEAN
    PROVE  Fits'
<1>1. CASE AuthFails(c) \/ Rejected(c) \/ RefreshFails(c)
  <2>1. mine[c] = None /\ prior[c] = None /\ pc[c] # "race"
    BY <1>1, EmptyHands DEF AuthFails, Rejected, RefreshFails, Exchanging
  <2>2. \E result \in Outcomes : Returns(c, result) /\ UNCHANGED shared
    BY <1>1 DEF AuthFails, Rejected, RefreshFails, Outcomes
  <2> QED
    BY <2>1, <2>2, EmptyReturnsFit
<1>2. CASE After(c) \/ SerialEnds(c) \/ Fails(c)
  <2>1. mine[c] = None /\ prior[c] = None /\ pc[c] # "race"
    BY <1>2, EmptyHands DEF After, SerialEnds, Fails, Exchanging
  <2>2. /\ errors' \in {"closed", "other"} /\ beating' \in BOOLEAN /\ stray' \in BOOLEAN /\ UNCHANGED shared
    BY <1>2 DEF After, SerialEnds, Fails, shared, Fits, TypeOK
  <2>3. CASE Returns(c, "all_hosts_failed")
    BY <2>1, <2>2, <2>3, EmptyReturnsFit DEF Outcomes
  <2>4. CASE ~Returns(c, "all_hosts_failed")
    <3>1. PICK place \in Places :
            /\ place \in {"fails", "serial", "refresh"} /\ pc' = [pc EXCEPT ![c] = place]
            /\ place = "refresh" => round[c] = 1
            /\ UNCHANGED <<round, work, wsock, left, minus, mine, prior, outcome>>
      BY <1>2, <2>4 DEF After, SerialEnds, Fails, Goto, Places
    <3>2. outcome' \in [Callers -> Outcomes]
      BY <3>1 DEF Fits, TypeOK
    <3> QED
      BY <2>1, <2>2, <3>1, <3>2, MovesFit DEF shared
  <2> QED
    BY <2>3, <2>4
<1> QED
  BY <1>1, <1>2, RacesFit, PicksFit, SerialFits, HaltFits, FindFits, ShutFits, StoreFits,
     HandshakeFits, HandshakeFailsFit, BeatFits DEF Goes

LEMMA BeginFits ==
    ASSUME Fits, NEW c \in Callers, Reuse(c) \/ Begin(c), overlapped' \in BOOLEAN
    PROVE  Fits'
<1>1. mine[c] = None /\ prior[c] = None /\ pc[c] # "race"
  BY EmptyHands DEF Reuse, Begin, Exchanging
<1>2. CASE Reuse(c)
  BY <1>1, <1>2, EmptyReturnsFit DEF Reuse, Outcomes
<1>3. CASE Begin(c)
  <2>1. /\ pc' = [pc EXCEPT ![c] = "auth"] /\ outcome' \in [Callers -> Outcomes]
        /\ errors' \in {"closed", "other"} /\ beating' \in BOOLEAN /\ stray' \in BOOLEAN
        /\ UNCHANGED <<main, open, ready, recent, round, work, wsock, left, minus, mine, prior>>
    BY <1>3 DEF Begin, Goto, shared, Fits, TypeOK, Outcomes
  <2>2. "auth" \in Places
    BY DEF Places
  <2> QED
    BY <1>1, <2>1, <2>2, MovesFit
<1> QED
  BY <1>2, <1>3

LEMMA NotesFits == ASSUME Notes PROVE overlapped' \in BOOLEAN
  BY Zenon DEF Notes

LEMMA NextFits == ASSUME Fits, [Next]_vars PROVE Fits'
<1>1. CASE \E c \in Callers : (Reuse(c) \/ Begin(c) \/ Work(c) \/ Goes(c)) /\ Notes
  BY <1>1, NotesFits, BeginFits, WorkFits, GoesFits
<1>2. CASE Drop \/ StopsBeating \/ StrayEnds \/ \E s \in Sockets : ServerCloses(s)
  BY <1>2, DropFits, BeatingFits, ServerClosesFits
<1>3. CASE UNCHANGED vars
  BY <1>3 DEF vars, shared, local, Fits, TypeOK, UsesWhatItHas, Exchanging, RacersAreNew
<1> QED
  BY <1>1, <1>2, <1>3 DEF Next

\* The state keeps its types, and what refers to which socket is as it should be.
THEOREM FitsHolds == Spec => []Fits
  BY InitFits, NextFits, PTL DEF Spec

-----------------------------------------------------------------------------
(* Who touches the MAIN socket                                             *)

Steps(c) == Reuse(c) \/ Begin(c) \/ Work(c) \/ Goes(c)

\* The steps of a caller in the exchange.
LEMMA ExchangeSteps ==
    ASSUME Fits, NEW c \in Callers, Steps(c), Exchanging(c)
    PROVE  \/ Halt(c) \/ Find(c) \/ Shut(c) \/ Store(c) \/ Handshake(c) \/ HandshakeFails(c)
           \/ Beat(c)
<1>1. ~Work(c)
  BY EmptyHands DEF Exchanging, Work, Dials, Reads, Judges
<1> QED
  BY <1>1 DEF Steps, Goes, Exchanging, Reuse, Begin, AuthFails, Races, Picks, After, Serial,
     Rejected, SerialEnds, Fails, RefreshFails

\* A caller's step moves no other caller.
LEMMA OneMoves ==
    ASSUME Fits, NEW c \in Callers, Steps(c)
    PROVE  /\ pc' \in [Callers -> Places]
           /\ \A d \in Callers \ {c} : pc'[d] = pc[d] /\ mine'[d] = mine[d]
<1>1. CASE \E result \in Outcomes : Returns(c, result)
  BY <1>1, ReturnsEffect
<1>2. CASE Work(c)
  BY <1>2 DEF Work, Dials, Reads, Judges, Works, Fits, TypeOK
<1>3. CASE Begin(c) \/ Races(c) \/ After(c) \/ SerialEnds(c)
  BY <1>3 DEF Begin, Races, After, SerialEnds, Goto, Places, Fits, TypeOK
<1>4. CASE Picks(c)
  BY <1>4 DEF Picks, Goto, Places, Fits, TypeOK
<1>5. CASE Serial(c)
  BY <1>5 DEF Serial, Goto, Places, Fits, TypeOK
<1>6. CASE Fails(c)
  <2>1. CASE Returns(c, "all_hosts_failed")
    BY <2>1, ReturnsEffect DEF Outcomes
  <2>2. CASE ~Returns(c, "all_hosts_failed")
    BY <1>6, <2>2 DEF Fails, Goto, Places, Fits, TypeOK
  <2> QED
    BY <2>1, <2>2
<1>7. CASE Halt(c) \/ Find(c) \/ Shut(c) \/ Store(c) \/ Handshake(c)
  BY <1>7 DEF Halt, Find, Shut, Store, Handshake, Keeps, Goto, Places, Fits, TypeOK
<1>8. Reuse(c) \/ AuthFails(c) \/ Rejected(c) \/ RefreshFails(c) \/ HandshakeFails(c) \/ Beat(c)
      => \E result \in Outcomes : Returns(c, result)
  BY DEF Reuse, AuthFails, Rejected, RefreshFails, HandshakeFails, Beat, Outcomes
<1> QED
  BY <1>1, <1>2, <1>3, <1>4, <1>5, <1>6, <1>7, <1>8 DEF Steps, Goes

\* A caller that is not in the exchange leaves the MAIN socket alone, and enters
\* the exchange where the heartbeat is stopped.
LEMMA OutsideKeeps ==
    ASSUME Fits, NEW c \in Callers, Steps(c), ~Exchanging(c)
    PROVE  /\ UNCHANGED <<main, ready, recent, beating>>
           /\ main \in open' => main \in open
           /\ Exchanging(c)' => pc'[c] = "halt"
<1>1. CASE Work(c)
  <2>1. PICK h \in Hosts : Dials(c, h) \/ Reads(c, h) \/ Judges(c, h)
    BY <1>1 DEF Work
  <2>2. UNCHANGED <<main, ready, recent, beating, pc>>
    BY <2>1 DEF Dials, Reads, Judges, Works
  <2>3. open' \subseteq open \/ \E s \in Sockets : Fresh(s) /\ open' = open \cup {s}
    BY <2>1 DEF Dials, Reads, Judges
  <2> QED
    BY <2>2, <2>3, FreshIsNew DEF Exchanging
<1>2. CASE Serial(c)
  <2>1. UNCHANGED <<main, ready, recent, beating>>
    BY <1>2 DEF Serial
  <2>2. \/ UNCHANGED <<open, pc>>
        \/ /\ \E s \in Sockets : Fresh(s) /\ open' = open \cup {s}
           /\ pc' = [pc EXCEPT ![c] = "halt"]
    BY <1>2 DEF Serial, Goto
  <2>3. main \in open' => main \in open
    BY <2>2, FreshIsNew
  <2> QED
    BY <2>1, <2>2, <2>3 DEF Exchanging, Fits, TypeOK
<1>3. CASE Picks(c)
  BY <1>3 DEF Picks, Goto, Exchanging, Fits, TypeOK
<1>4. CASE Races(c)
  BY <1>4 DEF Races, Goto, Exchanging, Fits, TypeOK, shared
<1>5. CASE \/ Reuse(c) \/ Begin(c) \/ AuthFails(c) \/ After(c) \/ Rejected(c)
           \/ SerialEnds(c) \/ Fails(c) \/ RefreshFails(c)
  <2>1. UNCHANGED shared
    BY <1>5 DEF Reuse, Begin, AuthFails, After, Rejected, SerialEnds, Fails, RefreshFails
  <2>2. \E place \in {"idle", "auth", "fails", "serial", "refresh"} : pc' = [pc EXCEPT ![c] = place]
    BY <1>5 DEF Reuse, Begin, AuthFails, After, Rejected, SerialEnds, Fails, RefreshFails,
        Returns, Goto
  <2> QED
    BY <2>1, <2>2 DEF shared, Exchanging, Fits, TypeOK
<1> QED
  BY <1>1, <1>2, <1>3, <1>4, <1>5 DEF Steps, Goes, Exchanging, Halt, Find, Shut, Store,
     Handshake, HandshakeFails, Beat

-----------------------------------------------------------------------------
(* The MAIN socket ends initialised                                        *)

\* A step that leaves MAIN, and those who are about to initialise it.
LEMMA StaysDue ==
    ASSUME Fits, InitIsDue, main' = main, main \in open' => main \in open,
           main \in open' /\ main \in ready => main \in ready',
           \A d \in Callers : pc[d] = "init" => pc'[d] = "init" /\ mine'[d] = mine[d]
    PROVE  InitIsDue'
  BY DEF InitIsDue

LEMMA StepsDue ==
    ASSUME Fits, InitIsDue, NEW c \in Callers, Steps(c)
    PROVE  InitIsDue'
<1>1. /\ pc' \in [Callers -> Places]
      /\ \A d \in Callers \ {c} : pc'[d] = pc[d] /\ mine'[d] = mine[d]
  BY OneMoves
<1>2. CASE ~Exchanging(c)
  BY <1>1, <1>2, OutsideKeeps, StaysDue DEF Exchanging
<1>3. CASE Halt(c) \/ Find(c)
  BY <1>1, <1>3, StaysDue DEF Halt, Find
<1>4. CASE Shut(c)
  BY <1>1, <1>4, StaysDue DEF Shut
<1>5. CASE Store(c)
  <2>1. pc'[c] = "init" /\ mine'[c] = main'
    BY <1>5 DEF Store, Goto, Keeps, Fits, TypeOK
  <2> QED
    BY <2>1 DEF InitIsDue
<1>6. CASE Handshake(c)
  BY <1>6 DEF Handshake, InitIsDue
<1>7. CASE HandshakeFails(c)
  <2>1. CASE main = mine[c]
    BY <1>7, <2>1, NoneAssumption DEF HandshakeFails, InitIsDue, Fits, TypeOK
  <2>2. CASE main # mine[c]
    <3>1. main' = main /\ open' = open \ {mine[c]} /\ ready' = ready \ {mine[c]}
      BY <1>7, <2>2 DEF HandshakeFails
    <3> QED
      BY <1>1, <2>2, <3>1 DEF InitIsDue
  <2> QED
    BY <2>1, <2>2
<1>8. CASE Beat(c)
  BY <1>1, <1>8, StaysDue DEF Beat
<1> QED
  BY <1>2, <1>3, <1>4, <1>5, <1>6, <1>7, <1>8, ExchangeSteps

LEMMA NextDue == ASSUME Fits, InitIsDue, [Next]_vars PROVE InitIsDue'
<1>1. CASE \E c \in Callers : Steps(c)
  BY <1>1, StepsDue
<1>2. CASE Drop \/ StopsBeating \/ StrayEnds
  BY <1>2, NoneAssumption DEF Drop, StopsBeating, StrayEnds, local, InitIsDue, Fits, TypeOK
<1>3. CASE \E s \in Sockets : ServerCloses(s)
  BY <1>3, StaysDue DEF ServerCloses, local
<1>4. CASE UNCHANGED vars
  BY <1>4 DEF vars, shared, local, InitIsDue
<1> QED
  BY <1>1, <1>2, <1>3, <1>4 DEF Next, Steps

\* Who made an open socket MAIN that is not initialised is about to do that.
THEOREM InitIsDueHolds == Spec => []InitIsDue
<1>1. Init => InitIsDue
  BY DEF Init, InitIsDue
<1> QED
  BY <1>1, NextDue, FitsHolds, PTL DEF Spec

\* Whatever logins overlap: once nobody exchanges it, the MAIN socket is one that
\* was initialised, or that the server has closed since.
THEOREM MainIsUsableHolds == Spec => []MainIsUsable
<1>1. InitIsDue => MainIsUsable
  BY DEF InitIsDue, MainIsUsable, Exchanging
<1> QED
  BY <1>1, InitIsDueHolds, PTL

-----------------------------------------------------------------------------
(* Logins that do not overlap                                              *)

LEMMA StepsAlone ==
    ASSUME Fits, ExchangesAlone, NEW c \in Callers, Steps(c), Notes
    PROVE  ExchangesAlone'
<1> SUFFICES ASSUME ~overlapped'
             PROVE  /\ \A d, e \in Callers : Exchanging(d)' /\ Exchanging(e)' => d = e
                    /\ \A d \in Callers :
                          /\ pc'[d] \in {"found", "shut", "store", "init", "beat"} => ~beating'
                          /\ pc'[d] \in {"init", "beat"} => main' = mine'[d] \/ main' = None
  BY DEF ExchangesAlone
<1>1. ~overlapped /\ \A d, e \in Callers : d # e => ~(Exchanging(d)' /\ Exchanging(e)')
  BY DEF Notes
<1>2. /\ pc' \in [Callers -> Places]
      /\ \A d \in Callers \ {c} : pc'[d] = pc[d] /\ mine'[d] = mine[d]
  BY OneMoves
<1>3. /\ \A d, e \in Callers : Exchanging(d) /\ Exchanging(e) => d = e
      /\ \A d \in Callers :
            /\ pc[d] \in {"found", "shut", "store", "init", "beat"} => ~beating
            /\ pc[d] \in {"init", "beat"} => main = mine[d] \/ main = None
  BY <1>1 DEF ExchangesAlone
<1>4. ASSUME NEW d \in Callers, pc'[d] \in {"found", "shut", "store", "init", "beat"}
      PROVE  ~beating' /\ (pc'[d] \in {"init", "beat"} => main' = mine'[d] \/ main' = None)
  <2>1. CASE ~Exchanging(c)
    <3>1. d # c
      BY <1>4, <2>1, OutsideKeeps DEF Exchanging
    <3> QED
      BY <1>2, <1>3, <1>4, <2>1, <3>1, OutsideKeeps
  <2>2. CASE Exchanging(c)
    <3>1. d = c
      BY <1>2, <1>3, <1>4, <2>2 DEF Exchanging
    <3>2. CASE Halt(c)
      BY <3>1, <3>2 DEF Halt, Stops, Goto, Fits, TypeOK
    <3>3. CASE Find(c) \/ Shut(c)
      BY <1>3, <3>1, <3>3 DEF Find, Shut, Goto, Fits, TypeOK
    <3>4. CASE Store(c)
      BY <1>3, <3>1, <3>4 DEF Store, Keeps, Fits, TypeOK
    <3>5. CASE Handshake(c)
      BY <1>3, <3>1, <3>5 DEF Handshake, Keeps, Fits, TypeOK
    <3>6. CASE HandshakeFails(c) \/ Beat(c)
      BY <1>4, <3>1, <3>6 DEF HandshakeFails, Beat, Returns, Goto, Fits, TypeOK
    <3> QED
      BY <2>2, <3>2, <3>3, <3>4, <3>5, <3>6, ExchangeSteps
  <2> QED
    BY <2>1, <2>2
<1> QED
  BY <1>1, <1>4

LEMMA NextAlone == ASSUME Fits, ExchangesAlone, [Next]_vars PROVE ExchangesAlone'
<1>1. CASE \E c \in Callers : Steps(c) /\ Notes
  BY <1>1, StepsAlone
<1>2. CASE Drop \/ StopsBeating \/ StrayEnds
  BY <1>2 DEF Drop, StopsBeating, StrayEnds, Stops, local, ExchangesAlone, Exchanging
<1>3. CASE \E s \in Sockets : ServerCloses(s)
  BY <1>3 DEF ServerCloses, local, ExchangesAlone, Exchanging
<1>4. CASE UNCHANGED vars
  BY <1>4 DEF vars, shared, local, ExchangesAlone, Exchanging
<1> QED
  BY <1>1, <1>2, <1>3, <1>4 DEF Next, Steps

\* A login that exchanges the MAIN socket alone has stopped the heartbeat, and finds
\* its own socket, or none, where it put it.
THEOREM ExchangesAloneHolds == Spec => []ExchangesAlone
<1>1. Init => ExchangesAlone
  BY DEF Init, ExchangesAlone, Exchanging
<1> QED
  BY <1>1, NextAlone, FitsHolds, PTL DEF Spec

\* The heartbeat thread the client has does not run beside a MAIN socket that was not
\* initialised, whenever connections are dropped and heartbeats stopped; of logins that
\* do not overlap.
THEOREM HeartbeatAfterInitHolds == Spec => []HeartbeatAfterInit
<1>1. InitIsDue /\ ExchangesAlone => HeartbeatAfterInit
  BY DEF InitIsDue, ExchangesAlone, HeartbeatAfterInit
<1> QED
  BY <1>1, InitIsDueHolds, ExchangesAloneHolds, PTL

LEMMA NextTimed ==
    ASSUME Fits, ExchangesAlone, TimeIsKnown, [Next]_vars
    PROVE  TimeIsKnown'
<1>1. CASE \E c \in Callers : Steps(c) /\ Notes
  <2> SUFFICES ASSUME ~overlapped', main' \in ready', \A d \in Callers : ~Exchanging(d)'
               PROVE  recent'
    BY DEF TimeIsKnown
  <2>1. PICK c \in Callers : Steps(c) /\ ~overlapped
    BY <1>1 DEF Notes
  <2>2. \A d \in Callers \ {c} : ~Exchanging(d)
    BY <2>1, OneMoves DEF Exchanging
  <2>3. CASE ~Exchanging(c)
    BY <2>1, <2>2, <2>3, OutsideKeeps DEF TimeIsKnown
  <2>4. CASE Exchanging(c)
    <3>1. HandshakeFails(c) \/ Beat(c)
      <4>1. pc'[c] \notin {"found", "shut", "store", "init", "beat"}
        BY DEF Exchanging
      <4>2. ~(Halt(c) \/ Find(c) \/ Shut(c) \/ Store(c) \/ Handshake(c))
        BY <4>1 DEF Halt, Find, Shut, Store, Handshake, Goto, Fits, TypeOK
      <4> QED
        BY <2>1, <2>4, <4>2, ExchangeSteps
    <3>2. ~HandshakeFails(c)
      <4> SUFFICES ASSUME HandshakeFails(c) PROVE FALSE
        OBVIOUS
      <4>1. main = mine[c] \/ main = None
        BY <2>1 DEF HandshakeFails, ExchangesAlone
      <4>2. main' = None /\ ready' \subseteq Sockets
        BY <4>1 DEF HandshakeFails, Fits, TypeOK
      <4> QED
        BY <4>2, NoneAssumption
    <3> QED
      BY <3>1, <3>2 DEF Beat
  <2> QED
    BY <2>3, <2>4
<1>2. CASE Drop \/ StopsBeating \/ StrayEnds
  BY <1>2, NoneAssumption DEF Drop, StopsBeating, StrayEnds, local, TimeIsKnown, Exchanging,
      Fits, TypeOK
<1>3. CASE \E s \in Sockets : ServerCloses(s)
  BY <1>3 DEF ServerCloses, local, TimeIsKnown, Exchanging
<1>4. CASE UNCHANGED vars
  BY <1>4 DEF vars, shared, local, TimeIsKnown, Exchanging
<1> QED
  BY <1>1, <1>2, <1>3, <1>4 DEF Next, Steps

\* An initialised MAIN socket that nobody exchanges was logged in at a known time;
\* of logins that do not overlap.
THEOREM TimeIsKnownHolds == Spec => []TimeIsKnown
<1>1. Init => TimeIsKnown
  BY DEF Init, TimeIsKnown
<1> QED
  BY <1>1, NextTimed, FitsHolds, ExchangesAloneHolds, PTL DEF Spec
=============================================================================
