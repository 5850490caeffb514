--------------------------- MODULE Channel_proofs ---------------------------
(***************************************************************************)
(* Theorems about a connection's beginning and its use.                    *)
(*                                                                         *)
(* First the openings of the connections beside MAIN: the types, the       *)
(* evidence they leave, what stands of it and the rotation of the hosts    *)
(* with its file.  Then the requests over a connection: what a       *)
(* caller takes for its answer among the frames that come, that the pages  *)
(* of a ranking follow one another, and when a loop may say that there is  *)
(* nothing.                                                                *)
(***************************************************************************)
EXTENDS ChannelOpening, LaneReads, SequenceTheorems, FiniteSetTheorems, TLAPS


USE DEF account, rotation, history, Goto, SweptRoles

-----------------------------------------------------------------------------
(* The evidence                                                            *)

LEMMA RecordedFits ==
    ASSUME NEW e \in Evidence, NEW f \in Fields, NEW s \in Support
    PROVE  Recorded(e, f, s) \in Evidence
  BY DEF Recorded, Evidence

LEMMA Observed ==
    ASSUME NEW e \in Evidence
    PROVE  \A f \in {"entitlement", "manual", "init", "realorder"}, s \in {"yes", "no"} :
              Recorded(e, f, s) \in Evidence
  BY RecordedFits DEF Fields, Support

LEMMA RecordedCoheres ==
    ASSUME NEW e, ~Contradictory(e), NEW f, NEW s
    PROVE  ~Contradictory(Recorded(e, f, s))
  BY DEF Recorded

LEMMA PassportFits ==
    ASSUME NEW e \in Evidence, NEW says \in Says
    PROVE  RecordedPassport(e, says) \in Evidence
  BY RecordedFits, ParameterAssumption DEF RecordedPassport, Fields, Passports

\* However the openers interleave, what they record is consistent: a feature is
\* never proved of an account that is known not to have it.
THEOREM EvidenceCoherentHolds == Spec => []EvidenceCoherent
<1>1. Init => EvidenceCoherent
  BY DEF Init, EvidenceCoherent, Contradictory, NoEvidence, Fields, L2Features
<1>2. EvidenceCoherent /\ [Next]_vars => EvidenceCoherent'
  <2> SUFFICES ASSUME EvidenceCoherent, [Next]_vars PROVE EvidenceCoherent'
    OBVIOUS
  <2>1. CASE Restart
    BY <2>1 DEF Restart, EvidenceCoherent, Contradictory, NoEvidence, Fields, L2Features
  <2>2. ASSUME NEW o \in Openers, Open(o)
        PROVE  EvidenceCoherent'
    <3>1. CASE Authenticate(o)
      BY <3>1, RecordedCoheres DEF Authenticate, RecordedPassport, EvidenceCoherent
    <3>2. CASE TryDenied(o) \/ Denied(o) \/ Logged(o) \/ InitAnswers(o)
      BY <3>2, RecordedCoheres DEF TryDenied, Denied, Logged, InitAnswers, EvidenceCoherent
    <3>3. CASE LogsInOnce(o) \/ BootAnswers(o)
      BY <3>3, RecordedCoheres DEF LogsInOnce, BootAnswers, EvidenceCoherent
    <3>4. ASSUME UNCHANGED evidence PROVE EvidenceCoherent'
      BY <3>4 DEF EvidenceCoherent
    <3>5. CASE \/ UseCurrent(o) \/ HttpFails(o) \/ Probe(o) \/ SaveReads(o) \/ SaveWrites(o)
               \/ TryFails(o) \/ TryLogs(o) \/ TryStale(o)
      BY <3>4, <3>5 DEF UseCurrent, HttpFails, Probe, SaveReads, SaveWrites, TryFails, TryLogs,
                        TryStale
    <3>6. CASE \/ InitTooSmall(o) \/ Sweeps(o) \/ Again(o) \/ BootFails(o) \/ Store(o)
      BY <3>4, <3>6 DEF InitTooSmall, Sweeps, Again, BootFails, Store
    <3> QED
      BY <2>2, <3>1, <3>2, <3>3, <3>5, <3>6 DEF Open
  <2>3. ASSUME NEW o \in Openers, NEW r \in Roles, Begin(o, r)
        PROVE  EvidenceCoherent'
    BY <2>3 DEF Begin, EvidenceCoherent
  <2>4. CASE UNCHANGED vars
    BY <2>4 DEF vars, EvidenceCoherent
  <2> QED
    BY <2>1, <2>2, <2>3, <2>4 DEF Next
<1> QED
  BY <1>1, <1>2, PTL DEF Spec

-----------------------------------------------------------------------------
(* Numbers                                                                 *)

LEMMA PositionFits ==
    ASSUME NEW x \in Nat
    PROVE  x % N \in 0..N-1
  BY ParameterAssumption

LEMMA PositionIsItself ==
    ASSUME NEW x \in 0..N-1
    PROVE  x % N = x
  BY ParameterAssumption

LEMMA AdvancedFits ==
    ASSUME NEW off \in 0..N-1, NEW n \in 0..N, NEW force \in BOOLEAN
    PROVE  Advanced(off, n, force) \in 0..N-1
<1> DEFINE moved == off + (IF n = 0 THEN 1 ELSE n)
<1>1. moved \in Nat
  BY ParameterAssumption
<1>2. moved % N \in 0..N-1
  BY <1>1, PositionFits
<1>3. ((moved % N) + 1) % N \in 0..N-1
  BY <1>2, PositionFits, ParameterAssumption
<1> QED
  BY <1>2, <1>3 DEF Advanced

\* A sweep that failed never leaves the offset where it was.
LEMMA AdvancedMoves ==
    ASSUME NEW off \in 0..N-1, NEW n \in 0..N
    PROVE  Advanced(off, n, TRUE) # off
<1> DEFINE moved == (off + (IF n = 0 THEN 1 ELSE n)) % N
<1>1. off % N = off
  BY PositionIsItself
<1>2. CASE moved = off
  <2>1. (off + 1) % N # off
    <3>1. CASE off = N - 1
      <4>1. (off + 1) % N = 0
        BY <3>1, ParameterAssumption
      <4> QED
        BY <3>1, <4>1, ParameterAssumption
    <3>2. CASE off < N - 1
      <4>1. off + 1 \in 0..N-1
        BY <3>2, ParameterAssumption
      <4>2. (off + 1) % N = off + 1
        BY <4>1, PositionIsItself
      <4> QED
        BY <4>2
    <3> QED
      BY <3>1, <3>2, ParameterAssumption
  <2> QED
    BY <1>1, <1>2, <2>1 DEF Advanced
<1>3. CASE moved # off
  BY <1>1, <1>3 DEF Advanced
<1> QED
  BY <1>2, <1>3

-----------------------------------------------------------------------------
(* Types                                                                   *)

LEMMA RolesFit ==
    /\ Roles \subseteq AllRoles /\ SweptRoles \subseteq AllRoles /\ "kline" \in AllRoles
    /\ N \in Nat \ {0, 1} /\ MaxGen \in Nat
    /\ 0 \in 0..N-1 /\ 0 \in 0..N /\ N \in 0..N /\ 0 \in 0..MaxGen
    /\ 0..N-1 \subseteq 0..N /\ 1 \in 1..2
  BY ParameterAssumption DEF AllRoles

LEMMA ReturnsFit ==
    ASSUME TypeOK, NEW o \in Openers, Returns(o)
    PROVE  /\ pc' \in [Openers -> Places \cup SavePlaces] /\ role' \in [Openers -> AllRoles]
           /\ mine' \in [Openers -> 0..MaxGen] /\ round' \in [Openers -> 1..2]
           /\ start' \in [Openers -> 0..N-1] /\ tried' \in [Openers -> 0..N]
           /\ won' \in [Openers -> BOOLEAN] /\ alone' \in [Openers -> BOOLEAN]
  BY RolesFit DEF TypeOK, Returns, Places

LEMMA MovesFit ==
    ASSUME TypeOK, NEW o \in Openers, tried[o] < N, Moves(o)
    PROVE  start' \in [Openers -> 0..N-1] /\ tried' \in [Openers -> 0..N]
<1>1. offset[role[o]] \in 0..N-1
  BY DEF TypeOK
<1>2. StartOf(o) \in 0..N-1
  <2>1. offset[role[o]] % N \in 0..N-1
    BY <1>1, PositionFits, RolesFit
  <2>2. start[o] \in 0..N-1
    BY DEF TypeOK
  <2> QED
    BY <2>1, <2>2 DEF StartOf
<1>3. tried[o] + 1 \in 0..N
  BY RolesFit DEF TypeOK
<1> QED
  BY <1>2, <1>3 DEF Moves, TypeOK

LEMMA NoTable == [r \in AllRoles |-> N] \in Tables
  BY RolesFit DEF Tables

LEMMA InitTypes == Init => TypeOK
<1> SUFFICES ASSUME Init PROVE TypeOK
  OBVIOUS
<1> USE RolesFit
<1>1. NoEvidence \in Evidence
  BY DEF NoEvidence, Evidence, Support
<1>2. /\ offset \in [AllRoles -> 0..N-1] /\ file \in Tables /\ lastStart \in Tables
      /\ copy \in [Openers -> Tables] /\ used \in [AllRoles -> 0..MaxGen]
  BY NoTable DEF Init, Tables
<1>3. /\ pc \in [Openers -> Places \cup SavePlaces] /\ role \in [Openers -> AllRoles]
      /\ mine \in [Openers -> 0..MaxGen] /\ round \in [Openers -> 1..2]
      /\ start \in [Openers -> 0..N-1] /\ tried \in [Openers -> 0..N]
  BY DEF Init, Places
<1>4. won \in [Openers -> BOOLEAN] /\ alone \in [Openers -> BOOLEAN]
  BY DEF Init
<1> QED
  BY <1>1, <1>2, <1>3, <1>4 DEF Init, TypeOK

LEMMA RestartTypes ==
    ASSUME TypeOK, Restart
    PROVE  TypeOK'
<1> USE RolesFit
<1>1. evidence' \in Evidence
  BY DEF Restart, NoEvidence, Evidence, Support
<1>2. file' \in Tables
  BY NoTable DEF Restart, TypeOK
<1>3. offset' \in [AllRoles -> 0..N-1]
  BY <1>2 DEF Restart, Tables
<1>4. lastStart' \in Tables /\ copy' \in [Openers -> Tables]
  BY NoTable DEF Restart, TypeOK, Tables
<1>5. used' \in [AllRoles -> 0..MaxGen] /\ gen' \in 0..MaxGen /\ held' \subseteq AllRoles
  BY DEF Restart
<1>6. /\ pc' \in [Openers -> Places \cup SavePlaces] /\ role' \in [Openers -> AllRoles]
      /\ mine' \in [Openers -> 0..MaxGen] /\ round' \in [Openers -> 1..2]
      /\ start' \in [Openers -> 0..N-1] /\ tried' \in [Openers -> 0..N]
  BY DEF Restart, Places
<1>7. won' \in [Openers -> BOOLEAN] /\ alone' \in [Openers -> BOOLEAN]
  BY DEF Restart
<1> QED
  BY <1>1, <1>2, <1>3, <1>4, <1>5, <1>6, <1>7 DEF TypeOK

LEMMA OpenTypes ==
    ASSUME TypeOK, NEW o \in Openers, Open(o)
    PROVE  TypeOK'
<1> USE RolesFit DEF Places, SavePlaces
<1>1. CASE Authenticate(o)
  <2>1. evidence' \in Evidence
    BY <1>1, PassportFits DEF Authenticate, TypeOK
  <2>2. gen + 1 \in 0..MaxGen
    BY <1>1 DEF Authenticate, TypeOK
  <2> QED
    BY <1>1, <2>1, <2>2, ReturnsFit DEF Authenticate, NextPlace, TypeOK
<1>2. CASE UseCurrent(o)
  BY <1>2 DEF UseCurrent, NextPlace, TypeOK
<1>3. CASE HttpFails(o)
  BY <1>3, ReturnsFit DEF HttpFails, TypeOK
<1>4. CASE Probe(o)
  BY <1>4 DEF Probe, TypeOK
<1>5. CASE SaveReads(o)
  BY <1>5, NoTable DEF SaveReads, TypeOK
<1>6. CASE SaveWrites(o)
  <2>1. file' \in Tables
    BY <1>6 DEF SaveWrites, TypeOK, Tables
  <2>2. lastStart' \in Tables
    BY <1>6, NoTable DEF SaveWrites, TypeOK, Tables
  <2>3. copy' \in [Openers -> Tables]
    BY <1>6, NoTable DEF SaveWrites, TypeOK
  <2> QED
    BY <1>6, <2>1, <2>2, <2>3 DEF SaveWrites, TypeOK
<1>7. CASE TryFails(o)
  BY <1>7, MovesFit DEF TryFails, TypeOK
<1>8. CASE TryLogs(o)
  <2>1. won' \in [Openers -> BOOLEAN]
    <3>1. (role[o] \in BoardRoles) \in BOOLEAN
      OBVIOUS
    <3> QED
      BY <1>8, <3>1, Zenon DEF TryLogs, TypeOK
  <2>2. pc' \in [Openers -> Places \cup SavePlaces]
    BY <1>8 DEF TryLogs, TypeOK
  <2>3. start' \in [Openers -> 0..N-1] /\ tried' \in [Openers -> 0..N]
    BY <1>8, MovesFit DEF TryLogs
  <2> QED
    BY <1>8, <2>1, <2>2, <2>3 DEF TryLogs, TypeOK
<1>9. CASE TryDenied(o)
  <2>1. evidence' \in Evidence
    BY <1>9, Observed DEF TryDenied, TypeOK
  <2> QED
    BY <1>9, <2>1, MovesFit DEF TryDenied, TypeOK
<1>10. CASE TryStale(o)
  BY <1>10, MovesFit DEF TryStale, TypeOK
<1>11. CASE Denied(o)
  <2>1. evidence' \in Evidence
    BY <1>11, Observed DEF Denied, TypeOK
  <2> QED
    BY <1>11, <2>1 DEF Denied, TypeOK
<1>12. CASE Logged(o)
  <2>1. evidence' \in Evidence
    BY <1>12, Observed DEF Logged, TypeOK
  <2> QED
    BY <1>12, <2>1 DEF Logged, TypeOK
<1>13. CASE InitAnswers(o)
  <2>1. evidence' \in Evidence
    BY <1>13, Observed DEF InitAnswers, TypeOK
  <2> QED
    BY <1>13, <2>1, ReturnsFit DEF InitAnswers, TypeOK
<1>14. CASE InitTooSmall(o)
  BY <1>14 DEF InitTooSmall, TypeOK
<1>15. CASE Sweeps(o)
  <2>1. Advanced(offset[role[o]], tried[o], ~won[o]) \in 0..N-1
    BY AdvancedFits DEF TypeOK
  <2> QED
    BY <1>15, <2>1 DEF Sweeps, TypeOK, Tables
<1>16. CASE Again(o)
  <2>1. CASE round[o] = 1
    <3>1. /\ round' = [round EXCEPT ![o] = 2] /\ won' = [won EXCEPT ![o] = FALSE]
          /\ mine' = [mine EXCEPT ![o] = 0] /\ pc' = [pc EXCEPT ![o] = "auth"]
          /\ UNCHANGED <<account, rotation, held, role, start, tried, alone, history>>
      BY <1>16, <2>1, Zenon DEF Again
    <3>2. won' \in [Openers -> BOOLEAN]
      BY <3>1, Zenon DEF TypeOK
    <3>3. round' \in [Openers -> 1..2] /\ mine' \in [Openers -> 0..MaxGen]
          /\ pc' \in [Openers -> Places \cup SavePlaces]
      BY <3>1 DEF TypeOK
    <3> QED
      BY <3>1, <3>2, <3>3 DEF TypeOK
  <2>2. CASE round[o] # 1
    BY <1>16, <2>2, ReturnsFit DEF Again, TypeOK
  <2> QED
    BY <2>1, <2>2
<1>17. CASE LogsInOnce(o)
  <2>1. ASSUME NEW n \in 1..N
        PROVE  (offset["kline"] + n) % N \in 0..N-1
    <3>1. offset["kline"] + n \in Nat
      BY DEF TypeOK
    <3> QED
      BY <3>1, PositionFits
  <2>2. offset' \in [AllRoles -> 0..N-1]
    BY <1>17, <2>1 DEF LogsInOnce, TypeOK
  <2>3. evidence' \in Evidence
    BY <1>17, Observed DEF LogsInOnce, TypeOK
  <2> QED
    BY <1>17, <2>2, <2>3, ReturnsFit DEF LogsInOnce, TypeOK
<1>18. CASE BootFails(o)
  BY <1>18 DEF BootFails, TypeOK
<1>19. CASE BootAnswers(o)
  <2>1. evidence \in Evidence
    BY DEF TypeOK
  <2>2. evidence' \in Evidence
    BY <1>19, <2>1, Observed DEF BootAnswers
  <2> QED
    BY <1>19, <2>2, ReturnsFit DEF BootAnswers, TypeOK
<1>20. CASE Store(o)
  <2>1. used' \in [AllRoles -> 0..MaxGen]
    BY <1>20 DEF Store, TypeOK
  <2>2. held' \subseteq AllRoles
    BY <1>20 DEF Store, TypeOK
  <2> QED
    BY <1>20, <2>1, <2>2, ReturnsFit DEF Store, TypeOK
<1> QED
  BY <1>1, <1>2, <1>3, <1>4, <1>5, <1>6, <1>7, <1>8, <1>9, <1>10, <1>11, <1>12, <1>13,
     <1>14, <1>15, <1>16, <1>17, <1>18, <1>19, <1>20 DEF Open

LEMMA NextTypes == TypeOK /\ [Next]_vars => TypeOK'
<1> SUFFICES ASSUME TypeOK, [Next]_vars PROVE TypeOK'
  OBVIOUS
<1>1. ASSUME NEW o \in Openers, NEW r \in Roles, Begin(o, r)
      PROVE  TypeOK'
  BY <1>1, RolesFit DEF Begin, TypeOK, Places
<1>2. CASE UNCHANGED vars
  BY <1>2 DEF vars, control, TypeOK
<1> QED
  BY <1>1, <1>2, OpenTypes, RestartTypes DEF Next

\* Every variable of the openings keeps its type.
THEOREM TypeCorrect == Spec => []TypeOK
  BY InitTypes, NextTypes, PTL DEF Spec

-----------------------------------------------------------------------------
(* What stands is proved                                                   *)

\* Nothing that is observed later takes back the proof of a Level-2 socket: what
\* denies it contradicts, and is refused.
LEMMA ProvedStays ==
    ASSUME evidence \in Evidence, Proved, NEW f \in Fields, NEW s \in {"yes", "no"},
           f = "init" => s = "yes",
           evidence' = Recorded(evidence, f, s)
    PROVE  Proved'
<1> DEFINE candidate == [evidence EXCEPT ![f] = s]
<1>1. CASE Contradictory(candidate)
  BY <1>1 DEF Recorded, Proved
<1>2. CASE ~Contradictory(candidate)
  <2>1. evidence' = candidate
    BY <1>2 DEF Recorded
  <2>2. /\ f # "init" => candidate["init"] = "yes"
        /\ f # "manual" => candidate["manual"] = "yes"
        /\ candidate[f] = s
    BY DEF Proved, Evidence
  <2>3. f = "manual" => s = "yes"
    BY <1>2, <2>2 DEF Contradictory
  <2>4. candidate["init"] = "yes" /\ candidate["manual"] = "yes"
    BY <2>2, <2>3
  <2> QED
    BY <2>1, <2>4 DEF Proved
<1> QED
  BY <1>1, <1>2

\* The field a step writes, if it writes one.
Notes ==
    \/ evidence' = evidence
    \/ \E f \in Fields \ {"init"}, s \in {"yes", "no"} : evidence' = Recorded(evidence, f, s)
    \/ evidence' = Recorded(evidence, "init", "yes")

LEMMA FieldsAre == {"entitlement", "manual", "init", "realorder"} \subseteq Fields
  BY DEF Fields

LEMMA NotesKeep ==
    ASSUME TypeOK, Notes
    PROVE  /\ Proved => Proved'
           /\ evidence["manual"] # "unknown" => evidence'["manual"] # "unknown"
<1>0. evidence \in Evidence
  BY DEF TypeOK
<1>1. CASE evidence' = evidence
  BY <1>1 DEF Proved
<1>2. ASSUME NEW f \in Fields, NEW s \in {"yes", "no"}, f = "init" => s = "yes",
             evidence' = Recorded(evidence, f, s)
      PROVE  /\ Proved => Proved'
             /\ evidence["manual"] # "unknown" => evidence'["manual"] # "unknown"
  <2>1. Proved => Proved'
    BY <1>0, <1>2, ProvedStays
  <2>2. evidence["manual"] # "unknown" => evidence'["manual"] # "unknown"
    BY <1>0, <1>2 DEF Recorded, Evidence
  <2> QED
    BY <2>1, <2>2
<1>3. CASE evidence' = Recorded(evidence, "init", "yes")
  BY <1>2, <1>3, FieldsAre
<1>4. CASE \E f \in Fields \ {"init"}, s \in {"yes", "no"} : evidence' = Recorded(evidence, f, s)
  BY <1>2, <1>4
<1> QED
  BY <1>1, <1>3, <1>4 DEF Notes

LEMMA BootNotes ==
    ASSUME TypeOK, NEW o \in Openers, BootAnswers(o)
    PROVE  /\ Proved => Proved'
           /\ evidence["manual"] # "unknown" => evidence'["manual"] # "unknown"
<1> DEFINE step1 == IF "init" \in Proves(o) THEN Recorded(evidence, "init", "yes") ELSE evidence
           Both(e) == e["manual"] = "yes" /\ e["init"] = "yes"
<1>0. evidence \in Evidence
  BY DEF TypeOK
<1>1. step1 \in Evidence
  BY <1>0, Observed
<1>2. /\ Both(evidence) => Both(step1)
      /\ evidence["manual"] # "unknown" => step1["manual"] # "unknown"
  BY <1>0, FieldsAre DEF Recorded, Evidence
<1>3. evidence' = IF "manual" \in Proves(o) THEN Recorded(step1, "manual", "yes") ELSE step1
  BY DEF BootAnswers
<1>4. /\ Both(step1) => Both(evidence')
      /\ step1["manual"] # "unknown" => evidence'["manual"] # "unknown"
  BY <1>1, <1>3, FieldsAre DEF Recorded, Evidence
<1> QED
  BY <1>2, <1>4 DEF Proved

\* What a step of an opener leaves on record.
LEMMA OpenNotes ==
    ASSUME TypeOK, NEW o \in Openers, Open(o)
    PROVE  /\ Proved => Proved'
           /\ evidence["manual"] # "unknown" => evidence'["manual"] # "unknown"
<1> USE FieldsAre DEF Notes
<1>1. CASE Authenticate(o)
  <2>1. PICK says \in Says : evidence' = evidence \/ evidence' = RecordedPassport(evidence, says)
    BY <1>1 DEF Authenticate
  <2>2. says \in {"yes", "no", "unknown"}
    BY ParameterAssumption DEF Passports, Support
  <2> QED
    BY <2>1, <2>2, NotesKeep DEF RecordedPassport
<1>2. CASE BootAnswers(o)
  BY <1>2, BootNotes
<1>3. CASE TryDenied(o) \/ Denied(o) \/ Logged(o) \/ InitAnswers(o)
  BY <1>3, NotesKeep DEF TryDenied, Denied, Logged, InitAnswers
<1>4. CASE LogsInOnce(o)
  BY <1>4, NotesKeep DEF LogsInOnce
<1>5. CASE \/ UseCurrent(o) \/ HttpFails(o) \/ Probe(o) \/ SaveReads(o) \/ SaveWrites(o)
           \/ TryFails(o) \/ TryLogs(o) \/ TryStale(o)
  BY <1>5, NotesKeep DEF UseCurrent, HttpFails, Probe, SaveReads, SaveWrites, TryFails,
                             TryLogs, TryStale
<1>6. CASE InitTooSmall(o) \/ Sweeps(o) \/ Again(o) \/ BootFails(o) \/ Store(o)
  BY <1>6, NotesKeep DEF InitTooSmall, Sweeps, Again, BootFails, Store
<1> QED
  BY <1>1, <1>2, <1>3, <1>4, <1>5, <1>6 DEF Open

\* An opener's step, seen from its own place; the others' places are as they were.
LEMMA ProvedLocally ==
    ASSUME TypeOK, OpenersHaveProved, StandingHaveProved, NEW o \in Openers, Open(o),
           \A p \in Openers \ {o} : /\ pc'[p] = pc[p] /\ role'[p] = role[p] /\ won'[p] = won[p],
           held' = held \/ (pc[o] = "store" /\ held' = held \cup {role[o]}),
           /\ pc'[o] = "idle" => ~won'[o]
           /\ pc'[o] = "init" => evidence'["manual"] # "unknown"
           /\ pc'[o] = "boot" => role'[o] \in BoardRoles
           /\ role'[o] \in L2Roles /\ (won'[o] \/ pc'[o] = "store") => Proved'
    PROVE  OpenersHaveProved' /\ StandingHaveProved'
<1>1. OpenersHaveProved'
  <2> SUFFICES ASSUME NEW p \in Openers
               PROVE  /\ pc'[p] = "idle" => ~won'[p]
                      /\ pc'[p] = "init" => evidence'["manual"] # "unknown"
                      /\ pc'[p] = "boot" => role'[p] \in BoardRoles
                      /\ role'[p] \in L2Roles /\ (won'[p] \/ pc'[p] = "store") => Proved'
    BY DEF OpenersHaveProved
  <2>1. CASE p # o
    BY <2>1, OpenNotes DEF OpenersHaveProved
  <2>2. CASE p = o
    BY <2>2
  <2> QED
    BY <2>1, <2>2
<1>2. held' \cap L2Roles # {} => Proved'
  <2>1. held' \cap L2Roles # {} => Proved
    BY DEF StandingHaveProved, OpenersHaveProved
  <2> QED
    BY <2>1, OpenNotes
<1> QED
  BY <1>1, <1>2 DEF StandingHaveProved

LEMMA ProvedStep ==
    ASSUME TypeOK, EvidenceCoherent, OpenersHaveProved, StandingHaveProved,
           NEW o \in Openers, Open(o)
    PROVE  OpenersHaveProved' /\ StandingHaveProved'
<1> DEFINE Others == \A p \in Openers \ {o} :
              /\ pc'[p] = pc[p] /\ role'[p] = role[p] /\ won'[p] = won[p]
           Here == /\ pc'[o] = "idle" => ~won'[o]
                   /\ pc'[o] = "init" => evidence'["manual"] # "unknown"
                   /\ pc'[o] = "boot" => role'[o] \in BoardRoles
                   /\ role'[o] \in L2Roles /\ (won'[o] \/ pc'[o] = "store") => Proved'
           Keeps == held' = held \/ (pc[o] = "store" /\ held' = held \cup {role[o]})
<1> SUFFICES Others /\ Here /\ Keeps
  BY ProvedLocally
<1>a. /\ pc[o] = "idle" => ~won[o]
      /\ pc[o] = "init" => evidence["manual"] # "unknown"
      /\ pc[o] = "boot" => role[o] \in BoardRoles
      /\ role[o] \in L2Roles /\ (won[o] \/ pc[o] = "store") => Proved
  BY DEF OpenersHaveProved
<1>b. Proved => Proved'
  BY OpenNotes
<1>c. ASSUME Returns(o) PROVE Others /\ Here
  BY <1>c DEF Returns, TypeOK
<1>d. L2Roles \cap BoardRoles = {} /\ L2Roles \cap (RealRoles \cup {"kline"}) = {}
  BY DEF L2Roles, BoardRoles, RealRoles
<1> USE <1>a, <1>b, <1>c, <1>d
<1>1. CASE Authenticate(o) \/ UseCurrent(o) \/ HttpFails(o)
  BY <1>1 DEF Authenticate, UseCurrent, HttpFails, NextPlace, TypeOK
<1>2. CASE Probe(o) \/ SaveReads(o)
  BY <1>2 DEF Probe, SaveReads, TypeOK
<1>3. CASE SaveWrites(o)
  BY <1>3 DEF SaveWrites, TypeOK
<1>4. CASE TryFails(o) \/ TryLogs(o) \/ TryStale(o)
  BY <1>4 DEF TryFails, TryLogs, TryStale, TypeOK
<1>5. CASE TryDenied(o) \/ Denied(o)
  BY <1>5 DEF TryDenied, Denied, TypeOK
<1>6. CASE Logged(o)
  <2>1. CASE Refused(evidence, "manual", "yes")
    BY <1>6, <2>1 DEF Logged, TypeOK
  <2>2. CASE ~Refused(evidence, "manual", "yes")
    <3>1. evidence' = [evidence EXCEPT !["manual"] = "yes"]
      BY <1>6, <2>2 DEF Logged, Recorded, Refused
    <3>2. evidence'["manual"] # "unknown"
      BY <3>1, FieldsAre DEF TypeOK, Evidence
    <3> QED
      BY <1>6, <2>2, <3>2 DEF Logged, TypeOK
  <2> QED
    BY <2>1, <2>2
<1>7. CASE InitAnswers(o)
  <2>1. CASE Refused(evidence, "init", "yes")
    BY <1>7, <2>1 DEF InitAnswers, TypeOK
  <2>2. CASE ~Refused(evidence, "init", "yes")
    <3>1. evidence' = [evidence EXCEPT !["init"] = "yes"] /\ ~Contradictory(evidence')
      BY <1>7, <2>2 DEF InitAnswers, Recorded, Refused
    <3>2. evidence'["init"] = "yes" /\ evidence'["manual"] = evidence["manual"]
      BY <3>1, FieldsAre DEF TypeOK, Evidence
    <3>3. evidence["manual"] \in {"yes", "no"}
      BY <1>7, FieldsAre DEF InitAnswers, TypeOK, Evidence, Support
    <3>4. Proved'
      BY <3>1, <3>2, <3>3 DEF Contradictory, Proved
    <3> QED
      BY <1>7, <2>2, <3>4 DEF InitAnswers, TypeOK
  <2> QED
    BY <2>1, <2>2
<1>8. CASE InitTooSmall(o) \/ Sweeps(o)
  BY <1>8 DEF InitTooSmall, Sweeps, TypeOK
<1>9. CASE Again(o)
  BY <1>9 DEF Again, TypeOK
<1>10. CASE LogsInOnce(o)
  BY <1>10 DEF LogsInOnce, TypeOK
<1>11. CASE BootFails(o)
  BY <1>11 DEF BootFails, TypeOK
<1>12. CASE BootAnswers(o)
  <2>1. /\ Returns(o) \/ (/\ pc[o] = "boot" /\ pc' = [pc EXCEPT ![o] = "store"]
                          /\ UNCHANGED <<role, won>>)
        /\ held' = held
    BY <1>12 DEF BootAnswers
  <2> QED
    BY <2>1 DEF TypeOK
<1>13. CASE Store(o)
  BY <1>13 DEF Store, TypeOK
<1> QED
  BY <1>1, <1>2, <1>3, <1>4, <1>5, <1>6, <1>7, <1>8, <1>9, <1>10, <1>11, <1>12, <1>13 DEF Open

LEMMA ProvedNext ==
    TypeOK /\ EvidenceCoherent /\ OpenersHaveProved /\ StandingHaveProved /\ [Next]_vars
    => OpenersHaveProved' /\ StandingHaveProved'
<1> SUFFICES ASSUME TypeOK, EvidenceCoherent, OpenersHaveProved, StandingHaveProved, [Next]_vars
             PROVE  OpenersHaveProved' /\ StandingHaveProved'
  OBVIOUS
<1>1. ASSUME NEW o \in Openers, NEW r \in Roles, Begin(o, r)
      PROVE  OpenersHaveProved' /\ StandingHaveProved'
  <2>1. evidence' = evidence /\ won' = won /\ held' \subseteq held
    BY <1>1 DEF Begin
  <2>2. \A p \in Openers : \/ (pc'[p] = pc[p] /\ role'[p] = role[p])
                           \/ (pc'[p] = "auth" /\ role'[p] = r /\ p = o)
    BY <1>1 DEF Begin, TypeOK
  <2>3. ~won[o] /\ pc[o] = "idle"
    BY <1>1 DEF Begin, OpenersHaveProved
  <2>4. OpenersHaveProved'
    BY <2>1, <2>2, <2>3 DEF OpenersHaveProved, Proved
  <2>5. StandingHaveProved'
    BY <2>1 DEF StandingHaveProved, Proved
  <2> QED
    BY <2>4, <2>5
<1>2. CASE Restart
  BY <1>2 DEF Restart, OpenersHaveProved, StandingHaveProved, L2Roles
<1>3. CASE UNCHANGED vars
  BY <1>3 DEF vars, control, OpenersHaveProved, StandingHaveProved, Proved
<1> QED
  BY <1>1, <1>2, <1>3, ProvedStep DEF Next

\* While a Level-2 socket stands, its login and its handshake are on record and the
\* account's profile is a Level-2 one, for any number of openers, hosts and passports:
\* what another opener meets later cannot take it back.
THEOREM StandingIsProvedHolds == Spec => []StandingIsProved
<1>1. Init => OpenersHaveProved /\ StandingHaveProved
  BY DEF Init, OpenersHaveProved, StandingHaveProved, L2Roles
<1>2. TypeOK /\ StandingHaveProved => StandingIsProved
  BY DEF StandingHaveProved, StandingIsProved, Proved, MarketSupport, KindOf
<1> QED
  BY <1>1, <1>2, ProvedNext, TypeCorrect, EvidenceCoherentHolds, PTL DEF Spec

-----------------------------------------------------------------------------
(* The rotation                                                            *)

\* A step of an opener is its own, and it is at work.
LEMMA ReturnsIsLocal ==
    ASSUME TypeOK, NEW o \in Openers, Returns(o)
    PROVE  /\ \A p \in Openers \ {o} : /\ pc'[p] = pc[p] /\ role'[p] = role[p]
                                       /\ start'[p] = start[p] /\ tried'[p] = tried[p]
                                       /\ won'[p] = won[p] /\ alone'[p] = alone[p]
           /\ pc'[o] = "idle" /\ tried'[o] = 0
  BY DEF Returns, TypeOK

LEMMA OpenIsLocal ==
    ASSUME TypeOK, NEW o \in Openers, Open(o)
    PROVE  /\ pc[o] # "idle"
           /\ \A p \in Openers \ {o} : /\ pc'[p] = pc[p] /\ role'[p] = role[p]
                                       /\ tried'[p] = tried[p] /\ alone'[p] = alone[p]
           /\ pc'[o] # "idle" => alone'[o] = alone[o]
<1> USE ReturnsIsLocal DEF TypeOK
<1>1. CASE Authenticate(o) \/ UseCurrent(o) \/ HttpFails(o)
  BY <1>1 DEF Authenticate, UseCurrent, HttpFails
<1>2. CASE Probe(o) \/ SaveReads(o) \/ SaveWrites(o)
  BY <1>2 DEF Probe, SaveReads, SaveWrites
<1>3. CASE TryFails(o) \/ TryLogs(o) \/ TryDenied(o) \/ Denied(o) \/ TryStale(o)
  BY <1>3 DEF TryFails, TryLogs, TryDenied, Denied, TryStale, Moves
<1>4. CASE Logged(o) \/ InitTooSmall(o) \/ Sweeps(o)
  BY <1>4 DEF Logged, InitTooSmall, Sweeps, Swept
<1>5. CASE InitAnswers(o)
  BY <1>5 DEF InitAnswers
<1>6. CASE Again(o)
  BY <1>6 DEF Again
<1>7. CASE LogsInOnce(o) \/ BootFails(o)
  BY <1>7 DEF LogsInOnce, BootFails
<1>8. CASE BootAnswers(o)
  BY <1>8 DEF BootAnswers
<1>9. CASE Store(o)
  BY <1>9 DEF Store
<1> QED
  BY <1>1, <1>2, <1>3, <1>4, <1>5, <1>6, <1>7, <1>8, <1>9 DEF Open

LEMMA AloneNext == TypeOK /\ AloneIsAlone /\ [Next]_vars => AloneIsAlone'
<1> SUFFICES ASSUME TypeOK, AloneIsAlone, [Next]_vars PROVE AloneIsAlone'
  OBVIOUS
<1>1. ASSUME NEW o \in Openers, NEW r \in Roles, Begin(o, r)
      PROVE  AloneIsAlone'
  BY <1>1 DEF Begin, TypeOK, AloneIsAlone
<1>2. ASSUME NEW o \in Openers, Open(o)
      PROVE  AloneIsAlone'
  BY <1>2, OpenIsLocal DEF AloneIsAlone
<1>3. CASE Restart
  BY <1>3 DEF Restart, AloneIsAlone
<1>4. CASE UNCHANGED vars
  BY <1>4 DEF vars, control, AloneIsAlone
<1> QED
  BY <1>1, <1>2, <1>3, <1>4 DEF Next

LEMMA SweepsStep ==
    ASSUME TypeOK, SweepsAreOfHosts, NEW o \in Openers, Open(o)
    PROVE  SweepsAreOfHosts'
<1> DEFINE Goal ==
       /\ pc'[o] \in Sweeping \ {"sweep"} => tried'[o] > 0
       /\ tried'[o] > 0 => pc'[o] \in Sweeping /\ role'[o] \in SweptRoles
<1> SUFFICES Goal
  BY OpenIsLocal DEF SweepsAreOfHosts
<1>a. /\ pc \in [Openers -> Places \cup SavePlaces] /\ tried \in [Openers -> 0..N]
      /\ tried[o] \in 0..N
      /\ pc[o] \in Sweeping \ {"sweep"} => tried[o] > 0
      /\ tried[o] > 0 => pc[o] \in Sweeping /\ role[o] \in SweptRoles
  BY DEF TypeOK, SweepsAreOfHosts
<1>b. ASSUME Returns(o) PROVE Goal
  BY <1>b, ReturnsIsLocal DEF Sweeping
<1>c. ASSUME Moves(o) PROVE tried'[o] = tried[o] + 1
  BY <1>c DEF Moves, TypeOK
<1> USE <1>a, <1>b, <1>c DEF Sweeping
<1>1. CASE Authenticate(o) \/ UseCurrent(o) \/ HttpFails(o)
  BY <1>1 DEF Authenticate, UseCurrent, HttpFails, NextPlace
<1>2. CASE Probe(o) \/ SaveReads(o)
  BY <1>2 DEF Probe, SaveReads
<1>3. CASE SaveWrites(o)
  BY <1>3 DEF SaveWrites, TypeOK
<1>4. CASE TryFails(o) \/ TryLogs(o) \/ TryStale(o)
  BY <1>4 DEF TryFails, TryLogs, TryStale
<1>5. CASE TryDenied(o) \/ Denied(o)
  BY <1>5 DEF TryDenied, Denied
<1>6. CASE Logged(o) \/ InitTooSmall(o)
  BY <1>6 DEF Logged, InitTooSmall
<1>7. CASE Sweeps(o)
  BY <1>7, ParameterAssumption DEF Sweeps, Swept
<1>8. CASE InitAnswers(o)
  BY <1>8 DEF InitAnswers
<1>9. CASE Again(o)
  BY <1>9 DEF Again
<1>10. CASE LogsInOnce(o) \/ BootFails(o)
  BY <1>10 DEF LogsInOnce, BootFails, RealRoles, L2Roles, BoardRoles
<1>11. CASE BootAnswers(o)
  BY <1>11 DEF BootAnswers
<1>12. CASE Store(o)
  BY <1>12 DEF Store
<1> QED
  BY <1>1, <1>2, <1>3, <1>4, <1>5, <1>6, <1>7, <1>8, <1>9, <1>10, <1>11, <1>12 DEF Open

LEMMA SweepsNext == TypeOK /\ SweepsAreOfHosts /\ [Next]_vars => SweepsAreOfHosts'
<1> SUFFICES ASSUME TypeOK, SweepsAreOfHosts, [Next]_vars PROVE SweepsAreOfHosts'
  OBVIOUS
<1>1. ASSUME NEW o \in Openers, NEW r \in Roles, Begin(o, r)
      PROVE  SweepsAreOfHosts'
  BY <1>1 DEF Begin, TypeOK, SweepsAreOfHosts, Sweeping
<1>2. CASE Restart
  BY <1>2 DEF Restart, SweepsAreOfHosts, Sweeping
<1>3. CASE UNCHANGED vars
  BY <1>3 DEF vars, control, SweepsAreOfHosts
<1> QED
  BY <1>1, <1>2, <1>3, SweepsStep DEF Next

\* What has to be seen of an opener's step: its own place.
LEMMA InStepLocally ==
    ASSUME TypeOK, AloneIsAlone, SweepsAreOfHosts, NEW o \in Openers, Open(o),
           alone[o] /\ pc'[o] # "idle" =>
              /\ pc'[o] \notin {"swept_read", "swept_write"} /\ tried'[o] > 0 =>
                    start'[o] = offset'[role'[o]]
              /\ pc'[o] \in {"swept_read", "swept_write"} /\ ~won'[o] =>
                    start'[o] # offset'[role'[o]]
              /\ pc'[o] \in {"probe_write", "swept_write"} => copy'[o] = file'
    PROVE  AloneIsInStep'
<1>1. \A p \in Openers \ {o} : alone'[p] => pc'[p] = "idle"
  BY OpenIsLocal DEF AloneIsAlone
<1>2. \A p \in Openers : pc'[p] = "idle" => ~(tried'[p] > 0)
  BY SweepsStep DEF SweepsAreOfHosts, Sweeping
<1> QED
  BY <1>1, <1>2, OpenIsLocal DEF AloneIsInStep

\* Most steps leave the offsets, the file and its copies, and save nothing.
LEMMA QuietInStep ==
    ASSUME TypeOK, AloneIsAlone, SweepsAreOfHosts, AloneIsInStep, FailureMovedOn,
           NEW o \in Openers, Open(o),
           offset' = offset, file' = file, lastStart' = lastStart,
           pc'[o] # "idle" =>
              /\ pc'[o] \notin {"swept_read", "swept_write", "probe_write"}
              /\ role'[o] = role[o]
              /\ tried'[o] > 0 =>
                   \/ start'[o] = offset[role[o]]
                   \/ /\ pc[o] \notin {"swept_read", "swept_write"}
                      /\ tried[o] > 0 /\ start'[o] = start[o]
    PROVE  AloneIsInStep' /\ FailureMovedOn'
<1>1. AloneIsInStep'
  BY InStepLocally DEF AloneIsInStep
<1> QED
  BY <1>1 DEF FailureMovedOn

LEMMA MovesInStep ==
    ASSUME TypeOK, NEW o \in Openers, Moves(o)
    PROVE  start'[o] = offset[role[o]] \/ (tried[o] > 0 /\ start'[o] = start[o])
<1>1. offset[role[o]] % N = offset[role[o]]
  BY PositionIsItself DEF TypeOK
<1> QED
  BY <1>1 DEF Moves, StartOf, TypeOK

LEMMA SavesInStep ==
    ASSUME TypeOK, AloneIsAlone, SweepsAreOfHosts, AloneIsInStep, FailureMovedOn,
           NEW o \in Openers, SaveReads(o) \/ SaveWrites(o)
    PROVE  AloneIsInStep' /\ FailureMovedOn'
<1>0. Open(o)
  BY DEF Open
<1>1. CASE SaveReads(o)
  <2>1. alone[o] => ~Broken
    BY <1>1 DEF SaveReads, Broken, AloneIsAlone
  <2>2. alone[o] => copy'[o] = file
    BY <1>1, <2>1 DEF SaveReads, TypeOK
  <2>3. /\ pc'[o] = IF pc[o] = "probe_read" THEN "probe_write" ELSE "swept_write"
        /\ pc[o] \in {"probe_read", "swept_read"}
        /\ UNCHANGED <<offset, file, lastStart, role, start, tried, won>>
    BY <1>1 DEF SaveReads, TypeOK
  <2>4. AloneIsInStep'
    BY <1>0, <2>2, <2>3, InStepLocally DEF AloneIsInStep
  <2> QED
    BY <2>3, <2>4 DEF FailureMovedOn
<1>2. CASE SaveWrites(o)
  <2>1. /\ pc[o] \in {"probe_write", "swept_write"}
        /\ file' = [copy[o] EXCEPT ![role[o]] = offset[role[o]]]
        /\ offset' = offset /\ role' = role /\ tried'[o] = 0
        /\ pc'[o] \notin {"probe_write", "swept_read", "swept_write"}
    BY <1>2 DEF SaveWrites, TypeOK
  <2>2. AloneIsInStep'
    BY <1>0, <2>1, InStepLocally
  <2>3. CASE ~alone[o]
    <3>1. \A r \in AllRoles : lastStart'[r] = N
      BY <1>2, <2>3 DEF SaveWrites
    <3> QED
      BY <2>2, <3>1, ParameterAssumption DEF FailureMovedOn
  <2>4. CASE alone[o]
    <3>1. copy[o] = file
      BY <2>1, <2>4 DEF AloneIsInStep
    <3>2. \A r \in AllRoles : file'[r] = IF r = role[o] THEN offset[r] ELSE file[r]
      BY <2>1, <3>1 DEF TypeOK, Tables
    <3>3. CASE pc[o] = "swept_write" /\ ~won[o]
      <4>1. lastStart' = [lastStart EXCEPT ![role[o]] = start[o]]
        BY <1>2, <2>4, <3>3 DEF SaveWrites
      <4>2. start[o] # offset[role[o]] /\ role[o] \in SweptRoles
        BY <2>4, <3>3 DEF AloneIsInStep, SweepsAreOfHosts, Sweeping
      <4>3. \A r \in AllRoles : lastStart'[r] = IF r = role[o] THEN start[o] ELSE lastStart[r]
        BY <4>1 DEF TypeOK, Tables
      <4> QED
        BY <2>1, <2>2, <3>2, <4>2, <4>3 DEF FailureMovedOn
    <3>4. CASE ~(pc[o] = "swept_write" /\ ~won[o])
      <4>1. lastStart' = lastStart
        BY <1>2, <2>4, <3>4 DEF SaveWrites
      <4> QED
        BY <2>1, <2>2, <3>2, <4>1 DEF FailureMovedOn
    <3> QED
      BY <3>3, <3>4
  <2> QED
    BY <2>3, <2>4
<1> QED
  BY <1>1, <1>2

LEMMA SweepsInStep ==
    ASSUME TypeOK, AloneIsAlone, SweepsAreOfHosts, AloneIsInStep, FailureMovedOn,
           NEW o \in Openers, Sweeps(o)
    PROVE  AloneIsInStep' /\ FailureMovedOn'
<1>1. tried[o] \in 0..N /\ tried[o] > 0 /\ offset[role[o]] \in 0..N-1
  BY ParameterAssumption DEF Sweeps, Swept, SweepsAreOfHosts, Sweeping, TypeOK
<1>2. /\ offset' = [offset EXCEPT ![role[o]] = Advanced(@, tried[o], ~won[o])]
      /\ lastStart' = [lastStart EXCEPT ![role[o]] = N]
      /\ UNCHANGED <<file, role, start, tried, won>> /\ pc'[o] = "swept_read"
      /\ pc[o] \in {"sweep", "swept"}
  BY DEF Sweeps, Swept, TypeOK
<1>3. alone[o] => start[o] = offset[role[o]]
  BY <1>1, <1>2 DEF AloneIsInStep
<1>4. ~won[o] => Advanced(offset[role[o]], tried[o], ~won[o]) # offset[role[o]]
  <2>1. CASE ~won[o]
    <3>1. (~won[o]) = TRUE
      BY <2>1
    <3> QED
      BY <1>1, <3>1, AdvancedMoves
  <2> QED
    BY <2>1
<1>5. offset'[role[o]] = Advanced(offset[role[o]], tried[o], ~won[o])
  BY <1>2 DEF TypeOK
<1>6. AloneIsInStep'
  <2>1. Open(o)
    BY DEF Open
  <2>2. alone[o] /\ ~won'[o] => start'[o] # offset'[role'[o]]
    BY <1>2, <1>3, <1>4, <1>5
  <2> QED
    BY <1>2, <2>1, <2>2, InStepLocally
<1>7. FailureMovedOn'
  <2>1. lastStart'[role[o]] = N
    BY <1>2 DEF TypeOK, Tables
  <2>2. \A r \in AllRoles \ {role[o]} : lastStart'[r] = lastStart[r] /\ offset'[r] = offset[r]
    BY <1>2 DEF TypeOK, Tables
  <2> QED
    BY <1>2, <2>1, <2>2, ParameterAssumption DEF FailureMovedOn
<1> QED
  BY <1>6, <1>7

LEMMA RotationStep ==
    ASSUME TypeOK, AloneIsAlone, SweepsAreOfHosts, AloneIsInStep, FailureMovedOn,
           NEW o \in Openers, Open(o)
    PROVE  AloneIsInStep' /\ FailureMovedOn'
<1> DEFINE Goal == AloneIsInStep' /\ FailureMovedOn'
<1> DEFINE Quiet ==
       /\ offset' = offset /\ file' = file /\ lastStart' = lastStart
       /\ pc'[o] # "idle" =>
             /\ pc'[o] \notin {"swept_read", "swept_write", "probe_write"}
             /\ role'[o] = role[o]
             /\ tried'[o] > 0 =>
                  \/ start'[o] = offset[role[o]]
                  \/ /\ pc[o] \notin {"swept_read", "swept_write"}
                     /\ tried[o] > 0 /\ start'[o] = start[o]
<1>0. ASSUME Quiet PROVE Goal
  BY <1>0, QuietInStep
<1> SUFFICES ASSUME ~(SaveReads(o) \/ SaveWrites(o) \/ Sweeps(o)) PROVE Goal
  BY SavesInStep, SweepsInStep
<1>a. /\ pc \in [Openers -> Places \cup SavePlaces] /\ tried[o] \in 0..N
      /\ role \in [Openers -> AllRoles]
  BY DEF TypeOK
<1>b. Returns(o) => pc'[o] = "idle"
  BY ReturnsIsLocal
<1>c. Moves(o) => start'[o] = offset[role[o]] \/ (tried[o] > 0 /\ start'[o] = start[o])
  BY MovesInStep
<1> HIDE DEF Goal
<1> USE <1>0, <1>a, <1>b, <1>c
<1>1. CASE Authenticate(o) \/ UseCurrent(o) \/ HttpFails(o)
  BY <1>1 DEF Authenticate, UseCurrent, HttpFails, NextPlace
<1>2. CASE Probe(o)
  BY <1>2 DEF Probe
<1>3. CASE TryFails(o) \/ TryLogs(o) \/ TryStale(o)
  BY <1>3 DEF TryFails, TryLogs, TryStale
<1>4. CASE TryDenied(o) \/ Denied(o)
  BY <1>4 DEF TryDenied, Denied
<1>5. CASE Logged(o) \/ InitTooSmall(o)
  BY <1>5 DEF Logged, InitTooSmall
<1>6. CASE InitAnswers(o)
  BY <1>6 DEF InitAnswers
<1>7. CASE Again(o)
  BY <1>7 DEF Again
<1>8. CASE BootFails(o)
  BY <1>8 DEF BootFails
<1>9. CASE BootAnswers(o)
  BY <1>9 DEF BootAnswers
<1>10. CASE Store(o)
  BY <1>10 DEF Store
<1>11. CASE LogsInOnce(o)
  <2>1. /\ file' = file /\ lastStart' = lastStart /\ role[o] \notin SweptRoles
        /\ \A r \in SweptRoles : offset'[r] = offset[r]
    BY <1>11 DEF LogsInOnce, TypeOK, RealRoles, L2Roles, BoardRoles
  <2>2. pc'[o] \in {"idle", "store"} /\ ~(tried[o] > 0) /\ (pc'[o] # "idle" => tried' = tried)
    BY <1>11, <2>1 DEF LogsInOnce, SweepsAreOfHosts
  <2>3. AloneIsInStep'
    BY <2>2, InStepLocally
  <2> QED
    BY <2>1, <2>3 DEF FailureMovedOn, Goal
<1> QED
  BY <1>1, <1>2, <1>3, <1>4, <1>5, <1>6, <1>7, <1>8, <1>9, <1>10, <1>11 DEF Open

Rotates == AloneIsAlone /\ SweepsAreOfHosts /\ AloneIsInStep /\ FailureMovedOn

LEMMA RotationInit == Init => Rotates
<1> SUFFICES ASSUME Init PROVE Rotates
  OBVIOUS
<1>1. AloneIsAlone /\ SweepsAreOfHosts /\ AloneIsInStep
  BY DEF Init, AloneIsAlone, SweepsAreOfHosts, Sweeping, AloneIsInStep
<1>2. FailureMovedOn
  BY ParameterAssumption DEF Init, FailureMovedOn
<1> QED
  BY <1>1, <1>2 DEF Rotates

LEMMA RotationNext == TypeOK /\ Rotates /\ [Next]_vars => Rotates'
<1> SUFFICES ASSUME TypeOK, Rotates, [Next]_vars PROVE Rotates'
  OBVIOUS
<1>1. AloneIsAlone' /\ SweepsAreOfHosts'
  BY AloneNext, SweepsNext DEF Rotates
<1>2. ASSUME NEW o \in Openers, NEW r \in Roles, Begin(o, r)
      PROVE  AloneIsInStep' /\ FailureMovedOn'
  <2>1. /\ \A p \in Openers : alone'[p] => pc[p] = "idle"
        /\ UNCHANGED <<offset, file, copy, lastStart, tried, start, won>>
        /\ pc' = [pc EXCEPT ![o] = "auth"] /\ pc[o] = "idle"
    BY <1>2 DEF Begin, TypeOK
  <2>2. \A p \in Openers : alone'[p] => pc'[p] \in {"idle", "auth"}
    BY <2>1 DEF TypeOK
  <2>3. \A p \in Openers : alone'[p] => ~(tried'[p] > 0)
    BY <2>2, <1>1 DEF SweepsAreOfHosts, Sweeping
  <2> QED
    BY <2>1, <2>2, <2>3 DEF Rotates, AloneIsInStep, FailureMovedOn
<1>3. CASE Restart
  <2>1. AloneIsInStep'
    BY <1>3 DEF Restart, AloneIsInStep
  <2>2. ASSUME NEW r \in AllRoles, lastStart'[r] < N
        PROVE  r \in SweptRoles /\ file'[r] = offset'[r] /\ offset'[r] # lastStart'[r]
    <3>1. /\ \A o \in Openers : pc[o] = "idle"
          /\ file[r] < N /\ lastStart'[r] = lastStart[r]
      BY <1>3, <2>2, ParameterAssumption DEF Restart
    <3>2. ~Broken
      BY <3>1 DEF Broken
    <3>3. file' = file /\ offset'[r] = file[r]
      BY <1>3, <3>1, <3>2 DEF Restart
    <3> QED
      BY <2>2, <3>1, <3>3 DEF Rotates, FailureMovedOn
  <2>3. FailureMovedOn'
    BY <2>2 DEF FailureMovedOn
  <2> QED
    BY <1>1, <2>1, <2>3 DEF Rotates
<1>4. CASE UNCHANGED vars
  <2>1. AloneIsInStep' /\ FailureMovedOn'
    BY <1>4 DEF vars, control, Rotates, AloneIsInStep, FailureMovedOn
  <2> QED
    BY <1>1, <2>1 DEF Rotates
<1>5. ASSUME NEW o \in Openers, Open(o)
      PROVE  AloneIsInStep' /\ FailureMovedOn'
  BY <1>5, RotationStep DEF Rotates
<1> QED
  BY <1>1, <1>2, <1>3, <1>4, <1>5 DEF Next, Rotates

\* The host that a failed sweep began with is not the one the next sweep of the role
\* begins with, in this process or in one that read the file it left; of sweeps that
\* nothing overlaps, for any numbers of hosts, roles and openers.
THEOREM RotationMovesHolds == Spec => RotationMoves
<1>1. ASSUME TypeOK, Rotates, [Next]_vars, NEW o \in Openers,
             alone[o], tried[o] = 0, tried'[o] = 1, lastStart[role[o]] < N
      PROVE  start'[o] # lastStart[role[o]]
  <2>1. offset[role[o]] # lastStart[role[o]] /\ role[o] \in AllRoles
    BY <1>1 DEF Rotates, FailureMovedOn, TypeOK
  <2>2. ASSUME Moves(o) PROVE start'[o] = offset[role[o]]
    BY <1>1, <2>2, MovesInStep
  <2>3. ASSUME NEW p \in Openers, Open(p), p # o
        PROVE  tried'[o] = tried[o]
    BY <1>1, <2>3, OpenIsLocal
  <2>4. CASE Open(o)
    <3>1. CASE TryFails(o) \/ TryLogs(o) \/ TryDenied(o) \/ TryStale(o)
      BY <2>1, <2>2, <3>1 DEF TryFails, TryLogs, TryDenied, TryStale
    <3>2. ASSUME ~(TryFails(o) \/ TryLogs(o) \/ TryDenied(o) \/ TryStale(o))
          PROVE  tried'[o] = tried[o] \/ tried'[o] = 0
      <4> USE ReturnsIsLocal DEF TypeOK
      <4>1. CASE Authenticate(o) \/ UseCurrent(o) \/ HttpFails(o)
        BY <1>1, <4>1 DEF Authenticate, UseCurrent, HttpFails
      <4>2. CASE Probe(o) \/ SaveReads(o) \/ SaveWrites(o)
        BY <1>1, <4>2 DEF Probe, SaveReads, SaveWrites
      <4>3. CASE Denied(o) \/ Logged(o) \/ InitTooSmall(o) \/ Sweeps(o)
        BY <1>1, <4>3 DEF Denied, Logged, InitTooSmall, Sweeps
      <4>4. CASE InitAnswers(o)
        BY <1>1, <4>4 DEF InitAnswers
      <4>5. CASE Again(o)
        BY <1>1, <4>5 DEF Again
      <4>6. CASE LogsInOnce(o) \/ BootFails(o)
        BY <1>1, <4>6 DEF LogsInOnce, BootFails
      <4>7. CASE BootAnswers(o)
        BY <1>1, <4>7 DEF BootAnswers
      <4>8. CASE Store(o)
        BY <1>1, <4>8 DEF Store
      <4> QED
        BY <2>4, <3>2, <4>1, <4>2, <4>3, <4>4, <4>5, <4>6, <4>7, <4>8 DEF Open
    <3> QED
      BY <1>1, <3>1, <3>2
  <2>5. ASSUME NEW p \in Openers, NEW r \in Roles, Begin(p, r)
        PROVE  tried' = tried
    BY <2>5 DEF Begin
  <2>6. CASE Restart
    BY <1>1, <2>6 DEF Restart
  <2>7. CASE UNCHANGED vars
    BY <1>1, <2>7 DEF vars, control
  <2> QED
    BY <1>1, <2>3, <2>4, <2>5, <2>6, <2>7 DEF Next
<1>2. TypeOK /\ Rotates /\ [Next]_vars =>
        [\A o \in Openers :
            alone[o] /\ tried[o] = 0 /\ tried'[o] = 1 /\ lastStart[role[o]] < N
            => start'[o] # lastStart[role[o]]]_vars
  BY <1>1
<1> QED
  BY <1>2, RotationInit, RotationNext, TypeCorrect, PTL DEF Spec, RotationMoves

HIDE DEF account, rotation, history, Goto, SweptRoles

-----------------------------------------------------------------------------
(* The requests over a connection: the plans                               *)

\* What the read loops have in common: which fields go together in a plan.
PlanIsSound(p) ==
    /\ p.family # "size"
    /\ p.parts \in Nat \ {0} /\ p.rounds \in 1 .. 3
    /\ p.registers \in BOOLEAN
    /\ p.manage \in {"no", "replace", "add", "clear"}
    /\ p.more \in {"one", "pages", "twice", "phases", "fragments"}
    /\ p.unread \in {"fails", "empty"} /\ p.bare \in {"empty", "fails"}
    /\ p.breaks \in {"os", "empty", "fails", "ends"}
    /\ p.alien # "take" /\ p.broken \notin {"take", "empty"}
    /\ p.by = "code" => p.more \in {"one", "phases"}
    /\ p.trusts \subseteq {"none", "odd", "unlabelled"}
    /\ "none" \in p.trusts => p.none # "take"
    /\ "odd" \in p.trusts => p.odd # "take"
    /\ p.by = "seq" => /\ p.parts = 1 /\ p.rounds = 1 /\ p.more \in {"one", "pages"}
    /\ p.odd = "saw" /\ p.unread = "fails" =>
          /\ p.rounds = 1 /\ p.none # "empty" /\ p.alien # "empty" /\ p.late # "empty"
          /\ p.breaks # "empty" /\ ~p.sizeEnds
          /\ p.more = "pages" => p.by = "seq"
          /\ p.more # "twice"

LEMMA OrdersAreSound ==
    /\ PlanIsSound(BseSuperorderDay)
    /\ PlanIsSound(BseTickWindow)
    /\ PlanIsSound(Superorder)
    /\ PlanIsSound(SnapshotReplay)
    /\ PlanIsSound(OrderDetails)
    /\ PlanIsSound(OrderQueue)
    /\ PlanIsSound(OrderQueues)
  BY LimitAssumption DEF PlanIsSound, BseSuperorderDay, Awaits, Reads,
                                      BseTickWindow, Superorder,
                                      SnapshotReplay, OrderDetails,
                                      OrderDetailOne, OrderQueue, OrderQueues

LEMMA QuotesAreSound ==
    /\ PlanIsSound(ListQuotes)
    /\ PlanIsSound(DepthTen)
    /\ PlanIsSound(MarketSnapshot)
    /\ PlanIsSound(Timeline)
    /\ PlanIsSound(HistoryTimeline)
    /\ PlanIsSound(BseHistoryTimeline)
    /\ PlanIsSound(Kline)
    /\ PlanIsSound(StatsCalc)
    /\ PlanIsSound(CalcExt)
  BY LimitAssumption DEF PlanIsSound, ListQuotes, Reads, DepthTen, Awaits,
                                      MarketSnapshot, Timeline,
                                      HistoryTimeline, BseHistoryTimeline,
                                      Kline, StatsCalc, CalcExt

LEMMA AuctionsAreSound ==
    /\ PlanIsSound(Intraday)
    /\ PlanIsSound(IntradayAuctions)
    /\ PlanIsSound(PastAuction)
    /\ PlanIsSound(Auction)
    /\ PlanIsSound(ClosingAuction)
  BY LimitAssumption DEF PlanIsSound, Intraday, IntradayBundle, Reads,
                                      IntradayAuctions, PastAuction, Auction,
                                      ClosingAuction

LEMMA RankingsAreSound ==
    /\ PlanIsSound(RankedMain)
    /\ PlanIsSound(RankedL2)
    /\ PlanIsSound(DdeRanked)
    /\ PlanIsSound(DdeLevel2)
    /\ PlanIsSound(FullList)
  BY LimitAssumption DEF PlanIsSound, RankedMain, Reads, RankedL2, DdeRanked,
                                      DdeLevel2, FullList

LEMMA ListsAreSound ==
    /\ PlanIsSound(ListReplace)
    /\ PlanIsSound(ListDelta)
    /\ PlanIsSound(ListClear)
    /\ PlanIsSound(ListQuery)
  BY LimitAssumption DEF PlanIsSound, ListReplace, ListExchange, Reads,
                                      ListDelta, ListClear, ListQuery

LEMMA BoardsAreSound ==
    /\ PlanIsSound(BoardQuotes)
    /\ PlanIsSound(BoardQuotesAll)
    /\ PlanIsSound(HotBoards)
    /\ PlanIsSound(HotBoardsAll)
    /\ PlanIsSound(HotBoardsSorted)
    /\ PlanIsSound(BoardTimeline)
    /\ PlanIsSound(BoardKline)
    /\ PlanIsSound(BoardAuction)
    /\ PlanIsSound(ConstituentsL2)
    /\ PlanIsSound(Constituents)
  BY LimitAssumption DEF PlanIsSound, BoardQuotes, Board, Reads,
                                      BoardQuotesAll, BoardAll, HotBoards,
                                      HotBoardsAll, HotBoardsSorted,
                                      BoardTimeline, BoardKline, BoardAuction,
                                      ConstituentsL2, Constituents

LEMMA PlansAreSound == \A name \in Services : PlanIsSound(PlanOf(name))
  BY OrdersAreSound, QuotesAreSound, AuctionsAreSound, RankingsAreSound, ListsAreSound,
     BoardsAreSound DEF PlanOf, Plans, Services

-----------------------------------------------------------------------------
(* Writing a call's record                                                 *)

Stages == {"idle", "register", "ask", "read", "apply", "done"}
Results == {"none", "rows", "empty", "fails", "late", "os"}
RowLists == Seq(Items)

LEMMA CallFields ==
    ASSUME NEW r \in CallRecords
    PROVE  /\ r.at \in Stages /\ r.name \in Services \cup {"none"}
           /\ r.code \in Codes \cup {"none"} /\ r.round \in 1 .. 3 /\ r.ask \in Nat
           /\ r.seq \in 0 .. SeqMod - 1 /\ r.from \in Nat /\ r.left \in 0 .. FrameLimit
           /\ r.got \in RowLists /\ r.sent \in Nat /\ r.res \in Results
           /\ r.full \in BOOLEAN /\ r.saw \in BOOLEAN /\ r.drift \in BOOLEAN
  BY Zenon DEF CallRecords, Stages, Results, RowLists

\* What a write leaves alone.
Keeps(new, r) == new.name = r.name /\ new.code = r.code
KeepsNumber(new, r) == new.ask = r.ask /\ new.seq = r.seq

LEMMA IdleFits == Idle \in CallRecords
  BY LimitAssumption, SequenceAssumption, EmptySeq DEF Idle, CallRecords

Begun(at, name, code) == [Idle EXCEPT !.at = at, !.name = name, !.code = code]

LEMMA BeginFits ==
    ASSUME NEW at \in {"register", "ask"}, NEW name \in Services, NEW code \in Codes
    PROVE  LET new == Begun(at, name, code) IN
           /\ new \in CallRecords
           /\ new.at = at /\ new.name = name /\ new.code = code
           /\ new.got = <<>> /\ new.from = 0 /\ new.res = "none"
  BY IdleFits DEF Idle, CallRecords, Begun

LEMMA PlaceFits ==
    ASSUME NEW r \in CallRecords, NEW at \in Stages
    PROVE  LET new == [r EXCEPT !.at = at] IN
           /\ new \in CallRecords /\ Keeps(new, r) /\ KeepsNumber(new, r)
           /\ new.at = at /\ new.got = r.got /\ new.from = r.from /\ new.saw = r.saw
           /\ new.res = r.res /\ new.full = r.full
  BY DEF CallRecords, Stages, Keeps, KeepsNumber

LEMMA SkipFits ==
    ASSUME NEW r \in CallRecords
    PROVE  LET new == [r EXCEPT !.at = "done", !.res = "empty"] IN
           /\ new \in CallRecords /\ Keeps(new, r) /\ KeepsNumber(new, r)
           /\ new.at = "done" /\ new.got = r.got /\ new.from = r.from
  BY DEF CallRecords, Keeps, KeepsNumber

LEMMA RoundFits ==
    ASSUME NEW r \in CallRecords, NEW at \in {"register", "ask"}, r.round < 3
    PROVE  LET new == [r EXCEPT !.at = at, !.round = @ + 1, !.got = <<>>, !.saw = FALSE] IN
           /\ new \in CallRecords /\ Keeps(new, r) /\ KeepsNumber(new, r)
           /\ new.at = at /\ new.got = <<>> /\ new.res = r.res
<1>1. r.round + 1 \in 1 .. 3
  BY CallFields
<1>2. <<>> \in Seq(Items)
  BY EmptySeq
<1>3. [r EXCEPT !.at = at, !.round = @ + 1, !.got = <<>>, !.saw = FALSE] \in CallRecords
  BY <1>1, <1>2 DEF CallRecords
<1> QED
  BY <1>3 DEF CallRecords, Keeps, KeepsNumber

Ended(r, at, got, res) == [r EXCEPT !.at = at, !.got = got, !.res = res, !.left = 0]

LEMMA EndFits ==
    ASSUME NEW r \in CallRecords, NEW at \in {"apply", "done"}, NEW got \in RowLists,
           NEW res \in Results
    PROVE  LET new == Ended(r, at, got, res) IN
           /\ new \in CallRecords /\ Keeps(new, r) /\ KeepsNumber(new, r)
           /\ new.at = at /\ new.got = got /\ new.res = res
<1>1. 0 \in 0 .. FrameLimit
  BY LimitAssumption
<1>2. Ended(r, at, got, res) \in CallRecords
  BY <1>1 DEF CallRecords, RowLists, Results, Ended
<1> QED
  BY <1>2 DEF CallRecords, Keeps, KeepsNumber, Ended

Sending(r, ask, seq) ==
    [r EXCEPT !.at = "read", !.ask = ask, !.seq = seq, !.left = FrameLimit, !.sent = @ + 1]

LEMMA AskFits ==
    ASSUME NEW r \in CallRecords, NEW ask \in Nat, NEW seq \in 0 .. SeqMod - 1
    PROVE  LET new == Sending(r, ask, seq) IN
           /\ new \in CallRecords /\ Keeps(new, r)
           /\ new.at = "read" /\ new.ask = ask /\ new.seq = seq
           /\ new.got = r.got /\ new.from = r.from /\ new.res = r.res
<1>1. FrameLimit \in 0 .. FrameLimit /\ r.sent + 1 \in Nat
  BY LimitAssumption, CallFields
<1>2. Sending(r, ask, seq) \in CallRecords
  BY <1>1 DEF CallRecords, RowLists, Sending
<1> QED
  BY <1>2 DEF CallRecords, RowLists, Keeps, Sending

LEMMA CountFits ==
    ASSUME NEW r \in CallRecords, r.left > 0
    PROVE  LET new == [r EXCEPT !.left = @ - 1] IN
           /\ new \in CallRecords /\ Keeps(new, r) /\ KeepsNumber(new, r)
           /\ new.at = r.at /\ new.got = r.got /\ new.from = r.from /\ new.saw = r.saw
           /\ new.res = r.res
<1>1. r.left - 1 \in 0 .. FrameLimit
  BY LimitAssumption, CallFields
<1>2. [r EXCEPT !.left = @ - 1] \in CallRecords
  BY <1>1 DEF CallRecords, RowLists
<1> QED
  BY <1>2 DEF CallRecords, RowLists, Keeps, KeepsNumber

LEMMA SawFits ==
    ASSUME NEW r \in CallRecords
    PROVE  LET new == [r EXCEPT !.saw = TRUE] IN
           /\ new \in CallRecords /\ Keeps(new, r) /\ KeepsNumber(new, r)
           /\ new.at = r.at /\ new.got = r.got /\ new.from = r.from /\ new.saw
           /\ new.left = r.left /\ new.res = r.res
  BY DEF CallRecords, RowLists, Keeps, KeepsNumber

LEMMA GotFits ==
    ASSUME NEW r \in CallRecords, NEW got \in RowLists
    PROVE  LET new == [r EXCEPT !.got = got] IN
           /\ new \in CallRecords /\ Keeps(new, r) /\ KeepsNumber(new, r)
           /\ new.at = r.at /\ new.got = got /\ new.from = r.from /\ new.saw = r.saw
           /\ new.left = r.left /\ new.res = r.res
  BY DEF CallRecords, RowLists, Keeps, KeepsNumber

Paged(r, got, from) == [r EXCEPT !.got = got, !.from = from]
Filled(r, got) == [r EXCEPT !.got = got, !.full = TRUE]

LEMMA PageFits ==
    ASSUME NEW r \in CallRecords, NEW got \in RowLists, NEW from \in Nat
    PROVE  LET new == Paged(r, got, from) IN
           /\ new \in CallRecords /\ Keeps(new, r) /\ new.got = got /\ new.from = from
           /\ new.res = r.res
  BY DEF CallRecords, RowLists, Keeps, Paged

LEMMA FullFits ==
    ASSUME NEW r \in CallRecords, NEW got \in RowLists
    PROVE  LET new == Filled(r, got) IN
           new \in CallRecords /\ Keeps(new, r) /\ new.got = got /\ new.res = r.res
  BY DEF CallRecords, RowLists, Keeps, Filled

LEMMA DriftFits ==
    ASSUME NEW r \in CallRecords
    PROVE  LET new == [r EXCEPT !.drift = TRUE] IN
           new \in CallRecords /\ Keeps(new, r) /\ new.got = r.got /\ new.res = r.res
  BY DEF CallRecords, Keeps

-----------------------------------------------------------------------------
(* Rows of a page                                                          *)

\* A page of n rows, from the one it was asked for.
LEMMA PageRowsFit ==
    ASSUME NEW f \in Frames
    PROVE  \E n \in Nat : PageRows(f) = [i \in 1 .. n |-> Item(f, f.of.from + i)]
<1> DEFINE size == IF f.of.whole \/ f.of.from + PageSize > Total
                   THEN Total - f.of.from ELSE PageSize
<1>1. f.of.from \in Nat
  BY DEF Frames, Requests
<1>2. size \in Int
  BY <1>1, LimitAssumption
<1>3. CASE f.rows = "none"
  <2>1. PageRows(f) = [i \in 1 .. 0 |-> Item(f, f.of.from + i)]
    BY <1>3 DEF PageRows
  <2> QED
    BY <2>1
<1>4. CASE f.rows # "none" /\ size \in Nat
  BY <1>4 DEF PageRows
<1>5. CASE f.rows # "none" /\ size \notin Nat
  <2>1. 1 .. size = 1 .. 0
    BY <1>2, <1>5
  <2>2. PageRows(f) = [i \in 1 .. size |-> Item(f, f.of.from + i)]
    BY <1>5 DEF PageRows
  <2>3. PageRows(f) = [i \in 1 .. 0 |-> Item(f, f.of.from + i)]
    BY <2>1, <2>2
  <2> QED
    BY <2>3
<1> QED
  BY <1>3, <1>4, <1>5

LEMMA ItemFits ==
    ASSUME NEW f \in Frames, NEW row \in Nat
    PROVE  /\ Item(f, row) \in Items
           /\ Item(f, row).ask = f.of.ask /\ Item(f, row).code = f.of.code
           /\ Item(f, row).row = row /\ Item(f, row).torn = f.torn
<1>1. f.of \in Requests /\ f.torn \in BOOLEAN
  BY DEF Frames
<1>2. f.of.ask \in Nat /\ f.of.code \in Codes \cup {"none"}
  BY <1>1 DEF Requests
<1> QED
  BY <1>1, <1>2 DEF Item, Items

LEMMA PageRowsAre ==
    ASSUME NEW f \in Frames
    PROVE  /\ PageRows(f) \in Seq(Items)
           /\ \A i \in DOMAIN PageRows(f) : PageRows(f)[i].row = f.of.from + i
<1>1. PICK n \in Nat : PageRows(f) = [i \in 1 .. n |-> Item(f, f.of.from + i)]
  BY PageRowsFit
<1>2. ASSUME NEW i \in 1 .. n
      PROVE  Item(f, f.of.from + i) \in Items /\ Item(f, f.of.from + i).row = f.of.from + i
  <2>1. f.of.from + i \in Nat
    BY DEF Frames, Requests
  <2> QED
    BY <2>1, ItemFits
<1>3. [i \in 1 .. n |-> Item(f, f.of.from + i)] \in Seq(Items)
  BY <1>2, IsASeq
<1> QED
  BY <1>1, <1>2, <1>3

\* The place of an element among those of a finite set of numbers.
LEMMA UptoIsFinite ==
    ASSUME NEW n \in Nat, NEW S, S \subseteq 1 .. n, NEW i \in Nat
    PROVE  /\ IsFiniteSet(S) /\ IsFiniteSet(Upto(S, i))
           /\ Cardinality(S) \in Nat /\ Cardinality(Upto(S, i)) \in Nat
           /\ Cardinality(Upto(S, i)) <= Cardinality(S)
<1>1. IsFiniteSet(1 .. n)
  <2>1. 1 \in Int /\ n \in Int
    OBVIOUS
  <2> QED
    BY <2>1, FS_Interval
<1>2. IsFiniteSet(S)
  BY <1>1, FS_Subset
<1>3. Upto(S, i) \subseteq S
  BY DEF Upto
<1> QED
  BY <1>2, <1>3, FS_Subset, FS_CardinalityType

LEMMA UptoGrows ==
    ASSUME NEW n \in Nat, NEW S, S \subseteq 1 .. n, NEW a \in S, NEW b \in S, a < b
    PROVE  Cardinality(Upto(S, a)) < Cardinality(Upto(S, b))
<1>1. a \in Nat /\ b \in Nat /\ \A k \in S : k \in Nat
  OBVIOUS
<1>2. Upto(S, a) \subseteq Upto(S, b) /\ b \in Upto(S, b) /\ b \notin Upto(S, a)
  <2>1. \A k \in S : k <= a => k <= b
    BY <1>1
  <2>2. b <= b /\ ~(b <= a)
    BY <1>1
  <2> QED
    BY <2>1, <2>2 DEF Upto
<1>3. IsFiniteSet(Upto(S, b)) /\ Cardinality(Upto(S, b)) \in Nat
  BY <1>1, UptoIsFinite
<1>4. Cardinality(Upto(S, a)) \in Nat
  BY <1>1, UptoIsFinite
<1>5. /\ Cardinality(Upto(S, a)) <= Cardinality(Upto(S, b))
      /\ Cardinality(Upto(S, a)) = Cardinality(Upto(S, b)) => Upto(S, a) = Upto(S, b)
  BY <1>2, <1>3, FS_Subset
<1> QED
  BY <1>2, <1>3, <1>4, <1>5

\* Every place is taken.
LEMMA PlacesAreTaken ==
    ASSUME NEW n \in Nat, NEW S, S \subseteq 1 .. n, NEW k \in 1 .. Cardinality(S)
    PROVE  \E i \in S : Cardinality(Upto(S, i)) = k
<1> DEFINE T == 1 .. Cardinality(S)
           place == [i \in S |-> Cardinality(Upto(S, i))]
<1>1. Cardinality(S) \in Nat /\ IsFiniteSet(S)
  BY UptoIsFinite
<1>2. ASSUME NEW i \in S
      PROVE  Cardinality(Upto(S, i)) \in T
  <2>1. i \in Nat /\ i \in Upto(S, i)
    BY DEF Upto
  <2>2. /\ IsFiniteSet(Upto(S, i)) /\ Cardinality(Upto(S, i)) \in Nat
        /\ Cardinality(Upto(S, i)) <= Cardinality(S)
    BY <2>1, UptoIsFinite
  <2>3. Cardinality(Upto(S, i)) # 0
    BY <2>1, <2>2, FS_EmptySet
  <2> QED
    BY <1>1, <2>2, <2>3
<1>3. ASSUME NEW a \in S, NEW b \in S, place[a] = place[b]
      PROVE  a = b
  <2>1. a \in Nat /\ b \in Nat
    OBVIOUS
  <2>2. Cardinality(Upto(S, a)) \in Nat /\ Cardinality(Upto(S, b)) \in Nat
    BY <2>1, UptoIsFinite
  <2>3. Cardinality(Upto(S, a)) = Cardinality(Upto(S, b))
    BY <1>3
  <2>4. ~(a < b)
    <3>1. a < b => Cardinality(Upto(S, a)) < Cardinality(Upto(S, b))
      BY UptoGrows
    <3> QED
      BY <2>2, <2>3, <3>1
  <2>5. ~(b < a)
    <3>1. b < a => Cardinality(Upto(S, b)) < Cardinality(Upto(S, a))
      BY UptoGrows
    <3> QED
      BY <2>2, <2>3, <3>1
  <2> QED
    BY <2>1, <2>4, <2>5
<1>4. place \in Injection(S, T)
  BY <1>2, <1>3 DEF Injection, IsInjective
<1>5. IsFiniteSet(T) /\ Cardinality(T) = Cardinality(S)
  <2>1. 1 \in Int /\ Cardinality(S) \in Int
    BY <1>1
  <2> HIDE DEF T
  <2>2. IsFiniteSet(1 .. Cardinality(S)) /\ Cardinality(1 .. Cardinality(S)) =
          IF 1 > Cardinality(S) THEN 0 ELSE Cardinality(S) - 1 + 1
    BY <2>1, FS_Interval
  <2> QED
    BY <1>1, <2>2 DEF T
<1>6. place \in Surjection(S, T)
  <2> HIDE DEF place, T
  <2> QED
    BY <1>4, <1>5, FS_Injection
<1> QED
  BY <1>6 DEF Surjection

\* The places in a page of the rows that were not seen.
FreshPlaces(c, f) ==
    {k \in DOMAIN PageRows(f) : \A i \in DOMAIN calls[c].got :
                                   calls[c].got[i].row # PageRows(f)[k].row}

LEMMA FreshFits ==
    ASSUME NEW c, NEW f \in Frames
    PROVE  Fresh(c, f) \in Seq(Items)
<1> DEFINE S == FreshPlaces(c, f)
           rows == PageRows(f)
<1>1. rows \in Seq(Items)
  BY PageRowsAre
<1>2. PICK n \in Nat : DOMAIN rows = 1 .. n
  BY PageRowsFit
<1>3. S \subseteq 1 .. n
  BY <1>2 DEF FreshPlaces
<1>4. Fresh(c, f) = [k \in 1 .. Cardinality(S) |->
                        rows[CHOOSE i \in S : Cardinality(Upto(S, i)) = k]]
  BY DEF Fresh, FreshPlaces
<1> HIDE DEF S, rows
<1>5. Cardinality(S) \in Nat
  BY <1>3, UptoIsFinite
<1>6. ASSUME NEW k \in 1 .. Cardinality(S)
      PROVE  rows[CHOOSE i \in S : Cardinality(Upto(S, i)) = k] \in Items
  <2>1. \E i \in S : Cardinality(Upto(S, i)) = k
    BY <1>3, PlacesAreTaken
  <2>2. (CHOOSE i \in S : Cardinality(Upto(S, i)) = k) \in S
    BY <2>1
  <2> DEFINE i == CHOOSE i \in S : Cardinality(Upto(S, i)) = k
  <2> HIDE DEF i
  <2>3. i \in DOMAIN rows
    BY <1>2, <1>3, <2>2 DEF i
  <2>4. rows[i] \in Items
    BY <1>1, <2>3, ElementOfSeq
  <2> QED
    BY <2>4 DEF i
<1>7. [k \in 1 .. Cardinality(S) |-> rows[CHOOSE i \in S : Cardinality(Upto(S, i)) = k]]
        \in [1 .. Cardinality(S) -> Items]
  BY <1>6
<1> QED
  BY <1>4, <1>5, <1>7, SeqDef

LEMMA FreshIsAll ==
    ASSUME NEW c, NEW f \in Frames,
           \A k \in DOMAIN PageRows(f), i \in DOMAIN calls[c].got :
              calls[c].got[i].row # PageRows(f)[k].row
    PROVE  Fresh(c, f) = PageRows(f)
<1> DEFINE S == FreshPlaces(c, f)
           rows == PageRows(f)
<1>1. PICK n \in Nat : rows = [i \in 1 .. n |-> Item(f, f.of.from + i)]
  BY PageRowsFit
<1>2. S = 1 .. n
  BY <1>1 DEF FreshPlaces
<1>3. Fresh(c, f) = [k \in 1 .. Cardinality(S) |->
                        rows[CHOOSE i \in S : Cardinality(Upto(S, i)) = k]]
  BY DEF Fresh, FreshPlaces
<1> HIDE DEF S, rows
<1>4. ASSUME NEW m \in Nat
      PROVE  Cardinality(1 .. m) = m
  <2>1. 1 \in Int /\ m \in Int
    OBVIOUS
  <2> QED
    BY <2>1, FS_Interval
<1>5. ASSUME NEW i \in 1 .. n
      PROVE  Cardinality(Upto(S, i)) = i
  <2>1. Upto(S, i) = 1 .. i
    BY <1>2 DEF Upto
  <2>2. i \in Nat
    OBVIOUS
  <2> QED
    BY <1>4, <2>1, <2>2
<1>6. Cardinality(S) = n
  BY <1>2, <1>4
<1>7. ASSUME NEW k \in 1 .. n
      PROVE  (CHOOSE i \in S : Cardinality(Upto(S, i)) = k) = k
  BY <1>2, <1>5
<1>8. Fresh(c, f) = [k \in 1 .. n |-> rows[k]]
  BY <1>3, <1>6, <1>7
<1> QED
  BY <1>1, <1>8 DEF rows

-----------------------------------------------------------------------------
(* What is on its way                                                      *)

\* What is left of a sequence when its first m elements are gone.
From(w, m) == SubSeq(w, m + 1, Len(w))

LEMMA FromAre ==
    ASSUME NEW T, NEW w \in Seq(T), NEW m \in 0 .. Len(w)
    PROVE  /\ From(w, m) \in Seq(T) /\ Len(From(w, m)) = Len(w) - m
           /\ \A i \in 1 .. Len(w) - m : From(w, m)[i] = w[i + m]
  BY DEF From

LEMMA HeadOfFrom ==
    ASSUME NEW T, NEW w \in Seq(T), NEW m \in 0 .. Len(w) - 1
    PROVE  /\ From(w, m) # <<>> /\ Head(From(w, m)) = w[m + 1]
           /\ Tail(From(w, m)) = From(w, m + 1)
<1>1. m + 1 \in 1 .. Len(w) /\ Len(w) \in m + 1 .. Len(w)
  BY LenProperties
<1>2. /\ Head(SubSeq(w, m + 1, Len(w))) = w[m + 1]
      /\ Tail(SubSeq(w, m + 1, Len(w))) = SubSeq(w, m + 1 + 1, Len(w))
  BY <1>1, HeadTailOfSubSeq
<1>3. From(w, m) # <<>>
  <2>1. Len(w) \in Nat /\ m \in 0 .. Len(w) /\ Len(w) - m > 0
    BY LenProperties
  <2>2. Len(From(w, m)) = Len(w) - m
    BY <2>1, FromAre
  <2> QED
    BY <2>1, <2>2
<1> QED
  BY <1>2, <1>3 DEF From

LEMMA TailFollows ==
    ASSUME NEW w, TailsFollow(w), NEW j \in DOMAIN w, w[j].kind = "tail"
    PROVE  j > 1 /\ w[j - 1].kind = "data" /\ w[j - 1].rows = "cut"
  BY DEF TailsFollow

\* What is read away is the beginning; a stray byte is not left at the head.
LEMMA BehindIs ==
    ASSUME NEW w \in Seq(Frames), TailsFollow(w), NEW n \in 0 .. Len(w)
    PROVE  \E m \in n .. Len(w) : Behind(w, n) = From(w, m) /\ TailsFollow(From(w, m))
<1>1. Len(w) \in Nat
  BY LenProperties
<1>2. CASE ~Tails(From(w, n))
  <2>1. Behind(w, n) = From(w, n)
    BY <1>2 DEF Behind, From
  <2>2. \A i \in 1 .. Len(w) - n : From(w, n)[i] = w[i + n]
    BY FromAre
  <2>3. From(w, n) \in Seq(Frames) /\ Len(From(w, n)) = Len(w) - n
    BY FromAre
  <2>4. ASSUME NEW i \in DOMAIN From(w, n), From(w, n)[i].kind = "tail"
        PROVE  /\ i > 1 /\ From(w, n)[i - 1].kind = "data"
               /\ From(w, n)[i - 1].rows = "cut"
    <3>1. i \in 1 .. Len(w) - n
      BY <2>3, LenProperties
    <3>2. i # 1
      <4>1. ASSUME i = 1 PROVE FALSE
        <5>1. From(w, n) # <<>> /\ Head(From(w, n)) = From(w, n)[1]
          BY <2>3, <2>4, <4>1
        <5> QED
          BY <1>2, <2>4, <4>1, <5>1 DEF Tails
      <4> QED
        BY <4>1
    <3>3. i - 1 \in 1 .. Len(w) - n /\ i + n \in DOMAIN w
      BY <1>1, <3>1, <3>2
    <3>4. w[i + n].kind = "tail"
      BY <2>2, <2>4, <3>1
    <3>5. w[(i + n) - 1].kind = "data" /\ w[(i + n) - 1].rows = "cut"
      BY <3>3, <3>4, TailFollows
    <3>6. From(w, n)[i - 1] = w[(i - 1) + n]
      BY <2>2, <3>3
    <3>7. (i - 1) + n = (i + n) - 1
      BY <1>1, <3>1
    <3> QED
      BY <3>1, <3>2, <3>5, <3>6, <3>7
  <2>5. TailsFollow(From(w, n))
    BY <2>4 DEF TailsFollow
  <2> QED
    BY <1>1, <2>1, <2>5
<1>3. CASE Tails(From(w, n))
  <2>1. Behind(w, n) = Tail(From(w, n))
    BY <1>3 DEF Behind, From
  <2>2. n \in 0 .. Len(w) - 1
    <3>1. ASSUME n = Len(w) PROVE FALSE
      <4>1. From(w, n) \in Seq(Frames) /\ Len(From(w, n)) = 0
        BY <1>1, <3>1, FromAre
      <4> QED
        BY <1>3, <4>1 DEF Tails
    <3> QED
      BY <1>1, <3>1
  <2>3. Behind(w, n) = From(w, n + 1)
    BY <2>1, <2>2, HeadOfFrom
  <2>4. w[n + 1].kind = "tail"
    BY <1>3, <2>2, HeadOfFrom DEF Tails
  <2>5. n + 1 \in 0 .. Len(w)
    BY <1>1, <2>2
  <2>6. \A i \in 1 .. Len(w) - (n + 1) : From(w, n + 1)[i] = w[i + (n + 1)]
    BY <2>5, FromAre
  <2>7. From(w, n + 1) \in Seq(Frames) /\ Len(From(w, n + 1)) = Len(w) - (n + 1)
    BY <2>5, FromAre
  <2>8. ASSUME NEW i \in DOMAIN From(w, n + 1), From(w, n + 1)[i].kind = "tail"
        PROVE  /\ i > 1 /\ From(w, n + 1)[i - 1].kind = "data"
               /\ From(w, n + 1)[i - 1].rows = "cut"
    <3>1. i \in 1 .. Len(w) - (n + 1)
      BY <2>7, LenProperties
    <3>2. w[i + (n + 1)].kind = "tail" /\ i + (n + 1) \in DOMAIN w
      BY <1>1, <2>6, <2>8, <3>1
    <3>3. w[(i + (n + 1)) - 1].kind = "data" /\ w[(i + (n + 1)) - 1].rows = "cut"
      BY <3>2, TailFollows
    <3>4. i # 1
      BY <2>4, <3>3, <1>1
    <3>5. i - 1 \in 1 .. Len(w) - (n + 1)
      BY <1>1, <3>1, <3>4
    <3>6. From(w, n + 1)[i - 1] = w[(i - 1) + (n + 1)]
      BY <2>6, <3>5
    <3>7. (i - 1) + (n + 1) = (i + (n + 1)) - 1
      BY <1>1, <3>1
    <3> QED
      BY <3>1, <3>3, <3>4, <3>6, <3>7
  <2>9. TailsFollow(From(w, n + 1))
    BY <2>8 DEF TailsFollow
  <2> QED
    BY <1>1, <2>2, <2>3, <2>9
<1> QED
  BY <1>2, <1>3

\* Frames are read away, and no numbered request is sent.
Quieter ==
    /\ \E m \in 0 .. Len(wire) : wire' = From(wire, m)
    /\ TailsFollow(wire')
    /\ \A q \in owed' : q \in owed \/ q.seq = 0

LEMMA QuieterWire ==
    ASSUME wire \in Seq(Frames), Quieter
    PROVE  /\ wire' \in Seq(Frames)
           /\ \E m \in 0 .. Len(wire) : \A i \in DOMAIN wire' :
                 i + m \in DOMAIN wire /\ wire'[i] = wire[i + m]
<1>1. PICK m \in 0 .. Len(wire) : wire' = From(wire, m)
  BY DEF Quieter
<1>2. /\ From(wire, m) \in Seq(Frames) /\ Len(From(wire, m)) = Len(wire) - m
      /\ \A i \in 1 .. Len(wire) - m : From(wire, m)[i] = wire[i + m]
  BY FromAre
<1>3. \A i \in DOMAIN wire' : i \in 1 .. Len(wire) - m /\ i + m \in DOMAIN wire
  BY <1>1, <1>2, LenProperties
<1> QED
  BY <1>1, <1>2, <1>3

LEMMA QuieterNumbers ==
    ASSUME wire \in Seq(Frames), Quieter
    PROVE  Numbers' \subseteq Numbers
<1>1. PICK m \in 0 .. Len(wire) : \A i \in DOMAIN wire' :
                 i + m \in DOMAIN wire /\ wire'[i] = wire[i + m]
  BY QuieterWire
<1> SUFFICES ASSUME NEW q \in Numbers' PROVE q \in Numbers
  OBVIOUS
<1>2. q.seq # 0
  BY DEF Numbers
<1>3. CASE q \in owed'
  BY <1>2, <1>3 DEF Numbers, Quieter
<1>4. CASE \E i \in DOMAIN wire' : wire'[i].kind = "data" /\ q = wire'[i].of
  <2>1. PICK i \in DOMAIN wire' : wire'[i].kind = "data" /\ q = wire'[i].of
    BY <1>4
  <2>2. i + m \in DOMAIN wire /\ wire[i + m].kind = "data" /\ q = wire[i + m].of
    BY <1>1, <2>1
  <2> QED
    BY <1>2, <2>2 DEF Numbers
<1> QED
  BY <1>3, <1>4 DEF Numbers

LEMMA QuieterFrames ==
    ASSUME wire \in Seq(Frames), FramesAreSound, Quieter
    PROVE  FramesAreSound'
<1>1. PICK m \in 0 .. Len(wire) : \A i \in DOMAIN wire' :
                 i + m \in DOMAIN wire /\ wire'[i] = wire[i + m]
  BY QuieterWire
<1> QED
  BY <1>1 DEF FramesAreSound, Quieter

LEMMA QuieterAnswered ==
    ASSUME wire \in Seq(Frames), AnsweredOnce, Quieter
    PROVE  AnsweredOnce'
<1>1. PICK m \in 0 .. Len(wire) : \A i \in DOMAIN wire' :
                 i + m \in DOMAIN wire /\ wire'[i] = wire[i + m]
  BY QuieterWire
<1>2. ASSUME NEW q \in owed', q.seq # 0
      PROVE  /\ q.replies = 1
             /\ \A r \in owed' : r.seq = q.seq => r = q
             /\ \A i \in DOMAIN wire' : wire'[i].kind = "data" => wire'[i].of.seq # q.seq
  BY <1>1, <1>2 DEF AnsweredOnce, Quieter
<1>3. ASSUME NEW i \in DOMAIN wire', NEW j \in DOMAIN wire', i # j,
             wire'[i].kind = "data", wire'[j].kind = "data", wire'[i].of.seq # 0
      PROVE  wire'[i].of.seq # wire'[j].of.seq
  <2>1. i \in Int /\ j \in Int
    BY QuieterWire
  <2>2. i + m # j + m
    BY <1>3, <2>1
  <2> QED
    BY <1>1, <1>3, <2>2 DEF AnsweredOnce
<1> QED
  BY <1>2, <1>3 DEF AnsweredOnce

LEMMA QuieterRecent ==
    ASSUME wire \in Seq(Frames), NumbersAreRecent, Quieter,
           sequence' = sequence, asks' = asks
    PROVE  NumbersAreRecent'
<1>1. Numbers' \subseteq Numbers
  BY QuieterNumbers
<1>2. \A s : Gap(s)' = Gap(s)
  BY DEF Gap
<1> QED
  BY <1>1, <1>2 DEF NumbersAreRecent

\* What follows for the wire from a step that only takes frames and requests away.
Wired == FramesAreSound /\ NumbersAreRecent /\ AnsweredOnce

LEMMA QuieterWired ==
    ASSUME wire \in Seq(Frames), Wired, Quieter, sequence' = sequence, asks' = asks
    PROVE  Wired' /\ Numbers' \subseteq Numbers /\ wire' \in Seq(Frames)
  BY QuieterWire, QuieterNumbers, QuieterFrames, QuieterAnswered, QuieterRecent DEF Wired

LEMMA Unchanged ==
    ASSUME wire \in Seq(Frames), TailsFollow(wire), UNCHANGED wire,
           \A q \in owed' : q \in owed \/ q.seq = 0
    PROVE  Quieter
<1>1. Len(wire) \in Nat
  BY LenProperties
<1>2. 0 \in 0 .. Len(wire) /\ From(wire, 0) = wire
  BY <1>1, SubSeqFull DEF From
<1> QED
  BY <1>2 DEF Quieter

LEMMA ReadAway ==
    ASSUME wire \in Seq(Frames), TailsFollow(wire), NEW n \in 0 .. Len(wire),
           wire' = Behind(wire, n), owed' \subseteq owed
    PROVE  Quieter
<1>1. PICK m \in n .. Len(wire) : Behind(wire, n) = From(wire, m) /\ TailsFollow(From(wire, m))
  BY BehindIs
<1>2. m \in 0 .. Len(wire)
  BY LenProperties
<1> QED
  BY <1>1, <1>2 DEF Quieter

LEMMA Emptied ==
    ASSUME wire \in Seq(Frames), wire' = <<>>, owed' = {}
    PROVE  Quieter
<1>1. Len(wire) \in 0 .. Len(wire)
  BY LenProperties
<1>2. From(wire, Len(wire)) = <<>>
  <2>1. Len(From(wire, Len(wire))) = Len(wire) - Len(wire) /\ From(wire, Len(wire)) \in Seq(Frames)
    BY <1>1, FromAre
  <2>2. Len(wire) - Len(wire) = 0
    BY LenProperties
  <2> QED
    BY <2>1, <2>2
<1>3. TailsFollow(<<>>)
  BY DEF TailsFollow
<1> QED
  BY <1>1, <1>2, <1>3 DEF Quieter

-----------------------------------------------------------------------------
(* What a frame is to its reader                                           *)

LEMMA PlanOfCall ==
    ASSUME NEW c, calls[c].name \in Services
    PROVE  PlanIsSound(P(c)) /\ P(c).family \in Families
  BY PlansAreSound DEF P, Families

LEMMA HeadIsSound ==
    ASSUME wire \in Seq(Frames), wire # <<>>, FramesAreSound
    PROVE  /\ 1 \in DOMAIN wire /\ Head(wire) = wire[1] /\ Head(wire) \in Frames
           /\ FrameIsSound(Head(wire)) /\ Head(wire).kind # "tail"
<1>1. 1 \in DOMAIN wire /\ Head(wire) = wire[1] /\ Head(wire) \in Frames
  BY HeadTailProperties, LenProperties, EmptySeq
<1>2. wire[1].kind # "tail"
  BY <1>1 DEF FramesAreSound, TailsFollow
<1> QED
  BY <1>1, <1>2 DEF FramesAreSound

\* The frame a caller looks at is the first one, perhaps with its last byte.
LEMMA MendedIs ==
    ASSUME NEW c, wire \in Seq(Frames), wire # <<>>, FramesAreSound
    PROVE  LET f == Mended(c, wire).frame IN
           /\ f \in Frames /\ f.kind = Head(wire).kind /\ f.of = Head(wire).of
           /\ f.rows = Head(wire).rows \/ (f.rows = "some" /\ Head(wire).rows = "cut")
           /\ P(c).mends = "peek" => ~f.torn
           /\ \E n \in 1 .. Len(wire) : Mended(c, wire).rest = Behind(wire, n)
<1> DEFINE h == Head(wire)
           whole == [h EXCEPT !.rows = "some"]
           torn == [h EXCEPT !.rows = "some", !.torn = TRUE]
<1>1. h \in Frames /\ ~h.torn /\ 1 \in 1 .. Len(wire)
  BY HeadIsSound, LenProperties DEF FrameIsSound
<1>2. whole \in Frames /\ whole.kind = h.kind /\ whole.of = h.of /\ whole.rows = "some"
        /\ whole.torn = h.torn
  BY <1>1 DEF Frames
<1>3. torn \in Frames /\ torn.kind = h.kind /\ torn.of = h.of /\ torn.rows = "some"
  BY <1>1 DEF Frames
<1> DEFINE takes == h.rows = "cut" /\ P(c).mends # "no" /\ Len(wire) > 1
<1>4. Mended(c, wire) = IF takes /\ Tails(Tail(wire))
                        THEN [frame |-> whole, rest |-> Rest(wire)]
                        ELSE IF takes /\ P(c).mends = "blind"
                        THEN [frame |-> torn, rest |-> Behind(wire, 2)]
                        ELSE [frame |-> h, rest |-> Rest(wire)]
  BY DEF Mended
<1>5. takes => 2 \in 1 .. Len(wire)
  BY LenProperties
<1> HIDE DEF h, whole, torn, takes
<1>7. CASE takes /\ Tails(Tail(wire))
  BY <1>1, <1>2, <1>4, <1>7 DEF Rest, h, takes
<1>8. CASE ~(takes /\ Tails(Tail(wire))) /\ takes /\ P(c).mends = "blind"
  BY <1>3, <1>4, <1>5, <1>8 DEF h, takes
<1>9. CASE ~(takes /\ Tails(Tail(wire))) /\ ~(takes /\ P(c).mends = "blind")
  BY <1>1, <1>4, <1>9 DEF Rest, h
<1> QED
  BY <1>7, <1>8, <1>9

LEMMA TakesItsOwn ==
    ASSUME NEW c, calls[c].name \in Services, NEW f \in Frames, f.kind # "tail",
           "take" \in Meanings(c, f)
    PROVE  /\ f.kind = "data" /\ Own(c, f)
           /\ Insists(P(c)) => f.of.code = calls[c].code
<1>1. P(c).alien # "take" /\ P(c).broken \notin {"take", "empty"}
  BY PlanOfCall DEF PlanIsSound
<1>2. f.kind \in {"data", "size", "push", "bad"}
  BY DEF Frames
<1>3. CASE f.kind # "data"
  BY <1>1, <1>2, <1>3 DEF Meanings
<1>4. CASE f.kind = "data" /\ f.of.family # P(c).family
  BY <1>1, <1>4 DEF Meanings, Own
<1>5. CASE f.kind = "data" /\ f.of.family = P(c).family /\ ~Own(c, f)
  BY <1>1, <1>5 DEF Meanings
<1>6. f.kind = "data" /\ Own(c, f)
  BY <1>3, <1>4, <1>5
<1>7. f.rows # "none" \/ P(c).none = "take"
  BY <1>6 DEF Meanings, Own
<1>8. f.rows # "odd" \/ P(c).odd = "take"
  BY <1>6 DEF Meanings, Own
<1>9. /\ P(c).trusts \subseteq {"none", "odd", "unlabelled"}
      /\ "none" \in P(c).trusts => P(c).none # "take"
      /\ "odd" \in P(c).trusts => P(c).odd # "take"
  BY PlanOfCall DEF PlanIsSound
<1>10. Insists(P(c)) => f.rows \notin P(c).trusts
  BY <1>7, <1>8, <1>9 DEF Insists
<1> QED
  BY <1>6, <1>10 DEF Own, Insists

\* To a loop that may not say "nothing", no frame means that; and what it cannot use
\* though it is its own, it remembers.
LEMMA NothingIsEmpty ==
    ASSUME NEW c, calls[c].name \in Services, Strict(c), NEW f \in Frames, f.kind # "tail"
    PROVE  /\ "empty" \notin Meanings(c, f)
           /\ f.kind = "data" /\ Own(c, f) /\ f.rows = "odd" => Meanings(c, f) = {"saw"}
<1>1. /\ P(c).none # "empty" /\ P(c).alien # "empty" /\ P(c).broken # "empty"
      /\ ~P(c).sizeEnds /\ P(c).odd = "saw"
  BY PlanOfCall DEF PlanIsSound, Strict
<1>2. f.kind \in {"data", "size", "push", "bad"}
  BY DEF Frames
<1> QED
  BY <1>1, <1>2 DEF Meanings, Own

-----------------------------------------------------------------------------
(* What becomes of a call                                                  *)

LEMMA TypeParts ==
    ASSUME ReadsTypeOK
    PROVE  /\ wire \in Seq(Frames) /\ owed \subseteq Asked
           /\ calls \in [Callers -> CallRecords] /\ garbled \subseteq Callers
           /\ asks \in 0 .. client.asks /\ client \in Clients
           /\ sequence \in 1 .. SeqMod - 1 /\ lock \in Callers \cup {NoOne}
  BY Zenon DEF ReadsTypeOK

Others(c) == \A d \in Callers \ {c} : calls'[d] = calls[d]

LEMMA PutIs ==
    ASSUME NEW c \in Callers, calls \in [Callers -> CallRecords], NEW new \in CallRecords,
           Put(c, new)
    PROVE  calls' \in [Callers -> CallRecords] /\ calls'[c] = new /\ Others(c)
  BY DEF Put, Others

\* The plan of a call is its name's.
LEMMA KeepsPlan ==
    ASSUME NEW c, Keeps(calls'[c], calls[c])
    PROVE  P(c)' = P(c)
  BY DEF Keeps, P

\* An exchange that ends begins another one, or is the end of the call.
LEMMA EndsIs ==
    ASSUME NEW c \in Callers, calls \in [Callers -> CallRecords], calls[c].name \in Services,
           NEW res \in Results, NEW got \in RowLists, Ends(c, res, got)
    PROVE  /\ calls' \in [Callers -> CallRecords] /\ Others(c)
           /\ Keeps(calls'[c], calls[c]) /\ KeepsNumber(calls'[c], calls[c])
           /\ \/ /\ calls'[c].at \in {"register", "ask"} /\ calls'[c].got = <<>>
                 /\ calls'[c].res = calls[c].res
                 /\ P(c).rounds > calls[c].round
              \/ /\ calls'[c].at \in {"apply", "done"} /\ calls'[c].got = got /\ calls'[c].res = res
                 /\ calls'[c].at = "apply" => P(c).manage # "no"
<1> DEFINE r == calls[c]
           first == First(P(c))
           last == IF res = "rows" /\ P(c).manage # "no" THEN "apply" ELSE "done"
           goes == IF P(c).chain THEN {"rows"} ELSE {"rows", "empty"}
           next == P(c).rounds > r.round /\ res \in goes
<1>1. r \in CallRecords
  OBVIOUS
<1>2. /\ first \in {"register", "ask"} /\ last \in {"apply", "done"}
      /\ last = "apply" => P(c).manage # "no"
  BY DEF First
<1>3. CASE next
  <2>1. r.round < 3
    BY <1>1, <1>3, PlanOfCall, CallFields DEF PlanIsSound
  <2> DEFINE new == [r EXCEPT !.at = first, !.round = @ + 1, !.got = <<>>, !.saw = FALSE]
  <2>2. Put(c, new)
    BY <1>3 DEF Ends
  <2>3. /\ new \in CallRecords /\ Keeps(new, r) /\ KeepsNumber(new, r)
        /\ new.at = first /\ new.got = <<>> /\ new.res = r.res
    BY <1>1, <1>2, <2>1, RoundFits
  <2> HIDE DEF new
  <2>4. calls' \in [Callers -> CallRecords] /\ calls'[c] = new /\ Others(c)
    BY <2>2, <2>3, PutIs
  <2> QED
    BY <1>2, <1>3, <2>3, <2>4
<1>4. CASE ~next
  <2> DEFINE new == Ended(r, last, got, res)
  <2>1. Put(c, new)
    BY <1>4 DEF Ends, Ended
  <2> HIDE DEF last
  <2>2. /\ new \in CallRecords /\ Keeps(new, r) /\ KeepsNumber(new, r)
        /\ new.at = last /\ new.got = got /\ new.res = res
    BY <1>1, <1>2, EndFits
  <2> HIDE DEF new
  <2>3. calls' \in [Callers -> CallRecords] /\ calls'[c] = new /\ Others(c)
    BY <2>1, <2>2, PutIs
  <2> QED
    BY <1>2, <2>2, <2>3
<1> QED
  BY <1>3, <1>4

\* A loop that goes on changes the number of frames left only.
LEMMA GoesOnIs ==
    ASSUME NEW c \in Callers, calls \in [Callers -> CallRecords],
           NEW new \in CallRecords, new.left > 0, GoesOn(c, new)
    PROVE  /\ calls' \in [Callers -> CallRecords] /\ Others(c) /\ lock' = lock
           /\ Keeps(calls'[c], new) /\ KeepsNumber(calls'[c], new)
           /\ calls'[c].at = new.at /\ calls'[c].got = new.got /\ calls'[c].from = new.from
           /\ calls'[c].saw = new.saw /\ calls'[c].res = new.res
<1> DEFINE less == [new EXCEPT !.left = @ - 1]
<1>1. /\ less \in CallRecords /\ Keeps(less, new) /\ KeepsNumber(less, new)
      /\ less.at = new.at /\ less.got = new.got /\ less.from = new.from
      /\ less.saw = new.saw /\ less.res = new.res
  BY CountFits
<1>2. Put(c, new) \/ Put(c, less)
  BY DEF GoesOn
<1>3. lock' = lock
  BY DEF GoesOn
<1> HIDE DEF less
<1>4. CASE Put(c, less)
  <2>1. calls' \in [Callers -> CallRecords] /\ calls'[c] = less /\ Others(c)
    BY <1>1, <1>4, PutIs
  <2> QED
    BY <1>1, <1>3, <2>1
<1>5. CASE Put(c, new)
  <2>1. calls' \in [Callers -> CallRecords] /\ calls'[c] = new /\ Others(c)
    BY <1>5, PutIs
  <2>2. Keeps(new, new) /\ KeepsNumber(new, new)
    BY DEF Keeps, KeepsNumber
  <2> QED
    BY <1>3, <2>1, <2>2
<1> QED
  BY <1>2, <1>4, <1>5

LEMMA AsksAgainIs ==
    ASSUME NEW c \in Callers, calls \in [Callers -> CallRecords],
           NEW new \in CallRecords, AsksAgain(c, new)
    PROVE  /\ calls' \in [Callers -> CallRecords] /\ Others(c) /\ lock' = NoOne
           /\ Keeps(calls'[c], new) /\ calls'[c].at = "ask"
           /\ calls'[c].got = new.got /\ calls'[c].from = new.from
           /\ calls'[c].res = new.res
<1> DEFINE asking == [new EXCEPT !.at = "ask"]
<1>1. /\ asking \in CallRecords /\ Keeps(asking, new) /\ asking.at = "ask"
      /\ asking.got = new.got /\ asking.from = new.from /\ asking.res = new.res
  BY PlaceFits DEF Stages
<1>2. Put(c, asking) /\ lock' = NoOne
  BY DEF AsksAgain
<1> HIDE DEF asking
<1>3. calls' \in [Callers -> CallRecords] /\ calls'[c] = asking /\ Others(c)
  BY <1>1, <1>2, PutIs
<1> QED
  BY <1>1, <1>2, <1>3

-----------------------------------------------------------------------------
(* Calls that stay sound                                                   *)

\* What AnswerIsOwn and PagesFollow say of one call's rows.
GotIsOwn(c, got) ==
    \A i \in DOMAIN got :
       /\ Insists(P(c)) => /\ got[i].code = calls[c].code
                           /\ P(c).mends = "peek" => ~got[i].torn
       /\ P(c).by = "seq" /\ P(c).more = "one" => got[i].ask = calls[c].ask
       /\ P(c).by = "seq" => got[i].row \in {0, i}

RowsInOrder(c, got) ==
    P(c).by = "seq" /\ P(c).more = "pages" => \A i \in DOMAIN got : got[i].row = i

IsGood(c) == CallIsSound(c) /\ GotIsOwn(c, calls[c].got)

LEMMA GoodIsAll ==
    (\A c \in Callers : IsGood(c)) <=> CallsAreSound /\ AnswerIsOwn /\ PagesFollow
  BY DEF IsGood, GotIsOwn, CallsAreSound, AnswerIsOwn, PagesFollow, Holds

\* A call that the step leaves alone.
LEMMA SameGood ==
    ASSUME NEW d \in Callers, calls'[d] = calls[d], d \in garbled' <=> d \in garbled,
           Numbers' \subseteq Numbers \/ calls[d].at # "read", IsGood(d)
    PROVE  IsGood(d)'
<1>1. P(d)' = P(d)
  BY DEF P
<1>2. GotIsOwn(d, calls[d].got)'
  BY <1>1 DEF IsGood, GotIsOwn
<1>3. CASE calls[d].at = "idle"
  BY <1>2, <1>3 DEF IsGood, CallIsSound
<1>4. CASE calls[d].at # "idle"
  <2>1. HasNoResult(d)' /\ TakesOne(d)' /\ PagesInOrder(d)'
    BY <1>1, <1>4 DEF HasNoResult, IsGood, CallIsSound, TakesOne, PagesInOrder
  <2>2. NumberIsOwn(d)'
    BY <1>1, <1>4 DEF IsGood, CallIsSound, NumberIsOwn
  <2>3. RemembersOdd(d)'
    BY <1>1, <1>4 DEF IsGood, CallIsSound, RemembersOdd, Strict
  <2> QED
    BY <1>1, <1>2, <1>4, <2>1, <2>2, <2>3 DEF IsGood, CallIsSound
<1> QED
  BY <1>3, <1>4

\* The calls of other threads.
LEMMA OthersGood ==
    ASSUME NEW c \in Callers, Others(c), garbled' \ {c} = garbled \ {c},
           NEW d \in Callers \ {c}, Numbers' \subseteq Numbers \/ calls[d].at # "read",
           IsGood(d)
    PROVE  IsGood(d)'
<1>1. calls'[d] = calls[d] /\ (d \in garbled' <=> d \in garbled)
  BY DEF Others
<1> QED
  BY <1>1, SameGood

\* A call whose exchange ends.
LEMMA EndsGood ==
    ASSUME NEW c \in Callers, ReadsTypeOK, IsGood(c), calls[c].at \in Busy,
           NEW res \in Results, NEW got \in RowLists, Ends(c, res, got),
           GotIsOwn(c, got), RowsInOrder(c, got),
           c \in garbled' /\ Strict(c) => res # "empty"
    PROVE  IsGood(c)' /\ calls' \in [Callers -> CallRecords] /\ Others(c)
             /\ calls'[c].at # "read"
<1>1. /\ calls \in [Callers -> CallRecords] /\ calls[c].name \in Services
      /\ calls[c].code \in Codes /\ HasNoResult(c)
  BY TypeParts DEF IsGood, CallIsSound, Busy
<1>2. /\ calls' \in [Callers -> CallRecords] /\ Others(c)
      /\ Keeps(calls'[c], calls[c]) /\ KeepsNumber(calls'[c], calls[c])
      /\ \/ /\ calls'[c].at \in {"register", "ask"} /\ calls'[c].got = <<>>
            /\ calls'[c].res = calls[c].res /\ P(c).rounds > calls[c].round
         \/ /\ calls'[c].at \in {"apply", "done"} /\ calls'[c].got = got /\ calls'[c].res = res
            /\ calls'[c].at = "apply" => P(c).manage # "no"
  BY <1>1, EndsIs
<1>3. P(c)' = P(c) /\ calls'[c].name \in Services /\ calls'[c].code \in Codes
  BY <1>1, <1>2, KeepsPlan DEF Keeps
<1>4. CASE /\ calls'[c].at \in {"register", "ask"} /\ calls'[c].got = <<>>
           /\ calls'[c].res = calls[c].res /\ P(c).rounds > calls[c].round
  <2>1. calls[c].round \in 1 .. 3 /\ P(c).rounds \in 1 .. 3
    BY <1>1, CallFields, PlanOfCall DEF PlanIsSound
  <2>2. P(c).by # "seq" /\ ~Strict(c)
    BY <1>1, <1>4, <2>1, PlanOfCall DEF PlanIsSound, Strict
  <2>3. calls'[c].res = "none"
    BY <1>1, <1>4 DEF HasNoResult
  <2>4. HasNoResult(c)' /\ TakesOne(c)' /\ NumberIsOwn(c)'
    BY <1>4, <2>3 DEF HasNoResult, TakesOne, NumberIsOwn
  <2>5. PagesInOrder(c)' /\ RemembersOdd(c)'
    BY <1>3, <2>2 DEF PagesInOrder, RemembersOdd, Strict
  <2>6. GotIsOwn(c, calls[c].got)'
    BY <1>4 DEF GotIsOwn
  <2> QED
    BY <1>2, <1>3, <1>4, <2>4, <2>5, <2>6 DEF IsGood, CallIsSound
<1>5. CASE /\ calls'[c].at \in {"apply", "done"} /\ calls'[c].got = got /\ calls'[c].res = res
           /\ calls'[c].at = "apply" => P(c).manage # "no"
  <2>1. GotIsOwn(c, calls[c].got)'
    BY <1>2, <1>3, <1>5 DEF GotIsOwn, Keeps, KeepsNumber
  <2>2. PagesInOrder(c)'
    BY <1>3, <1>5 DEF PagesInOrder, RowsInOrder, Busy
  <2>3. HasNoResult(c)' /\ TakesOne(c)' /\ NumberIsOwn(c)'
    BY <1>5 DEF HasNoResult, TakesOne, NumberIsOwn, Busy
  <2>4. RemembersOdd(c)'
    BY <1>3, <1>5 DEF RemembersOdd, Strict
  <2> QED
    BY <1>2, <1>3, <1>5, <2>1, <2>2, <2>3, <2>4 DEF IsGood, CallIsSound
<1> QED
  BY <1>2, <1>4, <1>5

\* One that reads on.
LEMMA ReadsOnGood ==
    ASSUME NEW c \in Callers, IsGood(c), calls[c].at = "read", calls'[c].at = "read",
           Keeps(calls'[c], calls[c]), KeepsNumber(calls'[c], calls[c]),
           calls'[c].from = calls[c].from, calls'[c].res = calls[c].res, Numbers' \subseteq Numbers,
           NEW got, calls'[c].got = got, GotIsOwn(c, got),
           got = calls[c].got \/ P(c).more \in {"phases", "fragments"},
           c \in garbled' /\ Strict(c) =>
              /\ calls'[c].saw
              /\ P(c).by = "seq" => \A q \in Numbers' : q.seq # calls[c].seq
    PROVE  IsGood(c)'
<1>1. P(c)' = P(c) /\ calls'[c].name \in Services /\ calls'[c].code \in Codes
  BY KeepsPlan DEF Keeps, IsGood, CallIsSound
<1>2. GotIsOwn(c, calls[c].got)'
  BY <1>1 DEF GotIsOwn, Keeps, KeepsNumber
<1>3. HasNoResult(c)' /\ TakesOne(c)'
  BY <1>1 DEF HasNoResult, TakesOne, IsGood, CallIsSound, Busy
<1>4. PagesInOrder(c)'
  BY <1>1 DEF PagesInOrder, IsGood, CallIsSound, Busy
<1>5. NumberIsOwn(c)'
  BY <1>1 DEF NumberIsOwn, IsGood, CallIsSound, KeepsNumber
<1>6. RemembersOdd(c)'
  BY <1>1 DEF RemembersOdd, Strict, KeepsNumber
<1> QED
  BY <1>1, <1>2, <1>3, <1>4, <1>5, <1>6 DEF IsGood, CallIsSound

\* One that asks for more.
LEMMA AsksAgainGood ==
    ASSUME NEW c \in Callers, IsGood(c), calls[c].at = "read", calls'[c].at = "ask",
           Keeps(calls'[c], calls[c]), calls'[c].res = calls[c].res,
           P(c).more \in {"pages", "twice"},
           NEW got, calls'[c].got = got, GotIsOwn(c, got), RowsInOrder(c, got),
           P(c).by = "seq" => calls'[c].from = Len(got),
           ~(c \in garbled' /\ Strict(c))
    PROVE  IsGood(c)'
<1>1. P(c)' = P(c) /\ calls'[c].name \in Services /\ calls'[c].code \in Codes
  BY KeepsPlan DEF Keeps, IsGood, CallIsSound
<1>2. GotIsOwn(c, calls[c].got)'
  BY <1>1 DEF GotIsOwn, Keeps
<1>3. HasNoResult(c)' /\ TakesOne(c)' /\ NumberIsOwn(c)'
  BY <1>1 DEF HasNoResult, IsGood, CallIsSound, Busy, TakesOne, NumberIsOwn
<1>4. PagesInOrder(c)'
  BY <1>1 DEF PagesInOrder, RowsInOrder, Busy
<1>5. RemembersOdd(c)'
  BY <1>1 DEF RemembersOdd, Strict
<1> QED
  BY <1>1, <1>2, <1>3, <1>4, <1>5 DEF IsGood, CallIsSound

-----------------------------------------------------------------------------
(* A frame is read                                                         *)

\* What holds of the reader and of the frame it looks at.
Reads1(c, f) ==
    /\ ReadsTypeOK /\ IsGood(c)
    /\ calls[c].at = "read" /\ calls[c].left > 0
    /\ f \in Frames /\ f.kind # "tail" /\ (P(c).mends = "peek" => ~f.torn)
    /\ f.kind = "data" /\ f.of.seq # 0 => f.of \in Numbers
    /\ f.kind \in {"size", "push", "bad"} => f.of.family = "size"

Garbles(c, f) == garbled' = IF Own(c, f) /\ f.rows = "odd" THEN garbled \cup {c} ELSE garbled

LEMMA ReaderIs ==
    ASSUME NEW c \in Callers, NEW f, Reads1(c, f)
    PROVE  /\ calls \in [Callers -> CallRecords] /\ calls[c] \in CallRecords
           /\ calls[c].name \in Services /\ PlanIsSound(P(c))
           /\ TakesOne(c) /\ PagesInOrder(c) /\ NumberIsOwn(c) /\ RemembersOdd(c)
           /\ GotIsOwn(c, calls[c].got) /\ calls[c].got \in RowLists
<1>1. calls \in [Callers -> CallRecords]
  BY Zenon DEF ReadsTypeOK, Reads1
<1>2. calls[c] \in CallRecords
  BY <1>1
<1> QED
  BY <1>1, <1>2, PlanOfCall, CallFields DEF Reads1, IsGood, CallIsSound

LEMMA TakeIsOwn ==
    ASSUME NEW c \in Callers, NEW f, Reads1(c, f), Garbles(c, f), "take" \in Meanings(c, f)
    PROVE  /\ Insists(P(c)) => f.of.code = calls[c].code
           /\ P(c).by = "seq" => f.of.ask = calls[c].ask /\ f.of.from = calls[c].from
           /\ c \in garbled' /\ Strict(c) => c \in garbled /\ calls[c].saw /\ P(c).by # "seq"
<1>1. f.kind = "data" /\ Own(c, f) /\ (Insists(P(c)) => f.of.code = calls[c].code)
  BY ReaderIs, TakesItsOwn DEF Reads1
<1>2. P(c).by = "seq" => /\ f.of \in Numbers /\ f.of.seq = calls[c].seq
                         /\ f.of.ask = calls[c].ask /\ f.of.from = calls[c].from
  BY <1>1, ReaderIs DEF Own, Reads1, NumberIsOwn
<1>3. Strict(c) => f.rows # "odd"
  BY <1>1, ReaderIs, NothingIsEmpty DEF Reads1
<1>4. c \in garbled' /\ Strict(c) => c \in garbled
  BY <1>3 DEF Garbles
<1>5. c \in garbled' /\ Strict(c) => calls[c].saw /\ P(c).by # "seq"
  BY <1>2, <1>4, ReaderIs DEF RemembersOdd, Reads1
<1> QED
  BY <1>1, <1>2, <1>4, <1>5 DEF Own

\* What a reader's step makes of its call.
ReadOutcome(c) ==
    /\ IsGood(c)' /\ calls' \in [Callers -> CallRecords] /\ Others(c)
    /\ lock' = lock \/ (lock' = NoOne /\ calls'[c].at # "read")

\* An answer that is added to what there is.
LEMMA AppendGood ==
    ASSUME NEW c \in Callers, NEW f, Reads1(c, f), Garbles(c, f), "take" \in Meanings(c, f)
    PROVE  /\ Append(calls[c].got, Item(f, 0)) \in RowLists
           /\ GotIsOwn(c, Append(calls[c].got, Item(f, 0)))
<1> DEFINE got == calls[c].got
           item == Item(f, 0)
           new == Append(got, item)
<1>1. item \in Items /\ item.ask = f.of.ask /\ item.code = f.of.code
        /\ item.row = 0 /\ item.torn = f.torn
  BY ItemFits DEF Reads1
<1>2. got \in Seq(Items)
  BY ReaderIs DEF RowLists
<1>3. GotIsOwn(c, got)
  BY ReaderIs
<1> HIDE DEF got, item
<1>4. new \in Seq(Items) /\ Len(new) = Len(got) + 1 /\ Len(got) \in Nat
  BY <1>1, <1>2, AppendProperties, LenProperties
<1>5. ASSUME NEW i \in DOMAIN new
      PROVE  (i \in DOMAIN got /\ new[i] = got[i]) \/ new[i] = item
  <2>1. i \in 1 .. Len(got) + 1
    BY <1>4, LenProperties
  <2>2. new[i] = IF i <= Len(got) THEN got[i] ELSE item
    BY <1>1, <1>2, <2>1, AppendProperties
  <2>3. i <= Len(got) => i \in DOMAIN got
    BY <1>2, <2>1, LenProperties
  <2> QED
    BY <2>2, <2>3
<1>6. /\ Insists(P(c)) => item.code = calls[c].code /\ (P(c).mends = "peek" => ~item.torn)
      /\ P(c).by = "seq" => item.ask = calls[c].ask
  BY <1>1, TakeIsOwn DEF Reads1
<1> HIDE DEF new
<1>7. GotIsOwn(c, new)
  BY <1>1, <1>3, <1>5, <1>6 DEF GotIsOwn
<1> QED
  BY <1>4, <1>7 DEF new, got, item, RowLists

\* The rows a page brings.
LEMMA PageGood ==
    ASSUME NEW c \in Callers, NEW f, Reads1(c, f), Garbles(c, f), "take" \in Meanings(c, f),
           P(c).more \in {"pages", "twice"}
    PROVE  LET got == calls[c].got \o Fresh(c, f) IN
           /\ got \in RowLists /\ GotIsOwn(c, got) /\ RowsInOrder(c, got)
           /\ NextFrom(c, f) \in Nat
           /\ P(c).by = "seq" => NextFrom(c, f) = Len(got)
<1> DEFINE old == calls[c].got
           fresh == Fresh(c, f)
           rows == PageRows(f)
           got == old \o fresh
<1>1. old \in Seq(Items) /\ f \in Frames
  BY ReaderIs DEF RowLists, Reads1
<1>2. fresh \in Seq(Items) /\ rows \in Seq(Items)
  BY <1>1, FreshFits, PageRowsAre
<1>3. Len(old) \in Nat /\ Len(fresh) \in Nat /\ Len(rows) \in Nat /\ calls[c].from \in Nat
  BY <1>1, <1>2, LenProperties, ReaderIs, CallFields
<1>4. NextFrom(c, f) = IF P(c).by = "seq" THEN calls[c].from + Len(rows)
                       ELSE Len(old) + Len(fresh)
  BY DEF NextFrom
<1>5. got \in Seq(Items) /\ Len(got) = Len(old) + Len(fresh)
  BY <1>1, <1>2, ConcatProperties
<1>6. NextFrom(c, f) \in Nat
  BY <1>3, <1>4
<1>7. CASE P(c).by # "seq"
  <2>1. P(c).by # "code"
    BY ReaderIs DEF PlanIsSound
  <2> QED
    BY <1>5, <1>6, <1>7, <2>1 DEF GotIsOwn, RowsInOrder, RowLists, Insists
<1>8. CASE P(c).by = "seq"
  <2>1. P(c).more = "pages"
    BY <1>8, ReaderIs DEF PlanIsSound
  <2>2. calls[c].from = Len(old) /\ \A i \in DOMAIN old : old[i].row = i
    BY <1>8, <2>1, ReaderIs DEF PagesInOrder, Reads1, Busy
  <2>3. f.of.from = Len(old)
    BY <1>8, <2>2, TakeIsOwn
  <2>4. \A k \in DOMAIN rows : rows[k].row = Len(old) + k
    BY <1>1, <2>3, PageRowsAre
  <2>5. ASSUME NEW k \in DOMAIN rows, NEW i \in DOMAIN old
        PROVE  old[i].row # rows[k].row
    <3> HIDE DEF old, rows
    <3>1. k \in 1 .. Len(rows) /\ i \in 1 .. Len(old)
      BY <1>1, <1>2, LenProperties
    <3>2. old[i].row = i /\ rows[k].row = Len(old) + k
      BY <2>2, <2>4
    <3> QED
      BY <1>3, <3>1, <3>2
  <2>6. fresh = rows
    BY <1>1, <2>5, FreshIsAll
  <2> HIDE DEF old, fresh, rows
  <2>7. ASSUME NEW i \in DOMAIN got
        PROVE  got[i].row = i
    <3>1. i \in 1 .. Len(old) + Len(fresh)
      BY <1>5, LenProperties
    <3>2. got[i] = IF i <= Len(old) THEN old[i] ELSE fresh[i - Len(old)]
      BY <1>1, <1>2, <3>1, ConcatProperties
    <3>3. CASE i <= Len(old)
      BY <1>1, <1>3, <2>2, <3>1, <3>2, <3>3, LenProperties
    <3>4. CASE ~(i <= Len(old))
      <4>1. i - Len(old) \in 1 .. Len(rows)
        BY <1>3, <2>6, <3>1, <3>4
      <4>2. i - Len(old) \in DOMAIN rows
        BY <1>2, <4>1, LenProperties
      <4>3. rows[i - Len(old)].row = Len(old) + (i - Len(old))
        BY <2>4, <4>2
      <4>4. Len(old) + (i - Len(old)) = i
        BY <1>3, <3>1
      <4> QED
        BY <2>6, <3>2, <3>4, <4>3, <4>4
    <3> QED
      BY <3>3, <3>4
  <2> HIDE DEF got
  <2>8. GotIsOwn(c, got) /\ RowsInOrder(c, got)
    BY <1>8, <2>1, <2>7 DEF GotIsOwn, RowsInOrder, Insists
  <2>9. NextFrom(c, f) = Len(got)
    BY <1>4, <1>5, <1>8, <2>2, <2>6
  <2> QED
    BY <1>5, <1>6, <2>8, <2>9 DEF got, old, fresh, RowLists
<1> QED
  BY <1>7, <1>8

LEMMA ClosesOutcome ==
    ASSUME NEW c \in Callers, ReadsTypeOK, IsGood(c), calls[c].at \in Busy,
           NEW res \in Results, NEW got \in RowLists, Closes(c, res, got),
           GotIsOwn(c, got), RowsInOrder(c, got),
           c \in garbled' /\ Strict(c) => res # "empty"
    PROVE  ReadOutcome(c)
  BY EndsGood DEF Closes, ReadOutcome

LEMMA AgainOutcome ==
    ASSUME NEW c \in Callers, NEW f, Reads1(c, f), P(c).more \in {"pages", "twice"},
           NEW new \in CallRecords, Keeps(new, calls[c]), new.res = calls[c].res, AsksAgain(c, new),
           GotIsOwn(c, new.got), RowsInOrder(c, new.got),
           P(c).by = "seq" => new.from = Len(new.got),
           ~(c \in garbled' /\ Strict(c))
    PROVE  ReadOutcome(c)
<1>1. /\ calls' \in [Callers -> CallRecords] /\ Others(c) /\ lock' = NoOne
      /\ Keeps(calls'[c], new) /\ calls'[c].at = "ask"
      /\ calls'[c].got = new.got /\ calls'[c].from = new.from
      /\ calls'[c].res = new.res
  BY AsksAgainIs, ReaderIs
<1>2. Keeps(calls'[c], calls[c])
  BY <1>1 DEF Keeps
<1>3. IsGood(c)'
  BY <1>1, <1>2, AsksAgainGood DEF Reads1
<1> QED
  BY <1>1, <1>3 DEF ReadOutcome

LEMMA TakesPageOutcome ==
    ASSUME NEW c \in Callers, NEW f, Reads1(c, f), Garbles(c, f), "take" \in Meanings(c, f),
           P(c).more = "pages", TakesPage(c, f)
    PROVE  ReadOutcome(c)
<1> DEFINE got == calls[c].got \o Fresh(c, f)
           enough == Len(got) >= Need \/ PageRows(f) = <<>>
                     \/ (IF P(c).by = "seq" THEN NextFrom(c, f) ELSE Len(got)) >= Total
           new == Paged(calls[c], got, NextFrom(c, f))
<1>1. /\ got \in RowLists /\ GotIsOwn(c, got) /\ RowsInOrder(c, got)
      /\ NextFrom(c, f) \in Nat
      /\ P(c).by = "seq" => NextFrom(c, f) = Len(got)
  BY PageGood
<1>2. ~(c \in garbled' /\ Strict(c))
  BY TakeIsOwn, ReaderIs DEF PlanIsSound, Strict
<1>3. calls[c] \in CallRecords /\ calls[c].at \in Busy
  BY ReaderIs DEF Reads1, Busy
<1>4. IF enough \/ calls[c].sent = MaxPages
      THEN Closes(c, IF got = <<>> THEN "empty" ELSE "rows", got)
      ELSE AsksAgain(c, new)
  BY DEF TakesPage, Paged
<1> HIDE DEF enough
<1>5. CASE enough \/ calls[c].sent = MaxPages
  <2> DEFINE res == IF got = <<>> THEN "empty" ELSE "rows"
  <2>1. res \in Results /\ Closes(c, res, got)
    BY <1>4, <1>5 DEF Results
  <2> HIDE DEF res, got
  <2> QED
    BY <1>1, <1>2, <1>3, <2>1, ClosesOutcome DEF Reads1
<1>6. CASE ~(enough \/ calls[c].sent = MaxPages)
  <2>1. AsksAgain(c, new)
    BY <1>4, <1>6
  <2> HIDE DEF got
  <2>2. new \in CallRecords /\ Keeps(new, calls[c]) /\ new.got = got
          /\ new.from = NextFrom(c, f) /\ new.res = calls[c].res
    BY <1>1, <1>3, PageFits
  <2> HIDE DEF new
  <2> QED
    BY <1>1, <1>2, <2>1, <2>2, AgainOutcome
<1> QED
  BY <1>5, <1>6

LEMMA TakesTwiceOutcome ==
    ASSUME NEW c \in Callers, NEW f, Reads1(c, f), Garbles(c, f), "take" \in Meanings(c, f),
           P(c).more = "twice", TakesTwice(c, f)
    PROVE  ReadOutcome(c)
<1> DEFINE got == calls[c].got \o Fresh(c, f)
           again == ~calls[c].drift /\ PageRows(f) # <<>> /\ f.rows = "valueless"
           enough == Len(got) >= Need \/ PageRows(f) = <<>> \/ Len(got) >= Total
                        \/ calls[c].full
           drift == [calls[c] EXCEPT !.drift = TRUE]
           full == Filled(calls[c], got)
<1>1. got \in RowLists /\ GotIsOwn(c, got) /\ RowsInOrder(c, got)
  BY PageGood
<1>2. ~Strict(c) /\ P(c).by # "seq"
  BY ReaderIs DEF PlanIsSound, Strict
<1>3. calls[c] \in CallRecords /\ calls[c].at \in Busy
  BY ReaderIs DEF Reads1, Busy
<1>4. IF again THEN AsksAgain(c, drift)
      ELSE IF enough THEN Closes(c, IF got = <<>> THEN "empty" ELSE "rows", got)
      ELSE AsksAgain(c, full)
  BY DEF TakesTwice, Filled
<1> HIDE DEF again, enough
<1>5. CASE again
  <2>1. drift \in CallRecords /\ Keeps(drift, calls[c]) /\ drift.got = calls[c].got
          /\ drift.res = calls[c].res
    BY <1>3, DriftFits
  <2>2. GotIsOwn(c, calls[c].got) /\ RowsInOrder(c, calls[c].got)
    BY <1>2, ReaderIs DEF RowsInOrder
  <2> HIDE DEF drift
  <2> QED
    BY <1>2, <1>4, <1>5, <2>1, <2>2, AgainOutcome
<1>6. CASE ~again /\ enough
  <2> DEFINE res == IF got = <<>> THEN "empty" ELSE "rows"
  <2>1. res \in Results /\ Closes(c, res, got)
    BY <1>4, <1>6 DEF Results
  <2> HIDE DEF res, got
  <2> QED
    BY <1>1, <1>2, <1>3, <2>1, ClosesOutcome DEF Reads1
<1>7. CASE ~again /\ ~enough
  <2>1. AsksAgain(c, full)
    BY <1>4, <1>7
  <2> HIDE DEF got
  <2>2. full \in CallRecords /\ Keeps(full, calls[c]) /\ full.got = got
          /\ full.res = calls[c].res
    BY <1>1, <1>3, FullFits
  <2> HIDE DEF full
  <2> QED
    BY <1>1, <1>2, <2>1, <2>2, AgainOutcome
<1> QED
  BY <1>5, <1>6, <1>7

\* A loop that reads on.
LEMMA OnOutcome ==
    ASSUME NEW c \in Callers, NEW f, Reads1(c, f), Numbers' \subseteq Numbers,
           NEW new \in CallRecords, Keeps(new, calls[c]), KeepsNumber(new, calls[c]),
           new.at = "read", new.left > 0, new.from = calls[c].from,
           new.res = calls[c].res, GoesOn(c, new),
           GotIsOwn(c, new.got),
           new.got = calls[c].got \/ P(c).more \in {"phases", "fragments"},
           c \in garbled' /\ Strict(c) =>
              /\ new.saw
              /\ P(c).by = "seq" => \A q \in Numbers' : q.seq # calls[c].seq
    PROVE  ReadOutcome(c)
<1>1. /\ calls' \in [Callers -> CallRecords] /\ Others(c) /\ lock' = lock
      /\ Keeps(calls'[c], new) /\ KeepsNumber(calls'[c], new)
      /\ calls'[c].at = "read" /\ calls'[c].got = new.got /\ calls'[c].from = new.from
      /\ calls'[c].saw = new.saw /\ calls'[c].res = new.res
  BY GoesOnIs, ReaderIs
<1>2. Keeps(calls'[c], calls[c]) /\ KeepsNumber(calls'[c], calls[c])
  BY <1>1 DEF Keeps, KeepsNumber
<1>3. IsGood(c)'
  BY <1>1, <1>2, ReadsOnGood DEF Reads1
<1> QED
  BY <1>1, <1>3 DEF ReadOutcome

LEMMA TakesOutcome ==
    ASSUME NEW c \in Callers, NEW f, Reads1(c, f), Garbles(c, f), "take" \in Meanings(c, f),
           Numbers' \subseteq Numbers, Takes(c, f)
    PROVE  ReadOutcome(c)
<1> DEFINE got == Append(calls[c].got, Item(f, 0))
           new == [calls[c] EXCEPT !.got = got]
<1>1. /\ calls[c] \in CallRecords /\ calls[c].at = "read" /\ calls[c].left > 0
      /\ calls[c].at \in Busy
  BY ReaderIs DEF Reads1, Busy
<1>2. got \in RowLists /\ GotIsOwn(c, got)
  BY AppendGood
<1>3. P(c).more \in {"one", "pages", "twice", "phases", "fragments"}
  BY ReaderIs DEF PlanIsSound
<1>4. CASE P(c).more = "pages"
  BY <1>4, TakesPageOutcome DEF Takes
<1>5. CASE P(c).more = "twice"
  BY <1>5, TakesTwiceOutcome DEF Takes
<1>6. ASSUME P(c).more \in {"one", "phases", "fragments"}, Closes(c, "rows", got)
      PROVE  ReadOutcome(c)
  <2>1. RowsInOrder(c, got)
    BY <1>6 DEF RowsInOrder
  <2>2. "rows" \in Results
    BY DEF Results
  <2> HIDE DEF got
  <2> QED
    BY <1>1, <1>2, <1>6, <2>1, <2>2, ClosesOutcome DEF Reads1
<1>7. ASSUME P(c).more \in {"phases", "fragments"}, GoesOn(c, new)
      PROVE  ReadOutcome(c)
  <2> HIDE DEF got
  <2>1. /\ new \in CallRecords /\ Keeps(new, calls[c]) /\ KeepsNumber(new, calls[c])
        /\ new.at = "read" /\ new.got = got /\ new.from = calls[c].from
        /\ new.saw = calls[c].saw /\ new.left > 0 /\ new.res = calls[c].res
    BY <1>1, <1>2, GotFits
  <2> HIDE DEF new
  <2>2. c \in garbled' /\ Strict(c) => calls[c].saw /\ P(c).by # "seq"
    BY TakeIsOwn
  <2> QED
    BY <1>2, <1>7, <2>1, <2>2, OnOutcome
<1>8. CASE P(c).more \in {"one", "phases", "fragments"}
  <2>1. \/ Closes(c, "rows", got)
        \/ P(c).more \in {"phases", "fragments"} /\ GoesOn(c, new)
    BY <1>8 DEF Takes
  <2> HIDE DEF got, new
  <2> QED
    BY <1>6, <1>7, <1>8, <2>1 DEF new
<1> QED
  BY <1>3, <1>4, <1>5, <1>8

\* An answer that cannot be used, though it is its own, is seen.
LEMMA OddIsSeen ==
    ASSUME NEW c \in Callers, NEW f, Reads1(c, f), Strict(c), Own(c, f), f.rows = "odd"
    PROVE  f.kind = "data" /\ Meanings(c, f) = {"saw"}
<1>1. f.of.family # "size" /\ f.kind \in {"data", "size", "push", "bad", "tail"}
  BY ReaderIs DEF Own, PlanIsSound, Reads1, Frames
<1>2. f.kind = "data"
  BY <1>1 DEF Reads1
<1> QED
  BY <1>2, ReaderIs, NothingIsEmpty DEF Reads1

LEMMA JudgesOutcome ==
    ASSUME NEW c \in Callers, NEW f, Reads1(c, f), Garbles(c, f), NEW m \in Meanings(c, f),
           Numbers' \subseteq Numbers, Judges(c, m, f),
           c \in garbled' /\ Strict(c) /\ P(c).by = "seq" =>
              \A q \in Numbers' : q.seq # calls[c].seq
    PROVE  ReadOutcome(c)
<1>1. /\ calls[c] \in CallRecords /\ calls[c].at = "read" /\ calls[c].left > 0
      /\ calls[c].at \in Busy /\ ReadsTypeOK /\ IsGood(c)
      /\ calls[c].got \in RowLists /\ GotIsOwn(c, calls[c].got)
  BY ReaderIs DEF Reads1, Busy
<1>2. CASE m = "take"
  BY <1>2, TakesOutcome DEF Judges
<1>3. CASE m \in {"fails", "empty"}
  <2>1. Closes(c, m, <<>>) /\ m \in Results
    BY <1>3 DEF Judges, Results
  <2>2. c \in garbled' /\ Strict(c) => m # "empty"
    BY ReaderIs, NothingIsEmpty DEF Reads1
  <2>3. <<>> \in RowLists /\ GotIsOwn(c, <<>>) /\ RowsInOrder(c, <<>>)
    BY EmptySeq DEF RowLists, GotIsOwn, RowsInOrder
  <2> QED
    BY <1>1, <2>1, <2>2, <2>3, ClosesOutcome
<1>4. CASE m = "saw"
  <2> DEFINE new == [calls[c] EXCEPT !.saw = TRUE]
  <2>1. GoesOn(c, new)
    BY <1>4 DEF Judges
  <2>2. /\ new \in CallRecords /\ Keeps(new, calls[c]) /\ KeepsNumber(new, calls[c])
        /\ new.at = "read" /\ new.got = calls[c].got /\ new.from = calls[c].from
        /\ new.saw /\ new.left > 0 /\ new.res = calls[c].res
    BY <1>1, SawFits
  <2> HIDE DEF new
  <2> QED
    BY <1>1, <2>1, <2>2, OnOutcome
<1>5. CASE m = "other" /\ P(c).more = "fragments" /\ calls[c].got # <<>>
  <2>1. Closes(c, "rows", calls[c].got) /\ "rows" \in Results
    BY <1>5 DEF Judges, Results
  <2>2. RowsInOrder(c, calls[c].got)
    BY <1>5 DEF RowsInOrder
  <2> QED
    BY <1>1, <2>1, <2>2, ClosesOutcome
<1>6. CASE /\ m \notin {"take", "fails", "empty", "saw"}
           /\ ~(m = "other" /\ P(c).more = "fragments" /\ calls[c].got # <<>>)
  <2>1. GoesOn(c, calls[c])
    BY <1>6 DEF Judges
  <2>2. c \in garbled' /\ Strict(c) => c \in garbled
    BY <1>6, OddIsSeen DEF Garbles
  <2>3. c \in garbled' /\ Strict(c) => calls[c].saw
    BY <1>1, <2>2, ReaderIs DEF RemembersOdd
  <2>4. Keeps(calls[c], calls[c]) /\ KeepsNumber(calls[c], calls[c])
    BY DEF Keeps, KeepsNumber
  <2> QED
    BY <1>1, <2>1, <2>3, <2>4, OnOutcome
<1> QED
  BY <1>2, <1>3, <1>4, <1>5, <1>6

\* The answer that is read is gone.
LEMMA HeadGone ==
    ASSUME wire \in Seq(Frames), Wired, owed' = owed, NEW n \in 1 .. Len(wire),
           wire' = Behind(wire, n), wire[1].kind = "data", wire[1].of.seq # 0
    PROVE  \A q \in Numbers' : q.seq # wire[1].of.seq
<1>1. Len(wire) \in Nat /\ n \in 0 .. Len(wire)
  BY LenProperties
<1>2. PICK m \in n .. Len(wire) : Behind(wire, n) = From(wire, m)
  BY <1>1, BehindIs DEF Wired, FramesAreSound
<1>3. m \in 0 .. Len(wire) /\ m >= 1
  BY <1>1
<1>4. /\ Len(From(wire, m)) = Len(wire) - m /\ From(wire, m) \in Seq(Frames)
      /\ \A i \in 1 .. Len(wire) - m : From(wire, m)[i] = wire[i + m]
  BY <1>3, FromAre
<1>5. AnsweredOnce /\ 1 \in DOMAIN wire
  BY <1>1, LenProperties DEF Wired
<1> SUFFICES ASSUME NEW q \in Numbers' PROVE q.seq # wire[1].of.seq
  OBVIOUS
<1>6. CASE q \in owed
  BY <1>5, <1>6 DEF AnsweredOnce, Numbers
<1>7. CASE \E i \in DOMAIN wire' : wire'[i].kind = "data" /\ q = wire'[i].of
  <2>1. PICK i \in DOMAIN wire' : wire'[i].kind = "data" /\ q = wire'[i].of
    BY <1>7
  <2>2. i \in 1 .. Len(wire) - m
    BY <1>2, <1>4, <2>1, LenProperties
  <2>3. i + m \in DOMAIN wire /\ i + m # 1
    BY <1>1, <1>3, <2>2, LenProperties
  <2>4. wire[i + m].kind = "data" /\ q = wire[i + m].of
    BY <1>2, <1>4, <2>1, <2>2
  <2> QED
    BY <1>5, <2>3, <2>4 DEF AnsweredOnce
<1> QED
  BY <1>6, <1>7 DEF Numbers

-----------------------------------------------------------------------------
(* The reader's steps                                                      *)

LEMMA InvParts ==
    ReadsInv <=> /\ ReadsTypeOK /\ OneReads /\ Wired
                 /\ \A c \in Callers : IsGood(c)
  BY GoodIsAll DEF ReadsInv, Wired

LEMMA InvPartsNext ==
    ASSUME ReadsTypeOK', OneReads', Wired', \A c \in Callers : IsGood(c)'
    PROVE  ReadsInv'
<1>1. CallsAreSound' /\ AnswerIsOwn' /\ PagesFollow'
  BY DEF IsGood, GotIsOwn, CallsAreSound, AnswerIsOwn, PagesFollow, Holds
<1> QED
  BY <1>1 DEF ReadsInv, Wired

LEMMA StepTypes ==
    ASSUME ReadsTypeOK, wire' \in Seq(Frames), owed' \subseteq Asked,
           lock' \in Callers \cup {NoOne}, UNCHANGED <<client, asks, pushed, sequence>>,
           delivered' \subseteq 1 .. MaxPushes, acked' \subseteq Codes, local' \subseteq Codes,
           calls' \in [Callers -> CallRecords], garbled' \subseteq Callers
    PROVE  ReadsTypeOK'
  BY DEF ReadsTypeOK

\* One caller's step that leaves the rest sound.
LEMMA StepInv ==
    ASSUME ReadsInv, NEW c \in Callers, ReadsTypeOK', OneReads', Wired',
           Numbers' \subseteq Numbers, Others(c), garbled' \ {c} = garbled \ {c}, IsGood(c)'
    PROVE  ReadsInv'
<1>1. ASSUME NEW d \in Callers PROVE IsGood(d)'
  BY InvParts, OthersGood
<1> QED
  BY <1>1, InvPartsNext

LEMMA ReadStep ==
    ASSUME ReadsInv, NEW c \in Callers, calls[c].at = "read", ReadOutcome(c), Quieter,
           UNCHANGED <<owed, asks, pushed, sequence, bucket>>,
           delivered' \subseteq 1 .. MaxPushes,
           garbled' \ {c} = garbled \ {c}
    PROVE  ReadsInv'
<1>1. ReadsTypeOK /\ Wired /\ OneReads /\ wire \in Seq(Frames)
  BY InvParts, TypeParts
<1>2. Wired' /\ Numbers' \subseteq Numbers /\ wire' \in Seq(Frames)
  BY <1>1, QuieterWired
<1>3. calls' \in [Callers -> CallRecords] /\ Others(c) /\ IsGood(c)'
        /\ (lock' = lock \/ (lock' = NoOne /\ calls'[c].at # "read"))
  BY DEF ReadOutcome
<1>4. lock = c
  BY <1>1 DEF OneReads
<1>5. \A d \in Callers \ {c} : calls'[d].at # "read"
  BY <1>1, <1>3, <1>4 DEF Others, OneReads
<1>6. OneReads'
  BY <1>3, <1>4, <1>5 DEF OneReads
<1>7. garbled' \subseteq Callers
  BY <1>1, TypeParts
<1>8. /\ UNCHANGED <<client, asks, pushed, sequence>>
      /\ acked' \subseteq Codes /\ local' \subseteq Codes /\ owed' \subseteq Asked
  BY <1>1 DEF bucket, ReadsTypeOK
<1>9. lock' \in Callers \cup {NoOne}
  BY <1>3, <1>4
<1>10. ReadsTypeOK'
  BY <1>1, <1>2, <1>3, <1>7, <1>8, <1>9, StepTypes
<1> QED
  BY <1>2, <1>3, <1>6, <1>10, StepInv

LEMMA ReadFrameStep ==
    ASSUME ReadsInv, NEW c \in Callers, ReadFrame(c)
    PROVE  ReadsInv'
<1> DEFINE mended == Mended(c, wire)
           f == mended.frame
<1>1. /\ calls[c].at = "read" /\ lock = c /\ calls[c].left > 0 /\ wire # <<>>
      /\ UNCHANGED <<owed, asks, pushed, sequence, bucket>>
      /\ wire' = mended.rest /\ Garbles(c, f)
  BY DEF ReadFrame, Reading, Garbles
<1>2. PICK m \in Meanings(c, f) :
         /\ Judges(c, m, f)
         /\ IF m = "other" THEN Delivers(c, {f}) ELSE UNCHANGED delivered
  BY DEF ReadFrame
<1>3. /\ ReadsTypeOK /\ Wired /\ FramesAreSound /\ wire \in Seq(Frames) /\ IsGood(c)
      /\ delivered \subseteq 1 .. MaxPushes
  BY InvParts, TypeParts DEF Wired, ReadsTypeOK
<1>4. /\ f \in Frames /\ f.kind = Head(wire).kind /\ f.of = Head(wire).of
      /\ P(c).mends = "peek" => ~f.torn
      /\ \E n \in 1 .. Len(wire) : mended.rest = Behind(wire, n)
  BY <1>1, <1>3, MendedIs
<1>5. /\ 1 \in DOMAIN wire /\ Head(wire) = wire[1] /\ FrameIsSound(Head(wire))
      /\ Head(wire).kind # "tail"
  BY <1>1, <1>3, HeadIsSound
<1> HIDE DEF f, mended
<1>6. PICK n \in 1 .. Len(wire) : wire' = Behind(wire, n)
  BY <1>1, <1>4
<1>7. n \in 0 .. Len(wire) /\ TailsFollow(wire) /\ owed' \subseteq owed
  BY <1>1, <1>3, LenProperties DEF FramesAreSound
<1>8. Quieter
  BY <1>3, <1>6, <1>7, ReadAway
<1>9. Numbers' \subseteq Numbers
  BY <1>3, <1>8, QuieterNumbers
<1>10. f.kind = "data" /\ f.of.seq # 0 => f.of \in Numbers
  BY <1>4, <1>5 DEF Numbers
<1>11. Reads1(c, f)
  BY <1>1, <1>3, <1>4, <1>5, <1>10 DEF Reads1, FrameIsSound
<1>12. ASSUME c \in garbled', Strict(c), P(c).by = "seq", NEW q \in Numbers'
       PROVE  q.seq # calls[c].seq
  <2>1. CASE c \in garbled
    <3>1. \A r \in Numbers : r.seq # calls[c].seq
      BY <1>1, <1>11, <1>12, <2>1, ReaderIs DEF RemembersOdd
    <3> QED
      BY <1>9, <1>12, <3>1
  <2>2. CASE c \notin garbled
    <3>1. Own(c, f) /\ f.rows = "odd"
      BY <1>1, <1>12, <2>2 DEF Garbles
    <3>2. f.kind = "data" /\ f.of.seq = calls[c].seq
      BY <1>11, <1>12, <3>1, OddIsSeen DEF Own
    <3>3. calls[c].seq # 0
      BY <1>1, <1>11, <1>12, ReaderIs DEF NumberIsOwn
    <3>4. \A r \in Numbers' : r.seq # wire[1].of.seq
      BY <1>1, <1>3, <1>4, <1>5, <1>6, <3>2, <3>3, HeadGone
    <3> QED
      BY <1>4, <1>5, <1>12, <3>2, <3>4
  <2> QED
    BY <2>1, <2>2
<1>13. ReadOutcome(c)
  BY <1>1, <1>2, <1>9, <1>11, <1>12, JudgesOutcome
<1>14. delivered' \subseteq 1 .. MaxPushes
  <2>1. f.kind = "push" => f.of.ask \in 1 .. MaxPushes
    BY <1>4, <1>5 DEF FrameIsSound
  <2> QED
    BY <1>2, <1>3, <2>1 DEF Delivers
<1>15. garbled' \ {c} = garbled \ {c}
  BY <1>1 DEF Garbles
<1> QED
  BY <1>1, <1>8, <1>13, <1>14, <1>15, ReadStep

\* What a loop says that ends without its answer: not "nothing", when it saw one it
\* could not use.
LEMMA VerdictIs ==
    ASSUME NEW c \in Callers, ReadsTypeOK, IsGood(c), calls[c].at = "read"
    PROVE  /\ Verdict(c) \in Results
           /\ c \in garbled /\ Strict(c) => Verdict(c) # "empty"
           /\ calls[c].got \in RowLists /\ GotIsOwn(c, calls[c].got)
           /\ RowsInOrder(c, calls[c].got)
<1>1. /\ calls[c] \in CallRecords /\ calls[c].name \in Services
      /\ PagesInOrder(c) /\ RemembersOdd(c) /\ GotIsOwn(c, calls[c].got)
  BY TypeParts DEF IsGood, CallIsSound
<1>2. Verdict(c) \in Results
  BY <1>1, PlanOfCall DEF Verdict, Results, PlanIsSound
<1>3. c \in garbled /\ Strict(c) => Verdict(c) # "empty"
  BY <1>1 DEF Verdict, RemembersOdd, Strict
<1>4. RowsInOrder(c, calls[c].got)
  BY <1>1 DEF RowsInOrder, PagesInOrder
<1> QED
  BY <1>1, <1>2, <1>3, <1>4, CallFields

LEMMA VerdictOutcome ==
    ASSUME NEW c \in Callers, ReadsTypeOK, IsGood(c), calls[c].at = "read",
           garbled' = garbled, Closes(c, Verdict(c), calls[c].got)
    PROVE  ReadOutcome(c)
  BY VerdictIs, ClosesOutcome DEF Busy

\* A step of a reader that reads no frame.
LEMMA QuietOutcome ==
    ASSUME NEW c \in Callers, ReadsTypeOK, IsGood(c), wire \in Seq(Frames), Quieter,
           calls[c].at = "read", calls[c].left > 0, garbled' = garbled,
           \/ \E res \in {"fails", "late"} : Closes(c, res, <<>>)
           \/ P(c).late = "empty" /\ Closes(c, "empty", <<>>)
           \/ calls[c].got # <<>> /\ Closes(c, "rows", calls[c].got)
           \/ Closes(c, Verdict(c), calls[c].got)
           \/ GoesOn(c, calls[c])
    PROVE  ReadOutcome(c)
<1>1. /\ calls[c] \in CallRecords /\ calls[c].name \in Services /\ RemembersOdd(c)
      /\ calls[c].at \in Busy
  BY TypeParts DEF Busy, IsGood, CallIsSound
<1>2. <<>> \in RowLists /\ GotIsOwn(c, <<>>) /\ RowsInOrder(c, <<>>)
  BY EmptySeq DEF RowLists, GotIsOwn, RowsInOrder
<1>3. {"fails", "late", "empty", "rows"} \subseteq Results
  BY DEF Results
<1>4. CASE \E res \in {"fails", "late"} : Closes(c, res, <<>>)
  BY <1>1, <1>2, <1>3, <1>4, ClosesOutcome
<1>5. CASE P(c).late = "empty" /\ Closes(c, "empty", <<>>)
  <2>1. ~Strict(c)
    BY <1>1, <1>5, PlanOfCall DEF PlanIsSound, Strict
  <2> QED
    BY <1>1, <1>2, <1>3, <1>5, <2>1, ClosesOutcome
<1>6. CASE calls[c].got # <<>> /\ Closes(c, "rows", calls[c].got)
  BY <1>1, <1>3, <1>6, VerdictIs, ClosesOutcome
<1>7. CASE Closes(c, Verdict(c), calls[c].got)
  BY <1>7, VerdictOutcome
<1>8. CASE GoesOn(c, calls[c])
  <2>1. /\ calls' \in [Callers -> CallRecords] /\ Others(c) /\ lock' = lock
        /\ Keeps(calls'[c], calls[c]) /\ KeepsNumber(calls'[c], calls[c])
        /\ calls'[c].at = "read" /\ calls'[c].got = calls[c].got
        /\ calls'[c].from = calls[c].from /\ calls'[c].saw = calls[c].saw
        /\ calls'[c].res = calls[c].res
    BY <1>1, <1>8, GoesOnIs, TypeParts
  <2>2. Numbers' \subseteq Numbers
    BY QuieterNumbers
  <2>3. c \in garbled' /\ Strict(c) =>
           /\ calls'[c].saw
           /\ P(c).by = "seq" => \A q \in Numbers' : q.seq # calls[c].seq
    BY <1>1, <2>1, <2>2 DEF RemembersOdd
  <2>4. GotIsOwn(c, calls[c].got)
    BY VerdictIs
  <2>5. IsGood(c)'
    BY <2>1, <2>2, <2>3, <2>4, ReadsOnGood
  <2> QED
    BY <2>1, <2>5 DEF ReadOutcome
<1> QED
  BY <1>4, <1>5, <1>6, <1>7, <1>8

LEMMA ReadBrokenStep ==
    ASSUME ReadsInv, NEW c \in Callers, ReadBroken(c)
    PROVE  ReadsInv'
<1>1. /\ calls[c].at = "read" /\ lock = c /\ calls[c].left > 0
      /\ UNCHANGED <<owed, asks, pushed, delivered, sequence, bucket, garbled>>
  BY DEF ReadBroken, Reading
<1>2. PICK n \in 1 .. Len(wire) : wire' = Behind(wire, n)
  BY DEF ReadBroken
<1>3. /\ ReadsTypeOK /\ Wired /\ wire \in Seq(Frames) /\ IsGood(c)
      /\ delivered \subseteq 1 .. MaxPushes
  BY InvParts, TypeParts DEF ReadsTypeOK
<1>4. n \in 0 .. Len(wire) /\ TailsFollow(wire) /\ owed' \subseteq owed
  BY <1>1, <1>3, LenProperties DEF FramesAreSound, Wired
<1>5. Quieter
  BY <1>2, <1>3, <1>4, ReadAway
<1>6. \/ P(c).broken = "fails" /\ Closes(c, "fails", <<>>)
      \/ P(c).broken = "resync" /\ calls[c].got # <<>> /\ Closes(c, "rows", calls[c].got)
      \/ GoesOn(c, calls[c])
  BY DEF ReadBroken
<1>7. ReadOutcome(c)
  BY <1>1, <1>3, <1>5, <1>6, QuietOutcome
<1> QED
  BY <1>1, <1>3, <1>5, <1>7, ReadStep

LEMMA TimesOutStep ==
    ASSUME ReadsInv, NEW c \in Callers, TimesOut(c)
    PROVE  ReadsInv'
<1>1. /\ calls[c].at = "read" /\ lock = c /\ calls[c].left > 0
      /\ UNCHANGED <<owed, asks, pushed, delivered, sequence, bucket, garbled>>
      /\ wire' = IF wire = <<>> THEN wire ELSE Rest(wire)
  BY DEF TimesOut, Reading
<1>2. /\ ReadsTypeOK /\ Wired /\ wire \in Seq(Frames) /\ IsGood(c)
      /\ delivered \subseteq 1 .. MaxPushes
  BY InvParts, TypeParts DEF ReadsTypeOK
<1>3. TailsFollow(wire) /\ owed' \subseteq owed
  BY <1>1, <1>2 DEF FramesAreSound, Wired
<1>4. Quieter
  <2>1. CASE wire = <<>>
    BY <1>1, <1>2, <1>3, <2>1, Unchanged
  <2>2. CASE wire # <<>>
    <3>1. 1 \in 0 .. Len(wire)
      BY <1>2, <2>2, LenProperties, EmptySeq
    <3> QED
      BY <1>1, <1>2, <1>3, <2>2, <3>1, ReadAway DEF Rest
  <2> QED
    BY <2>1, <2>2
<1>5. \/ GoesOn(c, calls[c])
      \/ P(c).late = "empty" /\ Closes(c, "empty", <<>>)
      \/ Closes(c, "late", <<>>)
      \/ Closes(c, Verdict(c), calls[c].got)
  BY DEF TimesOut
<1>6. ReadOutcome(c)
  BY <1>1, <1>2, <1>4, <1>5, QuietOutcome
<1> QED
  BY <1>1, <1>2, <1>4, <1>6, ReadStep

LEMMA ExhaustedStep ==
    ASSUME ReadsInv, NEW c \in Callers, Exhausted(c)
    PROVE  ReadsInv'
<1>1. /\ calls[c].at = "read" /\ Closes(c, Verdict(c), calls[c].got)
      /\ UNCHANGED <<wire, owed, asks, pushed, delivered, sequence, bucket, garbled>>
  BY DEF Exhausted
<1>2. /\ ReadsTypeOK /\ Wired /\ wire \in Seq(Frames) /\ IsGood(c)
      /\ delivered \subseteq 1 .. MaxPushes
  BY InvParts, TypeParts DEF ReadsTypeOK
<1>3. TailsFollow(wire) /\ owed' \subseteq owed
  BY <1>1, <1>2 DEF FramesAreSound, Wired
<1>4. Quieter
  BY <1>1, <1>2, <1>3, Unchanged
<1>5. ReadOutcome(c)
  BY <1>1, <1>2, VerdictOutcome
<1> QED
  BY <1>1, <1>2, <1>4, <1>5, ReadStep

-----------------------------------------------------------------------------
(* The other steps of a call                                               *)

\* A step that begins no read and sends no numbered request.
LEMMA CallStep ==
    ASSUME ReadsInv, NEW c \in Callers, IsGood(c)', calls' \in [Callers -> CallRecords],
           Others(c), calls'[c].at # "read", Quieter,
           UNCHANGED <<client, asks, pushed, sequence>>,
           lock' = lock \/ (lock \in {c, NoOne} /\ lock' = NoOne),
           owed' \subseteq Asked, delivered' \subseteq 1 .. MaxPushes,
           acked' \subseteq Codes, local' \subseteq Codes,
           garbled' \subseteq Callers, garbled' \ {c} = garbled \ {c}
    PROVE  ReadsInv'
<1>1. ReadsTypeOK /\ Wired /\ OneReads /\ wire \in Seq(Frames) /\ lock \in Callers \cup {NoOne}
  BY InvParts, TypeParts
<1>2. Wired' /\ Numbers' \subseteq Numbers /\ wire' \in Seq(Frames)
  BY <1>1, QuieterWired
<1>3. ASSUME NEW d \in Callers, calls'[d].at = "read"
      PROVE  lock' = d
  <2>1. d # c /\ calls'[d] = calls[d]
    BY <1>3 DEF Others
  <2>2. lock = d /\ d # NoOne
    BY <1>1, <1>3, <2>1, CallersAssumption DEF OneReads
  <2> QED
    BY <2>1, <2>2
<1>4. OneReads'
  BY <1>3 DEF OneReads
<1>5. ReadsTypeOK'
  BY <1>1, <1>2, StepTypes
<1> QED
  BY <1>2, <1>4, <1>5, StepInv

\* What such a step starts from.
LEMMA CallStarts ==
    ASSUME ReadsInv, NEW c \in Callers
    PROVE  /\ calls \in [Callers -> CallRecords] /\ calls[c] \in CallRecords
           /\ ReadsTypeOK /\ IsGood(c) /\ wire \in Seq(Frames) /\ FramesAreSound
           /\ TailsFollow(wire) /\ owed \subseteq Asked /\ delivered \subseteq 1 .. MaxPushes
           /\ acked \subseteq Codes /\ local \subseteq Codes /\ garbled \subseteq Callers
           /\ GotIsOwn(c, calls[c].got) /\ calls[c].got \in RowLists
           /\ calls[c].at # "idle" =>
                 /\ calls[c].name \in Services /\ calls[c].code \in Codes /\ PlanIsSound(P(c))
                 /\ HasNoResult(c) /\ TakesOne(c) /\ PagesInOrder(c) /\ RemembersOdd(c)
<1>1. /\ ReadsTypeOK /\ IsGood(c) /\ Wired
      /\ calls \in [Callers -> CallRecords] /\ calls[c] \in CallRecords
  BY InvParts, TypeParts
<1> QED
  BY <1>1, TypeParts, PlanOfCall, CallFields
     DEF ReadsTypeOK, IsGood, CallIsSound, Wired, FramesAreSound

LEMMA BeginStep ==
    ASSUME ReadsInv, NEW c \in Callers, BeginCall(c)
    PROVE  ReadsInv'
<1>1. PICK name \in client.makes[c], code \in Codes :
         Put(c, [Idle EXCEPT !.at = First(PlanOf(name)), !.name = name, !.code = code])
  BY DEF BeginCall
<1>2. /\ calls[c].at = "idle"
      /\ UNCHANGED <<wire, owed, lock, asks, pushed, delivered, sequence, bucket, garbled>>
  BY DEF BeginCall
<1>3. name \in Services
  <2>1. client.makes \in [Callers -> SUBSET Services]
    BY TypeParts, InvParts, ClientsAssumption
  <2> QED
    BY <2>1
<1>4. First(PlanOf(name)) \in {"register", "ask"}
  BY DEF First
<1> DEFINE new == Begun(First(PlanOf(name)), name, code)
<1>5. /\ new \in CallRecords
      /\ new.at \in {"register", "ask"} /\ new.name = name /\ new.code = code
      /\ new.got = <<>> /\ new.from = 0 /\ new.res = "none"
  BY <1>3, <1>4, BeginFits
<1>6. Put(c, new)
  BY <1>1 DEF Begun
<1> HIDE DEF new
<1>7. calls' \in [Callers -> CallRecords] /\ calls'[c] = new /\ Others(c)
  BY <1>5, <1>6, CallStarts, PutIs
<1>8. c \notin garbled'
  BY <1>2, CallStarts DEF IsGood, CallIsSound
<1>9. IsGood(c)'
  <2>1. GotIsOwn(c, calls[c].got)'
    BY <1>5, <1>7 DEF GotIsOwn
  <2>2. HasNoResult(c)' /\ TakesOne(c)' /\ PagesInOrder(c)' /\ NumberIsOwn(c)' /\ RemembersOdd(c)'
    BY <1>5, <1>7, <1>8, EmptySeq, LenProperties
       DEF HasNoResult, TakesOne, PagesInOrder, NumberIsOwn, RemembersOdd
  <2> QED
    BY <1>3, <1>5, <1>7, <2>1, <2>2 DEF IsGood, CallIsSound
<1>10. Quieter
  BY <1>2, CallStarts, Unchanged
<1> QED
  BY <1>2, <1>5, <1>7, <1>9, <1>10, CallStarts, CallStep DEF bucket

\* A call that moves on with what it has, and does not ask or read.
LEMMA MovesGood ==
    ASSUME NEW c \in Callers, IsGood(c), calls[c].at # "idle",
           calls'[c].at \in {"ask", "done"}, calls[c].at = "register" \/ calls'[c].at = "done",
           Keeps(calls'[c], calls[c]), KeepsNumber(calls'[c], calls[c]),
           calls'[c].got = calls[c].got, calls'[c].from = calls[c].from,
           calls'[c].res = calls[c].res
              \/ (calls'[c].at = "done" /\ (~Strict(c) \/ c \notin garbled)),
           calls[c].at \in {"register", "apply"},
           garbled' = garbled
    PROVE  IsGood(c)'
<1>1. P(c)' = P(c) /\ calls'[c].name \in Services /\ calls'[c].code \in Codes
  BY KeepsPlan DEF Keeps, IsGood, CallIsSound
<1>2. GotIsOwn(c, calls[c].got)'
  BY <1>1 DEF GotIsOwn, IsGood, Keeps, KeepsNumber
<1>3. HasNoResult(c)' /\ TakesOne(c)' /\ PagesInOrder(c)' /\ NumberIsOwn(c)'
  BY <1>1 DEF HasNoResult, TakesOne, PagesInOrder, NumberIsOwn, IsGood, CallIsSound, Busy
<1>4. RemembersOdd(c)'
  BY <1>1 DEF RemembersOdd, Strict, IsGood, CallIsSound
<1> QED
  BY <1>1, <1>2, <1>3, <1>4 DEF IsGood, CallIsSound

LEMMA SkipsStep ==
    ASSUME ReadsInv, NEW c \in Callers, Skips(c)
    PROVE  ReadsInv'
<1> DEFINE new == [calls[c] EXCEPT !.at = "done", !.res = "empty"]
<1>1. /\ calls[c].at = "register" /\ Put(c, new)
      /\ UNCHANGED <<wire, owed, lock, asks, pushed, delivered, sequence, bucket, garbled>>
  BY DEF Skips
<1>2. /\ new \in CallRecords /\ Keeps(new, calls[c]) /\ KeepsNumber(new, calls[c])
      /\ new.at = "done" /\ new.got = calls[c].got /\ new.from = calls[c].from
  BY CallStarts, SkipFits
<1> HIDE DEF new
<1>3. calls' \in [Callers -> CallRecords] /\ calls'[c] = new /\ Others(c)
  BY <1>1, <1>2, CallStarts, PutIs
<1>4. ~Strict(c) \/ c \notin garbled
  BY <1>1, CallStarts DEF RemembersOdd
<1>5. IsGood(c)'
  BY <1>1, <1>2, <1>3, <1>4, CallStarts, MovesGood
<1>6. Quieter
  BY <1>1, CallStarts, Unchanged
<1> QED
  BY <1>1, <1>2, <1>3, <1>5, <1>6, CallStarts, CallStep DEF bucket

LEMMA RegisterStep ==
    ASSUME ReadsInv, NEW c \in Callers, Register(c)
    PROVE  ReadsInv'
<1> DEFINE new == [calls[c] EXCEPT !.at = "ask"]
<1>1. /\ calls[c].at = "register" /\ Put(c, new)
      /\ UNCHANGED <<owed, lock, asks, pushed, sequence, bucket, garbled>>
  BY DEF Register
<1>2. PICK n \in 0 .. Len(wire) :
          /\ wire' = Behind(wire, n)
          /\ delivered' = delivered \cup
                {wire[i].of.ask : i \in {j \in 1 .. n : wire[j].kind = "push"}}
  BY DEF Register
<1>3. /\ new \in CallRecords /\ Keeps(new, calls[c]) /\ KeepsNumber(new, calls[c])
      /\ new.at = "ask" /\ new.got = calls[c].got /\ new.from = calls[c].from
      /\ new.res = calls[c].res
  BY CallStarts, PlaceFits DEF Stages
<1> HIDE DEF new
<1>4. calls' \in [Callers -> CallRecords] /\ calls'[c] = new /\ Others(c)
  BY <1>1, <1>3, CallStarts, PutIs
<1>5. IsGood(c)'
  BY <1>1, <1>3, <1>4, CallStarts, MovesGood
<1>6. Quieter
  BY <1>1, <1>2, CallStarts, ReadAway
<1>7. delivered' \subseteq 1 .. MaxPushes
  <2>1. \A i \in 1 .. n : i \in DOMAIN wire
    BY <1>2, CallStarts, LenProperties
  <2>2. \A i \in 1 .. n : wire[i].kind = "push" => wire[i].of.ask \in 1 .. MaxPushes
    BY <2>1, CallStarts DEF FramesAreSound, FrameIsSound
  <2> QED
    BY <1>2, <2>2, CallStarts
<1> QED
  BY <1>1, <1>3, <1>4, <1>5, <1>6, <1>7, CallStarts, CallStep DEF bucket

LEMMA RegistrationFits ==
    ASSUME NEW code \in Codes \cup {"none"}
    PROVE  /\ Registration(code) \in Asked /\ Registration(code).seq = 0
           /\ Registration(code).family = "size"
<1>1. "size" \in Families /\ 0 \in 0 .. SeqMod - 1
  BY SequenceAssumption DEF Families
<1> QED
  BY <1>1 DEF Registration, Asked, Requests

LEMMA RegisterFailsStep ==
    ASSUME ReadsInv, NEW c \in Callers, RegisterFails(c)
    PROVE  ReadsInv'
<1>1. /\ calls[c].at = "register" /\ Ends(c, "fails", <<>>)
      /\ owed' = owed \cup {Registration(calls[c].code)}
      /\ UNCHANGED <<wire, lock, asks, pushed, delivered, sequence, bucket, garbled>>
  BY DEF RegisterFails
<1>2. Registration(calls[c].code) \in Asked /\ Registration(calls[c].code).seq = 0
  BY <1>1, CallStarts, RegistrationFits
<1>3. /\ "fails" \in Results /\ "fails" # "empty"
      /\ <<>> \in RowLists /\ GotIsOwn(c, <<>>) /\ RowsInOrder(c, <<>>)
  BY EmptySeq DEF RowLists, GotIsOwn, RowsInOrder, Results
<1>4. IsGood(c)' /\ calls' \in [Callers -> CallRecords] /\ Others(c) /\ calls'[c].at # "read"
  BY <1>1, <1>3, CallStarts, EndsGood DEF Busy
<1>5. Quieter
  BY <1>1, <1>2, CallStarts, Unchanged
<1> QED
  BY <1>1, <1>2, <1>4, <1>5, CallStarts, CallStep DEF bucket

\* The connection breaks before the request is sent, or while its answer is read.
LEMMA BreaksStep ==
    ASSUME ReadsInv, NEW c \in Callers, Breaks(c)
    PROVE  ReadsInv'
<1> DEFINE res == IF P(c).breaks = "ends" THEN Verdict(c) ELSE P(c).breaks
<1>1. /\ calls[c].at \in {"ask", "read"} /\ lock \in {c, NoOne} /\ Ends(c, res, calls[c].got)
      /\ wire' = <<>> /\ owed' = {} /\ lock' = NoOne /\ acked' = {} /\ local' = {}
      /\ UNCHANGED <<client, asks, pushed, delivered, sequence, garbled>>
  BY DEF Breaks
<1>2. Verdict(c) \in Results
  BY <1>1, CallStarts DEF Verdict, Results, PlanIsSound
<1>3. res \in Results
  BY <1>1, <1>2, CallStarts DEF Results, PlanIsSound
<1>4. RowsInOrder(c, calls[c].got)
  BY <1>1, CallStarts DEF RowsInOrder, PagesInOrder
<1>5. c \in garbled' /\ Strict(c) => res # "empty"
  <2>1. ASSUME c \in garbled', Strict(c)
        PROVE  res # "empty"
    <3>1. calls[c].at = "read" /\ calls[c].saw
      BY <1>1, <2>1, CallStarts DEF RemembersOdd
    <3>2. Verdict(c) # "empty"
      BY <2>1, <3>1 DEF Verdict, Strict
    <3>3. P(c).breaks # "empty"
      BY <1>1, <2>1, CallStarts DEF Strict, PlanIsSound
    <3> QED
      BY <3>2, <3>3
  <2> QED
    BY <2>1
<1> HIDE DEF res
<1>6. IsGood(c)' /\ calls' \in [Callers -> CallRecords] /\ Others(c) /\ calls'[c].at # "read"
  BY <1>1, <1>3, <1>4, <1>5, CallStarts, EndsGood DEF Busy
<1>7. Quieter
  BY <1>1, CallStarts, Emptied
<1> QED
  BY <1>1, <1>6, <1>7, CallStarts, CallStep

LEMMA ApplyStep ==
    ASSUME ReadsInv, NEW c \in Callers, Apply(c)
    PROVE  ReadsInv'
<1> DEFINE new == [calls[c] EXCEPT !.at = "done"]
<1>1. /\ calls[c].at = "apply" /\ Put(c, new)
      /\ local' = Managed(P(c).manage, local, calls[c].code)
      /\ UNCHANGED <<client, wire, owed, lock, asks, pushed, delivered, sequence, acked, garbled>>
  BY DEF Apply
<1>2. /\ new \in CallRecords /\ Keeps(new, calls[c]) /\ KeepsNumber(new, calls[c])
      /\ new.at = "done" /\ new.got = calls[c].got /\ new.from = calls[c].from
      /\ new.res = calls[c].res
  BY CallStarts, PlaceFits DEF Stages
<1> HIDE DEF new
<1>3. calls' \in [Callers -> CallRecords] /\ calls'[c] = new /\ Others(c)
  BY <1>1, <1>2, CallStarts, PutIs
<1>4. IsGood(c)'
  BY <1>1, <1>2, <1>3, CallStarts, MovesGood
<1>5. Quieter
  BY <1>1, CallStarts, Unchanged
<1>6. local' \subseteq Codes
  <2>1. P(c).manage \in {"replace", "add", "clear"}
    BY <1>1, CallStarts DEF IsGood, CallIsSound, PlanIsSound
  <2> QED
    BY <1>1, <2>1, CallStarts DEF Managed
<1> QED
  BY <1>1, <1>2, <1>3, <1>4, <1>5, <1>6, CallStarts, CallStep

LEMMA ReturnStep ==
    ASSUME ReadsInv, NEW c \in Callers, Return(c)
    PROVE  ReadsInv'
<1>1. /\ Put(c, Idle) /\ garbled' = garbled \ {c}
      /\ UNCHANGED <<wire, owed, lock, asks, pushed, delivered, sequence, bucket>>
  BY DEF Return
<1>2. calls' \in [Callers -> CallRecords] /\ calls'[c] = Idle /\ Others(c)
  BY <1>1, IdleFits, CallStarts, PutIs
<1>3. Idle.at = "idle" /\ Idle.got = <<>>
  BY DEF Idle
<1>4. IsGood(c)'
  BY <1>1, <1>2, <1>3 DEF IsGood, CallIsSound, GotIsOwn
<1>5. Quieter
  BY <1>1, CallStarts, Unchanged
<1> QED
  BY <1>1, <1>2, <1>3, <1>4, <1>5, CallStarts, CallStep DEF bucket

-----------------------------------------------------------------------------
(* Asking                                                                  *)

\* The numbers go round, 0 left out: the one given next is the oldest, and every
\* other one is a step older then.
LEMMA NextIs ==
    ASSUME NEW n \in 1 .. SeqMod - 1
    PROVE  NextSequence(n) = IF n = SeqMod - 1 THEN 1 ELSE n + 1
<1>1. SeqMod \in Nat \ {0} /\ n + 1 \in Nat
  BY SequenceAssumption
<1>2. SeqMod % SeqMod = 0
  BY <1>1
<1>3. n + 1 < SeqMod => (n + 1) % SeqMod = n + 1
  BY <1>1
<1> QED
  BY <1>1, <1>2, <1>3 DEF NextSequence

LEMMA GapGrows ==
    ASSUME sequence \in 1 .. SeqMod - 1, sequence' = NextSequence(sequence),
           NEW s \in 1 .. SeqMod - 1
    PROVE  /\ sequence' \in 1 .. SeqMod - 1
           /\ Gap(s) \in 0 .. SeqMod - 2
           /\ s # sequence' => Gap(s)' = Gap(s) + 1
           /\ s = sequence' => Gap(s) = SeqMod - 2 /\ Gap(s)' = 0
<1>1. SeqMod \in Nat
  BY SequenceAssumption
<1>2. sequence' = IF sequence = SeqMod - 1 THEN 1 ELSE sequence + 1
  BY NextIs
<1> QED
  BY <1>1, <1>2 DEF Gap

\* No request is numbered as one that may still be answered.
LEMMA NumberIsFree ==
    ASSUME ReadsInv, asks < client.asks, sequence' = NextSequence(sequence)
    PROVE  /\ sequence' \in 1 .. SeqMod - 1
           /\ \A q \in Numbers : /\ q.seq # sequence'
                                 /\ q.ask >= 1 /\ Gap(q.seq)' <= (asks + 1) - q.ask
<1>1. /\ sequence \in 1 .. SeqMod - 1 /\ asks \in Nat /\ client.asks \in 0 .. SeqMod - 1
      /\ wire \in Seq(Frames) /\ owed \subseteq Requests
  <2>1. client.asks \in 0 .. SeqMod - 1
    BY InvParts, TypeParts, ClientsAssumption
  <2>2. asks \in 0 .. client.asks
    BY InvParts, TypeParts
  <2> QED
    BY <2>1, <2>2, InvParts, TypeParts, SequenceAssumption DEF Asked
<1>2. SeqMod \in Nat
  BY SequenceAssumption
<1>3. sequence' \in 1 .. SeqMod - 1
  BY <1>1, <1>2, NextIs
<1>4. ASSUME NEW q \in Numbers
      PROVE  q.seq \in 1 .. SeqMod - 1 /\ q.ask \in Nat
  <2>1. q \in Requests /\ q.seq # 0
    <3>1. \A i \in DOMAIN wire : wire[i] \in Frames
      BY <1>1, ElementOfSeq, LenProperties
    <3> QED
      BY <1>1, <3>1 DEF Numbers, Frames
  <2> QED
    BY <2>1, <1>2 DEF Requests
<1>5. ASSUME NEW q \in Numbers
      PROVE  q.seq # sequence' /\ q.ask >= 1 /\ Gap(q.seq)' <= (asks + 1) - q.ask
  <2>1. q.ask >= 1 /\ Gap(q.seq) <= asks - q.ask
    BY DEF ReadsInv, NumbersAreRecent
  <2>2. /\ Gap(q.seq) \in 0 .. SeqMod - 2
        /\ q.seq # sequence' => Gap(q.seq)' = Gap(q.seq) + 1
        /\ q.seq = sequence' => Gap(q.seq) = SeqMod - 2
    BY <1>1, <1>4, GapGrows
  <2>3. Gap(q.seq) < SeqMod - 2
    BY <1>1, <1>2, <1>4, <2>1, <2>2
  <2>4. q.seq # sequence'
    BY <1>2, <2>2, <2>3
  <2>5. Gap(q.seq) + 1 <= (asks + 1) - q.ask
    BY <1>1, <1>4, <2>1, <2>2
  <2> QED
    BY <2>1, <2>2, <2>4, <2>5
<1> QED
  BY <1>3, <1>5

LEMMA RequestFits ==
    ASSUME ReadsInv, NEW c \in Callers, calls[c].at # "idle", NEW seq \in 1 .. SeqMod - 1
    PROVE  LET q == Request(c, seq) IN
           /\ q \in Asked /\ q.ask = asks + 1 /\ q.from = calls[c].from
           /\ q.seq = IF P(c).by = "seq" THEN seq ELSE 0
           /\ P(c).by = "seq" => q.replies = 1
<1>1. /\ P(c).family \in Families /\ PlanIsSound(P(c)) /\ calls[c].code \in Codes
      /\ calls[c] \in CallRecords
  BY CallStarts, PlanOfCall
<1>2. calls[c].from \in Nat /\ calls[c].full \in BOOLEAN
  BY <1>1, CallFields
<1>3. asks + 1 \in Nat
  <2>1. asks \in 0 .. client.asks /\ client.asks \in 0 .. SeqMod - 1
    BY InvParts, TypeParts, ClientsAssumption
  <2> QED
    BY <2>1
<1>4. seq \in 0 .. SeqMod - 1 /\ 0 \in 0 .. SeqMod - 1
  BY SequenceAssumption
<1> DEFINE q == Request(c, seq)
<1>5. q \in Requests
  BY <1>1, <1>2, <1>3, <1>4 DEF Request, Requests, PlanIsSound
<1> QED
  BY <1>1, <1>5 DEF Request, Asked, PlanIsSound

\* What is on its way stays sound when a request is sent.
LEMMA AskWired ==
    ASSUME ReadsInv, asks < client.asks, wire' = wire, asks' = asks + 1,
           NEW q \in Requests, owed' = owed \cup {q},
           \/ q.seq = 0 /\ sequence' = sequence
           \/ /\ q.seq = sequence' /\ sequence' = NextSequence(sequence)
              /\ q.ask = asks + 1 /\ q.replies = 1
    PROVE  Wired' /\ Numbers' = IF q.seq = 0 THEN Numbers ELSE Numbers \cup {q}
<1>1. Wired /\ AnsweredOnce /\ NumbersAreRecent /\ FramesAreSound
  BY InvParts DEF Wired
<1>2. Numbers' = IF q.seq = 0 THEN Numbers ELSE Numbers \cup {q}
  BY DEF Numbers
<1>3. FramesAreSound'
  BY <1>1 DEF FramesAreSound
<1>4. asks \in Nat /\ sequence \in 1 .. SeqMod - 1
  <2>1. asks \in 0 .. client.asks /\ sequence \in 1 .. SeqMod - 1
    BY InvParts, TypeParts
  <2> QED
    BY <2>1
<1>5. ASSUME NEW r \in Numbers
      PROVE  r.seq # 0 /\ r.ask \in Nat
  <2>1. owed \subseteq Requests /\ wire \in Seq(Frames)
    BY InvParts, TypeParts DEF Asked
  <2>2. \A i \in DOMAIN wire : wire[i] \in Frames
    BY <2>1, ElementOfSeq, LenProperties
  <2> QED
    BY <2>1, <2>2 DEF Numbers, Frames, Requests
<1>6. CASE q.seq = 0 /\ sequence' = sequence
  <2>1. ASSUME NEW r \in Numbers'
        PROVE  r.ask >= 1 /\ Gap(r.seq)' <= asks' - r.ask
    <3>1. r \in Numbers /\ Gap(r.seq)' = Gap(r.seq)
      BY <1>2, <1>6, <2>1 DEF Gap
    <3>2. r.ask >= 1 /\ Gap(r.seq) <= asks - r.ask /\ r.ask \in Nat
      BY <1>1, <1>5, <3>1 DEF NumbersAreRecent
    <3>3. r.seq \in 1 .. SeqMod - 1 /\ Gap(r.seq) \in Int
      <4>1. owed \subseteq Requests /\ wire \in Seq(Frames)
        BY InvParts, TypeParts DEF Asked
      <4>2. \A i \in DOMAIN wire : wire[i] \in Frames
        BY <4>1, ElementOfSeq, LenProperties
      <4>3. r \in Requests /\ r.seq # 0
        BY <3>1, <4>1, <4>2 DEF Numbers, Frames
      <4>4. r.seq \in 0 .. SeqMod - 1 /\ SeqMod \in Nat
        BY <4>3, SequenceAssumption DEF Requests
      <4> QED
        BY <1>4, <4>3, <4>4 DEF Gap
    <3> QED
      BY <1>4, <3>1, <3>2, <3>3
  <2>2. NumbersAreRecent'
    BY <2>1 DEF NumbersAreRecent
  <2>3. AnsweredOnce'
    BY <1>1, <1>6 DEF AnsweredOnce
  <2> QED
    BY <1>2, <1>3, <2>2, <2>3 DEF Wired
<1>7. CASE /\ q.seq = sequence' /\ sequence' = NextSequence(sequence)
           /\ q.ask = asks + 1 /\ q.replies = 1
  <2>1. /\ sequence' \in 1 .. SeqMod - 1
        /\ \A r \in Numbers : /\ r.seq # sequence'
                              /\ r.ask >= 1 /\ Gap(r.seq)' <= (asks + 1) - r.ask
    BY <1>7, NumberIsFree
  <2>2. q.seq # 0
    BY <1>7, <2>1
  <2>3. Gap(q.seq)' = 0
    BY <1>4, <1>7, <2>1, GapGrows
  <2>4. q.ask >= 1 /\ 0 <= (asks + 1) - q.ask
    BY <1>4, <1>7
  <2>5. ASSUME NEW r \in Numbers'
        PROVE  r.ask >= 1 /\ Gap(r.seq)' <= asks' - r.ask
    <3>1. CASE r \in Numbers
      BY <2>1, <3>1
    <3>2. CASE r = q
      BY <2>3, <2>4, <3>2
    <3> QED
      BY <1>2, <2>2, <3>1, <3>2
  <2>6. /\ \A r \in owed : r.seq # q.seq
        /\ \A i \in DOMAIN wire : wire[i].kind = "data" => wire[i].of.seq # q.seq
    BY <1>7, <2>1, <2>2 DEF Numbers
  <2>7. AnsweredOnce'
    <3>1. ASSUME NEW r \in owed', r.seq # 0
          PROVE  /\ r.replies = 1
                 /\ \A t \in owed' : t.seq = r.seq => t = r
                 /\ \A i \in DOMAIN wire : wire[i].kind = "data" => wire[i].of.seq # r.seq
      <4>1. CASE r = q
        BY <1>7, <2>6, <4>1
      <4>2. CASE r \in owed
        BY <1>1, <2>6, <3>1, <4>2 DEF AnsweredOnce
      <4> QED
        BY <4>1, <4>2
    <3> QED
      BY <1>1, <3>1 DEF AnsweredOnce
  <2> QED
    BY <1>2, <1>3, <2>5, <2>7 DEF Wired, NumbersAreRecent
<1> QED
  BY <1>6, <1>7

LEMMA AskStep ==
    ASSUME ReadsInv, NEW c \in Callers, Ask(c)
    PROVE  ReadsInv'
<1> DEFINE q == Request(c, sequence')
           new == Sending(calls[c], asks + 1, sequence')
<1>1. /\ calls[c].at = "ask" /\ lock = NoOne /\ asks < client.asks
      /\ sequence' = IF P(c).by = "seq" THEN NextSequence(sequence) ELSE sequence
      /\ owed' = owed \cup {q} /\ lock' = c /\ asks' = asks + 1 /\ Put(c, new)
      /\ UNCHANGED <<wire, pushed, delivered, bucket, garbled>>
  BY DEF Ask, Sending
<1>2. /\ sequence \in 1 .. SeqMod - 1 /\ asks \in 0 .. client.asks
      /\ client.asks \in 0 .. SeqMod - 1 /\ wire \in Seq(Frames) /\ OneReads
  BY InvParts, TypeParts, ClientsAssumption
<1>3. sequence' \in 1 .. SeqMod - 1
  BY <1>1, <1>2, NumberIsFree
<1>4. sequence' \in 0 .. SeqMod - 1 /\ asks + 1 \in Nat /\ asks + 1 \in 0 .. client.asks
  BY <1>1, <1>2, <1>3
<1>5. /\ q \in Asked /\ q \in Requests /\ q.ask = asks + 1 /\ q.from = calls[c].from
      /\ q.seq = IF P(c).by = "seq" THEN sequence' ELSE 0
      /\ P(c).by = "seq" => q.replies = 1
  BY <1>1, <1>3, RequestFits DEF Asked
<1>6. /\ new \in CallRecords /\ Keeps(new, calls[c])
      /\ new.at = "read" /\ new.ask = asks + 1 /\ new.seq = sequence'
      /\ new.got = calls[c].got /\ new.from = calls[c].from
      /\ new.res = calls[c].res
  BY <1>4, CallStarts, AskFits
<1> HIDE DEF q, new
<1>7. Wired' /\ Numbers' = IF q.seq = 0 THEN Numbers ELSE Numbers \cup {q}
  BY <1>1, <1>5, AskWired
<1>8. calls' \in [Callers -> CallRecords] /\ calls'[c] = new /\ Others(c)
  BY <1>1, <1>6, CallStarts, PutIs
<1>9. P(c)' = P(c)
  BY <1>6, <1>8, KeepsPlan
<1>10. IsGood(c)'
  <2>1. /\ calls[c].name \in Services /\ calls[c].code \in Codes /\ PlanIsSound(P(c))
        /\ HasNoResult(c) /\ TakesOne(c) /\ PagesInOrder(c) /\ RemembersOdd(c) /\ GotIsOwn(c, calls[c].got)
    BY <1>1, CallStarts
  <2>2. GotIsOwn(c, calls[c].got)'
    <3>1. P(c).by = "seq" /\ P(c).more = "one" => calls[c].got = <<>>
      BY <1>1, <2>1 DEF TakesOne, Busy
    <3> QED
      BY <1>6, <1>8, <1>9, <2>1, <3>1 DEF GotIsOwn, Keeps
  <2>3. HasNoResult(c)' /\ TakesOne(c)' /\ PagesInOrder(c)'
    BY <1>1, <1>6, <1>8, <1>9, <2>1 DEF HasNoResult, TakesOne, PagesInOrder, Busy
  <2>4. NumberIsOwn(c)'
    <3>1. ASSUME P(c).by = "seq"
          PROVE  /\ sequence' # 0
                 /\ \A r \in Numbers' : r.seq = sequence' =>
                       r.ask = asks + 1 /\ r.from = calls[c].from
      <4>1. \A r \in Numbers : r.seq # sequence'
        BY <1>1, <3>1, NumberIsFree
      <4> QED
        BY <1>3, <1>5, <1>7, <4>1
    <3> QED
      BY <1>6, <1>8, <1>9, <3>1 DEF NumberIsOwn
  <2>5. RemembersOdd(c)'
    BY <1>1, <1>9, <2>1 DEF RemembersOdd, Strict
  <2> QED
    BY <1>6, <1>8, <2>1, <2>2, <2>3, <2>4, <2>5 DEF IsGood, CallIsSound, Keeps
<1>11. ASSUME NEW d \in Callers
       PROVE  IsGood(d)'
  <2>1. CASE d # c
    <3>1. calls[d].at # "read" /\ IsGood(d)
      BY <1>1, <1>2, InvParts, CallersAssumption DEF OneReads
    <3> QED
      BY <1>1, <1>8, <2>1, <3>1, OthersGood
  <2> QED
    BY <1>10, <2>1
<1>12. OneReads'
  BY <1>1, <1>2, <1>8, CallersAssumption DEF OneReads, Others
<1>13. ReadsTypeOK'
  <2>1. /\ client' = client /\ pushed' = pushed /\ delivered' = delivered
        /\ acked' = acked /\ local' = local /\ garbled' = garbled /\ wire' = wire
    BY <1>1 DEF bucket
  <2> QED
    BY <1>1, <1>3, <1>4, <1>5, <1>8, <2>1, InvParts DEF ReadsTypeOK
<1> QED
  BY <1>7, <1>11, <1>12, <1>13, InvPartsNext

-----------------------------------------------------------------------------
(* The server's steps                                                      *)

\* A frame that is sent: the answer to a request that is no longer owed, or what
\* has no number.
Sent(f) ==
    /\ wire' = Append(wire, f) /\ f \in Frames /\ FrameIsSound(f)
    /\ f.kind = "tail" => /\ wire # <<>> /\ wire[Len(wire)].kind = "data"
                          /\ wire[Len(wire)].rows = "cut"
    /\ \A r \in owed' : r \in owed \/ r.seq = 0
    /\ f.kind = "data" /\ f.of.seq # 0 => f.of \in owed /\ f.of \notin owed'

LEMMA SentIs ==
    ASSUME wire \in Seq(Frames), NEW f, Sent(f)
    PROVE  /\ wire' \in Seq(Frames) /\ Len(wire) \in Nat
           /\ DOMAIN wire = 1 .. Len(wire) /\ DOMAIN wire' = 1 .. Len(wire) + 1
           /\ wire'[Len(wire) + 1] = f
           /\ \A i \in 1 .. Len(wire) : wire'[i] = wire[i]
<1>1. f \in Frames /\ wire' = Append(wire, f)
  BY DEF Sent
<1>2. /\ wire' \in Seq(Frames) /\ Len(wire') = Len(wire) + 1 /\ Len(wire) \in Nat
      /\ \A i \in 1 .. Len(wire) + 1 : wire'[i] = IF i <= Len(wire) THEN wire[i] ELSE f
  BY <1>1, AppendProperties, LenProperties
<1> QED
  BY <1>2, LenProperties

LEMMA SentWired ==
    ASSUME wire \in Seq(Frames), Wired, NEW f, Sent(f), sequence' = sequence, asks' = asks
    PROVE  Wired' /\ Numbers' \subseteq Numbers /\ wire' \in Seq(Frames)
<1> DEFINE n == Len(wire)
<1>1. /\ wire' \in Seq(Frames) /\ n \in Nat
      /\ DOMAIN wire = 1 .. n /\ DOMAIN wire' = 1 .. n + 1 /\ wire'[n + 1] = f
      /\ \A i \in 1 .. n : wire'[i] = wire[i]
  BY SentIs
<1>2. FramesAreSound /\ NumbersAreRecent /\ AnsweredOnce
  BY DEF Wired
<1>3. wire # <<>> => n \in 1 .. n
  BY <1>1, EmptySeq
<1>4. f.kind = "tail" => n \in 1 .. n /\ wire[n].kind = "data" /\ wire[n].rows = "cut"
  BY <1>3 DEF Sent
<1> HIDE DEF n
<1>5. ASSUME NEW i \in 1 .. n + 1
      PROVE  i \in 1 .. n \/ i = n + 1
  BY <1>1
<1>6. FramesAreSound'
  <2>1. ASSUME NEW i \in DOMAIN wire', wire'[i].kind = "tail"
        PROVE  i > 1 /\ wire'[i - 1].kind = "data" /\ wire'[i - 1].rows = "cut"
    <3>1. CASE i \in 1 .. n
      <4>1. i > 1 /\ wire[i - 1].kind = "data" /\ wire[i - 1].rows = "cut"
        BY <1>1, <1>2, <2>1, <3>1 DEF FramesAreSound, TailsFollow
      <4>2. i - 1 \in 1 .. n
        BY <1>1, <3>1, <4>1
      <4> QED
        BY <1>1, <4>1, <4>2
    <3>2. CASE i = n + 1
      <4>1. n \in 1 .. n /\ wire[n].kind = "data" /\ wire[n].rows = "cut"
        BY <1>1, <1>4, <2>1, <3>2
      <4>2. i - 1 = n /\ i > 1
        BY <1>1, <3>2, <4>1
      <4> QED
        BY <1>1, <4>1, <4>2
    <3> QED
      BY <1>1, <1>5, <3>1, <3>2
  <2>2. \A i \in DOMAIN wire' : FrameIsSound(wire'[i])
    BY <1>1, <1>2, <1>5 DEF FramesAreSound, Sent
  <2> QED
    BY <2>1, <2>2 DEF FramesAreSound, TailsFollow, FrameIsSound
<1>7. Numbers' \subseteq Numbers
  <2>1. ASSUME NEW r \in Numbers'
        PROVE  r \in Numbers
    <3>1. r.seq # 0
      BY DEF Numbers
    <3>2. CASE r \in owed'
      BY <3>1, <3>2 DEF Numbers, Sent
    <3>3. CASE \E i \in DOMAIN wire' : wire'[i].kind = "data" /\ r = wire'[i].of
      <4>1. PICK i \in DOMAIN wire' : wire'[i].kind = "data" /\ r = wire'[i].of
        BY <3>3
      <4>2. CASE i \in 1 .. n
        BY <1>1, <3>1, <4>1, <4>2 DEF Numbers
      <4>3. CASE i = n + 1
        BY <1>1, <3>1, <4>1, <4>3 DEF Numbers, Sent
      <4> QED
        BY <1>1, <1>5, <4>2, <4>3
    <3> QED
      BY <3>2, <3>3 DEF Numbers
  <2> QED
    BY <2>1
<1>8. \A s : Gap(s)' = Gap(s)
  BY DEF Gap
<1>9. NumbersAreRecent'
  BY <1>2, <1>7, <1>8 DEF NumbersAreRecent
<1>10. ASSUME NEW r \in owed', r.seq # 0
       PROVE  /\ r.replies = 1
              /\ \A t \in owed' : t.seq = r.seq => t = r
              /\ \A i \in DOMAIN wire' : wire'[i].kind = "data" => wire'[i].of.seq # r.seq
  <2>1. r \in owed /\ \A t \in owed' : t.seq = r.seq => t \in owed
    BY <1>10 DEF Sent
  <2>2. /\ r.replies = 1 /\ \A t \in owed : t.seq = r.seq => t = r
        /\ \A i \in DOMAIN wire : wire[i].kind = "data" => wire[i].of.seq # r.seq
    BY <1>2, <1>10, <2>1 DEF AnsweredOnce
  <2>3. f.kind = "data" => f.of.seq # r.seq
    BY <1>10, <2>1, <2>2 DEF Sent
  <2> QED
    BY <1>1, <1>5, <2>1, <2>2, <2>3
<1>11. ASSUME NEW i \in 1 .. n, wire[i].kind = "data", f.kind = "data",
              wire[i].of.seq # 0 \/ f.of.seq # 0
       PROVE  wire[i].of.seq # f.of.seq
  <2>1. CASE f.of.seq = 0
    BY <1>11, <2>1
  <2>2. CASE f.of.seq # 0
    <3>1. f.of \in owed
      BY <1>11, <2>2 DEF Sent
    <3> QED
      BY <1>1, <1>2, <1>11, <2>2, <3>1 DEF AnsweredOnce
  <2> QED
    BY <2>1, <2>2
<1>12. ASSUME NEW i \in DOMAIN wire', NEW j \in DOMAIN wire', i # j,
              wire'[i].kind = "data", wire'[j].kind = "data", wire'[i].of.seq # 0
       PROVE  wire'[i].of.seq # wire'[j].of.seq
  <2>1. CASE i \in 1 .. n /\ j \in 1 .. n
    BY <1>1, <1>2, <1>12, <2>1 DEF AnsweredOnce
  <2>2. CASE i \in 1 .. n /\ j = n + 1
    BY <1>1, <1>11, <1>12, <2>2
  <2>3. CASE i = n + 1 /\ j \in 1 .. n
    BY <1>1, <1>11, <1>12, <2>3
  <2> QED
    BY <1>1, <1>5, <1>12, <2>1, <2>2, <2>3
<1>13. AnsweredOnce'
  BY <1>10, <1>12 DEF AnsweredOnce
<1> QED
  BY <1>1, <1>6, <1>7, <1>9, <1>13 DEF Wired

\* The calls do not see what the server sends.
LEMMA ServerStep ==
    ASSUME ReadsInv, NEW f, Sent(f), owed' \subseteq Asked,
           UNCHANGED <<client, lock, asks, delivered, sequence, local, calls, garbled>>,
           pushed' \in 0 .. MaxPushes, acked' \subseteq Codes
    PROVE  ReadsInv'
<1>1. ReadsTypeOK /\ OneReads /\ Wired /\ wire \in Seq(Frames)
  BY InvParts, TypeParts
<1>2. Wired' /\ Numbers' \subseteq Numbers /\ wire' \in Seq(Frames)
  BY <1>1, SentWired
<1>3. \A c \in Callers : IsGood(c)'
  BY <1>2, InvParts, SameGood
<1>4. OneReads'
  BY <1>1 DEF OneReads
<1>5. ReadsTypeOK'
  BY <1>1, <1>2 DEF ReadsTypeOK
<1> QED
  BY <1>2, <1>3, <1>4, <1>5, InvPartsNext

LEMMA AnswersStep ==
    ASSUME ReadsInv, ServerAnswers
    PROVE  ReadsInv'
<1>1. PICK q \in owed : \E rows \in Contents(q) :
         /\ wire' = Append(wire, [kind |-> IF q.family = "size" THEN "size" ELSE "data",
                                  of |-> q, rows |-> rows, torn |-> FALSE])
         /\ acked' = IF q.manage \in {"replace", "add"} /\ rows = "some"
                      THEN acked \cup {q.code} ELSE acked
         /\ owed' = (owed \ {q}) \cup
               (IF q.replies > 1 THEN {[q EXCEPT !.replies = @ - 1]} ELSE {})
  BY DEF ServerAnswers
<1>0. PICK rows \in Contents(q) :
         /\ wire' = Append(wire, [kind |-> IF q.family = "size" THEN "size" ELSE "data",
                                  of |-> q, rows |-> rows, torn |-> FALSE])
         /\ acked' = IF q.manage \in {"replace", "add"} /\ rows = "some"
                      THEN acked \cup {q.code} ELSE acked
         /\ owed' = (owed \ {q}) \cup
               (IF q.replies > 1 THEN {[q EXCEPT !.replies = @ - 1]} ELSE {})
  BY <1>1
<1>2. UNCHANGED <<client, lock, asks, pushed, delivered, sequence, local, calls, garbled>>
  BY DEF ServerAnswers
<1> DEFINE f == [kind |-> IF q.family = "size" THEN "size" ELSE "data",
                 of |-> q, rows |-> rows, torn |-> FALSE]
           less == [q EXCEPT !.replies = @ - 1]
<1>3. /\ ReadsTypeOK /\ AnsweredOnce /\ owed \subseteq Asked /\ q \in Requests
      /\ acked \subseteq Codes /\ pushed \in 0 .. MaxPushes
  BY InvParts, TypeParts DEF Wired, Asked, ReadsTypeOK
<1>4. rows \in {"some", "none", "odd", "cut", "valueless", "unlabelled"}
  BY DEF Contents
<1>5. f \in Frames /\ FrameIsSound(f) /\ f.kind \in {"data", "size"} /\ f.of = q
  BY <1>3, <1>4 DEF Frames, FrameIsSound
<1>6. q.replies > 1 => less \in Asked /\ less.seq = q.seq
  <2>1. q \in Asked /\ q.replies \in Nat
    BY <1>3 DEF Requests
  <2>2. q.replies > 1 => q.replies - 1 \in Nat \ {0}
    BY <2>1
  <2> QED
    BY <2>1, <2>2 DEF Asked, Requests
<1>7. q.seq # 0 => q.replies = 1
  BY <1>3 DEF AnsweredOnce
<1>8. owed' = (owed \ {q}) \cup (IF q.replies > 1 THEN {less} ELSE {})
  BY <1>0
<1>9. wire' = Append(wire, f)
  BY <1>0
<1> HIDE DEF f, less
<1>10. Sent(f)
  BY <1>5, <1>6, <1>7, <1>8, <1>9 DEF Sent
<1>11. owed' \subseteq Asked
  BY <1>3, <1>6, <1>8
<1>12. acked' \subseteq Codes
  BY <1>0, <1>3 DEF Asked
<1> QED
  BY <1>2, <1>3, <1>10, <1>11, <1>12, ServerStep

LEMMA TailStep ==
    ASSUME ReadsInv, TailArrives
    PROVE  ReadsInv'
<1> DEFINE last == wire[Len(wire)]
           f == [last EXCEPT !.kind = "tail"]
<1>1. /\ wire # <<>> /\ last.rows = "cut" /\ last.kind = "data" /\ wire' = Append(wire, f)
      /\ UNCHANGED <<owed, lock, asks, pushed, delivered, sequence, bucket, calls, garbled>>
  BY DEF TailArrives
<1>2. /\ ReadsTypeOK /\ FramesAreSound /\ wire \in Seq(Frames) /\ owed \subseteq Asked
      /\ acked \subseteq Codes /\ pushed \in 0 .. MaxPushes
  BY InvParts, TypeParts DEF Wired, ReadsTypeOK
<1>3. Len(wire) \in DOMAIN wire /\ last \in Frames
  BY <1>1, <1>2, EmptySeq, LenProperties, ElementOfSeq
<1>4. FrameIsSound(last)
  BY <1>2, <1>3 DEF FramesAreSound
<1> HIDE DEF last
<1>5. f \in Frames /\ f.kind = "tail" /\ ~f.torn
  BY <1>3, <1>4 DEF Frames, FrameIsSound
<1>6. Sent(f)
  BY <1>1, <1>5 DEF Sent, FrameIsSound, last
<1> HIDE DEF f
<1> QED
  BY <1>1, <1>2, <1>6, ServerStep DEF bucket

LEMMA PushesStep ==
    ASSUME ReadsInv, ServerPushes
    PROVE  ReadsInv'
<1>1. PICK kind \in {"push", "bad"} : wire' = Append(wire, Unasked(kind))
  BY DEF ServerPushes
<1>2. /\ pushed < MaxPushes /\ pushed' = pushed + 1
      /\ UNCHANGED <<owed, lock, asks, delivered, sequence, bucket, calls, garbled>>
  BY DEF ServerPushes
<1>3. /\ ReadsTypeOK /\ wire \in Seq(Frames) /\ owed \subseteq Asked
      /\ acked \subseteq Codes /\ pushed \in 0 .. MaxPushes
  BY InvParts, TypeParts DEF ReadsTypeOK
<1>4. pushed' \in 0 .. MaxPushes /\ pushed + 1 \in 1 .. MaxPushes /\ pushed + 1 \in Nat
  BY <1>2, <1>3, LimitAssumption
<1> DEFINE f == Unasked(kind)
           of == [Registration("none") EXCEPT !.ask = pushed + 1]
<1>5. of \in Requests /\ of.family = "size" /\ of.ask = pushed + 1
  <2>1. Registration("none") \in Requests /\ Registration("none").family = "size"
    BY RegistrationFits DEF Asked
  <2> QED
    BY <1>4, <2>1 DEF Requests
<1> HIDE DEF of
<1>6. f = [kind |-> kind, of |-> of, rows |-> "none", torn |-> FALSE]
  BY DEF Unasked, of
<1>7. f \in Frames /\ FrameIsSound(f) /\ f.kind \in {"push", "bad"}
  BY <1>4, <1>5, <1>6 DEF Frames, FrameIsSound
<1>8. wire' = Append(wire, f)
  BY <1>1
<1> HIDE DEF f
<1>9. Sent(f)
  BY <1>2, <1>7, <1>8 DEF Sent
<1> QED
  BY <1>2, <1>3, <1>4, <1>9, ServerStep DEF bucket

-----------------------------------------------------------------------------
(* The theorems                                                            *)

LEMMA ReadsInitInv == ReadsInit => ReadsInv
<1> SUFFICES ASSUME ReadsInit PROVE ReadsInv
  OBVIOUS
<1>1. /\ wire = <<>> /\ owed = {} /\ lock = NoOne /\ asks = 0 /\ pushed = 0
      /\ delivered = {} /\ client \in Clients /\ sequence = FirstSeq
      /\ acked = {} /\ local = {} /\ calls = [c \in Callers |-> Idle] /\ garbled = {}
  BY DEF ReadsInit
<1>2. <<>> \in Seq(Frames) /\ DOMAIN <<>> = {}
  BY EmptySeq
<1>3. 0 \in 0 .. client.asks
  BY <1>1, ClientsAssumption
<1>4. calls \in [Callers -> CallRecords]
  BY <1>1, IdleFits
<1>5. ReadsTypeOK
  BY <1>1, <1>2, <1>3, <1>4, LimitAssumption, SequenceAssumption DEF ReadsTypeOK
<1>6. Wired
  BY <1>1, <1>2
     DEF Wired, FramesAreSound, TailsFollow, NumbersAreRecent, AnsweredOnce, Numbers
<1>7. \A c \in Callers : calls[c].at = "idle" /\ calls[c].got = <<>>
  BY <1>1 DEF Idle
<1>8. OneReads
  BY <1>7 DEF OneReads
<1>9. \A c \in Callers : IsGood(c)
  BY <1>1, <1>2, <1>7 DEF IsGood, CallIsSound, GotIsOwn
<1> QED
  BY <1>5, <1>6, <1>8, <1>9, InvParts

\* A step that changes nothing.
LEMMA StutterStep ==
    ASSUME ReadsInv, UNCHANGED readsVars
    PROVE  ReadsInv'
<1>1. /\ client' = client /\ wire' = wire /\ owed' = owed /\ lock' = lock /\ asks' = asks
      /\ pushed' = pushed /\ delivered' = delivered /\ sequence' = sequence
      /\ acked' = acked /\ local' = local /\ calls' = calls /\ garbled' = garbled
  BY DEF readsVars
<1>2. ReadsTypeOK /\ OneReads /\ Wired /\ wire \in Seq(Frames)
  BY InvParts, TypeParts
<1>3. Quieter
  BY <1>1, <1>2, Unchanged DEF Wired, FramesAreSound
<1>4. Wired' /\ Numbers' \subseteq Numbers
  BY <1>1, <1>2, <1>3, QuieterWired
<1>5. \A c \in Callers : IsGood(c)'
  BY <1>1, <1>4, InvParts, SameGood
<1>6. ReadsTypeOK' /\ OneReads'
  BY <1>1, <1>2 DEF ReadsTypeOK, OneReads
<1> QED
  BY <1>4, <1>5, <1>6, InvPartsNext

LEMMA ReadsNextInv == ReadsInv /\ [ReadsNext]_readsVars => ReadsInv'
<1> SUFFICES ASSUME ReadsInv, [ReadsNext]_readsVars PROVE ReadsInv'
  OBVIOUS
<1>1. ASSUME NEW c \in Callers, Call(c)
      PROVE  ReadsInv'
  BY <1>1, BeginStep, SkipsStep, RegisterStep, RegisterFailsStep, AskStep, BreaksStep,
     ReadFrameStep, ReadBrokenStep, TimesOutStep, ExhaustedStep, ApplyStep, ReturnStep
     DEF Call
<1>2. CASE Server
  BY <1>2, AnswersStep, TailStep, PushesStep DEF Server
<1>3. CASE UNCHANGED readsVars
  BY <1>3, StutterStep
<1> QED
  BY <1>1, <1>2, <1>3 DEF ReadsNext

\* What reads on after an answer it could not use has not answered yet, and who has,
\* did not say "nothing".
LEMMA SaysNoNothing == ReadsInv => EmptyIsHonest
<1> SUFFICES ASSUME ReadsInv, NEW c \in garbled, calls[c].res = "empty", Strict(c)
             PROVE  FALSE
  BY DEF EmptyIsHonest, Strict
<1>1. c \in Callers
  BY InvParts, TypeParts
<1>2. IsGood(c)
  BY <1>1, InvParts
<1>3. calls[c].at = "read"
  BY <1>2 DEF IsGood, CallIsSound, RemembersOdd
<1>4. calls[c].res # "empty"
  BY <1>2, <1>3 DEF IsGood, CallIsSound, HasNoResult, Busy
<1> QED
  BY <1>4

\* In every step of every request loop the state has its types: the frames on their
\* way, the requests that may be answered, and the records of the calls.
THEOREM ReadsTypeCorrect == ReadsSpec => []ReadsTypeOK
<1>1. ReadsInv => ReadsTypeOK
  BY DEF ReadsInv
<1> QED
  BY <1>1, ReadsInitInv, ReadsNextInv, PTL DEF ReadsSpec

\* However late the answers to calls that gave up come, and whatever else is on its
\* way: what looks at codes returns the code it was asked for, without a byte of the
\* next frame, and what numbers its requests, the answer to its own.
THEOREM AnswerIsOwnHolds == ReadsSpec => []AnswerIsOwn
<1>1. ReadsInv => AnswerIsOwn
  BY DEF ReadsInv
<1> QED
  BY <1>1, ReadsInitInv, ReadsNextInv, PTL DEF ReadsSpec

\* For every page size, length of the ranking and modulus of the sequence numbers, the
\* capital-flow ranking is returned without a gap and without a row twice.
THEOREM PagesFollowHolds == ReadsSpec => []PagesFollow
<1>1. ReadsInv => PagesFollow
  BY DEF ReadsInv
<1> QED
  BY <1>1, ReadsInitInv, ReadsNextInv, PTL DEF ReadsSpec

\* A loop that reads past an answer it cannot use does not say "nothing", whichever
\* way it ends.
THEOREM EmptyIsHonestHolds == ReadsSpec => []EmptyIsHonest
<1> QED
  BY SaysNoNothing, ReadsInitInv, ReadsNextInv, PTL DEF ReadsSpec

=============================================================================
