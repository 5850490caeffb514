--------------------- MODULE ConnectionRegistry_proofs ---------------------
(***************************************************************************)
(* Theorems about the registry of role connections.  The invariant says    *)
(* who holds the manager's lock, what its holder knows of the table, and   *)
(* that a connection is open while it is registered or about to be closed; *)
(* of the sockets behind them, that one which a connection owns is never    *)
(* closed under it, and that no open socket is lost.                        *)
(***************************************************************************)
EXTENDS ConnectionRegistry, TLAPS

USE DEF registry, sockets, locks, hands

Bookkeeping == <<table, over, serves, retiring>>

-----------------------------------------------------------------------------
(* Types and places                                                        *)

LEMMA InitTypes == Init => TypeOK /\ AtWork
  BY DEF Init, TypeOK, Places, AtWork

LEMMA OperationsFit ==
    ASSUME NEW o \in Ops
    PROVE  o \in AllOps /\ RolesOf(o) \subseteq Roles /\ FirstPlace(o) \in Places
  BY RolesAssumption DEF AllOps, RolesOf, FirstPlace, Places

\* The places of a beginning thread, seen from its operation.
LEMMA BeginningsFit ==
    ASSUME NEW o \in Ops
    PROVE  /\ FirstPlace(o) \in {"enter", "pop", "drop", "update", "peek", "look", "read",
                                "closeAll"}
           /\ FirstPlace(o) = "enter" => o = "acquire"
           /\ FirstPlace(o) = "peek" => o = "preheat"
  BY RolesAssumption DEF AllOps, FirstPlace

LEMMA DoneTypes ==
    ASSUME TypeOK, AtWork, NEW t \in Threads, Done(t)
    PROVE  /\ pc' \in [Threads -> Places]
           /\ op' \in [Threads -> AllOps \cup {None}]
           /\ role' \in [Threads -> Roles \cup {None}]
           /\ mine' \in [Threads -> Conns \cup {None}]
           /\ hand' \in [Threads -> Socks \cup {None}]
           /\ made' \in [Threads -> BOOLEAN]
           /\ retiring' \in [Threads -> SUBSET Conns]
           /\ AtWork'
  BY DEF Done, TypeOK, Places, Goto, AtWork

LEMMA StepTypes ==
    ASSUME TypeOK, AtWork, NEW t \in Threads, Begin(t) \/ Step(t)
    PROVE  TypeOK' /\ AtWork'
<1> USE DEF TypeOK, AtWork, Places, Goto, Holds, Dies
<1>1. CASE Begin(t)
  BY <1>1, OperationsFit, BeginningsFit DEF Begin
<1>2. CASE Enter(t)
  BY <1>2, DoneTypes DEF Enter, Active
<1>3. CASE Probe(t)
  BY <1>3 DEF Probe
<1>4. CASE OpenKept(t)
  BY <1>4 DEF OpenKept, SpareSocks
<1>5. CASE OpenChecked(t)
  BY <1>5 DEF OpenChecked, Alive
<1>6. CASE Discard(t)
  BY <1>6 DEF Discard, Forgets
<1>7. CASE Dial(t)
  BY <1>7 DEF Dial, SpareSocks
<1>8. CASE DialFails(t)
  BY <1>8, DoneTypes DEF DialFails
<1>9. CASE Offer(t)
  <2>0. pc[t] = "offer" /\ role[t] \in Roles /\ hand[t] \in Socks
    BY <1>9 DEF Offer
  <2>1. hand'[t] \in Socks /\ pc'[t] \in {"adopt", "wrap"} /\ TypeOK'
    <3>1. CASE facade[role[t]] = None
      BY <1>9, <2>0, <3>1 DEF Offer
    <3>2. CASE facade[role[t]] # None
      <4>1. facade[role[t]] \in Socks
        BY <2>0, <3>2
      <4> QED
        BY <1>9, <2>0, <3>2, <4>1 DEF Offer
    <3> QED
      BY <3>1, <3>2
  <2>2. pc'[t] = "wrap" => op'[t] = "acquire"
    BY <1>9 DEF Offer
  <2>3. \A u \in Threads \ {t} : hand'[u] = hand[u] /\ pc'[u] = pc[u]
    BY <1>9 DEF Offer
  <2>4. op' = op /\ role' = role /\ mine' = mine /\ pc[t] = "offer"
    BY <1>9 DEF Offer
  <2> QED
    BY <2>1, <2>2, <2>3, <2>4
<1>10. CASE Wrap(t)
  BY <1>10 DEF Wrap, Register, SpareConns
<1>11. CASE UseStarts(t)
  BY <1>11, DoneTypes DEF UseStarts
<1>12. CASE UseEnds(t)
  BY <1>12, DoneTypes DEF UseEnds
<1>13. CASE Pop(t)
  BY <1>13 DEF Pop
<1>14. CASE Retire(t)
  <2>1. PICK c \in retiring[t] :
          /\ Closes(t, c)
          /\ retiring' = [retiring EXCEPT ![t] = @ \ {c}]
    BY <1>14 DEF Retire
  <2>2. over' \in [Conns -> Socks \cup {None}]
    BY <2>1 DEF Closes
  <2>3. life' \in [Socks -> {"up", "eof", "closed"}]
    BY <2>1 DEF Closes
  <2>4. retiring' \in [Threads -> SUBSET Conns]
    BY <2>1
  <2> QED
    BY <1>14, <2>2, <2>3, <2>4 DEF Retire
<1>15. CASE RetireEnds(t)
  BY <1>15, DoneTypes DEF RetireEnds
<1>16. CASE Drop(t)
  BY <1>16 DEF Drop
<1>17. CASE Update(t)
  BY <1>17 DEF Update
<1>18. CASE Peek(t)
  BY <1>18, DoneTypes DEF Peek
<1>19. CASE Adopt(t)
  <2>0. pc[t] = "adopt" /\ role[t] \in Roles /\ hand[t] \in Socks
    BY <1>19 DEF Adopt
  <2>1. CASE Refuses(role[t], hand[t]) /\ made[t]
    BY <1>19, <2>0, <2>1 DEF Adopt
  <2>2. CASE Done(t) /\ UNCHANGED registry
    BY <1>19, <2>2, DoneTypes DEF Adopt
  <2>3. ASSUME Done(t), NEW c \in SpareConns, Register(role[t], c, hand[t])
        PROVE  TypeOK' /\ AtWork'
    <3>1. /\ profile' \in SUBSET Roles
          /\ table' \in [Roles -> Conns \cup {None}]
          /\ over' \in [Conns -> Socks \cup {None}]
          /\ serves' \in [Conns -> Roles \cup {None}]
      BY <2>0, <2>3 DEF Register, SpareConns
    <3> QED
      BY <1>19, <2>3, <3>1, DoneTypes DEF Adopt
  <2> QED
    BY <1>19, <2>1, <2>2, <2>3 DEF Adopt
<1>20. CASE Undo(t)
  BY <1>20, DoneTypes DEF Undo, Forgets
<1>21. CASE Look(t)
  BY <1>21, DoneTypes DEF Look
<1>22. CASE Beat(t)
  BY <1>22, DoneTypes DEF Beat
<1>23. CASE Bury(t)
  BY <1>23 DEF Bury, Forgets
<1>24. CASE Read(t)
  BY <1>24 DEF Read
<1>25. CASE Compare(t)
  BY <1>25, DoneTypes DEF Compare
<1>26. CASE CloseAll(t)
  BY <1>26 DEF CloseAll
<1>27. CASE HangUp(t)
  BY <1>27, DoneTypes DEF HangUp
<1> QED
  BY <1>1, <1>2, <1>3, <1>4, <1>5, <1>6, <1>7, <1>8, <1>9, <1>10, <1>11, <1>12,
     <1>13, <1>14, <1>15, <1>16, <1>17, <1>18, <1>19, <1>20, <1>21, <1>22,
     <1>23, <1>24, <1>25, <1>26, <1>27 DEF Step

LEMMA TypeStep ==
    ASSUME TypeOK, AtWork, [Next]_vars
    PROVE  TypeOK' /\ AtWork'
<1>1. CASE UNCHANGED vars
  BY <1>1 DEF vars, TypeOK, AtWork
<1>2. ASSUME NEW k \in Socks, ServerLeaves(k)
      PROVE  TypeOK' /\ AtWork'
  BY <1>2 DEF ServerLeaves, TypeOK, AtWork
<1> QED
  BY <1>1, <1>2, StepTypes DEF Next

\* The fields of the manager, its connections and the client's sockets keep
\* their types, and so do the places and hands of the threads.
THEOREM TypeCorrect == Spec => [](TypeOK /\ AtWork)
<1> QED
  BY InitTypes, TypeStep, PTL DEF Spec

-----------------------------------------------------------------------------
(* The manager's lock                                                      *)

LEMMA DoneLocks ==
    ASSUME NEW t \in Threads, pc \in [Threads -> Places], Done(t)
    PROVE  ~Managing(t)'
  BY DEF Done, Managing, Goto

\* A step of a thread leaves the others where they are, in their operations.
LEMMA StepIsOwn ==
    ASSUME TypeOK, NEW t \in Threads, Begin(t) \/ Step(t)
    PROVE  \A u \in Threads \ {t} :
               pc'[u] = pc[u] /\ op'[u] = op[u] /\ role'[u] = role[u] /\ mine'[u] = mine[u]
<1> USE DEF TypeOK, Goto, Done
<1> QED
  BY DEF Begin, Step, Enter, Probe, OpenKept, OpenChecked, Discard, Dial, DialFails,
         Offer, Wrap, UseStarts, UseEnds, Pop, Retire, RetireEnds, Drop, Update,
         CloseAll, HangUp, Peek, Adopt, Undo, Look, Beat, Bury, Read, Compare

\* A step takes the manager's lock when it is free, releases it, or leaves it,
\* as the thread's places say.
LEMMA StepManages ==
    ASSUME TypeOK, AtWork, NEW t \in Threads, Managing(t) <=> manager = t,
           Begin(t) \/ Step(t)
    PROVE  /\ manager' # manager => {manager, manager'} = {t, None}
           /\ Managing(t)' <=> manager' = t
<1> USE NoneAssumption DEF TypeOK, AtWork, Managing, Goto
<1>1. CASE Begin(t)
  BY <1>1, BeginningsFit DEF Begin
<1>2. CASE Enter(t) \/ Probe(t) \/ Wrap(t)
  BY <1>2, DoneLocks DEF Enter, Probe, Wrap
<1>3. CASE OpenKept(t) \/ OpenChecked(t) \/ Discard(t)
  BY <1>3 DEF OpenKept, OpenChecked, Discard
<1>4. CASE Dial(t) \/ DialFails(t) \/ Offer(t)
  BY <1>4, DoneLocks, RolesAssumption DEF Dial, DialFails, Offer, Owned
<1>5. CASE UseStarts(t) \/ UseEnds(t)
  BY <1>5, DoneLocks DEF UseStarts, UseEnds
<1>6. CASE Pop(t) \/ Retire(t) \/ Drop(t) \/ Update(t) \/ CloseAll(t)
  BY <1>6 DEF Pop, Retire, Drop, Update, CloseAll
<1>7. CASE RetireEnds(t) \/ HangUp(t)
  BY <1>7, DoneLocks DEF RetireEnds, HangUp
<1>8. CASE Peek(t) \/ Adopt(t) \/ Undo(t)
  BY <1>8, DoneLocks DEF Peek, Adopt, Undo
<1>9. CASE Look(t) \/ Beat(t) \/ Bury(t) \/ Read(t) \/ Compare(t)
  BY <1>9, DoneLocks DEF Look, Beat, Bury, Read, Compare
<1> QED
  BY <1>1, <1>2, <1>3, <1>4, <1>5, <1>6, <1>7, <1>8, <1>9 DEF Step

LEMMA ManagerStep ==
    ASSUME TypeOK, AtWork, ManagerExcludes, [Next]_vars
    PROVE  ManagerExcludes'
<1>1. CASE UNCHANGED vars
  BY <1>1 DEF vars, ManagerExcludes, Managing
<1>2. ASSUME NEW k \in Socks, ServerLeaves(k)
      PROVE  ManagerExcludes'
  BY <1>2 DEF ServerLeaves, ManagerExcludes, Managing
<1>3. ASSUME NEW t \in Threads, Begin(t) \/ Step(t)
      PROVE  ManagerExcludes'
  <2>1. /\ manager' # manager => {manager, manager'} = {t, None}
        /\ Managing(t)' <=> manager' = t
    BY <1>3, StepManages DEF ManagerExcludes
  <2>2. \A u \in Threads \ {t} : Managing(u)' <=> Managing(u)
    BY <1>3, StepIsOwn DEF Managing
  <2> QED
    BY <2>1, <2>2, NoneAssumption DEF ManagerExcludes
<1> QED
  BY <1>1, <1>2, <1>3 DEF Next

-----------------------------------------------------------------------------
(* The table and the connections                                           *)

Entries == RegisteredIsOpen /\ RetiringIsRemoved
IInv == TypeOK /\ AtWork /\ ManagerExcludes /\ HolderKnowsEntry /\ Entries

\* The steps that change neither the table nor a connection.
Quiet(t) ==
    \/ Begin(t) \/ Enter(t) \/ OpenKept(t) \/ OpenChecked(t) \/ Discard(t)
    \/ Dial(t) \/ DialFails(t) \/ Offer(t) \/ UseStarts(t) \/ UseEnds(t)
    \/ RetireEnds(t) \/ Drop(t) \/ Peek(t) \/ Undo(t) \/ Look(t) \/ Beat(t)
    \/ Bury(t) \/ Read(t) \/ Compare(t) \/ HangUp(t)

LEMMA QuietKeeps ==
    ASSUME NEW t \in Threads, Quiet(t)
    PROVE  UNCHANGED Bookkeeping
<1> USE DEF Bookkeeping, Done
<1> QED
  BY DEF Quiet, Begin, Enter, OpenKept, OpenChecked, Discard, Dial, DialFails, Offer,
         UseStarts, UseEnds, RetireEnds, Drop, Peek, Undo, Look, Beat, Bury, Read,
         Compare, HangUp

LEMMA KeptEntries ==
    ASSUME Entries, UNCHANGED Bookkeeping
    PROVE  Entries'
  BY DEF Bookkeeping, Entries, RegisteredIsOpen, RetiringIsRemoved, Registered

\* A new connection is entered where none was.
LEMMA Registering ==
    ASSUME IInv, NEW r \in Roles, NEW c \in SpareConns, NEW k \in Socks,
           table[r] = None, Register(r, c, k), UNCHANGED retiring
    PROVE  Entries'
<1>1. c \in Conns /\ over[c] = None /\ ~Registered(c)
  BY DEF SpareConns
<1>2. RegisteredIsOpen'
  BY <1>1, NoneAssumption
  DEF IInv, TypeOK, Entries, RegisteredIsOpen, Register, Registered
<1>3. RetiringIsRemoved'
  BY <1>1, NoneAssumption
  DEF IInv, TypeOK, Entries, RetiringIsRemoved, Register, Registered
<1> QED
  BY <1>2, <1>3 DEF Entries

\* Connections leave the table for the hands of one thread.
LEMMA Removing ==
    ASSUME IInv, NEW t \in Threads, NEW R \in SUBSET Roles,
           table' = [r \in Roles |-> IF r \in R THEN None ELSE table[r]],
           NEW kept \in SUBSET retiring[t],
           retiring' = [retiring EXCEPT ![t] = kept \cup ({table[r] : r \in R} \ {None})],
           UNCHANGED <<over, serves>>
    PROVE  Entries'
<1>1. RegisteredIsOpen'
  BY DEF IInv, Entries, RegisteredIsOpen
<1> DEFINE Free(c) == c # None /\ ~Registered(c)
<1>0. \A c : Free(c) => Free(c)'
  BY DEF Registered
<1>2. ASSUME NEW c \in retiring'[t]
      PROVE  /\ over[c] # None /\ ~Registered(c)'
             /\ \A u \in Threads \ {t} : c \notin retiring[u]
  <2>1. CASE c \in retiring[t]
    <3>1. over[c] # None /\ Free(c) /\ \A u \in Threads \ {t} : c \notin retiring[u]
      BY <2>1, NoneAssumption DEF IInv, TypeOK, Entries, RetiringIsRemoved
    <3> QED
      BY <1>0, <3>1
  <2>2. ASSUME NEW r \in R, c = table[r], c # None
        PROVE  /\ over[c] # None /\ ~Registered(c)'
               /\ \A u \in Threads \ {t} : c \notin retiring[u]
    <3>1. over[c] # None /\ serves[c] = r
      BY <2>2 DEF IInv, Entries, RegisteredIsOpen
    <3>2. \A q \in Roles : table[q] = c => q = r
      BY <2>2, <3>1 DEF IInv, Entries, RegisteredIsOpen
    <3>3. \A u \in Threads : c \notin retiring[u]
      BY <2>2 DEF IInv, Entries, RetiringIsRemoved, Registered
    <3> QED
      BY <2>2, <3>1, <3>2, <3>3 DEF Registered
  <2> QED
    BY <1>2, <2>1, <2>2 DEF IInv, TypeOK
<1>3. ASSUME NEW u \in Threads \ {t}, NEW c \in retiring'[u]
      PROVE  over[c] # None /\ ~Registered(c)' /\ \A v \in Threads \ {u} : c \notin retiring'[v]
  <2>1. c \in retiring[u]
    BY <1>3 DEF IInv, TypeOK
  <2>2. over[c] # None /\ Free(c) /\ \A v \in Threads \ {u} : c \notin retiring[v]
    BY <2>1, NoneAssumption DEF IInv, TypeOK, Entries, RetiringIsRemoved
  <2>3. c \notin retiring'[t]
    BY <2>2 DEF IInv, TypeOK, Registered
  <2>4. \A v \in Threads \ {u} : c \notin retiring'[v]
    BY <2>2, <2>3 DEF IInv, TypeOK
  <2> QED
    BY <1>0, <2>2, <2>4
<1>4. RetiringIsRemoved'
  BY <1>2, <1>3 DEF RetiringIsRemoved, IInv, TypeOK
<1> QED
  BY <1>1, <1>4 DEF Entries

\* A connection that is about to be closed by one thread can be closed by it.
LEMMA Retiring ==
    ASSUME IInv, NEW t \in Threads, Retire(t)
    PROVE  \E c \in retiring[t] :
               /\ over[c] # None /\ ~Registered(c)
               /\ over' = [over EXCEPT ![c] = None]
               /\ retiring' = [retiring EXCEPT ![t] = @ \ {c}]
               /\ UNCHANGED <<table, serves>>
  BY DEF Retire, Closes, IInv, Entries, RetiringIsRemoved

\* What a step does to the table and the connections.
Installs(t) ==
    \E c \in SpareConns, k \in Socks :
        /\ role[t] \in Roles /\ table[role[t]] = None
        /\ Register(role[t], c, k)
        /\ UNCHANGED retiring
Removes(t) ==
    \E R \in SUBSET Roles : \E kept \in SUBSET retiring[t] :
        /\ table' = [r \in Roles |-> IF r \in R THEN None ELSE table[r]]
        /\ retiring' = [retiring EXCEPT
                           ![t] = kept \cup ({table[r] : r \in R} \ {None})]
        /\ UNCHANGED <<over, serves>>

LEMMA StepEffects ==
    ASSUME IInv, NEW t \in Threads, Begin(t) \/ Step(t)
    PROVE  UNCHANGED Bookkeeping \/ Installs(t) \/ Removes(t) \/ Retire(t)
<1> USE DEF IInv, TypeOK, AtWork
<1>1. CASE Quiet(t)
  BY <1>1, QuietKeeps
<1>2. CASE Retire(t)
  BY <1>2
<1>3. CASE Wrap(t)
  <2>1. role[t] \in Roles /\ hand[t] \in Socks /\ table[role[t]] = None
    BY <1>3 DEF Wrap, HolderKnowsEntry, Managing
  <2> QED
    BY <1>3, <2>1 DEF Wrap, Installs
<1>4. CASE Adopt(t)
  <2>1. role[t] \in Roles /\ hand[t] \in Socks
    BY <1>4 DEF Adopt
  <2>2. CASE UNCHANGED registry
    BY <1>4, <2>2 DEF Adopt, Done, Bookkeeping
  <2>3. ASSUME ~Active(role[t]), NEW c \in SpareConns, Register(role[t], c, hand[t])
        PROVE  Installs(t)
    <3>1. table[role[t]] = None
      BY <2>1, <2>3 DEF Active, Entries, RegisteredIsOpen
    <3> QED
      BY <1>4, <2>1, <2>3, <3>1 DEF Adopt, Done, Installs
  <2> QED
    BY <1>4, <2>2, <2>3 DEF Adopt
<1>5. CASE Probe(t)
  <2>1. role[t] \in Roles /\ mine[t] \in Conns /\ table[role[t]] = mine[t]
    BY <1>5 DEF Probe, HolderKnowsEntry, Managing
  <2>2. CASE UNCHANGED <<table, retiring>>
    BY <1>5, <2>2 DEF Probe, Bookkeeping
  <2>3. CASE /\ table' = [table EXCEPT ![role[t]] = None]
             /\ retiring' = [retiring EXCEPT ![t] = @ \cup {mine[t]}]
    <3>1. {table[r] : r \in {role[t]}} \ {None} = {mine[t]}
      BY <2>1, NoneAssumption
    <3>2. table' = [r \in Roles |-> IF r \in {role[t]} THEN None ELSE table[r]]
      BY <2>1, <2>3
    <3>3. retiring' = [retiring EXCEPT ![t] = retiring[t] \cup
                          ({table[r] : r \in {role[t]}} \ {None})]
      BY <2>3, <3>1
    <3>4. UNCHANGED <<over, serves>>
      BY <1>5 DEF Probe
    <3>5. Removes(t)
      <4> USE DEF Removes
      <4>1. {role[t]} \in SUBSET Roles
        BY <2>1
      <4> WITNESS {role[t]} \in SUBSET Roles
      <4> WITNESS retiring[t] \in SUBSET retiring[t]
      <4> QED
        BY <3>2, <3>3, <3>4
    <3> QED
      BY <3>5
  <2> QED
    BY <1>5, <2>2, <2>3 DEF Probe
<1>6. CASE Pop(t)
  <2>1. role[t] \in Roles
    BY <1>6 DEF Pop
  <2>2. {table[r] : r \in {role[t]}} = {table[role[t]]}
    OBVIOUS
  <2>3. table' = [r \in Roles |-> IF r \in {role[t]} THEN None ELSE table[r]]
    BY <1>6, <2>1 DEF Pop
  <2>4. retiring' = [retiring EXCEPT ![t] = {} \cup
                        ({table[r] : r \in {role[t]}} \ {None})]
    BY <1>6, <2>2 DEF Pop
  <2>5. UNCHANGED <<over, serves>>
    BY <1>6 DEF Pop
  <2>6. Removes(t)
    <3> USE DEF Removes
    <3>1. {role[t]} \in SUBSET Roles
      BY <2>1
    <3> WITNESS {role[t]} \in SUBSET Roles
    <3>2. {} \in SUBSET retiring[t]
      OBVIOUS
    <3> WITNESS {} \in SUBSET retiring[t]
    <3> QED
      BY <2>3, <2>4, <2>5
  <2> QED
    BY <2>6
<1>7. CASE Update(t)
  <2> DEFINE R == Roles \ profile'
  <2>1. table' = [r \in Roles |-> IF r \in R THEN None ELSE table[r]]
    BY <1>7 DEF Update
  <2>2. retiring' = [retiring EXCEPT ![t] = {} \cup ({table[r] : r \in R} \ {None})]
    BY <1>7 DEF Update
  <2>3. UNCHANGED <<over, serves>>
    BY <1>7 DEF Update
  <2>4. Removes(t)
    <3> USE DEF Removes
    <3>1. R \in SUBSET Roles
      OBVIOUS
    <3> HIDE DEF R
    <3> WITNESS R \in SUBSET Roles
    <3>2. {} \in SUBSET retiring[t]
      OBVIOUS
    <3> WITNESS {} \in SUBSET retiring[t]
    <3> QED
      BY <2>1, <2>2, <2>3
  <2> QED
    BY <2>4
<1>8. CASE CloseAll(t)
  <2>1. table' = [r \in Roles |-> IF r \in Roles THEN None ELSE table[r]]
    BY <1>8 DEF CloseAll
  <2>2. retiring' = [retiring EXCEPT ![t] = {} \cup ({table[r] : r \in Roles} \ {None})]
    BY <1>8 DEF CloseAll
  <2>3. UNCHANGED <<over, serves>>
    BY <1>8 DEF CloseAll
  <2>4. Removes(t)
    <3> USE DEF Removes
    <3> WITNESS Roles \in SUBSET Roles
    <3> WITNESS {} \in SUBSET retiring[t]
    <3> QED
      BY <2>1, <2>2, <2>3
  <2> QED
    BY <2>4
<1> QED
  BY <1>1, <1>2, <1>3, <1>4, <1>5, <1>6, <1>7, <1>8 DEF Step, Quiet

LEMMA EntriesStep ==
    ASSUME IInv, [Next]_vars
    PROVE  Entries'
<1>1. CASE UNCHANGED vars
  BY <1>1, KeptEntries DEF vars, Bookkeeping, IInv
<1>2. ASSUME NEW k \in Socks, ServerLeaves(k)
      PROVE  Entries'
  BY <1>2, KeptEntries DEF ServerLeaves, Bookkeeping, IInv
<1>3. ASSUME NEW t \in Threads, Begin(t) \/ Step(t)
      PROVE  Entries'
  <2>1. CASE UNCHANGED Bookkeeping
    BY <2>1, KeptEntries DEF IInv
  <2>2. CASE Installs(t)
    BY <2>2, Registering DEF Installs
  <2>3. CASE Removes(t)
    BY <1>3, <2>3, Removing DEF Removes
  <2>4. CASE Retire(t)
    <3>1. PICK c \in retiring[t] :
              /\ over[c] # None /\ ~Registered(c)
              /\ over' = [over EXCEPT ![c] = None]
              /\ retiring' = [retiring EXCEPT ![t] = @ \ {c}]
              /\ UNCHANGED <<table, serves>>
      BY <2>4, Retiring
    <3>2. c \in Conns /\ \A u \in Threads \ {t} : c \notin retiring[u]
      BY DEF IInv, TypeOK, Entries, RetiringIsRemoved
    <3>3. RegisteredIsOpen'
      BY <3>1, <3>2 DEF IInv, TypeOK, Entries, RegisteredIsOpen, Registered
    <3>4. RetiringIsRemoved'
      BY <3>1, <3>2 DEF IInv, TypeOK, Entries, RetiringIsRemoved, Registered
    <3> QED
      BY <3>3, <3>4 DEF Entries
  <2> QED
    BY <1>3, <2>1, <2>2, <2>3, <2>4, StepEffects
<1> QED
  BY <1>1, <1>2, <1>3 DEF Next

\* Nobody else touches the table while a thread holds the manager's lock.
LEMMA TableIsGuarded ==
    ASSUME IInv, NEW t \in Threads, Begin(t) \/ Step(t), table' # table
    PROVE  manager \in {None, t}
<1>1. ~Quiet(t)
  BY QuietKeeps DEF Bookkeeping
<1> QED
  BY <1>1 DEF IInv, ManagerExcludes, Managing, Step, Quiet, Wrap, Probe, Pop, Adopt,
              Update, CloseAll, Retire

\* A thread that goes on inside the lock knows the entry it goes on with.
LEMMA OwnEntry ==
    ASSUME IInv, NEW t \in Threads, Begin(t) \/ Step(t), Managing(t)'
    PROVE  table'[role'[t]] = IF pc'[t] = "probe" THEN mine'[t] ELSE None
<1> USE DEF IInv, TypeOK, AtWork, HolderKnowsEntry, Managing, Goto
<1>1. CASE Begin(t)
  BY <1>1, BeginningsFit DEF Begin
<1>2. CASE Enter(t)
  <2>1. role[t] \in Roles /\ ~Done(t)
    BY <1>2, DoneLocks DEF Enter
  <2>2. CASE Active(role[t])
    BY <1>2, <2>1, <2>2 DEF Enter, Active
  <2>3. CASE ~Active(role[t])
    <3>1. table[role[t]] = None
      BY <2>1, <2>3 DEF Active, Entries, RegisteredIsOpen
    <3> QED
      BY <1>2, <2>1, <2>3, <3>1 DEF Enter
  <2> QED
    BY <2>2, <2>3
<1>3. CASE Probe(t)
  BY <1>3 DEF Probe
<1>4. CASE OpenKept(t) \/ OpenChecked(t) \/ Discard(t)
  BY <1>4 DEF OpenKept, OpenChecked, Discard
<1>5. CASE Dial(t) \/ DialFails(t) \/ Offer(t)
  BY <1>5, DoneLocks DEF Dial, DialFails, Offer
<1>6. CASE Retire(t)
  BY <1>6 DEF Retire
<1>7. CASE Wrap(t) \/ Pop(t) \/ Drop(t) \/ Update(t) \/ UseStarts(t) \/ UseEnds(t)
           \/ RetireEnds(t) \/ CloseAll(t) \/ HangUp(t)
  BY <1>7, DoneLocks
  DEF Wrap, Pop, Drop, Update, UseStarts, UseEnds, RetireEnds, CloseAll, HangUp
<1>8. CASE Peek(t)
  BY <1>8, DoneLocks DEF Peek
<1>9. CASE Adopt(t) \/ Undo(t) \/ Look(t) \/ Beat(t) \/ Bury(t) \/ Read(t) \/ Compare(t)
  BY <1>9, DoneLocks DEF Adopt, Undo, Look, Beat, Bury, Read, Compare
<1> QED
  BY <1>1, <1>2, <1>3, <1>4, <1>5, <1>6, <1>7, <1>8, <1>9 DEF Step

LEMMA HolderStep ==
    ASSUME IInv, [Next]_vars
    PROVE  HolderKnowsEntry'
<1>1. CASE UNCHANGED vars
  BY <1>1 DEF vars, IInv, HolderKnowsEntry, Managing
<1>2. ASSUME NEW k \in Socks, ServerLeaves(k)
      PROVE  HolderKnowsEntry'
  BY <1>2 DEF ServerLeaves, IInv, HolderKnowsEntry, Managing
<1>3. ASSUME NEW t \in Threads, Begin(t) \/ Step(t)
      PROVE  HolderKnowsEntry'
  <2>1. ASSUME NEW u \in Threads \ {t}, Managing(u)'
        PROVE  table'[role'[u]] = IF pc'[u] = "probe" THEN mine'[u] ELSE None
    <3>1. /\ pc'[u] = pc[u] /\ op'[u] = op[u]
          /\ role'[u] = role[u] /\ mine'[u] = mine[u]
      BY <1>3, StepIsOwn DEF IInv
    <3>2. Managing(u)
      BY <2>1, <3>1 DEF Managing
    <3>3. table' = table
      BY <1>3, <3>2, TableIsGuarded, NoneAssumption DEF IInv, ManagerExcludes
    <3> QED
      BY <3>1, <3>2, <3>3 DEF IInv, HolderKnowsEntry
  <2> QED
    BY <1>3, <2>1, OwnEntry DEF HolderKnowsEntry
<1> QED
  BY <1>1, <1>2, <1>3 DEF Next

LEMMA Invariant == Spec => []IInv
<1>1. Init => IInv
  BY InitTypes, NoneAssumption
  DEF Init, IInv, ManagerExcludes, Managing, HolderKnowsEntry, Entries,
      RegisteredIsOpen, RetiringIsRemoved
<1>2. IInv /\ [Next]_vars => IInv'
  BY TypeStep, ManagerStep, HolderStep, EntriesStep DEF IInv
<1> QED
  BY <1>1, <1>2, PTL DEF Spec

-----------------------------------------------------------------------------
(* The refinement                                                          *)

Open == {c \in Conns : over[c] # None}

LEMMA StepRefines ==
    ASSUME IInv, [Next]_vars
    PROVE  [Abstract!Next]_<<table, Open>>
<1> USE DEF Open
<1>1. CASE UNCHANGED <<table, over>>
  BY <1>1
<1>2. ASSUME NEW t \in Threads, Installs(t)
      PROVE  Abstract!Next
  <2>1. PICK c \in SpareConns, k \in Socks :
            role[t] \in Roles /\ table[role[t]] = None /\ Register(role[t], c, k)
    BY <1>2 DEF Installs
  <2>2. c \in Conns /\ over[c] = None
    BY DEF SpareConns
  <2>3. Open' = Open \cup {c}
    BY <2>1, <2>2, NoneAssumption DEF Register, IInv, TypeOK
  <2>4. Abstract!Install(role[t], c)
    BY <2>1, <2>2, <2>3 DEF Abstract!Install, Register
  <2> QED
    BY <2>1, <2>2, <2>4 DEF Abstract!Next
<1>3. ASSUME NEW t \in Threads, Removes(t)
      PROVE  Abstract!Next
  <2>1. PICK R \in SUBSET Roles :
            /\ table' = [r \in Roles |-> IF r \in R THEN None ELSE table[r]]
            /\ over' = over
    BY <1>3 DEF Removes
  <2>2. PICK S \in SUBSET Roles : S = {r \in R : table[r] # None}
    OBVIOUS
  <2>3. table' = [r \in Roles |-> IF r \in S THEN None ELSE table[r]]
    BY <2>1, <2>2
  <2>4. Abstract!Remove(S)
    BY <2>1, <2>2, <2>3 DEF Abstract!Remove
  <2> QED
    BY <2>4 DEF Abstract!Next
<1>4. ASSUME NEW t \in Threads, Retire(t)
      PROVE  Abstract!Next
  <2>1. PICK c \in retiring[t] :
            /\ over[c] # None /\ ~Registered(c)
            /\ over' = [over EXCEPT ![c] = None]
            /\ table' = table
    BY <1>4, Retiring
  <2>2. c \in Conns
    BY DEF IInv, TypeOK
  <2>3. Open' = Open \ {c}
    BY <2>1, <2>2 DEF IInv, TypeOK
  <2>4. Abstract!Shut(c)
    BY <2>1, <2>2, <2>3 DEF Abstract!Shut, Abstract!Registered, Registered
  <2> QED
    BY <2>2, <2>4 DEF Abstract!Next
<1>5. ASSUME NEW k \in Socks, ServerLeaves(k)
      PROVE  UNCHANGED <<table, over>>
  BY <1>5 DEF ServerLeaves
<1>6. CASE UNCHANGED vars
  BY <1>1, <1>6 DEF vars
<1> QED
  BY <1>1, <1>2, <1>3, <1>4, <1>5, <1>6, StepEffects DEF Next, Bookkeeping

\* The registry, with its sockets, locks and threads, implements what its
\* users are promised: a role's connection is installed where none is, stays
\* open while it is registered, and is shut once, after its removal
\* (connection_manager.py: acquire, adopt, close, update_profile).
THEOREM KeepsPromiseHolds == Spec => KeepsPromise
<1>1. Init => Abstract!Init
  BY DEF Init, Abstract!Init
<1>2. IInv /\ [Next]_vars => [Abstract!Next]_<<table, Open>>
  BY StepRefines
<1> QED
  BY <1>1, <1>2, Invariant, PTL DEF Spec, KeepsPromise, Abstract!Spec, Open

-----------------------------------------------------------------------------
(* Places and roles                                                        *)

PInv == IInv /\ RolesFit /\ RetiringIsUnderWay

LEMMA HandsAreOwn ==
    ASSUME TypeOK, NEW t \in Threads, Begin(t) \/ Step(t)
    PROVE  \A u \in Threads \ {t} :
               hand'[u] = hand[u] /\ made'[u] = made[u] /\ retiring'[u] = retiring[u]
<1> USE DEF TypeOK, Goto, Done, Holds
<1> QED
  BY DEF Begin, Step, Enter, Probe, OpenKept, OpenChecked, Discard, Dial, DialFails,
         Offer, Wrap, UseStarts, UseEnds, Pop, Retire, RetireEnds, Drop, Update,
         CloseAll, HangUp, Peek, Adopt, Undo, Look, Beat, Bury, Read, Compare

\* An operation begins on a role it is for.
LEMMA RolesBegin ==
    ASSUME NEW o \in Ops, NEW r \in RolesOf(o)
    PROVE  /\ o = "sync" => r \notin Owned
           /\ FirstPlace(o) = "peek" => r \notin Kept
           /\ FirstPlace(o) \in {"read", "compare"} => o = "sync"
  BY RolesAssumption DEF AllOps, RolesOf, FirstPlace, Owned

LEMMA RolesStep ==
    ASSUME IInv, RolesFit, NEW t \in Threads, Begin(t) \/ Step(t)
    PROVE  /\ pc'[t] \in {"discard", "offer"} => role'[t] \in Checked
           /\ pc'[t] \in {"peek", "dial"} => role'[t] \notin Kept
           /\ op'[t] = "sync" => role'[t] \notin Owned
           /\ pc'[t] \in {"read", "compare"} => op'[t] = "sync"
<1> USE RolesAssumption, NoneAssumption DEF IInv, TypeOK, RolesFit, Goto, Done, Owned
<1>1. CASE Begin(t)
  BY <1>1, BeginningsFit, RolesBegin DEF Begin
<1>2. CASE Enter(t) \/ Probe(t) \/ OpenKept(t) \/ OpenChecked(t) \/ Discard(t)
  BY <1>2 DEF Enter, Probe, OpenKept, OpenChecked, Discard
<1>3. CASE Dial(t) \/ DialFails(t) \/ Offer(t) \/ Wrap(t)
  BY <1>3 DEF Dial, DialFails, Offer, Wrap
<1>4. CASE UseStarts(t) \/ UseEnds(t) \/ Pop(t) \/ Retire(t) \/ Drop(t) \/ Update(t)
  BY <1>4 DEF UseStarts, UseEnds, Pop, Retire, Drop, Update
<1>5. CASE RetireEnds(t) \/ Peek(t) \/ Adopt(t) \/ Undo(t) \/ CloseAll(t) \/ HangUp(t)
  BY <1>5 DEF RetireEnds, Peek, Adopt, Undo, CloseAll, HangUp
<1>6. CASE Look(t) \/ Beat(t) \/ Bury(t) \/ Read(t) \/ Compare(t)
  BY <1>6 DEF Look, Beat, Bury, Read, Compare
<1> QED
  BY <1>1, <1>2, <1>3, <1>4, <1>5, <1>6 DEF Step

LEMMA UnderWayStep ==
    ASSUME PInv, NEW t \in Threads, Begin(t) \/ Step(t), retiring'[t] # {}
    PROVE  pc'[t] = "retire" \/ (Managing(t)' /\ pc'[t] # "probe")
<1> USE DEF PInv, IInv, TypeOK, AtWork, RetiringIsUnderWay, Managing, Goto, Done
<1>1. CASE Begin(t)
  BY <1>1 DEF Begin
<1>2. CASE Enter(t) \/ Probe(t) \/ OpenKept(t) \/ OpenChecked(t) \/ Discard(t)
  BY <1>2 DEF Enter, Probe, OpenKept, OpenChecked, Discard
<1>3. CASE Dial(t) \/ DialFails(t) \/ Offer(t) \/ Wrap(t)
  BY <1>3 DEF Dial, DialFails, Offer, Wrap
<1>4. CASE UseStarts(t) \/ UseEnds(t) \/ Pop(t) \/ Retire(t) \/ Drop(t) \/ Update(t)
  BY <1>4 DEF UseStarts, UseEnds, Pop, Retire, Drop, Update
<1>5. CASE RetireEnds(t) \/ Peek(t) \/ Adopt(t) \/ Undo(t) \/ CloseAll(t) \/ HangUp(t)
  BY <1>5 DEF RetireEnds, Peek, Adopt, Undo, CloseAll, HangUp
<1>6. CASE Look(t) \/ Beat(t) \/ Bury(t) \/ Read(t) \/ Compare(t)
  BY <1>6 DEF Look, Beat, Bury, Read, Compare
<1> QED
  BY <1>1, <1>2, <1>3, <1>4, <1>5, <1>6 DEF Step

LEMMA PlacesStep ==
    ASSUME PInv, [Next]_vars
    PROVE  RolesFit' /\ RetiringIsUnderWay'
<1>1. CASE UNCHANGED vars
  BY <1>1 DEF vars, PInv, RolesFit, RetiringIsUnderWay, Managing
<1>2. ASSUME NEW k \in Socks, ServerLeaves(k)
      PROVE  RolesFit' /\ RetiringIsUnderWay'
  BY <1>2 DEF ServerLeaves, PInv, RolesFit, RetiringIsUnderWay, Managing
<1>3. ASSUME NEW t \in Threads, Begin(t) \/ Step(t)
      PROVE  RolesFit' /\ RetiringIsUnderWay'
  <2>1. \A u \in Threads \ {t} :
            /\ pc'[u] = pc[u] /\ op'[u] = op[u] /\ role'[u] = role[u]
            /\ retiring'[u] = retiring[u]
    BY <1>3, StepIsOwn, HandsAreOwn DEF PInv, IInv
  <2>2. RolesFit'
    BY <1>3, <2>1, RolesStep DEF PInv, RolesFit
  <2>3. RetiringIsUnderWay'
    BY <1>3, <2>1, UnderWayStep DEF PInv, RetiringIsUnderWay, Managing
  <2> QED
    BY <2>2, <2>3
<1> QED
  BY <1>1, <1>2, <1>3 DEF Next

-----------------------------------------------------------------------------
(* What a step does to the sockets                                         *)

SInv == PInv /\ PrivateIsApart /\ OwnedIsApart /\ HandIsKnown /\ OpenIsHeld

KeptSocks == {facade[r] : r \in Roles}

\* No socket changes; a thread looks at one the client keeps or lets go of it.
Looks(t) ==
    /\ UNCHANGED <<facade, life, over, serves>>
    /\ Private(t)' <=> Private(t)
    /\ Private(t) => hand'[t] = hand[t] /\ made'[t] = made[t]
    /\ hand'[t] \in {hand[t], None} \cup KeptSocks

\* A new socket, kept at once or for the thread alone.
Opens(t) ==
    \E k \in SpareSocks :
        /\ life' = [life EXCEPT ![k] = "up"]
        /\ hand'[t] = k
        /\ ~Private(t)
        /\ UNCHANGED <<over, serves>>
        /\ \/ Private(t)' /\ made'[t] /\ facade' = facade
           \/ /\ ~Private(t)'
              /\ \E r \in Roles : /\ facade[r] = None
                                  /\ facade' = [facade EXCEPT ![r] = k]

\* A socket in hand or kept is closed, and kept no more.
Kills(t) ==
    \E k \in Socks :
        /\ k = hand[t] \/ (~Private(t) /\ k \in KeptSocks)
        /\ life' = [life EXCEPT ![k] = "closed"]
        /\ \A r \in Roles : facade'[r] = facade[r] \/ (facade[r] = k /\ facade'[r] = None)
        /\ \A r \in Roles : facade[r] # k => facade'[r] = facade[r]
        /\ ~Private(t)'
        /\ hand'[t] \in {hand[t], None} \cup {facade'[r] : r \in Roles}
        /\ hand'[t] = hand[t] => k = hand[t] \/ ~Private(t)
        /\ UNCHANGED <<over, serves>>

\* The client keeps the socket the thread has opened.
Gives(t) ==
    /\ \E r \in Roles : facade[r] = None /\ facade' = [facade EXCEPT ![r] = hand[t]]
    /\ hand' = hand
    /\ ~Private(t)'
    /\ UNCHANGED <<life, over, serves>>

\* A new connection takes the socket in hand, which is its own if it should be.
Wraps(t) ==
    /\ \E c \in SpareConns : Register(role[t], c, hand[t])
    /\ role[t] \in Roles /\ hand[t] \in Socks
    /\ role[t] \in Owned <=> Private(t)
    /\ hand'[t] = None
    /\ ~Private(t)'
    /\ UNCHANGED <<facade, life>>

LEMMA StepOnSockets ==
    ASSUME SInv, NEW t \in Threads, Begin(t) \/ Step(t)
    PROVE  Looks(t) \/ Opens(t) \/ Kills(t) \/ Gives(t) \/ Wraps(t) \/ Retire(t)
<1> USE RolesAssumption, NoneAssumption DEF SInv, PInv, IInv, TypeOK, AtWork, Goto, Holds,
        KeptSocks, Private
<1>1. CASE Begin(t)
  BY <1>1, BeginningsFit DEF Begin, Looks
<1>2. CASE Enter(t) \/ Probe(t)
  BY <1>2 DEF Enter, Probe, Done, Looks
<1>3. CASE OpenKept(t)
  <2>1. role[t] \in Roles /\ role[t] \notin Owned
    BY <1>3 DEF OpenKept, Owned
  <2>2. CASE \E k \in SpareSocks :
                /\ life' = [life EXCEPT ![k] = "up"]
                /\ facade' = [facade EXCEPT ![role[t]] = k]
                /\ Holds(t, k)
    <3>0. PICK k \in SpareSocks : /\ life' = [life EXCEPT ![k] = "up"]
                                  /\ facade' = [facade EXCEPT ![role[t]] = k]
                                  /\ Holds(t, k)
      BY <2>2
    <3>1. hand'[t] = k
      BY <3>0
    <3>2. facade[role[t]] = None
      <4>1. facade'[role[t]] = k
        BY <2>1, <3>0
      <4>2. facade[role[t]] # k
        BY <2>1 DEF SpareSocks
      <4> QED
        BY <1>3, <2>1, <4>1, <4>2 DEF OpenKept
    <3>3. ~Private(t) /\ ~Private(t)' /\ UNCHANGED <<over, serves>>
      BY <1>3, <2>1 DEF OpenKept
    <3> HIDE DEF Private
    <3> QED
      BY <2>1, <3>0, <3>1, <3>2, <3>3 DEF Opens
  <2>3. CASE UNCHANGED sockets
    BY <1>3, <2>1, <2>3 DEF OpenKept, Looks
  <2> QED
    BY <1>3, <2>2, <2>3 DEF OpenKept
<1>4. CASE OpenChecked(t)
  BY <1>4 DEF OpenChecked, Looks, Owned
<1>5. CASE Discard(t)
  BY <1>5 DEF Discard, Forgets, Dies, Kills
<1>6. CASE Dial(t)
  <2>1. role[t] \in Checked \/ role[t] \in Owned
    BY <1>6 DEF Dial, RolesFit, Owned
  <2>2. ~Private(t) /\ Private(t)' /\ made'[t]
    BY <1>6, <2>1 DEF Dial
  <2> QED
    <3>1. PICK k \in SpareSocks : life' = [life EXCEPT ![k] = "up"] /\ hand'[t] = k
      BY <1>6 DEF Dial
    <3>2. UNCHANGED <<facade, over, serves>>
      BY <1>6 DEF Dial
    <3> HIDE DEF Private
    <3> QED
      BY <2>2, <3>1, <3>2 DEF Opens
<1>7. CASE DialFails(t)
  BY <1>7 DEF DialFails, Done, Looks
<1>8. CASE Offer(t)
  <2>1. role[t] \in Roles /\ role[t] \notin Owned /\ hand[t] \in Socks
    BY <1>8 DEF Offer, RolesFit, Owned
  <2>2. ~Private(t)'
    BY <1>8, <2>1 DEF Offer
  <2>3. CASE facade[role[t]] = None
    BY <1>8, <2>1, <2>2, <2>3 DEF Offer, Gives
  <2>4. CASE facade[role[t]] # None
    BY <1>8, <2>1, <2>2, <2>4 DEF Offer, Dies, Kills
  <2> QED
    BY <2>3, <2>4
<1>9. CASE Wrap(t)
  <2>1. role[t] \in Roles /\ hand[t] \in Socks
    BY <1>9 DEF Wrap
  <2> QED
    BY <1>9, <2>1 DEF Wrap, Wraps
<1>10. CASE UseStarts(t) \/ UseEnds(t) \/ Pop(t) \/ Update(t) \/ CloseAll(t)
  BY <1>10 DEF UseStarts, UseEnds, Pop, Update, CloseAll, Done, Looks
<1>11. CASE Retire(t)
  BY <1>11
<1>12. CASE RetireEnds(t)
  <2>1. op[t] = "sync" => role[t] \notin Owned
    BY DEF RolesFit
  <2> QED
    BY <1>12, <2>1 DEF RetireEnds, Done, Looks
<1>13. CASE Drop(t)
  <2>1. role[t] \in Roles /\ ~Private(t) /\ ~Private(t)' /\ hand' = hand
    BY <1>13 DEF Drop
  <2>2. CASE facade[role[t]] = None
    <3>1. facade' = facade /\ life' = life
      BY <1>13, <2>1, <2>2 DEF Drop
    <3> QED
      BY <1>13, <2>1, <3>1 DEF Drop, Looks
  <2>3. CASE facade[role[t]] # None
    <3>1. PICK k \in Socks : k = facade[role[t]]
      BY <2>1, <2>3
    <3>2. life' = [life EXCEPT ![k] = "closed"]
      BY <1>13, <3>1 DEF Drop
    <3>3. /\ facade' = [facade EXCEPT ![role[t]] = None]
          /\ UNCHANGED <<over, serves>>
      BY <1>13 DEF Drop
    <3>4. \A r \in Roles : facade[r] # k => facade'[r] = facade[r]
      BY <2>1, <3>1, <3>3
    <3>5. \A r \in Roles : facade'[r] = facade[r] \/ (facade[r] = k /\ facade'[r] = None)
      BY <2>1, <3>1, <3>3
    <3>6. k \in KeptSocks
      BY <2>1, <3>1
    <3> HIDE DEF Private, KeptSocks
    <3> QED
      BY <2>1, <3>2, <3>3, <3>4, <3>5, <3>6 DEF Kills
  <2> QED
    BY <2>2, <2>3
<1>14. CASE Peek(t)
  BY <1>14 DEF Peek, Done, Looks
<1>15. CASE Adopt(t)
  <2>1. role[t] \in Roles /\ hand[t] \in Socks /\ (Private(t) <=> role[t] \in Owned)
    BY <1>15 DEF Adopt
  <2>2. CASE Refuses(role[t], hand[t]) /\ made[t]
    BY <1>15, <2>1, <2>2 DEF Adopt, Looks
  <2>3. CASE Refuses(role[t], hand[t]) /\ ~made[t]
    BY <1>15, <2>1, <2>3 DEF Adopt, Looks, Done, PrivateIsApart
  <2>4. CASE ~Refuses(role[t], hand[t]) /\ Active(role[t])
    <3>1. table[role[t]] \in Conns /\ serves[table[role[t]]] = role[t]
      BY <2>1, <2>4 DEF Active, Entries, RegisteredIsOpen
    <3>2. over[table[role[t]]] = hand[t] /\ over[table[role[t]]] # None
      BY <2>4 DEF Refuses, Active
    <3>3. role[t] \notin Owned
      BY <3>1, <3>2 DEF OwnedIsApart
    <3> QED
      BY <1>15, <2>1, <2>4, <3>3 DEF Adopt, Looks, Done
  <2>5. CASE ~Refuses(role[t], hand[t]) /\ ~Active(role[t])
    BY <1>15, <2>1, <2>5 DEF Adopt, Wraps, Done
  <2> QED
    BY <2>2, <2>3, <2>4, <2>5
<1>16. CASE Undo(t)
  BY <1>16 DEF Undo, Done, Forgets, Dies, Kills
<1>17. CASE Look(t) \/ Beat(t) \/ Read(t)
  BY <1>17 DEF Look, Beat, Read, Done, Looks
<1>18. CASE Bury(t)
  BY <1>18 DEF Bury, Forgets, Dies, Kills
<1>19. CASE Compare(t)
  <2>1. role[t] \notin Owned
    BY <1>19 DEF Compare, RolesFit
  <2> QED
    BY <1>19, <2>1 DEF Compare, Done, Looks
<1>20. CASE HangUp(t)
  <2>1. role[t] \in Roles /\ ~Private(t) /\ ~Private(t)' /\ hand'[t] = None
    BY <1>20 DEF HangUp, Done
  <2>2. CASE facade[role[t]] = None
    <3>1. facade' = facade /\ life' = life
      BY <1>20, <2>1, <2>2 DEF HangUp
    <3> QED
      BY <1>20, <2>1, <3>1 DEF HangUp, Looks
  <2>3. CASE facade[role[t]] # None
    <3>1. PICK k \in Socks : k = facade[role[t]]
      BY <2>1, <2>3
    <3>2. life' = [life EXCEPT ![k] = "closed"]
      BY <1>20, <3>1 DEF HangUp
    <3>3. /\ facade' = [facade EXCEPT ![role[t]] = None]
          /\ UNCHANGED <<over, serves>>
      BY <1>20 DEF HangUp
    <3>4. \A r \in Roles : facade[r] # k => facade'[r] = facade[r]
      BY <2>1, <3>1, <3>3
    <3>5. \A r \in Roles : facade'[r] = facade[r] \/ (facade[r] = k /\ facade'[r] = None)
      BY <2>1, <3>1, <3>3
    <3>6. k \in KeptSocks
      BY <2>1, <3>1
    <3> HIDE DEF Private, KeptSocks
    <3> QED
      BY <2>1, <3>2, <3>3, <3>4, <3>5, <3>6 DEF Kills
  <2> QED
    BY <2>2, <2>3
<1> QED
  BY <1>1, <1>2, <1>3, <1>4, <1>5, <1>6, <1>7, <1>8, <1>9, <1>10, <1>11, <1>12, <1>13,
     <1>14, <1>15, <1>16, <1>17, <1>18, <1>19, <1>20 DEF Step

LEMMA Others ==
    ASSUME SInv, NEW t \in Threads, Begin(t) \/ Step(t)
    PROVE  \A u \in Threads \ {t} :
               /\ hand'[u] = hand[u] /\ made'[u] = made[u]
               /\ Private(u)' <=> Private(u)
  BY StepIsOwn, HandsAreOwn DEF SInv, PInv, IInv, Private

\* A connection that left the table stays one thread's to close until it is shut.
Tracked(c) == Registered(c) \/ \E t \in Threads : c \in retiring[t]

LEMMA Tracking ==
    ASSUME SInv, NEW t \in Threads, Begin(t) \/ Step(t), NEW c \in Conns, Tracked(c)
    PROVE  Tracked(c)' \/ over'[c] = None
<1> USE NoneAssumption DEF SInv, PInv, IInv, TypeOK
<1>1. CASE Quiet(t)
  BY <1>1, QuietKeeps DEF Bookkeeping, Tracked, Registered
<1>2. CASE Wrap(t) \/ Adopt(t)
  <2>1. CASE table' = table
    BY <1>2, <2>1 DEF Wrap, Adopt, Done, Tracked, Registered
  <2>2. CASE table' # table
    <3>1. PICK r \in Roles, d \in Conns : table[r] = None /\ table' = [table EXCEPT ![r] = d]
      <4>1. CASE Wrap(t)
        BY <4>1 DEF Wrap, Register, SpareConns, AtWork, HolderKnowsEntry, Managing
      <4>2. CASE Adopt(t)
        BY <2>2, <4>2
        DEF Adopt, Register, SpareConns, AtWork, Active, Entries, RegisteredIsOpen
      <4> QED
        BY <1>2, <4>1, <4>2
    <3>2. UNCHANGED retiring
      BY <1>2 DEF Wrap, Adopt, Done
    <3> QED
      BY <3>1, <3>2 DEF Tracked, Registered
  <2> QED
    BY <2>1, <2>2
<1>3. CASE Probe(t)
  <2>1. role[t] \in Roles /\ table[role[t]] = mine[t]
    BY <1>3 DEF Probe, HolderKnowsEntry, Managing, AtWork
  <2>2. CASE UNCHANGED <<table, retiring>>
    BY <2>2 DEF Tracked, Registered
  <2>3. CASE /\ table' = [table EXCEPT ![role[t]] = None]
             /\ retiring' = [retiring EXCEPT ![t] = @ \cup {mine[t]}]
    BY <2>1, <2>3 DEF Tracked, Registered
  <2> QED
    BY <1>3, <2>2, <2>3 DEF Probe
<1>4. CASE Pop(t)
  <2>1. retiring[t] = {} /\ role[t] \in Roles
    BY <1>4 DEF Pop, RetiringIsUnderWay, Managing, AtWork
  <2> QED
    BY <1>4, <2>1 DEF Pop, Tracked, Registered
<1>5. CASE Update(t)
  <2>1. retiring[t] = {}
    BY <1>5 DEF Update, RetiringIsUnderWay, Managing
  <2>2. \A q \in Roles : table'[q] = IF q \in profile' THEN table[q] ELSE None
    BY <1>5 DEF Update
  <2>3. retiring'[t] = {table[q] : q \in Roles \ profile'} \ {None}
    BY <1>5 DEF Update
  <2>4. \A u \in Threads \ {t} : retiring'[u] = retiring[u]
    BY <1>5, HandsAreOwn DEF Update
  <2> QED
    BY <2>1, <2>2, <2>3, <2>4 DEF Tracked, Registered
<1>6. CASE Retire(t)
  <2>1. PICK d \in retiring[t] :
            /\ over' = [over EXCEPT ![d] = None]
            /\ retiring' = [retiring EXCEPT ![t] = @ \ {d}]
            /\ UNCHANGED <<table, serves>>
    BY <1>6, Retiring
  <2> QED
    BY <2>1 DEF Tracked, Registered
<1>7. CASE CloseAll(t)
  <2>1. retiring[t] = {}
    BY <1>7 DEF CloseAll, RetiringIsUnderWay, Managing
  <2>2. retiring'[t] = {table[q] : q \in Roles} \ {None}
    BY <1>7 DEF CloseAll
  <2>3. \A u \in Threads \ {t} : retiring'[u] = retiring[u]
    BY <1>7, HandsAreOwn DEF CloseAll
  <2> QED
    BY <2>1, <2>2, <2>3 DEF Tracked, Registered
<1> QED
  BY <1>1, <1>2, <1>3, <1>4, <1>5, <1>6, <1>7 DEF Step, Quiet

-----------------------------------------------------------------------------
(* The sockets' part of the invariant is kept                              *)

Sockets == PrivateIsApart /\ OwnedIsApart /\ HandIsKnown /\ OpenIsHeld

\* What every step of a thread leaves to the others, and to the connections.
Frame(t) ==
    /\ \A u \in Threads \ {t} : /\ hand'[u] = hand[u] /\ made'[u] = made[u]
                                /\ Private(u)' <=> Private(u)
    /\ \A c \in Conns : Tracked(c) => Tracked(c)' \/ over'[c] = None

Held(k) ==
    \/ \E r \in Roles : facade[r] = k
    \/ \E c \in Conns : Owns(c, k) /\ Tracked(c)
    \/ \E t \in Threads : Private(t) /\ hand[t] = k

LEMMA HeldIsHeld == OpenIsHeld <=> \A k \in Socks : life[k] # "closed" => Held(k)
  BY DEF OpenIsHeld, Held, Tracked

LEMMA HeldIsHeldNext ==
    (\A k \in Socks : life'[k] # "closed" => Held(k)') => OpenIsHeld'
  BY DEF OpenIsHeld, Held, Tracked, Registered

LEMMA PrivateHand ==
    ASSUME AtWork, NEW t \in Threads, Private(t)
    PROVE  hand[t] \in Socks
  BY DEF AtWork, Private

\* A socket's owner keeps it as long as the connection is not shut.
LEMMA OwnersKeep ==
    ASSUME NEW k \in Socks, NEW t \in Threads, Frame(t), UNCHANGED <<over, serves>>,
           NoneAssumption,
           \E c \in Conns : Owns(c, k) /\ Tracked(c)
    PROVE  \E c \in Conns : Owns(c, k)' /\ Tracked(c)'
  BY DEF Frame, Owns

LEMMA LooksKeeps ==
    ASSUME SInv, NEW t \in Threads, Frame(t), Looks(t)
    PROVE  Sockets'
<1> USE NoneAssumption DEF SInv, PInv, IInv, TypeOK, Looks, Frame, KeptSocks
<1> HIDE DEF Private
<1>1. PrivateIsApart'
  <2>1. \A u \in Threads : Private(u)' =>
            Private(u) /\ hand'[u] = hand[u] /\ made'[u] = made[u]
    OBVIOUS
  <2>2. \A u, v \in Threads : u # v /\ Private(u)' => hand'[v] # hand[u]
    BY <2>1, PrivateHand DEF PrivateIsApart
  <2> QED
    BY <2>1, <2>2 DEF PrivateIsApart
<1>2. OwnedIsApart'
  BY DEF OwnedIsApart
<1>3. HandIsKnown'
  BY DEF HandIsKnown
<1>4. OpenIsHeld'
  <2>1. ASSUME NEW k \in Socks, life'[k] # "closed"
        PROVE  Held(k)'
    <3>1. Held(k)
      BY <2>1, HeldIsHeld
    <3> QED
      BY <3>1, OwnersKeep DEF Held
  <2> QED
    BY <2>1, HeldIsHeldNext
<1> QED
  BY <1>1, <1>2, <1>3, <1>4 DEF Sockets

LEMMA OpensKeeps ==
    ASSUME SInv, NEW t \in Threads, Frame(t), Opens(t)
    PROVE  Sockets'
<1> USE NoneAssumption DEF SInv, PInv, IInv, TypeOK, Frame
<1> HIDE DEF Private
<1>0. PICK k \in SpareSocks :
        /\ life' = [life EXCEPT ![k] = "up"]
        /\ hand'[t] = k
        /\ ~Private(t)
        /\ UNCHANGED <<over, serves>>
        /\ \/ Private(t)' /\ made'[t] /\ facade' = facade
           \/ /\ ~Private(t)'
              /\ \E r \in Roles : /\ facade[r] = None
                                  /\ facade' = [facade EXCEPT ![r] = k]
  BY DEF Opens
<1>1. /\ k \in Socks /\ life[k] = "closed"
      /\ \A r \in Roles : facade[r] # k
      /\ \A c \in Conns : over[c] # k
      /\ \A u \in Threads : hand[u] # k
  BY DEF SpareSocks
<1>2. \A r \in Roles : facade'[r] = facade[r] \/ (facade[r] = None /\ facade'[r] = k)
  BY <1>0
<1>3. \A j \in Socks \ {k} : life'[j] = life[j]
  BY <1>0
<1>4. life'[k] = "up"
  BY <1>0, <1>1
<1>5. PrivateIsApart'
  BY <1>0, <1>1, <1>2, <1>3, <1>4 DEF PrivateIsApart
<1>6. OwnedIsApart'
  BY <1>0, <1>1, <1>2, <1>3 DEF OwnedIsApart
<1>7. HandIsKnown'
  <2>1. ASSUME NEW u \in Threads \ {t}, hand'[u] # None, ~Private(u)'
        PROVE  life'[hand'[u]] = "closed" \/ \E r \in Roles : facade'[r] = hand'[u]
    BY <2>1, <1>1, <1>2, <1>3 DEF HandIsKnown
  <2>2. ASSUME ~Private(t)'
        PROVE  \E r \in Roles : facade'[r] = hand'[t]
    BY <2>2, <1>0
  <2> QED
    BY <2>1, <2>2 DEF HandIsKnown
<1>8. OpenIsHeld'
  <2>1. ASSUME NEW j \in Socks, life'[j] # "closed"
        PROVE  Held(j)'
    <3>1. CASE j = k
      BY <1>0, <3>1 DEF Held
    <3>2. CASE j # k
      <4>1. Held(j)
        BY <2>1, <3>2, <1>3, HeldIsHeld
      <4> QED
        BY <3>2, <4>1, <1>0, <1>2, OwnersKeep DEF Held
    <3> QED
      BY <3>1, <3>2
  <2> QED
    BY <2>1, HeldIsHeldNext
<1> QED
  BY <1>5, <1>6, <1>7, <1>8 DEF Sockets

LEMMA KillsKeeps ==
    ASSUME SInv, NEW t \in Threads, Frame(t), Kills(t)
    PROVE  Sockets'
<1> USE NoneAssumption DEF SInv, PInv, IInv, TypeOK, Frame
<1> HIDE DEF Private
<1>0. PICK k \in Socks :
        /\ k = hand[t] \/ (~Private(t) /\ k \in KeptSocks)
        /\ life' = [life EXCEPT ![k] = "closed"]
        /\ \A r \in Roles : facade'[r] = facade[r] \/ (facade[r] = k /\ facade'[r] = None)
        /\ \A r \in Roles : facade[r] # k => facade'[r] = facade[r]
        /\ ~Private(t)'
        /\ hand'[t] \in {hand[t], None} \cup {facade'[r] : r \in Roles}
        /\ hand'[t] = hand[t] => k = hand[t] \/ ~Private(t)
        /\ UNCHANGED <<over, serves>>
  BY DEF Kills
<1>1. /\ \A j \in Socks \ {k} : life'[j] = life[j]
      /\ life'[k] = "closed"
  BY <1>0
<1>2. \A u \in Threads \ {t} : Private(u) => hand[u] # k
  BY <1>0 DEF PrivateIsApart, KeptSocks
<1>3. \A c \in Conns : over[c] # None /\ serves[c] \in Owned => over[c] # k
  BY <1>0 DEF OwnedIsApart, KeptSocks
<1>4. hand'[t] \in {hand[t], None} \cup KeptSocks
  BY <1>0 DEF KeptSocks
<1>5. PrivateIsApart'
  BY <1>0, <1>1, <1>2, <1>4, PrivateHand DEF PrivateIsApart, KeptSocks
<1>6. OwnedIsApart'
  BY <1>0, <1>1, <1>3, <1>4 DEF OwnedIsApart, KeptSocks
<1>7. HandIsKnown'
  <2>1. ASSUME NEW j \in Socks, life[j] = "closed" \/ \E r \in Roles : facade[r] = j
        PROVE  life'[j] = "closed" \/ \E r \in Roles : facade'[r] = j
    BY <2>1, <1>0, <1>1
  <2>2. ASSUME NEW u \in Threads \ {t}, hand'[u] # None, ~Private(u)'
        PROVE  life'[hand'[u]] = "closed" \/ \E r \in Roles : facade'[r] = hand'[u]
    BY <2>1, <2>2 DEF HandIsKnown
  <2>3. ASSUME hand'[t] # None
        PROVE  life'[hand'[t]] = "closed" \/ \E r \in Roles : facade'[r] = hand'[t]
    <3>1. CASE hand'[t] = hand[t]
      BY <2>1, <2>3, <3>1, <1>0, <1>1 DEF HandIsKnown
    <3>2. CASE hand'[t] \in {facade'[r] : r \in Roles}
      BY <3>2
    <3> QED
      BY <2>3, <3>1, <3>2, <1>0
  <2> QED
    BY <2>2, <2>3 DEF HandIsKnown
<1>8. OpenIsHeld'
  <2>1. ASSUME NEW j \in Socks, life'[j] # "closed"
        PROVE  Held(j)'
    <3>1. j # k /\ Held(j)
      BY <2>1, <1>1, HeldIsHeld
    <3>2. CASE \E r \in Roles : facade[r] = j
      BY <3>1, <3>2, <1>0 DEF Held
    <3>3. CASE \E c \in Conns : Owns(c, j) /\ Tracked(c)
      BY <3>3, <1>0, OwnersKeep DEF Held
    <3>4. ASSUME NEW u \in Threads, Private(u), hand[u] = j
          PROVE  Held(j)'
      <4>1. u # t
        BY <3>1, <3>4, <1>0
      <4> QED
        BY <3>4, <4>1 DEF Held
    <3> QED
      BY <3>1, <3>2, <3>3, <3>4 DEF Held
  <2> QED
    BY <2>1, HeldIsHeldNext
<1> QED
  BY <1>5, <1>6, <1>7, <1>8 DEF Sockets

LEMMA GivesKeeps ==
    ASSUME SInv, NEW t \in Threads, Frame(t), Gives(t)
    PROVE  Sockets'
<1> USE NoneAssumption DEF SInv, PInv, IInv, TypeOK, Frame
<1> HIDE DEF Private
<1>0. PICK q \in Roles : facade[q] = None /\ facade' = [facade EXCEPT ![q] = hand[t]]
  BY DEF Gives
<1>1. hand' = hand /\ ~Private(t)' /\ UNCHANGED <<life, over, serves>>
  BY DEF Gives
<1>2. \A r \in Roles : facade'[r] = facade[r] \/ (facade[r] = None /\ facade'[r] = hand[t])
  BY <1>0
<1>3. facade'[q] = hand[t]
  BY <1>0
<1>4. PrivateIsApart'
  BY <1>1, <1>2 DEF PrivateIsApart
<1>5. OwnedIsApart'
  BY <1>1, <1>2 DEF OwnedIsApart
<1>6. HandIsKnown'
  BY <1>1, <1>2, <1>3 DEF HandIsKnown
<1>7. OpenIsHeld'
  <2>1. ASSUME NEW j \in Socks, life'[j] # "closed"
        PROVE  Held(j)'
    <3>1. Held(j)
      BY <2>1, <1>1, HeldIsHeld
    <3>2. CASE \E r \in Roles : facade[r] = j
      BY <3>2, <1>2 DEF Held
    <3>3. CASE \E c \in Conns : Owns(c, j) /\ Tracked(c)
      BY <3>3, <1>1, OwnersKeep DEF Held
    <3>4. ASSUME NEW u \in Threads, Private(u), hand[u] = j
          PROVE  Held(j)'
      BY <3>4, <1>1, <1>3 DEF Held
    <3> QED
      BY <3>1, <3>2, <3>3, <3>4 DEF Held
  <2> QED
    BY <2>1, HeldIsHeldNext
<1> QED
  BY <1>4, <1>5, <1>6, <1>7 DEF Sockets

LEMMA WrapsKeeps ==
    ASSUME SInv, NEW t \in Threads, Frame(t), Wraps(t)
    PROVE  Sockets'
<1> USE NoneAssumption DEF SInv, PInv, IInv, TypeOK, Frame
<1> HIDE DEF Private
<1>0. PICK n \in SpareConns : Register(role[t], n, hand[t])
  BY DEF Wraps
<1>1. /\ role[t] \in Roles /\ hand[t] \in Socks
      /\ role[t] \in Owned <=> Private(t)
      /\ hand'[t] = None /\ ~Private(t)' /\ UNCHANGED <<facade, life>>
  BY DEF Wraps
<1>2. /\ n \in Conns /\ over[n] = None
      /\ over'[n] = hand[t] /\ serves'[n] = role[t]
      /\ \A c \in Conns \ {n} : over'[c] = over[c] /\ serves'[c] = serves[c]
      /\ \E r \in Roles : table'[r] = n
  BY <1>0, <1>1 DEF Register, SpareConns
<1>3. PrivateIsApart'
  BY <1>1, PrivateHand DEF PrivateIsApart
<1>4. OwnedIsApart'
  <2>1. CASE Private(t)
    <3>1. /\ life[hand[t]] # "closed"
          /\ \A r \in Roles : facade[r] # hand[t]
          /\ \A u \in Threads \ {t} : hand[u] # hand[t]
      BY <2>1 DEF PrivateIsApart
    <3>2. \A c \in Conns \ {n} : over[c] # None /\ serves[c] \in Owned => over[c] # hand[t]
      BY DEF OwnedIsApart
    <3> QED
      BY <3>1, <3>2, <1>1, <1>2 DEF OwnedIsApart
  <2>2. CASE ~Private(t)
    BY <2>2, <1>1, <1>2 DEF OwnedIsApart
  <2> QED
    BY <2>1, <2>2
<1>5. HandIsKnown'
  BY <1>1 DEF HandIsKnown
<1>6. OpenIsHeld'
  <2>1. ASSUME NEW j \in Socks, life'[j] # "closed"
        PROVE  Held(j)'
    <3>1. Held(j)
      BY <2>1, <1>1, HeldIsHeld
    <3>2. CASE \E r \in Roles : facade[r] = j
      BY <3>2, <1>1 DEF Held
    <3>3. ASSUME NEW c \in Conns, Owns(c, j), Tracked(c)
          PROVE  Held(j)'
      <4>1. c # n
        BY <3>3, <1>2 DEF Owns
      <4>2. over'[c] = j /\ serves'[c] \in Owned
        BY <3>3, <4>1, <1>2 DEF Owns
      <4> QED
        BY <3>3, <4>2 DEF Owns, Held
    <3>4. ASSUME NEW u \in Threads \ {t}, Private(u), hand[u] = j
          PROVE  Held(j)'
      BY <3>4 DEF Held
    <3>5. CASE Private(t) /\ hand[t] = j
      BY <3>5, <1>1, <1>2 DEF Held, Owns, Tracked, Registered
    <3> QED
      BY <3>1, <3>2, <3>3, <3>4, <3>5 DEF Held
  <2> QED
    BY <2>1, HeldIsHeldNext
<1> QED
  BY <1>3, <1>4, <1>5, <1>6 DEF Sockets

LEMMA RetireKeeps ==
    ASSUME SInv, NEW t \in Threads, Frame(t), Retire(t)
    PROVE  Sockets'
<1> USE NoneAssumption DEF SInv, PInv, IInv, TypeOK, Frame
<1>0. PICK d \in retiring[t] : Closes(t, d)
  BY DEF Retire
<1>1. d \in Conns /\ over[d] \in Socks
  BY DEF Entries, RetiringIsRemoved
<1>2. over' = [over EXCEPT ![d] = None] /\ UNCHANGED <<facade, hand, made, serves>>
  BY <1>0 DEF Closes, Retire
<1>3. \A u \in Threads : Private(u)' <=> Private(u)
  BY DEF Retire, Private
<1> HIDE DEF Private
<1>4. \A c \in Conns \ {d} : over'[c] = over[c]
  BY <1>2
<1>5. \A j \in Socks : \/ life'[j] = life[j]
                       \/ j = over[d] /\ serves[d] \in Owned /\ life'[j] = "closed"
  <2>1. life' = IF serves[d] \in Owned THEN [life EXCEPT ![over[d]] = "closed"] ELSE life
    BY <1>0 DEF Closes
  <2>2. CASE serves[d] \in Owned
    BY <1>1, <2>1, <2>2
  <2>3. CASE serves[d] \notin Owned
    BY <2>1, <2>3
  <2> QED
    BY <2>2, <2>3
<1>6. serves[d] \in Owned => life'[over[d]] = "closed"
  <2>1. serves[d] \in Owned => life' = [life EXCEPT ![over[d]] = "closed"]
    BY <1>0 DEF Closes
  <2> QED
    BY <1>1, <2>1
<1>7. PrivateIsApart'
  <2>1. \A u \in Threads : Private(u) /\ serves[d] \in Owned => hand[u] # over[d]
    BY <1>1 DEF OwnedIsApart
  <2> QED
    BY <2>1, <1>2, <1>3, <1>5, PrivateHand DEF PrivateIsApart
<1>8. OwnedIsApart'
  <2>1. ASSUME NEW c \in Conns, over'[c] # None, serves'[c] \in Owned
        PROVE  /\ c # d /\ over'[c] = over[c] /\ over[c] \in Socks
               /\ life'[over[c]] # "closed"
    <3>1. c # d /\ over'[c] = over[c] /\ over[c] \in Socks
      BY <2>1, <1>1, <1>2, <1>4
    <3>2. life[over[c]] # "closed" /\ (serves[d] \in Owned => over[c] # over[d])
      BY <2>1, <3>1, <1>1, <1>2 DEF OwnedIsApart
    <3> QED
      BY <3>1, <3>2, <1>5
  <2> QED
    BY <2>1, <1>2, <1>4 DEF OwnedIsApart
<1>9. HandIsKnown'
  BY <1>2, <1>3, <1>5 DEF HandIsKnown
<1>10. OpenIsHeld'
  <2>1. ASSUME NEW j \in Socks, life'[j] # "closed"
        PROVE  Held(j)'
    <3>1. life[j] # "closed" /\ Held(j)
      BY <2>1, <1>5, HeldIsHeld
    <3>2. CASE \E r \in Roles : facade[r] = j
      BY <3>2, <1>2 DEF Held
    <3>3. ASSUME NEW c \in Conns, Owns(c, j), Tracked(c)
          PROVE  Held(j)'
      <4>1. c # d
        BY <3>3, <2>1, <1>6 DEF Owns
      <4>2. over'[c] = j /\ serves'[c] \in Owned
        BY <3>3, <4>1, <1>2, <1>4 DEF Owns
      <4> QED
        BY <3>3, <4>2 DEF Owns, Held
    <3>4. CASE \E u \in Threads : Private(u) /\ hand[u] = j
      BY <3>4, <1>2, <1>3 DEF Held
    <3> QED
      BY <3>1, <3>2, <3>3, <3>4 DEF Held
  <2> QED
    BY <2>1, HeldIsHeldNext
<1> QED
  BY <1>7, <1>8, <1>9, <1>10 DEF Sockets

LEMMA SocketsStep ==
    ASSUME SInv, [Next]_vars
    PROVE  Sockets'
<1>1. CASE UNCHANGED vars
  BY <1>1 DEF vars, SInv, Sockets, PrivateIsApart, OwnedIsApart, HandIsKnown, OpenIsHeld,
              Private, Owns, Registered
<1>2. ASSUME NEW k \in Socks, ServerLeaves(k)
      PROVE  Sockets'
  <2>1. /\ \A j \in Socks : life'[j] = "closed" <=> life[j] = "closed"
        /\ UNCHANGED <<table, over, serves, facade, pc, role, hand, made, retiring>>
    BY <1>2 DEF ServerLeaves, SInv, PInv, IInv, TypeOK
  <2>2. PrivateIsApart'
    BY <2>1, PrivateHand DEF SInv, PInv, IInv, PrivateIsApart, Private
  <2>3. OwnedIsApart' /\ HandIsKnown'
    BY <2>1 DEF SInv, PInv, IInv, TypeOK, OwnedIsApart, HandIsKnown, Private
  <2>4. OpenIsHeld'
    BY <2>1 DEF SInv, OpenIsHeld, Private, Owns, Registered
  <2> QED
    BY <2>2, <2>3, <2>4 DEF Sockets
<1>3. ASSUME NEW t \in Threads, Begin(t) \/ Step(t)
      PROVE  Sockets'
  <2>1. Frame(t)
    BY <1>3, Others, Tracking DEF Frame
  <2> QED
    BY <1>3, <2>1, StepOnSockets, LooksKeeps, OpensKeeps, KillsKeeps, GivesKeeps,
       WrapsKeeps, RetireKeeps
<1> QED
  BY <1>1, <1>2, <1>3 DEF Next

LEMMA SocketsInvariant == Spec => []SInv
<1>1. Init => SInv
  <2>1. Init => IInv
    BY InitTypes, NoneAssumption
    DEF Init, IInv, ManagerExcludes, Managing, HolderKnowsEntry, Entries,
        RegisteredIsOpen, RetiringIsRemoved
  <2>2. Init => RolesFit /\ RetiringIsUnderWay
    BY NoneAssumption DEF Init, RolesFit, RetiringIsUnderWay, Owned
  <2>3. Init => Sockets
    BY NoneAssumption
    DEF Init, Sockets, PrivateIsApart, OwnedIsApart, HandIsKnown, OpenIsHeld, Private
  <2> QED
    BY <2>1, <2>2, <2>3 DEF SInv, PInv, Sockets
<1>2. SInv /\ [Next]_vars => RolesFit' /\ RetiringIsUnderWay' /\ Sockets'
  BY PlacesStep, SocketsStep DEF SInv
<1>3. IInv' /\ RolesFit' /\ RetiringIsUnderWay' /\ Sockets' => SInv'
  BY DEF SInv, PInv, Sockets
<1> QED
  BY <1>1, <1>2, <1>3, Invariant, PTL DEF Spec

\* A connection that owns its socket never has it closed under it: not by the
\* worker that opened it and was refused, and not by the heartbeat or the retry
\* path, for any number of threads, roles, connections and sockets.
THEOREM OwnedIsOpenHolds == Spec => []OwnedIsOpen
<1>1. SInv => OwnedIsOpen
  BY DEF SInv, OwnedIsApart, OwnedIsOpen
<1> QED
  BY <1>1, SocketsInvariant, PTL

\* No socket the client opened is lost while it is open: it is kept, it belongs
\* to a connection that is registered or about to be closed, or a thread has it
\* in hand and will place it or close it.
THEOREM NothingLeaksHolds == Spec => []NothingLeaks
<1>1. SInv => NothingLeaks
  BY DEF SInv, OpenIsHeld, NothingLeaks, Private
<1> QED
  BY <1>1, SocketsInvariant, PTL
=============================================================================
