---------------------------- MODULE ChannelOpening ----------------------------
(***************************************************************************)
(* How the connections beside MAIN are opened: the serial sweep over the   *)
(* Level-2 or board hosts, the independent ordinary lane, the two 9601     *)
(* lanes; the passport each login uses, the rotation of the start host and *)
(* its file, and the evidence a login leaves                               *)
(* (_client/connection_primitives.py, services/auth.py, client.py).        *)
(*                                                                         *)
(* Openers run in parallel: the two preheat workers, the thread that       *)
(* preheats the other market, and whoever is in the registry's opener.     *)
(* Hosts are positions of the probed list; MAIN's own host is in no group. *)
(***************************************************************************)
EXTENDS AccountEvidence

CONSTANTS
    Openers,   \* threads that open a connection
    Roles,     \* roles they open, among AllRoles
    N,         \* hosts of a role
    MaxGen,    \* passports the run may fetch
    Says       \* what a passport may say of the Level-2 entitlement

L2Roles == {"sh", "sz"}
BoardRoles == {"board", "board_constituent_sh", "board_constituent_sz"}
RealRoles == {"realorder", "board_stats"}
AllRoles == L2Roles \cup BoardRoles \cup RealRoles \cup {"kline"}

ASSUME ParameterAssumption == Roles \subseteq AllRoles /\ N \in Nat \ {0, 1} /\ MaxGen \in Nat
                               /\ Says \subseteq Passports

VARIABLES
    evidence,  \* the recorder's evidence
    gen,       \* generation of the current passport, 0 before the first
    offset,    \* _login_rr_offset
    file,      \* file[r]: the offset of r in the state file, N when it has none
    held,      \* roles that have a socket
    pc,        \* pc[o]: where opener o is
    role,      \* role[o]: what it opens
    mine,      \* mine[o]: generation of the passport it uses
    round,     \* round[o]: 1, or 2 after the passport was refreshed
    start,     \* start[o]: position its sweep begins with
    tried,     \* tried[o]: hosts tried in this sweep
    won,       \* won[o]: a socket is logged in
    copy,      \* copy[o]: what it has read of the file
    used,      \* history: used[r]: generation the socket of r logged in with, 0 for none
    alone,     \* history: alone[o]: no other opening has overlapped with it
    lastStart  \* history: where the last sweep of a role, a failed one, began; N for none

account == <<evidence, gen>>
rotation == <<offset, file, copy>>
history == <<used, lastStart>>
control == <<pc, role, mine, round, start, tried, won, alone>>
vars == <<account, rotation, held, control, history>>

Places == {"idle", "auth", "probe", "sweep", "denied", "logged", "init", "swept",
           "boot", "store", "failed"}
SavePlaces == {"probe_read", "probe_write", "swept_read", "swept_write"}
Tables == [AllRoles -> 0..N]

Init ==
    /\ evidence = NoEvidence /\ gen = 0
    /\ offset = [r \in AllRoles |-> 0] /\ file = [r \in AllRoles |-> N]
    /\ held = {}
    /\ pc = [o \in Openers |-> "idle"] /\ role = [o \in Openers |-> "kline"]
    /\ mine = [o \in Openers |-> 0] /\ round = [o \in Openers |-> 1]
    /\ start = [o \in Openers |-> 0] /\ tried = [o \in Openers |-> 0]
    /\ won = [o \in Openers |-> FALSE]
    /\ copy = [o \in Openers |-> [r \in AllRoles |-> N]]
    /\ used = [r \in AllRoles |-> 0]
    /\ alone = [o \in Openers |-> TRUE]
    /\ lastStart = [r \in AllRoles |-> N]

Goto(o, place) == pc' = [pc EXCEPT ![o] = place]

\* The call is over, with or without a connection; its frame is gone.
Returns(o) ==
    /\ Goto(o, "idle")
    /\ role' = [role EXCEPT ![o] = "kline"] /\ mine' = [mine EXCEPT ![o] = 0]
    /\ round' = [round EXCEPT ![o] = 1] /\ start' = [start EXCEPT ![o] = 0]
    /\ tried' = [tried EXCEPT ![o] = 0] /\ won' = [won EXCEPT ![o] = FALSE]
    /\ alone' = [alone EXCEPT ![o] = TRUE]

-----------------------------------------------------------------------------
(* Authentication                                                          *)

\* A caller finds no connection of the role, or a dead one, and opens one.
Begin(o, r) ==
    /\ pc[o] = "idle"
    /\ held' = held \ {r} /\ used' = [used EXCEPT ![r] = 0]
    /\ Goto(o, "auth")
    /\ role' = [role EXCEPT ![o] = r]
    /\ LET others == {p \in Openers \ {o} : pc[p] # "idle"} IN
       alone' = [p \in Openers |-> IF p = o THEN others = {} ELSE alone[p] /\ p \notin others]
    /\ UNCHANGED <<account, rotation, mine, round, start, tried, won, lastStart>>

\* These fetch a passport of their own; the others take the current one, if any.
Forced(o) == role[o] \in L2Roles \cup {"kline"} \/ round[o] = 2
NextPlace(o) == IF role[o] \in RealRoles THEN "sweep" ELSE "probe"

\* authenticate(): a generation, and what it says of the entitlement.  What it says
\* may contradict the evidence: the call fails with the new passport in place.
Authenticate(o) ==
    /\ pc[o] = "auth" /\ gen < MaxGen /\ (Forced(o) \/ gen = 0)
    /\ gen' = gen + 1
    /\ \E says \in Says :
          IF RefusedPassport(evidence, says)
          THEN Returns(o) /\ UNCHANGED evidence
          ELSE /\ evidence' = RecordedPassport(evidence, says)
               /\ mine' = [mine EXCEPT ![o] = gen + 1]
               /\ Goto(o, NextPlace(o))
               /\ UNCHANGED <<role, round, start, tried, won, alone>>
    /\ UNCHANGED <<rotation, held, history>>

UseCurrent(o) ==
    /\ pc[o] = "auth" /\ ~Forced(o) /\ gen > 0
    /\ mine' = [mine EXCEPT ![o] = gen]
    /\ Goto(o, NextPlace(o))
    /\ UNCHANGED <<account, rotation, held, role, round, start, tried, won, alone, history>>

HttpFails(o) ==
    /\ pc[o] = "auth"
    /\ Returns(o)
    /\ UNCHANGED <<account, rotation, held, history>>

-----------------------------------------------------------------------------
(* The order of the hosts and its file                                     *)

\* The probe: its result is cached, or it is taken again and written down.
Probe(o) ==
    /\ pc[o] = "probe"
    /\ \E place \in {"sweep", "probe_read"} : Goto(o, place)
    /\ UNCHANGED <<account, rotation, held, role, mine, round, start, tried, won, alone, history>>

\* save_ip_state() reads the whole file; one that another thread is writing is
\* broken and counts as empty.
Broken == \E p \in Openers : pc[p] \in {"probe_write", "swept_write"}
SaveReads(o) ==
    /\ pc[o] \in {"probe_read", "swept_read"}
    /\ copy' = [copy EXCEPT ![o] = IF Broken THEN [r \in AllRoles |-> N] ELSE file]
    /\ Goto(o, IF pc[o] = "probe_read" THEN "probe_write" ELSE "swept_write")
    /\ UNCHANGED <<account, offset, file, held, role, mine, round, start, tried, won, alone, history>>

\* and writes it with the role's bucket replaced.
SaveWrites(o) ==
    /\ pc[o] \in {"probe_write", "swept_write"}
    /\ file' = [copy[o] EXCEPT ![role[o]] = offset[role[o]]]
    /\ copy' = [copy EXCEPT ![o] = [r \in AllRoles |-> N]]
    /\ Goto(o, IF pc[o] = "probe_write" THEN "sweep"
               ELSE IF ~won[o] THEN "failed"
               ELSE IF role[o] \in BoardRoles THEN "boot" ELSE "store")
    /\ start' = [start EXCEPT ![o] = 0] /\ tried' = [tried EXCEPT ![o] = 0]
    /\ lastStart' = IF ~alone[o] THEN [r \in AllRoles |-> N]
                    ELSE IF pc[o] = "swept_write" /\ ~won[o]
                    THEN [lastStart EXCEPT ![role[o]] = start[o]] ELSE lastStart
    /\ UNCHANGED <<account, offset, held, role, mine, round, won, alone, used>>

\* The process ends, even in the middle of a save, and another one starts: it takes
\* the offsets of the file.  The passports it fetches are new ones.
Restart ==
    /\ file' = IF Broken THEN [r \in AllRoles |-> N] ELSE file
    /\ offset' = [r \in AllRoles |-> IF file'[r] < N THEN file'[r] ELSE 0]
    /\ evidence' = NoEvidence /\ gen' = 0
    /\ held' = {} /\ used' = [r \in AllRoles |-> 0]
    /\ copy' = [o \in Openers |-> [r \in AllRoles |-> N]]
    /\ pc' = [o \in Openers |-> "idle"] /\ role' = [o \in Openers |-> "kline"]
    /\ mine' = [o \in Openers |-> 0] /\ round' = [o \in Openers |-> 1]
    /\ start' = [o \in Openers |-> 0] /\ tried' = [o \in Openers |-> 0]
    /\ won' = [o \in Openers |-> FALSE]
    /\ lastStart' = [r \in AllRoles |->
          IF (\A o \in Openers : pc[o] = "idle") /\ file[r] < N THEN lastStart[r] ELSE N]
    /\ alone' = [o \in Openers |-> TRUE]

\* Mutant: the offset moves by what was tried, and comes round to where it was.
Advanced_Plain(off, n, force) == (off + (IF n = 0 THEN 1 ELSE n)) % N

\* _advance_l2_offset(): a sweep that failed over the whole list moves at least one on.
Advanced(off, n, force) ==
    LET new == (off + (IF n = 0 THEN 1 ELSE n)) % N
    IN  IF force /\ new = off % N THEN (new + 1) % N ELSE new

-----------------------------------------------------------------------------
(* The sweep                                                               *)

\* One host after the other, from the offset on.
StartOf(o) == IF tried[o] = 0 THEN offset[role[o]] % N ELSE start[o]
Moves(o) ==
    /\ tried' = [tried EXCEPT ![o] = @ + 1]
    /\ start' = [start EXCEPT ![o] = StartOf(o)]

\* The next host does not answer, or refuses for a reason that passes.
TryFails(o) ==
    /\ pc[o] = "sweep" /\ tried[o] < N /\ role[o] \in L2Roles \cup BoardRoles
    /\ Moves(o)
    /\ UNCHANGED <<account, rotation, held, pc, role, mine, round, won, alone, history>>

\* It logs in.
TryLogs(o) ==
    /\ pc[o] = "sweep" /\ tried[o] < N /\ role[o] \in L2Roles \cup BoardRoles
    /\ Moves(o)
    /\ won' = [won EXCEPT ![o] = role[o] \in BoardRoles]
    /\ Goto(o, IF role[o] \in BoardRoles THEN "swept" ELSE "logged")
    /\ UNCHANGED <<account, rotation, held, role, mine, round, alone, history>>

\* A Level-2 host says that the account has no Level-2 rights.
TryDenied(o) ==
    /\ pc[o] = "sweep" /\ tried[o] < N /\ role[o] \in L2Roles
    /\ Moves(o)
    /\ IF Refused(evidence, "entitlement", "no")
       THEN UNCHANGED <<evidence, pc>>
       ELSE evidence' = Recorded(evidence, "entitlement", "no") /\ Goto(o, "denied")
    /\ UNCHANGED <<gen, rotation, held, role, mine, round, won, alone, history>>

Denied(o) ==
    /\ pc[o] = "denied" /\ Goto(o, "sweep")
    /\ evidence' = Recorded(evidence, "manual", "no")
    /\ UNCHANGED <<gen, rotation, held, role, mine, round, start, tried, won, alone, history>>

\* A Level-2 host takes the passport for a spoilt one: no other host is asked with it.
TryStale(o) ==
    /\ pc[o] = "sweep" /\ tried[o] < N /\ role[o] \in L2Roles
    /\ Moves(o)
    /\ Goto(o, "swept")
    /\ UNCHANGED <<account, rotation, held, role, mine, round, won, alone, history>>

\* The login is evidence; if it contradicts, the socket is given up.
Logged(o) ==
    /\ pc[o] = "logged"
    /\ IF Refused(evidence, "manual", "yes")
       THEN Goto(o, "sweep") /\ UNCHANGED evidence
       ELSE evidence' = Recorded(evidence, "manual", "yes") /\ Goto(o, "init")
    /\ UNCHANGED <<gen, rotation, held, role, mine, round, start, tried, won, alone, history>>

\* Mutant: the handshake is recorded without a look at what else is known.
InitAnswers_Unchecked(o) ==
    /\ pc[o] = "init"
    /\ evidence' = [evidence EXCEPT !["init"] = "yes"]
    /\ won' = [won EXCEPT ![o] = TRUE]
    /\ Goto(o, "swept")
    /\ UNCHANGED <<gen, rotation, held, role, mine, round, start, tried, alone, history>>

\* Mutant: what contradicts is passed over, as at the login, and the socket is kept.
InitAnswers_Keeps(o) ==
    /\ pc[o] = "init"
    /\ evidence' = Recorded(evidence, "init", "yes")
    /\ won' = [won EXCEPT ![o] = TRUE]
    /\ Goto(o, "swept")
    /\ UNCHANGED <<gen, rotation, held, role, mine, round, start, tried, alone, history>>

\* A full answer to the init handshake is evidence too; when that contradicts, the
\* exception leaves the sweep and the call.
InitAnswers(o) ==
    /\ pc[o] = "init"
    /\ IF Refused(evidence, "init", "yes")
       THEN Returns(o) /\ UNCHANGED evidence
       ELSE /\ evidence' = Recorded(evidence, "init", "yes")
            /\ won' = [won EXCEPT ![o] = TRUE]
            /\ Goto(o, "swept")
            /\ UNCHANGED <<role, mine, round, start, tried, alone>>
    /\ UNCHANGED <<gen, rotation, held, history>>

\* Too few bytes: the wrong market, or a sick host; the next one, same passport.
InitTooSmall(o) ==
    /\ pc[o] = "init" /\ Goto(o, "sweep")
    /\ UNCHANGED <<account, rotation, held, role, mine, round, start, tried, won, alone, history>>

\* The rotation moves on, whatever came of the sweep, and is written down.
Swept(o) == pc[o] = "swept" \/ (pc[o] = "sweep" /\ tried[o] = N)
Sweeps(o) ==
    /\ Swept(o)
    /\ offset' = [offset EXCEPT ![role[o]] = Advanced(@, tried[o], ~won[o])]
    /\ lastStart' = [lastStart EXCEPT ![role[o]] = N]
    /\ Goto(o, "swept_read")
    /\ UNCHANGED <<account, file, copy, held, role, mine, round, start, tried, won, alone, used>>

\* A failed sweep is made once more with a fresh passport.
Again(o) ==
    /\ pc[o] = "failed"
    /\ IF round[o] = 1
       THEN /\ round' = [round EXCEPT ![o] = 2] /\ won' = [won EXCEPT ![o] = FALSE]
            /\ mine' = [mine EXCEPT ![o] = 0]
            /\ Goto(o, "auth")
            /\ UNCHANGED <<role, start, tried, alone>>
       ELSE Returns(o)
    /\ UNCHANGED <<account, rotation, held, history>>

\* One login decides: the kline lane moves its offset first and lets a batch of hosts
\* race, the 9601 lanes have one server.
LogsInOnce(o) ==
    /\ pc[o] = "sweep" /\ role[o] \in RealRoles \cup {"kline"}
    /\ \E n \in 1..N :
          offset' = IF role[o] = "kline" THEN [offset EXCEPT !["kline"] = (@ + n) % N] ELSE offset
    /\ \/ Returns(o) /\ UNCHANGED evidence
       \/ /\ Goto(o, "store")
          /\ evidence' = IF role[o] = "realorder" THEN Recorded(evidence, "realorder", "yes")
                         ELSE evidence
          /\ UNCHANGED <<role, mine, round, start, tried, won, alone>>
    /\ UNCHANGED <<gen, file, copy, held, history>>

-----------------------------------------------------------------------------
(* Bootstrap of a board socket, and the table of sockets                   *)

\* No reply to the bootstrap, or an error: a fresh passport and another sweep, once.
BootFails(o) ==
    /\ pc[o] = "boot" /\ Goto(o, "failed")
    /\ UNCHANGED <<account, rotation, held, role, mine, round, start, tried, won, alone, history>>

\* What the board socket of a Level-2 account proves is recorded.
Proves(o) ==
    LET init == IF role[o] # "board" /\ KindOf(evidence) = "level2" THEN {"init"} ELSE {}
        manual == IF role[o] = "board_constituent_sz" THEN {"manual"} ELSE {}
    IN init \cup manual
BootAnswers(o) ==
    /\ pc[o] = "boot"
    /\ LET step1 == IF "init" \in Proves(o) THEN Recorded(evidence, "init", "yes") ELSE evidence
           step2 == IF "manual" \in Proves(o) THEN Recorded(step1, "manual", "yes") ELSE step1
       IN  /\ evidence' = step2
           /\ IF \A f \in Proves(o) : step2[f] = "yes"
              THEN Goto(o, "store") /\ UNCHANGED <<role, mine, round, start, tried, won, alone>>
              ELSE Returns(o)
    /\ UNCHANGED <<gen, rotation, held, history>>

\* The socket is kept unless another opener of the role was faster.
Store(o) ==
    /\ pc[o] = "store"
    /\ IF role[o] \notin held
       THEN /\ held' = held \cup {role[o]}
            /\ used' = [used EXCEPT ![role[o]] = mine[o]]
       ELSE UNCHANGED <<held, used>>
    /\ Returns(o)
    /\ UNCHANGED <<account, rotation, lastStart>>

Open(o) ==
    \/ Authenticate(o) \/ UseCurrent(o) \/ HttpFails(o)
    \/ Probe(o) \/ SaveReads(o) \/ SaveWrites(o)
    \/ TryFails(o) \/ TryLogs(o) \/ TryDenied(o) \/ Denied(o) \/ TryStale(o)
    \/ Logged(o) \/ InitAnswers(o) \/ InitTooSmall(o) \/ Sweeps(o)
    \/ Again(o) \/ LogsInOnce(o)
    \/ BootFails(o) \/ BootAnswers(o) \/ Store(o)

Next ==
    \/ \E o \in Openers : Open(o) \/ \E r \in Roles : Begin(o, r)
    \/ Restart

Spec == Init /\ [][Next]_vars

-----------------------------------------------------------------------------
(* Properties                                                              *)

TypeOK ==
    /\ evidence \in Evidence /\ gen \in 0..MaxGen
    /\ offset \in [AllRoles -> 0..N-1] /\ file \in Tables
    /\ held \subseteq AllRoles
    /\ pc \in [Openers -> Places \cup SavePlaces] /\ role \in [Openers -> AllRoles]
    /\ mine \in [Openers -> 0..MaxGen] /\ round \in [Openers -> 1..2]
    /\ start \in [Openers -> 0..N-1] /\ tried \in [Openers -> 0..N]
    /\ won \in [Openers -> BOOLEAN] /\ copy \in [Openers -> Tables]
    /\ used \in [AllRoles -> 0..MaxGen]
    /\ alone \in [Openers -> BOOLEAN] /\ lastStart \in Tables

\* However the observations of two openers interleave, what is recorded is consistent:
\* no feature is proved of an account that is known not to have it.
EvidenceCoherent == ~Contradictory(evidence)

\* While a Level-2 socket stands, the account is known to have what it is for: its
\* login and its handshake are on record and the profile says Level-2, whatever other
\* openers' hosts and passports have said of the account since, or between the two.
StandingIsProved ==
    \A r \in held \cap L2Roles :
       /\ evidence["manual"] = "yes" /\ MarketSupport(evidence) = "yes"
       /\ KindOf(evidence) = "level2"

\* client.py:920, "一代 AuthMaterial 只能用于一条 socket 的首次登录": connections that
\* stand came from passports of their own.  Refuted (MC_v_passport.cfg): the board and
\* 9601 lanes log in with the current passport, which another connection has used.
OnePassportOneSocket == \A r, s \in held : used[r] = used[s] => r = s

\* After a sweep of a role that failed, the next sweep of the role starts with another
\* host, also in a process that was started since; of sweeps that nothing overlaps.
RotationMoves ==
    [][\A o \in Openers :
          alone[o] /\ tried[o] = 0 /\ tried'[o] = 1 /\ lastStart[role[o]] < N
          => start'[o] # lastStart[role[o]]]_vars

\* "其它角色的桶原样保留": a save of one role leaves what the file says of the others.
BucketsKept ==
    [][\A o \in Openers : /\ pc[o] \in {"probe_write", "swept_write"}
                         /\ pc'[o] \in {"sweep", "failed", "boot", "store"}
          => \A r \in AllRoles \ {role[o]} : file'[r] = file[r]]_vars

-----------------------------------------------------------------------------
(* The parts of the inductive invariants of ChannelOpening_proofs.         *)

SweptRoles == L2Roles \cup BoardRoles

\* What an opener of a Level-2 socket has on record at each place.
Proved == evidence["manual"] = "yes" /\ evidence["init"] = "yes"
OpenersHaveProved ==
    \A o \in Openers :
       /\ pc[o] = "idle" => ~won[o]
       /\ pc[o] = "init" => evidence["manual"] # "unknown"
       /\ pc[o] = "boot" => role[o] \in BoardRoles
       /\ role[o] \in L2Roles /\ (won[o] \/ pc[o] = "store") => Proved
StandingHaveProved == held \cap L2Roles # {} => Proved

\* While an opening that nothing overlapped with lasts, nobody else is at work.
AloneIsAlone ==
    \A o, p \in Openers : o # p /\ alone[o] /\ pc[o] # "idle" => pc[p] = "idle"

Sweeping == {"sweep", "denied", "logged", "init", "swept", "swept_read", "swept_write"}
SweepsAreOfHosts ==
    \A o \in Openers :
       /\ pc[o] \in Sweeping \ {"sweep"} => tried[o] > 0
       /\ tried[o] > 0 => pc[o] \in Sweeping /\ role[o] \in SweptRoles

\* What an opening knows that nothing overlapped with: the offset it began at, then
\* the one it moved to, and the file.
AloneIsInStep ==
    \A o \in Openers : alone[o] =>
       /\ pc[o] \notin {"swept_read", "swept_write"} /\ tried[o] > 0 =>
             start[o] = offset[role[o]]
       /\ pc[o] \in {"swept_read", "swept_write"} /\ ~won[o] =>
             start[o] # offset[role[o]]
       /\ pc[o] \in {"probe_write", "swept_write"} => copy[o] = file

\* After a sweep that failed, the offset is another one, and the file has it.
FailureMovedOn ==
    \A r \in AllRoles : lastStart[r] < N =>
       r \in SweptRoles /\ file[r] = offset[r] /\ offset[r] # lastStart[r]
=============================================================================
