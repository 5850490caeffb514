----------------------------- MODULE ServiceCalls -----------------------------
(***************************************************************************)
(* The calls of the service facade (_client/service_facade.py) and what    *)
(* they do around a service's own request: the check for a connection, the *)
(* capability leases of _run_default_service (client.py), the manager's    *)
(* admission, and the retries with what they close.                        *)
(*                                                                         *)
(* A call is a plan: a record of what its function asks for and how it     *)
(* takes each failure.  The request itself is one step with any outcome.   *)
(***************************************************************************)
EXTENDS AccountEvidence, FiniteSets

CONSTANTS
    Callers,      \* threads
    Offered,      \* the names of the calls they make
    Says,         \* what a passport may say of Level-2
    MaxRetries    \* bound on how often a call may try again (the code's: 3)

ASSUME SaysAssumption == Says \subseteq Support
ASSUME RetriesAssumption == MaxRetries \in 1..3
ASSUME CallersAssumption == IsFiniteSet(Callers)

VARIABLES
    evidence,     \* _account_evidence
    leases,       \* _service_capability_leases
    manager,      \* a ConnectionManager exists
    profile,      \* its profile
    auto,         \* _service_auto_profile
    sock,         \* the roles that have a connection
    reg,          \* roles registered with the manager
    authed,       \* a passport was obtained
    at,           \* at[c]: where a call is
    plan,         \* plan[c]: what it does, and how often it may still try
    mine,         \* mine[c]: what its role's connection is to it
    outcome       \* outcome[c]: of its last attempt

accountVars == <<evidence, authed>>
managerVars == <<manager, profile, auto>>
socketVars == <<sock, reg>>
callVars == <<at, plan, mine, outcome>>
vars == <<accountVars, leases, managerVars, socketVars, callVars>>

\* Either Level-2 lane is "l2"; both 9601 and 8901 board channels are "board".
Roles == {"main", "kline_fast", "bse_main", "l2", "realorder", "board"}
Kept == {"main", "realorder", "board"}
Places == {"idle", "guard", "lease", "ensure", "acquire", "answer", "release", "judge"}
Outcomes == {"none", "ok", "empty", "protocol", "channel", "refused", "os"}
\* Not its own; the one it uses; the one it failed on; and used once more.
Ties == {"none", "held", "failed", "again"}

-----------------------------------------------------------------------------
(* The plans                                                               *)

Guards == {"none", "ensure", "connected", "renew", "auth", "authAgain"}
Plans == [guard : Guards, reguard : Guards, caps : SUBSET Capabilities,
          role : Roles, proves : Fields \cup {"none"}, left : 0..3,
          retries : SUBSET Outcomes, drops : SUBSET Roles, fallback : BOOLEAN]

Tries(n) == IF n < MaxRetries THEN n ELSE MaxRetries

\* Asked once of a role; every failure is the caller's.
Once(guard, caps, role, proves) ==
    [guard |-> guard, reguard |-> "none", caps |-> caps, role |-> role,
     proves |-> proves, left |-> 0, retries |-> {}, drops |-> {},
     fallback |-> FALSE]

ByKind(k, basic, l2) == IF k = "standard" THEN {basic} ELSE {l2}
RoleOf(k) == IF k = "standard" THEN "main" ELSE "l2"
FieldOf(k, l2) == IF k = "standard" THEN "main" ELSE l2

FetchStockNames(k) == Once("ensure", {"basic_quote"}, "main", "main")
MarketSnapshot(k) == Once("ensure", {"basic_quote"}, "main", "main")
StockListHot(k) ==
    Once("ensure", IF k = "level2" THEN {"l2_market_access"} ELSE {"basic_quote"},
         IF k = "level2" THEN "l2" ELSE "main", IF k = "level2" THEN "init" ELSE "main")
StockList(k) ==
    Once("ensure", {"basic_quote"} \cup (IF k = "level2" THEN {"l2_market_access"} ELSE {}),
         "main", "main")
DdeRank(k) == [StockListHot(k) EXCEPT !.left = 1, !.retries = {"os", "protocol"}]

\* Nothing, or a failure, is asked for again behind connect_main().
ListQuotes(k) ==
    [Once("ensure", {"basic_quote"}, "main", "main")
     EXCEPT !.left = 1, !.reguard = "renew",
            !.retries = {"empty", "protocol", "os"}]

DepthQuote(k) ==
    [Once("connected", {"basic_quote"}, "main", "main")
     EXCEPT !.reguard = "connected", !.left = Tries(2), !.retries = {"os"}, !.drops = {"main"}]
DepthTen(k) ==
    [DepthQuote(k) EXCEPT !.caps = {"l2_snapshot_push"}, !.role = "l2",
                          !.proves = "l2_snapshot_push"]
MarketView(k) ==
    Once("ensure", {"basic_quote"}, "main", "main")

Kline(k) ==
    LET l2 == k = "level2" IN
    [Once("connected", IF l2 THEN {"l2_timeline"} ELSE {"basic_quote"},
          IF l2 THEN "l2" ELSE "main", IF l2 THEN "l2_timeline" ELSE "main")
     EXCEPT !.reguard = "connected", !.left = Tries(3), !.retries = {"os"}, !.drops = {"main"}]
KlineFast(k) ==
    [Once("none", {"basic_quote"}, "kline_fast", "main")
     EXCEPT !.left = Tries(3), !.retries = {"os"},
            !.drops = {"kline_fast"}]

Timeline(k) == Once("auth", ByKind(k, "basic_timeline", "l2_timeline"), RoleOf(k),
                    FieldOf(k, "l2_timeline"))
Auction(k) == Once("auth", ByKind(k, "basic_auction", "l2_auction"), RoleOf(k),
                   FieldOf(k, "l2_auction"))
ClosingAuction(k) == Auction(k)
Superorder(k) == Once("auth", {"l2_timeline"}, "l2", "l2_timeline")
SnapshotReplay(k) == Superorder(k)
OrderDetails(k) == Superorder(k)
OrderQueue(k) == Superorder(k)
OrderQueues(k) == Superorder(k)

BseTicks(k) == Once("auth", {}, "bse_main", "none")
BseDay(k) == Once("none", {}, "bse_main", "none")
BseOpening(k) == BseDay(k)
BseHistory(k) ==
    [BseDay(k) EXCEPT !.left = Tries(2), !.retries = {"os"},
                      !.drops = {"bse_main"}]

HistoryTimeline(k) ==
    [Once("authAgain", ByKind(k, "basic_history_timeline", "l2_history_timeline"),
          RoleOf(k), FieldOf(k, "l2_history_timeline"))
     EXCEPT !.reguard = "authAgain", !.left = Tries(3), !.retries = {"empty", "os"},
            !.drops = {RoleOf(k)}]

\* Two bundles, and the one-request timeline when both failed.
Intraday(k) ==
    [Once("none", {"l2_auction", "l2_history_timeline"}, "l2", "l2_auction")
     EXCEPT !.left = 1, !.retries = {"protocol", "channel"}, !.fallback = TRUE]
IntradayAuctions(k) ==
    Once("none", {"l2_auction", "l2_history_timeline"}, "l2", "l2_auction")

RegisterL2Code(k) ==
    Once("auth", {"l2_snapshot_push"}, "l2", "l2_snapshot_push")
RankingDepth(k) == Once("none", {"l2_snapshot_push"}, "l2", "none")
RankingDepthUpdate(k) == RankingDepth(k)

DxjlPage(k) == Once("none", {"realorder"}, "realorder", "none")
DxjlLatest(k) == DxjlPage(k)
DxjlHistory(k) == DxjlPage(k)
SubscribeRealtime(k) == DxjlPage(k)
ReceivePushes(k) == DxjlPage(k)
BoardCalcext(k) == DxjlPage(k)

HotBoards(k) == Once("none", {"basic_quote"}, "board", "none")
HotBoardsSorted(k) == HotBoards(k)
BoardQuotes(k) == HotBoards(k)
BoardTimeline(k) == HotBoards(k)
BoardKline(k) == HotBoards(k)
BoardAuction(k) == HotBoards(k)
BoardConstituents(k) ==
    Once("none", {"basic_quote", "l2_market_access"}, "board", "none")
BoardStats(k) == HotBoards(k)

\* The calls of the facade that go through a connection.
Names ==
  {"fetch_stock_names", "market_snapshot", "stock_list_hot",
   "stock_list", "dde_rank", "list_quotes", "depth_quote", "depth_ten",
   "market_view_pipeline", "kline", "kline_fast", "timeline", "auction",
   "closing_auction", "superorder", "snapshot_replay", "order_details",
   "order_queue", "order_queues", "bse_ticks", "bse_superorder_day",
   "bse_opening_auction", "bse_history_timeline", "history_timeline",
   "intraday", "intraday_auctions", "snapshot_subscribe",
   "ranking_depth_subscribe", "ranking_depth_update", "dxjl_page",
   "dxjl_latest", "dxjl_history", "subscribe_realtime",
   "receive_pushes", "board_calcext", "hot_boards", "hot_boards_sorted",
   "board_quotes", "board_timeline", "board_kline", "board_auction",
   "board_constituents", "board_stats"}

ASSUME OfferedAssumption == Offered \subseteq Names

\* The account kind a call goes by: the manager's, or what was observed.
KindSeen == IF manager THEN profile.kind ELSE KindOf(evidence)

PlanFor(name, k) ==
    CASE name = "fetch_stock_names" -> FetchStockNames(k)
      [] name = "market_snapshot" -> MarketSnapshot(k)
      [] name = "stock_list_hot" -> StockListHot(KindOf(evidence))
      [] name = "stock_list" -> StockList(KindOf(evidence))
      [] name = "dde_rank" -> DdeRank(KindOf(evidence))
      [] name = "list_quotes" -> ListQuotes(k)
      [] name = "depth_quote" -> DepthQuote(k)
      [] name = "depth_ten" -> DepthTen(k)
      [] name = "market_view_pipeline" -> MarketView(k)
      [] name = "kline" -> Kline(k)
      [] name = "kline_fast" -> KlineFast(k)
      [] name = "timeline" -> Timeline(k)
      [] name = "auction" -> Auction(k)
      [] name = "closing_auction" -> ClosingAuction(k)
      [] name = "superorder" -> Superorder(k)
      [] name = "snapshot_replay" -> SnapshotReplay(k)
      [] name = "order_details" -> OrderDetails(k)
      [] name = "order_queue" -> OrderQueue(k)
      [] name = "order_queues" -> OrderQueues(k)
      [] name = "bse_ticks" -> BseTicks(k)
      [] name = "bse_superorder_day" -> BseDay(k)
      [] name = "bse_opening_auction" -> BseOpening(k)
      [] name = "bse_history_timeline" -> BseHistory(k)
      [] name = "history_timeline" -> HistoryTimeline(k)
      [] name = "intraday" -> IF k = "level2" THEN Intraday(k) ELSE Timeline(k)
      [] name = "intraday_auctions" -> IF k = "level2" THEN IntradayAuctions(k) ELSE Auction(k)
      [] name = "snapshot_subscribe" -> RegisterL2Code(k)
      [] name = "ranking_depth_subscribe" -> RankingDepth(k)
      [] name = "ranking_depth_update" -> RankingDepthUpdate(k)
      [] name = "dxjl_page" -> DxjlPage(k)
      [] name = "dxjl_latest" -> DxjlLatest(k)
      [] name = "dxjl_history" -> DxjlHistory(k)
      [] name = "subscribe_realtime" -> SubscribeRealtime(k)
      [] name = "receive_pushes" -> ReceivePushes(k)
      [] name = "board_calcext" -> BoardCalcext(k)
      [] name = "hot_boards" -> HotBoards(k)
      [] name = "hot_boards_sorted" -> HotBoardsSorted(k)
      [] name = "board_quotes" -> BoardQuotes(k)
      [] name = "board_timeline" -> BoardTimeline(k)
      [] name = "board_kline" -> BoardKline(k)
      [] name = "board_auction" -> BoardAuction(k)
      [] name = "board_constituents" -> BoardConstituents(k)
      [] name = "board_stats" -> BoardStats(k)

-----------------------------------------------------------------------------
(* Profiles and roles                                                      *)

\* _default_service_profile(): what is requested and not known is granted.
Granted(requested) ==
    LET seen == ProfileOf(evidence)
        l2 == requested \cap L2Features # {}
        asked(c) == c \in requested \/ (l2 /\ c = "l2_market_access")
    IN [kind |-> IF l2 /\ seen.kind = "unknown" THEN "level2" ELSE seen.kind,
        support |-> [c \in Capabilities |->
           IF asked(c) /\ seen.support[c] = "unknown" THEN "yes" ELSE seen.support[c]]]

\* _profile_allows_role()
Allows(p, r) ==
    /\ r = "l2" => p.kind = "level2" /\ p.support["l2_market_access"] = "yes"
    /\ r = "realorder" => p.support["realorder"] = "yes"

\* _validate_role(), with the capability the service names.
Admits(p, r, caps) ==
    /\ Allows(p, r)
    /\ r \in {"kline_fast", "board"} => p.support["basic_quote"] = "yes"
    /\ \A c \in caps : p.support[c] = "yes"

\* Mutant: update_profile() leaves what is registered.
UpdateProfile_Keeps(p) == profile' = p /\ UNCHANGED reg

\* update_profile(): the roles that are not allowed any more are retired; their
\* sockets are the client's and stay.
UpdateProfile(p) ==
    /\ profile' = p
    /\ reg' = {r \in reg : Allows(p, r)}

Asked == {c \in Capabilities : leases[c] > 0}

-----------------------------------------------------------------------------
(* A call                                                                  *)

Init ==
    /\ evidence = NoEvidence /\ authed = FALSE
    /\ leases = [c \in Capabilities |-> 0]
    /\ manager = FALSE /\ profile = ProfileOf(NoEvidence) /\ auto = FALSE
    /\ sock = {} /\ reg = {}
    /\ at = [c \in Callers |-> "idle"]
    /\ plan = [c \in Callers |-> BseDay("unknown")]
    /\ mine = [c \in Callers |-> "none"]
    /\ outcome = [c \in Callers |-> "none"]

Goto(c, place) == at' = [at EXCEPT ![c] = place]

\* The connections of these roles are no one's any more.
Lost(roles) == [c \in Callers |-> IF plan[c].role \in roles THEN "none" ELSE mine[c]]

Returns(c, gone) ==
    /\ Goto(c, "idle")
    /\ plan' = [plan EXCEPT ![c] = BseDay("unknown")]
    /\ mine' = [Lost(gone) EXCEPT ![c] = "none"]
    /\ outcome' = [outcome EXCEPT ![c] = "none"]

Begin(c) ==
    /\ at[c] = "idle"
    /\ \E name \in Offered : plan' = [plan EXCEPT ![c] = PlanFor(name, KindSeen)]
    /\ Goto(c, "guard")
    /\ UNCHANGED <<accountVars, leases, managerVars, socketVars, mine, outcome>>

\* A login or an authentication brings the passport's word on the entitlement.
Learns(e, main) ==
    \E says \in Says :
       evidence' = RecordedPassport(IF main THEN Recorded(e, "main", "yes") ELSE e, says)

NeedsMain(c) ==
    \/ plan[c].guard = "ensure" /\ "main" \notin sock
    \/ plan[c].guard \in {"connected", "renew"}
NeedsAuth(c) == plan[c].guard \in {"auth", "authAgain"} /\ ~authed /\ ~manager

\* The connection is there: kept, alive, or young enough to be used again.
GuardPasses(c) ==
    /\ at[c] = "guard" /\ ~NeedsAuth(c)
    /\ NeedsMain(c) => "main" \in sock
    /\ Goto(c, "lease")
    /\ UNCHANGED <<accountVars, leases, managerVars, socketVars, plan, mine, outcome>>

\* connect(), connect_main(): a new MAIN socket replaces the old one.
GuardConnects(c) ==
    /\ at[c] = "guard" /\ NeedsMain(c)
    /\ sock' = sock \cup {"main"} /\ mine' = Lost({"main"})
    /\ reg' = reg \ {"main"}
    /\ Learns(evidence, TRUE) /\ authed' = TRUE
    /\ Goto(c, "lease")
    /\ UNCHANGED <<leases, managerVars, plan, outcome>>

GuardAuthenticates(c) ==
    /\ at[c] = "guard" /\ NeedsAuth(c)
    /\ Learns(evidence, FALSE) /\ authed' = TRUE
    /\ Goto(c, "lease")
    /\ UNCHANGED <<leases, managerVars, socketVars, plan, mine, outcome>>

\* It fails: the attempt is spent, or the call ends.
GuardFails(c) ==
    /\ at[c] = "guard" /\ (NeedsMain(c) \/ NeedsAuth(c))
    /\ IF plan[c].guard \in {"connected", "authAgain"} /\ plan[c].left > 0
       THEN /\ plan' = [plan EXCEPT ![c].left = @ - 1, ![c].guard = plan[c].reguard]
            /\ UNCHANGED <<at, mine, outcome>>
       ELSE Returns(c, {})
    /\ UNCHANGED <<accountVars, leases, managerVars, socketVars>>

\* _run_default_service(), its first block under the context lock.
Lease(c) ==
    /\ at[c] = "lease"
    /\ leases' = [k \in Capabilities |-> leases[k] + IF k \in plan[c].caps THEN 1 ELSE 0]
    /\ Goto(c, "ensure")
    /\ UNCHANGED <<accountVars, managerVars, socketVars, plan, mine, outcome>>

\* Mutant: the profile grants what this call asks for, whatever others hold.
Ensure_OwnOnly(c) ==
    /\ at[c] = "ensure"
    /\ IF manager /\ ~auto
       THEN UNCHANGED <<managerVars, reg>>
       ELSE /\ manager' = TRUE /\ auto' = TRUE
            /\ UpdateProfile(Granted(plan[c].caps))
    /\ Goto(c, "acquire")
    /\ UNCHANGED <<accountVars, leases, sock, plan, mine, outcome>>

\* The second: _ensure_default_service_context() with every lease there is.
Ensure(c) ==
    /\ at[c] = "ensure"
    /\ IF manager /\ ~auto
       THEN UNCHANGED <<managerVars, reg>>
       ELSE /\ manager' = TRUE /\ auto' = TRUE
            /\ UpdateProfile(Granted(Asked))
    /\ Goto(c, "acquire")
    /\ UNCHANGED <<accountVars, leases, sock, plan, mine, outcome>>

Ends(c, result) ==
    /\ outcome' = [outcome EXCEPT ![c] = result]
    /\ Goto(c, "release")

Admitted(c) ==
    at[c] = "acquire" /\ Admits(profile, plan[c].role, plan[c].caps)

\* The connection a role has is used; of what the client keeps, dead or not.
AcquireKnown(c) ==
    /\ Admitted(c) /\ plan[c].role \in sock
    /\ mine' = [mine EXCEPT ![c] = IF @ = "failed" THEN "again" ELSE "held"]
    /\ reg' = reg \cup {plan[c].role}
    /\ Goto(c, "answer")
    /\ UNCHANGED <<accountVars, leases, managerVars, sock, plan, outcome>>

\* There is none, or it is found dead: another is opened.
Opens(c) == Admitted(c) /\ ~(plan[c].role \in sock \cap Kept)

AcquireNew(c) ==
    LET r == plan[c].role IN
    /\ Opens(c)
    /\ sock' = sock \cup {r} /\ reg' = reg \cup {r}
    /\ mine' = [Lost({r}) EXCEPT ![c] = "held"]
    /\ evidence' = CASE r = "l2" -> Recorded(evidence, "init", "yes")
                     [] r = "main" -> Recorded(evidence, "main", "yes")
                     [] OTHER -> evidence
    /\ Goto(c, "answer")
    /\ UNCHANGED <<authed, leases, managerVars, plan, outcome>>

AcquireFails(c) ==
    LET r == plan[c].role IN
    /\ Opens(c)
    /\ sock' = sock \ {r} /\ reg' = reg \ {r} /\ mine' = Lost({r})
    /\ Ends(c, "channel")
    /\ UNCHANGED <<accountVars, leases, managerVars, plan>>

AcquireRefused(c) ==
    /\ at[c] = "acquire" /\ ~Admits(profile, plan[c].role, plan[c].caps)
    /\ Ends(c, "refused")
    /\ UNCHANGED <<accountVars, leases, managerVars, socketVars, plan, mine>>

\* The service's request.  A valid answer is evidence; some services may not
\* get a frame, or not one they can read, and the socket may fail.
Answer(c) ==
    /\ at[c] = "answer"
    /\ \E result \in {"ok", "empty", "protocol", "os"} :
          /\ Ends(c, result)
          /\ evidence' = IF result = "ok" /\ plan[c].proves # "none"
                         THEN Recorded(evidence, plan[c].proves, "yes") ELSE evidence
          /\ mine' = [mine EXCEPT ![c] =
                IF result = "os" /\ @ # "none" THEN "failed" ELSE "none"]
    /\ UNCHANGED <<authed, leases, managerVars, socketVars, plan>>

Unleased(c) ==
    [k \in Capabilities |-> leases[k] - IF k \in plan[c].caps THEN 1 ELSE 0]

\* Mutant: the profile is left as it was granted.
Release_KeepsGrants(c) ==
    /\ at[c] = "release"
    /\ leases' = Unleased(c)
    /\ Goto(c, "judge")
    /\ UNCHANGED <<accountVars, managerVars, socketVars, plan, mine, outcome>>

\* The finally of _run_default_service().
Release(c) ==
    /\ at[c] = "release"
    /\ leases' = Unleased(c)
    /\ IF auto
       THEN UpdateProfile(Granted({k \in Capabilities : Unleased(c)[k] > 0}))
       ELSE UNCHANGED <<profile, reg>>
    /\ Goto(c, "judge")
    /\ UNCHANGED <<accountVars, manager, auto, sock, plan, mine, outcome>>

\* What the recovery of a failed request closes.
Drops(c) == IF outcome[c] = "os" THEN plan[c].drops ELSE {}

Again(c) ==
    /\ at[c] = "judge"
    /\ outcome[c] \in plan[c].retries /\ plan[c].left > 0
    /\ plan' = [plan EXCEPT ![c].left = @ - 1, ![c].guard = plan[c].reguard]
    /\ outcome' = [outcome EXCEPT ![c] = "none"]
    /\ Goto(c, "guard")
    /\ UNCHANGED <<accountVars, leases, managerVars>>

\* Mutant: the next attempt begins, and nothing was closed.
Retry_KeepsSocket(c) == Again(c) /\ UNCHANGED <<socketVars, mine>>

\* The except clauses: what failed is closed, and the next attempt begins.
Retry(c) ==
    /\ Again(c)
    /\ sock' = sock \ Drops(c) /\ reg' = reg \ Drops(c) /\ mine' = Lost(Drops(c))

\* The last attempt drops its connection too; the bundle's failure is answered
\* with the plain timeline; anything else is the caller's.
Finish(c) ==
    /\ at[c] = "judge"
    /\ outcome[c] \notin plan[c].retries \/ plan[c].left = 0
    /\ sock' = sock \ Drops(c) /\ reg' = reg \ Drops(c)
    /\ IF plan[c].fallback /\ outcome[c] \in plan[c].retries
       THEN /\ plan' = [plan EXCEPT ![c] = Timeline(KindSeen)]
            /\ outcome' = [outcome EXCEPT ![c] = "none"]
            /\ mine' = [mine EXCEPT ![c] = "none"]
            /\ Goto(c, "guard")
       ELSE Returns(c, Drops(c))
    /\ UNCHANGED <<accountVars, leases, managerVars>>

\* configure_service_context() without a profile: the observed one, for good if
\* there was no manager yet, and refresh_service_profile_from_evidence().
Configure ==
    /\ UpdateProfile(ProfileOf(evidence))
    /\ manager' = TRUE
    /\ UNCHANGED <<accountVars, leases, auto, sock, callVars>>

Step(c) ==
    \/ Begin(c) \/ GuardPasses(c) \/ GuardConnects(c) \/ GuardAuthenticates(c)
    \/ GuardFails(c) \/ Lease(c) \/ Ensure(c) \/ AcquireKnown(c) \/ AcquireNew(c)
    \/ AcquireFails(c) \/ AcquireRefused(c) \/ Answer(c) \/ Release(c)
    \/ Retry(c) \/ Finish(c)

Next == Configure \/ \E c \in Callers : Step(c)

Spec == Init /\ [][Next]_vars

-----------------------------------------------------------------------------
(* Properties                                                              *)

TypeOK ==
    /\ evidence \in Evidence /\ authed \in BOOLEAN
    /\ leases \in [Capabilities -> 0..Cardinality(Callers)]
    /\ manager \in BOOLEAN /\ auto \in BOOLEAN
    /\ profile \in Profiles
    /\ sock \subseteq Roles /\ reg \subseteq Roles
    /\ at \in [Callers -> Places]
    /\ plan \in [Callers -> Plans]
    /\ mine \in [Callers -> Ties]
    /\ outcome \in [Callers -> Outcomes]

Working(c) == at[c] \in {"acquire", "answer", "release"}

\* "A call that ends first must not revoke what another was granted": what a call
\* in progress was granted is taken from it only by an explicit refresh, or when
\* the evidence has come to say no to what it asks for.
LeaseHolds ==
    [][\A c \in Callers :
         /\ auto /\ Working(c) /\ Working(c)'
         /\ Admits(profile, plan[c].role, plan[c].caps)
         => \/ Admits(profile', plan[c].role, plan[c].caps)
            \/ ~Admits(Granted(plan[c].caps)', plan[c].role, plan[c].caps)
            \/ Configure]_vars

\* The grants of a probe end with it: while no call holds a lease, the manager's
\* profile says yes to nothing that was never seen.
GrantsEnd ==
    auto /\ Asked = {} =>
       \A k \in Capabilities :
          profile.support[k] = "yes" => ProfileOf(evidence).support[k] # "unknown"

\* No role is registered that the manager's profile does not allow.
RolesAllowed == \A r \in reg : Allows(profile, r)

\* A retry after a transport failure is not sent on the connection that failed,
\* where the recovery closes the connections of its role.
RetryIsFresh ==
    \A c \in Callers : plan[c].role \in plan[c].drops => mine[c] # "again"

\* "Every retry takes a new connection" (kline): also on the lane the account
\* kind chose.
RetryRenews ==
    \A c \in Callers : plan[c].drops # {} => mine[c] # "again"

-----------------------------------------------------------------------------
(* The parts of the inductive invariants of ServiceCalls_proofs.           *)

\* The calls that hold a lease of a capability, and how many they are.
Leaseholders(k) ==
    {c \in Callers : /\ at[c] \in {"ensure", "acquire", "answer", "release"}
                     /\ k \in plan[c].caps}
LeasesCount == \A k \in Capabilities : leases[k] = Cardinality(Leaseholders(k))

\* What the profile affirms while nothing is leased, the evidence affirms.
GrantsAreSeen ==
    auto /\ Asked = {} =>
       \A k \in Capabilities :
          profile.support[k] = "yes" => ProfileOf(evidence).support[k] = "yes"

\* A connection that failed a call is dropped before the call asks again, where its
\* recovery drops the connections of its role; a call that begins has none.
FailedIsDropped ==
    \A c \in Callers :
       /\ at[c] = "idle" => mine[c] = "none"
       /\ plan[c].role \in plan[c].drops =>
             /\ mine[c] # "again"
             /\ mine[c] = "failed" => at[c] \in {"release", "judge"} /\ outcome[c] = "os"
=============================================================================
