------------------------- MODULE ServiceCalls_proofs -------------------------
(***************************************************************************)
(* Theorems about the calls of the service facade: types, the roles that   *)
(* are registered, and the capability leases with the grants they bring.   *)
(***************************************************************************)
EXTENDS ServiceCalls, FiniteSetTheorems, TLAPS

-----------------------------------------------------------------------------
(* The evidence                                                            *)

\* An observation leaves evidence behind, and what affirmed a feature stays.
LEMMA RecordedFits ==
    ASSUME NEW e \in Evidence, NEW f \in Fields, NEW s \in Support
    PROVE  Recorded(e, f, s) \in Evidence
  BY DEF Recorded, Evidence

LEMMA KindFits ==
    ASSUME NEW e \in Evidence
    PROVE  KindOf(e) \in Kinds
  BY DEF KindOf, Kinds

LEMMA ProfileFits ==
    ASSUME NEW e \in Evidence
    PROVE  ProfileOf(e) \in Profiles
<1>1. KindOf(e) \in Kinds
  BY KindFits
<1>2. \A f \in L2Features : FeatureSupport(e, f) \in Support
  BY DEF FeatureSupport, MarketSupport, Evidence, Fields, Support, L2Features
<1>3. MarketSupport(e) \in Support
  BY DEF MarketSupport, Evidence, Fields, Support
<1>4. e["main"] \in Support /\ e["realorder"] \in Support
  BY DEF Evidence, Fields
<1>5. ASSUME NEW c \in Capabilities
      PROVE  (CASE c \in BasicFeatures -> e["main"]
                [] c \in L2Features -> FeatureSupport(e, c)
                [] c = "l2_market_access" -> MarketSupport(e)
                [] c = "realorder" -> e["realorder"]) \in Support
  BY <1>2, <1>3, <1>4 DEF Capabilities
<1> QED
  BY <1>1, <1>5 DEF ProfileOf, Profiles

\* What a capability's support is, in terms of the fields.
LEMMA Affirms ==
    ASSUME NEW e \in Evidence, NEW k \in Capabilities
    PROVE  ProfileOf(e).support[k] = "yes" <=>
              e[CASE k \in BasicFeatures -> "main"
                  [] k \in L2Features -> k
                  [] k = "l2_market_access" -> "init"
                  [] k = "realorder" -> "realorder"] = "yes"
<1>1. ProfileOf(e).support[k] =
         CASE k \in BasicFeatures -> e["main"]
           [] k \in L2Features -> FeatureSupport(e, k)
           [] k = "l2_market_access" -> MarketSupport(e)
           [] k = "realorder" -> e["realorder"]
  BY DEF ProfileOf
<1>2. CASE k \in BasicFeatures
  BY <1>1, <1>2 DEF BasicFeatures, L2Features
<1>3. CASE k \in L2Features
  BY <1>1, <1>3 DEF BasicFeatures, L2Features, FeatureSupport
<1>4. CASE k = "l2_market_access"
  BY <1>1, <1>4 DEF BasicFeatures, L2Features, MarketSupport
<1>5. CASE k = "realorder"
  BY <1>1, <1>5 DEF BasicFeatures, L2Features
<1> QED
  BY <1>2, <1>3, <1>4, <1>5 DEF Capabilities

\* Evidence that only gained a success affirms at least what it affirmed.
LEMMA AffirmsMore ==
    ASSUME NEW e \in Evidence, NEW f \in Fields, NEW s \in Support,
           s = "yes" \/ f = "entitlement",
           NEW k \in Capabilities, ProfileOf(e).support[k] = "yes"
    PROVE  ProfileOf(Recorded(e, f, s)).support[k] = "yes"
<1> DEFINE field == CASE k \in BasicFeatures -> "main"
                      [] k \in L2Features -> k
                      [] k = "l2_market_access" -> "init"
                      [] k = "realorder" -> "realorder"
<1>1. field \in Fields \ {"entitlement"}
  BY DEF Capabilities, BasicFeatures, L2Features, Fields
<1>2. e[field] = "yes"
  BY Affirms
<1> HIDE DEF field
<1>3. Recorded(e, f, s)[field] = "yes"
  BY <1>1, <1>2 DEF Recorded, Evidence
<1> QED
  BY <1>3, RecordedFits, Affirms DEF field

LEMMA PassportFits ==
    ASSUME NEW e \in Evidence, NEW says \in Support
    PROVE  RecordedPassport(e, says) \in Evidence
  BY RecordedFits DEF RecordedPassport, Fields

\* A passport takes nothing back that was affirmed.
LEMMA PassportAffirmsMore ==
    ASSUME NEW e \in Evidence, NEW says \in Support,
           NEW k \in Capabilities, ProfileOf(e).support[k] = "yes"
    PROVE  ProfileOf(RecordedPassport(e, says)).support[k] = "yes"
  BY AffirmsMore DEF RecordedPassport, Fields

\* A login that records its success and what the passport says.
LEMMA LearnsFits ==
    ASSUME evidence \in Evidence, NEW main \in BOOLEAN, Learns(evidence, main)
    PROVE  evidence' \in Evidence
<1>1. Recorded(evidence, "main", "yes") \in Evidence
  BY RecordedFits DEF Fields, Support
<1> QED
  BY <1>1, PassportFits, SaysAssumption DEF Learns

LEMMA LearnsAffirmsMore ==
    ASSUME evidence \in Evidence, NEW main \in BOOLEAN, Learns(evidence, main),
           NEW k \in Capabilities, ProfileOf(evidence).support[k] = "yes"
    PROVE  ProfileOf(evidence').support[k] = "yes"
<1> DEFINE e == IF main THEN Recorded(evidence, "main", "yes") ELSE evidence
<1>1. e \in Evidence
  BY RecordedFits DEF Fields, Support
<1>2. ProfileOf(e).support[k] = "yes"
  BY AffirmsMore DEF Fields, Support
<1> HIDE DEF e
<1>3. \A says \in Says : ProfileOf(RecordedPassport(e, says)).support[k] = "yes"
  BY <1>1, <1>2, PassportAffirmsMore, SaysAssumption
<1> QED
  BY <1>3 DEF Learns, e

-----------------------------------------------------------------------------
(* The plans                                                               *)

LEMMA RecordFits ==
    ASSUME NEW g \in Guards, NEW again \in Guards, NEW caps \in SUBSET Capabilities,
           NEW r \in Roles, NEW f \in Fields \cup {"none"}, NEW left \in 0..3,
           NEW retries \in SUBSET Outcomes, NEW drops \in SUBSET Roles,
           NEW fallback \in BOOLEAN
    PROVE  [guard |-> g, reguard |-> again, caps |-> caps, role |-> r, proves |-> f,
            left |-> left, retries |-> retries, drops |-> drops,
            fallback |-> fallback] \in Plans
  BY DEF Plans

LEMMA OnceFits ==
    ASSUME NEW g \in Guards, NEW caps \in SUBSET Capabilities, NEW r \in Roles,
           NEW f \in Fields \cup {"none"}
    PROVE  Once(g, caps, r, f) \in Plans
<1>1. /\ "none" \in Guards /\ 0 \in 0..3 /\ FALSE \in BOOLEAN
      /\ {} \in SUBSET Outcomes /\ {} \in SUBSET Roles
  BY DEF Guards
<1> QED
  BY <1>1, RecordFits DEF Once

\* Most calls try once.
LEMMA PlainPlansFit ==
    ASSUME NEW k \in Kinds
    PROVE  /\ FetchStockNames(k) \in Plans /\ MarketSnapshot(k) \in Plans
           /\ StockListHot(k) \in Plans /\ StockList(k) \in Plans
           /\ MarketView(k) \in Plans /\ Timeline(k) \in Plans /\ Auction(k) \in Plans
           /\ Superorder(k) \in Plans /\ BseTicks(k) \in Plans /\ BseDay(k) \in Plans
           /\ IntradayAuctions(k) \in Plans /\ RegisterL2Code(k) \in Plans
           /\ RankingDepth(k) \in Plans /\ DxjlPage(k) \in Plans
           /\ HotBoards(k) \in Plans /\ BoardConstituents(k) \in Plans
<1>1. /\ {"none", "ensure", "auth"} \subseteq Guards
      /\ {"main", "l2", "bse_main", "realorder", "board"} \subseteq Roles
      /\ {"none", "main", "init", "l2_timeline", "l2_auction", "l2_snapshot_push"}
            \subseteq Fields \cup {"none"}
      /\ {"basic_quote", "basic_timeline", "basic_auction", "l2_market_access",
          "l2_timeline", "l2_auction", "l2_history_timeline", "l2_snapshot_push",
          "realorder"} \subseteq Capabilities
  BY DEF Guards, Roles, Fields, Capabilities, L2Features, BasicFeatures
<1> USE <1>1, OnceFits
<1>2. FetchStockNames(k) \in Plans /\ MarketSnapshot(k) \in Plans /\ MarketView(k) \in Plans
  BY DEF FetchStockNames, MarketSnapshot, MarketView
<1>3. StockListHot(k) \in Plans
  BY DEF StockListHot
<1>4. StockList(k) \in Plans
  BY DEF StockList
<1>5. Timeline(k) \in Plans
  BY DEF Timeline, ByKind, RoleOf, FieldOf
<1>6. Auction(k) \in Plans
  BY DEF Auction, ByKind, RoleOf, FieldOf
<1>7. Superorder(k) \in Plans /\ BseTicks(k) \in Plans /\ BseDay(k) \in Plans
  BY DEF Superorder, BseTicks, BseDay
<1>8. IntradayAuctions(k) \in Plans /\ RegisterL2Code(k) \in Plans /\ RankingDepth(k) \in Plans
  BY DEF IntradayAuctions, RegisterL2Code, RankingDepth
<1>9. DxjlPage(k) \in Plans /\ HotBoards(k) \in Plans /\ BoardConstituents(k) \in Plans
  BY DEF DxjlPage, HotBoards, BoardConstituents
<1> QED
  BY <1>2, <1>3, <1>4, <1>5, <1>6, <1>7, <1>8, <1>9

\* Others try again.
LEMMA RetryingPlansFit ==
    ASSUME NEW k \in Kinds
    PROVE  /\ DdeRank(k) \in Plans /\ ListQuotes(k) \in Plans
           /\ DepthQuote(k) \in Plans /\ DepthTen(k) \in Plans
           /\ Kline(k) \in Plans /\ KlineFast(k) \in Plans
           /\ BseHistory(k) \in Plans /\ HistoryTimeline(k) \in Plans
           /\ Intraday(k) \in Plans
<1>1. \A n \in 0..3 : Tries(n) \in 0..3
  BY RetriesAssumption DEF Tries
<1>2. \A g \in Guards, caps \in SUBSET Capabilities, r \in Roles,
         f \in Fields \cup {"none"} : Once(g, caps, r, f) \in Plans
  BY OnceFits
<1>3. /\ {"none", "ensure", "connected", "renew", "authAgain"} \subseteq Guards
      /\ {"main", "l2", "kline_fast", "bse_main"} \subseteq Roles
      /\ {"none", "main", "l2_timeline", "l2_auction", "l2_snapshot_push",
          "l2_history_timeline"} \subseteq Fields \cup {"none"}
      /\ {"basic_quote", "l2_timeline", "l2_auction", "l2_history_timeline",
          "basic_history_timeline", "l2_snapshot_push"} \subseteq Capabilities
      /\ {"os", "empty", "protocol", "channel"} \subseteq Outcomes
  BY DEF Guards, Roles, Fields, Capabilities, L2Features, BasicFeatures, Outcomes
<1>4. DdeRank(k) \in Plans
  <2> DEFINE p == StockListHot(k)
  <2>1. p \in Plans
    BY PlainPlansFit
  <2> HIDE DEF p
  <2>2. /\ 1 \in 0..3
        /\ {"os", "protocol"} \in SUBSET Outcomes
    BY <1>1, <1>3
  <2>3. [p EXCEPT !.left = 1, !.retries = {"os", "protocol"}] \in Plans
    BY <2>1, <2>2 DEF Plans
  <2> QED
    BY <2>3 DEF p, DdeRank
<1>5. ListQuotes(k) \in Plans
  <2> DEFINE p == Once("ensure", {"basic_quote"}, "main", "main")
  <2>1. p \in Plans
    BY <1>2, <1>3
  <2> HIDE DEF p
  <2>2. /\ 1 \in 0..3
        /\ "renew" \in Guards
        /\ {"empty", "protocol", "os"} \in SUBSET Outcomes
    BY <1>1, <1>3
  <2>3. [p EXCEPT !.left = 1, !.reguard = "renew",
                 !.retries = {"empty", "protocol", "os"}] \in Plans
    BY <2>1, <2>2 DEF Plans
  <2> QED
    BY <2>3 DEF p, ListQuotes
<1>6. DepthQuote(k) \in Plans
  <2> DEFINE p == Once("connected", {"basic_quote"}, "main", "main")
  <2>1. p \in Plans
    BY <1>2, <1>3
  <2> HIDE DEF p
  <2>2. /\ "connected" \in Guards
        /\ Tries(2) \in 0..3
        /\ {"os"} \in SUBSET Outcomes
        /\ {"main"} \in SUBSET Roles
    BY <1>1, <1>3
  <2>3. [p EXCEPT !.reguard = "connected", !.left = Tries(2),
                 !.retries = {"os"}, !.drops = {"main"}] \in Plans
    BY <2>1, <2>2 DEF Plans
  <2> QED
    BY <2>3 DEF p, DepthQuote
<1>7. DepthTen(k) \in Plans
  BY <1>6, <1>3 DEF DepthTen, Plans
<1>8. Kline(k) \in Plans
  <2> DEFINE p == Once("connected",
       IF k = "level2" THEN {"l2_timeline"} ELSE {"basic_quote"},
       IF k = "level2" THEN "l2" ELSE "main",
       IF k = "level2" THEN "l2_timeline" ELSE "main")
  <2>1. p \in Plans
    BY <1>2, <1>3
  <2> HIDE DEF p
  <2>2. /\ "connected" \in Guards
        /\ Tries(3) \in 0..3
        /\ {"os"} \in SUBSET Outcomes
        /\ {"main"} \in SUBSET Roles
    BY <1>1, <1>3
  <2>3. [p EXCEPT !.reguard = "connected", !.left = Tries(3),
                 !.retries = {"os"}, !.drops = {"main"}] \in Plans
    BY <2>1, <2>2 DEF Plans
  <2> QED
    BY <2>3 DEF p, Kline
<1>9. KlineFast(k) \in Plans
  <2> DEFINE p == Once("none", {"basic_quote"}, "kline_fast", "main")
  <2>1. p \in Plans
    BY <1>2, <1>3
  <2> HIDE DEF p
  <2>2. /\ Tries(3) \in 0..3
        /\ {"os"} \in SUBSET Outcomes
        /\ {"kline_fast"} \in SUBSET Roles
    BY <1>1, <1>3
  <2>3. [p EXCEPT !.left = Tries(3), !.retries = {"os"}, !.drops = {"kline_fast"}] \in Plans
    BY <2>1, <2>2 DEF Plans
  <2> QED
    BY <2>3 DEF p, KlineFast
<1>10. BseHistory(k) \in Plans
  <2> DEFINE p == BseDay(k)
  <2>1. p \in Plans
    BY PlainPlansFit
  <2> HIDE DEF p
  <2>2. /\ Tries(2) \in 0..3
        /\ {"os"} \in SUBSET Outcomes
        /\ {"bse_main"} \in SUBSET Roles
    BY <1>1, <1>3
  <2>3. [p EXCEPT !.left = Tries(2), !.retries = {"os"}, !.drops = {"bse_main"}] \in Plans
    BY <2>1, <2>2 DEF Plans
  <2> QED
    BY <2>3 DEF p, BseHistory
<1>11. HistoryTimeline(k) \in Plans
  <2> DEFINE p == Once("authAgain",
       ByKind(k, "basic_history_timeline", "l2_history_timeline"),
       RoleOf(k), FieldOf(k, "l2_history_timeline"))
  <2>1. /\ ByKind(k, "basic_history_timeline", "l2_history_timeline") \in SUBSET Capabilities
        /\ RoleOf(k) \in Roles
        /\ FieldOf(k, "l2_history_timeline") \in Fields \cup {"none"}
    BY <1>3 DEF ByKind, RoleOf, FieldOf
  <2>2. p \in Plans
    BY <2>1, <1>2, <1>3
  <2> HIDE DEF p
  <2>3. /\ "authAgain" \in Guards /\ Tries(3) \in 0..3
        /\ {"empty", "os"} \in SUBSET Outcomes /\ {RoleOf(k)} \in SUBSET Roles
    BY <2>1, <1>1, <1>3
  <2>4. [p EXCEPT !.reguard = "authAgain", !.left = Tries(3), !.retries = {"empty", "os"},
                 !.drops = {RoleOf(k)}] \in Plans
    BY <2>2, <2>3 DEF Plans
  <2> QED
    BY <2>4 DEF p, HistoryTimeline
<1>12. Intraday(k) \in Plans
  <2> DEFINE p == Once("none", {"l2_auction", "l2_history_timeline"}, "l2", "l2_auction")
  <2>1. p \in Plans
    BY <1>2, <1>3
  <2> HIDE DEF p
  <2>2. /\ 1 \in 0..3
        /\ {"protocol", "channel"} \in SUBSET Outcomes
        /\ TRUE \in BOOLEAN
    BY <1>1, <1>3
  <2>3. [p EXCEPT !.left = 1, !.retries = {"protocol", "channel"},
                 !.fallback = TRUE] \in Plans
    BY <2>1, <2>2 DEF Plans
  <2> QED
    BY <2>3 DEF p, Intraday
<1> QED
  BY <1>4, <1>5, <1>6, <1>7, <1>8, <1>9, <1>10, <1>11, <1>12

LEMMA PlanFits ==
    ASSUME evidence \in Evidence, NEW name \in Names, NEW k \in Kinds
    PROVE  PlanFor(name, k) \in Plans
<1>1. KindOf(evidence) \in Kinds
  BY KindFits
<1>2. \A j \in Kinds : ClosingAuction(j) \in Plans /\ BseOpening(j) \in Plans
  BY PlainPlansFit DEF ClosingAuction, BseOpening
<1>3. \A j \in Kinds : /\ SnapshotReplay(j) \in Plans /\ OrderDetails(j) \in Plans
                       /\ OrderQueue(j) \in Plans /\ OrderQueues(j) \in Plans
                       /\ RankingDepthUpdate(j) \in Plans
  BY PlainPlansFit DEF SnapshotReplay, OrderDetails, OrderQueue, OrderQueues,
                       RankingDepthUpdate
<1>4. \A j \in Kinds : /\ DxjlLatest(j) \in Plans /\ DxjlHistory(j) \in Plans
                       /\ SubscribeRealtime(j) \in Plans /\ ReceivePushes(j) \in Plans
                       /\ BoardCalcext(j) \in Plans
  BY PlainPlansFit DEF DxjlLatest, DxjlHistory, SubscribeRealtime, ReceivePushes, BoardCalcext
<1>5. \A j \in Kinds : /\ HotBoardsSorted(j) \in Plans /\ BoardQuotes(j) \in Plans
                       /\ BoardTimeline(j) \in Plans /\ BoardKline(j) \in Plans
                       /\ BoardAuction(j) \in Plans /\ BoardStats(j) \in Plans
  BY PlainPlansFit DEF HotBoardsSorted, BoardQuotes, BoardTimeline, BoardKline,
                       BoardAuction, BoardStats
<1> QED
  BY <1>1, <1>2, <1>3, <1>4, <1>5, PlainPlansFit, RetryingPlansFit DEF PlanFor, Names

-----------------------------------------------------------------------------
(* Types.  How low the leases can get is a matter of who holds them: that  *)
(* they are integers is all that one step can say.                         *)

Fits ==
    /\ evidence \in Evidence /\ authed \in BOOLEAN
    /\ leases \in [Capabilities -> Int]
    /\ manager \in BOOLEAN /\ auto \in BOOLEAN
    /\ profile \in Profiles
    /\ sock \subseteq Roles /\ reg \subseteq Roles
    /\ at \in [Callers -> Places]
    /\ plan \in [Callers -> Plans]
    /\ mine \in [Callers -> Ties]
    /\ outcome \in [Callers -> Outcomes]

LEMMA GrantedFits ==
    ASSUME evidence \in Evidence, NEW caps \in SUBSET Capabilities
    PROVE  Granted(caps) \in Profiles
<1>1. ProfileOf(evidence) \in Profiles
  BY ProfileFits
<1> QED
  BY <1>1 DEF Granted, Profiles, Kinds, Support

LEMMA UpdateFits ==
    ASSUME Fits, NEW p \in Profiles, UpdateProfile(p)
    PROVE  profile' \in Profiles /\ reg' \subseteq Roles
  BY DEF UpdateProfile, Fits

LEMMA LostFits ==
    ASSUME Fits, NEW roles
    PROVE  Lost(roles) \in [Callers -> Ties]
  BY DEF Lost, Fits, Ties

LEMMA ReturnsFit ==
    ASSUME Fits, NEW c \in Callers, NEW gone, Returns(c, gone)
    PROVE  /\ at' \in [Callers -> Places] /\ plan' \in [Callers -> Plans]
           /\ mine' \in [Callers -> Ties] /\ outcome' \in [Callers -> Outcomes]
<1>1. BseDay("unknown") \in Plans
  BY PlainPlansFit DEF Kinds
<1>2. Lost(gone) \in [Callers -> Ties]
  BY LostFits
<1> QED
  BY <1>1, <1>2 DEF Returns, Goto, Fits, Places, Ties, Outcomes

LEMMA KindSeenFits ==
    ASSUME Fits
    PROVE  KindSeen \in Kinds
  BY KindFits DEF KindSeen, Fits, Profiles

\* A plan with one try less.
LEMMA SpentFits ==
    ASSUME Fits, NEW c \in Callers, plan[c].left > 0,
           plan' = [plan EXCEPT ![c].left = @ - 1, ![c].guard = plan[c].reguard]
    PROVE  plan' \in [Callers -> Plans]
<1>1. plan[c] \in Plans
  BY DEF Fits
<1>2. plan[c].left - 1 \in 0..3 /\ plan[c].reguard \in Guards
  BY <1>1 DEF Plans
<1>3. \A p \in Plans, n \in 0..3, g \in Guards : [p EXCEPT !.left = n, !.guard = g] \in Plans
  BY DEF Plans
<1>4. [plan[c] EXCEPT !.left = plan[c].left - 1, !.guard = plan[c].reguard] \in Plans
  BY <1>1, <1>2, <1>3, Zenon
<1>5. plan' = [plan EXCEPT ![c] =
                  [plan[c] EXCEPT !.left = plan[c].left - 1, !.guard = plan[c].reguard]]
  BY Zenon DEF Fits
<1> QED
  BY <1>4, <1>5, Zenon DEF Fits

LEMMA InitFits == Init => Fits /\ LeasesCount
<1> SUFFICES ASSUME Init PROVE Fits /\ LeasesCount
  OBVIOUS
<1>1. NoEvidence \in Evidence
  BY DEF NoEvidence, Evidence, Support
<1>2. ProfileOf(NoEvidence) \in Profiles
  BY <1>1, ProfileFits
<1>3. BseDay("unknown") \in Plans
  BY PlainPlansFit DEF Kinds
<1>4. Fits
  <2>1. leases \in [Capabilities -> Int]
    BY DEF Init
  <2>2. authed \in BOOLEAN /\ manager \in BOOLEAN /\ auto \in BOOLEAN
    BY DEF Init
  <2>3. at \in [Callers -> Places] /\ mine \in [Callers -> Ties]
        /\ outcome \in [Callers -> Outcomes]
    BY DEF Init, Places, Ties, Outcomes
  <2>4. plan \in [Callers -> Plans]
    BY <1>3 DEF Init
  <2>5. /\ evidence \in Evidence /\ profile \in Profiles
        /\ sock \subseteq Roles /\ reg \subseteq Roles
    BY <1>1, <1>2 DEF Init
  <2> QED
    BY <2>1, <2>2, <2>3, <2>4, <2>5 DEF Fits
<1>5. \A k \in Capabilities : Leaseholders(k) = {}
  BY DEF Init, Leaseholders
<1>6. LeasesCount
  BY <1>5, FS_EmptySet DEF LeasesCount, Init
<1> QED
  BY <1>4, <1>6

LEMMA StepFits ==
    ASSUME Fits, NEW c \in Callers, Step(c)
    PROVE  Fits'
<1> USE DEF Goto
<1>1. CASE Begin(c)
  <2>1. \A name \in Offered : PlanFor(name, KindSeen) \in Plans
    BY PlanFits, KindSeenFits, OfferedAssumption DEF Fits
  <2> QED
    BY <1>1, <2>1 DEF Begin, Fits, Places, accountVars, managerVars, socketVars
<1>2. CASE GuardPasses(c)
  BY <1>2 DEF GuardPasses, Fits, Places, accountVars, managerVars, socketVars
<1>3. CASE GuardConnects(c)
  <2>1. evidence' \in Evidence
    BY <1>3, LearnsFits DEF GuardConnects, Fits
  <2> QED
    BY <1>3, <2>1, LostFits DEF GuardConnects, Fits, Places, Roles, managerVars
<1>4. CASE GuardAuthenticates(c)
  <2>1. evidence' \in Evidence
    BY <1>4, LearnsFits DEF GuardAuthenticates, Fits
  <2> QED
    BY <1>4, <2>1 DEF GuardAuthenticates, Fits, Places, managerVars, socketVars
<1>5. CASE GuardFails(c)
  <2>1. CASE plan[c].guard \in {"connected", "authAgain"} /\ plan[c].left > 0
    BY <1>5, <2>1, SpentFits DEF GuardFails, Fits, accountVars, managerVars, socketVars
  <2>2. CASE ~(plan[c].guard \in {"connected", "authAgain"} /\ plan[c].left > 0)
    BY <1>5, <2>2, ReturnsFit DEF GuardFails, Fits, accountVars, managerVars, socketVars
  <2> QED
    BY <2>1, <2>2
<1>6. CASE Lease(c)
  BY <1>6 DEF Lease, Fits, Places, accountVars, managerVars, socketVars
<1>7. CASE Ensure(c)
  <2>1. Asked \in SUBSET Capabilities
    BY DEF Asked
  <2>2. Granted(Asked) \in Profiles
    BY <2>1, GrantedFits DEF Fits
  <2> QED
    BY <1>7, <2>2, UpdateFits DEF Ensure, Fits, Places, accountVars, managerVars
<1>8. CASE AcquireKnown(c)
  <2>1. plan[c].role \in Roles
    BY DEF Fits, Plans
  <2> QED
    BY <1>8, <2>1 DEF AcquireKnown, Fits, Places, Ties, accountVars, managerVars
<1>9. CASE AcquireNew(c)
  <2>1. plan[c].role \in Roles
    BY DEF Fits, Plans
  <2>2. evidence' \in Evidence
    BY <1>9, RecordedFits DEF AcquireNew, Fits, Fields, Support
  <2>3. mine' \in [Callers -> Ties]
    BY <1>9, LostFits DEF AcquireNew, Ties
  <2>4. at' \in [Callers -> Places]
    BY <1>9 DEF AcquireNew, Fits, Places
  <2> QED
    BY <1>9, <2>1, <2>2, <2>3, <2>4 DEF AcquireNew, Fits, managerVars
<1>10. CASE AcquireFails(c)
  BY <1>10, LostFits DEF AcquireFails, Ends, Fits, Places, Outcomes, accountVars, managerVars
<1>11. CASE AcquireRefused(c)
  BY <1>11 DEF AcquireRefused, Ends, Fits, Places, Outcomes, accountVars, managerVars,
               socketVars
<1>12. CASE Answer(c)
  <2>1. plan[c].proves \in Fields \cup {"none"}
    BY DEF Fits, Plans
  <2>2. evidence' \in Evidence
    BY <1>12, <2>1, RecordedFits DEF Answer, Fits, Support
  <2>3. mine' \in [Callers -> Ties]
    BY <1>12 DEF Answer, Fits, Ties
  <2>4. at' \in [Callers -> Places] /\ outcome' \in [Callers -> Outcomes]
    BY <1>12 DEF Answer, Ends, Fits, Places, Outcomes
  <2> QED
    BY <1>12, <2>2, <2>3, <2>4 DEF Answer, Fits, managerVars, socketVars
<1>13. CASE Release(c)
  <2> DEFINE still == {k \in Capabilities : Unleased(c)[k] > 0}
  <2>1. Granted(still) \in Profiles
    BY GrantedFits DEF Fits
  <2>2. profile' \in Profiles /\ reg' \subseteq Roles
    BY <1>13, <2>1, UpdateFits DEF Release, Fits
  <2>3. leases' \in [Capabilities -> Int]
    BY <1>13 DEF Release, Unleased, Fits
  <2> QED
    BY <1>13, <2>2, <2>3 DEF Release, Fits, Places, accountVars
<1>14. CASE Retry(c)
  <2>1. plan' \in [Callers -> Plans]
    BY <1>14, SpentFits DEF Retry, Again
  <2> QED
    BY <1>14, <2>1, LostFits DEF Retry, Again, Fits, Places, Outcomes, accountVars, managerVars
<1>15. CASE Finish(c)
  <2>1. CASE plan[c].fallback /\ outcome[c] \in plan[c].retries
    <3>1. Timeline(KindSeen) \in Plans
      BY KindSeenFits, PlainPlansFit
    <3> QED
      BY <1>15, <2>1, <3>1 DEF Finish, Fits, Places, Outcomes, Ties, accountVars, managerVars
  <2>2. CASE ~(plan[c].fallback /\ outcome[c] \in plan[c].retries)
    BY <1>15, <2>2, ReturnsFit DEF Finish, Fits, accountVars, managerVars
  <2> QED
    BY <2>1, <2>2
<1> QED
  BY <1>1, <1>2, <1>3, <1>4, <1>5, <1>6, <1>7, <1>8, <1>9, <1>10, <1>11, <1>12, <1>13,
     <1>14, <1>15 DEF Step

LEMMA NextFits == Fits /\ [Next]_vars => Fits'
<1> SUFFICES ASSUME Fits, [Next]_vars PROVE Fits'
  OBVIOUS
<1>1. CASE Configure
  <2>1. ProfileOf(evidence) \in Profiles
    BY ProfileFits DEF Fits
  <2> QED
    BY <1>1, <2>1, UpdateFits DEF Configure, Fits, accountVars, callVars
<1>2. CASE UNCHANGED vars
  BY <1>2 DEF Fits, vars, accountVars, managerVars, socketVars, callVars
<1> QED
  BY <1>1, <1>2, StepFits DEF Next

-----------------------------------------------------------------------------
(* The leases: there are as many of a capability as there are calls        *)
(* between their lease and their release that ask for it.                  *)

Leasing == {"ensure", "acquire", "answer", "release"}

\* A step of a call that neither takes nor gives back a lease.
LEMMA CountKept ==
    ASSUME LeasesCount, leases' = leases, NEW c \in Callers,
           at[c] \in Leasing <=> at'[c] \in Leasing,
           at'[c] \in Leasing => plan'[c].caps = plan[c].caps,
           \A d \in Callers \ {c} : at'[d] = at[d] /\ plan'[d] = plan[d]
    PROVE  LeasesCount'
<1>1. \A k \in Capabilities : Leaseholders(k)' = Leaseholders(k)
  BY DEF Leaseholders, Leasing
<1> QED
  BY <1>1 DEF LeasesCount

LEMMA CountStep ==
    ASSUME Fits, LeasesCount, NEW c \in Callers, Step(c)
    PROVE  LeasesCount'
<1> USE DEF Leasing, Goto
<1>1. CASE Begin(c)
  BY <1>1, CountKept DEF Begin, Fits
<1>2. CASE GuardPasses(c) \/ GuardConnects(c) \/ GuardAuthenticates(c)
  BY <1>2, CountKept DEF GuardPasses, GuardConnects, GuardAuthenticates, Fits
<1>3. CASE GuardFails(c)
  BY <1>3, CountKept DEF GuardFails, Returns, Fits
<1>4. CASE Lease(c)
  <2> SUFFICES ASSUME NEW k \in Capabilities
               PROVE  leases'[k] = Cardinality(Leaseholders(k)')
    BY DEF LeasesCount
  <2>1. leases'[k] = leases[k] + IF k \in plan[c].caps THEN 1 ELSE 0
    BY <1>4 DEF Lease
  <2>2. Leaseholders(k)' = IF k \in plan[c].caps THEN Leaseholders(k) \cup {c}
                           ELSE Leaseholders(k)
    BY <1>4 DEF Lease, Leaseholders, Fits
  <2>3. c \notin Leaseholders(k)
    BY <1>4 DEF Lease, Leaseholders
  <2>4. IsFiniteSet(Leaseholders(k))
    BY CallersAssumption, FS_Subset DEF Leaseholders
  <2>5. Cardinality(Leaseholders(k) \cup {c}) = Cardinality(Leaseholders(k)) + 1
    BY <2>3, <2>4, FS_AddElement
  <2>6. leases[k] = Cardinality(Leaseholders(k)) /\ leases[k] \in Int
    BY DEF LeasesCount, Fits
  <2> QED
    BY <2>1, <2>2, <2>5, <2>6
<1>5. CASE Ensure(c) \/ AcquireKnown(c) \/ AcquireNew(c) \/ AcquireFails(c)
           \/ AcquireRefused(c) \/ Answer(c)
  BY <1>5, CountKept DEF Ensure, AcquireKnown, Admitted, Opens, AcquireNew, AcquireFails,
                         AcquireRefused, Answer, Ends, Fits
<1>6. CASE Release(c)
  <2> SUFFICES ASSUME NEW k \in Capabilities
               PROVE  leases'[k] = Cardinality(Leaseholders(k)')
    BY DEF LeasesCount
  <2>1. leases'[k] = leases[k] - IF k \in plan[c].caps THEN 1 ELSE 0
    BY <1>6 DEF Release, Unleased
  <2>2. Leaseholders(k)' = Leaseholders(k) \ {c}
    BY <1>6 DEF Release, Leaseholders, Fits
  <2>3. c \in Leaseholders(k) <=> k \in plan[c].caps
    BY <1>6 DEF Release, Leaseholders
  <2>4. IsFiniteSet(Leaseholders(k))
    BY CallersAssumption, FS_Subset DEF Leaseholders
  <2>5. Cardinality(Leaseholders(k) \ {c}) =
           IF c \in Leaseholders(k) THEN Cardinality(Leaseholders(k)) - 1
           ELSE Cardinality(Leaseholders(k))
    BY <2>4, FS_RemoveElement
  <2>6. leases[k] = Cardinality(Leaseholders(k)) /\ leases[k] \in Int
    BY DEF LeasesCount, Fits
  <2> QED
    BY <2>1, <2>2, <2>3, <2>5, <2>6
<1>7. CASE Retry(c)
  BY <1>7, CountKept DEF Retry, Again, Fits
<1>8. CASE Finish(c)
  BY <1>8, CountKept DEF Finish, Returns, Fits
<1> QED
  BY <1>1, <1>2, <1>3, <1>4, <1>5, <1>6, <1>7, <1>8 DEF Step

LEMMA CountNext == Fits /\ LeasesCount /\ [Next]_vars => LeasesCount'
<1> SUFFICES ASSUME Fits, LeasesCount, [Next]_vars PROVE LeasesCount'
  OBVIOUS
<1>1. CASE Configure
  BY <1>1 DEF Configure, LeasesCount, Leaseholders, callVars
<1>2. CASE UNCHANGED vars
  BY <1>2 DEF LeasesCount, Leaseholders, vars, callVars
<1> QED
  BY <1>1, <1>2, CountStep DEF Next

LEMMA SomeAreCounted ==
    ASSUME NEW S \in SUBSET Callers, NEW c \in S
    PROVE  Cardinality(S) > 0
<1>1. IsFiniteSet(S)
  BY CallersAssumption, FS_Subset
<1> QED
  BY <1>1, FS_CardinalityType, FS_EmptySet

\* What a call that holds a lease asks for is asked for.
LEMMA LeaseIsAsked ==
    ASSUME LeasesCount, NEW c \in Callers, at[c] \in Leasing,
           NEW k \in Capabilities, k \in plan[c].caps
    PROVE  k \in Asked
<1>1. c \in Leaseholders(k) /\ Leaseholders(k) \in SUBSET Callers
  BY DEF Leaseholders, Leasing
<1> QED
  BY <1>1, SomeAreCounted DEF LeasesCount, Asked

\* The counters of the leases are what they count: a release never takes one below
\* zero, and none is left behind when every call is over.
THEOREM LeasesAreCounted == Spec => [](Fits /\ LeasesCount)
  BY InitFits, NextFits, CountNext, PTL DEF Spec

\* The type invariant.
THEOREM TypeCorrect == Spec => []TypeOK
<1>1. ASSUME Fits, LeasesCount
      PROVE  TypeOK
  <2>1. ASSUME NEW k \in Capabilities
        PROVE  leases[k] \in 0..Cardinality(Callers)
    <3>1. Leaseholders(k) \subseteq Callers
      BY DEF Leaseholders
    <3>2. /\ Cardinality(Leaseholders(k)) \in Nat /\ Cardinality(Callers) \in Nat
          /\ Cardinality(Leaseholders(k)) <= Cardinality(Callers)
      BY <3>1, CallersAssumption, FS_Subset, FS_CardinalityType
    <3> QED
      BY <1>1, <3>2 DEF LeasesCount
  <2> QED
    BY <1>1, <2>1 DEF Fits, TypeOK
<1> QED
  BY <1>1, LeasesAreCounted, PTL

-----------------------------------------------------------------------------
(* The roles                                                               *)

\* No role is registered that the manager's profile does not allow, whatever the
\* profile was replaced with and whichever call acquired it.
THEOREM RolesAllowedHolds == Spec => []RolesAllowed
<1>1. Init => RolesAllowed
  BY DEF Init, RolesAllowed
<1>2. RolesAllowed /\ [Next]_vars => RolesAllowed'
  <2> SUFFICES ASSUME RolesAllowed, [Next]_vars PROVE RolesAllowed'
    OBVIOUS
  <2>1. ASSUME NEW p, UpdateProfile(p)
        PROVE  RolesAllowed'
    BY <2>1 DEF UpdateProfile, RolesAllowed
  <2>2. ASSUME reg' \subseteq reg, profile' = profile
        PROVE  RolesAllowed'
    BY <2>2 DEF RolesAllowed
  <2>3. CASE Configure
    BY <2>1, <2>3 DEF Configure
  <2>4. ASSUME NEW c \in Callers, Step(c)
        PROVE  RolesAllowed'
    <3>1. CASE Ensure(c)
      BY <2>1, <2>2, <3>1 DEF Ensure, managerVars
    <3>2. CASE Release(c)
      BY <2>1, <2>2, <3>2 DEF Release
    <3>3. CASE AcquireKnown(c)
      BY <3>3 DEF AcquireKnown, Admitted, Admits, RolesAllowed, managerVars
    <3>4. CASE AcquireNew(c)
      BY <3>4 DEF AcquireNew, Opens, Admitted, Admits, RolesAllowed, managerVars
    <3>5. CASE \/ Begin(c) \/ GuardPasses(c) \/ GuardConnects(c) \/ GuardAuthenticates(c)
               \/ GuardFails(c) \/ Lease(c)
      BY <2>2, <3>5 DEF Begin, GuardPasses, GuardConnects, GuardAuthenticates, GuardFails, Lease,
                        managerVars, socketVars
    <3>6. CASE AcquireFails(c) \/ AcquireRefused(c) \/ Answer(c) \/ Retry(c) \/ Finish(c)
      BY <2>2, <3>6 DEF AcquireFails, AcquireRefused, Answer, Retry, Again, Finish, managerVars,
                        socketVars
    <3> QED
      BY <2>4, <3>1, <3>2, <3>3, <3>4, <3>5, <3>6 DEF Step
  <2>5. CASE UNCHANGED vars
    BY <2>2, <2>5 DEF vars, managerVars, socketVars
  <2> QED
    BY <2>3, <2>4, <2>5 DEF Next
<1> QED
  BY <1>1, <1>2, PTL DEF Spec

-----------------------------------------------------------------------------
(* The grants                                                              *)

\* A profile nothing was asked of affirms what the evidence does.
LEMMA NothingGranted ==
    ASSUME NEW k \in Capabilities
    PROVE  Granted({}).support[k] = ProfileOf(evidence).support[k]
  BY DEF Granted

LEMMA SeenStep ==
    ASSUME Fits, GrantsAreSeen, NEW c \in Callers, Step(c)
    PROVE  GrantsAreSeen'
<1> SUFFICES ASSUME auto', Asked' = {},
                    NEW k \in Capabilities, profile'.support[k] = "yes"
             PROVE  ProfileOf(evidence').support[k] = "yes"
  BY DEF GrantsAreSeen
<1> USE DEF Fits
<1>1. ASSUME auto' = auto, profile' = profile, leases' = leases
      PROVE  ProfileOf(evidence).support[k] = "yes"
  BY <1>1 DEF GrantsAreSeen, Asked
<1>2. CASE \/ Begin(c) \/ GuardPasses(c) \/ GuardFails(c) \/ AcquireKnown(c)
           \/ AcquireFails(c) \/ AcquireRefused(c) \/ Retry(c) \/ Finish(c)
  BY <1>1, <1>2 DEF Begin, GuardPasses, GuardFails, AcquireKnown, AcquireFails, AcquireRefused,
                    Retry, Again, Finish, accountVars, managerVars
<1>3. CASE GuardConnects(c)
  BY <1>1, <1>3, LearnsAffirmsMore DEF GuardConnects, managerVars
<1>4. CASE GuardAuthenticates(c)
  BY <1>1, <1>4, LearnsAffirmsMore DEF GuardAuthenticates, managerVars
<1>5. CASE Lease(c)
  <2>1. \A j \in Capabilities : leases[j] <= leases'[j]
    BY <1>5 DEF Lease
  <2>2. Asked = {}
    BY <1>5, <2>1 DEF Asked, Lease
  <2> QED
    BY <1>5, <2>2 DEF Lease, GrantsAreSeen, accountVars, managerVars
<1>6. CASE Ensure(c)
  <2>1. Asked = {}
    BY <1>6 DEF Ensure, Asked
  <2> QED
    BY <1>6, <2>1, NothingGranted DEF Ensure, UpdateProfile, managerVars, accountVars
<1>7. CASE AcquireNew(c)
  <2>1. ProfileOf(evidence).support[k] = "yes"
    BY <1>1, <1>7 DEF AcquireNew, managerVars
  <2>2. \A f \in {"init", "main"} : ProfileOf(Recorded(evidence, f, "yes")).support[k] = "yes"
    BY <2>1, AffirmsMore DEF Fields, Support
  <2> QED
    BY <1>7, <2>1, <2>2 DEF AcquireNew
<1>8. CASE Answer(c)
  <2>1. ProfileOf(evidence).support[k] = "yes"
    BY <1>1, <1>8 DEF Answer, managerVars
  <2>2. plan[c].proves \in Fields \cup {"none"}
    BY DEF Plans
  <2>3. plan[c].proves # "none" =>
           ProfileOf(Recorded(evidence, plan[c].proves, "yes")).support[k] = "yes"
    BY <2>1, <2>2, AffirmsMore DEF Support
  <2> QED
    BY <1>8, <2>1, <2>3 DEF Answer
<1>9. CASE Release(c)
  <2>1. {j \in Capabilities : Unleased(c)[j] > 0} = {}
    BY <1>9 DEF Release, Asked
  <2> QED
    BY <1>9, <2>1, NothingGranted DEF Release, UpdateProfile, accountVars
<1> QED
  BY <1>2, <1>3, <1>4, <1>5, <1>6, <1>7, <1>8, <1>9 DEF Step

\* While no call holds a lease, the profile affirms what was seen and no more:
\* what a probe was granted ends with it.
THEOREM GrantsEndHolds == Spec => []GrantsEnd
<1>1. Init => GrantsAreSeen
  BY DEF Init, GrantsAreSeen
<1>2. Fits /\ GrantsAreSeen /\ [Next]_vars => GrantsAreSeen'
  <2> SUFFICES ASSUME Fits, GrantsAreSeen, [Next]_vars PROVE GrantsAreSeen'
    OBVIOUS
  <2>1. CASE Configure
    BY <2>1 DEF Configure, UpdateProfile, GrantsAreSeen, accountVars
  <2>2. CASE UNCHANGED vars
    BY <2>2 DEF GrantsAreSeen, Asked, vars, accountVars, managerVars
  <2> QED
    BY <2>1, <2>2, SeenStep DEF Next
<1>3. GrantsAreSeen => GrantsEnd
  BY DEF GrantsAreSeen, GrantsEnd
<1> QED
  BY <1>1, <1>2, <1>3, LeasesAreCounted, PTL DEF Spec

\* Who asks for more is granted no less.
LEMMA GrantsGrow ==
    ASSUME NEW few \in SUBSET Capabilities, NEW many \in SUBSET Capabilities,
           few \subseteq many, NEW r \in Roles, NEW caps \in SUBSET Capabilities,
           Admits(Granted(few), r, caps)
    PROVE  Admits(Granted(many), r, caps)
<1>1. Granted(few).kind = "level2" => Granted(many).kind = "level2"
  BY DEF Granted
<1>2. \A k \in Capabilities : Granted(few).support[k] = "yes" => Granted(many).support[k] = "yes"
  BY DEF Granted
<1>3. {"l2_market_access", "realorder", "basic_quote"} \subseteq Capabilities
  BY DEF Capabilities, BasicFeatures
<1> QED
  BY <1>1, <1>2, <1>3 DEF Admits, Allows

\* A call that ends or begins takes nothing from a call in progress: what that one
\* was admitted with stays granted, unless the evidence no longer allows it or the
\* profile is configured anew.
THEOREM LeaseHoldsHolds == Spec => LeaseHolds
<1> DEFINE Holds(c) ==
       auto /\ Working(c) /\ Working(c)' /\ Admits(profile, plan[c].role, plan[c].caps)
       => \/ Admits(profile', plan[c].role, plan[c].caps)
          \/ ~Admits(Granted(plan[c].caps)', plan[c].role, plan[c].caps)
          \/ Configure
<1>1. ASSUME Fits, LeasesCount, [Next]_vars, NEW c \in Callers
      PROVE  Holds(c)
  <2>1. LeasesCount'
    BY <1>1, CountNext
  <2>2. /\ plan[c].role \in Roles /\ plan[c].caps \in SUBSET Capabilities
    BY <1>1 DEF Fits, Plans
  <2>3. ASSUME profile' = profile PROVE Holds(c)
    BY <2>3
  <2>4. ASSUME NEW asked \in SUBSET Capabilities, plan[c].caps \subseteq asked,
               profile' = Granted(asked), evidence' = evidence, plan' = plan
        PROVE  Holds(c)
    <3>1. Granted(plan[c].caps)' = Granted(plan[c].caps)
      BY <2>4 DEF Granted
    <3> QED
      BY <2>2, <2>4, <3>1, GrantsGrow
  <2>5. ASSUME NEW d \in Callers, Ensure(d), Working(c)
        PROVE  Holds(c)
    <3>1. plan[c].caps \subseteq Asked
      BY <1>1, <2>2, <2>5, LeaseIsAsked DEF Working, Leasing
    <3>2. Asked \in SUBSET Capabilities
      BY DEF Asked
    <3> QED
      BY <2>3, <2>4, <2>5, <3>1, <3>2 DEF Ensure, UpdateProfile, managerVars, accountVars
  <2>6. ASSUME NEW d \in Callers, Release(d), Working(c), Working(c)'
        PROVE  Holds(c)
    <3>1. plan'[c].caps \subseteq Asked'
      <4>1. at'[c] \in Leasing /\ plan'[c] = plan[c]
        BY <2>6 DEF Working, Leasing, Release
      <4> SUFFICES ASSUME NEW k \in Capabilities, k \in plan'[c].caps
                   PROVE  k \in Asked'
        BY <2>2, <4>1
      <4>2. c \in Leaseholders(k)' /\ Leaseholders(k)' \in SUBSET Callers
        BY <4>1 DEF Leaseholders, Leasing
      <4>3. Cardinality(Leaseholders(k)') > 0
        BY <4>2, SomeAreCounted
      <4> QED
        BY <2>1, <4>3 DEF LeasesCount, Asked
    <3>2. Asked' = {k \in Capabilities : Unleased(d)[k] > 0}
      BY <2>6 DEF Release, Asked
    <3>3. Asked' \in SUBSET Capabilities /\ plan' = plan
      BY <2>6 DEF Asked, Release
    <3> QED
      BY <2>3, <2>4, <2>6, <3>1, <3>2, <3>3 DEF Release, UpdateProfile, accountVars
  <2>7. ASSUME NEW d \in Callers, Step(d), ~Ensure(d), ~Release(d)
        PROVE  profile' = profile
    BY <2>7 DEF Step, Begin, GuardPasses, GuardConnects, GuardAuthenticates, GuardFails, Lease,
                AcquireKnown, AcquireNew, AcquireFails, AcquireRefused, Answer, Retry, Again,
                Finish, managerVars
  <2>8. CASE UNCHANGED vars
    BY <2>3, <2>8 DEF vars, managerVars
  <2> QED
    BY <1>1, <2>3, <2>5, <2>6, <2>7, <2>8 DEF Next
<1>2. Fits /\ LeasesCount /\ [Next]_vars =>
        [\A c \in Callers :
           /\ auto /\ Working(c) /\ Working(c)'
           /\ Admits(profile, plan[c].role, plan[c].caps)
           => \/ Admits(profile', plan[c].role, plan[c].caps)
              \/ ~Admits(Granted(plan[c].caps)', plan[c].role, plan[c].caps)
              \/ Configure]_vars
  BY <1>1
<1> QED
  BY <1>2, LeasesAreCounted, PTL DEF Spec, LeaseHolds

-----------------------------------------------------------------------------
(* Retries                                                                 *)

\* A connection that others lose is no longer a call's own; nothing else of it changes.
LEMMA LostIsNone ==
    ASSUME Fits, NEW roles \in SUBSET Roles
    PROVE  /\ Lost(roles) \in [Callers -> Ties]
           /\ \A c \in Callers : Lost(roles)[c] = mine[c] \/ Lost(roles)[c] = "none"
           /\ \A c \in Callers : plan[c].role \in roles => Lost(roles)[c] = "none"
  BY DEF Lost, Fits, Ties

\* What another call does leaves a call where it is, and may take its connection.
LEMMA OthersRetry ==
    ASSUME Fits, NEW c \in Callers, Step(c), NEW d \in Callers \ {c}
    PROVE  /\ at'[d] = at[d] /\ plan'[d] = plan[d] /\ outcome'[d] = outcome[d]
           /\ mine'[d] = mine[d] \/ mine'[d] = "none"
<1>1. /\ at \in [Callers -> Places] /\ plan \in [Callers -> Plans]
      /\ outcome \in [Callers -> Outcomes] /\ mine \in [Callers -> Ties]
  BY DEF Fits
<1>2. /\ {} \in SUBSET Roles /\ {"main"} \in SUBSET Roles /\ {plan[c].role} \in SUBSET Roles
      /\ Drops(c) \in SUBSET Roles
  BY <1>1 DEF Roles, Plans, Drops
<1>3. \A roles \in {{}, {"main"}, {plan[c].role}, Drops(c)} :
         Lost(roles) \in [Callers -> Ties] /\ (Lost(roles)[d] = mine[d] \/ Lost(roles)[d] = "none")
  BY <1>2, LostIsNone
<1>4. CASE Begin(c)
  BY <1>1, <1>4 DEF Begin, Goto
<1>5. CASE GuardPasses(c) \/ GuardAuthenticates(c) \/ Lease(c) \/ Ensure(c) \/ Release(c)
  BY <1>1, <1>5 DEF GuardPasses, GuardAuthenticates, Lease, Ensure, Release, Goto
<1>6. CASE GuardConnects(c)
  BY <1>1, <1>3, <1>6 DEF GuardConnects, Goto
<1>7. CASE GuardFails(c)
  BY <1>1, <1>3, <1>7 DEF GuardFails, Returns, Goto
<1>8. CASE AcquireKnown(c) \/ AcquireRefused(c)
  BY <1>1, <1>8 DEF AcquireKnown, AcquireRefused, Ends, Goto
<1>9. CASE AcquireNew(c) \/ AcquireFails(c)
  BY <1>1, <1>3, <1>9 DEF AcquireNew, AcquireFails, Ends, Goto
<1>10. CASE Answer(c)
  BY <1>1, <1>10 DEF Answer, Ends, Goto
<1>11. CASE Retry(c)
  BY <1>1, <1>3, <1>11 DEF Retry, Again, Goto
<1>12. CASE Finish(c)
  BY <1>1, <1>3, <1>12 DEF Finish, Returns, Goto
<1> QED
  BY <1>4, <1>5, <1>6, <1>7, <1>8, <1>9, <1>10, <1>11, <1>12 DEF Step

\* A call that asks again where its recovery drops its role has no connection of its own.
LEMMA OwnRetry ==
    ASSUME Fits, FailedIsDropped, NEW c \in Callers, Step(c)
    PROVE  /\ at'[c] = "idle" => mine'[c] = "none"
           /\ plan'[c].role \in plan'[c].drops =>
                 /\ mine'[c] # "again"
                 /\ mine'[c] = "failed" => at'[c] \in {"release", "judge"} /\ outcome'[c] = "os"
<1>1. /\ at \in [Callers -> Places] /\ plan \in [Callers -> Plans]
      /\ outcome \in [Callers -> Outcomes] /\ mine \in [Callers -> Ties]
  BY DEF Fits
<1>2. {} \in SUBSET Roles /\ {"main"} \in SUBSET Roles /\ Drops(c) \in SUBSET Roles
  BY <1>1 DEF Roles, Plans, Drops
<1>3. \A roles \in {{}, {"main"}, Drops(c)} :
         /\ Lost(roles) \in [Callers -> Ties]
         /\ Lost(roles)[c] = mine[c] \/ Lost(roles)[c] = "none"
         /\ plan[c].role \in roles => Lost(roles)[c] = "none"
  BY <1>2, LostIsNone
<1>4. /\ at[c] = "idle" => mine[c] = "none"
      /\ plan[c].role \in plan[c].drops =>
            /\ mine[c] # "again"
            /\ mine[c] = "failed" => at[c] \in {"release", "judge"} /\ outcome[c] = "os"
  BY DEF FailedIsDropped
<1>5. CASE Begin(c)
  BY <1>1, <1>4, <1>5 DEF Begin, Goto
<1>6. CASE GuardPasses(c) \/ GuardAuthenticates(c) \/ Lease(c) \/ Ensure(c) \/ Release(c)
  BY <1>1, <1>4, <1>6 DEF GuardPasses, GuardAuthenticates, Lease, Ensure, Release, Goto
<1>7. CASE GuardConnects(c)
  BY <1>1, <1>3, <1>4, <1>7 DEF GuardConnects, Goto
<1>8. CASE GuardFails(c)
  <2>1. CASE mine'[c] = "none"
    BY <2>1
  <2>2. CASE /\ plan' = [plan EXCEPT ![c].left = @ - 1, ![c].guard = plan[c].reguard]
             /\ UNCHANGED <<at, mine, outcome>>
    <3>1. plan'[c].role = plan[c].role /\ plan'[c].drops = plan[c].drops
      BY <1>1, <2>2 DEF Plans
    <3> QED
      BY <1>4, <1>8, <2>2, <3>1 DEF GuardFails
  <2> QED
    BY <1>1, <1>3, <1>8, <2>1, <2>2 DEF GuardFails, Returns
<1>9. CASE AcquireKnown(c)
  BY <1>1, <1>4, <1>9 DEF AcquireKnown, Admitted, Goto
<1>10. CASE AcquireRefused(c)
  BY <1>1, <1>4, <1>10 DEF AcquireRefused, Ends, Goto
<1>11. CASE AcquireNew(c) \/ AcquireFails(c)
  <2>1. {plan[c].role} \in SUBSET Roles
    BY <1>1 DEF Plans
  <2>2. Lost({plan[c].role}) \in [Callers -> Ties] /\ Lost({plan[c].role})[c] = "none"
    BY <2>1, LostIsNone
  <2> QED
    BY <1>1, <1>11, <2>2 DEF AcquireNew, AcquireFails, Ends, Goto
<1>12. CASE Answer(c)
  BY <1>1, <1>4, <1>12 DEF Answer, Ends, Goto
<1>13. CASE Retry(c)
  <2>1. plan'[c].role = plan[c].role /\ plan'[c].drops = plan[c].drops
    BY <1>1, <1>13 DEF Retry, Again, Plans
  <2>2. mine'[c] = Lost(Drops(c))[c] /\ at'[c] = "guard"
    BY <1>1, <1>3, <1>13 DEF Retry, Again, Goto
  <2>3. plan[c].role \in plan[c].drops /\ mine[c] = "failed" => plan[c].role \in Drops(c)
    BY <1>4 DEF Drops
  <2> QED
    BY <1>3, <1>4, <2>1, <2>2, <2>3
<1>14. CASE Finish(c)
  <2>1. mine'[c] = "none"
    BY <1>1, <1>3, <1>14 DEF Finish, Returns
  <2> QED
    BY <2>1
<1> QED
  BY <1>5, <1>6, <1>7, <1>8, <1>9, <1>10, <1>11, <1>12, <1>13, <1>14 DEF Step

\* After a transport failure a call is not sent again on the connection that failed,
\* where its recovery drops the connections of its role.
THEOREM RetryIsFreshHolds == Spec => []RetryIsFresh
<1>1. Init => FailedIsDropped
  BY DEF Init, FailedIsDropped
<1>2. Fits /\ FailedIsDropped /\ [Next]_vars => FailedIsDropped'
  <2> SUFFICES ASSUME Fits, FailedIsDropped, [Next]_vars PROVE FailedIsDropped'
    OBVIOUS
  <2>1. CASE Configure \/ UNCHANGED vars
    BY <2>1 DEF Configure, vars, callVars, FailedIsDropped
  <2>2. ASSUME NEW c \in Callers, Step(c) PROVE FailedIsDropped'
    <3>1. ASSUME NEW d \in Callers \ {c}
          PROVE  /\ at'[d] = "idle" => mine'[d] = "none"
                 /\ plan'[d].role \in plan'[d].drops =>
                       /\ mine'[d] # "again"
                       /\ mine'[d] = "failed" =>
                             at'[d] \in {"release", "judge"} /\ outcome'[d] = "os"
      BY <2>2, <3>1, OthersRetry DEF FailedIsDropped
    <3> QED
      BY <2>2, <3>1, OwnRetry DEF FailedIsDropped
  <2> QED
    BY <2>1, <2>2 DEF Next
<1>3. FailedIsDropped => RetryIsFresh
  BY DEF FailedIsDropped, RetryIsFresh
<1> QED
  BY <1>1, <1>2, <1>3, LeasesAreCounted, PTL DEF Spec

=============================================================================
