------------------------------- MODULE LaneReads -------------------------------
(***************************************************************************)
(* The request loops of the services (services/*.py) over one connection:  *)
(* send under the request lock, read frames, tell the answer from the      *)
(* rest, and decide what no answer means.  Frames carry no request id, so  *)
(* an answer that comes after its caller gave up is read by the next one.  *)
(*                                                                         *)
(* A service is a plan: how it knows its answer and what it does with      *)
(* every other frame.  How a call gets its connection, and the evidence a  *)
(* valid answer gives, are in ServiceCalls; the lock and the quotes sent   *)
(* through the dispatcher, in MarketSession.  How rows of several frames   *)
(* are merged and sorted is left out.                                      *)
(***************************************************************************)
EXTENDS Integers, Sequences, FiniteSets

CONSTANTS
    Callers,      \* threads
    Codes,        \* stocks
    Clients,      \* the clients looked at: a thread's calls, by thread, and a
                  \* bound on the requests sent
    FrameLimit,   \* bound for the code's 8, 16, 32, 64 or 1024 frames
    MaxPushes,    \* bound on the unsolicited frames
    MaxWire,      \* bound on the frames in flight
    MaxPages,     \* bound on the pages of a call (the code's: max_pages)
    SeqMod,       \* the request sequence's modulus (the code's: 2^16)
    FirstSeq,     \* what it starts behind (the code's: 0x6000)
    Total,        \* length of the ranking, in rows
    PageSize,     \* rows of a page (the code's: 58, 59)
    Need          \* rows, or parts of an answer, a caller wants

ASSUME SequenceAssumption == SeqMod \in Nat /\ FirstSeq \in 1 .. SeqMod - 1
ASSUME LimitAssumption ==
    /\ FrameLimit \in Nat \ {0} /\ PageSize \in Nat \ {0} /\ Need \in Nat \ {0}
    /\ MaxPushes \in Nat /\ MaxWire \in Nat /\ MaxPages \in Nat /\ Total \in Nat

VARIABLES
    client,       \* the one that runs
    wire,         \* frames on their way to the client, in order
    owed,         \* requests the server may still answer
    lock,         \* who holds the request lock
    asks,         \* requests sent
    pushed,       \* unsolicited frames sent
    delivered,    \* those passed on to the subscriptions
    sequence,     \* _dde_sequence
    acked,        \* the codes the server took into its list bucket
    local,        \* the coordinator's copy of the bucket
    calls,        \* calls[c]: a call
    garbled       \* history: the callers that read an answer they could not use

readsVars == <<client, wire, owed, lock, asks, pushed, delivered, sequence, acked, local, calls, garbled>>

NoOne == "no one"

ASSUME CallersAssumption == NoOne \notin Callers

bucket == <<client, acked, local>>

-----------------------------------------------------------------------------
(* The plans                                                               *)

\* Reads a bounded number of frames, drops what is not its own, any answer of its
\* kind is its own, a timeout is the caller's; data it cannot read is an error.
Reads(family) ==
    [family |-> family, by |-> "family", registers |-> FALSE, rounds |-> 1,
     timed |-> FALSE, delivers |-> FALSE, late |-> "fails", broken |-> "fails",
     mends |-> "no", none |-> "saw", odd |-> "saw", alien |-> "saw", unread |-> "fails",
     bare |-> "empty", breaks |-> "os", sizeEnds |-> FALSE, more |-> "one", parts |-> 1,
     manage |-> "no", skips |-> FALSE, chain |-> FALSE, trusts |-> {}]

\* Reads until its deadline, and looks at the code; "trusts" are the contents of which
\* it takes an answer for its own whosever it is.
Awaits(family) ==
    [Reads(family) EXCEPT !.by = "code", !.timed = TRUE, !.none = "other",
                          !.odd = "other", !.alien = "other"]

BseSuperorderDay == Awaits("bse_day")
\* An empty table is nobody's: bse_tick_window_identity() sees no code in it.
BseTickWindow == [Awaits("bse_tick") EXCEPT !.none = "empty", !.trusts = {"none"}]
Superorder ==
    [Awaits("superorder") EXCEPT !.registers = TRUE, !.delivers = TRUE,
                                 !.broken = "resync", !.mends = "peek", !.none = "empty"]
SnapshotReplay == [Superorder EXCEPT !.family = "snapshot_replay", !.mends = "no"]
OrderDetailOne ==
    [Superorder EXCEPT !.family = "order_detail", !.timed = FALSE, !.late = "ends",
                       !.sizeEnds = TRUE]
\* Orders, buy cancels, sell cancels: one exchange each.
OrderDetails == [OrderDetailOne EXCEPT !.rounds = 3]
\* The side is looked at, the code is not.
OrderQueue ==
    [OrderDetailOne EXCEPT !.family = "order_queue", !.by = "family", !.mends = "no"]
OrderQueues == [OrderQueue EXCEPT !.rounds = 2]

ListQuotes == [Reads("quote") EXCEPT !.mends = "blind"]
\* Rows without a code will do.
DepthTen ==
    [Awaits("depth") EXCEPT !.registers = TRUE, !.delivers = TRUE, !.mends = "blind",
                            !.trusts = {"unlabelled"}]
MarketSnapshot ==
    [Reads("market_snapshot") EXCEPT !.late = "empty", !.breaks = "empty", !.broken = "skip",
                                     !.none = "fails", !.odd = "fails", !.alien = "other"]

\* Three parts of a day in one request; those that come are taken.
IntradayBundle(parts) ==
    [Reads("bundle") EXCEPT !.registers = TRUE, !.late = "ends", !.more = "phases",
                            !.parts = parts]
Auction == [Reads("auction") EXCEPT !.registers = TRUE]
ClosingAuction == [Auction EXCEPT !.family = "closing_auction"]
\* Before the opening there is nothing to ask for.
Intraday == [IntradayBundle(Need + 1) EXCEPT !.skips = TRUE]
IntradayAuctions == [IntradayBundle(Need) EXCEPT !.skips = TRUE]
PastAuction == IntradayBundle(1)

\* A frame that may be a timeline and has no rows is an error, whosever it is.
Timeline ==
    [Awaits("timeline") EXCEPT !.registers = TRUE, !.delivers = TRUE,
                               !.none = "fails", !.odd = "fails", !.alien = "fails",
                               !.trusts = {"none", "odd"}]
\* A table without a label is given the requested code.
HistoryTimeline == [Reads("history") EXCEPT !.by = "code", !.trusts = {"unlabelled"}]
BseHistoryTimeline ==
    [HistoryTimeline EXCEPT !.family = "bse_history", !.timed = TRUE, !.unread = "empty"]

Kline ==
    [Reads("kline") EXCEPT !.broken = "resync", !.mends = "blind", !.more = "fragments",
                     !.parts = Need]

StatsCalc ==
    [Reads("statscalc") EXCEPT !.late = "empty", !.breaks = "empty", !.none = "empty", !.odd = "empty",
                               !.alien = "empty"]
CalcExt == [StatsCalc EXCEPT !.family = "calcext", !.alien = "other"]

\* Rankings: any page is taken for its own; those of the capital flow are told by
\* the sequence number.
RankedMain ==
    [Reads("ranking") EXCEPT !.late = "ends", !.breaks = "ends", !.none = "take", !.odd = "fails",
                             !.alien = "other", !.more = "pages"]
RankedL2 == [RankedMain EXCEPT !.more = "twice"]
DdeRanked ==
    [RankedMain EXCEPT !.by = "seq", !.odd = "saw", !.bare = "fails", !.breaks = "os"]
DdeLevel2 == [DdeRanked EXCEPT !.more = "one"]
FullList ==
    [Reads("full_list") EXCEPT !.more = "phases", !.parts = Need, !.late = "goes on", !.breaks = "ends", !.broken = "skip",
                               !.none = "other", !.odd = "fails", !.alien = "other"]

ListExchange(op) ==
    [Reads("list") EXCEPT !.late = "ends", !.breaks = "fails", !.bare = "fails", !.delivers = TRUE,
                          !.none = "take", !.odd = "other", !.alien = "other",
                          !.manage = op]
ListReplace == [ListExchange("replace") EXCEPT !.none = "fails"]
ListDelta == [ListExchange("add") EXCEPT !.family = "list_delta"]
ListClear == [ListExchange("clear") EXCEPT !.family = "list_clear"]
ListQuery == [ListExchange("no") EXCEPT !.family = "list_query", !.by = "seq"]

\* The boards' requests take what has a wanted code in it, or a wanted date only.
Board(family) ==
    [Reads(family) EXCEPT !.by = "code", !.late = "empty", !.breaks = "fails",
                          !.none = "other", !.odd = "other", !.alien = "other"]
BoardAll(family) == [Board(family) EXCEPT !.late = "ends", !.more = "phases", !.parts = Need]
BoardQuotes == Board("board_quotes")
BoardQuotesAll == BoardAll("board_quotes")
HotBoards == Board("board_hot")
HotBoardsAll == BoardAll("board_hot")
HotBoardsSorted == [Board("board_sort") EXCEPT !.by = "family"]
BoardTimeline == [Board("board_timeline") EXCEPT !.by = "family"]
BoardKline == [Board("board_kline") EXCEPT !.by = "family"]
BoardAuction == [Board("board_auction") EXCEPT !.by = "family"]
\* Shanghai's and Shenzhen's; or a sorted page, and its rows.
ConstituentsL2 == [Board("constituents") EXCEPT !.rounds = 2]
Constituents == [ConstituentsL2 EXCEPT !.chain = TRUE]

Plans ==
    [bse_superorder_day |-> BseSuperorderDay,
     bse_tick_window |-> BseTickWindow,
     superorder |-> Superorder,
     snapshot_replay |-> SnapshotReplay,
     order_details |-> OrderDetails,
     order_queue |-> OrderQueue,
     order_queues |-> OrderQueues,
     list_quotes |-> ListQuotes,
     depth_ten |-> DepthTen,
     market_snapshot |-> MarketSnapshot,
     intraday |-> Intraday,
     intraday_auctions |-> IntradayAuctions,
     past_auction |-> PastAuction,
     auction |-> Auction,
     closing_auction |-> ClosingAuction,
     timeline |-> Timeline,
     history_timeline |-> HistoryTimeline,
     bse_history_timeline |-> BseHistoryTimeline,
     kline |-> Kline,
     statscalc |-> StatsCalc,
     calcext |-> CalcExt,
     stock_list |-> RankedMain,
     stock_list_l2 |-> RankedL2,
     dde_rank |-> DdeRanked,
     dde_rank_l2 |-> DdeLevel2,
     full_list |-> FullList,
     list_replace |-> ListReplace,
     list_delta |-> ListDelta,
     list_clear |-> ListClear,
     list_query |-> ListQuery,
     board_quotes |-> BoardQuotes,
     board_quotes_all |-> BoardQuotesAll,
     hot_boards |-> HotBoards,
     hot_boards_all |-> HotBoardsAll,
     hot_boards_sorted |-> HotBoardsSorted,
     board_timeline |-> BoardTimeline,
     board_kline |-> BoardKline,
     board_auction |-> BoardAuction,
     constituents_l2 |-> ConstituentsL2,
     constituents |-> Constituents]

Services == DOMAIN Plans
PlanOf(name) == Plans[name]

\* No client is looked at for so long that a sequence number comes again: the code
\* has 65535 of them for a connection.
ASSUME ClientsAssumption ==
    \A k \in Clients : k.makes \in [Callers -> SUBSET Services] /\ k.asks \in 0 .. SeqMod - 1

P(c) == PlanOf(calls[c].name)

-----------------------------------------------------------------------------
(* Frames                                                                  *)

\* What a request asks the server; "replies" is how many frames it may send.
Request(c, seq) ==
    [ask |-> asks + 1, family |-> P(c).family, code |-> calls[c].code,
     seq |-> IF P(c).by = "seq" THEN seq ELSE 0,
     from |-> calls[c].from, whole |-> calls[c].full, twice |-> P(c).more = "twice",
     manage |-> P(c).manage,
     replies |-> P(c).parts]

Registration(code) ==
    [ask |-> 0, family |-> "size", code |-> code, seq |-> 0, from |-> 0,
     whole |-> FALSE, twice |-> FALSE, manage |-> "no", replies |-> 1]

\* Mutant: the code of an answer is not looked at.
Own_AnyCode(c, f) ==
    f.of.family = P(c).family /\ (P(c).by = "seq" => f.of.seq = calls[c].seq)

\* The parsers' checks: the code in the rows, where they insist on one, or the
\* sequence number.
Own(c, f) ==
    /\ f.of.family = P(c).family
    /\ P(c).by = "code" =>
          \/ f.of.code = calls[c].code /\ f.rows # "unlabelled"
          \/ f.rows \in P(c).trusts
    /\ P(c).by = "seq" => f.of.seq = calls[c].seq

\* What a frame may be to a caller.  "cut" is a body whose last byte was left
\* outside the frame.
Meanings(c, f) ==
    LET p == P(c) IN
    CASE f.kind = "bad" -> {p.broken}
      [] f.kind = "size" -> {IF p.sizeEnds THEN "empty" ELSE "other"}
      [] f.kind = "push" -> {p.alien, "other"}
      [] f.kind = "data" /\ f.of.family # p.family -> {p.alien, "other"}
      [] f.kind = "data" /\ f.of.family = p.family /\ ~Own(c, f) ->
            {IF p.by = "code" /\ p.alien = "saw" THEN "saw" ELSE "other"}
      [] OTHER -> {CASE f.rows = "none" -> p.none
                     [] f.rows = "odd" -> p.odd
                     [] f.rows = "cut" /\ p.mends = "peek" -> "fails"
                     [] OTHER -> "take"}

Tails(w) == w # <<>> /\ Head(w).kind = "tail"

\* read_frame() passes over a stray byte.
Behind(w, n) ==
    LET rest == SubSeq(w, n + 1, Len(w)) IN IF Tails(rest) THEN Tail(rest) ELSE rest

Rest(w) == Behind(w, 1)

\* _repair_market_frame_tail() takes the byte behind a short body if it is the
\* body's own; _repair_short_record() takes whatever is there, the first byte of
\* the next frame too, which is lost with it.
Mended(c, w) ==
    LET f == Head(w)
        takes == f.rows = "cut" /\ P(c).mends # "no" /\ Len(w) > 1
    IN IF takes /\ Tails(Tail(w))
       THEN [frame |-> [f EXCEPT !.rows = "some"], rest |-> Rest(w)]
       ELSE IF takes /\ P(c).mends = "blind"
       THEN [frame |-> [f EXCEPT !.rows = "some", !.torn = TRUE], rest |-> Behind(w, 2)]
       ELSE [frame |-> f, rest |-> Rest(w)]

-----------------------------------------------------------------------------
(* A call                                                                  *)

Idle ==
    [at |-> "idle", name |-> "none", code |-> "none", round |-> 1, ask |-> 0, seq |-> 0, from |-> 0, left |-> 0, saw |-> FALSE,
     got |-> <<>>, full |-> FALSE, drift |-> FALSE, sent |-> 0, res |-> "none"]

ReadsInit ==
    /\ wire = <<>> /\ owed = {} /\ lock = NoOne
    /\ asks = 0 /\ pushed = 0 /\ delivered = {}
    /\ client \in Clients /\ sequence = FirstSeq
    /\ acked = {} /\ local = {}
    /\ calls = [c \in Callers |-> Idle] /\ garbled = {}

Put(c, new) == calls' = [calls EXCEPT ![c] = new]
First(p) == IF p.registers THEN "register" ELSE "ask"

BeginCall(c) ==
    /\ calls[c].at = "idle"
    /\ \E name \in client.makes[c], code \in Codes :
          Put(c, [Idle EXCEPT !.at = First(PlanOf(name)), !.name = name, !.code = code])
    /\ UNCHANGED <<wire, owed, lock, asks, pushed, delivered, sequence, bucket, garbled>>

\* An answer without a request.
Skips(c) ==
    /\ calls[c].at = "register" /\ P(c).skips
    /\ Put(c, [calls[c] EXCEPT !.at = "done", !.res = "empty"])
    /\ UNCHANGED <<wire, owed, lock, asks, pushed, delivered, sequence, bucket, garbled>>

\* The end of an exchange: the next one of the same call, the update of the local
\* copy, or the answer.
Ends(c, res, got) ==
    LET goes == IF P(c).chain THEN {"rows"} ELSE {"rows", "empty"}
        next == P(c).rounds > calls[c].round /\ res \in goes IN
    Put(c, IF next
           THEN [calls[c] EXCEPT !.at = First(P(c)), !.round = @ + 1, !.got = <<>>,
                                 !.saw = FALSE]
           ELSE [calls[c] EXCEPT
                   !.at = IF res = "rows" /\ P(c).manage # "no" THEN "apply" ELSE "done",
                   !.got = got, !.res = res, !.left = 0])

\* What a loop that ends without its answer says.
Verdict(c) ==
    IF calls[c].got # <<>> THEN "rows" ELSE IF calls[c].saw THEN P(c).unread ELSE P(c).bare

Delivers(c, fs) ==
    delivered' = delivered \cup
       {f.of.ask : f \in {g \in fs : g.kind = "push" /\ P(c).delivers}}

\* ensure_registered(): known already, or acknowledged after some frames; it passes
\* on what it reads.
Register(c) ==
    /\ calls[c].at = "register" /\ lock = NoOne
    /\ \E n \in 0 .. Len(wire) :
          /\ wire' = Behind(wire, n)
          /\ delivered' = delivered \cup
                {wire[i].of.ask : i \in {j \in 1 .. n : wire[j].kind = "push"}}
    /\ Put(c, [calls[c] EXCEPT !.at = "ask"])
    /\ UNCHANGED <<owed, lock, asks, pushed, sequence, bucket, garbled>>

\* No acknowledgement in time: it may still come.
RegisterFails(c) ==
    /\ calls[c].at = "register" /\ lock = NoOne /\ wire = <<>>
    /\ owed' = owed \cup {Registration(calls[c].code)}
    /\ Ends(c, "fails", <<>>)
    /\ UNCHANGED <<wire, lock, asks, pushed, delivered, sequence, bucket, garbled>>

\* Mutant: the sequence stays where it is.
NextSequence_Same(n) == n

\* _next_dde_sequence()
NextSequence(n) == IF (n + 1) % SeqMod = 0 THEN 1 ELSE (n + 1) % SeqMod

\* What a list operation makes of the codes.
Managed(op, set, code) ==
    CASE op = "replace" -> {code}
      [] op = "add" -> set \cup {code}
      [] op = "clear" -> {}

\* The request lock is taken and the request sent.
Ask(c) ==
    /\ calls[c].at = "ask" /\ lock = NoOne /\ asks < client.asks
    /\ sequence' = IF P(c).by = "seq" THEN NextSequence(sequence) ELSE sequence
    /\ owed' = owed \cup {Request(c, sequence')}
    /\ lock' = c /\ asks' = asks + 1
    /\ Put(c, [calls[c] EXCEPT !.at = "read", !.ask = asks + 1, !.seq = sequence',
                               !.left = FrameLimit, !.sent = @ + 1])
    /\ UNCHANGED <<wire, pushed, delivered, bucket, garbled>>

\* The connection is broken; the next call gets another.
Breaks(c) ==
    /\ calls[c].at \in {"ask", "read"} /\ lock \in {c, NoOne}
    /\ Ends(c, IF P(c).breaks = "ends" THEN Verdict(c) ELSE P(c).breaks, calls[c].got)
    /\ wire' = <<>> /\ owed' = {} /\ lock' = NoOne
    /\ acked' = {} /\ local' = {}
    /\ UNCHANGED <<client, asks, pushed, delivered, sequence, garbled>>

Closes(c, res, got) == lock' = NoOne /\ Ends(c, res, got)

\* The loop goes on, with one frame less when it counts them.
GoesOn(c, new) ==
    /\ Put(c, IF P(c).timed THEN new ELSE [new EXCEPT !.left = @ - 1])
    /\ UNCHANGED lock

Item(f, row) == [ask |-> f.of.ask, code |-> f.of.code, row |-> row, torn |-> f.torn]

\* The rows of a page, in the ranking's order.
PageRows(f) ==
    IF f.rows = "none" THEN <<>>
    ELSE [i \in 1 .. (IF f.of.whole \/ f.of.from + PageSize > Total
                      THEN Total - f.of.from ELSE PageSize) |-> Item(f, f.of.from + i)]

Upto(S, i) == {k \in S : k <= i}

\* Rows that were not seen yet, in their order.
Fresh(c, f) ==
    LET rows == PageRows(f)
        fresh == {k \in DOMAIN rows : \A i \in DOMAIN calls[c].got :
                                          calls[c].got[i].row # rows[k].row}
        Nth(n) == CHOOSE k \in fresh : Cardinality(Upto(fresh, k)) = n
    IN [n \in 1 .. Cardinality(fresh) |-> rows[Nth(n)]]

\* Where the next page begins: behind what is there, or behind this page.
NextFrom(c, f) ==
    IF P(c).by = "seq" THEN calls[c].from + Len(PageRows(f))
    ELSE Len(calls[c].got) + Len(Fresh(c, f))

AsksAgain(c, new) ==
    /\ lock' = NoOne
    /\ Put(c, [new EXCEPT !.at = "ask"])

\* The pages of a ranking, until there is enough, or no more.
TakesPage(c, f) ==
    LET got == calls[c].got \o Fresh(c, f)
        enough == Len(got) >= Need \/ PageRows(f) = <<>>
                     \/ (IF P(c).by = "seq" THEN NextFrom(c, f) ELSE Len(got)) >= Total
    IN IF enough \/ calls[c].sent = MaxPages
       THEN Closes(c, IF got = <<>> THEN "empty" ELSE "rows", got)
       ELSE AsksAgain(c, [calls[c] EXCEPT !.got = got, !.from = NextFrom(c, f)])

\* The Level-2 ranking: twenty rows, once more if they came without their values,
\* then everything at once.
TakesTwice(c, f) ==
    LET got == calls[c].got \o Fresh(c, f) IN
    IF ~calls[c].drift /\ PageRows(f) # <<>> /\ f.rows = "valueless"
    THEN AsksAgain(c, [calls[c] EXCEPT !.drift = TRUE])
    ELSE IF Len(got) >= Need \/ PageRows(f) = <<>> \/ Len(got) >= Total \/ calls[c].full
    THEN Closes(c, IF got = <<>> THEN "empty" ELSE "rows", got)
    ELSE AsksAgain(c, [calls[c] EXCEPT !.got = got, !.full = TRUE])

\* Fragments and phases add up; anything else is the whole answer.
Takes(c, f) ==
    LET got == Append(calls[c].got, Item(f, 0)) IN
    CASE P(c).more = "pages" -> TakesPage(c, f)
      [] P(c).more = "twice" -> TakesTwice(c, f)
      [] P(c).more = "one" -> Closes(c, "rows", got)
      [] OTHER -> IF Len(got) >= P(c).parts THEN Closes(c, "rows", got)
                  ELSE GoesOn(c, [calls[c] EXCEPT !.got = got])

Reading(c) == calls[c].at = "read" /\ lock = c /\ calls[c].left > 0

\* Mutant: that there was a frame with data is forgotten.
Judges_Unsaw(c, m, f) ==
    CASE m = "take" -> Takes(c, f)
      [] m \in {"fails", "empty"} -> Closes(c, m, <<>>)
      [] OTHER -> GoesOn(c, calls[c])

\* What a frame means to the loop.  A K-line is complete when other frames follow.
Judges(c, m, f) ==
    CASE m = "take" -> Takes(c, f)
      [] m \in {"fails", "empty"} -> Closes(c, m, <<>>)
      [] m = "saw" -> GoesOn(c, [calls[c] EXCEPT !.saw = TRUE])
      [] m = "other" /\ P(c).more = "fragments" /\ calls[c].got # <<>> ->
            Closes(c, "rows", calls[c].got)
      [] OTHER -> GoesOn(c, calls[c])

ReadFrame(c) ==
    LET mended == Mended(c, wire) IN
    /\ Reading(c) /\ wire # <<>> /\ Head(wire).kind # "bad"
    /\ \E m \in Meanings(c, mended.frame) :
          /\ Judges(c, m, mended.frame)
          /\ IF m = "other" THEN Delivers(c, {mended.frame}) ELSE UNCHANGED delivered
    /\ wire' = mended.rest
    /\ garbled' = IF Own(c, mended.frame) /\ mended.frame.rows = "odd"
                  THEN garbled \cup {c} ELSE garbled
    /\ UNCHANGED <<owed, asks, pushed, sequence, bucket>>

\* A length that is none: the buffer is emptied with all that is in it, the frame is
\* passed over, or the call fails.
ReadBroken(c) ==
    /\ Reading(c) /\ wire # <<>> /\ Head(wire).kind = "bad"
    /\ \E n \in 1 .. Len(wire) :
          /\ n > 1 => P(c).broken = "resync"
          /\ wire' = Behind(wire, n)
    /\ CASE P(c).broken = "fails" -> Closes(c, "fails", <<>>)
         [] P(c).broken = "resync" /\ calls[c].got # <<>> -> Closes(c, "rows", calls[c].got)
         [] OTHER -> GoesOn(c, calls[c])
    /\ UNCHANGED <<owed, asks, pushed, delivered, sequence, bucket, garbled>>

\* Nothing comes, or only part of a frame, which is lost.
TimesOut(c) ==
    /\ Reading(c)
    /\ wire' = IF wire = <<>> THEN wire ELSE Rest(wire)
    /\ CASE P(c).late = "goes on" -> GoesOn(c, calls[c])
         [] P(c).late = "empty" -> Closes(c, "empty", <<>>)
         [] P(c).late = "fails" /\ calls[c].got = <<>>
              /\ ~(calls[c].saw /\ P(c).unread = "empty") -> Closes(c, "late", <<>>)
         [] OTHER -> Closes(c, Verdict(c), calls[c].got)
    /\ UNCHANGED <<owed, asks, pushed, delivered, sequence, bucket, garbled>>

\* As many frames as it may read, or as long as it may, and no answer among them.
Exhausted(c) ==
    /\ calls[c].at = "read" /\ lock = c
    /\ calls[c].left = 0 \/ P(c).late = "goes on"
    /\ Closes(c, Verdict(c), calls[c].got)
    /\ UNCHANGED <<wire, owed, asks, pushed, delivered, sequence, bucket, garbled>>

\* The coordinator's copy is updated when the lock is free again.
Apply(c) ==
    /\ calls[c].at = "apply"
    /\ local' = Managed(P(c).manage, local, calls[c].code)
    /\ Put(c, [calls[c] EXCEPT !.at = "done"])
    /\ UNCHANGED <<client, wire, owed, lock, asks, pushed, delivered, sequence, acked, garbled>>

Return(c) ==
    /\ calls[c].at = "done"
    /\ Put(c, Idle) /\ garbled' = garbled \ {c}
    /\ UNCHANGED <<wire, owed, lock, asks, pushed, delivered, sequence, bucket>>

-----------------------------------------------------------------------------
(* The server                                                              *)

Room == Len(wire) < MaxWire

\* Whose rows may come without a code, of those that look at it.
Coded == {PlanOf(name).family : name \in {n \in Services : PlanOf(n).by = "code"}}

\* What an answer may hold.
Contents(q) ==
    CASE q.family = "size" -> {"some"}
      [] q.manage # "no" -> {"some", "none"}
      [] q.twice -> {"some", "none", "odd", "valueless"}
      [] OTHER -> {"some", "none", "odd", "cut"} \cup
                     (IF q.family \in Coded THEN {"unlabelled"} ELSE {})

\* It answers, late or in part, with rows, without, or with what cannot be read; a
\* code list is taken or refused, one after the other.
ServerAnswers ==
    /\ Room
    /\ \E q \in owed :
          /\ q.manage # "no" => \A r \in owed : r.ask >= q.ask
          /\ \E rows \in Contents(q) :
                /\ wire' = Append(wire, [kind |-> IF q.family = "size" THEN "size" ELSE "data",
                                         of |-> q, rows |-> rows, torn |-> FALSE])
                /\ acked' = IF q.manage \in {"replace", "add"} /\ rows = "some"
                             THEN acked \cup {q.code} ELSE acked
          /\ owed' = (owed \ {q}) \cup
                (IF q.replies > 1 THEN {[q EXCEPT !.replies = @ - 1]} ELSE {})
    /\ UNCHANGED <<client, lock, asks, pushed, delivered, sequence, local, calls, garbled>>

\* The byte that was left outside the frame follows it.
TailArrives ==
    /\ wire # <<>> /\ wire[Len(wire)].rows = "cut" /\ wire[Len(wire)].kind = "data"
    /\ wire' = Append(wire, [wire[Len(wire)] EXCEPT !.kind = "tail"])
    /\ UNCHANGED <<owed, lock, asks, pushed, delivered, sequence, bucket, calls, garbled>>

Unasked(kind) ==
    [kind |-> kind, of |-> [Registration("none") EXCEPT !.ask = pushed + 1],
     rows |-> "none", torn |-> FALSE]

ServerPushes ==
    /\ Room /\ pushed < MaxPushes
    /\ \E kind \in {"push", "bad"} : wire' = Append(wire, Unasked(kind))
    /\ pushed' = pushed + 1
    /\ UNCHANGED <<owed, lock, asks, delivered, sequence, bucket, calls, garbled>>

Server == ServerAnswers \/ TailArrives \/ ServerPushes

Call(c) ==
    \/ BeginCall(c) \/ Skips(c) \/ Register(c) \/ RegisterFails(c) \/ Ask(c) \/ Breaks(c)
    \/ ReadFrame(c) \/ ReadBroken(c) \/ TimesOut(c) \/ Exhausted(c)
    \/ Apply(c) \/ Return(c)

ReadsNext == Server \/ \E c \in Callers : Call(c)

ReadsSpec == ReadsInit /\ [][ReadsNext]_readsVars

-----------------------------------------------------------------------------
(* Properties                                                              *)

Families == {PlanOf(name).family : name \in Services} \cup {"size"}

Requests ==
    [ask : Nat, family : Families, code : Codes \cup {"none"}, seq : 0 .. SeqMod - 1,
     from : Nat, whole : BOOLEAN, twice : BOOLEAN,
     manage : {"no", "replace", "add", "clear"}, replies : Nat \ {0}]

\* A code list is one of codes.
Asked == {q \in Requests : q.manage # "no" => q.code \in Codes}

Frames ==
    [kind : {"data", "size", "tail", "push", "bad"}, of : Requests,
     rows : {"some", "none", "odd", "cut", "valueless", "unlabelled"}, torn : BOOLEAN]

Items == [ask : Nat, code : Codes \cup {"none"}, row : Nat, torn : BOOLEAN]

CallRecords ==
    [at : {"idle", "register", "ask", "read", "apply", "done"},
     name : Services \cup {"none"}, code : Codes \cup {"none"}, round : 1 .. 3,
     ask : Nat, seq : 0 .. SeqMod - 1, from : Nat, left : 0 .. FrameLimit, saw : BOOLEAN,
     got : Seq(Items), full : BOOLEAN, drift : BOOLEAN, sent : Nat,
     res : {"none", "rows", "empty", "fails", "late", "os"}]

ReadsTypeOK ==
    /\ client \in Clients
    /\ wire \in Seq(Frames) /\ owed \subseteq Asked
    /\ lock \in Callers \cup {NoOne}
    /\ asks \in 0 .. client.asks /\ pushed \in 0 .. MaxPushes
    /\ delivered \subseteq 1 .. MaxPushes
    /\ sequence \in 1 .. SeqMod - 1
    /\ acked \subseteq Codes /\ local \subseteq Codes
    /\ calls \in [Callers -> CallRecords]
    /\ garbled \subseteq Callers

Holds(c) == {calls[c].got[i] : i \in DOMAIN calls[c].got}

\* A late answer, one to another caller, or one completed with a byte of the next
\* frame is not returned: what insists on a code returns the code it was asked for, and
\* what numbers its requests, the answer to its own.  Ten-level quotes and the history
\* timelines do not insist (LabelIsRead).
Insists(p) == p.by = "code" /\ "unlabelled" \notin p.trusts
AnswerIsOwn ==
    \A c \in Callers : \A item \in Holds(c) :
       /\ Insists(P(c)) =>
             item.code = calls[c].code /\ (P(c).mends = "peek" => ~item.torn)
       /\ P(c).by = "seq" /\ P(c).more = "one" => item.ask = calls[c].ask

\* history_timeline_protocol.py:580, the requested codes are "used only when a mixed
\* response omits a later table's ASCII code label": what looks at the code never
\* returns another's.  Refuted (MC_v_list.cfg): an answer that bears no code is taken
\* for the requested one's, and may be the late one to an earlier request.
LabelIsRead ==
    \A c \in Callers : \A item \in Holds(c) : P(c).by = "code" => item.code = calls[c].code

\* The pages of the capital-flow ranking follow one another, whatever pages of
\* earlier calls are still on their way: no row is left out, none comes twice.
PagesFollow ==
    \A c \in Callers : \A i \in DOMAIN calls[c].got :
       P(c).by = "seq" => calls[c].got[i].row \in {0, i}

\* A loop that reads past an answer it cannot use does not say "nothing" in the end,
\* however the others that follow look.
EmptyIsHonest ==
    \A c \in garbled :
       calls[c].res = "empty" => P(c).odd # "saw" \/ P(c).unread # "fails"

\* The local copy of a code list holds what the server took, and nothing else.
OnlyAcknowledged == local \subseteq acked

-----------------------------------------------------------------------------
(* What they rest on                                                       *)

Busy == {"register", "ask", "read"}

\* Only the holder of the request lock reads.
OneReads == \A c \in Callers : calls[c].at = "read" => lock = c

\* A stray byte follows the frame it was left outside of.
TailsFollow(w) ==
    \A i \in DOMAIN w :
       w[i].kind = "tail" => i > 1 /\ w[i - 1].kind = "data" /\ w[i - 1].rows = "cut"

\* Frames are whole; those nobody asked for are of no service.
FrameIsSound(f) ==
    /\ ~f.torn
    /\ f.kind \in {"size", "push", "bad"} => f.of.family = "size"
    /\ f.kind \in {"push", "bad"} => f.of.ask \in 1 .. MaxPushes

FramesAreSound == TailsFollow(wire) /\ \A i \in DOMAIN wire : FrameIsSound(wire[i])

\* The numbered requests that may still be answered, or the answer of which is on
\* its way.
Numbers ==
    {q \in owed \cup {wire[i].of : i \in {j \in DOMAIN wire : wire[j].kind = "data"}} :
        q.seq # 0}

\* How many numbers ago one was given.
Gap(s) == IF s <= sequence THEN sequence - s ELSE sequence - s + SeqMod - 1

\* A number is not given again while its request may be answered.
NumbersAreRecent ==
    \A q \in Numbers : q.ask >= 1 /\ Gap(q.seq) <= asks - q.ask

\* A numbered request is answered once.
AnsweredOnce ==
    /\ \A q \in owed : q.seq # 0 =>
          /\ q.replies = 1
          /\ \A r \in owed : r.seq = q.seq => r = q
          /\ \A i \in DOMAIN wire : wire[i].kind = "data" => wire[i].of.seq # q.seq
    /\ \A i, j \in DOMAIN wire :
          i # j /\ wire[i].kind = "data" /\ wire[j].kind = "data" /\ wire[i].of.seq # 0 =>
             wire[i].of.seq # wire[j].of.seq

\* Whoever asks or reads has no result.
HasNoResult(c) == calls[c].at \in Busy => calls[c].res = "none"

\* A call that takes one answer has none while it asks and reads.
TakesOne(c) ==
    calls[c].at \in Busy /\ P(c).more = "one" => calls[c].got = <<>>

\* The rows of the capital-flow pages so far are the first ones, and the next page
\* is asked for from there.
PagesInOrder(c) ==
    P(c).by = "seq" /\ P(c).more = "pages" =>
       /\ \A i \in DOMAIN calls[c].got : calls[c].got[i].row = i
       /\ calls[c].at \in Busy => calls[c].from = Len(calls[c].got)

\* What bears the number of a reading call is its own request.
NumberIsOwn(c) ==
    calls[c].at = "read" /\ P(c).by = "seq" =>
       /\ calls[c].seq # 0
       /\ \A q \in Numbers :
             q.seq = calls[c].seq => q.ask = calls[c].ask /\ q.from = calls[c].from

\* A loop that may not say "nothing" after an answer it could not use.
Strict(c) == P(c).odd = "saw" /\ P(c).unread = "fails"

\* It remembers that answer, and no other to the same request is on its way.
RemembersOdd(c) ==
    c \in garbled /\ Strict(c) =>
       \/ /\ calls[c].at = "read" /\ calls[c].saw
          /\ P(c).by = "seq" => \A q \in Numbers : q.seq # calls[c].seq
       \/ calls[c].at \in {"apply", "done"} /\ calls[c].res # "empty"

\* Whoever has not begun holds nothing.
CallIsSound(c) ==
    IF calls[c].at = "idle" THEN calls[c].got = <<>> /\ c \notin garbled
    ELSE /\ calls[c].name \in Services /\ calls[c].code \in Codes
         /\ calls[c].at = "apply" => P(c).manage # "no"
         /\ HasNoResult(c) /\ TakesOne(c) /\ PagesInOrder(c)
         /\ NumberIsOwn(c) /\ RemembersOdd(c)

CallsAreSound == \A c \in Callers : CallIsSound(c)

ReadsInv ==
    /\ ReadsTypeOK /\ OneReads /\ FramesAreSound /\ NumbersAreRecent /\ AnsweredOnce
    /\ CallsAreSound /\ AnswerIsOwn /\ PagesFollow
=============================================================================
