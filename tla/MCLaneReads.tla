----------------------------- MODULE MCLaneReads -----------------------------
(* Instances of LaneReads for TLC.                                         *)
EXTENDS LaneReads, TLC

CONSTANT One   \* a thread

\* One thread, the requests of which meet the late answers to earlier ones.
Alone(names, n) ==
    [makes |-> [c \in Callers |-> IF c = One THEN names ELSE {}], asks |-> n]

Short ==
    {"bse_superorder_day", "bse_tick_window", "superorder", "snapshot_replay",
     "order_details", "order_queue", "order_queues", "list_quotes", "depth_ten",
     "market_snapshot", "intraday", "intraday_auctions", "past_auction", "auction", "closing_auction", "timeline",
     "history_timeline", "bse_history_timeline", "kline", "statscalc", "calcext",
     "dde_rank_l2", "full_list", "list_query", "board_quotes", "board_quotes_all",
     "hot_boards", "hot_boards_all", "hot_boards_sorted", "board_timeline", "board_kline",
     "board_auction", "constituents_l2", "constituents"}
Paged == {"stock_list", "stock_list_l2", "dde_rank"}
Lists == {"list_replace", "list_delta", "list_clear"}

MCClients ==
    {Alone({name}, 2) : name \in Short} \cup {Alone({name}, 3) : name \in Paged}
    \cup {Alone({"superorder", "order_queue"}, 2), Alone({"stock_list", "dde_rank"}, 2)}
    \cup {[makes |-> [c \in Callers |-> Lists], asks |-> 2]}

SymCodes == Permutations(Codes)
=============================================================================
