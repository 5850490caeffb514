----------------------------- MODULE MCThsServer -----------------------------
(* Instances of ThsServer for TLC.                                         *)
EXTENDS ThsServer

MCMarkets == <<"16", "32">>
MCThreads == Requests \cup {Preheater, Collector} \cup Viewers \cup Timers \cup Pagers

MCLoads ==
    {{"http", "preheat", "loss"}, {"stock", "loss"}, {"stock", "close"},
     {"dxjl", "pages", "break"}, {"dxjl", "close"}, {"dxjl", "loss"}}

\* A server of which nothing but a stock's stream is asked.
MCStreams == {{"stock"}}
=============================================================================
