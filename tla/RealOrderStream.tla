---------------------------- MODULE RealOrderStream ----------------------------
(***************************************************************************)
(* The live anomalies: the 9601 connection and its frames                  *)
(* (services/realorder.py), the thread that collects the pushes            *)
(* (server/runtime.py), and the WebSockets that show them (server/app.py).  *)
(*                                                                         *)
(* Frames of one connection are read by several threads, each of which     *)
(* keeps the pushes it was not waiting for.  A record stands for a push,    *)
(* "history" for the rows of a page; names and the clock are left out.      *)
(***************************************************************************)
EXTENDS ThsRuntime

CONSTANTS
    Markets,      \* the subscribed markets, a sequence
    Collector,    \* the collecting thread
    Pagers,       \* threads that ask for a page of the past, or for calcext
    Listeners,    \* WebSockets of the anomalies
    MaxPushes,    \* bound on the pushes
    MaxPages,     \* bound on the pages on their way
    MaxBreaks,    \* bound on the times the 9601 connection breaks
    TailRows,     \* rows of a snapshot (the code's: 200)
    BufferSize,   \* rows of the buffer (the code's: 4096)
    QueueSize     \* rows of a listener's queue (the code's: 2048)

ASSUME DxjlThreadsAssumption == Pagers \cup {Collector} \subseteq Threads
ASSUME MarketsAssumption == Len(Markets) \in Nat \ {0}
ASSUME SizesAssumption ==
    TailRows \in Nat \ {0} /\ BufferSize \in Nat \ {0} /\ QueueSize \in Nat \ {0}

VARIABLES
    line,         \* the 9601 socket the client keeps: "none", "up" or "dead"
    breaks,       \* how often it broke
    air,          \* the markets the server sends pushes of on it
    wire,         \* frames on their way
    lineLock,     \* who holds its request lock
    marked,       \* _subscribed_markets
    pending,      \* _pending_pushes
    pages,        \* pages asked for
    pushed,       \* pushes sent
    missed,       \* history: the pushes nobody kept
    collector,    \* the collecting thread
    pager,        \* pager[x]: a thread that asks for a page
    halt,         \* _dxjl_stop
    buffer,       \* _dxjl_buffer
    stored,       \* history: the pushes that were put into it, in order
    fans,         \* _dxjl_subscribers
    listener      \* listener[w]: a WebSocket's handler

lineVars == <<line, breaks, air, wire, lineLock, marked, pending, pages, pushed, missed, pager>>
roomVars == <<collector, halt, buffer, stored, fans, listener>>
dxjlVars == <<lineVars, roomVars>>

Free == "free"
History == 0

Off == [at |-> "off", next |-> 1, row |-> History, puts |-> {}, back |-> "off"]
Absent == [at |-> "away", queue |-> <<>>, seen |-> {}, gap |-> FALSE]

DxjlInit ==
    /\ line = "none" /\ breaks = 0 /\ air = {} /\ wire = <<>> /\ lineLock = Free
    /\ marked = {} /\ pending = <<>> /\ pages = 0 /\ pushed = 0 /\ missed = {}
    /\ collector = Off /\ halt = FALSE
    /\ pager = [x \in Pagers |-> [at |-> "none", kind |-> "page"]]
    /\ buffer = <<>> /\ stored = <<>> /\ fans = {}
    /\ listener = [w \in Listeners |-> Absent]

CallKept == UNCHANGED <<beside, main, connected>>

-----------------------------------------------------------------------------
(* The connection                                                          *)

\* The opener opens a connection only when the client keeps no socket at all.
Reopens == line = "none"

\* acquire(REALORDER): a connection is there, or cannot be had.
Acquires(ok) ==
    IF Reopens THEN line' = (IF ok THEN "up" ELSE line) ELSE ok /\ UNCHANGED line

Pushes(frames) == {frames[i] : i \in DOMAIN frames} \ {History}

Answers(frames) == Cardinality({i \in DOMAIN frames : frames[i] = History})

LineBreaks ==
    /\ "break" \in load /\ line = "up" /\ breaks < MaxBreaks /\ breaks' = breaks + 1
    /\ line' = "dead" /\ air' = {}
    /\ wire' = <<>> /\ missed' = missed \cup Pushes(wire)
    /\ UNCHANGED <<runtimeVars, lineLock, marked, pending, pages, pushed, pager, roomVars>>

ServerPushes ==
    /\ line = "up" /\ air # {} /\ pushed < MaxPushes
    /\ pushed' = pushed + 1 /\ wire' = Append(wire, pushed + 1)
    /\ UNCHANGED <<runtimeVars, line, breaks, air, lineLock, marked, pending, pages, missed, pager, roomVars>>

\* The answer to a page, early or late; it has no number.
ServerAnswers ==
    /\ line = "up" /\ pages > 0
    /\ pages' = pages - 1 /\ wire' = Append(wire, History)
    /\ UNCHANGED <<runtimeVars, line, breaks, air, lineLock, marked, pending, pushed, missed, pager, roomVars>>

\* The heartbeat's dispatcher reads a push: observe_unsolicited().
ProbeReads ==
    /\ lineLock = Free /\ wire # <<>> /\ Head(wire) # History
    /\ pending' = Append(pending, Head(wire)) /\ wire' = Tail(wire)
    /\ UNCHANGED <<runtimeVars, line, breaks, air, lineLock, marked, pages, pushed, missed, pager, roomVars>>

-----------------------------------------------------------------------------
(* Pages of the past: dxjl_page(), and calcext() on the same connection     *)

Pages(x, place) == pager' = [pager EXCEPT ![x].at = place]
AsidePager == UNCHANGED <<breaks, air, marked, pushed, roomVars>>

PageBegins(x) ==
    /\ Serves("pages") /\ pager[x].at = "none" /\ pages + Answers(wire) < MaxPages
    /\ \E kind \in {"page", "calcext"} : pager' = [pager EXCEPT ![x] = [at |-> "calls", kind |-> kind]]
    /\ Step(x, "looks") /\ CallKept
    /\ UNCHANGED <<line, wire, lineLock, pending, pages, missed>> /\ AsidePager

\* The request is sent under the lock, or cannot be.
PageAsked(x) ==
    /\ pager[x].at = "calls" /\ call[x] = "acts" /\ lineLock = Free
    /\ \E ok \in BOOLEAN : Acquires(ok)
    /\ \/ /\ line' = "up" /\ lineLock' = x /\ pages' = pages + 1
          /\ Pages(x, "reads") /\ UNCHANGED call
       \/ /\ line' # "up" /\ (Breaks(x) \/ Refuses(x))
          /\ UNCHANGED <<lineLock, pages, pager>>
    /\ CallKept /\ UNCHANGED <<wire, pending, missed>> /\ AsidePager

\* Mutant: a push in front of the answer is passed over.
Kept_Not(x, push) == UNCHANGED <<pending, missed>>

\* dxjl_page() keeps the pushes it meets; calcext() does not.
Kept(x, push) ==
    IF pager[x].kind = "page"
    THEN pending' = Append(pending, push) /\ UNCHANGED missed
    ELSE missed' = missed \cup {push} /\ UNCHANGED pending

\* Frames up to the answer: somebody's late answer is taken for it.
PageReads(x) ==
    /\ pager[x].at = "reads" /\ call[x] = "acts" /\ wire # <<>>
    /\ wire' = Tail(wire)
    /\ IF Head(wire) = History
       THEN /\ lineLock' = Free /\ Succeeds(x) /\ UNCHANGED <<pending, missed, pager>>
       ELSE Kept(x, Head(wire)) /\ UNCHANGED <<lineLock, call, pager>>
    /\ CallKept /\ UNCHANGED <<line, pages>> /\ AsidePager

\* Enough frames, no answer in time, or the end of the connection; a frame that was
\* read in part is lost.
PageFails(x) ==
    /\ pager[x].at = "reads" /\ call[x] = "acts"
    /\ lineLock' = Free
    /\ Succeeds(x) \/ Breaks(x)
    /\ \/ UNCHANGED <<wire, missed>>
       \/ /\ wire # <<>> /\ wire' = Tail(wire)
          /\ missed' = missed \cup ({Head(wire)} \ {History})
    /\ CallKept /\ UNCHANGED <<line, pending, pages, pager>> /\ AsidePager

PageEnds(x) ==
    /\ pager[x].at # "none" /\ Finished(x)
    /\ Pages(x, "none") /\ Step(x, "no") /\ CallKept
    /\ UNCHANGED <<line, wire, lineLock, pending, pages, missed>> /\ AsidePager

Page(x) == PageBegins(x) \/ PageAsked(x) \/ PageReads(x) \/ PageFails(x) \/ PageEnds(x)

-----------------------------------------------------------------------------
(* The collecting thread: _dxjl_collect_loop()                             *)

Collects(place) == collector' = [collector EXCEPT !.at = place]
Acting(place) == collector.at = place /\ call[Collector] = "acts"
AsideLoop == UNCHANGED <<breaks, pages, pushed, pager, halt, fans>>
AsideLine == UNCHANGED <<line, air, wire, lineLock, marked, pending, missed>>
AsideRoom == UNCHANGED <<buffer, stored, listener>>

\* The top of the loop: "on" with the subscription to be made, "again" with it made.
CollectorTurns ==
    /\ collector.at \in {"on", "again"}
    /\ IF halt THEN Collects("off") /\ UNCHANGED call
       ELSE Step(Collector, "looks")
               /\ Collects(IF collector.at = "on" THEN "subscribes" ELSE "receives")
    /\ CallKept /\ AsideLine /\ AsideRoom /\ AsideLoop

\* subscribe_realtime(): a connection, and the markets one after the other.
CollectorAcquires ==
    /\ Acting("subscribes")
    /\ \E ok \in BOOLEAN :
          /\ Acquires(ok)
          /\ IF ok THEN collector' = [collector EXCEPT !.at = "marks", !.next = 1] /\ UNCHANGED call
             ELSE Refuses(Collector) /\ UNCHANGED collector
    /\ CallKept /\ UNCHANGED <<air, wire, lineLock, marked, pending, missed>> /\ AsideRoom /\ AsideLoop

CollectorMarks ==
    LET market == Markets[collector.next] IN
    /\ Acting("marks") /\ lineLock = Free
    /\ IF line = "up"
       THEN /\ air' = air \cup {market} /\ marked' = marked \cup {market}
            /\ IF collector.next = Len(Markets)
               THEN Succeeds(Collector) /\ UNCHANGED collector
               ELSE collector' = [collector EXCEPT !.next = @ + 1] /\ UNCHANGED call
       ELSE Breaks(Collector) /\ UNCHANGED <<air, marked, collector>>
    /\ CallKept /\ UNCHANGED <<line, wire, lineLock, pending, missed>> /\ AsideRoom /\ AsideLoop

\* The subscription is made: an empty buffer may be filled from a page of the past.
CollectorSubscribed ==
    /\ collector.at = "marks" /\ call[Collector] = "done"
    /\ Collects("again") /\ Step(Collector, "no")
    /\ CallKept /\ AsideLine /\ AsideRoom /\ AsideLoop

\* _seed_dxjl_from_history(): the pushes in front of the answer are kept.
CollectorSeeds ==
    /\ collector.at = "receives" /\ call[Collector] = "looks"
    /\ buffer = <<>> /\ line = "up" /\ lineLock = Free
    /\ \E n \in 0 .. Len(wire) :
          /\ \A i \in 1 .. n : wire[i] # History
          /\ pending' = pending \o SubSeq(wire, 1, n)
          /\ wire' = SubSeq(wire, n + 1, Len(wire))
    /\ collector' = [collector EXCEPT !.at = "puts", !.row = History, !.puts = fans,
                                      !.back = "receives"]
    /\ buffer' = <<History>>
    /\ CallKept /\ UNCHANGED <<call, line, air, lineLock, marked, missed, stored, listener>> /\ AsideLoop

\* receive_pushes(): without a subscription an error, without a connection another.
CollectorReceives ==
    /\ Acting("receives")
    /\ IF marked = {} THEN UNCHANGED <<line, collector>> /\ Refuses(Collector)
       ELSE \E ok \in BOOLEAN :
               /\ Acquires(ok)
               /\ IF ok THEN Collects("drains") /\ UNCHANGED call
                  ELSE Refuses(Collector) /\ UNCHANGED collector
    /\ CallKept /\ UNCHANGED <<air, wire, lineLock, marked, pending, missed>> /\ AsideRoom /\ AsideLoop

\* What others have read first.
CollectorDrains ==
    /\ Acting("drains")
    /\ IF pending = <<>> THEN Collects("reads") /\ UNCHANGED pending
       ELSE /\ pending' = Tail(pending)
            /\ collector' = [collector EXCEPT !.at = "stores", !.row = Head(pending),
                                            !.back = "drains"]
    /\ CallKept /\ UNCHANGED <<call, line, air, wire, lineLock, marked, missed>> /\ AsideRoom /\ AsideLoop

\* Then frame by frame under the request lock; what is no push is passed over.
CollectorReads ==
    /\ Acting("reads") /\ lineLock = Free /\ wire # <<>>
    /\ wire' = Tail(wire)
    /\ collector' = IF Head(wire) = History THEN collector
                    ELSE [collector EXCEPT !.at = "stores", !.row = Head(wire),
                                           !.back = "reads"]
    /\ CallKept /\ UNCHANGED <<call, line, air, lineLock, marked, pending, missed>> /\ AsideRoom /\ AsideLoop

\* The time is over or the connection: both are the end of the call and no more.
Ends == Succeeds(Collector)

\* Nothing comes, or a part of a frame, which is lost.
CollectorEnds ==
    /\ Acting("reads") /\ lineLock = Free
    /\ Ends
    /\ \/ UNCHANGED <<wire, missed>>
       \/ wire # <<>> /\ wire' = Tail(wire) /\ missed' = missed \cup Pushes(<<Head(wire)>>)
    /\ CallKept /\ UNCHANGED <<collector, line, air, lineLock, marked, pending>> /\ AsideRoom /\ AsideLoop

CollectorReceived ==
    /\ collector.at = "reads" /\ call[Collector] = "done"
    /\ Collects("again") /\ Step(Collector, "no")
    /\ CallKept /\ AsideLine /\ AsideRoom /\ AsideLoop

\* An error: the subscription is to be made again, after five seconds.
CollectorFails ==
    /\ collector.at \notin {"off", "stores", "puts"} /\ call[Collector] = "failed"
    /\ \/ halt /\ Collects("off")
       \/ Collects("on")
    /\ Step(Collector, "no")
    /\ CallKept /\ AsideLine /\ AsideRoom /\ AsideLoop

-----------------------------------------------------------------------------
(* Records: _on_dxjl_record()                                              *)

\* Mutant: the first rows.
LastRows_First(rows, n) == SubSeq(rows, 1, IF Len(rows) > n THEN n ELSE Len(rows))

LastRows(rows, n) == SubSeq(rows, IF Len(rows) > n THEN Len(rows) - n + 1 ELSE 1, Len(rows))

\* Into the buffer and to those who listen, under one lock.
Stores ==
    /\ collector.at = "stores"
    /\ buffer' = LastRows(Append(buffer, collector.row), BufferSize)
    /\ stored' = Append(stored, collector.row)
    /\ collector' = [collector EXCEPT !.at = "puts", !.puts = fans]
    /\ UNCHANGED <<runtimeVars, listener>> /\ AsideLine /\ AsideLoop

\* A full queue takes no more.
Puts ==
    /\ collector.at = "puts"
    /\ listener' = [w \in Listeners |->
         IF w \notin collector.puts \/ listener[w].at = "away" THEN listener[w]
         ELSE IF Len(listener[w].queue) < QueueSize
         THEN [listener[w] EXCEPT !.queue = Append(@, collector.row)]
         ELSE [listener[w] EXCEPT !.gap = TRUE]]
    /\ collector' = [collector EXCEPT !.at = collector.back, !.puts = {}]
    /\ UNCHANGED <<runtimeVars, buffer, stored>> /\ AsideLine /\ AsideLoop

Collect ==
    \/ CollectorTurns \/ CollectorAcquires \/ CollectorMarks \/ CollectorSubscribed
    \/ CollectorSeeds \/ CollectorReceives \/ CollectorDrains \/ CollectorReads
    \/ CollectorEnds \/ CollectorReceived \/ CollectorFails \/ Stores \/ Puts

-----------------------------------------------------------------------------
(* Listeners: dxjl_stream() of server/app.py                               *)

Listens(w, new) == listener' = [listener EXCEPT ![w] = new]
AsideListener == UNCHANGED <<runtimeVars, lineVars, buffer, stored>>

\* subscribe_dxjl_stream(): a queue first,
Joins9601(w) ==
    /\ Serves("dxjl") /\ listener[w].at = "away"
    /\ fans' = fans \cup {w} /\ Listens(w, [Absent EXCEPT !.at = "ensures"])
    /\ UNCHANGED <<collector, halt>> /\ AsideListener

\* then the collector, if it does not run,
Ensures(w) ==
    /\ listener[w].at = "ensures"
    /\ IF collector.at = "off"
       THEN halt' = FALSE /\ collector' = [Off EXCEPT !.at = "on"]
       ELSE UNCHANGED <<collector, halt>>
    /\ Listens(w, [listener[w] EXCEPT !.at = "tails"])
    /\ UNCHANGED fans /\ AsideListener

\* then the newest rows of the buffer.
Snapshots(w) ==
    /\ listener[w].at = "tails"
    /\ Listens(w, [listener[w] EXCEPT !.at = "listens",
                                      !.seen = Pushes(LastRows(buffer, TailRows))])
    /\ UNCHANGED <<collector, halt, fans>> /\ AsideListener

Takes(w) ==
    /\ listener[w].at = "listens" /\ listener[w].queue # <<>>
    /\ Listens(w, [listener[w] EXCEPT !.queue = Tail(@), !.seen = @ \cup Pushes(<<Head(listener[w].queue)>>)])
    /\ UNCHANGED <<collector, halt, fans>> /\ AsideListener

\* A message of the browser: the thread that waits for a row takes one more, for
\* nobody.
Speaks(w) ==
    /\ listener[w].at = "listens" /\ ~listener[w].gap
    /\ Listens(w, [listener[w] EXCEPT !.gap = TRUE])
    /\ UNCHANGED <<collector, halt, fans>> /\ AsideListener

Strays(w) ==
    /\ listener[w].at = "listens" /\ listener[w].gap /\ listener[w].queue # <<>>
    /\ Listens(w, [listener[w] EXCEPT !.queue = Tail(@)])
    /\ UNCHANGED <<collector, halt, fans>> /\ AsideListener

\* What is still put goes to a queue that nobody reads.
Leaves9601(w) ==
    /\ listener[w].at \in {"tails", "listens"}
    /\ fans' = fans \ {w} /\ Listens(w, Absent)
    /\ collector' = [collector EXCEPT !.puts = @ \ {w}]
    /\ UNCHANGED halt /\ AsideListener

Listen(w) ==
    \/ Joins9601(w) \/ Ensures(w) \/ Snapshots(w) \/ Takes(w) \/ Speaks(w) \/ Strays(w)
    \/ Leaves9601(w)

\* close(), the collector's section.
CloseDxjl ==
    /\ Shuts("streams", "flag") /\ halt' = TRUE /\ fans' = {}
    /\ UNCHANGED <<load, main, losses, connected, call, request, preheat, heater,
                   lineVars, collector, buffer, stored, listener>>

DxjlStep ==
    \/ LineBreaks \/ ServerPushes \/ ServerAnswers \/ ProbeReads
    \/ \E x \in Pagers : Page(x)
    \/ Collect
    \/ \E w \in Listeners : Listen(w)
    \/ CloseDxjl

-----------------------------------------------------------------------------
(* Properties                                                              *)

MarketSet == {Markets[i] : i \in 1 .. Len(Markets)}
CallingPlaces == {"subscribes", "marks", "receives", "drains", "reads"}

DxjlTypeOK ==
    /\ line \in {"none", "up", "dead"} /\ breaks \in Nat /\ pages \in Nat
    /\ lineLock \in Pagers \cup {Free}
    /\ air \subseteq MarketSet /\ marked \subseteq MarketSet
    /\ pager \in [Pagers -> [at : {"none", "calls", "reads"}, kind : {"page", "calcext"}]]
    /\ collector \in [at : CallingPlaces \cup {"off", "on", "again", "stores", "puts"},
                      next : 1 .. Len(Markets), row : Nat, puts : SUBSET Listeners,
                      back : {"off", "receives", "drains", "reads"}]
    /\ halt \in BOOLEAN /\ fans \subseteq Listeners /\ buffer \in Seq(Nat)
    /\ listener \in [Listeners -> [at : {"away", "ensures", "tails", "listens"},
                                  queue : Seq(Nat), seen : SUBSET Nat, gap : BOOLEAN]]

Held == IF collector.at = "stores" THEN <<collector.row>> ELSE <<>>

\* Every push is in one place: on the wire, kept by the reader that met it, in the
\* collector's hands, in the buffer's past; or it is lost for a reason that is known
\* (calcext(), a frame read in part, a broken connection).  Whoever reads, none is
\* lost or stored twice.
PushesKept ==
    LET places == wire \o pending \o Held \o stored IN
    \A push \in 1 .. pushed :
       Cardinality({i \in DOMAIN places : places[i] = push})
          = IF push \in missed THEN 0 ELSE 1

Got(w) ==
    listener[w].seen \cup Pushes(listener[w].queue)
       \cup (IF collector.at = "puts" /\ w \in collector.puts THEN {collector.row} ELSE {})

\* A listener that only listens, and takes its rows in time, misses none behind the
\* first it has: the snapshot and the queue overlap and leave no gap.
NoGap ==
    \A w \in Listeners :
       listener[w].at = "listens" /\ ~listener[w].gap /\ closing = "no" =>
          \A i, j \in DOMAIN stored :
             i < j /\ stored[i] \in Got(w) => stored[j] \in Got(w)

\* When the 9601 connection breaks, the collector has another before long, and hears
\* the markets on it.
Recovers ==
    (line = "dead" /\ collector.at # "off") ~> (line = "up" \/ halt)

-----------------------------------------------------------------------------
(* The parts of the inductive invariant of ThsServer_proofs.               *)

\* What is on its way or kept was sent, and an answer is kept by nobody.
RowsWereSent ==
    /\ pushed \in Nat /\ missed \subseteq 1 .. pushed
    /\ wire \in Seq(0 .. pushed)
    /\ pending \in Seq(1 .. pushed) /\ stored \in Seq(1 .. pushed)
    /\ collector.row \in 0 .. pushed
    /\ collector.at = "stores" => collector.row # History

\* The buffer is the end of the past, behind the rows of a page that it began with.
BufferIsRecent ==
    /\ Len(buffer) <= BufferSize
    /\ Len(stored) > 0 => Len(buffer) > 0
    /\ Len(buffer) < Len(stored) => Len(buffer) = BufferSize
    /\ \A k \in 1 .. Len(buffer) :
          LET back == Len(buffer) - k IN
          buffer[k] = IF back < Len(stored) THEN stored[Len(stored) - back] ELSE History

\* Who is not away is told of the next row, nobody else is, and the snapshot is the
\* first that is shown.
FansListen ==
    /\ closing = "no" => \A w \in Listeners : listener[w].at # "away" => w \in fans
    /\ fans \cup collector.puts \subseteq {w \in Listeners : listener[w].at # "away"}
    /\ \A w \in Listeners : listener[w].at \in {"ensures", "tails"} => listener[w].seen = {}

\* NoGap, for those as well who have no snapshot yet.
LeavesNoGap ==
    \A w \in Listeners :
       listener[w].at # "away" /\ ~listener[w].gap /\ closing = "no" =>
          \A i, j \in DOMAIN stored :
             i < j /\ stored[i] \in Got(w) => stored[j] \in Got(w)
=============================================================================
