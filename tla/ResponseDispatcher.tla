------------------------- MODULE ResponseDispatcher -------------------------
(***************************************************************************)
(* The multi-flight response dispatcher of one market-data socket          *)
(* (_transport/dispatcher.py): a list of pending requests, a condition     *)
(* variable, and one reader thread that offers every frame it reads to the *)
(* pending requests.                                                       *)
(*                                                                         *)
(* This module has the dispatcher's state, its reader thread and the       *)
(* operations its owner calls; the threads that call them are in           *)
(* MarketSession, which extends this module.  The condition is re-entrant  *)
(* and every block under it is one action, except the loop of close(),     *)
(* whose test and completion of a future are two actions: the reader       *)
(* completes futures without holding the condition.                        *)
(***************************************************************************)
EXTENDS Naturals, Sequences, FiniteSets

CONSTANTS
    Calls,      \* calls made on the socket, each by a thread of its own
    Sessions,   \* MarketSession objects that share one socket and its lock
    MaxBundle,  \* requests one dispatch() may submit together
    MaxPushes,  \* bound: unsolicited frames the server sends
    Nobody,     \* no thread, no request
    Push        \* a frame that answers no request (table update, ack, time)

ASSUME BundleAssumption == MaxBundle \in Nat \ {0}
ASSUME PushesAssumption == MaxPushes \in Nat
ASSUME NamesAssumption ==
    /\ Calls \cap Sessions = {}
    /\ Nobody \notin Calls \cup Sessions \cup (Calls \X (1..MaxBundle))
    /\ Push \notin Calls \X (1..MaxBundle)
    /\ Nobody # Push

\* A request is named by the call that makes it and its place in the bundle.
Req == Calls \X (1..MaxBundle)
Frame == Req \cup {Push}
CallOf(r) == r[1]

VARIABLES
    link,       \* the TCP socket: "up", "eof" (the peer left), "closed" (by us)
    wire,       \* frames received and not read yet, oldest first
    asked,      \* requests sent that the server has not answered
    pushes,     \* unsolicited frames sent so far
    attached,   \* attached[s]: the session's socket getter returns the socket
    pending,    \* pending[s]: the requests in the dispatcher's list
    greedy,     \* requests whose consumer takes any frame (heartbeat probes)
    fut,        \* fut[r]: "new", "wait", "ok" or "err"
    stop,       \* stop[s]: the dispatcher's _closed flag
    cond,       \* cond[s]: the thread inside close()'s loop, or Nobody
    rpc,        \* rpc[s]: the reader thread's place, "none" without a reader
    inHand,     \* inHand[s]: the frame the reader has just read
    winner,     \* winner[s]: the request the reader is about to complete
    tmo,        \* the thread whose settimeout() the socket obeys
    due         \* calls whose deadline has passed

wireVars == <<link, wire, asked, pushes>>
futVars == <<pending, fut>>
readerVars == <<rpc, inHand, winner>>
dispatcherVars == <<link, wire, asked, pushes, attached, pending, greedy, fut,
                    stop, cond, rpc, inHand, winner, tmo, due>>

DispatcherInit ==
    /\ link = "up"
    /\ wire = <<>>
    /\ asked = {}
    /\ pushes = 0
    /\ attached = [s \in Sessions |-> TRUE]
    /\ pending = [s \in Sessions |-> {}]
    /\ greedy = {}
    /\ fut = [r \in Req |-> "new"]
    /\ stop = [s \in Sessions |-> FALSE]
    /\ cond = [s \in Sessions |-> Nobody]
    /\ rpc = [s \in Sessions |-> "none"]
    /\ inHand = [s \in Sessions |-> Nobody]
    /\ winner = [s \in Sessions |-> Nobody]
    /\ tmo = Nobody
    /\ due = {}

-----------------------------------------------------------------------------
(* The socket, as the code uses it.                                        *)

\* recv() returns data while it is buffered; once the peer has left, it
\* raises when the buffer is empty; on a socket closed here it raises.
FrameReady == link # "closed" /\ wire # <<>>
RecvFails == link = "closed" \/ (link = "eof" /\ wire = <<>>)

\* A timeout inside a frame: read_frame() forgets the part it had read.
FrameLost == wire # <<>> /\ wire' = Tail(wire)

\* The server answers a request it was sent, in any order, or never.
ServerAnswers(r) ==
    /\ link = "up"
    /\ r \in asked
    /\ asked' = asked \ {r}
    /\ wire' = Append(wire, r)
    /\ UNCHANGED <<link, pushes, attached, pending, greedy, fut, stop, cond,
                   readerVars, tmo, due>>

\* The server multiplexes frames nobody asked for on the same stream.
ServerPushes ==
    /\ link = "up"
    /\ pushes < MaxPushes
    /\ pushes' = pushes + 1
    /\ wire' = Append(wire, Push)
    /\ UNCHANGED <<link, asked, attached, pending, greedy, fut, stop, cond,
                   readerVars, tmo, due>>

\* The server ends the connection; what it had sent stays readable.
ServerLeaves ==
    /\ link = "up"
    /\ link' = "eof"
    /\ UNCHANGED <<wire, asked, pushes, attached, pending, greedy, fut, stop,
                   cond, readerVars, tmo, due>>

-----------------------------------------------------------------------------
(* Operations of the dispatcher's owner.                                   *)

Waiting(r) == fut[r] = "wait"
CondFree(s) == cond[s] = Nobody
Busy(s) == pending[s] # {} \/ rpc[s] # "none"

\* submit() sends all frames in one write and starts a reader if none runs.
Submitted(s, R, isProbe) ==
    /\ attached[s] /\ ~stop[s] /\ link # "closed"
    /\ pending' = [pending EXCEPT ![s] = @ \cup R]
    /\ fut' = [r \in Req |-> IF r \in R THEN "wait" ELSE fut[r]]
    /\ greedy' = IF isProbe THEN greedy \cup R ELSE greedy
    /\ asked' = asked \cup R
    /\ rpc' = [rpc EXCEPT ![s] = IF @ = "none" THEN "top" ELSE @]
    /\ UNCHANGED <<link, wire, pushes, attached, stop, cond, inHand, winner,
                   tmo, due>>

\* The write raises: the requests' futures fail and they leave the list.
SubmitWriteFails(s, R) ==
    /\ attached[s] /\ ~stop[s] /\ link # "up"
    /\ fut' = [r \in Req |-> IF r \in R THEN "err" ELSE fut[r]]
    /\ UNCHANGED <<wireVars, attached, pending, greedy, stop, cond,
                   readerVars, tmo, due>>

\* No socket, or the dispatcher was closed: nothing is registered.
SubmitRefused(s) ==
    /\ ~attached[s] \/ stop[s]
    /\ UNCHANGED dispatcherVars

\* Mutant: the condition is recorded as held by the session, not the thread.
CloseBegins_WrongHolder(s, c) ==
    /\ CondFree(s)
    /\ stop' = [stop EXCEPT ![s] = TRUE]
    /\ cond' = [cond EXCEPT ![s] = s]
    /\ UNCHANGED <<wireVars, attached, futVars, greedy, readerVars, tmo, due>>

\* close() sets _closed under the condition and keeps it through its loop.
CloseBegins(s, c) ==
    /\ CondFree(s)
    /\ stop' = [stop EXCEPT ![s] = TRUE]
    /\ cond' = [cond EXCEPT ![s] = c]
    /\ UNCHANGED <<wireVars, attached, futVars, greedy, readerVars, tmo, due>>

\* set_exception() on the future close() has just found not done.
CloseFails(r) ==
    /\ Waiting(r)
    /\ fut' = [fut EXCEPT ![r] = "err"]
    /\ UNCHANGED <<wireVars, attached, pending, greedy, stop, cond,
                   readerVars, tmo, due>>

\* The reader completed it meanwhile: set_exception() raises
\* InvalidStateError, which leaves the loop and the condition.
CloseBreaks(s, r) ==
    /\ ~Waiting(r)
    /\ cond' = [cond EXCEPT ![s] = Nobody]
    /\ UNCHANGED <<wireVars, attached, futVars, greedy, stop, readerVars,
                   tmo, due>>

\* Mutant: the list is cleared with futures still waiting.
CloseClears_Unsettled(s) ==
    /\ pending' = [pending EXCEPT ![s] = {}]
    /\ cond' = [cond EXCEPT ![s] = Nobody]
    /\ UNCHANGED <<wireVars, attached, fut, greedy, stop, readerVars, tmo, due>>

\* Every future is done: the list is cleared and the condition released.
CloseClears(s) ==
    /\ \A r \in pending[s] : ~Waiting(r)
    /\ pending' = [pending EXCEPT ![s] = {}]
    /\ cond' = [cond EXCEPT ![s] = Nobody]
    /\ UNCHANGED <<wireVars, attached, fut, greedy, stop, readerVars, tmo, due>>

-----------------------------------------------------------------------------
(* The reader thread.                                                      *)

\* Mutant: the reader never looks at the deadlines.
Overdue_Never(s) == {}

Overdue(s) == {r \in pending[s] : CallOf(r) \in due}

\* Top of the loop: expire overdue requests, then leave when there is nothing
\* to wait for, fail without a socket, or set the poll timeout and read.
ReaderTop(s) ==
    /\ rpc[s] = "top" /\ CondFree(s)
    /\ fut' = [r \in Req |-> IF r \in Overdue(s) /\ Waiting(r)
                             THEN "err" ELSE fut[r]]
    /\ pending' = [pending EXCEPT ![s] = @ \ Overdue(s)]
    /\ rpc' = [rpc EXCEPT ![s] = IF pending'[s] = {} \/ stop[s] THEN "exit"
                                 ELSE IF attached[s] /\ link # "closed"
                                      THEN "recv" ELSE "fail"]
    /\ tmo' = IF rpc'[s] = "recv" THEN s ELSE tmo
    /\ UNCHANGED <<wireVars, attached, greedy, stop, cond, inHand, winner, due>>

ReaderGetsFrame(s) ==
    /\ rpc[s] = "recv" /\ FrameReady
    /\ inHand' = [inHand EXCEPT ![s] = Head(wire)]
    /\ wire' = Tail(wire)
    /\ rpc' = [rpc EXCEPT ![s] = "offer"]
    /\ UNCHANGED <<link, asked, pushes, attached, futVars, greedy, stop, cond,
                   winner, tmo, due>>

\* The poll timeout of at most 0.25 s.  When it strikes inside a frame, the
\* bytes read_frame() had collected are dropped and the frame is lost.
ReaderPolls(s) ==
    /\ rpc[s] = "recv" /\ ~RecvFails
    /\ wire' = wire \/ FrameLost
    /\ rpc' = [rpc EXCEPT ![s] = "top"]
    /\ UNCHANGED <<link, asked, pushes, attached, futVars, greedy, stop, cond,
                   inHand, winner, tmo, due>>

ReaderLosesLink(s) ==
    /\ rpc[s] = "recv" /\ RecvFails
    /\ rpc' = [rpc EXCEPT ![s] = "fail"]
    /\ UNCHANGED <<wireVars, attached, futVars, greedy, stop, cond, inHand,
                   winner, tmo, due>>

Candidates(s) == {r \in pending[s] : Waiting(r)}

\* The candidates whose consumer recognises the frame in hand.
Takers(s) == {r \in Candidates(s) : r = inHand[s] \/ r \in greedy}

\* The frame is offered in list order and the first taker wins.  A probe is
\* submitted to an idle dispatcher only, so it is ahead of all others.  Other
\* consumers may decline even their own answer, when they find no row in it.
ReaderOffers(s) ==
    /\ rpc[s] = "offer" /\ CondFree(s)
    /\ \/ /\ Candidates(s) \cap greedy = {}
          /\ rpc' = [rpc EXCEPT ![s] = "sweep"]
          /\ winner' = winner
       \/ \E r \in Takers(s) :
             /\ r \in greedy \/ Takers(s) \cap greedy = {}
             /\ rpc' = [rpc EXCEPT ![s] = "complete"]
             /\ winner' = [winner EXCEPT ![s] = r]
    /\ inHand' = [inHand EXCEPT ![s] = Nobody]
    /\ UNCHANGED <<wireVars, attached, futVars, greedy, stop, cond, tmo, due>>

\* A quote consumer raises on a table it cannot parse, whoever asked for it.
ReaderConsumerRaises(s) ==
    /\ rpc[s] = "offer" /\ CondFree(s)
    /\ Candidates(s) # {} /\ Candidates(s) \cap greedy = {}
    /\ rpc' = [rpc EXCEPT ![s] = "fail"]
    /\ inHand' = [inHand EXCEPT ![s] = Nobody]
    /\ UNCHANGED <<wireVars, attached, futVars, greedy, stop, cond, winner,
                   tmo, due>>

\* set_result(), outside the condition.  It raises when close() has completed
\* the future since the reader tested it.
ReaderCompletes(s) ==
    /\ rpc[s] = "complete"
    /\ IF Waiting(winner[s])
       THEN /\ fut' = [fut EXCEPT ![winner[s]] = "ok"]
            /\ rpc' = [rpc EXCEPT ![s] = "sweep"]
       ELSE /\ fut' = fut
            /\ rpc' = [rpc EXCEPT ![s] = "fail"]
    /\ winner' = [winner EXCEPT ![s] = Nobody]
    /\ UNCHANGED <<wireVars, attached, pending, greedy, stop, cond, inHand,
                   tmo, due>>

ReaderSweeps(s) ==
    /\ rpc[s] = "sweep" /\ CondFree(s)
    /\ pending' = [pending EXCEPT ![s] = Candidates(s)]
    /\ rpc' = [rpc EXCEPT ![s] = "top"]
    /\ UNCHANGED <<wireVars, attached, fut, greedy, stop, cond, inHand, winner,
                   tmo, due>>

\* Any exception fails every pending request.
ReaderFails(s) ==
    /\ rpc[s] = "fail" /\ CondFree(s)
    /\ fut' = [r \in Req |-> IF r \in Candidates(s) THEN "err" ELSE fut[r]]
    /\ pending' = [pending EXCEPT ![s] = {}]
    /\ rpc' = [rpc EXCEPT ![s] = "exit"]
    /\ UNCHANGED <<wireVars, attached, greedy, stop, cond, inHand, winner,
                   tmo, due>>

\* Mutant: the reader leaves without looking at the list again.
ReaderExits_NoRestart(s) ==
    /\ rpc[s] = "exit" /\ CondFree(s)
    /\ rpc' = [rpc EXCEPT ![s] = "none"]
    /\ UNCHANGED <<wireVars, attached, futVars, greedy, stop, cond, inHand,
                   winner, tmo, due>>

\* finally: a request submitted since the reader decided to leave gets a new
\* reader, started here.
ReaderExits(s) ==
    /\ rpc[s] = "exit" /\ CondFree(s)
    /\ rpc' = [rpc EXCEPT ![s] = IF pending[s] # {} /\ ~stop[s]
                                 THEN "top" ELSE "none"]
    /\ UNCHANGED <<wireVars, attached, futVars, greedy, stop, cond, inHand,
                   winner, tmo, due>>

Reader(s) ==
    \/ ReaderTop(s) \/ ReaderGetsFrame(s) \/ ReaderPolls(s)
    \/ ReaderLosesLink(s) \/ ReaderOffers(s) \/ ReaderConsumerRaises(s)
    \/ ReaderCompletes(s) \/ ReaderSweeps(s) \/ ReaderFails(s)
    \/ ReaderExits(s)

ReaderPlaces == {"none", "top", "recv", "offer", "complete", "sweep", "fail",
                 "exit"}

DispatcherTypeOK ==
    /\ link \in {"up", "eof", "closed"}
    /\ wire \in Seq(Frame)
    /\ asked \subseteq Req
    /\ pushes \in 0..MaxPushes
    /\ attached \in [Sessions -> BOOLEAN]
    /\ pending \in [Sessions -> SUBSET Req]
    /\ greedy \subseteq Req
    /\ fut \in [Req -> {"new", "wait", "ok", "err"}]
    /\ stop \in [Sessions -> BOOLEAN]
    /\ cond \in [Sessions -> Calls \cup {Nobody}]
    /\ rpc \in [Sessions -> ReaderPlaces]
    /\ inHand \in [Sessions -> Frame \cup {Nobody}]
    /\ winner \in [Sessions -> Req \cup {Nobody}]
    /\ tmo \in Calls \cup Sessions \cup {Nobody}
    /\ due \subseteq Calls

=============================================================================
