# thspypc in TLA+

Specifications, model-checking instances and machine-checked proofs for the
concurrent core of thspypc, a client for a binary market-data protocol: a
handful of long-lived TCP connections ("roles"), many threads that ask, a
heartbeat, push readers and a web server in front of it all.  Paths below are
relative to `src/src/thspypc/` unless they begin with `docs/` or `tests/`
(under `src/`).

## The system

| Part | State it keeps | Operations | What makes it correct |
|---|---|---|---|
| `_transport/dispatcher.py` ResponseDispatcher | list of pending requests and their futures, a condition, one reader thread, `_closed` | submit, wait_idle, close, the reader's loop | a pending request has a reader; a future is completed once; an answer reaches its request |
| `_transport/session.py` MarketSession | request lock (shared), `_latest_gate` | request, request_latest, receive, dispatch, try_send, try_dispatch | one reader of the socket at a time; every call ends; latest-wins order |
| `_transport/connection.py` ManagedConnection | socket, owns flag, session | close, is_alive, active | close forgets and closes; a probe never meets a reader |
| `_transport/connection_manager.py` ConnectionManager | role -> connection, account profile, one lock | acquire, adopt, peek, close, update_profile, close_all | at most one connection per role, installed where none is, shut once after its removal |
| `_client/connection_runtime.py` ConnectionFactory | none of its own; the sockets the client keeps | connect_main, open | a socket that is opened ends with an owner or closed |
| `_client/connection_runtime.py` runtime | heartbeat and snapshot threads, subscriptions | heartbeat_loop, snapshot_loop, activate / deactivate, stop_snapshot, disconnect | a lane in use is left alone; a live subscription has a reader |
| `_client/heartbeat_monitor.py` | per lane: socket, state, pending probe, misses; socket -> lane | bind, begin_probe, observe, fail, expire, cancel | late events of an old socket change nothing; a state is explained by its misses |
| `_client/connection_primitives.py` | MAIN socket, host offsets and their file | login race and serial rounds, `_finalize_main_login`, channel openers, `_drop_connection` | MAIN is initialised, and the heartbeat starts after that; a Level-2 socket that stands is proved; a dead host is not tried first for ever |
| `client.py` THSClient | kept sockets, locks, capability leases, profile, evidence | configure, preheat, sync, `_run_default_service`, disconnect | kept sockets and registered connections agree; a lease holds while its call runs and ends with it |
| `_client/service_facade.py` | none of its own beside caches | ensure a connection, call a service, retry, drop | a retry meets another connection |
| `services/*` | gates, list windows, request sequence, pending pushes | send, read frames until the answer, judge, next page | the answer is one's own, pages follow, "nothing" is honest |
| `services/subscription.py`, `list_subscription.py` | registrations by connection; the code list | subscribe, push, unsubscribe; replace, delta, clear | what is subscribed has a reader; a registration ends with its connection |
| `server/runtime.py`, `server/app.py` | login flag, stream counts, release timers, collector, listeners | call, subscribe / unsubscribe, collect, close | one retry suffices; a watched stream stays on, an idle one goes off; no anomaly is lost or doubled |
| `features/account_profile.py` | evidence of the account | record, infer the profile | no contradiction is recorded |
| `codecs/*`, other `features/*`, `protocol.py` | none | encode, decode | round trips, bounds |
| `web/`, `qr_login.py`, `blocks.py`, `services/stock_name.py`, `_client/stock_cache.py` | I/O | HTTP, files, user interface | not in scope |

Interaction: a service acquires a role's connection from the manager (which may
probe the old one and open a new one under its lock), then uses the
connection's session: either synchronously (lock, wait for an idle dispatcher,
write, read, unlock) or by dispatching (lock, submit, unlock, wait for
futures that the dispatcher's reader thread completes).  The heartbeat, the
push reader, preheat workers, profile updates and the retry path touch the same
connections from threads of their own, each with another subset of the locks.

What is hard here: three kinds of lock (request lane, dispatcher condition,
manager) that do not cover the same things; futures completed without a lock;
the reader thread's decision to leave; sockets that have two owners, the client
and a connection; removal and closing in two steps; timeouts at any of them; answers
that carry no request id, so that one that is late is read by the next call; and
attributes of the client that no lock covers at all (the snapshot thread and its
stop flag, the MAIN socket during a login, the login flag, the host table's file).
`PROJECT.json` lists these hazards at their lines.

## The modules

`ResponseDispatcher.tla` has the socket as the code uses it (`link`, `wire`,
`asked`: what may still be answered), the dispatcher's fields (`pending`, `fut`,
`stop`, `cond`) and the reader thread's place (`rpc`, `inHand`, `winner`).  Every
block under the condition is one action: `Submitted` / `SubmitWriteFails` /
`SubmitRefused` are the three outcomes of `submit()`, `ReaderTop` ..
`ReaderExits` the reader's loop with its `except` and `finally`.  The loop of
`close()` is split into test and completion, because the reader completes
futures outside the condition.  A poll timeout inside a frame drops the frame
(`FrameLost`).  A consumer may decline, accept or raise; a probe accepts anything.

`MarketSession.tla` extends it with the callers.  Each call is a thread with a
place (`pc`), a kind and a session; places are the points at which another
thread can run: before and after the lock, in the idle wait, between the gate's
check and the write, in `recv`.  Time is real time: `Deadline(c)`
may happen at any moment.  The model has `request`, `request_latest` (gates
drawn by the service, published, compared under the lock), `receive`, `dispatch`,
`try_send`, `try_dispatch`, `ManagedConnection.close`, `is_alive`, and
`pushRead`, what `snapshot_loop()` does with a Level-2 lane.

`ConnectionRegistry.tla` has the manager's table and lock, the connections
(`over`: the socket a connection wraps), the sockets and who keeps them
(`facade`), and the request lanes.  A thread executes one of eight operations:
acquire (`Enter`, `Probe`, `Open*`, `Discard`, `Dial`, `Offer`, `Wrap`, then one use
of the connection), close, `_drop_connection`, update_profile, a preheat worker,
a heartbeat round on a Level-2 lane, one role of
`sync_service_connections()`, and disconnect (`CloseAll`, then `HangUp` of a kept
socket).  Removal (`Pop`, `Update`, `CloseAll`) and closing (`Retire`) are separate
actions, as in the code.

`RoleRegistry.tla` is what a user of the registry relies on: install where
nothing is registered, remove, shut once after removal.  `ConnectionRegistry`
implements it under `entry <- table`, `open <- connections that have a socket`.

`HeartbeatMonitor.tla` has the monitor's record of each lane and who feeds it: a
heartbeat thread that goes over its lanes tick by tick (`Collects`, `Expire`, binding,
keep-alive, `begin_probe`, burial), the dispatcher futures that complete its probes or
fail after the lane has moved on, whoever hears a frame on an observed socket, new
connections, and disconnect().  The three kinds of lane differ in whether they are
probed, kept alive by a write, or not at all.

`PushSubscriptions.tla` has one Level-2 lane: the registration of a topic on the
lane's connection with the server's acceptance, activation and deactivation, the
start of the snapshot thread, its loop, `stop_snapshot()`, `_drop_connection` and the
heartbeat's burial.  Only the code sets are locked, so each other attribute is read
and written in a step of its own.

`MainLogin.tla` is `connect_main()`: the hosts that race with a thread each and the
choice of one winner (`Picks`: two may have won, and nobody closes the second), the
serial part with its limits, the refresh of a refused passport, and
`_finalize_main_login()` with the heartbeat stopped and started around it.  A stop waits
five seconds for the thread and forgets it, and the next start takes back the word to
end: what may be left of it is `stray`.  Two callers may be in it at once, as nothing
forbids it.

`AccountEvidence.tla` is the recorder of what was seen of the account, its refusal of
contradictions and the profile inferred from it, as operators.  Two modules use it.
`ChannelOpening.tla` opens the roles beside MAIN: passport (current, fetched, shared
with a concurrent opener), host probe, sweep from the saved offset with its outcomes
(refused, stale, denied, reset), init answer, the file of offsets read and written in
two steps, the evidence, and a restart of the process between them.
`ServiceCalls.tla` is the facade: every public call is a plan (role, capabilities,
guard, number of retries, what a failure drops), and one machine executes plans: guard,
lease with inferred profile, ensure, acquire with the manager's admission, answer,
release, drop and retry.

`LaneReads.tla` has the read loops of the services as plans too: how a loop
recognises its answer (code, sequence number, shape, or nothing at all), what it does
with other, unreadable and torn frames, what it takes for its own whosever it is
(`trusts`: rows without a code in ten-level quotes and the history timelines, an empty
answer in some others), how many it reads, what it returns in the end, and its pages.
The server answers late, in order, or not at all; pushes mix in.
The list subscription is three of these plans with the coordinator's copy.

`ThsRuntime.tla`, `StockStreams.tla` and `RealOrderStream.tla` are the web server:
`call()` with the login flag and preheating; the viewers of a stock with the counted
subscription, the release timers, the delivery of events under the lane's lock and the
waits of an activation and of `stop_snapshot()` for that lock, which have no limit; the
9601 connection with its collector, pages, buffer and listeners.  `ThsServer.tla`
composes them over one client and adds the end of `close()`.

`MC*.tla` define the sets of calls and operations of the instances, their symmetry
and, as `Explored`, where an exploration stops; the modules named `*_proofs` have
the proofs (`Channel_proofs` those of `ChannelOpening` and `LaneReads`: how a connection begins
and how it is used).  The definitions of `LaneReads` that others have too carry its name
(`ReadsSpec`, `ReadsInit`, `ReadsNext`, `BeginCall`).

Abstractions: frames are named by the request they answer (in `LaneReads`: by what
its loop looks at), payloads, field tables and the text of errors are left out;
time is a set of calls whose deadline has passed, or a step that may happen; new
sockets, connections, threads, probes and timers are taken from those that nothing
refers to; in the registry, roles are represented by the three ways in which the
factory opens them (kept and reused, kept and checked, owned by the connection).
A module that needs another component's effect has its outcome as one step: a login
is one step of `ThsRuntime`, a service's request one step of `ServiceCalls`.

## The runs

| Run | Bounds | Shows |
|---|---|---|
| `lane` | 3 calls of any kind on one session; bundles of 2 and one unsolicited frame | SoleReader, NoStolenAnswer, PendingIsServed, DetachedIsSettled, GatesIncrease |
| `lane_live` | 2 calls, all kinds, push reader; fairness | CallsEnd, FuturesSettle |
| `registry` | 2 threads, 3 roles (one of each way of opening), 2 sockets, 3 connections | OwnedIsOpen, NothingLeaks, refinement of RoleRegistry |
| `heartbeat` | 1 lane of any kind, 2 sockets, 2 probes, threshold 2; fairness | StateIsEarned, UnresponsiveIsDead, MissIsOwn, UnresponsiveSticks, PendingResolves |
| `push` | 2 callers, 2 reader threads, 1 topic, 2 sockets | WantedIsServed, KnownIsLocal, NoCloseUnderLock |
| `login` | 2 callers, 2 hosts that race, 3 sockets | MainIsUsable, HeartbeatAfterInit, TimeIsKnown |
| `opening` | 2 openers, a Level-2, a board and a 9601 role, 2 hosts, 2 passports | EvidenceCoherent, StandingIsProved, RotationMoves |
| `calls` | 2 callers, 4 calls (a Level-2 or ordinary quote, a history, an intraday chart, a 9601 page), 1 retry | GrantsEnd, RolesAllowed, RetryIsFresh, LeaseHolds |
| `reads` | every plan of the services, twice or three times on one lane; two services on one lane; two threads on the list | AnswerIsOwn, PagesFollow, EmptyIsHonest |
| `server` | six loads: requests with preheating and a lost MAIN, a stock with 2 viewers and 2 timers, the anomalies with a page, a broken connection or a lost MAIN, the two last with close() | SecondChance, WatchedIsActive, IdleIsReleased, PushesKept, NoGap |
| `v_cycle` | 2 threads, 1 role | `acquire()` and `_drop_connection()` block each other |
| `v_dxjl` | the collector and one broken connection; fairness | the collector never recovers |

Why these bounds are enough to be interesting: a lane hazard needs a reader, a
caller that works against it and one that closes or probes, so three calls; gate
order needs two charts and one thing that delays them.  Bundles of two are the
largest the code builds (`market_view_pipeline`), and the property of a bundle is
what happens when one half is done.  In the registry every race the code has is
between two threads and one connection that is being retired, another that
replaces it and a third of another role.  A monitor's lanes share nothing but the
map of observed sockets; late events need a second socket and a second probe.
Subscription races are between an activation, a stop and one reader that ends while
another begins.  Of two hosts both may win a login's race, or one races and the other is
left for the serial part.  An offset of two hosts wraps at once, and two passports are one that
is shared and one that replaces it.  Two calls are one that ends while another
holds its lease.  On a lane the worst a late answer can do is to meet the next call
of the same service or of one whose answers look alike; three pages are a first, a
next and a last, and the request sequence wraps at four so that a run passes its end.
Two viewers and two timers are one that leaves, one that comes and a timer that is late.

Five runs stop exploring where `Explored` in their MC module says.  `registry`: a
disconnect is not explored beside another, a close or a profile update, which remove
connections as it does.  `lane`: three
calls, or two with a bundle or an unsolicited frame, or one with both, and not all
at once.  `opening`: a second round after a refreshed passport is explored for an
opener that no other overlaps with, and over a file with one offset at most.  `login`: at
more than one open socket that nobody refers to, and, once logins have overlapped, at a
forgotten heartbeat.  `push`: once
an activation has overlapped a stop (where WantedIsServed asks nothing) the server
accepts nothing more, which leaves the locks and sockets of NoCloseUnderLock and
KnownIsLocal.  The proofs below have no such bounds.

Deadlock is not checked where the system may stop: calls are made once, bounded
losses run out, and the registry really can block (`v_cycle`).  `calls` has no end
and is checked for deadlock.

Fairness.  `lane_live`: weak fairness of each call's own steps, of its deadline and
of each reader thread, that is, runnable threads run and time passes.  Nothing is
assumed of the server, which need not answer, nor of the application.  `close()` and
`is_alive` wait for the lock without a timeout and still end, because whoever holds
it does; a call is made once, so weak fairness of `Acquire` is enough.  `heartbeat`:
weak fairness of the heartbeat threads and of a probe's time passing; no answer is
assumed.  `v_dxjl`: weak fairness of the collector and everything it needs, so that it
fails not for want of steps.  `v_stream` (below): strong fairness of the thread that holds
the stream lock and of a reader that waits for it, more than Python's locks promise, and
both wait all the same.

### Disagreements

Two runs end in a violation that the code's own words say should not be:

* `v_cycle`: `_drop_connection()` and `acquire()` take two locks in opposite orders.
* `v_dxjl`: the factory wraps a kept dead 9601 socket again; the collector's retries,
  which are there to subscribe anew, go to it for ever.

The modules state more such promises, and a configuration refutes each (run
`tlc -config MC_v_<name>.cfg` on the module's MC module):

* `v_probe` (ProbeExcludesReader): `is_alive` takes the request lock to keep clear of
  readers, but the dispatcher's reader does not hold it.
* `v_answer` (AnswerToItsRequest): a heartbeat probe takes the first frame that comes,
  also the answer to a quote dispatched after it.
* `v_close` (ClosedIsInactive): `close()` and the reader may complete one future;
  `close()` then raises and the connection stays active with its socket open.
* `v_push` (SoleReader): the Level-2 push reader reads beside that lane's dispatcher.
* `v_retime` (TimeoutIsOwn): `dispatch()` changes the socket's timeout without the lock.
* `v_rewrap` (RebuiltIsNew): the factory wraps any kept dead socket again (MAIN recovers
  on the next retry through `_drop_connection`; the 9601 and board roles do not).
* `v_lost` (GrantedLasts): a subscription that succeeds while another thread stops the
  snapshots is taken back with theirs, and its caller is not told.
* `v_bucket` (BucketsKept): two openers that save their offset at once lose one of the
  two, as the file is read and written in two steps.
* `v_retry` (RetryRenews): the K-line call's retries close the connection of one role
  and go on using the one the account kind chose.
* `v_list` (OnlyAcknowledged): any answer of its kind is taken for the acknowledgement
  of a change to the code list, also one that says nothing was taken.
* `v_list` (LabelIsRead): `services/quote.py:449` takes a ten-level quote without a code,
  and `features/history_timeline_protocol.py:717-724, 771-779` gives a table without a
  label the requested code, though :580 speaks of mixed responses only.  Such an answer
  may be the late one to an earlier request.
* `v_stream` (EventsPass): `_publish_stock_event()` waits for the stream lock
  (`server/runtime.py:219`) in a thread that has a lane's request lock.  The holder of the
  stream lock may be waiting for that lane without a limit: an activation in
  `acquire()`'s probe (`connection_manager.py:153`, `connection.py:204`), the last
  release in `stop_snapshot()` (`connection_runtime.py:680`) or the connection's close
  (`connection.py:300`).  Both wait for good.
* `v_beat` (NoBeatBeforeInit): `_finalize_main_login()` stops the heartbeat so that it
  does not write to the new MAIN before the handshake
  (`connection_primitives.py:280`, "先停掉，避免替换 _sock 后抢在 init 之前向新连接发心跳"),
  but `stop_heartbeat()` waits five seconds and forgets the thread, and
  `start_heartbeat()` clears the flag it would have ended at.
* `v_race` (RestIsClosed): "用最先成功的，其余关闭" (:615) says of the hosts that race
  that all but the first are closed.  Two that look before either has won both win; the
  first in the list is returned (:666) and nobody closes the other.
* `v_passport` (OnePassportOneSocket): `authenticate()` says that one generation is for
  the first login of one socket (`client.py:920`), but the board, 9601 and K-line openers
  take the current one (`connection_primitives.py:699`, :736, :1312), with which a
  Level-2 opener or MAIN has logged in.

Two promises have exceptions that the properties name.  `dxjl_stream` says that nothing is
missed once one has subscribed (`server/app.py:795`, "订阅后零遗漏").  `PushesKept` leaves out
the pushes that `board_calcext()` reads away, those in a frame that a timeout tears, and
what lies on a connection that is given up; `NoGap` speaks of a listener that only
listens, because a message from the browser makes the handler take a row out of the queue
and drop it.  Each of these rows is missed.

Seen while reading, and not stated: `client.py:1137` calls `_clear_cache`, a
static method, by its bare name; the history timeline's retry may close a MAIN connection
that another call has just renewed; a request that sees an old failure late resets
`_connected_once` after another has logged in again, which costs a login; a viewer
that is cancelled during its subscription leaves the count behind.

## The proofs

`MarketSession_proofs.tla`, for any sets of calls and sessions, any bundle size:

* `TypeCorrect`: `TypeOK` with `WellCalled` (a call that has begun has a kind of the
  instance and a session).
* `SoleReaderHolds`, `NoStolenAnswerHolds`: assume one session on the socket and no
  push reader: exactly the two conditions whose absence the hazards describe.  The
  inductive invariant adds `LockExcludes` (who is at a place inside the lock is its
  holder) and `OwnerIsAlone` (while a caller that waited for idleness has the lane,
  no dispatcher has work or a reader).  The second is what `SoleReader` alone lacks:
  a reader may become active only through a submission, which needs the lock.
* `PendingIsServedHolds`: inductive with the types alone, for any number of sessions.
* `DetachedIsSettledHolds`: needs `WaitingIsPending` (a waiting future is in its
  dispatcher's list) and `DetachedIsEmpty` (a session loses its socket only after its
  dispatcher was closed and emptied, and nothing is submitted to a closed one).
* `GatesIncreaseHolds`: needs `GatesInOrder`: gates are distinct, published before the
  wait for the lock, and a caller that passed the check has a gate above all sent.

The parts of these invariants are defined at the end of `MarketSession.tla`.

`ConnectionRegistry_proofs.tla`, for any threads, roles, sockets and connections,
from `RolesAssumption` and `NoneAssumption`:

* `TypeCorrect`: `TypeOK` with `AtWork` (a thread has what its place needs).
* `KeepsPromiseHolds`: the refinement of `RoleRegistry`.  Every step installs one
  connection, removes some, shuts one, or leaves table and connections alone
  (`StepEffects`); the invariant `IInv` makes each of these the abstract step.  It
  adds to the types `ManagerExcludes` (the manager's lock has one holder, who is at a
  place inside it), `HolderKnowsEntry` (between its check and its entry the holder's
  view of the table is still true, because nobody else can write it),
  `RegisteredIsOpen` and `RetiringIsRemoved` (a removed connection is one thread's to
  close, and open until then).

In its second half, from the same assumptions, the sockets behind the connections:

* `OwnedIsOpenHolds`, `NothingLeaksHolds`.  Neither is inductive.  `OwnedIsApart` says
  nobody but its connection can reach an owned socket, `PrivateIsApart` that a socket
  just opened is its opener's alone, `HandIsKnown` that any other socket in hand is
  kept by the client or closed, and `OpenIsHeld` is `NothingLeaks` with the hands that
  count made precise.  Every step looks, opens, closes, gives, wraps or retires a
  socket (`StepOnSockets`), and each of the six keeps the four.  `Adopt` is the
  delicate one: that a refused owned socket is still private, so that its opener may
  close it, needs `OwnedIsApart`.  `RolesFit` and `RetiringIsUnderWay` say which roles
  reach which place, and that removed connections wait for a thread on its way.

The parts are defined at the end of `ConnectionRegistry.tla`, and TLC checked each on
the instance of `registry` before it was proved.

`ServiceCalls_proofs.tla`, for any finite set of callers and any calls they make, from
the assumptions on the constants:

* `TypeCorrect`, `LeasesAreCounted`: a capability's lease counter is the number of
  calls at a place between their lease and their release whose plan asks for it.  With
  the types (`Fits`) this is inductive: each step moves at most one caller in or out.
* `RolesAllowedHolds`: inductive with the types; a change of profile closes the roles it
  no longer allows in the step that installs it.
* `GrantsEndHolds`: needs the count (a call that holds a lease is counted, so a profile
  computed with no lease asked has no grants) and `GrantsAreSeen`: what the profile
  affirms, the evidence affirms or a call in progress asks for.  Evidence only grows.
* `LeaseHoldsHolds`: the action property from the same invariant: the only profiles
  installed besides an explicit refresh include the grants of every counted lease.
* `RetryIsFreshHolds`: by `FailedIsDropped`: a connection that failed a call is only in
  its hands between the failure and the verdict, which drops it before it asks again.

`Channel_proofs.tla`, for any openers, roles, hosts (two at least) and passports:

* `EvidenceCoherentHolds`: a recorded observation is refused when it contradicts.
* `TypeCorrect`: inductive by itself.
* `StandingIsProvedHolds`: by `OpenersHaveProved` (what an opener has on record at the
  place it has reached: at its handshake a login that was answered one way or the other,
  after it a login and a handshake that were accepted) and `StandingHaveProved` (so have
  the sockets that stand).  Both need that nothing takes a yes back: an observation against it is
  refused (`ProvedStays`), and who did not get its own recorded does not go on.  That the
  profile follows from the record needs `EvidenceCoherent`.
* `RotationMovesHolds`: by `AloneIsAlone` (an opener that nothing overlapped is alone
  at work), `SweepsAreOfHosts` (positions and numbers tried are those of the hosts),
  `AloneIsInStep` (alone, the table in memory and its file say the same between the
  saves) and `FailureMovedOn` (after a failed sweep of a role its offset is not the
  position it had begun at, modulo the number of hosts: the lemma `AdvancedMoves`).

In its second half the requests over a connection (`LaneReads`), for any callers, codes,
frame limits, page sizes, lengths of the ranking and moduli of the sequence.  From
`SequenceAssumption`, `LimitAssumption` (the limits are numbers, the sizes not zero),
`CallersAssumption` and `ClientsAssumption`: a client makes calls that have a plan, and is
looked at for fewer requests than there are sequence numbers.  The code has 65535 of them
and no protection behind that: an answer that stays unread while that many requests are
sent would be taken for another's.  The theorems are about the clients for which that has
not happened.  `Fresh` is written with the rank of a row and not as a filter, which is
recursive; that every rank is some row's is a lemma of its own (`PlacesAreTaken`).

* `ReadsTypeCorrect`: inductive with `OneReads` (who reads holds the lock), `FramesAreSound`
  (a stray byte follows the frame it was left outside of; no frame is torn before it is
  read) and `HasNoResult`.
* `AnswerIsOwnHolds`: what insists on a code takes a frame only when the code is its own,
  which the lemma `TakesItsOwn` reads off the plans' table (`PlansAreSound`, one line of it per
  plan).  What numbers its requests needs more: `NumberIsOwn` (whatever bears the
  number of a reading call is its request), which a new request keeps only because its
  number is not among those still on their way.  That is `NumbersAreRecent`: a number is
  as many numbers old as there were requests since, at most (`Gap`, which counts around
  the modulus and leaves 0 out); so the number given next, the oldest, is nobody's.
* `PagesFollowHolds`: by `NumberIsOwn` again and `PagesInOrder` (the rows so far are the
  first ones and the next page is asked for from there): no row of the page was seen, so
  the fresh ones are all of it (`FreshIsAll`).
* `EmptyIsHonestHolds`: by `RemembersOdd`: after an answer it could not use the loop has
  seen it, whatever follows.  For a loop that goes by numbers this needs `AnsweredOnce` (no
  second answer to the same request is on its way, which would be taken).

`HeartbeatMonitor_proofs.tla`, for any lanes, sockets, probes, heartbeat threads and
threshold:

* `TypeCorrect`, `StateIsEarnedHolds`: every step leaves a lane's record alone or
  changes it in one of the monitor's ways (`Change`), and each of these keeps what is
  said of a record (its type, `Earned`, and `Bound`: a lane with a
  probe or a failure is bound, and only a pending probe is late).
* `UnresponsiveIsDeadHolds`: needs `FailuresAreReal` (a failure on its way to the
  monitor is about a socket that has died) and that a socket taken as new is one nothing refers to.
* `MissIsOwnHolds`: needs `FuturesAreAbout` and `AtWork` (an unfinished future, and a thread at
  work, has its lane and socket, and a thread that began a probe has that probe) and
  `ExpiredAreLate` (what an expiry collected is late as long as it is pending).
* `UnresponsiveSticksHolds`: from the same invariant, by the monitor's ways again.

`MainLogin_proofs.tla`, for any callers, hosts, sockets and limits (at least one host
races, at least one attempt is made):

* `FitsHolds`: the types, `UsesWhatItHas` (who refers to a socket is at a place where it
  uses it) and `RacersAreNew` (a socket in a race is one thread's and was never MAIN).
  Without the last, closing a loser's socket could close one that somebody else needs.
* `MainIsUsableHolds`: by `InitIsDue`: an open MAIN that is not initialised has a caller
  at its handshake with that very socket in hand.  It holds also of logins that overlap.
* `HeartbeatAfterInitHolds`, `TimeIsKnownHolds`: by `ExchangesAlone`: of logins that do not
  overlap, one is at most in the exchange, the client's heartbeat is stopped while it is,
  and the MAIN it finds is its own or none.  A heartbeat that a stop gave up (`stray`) is
  not part of this: `v_beat` shows what it does.

`PushSubscriptions_proofs.tla`, for any callers, readers, topics (one at least), sockets
and frames on the wire (`TopicsAssumption`, `WireAssumption`: a subscription asks for
something, and an acceptance can be on its way):

* `TypeCorrect`: `TypeOK` with `TriesCounted`; the second attempt is the last.
* `KnownIsLocalHolds`: needs `AcceptedIsServed`: an acceptance on a socket's wire is of a
  registration the server took on that socket, so who reads it may remember it.
* `NoCloseUnderLockHolds`: the action property, from `LaneIsHeld`: a snapshot reader in its
  read and a caller that waits for its acceptance have the lane, and a stop needs the lane
  to close.  It is about these two.  The dispatcher's reader of a Level-2 quote
  holds no lock and is not in the module; `stop_snapshot()` does close under it.
* `WantedIsServedHolds`: needs `StopsAreClean`: while no stop has overlapped an activation,
  the flag and the thread object an activation finds are not those of a stop that is
  still under way.  `WantedIsServed` by itself says nothing of the places between the
  flag, the object and the start, at which a reader is promised and does not run yet.

`ThsServer_proofs.tla`, for any threads, requests, viewers, timers, stocks, pagers,
listeners, markets (one at least) and sizes of the snapshot, the buffer and the queues.
From the assumptions that say which actor is a thread (`ThreadsAssumption`,
`StockThreadsAssumption`, `DxjlThreadsAssumption`), that one thread is one actor
(`ActorsAssumption`), and `LossesAssumption`, `MarketsAssumption`, `SizesAssumption`.  The
bounds on pushes, pages and breaks need none: they only restrict the steps.  What a step
of one part does to the client and to the other parts is summed up first (`OnRuntime`),
so each part is proved by itself:

* `RuntimeTypeCorrect`, `SecondChanceHolds`: by `LoginIsDue`: who met a connection that is
  gone takes the flag back before its attempt ends, so that the retry logs in or finds
  somebody else's login.
* `StockTypeCorrect`, `WatchedIsActiveHolds`, `IdleIsReleasedHolds`: by `LockIsHeld` (who
  keeps the stream lock over a call is in that call), `SubscribersFit`, `ActiveIsOn` (what
  the server has on, the client has) and `TimersFit` (a timer in the table is a live one
  of its stock).  The last is why a release that was scheduled before a viewer came
  takes nothing away: it does not find itself in the table any more.
* `PushesKeptHolds`: by `RowsWereSent`, and by counting.  `Copies` is the number of places
  a push has in a sequence; every step is one of ten moves of rows (`RowsMove`), and each
  keeps the sum over wire, pending pushes, the collector's hands and the buffer's past,
  or writes the push down as missed.
* `NoGapHolds`: by the count (what is stored is stored once, and what the collector holds
  is not), `BufferIsRecent` (the buffer is the end of the past, behind the rows of a page),
  `FansListen` (who is not away is told of the next row) and `LeavesNoGap`, which is `NoGap`
  for those as well who have a queue and no snapshot yet.  The order of the handler is
  what makes it hold: the queue before the snapshot.

The parts are at the end of each component's module, and TLC checked each before it was
proved.

Only model-checked: the liveness properties (`CallsEnd`, `FuturesSettle`,
`PendingResolves`), which are out of the prover's reach, with the two runs that
show a violation.  Every safety property that a passing run checks is a theorem.
There are no recursive operators.

## Not modelled

* The binary layouts (`codecs/*`, `features/*_protocol.py`, `protocol.py`): pure
  functions of long byte strings, without state; what a frame delimiter loses on a
  timeout, and the frames a loop cannot read, are in the modules that read.
* Stock names, the stock cache and the block files: HTTP, files and tables.
* The caches of the facade (anchors, seals) and of the block table,
  `disconnect()` in one piece (its parts are in `HeartbeatMonitor`, `PushSubscriptions` and
  `ConnectionRegistry`), `initialized` on adoption, the summary of a preheat.
* The REST routes one by one (each is a call of the runtime), the user interface, the
  QR exchange, intervals and elapsed time: how long the manager's lock is held over a
  login is not a property of these modules.
* The second Level-2 lane beside the first in `PushSubscriptions`, and the client's own
  `MarketSession` on a socket that a `ManagedConnection` uses too.

## What is left to do

The proofs assume what the models leave out: a parser that tells a code where there is
one, a server that numbers its answers as it was asked.  Recorded streams against the plans of
`LaneReads` would test that.  The liveness properties could be proved with another
prover; here they are checked on the instances.
