# Verification of taxi-app

TLA+ models of the taxi-app back end (`src/`), the TLC runs that check them on
small instances, and theorems about them checked by TLAPS.

## 1. The system

| Part | State it keeps | Operations | Talks to |
|---|---|---|---|
| Trip API (`cmd/api`: `handleRide`, `transition`, `emit`; `trip.Cache`) | none in the process; the Redis record `trip:<id>` (1 h TTL) | request a ride, start, complete, cancel, read | Redis (GET, SET), matcher, surge, Kafka `trip-events` keyed by region |
| Trip worker (`cmd/tripworker`, `trip.Store`) | Kafka offsets; Postgres `trips` and `trip_events` | read, apply, notify | Kafka, Postgres, Redis pub/sub |
| Location ingest (`cmd/api`: `handleLocation`) | a semaphore of 5000 slots | accept or shed a ping | Kafka `driver-locations` keyed by region |
| Location worker and geo index (`cmd/locationworker`, `internal/geo`) | Redis `geo:drivers:<region>` and `driver:<id>` (15 s TTL) | Upsert, Remove, Nearest, Supply | Kafka, Redis |
| Matcher (`internal/match`) | none | Best | geo index |
| Surge (`internal/surge`) | Redis `demand:<region>` (1 min TTL, re-applied) | RecordDemand, Multiplier | Redis, geo index |
| Region sharding (`internal/region`) | none | Key, Neighbors, Geohash | |
| Gateway (`cmd/gateway`, `internal/pubsub`) | one goroutine pair and one subscription per socket | serveWS | Redis pub/sub, WebSocket |
| Driver apps (`apps/driver`, `mobile/driver`) | online flag, ping timer, trip on screen | toggle, ping, move, start, complete | API, gateway |
| Rider apps (`apps/rider`, `mobile/rider`) | trip and state on screen | request, cancel | API, gateway |
| Plumbing (`kafkax`, `redisx`, `db`, `config`, `httpx`, static servers) | connections | set-up | |

What makes it hard:

* **No transaction spans two stores.** The API reads and writes a Redis record
  without a condition and then publishes; the trip worker commits offsets
  independently of Postgres; a search reads the geo index in several round trips.
* **Calls fail in the middle.** A SET or a produce may take effect and report an
  error, or be repeated by the client library.
* **Offsets are committed before the work is done**: `kafka.Reader.ReadMessage`
  queues the offset of the message it returns.
* **Order is per partition only**, and a driver who crosses a region changes
  partition.
* **Notifications are at most once**, their errors are dropped.

What makes each part correct, in a sentence: a trip never leaves its lifecycle,
and what is published, stored and announced of it was granted first (trip API,
trip worker); a disturbance costs the events it cut short, no neighbour of theirs,
and never stalls a partition (trip worker); a driver who is there can be matched and one who left
cannot (geo index); slots are returned (ingest); a price is bounded and follows
demand and supply (surge); a screen ends up showing the trip (gateway, apps).
`PROJECT.json` lists every hazard at its line, with the properties that cover it.

## 2. Modules

| Module | Models | Main source |
|---|---|---|
| `TripStates` | trip states, the transition table | `models.go`, `trip.go:21-32` |
| `TripLifecycle` | the abstract promise about one trip: the set of states it has been given | `trip.go:21-32` |
| `TripApi` | the API's trip handlers, one process per HTTP request | `cmd/api/main.go:132-211, 239-258` |
| `TripApiProofs` | its theorems, for callers that race and for callers that do not | |
| `TripWorker` | the consumer group and the Postgres projection | `cmd/tripworker/main.go`, `trip.go:65-105` |
| `TripWorkerProofs` | its theorems | |
| `TripPipeline` | `TripApi` and `TripWorker` over one stream | |
| `TripPipelineProofs` | its theorems, from those of both parts | |
| `DriverIndex` | phones, location partitions, location worker, geo index, searches | `geo.go`, `cmd/locationworker`, `apps/driver/static/app.js:33-71` |
| `DriverIndexProofs` | its theorems, and those of `Dispatch` | |
| `Live` | an app's reconnecting WebSocket client, the gateway's sessions, the pub/sub channel | `cmd/gateway`, `internal/pubsub`, `live.js`, `live.ts` |
| `LiveProofs` | its theorems | |
| `TripScreens` | what riders' and drivers' apps show and offer, over the API and its notifications | `apps/*/static/app.js`, `mobile/*/App.tsx` |
| `Dispatch` | ride requests over `DriverIndex`: the candidate found becomes a trip's driver | `match.go`, `cmd/api/main.go:76-80` |
| `Region` | the geohash loop, shard keys and the keys a search reads | `region.go` |
| `Boundary` | filing and finding a driver near the line between two shards (for a theorem of `EdgeProofs`; no run) | `region.go`, `geo.go:31-104` |
| `Ingest` | the ping handler and its semaphore | `cmd/api/main.go:100-130` |
| `Surge` | the demand counter, the price formula, a quote as round trips | `surge.go`, `geo.go:106-111` |
| `Edge` | `Ingest` (over `Region`) and `Surge` in one API process that may restart | `cmd/api/main.go` |
| `EdgeProofs` | its theorems, and those of `Region` and `Boundary` | |
| `MC*` | model values and symmetry of the instances | |

### TripApi

`cache[t]` is the Redis value of `trip:<t>` (driver and state; the other fields
never change or carry no control). `log` is the partition of the trip's region.
`req[r]` is the goroutine that serves request `r`: its program counter, its
local `models.Trip` and the attempts left of the call it is in. `landed` is a
history variable: the requests whose `Put` took effect.

| Action | Code |
|---|---|
| `Refuse` | every early return before a write (400, 404, 409, 500) |
| `Ride` | `handleRide` up to the first `emit`; the matcher answers any driver or none |
| `EmitRequested` | `emit(REQUESTED)` and the branch on `ok` |
| `Transition` | `trips.Get`, `CanTransition`, `t.State = to` |
| `Put` | `trips.Put`: an unconditional SET, with or without effect, acknowledged or not |
| `Emit` | the `emit` after a `Put`; its failure is only logged |
| `Abort` | process exit, or a cancelled request context |
| `Expire` | the TTL, or a Redis restart |

A call that reaches Redis or Kafka is one attempt (`Resume`): it may be answered
or the client library may repeat it, up to `MaxTries` times. A write that lands
after its request's context was cancelled is the same behaviour as the context
being cancelled after the write.

`polite` is an assumption on callers, not code, chosen once in `Init`: no two
requests in flight on one trip. Nothing in the code enforces it, so the strict
lifecycle properties are stated for it (`polite => ...`), both kinds of callers are
explored by one run, and the run `api_terminal` shows what happens without it.

### TripWorker

`log` is a partition, `committed` the group's offset, `owner` the worker the
group gave the partition to, `worker[w]` a process (`pc`, the offset in `hand`,
the last offset fetched `pos`, the highest one `queued` for commit). `audit` holds
the offset behind each row of `trip_events`, `trips` is the projection,
`announced` the offsets `notify` was called for. `Read` queues the offset before
`Apply`, as `ReadMessage` does; `Flush` is the commit ticker (`CommitInterval`);
`Apply` and `RollBack` are the two ends of the transaction of `Store.Apply`, and
`Apply` may still report an error after its commit.

`Stop` is SIGTERM and only cancels the context. The loop does not look at it before
`ReadMessage`, which picks at random between a buffered message and the cancelled
context: so a stopping worker may read any number of events under a context no
transaction begins with (`Drop`), a call under way may still succeed (`Apply`,
`RollBack`), and `Exit`, in which the deferred `Close` flushes the queue or fails to, comes
when `ReadMessage` reports the context. One SIGTERM can cost as many events as are
buffered. Events of the trips in `Refused` can never be stored (a value Postgres does not
take): every `Apply` of them fails, without being counted as a fault.
`Rebalance` leaves the old owner running with the message it holds. The
consumer group itself (one owner, commits of others refused, a new owner starts
behind the committed offset) is external and modelled from how it is used. What
may be published is `Publishable`: one driver per trip, and REQUESTED only while no
other state of the trip is on the stream. REQUESTED may come twice, because
`kafka.Writer` repeats a write whose answer it missed. One partition is enough: events of a trip share it, and partitions share no state
but the worker's loop.

`faults` counts what goes wrong. Two history variables say what was hit: `cut`, the
offsets whose own `Apply` failed, that were dropped, or that were flushed and then died in
the hand of a crashed worker; and `again`, those given out a second time, because their
reader was gone before it flushed them or lost the partition with them in hand. A crash of
an idle worker with nothing unflushed adds to neither.

### TripPipeline

Both modules instantiated on one `log`. The worker's own `Publish` is replaced by
the API's steps, and `FeedsTheWorker` checks that those steps are ones
`TripWorker` allows its environment, so its properties carry over. `TripWorker` bounds the
stream by `MaxEvents`, which the API does not; the run's requests stay below it, and
where the theorems need it they say so (`WithinBound`).

### DriverIndex

A phone has a region `at[d]`, an `online` flag and pings in flight (`sending`,
a set: HTTP requests are not ordered). `part[r]` holds the uncommitted events of
the partition of region `r`, `read[r]` how many of them were read. `geo[k]` are the
members of `geo:drivers:<k>`, `meta[d]` the region in `driver:<d>` or `Nowhere` once
it expired. A search (`Nearest`) is a process of round trips: `Scan` (GEOSEARCH of
the next key), `Check` (EXISTS), `Evict` (ZREM), `Return`. `recent` is a history
variable: who was indexed where within the TTL. `road[d]` is one too: the region of the
last ping of `d`, as long as it is sure to be applied last; it is `Nowhere` once the ping was
sent while an earlier one could still be applied after it (`Races`: unpublished, unread in
another region's partition, or in the hands of a worker that lost its partition), was
itself lost (`Lost`), or may be followed by a replay (`Rewind`). Phones ping when they like;
only `FinalPingWins` is stated for a driver with a road, because nothing orders two HTTP
requests or two partitions. `Publish` appends a ping once, twice (the writer repeats a
produce whose answer was lost) or not at all. A worker that loses its partition rewinds what
was not committed, and the `Upsert` it was at may still reach Redis later (`late`, `Belated`).

`FinalPingWins` says what Remove does: the hash is gone, so no search returns the driver,
and the geo set of the region of the final ping does not hold them. The sets of regions
crossed before still do until a search evicts them (geo.go:56-62 clears one), and `Supply`
counts them meanwhile: `QuoteIsFair` is about that.

The location worker is one step per event (`Index`), because `Upsert` and `Remove`
are each one MULTI and nothing else is kept; the message a crash costs and a
failed Upsert are the same outcome, an event passed over.

### Live

A *handle* is the closure of one `connectLive` call (or one run of the `useLive`
effect): its user, whether `close()` was called, its socket and its reconnect
timer. A *session* is one call of `serveWS`: the write `loop`, the reader `pump`,
whether the socket is `up`, whether Redis knows the subscription, what is in the
subscription's channel (`ch`) and on the `wire`. Sessions outlive the client's end
of the socket until a goroutine notices, so a user can have several. `Change` is
`connect()` with another id (or a remount); `Returned` is the deferred calls of
`serveWS`; `Quit` merges `ctx.Done` with a ping that cannot be written. Notifications
are numbered in the order they were published.

`ClearsTimer` tells the clients apart: `live.ts` clears the reconnect timer when it
is closed, `live.js` does not, and with `ClearsTimer = FALSE` TLC violates
`OnlyCurrentListens` (close while a reconnect is scheduled: the timer opens a socket
nobody can close). The converse of `LiveMeansLive` fails for both clients: the close
event of a replaced socket turns the pill to "disconnected" while the new one is open.

A cut may be `quiet`: no FIN or RST tells the client. Neither client sends anything or
has a heartbeat, so such a socket may stay "connected" for ever (`Deaf`); the gateway
finds out through its ping. `OnClose` is owed only to a client that is not deaf, and
`Reconnects` ends in a socket that listens or in a deaf one.

### TripScreens

`rider` and `driver` are what the apps remember, `calls` the HTTP requests in
flight with their answers, `notes` the notifications on their way. The back end is
one step per request (`ServeRide`, `ServeTransition`) and loses nothing: what goes on
inside it is the matter of `TripApi`, and that notifications arrive in order and at most
once is what the other modules show for one partition. A ride is matched with any driver,
on a trip or not. `Hear` and `Notified` are the handlers; neither compares trips.
`CanStart`, `CanComplete` and `CanCancel` are the buttons: the web driver's are switched
by handlers, the mobile ones derive from the state shown (`Mobile`).

The run is of one claim, that a driver is offered the steps of a trip
(`mobile/README.md:60`, `README.md:74-76`), stated at rest and for a trip that was the driver's
only one all along (`alone`), so that the double assignment of `midtrip` is not counted here.
It fails without any loss, in the mobile apps and, with `Mobile = FALSE`, in the web ones. Other
promises a reader may expect fail for plainer reasons and are claimed by no text: two
presses of Request leave a trip the rider cannot cancel; a lost answer to Start leaves the
web driver without Complete.

### Dispatch and Boundary

`Dispatch` adds trips to `DriverIndex`: `Match` is `matcher.Best` and the assignment of
`handleRide`, which write nothing about the driver, and the apps ping on with the
flag they have. `during` is a history variable, the drivers mid-trip when a search
began: the run `midtrip` concerns a search that begins *and* ends during a trip, not
one that a start overtakes. `Boundary` keeps of `Upsert` and `Nearest` only which keys
they use, over grid points; it is the subject of `SearchIsOfOneShard`.

### Region, Ingest, Surge and Edge

`Region` is the loop of `Geohash` as a recursive function of the number of turns, on a
grid of `2^Depth` points in each direction: both axes of the code run from a
number to its opposite and are halved alike, so one grid does for both, and every
midpoint the loop reaches is a grid point. A character is its index in the
alphabet. `CellOf` says what a geohash should be, bit by bit, without a loop; a
point beyond the map counts as on its edge, as no request is checked.

`Ingest` is one goroutine per ping: `Acquire` is the `select` with its `default`,
`BadBody` the early return and `Written` either end of `WriteMessages`, each with the
deferred receive. The capacity of `ingestSem` (5000) is `Slots`. The message a handler writes
carries the position and the key computed from it.

`Surge` keeps one region. `demand` is the Redis value, and `recent` stands for time:
the requests of the last window, each with whether its EXPIRE ran, so the key has
a TTL exactly when one of them did, and it is gone when the last of those leaves
the window (`Lapse`). INCR and EXPIRE are one pipeline and no transaction: nothing, or
only the first, may have happened, and go-redis may repeat both. `since` and `exact`
are history: requests since the region was last quiet, and whether a call failed
since. `Get` and `Supply` are the two reads of `Multiplier`, with the geo set
changing in between as `internal/geo` lets it; an error of either reads as zero.
A multiplier is a fraction.

`Edge` is the process: `Restart` empties the semaphore and ends the quotes in
progress; Redis stays.

## 3. Runs

Passing:

| Run | Instance | Shows |
|---|---|---|
| `api` | 3 requests, 1 trip, 2 drivers, 2 attempts, both kinds of callers | histories are explained (`TripLifecycle!StaleSpec`); one driver per trip; the stream never runs ahead of the cache; REQUESTED first; with polite callers the strict lifecycle (`TripLifecycle!Next`), cache and stream in order; types |
| `worker_faults` | 2 workers, 2 trips of which one is refused for ever, 2 events, 2 faults of any kind | only events cut short are lost; announced implies stored; only events given out again are repeated or out of order; a row is the replay of its audit log; the driver is kept; the partition never stalls, though an event can never be stored; every other event is stored unless it was cut short |
| `pipeline` | 3 requests, 1 worker, 1 crash or error, both kinds of callers | the API satisfies the worker's assumptions; nothing stored that was not granted; rows settle on the last event published, unless that very one was cut short or one of the trip was given out again; with polite callers rows never lead the cache, and only advance while nothing is redelivered |
| `live` | mobile client, 2 handles, 2 sessions, 2 notifications, 2 faults, cuts noticed or silent | at most once and in order; only the current handle listens; a "connected" app has an open socket; sessions end; the app reconnects unless its socket died silently |
| `index` | 1 driver, 2 regions, 1 search, 2 pings on their way, 1 fault | a final ping that nothing can overtake clears the hash and the region left; who left is forgotten, who stays is found again |
| `edge` | 2 handlers, 1 slot, 4 positions; 2 drivers, 1 quote, 2 requests in a window, 1 failed call; a restart at any time | no slot leaks, and shedding ends unless every slot is held by a body still arriving; pings carry the key of their cell; the counter misses no request of the last window and heals; prices are fair |

Failing, each a disagreement of the code with its own text (`findings`):

| Run | Disagreement |
|---|---|
| `api_terminal` | two racing requests overwrite a terminal state |
| `worker_retry` | a failed Apply is not retried: its offset was already queued |
| `index_moved` | a driver stays a candidate in the region they left |
| `midtrip` | a driver on a trip is found and given a second one |
| `surge_window` | the demand counter is not of the last minute but of the whole busy spell |
| `screens` | a late answer about one trip takes the next one's Start button away |

A further disagreement is proved rather than run: `geo.go:64-66` says a driver just over a
shard boundary is still found, and `SearchIsOfOneShard` with `CoarseIsParent` say that a
search is of its own shard for every map. And `load-patterns.md:49-50` says trip events
"cannot be lost": `worker_retry` refutes it in the worker, and `Emit` of `TripApi` (an
error that is only logged) does the same in the API.

**Bounds.** Three requests are the smallest race on a trip (a ride and two
transitions). Two attempts give every combination of a lost answer and a
repeated call. In `pipeline` the worker is alone and attempts are single, as
repeated calls and two owners are the matter of `api` and `worker_faults`. Two workers give an
old and a new owner; two events leave one behind the one in hand or committed;
two faults compose any pair of disturbances. Two handles are the old and the new
connection of an app, two sessions the one the client left and the one it opened;
users do not share anything in `Live`, so one is enough. Drivers share only the
order of a partition and a search's locals in `DriverIndex`, so one driver over two
regions meets every race there is. `MaxSending` of two lets one ping overtake another. Two
trips put an old and a new one on the same screen, and `MaxLag` of three lets the end of the
old one and the start of the new one be in flight. `MaxEvents`, `MaxFaults`, `MaxTries`,
`MaxNotes`, `MaxLag`, `MaxSending` and `MaxRecent` appear only in guards. One slot and two handlers
put a handler at the limit of the semaphore; `EdgeProofs` has any number of both.
Two requests in a window are the fewest of which one can lapse and leave the other.
`MaxDemand` (4) stands for that many requests or more: the counter and the history
it is compared with saturate together, so that traffic may go on for ever.
`Precision` 2 over `Depth` 6 (a map of 64 by 64 points, cells of 2 by 2) has every kind of
turn the loop makes, the end of a character and the coarse key included; the four
positions are on the first lines, just under them, on later lines and beyond two
edges. A liveness run bounds faults because
nothing is promised while workers are killed for ever. Deadlock checking is off
where the instance really ends: all requests served, all events drained, every
handle in use. Symmetry is used in safety runs only.

**Fairness.** `TripWorker!Fairness` is weak fairness of each step of a worker: the
orchestrator restarts it, the group assigns the partition, the commit ticker
fires, calls return, and `ReadMessage`, called again and again with a cancelled context, at
some point reports it (`Exit`). Of `Apply` and `RollBack` only that one of them ends the
transaction. API requests have none. `DriverIndex!Fairness` is weak fairness of the
4-second timer, of the delivery or loss of a ping, of the location worker and of
the expiry of keys no ping renews; searches and the driver's own decisions have
none. `Edge!Fairness` is that `WriteMessages` returns within its attempts and that time
passes; a body need never end, as the server sets no `ReadTimeout` (main.go:84), and nobody
owes a request. `Live!Fairness` is that of each
handler of the client and each goroutine of the gateway, but for the close event of a deaf
client; that a write or a read on a lost socket fails in the end *in the gateway* is its
30-second ping. `TripScreens` and the other violation runs check safety and state none.

Behaviours the models keep that no run is about: a transition answered 200 whose
event is lost (`Emit`, main.go:252-257); an unmatched ride that has an id and no record
(`AfterRequested`, main.go:159-170), which the mobile app can then neither cancel nor
leave; a redelivered event that takes an ended row back (`Upsert`, trip.go:85-93); a
ping in flight that overtakes the final one (`Races`); the eviction of a driver indexed
between EXISTS and ZREM (`Evict`, geo.go:86-90), which `OnlineIsFound` shows to heal;
a failed ZCARD, which prices a ride at the cap (`Supply`, geo.go:109).

## 4. Proofs

`TripApiProofs` proves for every set of trips, drivers and requests, every
`MaxTries` and callers of either kind, from `TripApiAssumption` alone:

| Theorem | Statement |
|---|---|
| `TypeCorrect` | `Spec => []TypeOK` |
| `PublicationFollowsCache` | `Spec => []PublishedWasCached` |
| `OneDriver` | `Spec => []OneDriverPerTrip` |
| `RequestedComesFirst` | `Spec => []RequestedFirst` |
| `Explanation` | `Spec => StatesAreExplained`, that is `TripApi` implements `TripLifecycle!StaleSpec` |

None of these is inductive. The invariant `IInv` adds what each goroutine's local
copy satisfies (`Locals`), that a cached record was put by a request
(`CacheWasPut`), that a trip has one ride request (`OneRide`) and one driver among
its requests (`SameDriver`), and the key to the races (`History`): a state beyond
ASSIGNED that is written, *or about to be*, has a legal predecessor that was
written, and until a ride's own Put lands its trip has no state. The predecessor
stays when other requests overwrite the record, because history only grows; that
is why a stale copy is harmless for this promise and not for the strict one. Each
action has a lemma that it keeps `IInv`; actions that only move program counters
share the `Quiet` lemmas. For `Explanation` a landing `Put` is the first
assignment, a legal move or a repetition, and every other step leaves the
histories alone.

It adds, from the same assumption, what polite callers get:

| Theorem | Statement |
|---|---|
| `StrictLifecycle` | `Spec => LifecycleRespected`: given `polite`, every step that gives a trip a state is one of `TripLifecycle!Next` |
| `CacheNeverOld` | `Spec => []CacheIsLatest` |
| `StreamKeepsOrder` | `Spec => []StreamInOrder` |
| `RecordsAdvance` | given `polite`, a step keeps a record, forgets it, or moves it to a legal successor with the same driver |
| `TerminalStays` | given `polite`, a terminal record is kept or forgotten: what is true of `TerminalIsFinal` |
| `RecordKeepsDriver` | whoever races, no step gives a cached record to another driver |

Its invariant `PInv` is `IInv` and, for polite callers, that a trip is in the hands of one
goroutine (`OneInFlight`), that every history is `Proper` (no COMPLETED without
IN_PROGRESS, one outcome), that a cached record is the latest state of its history
(`Fresher`), and what a goroutine in flight holds (`Pending`): before its Put lands, a
state that `Follows` the history; after it, the latest one. The last clause is what
makes a repeated SET harmless even when the record expired in between, and what
`emit` publishes current. Three lemmas about sets of states carry the argument:
what follows a proper history becomes its latest state and keeps it proper
(`FollowerIsLatest`), and nothing in a proper history is later than its latest state
(`LatestIsNoEarlier`), which with `PublishedWasCached` orders the stream. `RecordsAdvance`
compares what a Put is about to write with what is there: both are the latest of one
proper history or one follows it, and a proper history has one latest state
(`OneLatest`).

`TripLifecycle` proves what the abstract promises are worth: `StaleHistory` (nothing
starts unassigned or completes unstarted) and `LatestGivesOneOutcome` (the strict
one never has both outcomes).

`TripWorkerProofs` proves for every set of trips, drivers and workers, every bound on
the stream and every set and number of faults, from `TripWorkerAssumption` alone:

| Theorem | Statement |
|---|---|
| `TypeCorrect` | `Spec => []TypeOK` |
| `NothingUnstoredAnnounced` | `Spec => []AnnouncedIsStored` |
| `DriverNeverForgotten` | `Spec => DriverIsKept` |
| `StoredInOrder` | `Spec => []InOrderOnceUnlessAgain` |
| `OnlyCutLost` | `Spec => []OnlyCutIsLost` |
| `RowsAreReplays` | `Spec => []RowIsReplay` |

Types need `OffsetsExist`: whatever a worker fetched, queued or holds is an offset of
the stream, which owners and former owners alike keep because the stream only grows.
A worker about to notify has stored what it holds (`AppliedIsStored`). The driver of
a row is one the stream names for its trip (`RowsAreFromLog`), and the stream names
one per trip (`OneDriverInLog`, the guard `Publishable`, a theorem of `TripApiProofs`);
so the upsert can only write the driver it finds. `StoredInOrder` rests on
`HandedOut`, about the offset the group gave out last (`Front`): what is stored or in hand beyond
it was given out again, and an offset in hand that was not is its owner's and ahead of
everything stored or held elsewhere, so that storing it keeps the order.

`OnlyCutLost` keeps account (`Accounted`): each offset the group is done with is stored, cut
short or in some hand, and what the owner has fetched beyond that is stored, cut short or in
its own. Events can leave a hand only by being stored or cut; a new owner skips none, because
an owner has queued all it fetched and the committed offset is never past that
(`OwnerQueues`). How many events one disturbance cuts short is not bounded: a stopping worker
may drop all that is buffered. `RowsAreReplays` is not inductive because a
replay says how a row was reached and a step adds an entry at an end of it:
`RowsFromLatest` says of a row what its latest entries are, the state that of the last
entry of the trip, the driver that of the last one that names any. These parts were
also checked by TLC on the instance of `worker_faults`.

`TripPipelineProofs` joins the two, for all the constants of both, from
`TripPipelineAssumption`, which is the assumptions of both:

| Theorem | Statement |
|---|---|
| `GrantedBeforeStored` | `Spec => []StoredWasGranted` |
| `DatabaseLags` | `Spec => []RowNeverLeads` |
| `RowsAdvance` | `Spec => RowOnlyAdvances` |
| `DrainedRowsAreLast` | `Spec => []DrainedIsSettled`, the safety half of `RowCatchesUp` |
| `ApiFeedsTheWorker` | `Spec /\ []WithinBound => FeedsTheWorker` |
| `WorkerKeepsItsPromises` | `Spec /\ []WithinBound =>` only events cut short are lost, only those given out again are repeated, rows are replays, nothing is announced unstored |

It instantiates the proof modules of the parts on the pipeline's variables, shows
that a step of the pipeline is one of the API that leaves the workers alone or one of
a worker that leaves the API alone (`PipelineNext`), and cites their lemmas: the
API's `PInv` and the worker's `Typed` stay invariant though the other part moves in between. What
is new is the joint: a row holds a state the stream has for its trip (`RowsStored`),
the stream holds what was granted (`PublishedWasCached`), and with polite callers
nothing granted is later than the cached record (`LatestIsNoEarlier`). `RowsAdvance` needs the worker's
order as well: while nothing was given out again, what a worker stores is later in the stream
than all that is stored (`HandedOut`), so it is no earlier than what made the row.
`DrainedRowsAreLast` puts `RowsFromLatest`, `Accounted` and that order together: the last event
of a trip that the group is done with and nobody holds is stored, unless it was cut short, and
then it is the latest entry of its trip. `ApiFeedsTheWorker` is a refinement, step by step: an `Emit` is a `Publish`, or with a
lost produce a stutter. The first attempt at it failed for a good reason:
`TripWorker` once allowed REQUESTED once only, which a repeated produce breaks
(`MaxTries` of 2 or more; the run has 1), and `Publishable` was weakened to what the code
does. The worker's theorems hold under the weaker guard.

`EdgeProofs` proves for any number of handlers, slots, drivers, quotes and failed
calls, any bounds, any depth of the map, any precision of the keys and any positions,
from the named assumptions of `Ingest`, `Surge` and `Region`:

| Theorem | Statement |
|---|---|
| `SlotsNeverLeak` | `Spec => []SlotsAreHeld` |
| `CounterIsExact` | `Spec => [](RecentIsCounted /\ DemandIsSinceQuiet)`: what is true of `DemandIsRecent` |
| `QuotesAreFair` | `Spec => QuoteIsFair` |
| `KeysAreCells` | `Spec => []KeyIsCell` |
| `ShardsAreTiles` | the positions of the map with the key of a given one are those of one rectangle of the grid |
| `CoarseIsParent` | the second key of `Neighbors` is a prefix of the first and the key of no position |
| `SearchIsOfOneShard` | `Boundary!Spec =>` every search finds exactly the entries within the radius that share its shard |

The semaphore counts a finite set, so each step moves one handler in or out of
`Holding` and the counter with it (`SlotInv`). `CounterInv` adds that in an exact spell every
request of the window had its EXPIRE (`Renewed`), so the key can only go with the last
of them, when the spell ends, and that no more requests are in the window than since
the region was quiet. The price needs only types (`PriceInv`): `factor` is fair for the
supply it is given (`FactorIsFair`, over all naturals), and what is not too much for
the members is not too much for the fewer fresh ones (`FewerDrivers`).

`KeysAreCells` is about what the recursive function `Geohash` computes. The induction
theorems of the library take an operator as a parameter, which the provers cannot
instantiate, so the induction is on a set: one that has 0 and the successor of each of
its members has every natural number, or the others would have a least one
(`LeastElement`, `CountingUp`, from the well-foundedness of `<`). The loop's variables
after `n` turns have a closed form (`AfterTurns`): the bounds of the half-open
interval are those of the position's cell at that depth, the axis is the parity of
`n`, the character begun is the bits of the cell since the last multiple of five. A turn
takes the form of `n` to that of `n + 1` (`NextTurn`, by the end of a character or its
middle, `NextCharacter` and `NextHalving`), so the function exists, is unique and ends in
`CellOf` (`GeohashIsCell`). Powers of two are numbers of subsets (`PowerIsCount`), which
is how they double. `ShardsAreTiles` reads the bits back: same bits on each axis, same
quotient by the side of a cell. `CoarseIsParent` is why the guard for the boundary adds
nothing: the parent has one character less than any key something is filed under. The
closed form, the invariant on messages and the tiles were checked by TLC on small maps
before. That a message's key is the one of its position needs `Points` to be pairs of
integers, which the assumption of `Ingest` says.

`LiveProofs` proves for every set of users, handles and sessions, any number of
notifications and faults, from `LiveAssumption`:

| Theorem | Statement |
|---|---|
| `TypeCorrect` | `Spec => []TypeOK` |
| `StatusIsHonest` | `Spec => []LiveMeansLive` |
| `ClosedStaysClosed` | `Spec => [](ClearsTimer => OnlyCurrentListens)` |
| `OrderedOnce` | `Spec => [](ClearsTimer => InOrderOnce)` |
| `AppNeverStranded` | `Spec => []NeverStranded`, the safety half of `Reconnects` |
| `GoroutinesGoTogether` | the safety half of `SessionEnds` |

`ClearsTimer` is a constant, TRUE for `live.ts`; of `live.js` the two that assume it are
false, and TLC shows it. A closed handle could listen again only through its timer, so `Retired` says
that it has neither socket nor timer. `OrderedOnce` follows a notification along its
way (`Delivery`): the subscription's channel is behind the wire, and both are behind what the
app was shown, but only for the session the listening handle is connected to, as
an older one may still hold what was shown already. For that no two handles may share a session
(`OwnEnds`), a new session must subscribe to what is not published yet, and no other handle
may show anything (`Retired`). The last two hold of both clients and say what fairness then
works on: a handle that was not closed has a socket or a reconnect scheduled (`Kept`),
and a socket that is up has both goroutines and a client of the session's user
(`Bridged`), so an end that goes away leaves an event, a timer or a goroutine that will
notice, and only a silent cut leaves nobody but
the gateway to notice.

`DriverIndexProofs` proves for every set of drivers, regions and searches and any
number of faults, from `DriverIndexAssumption`:

| Theorem | Statement |
|---|---|
| `TypeCorrect` | `Spec => []TypeOK` |
| `OfflineIsGone` | `Spec => []FinalPingWins` |
| `CandidateWasSeen` | a candidate found has a hash, written within its TTL: what is true of `CandidateIsRecent` |
| `RidesOnlySearch` | `DispatchSpec => Spec`: `Dispatch` implements `DriverIndex` |
| `OfflineIsGoneUnderRides` | `DispatchSpec => []FinalPingWins` |

The invariant `OrderlyPings` is about a driver with a road, whatever was lost, repeated or
replayed before: the pings that have not been applied take one road (`OneRoad`: at most one
unpublished, the others in the one partition it goes to, none in the hands of a worker that
lost it), and the last on that road says available only of a driver who is online
(`LastPingTells`), read or not, as it may be read again; when the road is empty, so do the hash
and the set of its region. Each clause fails without the other: with two roads the last ping
sent is not the last indexed. `CandidateWasSeen` needs that a hash that is there was written within its TTL in the
region it names (`HashIsFresh`), which also is why the TTL of `OfflineIsForgotten` always
has a hash to end.

A note on form. Two updates of one record are written `[f EXCEPT ![w] = [@ EXCEPT !.a = x, !.b = y]]`
and never `[f EXCEPT ![w].a = x, ![w].b = y]`: version 1.4.5 of the prover translates the
second so that only the first of the updates is seen, and would accept false statements about it.

Every safety property of a passing run is a theorem. Of the six claims the code
refutes, four have their true part as one: `TerminalStays`, `CandidateWasSeen`,
`CounterIsExact`, and for `NothingLost` the theorem `OnlyCutLost`. Of
`MidTripNotMatched` nothing is left but that rides do not disturb the index, and nothing is
claimed of `NextStepOffered`.

Only model-checked is liveness (`NeverStalls`, `EventuallyStored`, `RowCatchesUp`,
`SessionEnds`, `Reconnects`, `OfflineIsForgotten`, `OnlineIsFound`,
`SheddingEnds`, `CounterHeals`): fairness and ENABLED are out of the prover's reach. The
safety halves of `RowCatchesUp`, `SessionEnds` and `Reconnects` are theorems.

## 5. Not modelled

Trip data without control (the multiplier a trip carries, coordinates, timestamps);
floating-point rounding of a multiplier or a midpoint; the base32 alphabet; decode
errors of events this code produces; a Kafka broker that loses acknowledged writes
(`RequireOne`); distance ranking; wording of messages; connection and topic set-up
(`kafkax`, `redisx`, `db`), configuration, logging and CORS headers (`httpx`) and static
files, which keep no state after start; calls, answers and notifications that never reach
a screen (in `TripScreens`); back-off times and go-redis's bounded
buffer; the web driver's ping timer that survives going offline during the first
ping (its pings say unavailable, as the final one does); what a mobile rider can do
about an unmatched ride (nothing: the screen offers a cancellation the API answers
404, and no text says otherwise).

## 6. What is left

Everything of the inventory that keeps state or decides something is modelled, and
every safety property a passing run checks is a theorem. `TripScreens` reduces the back end to
one step per request; that `TripApi`, seen from its callers, implements that reduction
is argued in section 2 and not proved as a refinement. What it takes from `TripApi` and
the pipeline is proved there: legal steps of a record (`RecordsAdvance`), one driver
(`OneDriver`), a stream in order (`StreamKeepsOrder`), notifications of stored events only
(`NothingUnstoredAnnounced`), in order and at most once (`OrderedOnce`).
