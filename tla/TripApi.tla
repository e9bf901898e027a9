-------------------------------- MODULE TripApi --------------------------------
(***************************************************************************)
(* The trip handlers of cmd/api (handleRide, transition and emit) over the *)
(* Redis active-trip cache and the Kafka trip-event stream.                *)
(*                                                                         *)
(* Every HTTP request is a process: the API replicas share nothing but     *)
(* Redis and Kafka, so requests on one trip interleave at every call that  *)
(* leaves the process. A call to Redis or Kafka is an attempt that the     *)
(* client library may repeat when the answer is lost, so an attempt can    *)
(* take effect without being acknowledged and can take effect twice.       *)
(***************************************************************************)
EXTENDS Sequences, TripStates

CONSTANTS
  Trips,       \* trip ids the API may allocate (uuid.NewString)
  Drivers,     \* driver ids the matcher may return
  NoDriver,    \* the empty driver id
  NoTrip,      \* a request that holds no trip
  Requests,    \* the HTTP requests served, one process each
  MaxTries     \* attempts the Redis and Kafka clients make per call

ASSUME TripApiAssumption ==
  /\ NoDriver \notin Drivers
  /\ NoTrip \notin Trips
  /\ MaxTries \in Nat \ {0}

VARIABLES
  cache,   \* cache[t]: the Redis value of key trip:<t>
  log,     \* the trip-events partition of the region, in offset order
  req,     \* req[r]: the goroutine serving r and its local models.Trip
  landed,  \* history: the requests whose Put took effect
  polite   \* callers never have two requests in flight on one trip: theirs
           \* to choose once and for all, nothing in the code enforces it

vars == <<cache, log, req, landed, polite>>

Entry  == [driver : Drivers, state : States]
Absent == [driver |-> NoDriver, state |-> "NONE"]

Event == [trip : Trips, driver : {NoDriver}, state : {"REQUESTED"}]
         \cup [trip : Trips, driver : Drivers, state : States \ {"REQUESTED"}]

\* Where a goroutine is. "replied": a 200 was sent. "failed": an error was
\* sent, or the process or the client went away.
InFlight == {"emitRequested", "put", "emit"}
Request  == [pc     : InFlight \cup {"new", "replied", "failed"},
             trip   : Trips \cup {NoTrip},
             driver : Drivers \cup {NoDriver},
             state  : States \cup {"NONE"},
             tries  : 0 .. MaxTries - 1]

NewRequest == [pc |-> "new", trip |-> NoTrip, driver |-> NoDriver,
               state |-> "NONE", tries |-> 0]

TypeOK ==
  /\ cache \in [Trips -> Entry \cup {Absent}]
  /\ log \in Seq(Event)
  /\ req \in [Requests -> Request]
  /\ landed \subseteq Requests
  /\ polite \in BOOLEAN

Init ==
  /\ cache = [t \in Trips |-> Absent]
  /\ log = <<>>
  /\ req = [r \in Requests |-> NewRequest]
  /\ landed = {}
  /\ polite \in BOOLEAN
--------------------------------------------------------------------------------
AnyId(t) == TRUE                                              \* mutant of Fresh

\* A uuid that no request has been given.
Fresh(t) == \A r \in Requests : req[r].trip # t

\* Ids callers can name: the reply to POST /v1/rides carries one, and so does
\* every notification the trip worker makes of an event on the stream.
Known(t) ==
  \/ \E i \in DOMAIN log : log[i].trip = t
  \/ \E r \in Requests : req[r].trip = t /\ req[r].pc = "replied"

Idle(t) == \A r \in Requests : req[r].trip = t => req[r].pc \notin InFlight

\* models.TripEvent of r's local trip: DriverID is still empty in REQUESTED.
EventOf(r) ==
  [trip   |-> req[r].trip,
   driver |-> IF req[r].state = "REQUESTED" THEN NoDriver ELSE req[r].driver,
   state  |-> req[r].state]

\* The goroutine reaches pc with a fresh budget of attempts.
At(local, pc) == [local EXCEPT !.pc = pc, !.tries = 0]

\* A call to Redis or Kafka ends: r goes on as next, or the answer was lost
\* and the client library makes the same call again.
Resume(r, next) ==
  \/ req' = [req EXCEPT ![r] = next]
  \/ /\ req[r].tries + 1 < MaxTries
     /\ req' = [req EXCEPT ![r].tries = @ + 1]

\* One attempt of tripWr.WriteMessages: stored by the broker or not.
Produce(r) == log' \in {log, Append(log, EventOf(r))}
--------------------------------------------------------------------------------
\* An early return before the first write: bad body, match error, unknown
\* trip, lookup error, illegal transition.
Refuse(r) ==
  /\ req[r].pc = "new"
  /\ req' = [req EXCEPT ![r].pc = "failed"]
  /\ UNCHANGED <<cache, log, landed>>

\* handleRide up to the first emit: the matcher answers with a driver or none.
Ride(r, t, d) ==
  /\ req[r].pc = "new"
  /\ Fresh(t)
  /\ req' = [req EXCEPT ![r] = [pc |-> "emitRequested", trip |-> t, driver |-> d,
                                state |-> "REQUESTED", tries |-> 0]]
  /\ UNCHANGED <<cache, log, landed>>

AlwaysAssigned(local) ==                             \* mutant of AfterRequested
  [At(local, "put") EXCEPT !.state = "ASSIGNED"]

\* After emit(REQUESTED): an unmatched ride is answered and never cached, a
\* matched one becomes ASSIGNED.
AfterRequested(local) ==
  IF local.driver = NoDriver
  THEN At(local, "replied")
  ELSE [At(local, "put") EXCEPT !.state = "ASSIGNED"]

EmitRequested(r) ==
  /\ req[r].pc = "emitRequested"
  /\ Produce(r)
  /\ Resume(r, AfterRequested(req[r]))
  /\ UNCHANGED <<cache, landed>>

Unchecked(t, to) == cache[t] # Absent                        \* mutant of Accepts

Accepts(t, to) == cache[t] # Absent /\ CanTransition(cache[t].state, to)

\* transition(to): read the cached trip, test it, keep a modified copy.
Transition(r, t, to) ==
  /\ req[r].pc = "new"
  /\ Known(t)
  /\ polite => Idle(t)
  /\ Accepts(t, to)
  /\ req' = [req EXCEPT ![r] = [pc |-> "put", trip |-> t, driver |-> cache[t].driver,
                                state |-> to, tries |-> 0]]
  /\ UNCHANGED <<cache, log, landed>>

PutErrorIgnored(local) == At(local, "emit")              \* mutant of OnPutError

\* An unacknowledged Put answers 500 and emits nothing.
OnPutError(local) == At(local, "failed")

\* Cache.Put: a SET with no condition on the value it overwrites. The SET may
\* take effect although the call reports an error.
Put(r) ==
  /\ req[r].pc = "put"
  /\ \/ /\ cache' = [cache EXCEPT ![req[r].trip] =
                       [driver |-> req[r].driver, state |-> req[r].state]]
        /\ landed' = landed \cup {r}
        /\ \/ Resume(r, At(req[r], "emit"))
           \/ Resume(r, OnPutError(req[r]))
     \/ /\ Resume(r, OnPutError(req[r]))
        /\ UNCHANGED <<cache, landed>>
  /\ UNCHANGED log

\* emit(ASSIGNED) or the transition's emit; a failure is only logged.
Emit(r) ==
  /\ req[r].pc = "emit"
  /\ Produce(r)
  /\ Resume(r, At(req[r], "replied"))
  /\ UNCHANGED <<cache, landed>>

\* The API process dies, or the client disconnects and cancels r.Context(). A
\* call that lands after its context was cancelled is an Abort one step later.
Abort(r) ==
  /\ req[r].pc \in InFlight
  /\ req' = [req EXCEPT ![r].pc = "failed"]
  /\ UNCHANGED <<cache, log, landed>>

\* The hour of Cache.Put runs out, or Redis restarts empty.
Expire(t) ==
  /\ cache[t] # Absent
  /\ cache' = [cache EXCEPT ![t] = Absent]
  /\ UNCHANGED <<log, req, landed>>

Serve(r) ==
  \/ Refuse(r)
  \/ \E t \in Trips, d \in Drivers \cup {NoDriver} : Ride(r, t, d)
  \/ \E t \in Trips, to \in {"IN_PROGRESS", "COMPLETED", "CANCELLED"} : Transition(r, t, to)
  \/ EmitRequested(r)
  \/ Put(r)
  \/ Emit(r)
  \/ Abort(r)

Next == /\ \/ \E r \in Requests : Serve(r)
           \/ \E t \in Trips : Expire(t)
        /\ UNCHANGED polite

Spec == Init /\ [][Next]_vars
--------------------------------------------------------------------------------
(***************************************************************************)
(* Properties that hold however the requests interleave.                   *)
(***************************************************************************)
Seen(t) == { req[r].state : r \in {q \in landed : req[q].trip = t} }

SeenOfTrips == [t \in Trips |-> Seen(t)]

Lifecycle == INSTANCE TripLifecycle WITH seen <- SeenOfTrips

\* Every state a trip is given is a legal successor of a state it has had,
\* although transition tests a copy another request may have overwritten
\* (main.go:189-204).
StatesAreExplained == Lifecycle!StaleSpec

\* What consumers of the stream are told happened to a trip did happen to its
\* cached record first, driver included: Put comes before emit, and emit is
\* skipped when Put fails (main.go:171-175, 204-208).
PublishedWasCached ==
  \A i \in DOMAIN log :
    log[i].state # "REQUESTED" =>
      \E r \in landed : /\ req[r].trip = log[i].trip
                        /\ req[r].state = log[i].state
                        /\ req[r].driver = log[i].driver

\* The stream and the cache never name two drivers for one trip: a
\* transition republishes the driver it read (main.go:189, 245).
DriversOf(t) == ({ log[i].driver : i \in {j \in DOMAIN log : log[j].trip = t} }
                   \cup {cache[t].driver}) \ {NoDriver}
OneDriverPerTrip == \A t \in Trips : \A d, e \in DriversOf(t) : d = e

\* REQUESTED, when it reached the stream, is the first the stream says of a
\* trip, retries included (main.go:157).
RequestedFirst ==
  \A i, j \in DOMAIN log :
    i < j /\ log[i].trip = log[j].trip /\ log[j].state = "REQUESTED"
      => log[i].state = "REQUESTED"
--------------------------------------------------------------------------------
(***************************************************************************)
(* Properties that hold when callers do not race on a trip.                *)
(***************************************************************************)
\* The states a trip is given follow validTransitions, one after the other
\* (trip.go:21-32).
LifecycleRespected == [][polite => Lifecycle!Next]_SeenOfTrips

\* A cached record is the latest state the trip was given, not an older one.
CacheIsLatest ==
  polite => \A t \in Trips :
    cache[t] # Absent => Lifecycle!IsLatest(cache[t].state, Seen(t))

\* A terminal state is never overwritten (transition_test.go:22-27).
TerminalIsFinal ==
  [][\A t \in Trips : cache[t].state \in Terminal => cache'[t] \in {cache[t], Absent}]_cache

\* The stream of a trip never steps back, retried publications included
\* (kafkax.go:54-56: a region's traffic "is processed in order").
StreamInOrder ==
  polite => \A i, j \in DOMAIN log :
    i < j /\ log[i].trip = log[j].trip => NoLater(log[i].state, log[j].state)
================================================================================
