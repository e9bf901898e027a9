----------------------------- MODULE TripApiProofs -----------------------------
(***************************************************************************)
(* Theorems about TripApi, for every set of trips, drivers and requests,   *)
(* every number of attempts, and callers that race or do not.              *)
(***************************************************************************)
EXTENDS TripApi, TLAPS

(***************************************************************************)
(* Types.                                                                  *)
(***************************************************************************)

\* Moving a goroutine on keeps its record well formed.
LEMMA AtType ==
  ASSUME NEW local \in Request, NEW pc \in InFlight \cup {"new", "replied", "failed"}
  PROVE  /\ At(local, pc) \in Request
         /\ At(local, pc).pc = pc
         /\ At(local, pc).trip = local.trip
         /\ At(local, pc).driver = local.driver
         /\ At(local, pc).state = local.state
<1>1. 0 \in 0 .. MaxTries - 1
  BY TripApiAssumption
<1> QED  BY <1>1 DEF At, Request

\* However a call to Redis or Kafka ends, the goroutines stay well formed.
LEMMA ResumeType ==
  ASSUME TypeOK, NEW r \in Requests, NEW next \in Request, Resume(r, next)
  PROVE  req' \in [Requests -> Request]
<1>1. CASE req' = [req EXCEPT ![r] = next]
  BY <1>1 DEF TypeOK
<1>2. CASE /\ req[r].tries + 1 < MaxTries
           /\ req' = [req EXCEPT ![r].tries = @ + 1]
  <2>1. req[r].tries + 1 \in 0 .. MaxTries - 1
    BY <1>2, TripApiAssumption DEF TypeOK, Request
  <2>2. [req[r] EXCEPT !.tries = @ + 1] \in Request
    BY <2>1 DEF TypeOK, Request
  <2> QED  BY <1>2, <2>2 DEF TypeOK
<1> QED  BY <1>1, <1>2 DEF Resume

\* What such a call does: r's record is next, or only its attempts changed.
LEMMA ResumeFrame ==
  ASSUME TypeOK, NEW r \in Requests, NEW next \in Request, Resume(r, next)
  PROVE  /\ \A q \in Requests \ {r} : req'[q] = req[q]
         /\ \/ req'[r] = next
            \/ /\ req'[r].pc = req[r].pc
               /\ req'[r].trip = req[r].trip
               /\ req'[r].driver = req[r].driver
               /\ req'[r].state = req[r].state
<1>1. CASE req' = [req EXCEPT ![r] = next]
  BY <1>1 DEF TypeOK
<1>2. CASE /\ req[r].tries + 1 < MaxTries
           /\ req' = [req EXCEPT ![r].tries = @ + 1]
  <2>1. req'[r] = [req[r] EXCEPT !.tries = @ + 1]
    BY <1>2 DEF TypeOK
  <2>2. req[r] \in Request
    BY DEF TypeOK
  <2> QED  BY <1>2, <2>1, <2>2 DEF TypeOK, Request
<1> QED  BY <1>1, <1>2 DEF Resume

\* An attempt to publish a known state leaves a stream of events.
LEMMA ProduceType ==
  ASSUME TypeOK, NEW r \in Requests, req[r].trip \in Trips, req[r].state \in States,
         req[r].state # "REQUESTED" => req[r].driver \in Drivers, Produce(r)
  PROVE  log' \in Seq(Event)
<1>1. EventOf(r) \in Event
  BY DEF EventOf, Event
<1> QED  BY <1>1 DEF TypeOK, Produce

(***************************************************************************)
(* What every goroutine's local copy satisfies, by where it is.            *)
(***************************************************************************)
Later == States \ {"REQUESTED"}

Local(r) ==
  /\ req[r].pc = "new" => req[r] = NewRequest
  /\ req[r].pc \in InFlight => req[r].trip \in Trips
  /\ req[r].pc = "emitRequested" => req[r].state = "REQUESTED" /\ r \notin landed
  /\ req[r].pc \in {"put", "emit"} => req[r].state \in Later /\ req[r].driver \in Drivers
  /\ req[r].pc = "emit" => r \in landed
  /\ r \in landed => /\ req[r].trip \in Trips
                     /\ req[r].state \in Later
                     /\ req[r].driver \in Drivers

Locals == \A r \in Requests : Local(r)

\* A cached record was put there by a request.
CacheWasPut ==
  \A t \in Trips : cache[t] # Absent =>
    \E r \in landed : /\ req[r].trip = t
                      /\ req[r].state = cache[t].state
                      /\ req[r].driver = cache[t].driver

\* A trip has one ride request, the one whose local state is still that of a
\* ride, and all the requests that hold the trip hold the same driver.
Ridden(r) == req[r].state \in {"REQUESTED", "ASSIGNED"}
OneRide == \A q, r \in Requests :
             req[q].trip = req[r].trip /\ Ridden(q) /\ Ridden(r) => q = r
SameDriver == \A q, r \in Requests :
                req[q].trip = req[r].trip => req[q].driver = req[r].driver

\* A state beyond ASSIGNED, written or about to be, has a predecessor that
\* was written; and until a ride's own Put lands its trip has no state.
Explained(r) ==
  req[r].state \in Later \ {"ASSIGNED"} =>
    \E from \in Seen(req[r].trip) : CanTransition(from, req[r].state)
Unseen(r) ==
  req[r].pc \in InFlight /\ Ridden(r) /\ r \notin landed => Seen(req[r].trip) = {}
History == \A r \in Requests : Explained(r) /\ Unseen(r)

IInv == TypeOK /\ Locals /\ CacheWasPut /\ OneRide /\ SameDriver /\ History /\ PublishedWasCached

\* A step serving r leaves the other goroutines where they were.
LEMMA LocalsFrame ==
  ASSUME IInv, NEW r \in Requests, Local(r)', landed' \in {landed, landed \cup {r}},
         \A q \in Requests \ {r} : req'[q] = req[q]
  PROVE  Locals'
<1>1. ASSUME NEW q \in Requests \ {r}
      PROVE  Local(q)'
  BY <1>1 DEF IInv, Locals, Local
<1> QED  BY <1>1 DEF Locals

\* Steps that only move pcs and attempts, and put nobody in flight.
Quiet ==
  /\ UNCHANGED landed
  /\ \A q \in Requests : /\ req'[q].trip = req[q].trip
                         /\ req'[q].driver = req[q].driver
                         /\ req'[q].state = req[q].state
                         /\ req'[q].pc \in InFlight => req[q].pc \in InFlight

\* Quiet steps keep what the invariant says of the histories.
LEMMA QuietHistory ==
  ASSUME IInv, Quiet
  PROVE  OneRide' /\ SameDriver' /\ History'
<1>1. OneRide'
  BY DEF Quiet, IInv, TypeOK, OneRide, Ridden
<1>2. SameDriver'
  BY DEF Quiet, IInv, TypeOK, SameDriver
<1>3. ASSUME NEW q \in Requests
      PROVE  Explained(q)' /\ Unseen(q)'
  <2>1. Explained(q) /\ Unseen(q)
    BY DEF IInv, History
  <2>2. Seen(req[q].trip)' = Seen(req[q].trip)
    BY DEF Quiet, Seen, IInv, TypeOK
  <2>3. Explained(q)'
    BY <2>1, <2>2 DEF Quiet, Explained
  <2>4. Unseen(q)'
    BY <2>1, <2>2 DEF Quiet, Unseen, Ridden
  <2> QED  BY <2>3, <2>4
<1> QED  BY <1>1, <1>2, <1>3 DEF History

\* The same calls keep the cache and the stream accounted for when they leave
\* both alone.
LEMMA QuietCache ==
  ASSUME IInv, Quiet, UNCHANGED cache
  PROVE  CacheWasPut'
BY DEF Quiet, IInv, TypeOK, CacheWasPut

LEMMA QuietLog ==
  ASSUME IInv, Quiet, UNCHANGED log
  PROVE  PublishedWasCached'
BY DEF Quiet, IInv, TypeOK, PublishedWasCached

(***************************************************************************)
(* Each action keeps the invariant.                                        *)
(***************************************************************************)
LEMMA RefuseStep ==
  ASSUME IInv, NEW r \in Requests, Refuse(r), UNCHANGED polite
  PROVE  IInv'
<1> USE DEF Refuse
<1>1. TypeOK'
  BY DEF IInv, TypeOK, Request, InFlight
<1>2. Local(r)'
  BY DEF IInv, TypeOK, Locals, Local, NewRequest, InFlight
<1>3. Locals'
  BY <1>2, LocalsFrame DEF IInv, TypeOK
<1>4. Quiet
  BY DEF IInv, TypeOK, Quiet, InFlight
<1> QED  BY <1>1, <1>3, <1>4, QuietHistory, QuietCache, QuietLog DEF IInv

LEMMA AbortStep ==
  ASSUME IInv, NEW r \in Requests, Abort(r), UNCHANGED polite
  PROVE  IInv'
<1> USE DEF Abort
<1>1. TypeOK'
  BY DEF IInv, TypeOK, Request, InFlight
<1>2. Local(r)'
  BY DEF IInv, TypeOK, Locals, Local, InFlight
<1>3. Locals'
  BY <1>2, LocalsFrame DEF IInv, TypeOK
<1>4. Quiet
  BY DEF IInv, TypeOK, Quiet, InFlight
<1> QED  BY <1>1, <1>3, <1>4, QuietHistory, QuietCache, QuietLog DEF IInv

LEMMA ExpireStep ==
  ASSUME IInv, NEW t \in Trips, Expire(t), UNCHANGED polite
  PROVE  IInv'
<1> USE DEF Expire
<1>1. TypeOK'
  BY DEF IInv, TypeOK
<1>2. Locals'
  BY DEF IInv, Locals, Local
<1>3. CacheWasPut'
  BY DEF IInv, TypeOK, CacheWasPut
<1>4. Quiet
  BY DEF Quiet
<1> QED  BY <1>1, <1>2, <1>3, <1>4, QuietHistory, QuietLog DEF IInv
LEMMA EmitStep ==
  ASSUME IInv, NEW r \in Requests, Emit(r), UNCHANGED polite
  PROVE  IInv'
<1> USE DEF Emit
<1>1. /\ req[r] \in Request
      /\ req[r].trip \in Trips
      /\ req[r].state \in Later
      /\ req[r].driver \in Drivers
      /\ r \in landed
  BY DEF IInv, TypeOK, Locals, Local, InFlight
<1>2. TypeOK'
  <2>1. log' \in Seq(Event)
    BY <1>1, ProduceType DEF IInv, Later
  <2>2. req' \in [Requests -> Request]
    BY <1>1, AtType, ResumeType DEF IInv
  <2> QED  BY <2>1, <2>2 DEF IInv, TypeOK
<1>3. /\ \A q \in Requests \ {r} : req'[q] = req[q]
      /\ req'[r].pc \in {"emit", "replied"}
      /\ req'[r].trip = req[r].trip
      /\ req'[r].driver = req[r].driver
      /\ req'[r].state = req[r].state
  <2>1. At(req[r], "replied") \in Request
    BY <1>1, AtType
  <2>2. req[r].pc = "emit"
    OBVIOUS
  <2> QED  BY <1>1, <2>1, <2>2, AtType, ResumeFrame DEF IInv
<1>4. Locals'
  <2>1. Local(r)'
    BY <1>1, <1>3 DEF Local, InFlight
  <2> QED  BY <1>3, <2>1, LocalsFrame
<1>5. Quiet
  BY <1>3 DEF Quiet, InFlight
<1>6. PublishedWasCached'
  <2>1. CASE log' = log
    BY <1>5, <2>1, QuietLog
  <2>2. CASE log' = Append(log, EventOf(r))
    <3>1. ASSUME NEW i \in DOMAIN log', log'[i].state # "REQUESTED"
          PROVE  \E q \in landed : /\ req'[q].trip = log'[i].trip
                                   /\ req'[q].state = log'[i].state
                                   /\ req'[q].driver = log'[i].driver
      <4>1. CASE i \in DOMAIN log
        BY <1>5, <2>2, <3>1, <4>1 DEF IInv, TypeOK, PublishedWasCached, Quiet
      <4>2. CASE i = Len(log) + 1
        <5>1. log'[i] = EventOf(r)
          BY <2>2, <4>2 DEF IInv, TypeOK
        <5>2. /\ log'[i].trip = req[r].trip
              /\ log'[i].state = req[r].state
              /\ log'[i].driver = req[r].driver
          BY <1>1, <5>1 DEF EventOf, Later
        <5> QED  BY <1>1, <1>3, <5>2
      <4> QED  BY <2>2, <3>1, <4>1, <4>2 DEF IInv, TypeOK
    <3> QED  BY <3>1 DEF PublishedWasCached
  <2> QED  BY <2>1, <2>2 DEF Produce
<1> QED  BY <1>2, <1>4, <1>5, <1>6, QuietHistory, QuietCache DEF IInv
LEMMA EmitRequestedStep ==
  ASSUME IInv, NEW r \in Requests, EmitRequested(r), UNCHANGED polite
  PROVE  IInv'
<1> DEFINE next == AfterRequested(req[r])
<1>1. /\ req[r] \in Request
      /\ req[r].trip \in Trips
      /\ req[r].pc = "emitRequested"
      /\ req[r].state = "REQUESTED"
      /\ r \notin landed
      /\ UNCHANGED <<cache, landed>>
  BY DEF IInv, TypeOK, Locals, Local, InFlight, EmitRequested
<1>2. /\ next \in Request
      /\ next.trip = req[r].trip
      /\ next.driver = req[r].driver
      /\ \/ next.pc = "replied" /\ next.state = "REQUESTED"
         \/ next.pc = "put" /\ next.state = "ASSIGNED" /\ next.driver \in Drivers
  <2>1. At(req[r], "put") \in Request
    BY <1>1, AtType DEF InFlight
  <2>2. CASE req[r].driver = NoDriver
    BY <1>1, <2>2, AtType DEF AfterRequested
  <2>3. CASE req[r].driver # NoDriver
    <3>1. next = [At(req[r], "put") EXCEPT !.state = "ASSIGNED"]
      BY <2>3 DEF AfterRequested
    <3>2. next.pc = "put" /\ next.state = "ASSIGNED"
      BY <1>1, <2>1, <3>1, AtType DEF Request, InFlight
    <3>3. next.trip = req[r].trip /\ next.driver = req[r].driver
      BY <1>1, <2>1, <3>1, AtType DEF Request, InFlight
    <3>4. next \in Request
      BY <2>1, <3>1 DEF Request, States
    <3>5. req[r].driver \in Drivers
      BY <1>1, <2>3 DEF Request
    <3> QED  BY <3>2, <3>3, <3>4, <3>5
  <2> QED  BY <2>2, <2>3
<1> HIDE DEF next
<1>3. Resume(r, next) /\ Produce(r)
  BY DEF next, EmitRequested
<1>4. /\ \A q \in Requests \ {r} : req'[q] = req[q]
      /\ req'[r].trip = req[r].trip
      /\ req'[r].driver = req[r].driver
      /\ \/ req'[r].pc \in {"emitRequested", "replied"} /\ req'[r].state = "REQUESTED"
         \/ req'[r].pc = "put" /\ req'[r].state = "ASSIGNED" /\ req'[r].driver \in Drivers
  BY <1>1, <1>2, <1>3, ResumeFrame DEF IInv
<1>5. TypeOK'
  <2>1. log' \in Seq(Event)
    BY <1>1, <1>3, ProduceType DEF IInv, States
  <2>2. req' \in [Requests -> Request]
    BY <1>2, <1>3, ResumeType DEF IInv
  <2> QED  BY <1>1, <2>1, <2>2 DEF IInv, TypeOK
<1>6. Locals'
  <2>1. Local(r)'
    BY <1>1, <1>4 DEF Local, InFlight, Later, States
  <2> QED  BY <1>1, <1>4, <2>1, LocalsFrame
<1>7. CacheWasPut'
  BY <1>1, <1>4 DEF IInv, TypeOK, CacheWasPut
<1>8. OneRide' /\ SameDriver'
  BY <1>1, <1>4 DEF IInv, OneRide, SameDriver, Ridden
<1>9. History'
  <2>1. ASSUME NEW q \in Requests
        PROVE  Explained(q)' /\ Unseen(q)'
    <3>1. Seen(req[q].trip)' = Seen(req[q].trip)
      BY <1>1, <1>4 DEF Seen, IInv, TypeOK
    <3>2. Explained(q) /\ Unseen(q)
      BY DEF IInv, History
    <3>3. Explained(q)'
      BY <1>1, <1>4, <3>1, <3>2 DEF Explained, Later
    <3>4. Unseen(q)'
      BY <1>1, <1>4, <3>1, <3>2 DEF Unseen, Ridden, InFlight
    <3> QED  BY <3>3, <3>4
  <2> QED  BY <2>1 DEF History
<1>10. PublishedWasCached'
  <2>1. \A i \in DOMAIN log' : log'[i].state # "REQUESTED" =>
           i \in DOMAIN log /\ log'[i] = log[i]
    <3>1. EventOf(r).state = "REQUESTED"
      BY <1>1 DEF EventOf
    <3> QED  BY <1>3, <3>1 DEF IInv, TypeOK, Produce
  <2> QED  BY <1>1, <1>4, <2>1 DEF IInv, TypeOK, PublishedWasCached
<1> QED  BY <1>5, <1>6, <1>7, <1>8, <1>9, <1>10 DEF IInv
\* A request that holds no trip yet has written and been told nothing.
LEMMA NewIsBlank ==
  ASSUME IInv, NEW r \in Requests, req[r].pc = "new"
  PROVE  /\ req[r].trip = NoTrip
         /\ req[r].state = "NONE"
         /\ r \notin landed
<1>1. req[r] = NewRequest
  BY DEF IInv, Locals, Local
<1> QED  BY <1>1, TripApiAssumption DEF NewRequest, IInv, Locals, Local

LEMMA RideStep ==
  ASSUME IInv, NEW r \in Requests, NEW t \in Trips, NEW d \in Drivers \cup {NoDriver},
         Ride(r, t, d), UNCHANGED polite
  PROVE  IInv'
<1>1. /\ r \notin landed
      /\ UNCHANGED <<cache, log, landed>>
      /\ \A q \in Requests : req[q].trip # t
  BY NewIsBlank DEF Ride, Fresh
<1>2. /\ \A q \in Requests \ {r} : req'[q] = req[q]
      /\ req'[r].pc = "emitRequested"
      /\ req'[r].trip = t
      /\ req'[r].driver = d
      /\ req'[r].state = "REQUESTED"
  BY DEF Ride, IInv, TypeOK
<1>3. TypeOK'
  <2>1. 0 \in 0 .. MaxTries - 1
    BY TripApiAssumption
  <2> QED  BY <1>1, <2>1 DEF IInv, TypeOK, Ride, Request, InFlight, States
<1>4. Locals'
  <2>1. Local(r)'
    BY <1>1, <1>2 DEF Local
  <2> QED  BY <1>1, <1>2, <2>1, LocalsFrame
<1>5. CacheWasPut' /\ PublishedWasCached'
  BY <1>1, <1>2 DEF IInv, TypeOK, CacheWasPut, PublishedWasCached
<1>6. OneRide' /\ SameDriver'
  BY <1>1, <1>2 DEF IInv, OneRide, SameDriver, Ridden
<1>7. History'
  <2>1. \A u : Seen(u)' = Seen(u)
    BY <1>1, <1>2 DEF Seen, IInv, TypeOK
  <2>2. Explained(r)' /\ Unseen(r)'
    <3>1. Seen(t) = {}
      BY <1>1 DEF Seen, IInv, TypeOK
    <3>2. Seen(req[r].trip)' = {}
      BY <1>1, <1>2, <3>1 DEF Seen, IInv, TypeOK
    <3> QED  BY <1>2, <3>2 DEF Explained, Unseen, Later
  <2>3. ASSUME NEW q \in Requests \ {r}
        PROVE  Explained(q)' /\ Unseen(q)'
    <3>1. Seen(req[q].trip)' = Seen(req[q].trip)
      BY <1>1, <1>2 DEF Seen, IInv, TypeOK
    <3> QED  BY <1>1, <1>2, <3>1 DEF IInv, History, Explained, Unseen, Ridden
  <2> QED  BY <2>2, <2>3 DEF History
<1> QED  BY <1>3, <1>4, <1>5, <1>6, <1>7 DEF IInv

LEMMA TransitionStep ==
  ASSUME IInv, NEW r \in Requests, NEW t \in Trips,
         NEW to \in {"IN_PROGRESS", "COMPLETED", "CANCELLED"}, Transition(r, t, to),
         UNCHANGED polite
  PROVE  IInv'
<1>1. /\ r \notin landed
      /\ UNCHANGED <<cache, log, landed>>
      /\ cache[t] # Absent
      /\ CanTransition(cache[t].state, to)
  BY NewIsBlank DEF Transition, Accepts
<1>2. PICK p \in landed : /\ req[p].trip = t
                          /\ req[p].state = cache[t].state
                          /\ req[p].driver = cache[t].driver
  BY <1>1 DEF IInv, CacheWasPut
<1>3. /\ p # r
      /\ p \in Requests
      /\ cache[t].driver \in Drivers
      /\ req[p].state \in Seen(t)
  BY <1>1, <1>2 DEF IInv, TypeOK, Locals, Local, Seen
<1>4. /\ \A q \in Requests \ {r} : req'[q] = req[q]
      /\ req'[r].pc = "put"
      /\ req'[r].trip = t
      /\ req'[r].driver = cache[t].driver
      /\ req'[r].state = to
  BY DEF Transition, IInv, TypeOK
<1>5. TypeOK'
  <2>1. 0 \in 0 .. MaxTries - 1
    BY TripApiAssumption
  <2> QED  BY <1>1, <1>3, <2>1 DEF IInv, TypeOK, Transition, Request, InFlight, States
<1>6. Locals'
  <2>1. Local(r)'
    BY <1>1, <1>3, <1>4 DEF Local, Later, States
  <2> QED  BY <1>1, <1>4, <2>1, LocalsFrame
<1>7. CacheWasPut' /\ PublishedWasCached'
  BY <1>1, <1>4 DEF IInv, TypeOK, CacheWasPut, PublishedWasCached
<1>8. OneRide'
  BY <1>4 DEF IInv, OneRide, Ridden
<1>9. SameDriver'
  <2>1. \A q \in Requests : req[q].trip = t => req[q].driver = cache[t].driver
    BY <1>2, <1>3 DEF IInv, SameDriver
  <2> QED  BY <1>4, <2>1 DEF IInv, SameDriver
<1>10. History'
  <2>1. Explained(r)' /\ Unseen(r)'
    <3>1. Seen(req[r].trip)' = Seen(t)
      BY <1>1, <1>4 DEF Seen, IInv, TypeOK
    <3> QED  BY <1>1, <1>2, <1>3, <1>4, <3>1 DEF Explained, Unseen, Ridden, CanTransition
  <2>2. ASSUME NEW q \in Requests \ {r}
        PROVE  Explained(q)' /\ Unseen(q)'
    <3>1. Seen(req[q].trip)' = Seen(req[q].trip)
      BY <1>1, <1>4 DEF Seen, IInv, TypeOK
    <3> QED  BY <1>1, <1>4, <3>1 DEF IInv, History, Explained, Unseen, Ridden
  <2> QED  BY <2>1, <2>2 DEF History
<1> QED  BY <1>5, <1>6, <1>7, <1>8, <1>9, <1>10 DEF IInv
\* The records a Put leaves behind, and what it may do to the cache.
PutShape(r) ==
  /\ req[r] \in Request
  /\ req[r].pc = "put"
  /\ req[r].trip \in Trips
  /\ req[r].state \in Later
  /\ req[r].driver \in Drivers
  /\ log' = log
  /\ landed' \in {landed, landed \cup {r}}
  /\ req' \in [Requests -> Request]
  /\ \A q \in Requests \ {r} : req'[q] = req[q]
  /\ req'[r].pc \in {"put", "emit", "failed"}
  /\ req'[r].pc = "emit" => r \in landed'
  /\ req'[r].trip = req[r].trip
  /\ req'[r].driver = req[r].driver
  /\ req'[r].state = req[r].state
  /\ \/ landed' = landed /\ cache' = cache
     \/ /\ r \in landed'
        /\ cache' = [cache EXCEPT ![req[r].trip] =
                       [driver |-> req[r].driver, state |-> req[r].state]]

LEMMA PutFrame ==
  ASSUME IInv, NEW r \in Requests, Put(r)
  PROVE  PutShape(r)
<1>1. /\ req[r] \in Request
      /\ req[r].pc = "put"
      /\ req[r].trip \in Trips
      /\ req[r].state \in Later
      /\ req[r].driver \in Drivers
  BY DEF IInv, TypeOK, Locals, Local, InFlight, Put
<1>2. /\ log' = log
      /\ landed' \in {landed, landed \cup {r}}
      /\ \/ landed' = landed /\ cache' = cache
         \/ /\ r \in landed'
            /\ cache' = [cache EXCEPT ![req[r].trip] =
                           [driver |-> req[r].driver, state |-> req[r].state]]
  BY DEF Put
<1>3. /\ At(req[r], "emit") \in Request
      /\ OnPutError(req[r]) \in Request
      /\ OnPutError(req[r]).pc = "failed"
      /\ OnPutError(req[r]).trip = req[r].trip
      /\ OnPutError(req[r]).driver = req[r].driver
      /\ OnPutError(req[r]).state = req[r].state
  BY <1>1, AtType DEF OnPutError, InFlight
<1>4. CASE Resume(r, OnPutError(req[r]))
  <2>1. req' \in [Requests -> Request]
    BY <1>3, <1>4, ResumeType DEF IInv
  <2> QED  BY <1>1, <1>2, <1>3, <1>4, <2>1, ResumeFrame DEF IInv, PutShape
<1>5. CASE Resume(r, At(req[r], "emit")) /\ r \in landed'
  <2>1. req' \in [Requests -> Request]
    BY <1>3, <1>5, ResumeType DEF IInv
  <2>2. /\ At(req[r], "emit").pc = "emit"
        /\ At(req[r], "emit").trip = req[r].trip
        /\ At(req[r], "emit").driver = req[r].driver
        /\ At(req[r], "emit").state = req[r].state
    BY <1>1, AtType DEF InFlight
  <2> QED  BY <1>1, <1>2, <1>3, <1>5, <2>1, <2>2, ResumeFrame DEF IInv, PutShape
<1> QED  BY <1>4, <1>5 DEF Put

LEMMA PutSeen ==
  ASSUME IInv, NEW r \in Requests, Put(r)
  PROVE  \A t : Seen(t)' = IF t = req[r].trip /\ r \in landed'
                          THEN Seen(t) \cup {req[r].state} ELSE Seen(t)
<1>1. PutShape(r)
  BY PutFrame
<1> QED  BY <1>1 DEF PutShape, Seen, IInv, TypeOK

LEMMA PutStep ==
  ASSUME IInv, NEW r \in Requests, Put(r), UNCHANGED polite
  PROVE  IInv'
<1>0. PutShape(r)
  BY PutFrame
<1>1. TypeOK'
  <2>1. [driver |-> req[r].driver, state |-> req[r].state] \in Entry
    BY <1>0 DEF PutShape, Entry, Later
  <2> QED  BY <2>1, <1>0 DEF PutShape, IInv, TypeOK
<1>2. Locals'
  <2>1. Local(r)'
    BY <1>0 DEF PutShape, Local, InFlight
  <2> QED  BY <2>1, <1>0, LocalsFrame DEF PutShape
<1>3. CacheWasPut'
  <2>1. CASE landed' = landed /\ cache' = cache
    BY <2>1, <1>0 DEF PutShape, IInv, TypeOK, CacheWasPut
  <2>2. CASE /\ r \in landed'
             /\ cache' = [cache EXCEPT ![req[r].trip] =
                            [driver |-> req[r].driver, state |-> req[r].state]]
    BY <2>2, <1>0 DEF PutShape, IInv, TypeOK, CacheWasPut
  <2> QED  BY <2>1, <2>2, <1>0 DEF PutShape
<1>4. OneRide' /\ SameDriver'
  BY <1>0 DEF PutShape, IInv, OneRide, SameDriver, Ridden
<1>5. PublishedWasCached'
  BY <1>0 DEF PutShape, IInv, TypeOK, PublishedWasCached
<1>6. History'
  <2>1. ASSUME NEW q \in Requests
        PROVE  Explained(q)' /\ Unseen(q)'
    <3>1. /\ req'[q].trip = req[q].trip
          /\ req'[q].state = req[q].state
          /\ req'[q].pc \in InFlight => req[q].pc \in InFlight
          /\ q \notin landed' => q \notin landed
      BY <1>0 DEF PutShape, InFlight
    <3>2. Explained(q) /\ Unseen(q) /\ Explained(r)
      BY DEF IInv, History
    <3>3. Seen(req[q].trip)' = IF req[q].trip = req[r].trip /\ r \in landed'
                               THEN Seen(req[q].trip) \cup {req[r].state}
                               ELSE Seen(req[q].trip)
      BY <3>1, <1>0 DEF PutShape, Seen, IInv, TypeOK
    <3>4. Explained(q)'
      BY <3>1, <3>2, <3>3 DEF Explained
    <3>5. ASSUME req'[q].pc \in InFlight, Ridden(q), q \notin landed'
          PROVE  Seen(req[q].trip)' = {}
      <4>1. Seen(req[q].trip) = {}
        BY <3>1, <3>2, <3>5 DEF Unseen
      <4>2. req[q].trip # req[r].trip \/ r \notin landed'
        BY <3>2, <3>5, <4>1, <1>0 DEF PutShape, IInv, OneRide, Ridden, Explained
      <4> QED  BY <3>3, <4>1, <4>2
    <3>6. Unseen(q)'
      BY <3>1, <3>5 DEF Unseen, Ridden
    <3> QED  BY <3>4, <3>6
  <2> QED  BY <2>1 DEF History
<1> QED  BY <1>1, <1>2, <1>3, <1>4, <1>5, <1>6 DEF IInv
(***************************************************************************)
(* The invariant, and what it establishes.                                 *)
(***************************************************************************)
LEMMA InitInv == Init => IInv
<1> SUFFICES ASSUME Init PROVE IInv
  OBVIOUS
<1>1. TypeOK
  <2>1. NewRequest \in Request
    <3>1. 0 \in 0 .. MaxTries - 1
      BY TripApiAssumption
    <3> QED  BY <3>1 DEF NewRequest, Request
  <2> QED  BY <2>1 DEF Init, TypeOK
<1>2. \A r \in Requests : /\ req[r].pc = "new"
                          /\ req[r] = NewRequest
                          /\ req[r].trip = NoTrip
                          /\ req[r].driver = NoDriver
                          /\ req[r].state = "NONE"
                          /\ r \notin landed
  BY DEF Init, NewRequest
<1>3. Locals
  BY <1>2 DEF Locals, Local, InFlight
<1>4. OneRide /\ SameDriver /\ History
  BY <1>2 DEF OneRide, SameDriver, History, Explained, Unseen, Ridden, Later, States
<1>5. CacheWasPut /\ PublishedWasCached
  BY DEF Init, CacheWasPut, PublishedWasCached
<1> QED  BY <1>1, <1>3, <1>4, <1>5 DEF IInv

LEMMA StepInv == IInv /\ [Next]_vars => IInv'
<1> SUFFICES ASSUME IInv, [Next]_vars PROVE IInv'
  OBVIOUS
<1>1. ASSUME NEW r \in Requests, Serve(r), UNCHANGED polite PROVE IInv'
  <2>1. CASE Refuse(r)
    BY <1>1, <2>1, RefuseStep
  <2>2. CASE \E t \in Trips, d \in Drivers \cup {NoDriver} : Ride(r, t, d)
    BY <1>1, <2>2, RideStep
  <2>3. CASE \E t \in Trips, to \in {"IN_PROGRESS", "COMPLETED", "CANCELLED"} :
               Transition(r, t, to)
    BY <1>1, <2>3, TransitionStep
  <2>4. CASE EmitRequested(r)
    BY <1>1, <2>4, EmitRequestedStep
  <2>5. CASE Put(r)
    BY <1>1, <2>5, PutStep
  <2>6. CASE Emit(r)
    BY <1>1, <2>6, EmitStep
  <2>7. CASE Abort(r)
    BY <1>1, <2>7, AbortStep
  <2> QED  BY <1>1, <2>1, <2>2, <2>3, <2>4, <2>5, <2>6, <2>7 DEF Serve
<1>2. ASSUME NEW t \in Trips, Expire(t), UNCHANGED polite PROVE IInv'
  BY <1>2, ExpireStep
<1>3. CASE UNCHANGED vars
  <2>1. Quiet
    BY <1>3 DEF vars, Quiet
  <2>2. TypeOK' /\ Locals'
    BY <1>3 DEF vars, IInv, TypeOK, Locals, Local
  <2> QED  BY <1>3, <2>1, <2>2, QuietHistory, QuietCache, QuietLog DEF vars, IInv
<1> QED  BY <1>1, <1>2, <1>3 DEF Next

LEMMA Invariance == Spec => []IInv
BY InitInv, StepInv, PTL DEF Spec

\* Every variable keeps its type, whatever the clients, Redis and Kafka do.
THEOREM TypeCorrect == Spec => []TypeOK
<1>1. IInv => TypeOK
  BY DEF IInv
<1> QED  BY <1>1, Invariance, PTL

\* Put precedes emit, and no event is published of a Put that did not land
\* (main.go:171-175, 204-208): the stream never runs ahead of the cache.
THEOREM PublicationFollowsCache == Spec => []PublishedWasCached
<1>1. IInv => PublishedWasCached
  BY DEF IInv
<1> QED  BY <1>1, Invariance, PTL

\* Whatever requests race, no trip is ever given two drivers (main.go:167, 189).
THEOREM OneDriver == Spec => []OneDriverPerTrip
<1>1. ASSUME IInv PROVE OneDriverPerTrip
  <2>1. ASSUME NEW t \in Trips, NEW d \in DriversOf(t)
        PROVE  \E q \in Requests : req[q].trip = t /\ req[q].driver = d
    <3>1. CASE d = cache[t].driver
      <4>1. cache[t] # Absent
        BY <3>1 DEF DriversOf, Absent
      <4> QED  BY <1>1, <3>1, <4>1 DEF IInv, TypeOK, CacheWasPut
    <3>2. ASSUME NEW i \in DOMAIN log, log[i].trip = t, d = log[i].driver
          PROVE  \E q \in Requests : req[q].trip = t /\ req[q].driver = d
      <4>1. log[i] \in Event
        BY <1>1 DEF IInv, TypeOK
      <4>2. log[i].state # "REQUESTED"
        BY <3>2, <4>1 DEF Event, DriversOf
      <4> QED  BY <1>1, <3>2, <4>2 DEF IInv, TypeOK, PublishedWasCached
    <3> QED  BY <3>1, <3>2 DEF DriversOf
  <2> QED  BY <1>1, <2>1 DEF OneDriverPerTrip, IInv, SameDriver
<1> QED  BY <1>1, Invariance, PTL
\* A step appends at most one event, and appends REQUESTED only of a trip
\* that has no other event yet.
LEMMA AppendsInOrder ==
  ASSUME IInv, Next
  PROVE  \/ log' = log
         \/ \E r \in Requests :
              /\ log' = Append(log, EventOf(r))
              /\ EventOf(r).state = "REQUESTED" =>
                   \A i \in DOMAIN log : log[i].trip = req[r].trip => log[i].state = "REQUESTED"
<1>1. CASE \E t \in Trips : Expire(t)
  BY <1>1 DEF Expire
<1>2. ASSUME NEW r \in Requests, EmitRequested(r), log' # log
      PROVE  /\ log' = Append(log, EventOf(r))
             /\ \A i \in DOMAIN log : log[i].trip = req[r].trip => log[i].state = "REQUESTED"
  <2>1. Seen(req[r].trip) = {}
    BY <1>2 DEF IInv, Locals, Local, History, Unseen, Ridden, InFlight, EmitRequested
  <2>2. \A q \in landed : req[q].trip # req[r].trip
    BY <2>1 DEF Seen
  <2> QED  BY <1>2, <2>2 DEF IInv, PublishedWasCached, EmitRequested, Produce
<1>3. ASSUME NEW r \in Requests, Emit(r), log' # log
      PROVE  log' = Append(log, EventOf(r)) /\ EventOf(r).state # "REQUESTED"
  <2>1. req[r].state # "REQUESTED"
    BY <1>3 DEF IInv, Locals, Local, Later, Emit
  <2> QED  BY <1>3, <2>1 DEF Emit, Produce, EventOf
<1> QED
  BY <1>1, <1>2, <1>3 DEF Next, Serve, Refuse, Ride, Transition, Put, Abort

\* REQUESTED is never published after another state of the same trip, however
\* the publication is retried (main.go:157, 171-175).
THEOREM RequestedComesFirst == Spec => []RequestedFirst
<1>1. Init => RequestedFirst
  BY DEF Init, RequestedFirst
<1>2. IInv /\ RequestedFirst /\ [Next]_vars => RequestedFirst'
  <2> SUFFICES ASSUME IInv, RequestedFirst, [Next]_vars PROVE RequestedFirst'
    OBVIOUS
  <2>1. CASE log' = log
    BY <2>1 DEF RequestedFirst
  <2>2. ASSUME NEW r \in Requests,
               log' = Append(log, EventOf(r)),
               EventOf(r).state = "REQUESTED" =>
                 \A i \in DOMAIN log : log[i].trip = req[r].trip => log[i].state = "REQUESTED"
        PROVE  RequestedFirst'
    <3>1. EventOf(r).trip = req[r].trip
      BY DEF EventOf
    <3>2. ASSUME NEW i \in DOMAIN log', NEW j \in DOMAIN log', i < j,
                 log'[i].trip = log'[j].trip, log'[j].state = "REQUESTED"
          PROVE  log'[i].state = "REQUESTED"
      <4>1. i \in DOMAIN log /\ log'[i] = log[i]
        BY <2>2, <3>2 DEF IInv, TypeOK
      <4>2. CASE j \in DOMAIN log
        BY <2>2, <3>2, <4>1, <4>2 DEF IInv, TypeOK, RequestedFirst
      <4>3. CASE j = Len(log) + 1
        <5>1. log'[j] = EventOf(r)
          BY <2>2, <4>3 DEF IInv, TypeOK
        <5> QED  BY <2>2, <3>1, <3>2, <4>1, <5>1
      <4> QED  BY <2>2, <3>2, <4>2, <4>3 DEF IInv, TypeOK
    <3> QED  BY <3>2 DEF RequestedFirst
  <2> QED  BY <2>1, <2>2, AppendsInOrder DEF vars
<1> QED  BY <1>1, <1>2, Invariance, PTL DEF Spec
(***************************************************************************)
(* TripApi implements the weak lifecycle: every landing Put is a legal     *)
(* move from a state the trip has had, or the first assignment, or a       *)
(* repetition; every other step leaves the histories alone.                *)
(***************************************************************************)
LEMMA PutExplained ==
  ASSUME IInv, NEW r \in Requests, Put(r)
  PROVE  [Lifecycle!StaleNext]_SeenOfTrips
<1> DEFINE t == req[r].trip
<1>1. PutShape(r)
  BY PutFrame
<1>2. t \in Trips /\ req[r].state \in Later
  BY <1>1 DEF PutShape
<1>3. CASE r \in landed \/ r \notin landed'
  <2>1. landed' = landed
    BY <1>1, <1>3 DEF PutShape
  <2>2. \A u : Seen(u)' = Seen(u)
    BY <1>1, <2>1 DEF PutShape, Seen, IInv, TypeOK
  <2> QED  BY <2>2 DEF SeenOfTrips
<1>4. CASE r \notin landed /\ r \in landed'
  <2>1. SeenOfTrips' = [SeenOfTrips EXCEPT ![t] = @ \cup {req[r].state}]
    BY <1>2, <1>4, PutSeen DEF SeenOfTrips
  <2>2. SeenOfTrips[t] = Seen(t)
    BY <1>2 DEF SeenOfTrips
  <2>3. CASE req[r].state = "ASSIGNED"
    <3>1. Seen(t) = {}
      BY <1>1, <1>4, <2>3 DEF PutShape, IInv, History, Unseen, Ridden, InFlight
    <3>2. Lifecycle!Assign(t)
      BY <2>1, <2>2, <2>3, <3>1 DEF Lifecycle!Assign
    <3> QED  BY <1>2, <3>2 DEF Lifecycle!StaleNext
  <2>4. CASE req[r].state # "ASSIGNED"
    <3>1. PICK from \in Seen(t) : CanTransition(from, req[r].state)
      BY <1>2, <2>4 DEF IInv, History, Explained
    <3>2. from \in States /\ req[r].state \in States
      BY <1>2 DEF IInv, TypeOK, Locals, Local, Seen, Later
    <3>3. Lifecycle!CanTransition(from, req[r].state)
      BY <3>1 DEF CanTransition, Lifecycle!CanTransition, validTransitions, Lifecycle!validTransitions
    <3>4. Lifecycle!Move(t, from, req[r].state)
      BY <2>1, <2>2, <3>1, <3>3 DEF Lifecycle!Move
    <3>5. from \in Lifecycle!States /\ req[r].state \in Lifecycle!States
      BY <3>2 DEF States, Lifecycle!States
    <3> QED  BY <1>2, <3>4, <3>5 DEF Lifecycle!StaleNext
  <2> QED  BY <2>3, <2>4
<1> QED  BY <1>3, <1>4

\* Only a Put changes what trips were given.
LEMMA OnlyPutIsSeen ==
  ASSUME IInv, [Next]_vars
  PROVE  (\E r \in Requests : Put(r)) \/ UNCHANGED SeenOfTrips
<1>1. CASE \E r \in Requests : Put(r)
  BY <1>1
<1>2. ASSUME UNCHANGED landed,
             \A q \in landed : req'[q].trip = req[q].trip /\ req'[q].state = req[q].state
      PROVE  UNCHANGED SeenOfTrips
  BY <1>2 DEF SeenOfTrips, Seen
<1>3. ASSUME UNCHANGED vars \/ \E t \in Trips : Expire(t)
      PROVE  UNCHANGED SeenOfTrips
  BY <1>2, <1>3 DEF vars, Expire
<1>4. ASSUME NEW r \in Requests, Refuse(r) \/ Abort(r)
      PROVE  UNCHANGED SeenOfTrips
  <2>1. req' = [req EXCEPT ![r].pc = "failed"] /\ UNCHANGED landed
    BY <1>4 DEF Refuse, Abort
  <2>2. \A q \in Requests : req'[q].trip = req[q].trip /\ req'[q].state = req[q].state
    BY <2>1 DEF IInv, TypeOK, Request
  <2> QED  BY <1>2, <2>1, <2>2 DEF IInv, TypeOK
<1>5. ASSUME NEW r \in Requests, NEW t, NEW x, Ride(r, t, x) \/ Transition(r, t, x)
      PROVE  UNCHANGED SeenOfTrips
  BY <1>2, <1>5, NewIsBlank DEF Ride, Transition, IInv, TypeOK
<1>6. ASSUME NEW r \in Requests, EmitRequested(r)
      PROVE  UNCHANGED SeenOfTrips
  <2>1. r \notin landed
    BY <1>6 DEF IInv, Locals, Local, EmitRequested
  <2> QED  BY <1>2, <1>6, <2>1 DEF EmitRequested, Resume, IInv, TypeOK
<1>7. ASSUME NEW r \in Requests, Emit(r)
      PROVE  UNCHANGED SeenOfTrips
  <2>1. At(req[r], "replied") \in Request
    BY AtType DEF IInv, TypeOK
  <2>2. /\ \A q \in Requests \ {r} : req'[q] = req[q]
        /\ req'[r].trip = req[r].trip
        /\ req'[r].state = req[r].state
    BY <1>7, <2>1, AtType, ResumeFrame DEF Emit, IInv, TypeOK
  <2> QED  BY <1>2, <1>7, <2>2 DEF Emit, IInv, TypeOK
<1> QED  BY <1>1, <1>3, <1>4, <1>5, <1>6, <1>7 DEF Next, Serve

LEMMA StepExplained == IInv /\ [Next]_vars => [Lifecycle!StaleNext]_SeenOfTrips
BY OnlyPutIsSeen, PutExplained

\* Every state a trip is given is explained by a state it has had, however
\* stale the copy the handler tested (main.go:189-204).
THEOREM Explanation == Spec => StatesAreExplained
<1>1. Init => Lifecycle!Init
  BY DEF Init, Lifecycle!Init, SeenOfTrips, Seen
<1> QED
  BY <1>1, StepExplained, Invariance, PTL DEF Spec, StatesAreExplained, Lifecycle!StaleSpec

(***************************************************************************)
(* Callers that never have two requests in flight on one trip: the strict  *)
(* lifecycle, and a cache and a stream in order.                           *)
(***************************************************************************)

(***************************************************************************)
(* Histories: sets of states a trip has been given.                        *)
(***************************************************************************)
Latest(s, S) == s \in S /\ \A u \in S : ~CanTransition(s, u)

\* A history in which COMPLETED was reached through IN_PROGRESS and which has
\* one outcome at most.
Proper(S) ==
  /\ S \subseteq Later
  /\ "COMPLETED" \in S => "IN_PROGRESS" \in S
  /\ ~({"COMPLETED", "CANCELLED"} \subseteq S)

\* What may be written next to a history.
Follows(s, S) ==
  \/ s = "ASSIGNED" /\ S = {}
  \/ \E from \in S : Latest(from, S) /\ CanTransition(from, s)

LEMMA LatestIsLatest ==
  ASSUME NEW s, NEW S
  PROVE  Latest(s, S) <=> Lifecycle!IsLatest(s, S)
BY DEF Latest, Lifecycle!IsLatest, CanTransition, Lifecycle!CanTransition,
       validTransitions, Lifecycle!validTransitions

\* A state that follows a history is its latest state once it is added.
LEMMA FollowerIsLatest ==
  ASSUME NEW S, Proper(S), NEW s, Follows(s, S)
  PROVE  Proper(S \cup {s}) /\ Latest(s, S \cup {s})
<1>1. CASE s = "ASSIGNED" /\ S = {}
  BY <1>1 DEF Proper, Latest, CanTransition, validTransitions, Later, States
<1>2. ASSUME NEW from \in S, Latest(from, S), CanTransition(from, s)
      PROVE  Proper(S \cup {s}) /\ Latest(s, S \cup {s})
  <2>1. <<from, s>> \in validTransitions /\ \A u \in S : <<from, u>> \notin validTransitions
    BY <1>2 DEF Latest, CanTransition
  <2>2. from \in {"ASSIGNED", "IN_PROGRESS"}
    BY <2>1 DEF Proper, Later, States, validTransitions
  <2>3. CASE from = "ASSIGNED"
    <3>1. s \in {"IN_PROGRESS", "CANCELLED"}
      BY <2>1, <2>3 DEF validTransitions
    <3>2. "IN_PROGRESS" \notin S /\ "CANCELLED" \notin S /\ "COMPLETED" \notin S
      BY <2>1, <2>3 DEF validTransitions, Proper
    <3> QED
      BY <1>2, <3>1, <3>2 DEF Proper, Latest, CanTransition, validTransitions, Later, States
  <2>4. CASE from = "IN_PROGRESS"
    <3>1. s \in {"COMPLETED", "CANCELLED"}
      BY <2>1, <2>4 DEF validTransitions
    <3>2. "CANCELLED" \notin S /\ "COMPLETED" \notin S /\ "IN_PROGRESS" \in S
      BY <2>1, <2>4 DEF validTransitions
    <3> QED
      BY <1>2, <3>1, <3>2 DEF Proper, Latest, CanTransition, validTransitions, Later, States
  <2> QED
    BY <2>2, <2>3, <2>4
<1> QED
  BY <1>1, <1>2 DEF Follows

\* No state of a proper history comes later than its latest one.
LEMMA LatestIsNoEarlier ==
  ASSUME NEW S, Proper(S), NEW s, Latest(s, S), NEW e \in S \cup {"REQUESTED"}
  PROVE  NoLater(e, s)
<1>1. s \in Later /\ e \in States
  BY DEF Proper, Latest, Later, States
<1>2. \A u \in S : <<s, u>> \notin validTransitions
  BY DEF Latest, CanTransition
<1>3. /\ Stage["REQUESTED"] = 0 /\ Stage["ASSIGNED"] = 1 /\ Stage["IN_PROGRESS"] = 2
      /\ Stage["COMPLETED"] = 3 /\ Stage["CANCELLED"] = 3
  BY DEF Stage, States
<1>4. CASE e = "REQUESTED"
  BY <1>1, <1>3, <1>4 DEF NoLater, Later, States
<1>5. CASE e \in S /\ s = "ASSIGNED"
  BY <1>1, <1>2, <1>5 DEF NoLater, Proper, Later, States, validTransitions
<1>6. CASE e \in S /\ s = "IN_PROGRESS"
  BY <1>1, <1>2, <1>3, <1>6 DEF NoLater, Proper, Later, States, validTransitions
<1>7. CASE e \in S /\ s \in {"COMPLETED", "CANCELLED"}
  BY <1>1, <1>3, <1>7 DEF NoLater, Proper, Later, States, Latest
<1> QED
  BY <1>1, <1>4, <1>5, <1>6, <1>7 DEF Later, States

(***************************************************************************)
(* The invariant of polite callers.                                        *)
(***************************************************************************)
\* A trip is in the hands of one goroutine at most.
OneInFlight ==
  \A q, r \in Requests : /\ req[q].trip = req[r].trip
                        /\ req[q].pc \in InFlight
                        /\ req[r].pc \in InFlight
                        => q = r

\* What a goroutine is about to write may follow the trip's history, and what
\* it has written and still holds is the latest of it.
Pending(r) ==
  /\ req[r].pc = "put" /\ r \notin landed => Follows(req[r].state, Seen(req[r].trip))
  /\ req[r].pc \in {"put", "emit"} /\ r \in landed => Latest(req[r].state, Seen(req[r].trip))

Fresher(t) == cache[t] # Absent => Latest(cache[t].state, Seen(t))

Polite ==
  /\ OneInFlight
  /\ \A r \in Requests : Pending(r)
  /\ \A t \in Trips : Proper(Seen(t)) /\ Fresher(t)

PInv == IInv /\ (polite => Polite)

\* Histories stand still when no Put lands and what landed keeps its record.
LEMMA SeenFrame ==
  ASSUME UNCHANGED landed,
         \A q \in landed : req'[q].trip = req[q].trip /\ req'[q].state = req[q].state
  PROVE  \A t : Seen(t)' = Seen(t)
BY DEF Seen

\* A step that serves r leaves the cache and the histories alone, and leaves r
\* out of flight or alone with its trip.
Calm(r) ==
  /\ UNCHANGED <<cache, landed>>
  /\ \A q \in Requests \ {r} : req'[q] = req[q]
  /\ r \in landed => req'[r].trip = req[r].trip /\ req'[r].state = req[r].state
  /\ req'[r].pc \in InFlight =>
       \A q \in Requests \ {r} : req[q].trip = req'[r].trip => req[q].pc \notin InFlight

LEMMA CalmStep ==
  ASSUME IInv, Polite, NEW r \in Requests, Calm(r), Pending(r)'
  PROVE  Polite'
<1>1. \A t : Seen(t)' = Seen(t)
  BY SeenFrame DEF Calm, IInv, TypeOK
<1>2. OneInFlight'
  BY DEF Calm, Polite, OneInFlight
<1>3. ASSUME NEW q \in Requests
      PROVE  Pending(q)'
  <2>1. CASE q = r
    BY <2>1
  <2>2. CASE q # r
    <3>1. req'[q] = req[q] /\ landed' = landed
      BY <2>2 DEF Calm
    <3>2. Pending(q)
      BY DEF Polite
    <3>3. Seen(req[q].trip)' = Seen(req[q].trip)
      BY <3>1 DEF Calm, Seen, IInv, TypeOK
    <3> QED  BY <3>1, <3>2, <3>3 DEF Pending
  <2> QED  BY <2>1, <2>2
<1>4. ASSUME NEW t \in Trips
      PROVE  Proper(Seen(t))' /\ Fresher(t)'
  <2>1. Seen(t)' = Seen(t) /\ cache' = cache
    BY <1>1 DEF Calm
  <2>2. Proper(Seen(t)) /\ Fresher(t)
    BY DEF Polite
  <2>3. Proper(Seen(t))'
    BY <2>1, <2>2 DEF Proper
  <2>4. Fresher(t)'
    BY <2>1, <2>2 DEF Fresher, Latest
  <2> QED  BY <2>3, <2>4
<1> QED  BY <1>2, <1>3, <1>4 DEF Polite

\* A request that leaves the API is in flight no more.
LEMMA LeaveStep ==
  ASSUME IInv, Polite, NEW r \in Requests, Refuse(r) \/ Abort(r)
  PROVE  Polite'
<1>1. /\ UNCHANGED <<cache, landed>>
      /\ \A q \in Requests \ {r} : req'[q] = req[q]
      /\ req'[r].pc = "failed"
      /\ req'[r].trip = req[r].trip
      /\ req'[r].state = req[r].state
  BY DEF Refuse, Abort, IInv, TypeOK, Request
<1> QED  BY <1>1, CalmStep DEF Calm, Pending, InFlight

\* A ride's trip is its own: nobody else holds it.
LEMMA RideAlone ==
  ASSUME IInv, Polite, NEW r \in Requests, NEW t \in Trips, NEW d \in Drivers \cup {NoDriver},
         Ride(r, t, d)
  PROVE  Polite'
<1>1. /\ UNCHANGED <<cache, landed>>
      /\ \A q \in Requests \ {r} : req'[q] = req[q]
      /\ req'[r].pc = "emitRequested"
      /\ req'[r].trip = t
      /\ \A q \in Requests : req[q].trip # t
      /\ r \notin landed
  BY NewIsBlank DEF Ride, Fresh, IInv, TypeOK
<1> QED  BY <1>1, CalmStep DEF Calm, Pending

\* A cached record that is the latest state is all a transition needs to test.
LEMMA TransitionAlone ==
  ASSUME IInv, Polite, polite, NEW r \in Requests, NEW t \in Trips,
         NEW to \in {"IN_PROGRESS", "COMPLETED", "CANCELLED"}, Transition(r, t, to)
  PROVE  Polite'
<1>1. /\ UNCHANGED <<cache, landed>>
      /\ \A q \in Requests \ {r} : req'[q] = req[q]
      /\ req'[r].pc = "put"
      /\ req'[r].trip = t
      /\ req'[r].state = to
      /\ \A q \in Requests : req[q].trip = t => req[q].pc \notin InFlight
      /\ r \notin landed
  BY NewIsBlank DEF Transition, Idle, IInv, TypeOK
<1>2. Follows(to, Seen(t))
  <2>1. cache[t] # Absent /\ CanTransition(cache[t].state, to)
    BY DEF Transition, Accepts
  <2>2. Latest(cache[t].state, Seen(t))
    BY <2>1 DEF Polite, Fresher
  <2> QED  BY <2>1, <2>2 DEF Follows, Latest
<1>3. Seen(req[r].trip)' = Seen(t)
  BY <1>1 DEF Seen, IInv, TypeOK
<1>4. Pending(r)'
  BY <1>1, <1>2, <1>3 DEF Pending
<1> QED  BY <1>1, <1>4, CalmStep DEF Calm

\* A matched ride goes on to its first Put, an unmatched one is answered.
LEMMA EmitRequestedAlone ==
  ASSUME IInv, Polite, NEW r \in Requests, EmitRequested(r)
  PROVE  Polite'
<1>1. /\ req[r] \in Request
      /\ req[r].pc = "emitRequested"
      /\ r \notin landed
      /\ UNCHANGED <<cache, landed>>
      /\ Seen(req[r].trip) = {}
  BY DEF EmitRequested, IInv, TypeOK, Locals, Local, History, Unseen, Ridden, InFlight
<1>2. /\ \A q \in Requests \ {r} : req'[q] = req[q]
      /\ req'[r].trip = req[r].trip
      /\ \/ req'[r].pc \in {"emitRequested", "replied"}
         \/ req'[r].pc = "put" /\ req'[r].state = "ASSIGNED"
  <2>1. /\ At(req[r], "replied") \in Request
        /\ At(req[r], "put") \in Request
    BY <1>1, AtType DEF InFlight
  <2>2. /\ AfterRequested(req[r]) \in Request
        /\ AfterRequested(req[r]).trip = req[r].trip
        /\ \/ AfterRequested(req[r]).pc = "replied"
           \/ AfterRequested(req[r]).pc = "put" /\ AfterRequested(req[r]).state = "ASSIGNED"
    <3>1. CASE req[r].driver = NoDriver
      BY <1>1, <2>1, <3>1, AtType DEF AfterRequested
    <3>2. CASE req[r].driver # NoDriver
      <4>1. AfterRequested(req[r]) = [At(req[r], "put") EXCEPT !.state = "ASSIGNED"]
        BY <3>2 DEF AfterRequested
      <4>2. At(req[r], "put").pc = "put" /\ At(req[r], "put").trip = req[r].trip
        BY <1>1, AtType DEF InFlight
      <4> QED  BY <2>1, <4>1, <4>2 DEF Request, States
    <3> QED  BY <3>1, <3>2
  <2>3. Resume(r, AfterRequested(req[r]))
    BY DEF EmitRequested
  <2> QED  BY <1>1, <2>2, <2>3, ResumeFrame DEF IInv
<1>3. \A q \in Requests \ {r} : req[q].trip = req[r].trip => req[q].pc \notin InFlight
  BY <1>1 DEF Polite, OneInFlight, InFlight
<1>4. Pending(r)'
  <2>1. Seen(req[r].trip)' = {}
    <3>1. \A q \in landed : q # r /\ req[q].trip # req[r].trip
      BY <1>1 DEF Seen
    <3>2. \A q \in landed' : req'[q].trip # req'[r].trip
      BY <1>1, <1>2, <3>1 DEF IInv, TypeOK
    <3> QED  BY <3>2 DEF Seen
  <2> QED  BY <1>1, <1>2, <2>1 DEF Pending, Follows
<1> QED  BY <1>1, <1>2, <1>3, <1>4, CalmStep DEF Calm

\* What emit publishes is the latest state, and stays it.
LEMMA EmitAlone ==
  ASSUME IInv, Polite, NEW r \in Requests, Emit(r)
  PROVE  Polite'
<1>1. /\ req[r] \in Request
      /\ req[r].pc = "emit"
      /\ r \in landed
      /\ UNCHANGED <<cache, landed>>
      /\ Latest(req[r].state, Seen(req[r].trip))
  BY DEF Emit, IInv, TypeOK, Locals, Local, Polite, Pending
<1>2. /\ \A q \in Requests \ {r} : req'[q] = req[q]
      /\ req'[r].pc \in {"emit", "replied"}
      /\ req'[r].trip = req[r].trip
      /\ req'[r].state = req[r].state
  <2>1. At(req[r], "replied") \in Request
    BY <1>1, AtType
  <2> QED  BY <1>1, <2>1, AtType, ResumeFrame DEF Emit, IInv
<1>3. \A q \in Requests \ {r} : req[q].trip = req[r].trip => req[q].pc \notin InFlight
  BY <1>1 DEF Polite, OneInFlight, InFlight
<1>4. Pending(r)'
  <2>1. Seen(req[r].trip)' = Seen(req[r].trip)
    BY <1>1, <1>2 DEF Seen, IInv, TypeOK
  <2> QED  BY <1>1, <1>2, <2>1 DEF Pending
<1> QED  BY <1>1, <1>2, <1>3, <1>4, CalmStep DEF Calm

\* The SET replaces the latest state by one that follows it, or repeats it.
LEMMA PutFollows ==
  ASSUME IInv, Polite, NEW r \in Requests, Put(r), r \in landed'
  PROVE  /\ Proper(Seen(req[r].trip) \cup {req[r].state})
         /\ Latest(req[r].state, Seen(req[r].trip) \cup {req[r].state})
<1>1. PutShape(r)
  BY PutFrame
<1>2. Proper(Seen(req[r].trip)) /\ Pending(r)
  BY <1>1 DEF Polite, PutShape
<1>3. CASE r \in landed
  <2>1. Latest(req[r].state, Seen(req[r].trip))
    BY <1>1, <1>2, <1>3 DEF Pending, PutShape
  <2>2. Seen(req[r].trip) \cup {req[r].state} = Seen(req[r].trip)
    BY <2>1 DEF Latest
  <2> QED  BY <1>2, <2>1, <2>2
<1>4. CASE r \notin landed
  <2>1. Follows(req[r].state, Seen(req[r].trip))
    BY <1>1, <1>2, <1>4 DEF Pending, PutShape
  <2> QED  BY <1>2, <2>1, FollowerIsLatest
<1> QED  BY <1>3, <1>4

LEMMA PutAlone ==
  ASSUME IInv, Polite, NEW r \in Requests, Put(r)
  PROVE  Polite'
<1> DEFINE S == Seen(req[r].trip)
           s == req[r].state
<1>1. PutShape(r)
  BY PutFrame
<1>2. OneInFlight'
  BY <1>1 DEF PutShape, Polite, OneInFlight, InFlight
<1>3. \A q \in Requests : req'[q].trip = req[q].trip /\ req'[q].state = req[q].state
  BY <1>1 DEF PutShape
<1>4. CASE landed' = landed /\ cache' = cache
  <2>1. \A t : Seen(t)' = Seen(t)
    BY <1>3, <1>4, SeenFrame DEF IInv, TypeOK
  <2>2. ASSUME NEW q \in Requests
        PROVE  Pending(q)'
    <3>1. Seen(req[q].trip)' = Seen(req[q].trip)
      BY <1>3, <1>4 DEF Seen, IInv, TypeOK
    <3>2. Pending(q)
      BY DEF Polite
    <3>3. /\ req'[q].pc = "put" => req[q].pc = "put"
          /\ req'[q].pc = "emit" => req[q].pc \in {"put", "emit"} /\ (q = r => r \in landed)
      BY <1>1, <1>4 DEF PutShape
    <3> QED  BY <1>3, <1>4, <3>1, <3>2, <3>3 DEF Pending
  <2>3. ASSUME NEW t \in Trips
        PROVE  Proper(Seen(t))' /\ Fresher(t)'
    <3>1. Seen(t)' = Seen(t) /\ cache' = cache
      BY <1>4, <2>1
    <3>2. Proper(Seen(t)) /\ Fresher(t)
      BY DEF Polite
    <3> QED  BY <3>1, <3>2 DEF Proper, Fresher, Latest
  <2> QED  BY <1>2, <2>2, <2>3 DEF Polite
<1>5. CASE /\ r \in landed'
           /\ cache' = [cache EXCEPT ![req[r].trip] =
                          [driver |-> req[r].driver, state |-> req[r].state]]
  <2>1. Proper(S \cup {s}) /\ Latest(s, S \cup {s})
    BY <1>5, PutFollows
  <2>2. ASSUME NEW q \in Requests
        PROVE  Pending(q)'
    <3>1. Seen(req[q].trip)' = IF req[q].trip = req[r].trip
                               THEN S \cup {s} ELSE Seen(req[q].trip)
      BY <1>1, <1>3, <1>5 DEF PutShape, Seen, IInv, TypeOK
    <3>2. CASE q = r
      BY <1>3, <1>5, <2>1, <3>1, <3>2 DEF Pending
    <3>3. CASE q # r
      <4>1. req'[q] = req[q] /\ (q \in landed' <=> q \in landed)
        BY <1>1, <3>3 DEF PutShape
      <4>2. req[q].pc \in InFlight => req[q].trip # req[r].trip
        BY <1>1, <3>3 DEF PutShape, Polite, OneInFlight, InFlight
      <4>3. Pending(q)
        BY DEF Polite
      <4> QED  BY <3>1, <4>1, <4>2, <4>3 DEF Pending, InFlight
    <3> QED  BY <3>2, <3>3
  <2>3. ASSUME NEW t \in Trips
        PROVE  Proper(Seen(t))' /\ Fresher(t)'
    <3>1. Seen(t)' = IF t = req[r].trip THEN S \cup {s} ELSE Seen(t)
      BY <1>5, PutSeen
    <3>2. /\ t = req[r].trip => cache'[t].state = s
          /\ t # req[r].trip => cache'[t] = cache[t]
      BY <1>1, <1>5 DEF PutShape, IInv, TypeOK
    <3>3. Proper(Seen(t)) /\ Fresher(t)
      BY DEF Polite
    <3>4. Proper(Seen(t))'
      BY <2>1, <3>1, <3>3 DEF Proper
    <3>5. Fresher(t)'
      BY <2>1, <3>1, <3>2, <3>3 DEF Fresher, Latest
    <3> QED  BY <3>4, <3>5
  <2> QED  BY <1>2, <2>2, <2>3 DEF Polite
<1> QED  BY <1>1, <1>4, <1>5 DEF PutShape

LEMMA PoliteStep == PInv /\ [Next]_vars => PInv'
<1> SUFFICES ASSUME PInv, [Next]_vars PROVE PInv'
  OBVIOUS
<1>1. IInv /\ IInv' /\ polite' = polite
  BY StepInv DEF PInv, Next, vars
<1>2. ASSUME polite PROVE Polite'
  <2>1. Polite
    BY <1>2 DEF PInv
  <2>2. ASSUME NEW r \in Requests, Serve(r) PROVE Polite'
    <3>1. CASE Refuse(r) \/ Abort(r)
      BY <1>1, <2>1, <3>1, LeaveStep
    <3>2. CASE \E t \in Trips, d \in Drivers \cup {NoDriver} : Ride(r, t, d)
      BY <1>1, <2>1, <3>2, RideAlone
    <3>3. CASE \E t \in Trips, to \in {"IN_PROGRESS", "COMPLETED", "CANCELLED"} :
                 Transition(r, t, to)
      BY <1>1, <1>2, <2>1, <3>3, TransitionAlone
    <3>4. CASE EmitRequested(r)
      BY <1>1, <2>1, <3>4, EmitRequestedAlone
    <3>5. CASE Put(r)
      BY <1>1, <2>1, <3>5, PutAlone
    <3>6. CASE Emit(r)
      BY <1>1, <2>1, <3>6, EmitAlone
    <3> QED  BY <2>2, <3>1, <3>2, <3>3, <3>4, <3>5, <3>6 DEF Serve
  <2>3. ASSUME NEW e \in Trips, Expire(e) PROVE Polite'
    <3>1. /\ UNCHANGED <<req, landed>>
          /\ \A t \in Trips : cache'[t] \in {cache[t], Absent}
      BY <1>1, <2>3 DEF Expire, IInv, TypeOK
    <3> QED  BY <2>1, <3>1 DEF Polite, OneInFlight, Pending, Seen, Fresher
  <2>4. CASE UNCHANGED vars
    BY <2>1, <2>4 DEF vars, Polite, OneInFlight, Pending, Seen, Fresher
  <2> QED  BY <2>2, <2>3, <2>4 DEF Next
<1> QED  BY <1>1, <1>2 DEF PInv

LEMMA PoliteInit == Init => PInv
<1> SUFFICES ASSUME Init PROVE PInv
  OBVIOUS
<1>1. /\ \A r \in Requests : req[r].pc = "new"
      /\ \A t \in Trips : Seen(t) = {} /\ cache[t] = Absent
  BY DEF Init, NewRequest, Seen
<1>2. Polite
  BY <1>1 DEF Polite, OneInFlight, Pending, Proper, Fresher, InFlight
<1> QED  BY <1>2, InitInv DEF PInv

LEMMA PoliteInvariance == Spec => []PInv
BY PoliteInit, PoliteStep, PTL DEF Spec

(***************************************************************************)
(* What the invariant establishes.                                         *)
(***************************************************************************)
\* When callers wait for their answers, a record that is cached is the latest
\* state its trip was given, expiry and repeated SETs included (trip.go:48-63).
THEOREM CacheNeverOld == Spec => []CacheIsLatest
<1>1. PInv => CacheIsLatest
  BY LatestIsLatest DEF PInv, Polite, Fresher, CacheIsLatest
<1> QED  BY <1>1, PoliteInvariance, PTL

\* When callers wait for their answers, every state a trip is given is a legal
\* successor of the latest one (trip.go:21-32, main.go:189-204).
THEOREM StrictLifecycle == Spec => LifecycleRespected
<1>1. ASSUME PInv, polite, NEW r \in Requests, Put(r)
      PROVE  [Lifecycle!Next]_SeenOfTrips
  <2> DEFINE t == req[r].trip
  <2>1. PutShape(r) /\ Polite
    BY <1>1, PutFrame DEF PInv
  <2>2. t \in Trips /\ req[r].state \in Later
    BY <2>1 DEF PutShape
  <2>3. CASE r \in landed \/ r \notin landed'
    <3>1. landed' = landed
      BY <2>1, <2>3 DEF PutShape
    <3>2. \A u : Seen(u)' = Seen(u)
      BY <1>1, <2>1, <3>1 DEF PutShape, Seen, PInv, IInv, TypeOK
    <3> QED  BY <3>2 DEF SeenOfTrips
  <2>4. CASE r \notin landed /\ r \in landed'
    <3>1. SeenOfTrips' = [SeenOfTrips EXCEPT ![t] = @ \cup {req[r].state}]
      BY <1>1, <2>2, <2>4, PutSeen DEF SeenOfTrips, PInv
    <3>2. SeenOfTrips[t] = Seen(t)
      BY <2>2 DEF SeenOfTrips
    <3>3. Follows(req[r].state, Seen(t))
      BY <2>1, <2>4 DEF Polite, Pending, PutShape
    <3>4. CASE req[r].state = "ASSIGNED" /\ Seen(t) = {}
      <4>1. Lifecycle!Assign(t)
        BY <3>1, <3>2, <3>4 DEF Lifecycle!Assign
      <4> QED  BY <2>2, <4>1 DEF Lifecycle!Next
    <3>5. ASSUME NEW from \in Seen(t), Latest(from, Seen(t)), CanTransition(from, req[r].state)
          PROVE  [Lifecycle!Next]_SeenOfTrips
      <4>1. from \in States /\ req[r].state \in States
        BY <2>1, <2>2 DEF Polite, Proper, Later
      <4>2. Lifecycle!CanTransition(from, req[r].state)
        BY <3>5 DEF CanTransition, Lifecycle!CanTransition, validTransitions,
                    Lifecycle!validTransitions
      <4>3. Lifecycle!Move(t, from, req[r].state)
        BY <3>1, <3>2, <3>5, <4>2 DEF Lifecycle!Move
      <4>4. Lifecycle!IsLatest(from, SeenOfTrips[t])
        BY <3>2, <3>5, LatestIsLatest
      <4>5. from \in Lifecycle!States /\ req[r].state \in Lifecycle!States
        BY <4>1 DEF States, Lifecycle!States
      <4> QED  BY <2>2, <4>3, <4>4, <4>5 DEF Lifecycle!Next
    <3> QED  BY <3>3, <3>4, <3>5 DEF Follows
  <2> QED  BY <2>3, <2>4
<1>2. PInv /\ [Next]_vars => [polite => Lifecycle!Next]_SeenOfTrips
  BY <1>1, OnlyPutIsSeen DEF PInv
<1> QED  BY <1>2, PoliteInvariance, PTL DEF Spec, LifecycleRespected

\* When callers wait for their answers, the stream of a trip never steps back,
\* retried publications included (kafkax.go:54-56).
THEOREM StreamKeepsOrder == Spec => []StreamInOrder
<1>1. Init => StreamInOrder
  BY DEF Init, StreamInOrder
<1>2. PInv /\ StreamInOrder /\ [Next]_vars => StreamInOrder'
  <2> SUFFICES ASSUME PInv, StreamInOrder, [Next]_vars, polite' PROVE StreamInOrder'
    BY DEF StreamInOrder
  <2>1. polite /\ IInv /\ Polite
    BY DEF PInv, Next, vars
  <2>2. CASE log' = log
    BY <2>1, <2>2 DEF StreamInOrder
  <2>3. ASSUME NEW r \in Requests, log' = Append(log, EventOf(r)),
               \A i \in DOMAIN log : log[i].trip = req[r].trip =>
                                        NoLater(log[i].state, req[r].state)
        PROVE  StreamInOrder'
    <3>1. EventOf(r).trip = req[r].trip /\ EventOf(r).state = req[r].state
      BY DEF EventOf
    <3>2. ASSUME NEW i \in DOMAIN log', NEW j \in DOMAIN log', i < j,
                 log'[i].trip = log'[j].trip
          PROVE  NoLater(log'[i].state, log'[j].state)
      <4>1. i \in DOMAIN log /\ log'[i] = log[i]
        BY <2>1, <2>3, <3>2 DEF IInv, TypeOK
      <4>2. CASE j \in DOMAIN log
        <5>1. log'[j] = log[j]
          BY <2>1, <2>3, <4>2 DEF IInv, TypeOK
        <5> QED  BY <2>1, <3>2, <4>1, <4>2, <5>1 DEF StreamInOrder
      <4>3. CASE j = Len(log) + 1
        <5>1. log'[j] = EventOf(r)
          BY <2>1, <2>3, <4>3 DEF IInv, TypeOK
        <5> QED  BY <2>3, <3>1, <3>2, <4>1, <5>1
      <4> QED  BY <2>1, <2>3, <3>2, <4>2, <4>3 DEF IInv, TypeOK
    <3> QED  BY <3>2 DEF StreamInOrder
  <2>4. ASSUME NEW r \in Requests, Emit(r), log' # log
        PROVE  StreamInOrder'
    <3>1. /\ log' = Append(log, EventOf(r))
          /\ req[r].pc = "emit"
          /\ r \in landed
          /\ req[r].trip \in Trips
      BY <2>1, <2>4 DEF Emit, Produce, IInv, Locals, Local
    <3>2. Proper(Seen(req[r].trip)) /\ Latest(req[r].state, Seen(req[r].trip))
      BY <2>1, <3>1 DEF Polite, Pending
    <3>3. ASSUME NEW i \in DOMAIN log, log[i].trip = req[r].trip
          PROVE  NoLater(log[i].state, req[r].state)
      <4>1. log[i].state \in Seen(req[r].trip) \cup {"REQUESTED"}
        BY <2>1, <3>3 DEF IInv, PublishedWasCached, Seen
      <4> QED  BY <3>2, <4>1, LatestIsNoEarlier
    <3> QED  BY <2>3, <3>1, <3>3
  <2>5. ASSUME NEW r \in Requests, EmitRequested(r), log' # log
        PROVE  StreamInOrder'
    <3>1. /\ log' = Append(log, EventOf(r))
          /\ req[r].state = "REQUESTED"
          /\ Seen(req[r].trip) = {}
      BY <2>1, <2>5 DEF EmitRequested, Produce, IInv, Locals, Local, History, Unseen,
                       Ridden, InFlight
    <3>2. ASSUME NEW i \in DOMAIN log, log[i].trip = req[r].trip
          PROVE  log[i].state = "REQUESTED"
      BY <2>1, <3>1, <3>2 DEF IInv, PublishedWasCached, Seen
    <3> QED  BY <2>3, <3>1, <3>2 DEF NoLater
  <2> QED
    BY <2>2, <2>4, <2>5
       DEF Next, Serve, Refuse, Ride, Transition, Put, Abort, Expire, vars
<1> QED  BY <1>1, <1>2, PoliteInvariance, PTL DEF Spec

(***************************************************************************)
(* Records: what a step may do to one.                                     *)
(***************************************************************************)
\* The record of t is kept, forgotten, new, or moved on by its own driver
\* along validTransitions.
Advances(t) ==
  \/ cache'[t] \in {cache[t], Absent}
  \/ cache[t] = Absent
  \/ /\ CanTransition(cache[t].state, cache'[t].state)
     /\ cache'[t].driver = cache[t].driver

\* Whatever races, the driver a SET writes is the one of the record it
\* overwrites.
LEMMA PutKeepsDriver ==
  ASSUME IInv, NEW r \in Requests, Put(r), cache[req[r].trip] # Absent
  PROVE  cache[req[r].trip].driver = req[r].driver
<1>1. PutShape(r)
  BY PutFrame
<1>2. PICK q \in landed : /\ req[q].trip = req[r].trip
                          /\ req[q].driver = cache[req[r].trip].driver
  BY <1>1 DEF PutShape, IInv, CacheWasPut
<1> QED  BY <1>2 DEF IInv, TypeOK, SameDriver

\* Two states that are both the latest of a proper history are one.
LEMMA OneLatest ==
  ASSUME NEW S, Proper(S), NEW a, NEW b, Latest(a, S), Latest(b, S)
  PROVE  a = b
<1>1. /\ a \in Later /\ b \in Later /\ a \in S /\ b \in S
      /\ <<a, b>> \notin validTransitions /\ <<b, a>> \notin validTransitions
      /\ \A u \in S : <<a, u>> \notin validTransitions /\ <<b, u>> \notin validTransitions
  BY DEF Proper, Latest, CanTransition
<1>2. CASE a = "ASSIGNED" \/ b = "ASSIGNED"
  BY <1>1, <1>2 DEF Proper, Later, States, validTransitions
<1>3. CASE a = "IN_PROGRESS" \/ b = "IN_PROGRESS"
  BY <1>1, <1>3 DEF Proper, Later, States, validTransitions
<1> QED  BY <1>1, <1>2, <1>3 DEF Proper, Later, States

LEMMA PutAdvances ==
  ASSUME IInv, Polite, NEW r \in Requests, Put(r), NEW t \in Trips
  PROVE  Advances(t)
<1>1. PutShape(r)
  BY PutFrame
<1> SUFFICES ASSUME t = req[r].trip, cache[t] # Absent, r \in landed',
                    cache'[t] = [driver |-> req[r].driver, state |-> req[r].state]
             PROVE  Advances(t)
  BY <1>1 DEF PutShape, IInv, TypeOK, Advances
<1>2. cache'[t].driver = cache[t].driver /\ cache[t] \in Entry
  BY PutKeepsDriver DEF IInv, TypeOK
<1>3. Proper(Seen(t)) /\ Latest(cache[t].state, Seen(t)) /\ Pending(r)
  BY DEF Polite, Fresher
<1>4. CASE r \in landed
  <2>1. req[r].state = cache[t].state
    BY <1>1, <1>3, <1>4, OneLatest DEF Pending, PutShape
  <2>2. cache'[t] = cache[t]
    BY <1>2, <2>1 DEF Entry
  <2> QED  BY <2>2 DEF Advances
<1>5. CASE r \notin landed
  <2>1. Follows(req[r].state, Seen(t))
    BY <1>1, <1>3, <1>5 DEF Pending, PutShape
  <2>2. PICK from \in Seen(t) : Latest(from, Seen(t)) /\ CanTransition(from, req[r].state)
    BY <1>3, <2>1 DEF Follows, Latest
  <2>3. from = cache[t].state
    BY <1>3, <2>2, OneLatest
  <2> QED  BY <1>2, <2>2, <2>3 DEF Advances
<1> QED  BY <1>4, <1>5

\* Only Put and Expire write a record.
LEMMA OnlyPutAndExpire ==
  ASSUME IInv, [Next]_vars, cache' # cache
  PROVE  \/ \E r \in Requests : Put(r)
         \/ \E t \in Trips : Expire(t)
BY DEF Next, Serve, Refuse, Ride, Transition, EmitRequested, Emit, Abort, vars

\* A record is never given to another driver, however callers race
\* (main.go:189: a transition keeps the driver it read).
THEOREM RecordKeepsDriver ==
  Spec => [][\A t \in Trips : cache[t] # Absent /\ cache'[t] # Absent
                                => cache'[t].driver = cache[t].driver]_cache
<1>1. IInv /\ [Next]_vars =>
        [\A t \in Trips : cache[t] # Absent /\ cache'[t] # Absent
                            => cache'[t].driver = cache[t].driver]_cache
  <2> SUFFICES ASSUME IInv, [Next]_vars, cache' # cache, NEW t \in Trips,
                      cache[t] # Absent, cache'[t] # Absent
               PROVE  cache'[t].driver = cache[t].driver
    OBVIOUS
  <2>1. ASSUME NEW r \in Requests, Put(r) PROVE cache'[t].driver = cache[t].driver
    <3>1. PutShape(r) /\ cache \in [Trips -> Entry \cup {Absent}]
      BY <2>1, PutFrame DEF IInv, TypeOK
    <3>2. CASE t = req[r].trip
      BY <2>1, <3>1, <3>2, PutKeepsDriver DEF PutShape
    <3> QED  BY <3>1, <3>2 DEF PutShape
  <2>2. ASSUME NEW u \in Trips, Expire(u) PROVE cache'[t].driver = cache[t].driver
    BY <2>2 DEF Expire, IInv, TypeOK
  <2> QED  BY <2>1, <2>2, OnlyPutAndExpire
<1> QED  BY <1>1, Invariance, PTL DEF Spec

\* When callers wait for their answers, a record only moves on: expiry and
\* repeated SETs included, no Put takes a trip back (main.go:189-204).
THEOREM RecordsAdvance == Spec => [][polite => \A t \in Trips : Advances(t)]_cache
<1>1. PInv /\ [Next]_vars => [polite => \A t \in Trips : Advances(t)]_cache
  <2> SUFFICES ASSUME PInv, [Next]_vars, cache' # cache, polite, NEW t \in Trips
               PROVE  Advances(t)
    OBVIOUS
  <2>1. ASSUME NEW r \in Requests, Put(r) PROVE Advances(t)
    BY <2>1, PutAdvances DEF PInv
  <2>2. ASSUME NEW u \in Trips, Expire(u) PROVE Advances(t)
    BY <2>2 DEF Expire, PInv, IInv, TypeOK, Advances
  <2> QED  BY <2>1, <2>2, OnlyPutAndExpire DEF PInv
<1> QED  BY <1>1, PoliteInvariance, PTL DEF Spec

\* What is left of TerminalIsFinal, which racing callers break: when callers
\* wait for their answers no terminal record is overwritten
\* (transition_test.go:22-27).
THEOREM TerminalStays ==
  Spec => [][polite => \A t \in Trips :
               cache[t].state \in Terminal => cache'[t] \in {cache[t], Absent}]_cache
<1>1. ASSUME NEW t \in Trips, IInv, Advances(t), cache[t].state \in Terminal
      PROVE  cache'[t] \in {cache[t], Absent}
  <2>1. cache[t].state \in States /\ cache[t] # Absent
    BY <1>1 DEF Terminal, Absent, States
  <2>2. ~CanTransition(cache[t].state, cache'[t].state)
    BY <1>1 DEF Terminal, CanTransition, validTransitions, States
  <2> QED  BY <1>1, <2>1, <2>2 DEF Advances
<1>2. PInv /\ [polite => \A t \in Trips : Advances(t)]_cache =>
        [polite => \A t \in Trips :
           cache[t].state \in Terminal => cache'[t] \in {cache[t], Absent}]_cache
  BY <1>1 DEF PInv
<1> QED  BY <1>2, PoliteInvariance, RecordsAdvance, PTL
================================================================================
