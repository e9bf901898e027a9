--------------------------- MODULE TripPipelineProofs ---------------------------
(***************************************************************************)
(* Theorems about TripPipeline: the API and the workers joined by the      *)
(* stream, for every number of requests, attempts, workers and faults.     *)
(*                                                                         *)
(* What TripApiProofs and TripWorkerProofs establish of each component is  *)
(* taken over by instantiating them. ApiP and WorkerP extend the modules   *)
(* that TripPipeline instantiates as Api and Worker, on the same variables *)
(* and constants: the first lemmas say that they take the same steps.      *)
(***************************************************************************)
EXTENDS TripPipeline, TLAPS

ApiP    == INSTANCE TripApiProofs
WorkerP == INSTANCE TripWorkerProofs

(***************************************************************************)
(* The components' steps.                                                  *)
(***************************************************************************)
LEMMA ApiInit == Api!Init => ApiP!Init
BY DEF Api!Init, Api!Absent, Api!NewRequest, ApiP!Init, ApiP!Absent, ApiP!NewRequest

LEMMA ApiRefuse == \A r : Api!Refuse(r) => ApiP!Refuse(r)
BY DEF Api!Refuse, ApiP!Refuse

LEMMA ApiRide == \A r, t, d : Api!Ride(r, t, d) => ApiP!Ride(r, t, d)
BY DEF Api!Ride, Api!Fresh, ApiP!Ride, ApiP!Fresh

LEMMA ApiTransition == \A r, t, to : Api!Transition(r, t, to) => ApiP!Transition(r, t, to)
BY DEF Api!Transition, Api!Known, Api!Idle, Api!Accepts, Api!Absent, Api!InFlight,
       ApiP!Transition, ApiP!Known, ApiP!Idle, ApiP!Accepts, ApiP!Absent, ApiP!InFlight,
       Api!CanTransition, Api!validTransitions, ApiP!CanTransition, ApiP!validTransitions

LEMMA ApiEmitRequested == \A r : Api!EmitRequested(r) => ApiP!EmitRequested(r)
BY DEF Api!EmitRequested, Api!Produce, Api!EventOf, Api!Resume, Api!AfterRequested, Api!At,
       ApiP!EmitRequested, ApiP!Produce, ApiP!EventOf, ApiP!Resume, ApiP!AfterRequested, ApiP!At

LEMMA ApiPut == \A r : Api!Put(r) => ApiP!Put(r)
BY DEF Api!Put, Api!Resume, Api!OnPutError, Api!At,
       ApiP!Put, ApiP!Resume, ApiP!OnPutError, ApiP!At

LEMMA ApiEmit == \A r : Api!Emit(r) => ApiP!Emit(r)
BY DEF Api!Emit, Api!Produce, Api!EventOf, Api!Resume, Api!At,
       ApiP!Emit, ApiP!Produce, ApiP!EventOf, ApiP!Resume, ApiP!At

LEMMA ApiAbort == \A r : Api!Abort(r) => ApiP!Abort(r)
BY DEF Api!Abort, Api!InFlight, ApiP!Abort, ApiP!InFlight

LEMMA ApiExpire == \A t : Api!Expire(t) => ApiP!Expire(t)
BY DEF Api!Expire, Api!Absent, ApiP!Expire, ApiP!Absent

LEMMA ApiNext == Api!Next => ApiP!Next
BY ApiRefuse, ApiRide, ApiTransition, ApiEmitRequested, ApiPut, ApiEmit, ApiAbort, ApiExpire
   DEF Api!Next, Api!Serve, ApiP!Next, ApiP!Serve

LEMMA WorkerInit == Worker!Init => WorkerP!Init
BY DEF Worker!Init, Worker!NoRow, Worker!Down, WorkerP!Init, WorkerP!NoRow, WorkerP!Down

LEMMA WorkerWork == \A w : Worker!Work(w) => WorkerP!Work(w)
<1> TAKE w
<1>1. Worker!Start(w) => WorkerP!Start(w)
  BY DEF Worker!Start, Worker!hits, WorkerP!Start, WorkerP!hits
<1>2. Worker!Assign(w) => WorkerP!Assign(w)
  BY DEF Worker!Assign, Worker!Given, Worker!StartAt, Worker!hits,
         WorkerP!Assign, WorkerP!Given, WorkerP!StartAt, WorkerP!hits
<1>3. Worker!Read(w) => WorkerP!Read(w)
  BY DEF Worker!Read, Worker!ToCommit, Worker!hits, WorkerP!Read, WorkerP!ToCommit, WorkerP!hits
<1>4. Worker!Flush(w) => WorkerP!Flush(w)
  BY DEF Worker!Flush, Worker!hits, WorkerP!Flush, WorkerP!hits
<1>5. Worker!Apply(w) => WorkerP!Apply(w)
  BY DEF Worker!Apply, Worker!Upsert, Worker!Finish, Worker!Error, Worker!Fault,
         WorkerP!Apply, WorkerP!Upsert, WorkerP!Finish, WorkerP!Error, WorkerP!Fault
<1>6. Worker!RollBack(w) => WorkerP!RollBack(w)
  BY DEF Worker!RollBack, Worker!Finish, Worker!Error, Worker!Fault, Worker!AfterError,
         WorkerP!RollBack, WorkerP!Finish, WorkerP!Error, WorkerP!Fault, WorkerP!AfterError
<1>7. Worker!Notify(w) => WorkerP!Notify(w)
  BY DEF Worker!Notify, Worker!Finish, Worker!hits, WorkerP!Notify, WorkerP!Finish, WorkerP!hits
<1>8. Worker!Drop(w) => WorkerP!Drop(w)
  BY DEF Worker!Drop, Worker!ToCommit, WorkerP!Drop, WorkerP!ToCommit
<1>9. Worker!Exit(w) => WorkerP!Exit(w)
  BY DEF Worker!Exit, Worker!LastFlush, Worker!Unflushed, Worker!Leave, Worker!Down,
         WorkerP!Exit, WorkerP!LastFlush, WorkerP!Unflushed, WorkerP!Leave, WorkerP!Down
<1> QED
  BY <1>1, <1>2, <1>3, <1>4, <1>5, <1>6, <1>7, <1>8, <1>9 DEF Worker!Work, WorkerP!Work

LEMMA WorkerDisturb == \A w : Worker!Disturb(w) => WorkerP!Disturb(w)
<1> TAKE w
<1>1. Worker!Rebalance(w) => WorkerP!Rebalance(w)
  BY DEF Worker!Rebalance, Worker!Given, Worker!StartAt, Worker!Fault, Worker!LastFlush,
         Worker!InHand, Worker!Unflushed,
         WorkerP!Rebalance, WorkerP!Given, WorkerP!StartAt, WorkerP!Fault, WorkerP!LastFlush,
         WorkerP!InHand, WorkerP!Unflushed
<1>2. Worker!Crash(w) => WorkerP!Crash(w)
  BY DEF Worker!Crash, Worker!Leave, Worker!Down, Worker!Fault, Worker!InHand, Worker!Unflushed,
         WorkerP!Crash, WorkerP!Leave, WorkerP!Down, WorkerP!Fault, WorkerP!InHand,
         WorkerP!Unflushed
<1>3. Worker!Stop(w) => WorkerP!Stop(w)
  BY DEF Worker!Stop, Worker!Fault, WorkerP!Stop, WorkerP!Fault
<1> QED  BY <1>1, <1>2, <1>3 DEF Worker!Disturb, WorkerP!Disturb

\* A step of the pipeline is one of the API that leaves the workers alone, or
\* one of a worker that leaves the API and the stream alone.
LEMMA PipelineNext ==
  ASSUME [Next]_vars
  PROVE  \/ ApiP!Next /\ UNCHANGED work
         \/ \E w \in Workers : /\ WorkerP!Work(w) \/ WorkerP!Disturb(w)
                               /\ UNCHANGED <<api, log>>
         \/ UNCHANGED vars
<1>1. ASSUME NEW w \in Workers, Worker!Work(w) \/ Worker!Disturb(w)
      PROVE  UNCHANGED log
  BY <1>1
     DEF Worker!Work, Worker!Start, Worker!Assign, Worker!Read, Worker!Flush, Worker!Apply,
         Worker!RollBack, Worker!Notify, Worker!Drop, Worker!Exit, Worker!Disturb,
         Worker!Rebalance, Worker!Crash, Worker!Stop
<1> QED
  BY <1>1, ApiNext, WorkerWork, WorkerDisturb DEF Next, ApiStep, WorkerStep

(***************************************************************************)
(* The inductive invariant: what holds of each component, and where rows   *)
(* come from.                                                              *)
(***************************************************************************)
\* A row's state is that of an event of its trip that was stored.
RowsStored ==
  \A t \in Trips : trips[t].state # "NONE" =>
    \E k \in DOMAIN audit : /\ log[audit[k]].trip = t
                           /\ log[audit[k]].state = trips[t].state

PipelineInv ==
  /\ ApiP!PInv
  /\ WorkerP!Typed
  /\ WorkerP!InOrder
  /\ RowsStored

\* A step of the API adds one event at most, and one TripWorker expects.
LEMMA StreamGrows ==
  ASSUME ApiP!IInv, ApiP!Next
  PROVE  \/ log' = log
         \/ \E e \in WorkerP!Event : log' = Append(log, e) /\ Worker!Publishable(e)
<1>1. ASSUME NEW r \in Requests,
             log' = Append(log, ApiP!EventOf(r)),
             ApiP!EventOf(r).state = "REQUESTED" =>
               \A i \in DOMAIN log : log[i].trip = req[r].trip => log[i].state = "REQUESTED"
      PROVE  \E e \in WorkerP!Event : log' = Append(log, e) /\ Worker!Publishable(e)
  <2> DEFINE e == ApiP!EventOf(r)
  <2>1. /\ e.trip = req[r].trip
        /\ e.driver = IF e.state = "REQUESTED" THEN NoDriver ELSE req[r].driver
    BY DEF ApiP!EventOf
  <2>2. e \in WorkerP!Event
    <3>1. ApiP!IInv'
      BY ApiP!StepInv, TripPipelineAssumption
    <3>2. log \in Seq(ApiP!Event) /\ log' \in Seq(ApiP!Event)
      BY <3>1 DEF ApiP!IInv, ApiP!TypeOK
    <3>3. log'[Len(log) + 1] = e /\ Len(log) + 1 \in DOMAIN log'
      BY <1>1, <3>2
    <3> QED  BY <3>2, <3>3 DEF ApiP!Event, WorkerP!Event, ApiP!States, WorkerP!States
  <2>3. ASSUME NEW i \in DOMAIN log, log[i].trip = e.trip
        PROVE  log[i].driver \in {NoDriver, e.driver}
    <3>1. CASE log[i].state = "REQUESTED"
      <4>1. log[i] \in ApiP!Event
        BY DEF ApiP!IInv, ApiP!TypeOK
      <4> QED  BY <3>1, <4>1 DEF ApiP!Event
    <3>2. CASE log[i].state # "REQUESTED"
      <4>1. PICK q \in landed : req[q].trip = log[i].trip /\ req[q].driver = log[i].driver
        BY <3>2 DEF ApiP!IInv, ApiP!PublishedWasCached
      <4>2. req[q].driver = req[r].driver
        BY <2>1, <2>3, <4>1 DEF ApiP!IInv, ApiP!TypeOK, ApiP!SameDriver
      <4> QED  BY <1>1, <2>1, <2>3, <3>2, <4>1, <4>2
    <3> QED  BY <3>1, <3>2
  <2>4. Worker!Publishable(e)
    BY <1>1, <2>1, <2>3 DEF Worker!Publishable
  <2> QED  BY <1>1, <2>2, <2>4
<1> QED  BY <1>1, ApiP!AppendsInOrder, TripPipelineAssumption

\* The worker's part stands when the stream grows.
LEMMA WorkerWaits ==
  ASSUME PipelineInv, ApiP!Next, UNCHANGED work
  PROVE  WorkerP!Typed' /\ WorkerP!InOrder' /\ RowsStored'
<1>1. WorkerP!InOrder'
  BY DEF work, PipelineInv, WorkerP!InOrder, WorkerP!OwnerQueues, WorkerP!HandedOut,
         WorkerP!Front, WorkerP!InOrderOnceUnlessAgain
<1>2. CASE log' = log
  <2>1. UNCHANGED WorkerP!vars
    BY <1>2 DEF work, WorkerP!vars
  <2>2. WorkerP!Typed'
    BY <2>1, WorkerP!TypedNext, TripPipelineAssumption DEF PipelineInv
  <2> QED  BY <1>1, <1>2, <2>2 DEF work, PipelineInv, RowsStored
<1>3. ASSUME NEW e \in WorkerP!Event, log' = Append(log, e)
      PROVE  WorkerP!Typed' /\ RowsStored'
  <2>1. WorkerP!Arrives(e)
    BY <1>3 DEF WorkerP!Arrives, WorkerP!hits, work
  <2>2. WorkerP!Typed'
    BY <2>1, WorkerP!TypedArrival, TripPipelineAssumption DEF PipelineInv
  <2>3. /\ audit \in Seq(DOMAIN log)
        /\ \A i \in DOMAIN log : log'[i] = log[i]
    BY <1>3 DEF PipelineInv, WorkerP!Typed, WorkerP!TypeOK
  <2>4. RowsStored'
    BY <2>3 DEF PipelineInv, RowsStored, work
  <2> QED  BY <2>2, <2>4
<1> QED  BY <1>1, <1>2, <1>3, StreamGrows DEF PipelineInv, ApiP!PInv

\* What Apply does to the rows: one of them takes the state of the event.
LEMMA RowApplied ==
  ASSUME WorkerP!Typed, NEW w \in Workers, WorkerP!Apply(w)
  PROVE  \E i \in DOMAIN log :
           /\ i = worker[w].hand
           /\ log[i].trip \in Trips
           /\ audit' = Append(audit, i)
           /\ trips'[log[i].trip].state = log[i].state
           /\ \A t \in Trips \ {log[i].trip} : trips'[t] = trips[t]
           /\ UNCHANGED log
<1> DEFINE i == worker[w].hand
           e == log[i]
<1>1. i \in DOMAIN log /\ audit' = Append(audit, i) /\ UNCHANGED log
  BY WorkerP!ApplyStep, TripPipelineAssumption
<1>2. e.trip \in Trips
  BY <1>1 DEF WorkerP!Typed, WorkerP!TypeOK, WorkerP!Event
<1>3. trips' = [trips EXCEPT ![e.trip] = WorkerP!Upsert(trips[e.trip], e)]
  BY <1>2 DEF WorkerP!Apply, WorkerP!Typed, WorkerP!TypeOK
<1>4. /\ trips'[e.trip] = WorkerP!Upsert(trips[e.trip], e)
      /\ \A t \in Trips \ {e.trip} : trips'[t] = trips[t]
  BY <1>2, <1>3 DEF WorkerP!Typed, WorkerP!TypeOK
<1>5. trips'[e.trip].state = e.state
  BY <1>4 DEF WorkerP!Upsert
<1> QED  BY <1>1, <1>2, <1>4, <1>5

\* The worker's part stands when a worker moves.
LEMMA WorkerMoves ==
  ASSUME PipelineInv, NEW w \in Workers, WorkerP!Work(w) \/ WorkerP!Disturb(w),
         UNCHANGED <<api, log>>
  PROVE  WorkerP!Typed' /\ WorkerP!InOrder' /\ RowsStored'
<1>1. WorkerP!Next
  BY DEF WorkerP!Next
<1>2. WorkerP!Typed' /\ WorkerP!InOrder'
  BY <1>1, WorkerP!TypedNext, WorkerP!OrderNext, TripPipelineAssumption DEF PipelineInv
<1>3. ASSUME UNCHANGED <<trips, audit>>
      PROVE  RowsStored'
  BY <1>3 DEF PipelineInv, RowsStored
<1>4. ASSUME NEW v \in Workers, WorkerP!Apply(v)
      PROVE  RowsStored'
  <2>1. PICK i \in DOMAIN log :
          /\ audit' = Append(audit, i)
          /\ trips'[log[i].trip].state = log[i].state
          /\ \A t \in Trips \ {log[i].trip} : trips'[t] = trips[t]
          /\ UNCHANGED log
    BY <1>4, RowApplied DEF PipelineInv
  <2>2. /\ DOMAIN audit' = DOMAIN audit \cup {Len(audit) + 1}
        /\ \A k \in DOMAIN audit : audit'[k] = audit[k]
        /\ audit'[Len(audit) + 1] = i
    BY <2>1 DEF PipelineInv, WorkerP!Typed, WorkerP!TypeOK
  <2> QED  BY <2>1, <2>2 DEF PipelineInv, RowsStored
<1>5. UNCHANGED <<trips, audit>> \/ \E v \in Workers : WorkerP!Apply(v)
  BY DEF WorkerP!Work, WorkerP!Start, WorkerP!Assign, WorkerP!Read, WorkerP!Flush,
         WorkerP!RollBack, WorkerP!Notify, WorkerP!Drop, WorkerP!Exit, WorkerP!Disturb, WorkerP!Rebalance,
         WorkerP!Crash, WorkerP!Stop
<1> QED  BY <1>2, <1>3, <1>4, <1>5

LEMMA PipelineInit == Init => PipelineInv
<1> SUFFICES ASSUME Init PROVE PipelineInv
  OBVIOUS
<1>1. ApiP!PInv
  BY ApiInit, ApiP!PoliteInit, TripPipelineAssumption DEF Init
<1>2. WorkerP!Init
  BY WorkerInit DEF Init
<1>3. WorkerP!Typed
  BY <1>2, WorkerP!TypedInit, TripPipelineAssumption
<1>4. WorkerP!InOrder
  BY <1>2, WorkerP!OrderInit, TripPipelineAssumption
<1>5. RowsStored
  BY <1>2 DEF WorkerP!Init, WorkerP!NoRow, RowsStored
<1> QED  BY <1>1, <1>3, <1>4, <1>5 DEF PipelineInv

\* A step of the pipeline is a step of the API, or none.
LEMMA PipelineIsApi == [Next]_vars => [ApiP!Next]_(ApiP!vars)
BY PipelineNext DEF ApiP!vars, vars, api

LEMMA PipelineStep == PipelineInv /\ [Next]_vars => PipelineInv'
<1> SUFFICES ASSUME PipelineInv, [Next]_vars PROVE PipelineInv'
  OBVIOUS
<1>1. ApiP!PInv'
  BY PipelineIsApi, ApiP!PoliteStep, TripPipelineAssumption DEF PipelineInv
<1>2. CASE ApiP!Next /\ UNCHANGED work
  BY <1>1, <1>2, WorkerWaits DEF PipelineInv
<1>3. ASSUME NEW w \in Workers, WorkerP!Work(w) \/ WorkerP!Disturb(w), UNCHANGED <<api, log>>
      PROVE  PipelineInv'
  BY <1>1, <1>3, WorkerMoves DEF PipelineInv
<1>4. CASE UNCHANGED vars
  <2>1. UNCHANGED WorkerP!vars
    BY <1>4 DEF vars, work, WorkerP!vars
  <2>2. WorkerP!Typed' /\ WorkerP!InOrder'
    BY <2>1, WorkerP!TypedNext, WorkerP!OrderNext, TripPipelineAssumption DEF PipelineInv
  <2>3. RowsStored'
    BY <1>4 DEF vars, work, PipelineInv, RowsStored
  <2> QED  BY <1>1, <2>2, <2>3 DEF PipelineInv
<1> QED  BY <1>2, <1>3, <1>4, PipelineNext

LEMMA PipelineInvariance == Spec => []PipelineInv
BY PipelineInit, PipelineStep, PTL DEF Spec

\* The stream of a trip never steps back, here as in TripApi.
LEMMA PipelineInOrder == Spec => []ApiP!StreamInOrder
<1>1. Spec => ApiP!Spec
  BY ApiInit, PipelineIsApi, PTL DEF Spec, Init, ApiP!Spec
<1>2. ApiP!Spec => []ApiP!StreamInOrder
  BY ApiP!StreamKeepsOrder, TripPipelineAssumption
<1> QED  BY <1>1, <1>2, PTL

(***************************************************************************)
(* What the invariant establishes.                                         *)
(***************************************************************************)
\* A row's state is REQUESTED or one its trip was given in the cache.
LEMMA RowIsGranted ==
  ASSUME PipelineInv, NEW t \in Trips, trips[t].state # "NONE"
  PROVE  trips[t].state \in {"REQUESTED"} \cup ApiP!Seen(t)
<1>1. PICK k \in DOMAIN audit : log[audit[k]].trip = t /\ log[audit[k]].state = trips[t].state
  BY DEF PipelineInv, RowsStored
<1>2. audit[k] \in DOMAIN log
  BY <1>1 DEF PipelineInv, WorkerP!Typed, WorkerP!TypeOK
<1>3. CASE trips[t].state # "REQUESTED"
  <2>1. PICK r \in landed : req[r].trip = t /\ req[r].state = trips[t].state
    BY <1>1, <1>2, <1>3 DEF PipelineInv, ApiP!PInv, ApiP!IInv, ApiP!PublishedWasCached
  <2> QED  BY <2>1 DEF ApiP!Seen
<1> QED  BY <1>3

\* However requests race, calls are repeated and events are redelivered, the
\* database claims no state the API did not grant first (main.go:171-175,
\* 204-208, trip.go:85-104).
THEOREM GrantedBeforeStored == Spec => []StoredWasGranted
<1>1. \A t : ApiP!Seen(t) = Api!Seen(t)
  BY DEF ApiP!Seen, Api!Seen
<1>2. PipelineInv => StoredWasGranted
  BY <1>1, RowIsGranted DEF StoredWasGranted
<1> QED  BY <1>2, PipelineInvariance, PTL

LEMMA SameOrder ==
  ASSUME NEW a, NEW b, ApiP!NoLater(a, b)
  PROVE  NoLater(a, b)
BY DEF ApiP!NoLater, ApiP!Stage, ApiP!States, NoLater, Stage, States

\* With callers that wait for their answers, a row is never ahead of the
\* cached record of its trip, redelivery included (main.go:171-175, 204-208).
THEOREM DatabaseLags == Spec => []RowNeverLeads
<1>1. ASSUME PipelineInv, polite, NEW t \in Trips,
             trips[t].state # "NONE", cache[t].state # "NONE"
      PROVE  NoLater(trips[t].state, cache[t].state)
  <2>1. ApiP!Proper(ApiP!Seen(t)) /\ ApiP!Latest(cache[t].state, ApiP!Seen(t))
    BY <1>1 DEF PipelineInv, ApiP!PInv, ApiP!Polite, ApiP!Fresher, ApiP!Absent
  <2>2. trips[t].state \in ApiP!Seen(t) \cup {"REQUESTED"}
    BY <1>1, RowIsGranted
  <2> QED
    BY <2>1, <2>2, ApiP!LatestIsNoEarlier, SameOrder, TripPipelineAssumption
<1>2. PipelineInv => RowNeverLeads
  BY <1>1 DEF RowNeverLeads
<1> QED  BY <1>2, PipelineInvariance, PTL

\* Apply compares nothing, yet it never takes a row back before an event is
\* given out again, whatever else goes wrong: the worker stores the stream in
\* order, and the stream of a trip is in order when callers wait for their
\* answers (kafkax.go:54-56, trip.go:85-93).
THEOREM RowsAdvance == Spec => RowOnlyAdvances
<1> DEFINE Advance == polite /\ again' = {} =>
                        \A t \in Trips : trips[t].state # "NONE" =>
                          NoLater(trips[t].state, trips'[t].state)
<1>1. ASSUME PipelineInv, ApiP!StreamInOrder, NEW w \in Workers, WorkerP!Apply(w),
             polite, again' = {}, NEW t \in Trips, trips[t].state # "NONE"
      PROVE  NoLater(trips[t].state, trips'[t].state)
  <2>1. PICK i \in DOMAIN log :
          /\ i = worker[w].hand
          /\ trips'[log[i].trip].state = log[i].state
          /\ \A u \in Trips \ {log[i].trip} : trips'[u] = trips[u]
    BY <1>1, RowApplied DEF PipelineInv
  <2>2. CASE t # log[i].trip
    BY <2>1, <2>2 DEF NoLater
  <2>3. CASE t = log[i].trip
    <3>1. /\ worker[w].pc = "got"
          /\ again = {}
          /\ audit \in Seq(DOMAIN log)
          /\ DOMAIN log \subseteq Nat
      BY <1>1, WorkerP!ApplyStep, TripPipelineAssumption
         DEF PipelineInv, WorkerP!Typed, WorkerP!TypeOK
    <3>2. \A k \in DOMAIN audit : audit[k] < i
      BY <2>1, <3>1, <1>1 DEF PipelineInv, WorkerP!InOrder, WorkerP!HandedOut
    <3>4. PICK k \in DOMAIN audit :
            log[audit[k]].trip = t /\ log[audit[k]].state = trips[t].state
      BY <1>1 DEF PipelineInv, RowsStored
    <3>5. audit[k] \in DOMAIN log /\ audit[k] < i
      BY <3>1, <3>2, <3>4
    <3>6. ApiP!NoLater(log[audit[k]].state, log[i].state)
      BY <1>1, <2>1, <2>3, <3>4, <3>5 DEF ApiP!StreamInOrder
    <3> QED  BY <2>1, <2>3, <3>4, <3>6, SameOrder
  <2> QED  BY <2>2, <2>3
<1>2. ASSUME PipelineInv, ApiP!StreamInOrder, [Next]_vars
      PROVE  [Advance]_trips
  <2>1. UNCHANGED trips \/ \E w \in Workers : WorkerP!Apply(w)
    BY <1>2, PipelineNext
       DEF work, vars, WorkerP!Work, WorkerP!Start, WorkerP!Assign, WorkerP!Read,
           WorkerP!Flush, WorkerP!RollBack, WorkerP!Notify, WorkerP!Drop, WorkerP!Exit,
           WorkerP!Disturb,
           WorkerP!Rebalance, WorkerP!Crash, WorkerP!Stop
  <2> QED  BY <1>1, <1>2, <2>1
<1>3. Spec => [][Advance]_trips
  BY <1>2, PipelineInvariance, PipelineInOrder, PTL DEF Spec
<1> QED  BY <1>3, PTL DEF RowOnlyAdvances

(***************************************************************************)
(* A drained stream.                                                       *)
(***************************************************************************)
\* The row of a trip has the state of the latest of its audit entries, here as
\* in TripWorker.
LEMMA LatestRows == Spec => []WorkerP!RowsFromLatest
<1>1. Init => WorkerP!RowsFromLatest
  BY WorkerInit
     DEF Init, WorkerP!Init, WorkerP!NoRow, WorkerP!RowsFromLatest, WorkerP!StateFromLatest,
         WorkerP!DriverFromLatest, WorkerP!EntriesOf, WorkerP!NamingOf
<1>2. ASSUME WorkerP!RowsFromLatest, UNCHANGED <<audit, trips>>,
             \A k \in DOMAIN audit : log'[audit[k]] = log[audit[k]]
      PROVE  WorkerP!RowsFromLatest'
  BY <1>2
     DEF WorkerP!RowsFromLatest, WorkerP!StateFromLatest, WorkerP!DriverFromLatest,
         WorkerP!EntriesOf, WorkerP!NamingOf, WorkerP!Latest
<1>3. ASSUME PipelineInv, WorkerP!RowsFromLatest, [Next]_vars
      PROVE  WorkerP!RowsFromLatest'
  <2>1. CASE ApiP!Next /\ UNCHANGED work
    <3>1. audit \in Seq(DOMAIN log)
      BY <1>3 DEF PipelineInv, WorkerP!Typed, WorkerP!TypeOK
    <3>2. \A i \in DOMAIN log : log'[i] = log[i]
      <4>1. ASSUME NEW e, log' = Append(log, e)
            PROVE  \A i \in DOMAIN log : log'[i] = log[i]
        BY <1>3, <4>1 DEF PipelineInv, WorkerP!Typed, WorkerP!TypeOK
      <4> QED  BY <1>3, <2>1, <4>1, StreamGrows DEF PipelineInv, ApiP!PInv
    <3>3. \A k \in DOMAIN audit : log'[audit[k]] = log[audit[k]]
      BY <3>1, <3>2
    <3> QED  BY <1>2, <1>3, <2>1, <3>3 DEF work
  <2>2. ASSUME NEW w \in Workers, WorkerP!Work(w) \/ WorkerP!Disturb(w)
        PROVE  WorkerP!RowsFromLatest'
    BY <1>3, <2>2, WorkerP!RowsFromLatestNext, TripPipelineAssumption
       DEF PipelineInv, WorkerP!Next
  <2>3. CASE UNCHANGED vars
    BY <1>2, <1>3, <2>3 DEF vars, work
  <2> QED  BY <1>3, <2>1, <2>2, <2>3, PipelineNext
<1> QED  BY <1>1, <1>3, PipelineInvariance, PTL DEF Spec

\* What the group is done with is stored or cut short, here as in TripWorker.
LEMMA PipelineAccounted == Spec => []WorkerP!Accounted
<1>1. Init => WorkerP!Accounted
  BY WorkerInit, WorkerP!AccountedInit, TripPipelineAssumption DEF Init
<1>2. ASSUME PipelineInv, WorkerP!Accounted, [Next]_vars
      PROVE  WorkerP!Accounted'
  <2>1. CASE ApiP!Next /\ UNCHANGED work
    BY <1>2, <2>1 DEF work, WorkerP!Accounted, WorkerP!Stored, WorkerP!InHand
  <2>2. ASSUME NEW w \in Workers, WorkerP!Work(w) \/ WorkerP!Disturb(w)
        PROVE  WorkerP!Accounted'
    BY <1>2, <2>2, WorkerP!AccountedNext, TripPipelineAssumption
       DEF PipelineInv, WorkerP!InOrder, WorkerP!Next
  <2>3. CASE UNCHANGED vars
    BY <1>2, <2>3 DEF vars, work, WorkerP!Accounted, WorkerP!Stored, WorkerP!InHand
  <2> QED  BY <1>2, <2>1, <2>2, <2>3, PipelineNext
<1> QED  BY <1>1, <1>2, PipelineInvariance, PTL DEF Spec

\* The safety half of RowCatchesUp: once the group is done with the last event
\* published of a trip and no worker holds it, the row has its state, unless it
\* was cut short or an event of the trip was given out again.
DrainedIsSettled ==
  \A t \in Trips : \A last \in EventsOf(t) :
    /\ \A i \in EventsOf(t) : i <= last
    /\ EventsOf(t) \cap again = {}
    /\ last <= committed /\ last \notin cut
    /\ \A w \in Workers : last \notin Worker!InHand(w)
    => trips[t].state = log[last].state

\* A worker that has drained the stream leaves no row behind it, whether or not
\* callers race, and whatever became of other events (tripworker/main.go:57-76,
\* trip.go:85-104).
THEOREM DrainedRowsAreLast == Spec => []DrainedIsSettled
<1>1. ASSUME PipelineInv, WorkerP!Accounted, WorkerP!RowsFromLatest,
             NEW t \in Trips, NEW last \in EventsOf(t),
             \A i \in EventsOf(t) : i <= last,
             EventsOf(t) \cap again = {},
             last <= committed, last \notin cut,
             \A w \in Workers : last \notin Worker!InHand(w)
      PROVE  trips[t].state = log[last].state
  <2>1. /\ audit \in Seq(DOMAIN log)
        /\ DOMAIN log = 1 .. Len(log) /\ Len(log) \in Nat
        /\ committed \in Nat
    BY <1>1 DEF PipelineInv, WorkerP!Typed, WorkerP!TypeOK
  <2>2. last \in 1 .. committed /\ last \in DOMAIN log /\ log[last].trip = t
    BY <1>1, <2>1 DEF EventsOf
  <2>3. PICK k \in DOMAIN audit : audit[k] = last
    <3>1. \A w \in Workers : last \notin WorkerP!InHand(w)
      BY <1>1 DEF Worker!InHand, WorkerP!InHand
    <3>2. last \in WorkerP!Stored
      BY <1>1, <2>2, <3>1 DEF WorkerP!Accounted
    <3> QED  BY <3>2 DEF WorkerP!Stored
  <2>4. k \in WorkerP!EntriesOf(t) /\ WorkerP!StateFromLatest(t)
    BY <1>1, <2>2, <2>3 DEF WorkerP!EntriesOf, WorkerP!RowsFromLatest
  <2>5. PICK n \in DOMAIN audit :
          /\ WorkerP!Latest(n, WorkerP!EntriesOf(t))
          /\ trips[t].state = log[audit[n]].state
    BY <2>4 DEF WorkerP!StateFromLatest
  <2>6. /\ k \in Nat /\ n \in Nat /\ k <= n
        /\ audit[n] \in EventsOf(t)
    BY <2>1, <2>4, <2>5 DEF WorkerP!Latest, WorkerP!EntriesOf, EventsOf
  <2>7. audit[n] <= last /\ audit[n] \in Nat /\ last \in Nat /\ audit[n] \notin again
    BY <1>1, <2>1, <2>2, <2>6 DEF EventsOf
  <2>8. ~(k < n)
    BY <1>1, <2>3, <2>7 DEF PipelineInv, WorkerP!InOrder, WorkerP!InOrderOnceUnlessAgain
  <2>9. k = n
    BY <2>6, <2>8
  <2> QED  BY <2>3, <2>5, <2>9
<1>2. PipelineInv /\ WorkerP!Accounted /\ WorkerP!RowsFromLatest => DrainedIsSettled
  BY <1>1 DEF DrainedIsSettled
<1> QED  BY <1>2, PipelineInvariance, PipelineAccounted, LatestRows, PTL

(***************************************************************************)
(* The API is the publisher that TripWorker assumes. MaxEvents bounds what *)
(* TripWorker's publisher may do and nothing in the API, so the theorems   *)
(* are about behaviours whose stream stays within it.                      *)
(***************************************************************************)
WithinBound == Len(log) <= MaxEvents

LEMMA StepFeeds ==
  ASSUME PipelineInv, [Next]_vars, WithinBound'
  PROVE  [Worker!Next]_(Worker!vars)
<1>1. CASE ApiStep
  <2>1. ApiP!Next /\ UNCHANGED work
    BY <1>1, ApiNext DEF ApiStep
  <2>2. ASSUME NEW e \in WorkerP!Event, log' = Append(log, e), Worker!Publishable(e)
        PROVE  Worker!Next
    <3>1. e \in Worker!Event
      BY <2>2 DEF WorkerP!Event, WorkerP!States, Worker!Event, Worker!States
    <3>2. Len(log) < MaxEvents
      BY <2>2, TripPipelineAssumption
         DEF WithinBound, PipelineInv, WorkerP!Typed, WorkerP!TypeOK
    <3>3. Worker!Publish(e)
      BY <2>1, <2>2, <3>2 DEF Worker!Publish, Worker!hits, work
    <3> QED  BY <3>1, <3>3 DEF Worker!Next
  <2>3. CASE log' = log
    BY <2>1, <2>3 DEF Worker!vars, work
  <2> QED  BY <2>1, <2>2, <2>3, StreamGrows DEF PipelineInv, ApiP!PInv
<1>2. CASE WorkerStep
  BY <1>2 DEF WorkerStep, Worker!Next
<1>3. CASE UNCHANGED vars
  BY <1>3 DEF vars, work, Worker!vars
<1> QED  BY <1>1, <1>2, <1>3 DEF Next

\* Whatever the API publishes, retried or racing, TripWorker allows of its
\* publishers: REQUESTED before any other event of its trip, and one driver per
\* trip (main.go:157, 175, 189, 208).
THEOREM ApiFeedsTheWorker == Spec /\ []WithinBound => FeedsTheWorker
<1>1. PipelineInv /\ [Next]_vars /\ WithinBound' => [Worker!Next]_(Worker!vars)
  BY StepFeeds
<1>2. Init => Worker!Init
  BY DEF Init
<1> QED
  BY <1>1, <1>2, PipelineInvariance, PTL DEF Spec, FeedsTheWorker, Worker!Spec

\* The same of the instance that carries TripWorker's theorems.
LEMMA ApiFeedsWorkerP == Spec /\ []WithinBound => WorkerP!Spec
<1>1. [Worker!Next]_(Worker!vars) => [WorkerP!Next]_(WorkerP!vars)
  <2>1. \A e : Worker!Publish(e) => WorkerP!Publish(e)
    BY DEF Worker!Publish, Worker!Publishable, Worker!hits,
           WorkerP!Publish, WorkerP!Publishable, WorkerP!hits
  <2>2. \A e \in Worker!Event : e \in WorkerP!Event
    BY DEF WorkerP!Event, WorkerP!States, Worker!Event, Worker!States
  <2>3. UNCHANGED Worker!vars => UNCHANGED WorkerP!vars
    BY DEF Worker!vars, WorkerP!vars
  <2> QED
    BY <2>1, <2>2, <2>3, WorkerWork, WorkerDisturb DEF Worker!Next, WorkerP!Next
<1> QED
  BY <1>1, WorkerInit, ApiFeedsTheWorker, PTL
     DEF FeedsTheWorker, Worker!Spec, WorkerP!Spec

\* So what TripWorker promises of any such publisher it keeps when the API is
\* the publisher: what is lost was cut short, what is stored twice or late was
\* given out again, a row is the replay of its audit entries, and nobody is told
\* of an event the database does not have (cmd/tripworker/main.go:57-78,
\* trip.go:85-104).
THEOREM WorkerKeepsItsPromises ==
  Spec /\ []WithinBound =>
    /\ []Worker!OnlyCutIsLost
    /\ []Worker!InOrderOnceUnlessAgain
    /\ []Worker!RowIsReplay
    /\ []Worker!AnnouncedIsStored
<1>1. WorkerP!OnlyCutIsLost => Worker!OnlyCutIsLost
  BY DEF WorkerP!OnlyCutIsLost, WorkerP!Lost, WorkerP!Stored, WorkerP!InHand,
         Worker!OnlyCutIsLost, Worker!Lost, Worker!Stored, Worker!InHand
<1>2. WorkerP!InOrderOnceUnlessAgain => Worker!InOrderOnceUnlessAgain
  BY DEF WorkerP!InOrderOnceUnlessAgain, Worker!InOrderOnceUnlessAgain
<1>3. WorkerP!RowIsReplay => Worker!RowIsReplay
  BY DEF WorkerP!RowIsReplay, WorkerP!Replayed, Worker!RowIsReplay, Worker!Replayed
<1>4. WorkerP!AnnouncedIsStored => Worker!AnnouncedIsStored
  BY DEF WorkerP!AnnouncedIsStored, WorkerP!Stored, Worker!AnnouncedIsStored, Worker!Stored
<1>5. WorkerP!Spec => /\ []WorkerP!OnlyCutIsLost
                      /\ []WorkerP!InOrderOnceUnlessAgain
                      /\ []WorkerP!RowIsReplay
                      /\ []WorkerP!AnnouncedIsStored
  <2>1. WorkerP!Spec => []WorkerP!OnlyCutIsLost
    BY WorkerP!OnlyCutLost, TripPipelineAssumption
  <2>2. WorkerP!Spec => []WorkerP!InOrderOnceUnlessAgain
    BY WorkerP!StoredInOrder, TripPipelineAssumption
  <2>3. WorkerP!Spec => []WorkerP!RowIsReplay
    BY WorkerP!RowsAreReplays, TripPipelineAssumption
  <2>4. WorkerP!Spec => []WorkerP!AnnouncedIsStored
    BY WorkerP!NothingUnstoredAnnounced, TripPipelineAssumption
  <2> QED  BY <2>1, <2>2, <2>3, <2>4, PTL
<1> QED  BY <1>1, <1>2, <1>3, <1>4, <1>5, ApiFeedsWorkerP, PTL
================================================================================
