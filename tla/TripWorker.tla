------------------------------- MODULE TripWorker -------------------------------
(***************************************************************************)
(* cmd/tripworker: the consumer group "trip-persister" drains one          *)
(* partition of trip-events into Postgres and notifies over Redis pub/sub. *)
(*                                                                         *)
(* kafka.Reader.ReadMessage commits by itself: it queues the offset of the *)
(* message it returns, before the loop has looked at it, and the reader    *)
(* flushes the queue once a second and when it closes. The group gives the *)
(* partition to one worker at a time and ignores the commits of others,    *)
(* but a worker that lost it still finishes the message it holds.          *)
(*                                                                         *)
(* SIGTERM cancels the context, which the loop looks at only when a call   *)
(* returns an error: while ReadMessage still has messages buffered it may  *)
(* return one of them instead, whose Apply then fails at once.             *)
(***************************************************************************)
EXTENDS Sequences, FiniteSets, TripStates

CONSTANTS
  Trips, Drivers, NoDriver,
  Refused,      \* trips whose rows Postgres refuses (a NUL in an id, say)
  Workers,      \* the tripworker processes
  Nobody,       \* owner of a partition no live worker has been given
  MaxEvents,    \* bound on the events published
  FaultKinds,   \* what may go wrong: a subset of {"crash", "stop", "move", "error"}
  MaxFaults     \* bound on how often it does

ASSUME TripWorkerAssumption ==
  /\ NoDriver \notin Drivers
  /\ Refused \subseteq Trips
  /\ Nobody \notin Workers
  /\ MaxEvents \in Nat
  /\ MaxFaults \in Nat

VARIABLES
  log,        \* the partition, in offset order
  committed,  \* the group's committed offset: how many events it has done with
  owner,      \* the worker the group assigned the partition to
  worker,     \* worker[w]: the process w
  audit,      \* table trip_events: the offset of the event behind each row
  trips,      \* table trips: the projection
  announced,  \* offsets notify was called for, told to Redis or not
  faults,     \* faults so far
  cut,        \* offsets whose Apply failed, or that were flushed and then
              \* died in the hand of a worker
  again       \* offsets given out again: not flushed when their reader was
              \* gone, or in its hand when it lost the partition

vars == <<log, committed, owner, worker, audit, trips, announced, faults, cut, again>>
hits == <<faults, cut, again>>

Event == [trip : Trips, driver : {NoDriver}, state : {"REQUESTED"}]
         \cup [trip : Trips, driver : Drivers, state : States \ {"REQUESTED"}]

NoRow == [state |-> "NONE", driver |-> NoDriver]
Row   == [state : States, driver : Drivers \cup {NoDriver}]

\* pc: "idle" in ReadMessage, "got" before Apply returns, "applied" before
\* notify returns. hand: the offset in hand. pos: the last offset fetched.
\* queued: the highest offset queued for commit. stopping: ctx is cancelled.
Worker == [pc : {"down", "idle", "got", "applied"}, hand : Nat, pos : Nat, queued : Nat,
           stopping : BOOLEAN]
Down   == [pc |-> "down", hand |-> 0, pos |-> 0, queued |-> 0, stopping |-> FALSE]

TypeOK ==
  /\ log \in Seq(Event)
  /\ committed \in 0 .. Len(log)
  /\ owner \in Workers \cup {Nobody}
  /\ worker \in [Workers -> Worker]
  /\ audit \in Seq(DOMAIN log)
  /\ trips \in [Trips -> Row \cup {NoRow}]
  /\ announced \subseteq DOMAIN log
  /\ faults \in 0 .. MaxFaults
  /\ cut \subseteq DOMAIN log
  /\ again \subseteq DOMAIN log

Init ==
  /\ log = <<>>
  /\ committed = 0
  /\ owner = Nobody
  /\ worker = [w \in Workers |-> Down]
  /\ audit = <<>>
  /\ trips = [t \in Trips |-> NoRow]
  /\ announced = {}
  /\ faults = 0
  /\ cut = {}
  /\ again = {}
--------------------------------------------------------------------------------
\* An event the API can publish next: REQUESTED before any other, repeated or
\* not, and one driver per trip (TripApi!RequestedFirst,
\* TripApi!OneDriverPerTrip; TripPipeline!FeedsTheWorker).
Publishable(e) ==
  \A i \in DOMAIN log :
    log[i].trip = e.trip =>
      /\ e.state = "REQUESTED" => log[i].state = "REQUESTED"
      /\ log[i].driver \in {NoDriver, e.driver}

Publish(e) ==
  /\ Len(log) < MaxEvents
  /\ Publishable(e)
  /\ log' = Append(log, e)
  /\ UNCHANGED <<committed, owner, worker, audit, trips, announced, hits>>

Fault(kind) ==
  /\ kind \in FaultKinds
  /\ faults < MaxFaults
  /\ faults' = faults + 1

InHand(w) == IF worker[w].pc = "got" THEN {worker[w].hand} ELSE {}

\* Offsets the next owner is given again unless w's reader flushes its queue.
Unflushed(w) == IF owner = w THEN committed + 1 .. worker[w].queued ELSE {}

\* The reader of w flushes its queue for the last time, or fails to.
LastFlush(w, flushed) ==
  committed' = IF flushed /\ owner = w THEN worker[w].queued ELSE committed
--------------------------------------------------------------------------------
\* main up to the loop: Postgres and Redis answered, the reader joins the group.
Start(w) ==
  /\ worker[w].pc = "down"
  /\ worker' = [worker EXCEPT ![w].pc = "idle"]
  /\ UNCHANGED <<log, committed, owner, audit, trips, announced, hits>>

FromEnd(offset) == Len(log)                                  \* mutant of StartAt

\* A reader given the partition starts behind the committed offset.
StartAt(offset) == offset

Given(w, offset) ==
  /\ owner' = w
  /\ worker' = [worker EXCEPT ![w] = [@ EXCEPT !.pos = StartAt(offset), !.queued = offset]]

Assign(w) ==
  /\ owner = Nobody
  /\ worker[w].pc # "down"
  /\ Given(w, committed)
  /\ UNCHANGED <<log, committed, audit, trips, announced, hits>>

\* A rebalance takes the partition from a live owner, whose reader tries to
\* flush its queued offsets first.
Rebalance(w) ==
  /\ owner # Nobody
  /\ worker[w].pc # "down"
  /\ Fault("move")
  /\ \E flushed \in BOOLEAN :
       /\ LastFlush(owner, flushed)
       /\ again' = again \cup InHand(owner) \cup IF flushed THEN {} ELSE Unflushed(owner)
  /\ Given(w, committed')
  /\ UNCHANGED <<log, audit, trips, announced, cut>>

LateByOne(offset) == offset - 1                               \* mutant of ToCommit
AheadByOne(offset) == offset + 1                              \* mutant of ToCommit

\* The offset ReadMessage queues for the message it returns.
ToCommit(offset) == offset

\* reader.ReadMessage: the offset is queued for commit before Apply is called.
Read(w) ==
  /\ owner = w
  /\ worker[w].pc = "idle" /\ ~worker[w].stopping
  /\ worker[w].pos < Len(log)
  /\ LET offset == worker[w].pos + 1 IN
     worker' = [worker EXCEPT ![w] = [@ EXCEPT !.pc = "got", !.hand = offset, !.pos = offset,
                                              !.queued = ToCommit(offset)]]
  /\ UNCHANGED <<log, committed, owner, audit, trips, announced, hits>>

\* The reader's commit loop, once a second (CommitInterval).
Flush(w) ==
  /\ owner = w
  /\ worker[w].queued > committed
  /\ committed' = worker[w].queued
  /\ UNCHANGED <<log, owner, worker, audit, trips, announced, hits>>
--------------------------------------------------------------------------------
Overwrite(row, e) == [state |-> e.state, driver |-> e.driver]   \* mutant of Upsert
OnlyLegal(row, e) ==                                            \* mutant of Upsert
  IF row = NoRow \/ CanTransition(row.state, e.state)
  THEN [state |-> e.state, driver |-> e.driver] ELSE row

\* INSERT ... ON CONFLICT (id) DO UPDATE: an event without a driver keeps the
\* driver of the row, and nothing is asked of the row's state.
Upsert(row, e) ==
  [state  |-> e.state,
   driver |-> IF e.driver # NoDriver THEN e.driver ELSE row.driver]

Finish(w, pc) ==
  LET hand == IF pc = "idle" THEN 0 ELSE worker[w].hand IN
  worker' = [worker EXCEPT ![w] = [@ EXCEPT !.pc = pc, !.hand = hand]]

\* An error of store.Apply: a fault, unless there is a reason for it.
Error(reason) == IF reason THEN UNCHANGED faults ELSE Fault("error")

\* store.Apply commits its transaction: the row and its audit entry together.
\* An error after the commit is still an error to the loop.
Apply(w) ==
  /\ worker[w].pc = "got"
  /\ LET e == log[worker[w].hand] IN
     /\ e.trip \notin Refused
     /\ trips' = [trips EXCEPT ![e.trip] = Upsert(@, e)]
  /\ audit' = Append(audit, worker[w].hand)
  /\ \/ Finish(w, "applied") /\ UNCHANGED faults
     \/ Finish(w, "idle") /\ Error(worker[w].stopping)
  /\ UNCHANGED <<log, committed, owner, announced, cut, again>>

NotifyAnyway == "applied"                                  \* mutant of AfterError
RetryForever == "got"                                      \* mutant of AfterError

\* continue: a failed Apply is logged and the loop goes on to the next message.
AfterError == "idle"

\* store.Apply fails and the transaction is rolled back.
RollBack(w) ==
  /\ worker[w].pc = "got"
  /\ Error(worker[w].stopping \/ log[worker[w].hand].trip \in Refused)
  /\ Finish(w, AfterError)
  /\ cut' = cut \cup {worker[w].hand}
  /\ UNCHANGED <<log, committed, owner, audit, trips, announced, again>>

\* notify: publications to the rider and the driver, their errors dropped.
Notify(w) ==
  /\ worker[w].pc = "applied"
  /\ announced' = announced \cup {worker[w].hand}
  /\ Finish(w, "idle")
  /\ UNCHANGED <<log, committed, owner, audit, trips, hits>>
--------------------------------------------------------------------------------
Leave(w) ==
  /\ worker' = [worker EXCEPT ![w] = Down]
  /\ owner' = IF owner = w THEN Nobody ELSE owner

\* SIGKILL, or the machine is lost: the queued offsets go with the process.
Crash(w) ==
  /\ worker[w].pc # "down"
  /\ Fault("crash")
  /\ cut' = cut \cup { i \in InHand(w) : i <= committed }
  /\ again' = again \cup Unflushed(w)
  /\ Leave(w)
  /\ UNCHANGED <<log, committed, audit, trips, announced>>

\* SIGTERM: cancel(). Calls under way may still succeed.
Stop(w) ==
  /\ worker[w].pc # "down" /\ ~worker[w].stopping
  /\ Fault("stop")
  /\ worker' = [worker EXCEPT ![w].stopping = TRUE]
  /\ UNCHANGED <<log, committed, owner, audit, trips, announced, cut, again>>

\* ReadMessage returns a buffered message although ctx is cancelled, and queues
\* its offset; no transaction begins under that ctx.
Drop(w) ==
  /\ owner = w
  /\ worker[w].pc = "idle" /\ worker[w].stopping
  /\ worker[w].pos < Len(log)
  /\ LET offset == worker[w].pos + 1 IN
     /\ worker' = [worker EXCEPT ![w] = [@ EXCEPT !.pos = offset, !.queued = ToCommit(offset)]]
     /\ cut' = cut \cup {offset}
  /\ UNCHANGED <<log, committed, owner, audit, trips, announced, faults, again>>

\* ReadMessage reports the cancelled ctx: main returns, and the deferred Close
\* flushes the queue if the broker answers.
Exit(w) ==
  /\ worker[w].pc = "idle" /\ worker[w].stopping
  /\ \E flushed \in BOOLEAN :
       /\ LastFlush(w, flushed)
       /\ again' = again \cup IF flushed THEN {} ELSE Unflushed(w)
  /\ Leave(w)
  /\ UNCHANGED <<log, audit, trips, announced, faults, cut>>

Work(w) ==
  \/ Start(w)
  \/ Assign(w)
  \/ Read(w)
  \/ Flush(w)
  \/ Apply(w)
  \/ RollBack(w)
  \/ Notify(w)
  \/ Drop(w)
  \/ Exit(w)

Disturb(w) == Rebalance(w) \/ Crash(w) \/ Stop(w)

Next == \/ \E e \in Event : Publish(e)
        \/ \E w \in Workers : Work(w) \/ Disturb(w)

\* The supervisor restarts workers, the group assigns the partition, the commit
\* ticker fires, and calls to Postgres and Redis return one way or the other.
\* ReadMessage, asked again and again, does notice the cancelled ctx.
Fairness ==
  \A w \in Workers :
    /\ WF_vars(Start(w))
    /\ WF_vars(Assign(w))
    /\ WF_vars(Read(w))
    /\ WF_vars(Flush(w))
    /\ WF_vars(Apply(w) \/ RollBack(w))
    /\ WF_vars(Notify(w))
    /\ WF_vars(Exit(w))

Spec == Init /\ [][Next]_vars
FairSpec == Spec /\ Fairness
--------------------------------------------------------------------------------
Stored == { audit[k] : k \in DOMAIN audit }

\* Events the group is done with that no worker can store any more.
Lost == { i \in 1 .. committed : i \notin Stored /\ \A w \in Workers : i \notin InHand(w) }

\* Committing before the work is done (main.go:59, kafkax.go:76) costs no event
\* but those whose own Apply failed or that were flushed and then died in hand:
\* a neighbour of theirs is stored, or still comes.
OnlyCutIsLost == Lost \subseteq cut

\* Nobody is told of an event that is not in the database (main.go:72-76).
AnnouncedIsStored == announced \subseteq Stored

\* An event is stored twice or out of order only if it was given out again:
\* flushed offsets are read by one worker, in order, however often workers
\* stop, crash, fail to store, or the partition moves (kafkax.go:63-78).
InOrderOnceUnlessAgain ==
  \A j, k \in DOMAIN audit : j < k => audit[j] < audit[k] \/ audit[k] \in again

\* A row is the replay of its audit entries, redeliveries included: the last
\* one's state and the last driver any of them names (trip.go:85-104).
Replayed(t, row) ==
  LET of == { k \in DOMAIN audit : log[audit[k]].trip = t }
      Last(S) == CHOOSE k \in S : \A j \in S : j <= k
      named == { k \in of : log[audit[k]].driver # NoDriver }
  IN /\ row.state = IF of = {} THEN "NONE" ELSE log[audit[Last(of)]].state
     /\ row.driver = IF named = {} THEN NoDriver ELSE log[audit[Last(named)]].driver
RowIsReplay == \A t \in Trips : Replayed(t, trips[t])

\* A trip's driver is never forgotten, even when REQUESTED is redelivered
\* after ASSIGNED (trip.go:90).
DriverIsKept ==
  [][\A t \in Trips : trips[t].driver # NoDriver => trips'[t].driver = trips[t].driver]_trips

\* No event stops the partition: what cannot be stored, once or ever, is passed
\* (main.go:72-75).
NeverStalls == \A i \in 1 .. MaxEvents : Len(log) >= i ~> committed >= i

\* Every event is stored but those a fault cut short itself.
EventuallyStored ==
  \A i \in 1 .. MaxEvents : Len(log) >= i ~> (i \in Stored \/ i \in cut)

\* main.go:74, "let the offset stay uncommitted-ish; retried on restart": no
\* event is given up.
NothingLost == Lost = {}
================================================================================
