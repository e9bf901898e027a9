------------------------------ MODULE TripScreens ------------------------------
(***************************************************************************)
(* The riders' and the drivers' apps (mobile or web) over the trips of one *)
(* region: their buttons call the API, and what they show is set by two    *)
(* sources that race, the answers to those calls and the notifications.    *)
(* No app compares the trip of a notification, or of an answer, with the   *)
(* one it shows.                                                           *)
(*                                                                         *)
(* The back end is reduced to what TripApi, TripWorker and Live say of it  *)
(* when nothing fails: legal transitions, and every notification once and  *)
(* in order. Lost calls, answers and notifications are left out.           *)
(***************************************************************************)
EXTENDS Sequences, TripStates

CONSTANTS
  Trips,    \* trip ids the API may allocate
  Riders,
  Drivers,
  Nobody,   \* no trip on a screen, no driver
  Mobile,   \* TRUE: the React Native apps, FALSE: the web apps
  MaxLag    \* bound on the notifications on their way to an app

VARIABLES
  asked,   \* trip ids rides were requested under
  cache,   \* cache[t]: rider, driver and state of trip:<t>
  calls,   \* HTTP calls whose answer no app has had
  notes,   \* notes[a]: notifications on their way to the app of a
  rider,   \* rider[r]: tripId and state of an app
  driver,  \* the same of a driver's app, and the two buttons of the web one
  alone    \* history: trips whose driver was on no other trip meanwhile

screens == <<rider, driver>>
vars == <<asked, cache, calls, notes, screens, alone>>

Apps == Riders \cup Drivers

Init ==
  /\ asked = {}
  /\ cache = [t \in Trips |-> [rider |-> Nobody, driver |-> Nobody, state |-> "NONE"]]
  /\ calls = {}
  /\ notes = [a \in Apps |-> <<>>]
  /\ rider = [r \in Riders |-> [trip |-> Nobody, state |-> "NONE"]]
  /\ driver = [d \in Drivers |->
                 [trip |-> Nobody, state |-> "NONE", start |-> FALSE, complete |-> FALSE]]
  /\ alone = {}
--------------------------------------------------------------------------------
(* Buttons. *)
Active(r) == rider[r].state \notin Terminal \cup {"NONE"}

\* The web driver's buttons are switched by handlers, the mobile one's follow
\* the state shown.
CanStart(d) ==
  /\ driver[d].trip # Nobody
  /\ IF Mobile THEN driver[d].state = "ASSIGNED" ELSE driver[d].start
CanComplete(d) ==
  /\ driver[d].trip # Nobody
  /\ IF Mobile THEN driver[d].state = "IN_PROGRESS" ELSE driver[d].complete
CanCancel(r) == rider[r].trip # Nobody /\ Active(r)

\* Pressed again before it was answered, a button makes a call that is refused
\* and changes nothing: it is left out.
Click(op, a, t) ==
  /\ \A c \in calls : <<c.op, c.trip>> # <<op, t>>
  /\ calls' = calls \cup {[op |-> op, by |-> a, trip |-> t, answer |-> "pending"]}
  /\ UNCHANGED <<cache, notes, screens, alone>>

\* The mobile app offers a ride only when none is active; either app lets the
\* button be pressed again before the answer.
Request(r, t) ==
  /\ Mobile => ~Active(r)
  /\ t \notin asked
  /\ asked' = asked \cup {t}
  /\ Click("ride", r, t)

Cancel(r)   == CanCancel(r)   /\ Click("cancel", r, rider[r].trip)    /\ UNCHANGED asked
Start(d)    == CanStart(d)    /\ Click("start", d, driver[d].trip)    /\ UNCHANGED asked
Complete(d) == CanComplete(d) /\ Click("complete", d, driver[d].trip) /\ UNCHANGED asked
--------------------------------------------------------------------------------
(* The back end. *)
Answer(c, state) == calls' = (calls \ {c}) \cup {[c EXCEPT !.answer = state]}

\* notify: what became of a trip, to one app. Events of a region, so of its
\* trips, reach an app in order.
Queue(queue, t, states) == queue \o [i \in DOMAIN states |-> [trip |-> t, state |-> states[i]]]

Underway(d) == { t \in Trips : cache[t].driver = d /\ cache[t].state \notin Terminal }

\* handleRide: matched with any driver, on a trip or not, or with none.
ServeRide(c) ==
  /\ c.op = "ride" /\ c.answer = "pending"
  /\ \/ \E d \in Drivers :
          /\ cache' = [cache EXCEPT ![c.trip] =
                         [rider |-> c.by, driver |-> d, state |-> "ASSIGNED"]]
          /\ notes' = [a \in Apps |->
                         CASE a = c.by -> Queue(notes[a], c.trip, <<"REQUESTED", "ASSIGNED">>)
                           [] a = d    -> Queue(notes[a], c.trip, <<"ASSIGNED">>)
                           [] OTHER    -> notes[a]]
          /\ alone' = IF Underway(d) = {} THEN alone \cup {c.trip} ELSE alone \ Underway(d)
          /\ Answer(c, "ASSIGNED")
     \/ /\ notes' = [notes EXCEPT ![c.by] = Queue(@, c.trip, <<"REQUESTED">>)]
        /\ Answer(c, "REQUESTED")
        /\ UNCHANGED <<cache, alone>>
  /\ UNCHANGED <<asked, screens>>

Target(op) == CASE op = "start"    -> "IN_PROGRESS"
                [] op = "complete" -> "COMPLETED"
                [] op = "cancel"   -> "CANCELLED"

\* transition: 404 and 409 are refusals.
ServeTransition(c) ==
  /\ c.op # "ride" /\ c.answer = "pending"
  /\ LET to   == Target(c.op)
         told == {cache[c.trip].rider, cache[c.trip].driver} IN
     \/ /\ CanTransition(cache[c.trip].state, to)
        /\ cache' = [cache EXCEPT ![c.trip].state = to]
        /\ notes' = [a \in Apps |->
                       IF a \in told THEN Queue(notes[a], c.trip, <<to>>) ELSE notes[a]]
        /\ Answer(c, to)
     \/ /\ ~CanTransition(cache[c.trip].state, to)
        /\ Answer(c, "refused")
        /\ UNCHANGED <<cache, notes>>
  /\ UNCHANGED <<asked, screens, alone>>
--------------------------------------------------------------------------------
(* What the apps make of answers and notifications. *)

\* postJSON throws unless the answer is a success; the apps log the error.
Ok(c) == c.answer # "refused"

\* The answer to a cancellation is not looked at.
RiderHears(c) ==
  /\ rider' = IF c.op = "ride"
              THEN [rider EXCEPT ![c.by] = [trip |-> c.trip, state |-> c.answer]] ELSE rider
  /\ UNCHANGED driver

\* The answer to a start or a completion sets the state of whatever is shown.
DriverHears(c) ==
  /\ driver' = CASE ~Ok(c)            -> driver
                 [] c.op = "start"    -> [driver EXCEPT ![c.by] = [@ EXCEPT
                        !.state = c.answer, !.start = FALSE, !.complete = TRUE]]
                 [] c.op = "complete" -> [driver EXCEPT ![c.by] = [@ EXCEPT
                        !.state = c.answer, !.complete = FALSE]]
  /\ UNCHANGED rider

Hear(c) ==
  /\ c.answer # "pending"
  /\ calls' = calls \ {c}
  /\ IF c.by \in Riders THEN RiderHears(c) ELSE DriverHears(c)
  /\ UNCHANGED <<asked, cache, notes, alone>>

RiderNoted(r, n) == rider' = [rider EXCEPT ![r].state = n.state] /\ UNCHANGED driver

\* A notification other than ASSIGNED changes the state shown and nothing else.
DriverNoted(d, n) ==
  /\ driver' = [driver EXCEPT ![d] =
                  IF n.state = "ASSIGNED"
                  THEN [trip |-> n.trip, state |-> n.state, start |-> TRUE, complete |-> FALSE]
                  ELSE [@ EXCEPT !.state = n.state]]
  /\ UNCHANGED rider

Notified(a) ==
  /\ notes[a] # <<>>
  /\ notes' = [notes EXCEPT ![a] = Tail(@)]
  /\ IF a \in Riders THEN RiderNoted(a, Head(notes[a])) ELSE DriverNoted(a, Head(notes[a]))
  /\ UNCHANGED <<asked, cache, calls, alone>>

Lagging == \E a \in Apps : Len(notes'[a]) > MaxLag

Next ==
  \/ \E r \in Riders : Cancel(r) \/ \E t \in Trips : Request(r, t)
  \/ \E d \in Drivers : Start(d) \/ Complete(d)
  \/ \E c \in calls : Hear(c) \/ ((ServeRide(c) \/ ServeTransition(c)) /\ ~Lagging)
  \/ \E a \in Apps : Notified(a)

Spec == Init /\ [][Next]_vars
--------------------------------------------------------------------------------
AtRest == calls = {} /\ \A a \in Apps : notes[a] = <<>>

\* mobile/README.md:60 "Driver receives the assignment live -> Start ->
\* Complete": once every answer and notification has arrived, a driver is
\* offered the next step of a trip, if that trip was the driver's only one all
\* along. The apps break it with nothing lost: the answer to a step of the last
\* trip, heard after ASSIGNED of this one, sets the state of this one (driver
\* App.tsx:55-56, 109-126; app.js:95-102, 107-126). In the trace the last trip
\* was cancelled while the answer to its start was on its way: the app shows
\* IN_PROGRESS and offers Complete, which is refused, and not Start.
NextStepOffered ==
  AtRest => \A t \in alone : \A d \in Drivers :
    d = cache[t].driver =>
      /\ cache[t].state = "ASSIGNED"    => driver[d].trip = t /\ CanStart(d)
      /\ cache[t].state = "IN_PROGRESS" => driver[d].trip = t /\ CanComplete(d)
================================================================================
