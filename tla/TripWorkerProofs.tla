---------------------------- MODULE TripWorkerProofs ----------------------------
(***************************************************************************)
(* Theorems about TripWorker, for every set of trips, drivers and workers, *)
(* every bound on the stream, and every number and kind of faults.         *)
(***************************************************************************)
EXTENDS TripWorker, FiniteSetTheorems, TLAPS

(***************************************************************************)
(* The inductive invariant, in parts.                                      *)
(***************************************************************************)

\* A worker's offsets are offsets of events.
OffsetsExist ==
  \A w \in Workers :
    /\ worker[w].pos \in 0 .. Len(log)
    /\ worker[w].queued \in 0 .. Len(log)
    /\ worker[w].pc \in {"got", "applied"} => worker[w].hand \in DOMAIN log

\* A worker about to notify has stored what it holds.
AppliedIsStored == \A w \in Workers : worker[w].pc = "applied" => worker[w].hand \in Stored

\* The stream names one driver per trip, as Publishable has it, and a row only
\* names a driver the stream names for its trip.
OneDriverInLog ==
  \A i, j \in DOMAIN log :
    /\ log[i].trip = log[j].trip
    /\ log[i].driver # NoDriver
    /\ log[j].driver # NoDriver
    => log[i].driver = log[j].driver
RowsAreFromLog ==
  \A t \in Trips : trips[t].driver # NoDriver =>
    \E i \in DOMAIN log : log[i].trip = t /\ log[i].driver = trips[t].driver

\* The owner's queue ends at the offset it fetched last, and is not behind the
\* group's.
OwnerQueues ==
  owner # Nobody =>
    /\ worker[owner].queued = worker[owner].pos
    /\ committed <= worker[owner].pos

\* The last offset the group has given out in its present generation: the next
\* one is read by the owner, or by the next owner.
Front == IF owner = Nobody THEN committed ELSE worker[owner].pos

\* Whatever has been handed out beyond the front was given out again; an offset
\* in hand that was not is in the owner's, and ahead of all that is stored or
\* held elsewhere.
HandedOut ==
  /\ \A k \in DOMAIN audit : Front + 1 .. audit[k] \subseteq again
  /\ \A w \in Workers : worker[w].pc = "got" => Front + 1 .. worker[w].hand \subseteq again
  /\ \A w \in Workers : worker[w].pc = "got" /\ worker[w].hand \notin again =>
       /\ owner = w
       /\ \A k \in DOMAIN audit : audit[k] < worker[w].hand
       /\ \A v \in Workers \ {w} : worker[v].pc = "got" => worker[v].hand < worker[w].hand

InOrder == OwnerQueues /\ HandedOut /\ InOrderOnceUnlessAgain

\* What the group is done with is stored, cut short or in a hand; what the owner
\* has fetched beyond that is stored, cut short or in its own.
Accounted ==
  /\ \A i \in 1 .. committed : i \in Stored \cup cut \/ \E w \in Workers : i \in InHand(w)
  /\ owner # Nobody =>
       committed + 1 .. worker[owner].pos \subseteq Stored \cup cut \cup InHand(owner)

(***************************************************************************)
(* Types.                                                                  *)
(***************************************************************************)
Typed == TypeOK /\ OffsetsExist

\* The audit log still refers to events when the stream has grown.
LEMMA SeqGrows ==
  ASSUME NEW S, NEW T, S \subseteq T, NEW s \in Seq(S)
  PROVE  s \in Seq(T)
OBVIOUS

\* An event arrives on the partition, and the workers do nothing.
Arrives(e) ==
  /\ log' = Append(log, e)
  /\ UNCHANGED <<committed, owner, worker, audit, trips, announced, hits>>

LEMMA TypedArrival ==
  ASSUME Typed, NEW e \in Event, Arrives(e)
  PROVE  Typed'
<1>1. /\ log' \in Seq(Event)
      /\ Len(log') = Len(log) + 1
      /\ DOMAIN log \subseteq DOMAIN log'
  BY DEF Typed, TypeOK, Arrives
<1>2. audit' \in Seq(DOMAIN log')
  BY <1>1, SeqGrows DEF Typed, TypeOK, Arrives
<1>3. TypeOK'
  BY <1>1, <1>2 DEF Typed, TypeOK, Arrives, hits
<1>4. OffsetsExist'
  BY <1>1 DEF Typed, TypeOK, OffsetsExist, Arrives, Worker
<1> QED  BY <1>3, <1>4 DEF Typed

LEMMA TypedPublish ==
  ASSUME Typed, NEW e \in Event, Publish(e)
  PROVE  Typed'
<1>1. Arrives(e)
  BY DEF Publish, Arrives
<1> QED  BY <1>1, TypedArrival

LEMMA AppendKeeps ==
  ASSUME NEW S, NEW s \in Seq(S), NEW x \in S
  PROVE  Append(s, x) \in Seq(S)
OBVIOUS

\* A fault, or an error with a reason, leaves the count within its bound.
LEMMA TypedFault ==
  ASSUME TypeOK, NEW kind, Fault(kind)
  PROVE  faults' \in 0 .. MaxFaults
BY TripWorkerAssumption DEF TypeOK, Fault

LEMMA TypedError ==
  ASSUME TypeOK, NEW reason \in BOOLEAN, Error(reason)
  PROVE  faults' \in 0 .. MaxFaults
BY TypedFault DEF Error, TypeOK

\* Offsets at risk are offsets of events.
LEMMA AtRiskExist ==
  ASSUME Typed, NEW w \in Workers
  PROVE  /\ InHand(w) \subseteq DOMAIN log
         /\ Unflushed(w) \subseteq DOMAIN log
<1>1. /\ worker[w].pc = "got" => worker[w].hand \in DOMAIN log
      /\ worker[w].queued \in 0 .. Len(log)
      /\ committed \in 0 .. Len(log)
      /\ DOMAIN log = 1 .. Len(log)
  BY DEF Typed, TypeOK, OffsetsExist
<1> QED  BY <1>1 DEF InHand, Unflushed

\* What is known of one process.
WellFormed(p) ==
  /\ p \in Worker
  /\ p.pos \in 0 .. Len(log)
  /\ p.queued \in 0 .. Len(log)
  /\ p.pc \in {"got", "applied"} => p.hand \in DOMAIN log

\* A step of one process, while the stream stays as it is.
LEMMA TypedStep ==
  ASSUME Typed, NEW w \in Workers, NEW p, WellFormed(p),
         worker' = [worker EXCEPT ![w] = p], UNCHANGED log
  PROVE  worker' \in [Workers -> Worker] /\ OffsetsExist'
BY DEF Typed, TypeOK, OffsetsExist, WellFormed

LEMMA TypedStart ==
  ASSUME Typed, NEW w \in Workers, Start(w)
  PROVE  Typed'
<1> DEFINE p == [worker[w] EXCEPT !.pc = "idle"]
<1>1. WellFormed(p)
  BY DEF Typed, TypeOK, OffsetsExist, WellFormed, Worker
<1>2. worker' = [worker EXCEPT ![w] = p]
  BY DEF Start, Typed, TypeOK
<1>3. worker' \in [Workers -> Worker] /\ OffsetsExist'
  BY <1>1, <1>2, TypedStep DEF Start
<1> QED  BY <1>3 DEF Typed, TypeOK, Start, hits

\* A worker is given the partition at an offset of the stream.
LEMMA TypedGiven ==
  ASSUME Typed, NEW w \in Workers, NEW offset \in 0 .. Len(log), Given(w, offset),
         UNCHANGED log
  PROVE  worker' \in [Workers -> Worker] /\ OffsetsExist' /\ owner' = w
<1> DEFINE p == [worker[w] EXCEPT !.pos = offset, !.queued = offset]
<1>1. WellFormed(p)
  <2>1. WellFormed(worker[w])
    BY DEF Typed, TypeOK, OffsetsExist, WellFormed
  <2>2. offset \in Nat
    BY DEF Typed, TypeOK
  <2>3. /\ p \in Worker
        /\ p.pc = worker[w].pc
        /\ p.hand = worker[w].hand
        /\ p.pos = offset
        /\ p.queued = offset
    BY <2>1, <2>2 DEF WellFormed, Worker
  <2> HIDE DEF p
  <2> QED  BY <2>1, <2>3 DEF WellFormed
<1>2. worker' = [worker EXCEPT ![w] = p]
  BY DEF Given, StartAt, Typed, TypeOK
<1> QED  BY <1>1, <1>2, TypedStep DEF Given

LEMMA TypedAssign ==
  ASSUME Typed, NEW w \in Workers, Assign(w)
  PROVE  Typed'
<1>1. worker' \in [Workers -> Worker] /\ OffsetsExist' /\ owner' = w
  BY TypedGiven DEF Assign, Typed, TypeOK
<1> QED  BY <1>1 DEF Typed, TypeOK, Assign, hits

\* What a rebalance does.
LEMMA RebalanceStep ==
  ASSUME Typed, NEW w \in Workers, Rebalance(w)
  PROVE  /\ owner \in Workers
         /\ worker[w].pc # "down"
         /\ committed' \in 0 .. Len(log)
         /\ Given(w, committed')
         /\ faults' \in 0 .. MaxFaults
         /\ again' \subseteq DOMAIN log
         /\ again \cup InHand(owner) \subseteq again'
         /\ \/ committed' = worker[owner].queued
            \/ committed' = committed /\ Unflushed(owner) \subseteq again'
         /\ UNCHANGED <<log, audit, trips, announced, cut>>
<1>1. PICK flushed \in BOOLEAN :
        /\ LastFlush(owner, flushed)
        /\ again' = again \cup InHand(owner) \cup IF flushed THEN {} ELSE Unflushed(owner)
  BY DEF Rebalance
<1>2. owner \in Workers
  BY DEF Rebalance, Typed, TypeOK
<1>3. faults' \in 0 .. MaxFaults
  BY TypedFault DEF Rebalance, Typed
<1>4. again' \subseteq DOMAIN log
  BY <1>1, <1>2, AtRiskExist DEF Typed, TypeOK
<1>5. /\ worker[owner].queued \in 0 .. Len(log)
      /\ committed \in 0 .. Len(log)
  BY <1>2 DEF Typed, TypeOK, OffsetsExist
<1>6. CASE flushed
  BY <1>1, <1>2, <1>3, <1>4, <1>5, <1>6 DEF Rebalance, LastFlush
<1>7. CASE ~flushed
  BY <1>1, <1>2, <1>3, <1>4, <1>5, <1>7 DEF Rebalance, LastFlush
<1> QED  BY <1>6, <1>7

LEMMA TypedRebalance ==
  ASSUME Typed, NEW w \in Workers, Rebalance(w)
  PROVE  Typed'
<1>1. worker' \in [Workers -> Worker] /\ OffsetsExist' /\ owner' = w
  BY RebalanceStep, TypedGiven
<1> QED  BY <1>1, RebalanceStep DEF Typed, TypeOK

\* The owner fetches the next offset: to Apply it, or to drop it.
LEMMA ReadStep ==
  ASSUME Typed, NEW w \in Workers, Read(w)
  PROVE  /\ owner = w
         /\ worker[w].pc = "idle"
         /\ worker[w].pos + 1 \in DOMAIN log
         /\ \A q \in Workers \ {w} : worker'[q] = worker[q]
         /\ worker'[w].pc = "got"
         /\ worker'[w].hand = worker[w].pos + 1
         /\ worker'[w].pos = worker[w].pos + 1
         /\ worker'[w].queued = worker[w].pos + 1
         /\ worker' \in [Workers -> Worker] /\ OffsetsExist'
         /\ UNCHANGED <<log, committed, owner, audit, trips, announced, faults, cut, again>>
<1> DEFINE offset == worker[w].pos + 1
           p == [worker[w] EXCEPT !.pc = "got", !.hand = offset, !.pos = offset,
                                  !.queued = offset]
<1>1. offset \in 1 .. Len(log) /\ offset \in Nat
  BY DEF Read, Typed, TypeOK, OffsetsExist
<1>2. worker[w] \in Worker
  BY DEF Typed, TypeOK
<1>3. /\ p \in Worker
      /\ p.pc = "got" /\ p.hand = offset /\ p.pos = offset /\ p.queued = offset
  BY <1>1, <1>2 DEF Worker
<1>4. worker' = [worker EXCEPT ![w] = p]
  BY DEF Read, ToCommit, Typed, TypeOK
<1>5. UNCHANGED log /\ DOMAIN log = 1 .. Len(log)
  BY DEF Read, Typed, TypeOK
<1> HIDE DEF p
<1>6. WellFormed(p)
  BY <1>1, <1>3, <1>5 DEF WellFormed
<1>7. worker' \in [Workers -> Worker] /\ OffsetsExist'
  BY <1>4, <1>5, <1>6, TypedStep
<1> QED  BY <1>1, <1>3, <1>4, <1>5, <1>7 DEF Read, hits, Typed, TypeOK

LEMMA DropStep ==
  ASSUME Typed, NEW w \in Workers, Drop(w)
  PROVE  /\ owner = w
         /\ worker[w].pos + 1 \in DOMAIN log
         /\ \A q \in Workers \ {w} : worker'[q] = worker[q]
         /\ worker[w].pc = "idle"
         /\ worker'[w].pc = "idle"
         /\ worker'[w].hand = worker[w].hand
         /\ worker'[w].pos = worker[w].pos + 1
         /\ worker'[w].queued = worker[w].pos + 1
         /\ worker' \in [Workers -> Worker] /\ OffsetsExist'
         /\ cut' = cut \cup {worker[w].pos + 1}
         /\ UNCHANGED <<log, committed, owner, audit, trips, announced, faults, again>>
<1> DEFINE offset == worker[w].pos + 1
           p == [worker[w] EXCEPT !.pos = offset, !.queued = offset]
<1>1. offset \in 1 .. Len(log) /\ offset \in Nat
  BY DEF Drop, Typed, TypeOK, OffsetsExist
<1>2. worker[w] \in Worker /\ worker[w].pc = "idle"
  BY DEF Drop, Typed, TypeOK
<1>3. /\ p \in Worker
      /\ p.pc = "idle" /\ p.hand = worker[w].hand /\ p.pos = offset /\ p.queued = offset
  BY <1>1, <1>2 DEF Worker
<1>4. worker' = [worker EXCEPT ![w] = p]
  BY DEF Drop, ToCommit, Typed, TypeOK
<1>5. UNCHANGED log /\ DOMAIN log = 1 .. Len(log)
  BY DEF Drop, Typed, TypeOK
<1> HIDE DEF p
<1>6. WellFormed(p)
  BY <1>1, <1>3, <1>5 DEF WellFormed
<1>7. worker' \in [Workers -> Worker] /\ OffsetsExist'
  BY <1>4, <1>5, <1>6, TypedStep
<1> QED  BY <1>1, <1>2, <1>3, <1>4, <1>5, <1>7 DEF Drop, Typed, TypeOK

LEMMA TypedRead ==
  ASSUME Typed, NEW w \in Workers, Read(w) \/ Drop(w)
  PROVE  Typed'
BY ReadStep, DropStep DEF Typed, TypeOK

LEMMA TypedFlush ==
  ASSUME Typed, NEW w \in Workers, Flush(w)
  PROVE  Typed'
BY DEF Typed, TypeOK, OffsetsExist, Flush, hits

\* A worker moves on with the message in hand, or drops it.
LEMMA FinishStep ==
  ASSUME Typed, NEW w \in Workers, NEW pc \in {"idle", "applied"}, Finish(w, pc),
         pc = "applied" => worker[w].hand \in DOMAIN log
  PROVE  /\ \A q \in Workers \ {w} : worker'[q] = worker[q]
         /\ worker'[w].pc = pc
         /\ worker'[w].hand = IF pc = "idle" THEN 0 ELSE worker[w].hand
         /\ worker'[w].pos = worker[w].pos
         /\ worker'[w].queued = worker[w].queued
         /\ UNCHANGED log => worker' \in [Workers -> Worker] /\ OffsetsExist'
<1> DEFINE p == [worker[w] EXCEPT !.pc = pc, !.hand = IF pc = "idle" THEN 0 ELSE worker[w].hand]
<1>1. WellFormed(worker[w])
  BY DEF Typed, TypeOK, OffsetsExist, WellFormed
<1>2. /\ p \in Worker
      /\ p.pc = pc
      /\ p.hand = IF pc = "idle" THEN 0 ELSE worker[w].hand
      /\ p.pos = worker[w].pos
      /\ p.queued = worker[w].queued
  BY <1>1 DEF WellFormed, Worker
<1>3. worker' = [worker EXCEPT ![w] = p]
  BY DEF Finish
<1> HIDE DEF p
<1>4. WellFormed(p)
  BY <1>1, <1>2 DEF WellFormed
<1>5. UNCHANGED log => worker' \in [Workers -> Worker] /\ OffsetsExist'
  BY <1>3, <1>4, TypedStep
<1> QED  BY <1>2, <1>3, <1>5 DEF Typed, TypeOK

\* What storing a message does to the tables and the counters.
LEMMA ApplyStep ==
  ASSUME Typed, NEW w \in Workers, Apply(w)
  PROVE  /\ worker[w].pc = "got"
         /\ worker[w].hand \in DOMAIN log
         /\ audit' = Append(audit, worker[w].hand)
         /\ \E pc \in {"idle", "applied"} : Finish(w, pc)
         /\ faults' \in 0 .. MaxFaults
         /\ UNCHANGED <<log, committed, owner, announced, cut, again>>
<1>1. worker[w].hand \in DOMAIN log
  BY DEF Apply, Typed, OffsetsExist
<1>2. CASE Finish(w, "applied") /\ UNCHANGED faults
  BY <1>1, <1>2 DEF Apply, Typed, TypeOK
<1>3. CASE Finish(w, "idle") /\ Error(worker[w].stopping)
  <2>1. worker[w].stopping \in BOOLEAN
    BY DEF Typed, TypeOK, Worker
  <2>2. faults' \in 0 .. MaxFaults
    BY <1>3, <2>1, TypedError DEF Typed
  <2> QED  BY <1>1, <1>3, <2>2 DEF Apply
<1> QED  BY <1>2, <1>3 DEF Apply

\* An event of the stream makes a row of a row.
LEMMA UpsertType ==
  ASSUME NEW e \in Event, NEW row \in Row \cup {NoRow}
  PROVE  Upsert(row, e) \in Row
BY TripWorkerAssumption DEF Upsert, Event, Row, NoRow, States

LEMMA TypedApply ==
  ASSUME Typed, NEW w \in Workers, Apply(w)
  PROVE  Typed'
<1> DEFINE e == log[worker[w].hand]
<1>1. worker[w].hand \in DOMAIN log /\ e \in Event
  BY ApplyStep DEF Typed, TypeOK
<1>2. e.trip \in Trips
  BY <1>1 DEF Event
<1>3. trips' = [trips EXCEPT ![e.trip] = Upsert(trips[e.trip], e)]
  BY <1>2 DEF Apply, Typed, TypeOK
<1>4. Upsert(trips[e.trip], e) \in Row
  BY <1>1, <1>2, UpsertType DEF Typed, TypeOK
<1>5. trips' \in [Trips -> Row \cup {NoRow}]
  BY <1>2, <1>3, <1>4 DEF Typed, TypeOK
<1>6. audit' \in Seq(DOMAIN log)
  <2>1. audit' = Append(audit, worker[w].hand)
    BY ApplyStep
  <2>2. audit \in Seq(DOMAIN log)
    BY DEF Typed, TypeOK
  <2> QED  BY <1>1, <2>1, <2>2, AppendKeeps
<1>7. worker' \in [Workers -> Worker] /\ OffsetsExist'
  BY <1>1, ApplyStep, FinishStep
<1> QED  BY <1>5, <1>6, <1>7, ApplyStep DEF Typed, TypeOK

LEMMA RollBackStep ==
  ASSUME Typed, NEW w \in Workers, RollBack(w)
  PROVE  /\ worker[w].pc = "got"
         /\ worker[w].hand \in DOMAIN log
         /\ Finish(w, "idle")
         /\ faults' \in 0 .. MaxFaults
         /\ cut' = cut \cup {worker[w].hand}
         /\ UNCHANGED <<log, committed, owner, audit, trips, announced, again>>
<1>1. (worker[w].stopping \/ log[worker[w].hand].trip \in Refused) \in BOOLEAN
  BY DEF Typed, TypeOK, Worker
<1>2. faults' \in 0 .. MaxFaults
  BY <1>1, TypedError DEF Typed, RollBack
<1>3. worker[w].hand \in DOMAIN log
  BY DEF RollBack, Typed, OffsetsExist
<1> QED  BY <1>2, <1>3 DEF RollBack, AfterError

LEMMA TypedRollBack ==
  ASSUME Typed, NEW w \in Workers, RollBack(w)
  PROVE  Typed'
<1>1. worker' \in [Workers -> Worker] /\ OffsetsExist'
  BY RollBackStep, FinishStep
<1> QED  BY <1>1, RollBackStep DEF Typed, TypeOK

LEMMA TypedNotify ==
  ASSUME Typed, NEW w \in Workers, Notify(w)
  PROVE  Typed'
<1>1. worker[w].hand \in DOMAIN log
  BY DEF Notify, Typed, OffsetsExist
<1>2. worker' \in [Workers -> Worker] /\ OffsetsExist'
  BY FinishStep DEF Notify
<1> QED  BY <1>1, <1>2 DEF Typed, TypeOK, Notify, hits

\* A worker that leaves gives up what it holds, the partition included.
LEMMA LeaveStep ==
  ASSUME Typed, NEW w \in Workers, Leave(w)
  PROVE  /\ \A q \in Workers \ {w} : worker'[q] = worker[q]
         /\ worker'[w].pc = "down"
         /\ owner' = IF owner = w THEN Nobody ELSE owner
         /\ owner' \in Workers \cup {Nobody}
         /\ UNCHANGED log => worker' \in [Workers -> Worker] /\ OffsetsExist'
<1>1. WellFormed(Down)
  BY DEF Typed, TypeOK, WellFormed, Down, Worker
<1>2. UNCHANGED log => worker' \in [Workers -> Worker] /\ OffsetsExist'
  BY <1>1, TypedStep DEF Leave
<1> QED  BY <1>2 DEF Leave, Down, Typed, TypeOK

LEMMA CrashStep ==
  ASSUME Typed, NEW w \in Workers, Crash(w)
  PROVE  /\ Leave(w)
         /\ faults' \in 0 .. MaxFaults
         /\ cut' = cut \cup { i \in InHand(w) : i <= committed }
         /\ again' = again \cup Unflushed(w)
         /\ cut' \subseteq DOMAIN log /\ again' \subseteq DOMAIN log
         /\ UNCHANGED <<log, committed, audit, trips, announced>>
<1>1. faults' \in 0 .. MaxFaults
  BY TypedFault DEF Typed, Crash
<1>2. cut \subseteq DOMAIN log /\ again \subseteq DOMAIN log
  BY DEF Typed, TypeOK
<1> QED  BY <1>1, <1>2, AtRiskExist DEF Crash

LEMMA TypedCrash ==
  ASSUME Typed, NEW w \in Workers, Crash(w)
  PROVE  Typed'
<1>1. worker' \in [Workers -> Worker] /\ OffsetsExist' /\ owner' \in Workers \cup {Nobody}
  BY CrashStep, LeaveStep
<1> QED  BY <1>1, CrashStep DEF Typed, TypeOK

\* SIGTERM only tells the loop.
LEMMA StopStep ==
  ASSUME Typed, NEW w \in Workers, Stop(w)
  PROVE  /\ \A q \in Workers : /\ worker'[q].pc = worker[q].pc
                               /\ worker'[q].hand = worker[q].hand
                               /\ worker'[q].pos = worker[q].pos
                               /\ worker'[q].queued = worker[q].queued
         /\ worker' \in [Workers -> Worker] /\ OffsetsExist'
         /\ faults' \in 0 .. MaxFaults
         /\ UNCHANGED <<log, committed, owner, audit, trips, announced, cut, again>>
<1> DEFINE p == [worker[w] EXCEPT !.stopping = TRUE]
<1>1. WellFormed(worker[w])
  BY DEF Typed, TypeOK, OffsetsExist, WellFormed
<1>2. /\ p \in Worker
      /\ p.pc = worker[w].pc /\ p.hand = worker[w].hand
      /\ p.pos = worker[w].pos /\ p.queued = worker[w].queued
  BY <1>1 DEF WellFormed, Worker
<1>3. worker' = [worker EXCEPT ![w] = p]
  BY DEF Stop, Typed, TypeOK
<1>4. faults' \in 0 .. MaxFaults
  BY TypedFault DEF Typed, Stop
<1> HIDE DEF p
<1>5. WellFormed(p)
  BY <1>1, <1>2 DEF WellFormed
<1>6. worker' \in [Workers -> Worker] /\ OffsetsExist'
  BY <1>3, <1>5, TypedStep DEF Stop
<1> QED  BY <1>2, <1>3, <1>4, <1>6 DEF Stop, Typed, TypeOK

LEMMA TypedStop ==
  ASSUME Typed, NEW w \in Workers, Stop(w)
  PROVE  Typed'
BY StopStep DEF Typed, TypeOK

\* main returns: the queue of the owner is flushed, or given out again.
LEMMA ExitStep ==
  ASSUME Typed, NEW w \in Workers, Exit(w)
  PROVE  /\ Leave(w)
         /\ worker[w].pc = "idle"
         /\ committed' \in 0 .. Len(log)
         /\ again \subseteq again' /\ again' \subseteq DOMAIN log
         /\ owner # w => committed' = committed
         /\ owner = w => \/ committed' = worker[w].queued
                         \/ committed' = committed /\ Unflushed(w) \subseteq again'
         /\ UNCHANGED <<log, audit, trips, announced, faults, cut>>
<1>1. PICK flushed \in BOOLEAN :
        /\ LastFlush(w, flushed)
        /\ again' = again \cup IF flushed THEN {} ELSE Unflushed(w)
  BY DEF Exit
<1>2. /\ worker[w].queued \in 0 .. Len(log)
      /\ committed \in 0 .. Len(log)
      /\ again \subseteq DOMAIN log
  BY DEF Typed, TypeOK, OffsetsExist
<1>3. CASE flushed
  BY <1>1, <1>2, <1>3 DEF Exit, LastFlush
<1>4. CASE ~flushed
  BY <1>1, <1>2, <1>4, AtRiskExist DEF Exit, LastFlush
<1> QED  BY <1>3, <1>4

LEMMA TypedExit ==
  ASSUME Typed, NEW w \in Workers, Exit(w)
  PROVE  Typed'
<1>1. worker' \in [Workers -> Worker] /\ OffsetsExist' /\ owner' \in Workers \cup {Nobody}
  BY ExitStep, LeaveStep
<1> QED  BY <1>1, ExitStep DEF Typed, TypeOK

LEMMA TypedNext ==
  ASSUME Typed, [Next]_vars
  PROVE  Typed'
<1>1. CASE UNCHANGED vars
  BY <1>1 DEF vars, Typed, TypeOK, OffsetsExist
<1>2. ASSUME NEW e \in Event, Publish(e) PROVE Typed'
  BY <1>2, TypedPublish
<1>3. ASSUME NEW w \in Workers, Work(w) PROVE Typed'
  BY <1>3, TypedStart, TypedAssign, TypedRead, TypedFlush, TypedApply, TypedRollBack,
     TypedNotify, TypedExit DEF Work
<1>4. ASSUME NEW w \in Workers, Disturb(w) PROVE Typed'
  BY <1>4, TypedRebalance, TypedCrash, TypedStop DEF Disturb
<1> QED  BY <1>1, <1>2, <1>3, <1>4 DEF Next

LEMMA TypedInit == Init => Typed
<1> SUFFICES ASSUME Init PROVE Typed
  OBVIOUS
<1>1. Down \in Worker
  BY DEF Down, Worker
<1>2. 0 \in 0 .. MaxFaults
  BY TripWorkerAssumption
<1>3. TypeOK
  BY <1>1, <1>2 DEF Init, TypeOK
<1>4. OffsetsExist
  BY DEF Init, OffsetsExist, Down
<1> QED  BY <1>3, <1>4 DEF Typed

\* Committed and fetched offsets never pass the end of the partition, and every
\* row and audit entry is of an event in it.
THEOREM TypeCorrect == Spec => []TypeOK
<1>1. Spec => []Typed
  BY TypedInit, TypedNext, PTL DEF Spec
<1> QED  BY <1>1, PTL DEF Typed

(***************************************************************************)
(* What is announced is stored.                                            *)
(***************************************************************************)
LEMMA ApplyStores ==
  ASSUME Typed, NEW w \in Workers, Apply(w)
  PROVE  Stored' = Stored \cup {worker[w].hand}
<1>1. audit \in Seq(DOMAIN log) /\ audit' = Append(audit, worker[w].hand)
  BY ApplyStep DEF Typed, TypeOK
<1>2. /\ DOMAIN audit' = DOMAIN audit \cup {Len(audit) + 1}
      /\ Len(audit) + 1 \notin DOMAIN audit
      /\ \A k \in DOMAIN audit : audit'[k] = audit[k]
      /\ audit'[Len(audit) + 1] = worker[w].hand
  BY <1>1
<1> QED  BY <1>2 DEF Stored

LEMMA StoredNext ==
  ASSUME Typed, AppliedIsStored, AnnouncedIsStored, [Next]_vars
  PROVE  AppliedIsStored' /\ AnnouncedIsStored'
<1>1. CASE UNCHANGED vars
  BY <1>1 DEF vars, AppliedIsStored, AnnouncedIsStored, Stored
<1>2. ASSUME NEW e \in Event, Publish(e) PROVE AppliedIsStored' /\ AnnouncedIsStored'
  BY <1>2 DEF Publish, AppliedIsStored, AnnouncedIsStored, Stored
<1>3. ASSUME NEW w \in Workers, Work(w) PROVE AppliedIsStored' /\ AnnouncedIsStored'
  <2>1. CASE Start(w)
    BY <2>1 DEF Start, AppliedIsStored, AnnouncedIsStored, Stored, Typed, TypeOK, Worker
  <2>2. CASE Assign(w)
    BY <2>2 DEF Assign, Given, AppliedIsStored, AnnouncedIsStored, Stored, Typed, TypeOK, Worker
  <2>3. CASE Read(w) \/ Drop(w)
    BY <2>3, ReadStep, DropStep DEF AppliedIsStored, AnnouncedIsStored, Stored
  <2>4. CASE Flush(w)
    BY <2>4 DEF Flush, AppliedIsStored, AnnouncedIsStored, Stored
  <2>5. CASE Apply(w)
    <3>1. PICK pc \in {"idle", "applied"} : Finish(w, pc)
      BY <2>5, ApplyStep
    <3>2. worker[w].hand \in DOMAIN log /\ UNCHANGED announced
      BY <2>5, ApplyStep
    <3>3. /\ \A q \in Workers \ {w} : worker'[q] = worker[q]
          /\ worker'[w].pc = pc
          /\ worker'[w].hand = IF pc = "idle" THEN 0 ELSE worker[w].hand
      BY <3>1, <3>2, FinishStep
    <3>4. Stored' = Stored \cup {worker[w].hand}
      BY <2>5, ApplyStores
    <3> QED  BY <3>2, <3>3, <3>4 DEF AppliedIsStored, AnnouncedIsStored
  <2>6. CASE RollBack(w)
    <3>1. Finish(w, "idle") /\ UNCHANGED <<audit, announced>>
      BY <2>6, RollBackStep
    <3>2. /\ \A q \in Workers \ {w} : worker'[q] = worker[q]
          /\ worker'[w].pc = "idle"
      BY <3>1, FinishStep
    <3> QED  BY <3>1, <3>2 DEF AppliedIsStored, AnnouncedIsStored, Stored
  <2>7. CASE Notify(w)
    <3>1. worker[w].hand \in Stored
      BY <2>7 DEF Notify, AppliedIsStored
    <3>2. /\ \A q \in Workers \ {w} : worker'[q] = worker[q]
          /\ worker'[w].pc = "idle"
      BY <2>7, FinishStep DEF Notify
    <3> QED  BY <2>7, <3>1, <3>2 DEF Notify, AppliedIsStored, AnnouncedIsStored, Stored
  <2>8. CASE Exit(w)
    <3>1. Leave(w) /\ UNCHANGED <<audit, announced>>
      BY <2>8, ExitStep
    <3> QED  BY <3>1, LeaveStep DEF AppliedIsStored, AnnouncedIsStored, Stored
  <2> QED  BY <1>3, <2>1, <2>2, <2>3, <2>4, <2>5, <2>6, <2>7, <2>8 DEF Work
<1>4. ASSUME NEW w \in Workers, Disturb(w) PROVE AppliedIsStored' /\ AnnouncedIsStored'
  <2>1. CASE Rebalance(w)
    <3>1. Given(w, committed') /\ UNCHANGED <<audit, announced>>
      BY <2>1, RebalanceStep
    <3> QED  BY <3>1 DEF Given, AppliedIsStored, AnnouncedIsStored, Stored, Typed, TypeOK, Worker
  <2>2. CASE Crash(w)
    <3>1. Leave(w) /\ UNCHANGED <<audit, announced>>
      BY <2>2, CrashStep
    <3> QED  BY <3>1, LeaveStep DEF AppliedIsStored, AnnouncedIsStored, Stored
  <2>3. CASE Stop(w)
    BY <2>3, StopStep DEF AppliedIsStored, AnnouncedIsStored, Stored
  <2> QED  BY <1>4, <2>1, <2>2, <2>3 DEF Disturb
<1> QED  BY <1>1, <1>2, <1>3, <1>4 DEF Next

\* Nobody is told of an event that is not in the database, whichever worker
\* holds it and whatever happened to the partition since (main.go:72-76).
THEOREM NothingUnstoredAnnounced == Spec => []AnnouncedIsStored
<1>1. Init => AppliedIsStored /\ AnnouncedIsStored
  BY DEF Init, AppliedIsStored, AnnouncedIsStored, Down
<1>2. Spec => [](Typed /\ AppliedIsStored /\ AnnouncedIsStored)
  BY <1>1, TypedInit, TypedNext, StoredNext, PTL DEF Spec
<1> QED  BY <1>2, PTL

(***************************************************************************)
(* A trip's driver is never forgotten.                                     *)
(***************************************************************************)
LEMMA OnlyPublishAndApply ==
  ASSUME [Next]_vars
  PROVE  \/ UNCHANGED <<log, trips>>
         \/ \E e \in Event : Publish(e)
         \/ \E w \in Workers : Apply(w)
BY DEF Next, vars, Work, Disturb, Start, Assign, Read, Flush, RollBack, Notify, Drop,
       Exit, Rebalance, Crash, Stop

\* The row an Apply leaves, and the event it is made from.
LEMMA AppliedRow ==
  ASSUME Typed, NEW w \in Workers, Apply(w)
  PROVE  \E i \in DOMAIN log :
           /\ log[i] \in Event
           /\ log[i].trip \in Trips
           /\ log[i].driver # NoDriver => trips'[log[i].trip].driver = log[i].driver
           /\ log[i].driver = NoDriver =>
                trips'[log[i].trip].driver = trips[log[i].trip].driver
           /\ \A t \in Trips \ {log[i].trip} : trips'[t] = trips[t]
           /\ UNCHANGED log
<1> DEFINE e == log[worker[w].hand]
<1>1. worker[w].hand \in DOMAIN log /\ e \in Event /\ UNCHANGED log
  BY ApplyStep DEF Typed, TypeOK
<1>2. e.trip \in Trips
  BY <1>1 DEF Event
<1>3. trips' = [trips EXCEPT ![e.trip] = Upsert(trips[e.trip], e)]
  BY <1>2 DEF Apply, Typed, TypeOK
<1>4. /\ trips'[e.trip] = Upsert(trips[e.trip], e)
      /\ \A t \in Trips \ {e.trip} : trips'[t] = trips[t]
  BY <1>2, <1>3 DEF Typed, TypeOK
<1>5. /\ e.driver # NoDriver => trips'[e.trip].driver = e.driver
      /\ e.driver = NoDriver => trips'[e.trip].driver = trips[e.trip].driver
  BY <1>4 DEF Upsert
<1> QED  BY <1>1, <1>2, <1>4, <1>5

LEMMA PublishedEntries ==
  ASSUME Typed, NEW e \in Event, Publish(e)
  PROVE  /\ DOMAIN log' = DOMAIN log \cup {Len(log) + 1}
         /\ \A i \in DOMAIN log : log'[i] = log[i]
         /\ log'[Len(log) + 1] = e
         /\ UNCHANGED trips
BY DEF Typed, TypeOK, Publish

LEMMA DriverNext ==
  ASSUME Typed, OneDriverInLog, RowsAreFromLog, [Next]_vars
  PROVE  /\ OneDriverInLog' /\ RowsAreFromLog'
         /\ \A t \in Trips : trips[t].driver # NoDriver => trips'[t].driver = trips[t].driver
<1>1. CASE UNCHANGED <<log, trips>>
  BY <1>1 DEF OneDriverInLog, RowsAreFromLog
<1>2. ASSUME NEW e \in Event, Publish(e)
      PROVE  OneDriverInLog' /\ RowsAreFromLog' /\ UNCHANGED trips
  <2>1. \A i \in DOMAIN log :
          log[i].trip = e.trip => log[i].driver = NoDriver \/ log[i].driver = e.driver
    BY <1>2 DEF Publish, Publishable
  <2>2. /\ DOMAIN log' = DOMAIN log \cup {Len(log) + 1}
        /\ \A i \in DOMAIN log : log'[i] = log[i]
        /\ log'[Len(log) + 1] = e
        /\ UNCHANGED trips
    BY <1>2, PublishedEntries
  <2>3. OneDriverInLog'
    BY <2>1, <2>2 DEF OneDriverInLog
  <2>4. RowsAreFromLog'
    BY <2>2 DEF RowsAreFromLog
  <2> QED  BY <2>2, <2>3, <2>4
<1>3. ASSUME NEW w \in Workers, Apply(w)
      PROVE  /\ OneDriverInLog' /\ RowsAreFromLog'
             /\ \A t \in Trips : trips[t].driver # NoDriver => trips'[t].driver = trips[t].driver
  <2>1. PICK i \in DOMAIN log :
          /\ log[i].trip \in Trips
          /\ log[i].driver # NoDriver => trips'[log[i].trip].driver = log[i].driver
          /\ log[i].driver = NoDriver =>
               trips'[log[i].trip].driver = trips[log[i].trip].driver
          /\ \A t \in Trips \ {log[i].trip} : trips'[t] = trips[t]
          /\ UNCHANGED log
    BY <1>3, AppliedRow
  <2>2. OneDriverInLog'
    BY <2>1 DEF OneDriverInLog
  <2>3. RowsAreFromLog'
    BY <2>1 DEF RowsAreFromLog
  <2>4. ASSUME NEW t \in Trips, trips[t].driver # NoDriver
        PROVE  trips'[t].driver = trips[t].driver
    <3>1. PICK j \in DOMAIN log : log[j].trip = t /\ log[j].driver = trips[t].driver
      BY <2>4 DEF RowsAreFromLog
    <3>2. log[i].trip = t /\ log[i].driver # NoDriver => log[i].driver = trips[t].driver
      BY <2>4, <3>1 DEF OneDriverInLog
    <3> QED  BY <2>1, <3>2
  <2> QED  BY <2>2, <2>3, <2>4
<1> QED  BY <1>1, <1>2, <1>3, OnlyPublishAndApply

\* A redelivered or late event, REQUESTED included, never takes from a row the
\* driver another event put there (trip.go:90).
THEOREM DriverNeverForgotten == Spec => DriverIsKept
<1> DEFINE Kept == \A t \in Trips : trips[t].driver # NoDriver => trips'[t].driver = trips[t].driver
<1>1. Init => OneDriverInLog /\ RowsAreFromLog
  BY DEF Init, OneDriverInLog, RowsAreFromLog, NoRow
<1>2. Typed /\ OneDriverInLog /\ RowsAreFromLog /\ [Next]_vars
        => OneDriverInLog' /\ RowsAreFromLog' /\ [Kept]_trips
  BY DriverNext
<1>3. Spec => [][Kept]_trips
  BY <1>1, <1>2, TypedInit, TypedNext, PTL DEF Spec
<1> QED  BY <1>3, PTL DEF DriverIsKept

(***************************************************************************)
(* In order and once, unless given out again.                              *)
(***************************************************************************)
LEMMA InOrderTypes ==
  ASSUME Typed
  PROVE  /\ worker \in [Workers -> Worker]
         /\ owner \in Workers \cup {Nobody}
         /\ Nobody \notin Workers
         /\ committed \in Nat
         /\ Front \in Nat
         /\ audit \in Seq(DOMAIN log)
         /\ DOMAIN log = 1 .. Len(log) /\ DOMAIN log \subseteq Nat
         /\ \A k \in DOMAIN audit : audit[k] \in DOMAIN log
         /\ \A w \in Workers : /\ worker[w].pos \in Nat
                               /\ worker[w].queued \in Nat
                               /\ worker[w].pc = "got" => worker[w].hand \in DOMAIN log
<1>1. \A w \in Workers : worker[w].pos \in Nat /\ worker[w].queued \in Nat
  BY DEF Typed, TypeOK, OffsetsExist
<1>2. owner \in Workers \cup {Nobody} /\ committed \in Nat
  BY DEF Typed, TypeOK
<1>3. Front \in Nat
  BY <1>1, <1>2 DEF Front
<1> QED  BY <1>1, <1>2, <1>3, TripWorkerAssumption DEF Typed, TypeOK, OffsetsExist

LEMMA RangeGrows ==
  ASSUME NEW f \in Nat, NEW g \in Nat, NEW x \in Nat, NEW S, NEW T, S \subseteq T,
         f + 1 .. g \subseteq T, g + 1 .. x \subseteq S
  PROVE  f + 1 .. x \subseteq T
OBVIOUS

\* A step that stores nothing and hands out nothing keeps the order, if the
\* front only moves back over offsets it gives out again and the owner of an
\* offset that was not stays the owner.
LEMMA OrderKept ==
  ASSUME Typed, Typed', HandedOut, InOrderOnceUnlessAgain,
         UNCHANGED audit, again \subseteq again',
         Front' + 1 .. Front \subseteq again',
         \A w \in Workers : worker'[w].pc = "got" =>
           /\ worker[w].pc = "got"
           /\ worker'[w].hand = worker[w].hand
           /\ worker[w].hand \notin again' => (owner = w => owner' = w)
  PROVE  HandedOut' /\ InOrderOnceUnlessAgain'
<1>1. Front \in Nat /\ Front' \in Nat
  BY TripWorkerAssumption DEF Typed, TypeOK, OffsetsExist, Front
<1>2. ASSUME NEW x \in Nat, Front + 1 .. x \subseteq again
      PROVE  Front' + 1 .. x \subseteq again'
  BY <1>1, <1>2, RangeGrows
<1>3. /\ \A k \in DOMAIN audit : audit[k] \in Nat
      /\ \A w \in Workers : worker[w].pc = "got" => worker[w].hand \in Nat
  BY InOrderTypes
<1>4. HandedOut'
  <2>1. \A k \in DOMAIN audit' : Front' + 1 .. audit'[k] \subseteq again'
    BY <1>2, <1>3 DEF HandedOut
  <2>2. ASSUME NEW w \in Workers, worker'[w].pc = "got"
        PROVE  Front' + 1 .. worker'[w].hand \subseteq again'
    BY <1>2, <1>3, <2>2 DEF HandedOut
  <2>3. ASSUME NEW w \in Workers, worker'[w].pc = "got", worker'[w].hand \notin again'
        PROVE  /\ owner' = w
               /\ \A k \in DOMAIN audit' : audit'[k] < worker'[w].hand
               /\ \A v \in Workers \ {w} : worker'[v].pc = "got" =>
                                             worker'[v].hand < worker'[w].hand
    BY <2>3 DEF HandedOut
  <2> QED  BY <2>1, <2>2, <2>3 DEF HandedOut
<1>5. InOrderOnceUnlessAgain'
  BY DEF InOrderOnceUnlessAgain
<1> QED  BY <1>4, <1>5

LEMMA OrderWork ==
  ASSUME Typed, Typed', InOrder, NEW w \in Workers, Work(w)
  PROVE  InOrder'
<1>t. /\ worker \in [Workers -> Worker]
      /\ owner \in Workers \cup {Nobody}
      /\ Nobody \notin Workers
      /\ committed \in Nat
      /\ Front \in Nat
      /\ audit \in Seq(DOMAIN log)
      /\ DOMAIN log \subseteq Nat
      /\ \A k \in DOMAIN audit : audit[k] \in DOMAIN log
      /\ \A q \in Workers : /\ worker[q].pos \in Nat
                            /\ worker[q].queued \in Nat
                            /\ worker[q].pc = "got" => worker[q].hand \in DOMAIN log
  BY InOrderTypes
<1>i. OwnerQueues /\ HandedOut /\ InOrderOnceUnlessAgain
  BY DEF InOrder
<1> SUFFICES /\ OwnerQueues'
             /\ HandedOut' /\ InOrderOnceUnlessAgain'
  BY DEF InOrder
<1>1. CASE Start(w)
  <2>1. /\ \A q \in Workers \ {w} : worker'[q] = worker[q]
        /\ worker'[w].pc = "idle"
        /\ worker'[w].pos = worker[w].pos
        /\ worker'[w].queued = worker[w].queued
        /\ UNCHANGED <<committed, owner, audit, again>>
    BY <1>1, <1>t DEF Start, hits, Worker
  <2>2. Front' = Front /\ OwnerQueues'
    BY <1>i, <1>t, <2>1 DEF Front, OwnerQueues
  <2>3. Front' + 1 .. Front \subseteq again'
    BY <1>t, <2>2
  <2> QED  BY <1>i, <2>1, <2>2, <2>3, OrderKept
<1>2. CASE Assign(w)
  <2>1. /\ \A q \in Workers \ {w} : worker'[q] = worker[q]
        /\ worker'[w].pc = worker[w].pc
        /\ worker'[w].hand = worker[w].hand
        /\ worker'[w].pos = committed
        /\ worker'[w].queued = committed
        /\ owner = Nobody
        /\ owner' = w
        /\ UNCHANGED <<committed, audit, again>>
    BY <1>2, <1>t DEF Assign, Given, StartAt, hits, Worker
  <2>2. Front' = Front /\ OwnerQueues'
    BY <1>t, <2>1 DEF Front, OwnerQueues
  <2>3. Front' + 1 .. Front \subseteq again'
    BY <1>t, <2>2
  <2> QED  BY <1>i, <1>t, <2>1, <2>2, <2>3, OrderKept
<1>3. CASE Read(w)
  <2> DEFINE n == worker[w].pos + 1
  <2>1. /\ owner = w
        /\ worker[w].pc = "idle"
        /\ n \in DOMAIN log
        /\ \A q \in Workers \ {w} : worker'[q] = worker[q]
        /\ worker'[w].pc = "got"
        /\ worker'[w].hand = n
        /\ worker'[w].pos = n
        /\ worker'[w].queued = n
        /\ UNCHANGED <<log, committed, owner, audit, cut, again>>
    BY <1>3, ReadStep
  <2>2. Front = worker[w].pos /\ Front' = n /\ n = Front + 1 /\ OwnerQueues'
    BY <1>i, <1>t, <2>1 DEF Front, OwnerQueues
  <2> HIDE DEF n
  <2>3. ASSUME NEW x \in Nat, Front + 1 .. x \subseteq again
        PROVE  /\ Front' + 1 .. x \subseteq again'
               /\ n \notin again => x < n
    BY <1>t, <2>1, <2>2, <2>3
  <2>4. /\ \A k \in DOMAIN audit : Front' + 1 .. audit[k] \subseteq again'
        /\ n \notin again => \A k \in DOMAIN audit : audit[k] < n
    BY <1>i, <1>t, <2>3 DEF HandedOut
  <2>5. \A q \in Workers \ {w} : worker[q].pc = "got" =>
          /\ Front' + 1 .. worker[q].hand \subseteq again'
          /\ n \notin again => worker[q].hand < n
          /\ worker[q].hand \in again
    BY <1>i, <1>t, <2>1, <2>3 DEF HandedOut
  <2>6. Front' + 1 .. n \subseteq again'
    BY <1>t, <2>1, <2>2
  <2>7. HandedOut'
    BY <2>1, <2>4, <2>5, <2>6 DEF HandedOut
  <2>8. InOrderOnceUnlessAgain'
    BY <1>i, <2>1 DEF InOrderOnceUnlessAgain
  <2> QED  BY <2>2, <2>7, <2>8
<1>4. CASE Flush(w)
  <2>1. /\ owner = w
        /\ committed' = worker[w].queued
        /\ UNCHANGED <<owner, worker, audit, again>>
    BY <1>4 DEF Flush, hits
  <2>2. Front' = Front /\ OwnerQueues'
    BY <1>i, <1>t, <2>1 DEF Front, OwnerQueues
  <2>3. Front' + 1 .. Front \subseteq again'
    BY <1>t, <2>2
  <2> QED  BY <1>i, <2>1, <2>2, <2>3, OrderKept
<1>5. CASE Apply(w)
  <2> DEFINE h == worker[w].hand
  <2>1. PICK pc \in {"idle", "applied"} : Finish(w, pc)
    BY <1>5, ApplyStep
  <2>2. /\ worker[w].pc = "got"
        /\ h \in DOMAIN log
        /\ audit' = Append(audit, h)
        /\ UNCHANGED <<log, committed, owner, again>>
    BY <1>5, ApplyStep
  <2>3. /\ \A q \in Workers \ {w} : worker'[q] = worker[q]
        /\ worker'[w].pc # "got"
        /\ worker'[w].pos = worker[w].pos
        /\ worker'[w].queued = worker[w].queued
    BY <2>1, <2>2, FinishStep
  <2>4. Front' = Front /\ OwnerQueues'
    BY <1>i, <1>t, <2>2, <2>3 DEF Front, OwnerQueues
  <2>5. /\ Len(audit) \in Nat
        /\ DOMAIN audit = 1 .. Len(audit)
        /\ DOMAIN audit' = DOMAIN audit \cup {Len(audit) + 1}
        /\ \A k \in DOMAIN audit : audit'[k] = audit[k]
        /\ audit'[Len(audit) + 1] = h
    BY <1>t, <2>2
  <2> HIDE DEF h
  <2>6. h \in Nat /\ Front + 1 .. h \subseteq again
    BY <1>i, <1>t, <2>2 DEF HandedOut, h
  <2>7. h \notin again => \A k \in DOMAIN audit : audit[k] < h
    BY <1>i, <2>2 DEF HandedOut, h
  <2>8. ASSUME NEW q \in Workers, worker'[q].pc = "got"
        PROVE  /\ q # w /\ worker[q].pc = "got" /\ worker'[q].hand = worker[q].hand
               /\ worker[q].hand \notin again => h < worker[q].hand
    BY <1>i, <2>2, <2>3, <2>8 DEF HandedOut, h
  <2>9. HandedOut'
    <3>1. \A k \in DOMAIN audit' : Front' + 1 .. audit'[k] \subseteq again'
      BY <1>i, <2>2, <2>4, <2>5, <2>6 DEF HandedOut
    <3>2. \A q \in Workers : worker'[q].pc = "got" =>
            Front' + 1 .. worker'[q].hand \subseteq again'
      BY <1>i, <2>2, <2>4, <2>8 DEF HandedOut
    <3>3. ASSUME NEW q \in Workers, worker'[q].pc = "got", worker'[q].hand \notin again'
          PROVE  /\ owner' = q
                 /\ \A k \in DOMAIN audit' : audit'[k] < worker'[q].hand
                 /\ \A v \in Workers \ {q} : worker'[v].pc = "got" =>
                                               worker'[v].hand < worker'[q].hand
      BY <1>i, <2>2, <2>5, <2>8, <3>3 DEF HandedOut
    <3> QED  BY <3>1, <3>2, <3>3 DEF HandedOut
  <2>10. InOrderOnceUnlessAgain'
    <3>1. ASSUME NEW j \in DOMAIN audit', NEW k \in DOMAIN audit', j < k
          PROVE  audit'[j] < audit'[k] \/ audit'[k] \in again'
      <4>1. j \in DOMAIN audit
        BY <2>5, <3>1
      <4>2. CASE k \in DOMAIN audit
        BY <1>i, <2>2, <2>5, <3>1, <4>1, <4>2 DEF InOrderOnceUnlessAgain
      <4>3. CASE k = Len(audit) + 1
        BY <2>2, <2>5, <2>7, <4>1, <4>3
      <4> QED  BY <2>5, <4>2, <4>3
    <3> QED  BY <3>1 DEF InOrderOnceUnlessAgain
  <2> QED  BY <2>4, <2>9, <2>10
<1>6. CASE RollBack(w) \/ Notify(w)
  <2>1. Finish(w, "idle") /\ UNCHANGED <<log, committed, owner, audit, again>>
    BY <1>6, RollBackStep DEF Notify, hits
  <2>2. /\ \A q \in Workers \ {w} : worker'[q] = worker[q]
        /\ worker'[w].pc = "idle"
        /\ worker'[w].pos = worker[w].pos
        /\ worker'[w].queued = worker[w].queued
    BY <2>1, FinishStep
  <2>3. Front' = Front /\ OwnerQueues'
    BY <1>i, <1>t, <2>1, <2>2 DEF Front, OwnerQueues
  <2>4. Front' + 1 .. Front \subseteq again'
    BY <1>t, <2>3
  <2> QED  BY <1>i, <2>1, <2>2, <2>3, <2>4, OrderKept
<1>7. CASE Drop(w)
  <2>1. /\ owner = w
        /\ \A q \in Workers \ {w} : worker'[q] = worker[q]
        /\ worker'[w].pc = "idle"
        /\ worker'[w].pos = worker[w].pos + 1
        /\ worker'[w].queued = worker[w].pos + 1
        /\ UNCHANGED <<committed, owner, audit, again>>
    BY <1>7, DropStep
  <2>2. Front' = Front + 1 /\ OwnerQueues'
    BY <1>i, <1>t, <2>1 DEF Front, OwnerQueues
  <2>3. Front' + 1 .. Front \subseteq again'
    BY <1>t, <2>2
  <2> QED  BY <1>i, <2>1, <2>2, <2>3, OrderKept
<1>8. CASE Exit(w)
  <2>1. /\ Leave(w)
        /\ worker[w].pc = "idle"
        /\ again \subseteq again'
        /\ owner # w => committed' = committed
        /\ owner = w => \/ committed' = worker[w].queued
                        \/ committed' = committed /\ Unflushed(w) \subseteq again'
        /\ UNCHANGED audit
    BY <1>8, ExitStep
  <2>2. /\ \A q \in Workers \ {w} : worker'[q] = worker[q]
        /\ worker'[w].pc = "down"
        /\ owner' = IF owner = w THEN Nobody ELSE owner
    BY <2>1, LeaveStep
  <2>3. OwnerQueues'
    BY <1>i, <1>t, <2>1, <2>2 DEF OwnerQueues
  <2>4. Front' + 1 .. Front \subseteq again'
    BY <1>i, <1>t, <2>1, <2>2 DEF OwnerQueues, Front, Unflushed
  <2> QED  BY <1>i, <2>1, <2>2, <2>3, <2>4, OrderKept
<1> QED  BY <1>1, <1>2, <1>3, <1>4, <1>5, <1>6, <1>7, <1>8 DEF Work

LEMMA OrderDisturb ==
  ASSUME Typed, Typed', InOrder, NEW w \in Workers, Disturb(w)
  PROVE  InOrder'
<1>t. /\ worker \in [Workers -> Worker]
      /\ owner \in Workers \cup {Nobody}
      /\ Nobody \notin Workers
      /\ committed \in Nat
      /\ Front \in Nat
      /\ \A q \in Workers : worker[q].pos \in Nat /\ worker[q].queued \in Nat
  BY InOrderTypes
<1>i. OwnerQueues /\ HandedOut /\ InOrderOnceUnlessAgain
  BY DEF InOrder
<1> SUFFICES /\ OwnerQueues'
             /\ HandedOut' /\ InOrderOnceUnlessAgain'
  BY DEF InOrder
<1>1. CASE Rebalance(w)
  <2>1. /\ owner \in Workers
        /\ committed' \in Nat
        /\ Given(w, committed')
        /\ again \cup InHand(owner) \subseteq again'
        /\ \/ committed' = worker[owner].queued
           \/ committed' = committed /\ Unflushed(owner) \subseteq again'
        /\ UNCHANGED audit
    BY <1>1, RebalanceStep
  <2>2. /\ \A q \in Workers \ {w} : worker'[q] = worker[q]
        /\ worker'[w].pc = worker[w].pc
        /\ worker'[w].hand = worker[w].hand
        /\ worker'[w].pos = committed'
        /\ worker'[w].queued = committed'
        /\ owner' = w
    BY <1>t, <2>1 DEF Given, StartAt, Worker
  <2>3. OwnerQueues'
    BY <1>t, <2>1, <2>2 DEF OwnerQueues
  <2>4. Front' + 1 .. Front \subseteq again'
    BY <1>i, <1>t, <2>1, <2>2 DEF OwnerQueues, Front, Unflushed
  <2>5. worker[owner].pc = "got" => worker[owner].hand \in again'
    BY <2>1 DEF InHand
  <2> QED  BY <1>i, <2>1, <2>2, <2>3, <2>4, <2>5, OrderKept
<1>2. CASE Crash(w)
  <2>1. /\ Leave(w)
        /\ again' = again \cup Unflushed(w)
        /\ UNCHANGED <<committed, audit>>
    BY <1>2, CrashStep
  <2>2. /\ \A q \in Workers \ {w} : worker'[q] = worker[q]
        /\ worker'[w].pc = "down"
        /\ owner' = IF owner = w THEN Nobody ELSE owner
    BY <2>1, LeaveStep
  <2>3. OwnerQueues'
    BY <1>i, <1>t, <2>1, <2>2 DEF OwnerQueues
  <2>4. Front' + 1 .. Front \subseteq again'
    BY <1>i, <1>t, <2>1, <2>2 DEF OwnerQueues, Front, Unflushed
  <2> QED  BY <1>i, <2>1, <2>2, <2>3, <2>4, OrderKept
<1>3. CASE Stop(w)
  <2>1. /\ \A q \in Workers : /\ worker'[q].pc = worker[q].pc
                              /\ worker'[q].hand = worker[q].hand
                              /\ worker'[q].pos = worker[q].pos
                              /\ worker'[q].queued = worker[q].queued
        /\ UNCHANGED <<committed, owner, audit, again>>
    BY <1>3, StopStep
  <2>2. Front' = Front /\ OwnerQueues'
    BY <1>i, <1>t, <2>1 DEF Front, OwnerQueues
  <2>3. Front' + 1 .. Front \subseteq again'
    BY <1>t, <2>2
  <2> QED  BY <1>i, <2>1, <2>2, <2>3, OrderKept
<1> QED  BY <1>1, <1>2, <1>3 DEF Disturb

LEMMA OrderNext ==
  ASSUME Typed, InOrder, [Next]_vars
  PROVE  InOrder'
<1>1. CASE UNCHANGED vars
  BY <1>1 DEF vars, InOrder, OwnerQueues, HandedOut, Front, InOrderOnceUnlessAgain
<1>2. ASSUME NEW e \in Event, Publish(e) PROVE InOrder'
  BY <1>2 DEF Publish, hits, InOrder, OwnerQueues, HandedOut, Front, InOrderOnceUnlessAgain
<1>3. ASSUME NEW w \in Workers, Work(w) PROVE InOrder'
  BY <1>3, OrderWork, TypedNext
<1>4. ASSUME NEW w \in Workers, Disturb(w) PROVE InOrder'
  BY <1>4, OrderDisturb, TypedNext
<1> QED  BY <1>1, <1>2, <1>3, <1>4 DEF Next

LEMMA OrderInit == Init => InOrder
BY DEF Init, InOrder, OwnerQueues, HandedOut, Front, InOrderOnceUnlessAgain, Down

\* However workers come, go and fail, an event is stored twice or late only if
\* its offset had been given out again (main.go:57-78, kafkax.go:63-78).
THEOREM StoredInOrder == Spec => []InOrderOnceUnlessAgain
<1>1. Spec => [](Typed /\ InOrder)
  BY OrderInit, OrderNext, TypedInit, TypedNext, PTL DEF Spec
<1> QED  BY <1>1, PTL DEF InOrder

(***************************************************************************)
(* What is lost was cut short.                                             *)
(***************************************************************************)
\* A step that moves the group's offset and the owner's no further than what is
\* accounted for keeps the account.
LEMMA AccountKept ==
  ASSUME Typed, Typed', Accounted, Stored \subseteq Stored', cut \subseteq cut',
         \/ committed' = committed
         \/ owner # Nobody /\ committed' = worker[owner].pos,
         \A w \in Workers : \A i \in InHand(w) :
           i \in Stored' \cup cut' \cup InHand(w)' \/ i > committed',
         owner' # Nobody =>
           \/ worker'[owner'].pos = committed'
           \/ /\ owner' = owner /\ worker'[owner].pos = worker[owner].pos
              /\ committed <= committed'
              /\ InHand(owner) \subseteq Stored' \cup cut' \cup InHand(owner)'
  PROVE  Accounted'
<1>1. /\ committed \in Nat /\ committed' \in Nat
      /\ owner \in Workers \cup {Nobody} /\ owner' \in Workers \cup {Nobody}
      /\ \A w \in Workers : worker[w].pos \in Nat /\ worker'[w].pos \in Nat
  BY DEF Typed, TypeOK, OffsetsExist
<1>2. ASSUME NEW i \in 1 .. committed'
      PROVE  i \in Stored' \cup cut' \/ \E w \in Workers : i \in InHand(w)'
  <2>1. i \in Stored \cup cut \/ \E w \in Workers : i \in InHand(w)
    BY <1>1, <1>2 DEF Accounted
  <2> QED  BY <1>1, <1>2, <2>1
<1>3. ASSUME owner' # Nobody
      PROVE  committed' + 1 .. worker'[owner'].pos \subseteq Stored' \cup cut' \cup InHand(owner)'
  <2>1. CASE worker'[owner'].pos = committed'
    <3>1. \A n \in Nat : n + 1 .. n = {}
      OBVIOUS
    <3> QED  BY <1>1, <2>1, <3>1
  <2>2. CASE /\ owner' = owner /\ worker'[owner].pos = worker[owner].pos
             /\ committed <= committed'
             /\ InHand(owner) \subseteq Stored' \cup cut' \cup InHand(owner)'
    <3>1. committed + 1 .. worker[owner].pos \subseteq Stored \cup cut \cup InHand(owner)
      BY <1>3, <2>2 DEF Accounted
    <3>2. committed' + 1 .. worker'[owner'].pos \subseteq committed + 1 .. worker[owner].pos
      BY <1>1, <1>3, <2>2
    <3> QED  BY <2>2, <3>1, <3>2
  <2> QED  BY <1>3, <2>1, <2>2
<1> QED  BY <1>2, <1>3 DEF Accounted

LEMMA AccountedWork ==
  ASSUME Typed, Typed', OwnerQueues, Accounted, NEW w \in Workers, Work(w)
  PROVE  Accounted'
<1>t. /\ worker \in [Workers -> Worker]
      /\ owner \in Workers \cup {Nobody}
      /\ Nobody \notin Workers
      /\ committed \in Nat
      /\ \A q \in Workers : worker[q].pos \in Nat /\ worker[q].queued \in Nat
  BY InOrderTypes
<1>1. CASE Start(w)
  <2>1. /\ \A q \in Workers \ {w} : worker'[q] = worker[q]
        /\ worker[w].pc # "got"
        /\ worker'[w].pos = worker[w].pos
        /\ UNCHANGED <<committed, owner, audit, cut>>
    BY <1>1, <1>t DEF Start, hits, Worker
  <2>2. \A q \in Workers : InHand(q) \subseteq InHand(q)'
    BY <2>1 DEF InHand
  <2>3. Stored' = Stored /\ \A q \in Workers : worker'[q].pos = worker[q].pos
    BY <2>1 DEF Stored
  <2> QED  BY <1>t, <2>1, <2>2, <2>3, AccountKept
<1>2. CASE Assign(w)
  <2>1. /\ \A q \in Workers \ {w} : worker'[q] = worker[q]
        /\ worker'[w].pc = worker[w].pc
        /\ worker'[w].hand = worker[w].hand
        /\ worker'[w].pos = committed
        /\ owner' = w
        /\ UNCHANGED <<committed, audit, cut>>
    BY <1>2, <1>t DEF Assign, Given, StartAt, hits, Worker
  <2>2. Stored' = Stored /\ \A q \in Workers : InHand(q) \subseteq InHand(q)'
    BY <2>1 DEF Stored, InHand
  <2> QED  BY <1>t, <2>1, <2>2, AccountKept
<1>3. CASE Read(w) \/ Drop(w)
  <2> DEFINE n == worker[w].pos + 1
  <2>1. /\ owner = w
        /\ worker[w].pc = "idle"
        /\ \A q \in Workers \ {w} : worker'[q] = worker[q]
        /\ worker'[w].pos = n
        /\ UNCHANGED <<committed, owner, audit>>
        /\ cut \subseteq cut'
    BY <1>3, ReadStep, DropStep
  <2>2. n \in cut' \cup InHand(w)'
    BY <1>3, ReadStep, DropStep DEF InHand
  <2>3. Stored' = Stored /\ InHand(w) = {} /\ \A q \in Workers \ {w} : InHand(q)' = InHand(q)
    BY <2>1 DEF Stored, InHand
  <2>4. committed + 1 .. worker[w].pos \subseteq Stored \cup cut
    BY <1>t, <2>1, <2>3 DEF Accounted
  <2>5. committed' + 1 .. n \subseteq Stored' \cup cut' \cup InHand(w)'
    BY <1>t, <2>1, <2>2, <2>3, <2>4
  <2>6. \A i \in 1 .. committed' :
          i \in Stored' \cup cut' \/ \E q \in Workers : i \in InHand(q)'
    BY <2>1, <2>3 DEF Accounted
  <2> QED  BY <2>1, <2>5, <2>6 DEF Accounted
<1>4. CASE Flush(w)
  <2>1. /\ owner = w
        /\ committed' = worker[w].pos
        /\ committed <= committed'
        /\ UNCHANGED <<owner, worker, audit, cut>>
    BY <1>4, <1>t DEF Flush, hits, OwnerQueues
  <2>2. Stored' = Stored /\ \A q \in Workers : InHand(q)' = InHand(q)
    BY <2>1 DEF Stored, InHand
  <2> QED  BY <1>t, <2>1, <2>2, AccountKept
<1>5. CASE Apply(w) \/ RollBack(w)
  <2>1. PICK pc \in {"idle", "applied"} : Finish(w, pc)
    BY <1>5, ApplyStep, RollBackStep
  <2>2. /\ worker[w].pc = "got"
        /\ worker[w].hand \in DOMAIN log
        /\ UNCHANGED <<log, committed, owner>>
        /\ Stored \subseteq Stored' /\ cut \subseteq cut'
        /\ worker[w].hand \in Stored' \cup cut'
    <3>1. CASE Apply(w)
      BY <3>1, ApplyStep, ApplyStores
    <3>2. CASE RollBack(w)
      BY <3>2, RollBackStep DEF Stored
    <3> QED  BY <1>5, <3>1, <3>2
  <2>3. /\ \A q \in Workers \ {w} : worker'[q] = worker[q]
        /\ worker'[w].pos = worker[w].pos
    BY <2>1, <2>2, FinishStep
  <2>4. /\ \A q \in Workers \ {w} : InHand(q)' = InHand(q)
        /\ InHand(w) \subseteq Stored' \cup cut'
    BY <2>2, <2>3 DEF InHand
  <2>5. \A q \in Workers : worker'[q].pos = worker[q].pos
    BY <2>3
  <2>6. \A q \in Workers : InHand(q) \subseteq Stored' \cup cut' \cup InHand(q)'
    BY <2>4
  <2> QED  BY <1>t, <2>2, <2>5, <2>6, AccountKept
<1>6. CASE Notify(w)
  <2>1. /\ Finish(w, "idle")
        /\ worker[w].pc = "applied"
        /\ UNCHANGED <<log, committed, owner, audit, cut>>
    BY <1>6 DEF Notify, hits
  <2>2. /\ \A q \in Workers \ {w} : worker'[q] = worker[q]
        /\ worker'[w].pos = worker[w].pos
    BY <2>1, FinishStep
  <2>3. /\ Stored' = Stored
        /\ \A q \in Workers : InHand(q) \subseteq InHand(q)' /\ worker'[q].pos = worker[q].pos
    BY <2>1, <2>2 DEF InHand, Stored
  <2> QED  BY <1>t, <2>1, <2>3, AccountKept
<1>7. CASE Exit(w)
  <2>1. /\ Leave(w)
        /\ worker[w].pc = "idle"
        /\ owner # w => committed' = committed
        /\ owner = w => committed' = worker[w].queued \/ committed' = committed
        /\ UNCHANGED <<audit, cut>>
    BY <1>7, ExitStep
  <2>2. /\ \A q \in Workers \ {w} : worker'[q] = worker[q]
        /\ owner' = IF owner = w THEN Nobody ELSE owner
    BY <2>1, LeaveStep
  <2>3. Stored' = Stored /\ \A q \in Workers : InHand(q) \subseteq InHand(q)'
    BY <2>1, <2>2 DEF Stored, InHand
  <2>4. committed' = committed \/ (owner # Nobody /\ committed' = worker[owner].pos)
    BY <1>t, <2>1 DEF OwnerQueues
  <2> QED  BY <1>t, <2>1, <2>2, <2>3, <2>4, AccountKept
<1> QED  BY <1>1, <1>2, <1>3, <1>4, <1>5, <1>6, <1>7 DEF Work

LEMMA AccountedDisturb ==
  ASSUME Typed, Typed', OwnerQueues, Accounted, NEW w \in Workers, Disturb(w)
  PROVE  Accounted'
<1>t. /\ worker \in [Workers -> Worker]
      /\ owner \in Workers \cup {Nobody}
      /\ Nobody \notin Workers
      /\ committed \in Nat
      /\ \A q \in Workers : worker[q].pos \in Nat /\ worker[q].queued \in Nat
  BY InOrderTypes
<1>1. CASE Rebalance(w)
  <2>1. /\ owner \in Workers
        /\ committed' \in Nat
        /\ Given(w, committed')
        /\ committed' = worker[owner].queued \/ committed' = committed
        /\ UNCHANGED <<audit, cut>>
    BY <1>1, RebalanceStep
  <2>2. /\ \A q \in Workers \ {w} : worker'[q] = worker[q]
        /\ worker'[w].pc = worker[w].pc
        /\ worker'[w].hand = worker[w].hand
        /\ worker'[w].pos = committed'
        /\ owner' = w
    BY <1>t, <2>1 DEF Given, StartAt, Worker
  <2>3. Stored' = Stored /\ \A q \in Workers : InHand(q) \subseteq InHand(q)'
    BY <2>1, <2>2 DEF Stored, InHand
  <2>4. committed' = committed \/ (owner # Nobody /\ committed' = worker[owner].pos)
    BY <1>t, <2>1 DEF OwnerQueues
  <2> QED  BY <1>t, <2>1, <2>2, <2>3, <2>4, AccountKept
<1>2. CASE Crash(w)
  <2>1. /\ Leave(w)
        /\ cut' = cut \cup { i \in InHand(w) : i <= committed }
        /\ UNCHANGED <<committed, audit>>
    BY <1>2, CrashStep
  <2>2. /\ \A q \in Workers \ {w} : worker'[q] = worker[q]
        /\ owner' = IF owner = w THEN Nobody ELSE owner
    BY <2>1, LeaveStep
  <2>3. Stored' = Stored /\ \A q \in Workers \ {w} : InHand(q)' = InHand(q)
    BY <2>1, <2>2 DEF Stored, InHand
  <2>4. \A i \in InHand(w) : i \in Nat
    BY AtRiskExist DEF Typed, TypeOK
  <2>5. \A q \in Workers : \A i \in InHand(q) :
          i \in Stored' \cup cut' \cup InHand(q)' \/ i > committed'
    BY <1>t, <2>1, <2>3, <2>4
  <2>6. owner' # Nobody =>
          /\ owner' = owner /\ worker'[owner].pos = worker[owner].pos
          /\ committed <= committed'
          /\ InHand(owner) \subseteq Stored' \cup cut' \cup InHand(owner)'
    BY <1>t, <2>1, <2>2, <2>3
  <2> QED  BY <2>1, <2>3, <2>5, <2>6, AccountKept
<1>3. CASE Stop(w)
  <2>1. /\ \A q \in Workers : /\ worker'[q].pc = worker[q].pc
                              /\ worker'[q].hand = worker[q].hand
                              /\ worker'[q].pos = worker[q].pos
        /\ UNCHANGED <<committed, owner, audit, cut>>
    BY <1>3, StopStep
  <2>2. Stored' = Stored /\ \A q \in Workers : InHand(q)' = InHand(q)
    BY <2>1 DEF Stored, InHand
  <2> QED  BY <1>t, <2>1, <2>2, AccountKept
<1> QED  BY <1>1, <1>2, <1>3 DEF Disturb

LEMMA AccountedNext ==
  ASSUME Typed, OwnerQueues, Accounted, [Next]_vars
  PROVE  Accounted'
<1>1. CASE UNCHANGED vars
  BY <1>1 DEF vars, Accounted, Stored, InHand
<1>2. ASSUME NEW e \in Event, Publish(e) PROVE Accounted'
  BY <1>2 DEF Publish, hits, Accounted, Stored, InHand
<1>3. ASSUME NEW w \in Workers, Work(w) PROVE Accounted'
  BY <1>3, AccountedWork, TypedNext
<1>4. ASSUME NEW w \in Workers, Disturb(w) PROVE Accounted'
  BY <1>4, AccountedDisturb, TypedNext
<1> QED  BY <1>1, <1>2, <1>3, <1>4 DEF Next

LEMMA AccountedInit == Init => Accounted
BY DEF Init, Accounted

LEMMA AccountedLoss ==
  ASSUME Accounted
  PROVE  OnlyCutIsLost
BY DEF Accounted, OnlyCutIsLost, Lost

\* However often workers crash, stop, lose the partition or fail to store, the
\* offsets queued before Apply let go of no event but the one that failed or
\* died in hand after its flush, and those a stopping worker read and dropped
\* (main.go:57-78, kafkax.go:76).
THEOREM OnlyCutLost == Spec => []OnlyCutIsLost
<1>1. InOrder => OwnerQueues
  BY DEF InOrder
<1>2. Spec => [](Typed /\ InOrder /\ Accounted)
  BY <1>1, OrderInit, OrderNext, TypedInit, TypedNext, AccountedInit, AccountedNext, PTL DEF Spec
<1> QED  BY <1>2, AccountedLoss, PTL

(***************************************************************************)
(* A row is the replay of its audit entries.                               *)
(***************************************************************************)

\* The audit entries of a trip, and those of them that name a driver.
EntriesOf(t) == { k \in DOMAIN audit : log[audit[k]].trip = t }
NamingOf(t)  == { k \in EntriesOf(t) : log[audit[k]].driver # NoDriver }

Latest(k, S) == k \in S /\ \A j \in S : j <= k

\* RowIsReplay with the last entry at hand, so that no step has to choose it.
StateFromLatest(t) ==
  IF EntriesOf(t) = {} THEN trips[t].state = "NONE"
  ELSE \E k \in DOMAIN audit : Latest(k, EntriesOf(t)) /\ trips[t].state = log[audit[k]].state
DriverFromLatest(t) ==
  IF NamingOf(t) = {} THEN trips[t].driver = NoDriver
  ELSE \E k \in DOMAIN audit : Latest(k, NamingOf(t)) /\ trips[t].driver = log[audit[k]].driver
RowsFromLatest == \A t \in Trips : StateFromLatest(t) /\ DriverFromLatest(t)

\* The last of some entries is the one CHOOSE finds.
LEMMA LatestIsChosen ==
  ASSUME NEW S, S \subseteq Nat, NEW n, Latest(n, S)
  PROVE  (CHOOSE k \in S : \A j \in S : j <= k) = n
<1>1. \A k \in S : (\A j \in S : j <= k) => k = n
  BY DEF Latest
<1> QED  BY <1>1 DEF Latest

LEMMA LatestRowsReplay ==
  ASSUME Typed, RowsFromLatest
  PROVE  RowIsReplay
<1> SUFFICES ASSUME NEW t \in Trips PROVE Replayed(t, trips[t])
  BY DEF RowIsReplay
<1>1. EntriesOf(t) \subseteq Nat /\ NamingOf(t) \subseteq Nat
  BY DEF EntriesOf, NamingOf, Typed, TypeOK
<1>2. trips[t].state = IF EntriesOf(t) = {} THEN "NONE" ELSE
        log[audit[CHOOSE k \in EntriesOf(t) : \A j \in EntriesOf(t) : j <= k]].state
  <2>1. CASE EntriesOf(t) = {}
    BY <2>1 DEF RowsFromLatest, StateFromLatest
  <2>2. ASSUME EntriesOf(t) # {},
               NEW n \in DOMAIN audit, Latest(n, EntriesOf(t)), trips[t].state = log[audit[n]].state
        PROVE  trips[t].state =
                 log[audit[CHOOSE k \in EntriesOf(t) : \A j \in EntriesOf(t) : j <= k]].state
    BY <1>1, <2>2, LatestIsChosen
  <2> QED  BY <2>1, <2>2 DEF RowsFromLatest, StateFromLatest
<1>3. trips[t].driver = IF NamingOf(t) = {} THEN NoDriver ELSE
        log[audit[CHOOSE k \in NamingOf(t) : \A j \in NamingOf(t) : j <= k]].driver
  <2>1. CASE NamingOf(t) = {}
    BY <2>1 DEF RowsFromLatest, DriverFromLatest
  <2>2. ASSUME NamingOf(t) # {},
               NEW n \in DOMAIN audit, Latest(n, NamingOf(t)), trips[t].driver = log[audit[n]].driver
        PROVE  trips[t].driver =
                 log[audit[CHOOSE k \in NamingOf(t) : \A j \in NamingOf(t) : j <= k]].driver
    BY <1>1, <2>2, LatestIsChosen
  <2> QED  BY <2>1, <2>2 DEF RowsFromLatest, DriverFromLatest
<1> QED  BY <1>2, <1>3 DEF Replayed, EntriesOf, NamingOf

\* Storing an event adds the newest entry to those of its trip, and to those
\* that name a driver if it names one; the entries of other trips stay.
LEMMA EntriesGrow ==
  ASSUME Typed, NEW w \in Workers, Apply(w), NEW t \in Trips
  PROVE  LET e == log[worker[w].hand]
             n == Len(audit) + 1
         IN /\ DOMAIN audit' = DOMAIN audit \cup {n}
            /\ n \in Nat /\ \A k \in DOMAIN audit : k < n
            /\ \A k \in DOMAIN audit : log'[audit'[k]] = log[audit[k]]
            /\ log'[audit'[n]] = e
            /\ EntriesOf(t)' = EntriesOf(t) \cup (IF e.trip = t THEN {n} ELSE {})
            /\ NamingOf(t)' = NamingOf(t) \cup
                 (IF e.trip = t /\ e.driver # NoDriver THEN {n} ELSE {})
            /\ trips'[t] = IF e.trip = t THEN Upsert(trips[t], e) ELSE trips[t]
<1> DEFINE e == log[worker[w].hand]
           n == Len(audit) + 1
<1>1. /\ worker[w].hand \in DOMAIN log
      /\ audit \in Seq(DOMAIN log)
      /\ audit' = Append(audit, worker[w].hand)
      /\ UNCHANGED log
  BY ApplyStep DEF Typed, TypeOK
<1>2. /\ DOMAIN audit' = DOMAIN audit \cup {n}
      /\ n \in Nat /\ \A k \in DOMAIN audit : k < n
      /\ \A k \in DOMAIN audit : log'[audit'[k]] = log[audit[k]]
      /\ log'[audit'[n]] = e
  BY <1>1
<1>3. trips' = [trips EXCEPT ![e.trip] = Upsert(trips[e.trip], e)]
  <2>1. e \in Event
    BY <1>1 DEF Typed, TypeOK
  <2>2. e.trip \in Trips
    BY <2>1 DEF Event
  <2> QED  BY <2>2 DEF Apply, Typed, TypeOK
<1>4. trips'[t] = IF e.trip = t THEN Upsert(trips[t], e) ELSE trips[t]
  BY <1>3 DEF Typed, TypeOK
<1> HIDE DEF e, n
<1>5. EntriesOf(t)' = EntriesOf(t) \cup (IF e.trip = t THEN {n} ELSE {})
  BY <1>2 DEF EntriesOf
<1>6. NamingOf(t)' = NamingOf(t) \cup (IF e.trip = t /\ e.driver # NoDriver THEN {n} ELSE {})
  BY <1>2, <1>5 DEF NamingOf, EntriesOf
<1> QED  BY <1>2, <1>4, <1>5, <1>6 DEF e, n

LEMMA RowsFromLatestApply ==
  ASSUME Typed, RowsFromLatest, NEW w \in Workers, Apply(w)
  PROVE  RowsFromLatest'
<1> SUFFICES ASSUME NEW t \in Trips PROVE StateFromLatest(t)' /\ DriverFromLatest(t)'
  BY DEF RowsFromLatest
<1> DEFINE e == log[worker[w].hand]
           n == Len(audit) + 1
<1>1. /\ DOMAIN audit' = DOMAIN audit \cup {n}
      /\ n \in Nat /\ \A k \in DOMAIN audit : k < n
      /\ \A k \in DOMAIN audit : log'[audit'[k]] = log[audit[k]]
      /\ log'[audit'[n]] = e
      /\ EntriesOf(t)' = EntriesOf(t) \cup (IF e.trip = t THEN {n} ELSE {})
      /\ NamingOf(t)' = NamingOf(t) \cup (IF e.trip = t /\ e.driver # NoDriver THEN {n} ELSE {})
      /\ trips'[t] = IF e.trip = t THEN Upsert(trips[t], e) ELSE trips[t]
  BY EntriesGrow
<1>2. EntriesOf(t) \subseteq DOMAIN audit /\ NamingOf(t) \subseteq DOMAIN audit
  BY DEF EntriesOf, NamingOf
<1>3. StateFromLatest(t) /\ DriverFromLatest(t)
  BY DEF RowsFromLatest
<1>4. /\ Upsert(trips[t], e).state = e.state
      /\ e.driver # NoDriver => Upsert(trips[t], e).driver = e.driver
      /\ e.driver = NoDriver => Upsert(trips[t], e).driver = trips[t].driver
  BY DEF Upsert
<1>n. DOMAIN audit \subseteq Nat
  BY DEF Typed, TypeOK
<1> HIDE DEF e, n
<1>5. ASSUME NEW S, S \subseteq DOMAIN audit PROVE Latest(n, S \cup {n})
  BY <1>1, <1>5, <1>n DEF Latest
<1>6. StateFromLatest(t)'
  <2>1. CASE e.trip = t
    <3>1. Latest(n, EntriesOf(t)')
      BY <1>1, <1>2, <1>5, <2>1
    <3>2. trips'[t].state = log'[audit'[n]].state /\ n \in DOMAIN audit'
      BY <1>1, <1>4, <2>1
    <3> QED  BY <3>1, <3>2 DEF StateFromLatest, Latest
  <2>2. CASE e.trip # t
    BY <1>1, <1>2, <1>3, <2>2 DEF StateFromLatest, Latest
  <2> QED  BY <2>1, <2>2
<1>7. DriverFromLatest(t)'
  <2>1. CASE e.trip = t /\ e.driver # NoDriver
    <3>1. Latest(n, NamingOf(t)')
      BY <1>1, <1>2, <1>5, <2>1
    <3>2. trips'[t].driver = log'[audit'[n]].driver /\ n \in DOMAIN audit'
      BY <1>1, <1>4, <2>1
    <3> QED  BY <3>1, <3>2 DEF DriverFromLatest, Latest
  <2>2. CASE ~(e.trip = t /\ e.driver # NoDriver)
    <3>1. trips'[t].driver = trips[t].driver /\ NamingOf(t)' = NamingOf(t)
      BY <1>1, <1>4, <2>2
    <3> QED  BY <1>1, <1>2, <1>3, <3>1 DEF DriverFromLatest, Latest
  <2> QED  BY <2>1, <2>2
<1> QED  BY <1>6, <1>7

LEMMA OnlyApplyAudits ==
  ASSUME [Next]_vars
  PROVE  \/ UNCHANGED <<log, trips, audit>>
         \/ \E e \in Event : Publish(e)
         \/ \E w \in Workers : Apply(w)
BY DEF Next, vars, Work, Disturb, Start, Assign, Read, Flush, RollBack, Notify, Drop,
       Exit, Rebalance, Crash, Stop

LEMMA RowsFromLatestNext ==
  ASSUME Typed, RowsFromLatest, [Next]_vars
  PROVE  RowsFromLatest'
<1>1. CASE UNCHANGED <<log, trips, audit>>
  BY <1>1 DEF RowsFromLatest, StateFromLatest, DriverFromLatest, EntriesOf, NamingOf, Latest
<1>2. ASSUME NEW e \in Event, Publish(e) PROVE RowsFromLatest'
  <2>1. /\ \A k \in DOMAIN audit : log'[audit[k]] = log[audit[k]]
        /\ UNCHANGED <<audit, trips>>
    <3>1. \A i \in DOMAIN log : log'[i] = log[i]
      BY <1>2, PublishedEntries
    <3>2. \A k \in DOMAIN audit : audit[k] \in DOMAIN log
      BY DEF Typed, TypeOK
    <3> QED  BY <1>2, <3>1, <3>2 DEF Publish
  <2> QED  BY <2>1
    DEF RowsFromLatest, StateFromLatest, DriverFromLatest, EntriesOf, NamingOf, Latest
<1>3. ASSUME NEW w \in Workers, Apply(w) PROVE RowsFromLatest'
  BY <1>3, RowsFromLatestApply
<1> QED  BY <1>1, <1>2, <1>3, OnlyApplyAudits

\* Whatever order redeliveries put the audit entries in, the row of a trip is
\* what replaying them gives: the transaction writes both or neither
\* (trip.go:85-104).
THEOREM RowsAreReplays == Spec => []RowIsReplay
<1>1. Init => RowsFromLatest
  BY DEF Init, RowsFromLatest, StateFromLatest, DriverFromLatest, EntriesOf, NamingOf, NoRow
<1>2. Spec => [](Typed /\ RowsFromLatest)
  BY <1>1, TypedInit, TypedNext, RowsFromLatestNext, PTL DEF Spec
<1> QED  BY <1>2, LatestRowsReplay, PTL
=================================================================================
