------------------------------- MODULE EdgeProofs -------------------------------
(***************************************************************************)
(* Theorems about Edge, for any number of handlers, slots, drivers, quotes *)
(* and failed calls, any bound on the requests of a window, any depth of   *)
(* the map, any precision of the keys and any points; and about the        *)
(* geometry of Boundary, which has the keys of Edge.                       *)
(***************************************************************************)
EXTENDS Edge, FiniteSetTheorems, TLAPS

(***************************************************************************)
(* The semaphore of the ingest edge.                                       *)
(***************************************************************************)
SlotInv == IngestTypeOK /\ SlotsAreHeld

LEMMA HoldingIsFinite ==
  IngestTypeOK => IsFiniteSet(Holding) /\ Cardinality(Holding) \in Nat
<1>1. Holding \subseteq Handlers
  BY DEF Holding
<1> QED
  BY <1>1, IngestAssumption, FS_Subset, FS_CardinalityType

\* A slot is taken by a handler that starts to work.
LEMMA SlotTaken ==
  ASSUME SlotInv, NEW h \in Handlers, used < Slots, Moves(h, "idle", "reading"),
         used' = used + 1
  PROVE  SlotInv'
<1>1. IngestTypeOK'
  BY IngestAssumption DEF SlotInv, IngestTypeOK, Moves
<1>2. h \notin Holding /\ Holding' = Holding \cup {h}
  BY DEF SlotInv, IngestTypeOK, Moves, Holding
<1>3. Cardinality(Holding') = Cardinality(Holding) + 1
  BY <1>2, HoldingIsFinite, FS_AddElement DEF SlotInv
<1> QED
  BY <1>1, <1>3 DEF SlotInv, SlotsAreHeld

\* A slot is given back by a handler that worked.
LEMMA SlotReturned ==
  ASSUME SlotInv, NEW h \in Handlers, NEW from \in {"reading", "writing"},
         Moves(h, from, "idle"), used' = used - 1
  PROVE  SlotInv'
<1>1. h \in Holding /\ Holding' = Holding \ {h}
  BY DEF SlotInv, IngestTypeOK, Moves, Holding
<1>2. Cardinality(Holding') = Cardinality(Holding) - 1
  BY <1>1, HoldingIsFinite, FS_RemoveElement DEF SlotInv
<1>3. Cardinality(Holding') \in Nat
  BY <1>1, HoldingIsFinite, FS_RemoveElement, FS_CardinalityType DEF SlotInv
<1>4. IngestTypeOK'
  BY <1>2, <1>3, IngestAssumption DEF SlotInv, SlotsAreHeld, IngestTypeOK, Moves
<1> QED
  BY <1>2, <1>4 DEF SlotInv, SlotsAreHeld

\* A handler that moves between two states in which it holds a slot, or between
\* two in which it does not, leaves the semaphore alone.
LEMMA SlotKept ==
  ASSUME SlotInv, NEW h \in Handlers, NEW from, NEW to, Moves(h, from, to),
         \/ from = "idle" /\ to = "shed"
         \/ from = "shed" /\ to = "idle"
         \/ from = "reading" /\ to = "writing",
         UNCHANGED used
  PROVE  SlotInv'
<1>1. IngestTypeOK'
  BY DEF SlotInv, IngestTypeOK, Moves
<1>2. Holding' = Holding
  BY DEF SlotInv, IngestTypeOK, Moves, Holding
<1> QED
  BY <1>1, <1>2 DEF SlotInv, SlotsAreHeld

LEMMA SlotStep == SlotInv /\ [Next]_vars => SlotInv'
<1> SUFFICES ASSUME SlotInv, [Next]_vars PROVE SlotInv'
  OBVIOUS
<1>1. ASSUME NEW h \in Handlers, HandleLocation(h) PROVE SlotInv'
  <2>1. CASE Acquire(h)
    BY <2>1, SlotTaken, SlotKept DEF Acquire
  <2>2. CASE Answered(h)
    BY <2>2, SlotKept DEF Answered
  <2>3. CASE Decoded(h)
    BY <2>3, SlotKept DEF Decoded
  <2>4. CASE BadBody(h)
    BY <2>4, SlotReturned DEF BadBody
  <2>5. CASE Written(h)
    BY <2>5, SlotReturned DEF Written
  <2> QED
    BY <1>1, <2>1, <2>2, <2>3, <2>4, <2>5 DEF HandleLocation
<1>2. CASE UNCHANGED ingestVars
  BY <1>2 DEF SlotInv, IngestTypeOK, SlotsAreHeld, Holding, ingestVars
<1>3. CASE IngestRestart
  <2>1. Holding' = {}
    BY <1>3 DEF IngestRestart, Holding
  <2> QED
    BY <1>3, <2>1, FS_EmptySet, IngestAssumption
    DEF IngestRestart, SlotInv, IngestTypeOK, SlotsAreHeld
<1> QED
  BY <1>1, <1>2, <1>3 DEF Next, HandleOne, SurgeOne, Restart, vars

\* The tokens in ingestSem are those of the handlers at work, whatever fails:
\* no path of handleLocation loses a slot or returns one twice.
THEOREM SlotsNeverLeak == Spec => []SlotsAreHeld
<1>1. Init => SlotInv
  <2> SUFFICES ASSUME Init PROVE SlotInv
    OBVIOUS
  <2>1. Holding = {}
    BY DEF Init, IngestInit, Holding
  <2> QED
    BY <2>1, FS_EmptySet, IngestAssumption
    DEF Init, IngestInit, SlotInv, IngestTypeOK, SlotsAreHeld
<1>2. SlotInv => SlotsAreHeld
  BY DEF SlotInv
<1> QED
  BY <1>1, <1>2, SlotStep, PTL DEF Spec

(***************************************************************************)
(* The price.                                                              *)
(***************************************************************************)

\* factor is what d requests and s drivers warrant.
LEMMA FactorIsFair ==
  ASSUME NEW d \in Nat, NEW s \in Nat
  PROVE  AtMost(factor(d, s), d, s) /\ AtLeast(factor(d, s), d, s)
BY DEF factor, AtMost, AtLeast, minSurge, maxSurge

\* A price that is not too high for s drivers is not too high for fewer.
LEMMA FewerDrivers ==
  ASSUME NEW p \in Nat \X Nat, NEW d \in Nat, NEW s \in Nat, NEW t \in Nat, t <= s,
         AtMost(p, d, s)
  PROVE  AtMost(p, d, t)
<1>1. p[1] * t <= p[1] * s
  OBVIOUS
<1> QED
  BY <1>1 DEF AtMost, minSurge, maxSurge

LEMMA FactorType ==
  ASSUME NEW d \in Nat, NEW s \in Nat
  PROVE  factor(d, s) \in Nat \X Nat
BY DEF factor, minSurge, maxSurge

PriceInv ==
  /\ members \subseteq Drivers
  /\ faults \in Nat
  /\ quote \in [Quotes -> Quote]
  /\ demand \in Nat

LEMMA Supplies ==
  members \subseteq Drivers =>
    /\ IsFiniteSet(members)
    /\ Cardinality(members) \in Nat
    /\ Cardinality(members \cap fresh) \in Nat
    /\ Cardinality(members \cap fresh) <= Cardinality(members)
<1> SUFFICES ASSUME members \subseteq Drivers
             PROVE  /\ IsFiniteSet(members)
                    /\ Cardinality(members) \in Nat
                    /\ Cardinality(members \cap fresh) \in Nat
                    /\ Cardinality(members \cap fresh) <= Cardinality(members)
  OBVIOUS
<1>1. IsFiniteSet(members)
  BY SurgeAssumption, FS_Subset
<1>2. members \cap fresh \in SUBSET members
  OBVIOUS
<1>3. /\ IsFiniteSet(members \cap fresh)
      /\ Cardinality(members \cap fresh) <= Cardinality(members)
  BY <1>1, <1>2, FS_Subset
<1> QED
  BY <1>1, <1>3, FS_CardinalityType

LEMMA PriceStep == PriceInv /\ [Next]_vars => PriceInv'
<1> SUFFICES ASSUME PriceInv, [Next]_vars PROVE PriceInv'
  OBVIOUS
<1> USE DEF PriceInv
<1>1. CASE RecordDemand
  <2>1. UNCHANGED <<members, quote>>
    BY <1>1 DEF RecordDemand, index
  <2>2. faults' = faults \/ faults' = faults + 1
    BY <1>1, Zenon DEF RecordDemand, Fault
  <2>3. demand' \in {demand, Plus(demand, 1), Plus(demand, 2)}
    BY <1>1 DEF RecordDemand
  <2>4. demand' \in Nat
    BY <2>3, SurgeAssumption DEF Plus
  <2> QED
    BY <2>1, <2>2, <2>4
<1>2. CASE Lapse
  BY <1>2 DEF Lapse, index
<1>3. ASSUME NEW d \in Drivers, Indexed(d) \/ Removed(d) \/ Stale(d) \/ Evicted(d)
      PROVE  PriceInv'
  BY <1>3 DEF Indexed, Removed, Stale, Evicted, IndexStep, counter
<1>4. ASSUME NEW q \in Quotes, Get(q) PROVE PriceInv'
  <2>1. PICK n \in {demand, 0} :
          quote' = [quote EXCEPT ![q] = [@ EXCEPT !.at = "ZCARD", !.demand = n]]
    BY <1>4 DEF Get
  <2>2. [quote[q] EXCEPT !.at = "ZCARD", !.demand = n] \in Quote
    <3>1. n \in Nat /\ quote[q] \in Quote
      BY <2>1
    <3> HIDE DEF PriceInv
    <3> QED
      BY <3>1 DEF Quote
  <2>3. quote' \in [Quotes -> Quote]
    BY <2>1, <2>2
  <2>4. faults' \in Nat
    BY <1>4 DEF Get, Fault
  <2> QED
    BY <1>4, <2>3, <2>4 DEF Get, counter, index
<1>5. ASSUME NEW q \in Quotes, Supply(q) PROVE PriceInv'
  <2>1. PICK n \in {Cardinality(members), 0} :
          /\ quote' = [quote EXCEPT ![q] =
                         [@ EXCEPT !.at = "priced", !.price = factor(quote[q].demand, n)]]
          /\ IF n = Cardinality(members) THEN UNCHANGED faults ELSE Fault
    BY <1>5 DEF Supply
  <2>2. n \in Nat /\ quote[q].demand \in Nat
    BY Supplies DEF Quote
  <2>3. factor(quote[q].demand, n) \in Nat \X Nat
    BY <2>2, FactorType
  <2>4. quote' \in [Quotes -> Quote]
    BY <2>1, <2>3 DEF Quote
  <2>5. faults' \in Nat
    BY <2>1 DEF Fault
  <2> QED
    BY <1>5, <2>4, <2>5 DEF Supply, counter, index
<1>6. ASSUME NEW q \in Quotes, Quoted(q) PROVE PriceInv'
  BY <1>6 DEF Quoted, NoQuote, Quote, counter, index
<1>7. CASE SurgeRestart
  BY <1>7 DEF SurgeRestart, NoQuote, Quote, counter, index
<1>8. CASE UNCHANGED surgeVars
  BY <1>8 DEF surgeVars, counter, index
<1> QED
  BY <1>1, <1>2, <1>3, <1>4, <1>5, <1>6, <1>7, <1>8
  DEF Next, HandleOne, SurgeOne, SurgeStep, Restart, vars

\* A price comes from one step only, and that step is fair.
LEMMA PriceIsFair ==
  ASSUME PriceInv, [Next]_vars, NEW q \in Quotes,
         quote[q].at = "ZCARD", quote'[q].at = "priced", faults' = faults
  PROVE  /\ AtMost(quote'[q].price, quote[q].demand, Cardinality(members \cap fresh))
         /\ members \subseteq fresh =>
              AtLeast(quote'[q].price, quote[q].demand, Cardinality(members))
<1>1. Supply(q)
  <2>1. ~(RecordDemand \/ Lapse) /\ ~UNCHANGED surgeVars
    BY DEF RecordDemand, Lapse, surgeVars
  <2>2. ~\E d \in Drivers : Indexed(d) \/ Removed(d) \/ Stale(d) \/ Evicted(d)
    BY DEF Indexed, Removed, Stale, Evicted, IndexStep
  <2>3. \A p \in Quotes : ~Get(p) /\ ~Quoted(p)
    BY DEF Get, Quoted, PriceInv, NoQuote
  <2>4. \A p \in Quotes \ {q} : ~Supply(p)
    BY DEF Supply, PriceInv
  <2>5. ~SurgeRestart
    BY DEF SurgeRestart, NoQuote
  <2> QED
    BY <2>1, <2>2, <2>3, <2>4, <2>5 DEF Next, HandleOne, SurgeOne, SurgeStep, Restart, vars
<1>2. PICK n \in {Cardinality(members), 0} :
        /\ quote' = [quote EXCEPT ![q] =
                       [@ EXCEPT !.at = "priced", !.price = factor(quote[q].demand, n)]]
        /\ IF n = Cardinality(members) THEN UNCHANGED faults ELSE Fault
  BY <1>1 DEF Supply
<1>3. n = Cardinality(members)
  BY <1>2 DEF Fault, PriceInv
<1>4. /\ Cardinality(members) \in Nat
      /\ Cardinality(members \cap fresh) \in Nat
      /\ Cardinality(members \cap fresh) <= Cardinality(members)
      /\ quote[q].demand \in Nat
  BY Supplies DEF PriceInv, Quote
<1>5. quote'[q].price = factor(quote[q].demand, Cardinality(members))
  BY <1>2, <1>3 DEF PriceInv, Quote
<1>6. /\ AtMost(quote'[q].price, quote[q].demand, Cardinality(members))
      /\ AtLeast(quote'[q].price, quote[q].demand, Cardinality(members))
  BY <1>4, <1>5, FactorIsFair
<1>7. quote'[q].price \in Nat \X Nat
  BY <1>4, <1>5, FactorType
<1> QED
  BY <1>4, <1>6, <1>7, FewerDrivers

\* No rider is charged more than the demand that was read and the drivers a
\* search could return warrant, however supply changed between the two reads,
\* nor less unless the geo set held stale members.
THEOREM QuotesAreFair == Spec => QuoteIsFair
<1>1. Init => PriceInv
  BY SurgeAssumption DEF Init, SurgeInit, PriceInv, NoQuote, Quote
<1>2. PriceInv /\ [Next]_vars =>
        [\A q \in Quotes :
           quote[q].at = "ZCARD" /\ quote'[q].at = "priced" /\ faults' = faults =>
             /\ AtMost(quote'[q].price, quote[q].demand, Cardinality(members \cap fresh))
             /\ members \subseteq fresh =>
                  AtLeast(quote'[q].price, quote[q].demand, Cardinality(members))]_<<quote, faults>>
  BY PriceIsFair
<1> QED
  BY <1>1, <1>2, PriceStep, PTL DEF Spec, QuoteIsFair

(***************************************************************************)
(* The counter.                                                            *)
(***************************************************************************)
Renewed(window) == \A i \in DOMAIN window : window[i] = TRUE

CounterInv ==
  /\ demand \in Nat /\ since \in Nat /\ recent \in Seq(BOOLEAN)
  /\ Len(recent) <= since /\ Len(recent) <= MaxRecent /\ since <= MaxDemand
  /\ exact => demand = since /\ Renewed(recent)

LEMMA CounterRecord ==
  ASSUME CounterInv, RecordDemand
  PROVE  CounterInv'
<1> USE SurgeAssumption
<1>1. Len(recent) < MaxRecent /\ since' = Plus(since, 1)
  BY DEF RecordDemand
<1>2. \/ demand' = Plus(demand, 1) /\ recent' = Append(recent, TRUE) /\ exact' = exact
      \/ demand' \in {demand, Plus(demand, 1), Plus(demand, 2)} /\ exact' = FALSE
         /\ recent' \in {Append(recent, TRUE), Append(recent, FALSE)}
  BY Zenon DEF RecordDemand, Renew
<1>3. demand' \in Nat /\ since' \in Nat /\ since' <= MaxDemand
  <2>1. demand' \in {demand, Plus(demand, 1), Plus(demand, 2)}
    BY <1>2, Zenon
  <2> QED
    BY <1>1, <2>1 DEF CounterInv, Plus
<1>4. recent' \in Seq(BOOLEAN) /\ Len(recent') = Len(recent) + 1
  <2>1. recent' = Append(recent, TRUE) \/ recent' = Append(recent, FALSE)
    BY <1>2, Zenon
  <2>2. ASSUME NEW b \in BOOLEAN, recent' = Append(recent, b)
        PROVE  recent' \in Seq(BOOLEAN) /\ Len(recent') = Len(recent) + 1
    BY <2>2 DEF CounterInv
  <2> QED
    BY <2>1, <2>2
<1>5. Len(recent') <= since' /\ Len(recent') <= MaxRecent
  BY <1>1, <1>4 DEF CounterInv, Plus
<1>6. ASSUME exact' PROVE demand' = since' /\ Renewed(recent')
  <2>1. demand' = Plus(demand, 1) /\ recent' = Append(recent, TRUE) /\ exact
    BY <1>2, <1>6
  <2>2. demand' = since'
    BY <1>1, <2>1 DEF CounterInv
  <2>3. Renewed(recent')
    BY <2>1 DEF CounterInv, Renewed
  <2> QED
    BY <2>2, <2>3
<1> QED
  BY <1>3, <1>4, <1>5, <1>6 DEF CounterInv

LEMMA CounterLapse ==
  ASSUME CounterInv, Lapse
  PROVE  CounterInv'
<1> USE SurgeAssumption
<1>1. /\ recent # <<>>
      /\ recent' = Tail(recent)
      /\ demand' = IF HasTTL(recent) /\ ~HasTTL(Tail(recent)) THEN 0 ELSE demand
      /\ since' = IF Tail(recent) = <<>> THEN 0 ELSE since
  BY DEF Lapse
<1>2. exact' => exact \/ (Tail(recent) = <<>> /\ demand' = 0)
  BY DEF Lapse
<1>3. recent' \in Seq(BOOLEAN) /\ Len(recent') = Len(recent) - 1
  BY <1>1 DEF CounterInv
<1>4. demand' \in Nat /\ since' \in Nat /\ since' <= MaxDemand
  BY <1>1 DEF CounterInv
<1>5. Len(recent') <= since' /\ Len(recent') <= MaxRecent
  <2>1. CASE Tail(recent) = <<>>
    BY <1>1, <1>3, <2>1 DEF CounterInv
  <2>2. CASE Tail(recent) # <<>>
    BY <1>1, <1>3, <2>2 DEF CounterInv
  <2> QED
    BY <2>1, <2>2
<1>6. CASE Tail(recent) = <<>> /\ demand' = 0
  BY <1>1, <1>3, <1>4, <1>5, <1>6 DEF CounterInv, Renewed
<1>7. CASE exact /\ ~(Tail(recent) = <<>> /\ demand' = 0)
  <2>1. Renewed(recent) /\ demand = since
    BY <1>7 DEF CounterInv
  <2>2. Renewed(Tail(recent))
    BY <1>1, <2>1 DEF CounterInv, Renewed
  <2>3. HasTTL(recent)
    BY <1>1, <2>1 DEF CounterInv, Renewed, HasTTL
  <2>4. Tail(recent) # <<>>
    BY <1>1, <1>7, <2>3 DEF HasTTL
  <2>5. HasTTL(Tail(recent))
    BY <1>1, <1>3, <2>2, <2>4 DEF Renewed, HasTTL
  <2> QED
    BY <1>1, <1>3, <1>4, <1>5, <2>1, <2>2, <2>4, <2>5 DEF CounterInv
<1>8. CASE ~exact /\ ~(Tail(recent) = <<>> /\ demand' = 0)
  BY <1>2, <1>3, <1>4, <1>5, <1>8 DEF CounterInv
<1> QED
  BY <1>6, <1>7, <1>8

LEMMA CounterStep == CounterInv /\ [Next]_vars => CounterInv'
<1> SUFFICES ASSUME CounterInv, [Next]_vars PROVE CounterInv'
  OBVIOUS
<1>1. CASE UNCHANGED counter
  BY <1>1 DEF CounterInv, Renewed, counter
<1>2. RecordDemand \/ Lapse \/ UNCHANGED counter
  BY DEF Next, HandleOne, SurgeOne, SurgeStep, Restart, SurgeRestart, Indexed, Removed,
         Stale, Evicted, IndexStep, Get, Supply, Quoted, vars, surgeVars
<1> QED
  BY <1>1, <1>2, CounterRecord, CounterLapse

\* What is true of the refuted DemandIsRecent (surge.go:31-33): because every
\* request applies the TTL again, the counter never misses a request of the last
\* window, and is the number of those since the region was last quiet, exactly,
\* while no call fails; and again from the next quiet window on.
THEOREM CounterIsExact == Spec => [](RecentIsCounted /\ DemandIsSinceQuiet)
<1>1. Init => CounterInv
  BY SurgeAssumption DEF Init, SurgeInit, CounterInv, Renewed
<1>2. CounterInv => RecentIsCounted /\ DemandIsSinceQuiet
  BY DEF CounterInv, RecentIsCounted, DemandIsSinceQuiet
<1> QED
  BY <1>1, <1>2, CounterStep, PTL DEF Spec

(***************************************************************************)
(* Counting and powers of two. Induction is on a set: one that holds 0 and the *)
(* successor of each of its members has every natural number, because the others *)
(* would have a least one. What the library says of 2 ^ k is how many subsets a *)
(* set of k has.                                                           *)
(***************************************************************************)
LEMMA LeastElement ==
  ASSUME NEW T, T \subseteq Nat, T # {}
  PROVE  \E n \in T : \A m \in T : n <= m
<1> DEFINE Less == { ss \in Nat \X Nat : ss[1] < ss[2] }
<1>1. IsWellFoundedOn(Less, Nat)
  BY NatLessThanWellFounded DEF OpToRel
<1>2. PICK n \in T : \A m \in T : <<m, n>> \notin Less
  BY <1>1, WFMin
<1>3. ASSUME NEW m \in T PROVE n <= m
  <2>1. <<m, n>> \in Nat \X Nat /\ <<m, n>>[1] = m /\ <<m, n>>[2] = n
    OBVIOUS
  <2>2. ~ (m < n)
    BY <1>2, <2>1
  <2> QED
    BY <2>2
<1> QED
  BY <1>3

LEMMA CountingUp ==
  ASSUME NEW S, 0 \in S, \A n \in Nat : n \in S => n + 1 \in S
  PROVE  Nat \subseteq S
<1> DEFINE T == Nat \ S
<1>1. SUFFICES ASSUME T # {} PROVE FALSE
  OBVIOUS
<1>2. PICK n \in T : \A m \in T : n <= m
  BY <1>1, LeastElement
<1>3. n # 0 /\ n - 1 \in Nat /\ n - 1 \notin T
  BY <1>2
<1> QED
  BY <1>2, <1>3

\* A new element doubles the subsets.
LEMMA SubsetsDouble ==
  ASSUME NEW S, IsFiniteSet(S), NEW e, e \notin S
  PROVE  Cardinality(SUBSET (S \cup {e})) = 2 * Cardinality(SUBSET S)
<1> DEFINE A == SUBSET S
           B == { X \cup {e} : X \in A }
           f == [X \in A |-> X \cup {e}]
<1>1. SUBSET (S \cup {e}) = A \cup B
  <2>1. ASSUME NEW Y \in SUBSET (S \cup {e}) PROVE Y \in A \cup B
    <3>1. CASE e \in Y
      <4>1. Y = (Y \ {e}) \cup {e} /\ Y \ {e} \in A
        BY <3>1
      <4> QED
        BY <4>1
    <3>2. CASE e \notin Y
      BY <3>2
    <3> QED
      BY <3>1, <3>2
  <2> QED
    BY <2>1
<1>2. A \cap B = {}
  OBVIOUS
<1>3. f \in Bijection(A, B)
  <2>1. f \in [A -> B] /\ \A Y \in B : \E X \in A : f[X] = Y
    OBVIOUS
  <2>2. ASSUME NEW X \in A, NEW Y \in A, f[X] = f[Y] PROVE X = Y
    <3>1. X \cup {e} = Y \cup {e} /\ e \notin X /\ e \notin Y
      BY <2>2
    <3>2. X = (X \cup {e}) \ {e} /\ Y = (Y \cup {e}) \ {e}
      BY <3>1
    <3> QED
      BY <3>1, <3>2
  <2> HIDE DEF f, A, B
  <2>3. f \in Injection(A, B)
    BY <2>1, <2>2 DEF Injection, IsInjective
  <2>4. f \in Surjection(A, B)
    BY <2>1 DEF Surjection
  <2> QED
    BY <2>3, <2>4 DEF Bijection
<1>4. IsFiniteSet(A) /\ Cardinality(A) \in Nat
  BY FS_SUBSET, FS_CardinalityType
<1>5. IsFiniteSet(B) /\ Cardinality(B) = Cardinality(A)
  BY <1>3, <1>4, FS_Bijection DEF ExistsBijection
<1>6. Cardinality(A \cup B) = Cardinality(A) + Cardinality(B) - Cardinality(A \cap B)
  BY <1>4, <1>5, FS_Union
<1>7. Cardinality(A \cap B) = 0
  BY <1>2, FS_EmptySet
<1>8. Cardinality(SUBSET (S \cup {e})) = Cardinality(A \cup B)
  BY ONLY <1>1, Zenon
<1> HIDE DEF A, B
<1>9. Cardinality(A \cup B) = 2 * Cardinality(A)
  BY <1>4, <1>5, <1>6, <1>7
<1> QED
  BY <1>8, <1>9 DEF A

LEMMA PowerIsCount ==
  ASSUME NEW k \in Nat
  PROVE  2 ^ k = Cardinality(SUBSET (1 .. k)) /\ IsFiniteSet(1 .. k)
<1>1. IsFiniteSet(1 .. k) /\ Cardinality(1 .. k) = k
  BY FS_Interval
<1> QED
  BY <1>1, FS_SUBSET

LEMMA Doubling ==
  ASSUME NEW k \in Nat
  PROVE  2 ^ k \in Nat /\ 2 ^ (k + 1) = 2 * 2 ^ k
<1>1. 1 .. k + 1 = (1 .. k) \cup {k + 1} /\ k + 1 \notin 1 .. k
  OBVIOUS
<1>2. Cardinality(SUBSET ((1 .. k) \cup {k + 1})) = 2 * Cardinality(SUBSET (1 .. k))
  BY <1>1, PowerIsCount, SubsetsDouble
<1>3. Cardinality(SUBSET (1 .. k)) \in Nat
  BY PowerIsCount, FS_SUBSET, FS_CardinalityType
<1>4. 2 ^ (k + 1) = Cardinality(SUBSET (1 .. k + 1))
  BY PowerIsCount
<1> QED
  BY <1>1, <1>2, <1>3, <1>4, PowerIsCount

LEMMA PowerPositive == \A k \in Nat : 2 ^ k \in Nat \ {0}
<1> DEFINE S == { k \in Nat : 2 ^ k \in Nat \ {0} }
<1>1. 0 \in S
  OBVIOUS
<1>2. ASSUME NEW n \in Nat, n \in S PROVE n + 1 \in S
  BY <1>2, Doubling
<1> HIDE DEF S
<1>3. Nat \subseteq S
  BY <1>1, <1>2, CountingUp
<1> QED
  BY <1>3 DEF S

LEMMA PowerOfSum ==
  ASSUME NEW a \in Nat
  PROVE  \A b \in Nat : 2 ^ (a + b) = 2 ^ a * 2 ^ b
<1> DEFINE S == { b \in Nat : 2 ^ (a + b) = 2 ^ a * 2 ^ b }
<1>1. 0 \in S
  <2>1. 2 ^ 0 = 1 /\ a + 0 = a /\ 2 ^ a \in Nat
    BY Doubling
  <2> QED
    BY <2>1
<1>2. ASSUME NEW n \in Nat, n \in S PROVE n + 1 \in S
  <2>1. 2 ^ (a + n) = 2 ^ a * 2 ^ n
    BY <1>2
  <2>2. 2 ^ (n + 1) = 2 * 2 ^ n /\ 2 ^ n \in Nat /\ 2 ^ a \in Nat
    BY Doubling
  <2>3. 2 ^ ((a + n) + 1) = 2 * 2 ^ (a + n)
    BY Doubling
  <2>4. a + (n + 1) = (a + n) + 1
    OBVIOUS
  <2> QED
    BY <2>1, <2>2, <2>3, <2>4
<1> HIDE DEF S
<1>3. Nat \subseteq S
  BY <1>1, <1>2, CountingUp
<1> QED
  BY <1>3 DEF S

(***************************************************************************)
(* A coordinate on a grid of cells 2 ^ (Depth - k) wide: what k halvings leave. *)
(***************************************************************************)
LEMMA Quotient ==
  ASSUME NEW o \in Nat, NEW w \in Nat \ {0}
  PROVE  o \div w \in Nat /\ (o \div w) * w <= o /\ o < (o \div w) * w + w
OBVIOUS

LEMMA ProductStep ==
  ASSUME NEW a \in Nat, NEW b \in Nat, NEW w \in Nat, a < b
  PROVE  a * w + w <= b * w
<1>1. PICK j \in Nat : b = a + 1 + j
  <2>1. b = a + 1 + (b - a - 1) /\ b - a - 1 \in Nat
    OBVIOUS
  <2> QED
    BY <2>1
<1>2. b * w = a * w + w + j * w /\ j * w \in Nat
  BY <1>1
<1> QED
  BY <1>2

LEMMA OneQuotient ==
  ASSUME NEW o \in Nat, NEW w \in Nat \ {0}, NEW q \in Nat, q * w <= o, o < q * w + w
  PROVE  o \div w = q
<1> DEFINE c == o \div w
<1>1. c \in Nat /\ c * w <= o /\ o < c * w + w
  BY Quotient
<1> HIDE DEF c
<1>2. c * w \in Nat /\ q * w \in Nat
  BY <1>1
<1>3. ~ (c < q)
  BY <1>1, <1>2, ProductStep
<1>4. ~ (q < c)
  BY <1>1, <1>2, ProductStep
<1> QED
  BY <1>1, <1>3, <1>4 DEF c

LEMMA MapWidth ==
  Half \in Nat \ {0} /\ 2 ^ Depth = 2 * Half
<1>1. Depth - 1 \in Nat /\ Depth = (Depth - 1) + 1
  BY RegionAssumption
<1>2. 2 ^ ((Depth - 1) + 1) = 2 * 2 ^ (Depth - 1)
  BY <1>1, Doubling
<1> QED
  BY <1>1, <1>2, PowerPositive DEF Half

LEMMA PlaceOnMap ==
  ASSUME NEW x \in Int
  PROVE  /\ OnMap(x) \in Nat /\ OnMap(x) < 2 ^ Depth
         /\ x < -Half => OnMap(x) = 0
         /\ x >= Half => OnMap(x) = 2 ^ Depth - 1
         /\ -Half <= x /\ x < Half => OnMap(x) = x + Half
  BY MapWidth DEF OnMap

\* No cell sticks out of the map.
LEMMA CellWithinMap ==
  ASSUME NEW x \in Int, NEW k \in Nat, k <= Depth
  PROVE  LET w == 2 ^ (Depth - k)
             p == (OnMap(x) \div w) * w
         IN  /\ w \in Nat \ {0} /\ OnMap(x) \div w \in Nat
             /\ p \in Nat /\ p <= OnMap(x) /\ OnMap(x) < p + w /\ p + w <= 2 ^ Depth
<1> DEFINE w == 2 ^ (Depth - k)
           c == OnMap(x) \div w
<1>1. Depth - k \in Nat /\ Depth = k + (Depth - k)
  BY RegionAssumption
<1>2. 2 ^ k \in Nat /\ w \in Nat \ {0} /\ 2 ^ Depth = 2 ^ k * w
  <2>1. 2 ^ (k + (Depth - k)) = 2 ^ k * 2 ^ (Depth - k)
    BY <1>1, PowerOfSum
  <2> QED
    BY <1>1, <2>1, PowerPositive
<1>3. OnMap(x) \in Nat /\ OnMap(x) < 2 ^ Depth
  BY PlaceOnMap
<1> HIDE DEF w
<1>4. c \in Nat /\ c * w <= OnMap(x) /\ OnMap(x) < c * w + w
  BY <1>2, <1>3, Quotient
<1> HIDE DEF c
<1>5. c * w \in Nat
  BY <1>2, <1>4
<1>6. c * w < 2 ^ k * w
  BY <1>2, <1>3, <1>4, <1>5
<1>7. c * w + w <= 2 ^ k * w
  <2>1. c < 2 ^ k
    BY <1>2, <1>4, <1>6
  <2> QED
    BY <1>2, <1>4, <2>1, ProductStep
<1> QED
  BY <1>2, <1>4, <1>5, <1>7 DEF c, w

\* A cell of one level is a half of its cell of the level above, and the bit of
\* that level says which half.
LEMMA FinerCell ==
  ASSUME NEW x \in Int, NEW k \in Nat, k < Depth
  PROVE  LET c == OnMap(x) \div 2 ^ (Depth - k)
             d == OnMap(x) \div 2 ^ (Depth - (k + 1))
         IN  c \in Nat /\ BitOf(x, k) \in {0, 1} /\ d = 2 * c + BitOf(x, k)
<1> DEFINE h == 2 ^ (Depth - (k + 1))
           w == 2 ^ (Depth - k)
           o == OnMap(x)
           c == o \div w
           p == c * w
<1>1. h \in Nat \ {0} /\ w = 2 * h
  <2>1. Depth - (k + 1) \in Nat /\ Depth - k = (Depth - (k + 1)) + 1
    BY RegionAssumption
  <2> QED
    BY <2>1, Doubling, PowerPositive
<1>2. o \in Nat /\ c \in Nat /\ p \in Nat /\ p <= o /\ o < p + w
  BY RegionAssumption, CellWithinMap, PlaceOnMap
<1>3. BitOf(x, k) = (o \div h) % 2
  <2>1. Depth - 1 - k = Depth - (k + 1)
    BY RegionAssumption
  <2> QED
    BY <2>1 DEF BitOf
<1> HIDE DEF h, w, o, c
<1>4. (2 * c) * h = p /\ (2 * c + 1) * h = p + h /\ 2 * c \in Nat /\ 2 * c + 1 \in Nat
  BY <1>1, <1>2
<1> HIDE DEF p
<1>5. CASE o < p + h
  <2>1. (2 * c) * h <= o /\ o < (2 * c) * h + h
    BY <1>2, <1>4, <1>5
  <2>2. o \div h = 2 * c
    BY <1>1, <1>2, <1>4, <2>1, OneQuotient
  <2> QED
    BY <1>2, <1>3, <2>2 DEF h, w, o, c
<1>6. CASE o >= p + h
  <2>1. (2 * c + 1) * h <= o /\ o < (2 * c + 1) * h + h
    BY <1>1, <1>2, <1>4, <1>6
  <2>2. o \div h = 2 * c + 1
    BY <1>1, <1>2, <1>4, <2>1, OneQuotient
  <2>3. (o \div h) % 2 = 1
    BY <1>2, <2>2
  <2> QED
    BY <1>2, <1>3, <2>2, <2>3 DEF h, w, o, c
<1> QED
  BY <1>1, <1>2, <1>5, <1>6

\* The range around x after k halvings.
Box(x, k) ==
  LET w == 2 ^ (Depth - k)
      c == OnMap(x) \div w
  IN <<-Half + c * w, -Half + (c + 1) * w>>

\* One halving: the comparison of the loop is the bit of the level.
LEMMA Halved ==
  ASSUME NEW x \in Int, NEW k \in Nat, k < Depth
  PROVE  /\ BitOf(x, k) \in {0, 1}
         /\ Upper(Box(x, k), x) <=> BitOf(x, k) = 1
         /\ Narrowed(Box(x, k), x) = Box(x, k + 1)
<1> DEFINE h == 2 ^ (Depth - (k + 1))
           w == 2 ^ (Depth - k)
           o == OnMap(x)
           c == o \div w
           d == o \div h
           b == BitOf(x, k)
<1>1. h \in Nat \ {0} /\ w = 2 * h
  <2>1. Depth - (k + 1) \in Nat /\ Depth - k = (Depth - (k + 1)) + 1
    BY RegionAssumption
  <2> QED
    BY <2>1, Doubling, PowerPositive
<1>2. c \in Nat /\ b \in {0, 1} /\ d = 2 * c + b
  BY FinerCell
<1>3. /\ o \in Nat /\ c * w <= o /\ o < c * w + w /\ c * w + w <= 2 ^ Depth
      /\ d * h <= o /\ o < d * h + h
  <2>1. k <= Depth /\ k + 1 <= Depth /\ k + 1 \in Nat
    BY RegionAssumption
  <2>2. c * w <= o /\ o < c * w + w /\ c * w + w <= 2 ^ Depth
    BY <2>1, CellWithinMap
  <2>3. d * h <= o /\ o < d * h + h
    BY <2>1, CellWithinMap
  <2> QED
    BY <2>2, <2>3, PlaceOnMap
<1>4. Half \in Nat \ {0} /\ 2 ^ Depth = 2 * Half
  BY MapWidth
<1>5. /\ Box(x, k) = <<-Half + c * w, -Half + (c + 1) * w>>
      /\ Box(x, k + 1) = <<-Half + d * h, -Half + (d + 1) * h>>
  BY DEF Box
<1>6. /\ x < -Half => o = 0
      /\ x >= Half => o = 2 ^ Depth - 1
      /\ -Half <= x /\ x < Half => o = x + Half
  BY PlaceOnMap
<1> DEFINE p == c * w
<1>7. p \in Nat /\ (c + 1) * w = p + 2 * h /\ w = 2 * h
  BY <1>1, <1>2
<1>8. d * h = p + b * h /\ (d + 1) * h = p + b * h + h
  <2>1. p = 2 * c * h
    BY <1>1, <1>2
  <2> QED
    BY <1>1, <1>2, <2>1
<1> HIDE DEF h, w, o, c, d, b, p
<1>9. Mid(Box(x, k)) = -Half + p + h
  BY <1>1, <1>4, <1>5, <1>7 DEF Mid, p
<1>10. Upper(Box(x, k), x) <=> o >= p + h
  BY <1>1, <1>3, <1>4, <1>6, <1>7, <1>9 DEF Upper, p
<1>11. Upper(Box(x, k), x) <=> b = 1
  <2>1. b = 0 => o < p + h
    BY <1>1, <1>3, <1>7, <1>8
  <2>2. b = 1 => o >= p + h
    BY <1>1, <1>3, <1>7, <1>8
  <2> QED
    BY <1>1, <1>2, <1>3, <1>7, <1>10, <2>1, <2>2
<1>12. Narrowed(Box(x, k), x) = Box(x, k + 1)
  <2>1. CASE b = 1
    BY <1>1, <1>4, <1>5, <1>7, <1>8, <1>9, <1>11, <2>1 DEF Narrowed
  <2>2. CASE b = 0
    BY <1>1, <1>4, <1>5, <1>7, <1>8, <1>9, <1>11, <2>2 DEF Narrowed, p
  <2> QED
    BY <1>2, <2>1, <2>2
<1> QED
  BY <1>2, <1>11, <1>12 DEF b

\* The bits j of a geohash this deep are bits.
LEMMA BitsAreBits ==
  ASSUME NEW lat \in Int, NEW lng \in Int, NEW j \in Nat, j \div 2 < Depth
  PROVE  HashBit(lat, lng, j) \in {0, 1}
<1>1. j \div 2 \in Nat
  OBVIOUS
<1> QED
  BY <1>1, Halved DEF HashBit

(***************************************************************************)
(* The loop of Geohash. AfterTurns is what its variables hold after n turns, in *)
(* closed form; it starts as the loop does and each turn takes it to the next. *)
(***************************************************************************)
\* The first k bits of character i + 1, as the high bits of a character.
Begun(lat, lng, i, k) ==
  LET b(m) == HashBit(lat, lng, CharBits * i + m) IN
  (IF k > 0 THEN 16 * b(0) ELSE 0) + (IF k > 1 THEN 8 * b(1) ELSE 0)
    + (IF k > 2 THEN 4 * b(2) ELSE 0) + (IF k > 3 THEN 2 * b(3) ELSE 0)
    + (IF k > 4 THEN b(4) ELSE 0)

AfterTurns(lat, lng, n) ==
  [lat  |-> Box(lat, n \div 2),
   lng  |-> Box(lng, (n + 1) \div 2),
   even |-> n % 2 = 0,
   bit  |-> n % CharBits,
   ch   |-> Begun(lat, lng, n \div CharBits, n % CharBits),
   out  |-> CellOf(lat, lng, n \div CharBits)]

LEMMA FirstTurn ==
  ASSUME NEW lat \in Int, NEW lng \in Int
  PROVE  AfterTurns(lat, lng, 0) = Start
<1>1. ASSUME NEW x \in Int PROVE Box(x, 0) = <<-Half, Half>>
  <2> DEFINE w == 2 ^ Depth
  <2>1. Depth - 0 = Depth /\ Depth \in Nat
    BY RegionAssumption
  <2>2. w \in Nat \ {0} /\ OnMap(x) \in Nat /\ OnMap(x) < w /\ w = 2 * Half /\ Half \in Nat
    BY <2>1, PowerPositive, PlaceOnMap, MapWidth
  <2>3. Box(x, 0) = <<-Half + (OnMap(x) \div w) * w, -Half + (OnMap(x) \div w + 1) * w>>
    BY <2>1 DEF Box
  <2> HIDE DEF w
  <2>4. OnMap(x) \div w = 0
    BY <2>2, OneQuotient
  <2> QED
    BY <2>2, <2>3, <2>4
<1>2. CellOf(lat, lng, 0) = << >>
  BY DEF CellOf
<1>3. 0 \div 2 = 0 /\ (0 + 1) \div 2 = 0 /\ 0 % 2 = 0 /\ 0 % CharBits = 0 /\ 0 \div CharBits = 0
  BY DEF CharBits
<1>4. Begun(lat, lng, 0, 0) = 0
  BY DEF Begun
<1> QED
  BY <1>1, <1>2, <1>3, <1>4 DEF AfterTurns, Start

LEMMA FifthsOf ==
  ASSUME NEW n \in Nat
  PROVE  n \div CharBits \in Nat /\ n % CharBits \in 0 .. 4
         /\ n = CharBits * (n \div CharBits) + (n % CharBits)
  BY DEF CharBits

\* A cell is the complete characters of its bits.
LEMMA Characters ==
  ASSUME NEW lat \in Int, NEW lng \in Int, NEW p \in Nat
  PROVE  /\ CellOf(lat, lng, p) = [i \in 1 .. p |-> Begun(lat, lng, i - 1, 5)]
         /\ CellOf(lat, lng, p + 1) = Append(CellOf(lat, lng, p), Begun(lat, lng, p, 5))
<1> DEFINE C(q) == [i \in 1 .. q |-> Begun(lat, lng, i - 1, 5)]
<1>1. \A q \in Nat : CellOf(lat, lng, q) = C(q)
  <2>1. ASSUME NEW q \in Nat, NEW i \in 1 .. q
        PROVE  CellOf(lat, lng, q)[i] = Begun(lat, lng, i - 1, 5)
    BY DEF CellOf, Begun
  <2> QED
    BY <2>1 DEF CellOf
<1>2. C(p + 1) = Append(C(p), Begun(lat, lng, (p + 1) - 1, 5)) /\ (p + 1) - 1 = p
  OBVIOUS
<1> HIDE DEF C
<1>3. CellOf(lat, lng, p) = C(p) /\ CellOf(lat, lng, p + 1) = C(p + 1)
  BY <1>1
<1>4. CellOf(lat, lng, p + 1) = Append(CellOf(lat, lng, p), Begun(lat, lng, p, 5))
  BY <1>2, <1>3
<1>5. CellOf(lat, lng, p) = [i \in 1 .. p |-> Begun(lat, lng, i - 1, 5)]
  BY <1>3 DEF C
<1> QED
  BY <1>4, <1>5, Zenon

\* Setting a bit of the character, or not.
LEMMA NextOfCharacter ==
  ASSUME NEW lat \in Int, NEW lng \in Int, NEW i \in Nat, NEW k \in 0 .. 4,
         \A m \in 0 .. 4 : HashBit(lat, lng, CharBits * i + m) \in {0, 1}
  PROVE  Begun(lat, lng, i, k + 1) =
           IF HashBit(lat, lng, CharBits * i + k) = 1
           THEN Begun(lat, lng, i, k) + 2 ^ (CharBits - 1 - k) ELSE Begun(lat, lng, i, k)
<1> DEFINE b(m) == HashBit(lat, lng, CharBits * i + m)
           B(q) == Begun(lat, lng, i, q)
<1>1. /\ b(0) \in {0, 1} /\ b(1) \in {0, 1} /\ b(2) \in {0, 1} /\ b(3) \in {0, 1}
      /\ b(4) \in {0, 1}
  OBVIOUS
<1>2. /\ B(0) = 0
      /\ B(1) = 16 * b(0)
      /\ B(2) = 16 * b(0) + 8 * b(1)
      /\ B(3) = 16 * b(0) + 8 * b(1) + 4 * b(2)
      /\ B(4) = 16 * b(0) + 8 * b(1) + 4 * b(2) + 2 * b(3)
      /\ B(5) = 16 * b(0) + 8 * b(1) + 4 * b(2) + 2 * b(3) + b(4)
  BY <1>1 DEF Begun
<1>3. /\ 2 ^ (CharBits - 1 - 0) = 16 /\ 2 ^ (CharBits - 1 - 1) = 8 /\ 2 ^ (CharBits - 1 - 2) = 4
      /\ 2 ^ (CharBits - 1 - 3) = 2 /\ 2 ^ (CharBits - 1 - 4) = 1
  BY DEF CharBits
<1> HIDE DEF b, B
<1>4. B(k + 1) = IF b(k) = 1 THEN B(k) + 2 ^ (CharBits - 1 - k) ELSE B(k)
  <2>1. k = 0 \/ k = 1 \/ k = 2 \/ k = 3 \/ k = 4
    OBVIOUS
  <2> QED
    BY <1>1, <1>2, <1>3, <2>1
<1> QED
  BY <1>4 DEF b, B

\* What a turn does to the ranges, and the bit it finds.
LEMMA NextHalving ==
  ASSUME NEW lat \in Int, NEW lng \in Int, NEW n \in Nat, n \div 2 < Depth
  PROVE  LET c   == AfterTurns(lat, lng, n)
             d   == AfterTurns(lat, lng, n + 1)
             one == IF c.even THEN Upper(c.lng, lng) ELSE Upper(c.lat, lat)
         IN  /\ one <=> HashBit(lat, lng, n) = 1
             /\ d.lat = IF c.even THEN c.lat ELSE Narrowed(c.lat, lat)
             /\ d.lng = IF c.even THEN Narrowed(c.lng, lng) ELSE c.lng
             /\ d.even = ~c.even
<1> DEFINE k == n \div 2
<1>1. k \in Nat /\ k < Depth
  OBVIOUS
<1>2. CASE n % 2 = 0
  <2>1. (n + 1) \div 2 = k /\ (n + 1 + 1) \div 2 = k + 1 /\ (n + 1) % 2 # 0
    BY <1>2
  <2>2. HashBit(lat, lng, n) = BitOf(lng, k)
    BY <1>2 DEF HashBit
  <2> QED
    BY <1>1, <1>2, <2>1, <2>2, Halved DEF AfterTurns
<1>3. CASE n % 2 # 0
  <2>1. (n + 1) \div 2 = k + 1 /\ (n + 1 + 1) \div 2 = k + 1 /\ (n + 1) % 2 = 0
    BY <1>3
  <2>2. HashBit(lat, lng, n) = BitOf(lat, k)
    BY <1>3 DEF HashBit
  <2> QED
    BY <1>1, <1>3, <2>1, <2>2, Halved DEF AfterTurns
<1> QED
  BY <1>2, <1>3

\* What a turn does to the character and the output.
LEMMA NextCharacter ==
  ASSUME NEW lat \in Int, NEW lng \in Int, NEW n \in 0 .. CharBits * Precision - 1
  PROVE  LET c  == AfterTurns(lat, lng, n)
             d  == AfterTurns(lat, lng, n + 1)
             ch == IF HashBit(lat, lng, n) = 1 THEN c.ch + 2 ^ (CharBits - 1 - c.bit) ELSE c.ch
         IN  IF c.bit = CharBits - 1
             THEN d.bit = 0 /\ d.ch = 0 /\ d.out = Append(c.out, ch)
             ELSE d.bit = c.bit + 1 /\ d.ch = ch /\ d.out = c.out
<1> DEFINE i  == n \div CharBits
           k  == n % CharBits
           ch == IF HashBit(lat, lng, n) = 1
                 THEN Begun(lat, lng, i, k) + 2 ^ (CharBits - 1 - k) ELSE Begun(lat, lng, i, k)
<1>1. n \in Nat /\ n < CharBits * Precision
  BY RegionAssumption DEF CharBits
<1>2. i \in Nat /\ k \in 0 .. 4 /\ n = CharBits * i + k
  BY <1>1, FifthsOf
<1>3. Begun(lat, lng, i, k + 1) = ch
  <2>1. ASSUME NEW m \in 0 .. 4 PROVE HashBit(lat, lng, CharBits * i + m) \in {0, 1}
    <3>1. CharBits * i + m \in Nat /\ (CharBits * i + m) \div 2 < Depth
      BY <1>1, RegionAssumption DEF CharBits
    <3> QED
      BY <3>1, BitsAreBits
  <2> HIDE DEF i, k
  <2> QED
    BY <1>2, <2>1, NextOfCharacter
<1>4. /\ AfterTurns(lat, lng, n).bit = k
      /\ AfterTurns(lat, lng, n).ch = Begun(lat, lng, i, k)
      /\ AfterTurns(lat, lng, n).out = CellOf(lat, lng, i)
  BY DEF AfterTurns
<1>5. CASE k # 4
  <2>1. (n + 1) \div CharBits = i /\ (n + 1) % CharBits = k + 1
    BY <1>1, <1>5 DEF CharBits
  <2>2. /\ AfterTurns(lat, lng, n + 1).bit = k + 1
        /\ AfterTurns(lat, lng, n + 1).ch = ch
        /\ AfterTurns(lat, lng, n + 1).out = CellOf(lat, lng, i)
    BY <1>3, <2>1 DEF AfterTurns
  <2> QED
    BY <1>4, <1>5, <2>2 DEF CharBits
<1>6. CASE k = 4
  <2>1. (n + 1) \div CharBits = i + 1 /\ (n + 1) % CharBits = 0
    BY <1>1, <1>6 DEF CharBits
  <2>2. Begun(lat, lng, i + 1, 0) = 0
    BY DEF Begun
  <2>3. CellOf(lat, lng, i + 1) = Append(CellOf(lat, lng, i), Begun(lat, lng, i, 5))
    BY <1>2, Characters
  <2>4. Begun(lat, lng, i, 5) = ch
    BY <1>3, <1>6
  <2>5. /\ AfterTurns(lat, lng, n + 1).bit = 0
        /\ AfterTurns(lat, lng, n + 1).ch = 0
        /\ AfterTurns(lat, lng, n + 1).out = Append(CellOf(lat, lng, i), ch)
    BY <2>1, <2>2, <2>3, <2>4 DEF AfterTurns
  <2> QED
    BY <1>4, <1>6, <2>5 DEF CharBits
<1> QED
  BY <1>5, <1>6

LEMMA NextTurn ==
  ASSUME NEW lat \in Int, NEW lng \in Int, NEW n \in 0 .. CharBits * Precision - 1
  PROVE  Turn(AfterTurns(lat, lng, n), lat, lng) = AfterTurns(lat, lng, n + 1)
<1> DEFINE c == AfterTurns(lat, lng, n)
           d == AfterTurns(lat, lng, n + 1)
           ch == IF HashBit(lat, lng, n) = 1 THEN c.ch + 2 ^ (CharBits - 1 - c.bit) ELSE c.ch
<1>1. n \in Nat /\ n \div 2 < Depth
  BY RegionAssumption DEF CharBits
<1>2. /\ (IF c.even THEN Upper(c.lng, lng) ELSE Upper(c.lat, lat)) <=> HashBit(lat, lng, n) = 1
      /\ d.lat = IF c.even THEN c.lat ELSE Narrowed(c.lat, lat)
      /\ d.lng = IF c.even THEN Narrowed(c.lng, lng) ELSE c.lng
      /\ d.even = ~c.even
  BY <1>1, NextHalving
<1>3. IF c.bit = CharBits - 1
      THEN d.bit = 0 /\ d.ch = 0 /\ d.out = Append(c.out, ch)
      ELSE d.bit = c.bit + 1 /\ d.ch = ch /\ d.out = c.out
  BY NextCharacter
<1>4. d = [lat |-> d.lat, lng |-> d.lng, even |-> d.even, bit |-> d.bit,
           ch |-> d.ch, out |-> d.out]
  BY DEF AfterTurns
<1>5. Turn(c, lat, lng) =
        [lat  |-> IF c.even THEN c.lat ELSE Narrowed(c.lat, lat),
         lng  |-> IF c.even THEN Narrowed(c.lng, lng) ELSE c.lng,
         even |-> ~c.even,
         bit  |-> IF c.bit = CharBits - 1 THEN 0 ELSE c.bit + 1,
         ch   |-> IF c.bit = CharBits - 1 THEN 0 ELSE ch,
         out  |-> IF c.bit = CharBits - 1 THEN Append(c.out, ch) ELSE c.out]
  BY <1>2 DEF Turn
<1> HIDE DEF c, d, ch
<1>6. Turn(c, lat, lng) = d
  BY <1>2, <1>3, <1>4, <1>5
<1> QED
  BY <1>6 DEF c, d

\* The loop computes the cell. That there is a function that satisfies the
\* recursive equation is shown by giving one, and that it is the only one by
\* induction on the turns.
LEMMA GeohashIsCell ==
  ASSUME NEW lat \in Int, NEW lng \in Int, NEW precision \in 0 .. Precision
  PROVE  Geohash(lat, lng, precision) = CellOf(lat, lng, precision)
<1> DEFINE N == CharBits * precision
           after[n \in 0 .. N] == IF n = 0 THEN Start ELSE Turn(after[n - 1], lat, lng)
           closed == [n \in 0 .. N |-> AfterTurns(lat, lng, n)]
<1>1. N \in Nat /\ \A n \in 0 .. N : n < N => n \in 0 .. CharBits * Precision - 1
  BY RegionAssumption DEF CharBits
<1>2. closed = [n \in 0 .. N |-> IF n = 0 THEN Start ELSE Turn(closed[n - 1], lat, lng)]
  <2>1. ASSUME NEW n \in 0 .. N, n # 0
        PROVE  AfterTurns(lat, lng, n) = Turn(AfterTurns(lat, lng, n - 1), lat, lng)
    <3>1. n - 1 \in 0 .. N /\ (n - 1) + 1 = n /\ n - 1 \in 0 .. CharBits * Precision - 1
      BY <1>1, <2>1
    <3>2. Turn(AfterTurns(lat, lng, n - 1), lat, lng) = AfterTurns(lat, lng, (n - 1) + 1)
      BY <3>1, NextTurn
    <3> QED
      BY <3>1, <3>2
  <2>2. ASSUME NEW n \in 0 .. N
        PROVE  closed[n] = IF n = 0 THEN Start ELSE Turn(closed[n - 1], lat, lng)
    <3>1. n # 0 => n - 1 \in 0 .. N
      BY <1>1
    <3> QED
      BY <2>1, <3>1, FirstTurn
  <2> QED
    BY <2>2
<1>3. after = [n \in 0 .. N |-> IF n = 0 THEN Start ELSE Turn(after[n - 1], lat, lng)]
  <2> HIDE DEF closed
  <2> QED
    BY <1>2
<1> HIDE DEF after
<1>4. ASSUME NEW n \in 0 .. N PROVE after[n] = AfterTurns(lat, lng, n)
  <2> DEFINE S == { k \in Nat : k \in 0 .. N => after[k] = AfterTurns(lat, lng, k) }
  <2>1. 0 \in S
    BY <1>1, <1>3, FirstTurn
  <2>2. ASSUME NEW k \in Nat, k \in S PROVE k + 1 \in S
    <3>1. SUFFICES ASSUME k + 1 \in 0 .. N PROVE after[k + 1] = AfterTurns(lat, lng, k + 1)
      OBVIOUS
    <3>2. k \in 0 .. N /\ k \in 0 .. CharBits * Precision - 1 /\ k + 1 # 0 /\ (k + 1) - 1 = k
      BY <1>1, <3>1
    <3>3. after[k + 1] = Turn(after[k], lat, lng)
      BY <1>3, <3>1, <3>2
    <3>4. after[k] = AfterTurns(lat, lng, k)
      BY <2>2, <3>2
    <3> QED
      BY <3>2, <3>3, <3>4, NextTurn
  <2> HIDE DEF S
  <2>3. n \in S
    BY <1>1, <2>1, <2>2, CountingUp
  <2> QED
    BY <2>3 DEF S
<1>5. Geohash(lat, lng, precision) = after[N].out
  BY DEF Geohash, after
<1>6. after[N] = AfterTurns(lat, lng, N)
  BY <1>1, <1>4
<1>7. N \div CharBits = precision
  BY RegionAssumption DEF CharBits
<1> QED
  BY <1>5, <1>6, <1>7 DEF AfterTurns

(***************************************************************************)
(* What a key says of a point, now that it is known without the loop.      *)
(***************************************************************************)
\* Every bit of a key is a bit.
LEMMA KeyBits ==
  ASSUME NEW lat \in Int, NEW lng \in Int, NEW j \in 0 .. CharBits * Precision - 1
  PROVE  HashBit(lat, lng, j) \in {0, 1}
<1>1. j \in Nat /\ j \div 2 < Depth
  BY RegionAssumption DEF CharBits
<1> QED
  BY <1>1, BitsAreBits

\* No two bit patterns make the same characters.
LEMMA SameBits ==
  ASSUME NEW lat \in Int, NEW lng \in Int, NEW u \in Int, NEW v \in Int
  PROVE  Key(lat, lng) = Key(u, v) <=>
           \A j \in 0 .. CharBits * Precision - 1 : HashBit(lat, lng, j) = HashBit(u, v, j)
<1> DEFINE N == CharBits * Precision
<1>1. Precision \in Nat /\ N \in Nat
  BY RegionAssumption DEF CharBits
<1>2. Key(lat, lng) = Key(u, v) <=>
        \A i \in 1 .. Precision : Begun(lat, lng, i - 1, 5) = Begun(u, v, i - 1, 5)
  <2>1. /\ Key(lat, lng) = [i \in 1 .. Precision |-> Begun(lat, lng, i - 1, 5)]
        /\ Key(u, v) = [i \in 1 .. Precision |-> Begun(u, v, i - 1, 5)]
    <3>1. Precision \in 0 .. Precision
      BY <1>1
    <3>2. Key(lat, lng) = CellOf(lat, lng, Precision) /\ Key(u, v) = CellOf(u, v, Precision)
      BY <3>1, GeohashIsCell DEF Key
    <3> QED
      BY <1>1, <3>2, Characters
  <2> QED
    BY <2>1
<1>3. \A i \in 1 .. Precision, m \in 0 .. 4 : CharBits * (i - 1) + m \in 0 .. N - 1
  BY <1>1 DEF CharBits
<1>4. ASSUME NEW i \in 1 .. Precision
      PROVE  Begun(lat, lng, i - 1, 5) = Begun(u, v, i - 1, 5) <=>
               \A m \in 0 .. 4 : HashBit(lat, lng, CharBits * (i - 1) + m)
                                = HashBit(u, v, CharBits * (i - 1) + m)
  <2> DEFINE a(m) == HashBit(lat, lng, CharBits * (i - 1) + m)
             b(m) == HashBit(u, v, CharBits * (i - 1) + m)
  <2>1. \A m \in 0 .. 4 : a(m) \in {0, 1} /\ b(m) \in {0, 1}
    BY <1>3, KeyBits
  <2>2. /\ Begun(lat, lng, i - 1, 5) = 16 * a(0) + 8 * a(1) + 4 * a(2) + 2 * a(3) + a(4)
        /\ Begun(u, v, i - 1, 5) = 16 * b(0) + 8 * b(1) + 4 * b(2) + 2 * b(3) + b(4)
    BY DEF Begun
  <2> HIDE DEF a, b
  <2>3. Begun(lat, lng, i - 1, 5) = Begun(u, v, i - 1, 5) <=>
          a(0) = b(0) /\ a(1) = b(1) /\ a(2) = b(2) /\ a(3) = b(3) /\ a(4) = b(4)
    <3>1. 0 \in 0 .. 4 /\ 1 \in 0 .. 4 /\ 2 \in 0 .. 4 /\ 3 \in 0 .. 4 /\ 4 \in 0 .. 4
      OBVIOUS
    <3> QED
      BY <2>1, <2>2, <3>1
  <2>4. \A m \in 0 .. 4 : m = 0 \/ m = 1 \/ m = 2 \/ m = 3 \/ m = 4
    OBVIOUS
  <2> QED
    BY <2>3, <2>4 DEF a, b
<1>5. ASSUME NEW j \in 0 .. N - 1
      PROVE  \E i \in 1 .. Precision, m \in 0 .. 4 : j = CharBits * (i - 1) + m
  <2> DEFINE i == j \div CharBits + 1
             m == j % CharBits
  <2>1. j \in Nat /\ j < N
    BY <1>1
  <2>2. i - 1 \in Nat /\ m \in 0 .. 4 /\ j = CharBits * (i - 1) + m
    BY <2>1, FifthsOf
  <2> HIDE DEF i, m
  <2>3. i \in 1 .. Precision
    BY <1>1, <2>1, <2>2 DEF CharBits, i
  <2> QED
    BY <2>2, <2>3
<1> QED
  BY <1>2, <1>3, <1>4, <1>5

\* The same column, or row, of the grid of level k.
SameCell(x, y, k) == OnMap(x) \div 2 ^ (Depth - k) = OnMap(y) \div 2 ^ (Depth - k)

LEMMA BitsFixCell ==
  ASSUME NEW x \in Int, NEW y \in Int
  PROVE  \A k \in 0 .. Depth :
           SameCell(x, y, k) <=> \A m \in 0 .. k - 1 : BitOf(x, m) = BitOf(y, m)
<1> DEFINE Claim(k) == SameCell(x, y, k) <=> \A m \in 0 .. k - 1 : BitOf(x, m) = BitOf(y, m)
           S == { k \in Nat : k \in 0 .. Depth => Claim(k) }
<1>1. 0 \in S
  <2>1. Depth - 0 = Depth /\ Depth \in Nat
    BY RegionAssumption
  <2>2. ASSUME NEW z \in Int PROVE OnMap(z) \div 2 ^ Depth = 0
    <3> DEFINE w == 2 ^ Depth
    <3>1. w \in Nat \ {0} /\ OnMap(z) \in Nat /\ OnMap(z) < w
      BY <2>1, PowerPositive, PlaceOnMap
    <3> HIDE DEF w
    <3>2. OnMap(z) \div w = 0
      BY <3>1, OneQuotient
    <3> QED
      BY <3>2 DEF w
  <2>3. SameCell(x, y, 0)
    BY <2>1, <2>2 DEF SameCell
  <2> QED
    BY <2>3
<1>2. ASSUME NEW k \in Nat, k \in S PROVE k + 1 \in S
  <2>1. SUFFICES ASSUME k + 1 \in 0 .. Depth PROVE Claim(k + 1)
    OBVIOUS
  <2>2. k \in 0 .. Depth /\ k < Depth
    BY <2>1, RegionAssumption
  <2>3. SameCell(x, y, k + 1) <=> SameCell(x, y, k) /\ BitOf(x, k) = BitOf(y, k)
    <3> DEFINE cx == OnMap(x) \div 2 ^ (Depth - k)
               cy == OnMap(y) \div 2 ^ (Depth - k)
               dx == OnMap(x) \div 2 ^ (Depth - (k + 1))
               dy == OnMap(y) \div 2 ^ (Depth - (k + 1))
    <3>1. /\ cx \in Nat /\ cy \in Nat /\ dx = 2 * cx + BitOf(x, k) /\ dy = 2 * cy + BitOf(y, k)
          /\ BitOf(x, k) \in {0, 1} /\ BitOf(y, k) \in {0, 1}
      BY <2>2, FinerCell
    <3> HIDE DEF cx, cy, dx, dy
    <3>2. dx = dy <=> cx = cy /\ BitOf(x, k) = BitOf(y, k)
      BY <3>1
    <3> QED
      BY <3>2 DEF SameCell, cx, cy, dx, dy
  <2>4. Claim(k)
    BY <1>2, <2>2
  <2>5. 0 .. (k + 1) - 1 = (0 .. k - 1) \cup {k}
    OBVIOUS
  <2> QED
    BY <2>3, <2>4, <2>5
<1> HIDE DEF S
<1>3. Nat \subseteq S
  BY <1>1, <1>2, CountingUp
<1>4. \A k \in 0 .. Depth : k \in S
  BY <1>3
<1> QED
  BY <1>4 DEF S

\* How many of the bits of a key are of each coordinate.
LatBits == (CharBits * Precision) \div 2
LngBits == (CharBits * Precision + 1) \div 2

LEMMA SameKey ==
  ASSUME NEW lat \in Int, NEW lng \in Int, NEW u \in Int, NEW v \in Int
  PROVE  Key(lat, lng) = Key(u, v) <=> SameCell(lat, u, LatBits) /\ SameCell(lng, v, LngBits)
<1> DEFINE N == CharBits * Precision
           Same(j) == HashBit(lat, lng, j) = HashBit(u, v, j)
<1>1. LatBits \in 0 .. Depth /\ LngBits \in 0 .. Depth
  BY RegionAssumption DEF LatBits, LngBits, CharBits
<1>2. Key(lat, lng) = Key(u, v) <=> \A j \in 0 .. N - 1 : Same(j)
  BY SameBits
<1>3. SameCell(lat, u, LatBits) <=> \A m \in 0 .. LatBits - 1 : BitOf(lat, m) = BitOf(u, m)
  BY <1>1, BitsFixCell
<1>4. SameCell(lng, v, LngBits) <=> \A m \in 0 .. LngBits - 1 : BitOf(lng, m) = BitOf(v, m)
  BY <1>1, BitsFixCell
<1>5. ASSUME NEW m \in 0 .. LatBits - 1
      PROVE  2 * m + 1 \in 0 .. N - 1 /\ (Same(2 * m + 1) <=> BitOf(lat, m) = BitOf(u, m))
  <2>1. 2 * m + 1 \in 0 .. N - 1 /\ (2 * m + 1) % 2 = 1 /\ (2 * m + 1) \div 2 = m
    BY RegionAssumption DEF LatBits, CharBits
  <2> QED
    BY <2>1 DEF HashBit
<1>6. ASSUME NEW m \in 0 .. LngBits - 1
      PROVE  2 * m \in 0 .. N - 1 /\ (Same(2 * m) <=> BitOf(lng, m) = BitOf(v, m))
  <2>1. 2 * m \in 0 .. N - 1 /\ (2 * m) % 2 = 0 /\ (2 * m) \div 2 = m
    BY RegionAssumption DEF LngBits, CharBits
  <2> QED
    BY <2>1 DEF HashBit
<1>7. ASSUME NEW j \in 0 .. N - 1
      PROVE  (\E m \in 0 .. LatBits - 1 : j = 2 * m + 1) \/ (\E m \in 0 .. LngBits - 1 : j = 2 * m)
  <2> DEFINE m == j \div 2
  <2>1. \/ j = 2 * m + 1 /\ m \in 0 .. LatBits - 1
        \/ j = 2 * m /\ m \in 0 .. LngBits - 1
    BY RegionAssumption DEF LatBits, LngBits, CharBits
  <2> HIDE DEF m
  <2> QED
    BY <2>1
<1> HIDE DEF N, Same
<1> QED
  BY <1>2, <1>3, <1>4, <1>5, <1>6, <1>7

Inside(x, range) == range[1] <= x /\ x < range[2]

LEMMA InsideIsSameCell ==
  ASSUME NEW x \in Int, NEW y \in Int, -Half <= y, y < Half, NEW k \in 0 .. Depth
  PROVE  Inside(y, Box(x, k)) <=> SameCell(x, y, k)
<1> DEFINE w == 2 ^ (Depth - k)
           c == OnMap(x) \div w
           d == OnMap(y) \div w
<1>1. /\ w \in Nat \ {0} /\ c \in Nat /\ d \in Nat /\ c * w \in Nat /\ d * w \in Nat
      /\ d * w <= OnMap(y) /\ OnMap(y) < d * w + w
  BY RegionAssumption, CellWithinMap
<1>2. OnMap(y) = y + Half /\ Half \in Nat /\ OnMap(y) \in Nat
  BY MapWidth, PlaceOnMap
<1>3. Box(x, k) = <<-Half + c * w, -Half + (c + 1) * w>>
  BY DEF Box
<1> HIDE DEF w, c, d
<1>4. (c + 1) * w = c * w + w
  BY <1>1
<1>5. Inside(y, Box(x, k)) <=> c * w <= OnMap(y) /\ OnMap(y) < c * w + w
  BY <1>1, <1>2, <1>3, <1>4 DEF Inside
<1>6. c * w <= OnMap(y) /\ OnMap(y) < c * w + w => c = d
  BY <1>1, <1>2, OneQuotient DEF d
<1>7. SameCell(x, y, k) <=> c = d
  BY DEF SameCell, c, d, w
<1> QED
  BY <1>1, <1>5, <1>6, <1>7

\* Shards tile the map: those who share a shard with a point are those in one
\* box around it, so that a ping, a request and a price about the same place
\* meet under one key, and no two places far apart do (region.go:1-5).
THEOREM ShardsAreTiles ==
  ASSUME NEW lat \in Int, NEW lng \in Int, NEW u \in -Half .. Half - 1, NEW v \in -Half .. Half - 1
  PROVE  Key(u, v) = Key(lat, lng) <=> Inside(u, Box(lat, LatBits)) /\ Inside(v, Box(lng, LngBits))
<1>1. LatBits \in 0 .. Depth /\ LngBits \in 0 .. Depth
  BY RegionAssumption DEF LatBits, LngBits, CharBits
<1>2. u \in Int /\ -Half <= u /\ u < Half /\ v \in Int /\ -Half <= v /\ v < Half
  BY MapWidth
<1> QED
  BY <1>1, <1>2, SameKey, InsideIsSameCell

\* The coarse key a search adds is the cell around its shard (region.go:27-31),
\* and for that very reason no shard: whoever reports, nothing is ever filed
\* under it (geo.go:32, geo.go:69).
THEOREM CoarseIsParent ==
  ASSUME NEW lat \in Int, NEW lng \in Int, NEW u \in Int, NEW v \in Int
  PROVE  /\ Neighbors(lat, lng)[2] = SubSeq(Neighbors(lat, lng)[1], 1, Precision - 1)
         /\ Neighbors(lat, lng)[2] # Key(u, v)
<1>1. Precision - 1 \in Nat /\ Precision \in Nat \ {0}
  BY RegionAssumption
<1>2. Neighbors(lat, lng) = <<CellOf(lat, lng, Precision), CellOf(lat, lng, Precision - 1)>>
  BY <1>1, GeohashIsCell DEF Neighbors, Key
<1>3. CellOf(lat, lng, Precision - 1) = SubSeq(CellOf(lat, lng, Precision), 1, Precision - 1)
  <2> DEFINE C(p) == [i \in 1 .. p |-> Begun(lat, lng, i - 1, 5)]
  <2>1. /\ CellOf(lat, lng, Precision) = C(Precision)
        /\ CellOf(lat, lng, Precision - 1) = C(Precision - 1)
    BY <1>1, Characters
  <2>2. C(Precision - 1) = SubSeq(C(Precision), 1, Precision - 1)
    <3> DEFINE T == { Begun(lat, lng, i - 1, 5) : i \in 1 .. Precision }
               long == C(Precision)
               short == SubSeq(long, 1, Precision - 1)
    <3>1. \A i \in 1 .. Precision : Begun(lat, lng, i - 1, 5) \in T
      OBVIOUS
    <3> HIDE DEF T
    <3>2. long \in Seq(T) /\ Len(long) = Precision
      BY <1>1, <3>1
    <3> HIDE DEF long
    <3>3. /\ short \in Seq(T) /\ Len(short) = Precision - 1
          /\ \A i \in 1 .. Precision - 1 : short[i] = long[i]
      BY <1>1, <3>2
    <3> HIDE DEF short
    <3>4. ASSUME NEW i \in 1 .. Precision - 1 PROVE short[i] = C(Precision - 1)[i]
      <4>1. i \in 1 .. Precision
        BY <1>1
      <4>2. long[i] = Begun(lat, lng, i - 1, 5)
        BY <4>1 DEF long
      <4> QED
        BY <3>3, <4>2
    <3>5. short \in [1 .. Precision - 1 -> T]
      BY <3>3
    <3>6. short = C(Precision - 1)
      BY <3>4, <3>5
    <3> QED
      BY <3>6 DEF short, long
  <2> QED
    BY <2>1, <2>2
<1>4. Key(u, v) = CellOf(u, v, Precision)
  BY <1>1, GeohashIsCell DEF Key
<1>5. CellOf(lat, lng, Precision - 1) # CellOf(u, v, Precision)
  <2>1. /\ DOMAIN CellOf(lat, lng, Precision - 1) = 1 .. Precision - 1
        /\ DOMAIN CellOf(u, v, Precision) = 1 .. Precision
    BY DEF CellOf
  <2>2. Precision \in 1 .. Precision /\ Precision \notin 1 .. Precision - 1
    BY <1>1
  <2> QED
    BY <2>1, <2>2
<1> QED
  BY <1>2, <1>3, <1>4, <1>5

(***************************************************************************)
(* The key of a ping.                                                      *)
(***************************************************************************)
MessageOf(p) == [at |-> p, key |-> Shard[p]]

KeyInv ==
  /\ handler \in [Handlers -> {"idle", "shed", "reading", "writing"}]
  /\ message \in [Handlers -> {NoMessage} \cup { MessageOf(p) : p \in Points }]
  /\ \A h \in Handlers : handler[h] = "writing" => \E p \in Points : message[h] = MessageOf(p)

\* A handler that does not start to write.
LEMMA KeyKept ==
  ASSUME KeyInv, NEW h \in Handlers, NEW from,
         NEW to \in {"idle", "shed", "reading"}, Moves(h, from, to),
         message' = message \/ Keeps(h, NoMessage)
  PROVE  KeyInv'
<1>1. handler' \in [Handlers -> {"idle", "shed", "reading", "writing"}]
  BY DEF KeyInv, Moves
<1>2. message' \in [Handlers -> {NoMessage} \cup { MessageOf(p) : p \in Points }]
  BY DEF KeyInv, Keeps
<1>3. ASSUME NEW g \in Handlers, handler'[g] = "writing"
      PROVE  handler[g] = "writing" /\ message'[g] = message[g]
  BY <1>3 DEF KeyInv, Moves, Keeps
<1> QED
  BY <1>1, <1>2, <1>3 DEF KeyInv, MessageOf

LEMMA KeyWritten ==
  ASSUME KeyInv, NEW h \in Handlers, Decoded(h)
  PROVE  KeyInv'
<1>1. PICK q \in Points : message' = [message EXCEPT ![h] = MessageOf(q)]
  BY DEF Decoded, Keeps, MessageOf
<1>2. handler' = [handler EXCEPT ![h] = "writing"]
  BY DEF Decoded, Moves
<1>3. \A g \in Handlers : message'[g] = IF g = h THEN MessageOf(q) ELSE message[g]
  BY <1>1 DEF KeyInv
<1>4. message' \in [Handlers -> {NoMessage} \cup { MessageOf(p) : p \in Points }]
  BY <1>1 DEF KeyInv
<1>5. \A g \in Handlers : handler'[g] = "writing" => g = h \/ handler[g] = "writing"
  BY <1>2 DEF KeyInv
<1> QED
  BY <1>2, <1>3, <1>4, <1>5 DEF KeyInv, MessageOf

LEMMA KeyStep == KeyInv /\ [Next]_vars => KeyInv'
<1> SUFFICES ASSUME KeyInv, [Next]_vars PROVE KeyInv'
  OBVIOUS
<1>1. ASSUME NEW h \in Handlers, HandleLocation(h) PROVE KeyInv'
  <2>1. CASE Acquire(h)
    BY <2>1, KeyKept DEF Acquire
  <2>2. CASE Answered(h)
    BY <2>2, KeyKept DEF Answered
  <2>3. CASE Decoded(h)
    BY <2>3, KeyWritten
  <2>4. CASE BadBody(h)
    BY <2>4, KeyKept DEF BadBody
  <2>5. CASE Written(h)
    BY <2>5, KeyKept DEF Written
  <2> QED
    BY <1>1, <2>1, <2>2, <2>3, <2>4, <2>5 DEF HandleLocation
<1>2. CASE UNCHANGED ingestVars
  BY <1>2 DEF KeyInv, MessageOf, ingestVars
<1>3. CASE IngestRestart
  BY <1>3 DEF IngestRestart, KeyInv
<1> QED
  BY <1>1, <1>2, <1>3 DEF Next, HandleOne, SurgeOne, Restart, vars

LEMMA ShardIsCell ==
  ASSUME NEW p \in Points
  PROVE  Shard[p] = Cell[p] /\ Coarse[p] = Around[p]
<1>1. p[1] \in Int /\ p[2] \in Int
  BY IngestAssumption
<1>2. Precision \in 0 .. Precision /\ Precision - 1 \in 0 .. Precision
  BY RegionAssumption
<1> QED
  BY <1>1, <1>2, GeohashIsCell DEF Shard, Cell, Coarse, Around, Neighbors, Key

\* Whatever a phone sends, on the map or beyond it, its ping is written under
\* the cell it is in, and the coarse cell of a search there is the one around
\* it: the loop of Geohash (region.go:42-80) for every point and every depth.
THEOREM KeysAreCells == Spec => []KeyIsCell
<1>1. Init => KeyInv
  BY DEF Init, IngestInit, KeyInv
<1>2. KeyInv => KeyIsCell
  <2> SUFFICES ASSUME KeyInv, NEW h \in Handlers, handler[h] = "writing"
               PROVE  LET p == message[h].at
                      IN  message[h].key = Cell[p] /\ Coarse[p] = Around[p]
    BY DEF KeyIsCell
  <2>1. PICK p \in Points : message[h] = MessageOf(p)
    BY DEF KeyInv
  <2>2. message[h].at = p /\ message[h].key = Shard[p]
    BY <2>1 DEF MessageOf
  <2> QED
    BY <2>2, ShardIsCell
<1> QED
  BY <1>1, <1>2, KeyStep, PTL DEF Spec

(***************************************************************************)
(* Searches near the line between two shards: what the index and a search  *)
(* of Boundary are worth, over the constants of the map alone.             *)
(***************************************************************************)
CONSTANTS Lats, Lngs, Radius
VARIABLES geo, rider, found

Near == INSTANCE Boundary

LEMMA NearKeys ==
  ASSUME NEW lat, NEW lng
  PROVE  Near!Key(lat, lng) = Key(lat, lng) /\ Near!Neighbors(lat, lng) = Neighbors(lat, lng)
BY DEF Near!Key, Key, Near!Neighbors, Neighbors, Near!Geohash, Geohash, Near!Turn, Turn,
       Near!Start, Start, Near!Half, Half, Near!CharBits, CharBits, Near!Upper, Upper,
       Near!Narrowed, Narrowed, Near!Mid, Mid

\* Every entry is filed under the key of its position, and no other.
Filed == \A m \in geo : m.lat \in Lats /\ m.lng \in Lngs /\ m.key = Key(m.lat, m.lng)

LEMMA FiledStep ==
  ASSUME Filed, Near!Next \/ UNCHANGED <<geo, rider, found>>
  PROVE  Filed'
<1>1. CASE UNCHANGED geo
  BY <1>1 DEF Filed
<1>2. ASSUME NEW lat \in Lats, NEW lng \in Lngs, Near!Upsert(lat, lng) PROVE Filed'
  BY <1>2, NearKeys DEF Near!Upsert, Filed
<1> QED
  BY <1>1, <1>2 DEF Near!Next, Near!Nearest

\* The entries within the radius that share the shard of the search.
WithinShard(lat, lng) ==
  { m \in geo : Near!Within(m, lat, lng) /\ Key(m.lat, m.lng) = Key(lat, lng) }

\* A search reads two keys and finds what one of them has: exactly the drivers
\* within the radius that are in the shard of the search. A driver just over the
\* boundary is missed, though geo.go:64-66 says such a driver "is still found".
THEOREM SearchIsOfOneShard ==
  ASSUME Lats \subseteq Int, Lngs \subseteq Int
  PROVE  Near!Spec =>
           [][\A lat \in Lats, lng \in Lngs :
                Near!Nearest(lat, lng) =>
                  found' = WithinShard(lat, lng)]_<<geo, rider, found>>
<1> DEFINE OneShard ==
             \A lat \in Lats, lng \in Lngs :
               Near!Nearest(lat, lng) => found' = WithinShard(lat, lng)
<1>1. Near!Init => Filed
  BY DEF Near!Init, Filed
<1>2. Filed /\ [Near!Next]_<<geo, rider, found>> => Filed'
  BY FiledStep
<1>3. Filed => OneShard
  <2> SUFFICES ASSUME Filed, NEW lat \in Lats, NEW lng \in Lngs, Near!Nearest(lat, lng)
               PROVE  found' = WithinShard(lat, lng)
    OBVIOUS
  <2>1. \A k : k \in Range(Neighbors(lat, lng)) <=> k = Key(lat, lng) \/ k = Neighbors(lat, lng)[2]
    BY DEF Range, Neighbors
  <2>2. \A m \in geo : m.key \in Range(Neighbors(lat, lng)) <=> Key(m.lat, m.lng) = Key(lat, lng)
    <3>1. ASSUME NEW m \in geo PROVE m.key = Key(m.lat, m.lng) /\ m.key # Neighbors(lat, lng)[2]
      <4>1. /\ m.lat \in Int /\ m.lng \in Int /\ lat \in Int /\ lng \in Int
            /\ m.key = Key(m.lat, m.lng)
        BY DEF Filed
      <4> QED
        BY <4>1, CoarseIsParent
    <3> QED
      BY <2>1, <3>1
  <2>3. found' = { m \in geo : m.key \in Range(Neighbors(lat, lng)) /\ Near!Within(m, lat, lng) }
    <3>1. Near!Range(Near!Neighbors(lat, lng)) = Range(Neighbors(lat, lng))
      BY NearKeys DEF Near!Range, Range
    <3> QED
      BY <3>1 DEF Near!Nearest
  <2> DEFINE In(m) == Near!Within(m, lat, lng)
             Searched(m) == m.key \in Range(Neighbors(lat, lng))
             InShard(m) == Key(m.lat, m.lng) = Key(lat, lng)
  <2>4. \A m \in geo : Searched(m) <=> InShard(m)
    BY <2>2
  <2>5. found' = { m \in geo : Searched(m) /\ In(m) }
    BY <2>3
  <2> HIDE DEF In, Searched, InShard
  <2>6. found' = { m \in geo : In(m) /\ InShard(m) }
    BY <2>4, <2>5
  <2> QED
    BY <2>6 DEF In, InShard, WithinShard
<1> QED
  BY <1>1, <1>2, <1>3, PTL DEF Near!Spec, Near!vars
================================================================================
