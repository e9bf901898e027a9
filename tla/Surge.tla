---------------------------------- MODULE Surge ----------------------------------
(***************************************************************************)
(* internal/surge and geo.Supply for one region (regions share nothing):   *)
(* the demand counter in Redis with a TTL that every ride request applies  *)
(* again, the drivers in the geo set, and the price, computed from two     *)
(* round trips. A multiplier is a fraction <<n, k>>.                       *)
(***************************************************************************)
EXTENDS Integers, Sequences, FiniteSets

CONSTANTS
  Drivers,
  Quotes,      \* concurrent calls of Multiplier (rides, and GET /v1/surge)
  MaxRecent,   \* bound on the requests of one window
  MaxDemand,   \* the counter's values from here on are one: that many or more
  MaxFaults

ASSUME SurgeAssumption ==
  /\ IsFiniteSet(Drivers)
  /\ MaxRecent \in Nat
  /\ MaxDemand \in Nat /\ MaxRecent <= MaxDemand
  /\ MaxFaults \in Nat

minSurge == 1
maxSurge == 3

VARIABLES
  demand,    \* the value of demand:<region>; 0: no such key
  recent,    \* the requests of the last demandWindow, oldest first: TRUE if
             \* EXPIRE ran for it, so the key has a TTL iff some entry is TRUE
  since,     \* history: requests since the region was last quiet for a window
  exact,     \* history: no call failed since then and the key was gone
  members,   \* the members of geo:drivers:<region>
  fresh,     \* the drivers whose hash driver:<id> has not expired
  quote,     \* quote[q]: the locals of a Multiplier in progress
  faults

counter   == <<demand, recent, since, exact>>
index     == <<members, fresh>>
surgeVars == <<counter, index, quote, faults>>

\* factor(): the ratio of demand to supply, at least minSurge, at most maxSurge.
Uncapped(d, s) ==                                            \* mutant of factor
  IF s <= 0 THEN IF d <= 0 THEN <<minSurge, 1>> ELSE <<maxSurge, 1>>
  ELSE IF d <= s THEN <<minSurge, 1>> ELSE <<d, s>>

factor(d, s) ==
  IF s <= 0 THEN IF d <= 0 THEN <<minSurge, 1>> ELSE <<maxSurge, 1>>
  ELSE IF d <= s THEN <<minSurge, 1>>
  ELSE IF d > maxSurge * s THEN <<maxSurge, 1>> ELSE <<d, s>>

\* at: the round trip to come. price: the answer, once it is there.
Quote == [at : {"GET", "ZCARD", "priced"}, demand : Nat, price : Nat \X Nat]
NoQuote == [at |-> "GET", demand |-> 0, price |-> <<0, 0>>]

SurgeTypeOK ==
  /\ demand \in Nat
  /\ recent \in Seq(BOOLEAN)
  /\ since \in Nat
  /\ exact \in BOOLEAN
  /\ members \subseteq Drivers
  /\ fresh \subseteq Drivers
  /\ quote \in [Quotes -> Quote]
  /\ faults \in 0 .. MaxFaults

SurgeInit ==
  /\ demand = 0
  /\ recent = <<>>
  /\ since = 0
  /\ exact = TRUE
  /\ members = {}
  /\ fresh = {}
  /\ quote = [q \in Quotes |-> NoQuote]
  /\ faults = 0

Fault == faults < MaxFaults /\ faults' = faults + 1

HasTTL(window) == \E i \in DOMAIN window : window[i]
--------------------------------------------------------------------------------
(* RecordDemand: INCR and EXPIRE in one pipeline, which is no transaction.  *)

\* An EXPIRE that is answered sets the TTL, whether the key had one or not.
FirstOnly(ran) == Append(recent, ran /\ demand = 0)          \* mutant of Renew
Renew(ran) == Append(recent, ran)

Plus(n, k) == IF n + k > MaxDemand THEN MaxDemand ELSE n + k

RecordDemand ==
  /\ Len(recent) < MaxRecent
  /\ since' = Plus(since, 1)
  /\ \/ demand' = Plus(demand, 1) /\ recent' = Renew(TRUE) /\ UNCHANGED <<exact, faults>>
     \/ /\ Fault
        /\ exact' = FALSE
        /\ \/ UNCHANGED demand /\ recent' = Renew(FALSE)           \* Redis is away
           \/ demand' = Plus(demand, 1) /\ recent' = Renew(FALSE)  \* cut after INCR
           \/ demand' = Plus(demand, 2) /\ recent' = Renew(TRUE)   \* go-redis repeats
  /\ UNCHANGED <<index, quote>>

\* demandWindow has passed since the oldest request: if its EXPIRE was the last
\* one to run the key is gone.
Lapse ==
  /\ recent # <<>>
  /\ recent' = Tail(recent)
  /\ demand' = IF HasTTL(recent) /\ ~HasTTL(Tail(recent)) THEN 0 ELSE demand
  /\ since' = IF Tail(recent) = <<>> THEN 0 ELSE since
  /\ exact' = (exact \/ (Tail(recent) = <<>> /\ demand' = 0))
  /\ UNCHANGED <<index, quote, faults>>
--------------------------------------------------------------------------------
(* The geo set, as internal/geo leaves it (see DriverIndex).               *)
IndexStep == UNCHANGED <<counter, quote, faults>>

Indexed(d) == members' = members \cup {d} /\ fresh' = fresh \cup {d} /\ IndexStep
Removed(d) == members' = members \ {d} /\ fresh' = fresh \ {d} /\ IndexStep

\* freshTTL runs out: the member stays until a search meets it.
Stale(d) == fresh' = fresh \ {d} /\ UNCHANGED members /\ IndexStep

\* A search evicts a member it takes for stale, rightly or not.
Evicted(d) == members' = members \ {d} /\ UNCHANGED fresh /\ IndexStep
--------------------------------------------------------------------------------
(* Multiplier: GET, then ZCARD; an error of either reads as zero.           *)
Get(q) ==
  /\ quote[q].at = "GET"
  /\ \/ quote' = [quote EXCEPT ![q] = [@ EXCEPT !.at = "ZCARD", !.demand = demand]]
        /\ UNCHANGED faults
     \/ Fault /\ quote' = [quote EXCEPT ![q] = [@ EXCEPT !.at = "ZCARD", !.demand = 0]]
  /\ UNCHANGED <<counter, index>>

Supply(q) ==
  /\ quote[q].at = "ZCARD"
  /\ \E n \in {Cardinality(members), 0} :
       /\ quote' = [quote EXCEPT ![q] =
                      [@ EXCEPT !.at = "priced", !.price = factor(quote[q].demand, n)]]
       /\ IF n = Cardinality(members) THEN UNCHANGED faults ELSE Fault
  /\ UNCHANGED <<counter, index>>

Quoted(q) ==
  /\ quote[q].at = "priced"
  /\ quote' = [quote EXCEPT ![q] = NoQuote]
  /\ UNCHANGED <<counter, index, faults>>

SurgeStep ==
  \/ RecordDemand \/ Lapse
  \/ \E d \in Drivers : Indexed(d) \/ Removed(d) \/ Stale(d) \/ Evicted(d)
  \/ \E q \in Quotes : Get(q) \/ Supply(q) \/ Quoted(q)

\* The calls in progress end with the process; Redis stays.
SurgeRestart == quote' = [q \in Quotes |-> NoQuote] /\ UNCHANGED <<counter, index, faults>>
--------------------------------------------------------------------------------
\* surge.go:31-33, "rolling demand counter", "a simple sliding window of recent
\* demand": while no call fails, a request older than the window is not counted.
\* The code breaks it: every request renews the TTL of the whole count.
DemandIsRecent == exact => demand <= Len(recent)

\* What the code counts instead: the whole busy spell, every request since the
\* region was last without one for a window (surge.go:34-40).
DemandIsSinceQuiet == exact => demand = since

\* Half of the sliding window is true: the count never drops while a request of
\* the last window is in it, because every request renews the TTL. A price is
\* not too low for a counter that expired too early (surge.go:37-38).
RecentIsCounted == exact => Len(recent) <= demand

\* A key left without a TTL by a lost EXPIRE (surge.go:37-39) gets one with the
\* next request: a region that has requests and falls quiet, again and again,
\* has its counter reset, again and again.
CounterHeals == []<>(recent # <<>>) /\ []<>(recent = <<>>) => []<>(demand = 0)

\* The price p is at most, at least, what d requests and s drivers warrant:
\* the ratio, at least minSurge and at most maxSurge.
AtMost(p, d, s) ==
  \/ p[1] <= minSurge * p[2]
  \/ p[1] <= maxSurge * p[2] /\ d > 0 /\ p[1] * s <= d * p[2]
AtLeast(p, d, s) ==
  /\ p[1] >= minSurge * p[2]
  /\ p[1] < maxSurge * p[2] => p[1] * s >= d * p[2]

\* Supply counts members whose hash has expired (geo.go:106-111) and the two
\* reads are not of one moment: still a rider is never charged more than the
\* demand that was read and the drivers a search could return warrant, and less
\* only if members are stale, short of an error of ZCARD.
QuoteIsFair ==
  [][\A q \in Quotes :
       quote[q].at = "ZCARD" /\ quote'[q].at = "priced" /\ faults' = faults =>
         /\ AtMost(quote'[q].price, quote[q].demand, Cardinality(members \cap fresh))
         /\ members \subseteq fresh =>
              AtLeast(quote'[q].price, quote[q].demand, Cardinality(members))]_<<quote, faults>>
================================================================================
