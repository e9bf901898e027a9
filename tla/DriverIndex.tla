------------------------------- MODULE DriverIndex -------------------------------
(***************************************************************************)
(* Where drivers are: the driver apps ping, the API publishes the ping to  *)
(* the location partition of its region, cmd/locationworker applies it to  *)
(* the Redis geo index (internal/geo), and searches read the index in      *)
(* several round trips and prune it as they go.                            *)
(*                                                                         *)
(* A position is its region shard. Distance is abstract: GEOSEARCH returns *)
(* any of the members of the key it reads.                                 *)
(***************************************************************************)
EXTENDS Sequences, FiniteSets, Naturals

CONSTANTS
  Drivers,
  Regions,     \* region.Key shards, geohash cells of 4 characters
  Coarse,      \* the 3-character cell around them, a key Upsert never writes
  Nowhere,     \* no region
  Searches,    \* concurrent calls of Store.Nearest
  MaxSending,  \* bound on the pings on their way to the API
  MaxLag,      \* bound on the uncommitted events of a partition
  FaultKinds,  \* a subset of {"ping", "index", "rewind", "exists"}
  MaxFaults

ASSUME DriverIndexAssumption ==
  /\ Coarse \notin Regions
  /\ Nowhere \notin Regions
  /\ MaxSending \in Nat
  /\ MaxLag \in Nat
  /\ MaxFaults \in Nat

VARIABLES
  at,       \* at[d]: the region the phone is in
  online,   \* the drivers whose app is online
  sending,  \* pings the API has not published yet: models.LocationUpdate
  part,     \* part[r]: the uncommitted events of the partition of r
  read,     \* read[r]: how many of them the location worker has read
  late,     \* pings that workers which lost their partition are still applying
  road,     \* history: the region of the last ping of d, from which it is applied
            \* last; Nowhere if another may be applied after it or it was lost
  geo,      \* geo[k]: members of the geo set geo:drivers:<k>
  meta,     \* meta[d]: the region in the hash driver:<d>; Nowhere: no hash
  recent,   \* history: <<d, r>> while d was indexed in r within freshTTL
  search,   \* search[s]: the locals of a Nearest in progress
  faults

phones == <<at, online, sending>>
stream == <<part, read, late>>
redis  == <<geo, meta, recent>>
vars   == <<phones, stream, road, redis, search, faults>>

Keys == Regions \cup {Coarse}
Ping == [driver : Drivers, region : Regions, available : BOOLEAN]

\* todo: keys still to search. hits: members of key not yet checked. stale:
\* the member about to be evicted, if any. found: candidates so far.
Search == [todo : Seq(Keys), key : Keys \cup {Nowhere}, hits : SUBSET Drivers,
           stale : SUBSET Drivers, found : SUBSET Drivers]
NoSearch == [todo |-> <<>>, key |-> Nowhere, hits |-> {}, stale |-> {}, found |-> {}]

TypeOK ==
  /\ at \in [Drivers -> Regions]
  /\ online \subseteq Drivers
  /\ sending \subseteq Ping
  /\ part \in [Regions -> Seq(Ping)]
  /\ \A r \in Regions : read[r] \in 0 .. Len(part[r])
  /\ late \subseteq Ping
  /\ road \in [Drivers -> Regions \cup {Nowhere}]
  /\ geo \in [Keys -> SUBSET Drivers]
  /\ meta \in [Drivers -> Regions \cup {Nowhere}]
  /\ recent \subseteq Drivers \X Regions
  /\ search \in [Searches -> Search]
  /\ faults \in 0 .. MaxFaults

Init ==
  /\ at \in [Drivers -> Regions]
  /\ online = {}
  /\ sending = {}
  /\ part = [r \in Regions |-> <<>>]
  /\ read = [r \in Regions |-> 0]
  /\ late = {}
  /\ road = at
  /\ geo = [k \in Keys |-> {}]
  /\ meta = [d \in Drivers |-> Nowhere]
  /\ recent = {}
  /\ search = [s \in Searches |-> NoSearch]
  /\ faults = 0

Fault(kind) == kind \in FaultKinds /\ faults < MaxFaults /\ faults' = faults + 1
--------------------------------------------------------------------------------
(* The driver app. *)
\* ping(): available is the flag at the time of sending, trip or no trip.
PingOf(d, r, isOnline) == [driver |-> d, region |-> r, available |-> isOnline]

\* A ping sent now may be applied before an earlier one of the driver: that one
\* is not published yet, or waits in the partition of another region, or a
\* worker that lost its partition is still at it.
Races(d, r) ==
  \/ \E p \in sending \cup late : p.driver = d
  \/ \E q \in Regions \ {r} : \E i \in read[q] + 1 .. Len(part[q]) : part[q][i].driver = d

Send(d, r, isOnline) ==
  /\ Cardinality(sending) < MaxSending
  /\ road' = [road EXCEPT ![d] = IF Races(d, r) THEN Nowhere ELSE r]
  /\ sending' = sending \cup {PingOf(d, r, isOnline)}
  /\ UNCHANGED <<stream, redis, search, faults>>

\* The toggle button: the last ping says unavailable; the timer is stopped.
Toggle(d) ==
  /\ online' = IF d \in online THEN online \ {d} ELSE online \cup {d}
  /\ Send(d, at[d], d \notin online)
  /\ UNCHANGED at

\* The timer, every 4 seconds while online.
Tick(d) == d \in online /\ Send(d, at[d], TRUE) /\ UNCHANGED <<at, online>>

\* Dragging the marker pings at once when online.
Move(d, r) ==
  /\ r # at[d]
  /\ at' = [at EXCEPT ![d] = r]
  /\ \/ d \in online /\ Send(d, r, TRUE)
     \/ d \notin online /\ UNCHANGED <<sending, road, stream, redis, search, faults>>
  /\ UNCHANGED online
--------------------------------------------------------------------------------
(* cmd/api and cmd/locationworker. *)

\* The final ping of a driver may have been this one.
Lost(u) ==
  road' = IF u.available THEN road ELSE [road EXCEPT ![u.driver] = Nowhere]

\* handleLocation: the ping goes to the partition of its region, and goes there
\* again when the answer to the produce is lost and the writer repeats it; or it
\* is lost (503, 502, no network), and the app does not send it again.
Publish(p) ==
  /\ \/ /\ Len(part[p.region]) < MaxLag
        /\ part' = [part EXCEPT ![p.region] = Append(@, p)]
        /\ UNCHANGED road
        /\ \/ sending' = sending \ {p} /\ UNCHANGED faults
           \/ Fault("ping") /\ UNCHANGED sending
     \/ /\ Fault("ping")
        /\ sending' = sending \ {p}
        /\ Lost(p)
        /\ UNCHANGED part
  /\ UNCHANGED <<at, online, read, late, redis, search>>

AddOnce(u) ==                                                \* mutant of Available
  /\ geo' = IF meta[u.driver] = u.region THEN geo
            ELSE [geo EXCEPT ![u.region] = @ \cup {u.driver}]
  /\ meta' = [meta EXCEPT ![u.driver] = u.region]

AddCoarse(u) ==                                              \* mutant of Available
  /\ geo' = [geo EXCEPT ![Coarse] = @ \cup {u.driver}]
  /\ meta' = [meta EXCEPT ![u.driver] = Coarse]

\* Upsert of an available driver: the geo member and the hash with its TTL in
\* one MULTI. The driver stays a member of any other region.
Available(u) ==
  /\ geo' = [geo EXCEPT ![u.region] = @ \cup {u.driver}]
  /\ meta' = [meta EXCEPT ![u.driver] = u.region]

HashOnly(u) ==                                               \* mutant of Remove
  /\ geo' = geo
  /\ meta' = [meta EXCEPT ![u.driver] = Nowhere]

\* Remove, also one MULTI.
Remove(u) ==
  /\ geo' = [geo EXCEPT ![u.region] = @ \ {u.driver}]
  /\ meta' = [meta EXCEPT ![u.driver] = Nowhere]

Upsert(u) ==
  \/ /\ u.available
     /\ Available(u)
     /\ recent' = recent \cup {<<u.driver, u.region>>}
  \/ /\ ~u.available
     /\ Remove(u)
     /\ recent' = recent \ {<<u.driver, u.region>>}

\* The loop of locationworker: an Upsert error is logged and the event passed;
\* so is the event a worker dies with, its offset being committed on reading.
Index(r) ==
  /\ read[r] < Len(part[r])
  /\ read' = [read EXCEPT ![r] = @ + 1]
  /\ LET u == part[r][read[r] + 1] IN
     \/ Upsert(u) /\ UNCHANGED <<road, faults>>
     \/ Fault("index") /\ Lost(u) /\ UNCHANGED redis
  /\ UNCHANGED <<phones, part, late, search>>

\* The offsets read so far are committed.
Commit(r) ==
  /\ read[r] > 0
  /\ part' = [part EXCEPT ![r] = SubSeq(@, read[r] + 1, Len(@))]
  /\ read' = [read EXCEPT ![r] = 0]
  /\ UNCHANGED <<phones, late, road, redis, search, faults>>

\* A worker dies, or loses the partition, before it commits: what it read is
\* read again, and the Upsert it was at may still reach Redis.
Rewind(r) ==
  /\ Fault("rewind")
  /\ read' = [read EXCEPT ![r] = 0]
  /\ \/ read[r] > 0 /\ UNCHANGED late
     \/ read[r] < Len(part[r]) /\ late' = late \cup {part[r][read[r] + 1]}
  /\ road' = [d \in Drivers |->
       IF \/ \E p \in late' : p.driver = d
          \/ r # road[d] /\ \E i \in 1 .. read[r] : part[r][i].driver = d
       THEN Nowhere ELSE road[d]]
  /\ UNCHANGED <<phones, part, redis, search>>

\* It does.
Belated(u) ==
  /\ u \in late
  /\ late' = late \ {u}
  /\ Upsert(u)
  /\ UNCHANGED <<phones, part, read, road, search, faults>>

NoTTL(d, r) == meta                                          \* mutant of AfterTTL

AfterTTL(d, r) == IF meta[d] = r THEN [meta EXCEPT ![d] = Nowhere] ELSE meta

\* freshTTL has run out since d was last indexed in r.
Expire(d, r) ==
  /\ <<d, r>> \in recent
  /\ recent' = recent \ {<<d, r>>}
  /\ meta' = AfterTTL(d, r)
  /\ UNCHANGED <<geo, phones, stream, road, search, faults>>
--------------------------------------------------------------------------------
(* Store.Nearest, one Redis round trip at a time. *)
Set(s, locals) ==
  /\ search' = [search EXCEPT ![s] = locals]
  /\ UNCHANGED <<phones, stream, road>>

\* region.Neighbors: the cell and the coarse cell around it.
Neighbors(r) == <<r, Coarse>>

Begin(s, r) ==
  /\ search[s] = NoSearch
  /\ Set(s, [NoSearch EXCEPT !.todo = Neighbors(r)])
  /\ UNCHANGED <<redis, faults>>

\* GEOSEARCH of the next key.
Scan(s) ==
  /\ search[s].todo # <<>>
  /\ search[s].hits = {} /\ search[s].stale = {}
  /\ \E hits \in SUBSET geo[Head(search[s].todo)] :
       Set(s, [search[s] EXCEPT !.todo = Tail(@), !.key = Head(search[s].todo), !.hits = hits])
  /\ UNCHANGED <<redis, faults>>

\* EXISTS driver:<d>; an error reads as no.
Check(s, d) ==
  /\ d \in search[s].hits /\ search[s].stale = {}
  /\ LET left == [search[s] EXCEPT !.hits = @ \ {d}] IN
     \/ /\ meta[d] # Nowhere
        /\ Set(s, [left EXCEPT !.found = @ \cup {d}])
        /\ UNCHANGED faults
     \/ /\ \/ meta[d] = Nowhere /\ UNCHANGED faults
           \/ Fault("exists")
        /\ Set(s, [left EXCEPT !.stale = {d}])
  /\ UNCHANGED redis

\* ZREM of the member found stale.
Evict(s) ==
  /\ search[s].stale # {}
  /\ geo' = [geo EXCEPT ![search[s].key] = @ \ search[s].stale]
  /\ Set(s, [search[s] EXCEPT !.stale = {}])
  /\ UNCHANGED <<meta, recent, faults>>

\* The candidates are ranked and returned, or Redis or the request gave up.
Return(s) ==
  /\ search[s] # NoSearch
  /\ Set(s, NoSearch)
  /\ UNCHANGED <<redis, faults>>

Drive(d)    == Toggle(d) \/ Tick(d) \/ \E r \in Regions : Move(d, r)
Consume(r)  == Index(r) \/ Commit(r) \/ Rewind(r)
Nearest(s)  == \/ \E r \in Regions : Begin(s, r)
               \/ Scan(s) \/ Evict(s) \/ Return(s)
               \/ \E d \in Drivers : Check(s, d)

Next ==
  \/ \E d \in Drivers : Drive(d)
  \/ \E p \in sending : Publish(p)
  \/ \E r \in Regions : Consume(r)
  \/ \E u \in late : Belated(u)
  \/ \E d \in Drivers, r \in Regions : Expire(d, r)
  \/ \E s \in Searches : Nearest(s)

\* Timers fire, requests are answered, workers work and Redis expires keys. A
\* key that pings keep renewing may expire (a slow network) but need not.
Fairness ==
  /\ \A d \in Drivers : WF_vars(Tick(d))
  /\ \A p \in Ping : WF_vars(p \in sending /\ Publish(p))
  /\ \A r \in Regions : WF_vars(Index(r)) /\ WF_vars(Commit(r))
  /\ \A d \in Drivers, r \in Regions : WF_vars((d \in online => at[d] # r) /\ Expire(d, r))

Spec == Init /\ [][Next]_vars
FairSpec == Spec /\ Fairness
--------------------------------------------------------------------------------
\* Nothing is on its way to the index.
Settled ==
  /\ sending = {} /\ late = {}
  /\ \A r \in Regions : read[r] = Len(part[r])

\* app.js:65, "final ping marks the driver unavailable": once it has arrived, and
\* unless another ping could overtake it, the driver has no hash, so no search
\* returns them, and the region they left from does not hold or count them. They
\* stay a member of regions they crossed before until a search evicts them.
FinalPingWins ==
  Settled => \A d \in Drivers \ online :
    road[d] # Nowhere => meta[d] = Nowhere /\ d \notin geo[road[d]]

\* A driver who goes offline for good is forgotten although the final ping may
\* be lost, overtaken or replayed (geo.go:17-19): the TTL is what removes them.
OfflineIsForgotten ==
  \A d \in Drivers : <>[](d \notin online) => <>[](meta[d] = Nowhere)

\* A driver who stays online in a region can be matched there again and again,
\* although searches prune members they took for stale (geo.go:85-90).
OnlineIsFound ==
  \A d \in Drivers, r \in Regions :
    <>[](d \in online /\ at[d] = r) => []<>(d \in geo[r] /\ meta[d] = r)

\* geo.go:17-18, freshTTL "bounds how long a driver's location is trusted": a
\* candidate was indexed in the region it is found in within the TTL.
CandidateIsRecent ==
  [][\A s \in Searches, d \in Drivers :
       d \in search'[s].found \ search[s].found => <<d, search[s].key>> \in recent]_vars
================================================================================
