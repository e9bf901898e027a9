---------------------------- MODULE DriverIndexProofs ----------------------------
(***************************************************************************)
(* Theorems about DriverIndex, and the rides Dispatch adds to it, for any  *)
(* set of drivers, regions and searches, every lag, and every number and   *)
(* kind of faults.                                                         *)
(***************************************************************************)
EXTENDS Dispatch, SequenceTheorems, TLAPS

(***************************************************************************)
(* Types, in parts.                                                        *)
(***************************************************************************)
PhonesOK ==
  /\ at \in [Drivers -> Regions]
  /\ online \subseteq Drivers
  /\ sending \subseteq Ping
StreamOK ==
  /\ part \in [Regions -> Seq(Ping)]
  /\ read \in [Regions -> Nat]
  /\ \A r \in Regions : read[r] \in 0 .. Len(part[r])
  /\ late \subseteq Ping
RoadOK == road \in [Drivers -> Regions \cup {Nowhere}]
RedisOK ==
  /\ geo \in [Keys -> SUBSET Drivers]
  /\ meta \in [Drivers -> Regions \cup {Nowhere}]
  /\ recent \subseteq Drivers \X Regions
SearchOK ==
  /\ search \in [Searches -> Search]
  /\ \A s \in Searches : search[s].stale # {} => search[s].key \in Keys
  /\ \A s \in Searches : search[s].hits # {} => search[s].key \in Keys
FaultsOK == faults \in 0 .. MaxFaults
Typed == PhonesOK /\ StreamOK /\ RoadOK /\ RedisOK /\ SearchOK /\ FaultsOK

LEMMA FaultStep ==
  ASSUME FaultsOK, NEW kind, Fault(kind)
  PROVE  FaultsOK'
BY DriverIndexAssumption DEF FaultsOK, Fault

\* What sending a ping does.
LEMMA SendStep ==
  ASSUME Typed, NEW d \in Drivers, NEW r \in Regions, NEW b \in BOOLEAN, Send(d, r, b)
  PROVE  /\ sending' \subseteq Ping
         /\ RoadOK'
         /\ sending' = sending \cup {PingOf(d, r, b)}
         /\ PingOf(d, r, b) \in Ping
         /\ PingOf(d, r, b).driver = d
         /\ PingOf(d, r, b).region = r
         /\ PingOf(d, r, b).available = b
         /\ road' = [road EXCEPT ![d] = IF Races(d, r) THEN Nowhere ELSE r]
         /\ UNCHANGED <<part, read, late, geo, meta, recent, search, faults>>
<1>1. /\ PingOf(d, r, b) \in Ping
      /\ PingOf(d, r, b).driver = d
      /\ PingOf(d, r, b).region = r
      /\ PingOf(d, r, b).available = b
  BY DEF PingOf, Ping
<1>2. sending' \subseteq Ping /\ RoadOK'
  BY <1>1 DEF Send, Typed, PhonesOK, RoadOK
<1> QED  BY <1>1, <1>2 DEF Send, stream, redis

LEMMA TypedDrive ==
  ASSUME Typed, NEW d \in Drivers, Drive(d)
  PROVE  Typed'
<1>t. at[d] \in Regions
  BY DEF Typed, PhonesOK
<1>1. CASE Toggle(d)
  <2>1. Send(d, at[d], d \notin online) /\ (d \notin online) \in BOOLEAN
    BY <1>1 DEF Toggle
  <2>2. /\ sending' \subseteq Ping
        /\ RoadOK'
        /\ UNCHANGED <<part, read, late, geo, meta, recent, search, faults>>
    BY <1>t, <2>1, SendStep
  <2>3. online' \subseteq Drivers /\ UNCHANGED at
    BY <1>1 DEF Toggle, Typed, PhonesOK
  <2> QED  BY <2>2, <2>3 DEF Typed, PhonesOK, StreamOK, RoadOK, RedisOK, SearchOK, FaultsOK
<1>2. CASE Tick(d)
  <2>1. /\ sending' \subseteq Ping
        /\ RoadOK'
        /\ UNCHANGED <<part, read, late, geo, meta, recent, search, faults>>
    BY <1>2, <1>t, SendStep DEF Tick
  <2> QED  BY <1>2, <2>1
    DEF Tick, Typed, PhonesOK, StreamOK, RoadOK, RedisOK, SearchOK, FaultsOK
<1>3. ASSUME NEW r \in Regions, Move(d, r) PROVE Typed'
  <2>1. at' \in [Drivers -> Regions] /\ UNCHANGED online
    BY <1>3 DEF Move, Typed, PhonesOK
  <2>2. CASE Send(d, r, TRUE)
    <3>1. /\ sending' \subseteq Ping
          /\ RoadOK'
          /\ UNCHANGED <<part, read, late, geo, meta, recent, search, faults>>
      BY <2>2, SendStep
    <3> QED  BY <2>1, <3>1 DEF Typed, PhonesOK, StreamOK, RoadOK, RedisOK, SearchOK, FaultsOK
  <2>3. CASE UNCHANGED <<sending, road, stream, redis, search, faults>>
    BY <2>1, <2>3 DEF Typed, PhonesOK, StreamOK, RoadOK, RedisOK, SearchOK, FaultsOK, stream, redis
  <2> QED  BY <1>3, <2>2, <2>3 DEF Move
<1> QED  BY <1>1, <1>2, <1>3 DEF Drive

LEMMA LostStep ==
  ASSUME RoadOK, NEW u \in Ping, Lost(u)
  PROVE  /\ RoadOK'
         /\ u.available => road' = road
         /\ ~u.available => road'[u.driver] = Nowhere
         /\ \A e \in Drivers \ {u.driver} : road'[e] = road[e]
BY DEF Lost, RoadOK, Ping

\* A ping that is published is the last of its partition; it may be repeated,
\* or lost.
LEMMA PublishStep ==
  ASSUME Typed, NEW p \in sending, Publish(p)
  PROVE  /\ Typed'
         /\ p \in Ping
         /\ \/ /\ part'[p.region] = Append(part[p.region], p)
               /\ \A r \in Regions \ {p.region} : part'[r] = part[r]
               /\ sending' = sending \ {p} \/ sending' = sending
               /\ UNCHANGED road
            \/ /\ UNCHANGED part
               /\ sending' = sending \ {p}
               /\ Lost(p)
         /\ UNCHANGED <<at, online, read, late, geo, meta, recent, search>>
<1>1. p \in Ping /\ p.region \in Regions
  BY DEF Typed, PhonesOK, Ping
<1>2. UNCHANGED <<at, online, read, late, geo, meta, recent, search>>
  BY DEF Publish, redis
<1>f. FaultsOK /\ FaultsOK'
  BY FaultStep DEF Publish, Typed, FaultsOK
<1>3. CASE /\ part' = [part EXCEPT ![p.region] = Append(@, p)]
           /\ UNCHANGED road
           /\ sending' = sending \ {p} \/ sending' = sending
  <2>1. part[p.region] \in Seq(Ping)
    BY <1>1 DEF Typed, StreamOK
  <2>2. /\ Append(part[p.region], p) \in Seq(Ping)
        /\ Len(Append(part[p.region], p)) = Len(part[p.region]) + 1
        /\ Len(part[p.region]) \in Nat
    BY <1>1, <2>1
  <2>3. /\ part'[p.region] = Append(part[p.region], p)
        /\ \A r \in Regions \ {p.region} : part'[r] = part[r]
        /\ part' \in [Regions -> Seq(Ping)]
    BY <1>1, <1>3, <2>2 DEF Typed, StreamOK
  <2>4. \A r \in Regions : read'[r] \in 0 .. Len(part'[r])
    <3>1. read'[p.region] \in 0 .. Len(part'[p.region])
      BY <1>1, <1>2, <2>2, <2>3 DEF Typed, StreamOK
    <3>2. \A r \in Regions \ {p.region} : read'[r] \in 0 .. Len(part'[r])
      BY <1>2, <2>3 DEF Typed, StreamOK
    <3> QED  BY <3>1, <3>2
  <2>5. StreamOK'
    BY <1>2, <2>3, <2>4 DEF StreamOK, Typed
  <2>6. Typed'
    BY <1>2, <1>3, <1>f, <2>5 DEF Typed, PhonesOK, RoadOK, RedisOK, SearchOK
  <2> QED  BY <1>1, <1>2, <1>3, <2>3, <2>6
<1>4. CASE UNCHANGED part /\ sending' = sending \ {p} /\ Lost(p)
  <2>1. RoadOK'
    BY <1>1, <1>4, LostStep DEF Typed
  <2>2. Typed'
    BY <1>2, <1>4, <1>f, <2>1 DEF Typed, PhonesOK, StreamOK, RedisOK, SearchOK
  <2> QED  BY <1>1, <1>2, <1>4, <2>2
<1> QED  BY <1>3, <1>4 DEF Publish

\* The index after an Upsert.
Indexed(u) ==
  /\ meta' = [meta EXCEPT ![u.driver] = IF u.available THEN u.region ELSE Nowhere]
  /\ geo' = [geo EXCEPT ![u.region] =
               IF u.available THEN @ \cup {u.driver} ELSE @ \ {u.driver}]

LEMMA UpsertStep ==
  ASSUME Typed, NEW u \in Ping, Upsert(u)
  PROVE  RedisOK' /\ Indexed(u)
<1>1. u.driver \in Drivers /\ u.region \in Regions /\ u.available \in BOOLEAN
  BY DEF Ping
<1>2. CASE u.available /\ Available(u) /\ recent' = recent \cup {<<u.driver, u.region>>}
  <2>1. RedisOK'
    BY <1>1, <1>2 DEF Available, Typed, RedisOK, Keys
  <2> QED  BY <1>2, <2>1 DEF Available, Indexed
<1>3. CASE ~u.available /\ Remove(u) /\ recent' = recent \ {<<u.driver, u.region>>}
  <2>1. RedisOK'
    BY <1>1, <1>3 DEF Remove, Typed, RedisOK, Keys
  <2> QED  BY <1>3, <2>1 DEF Remove, Indexed
<1> QED  BY <1>2, <1>3 DEF Upsert

\* The worker reads the next event of a partition and indexes it, or passes it.
LEMMA IndexStep ==
  ASSUME Typed, NEW r \in Regions, Index(r)
  PROVE  LET u == part[r][read[r] + 1]
         IN /\ Typed'
            /\ read[r] + 1 \in 1 .. Len(part[r])
            /\ u \in Ping
            /\ read'[r] = read[r] + 1
            /\ \A q \in Regions \ {r} : read'[q] = read[q]
            /\ \/ Indexed(u) /\ UNCHANGED road
               \/ Lost(u) /\ UNCHANGED <<geo, meta>>
            /\ UNCHANGED <<at, online, sending, part, late, search>>
<1> DEFINE u == part[r][read[r] + 1]
<1>1. /\ read[r] \in Nat /\ Len(part[r]) \in Nat /\ read[r] < Len(part[r])
      /\ part[r] \in Seq(Ping)
      /\ read' = [read EXCEPT ![r] = read[r] + 1]
      /\ UNCHANGED <<at, online, sending, part, late, search>>
  BY DEF Index, Typed, StreamOK, phones
<1>2. /\ read[r] + 1 \in 1 .. Len(part[r])
      /\ u \in Ping
  BY <1>1
<1>3. \/ Upsert(u) /\ UNCHANGED <<road, faults>>
      \/ Fault("index") /\ Lost(u) /\ UNCHANGED redis
  BY DEF Index
<1> HIDE DEF u
<1>4. /\ read'[r] = read[r] + 1
      /\ \A q \in Regions \ {r} : read'[q] = read[q]
      /\ StreamOK'
  BY <1>1, <1>2 DEF Typed, StreamOK
<1>5. FaultsOK'
  BY <1>3, FaultStep DEF Typed, FaultsOK
<1>6. /\ RedisOK' /\ RoadOK'
      /\ \/ Indexed(u) /\ UNCHANGED road
         \/ Lost(u) /\ UNCHANGED <<geo, meta>>
  <2>1. CASE Upsert(u) /\ UNCHANGED road
    BY <1>2, <2>1, UpsertStep DEF Typed, RoadOK
  <2>2. CASE Lost(u) /\ UNCHANGED redis
    BY <1>2, <2>2, LostStep DEF Typed, RedisOK, redis
  <2> QED  BY <1>3, <2>1, <2>2
<1>7. Typed'
  BY <1>1, <1>4, <1>5, <1>6 DEF Typed, PhonesOK, SearchOK
<1> QED  BY <1>1, <1>2, <1>4, <1>6, <1>7 DEF u

\* A commit forgets what was read; what was not stays in order.
LEMMA CommitStep ==
  ASSUME Typed, NEW r \in Regions, Commit(r)
  PROVE  /\ Typed'
         /\ read[r] \in 0 .. Len(part[r])
         /\ read'[r] = 0
         /\ Len(part'[r]) = Len(part[r]) - read[r]
         /\ \A i \in 1 .. Len(part'[r]) : part'[r][i] = part[r][read[r] + i]
         /\ \A q \in Regions \ {r} : part'[q] = part[q] /\ read'[q] = read[q]
         /\ UNCHANGED <<at, online, sending, late, road, geo, meta, recent, search, faults>>
<1> DEFINE rest == SubSeq(part[r], read[r] + 1, Len(part[r]))
<1>1. /\ part[r] \in Seq(Ping) /\ Len(part[r]) \in Nat
      /\ read[r] \in 0 .. Len(part[r])
      /\ part' = [part EXCEPT ![r] = rest]
      /\ read' = [read EXCEPT ![r] = 0]
      /\ UNCHANGED <<at, online, sending, late, road, geo, meta, recent, search, faults>>
  BY DEF Commit, Typed, StreamOK, phones, redis
<1>2. /\ rest \in Seq(Ping)
      /\ Len(rest) = Len(part[r]) - read[r]
      /\ \A i \in 1 .. Len(rest) : rest[i] = part[r][read[r] + i]
  <2> DEFINE m == read[r] + 1
             n == Len(part[r])
  <2>1. m \in Int /\ n \in Int /\ m >= 1 /\ m <= n + 1
    BY <1>1
  <2>2. \A i \in m .. n : part[r][i] \in Ping
    BY <1>1
  <2> HIDE DEF m, n
  <2>3. /\ SubSeq(part[r], m, n) \in Seq(Ping)
        /\ Len(SubSeq(part[r], m, n)) = IF m <= n THEN n - m + 1 ELSE 0
        /\ \A i \in 1 .. n - m + 1 : SubSeq(part[r], m, n)[i] = part[r][m + i - 1]
    BY <2>1, <2>2, SubSeqProperties
  <2>4. /\ Len(rest) = n - m + 1
        /\ rest \in Seq(Ping)
        /\ \A i \in 1 .. n - m + 1 : rest[i] = part[r][m + i - 1]
    BY <2>1, <2>3 DEF m, n
  <2>5. n - m + 1 = Len(part[r]) - read[r]
    BY <1>1 DEF m, n
  <2>6. \A i \in 1 .. Len(rest) : m + i - 1 = read[r] + i
    BY <1>1, <2>1, <2>4 DEF m
  <2> HIDE DEF rest
  <2> QED  BY <2>4, <2>5, <2>6
<1> HIDE DEF rest
<1>3. /\ part'[r] = rest /\ read'[r] = 0
      /\ \A q \in Regions \ {r} : part'[q] = part[q] /\ read'[q] = read[q]
      /\ part' \in [Regions -> Seq(Ping)]
      /\ read' \in [Regions -> Nat]
  BY <1>1, <1>2 DEF Typed, StreamOK
<1>4. StreamOK'
  BY <1>1, <1>2, <1>3 DEF Typed, StreamOK
<1> QED  BY <1>1, <1>2, <1>3, <1>4 DEF Typed, PhonesOK, RoadOK, RedisOK, SearchOK, FaultsOK

LEMMA RewindStep ==
  ASSUME Typed, NEW r \in Regions, Rewind(r)
  PROVE  /\ Typed'
         /\ read' = [read EXCEPT ![r] = 0]
         /\ \A e \in Drivers : road'[e] # Nowhere =>
              /\ road'[e] = road[e]
              /\ \A p \in late' : p.driver # e
              /\ r # road[e] => \A i \in 1 .. read[r] : part[r][i].driver # e
         /\ UNCHANGED <<at, online, sending, part, geo, meta, recent, search>>
<1>1. /\ FaultsOK'
      /\ UNCHANGED <<at, online, sending, part, geo, meta, recent, search>>
  BY FaultStep DEF Rewind, Typed, phones, redis
<1>2. late' \subseteq Ping
  <2>1. read[r] < Len(part[r]) => part[r][read[r] + 1] \in Ping
    BY DEF Typed, StreamOK
  <2> QED  BY <2>1 DEF Rewind, Typed, StreamOK
<1>3. StreamOK'
  <2>1. read' = [read EXCEPT ![r] = 0] /\ UNCHANGED part
    BY DEF Rewind
  <2>2. \A q \in Regions : read'[q] \in 0 .. Len(part'[q])
    BY <2>1 DEF Typed, StreamOK
  <2> QED  BY <1>2, <2>1, <2>2 DEF Typed, StreamOK
<1> DEFINE Spoilt(d) ==
     \/ \E p \in late' : p.driver = d
     \/ r # road[d] /\ \E i \in 1 .. read[r] : part[r][i].driver = d
<1>4. road' = [d \in Drivers |-> IF Spoilt(d) THEN Nowhere ELSE road[d]]
  BY DEF Rewind
<1> HIDE DEF Spoilt
<1>5. /\ RoadOK'
      /\ \A e \in Drivers : road'[e] # Nowhere => road'[e] = road[e] /\ ~Spoilt(e)
  BY <1>4 DEF Typed, RoadOK
<1>6. Typed'
  BY <1>1, <1>3, <1>5 DEF Typed, PhonesOK, RedisOK, SearchOK
<1> QED  BY <1>1, <1>5, <1>6 DEF Rewind, Spoilt

LEMMA BelatedStep ==
  ASSUME Typed, NEW u \in late, Belated(u)
  PROVE  /\ Typed'
         /\ u \in Ping
         /\ Indexed(u)
         /\ late' = late \ {u}
         /\ UNCHANGED <<at, online, sending, part, read, road, search, faults>>
<1>1. u \in Ping
  BY DEF Typed, StreamOK
<1>2. RedisOK' /\ Indexed(u)
  BY <1>1, UpsertStep DEF Belated
<1> QED  BY <1>1, <1>2 DEF Belated, Typed, PhonesOK, StreamOK, RoadOK, SearchOK, FaultsOK, phones

LEMMA ExpireStep ==
  ASSUME Typed, NEW d \in Drivers, NEW r \in Regions, Expire(d, r)
  PROVE  /\ Typed'
         /\ \A e \in Drivers : meta'[e] # Nowhere => meta'[e] = meta[e]
         /\ UNCHANGED <<at, online, sending, part, read, late, road, geo, search, faults>>
BY DEF Expire, AfterTTL, Typed, PhonesOK, StreamOK, RoadOK, RedisOK, SearchOK, FaultsOK, phones, stream

\* Searches prune the index and nothing else.
LEMMA NearestStep ==
  ASSUME Typed, NEW s \in Searches, Nearest(s)
  PROVE  /\ Typed'
         /\ \A k \in Keys : geo'[k] \subseteq geo[k]
         /\ UNCHANGED <<at, online, sending, part, read, late, road, meta, recent>>
<1>t. /\ search[s] \in Search
      /\ search \in [Searches -> Search]
      /\ geo \in [Keys -> SUBSET Drivers]
  BY DEF Typed, SearchOK, RedisOK
<1>u. UNCHANGED <<phones, stream, road, meta, recent>>
  BY DEF Nearest, Begin, Scan, Check, Evict, Return, Set, redis
<1>s. ASSUME NEW x \in Search, search' = [search EXCEPT ![s] = x], FaultsOK',
             x.stale # {} => x.key \in Keys, x.hits # {} => x.key \in Keys,
             geo' \in [Keys -> SUBSET Drivers]
      PROVE  Typed'
  <2>1. SearchOK'
    BY <1>s DEF Typed, SearchOK
  <2> QED  BY <1>s, <1>u, <2>1 DEF Typed, PhonesOK, StreamOK, RoadOK, RedisOK, phones, stream
<1>n. NoSearch \in Search /\ NoSearch.stale = {} /\ NoSearch.hits = {}
  BY DEF NoSearch, Search
<1>0. FaultsOK
  BY DEF Typed
<1>q. SUFFICES Typed' /\ (\A k \in Keys : geo'[k] \subseteq geo[k])
  BY <1>u DEF phones, stream
<1>1. ASSUME NEW r \in Regions, Begin(s, r) PROVE Typed' /\ (\A k \in Keys : geo'[k] \subseteq geo[k])
  <2> DEFINE x == [NoSearch EXCEPT !.todo = Neighbors(r)]
  <2>1. x \in Search /\ x.stale = {} /\ x.hits = {}
    <3>1. Neighbors(r) \in Seq(Keys)
      BY DEF Neighbors, Keys
    <3> QED  BY <1>n, <3>1 DEF NoSearch, Search
  <2>2. search' = [search EXCEPT ![s] = x] /\ UNCHANGED <<geo, faults>>
    BY <1>1 DEF Begin, Set, redis
  <2> HIDE DEF x
  <2> QED  BY <1>0, <1>s, <1>t, <2>1, <2>2 DEF FaultsOK
<1>2. CASE Scan(s)
  <2>1. PICK hits \in SUBSET geo[Head(search[s].todo)] :
          Set(s, [search[s] EXCEPT !.todo = Tail(@), !.key = Head(search[s].todo), !.hits = hits])
    BY <1>2 DEF Scan
  <2> DEFINE x == [search[s] EXCEPT !.todo = Tail(@), !.key = Head(search[s].todo), !.hits = hits]
  <2>2. Head(search[s].todo) \in Keys /\ Tail(search[s].todo) \in Seq(Keys)
    <3>1. search[s].todo \in Seq(Keys) /\ search[s].todo # <<>>
      BY <1>2, <1>t DEF Scan, Search
    <3> QED  BY <3>1, HeadTailProperties
  <2>3. hits \in SUBSET Drivers
    BY <1>t, <2>1, <2>2
  <2>4. x \in Search /\ x.key \in Keys
    BY <1>t, <2>2, <2>3 DEF Search
  <2>5. search' = [search EXCEPT ![s] = x] /\ UNCHANGED <<geo, faults>>
    BY <1>2, <2>1 DEF Scan, Set, redis
  <2> HIDE DEF x
  <2> QED  BY <1>0, <1>s, <1>t, <2>4, <2>5 DEF FaultsOK
<1>3. ASSUME NEW d \in Drivers, Check(s, d) PROVE Typed' /\ (\A k \in Keys : geo'[k] \subseteq geo[k])
  <2> DEFINE left == [search[s] EXCEPT !.hits = @ \ {d}]
             hit  == [left EXCEPT !.found = @ \cup {d}]
             miss == [left EXCEPT !.stale = {d}]
  <2>1. search[s].key \in Keys
    BY <1>3 DEF Check, Typed, SearchOK
  <2>2. left \in Search /\ left.key \in Keys
    BY <1>t, <2>1 DEF Search
  <2>3. hit \in Search /\ hit.key \in Keys /\ miss \in Search /\ miss.key \in Keys
    <3> HIDE DEF left
    <3> QED  BY <2>2 DEF Search
  <2>4. /\ search' = [search EXCEPT ![s] = hit] \/ search' = [search EXCEPT ![s] = miss]
        /\ UNCHANGED faults \/ Fault("exists")
        /\ UNCHANGED geo
    BY <1>3 DEF Check, Set, redis
  <2>5. FaultsOK' /\ (\A k \in Keys : geo'[k] \subseteq geo[k])
    BY <1>0, <2>4, FaultStep DEF FaultsOK
  <2> HIDE DEF hit, miss
  <2> QED  BY <1>s, <1>t, <2>3, <2>4, <2>5
<1>4. CASE Evict(s)
  <2> DEFINE x == [search[s] EXCEPT !.stale = {}]
  <2>1. search[s].key \in Keys
    BY <1>4 DEF Evict, Typed, SearchOK
  <2>2. x \in Search /\ x.key \in Keys
    BY <1>t, <2>1 DEF Search
  <2>3. /\ search' = [search EXCEPT ![s] = x] /\ UNCHANGED faults
        /\ geo' \in [Keys -> SUBSET Drivers]
        /\ \A k \in Keys : geo'[k] \subseteq geo[k]
    BY <1>4, <1>t, <2>1 DEF Evict, Set
  <2> HIDE DEF x
  <2> QED  BY <1>0, <1>s, <2>2, <2>3 DEF FaultsOK
<1>5. CASE Return(s)
  BY <1>0, <1>5, <1>n, <1>s, <1>t DEF Return, Set, redis, FaultsOK
<1> QED  BY <1>1, <1>2, <1>3, <1>4, <1>5 DEF Nearest

LEMMA TypedNext ==
  ASSUME Typed, [Next]_vars
  PROVE  Typed'
<1>1. CASE UNCHANGED vars
  BY <1>1 DEF vars, phones, stream, redis, Typed, PhonesOK, StreamOK, RoadOK, RedisOK, SearchOK, FaultsOK
<1>2. ASSUME NEW d \in Drivers, Drive(d) PROVE Typed'
  BY <1>2, TypedDrive
<1>3. ASSUME NEW p \in sending, Publish(p) PROVE Typed'
  BY <1>3, PublishStep
<1>4. ASSUME NEW r \in Regions, Consume(r) PROVE Typed'
  BY <1>4, IndexStep, CommitStep, RewindStep DEF Consume
<1>7. ASSUME NEW u \in late, Belated(u) PROVE Typed'
  BY <1>7, BelatedStep
<1>5. ASSUME NEW d \in Drivers, NEW r \in Regions, Expire(d, r) PROVE Typed'
  BY <1>5, ExpireStep
<1>6. ASSUME NEW s \in Searches, Nearest(s) PROVE Typed'
  BY <1>6, NearestStep
<1> QED  BY <1>1, <1>2, <1>3, <1>4, <1>5, <1>6, <1>7 DEF Next

LEMMA TypedInit == Init => Typed
<1> SUFFICES ASSUME Init PROVE Typed
  OBVIOUS
<1>1. StreamOK
  <2>1. <<>> \in Seq(Ping) /\ Len(<<>>) = 0
    OBVIOUS
  <2> QED  BY <2>1 DEF Init, StreamOK
<1>2. SearchOK
  <2>1. NoSearch \in Search /\ NoSearch.stale = {} /\ NoSearch.hits = {}
    BY DEF NoSearch, Search
  <2> QED  BY <2>1 DEF Init, SearchOK
<1>3. PhonesOK /\ RoadOK /\ RedisOK
  BY DEF Init, PhonesOK, RoadOK, RedisOK
<1>4. FaultsOK
  BY DriverIndexAssumption DEF Init, FaultsOK
<1> QED  BY <1>1, <1>2, <1>3, <1>4 DEF Typed

\* Whatever is lost, replayed or overtaken, the index only ever holds drivers
\* under keys of the map, and a worker never reads past the end of a partition.
THEOREM TypeCorrect == Spec => []TypeOK
<1>1. Typed => TypeOK
  BY DEF Typed, PhonesOK, StreamOK, RoadOK, RedisOK, SearchOK, FaultsOK, TypeOK
<1>2. Spec => []Typed
  BY TypedInit, TypedNext, PTL DEF Spec
<1> QED  BY <1>1, <1>2, PTL

(***************************************************************************)
(* The final ping wins.                                                    *)
(***************************************************************************)
Unread(r) == read[r] + 1 .. Len(part[r])
Has(r, i, d) == i \in 1 .. Len(part[r]) /\ part[r][i].driver = d
Sending(d) == \E p \in sending : p.driver = d
Waiting(r, d) == \E i \in Unread(r) : Has(r, i, d)

\* A partition holds pings of its region.
Filed == \A r \in Regions : \A i \in 1 .. Len(part[r]) : part[r][i].region = r

\* The pings of a driver that have not been applied take one road: at most one is
\* not published yet, and the others wait in the partition it goes to.
OneRoad(d) ==
  /\ \A p, q \in sending : p.driver = d /\ q.driver = d => p = q
  /\ \A p \in sending : p.driver = d => p.region = road[d]
  /\ \A p \in late : p.driver # d
  /\ \A r \in Regions : Waiting(r, d) => r = road[d]

\* The last of them says available only of a driver who is online, and so does
\* the index when none is left. The last one in a partition counts, read or not:
\* until it is committed it may be read again.
LastPingTells(d) ==
  /\ \A p \in sending : p.driver = d /\ p.available => d \in online
  /\ ~Sending(d) =>
       \A i \in Nat :
         /\ Has(road[d], i, d) /\ part[road[d]][i].available
         /\ \A j \in Nat : j > i => ~Has(road[d], j, d)
         => d \in online
  /\ ~Sending(d) /\ ~Waiting(road[d], d) /\ d \notin online =>
       meta[d] = Nowhere /\ d \notin geo[road[d]]

InOrder(d) == road[d] # Nowhere => OneRoad(d) /\ LastPingTells(d)
OrderlyPings == Filed /\ \A d \in Drivers : InOrder(d)

LEMMA UnreadType ==
  ASSUME Typed, NEW r \in Regions
  PROVE  /\ Unread(r) \subseteq Nat
         /\ Unread(r) \subseteq 1 .. Len(part[r])
         /\ part[r] \in Seq(Ping) /\ read[r] \in Nat /\ Len(part[r]) \in Nat
         /\ read[r] <= Len(part[r])
BY DEF Unread, Typed, StreamOK

LEMMA RoadType ==
  ASSUME Typed, NEW d \in Drivers, road[d] # Nowhere
  PROVE  road[d] \in Regions
BY DEF Typed, RoadOK

\* What a driver's order depends on.
LEMMA OrderKept ==
  ASSUME Typed, Filed, NEW e \in Drivers, InOrder(e),
         road'[e] = road[e] \/ road'[e] = Nowhere,
         \A p \in sending' \cup late' : p.driver = e => p \in sending \cup late,
         \A p \in sending' : p.driver = e <=> p \in sending /\ p.driver = e,
         \A p \in late' : p.driver = e => p \in late,
         UNCHANGED <<part, read>>,
         e \in online => e \in online',
         meta'[e] = meta[e] \/ meta'[e] = Nowhere,
         \A k \in Keys : e \in geo'[k] => e \in geo[k],
         Sending(e) => Sending(e)'
  PROVE  InOrder(e)'
<1> SUFFICES ASSUME road'[e] # Nowhere PROVE OneRoad(e)' /\ LastPingTells(e)'
  BY DEF InOrder
<1>1. /\ road'[e] = road[e] /\ road[e] \in Keys
      /\ OneRoad(e) /\ LastPingTells(e)
  BY RoadType DEF InOrder, Keys
<1>2. /\ \A r : Waiting(r, e)' <=> Waiting(r, e)
      /\ \A r, i : Has(r, i, e)' <=> Has(r, i, e)
  BY DEF Waiting, Unread, Has
<1>3. OneRoad(e)'
  BY <1>1, <1>2 DEF OneRoad
<1>4. \A p \in sending' : p.driver = e /\ p.available => e \in online'
  BY <1>1 DEF LastPingTells
<1>5. ~Sending(e)' =>
        \A i \in Nat :
          /\ Has(road[e], i, e) /\ part[road[e]][i].available
          /\ \A j \in Nat : j > i => ~Has(road[e], j, e)
          => e \in online'
  BY <1>1 DEF LastPingTells
<1>6. ~Sending(e)' /\ ~Waiting(road[e], e) /\ e \notin online' =>
        meta'[e] = Nowhere /\ e \notin geo'[road[e]]
  BY <1>1 DEF LastPingTells
<1> QED  BY <1>1, <1>2, <1>3, <1>4, <1>5, <1>6 DEF LastPingTells

\* A ping that does not race with an earlier one is the last of its driver.
LEMMA SendInOrder ==
  ASSUME Typed, OrderlyPings,
         NEW d \in Drivers, NEW r \in Regions, NEW b \in BOOLEAN, Send(d, r, b),
         b => d \in online', \A e \in Drivers \ {d} : e \in online => e \in online'
  PROVE  OrderlyPings'
<1> DEFINE new == PingOf(d, r, b)
<1>1. /\ sending' = sending \cup {new}
      /\ new.driver = d /\ new.region = r /\ new.available = b
      /\ road' = [road EXCEPT ![d] = IF Races(d, r) THEN Nowhere ELSE r]
      /\ UNCHANGED <<part, read, late, geo, meta>>
  BY SendStep
<1>t. road \in [Drivers -> Regions \cup {Nowhere}]
  BY DEF Typed, RoadOK
<1> HIDE DEF new
<1>2. Filed'
  BY <1>1 DEF OrderlyPings, Filed
<1>3. ASSUME NEW e \in Drivers \ {d} PROVE InOrder(e)'
  <2>1. road'[e] = road[e] /\ (Sending(e) <=> Sending(e)')
    BY <1>1, <1>t DEF Sending
  <2> QED  BY <1>1, <2>1, OrderKept DEF OrderlyPings
<1>4. ASSUME road'[d] # Nowhere PROVE OneRoad(d)' /\ LastPingTells(d)'
  <2>1. road'[d] = r /\ ~Races(d, r)
    BY <1>1, <1>4, <1>t
  <2>2. /\ \A p \in sending \cup late : p.driver # d
        /\ \A q \in Regions : Waiting(q, d) => q = r
    BY <2>1 DEF Races, Waiting, Has, Unread
  <2>3. \A q \in Regions : Waiting(q, d)' <=> Waiting(q, d)
    BY <1>1 DEF Waiting, Has, Unread
  <2>4. OneRoad(d)'
    BY <1>1, <2>1, <2>2, <2>3 DEF OneRoad
  <2>5. Sending(d)'
    BY <1>1 DEF Sending
  <2>6. \A p \in sending' : p.driver = d /\ p.available => d \in online'
    BY <1>1, <2>2
  <2> QED  BY <2>4, <2>5, <2>6 DEF LastPingTells
<1> QED  BY <1>2, <1>3, <1>4 DEF OrderlyPings, InOrder

LEMMA DriveInOrder ==
  ASSUME Typed, OrderlyPings, NEW d \in Drivers, Drive(d)
  PROVE  OrderlyPings'
<1>t. at[d] \in Regions
  BY DEF Typed, PhonesOK
<1>1. CASE Toggle(d)
  <2>1. Send(d, at[d], d \notin online) /\ (d \notin online) \in BOOLEAN
    BY <1>1 DEF Toggle
  <2>2. /\ d \notin online => d \in online'
        /\ \A e \in Drivers \ {d} : e \in online => e \in online'
    BY <1>1 DEF Toggle
  <2> QED  BY <1>t, <2>1, <2>2, SendInOrder
<1>2. CASE Tick(d)
  BY <1>2, <1>t, SendInOrder DEF Tick
<1>3. ASSUME NEW r \in Regions, Move(d, r) PROVE OrderlyPings'
  <2>1. CASE d \in online /\ Send(d, r, TRUE)
    BY <1>3, <2>1, SendInOrder DEF Move
  <2>2. CASE UNCHANGED <<sending, road, stream, redis, search, faults>>
    <3>1. UNCHANGED <<sending, road, part, read, late, geo, meta, online>>
      BY <1>3, <2>2 DEF Move, stream, redis
    <3>2. Filed' /\ \A e \in Drivers : Sending(e)' <=> Sending(e)
      BY <3>1 DEF OrderlyPings, Filed, Sending
    <3> QED  BY <3>1, <3>2, OrderKept DEF OrderlyPings
  <2> QED  BY <1>3, <2>1, <2>2 DEF Move
<1> QED  BY <1>1, <1>2, <1>3 DEF Drive

\* A ping that is published becomes the last one of its partition; one that is
\* lost was not the final one, or leaves its driver no road.
LEMMA PublishInOrder ==
  ASSUME Typed, OrderlyPings, NEW p \in sending, Publish(p)
  PROVE  OrderlyPings'
<1>1. /\ p \in Ping
      /\ UNCHANGED <<online, read, late, geo, meta>>
  BY PublishStep
<1>2. p.region \in Regions /\ p.driver \in Drivers
  BY <1>1 DEF Ping
<1>t. road \in [Drivers -> Regions \cup {Nowhere}]
  BY DEF Typed, RoadOK
<1>3. CASE /\ part'[p.region] = Append(part[p.region], p)
           /\ \A r \in Regions \ {p.region} : part'[r] = part[r]
           /\ sending' = sending \ {p} \/ sending' = sending
           /\ UNCHANGED road
  <2> DEFINE g == p.region
  <2>g. g = p.region /\ g \in Regions
    BY <1>2
  <2> HIDE DEF g
  <2>4. /\ part[g] \in Seq(Ping) /\ read[g] \in Nat
        /\ Len(part[g]) \in Nat /\ read[g] <= Len(part[g])
    BY <2>g, UnreadType
  <2>n. PICK n \in Nat : n = Len(part[g]) + 1
    BY <2>4
  <2>5. /\ Len(part'[g]) = n
        /\ part'[g][n] = p
        /\ \A i \in 1 .. Len(part[g]) : part'[g][i] = part[g][i]
        /\ n \in Unread(g)'
        /\ \A i \in Unread(g) : i \in Unread(g)' /\ i < n
        /\ \A i \in Unread(g)' : i \in Unread(g) \/ i = n
        /\ \A i \in 1 .. n : i \in 1 .. Len(part[g]) \/ i = n
        /\ \A i \in 1 .. Len(part[g]) : i \in 1 .. n /\ i < n
    BY <1>1, <1>3, <2>g, <2>4, <2>n DEF Unread
  <2>6. Filed'
    <3> SUFFICES ASSUME NEW r \in Regions, NEW i \in 1 .. Len(part'[r])
                 PROVE  part'[r][i].region = r
      BY DEF Filed
    <3>1. CASE r = g
      BY <2>g, <2>5, <3>1 DEF OrderlyPings, Filed
    <3>2. CASE r # g
      BY <1>3, <2>g, <3>2 DEF OrderlyPings, Filed
    <3> QED  BY <3>1, <3>2
  <2>7. \A r \in Regions, i \in Nat, e \in Drivers :
          /\ Has(r, i, e)' <=> Has(r, i, e) \/ (r = g /\ i = n /\ p.driver = e)
          /\ Has(r, i, e) => part'[r][i] = part[r][i]
          /\ Has(g, i, e) => i < n
    <3> SUFFICES ASSUME NEW r \in Regions, NEW i \in Nat, NEW e \in Drivers
                 PROVE  /\ Has(r, i, e)' <=> Has(r, i, e) \/ (r = g /\ i = n /\ p.driver = e)
                        /\ Has(r, i, e) => part'[r][i] = part[r][i]
                        /\ Has(g, i, e) => i < n
      OBVIOUS
    <3>1. CASE r = g
      BY <2>n, <2>4, <2>5, <3>1 DEF Has
    <3>2. CASE r # g
      <4>1. part'[r] = part[r]
        BY <1>3, <2>g, <3>2
      <4> QED  BY <2>5, <3>2, <4>1 DEF Has
    <3> QED  BY <3>1, <3>2
  <2>8. \A r \in Regions, e \in Drivers :
          Waiting(r, e)' <=> Waiting(r, e) \/ (r = g /\ p.driver = e)
    <3> SUFFICES ASSUME NEW r \in Regions, NEW e \in Drivers
                 PROVE  Waiting(r, e)' <=> Waiting(r, e) \/ (r = g /\ p.driver = e)
      OBVIOUS
    <3>1. CASE r = g
      <4>1. /\ \A i \in Unread(g) : i \in Nat
            /\ \A i \in Unread(g)' : i \in Nat
        BY <2>4, <2>5, <2>n, UnreadType, <2>g
      <4> QED  BY <2>5, <2>7, <3>1, <4>1 DEF Waiting
    <3>2. CASE r # g
      <4>1. part'[r] = part[r] /\ read'[r] = read[r]
        BY <1>1, <1>3, <2>g, <3>2
      <4> QED  BY <3>2, <4>1 DEF Waiting, Has, Unread
    <3> QED  BY <3>1, <3>2
  <2>9. ASSUME NEW e \in Drivers, road'[e] # Nowhere PROVE OneRoad(e)' /\ LastPingTells(e)'
    <3>1. road[e] \in Regions /\ OneRoad(e) /\ LastPingTells(e) /\ road'[e] = road[e]
      BY <1>3, <2>9, RoadType DEF OrderlyPings, InOrder
    <3>2. CASE p.driver = e
      <4>1. g = road[e]
        BY <2>g, <3>1, <3>2 DEF OneRoad
      <4>2. OneRoad(e)'
        BY <1>1, <1>3, <2>8, <3>1, <4>1 DEF OneRoad
      <4>3. \A q \in sending' : q.driver = e /\ q.available => e \in online'
        BY <1>1, <1>3, <3>1 DEF LastPingTells
      <4>4. ASSUME NEW i \in Nat, Has(g, i, e)', part'[g][i].available,
                   \A j \in Nat : j > i => ~Has(g, j, e)'
            PROVE  e \in online'
        <5>1. Has(g, n, e)'
          BY <2>7, <2>g, <3>2
        <5>2. i = n
          BY <2>7, <2>g, <2>n, <4>4, <5>1
        <5> QED  BY <1>1, <2>5, <3>1, <3>2, <4>4, <5>2 DEF LastPingTells
      <4>5. Waiting(g, e)'
        BY <2>8, <2>g, <3>2
      <4> QED  BY <3>1, <4>1, <4>2, <4>3, <4>4, <4>5 DEF LastPingTells
    <3>3. CASE p.driver # e
      <4>1. /\ Sending(e)' <=> Sending(e)
            /\ \A q \in sending' : q \in sending
        BY <1>3, <3>3 DEF Sending
      <4>2. /\ \A r \in Regions : Waiting(r, e)' <=> Waiting(r, e)
            /\ \A r \in Regions, i \in Nat : Has(r, i, e)' <=> Has(r, i, e)
        BY <2>7, <2>8, <3>3
      <4>3. OneRoad(e)'
        BY <1>1, <3>1, <4>1, <4>2 DEF OneRoad
      <4>4. ASSUME NEW i \in Nat, Has(road[e], i, e)', part'[road[e]][i].available,
                   \A j \in Nat : j > i => ~Has(road[e], j, e)', ~Sending(e)'
            PROVE  e \in online'
        <5>1. Has(road[e], i, e) /\ part[road[e]][i].available
          BY <2>7, <3>1, <4>2, <4>4
        <5>2. \A j \in Nat : j > i => ~Has(road[e], j, e)
          BY <3>1, <4>2, <4>4
        <5> QED  BY <1>1, <3>1, <4>1, <4>4, <5>1, <5>2 DEF LastPingTells
      <4> QED  BY <1>1, <3>1, <4>1, <4>2, <4>3, <4>4 DEF LastPingTells
    <3> QED  BY <3>2, <3>3
  <2> QED  BY <2>6, <2>9 DEF OrderlyPings, InOrder
<1>4. CASE UNCHANGED part /\ sending' = sending \ {p} /\ Lost(p)
  <2>1. Filed'
    BY <1>4 DEF OrderlyPings, Filed
  <2>2. ASSUME NEW e \in Drivers \ {p.driver} PROVE InOrder(e)'
    <3>1. road'[e] = road[e] /\ (Sending(e)' <=> Sending(e))
      BY <1>1, <1>4, LostStep DEF Sending, Typed
    <3> QED  BY <1>1, <1>4, <3>1, OrderKept DEF OrderlyPings
  <2>3. ASSUME NEW e \in Drivers, e = p.driver, road'[e] # Nowhere
        PROVE  OneRoad(e)' /\ LastPingTells(e)'
    <3>1. p.available /\ road'[e] = road[e]
      BY <1>1, <1>4, <2>3, LostStep DEF Typed
    <3>2. OneRoad(e) /\ LastPingTells(e)
      BY <2>3, <3>1 DEF OrderlyPings, InOrder
    <3>3. e \in online'
      BY <1>1, <2>3, <3>1, <3>2 DEF LastPingTells
    <3>4. \A r \in Regions : Waiting(r, e)' <=> Waiting(r, e)
      BY <1>1, <1>4 DEF Waiting, Has, Unread
    <3>5. OneRoad(e)'
      BY <1>1, <1>4, <3>1, <3>2, <3>4 DEF OneRoad
    <3> QED  BY <3>3, <3>5 DEF LastPingTells
  <2> QED  BY <2>1, <2>2, <2>3 DEF OrderlyPings, InOrder
<1> QED  BY <1>3, <1>4, PublishStep

\* An Upsert of a ping leaves the other drivers as they were.
LEMMA OthersKept ==
  ASSUME Typed, NEW u \in Ping, Indexed(u), NEW e \in Drivers, e # u.driver
  PROVE  meta'[e] = meta[e] /\ \A k \in Keys : e \in geo'[k] => e \in geo[k]
<1>1. /\ meta \in [Drivers -> Regions \cup {Nowhere}]
      /\ geo \in [Keys -> SUBSET Drivers]
      /\ u.driver \in Drivers /\ u.region \in Keys
  BY DEF Typed, RedisOK, Ping, Keys
<1> QED  BY <1>1 DEF Indexed

\* The index is what the last ping that was read says of its driver.
LEMMA IndexInOrder ==
  ASSUME Typed, OrderlyPings, NEW r \in Regions, Index(r)
  PROVE  OrderlyPings'
<1> DEFINE k == read[r] + 1
           u == part[r][k]
<1>1. /\ k \in 1 .. Len(part[r])
      /\ u \in Ping
      /\ read'[r] = k
      /\ \A q \in Regions \ {r} : read'[q] = read[q]
      /\ \/ Indexed(u) /\ UNCHANGED road
         \/ Lost(u) /\ UNCHANGED <<geo, meta>>
      /\ UNCHANGED <<online, sending, part, late>>
  BY IndexStep
<1>2. Filed' /\ u.region = r
  BY <1>1 DEF OrderlyPings, Filed
<1>3. /\ k \in Nat /\ Len(part[r]) \in Nat
      /\ \A i \in Unread(r)' : i \in Unread(r) /\ i > k
      /\ \A i \in 1 .. Len(part[r]) : i > k => i \in Unread(r)'
      /\ \A i \in Unread(r) : i \in Unread(r)' \/ i = k
      /\ k \in Unread(r)
  <2>1. read[r] \in Nat /\ Len(part[r]) \in Nat
    BY UnreadType
  <2> QED  BY <1>1, <2>1 DEF Unread
<1>4. \A e \in Drivers : Has(r, k, e) <=> u.driver = e
  BY <1>1 DEF Has
<1>v. u = part[r][k]
  OBVIOUS
<1> HIDE DEF k, u
<1>5. \A e \in Drivers, q \in Regions, i \in Nat : Has(q, i, e)' <=> Has(q, i, e)
  BY <1>1 DEF Has
<1>6. \A e \in Drivers, q \in Regions : Waiting(q, e)' => Waiting(q, e)
  <2> SUFFICES ASSUME NEW e \in Drivers, NEW q \in Regions, Waiting(q, e)' PROVE Waiting(q, e)
    OBVIOUS
  <2>1. CASE q = r
    BY <1>1, <1>3, <2>1 DEF Waiting, Has
  <2>2. CASE q # r
    BY <1>1, <2>2 DEF Waiting, Has, Unread
  <2> QED  BY <2>1, <2>2
<1>7. ASSUME NEW e \in Drivers, e # u.driver PROVE InOrder(e)'
  <2> SUFFICES ASSUME road'[e] # Nowhere PROVE OneRoad(e)' /\ LastPingTells(e)'
    BY DEF InOrder
  <2>1. road'[e] = road[e] /\ road[e] \in Regions /\ OneRoad(e) /\ LastPingTells(e)
    BY <1>1, <1>7, LostStep, RoadType DEF OrderlyPings, InOrder, Typed
  <2>2. Sending(e)' <=> Sending(e)
    BY <1>1 DEF Sending
  <2>3. OneRoad(e)'
    BY <1>1, <1>6, <2>1 DEF OneRoad
  <2>4. Waiting(road[e], e) => Waiting(road[e], e)'
    <3> SUFFICES ASSUME NEW i \in Unread(road[e]), Has(road[e], i, e)
                 PROVE  Waiting(road[e], e)'
      BY DEF Waiting
    <3>0. Has(road[e], i, e)'
      BY <1>1, <2>1 DEF Has
    <3>1. CASE road[e] = r
      <4>1. i # k
        BY <1>4, <1>7, <3>1
      <4>2. i \in Unread(r)'
        BY <1>3, <3>1, <4>1
      <4> QED  BY <2>1, <3>0, <3>1, <4>2 DEF Waiting
    <3>2. CASE road[e] # r
      <4>1. i \in Unread(road[e])'
        BY <1>1, <2>1, <3>2 DEF Unread
      <4> QED  BY <2>1, <3>0, <4>1 DEF Waiting
    <3> QED  BY <3>1, <3>2
  <2>5. meta'[e] = meta[e] /\ \A q \in Regions : e \in geo'[q] => e \in geo[q]
    BY <1>1, <1>7, OthersKept DEF Keys
  <2>6. ASSUME NEW i \in Nat, Has(road[e], i, e)', part'[road[e]][i].available,
               \A j \in Nat : j > i => ~Has(road[e], j, e)', ~Sending(e)'
        PROVE  e \in online'
    <3>1. \A j \in Nat : j > i => ~Has(road[e], j, e)
      BY <1>5, <2>1, <2>6
    <3> QED  BY <1>1, <1>5, <2>1, <2>2, <2>6, <3>1 DEF LastPingTells
  <2>7. /\ \A p \in sending' : p.driver = e /\ p.available => e \in online'
        /\ ~Sending(e)' /\ ~Waiting(road[e], e)' /\ e \notin online' =>
             meta'[e] = Nowhere /\ e \notin geo'[road[e]]
    BY <1>1, <2>1, <2>2, <2>4, <2>5 DEF LastPingTells
  <2> QED  BY <2>1, <2>3, <2>6, <2>7 DEF LastPingTells
<1>8. ASSUME NEW e \in Drivers, e = u.driver, road'[e] # Nowhere
      PROVE  OneRoad(e)' /\ LastPingTells(e)'
  <2>1. road'[e] = road[e] /\ road[e] \in Regions /\ OneRoad(e) /\ LastPingTells(e)
    <3>1. road'[e] = road[e]
      BY <1>1, <1>8, LostStep DEF Typed
    <3> QED  BY <1>8, <3>1, RoadType DEF OrderlyPings, InOrder
  <2>2. r = road[e] /\ Has(r, k, e)
    BY <1>3, <1>4, <1>8, <2>1 DEF OneRoad, Waiting
  <2>3. OneRoad(e)'
    BY <1>1, <1>6, <2>1 DEF OneRoad
  <2>4. Sending(e)' <=> Sending(e)
    BY <1>1 DEF Sending
  <2>5. ASSUME NEW i \in Nat, Has(r, i, e)', part'[r][i].available,
               \A j \in Nat : j > i => ~Has(r, j, e)', ~Sending(e)'
        PROVE  e \in online'
    <3>1. \A j \in Nat : j > i => ~Has(r, j, e)
      BY <1>5, <2>1, <2>5
    <3> QED  BY <1>1, <1>5, <2>1, <2>2, <2>4, <2>5, <3>1 DEF LastPingTells
  <2>6. ASSUME ~Sending(e)', ~Waiting(r, e)', e \notin online'
        PROVE  meta'[e] = Nowhere /\ e \notin geo'[r]
    <3>1. \A j \in Nat : j > k => ~Has(r, j, e)
      BY <1>1, <1>3, <2>6 DEF Waiting, Has
    <3>2. ~u.available
      BY <1>1, <1>3, <1>v, <2>1, <2>2, <2>4, <2>6, <3>1 DEF LastPingTells
    <3>3. Indexed(u)
      BY <1>1, <1>8, <3>2, LostStep DEF Typed
    <3> QED  BY <1>2, <1>8, <3>2, <3>3 DEF Indexed, Typed, RedisOK, Keys
  <2>7. \A p \in sending' : p.driver = e /\ p.available => e \in online'
    BY <1>1, <2>1 DEF LastPingTells
  <2> QED  BY <2>1, <2>2, <2>3, <2>5, <2>6, <2>7 DEF LastPingTells
<1> QED  BY <1>2, <1>7, <1>8 DEF OrderlyPings, InOrder

\* A commit renumbers what waits and changes nothing else.
LEMMA CommitInOrder ==
  ASSUME Typed, OrderlyPings, NEW r \in Regions, Commit(r)
  PROVE  OrderlyPings'
<1> DEFINE k == read[r]
<1>1. /\ k \in Nat /\ Len(part[r]) \in Nat /\ k <= Len(part[r])
      /\ read'[r] = 0
      /\ Len(part'[r]) = Len(part[r]) - k
      /\ \A i \in 1 .. Len(part'[r]) : part'[r][i] = part[r][k + i]
      /\ \A q \in Regions \ {r} : part'[q] = part[q] /\ read'[q] = read[q]
      /\ UNCHANGED <<online, sending, late, road, geo, meta>>
  BY CommitStep, UnreadType
<1> HIDE DEF k
<1>2. /\ \A i \in 1 .. Len(part'[r]) : k + i \in 1 .. Len(part[r])
      /\ \A i \in Unread(r)' : k + i \in Unread(r) /\ i \in Nat
      /\ \A j \in Unread(r) : j - k \in Unread(r)'
  <2>1. Unread(r) = k + 1 .. Len(part[r])
    BY DEF Unread, k
  <2>2. Unread(r)' = 1 .. Len(part[r]) - k
    BY <1>1 DEF Unread
  <2> QED  BY <1>1, <2>1, <2>2
<1>3. Filed'
  <2> SUFFICES ASSUME NEW q \in Regions, NEW i \in 1 .. Len(part'[q])
               PROVE  part'[q][i].region = q
    BY DEF Filed
  <2>1. CASE q = r
    <3>1. k + i \in 1 .. Len(part[r]) /\ part'[q][i] = part[r][k + i]
      BY <1>1, <1>2, <2>1
    <3> QED  BY <2>1, <3>1 DEF OrderlyPings, Filed
  <2>2. CASE q # r
    BY <1>1, <2>2 DEF OrderlyPings, Filed
  <2> QED  BY <2>1, <2>2
<1>4. \A e \in Drivers, i \in Nat : Has(r, i, e)' =>
        Has(r, k + i, e) /\ part'[r][i] = part[r][k + i]
  BY <1>1, <1>2 DEF Has
<1>5. \A e \in Drivers, j \in Nat : Has(r, j, e) /\ j > k =>
        \E i \in Nat : j = k + i /\ Has(r, i, e)'
  <2> SUFFICES ASSUME NEW e \in Drivers, NEW j \in Nat, Has(r, j, e), j > k
               PROVE  \E i \in Nat : j = k + i /\ Has(r, i, e)'
    OBVIOUS
  <2>1. j - k \in 1 .. Len(part'[r]) /\ j - k \in Nat /\ j = k + (j - k)
    BY <1>1 DEF Has
  <2>2. part'[r][j - k] = part[r][j]
    BY <1>1, <2>1
  <2> QED  BY <2>1, <2>2 DEF Has
<1>6. \A q \in Regions \ {r}, e \in Drivers :
        /\ Waiting(q, e)' <=> Waiting(q, e)
        /\ \A i \in Nat : (Has(q, i, e)' <=> Has(q, i, e)) /\ part'[q] = part[q]
  BY <1>1 DEF Has, Waiting, Unread
<1>7. \A e \in Drivers : Waiting(r, e)' <=> Waiting(r, e)
  <2> SUFFICES ASSUME NEW e \in Drivers PROVE Waiting(r, e)' <=> Waiting(r, e)
    OBVIOUS
  <2>1. ASSUME NEW i \in Unread(r)', Has(r, i, e)' PROVE Waiting(r, e)
    BY <1>2, <1>4, <2>1 DEF Waiting
  <2>2. ASSUME NEW j \in Unread(r), Has(r, j, e) PROVE Waiting(r, e)'
    <3>1. j \in Nat /\ j > k
      BY <1>1 DEF Unread, k
    <3>2. PICK i \in Nat : j = k + i /\ Has(r, i, e)'
      BY <1>5, <2>2, <3>1
    <3>3. i = j - k
      BY <1>1, <3>1, <3>2
    <3> QED  BY <1>2, <3>2, <3>3 DEF Waiting
  <2> QED  BY <2>1, <2>2 DEF Waiting
<1>8. ASSUME NEW e \in Drivers, road'[e] # Nowhere PROVE OneRoad(e)' /\ LastPingTells(e)'
  <2>1. road'[e] = road[e] /\ road[e] \in Regions /\ OneRoad(e) /\ LastPingTells(e)
    BY <1>1, <1>8, RoadType DEF OrderlyPings, InOrder
  <2>2. /\ Sending(e)' <=> Sending(e)
        /\ \A q \in Regions : Waiting(q, e)' <=> Waiting(q, e)
    BY <1>1, <1>6, <1>7 DEF Sending
  <2>3. OneRoad(e)'
    BY <1>1, <2>1, <2>2 DEF OneRoad
  <2>4. ASSUME NEW i \in Nat, Has(road[e], i, e)', part'[road[e]][i].available,
               \A j \in Nat : j > i => ~Has(road[e], j, e)', ~Sending(e)'
        PROVE  e \in online'
    <3>1. CASE road[e] = r
      <4>1. Has(r, k + i, e) /\ part[r][k + i].available /\ k + i \in Nat
        BY <1>1, <1>4, <2>4, <3>1
      <4>2. ASSUME NEW j \in Nat, j > k + i, Has(r, j, e) PROVE FALSE
        <5>1. PICK m \in Nat : j = k + m /\ Has(r, m, e)'
          BY <1>1, <1>5, <4>2
        <5>2. m > i
          BY <1>1, <4>2, <5>1
        <5> QED  BY <2>1, <2>4, <3>1, <5>1, <5>2
      <4> QED  BY <1>1, <2>1, <2>2, <2>4, <3>1, <4>1, <4>2 DEF LastPingTells
    <3>2. CASE road[e] # r
      <4>1. Has(road[e], i, e) /\ part[road[e]][i].available
        BY <1>6, <2>1, <2>4, <3>2
      <4>2. \A j \in Nat : j > i => ~Has(road[e], j, e)
        BY <1>6, <2>1, <2>4, <3>2
      <4> QED  BY <1>1, <2>1, <2>2, <2>4, <4>1, <4>2 DEF LastPingTells
    <3> QED  BY <3>1, <3>2
  <2>5. /\ \A p \in sending' : p.driver = e /\ p.available => e \in online'
        /\ ~Sending(e)' /\ ~Waiting(road[e], e)' /\ e \notin online' =>
             meta'[e] = Nowhere /\ e \notin geo'[road[e]]
    BY <1>1, <2>1, <2>2 DEF LastPingTells
  <2> QED  BY <2>1, <2>3, <2>4, <2>5 DEF LastPingTells
<1> QED  BY <1>3, <1>8 DEF OrderlyPings, InOrder

\* What is read again of a driver ends with the last ping, or leaves no road.
LEMMA RewindInOrder ==
  ASSUME Typed, OrderlyPings, NEW r \in Regions, Rewind(r)
  PROVE  OrderlyPings'
<1>1. /\ read' = [read EXCEPT ![r] = 0]
      /\ read \in [Regions -> Nat]
      /\ UNCHANGED <<online, sending, part, geo, meta>>
  BY RewindStep DEF Typed, StreamOK
<1>2. Filed'
  BY <1>1 DEF OrderlyPings, Filed
<1>3. ASSUME NEW e \in Drivers, road'[e] # Nowhere PROVE OneRoad(e)' /\ LastPingTells(e)'
  <2>1. /\ road'[e] = road[e] /\ road[e] \in Regions /\ OneRoad(e) /\ LastPingTells(e)
        /\ \A p \in late' : p.driver # e
        /\ r # road[e] => \A i \in 1 .. read[r] : part[r][i].driver # e
    BY <1>3, RewindStep, RoadType DEF OrderlyPings, InOrder
  <2>2. \A q \in Regions \ {r} : Waiting(q, e)' <=> Waiting(q, e)
    BY <1>1 DEF Waiting, Has, Unread
  <2>3. Waiting(r, e) => Waiting(r, e)'
    <3> SUFFICES ASSUME NEW i \in Unread(r), Has(r, i, e) PROVE Waiting(r, e)'
      BY DEF Waiting
    <3>1. i \in Unread(r)'
      BY <1>1 DEF Unread
    <3> QED  BY <1>1, <3>1 DEF Waiting, Has
  <2>4. Waiting(r, e)' => r = road[e]
    <3> SUFFICES ASSUME NEW i \in Unread(r)', Has(r, i, e), r # road[e] PROVE FALSE
      BY <1>1 DEF Waiting, Has
    <3>1. i \in 1 .. Len(part[r]) /\ read[r] \in Nat /\ Len(part[r]) \in Nat
      BY <1>1, UnreadType DEF Has
    <3>2. i \in 1 .. read[r] \/ i \in Unread(r)
      BY <3>1 DEF Unread
    <3> QED  BY <2>1, <3>2 DEF OneRoad, Waiting, Has
  <2>5. OneRoad(e)'
    BY <1>1, <2>1, <2>2, <2>4 DEF OneRoad
  <2>6. Sending(e)' <=> Sending(e)
    BY <1>1 DEF Sending
  <2>7. \A q \in Regions, i \in Nat : Has(q, i, e)' <=> Has(q, i, e)
    BY <1>1 DEF Has
  <2>8. Waiting(road[e], e) => Waiting(road[e], e)'
    BY <2>1, <2>2, <2>3
  <2>9. ASSUME NEW i \in Nat, Has(road[e], i, e)', part'[road[e]][i].available,
               \A j \in Nat : j > i => ~Has(road[e], j, e)', ~Sending(e)'
        PROVE  e \in online'
    <3>1. \A j \in Nat : j > i => ~Has(road[e], j, e)
      BY <2>1, <2>7, <2>9
    <3> QED  BY <1>1, <2>1, <2>6, <2>7, <2>9, <3>1 DEF LastPingTells
  <2>10. /\ \A p \in sending' : p.driver = e /\ p.available => e \in online'
         /\ ~Sending(e)' /\ ~Waiting(road[e], e)' /\ e \notin online' =>
              meta'[e] = Nowhere /\ e \notin geo'[road[e]]
    BY <1>1, <2>1, <2>6, <2>8 DEF LastPingTells
  <2> QED  BY <2>1, <2>5, <2>9, <2>10 DEF LastPingTells
<1> QED  BY <1>2, <1>3 DEF OrderlyPings, InOrder

\* A belated Upsert is of a driver who has no road.
LEMMA BelatedInOrder ==
  ASSUME Typed, OrderlyPings, NEW u \in late, Belated(u)
  PROVE  OrderlyPings'
<1>1. /\ u \in Ping /\ Indexed(u) /\ late' = late \ {u}
      /\ UNCHANGED <<online, sending, part, read, road>>
  BY BelatedStep
<1>2. Filed'
  BY <1>1 DEF OrderlyPings, Filed
<1>3. ASSUME NEW e \in Drivers, road[e] # Nowhere PROVE InOrder(e)'
  <2>1. e # u.driver
    BY <1>3 DEF OrderlyPings, InOrder, OneRoad
  <2>2. meta'[e] = meta[e] /\ \A k \in Keys : e \in geo'[k] => e \in geo[k]
    BY <1>1, <2>1, OthersKept
  <2>3. Sending(e)' <=> Sending(e)
    BY <1>1 DEF Sending
  <2> QED  BY <1>1, <2>2, <2>3, OrderKept DEF OrderlyPings
<1> QED  BY <1>1, <1>2, <1>3 DEF OrderlyPings, InOrder

LEMMA OrderlyNext ==
  ASSUME Typed, OrderlyPings, [Next]_vars
  PROVE  OrderlyPings'
<1>f. ASSUME UNCHANGED <<online, sending, part, read, late, road>>,
             \A e \in Drivers : meta'[e] # Nowhere => meta'[e] = meta[e],
             \A k \in Keys : geo'[k] \subseteq geo[k]
      PROVE  OrderlyPings'
  <2>1. Filed' /\ \A e \in Drivers : Sending(e)' <=> Sending(e)
    BY <1>f DEF OrderlyPings, Filed, Sending
  <2> QED  BY <1>f, <2>1, OrderKept DEF OrderlyPings
<1>1. CASE UNCHANGED vars
  BY <1>1, <1>f DEF vars, phones, stream, redis
<1>2. ASSUME NEW d \in Drivers, Drive(d) PROVE OrderlyPings'
  BY <1>2, DriveInOrder
<1>3. ASSUME NEW p \in sending, Publish(p) PROVE OrderlyPings'
  BY <1>3, PublishInOrder
<1>4. ASSUME NEW r \in Regions, Consume(r) PROVE OrderlyPings'
  BY <1>4, IndexInOrder, CommitInOrder, RewindInOrder DEF Consume
<1>5. ASSUME NEW u \in late, Belated(u) PROVE OrderlyPings'
  BY <1>5, BelatedInOrder
<1>6. ASSUME NEW d \in Drivers, NEW r \in Regions, Expire(d, r) PROVE OrderlyPings'
  BY <1>6, <1>f, ExpireStep
<1>7. ASSUME NEW s \in Searches, Nearest(s) PROVE OrderlyPings'
  BY <1>7, <1>f, NearestStep
<1> QED  BY <1>1, <1>2, <1>3, <1>4, <1>5, <1>6, <1>7 DEF Next

\* Once nothing is on its way, a driver who went offline has no hash, and the
\* region they left from does not hold them (app.js:65): whatever was lost,
\* repeated or read again before, if no earlier ping could be applied after the
\* final one and that one was not itself lost.
THEOREM OfflineIsGone == Spec => []FinalPingWins
<1>1. Init => OrderlyPings
  <2> SUFFICES ASSUME Init PROVE OrderlyPings
    OBVIOUS
  <2>1. \A r \in Regions : part[r] = <<>> /\ Len(part[r]) = 0
    BY DEF Init
  <2>2. Filed /\ \A r \in Regions, d \in Drivers : ~Waiting(r, d) /\ \A i : ~Has(r, i, d)
    BY <2>1 DEF Filed, Waiting, Has
  <2>3. \A d \in Drivers : road[d] \in Regions /\ road[d] \in Keys
    BY DEF Init, Keys
  <2>4. \A d \in Drivers : meta[d] = Nowhere /\ d \notin geo[road[d]]
    BY <2>3 DEF Init
  <2>5. \A d \in Drivers : OneRoad(d) /\ LastPingTells(d)
    BY <2>2, <2>3, <2>4 DEF Init, OneRoad, LastPingTells, Sending
  <2> QED  BY <2>2, <2>5 DEF OrderlyPings, InOrder
<1>2. Typed /\ OrderlyPings => FinalPingWins
  <2> SUFFICES ASSUME Typed, OrderlyPings, Settled, NEW d \in Drivers \ online,
                      road[d] # Nowhere
               PROVE  meta[d] = Nowhere /\ d \notin geo[road[d]]
    BY DEF FinalPingWins
  <2>1. ~Sending(d)
    BY DEF Settled, Sending
  <2>2. ~Waiting(road[d], d)
    BY RoadType, UnreadType DEF Settled, Unread, Waiting
  <2> QED  BY <2>1, <2>2 DEF OrderlyPings, InOrder, LastPingTells
<1>3. Spec => [](Typed /\ OrderlyPings)
  BY <1>1, TypedInit, TypedNext, OrderlyNext, PTL DEF Spec
<1> QED  BY <1>2, <1>3, PTL

(***************************************************************************)
(* Candidates, and rides over the index.                                   *)
(***************************************************************************)
\* A hash that is there was written within its TTL.
HashIsFresh == \A d \in Drivers : meta[d] # Nowhere => <<d, meta[d]>> \in recent

LEMMA UpsertKeepsHash ==
  ASSUME Typed, HashIsFresh, NEW u \in Ping, Upsert(u)
  PROVE  HashIsFresh'
<1>1. /\ meta \in [Drivers -> Regions \cup {Nowhere}]
      /\ u.driver \in Drivers /\ u.region \in Regions
  BY DEF Typed, RedisOK, Ping
<1>2. CASE Available(u) /\ recent' = recent \cup {<<u.driver, u.region>>}
  BY <1>1, <1>2 DEF Available, HashIsFresh
<1>3. CASE Remove(u) /\ recent' = recent \ {<<u.driver, u.region>>}
  BY <1>1, <1>3 DEF Remove, HashIsFresh
<1> QED
  BY <1>2, <1>3 DEF Upsert

LEMMA HashStep == Typed /\ HashIsFresh /\ [Next]_vars => HashIsFresh'
<1> SUFFICES ASSUME Typed, HashIsFresh, [Next]_vars PROVE HashIsFresh'
  OBVIOUS
<1>1. CASE UNCHANGED <<meta, recent>>
  BY <1>1 DEF HashIsFresh
<1>2. ASSUME NEW r \in Regions, Index(r) PROVE HashIsFresh'
  <2>1. part[r][read[r] + 1] \in Ping
    BY <1>2, IndexStep
  <2> QED
    BY <1>1, <1>2, <2>1, UpsertKeepsHash DEF Index, redis
<1>9. ASSUME NEW u \in late, Belated(u) PROVE HashIsFresh'
  BY <1>9, BelatedStep, UpsertKeepsHash DEF Belated
<1>3. ASSUME NEW d \in Drivers, NEW r \in Regions, Expire(d, r) PROVE HashIsFresh'
  <2>1. /\ meta \in [Drivers -> Regions \cup {Nowhere}]
        /\ meta' = IF meta[d] = r THEN [meta EXCEPT ![d] = Nowhere] ELSE meta
        /\ recent' = recent \ {<<d, r>>}
    BY <1>3 DEF Expire, AfterTTL, Typed, RedisOK
  <2> QED
    BY <2>1 DEF HashIsFresh
<1>4. ASSUME NEW d \in Drivers, Drive(d) PROVE UNCHANGED <<meta, recent>>
  BY <1>4 DEF Drive, Toggle, Tick, Move, Send, redis
<1>5. ASSUME NEW p \in sending, Publish(p) PROVE UNCHANGED <<meta, recent>>
  BY <1>5 DEF Publish, redis
<1>6. ASSUME NEW r \in Regions, Commit(r) \/ Rewind(r) PROVE UNCHANGED <<meta, recent>>
  BY <1>6 DEF Commit, Rewind, redis
<1>7. ASSUME NEW s \in Searches, Nearest(s) PROVE UNCHANGED <<meta, recent>>
  BY <1>7 DEF Nearest, Begin, Scan, Check, Evict, Return, redis
<1>8. CASE UNCHANGED vars
  BY <1>1, <1>8 DEF vars, redis
<1> QED
  BY <1>1, <1>2, <1>3, <1>4, <1>5, <1>6, <1>7, <1>8, <1>9 DEF Next, Consume

\* Candidates appear in a search when their hash is read, and in no other step.
LEMMA FoundByCheck ==
  ASSUME Typed, [Next]_vars, NEW s \in Searches, NEW d, d \in search'[s].found \ search[s].found
  PROVE  meta[d] # Nowhere /\ d \in search[s].hits
<1>1. search \in [Searches -> Search]
  BY DEF Typed, SearchOK
<1>2. PICK q \in Searches : Nearest(q)
  BY DEF Next, Drive, Toggle, Tick, Move, Send, Publish, Consume, Index, Commit, Rewind,
         Belated, Expire, vars
<1>3. CASE \E r \in Regions : Begin(q, r)
  BY <1>1, <1>3 DEF Begin, Set, NoSearch
<1>4. CASE Scan(q)
  BY <1>1, <1>4 DEF Scan, Set, Search
<1>5. CASE Evict(q)
  BY <1>1, <1>5 DEF Evict, Set, Search
<1>6. CASE Return(q)
  BY <1>1, <1>6 DEF Return, Set, NoSearch
<1>7. ASSUME NEW e \in Drivers, Check(q, e)
      PROVE  meta[d] # Nowhere /\ d \in search[s].hits
  <2> DEFINE left == [search[q] EXCEPT !.hits = @ \ {e}]
  <2>1. left.found = search[q].found
    BY <1>1 DEF Search
  <2>2. CASE /\ meta[e] # Nowhere
             /\ search' = [search EXCEPT ![q] = [left EXCEPT !.found = @ \cup {e}]]
    BY <1>1, <1>7, <2>1, <2>2 DEF Check, Search
  <2>3. CASE search' = [search EXCEPT ![q] = [left EXCEPT !.stale = {e}]]
    BY <1>1, <2>1, <2>3 DEF Search
  <2> QED
    BY <1>7, <2>2, <2>3 DEF Check, Set
<1> QED
  BY <1>2, <1>3, <1>4, <1>5, <1>6, <1>7 DEF Nearest

\* What is left of CandidateIsRecent, which a driver who moved breaks: a
\* candidate was indexed within freshTTL, in the region its hash names if not
\* in the one it is found in (geo.go:17-18, 85-90).
THEOREM CandidateWasSeen ==
  Spec => [][\A s \in Searches, d \in Drivers :
               d \in search'[s].found \ search[s].found
                 => meta[d] # Nowhere /\ <<d, meta[d]>> \in recent]_vars
<1>1. Init => HashIsFresh
  BY DEF Init, HashIsFresh
<1>2. Typed /\ HashIsFresh /\ [Next]_vars =>
        [\A s \in Searches, d \in Drivers :
           d \in search'[s].found \ search[s].found
             => meta[d] # Nowhere /\ <<d, meta[d]>> \in recent]_vars
  BY FoundByCheck DEF HashIsFresh
<1> QED
  BY <1>1, <1>2, TypedInit, TypedNext, HashStep, PTL DEF Spec

\* What is left of MidTripNotMatched, which drivers who ping on break: to the
\* index a ride is one more search. No step of a trip touches it, so whatever
\* DriverIndex keeps it keeps under rides (match.go, main.go:143-175).
THEOREM RidesOnlySearch == DispatchSpec => Spec
<1>1. DispatchInit => Init
  BY DEF DispatchInit
<1>2. [DispatchNext]_dispatchVars => [Next]_vars
  BY DEF DispatchNext, dispatchVars, Match, StartTrip, EndTrip, Next, Nearest
<1> QED
  BY <1>1, <1>2, PTL DEF DispatchSpec, Spec

COROLLARY OfflineIsGoneUnderRides == DispatchSpec => []FinalPingWins
BY RidesOnlySearch, OfflineIsGone, PTL
==================================================================================
