--------------------------------- MODULE Ingest ---------------------------------
(***************************************************************************)
(* The ingest edge of cmd/api: handleLocation takes a slot of ingestSem or *)
(* sheds the ping, publishes it under the key of its region, and gives the *)
(* slot back when it returns. What becomes of a ping that is published is  *)
(* the matter of DriverIndex. One process; module Edge composes it with    *)
(* the surge engine.                                                       *)
(***************************************************************************)
EXTENDS Region, FiniteSets

CONSTANTS
  Handlers,   \* goroutines that can serve a ping at once
  Slots,      \* the capacity of ingestSem
  Points      \* the positions <<lat, lng>> phones send

ASSUME IngestAssumption ==
  /\ IsFiniteSet(Handlers)
  /\ Slots \in Nat \ {0}
  /\ Points \subseteq Int \X Int

VARIABLES
  handler,    \* handler[h]: where the goroutine is in handleLocation
  used,       \* the tokens in ingestSem
  message     \* message[h]: the kafka.Message h is writing

ingestVars == <<handler, used, message>>

Shard == [p \in Points |-> Key(p[1], p[2])]

NoMessage == [at |-> <<>>, key |-> <<>>]

IngestTypeOK ==
  /\ handler \in [Handlers -> {"idle", "shed", "reading", "writing"}]
  /\ used \in 0 .. Slots

IngestInit ==
  /\ handler = [h \in Handlers |-> "idle"]
  /\ used = 0
  /\ message = [h \in Handlers |-> NoMessage]

Moves(h, from, to) == handler[h] = from /\ handler' = [handler EXCEPT ![h] = to]
Keeps(h, m) == message' = [message EXCEPT ![h] = m]

\* The non-blocking send on ingestSem.
Acquire(h) ==
  /\ \/ used < Slots /\ Moves(h, "idle", "reading") /\ used' = used + 1
     \/ used = Slots /\ Moves(h, "idle", "shed") /\ UNCHANGED used      \* 503
  /\ UNCHANGED message

Answered(h) == Moves(h, "shed", "idle") /\ UNCHANGED <<used, message>>

\* The message is partitioned by region; no position is validated.
Decoded(h) ==
  /\ Moves(h, "reading", "writing")
  /\ \E p \in Points : Keeps(h, [at |-> p, key |-> Shard[p]])
  /\ UNCHANGED used

EarlyReturn(h) ==                                            \* mutant of BadBody
  Moves(h, "reading", "idle") /\ UNCHANGED <<used, message>>

\* 400: the body does not decode, or its client is gone. The deferred receive
\* frees the slot on this path too.
BadBody(h) == Moves(h, "reading", "idle") /\ used' = used - 1 /\ UNCHANGED message

\* WriteMessages returns: 202, or 502 after its retries or a cancelled context.
Written(h) == Moves(h, "writing", "idle") /\ used' = used - 1 /\ Keeps(h, NoMessage)

HandleLocation(h) == Acquire(h) \/ Answered(h) \/ Decoded(h) \/ BadBody(h) \/ Written(h)

\* A new process has a new semaphore.
IngestRestart ==
  /\ handler' = [h \in Handlers |-> "idle"]
  /\ used' = 0
  /\ message' = [h \in Handlers |-> NoMessage]
--------------------------------------------------------------------------------
\* Handlers between taking a slot and returning.
Holding == { h \in Handlers : handler[h] \in {"reading", "writing"} }

\* The tokens in ingestSem are those of handlers at work: none is lost on an
\* error path and none given back twice, so a ping is shed only when Slots
\* others are being served (main.go:100-110, "protecting the match path").
SlotsAreHeld == used = Cardinality(Holding)

\* Shedding is a passing state (README.md:136, "ingest edge sheds load (503)"):
\* after a 503 a slot comes free again, unless every slot is held by a ping
\* whose body is still arriving. The server sets no ReadTimeout (main.go:84),
\* so nothing says that a body ever ends.
SheddingEnds ==
  \A h \in Handlers : handler[h] = "shed" ~>
    used < Slots \/ used = Cardinality({ g \in Handlers : handler[g] = "reading" })

Cell   == [p \in Points |-> CellOf(p[1], p[2], Precision)]
Around == [p \in Points |-> CellOf(p[1], p[2], Precision - 1)]
Coarse == [p \in Points |-> Neighbors(p[1], p[2])[2]]

\* The loop of Geohash computes the cell a ping is in (region.go:42-80): shards
\* tile the map, points beyond it fall to its edge, and the coarse cell a
\* search adds there is the one around the shard (region.go:23-40).
KeyIsCell ==
  \A h \in Handlers : handler[h] = "writing" =>
    LET p == message[h].at IN message[h].key = Cell[p] /\ Coarse[p] = Around[p]
================================================================================
