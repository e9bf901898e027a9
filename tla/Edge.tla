----------------------------------- MODULE Edge -----------------------------------
(***************************************************************************)
(* What one process of cmd/api does beside trips: it takes in the pings    *)
(* (Ingest), counts ride requests and quotes prices (Surge), and names the *)
(* shard of both (Region, through Ingest). The parts share the process: it *)
(* may stop at any moment, and only what is in Redis is there when it is   *)
(* back.                                                                   *)
(***************************************************************************)
EXTENDS Ingest, Surge

vars == <<ingestVars, surgeVars>>

Init == IngestInit /\ SurgeInit

HandleOne(h) == HandleLocation(h) /\ UNCHANGED surgeVars
SurgeOne     == SurgeStep /\ UNCHANGED ingestVars
Restart      == IngestRestart /\ SurgeRestart

Next == (\E h \in Handlers : HandleOne(h)) \/ SurgeOne \/ Restart

Spec == Init /\ [][Next]_vars

\* Produces return within their retries, and time passes. Bodies, requests and
\* quotes are owed nothing.
Fairness ==
  /\ \A h \in Handlers : WF_vars(Written(h) /\ UNCHANGED surgeVars)
  /\ WF_vars(Lapse /\ UNCHANGED ingestVars)

FairSpec == Spec /\ Fairness

TypeOK == IngestTypeOK /\ SurgeTypeOK
================================================================================
