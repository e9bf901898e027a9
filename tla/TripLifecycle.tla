----------------------------- MODULE TripLifecycle -----------------------------
(***************************************************************************)
(* What the trip API promises of one trip, with nothing of how it does it: *)
(* seen[t] is the set of states trip t has ever been given in the          *)
(* active-trip cache. A trip enters the cache ASSIGNED.                    *)
(*                                                                         *)
(* Spec is the promise of trip.go:21-32: the next state is a legal         *)
(* successor of the current one. StaleSpec is the weaker promise that      *)
(* survives concurrent requests: the next state is a legal successor of a  *)
(* state the trip has had.                                                 *)
(***************************************************************************)
EXTENDS TripStates, TLAPS

CONSTANT Trips
VARIABLE seen

\* The state of S no other state of S succeeds.
IsLatest(s, S) == s \in S /\ \A u \in S : ~CanTransition(s, u)

Init == seen = [t \in Trips |-> {}]

Assign(t) ==
  /\ seen[t] = {}
  /\ seen' = [seen EXCEPT ![t] = {"ASSIGNED"}]

Move(t, from, to) ==
  /\ from \in seen[t]
  /\ CanTransition(from, to)
  /\ seen' = [seen EXCEPT ![t] = @ \cup {to}]

Next == \E t \in Trips :
          \/ Assign(t)
          \/ \E from, to \in States : IsLatest(from, seen[t]) /\ Move(t, from, to)

StaleNext == \E t \in Trips :
               \/ Assign(t)
               \/ \E from, to \in States : Move(t, from, to)

Spec == Init /\ [][Next]_seen
StaleSpec == Init /\ [][StaleNext]_seen
--------------------------------------------------------------------------------
\* What StaleSpec is worth: nothing starts, or completes, out of nowhere.
HistoryExplained ==
  \A t \in Trips :
    /\ seen[t] \subseteq States \ {"REQUESTED"}
    /\ seen[t] # {} => "ASSIGNED" \in seen[t]
    /\ "COMPLETED" \in seen[t] => "IN_PROGRESS" \in seen[t]

\* What Spec adds: a trip has one outcome, and it is the last thing it has.
OneOutcome == \A t \in Trips : ~({"COMPLETED", "CANCELLED"} \subseteq seen[t])
--------------------------------------------------------------------------------
TypeOK == seen \in [Trips -> SUBSET States]

LEMMA MoveKeeps ==
  ASSUME TypeOK, HistoryExplained, NEW t \in Trips, NEW from \in States, NEW to \in States,
         Move(t, from, to)
  PROVE  TypeOK' /\ HistoryExplained'
<1>1. /\ from \in seen[t]
      /\ <<from, to>> \in validTransitions
      /\ seen' = [seen EXCEPT ![t] = @ \cup {to}]
  BY DEF Move, CanTransition
<1>2. to # "REQUESTED" /\ (to = "COMPLETED" => from = "IN_PROGRESS")
  BY <1>1 DEF validTransitions
<1> QED  BY <1>1, <1>2 DEF TypeOK, HistoryExplained

LEMMA AssignKeeps ==
  ASSUME TypeOK, HistoryExplained, NEW t \in Trips, Assign(t)
  PROVE  TypeOK' /\ HistoryExplained'
BY DEF TypeOK, HistoryExplained, Assign, States

\* Concurrent requests never start a trip that was not assigned nor complete
\* one that was not started (trip.go:23-27).
THEOREM StaleHistory == StaleSpec => []HistoryExplained
<1>1. Init => TypeOK /\ HistoryExplained
  BY DEF Init, TypeOK, HistoryExplained
<1>2. TypeOK /\ HistoryExplained /\ [StaleNext]_seen => TypeOK' /\ HistoryExplained'
  <2> SUFFICES ASSUME TypeOK, HistoryExplained, [StaleNext]_seen
               PROVE  TypeOK' /\ HistoryExplained'
    OBVIOUS
  <2>1. CASE UNCHANGED seen
    BY <2>1 DEF TypeOK, HistoryExplained
  <2>2. CASE StaleNext
    BY <2>2, MoveKeeps, AssignKeeps DEF StaleNext
  <2> QED  BY <2>1, <2>2
<1> QED  BY <1>1, <1>2, PTL DEF StaleSpec

\* Requests that respect the latest state give a trip one outcome.
THEOREM LatestGivesOneOutcome == Spec => []OneOutcome
<1> DEFINE Inv == TypeOK /\ HistoryExplained /\ OneOutcome
<1>1. Init => Inv
  BY DEF Init, TypeOK, HistoryExplained, OneOutcome
<1>2. Inv /\ [Next]_seen => Inv'
  <2> SUFFICES ASSUME Inv, [Next]_seen PROVE Inv'
    OBVIOUS
  <2>1. CASE UNCHANGED seen
    BY <2>1 DEF TypeOK, HistoryExplained, OneOutcome
  <2>2. ASSUME NEW t \in Trips, Assign(t) PROVE Inv'
    <3>1. OneOutcome'
      BY <2>2 DEF Assign, TypeOK, OneOutcome
    <3> QED  BY <2>2, <3>1, AssignKeeps
  <2>3. ASSUME NEW t \in Trips, NEW from \in States, NEW to \in States,
               IsLatest(from, seen[t]), Move(t, from, to)
        PROVE  Inv'
    <3>1. /\ from \in seen[t]
          /\ <<from, to>> \in validTransitions
          /\ \A u \in seen[t] : <<from, u>> \notin validTransitions
          /\ seen' = [seen EXCEPT ![t] = @ \cup {to}]
      BY <2>3 DEF Move, IsLatest, CanTransition
    <3>2. to = "COMPLETED" => "CANCELLED" \notin seen[t]
      BY <3>1 DEF validTransitions
    <3>3. to = "CANCELLED" => "COMPLETED" \notin seen[t]
      <4>1. "COMPLETED" \in seen[t] => {"ASSIGNED", "IN_PROGRESS"} \subseteq seen[t]
        BY DEF HistoryExplained
      <4>2. from # "REQUESTED"
        BY <3>1 DEF HistoryExplained
      <4> QED  BY <3>1, <4>1, <4>2 DEF validTransitions
    <3>4. OneOutcome'
      BY <3>1, <3>2, <3>3 DEF TypeOK, OneOutcome
    <3> QED  BY <2>3, <3>4, MoveKeeps
  <2> QED  BY <2>1, <2>2, <2>3 DEF Next
<1> QED  BY <1>1, <1>2, PTL DEF Spec
================================================================================
