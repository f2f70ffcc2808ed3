-------------------------- MODULE StatFlightProofs --------------------------
(***************************************************************************)
(* Proofs about StatFlight, for any paths, callers, timeout and bounds: a  *)
(* frozen mount hangs one goroutine per path, and each of its flights      *)
(* burns one timeout.                                                      *)
(***************************************************************************)
EXTENDS StatFlight, TLAPS

(* An entry of the map names a flight of its key that is still running, and *)
(* a running flight is the entry of its key.                                *)
Registered == \A f \in Flights : flight[f].state \in {"spawned", "stat", "done"} =>
                                    map[flight[f].key] = f

(* When the stat of flight f may be given up. *)
Budget(f) == Timeout + IF flight[f].state = "spawned" THEN flight[f].created
                                                      ELSE flight[f].started

(* No flight claims to have begun in the future. *)
NotAhead == \A f \in Flights : flight[f].started <= now /\ flight[f].created <= now
                               /\ (flight[f].state = "spawned" =>
                                      flight[f].started <= flight[f].created)

RunsNotAhead == \A c \in Callers : caller[c].run <= now

(* A caller that waits has a flight, a deadline it has not passed, and one  *)
(* within the budget of the flight.                                         *)
Patient(c) == /\ caller[c].on \in Flights
              /\ flight[caller[c].on].state # "none"
              /\ now <= caller[c].until
              /\ caller[c].until <= Budget(caller[c].on)

AllPatient == \A c \in Callers : Waiting(c) => Patient(c)

Inv == TypeOK /\ EntryHasGoroutine /\ Registered /\ NotAhead /\ RunsNotAhead /\ AllPatient

FlightType == [state : {"none", "spawned", "stat", "done", "gone"}, key : Keys,
               created : 0 .. MaxTime, started : 0 .. MaxTime]
CallerType == [at : {"idle", "run", "wait"}, run : 0 .. MaxTime, on : Flights \cup {0},
               until : 0 .. MaxTime + Timeout]

LEMMA TypeOKSplit == TypeOK <=> /\ now \in 0 .. MaxTime
                                /\ map \in [Keys -> Flights \cup {0}]
                                /\ flight \in [Flights -> FlightType]
                                /\ caller \in [Callers -> CallerType]
  BY DEF TypeOK, FlightType, CallerType

LEMMA CallerUpdate ==
  ASSUME NEW d, d \in CallerType, NEW c \in Callers, TypeOK,
         caller' = [caller EXCEPT ![c] = d], UNCHANGED <<now, map, flight>>
  PROVE  TypeOK'
  BY TypeOKSplit DEF TypeOK, FlightType, CallerType

LEMMA FlightUpdate ==
  ASSUME NEW g, g \in FlightType, NEW f \in Flights, TypeOK,
         flight' = [flight EXCEPT ![f] = g], UNCHANGED now,
         map' \in [Keys -> Flights \cup {0}], caller' \in [Callers -> CallerType]
  PROVE  TypeOK'
  BY DEF TypeOK, FlightType, CallerType

LEMMA IdleTyped == FlightAssumption => Idle \in CallerType
  BY DEF Idle, CallerType, FlightAssumption

(* startOrJoin, waitStatFlight and the goroutine keep every variable in its *)
(* type.                                                                    *)
LEMMA TypeStep == TypeOK /\ [Next]_vars => TypeOK'
<1> SUFFICES ASSUME TypeOK, [Next]_vars PROVE TypeOK'
    OBVIOUS
<1> USE FlightAssumption DEF FlightAssumption
<1>1. CASE UNCHANGED vars
  BY <1>1 DEF vars, TypeOK
<1>2. ASSUME NEW c \in Callers, BeginRun(c) PROVE TypeOK'
  <2>1. [Idle EXCEPT !.at = "run", !.run = now] \in CallerType
    <3>1. ASSUME NEW d \in CallerType
          PROVE  [d EXCEPT !.at = "run", !.run = now] \in CallerType
      BY TypeOKSplit DEF CallerType
    <3>2. QED
      BY <3>1, IdleTyped
  <2>2. QED
    BY <1>2, <2>1, CallerUpdate DEF BeginRun
<1>3. ASSUME NEW c \in Callers, Result(c) PROVE TypeOK'
  BY <1>3, IdleTyped, CallerUpdate DEF Result
<1>4. ASSUME NEW c \in Callers, TimedOut(c) PROVE TypeOK'
  BY <1>4, IdleTyped, CallerUpdate DEF TimedOut
<1>5. ASSUME NEW c \in Callers, NEW k \in Keys, StartFlight(c, k) PROVE TypeOK'
  <2>1. PICK f \in Flights :
          /\ flight' = [flight EXCEPT ![f] = [state |-> "spawned", key |-> k, created |-> now,
                                              started |-> caller[c].run]]
          /\ map' = [map EXCEPT ![k] = f]
          /\ caller' = [caller EXCEPT ![c] = [@ EXCEPT !.at = "wait", !.on = f,
                                                       !.until = now + Timeout]]
    BY <1>5 DEF StartFlight
  <2>2. UNCHANGED now
    BY <1>5 DEF StartFlight
  <2>3. [state |-> "spawned", key |-> k, created |-> now, started |-> caller[c].run] \in FlightType
    BY TypeOKSplit DEF FlightType, CallerType
  <2>4. [caller[c] EXCEPT !.at = "wait", !.on = f, !.until = now + Timeout] \in CallerType
    <3>1. now + Timeout \in 0 .. MaxTime + Timeout
      BY DEF TypeOK
    <3>2. QED
      BY <3>1, TypeOKSplit DEF CallerType
  <2>5. map' \in [Keys -> Flights \cup {0}] /\ caller' \in [Callers -> CallerType]
    BY <2>1, <2>4, TypeOKSplit
  <2>6. QED
    BY <2>1, <2>2, <2>3, <2>5, FlightUpdate
<1>6. ASSUME NEW c \in Callers, NEW k \in Keys, JoinFlight(c, k) PROVE TypeOK'
  <2> DEFINE deadline == flight[map[k]].started + Timeout
  <2>1. CASE deadline <= now
    BY <1>6, <2>1, IdleTyped, CallerUpdate DEF JoinFlight
  <2>2. CASE ~(deadline <= now)
    <3>1. map[k] \in Flights
      BY <1>6 DEF JoinFlight, TypeOK
    <3>2. deadline \in 0 .. MaxTime + Timeout
      BY <3>1 DEF TypeOK
    <3>3. [caller[c] EXCEPT !.at = "wait", !.on = map[k], !.until = deadline] \in CallerType
      BY <3>1, <3>2, TypeOKSplit DEF CallerType
    <3>4. caller' = [caller EXCEPT ![c] = [caller[c] EXCEPT !.at = "wait", !.on = map[k],
                                                           !.until = deadline]]
      BY <1>6, <2>2 DEF JoinFlight
    <3>5. UNCHANGED <<now, map, flight>>
      BY <1>6 DEF JoinFlight
    <3>6. QED
      BY <3>3, <3>4, <3>5, CallerUpdate
  <2>3. QED
    BY <2>1, <2>2
<1>7. ASSUME NEW f \in Flights, CallStat(f) PROVE TypeOK'
  <2>1. [flight[f] EXCEPT !.state = "stat", !.started = now] \in FlightType
    BY TypeOKSplit DEF FlightType
  <2>2. flight' = [flight EXCEPT ![f] = [flight[f] EXCEPT !.state = "stat", !.started = now]]
    BY <1>7, TypeOKSplit DEF CallStat, FlightType
  <2>3. QED
    BY <1>7, <2>1, <2>2, FlightUpdate, TypeOKSplit DEF CallStat
<1>8. ASSUME NEW f \in Flights, StatReturns(f) PROVE TypeOK'
  BY <1>8 DEF StatReturns, TypeOK
<1>9. ASSUME NEW f \in Flights, RemoveEntry(f) PROVE TypeOK'
  BY <1>9 DEF RemoveEntry, TypeOK
<1>10. CASE Tick
  BY <1>10 DEF Tick, TypeOK
<1>11. QED
  BY <1>1, <1>2, <1>3, <1>4, <1>5, <1>6, <1>7, <1>8, <1>9, <1>10 DEF Next

(* The map and the goroutines stay each other's mirror. *)
LEMMA MapStep ==
  TypeOK /\ EntryHasGoroutine /\ Registered /\ [Next]_vars => (EntryHasGoroutine /\ Registered)'
<1> SUFFICES ASSUME TypeOK, EntryHasGoroutine, Registered, [Next]_vars
             PROVE  EntryHasGoroutine' /\ Registered'
    OBVIOUS
<1> USE FlightAssumption DEF FlightAssumption, TypeOK, Flights, EntryHasGoroutine, Registered
<1>1. CASE UNCHANGED <<map, flight>>
  BY <1>1
<1>2. ASSUME NEW c \in Callers, NEW k \in Keys, StartFlight(c, k)
      PROVE  EntryHasGoroutine' /\ Registered'
  <2>1. PICK f \in Flights :
          /\ flight[f].state = "none"
          /\ flight' = [flight EXCEPT ![f] = [state |-> "spawned", key |-> k, created |-> now,
                                              started |-> caller[c].run]]
          /\ map' = [map EXCEPT ![k] = f]
    BY <1>2 DEF StartFlight
  <2>2. map[k] = 0 /\ f # 0
    BY <1>2 DEF StartFlight
  <2>3. \A j \in Keys : map[j] # f
    BY <2>1, <2>2
  <2>4. EntryHasGoroutine'
    BY <2>1, <2>2, <2>3
  <2>5. Registered'
    BY <2>1, <2>2
  <2>6. QED
    BY <2>4, <2>5
<1>3. ASSUME NEW f \in Flights, CallStat(f) PROVE EntryHasGoroutine' /\ Registered'
  BY <1>3 DEF CallStat
<1>4. ASSUME NEW f \in Flights, StatReturns(f) PROVE EntryHasGoroutine' /\ Registered'
  BY <1>4 DEF StatReturns
<1>5. ASSUME NEW f \in Flights, RemoveEntry(f) PROVE EntryHasGoroutine' /\ Registered'
  <2>1. map[flight[f].key] = f
    BY <1>5 DEF RemoveEntry
  <2>2. \A j \in Keys : map[j] = f => j = flight[f].key
    BY <1>5
  <2>3. EntryHasGoroutine'
    BY <1>5, <2>1, <2>2 DEF RemoveEntry
  <2>4. Registered'
    BY <1>5, <2>1, <2>2 DEF RemoveEntry
  <2>5. QED
    BY <2>3, <2>4
<1>6. QED
  BY <1>1, <1>2, <1>3, <1>4, <1>5
     DEF Next, BeginRun, Result, TimedOut, JoinFlight, Tick, vars

(* Time only passes callers that can still wait, and a stat that begins     *)
(* late begins a budget that is no shorter than the one its creator saw.    *)
LEMMA TimeStep ==
  TypeOK /\ EntryHasGoroutine /\ NotAhead /\ RunsNotAhead /\ AllPatient /\ [Next]_vars
    => (NotAhead /\ RunsNotAhead /\ AllPatient)'
<1> SUFFICES ASSUME TypeOK, EntryHasGoroutine, NotAhead, RunsNotAhead, AllPatient, [Next]_vars
             PROVE  NotAhead' /\ RunsNotAhead' /\ AllPatient'
    OBVIOUS
<1> USE FlightAssumption DEF FlightAssumption, TypeOK, Flights, NotAhead, RunsNotAhead,
                             AllPatient, Patient, Waiting, Budget
<1>1. CASE UNCHANGED vars
  BY <1>1 DEF vars
<1>2. ASSUME NEW c \in Callers, BeginRun(c) PROVE NotAhead' /\ RunsNotAhead' /\ AllPatient'
  BY <1>2 DEF BeginRun, Idle
<1>3. ASSUME NEW c \in Callers, Result(c) PROVE NotAhead' /\ RunsNotAhead' /\ AllPatient'
  BY <1>3 DEF Result, Idle
<1>4. ASSUME NEW c \in Callers, TimedOut(c) PROVE NotAhead' /\ RunsNotAhead' /\ AllPatient'
  BY <1>4 DEF TimedOut, Idle
<1>5. ASSUME NEW c \in Callers, NEW k \in Keys, StartFlight(c, k)
      PROVE  NotAhead' /\ RunsNotAhead' /\ AllPatient'
  <2>1. PICK f \in Flights :
          /\ flight[f].state = "none"
          /\ flight' = [flight EXCEPT ![f] = [state |-> "spawned", key |-> k, created |-> now,
                                              started |-> caller[c].run]]
          /\ caller' = [caller EXCEPT ![c] = [@ EXCEPT !.at = "wait", !.on = f,
                                                       !.until = now + Timeout]]
    BY <1>5 DEF StartFlight
  <2>2. now' = now
    BY <1>5 DEF StartFlight
  <2>3. NotAhead' /\ RunsNotAhead'
    BY <2>1, <2>2
  <2>4. AllPatient'
    BY <2>1, <2>2
  <2>5. QED
    BY <2>3, <2>4
<1>6. ASSUME NEW c \in Callers, NEW k \in Keys, JoinFlight(c, k)
      PROVE  NotAhead' /\ RunsNotAhead' /\ AllPatient'
  <2>1. map[k] \in Flights /\ flight[map[k]].state # "none"
    BY <1>6 DEF JoinFlight, EntryHasGoroutine
  <2>2. flight[map[k]].started + Timeout <= Budget(map[k])
    BY <2>1
  <2>3. NotAhead' /\ RunsNotAhead'
    BY <1>6 DEF JoinFlight, Idle
  <2>4. AllPatient'
    BY <1>6, <2>1, <2>2 DEF JoinFlight, Idle
  <2>5. QED
    BY <2>3, <2>4
<1>7. ASSUME NEW f \in Flights, CallStat(f) PROVE NotAhead' /\ RunsNotAhead' /\ AllPatient'
  BY <1>7 DEF CallStat
<1>8. ASSUME NEW f \in Flights, StatReturns(f) PROVE NotAhead' /\ RunsNotAhead' /\ AllPatient'
  BY <1>8 DEF StatReturns
<1>9. ASSUME NEW f \in Flights, RemoveEntry(f) PROVE NotAhead' /\ RunsNotAhead' /\ AllPatient'
  BY <1>9 DEF RemoveEntry
<1>10. CASE Tick
  BY <1>10 DEF Tick
<1>11. QED
  BY <1>1, <1>2, <1>3, <1>4, <1>5, <1>6, <1>7, <1>8, <1>9, <1>10 DEF Next

LEMMA InitInv == Init => Inv
<1> SUFFICES ASSUME Init PROVE Inv
    OBVIOUS
<1> USE FlightAssumption DEF FlightAssumption
<1>1. NoFlight \in FlightType /\ NoFlight.state = "none"
  BY DEF NoFlight, FlightType
<1>2. TypeOK
  BY <1>1, IdleTyped, TypeOKSplit DEF Init
<1>3. EntryHasGoroutine /\ Registered
  BY <1>1 DEF Init, EntryHasGoroutine, Registered
<1>4. NotAhead /\ RunsNotAhead /\ AllPatient
  <2>1. \A f \in Flights : flight[f].started = 0 /\ flight[f].created = 0
    BY DEF Init, NoFlight
  <2>2. \A c \in Callers : caller[c].run = 0 /\ caller[c].at = "idle"
    BY DEF Init, Idle
  <2>3. now = 0
    BY DEF Init
  <2>4. QED
    BY <2>1, <2>2, <2>3 DEF NotAhead, RunsNotAhead, AllPatient, Waiting
<1>5. QED
  BY <1>2, <1>3, <1>4 DEF Inv

LEMMA Invariance == Spec => []Inv
<1>1. Inv /\ [Next]_vars => Inv'
  BY TypeStep, MapStep, TimeStep DEF Inv
<1>2. QED
  BY <1>1, InitInv, PTL DEF Spec

(* Types are correct in every reachable state. *)
THEOREM TypeCorrect == Spec => []TypeOK
<1>1. Inv => TypeOK
  BY DEF Inv
<1>2. QED
  BY <1>1, Invariance, PTL

(* A frozen mount leaks at most one goroutine per path, for any number of   *)
(* paths, callers and runs.                                                 *)
THEOREM OneGoroutinePerPath == Spec => []OneStatPerKey
<1>1. Inv => OneStatPerKey
  BY DEF Inv, TypeOK, Registered, OneStatPerKey, Alive
<1>2. QED
  BY <1>1, Invariance, PTL

(* An entry in the map has a goroutine that will remove it: a path whose    *)
(* mount came back is stat'ed afresh.                                       *)
THEOREM NoDeadEntry == Spec => []EntryHasGoroutine
<1>1. Inv => EntryHasGoroutine
  BY DEF Inv
<1>2. QED
  BY <1>1, Invariance, PTL

(* Nobody waits on a hung stat longer than one timeout, whoever started it  *)
(* and whenever others joined.                                              *)
THEOREM OneTimeoutPerStat == Spec => []HungStatBurnsOneTimeout
<1>1. Inv => HungStatBurnsOneTimeout
  <2> SUFFICES ASSUME Inv, NEW c \in Callers, Waiting(c)
               PROVE  now <= Budget(caller[c].on)
      BY DEF HungStatBurnsOneTimeout, Budget
  <2>1. Patient(c)
    BY DEF Inv, AllPatient
  <2>2. QED
    BY <2>1, FlightAssumption
       DEF Inv, TypeOK, Patient, Budget, Flights, FlightAssumption
<1>2. QED
  BY <1>1, Invariance, PTL
=============================================================================
