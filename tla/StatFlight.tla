----------------------------- MODULE StatFlight -----------------------------
(***************************************************************************)
(* internal/service/statflight.go: one stat in flight per key, shared by   *)
(* the callers that find it there.  A stat on a frozen mount may never     *)
(* return.  Time counts in ticks; a timer fires on the tick it is set for, *)
(* and Go decides freely between a timer and a result that are both ready. *)
(***************************************************************************)
EXTENDS Integers

CONSTANTS Keys,         \* paths
          Callers,      \* goroutines that stat a path
          Timeout,      \* ticks one stat may take
          MaxFlights,   \* bound: flights started
          MaxTime       \* bound: ticks

ASSUME FlightAssumption == /\ Keys # {}
                           /\ Timeout \in Nat \ {0}
                           /\ MaxFlights \in Nat /\ MaxTime \in Nat

VARIABLES now,
          map,          \* g.flights: the flight of each key, 0 for none
          flight,       \* every flight: key, state of its goroutine, startedNano
          caller        \* what each caller does, on which flight, until when

vars == <<now, map, flight, caller>>

Flights == 1 .. MaxFlights
NoFlight == [state |-> "none", key |-> CHOOSE k \in Keys : TRUE, created |-> 0, started |-> 0]
Idle == [at |-> "idle", run |-> 0, on |-> 0, until |-> 0]

TypeOK ==
  /\ now \in 0 .. MaxTime
  /\ map \in [Keys -> Flights \cup {0}]
  /\ flight \in [Flights -> [state : {"none", "spawned", "stat", "done", "gone"}, key : Keys,
                             created : 0 .. MaxTime, started : 0 .. MaxTime]]
  /\ caller \in [Callers -> [at : {"idle", "run", "wait"}, run : 0 .. MaxTime,
                             on : Flights \cup {0}, until : 0 .. MaxTime + Timeout]]

Init == /\ now = 0
        /\ map = [k \in Keys |-> 0]
        /\ flight = [f \in Flights |-> NoFlight]
        /\ caller = [c \in Callers |-> Idle]

Waiting(c) == caller[c].at = "wait"

-----------------------------------------------------------------------------
(* A run takes its time once; its checks may queue before they stat. *)
BeginRun(c) == /\ caller[c].at = "idle"
               /\ caller' = [caller EXCEPT ![c] = [Idle EXCEPT !.at = "run", !.run = now]]
               /\ UNCHANGED <<now, map, flight>>

(* startOrJoin without an entry: the goroutine is spawned and the creator   *)
(* waits the full timeout.                                                  *)
StartFlight(c, k) ==
  /\ caller[c].at = "run" /\ map[k] = 0
  /\ \E f \in Flights :
       /\ flight[f].state = "none" /\ \A g \in Flights : g < f => flight[g].state # "none"
       /\ flight' = [flight EXCEPT ![f] = [state |-> "spawned", key |-> k, created |-> now,
                                           started |-> caller[c].run]]
       /\ map' = [map EXCEPT ![k] = f]
       /\ caller' = [caller EXCEPT ![c] = [@ EXCEPT !.at = "wait", !.on = f,
                                                    !.until = now + Timeout]]
  /\ UNCHANGED now

(* A bug to catch: a joiner waits the full timeout. *)
JoinFullTimeout(c, k) ==
  /\ caller[c].at = "run" /\ map[k] # 0
  /\ caller' = [caller EXCEPT ![c] = [@ EXCEPT !.at = "wait", !.on = map[k],
                                               !.until = now + Timeout]]
  /\ UNCHANGED <<now, map, flight>>

(* startOrJoin with an entry: what is left of its budget, or a timeout at   *)
(* once.                                                                    *)
JoinFlight(c, k) ==
  /\ caller[c].at = "run" /\ map[k] # 0
  /\ LET deadline == flight[map[k]].started + Timeout
     IN caller' = [caller EXCEPT ![c] =
                     IF deadline <= now THEN Idle
                     ELSE [@ EXCEPT !.at = "wait", !.on = map[k], !.until = deadline]]
  /\ UNCHANGED <<now, map, flight>>

(* waitStatFlight's select. *)
Result(c) == /\ Waiting(c) /\ flight[caller[c].on].state \in {"done", "gone"}
             /\ caller' = [caller EXCEPT ![c] = Idle]
             /\ UNCHANGED <<now, map, flight>>

(* A bug to catch: giving up forgets the flight. *)
TimedOutForgetting(c) == /\ Waiting(c) /\ now >= caller[c].until
                         /\ caller' = [caller EXCEPT ![c] = Idle]
                         /\ map' = [map EXCEPT ![flight[caller[c].on].key] = 0]
                         /\ UNCHANGED <<now, flight>>

TimedOut(c) == /\ Waiting(c) /\ now >= caller[c].until
               /\ caller' = [caller EXCEPT ![c] = Idle]
               /\ UNCHANGED <<now, map, flight>>

-----------------------------------------------------------------------------
(* The goroutine of flight f. *)

CallStat(f) == /\ flight[f].state = "spawned"
               /\ flight' = [flight EXCEPT ![f].state = "stat", ![f].started = now]
               /\ UNCHANGED <<now, map, caller>>

StatReturns(f) == /\ flight[f].state = "stat"
                  /\ flight' = [flight EXCEPT ![f].state = "done"]
                  /\ UNCHANGED <<now, map, caller>>

(* Only its own entry is removed. *)
RemoveEntry(f) ==
  /\ flight[f].state = "done"
  /\ flight' = [flight EXCEPT ![f].state = "gone"]
  /\ map' = [map EXCEPT ![flight[f].key] = IF @ = f THEN 0 ELSE @]
  /\ UNCHANGED <<now, caller>>

Tick == /\ now < MaxTime
        /\ \A c \in Callers : Waiting(c) => now < caller[c].until
        /\ now' = now + 1
        /\ UNCHANGED <<map, flight, caller>>

Next == \/ \E c \in Callers : BeginRun(c) \/ Result(c) \/ TimedOut(c)
        \/ \E c \in Callers, k \in Keys : StartFlight(c, k) \/ JoinFlight(c, k)
        \/ \E f \in Flights : CallStat(f) \/ StatReturns(f) \/ RemoveEntry(f)
        \/ Tick

Spec == Init /\ [][Next]_vars

-----------------------------------------------------------------------------
Alive(f) == flight[f].state \in {"spawned", "stat"}

(* A frozen mount leaks at most one goroutine per path, however many runs   *)
(* time out on it.                                                          *)
OneStatPerKey == \A f, g \in Flights :
                   Alive(f) /\ Alive(g) /\ flight[f].key = flight[g].key => f = g

(* A hung stat burns one timeout: nobody waits on a flight longer than that *)
(* after its stat began, or, while its goroutine has yet to run, after the  *)
(* flight was made, whoever created it or joined when.                      *)
HungStatBurnsOneTimeout ==
  \A c \in Callers : Waiting(c) =>
     LET f == flight[caller[c].on]
     IN now <= Timeout + IF f.state = "spawned" THEN f.created ELSE f.started

(* No entry outlives its goroutine: a path whose mount came back is stat'ed *)
(* afresh by the next caller.                                               *)
EntryHasGoroutine == \A k \in Keys : map[k] # 0 =>
                        /\ flight[map[k]].key = k
                        /\ flight[map[k]].state \notin {"none", "gone"}

=============================================================================
