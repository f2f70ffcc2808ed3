------------------------------- MODULE Health --------------------------------
(***************************************************************************)
(* The health endpoints (internal/api/handlers.go) and the cache of the    *)
(* Graph secret's expiry they read (internal/notify/expiry.go).            *)
(* Concurrent requests share one database ping (singleflight); a stale     *)
(* expiry is refreshed by a goroutine that outlives the request; the two   *)
(* counts of the file monitor are read under one lock each.                *)
(***************************************************************************)
EXTENDS HttpServer

CONSTANTS MaxFlips,      \* bound: changes of the database's state
          MaxPublishes,  \* bound: file monitor runs that publish a result
          MaxAges        \* bound: times the cached expiry grows older than an hour

VARIABLES db, flips,        \* "up": answers at once; "down": fails; "slow": not within 2 s
          ping,             \* the call in pingGroup
          hpc, detailed,    \* where each health request is, and on which endpoint
          gone,             \* requests whose client went away
          health,           \* what each request has read for its answer
          published,        \* the counts of the file monitor's last result
          cached, fresh, refreshing,  \* c.cached, whether c.lastCheck is recent, c.refreshing
          ages, rpc,        \* refresh goroutines: Startup's and one per request
          owed              \* history: requests that saw a stale expiry since the last store

pingVars == <<db, flips, ping>>
expiryVars == <<cached, fresh, refreshing, ages, rpc, owed>>
requestVars == <<hpc, detailed, gone, health>>
healthVars == <<pingVars, expiryVars, requestVars, published>>

Startup == 0
Refreshers == {Startup} \cup Requests
NoCall == [leader |-> Startup, waiting |-> {}, seen |-> {}]
NoAnswer == [db |-> "none", seen |-> {}, alerting |-> 0, alertingRun |-> 0,
             stale |-> 0, staleRun |-> 0]

HealthInit ==
  /\ db = "up" /\ flips = 0
  /\ ping = NoCall
  /\ hpc = [r \in Requests |-> "idle"]
  /\ detailed = [r \in Requests |-> FALSE]
  /\ gone = {}
  /\ health = [r \in Requests |-> NoAnswer]
  /\ published = [run |-> 0, stale |-> 0, alerting |-> 0]
  /\ cached = "none" /\ fresh = FALSE /\ refreshing = FALSE /\ ages = 0
  /\ rpc = [g \in Refreshers |-> IF g = Startup THEN "spawned" ELSE "idle"]
  /\ owed = {}

-----------------------------------------------------------------------------
(* The environment: the database, the clients, file monitor runs that       *)
(* publish a whole result at once, and the age of the cached expiry (an     *)
(* hour does not pass between two locks of one refresh).                    *)
DbChanges(d) ==
  /\ flips < MaxFlips /\ d # db
  /\ db' = d /\ flips' = flips + 1
  /\ ping' = IF ping = NoCall THEN ping ELSE [ping EXCEPT !.seen = @ \cup {d}]
  /\ UNCHANGED <<expiryVars, requestVars, published, serverVars>>

ClientGone(r) ==
  /\ hpc[r] = "waiting" /\ r \notin gone
  /\ gone' = gone \cup {r}
  /\ UNCHANGED <<pingVars, expiryVars, hpc, detailed, health, published, serverVars>>

Publish(s, a) ==
  /\ published.run < MaxPublishes /\ a <= s
  /\ published' = [run |-> published.run + 1, stale |-> s, alerting |-> a]
  /\ UNCHANGED <<pingVars, expiryVars, requestVars, serverVars>>

Age ==
  /\ fresh /\ ages < MaxAges
  /\ \A g \in Refreshers : rpc[g] # "stored"
  /\ fresh' = FALSE /\ ages' = ages + 1
  /\ UNCHANGED <<pingVars, requestVars, published, cached, refreshing, rpc, owed, serverVars>>

-----------------------------------------------------------------------------
(* databaseStatus: the first request leads the call, the others wait for it. *)
StartHealth(r, details) ==
  /\ hpc[r] = "idle"
  /\ hpc' = [hpc EXCEPT ![r] = "ping"]
  /\ detailed' = [detailed EXCEPT ![r] = details]
  /\ UNCHANGED <<pingVars, expiryVars, gone, health, published, serverVars>>

Ping(r) ==
  /\ hpc[r] = "ping"
  /\ hpc' = [hpc EXCEPT ![r] = "waiting"]
  /\ ping' = IF ping = NoCall THEN [leader |-> r, waiting |-> {r}, seen |-> {db}]
             ELSE [ping EXCEPT !.waiting = @ \cup {r}]
  /\ UNCHANGED <<db, flips, expiryVars, detailed, gone, health, published, serverVars>>

(* A bug to catch: the ping runs under the context of the request that leads it. *)
PingTimedOutOrCanceled == db = "slow" \/ ping.leader \in gone

(* dbPingTimeout on a context without the request's cancellation. *)
PingTimedOut == db = "slow"

(* Every request of the call gets its result; the public endpoint answers.  *)
PingReturns(status) ==
  /\ ping # NoCall
  /\ ping' = NoCall
  /\ health' = [r \in Requests |->
       IF r \notin ping.waiting THEN health[r]
       ELSE [health[r] EXCEPT !.db = status, !.seen = ping.seen]]
  /\ code' = [r \in Requests |-> IF r \notin ping.waiting \/ detailed[r] THEN code[r]
                                 ELSE IF status = "connected" THEN 200 ELSE 503]
  /\ hpc' = [r \in Requests |-> IF r \notin ping.waiting THEN hpc[r]
                                ELSE IF detailed[r] THEN "expiry" ELSE "done"]
  /\ UNCHANGED <<db, flips, expiryVars, detailed, gone, published, took>>

PingOk == db = "up" /\ PingReturns("connected")
PingFails == (db = "down" \/ PingTimedOut) /\ PingReturns("disconnected")

-----------------------------------------------------------------------------
(* Info: the cached value, and a goroutine to refresh it when it is stale.  *)
ReadExpiry(r) ==
  /\ hpc[r] = "expiry"
  /\ hpc' = [hpc EXCEPT ![r] = "alerting"]
  /\ IF fresh THEN UNCHANGED <<rpc, owed>>
     ELSE rpc' = [rpc EXCEPT ![r] = "spawned"] /\ owed' = owed \cup {r}
  /\ UNCHANGED <<pingVars, cached, fresh, refreshing, ages, detailed, gone, health, published,
                 serverVars>>

ReadAlerting(r) ==
  /\ hpc[r] = "alerting"
  /\ hpc' = [hpc EXCEPT ![r] = "stale"]
  /\ health' = [health EXCEPT ![r].alerting = published.alerting, ![r].alertingRun = published.run]
  /\ UNCHANGED <<pingVars, expiryVars, detailed, gone, published, serverVars>>

(* A bug to catch: StaleCount leaves out the files that are in alert. *)
StaleQuiet == published.stale - published.alerting

StaleCount == published.stale

ReadStale(r) ==
  /\ hpc[r] = "stale"
  /\ hpc' = [hpc EXCEPT ![r] = "problems"]
  /\ health' = [health EXCEPT ![r].stale = StaleCount, ![r].staleRun = published.run]
  /\ UNCHANGED <<pingVars, expiryVars, detailed, gone, published, serverVars>>

(* The media check's problems, the overall status and the answer. *)
AnswerDetails(r) ==
  /\ hpc[r] = "problems"
  /\ hpc' = [hpc EXCEPT ![r] = "done"]
  /\ Respond(r, 200)
  /\ UNCHANGED <<pingVars, expiryVars, detailed, gone, health, published, took>>

-----------------------------------------------------------------------------
(* refresh. *)
BeginRefresh(g) ==
  /\ rpc[g] = "spawned"
  /\ rpc' = [rpc EXCEPT ![g] = IF refreshing THEN "idle" ELSE "looking"]
  /\ refreshing' = TRUE
  /\ UNCHANGED <<pingVars, requestVars, published, cached, fresh, ages, owed, serverVars>>

(* fetchExpiryInfo ends, within 30 s, and its result or its error is cached. *)
StoreExpiry(g, info) ==
  /\ rpc[g] = "looking"
  /\ rpc' = [rpc EXCEPT ![g] = "stored"]
  /\ cached' = info /\ fresh' = TRUE /\ owed' = {}
  /\ UNCHANGED <<pingVars, requestVars, published, refreshing, ages, serverVars>>

(* A bug to catch: a lookup that failed leaves the flag set. *)
FlagAfterSuccess == cached = "error"

FlagAfterRefresh == FALSE

EndRefresh(g) ==
  /\ rpc[g] = "stored"
  /\ rpc' = [rpc EXCEPT ![g] = "idle"]
  /\ refreshing' = FlagAfterRefresh
  /\ UNCHANGED <<pingVars, requestVars, published, cached, fresh, ages, owed, serverVars>>

-----------------------------------------------------------------------------
HandleHealth(r) == Ping(r) \/ ReadExpiry(r) \/ ReadAlerting(r) \/ ReadStale(r) \/ AnswerDetails(r)

Refresh(g) == \/ BeginRefresh(g) \/ EndRefresh(g)
              \/ \E info \in {"known", "error"} : StoreExpiry(g, info)

HealthStep == \/ \E r \in Requests : HandleHealth(r)
              \/ PingOk \/ PingFails
              \/ \E g \in Refreshers : Refresh(g)

-----------------------------------------------------------------------------
(* What an endpoint says of the database was so at some time of the ping    *)
(* it waited for: sharing one ping between requests, the first of which may *)
(* lose its client, tells nobody "disconnected" while the database answers. *)
AnswerTrue ==
  \A r \in Requests :
     /\ health[r].db = "connected" => "up" \in health[r].seen
     /\ health[r].db = "disconnected" => \E d \in health[r].seen : d # "up"

(* An answer with more files in alert than stale files mixes two runs; two  *)
(* counts of the same run never disagree.                                   *)
CountsAgree ==
  \A r \in Requests : hpc[r] \in {"problems", "done"} /\ detailed[r] =>
     /\ health[r].alerting > health[r].stale => health[r].alertingRun < health[r].staleRun
     /\ health[r].alertingRun = health[r].staleRun => health[r].alerting <= health[r].stale

(* A stale expiry that a request has seen is looked up afterwards, also     *)
(* when its own refresh gives way to one that is already running and when   *)
(* the lookup before it failed.                                             *)
StaleRefreshed == owed # {} ~> owed = {}
=============================================================================
