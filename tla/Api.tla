--------------------------------- MODULE Api ---------------------------------
(***************************************************************************)
(* The HTTP API as router() of internal/api/server.go puts it together:    *)
(* GET /health is public; everything under /api passes the rate limiter,   *)
(* then the API key check, then its handler.  Requests are numbered in the *)
(* order they arrive.  A workload says which requests come in one          *)
(* behaviour, so that TLC meets each handler under the load that concerns  *)
(* it.                                                                     *)
(***************************************************************************)
EXTENDS RateLimiter, Health, Images

CONSTANTS Workloads  \* [kinds, credentials, env : sets; requests, ticks : Nat;
                     \*  limited, auth : BOOLEAN]

ImageKinds == {"upload", "delete", "bulk", "image", "stats"}
Kinds == ImageKinds \cup {"public health", "health", "unknown"}

ASSUME WorkloadAssumption ==
  \A w \in Workloads : w.credentials \subseteq Credentials /\ w.kinds \subseteq Kinds

VARIABLES workload,
          kind       \* the route each request asks for

vars == <<workload, kind, limiterVars, healthVars, imageVars, serverVars>>
routerVars == <<workload, kind>>

Init == /\ workload \in Workloads
        /\ kind = [r \in Requests |-> "none"]
        /\ ServerInit /\ LimiterInit /\ HealthInit /\ ImagesInit

-----------------------------------------------------------------------------
(* Arrivals. *)
Turn(r) == /\ r <= workload.requests
           /\ kind[r] = "none"
           /\ \A q \in Requests : q < r => kind[q] # "none"

Sends(r, k) == /\ k \in workload.kinds
               /\ kind' = [kind EXCEPT ![r] = k]
               /\ UNCHANGED workload

(* GET /health. *)
PublicHealth(r) ==
  /\ Turn(r) /\ Sends(r, "public health")
  /\ StartHealth(r, FALSE)
  /\ UNCHANGED <<limiterVars, imageVars>>

(* The middleware of /api, when rate_limit_enabled is set. *)
Limited(r, k, c) ==
  /\ workload.limited
  /\ Turn(r) /\ Sends(r, k) /\ k # "public health"
  /\ Arrive(r, c)
  /\ UNCHANGED <<healthVars, imageVars>>

(* authMiddleware. *)
Authorized(c) == ~workload.auth \/ c.key \in Keys

(* The route of the request; a path that is none has passed the limiter     *)
(* but not authMiddleware.                                                  *)
Route(r, k, c) ==
  \/ k = "unknown" /\ Respond(r, 404) /\ UNCHANGED <<healthVars, imageVars, took>>
  \/ k # "unknown" /\ ~Authorized(c) /\ Respond(r, 401) /\ UNCHANGED <<healthVars, imageVars, took>>
  \/ Authorized(c) /\ k = "health" /\ StartHealth(r, TRUE) /\ UNCHANGED imageVars
  \/ /\ Authorized(c) /\ k \in ImageKinds
     /\ StartImage(r, k) \/ Malformed(r, k)
     /\ UNCHANGED healthVars

(* newAPIRateLimiter is nil. *)
Unlimited(r, k, c) ==
  /\ ~workload.limited
  /\ Turn(r) /\ Sends(r, k) /\ k # "public health"
  /\ Route(r, k, c)
  /\ UNCHANGED limiterVars

Pass(r) == Admit(r) /\ Route(r, kind[r], from[r]) /\ UNCHANGED routerVars

Refuse(r) == Deny(r) /\ UNCHANGED <<routerVars, healthVars, imageVars>>

Elapse == Tick /\ now < workload.ticks /\ UNCHANGED <<routerVars, healthVars, imageVars>>

(* Bound: what concerns no request of the workload does not happen in it.   *)
Outside == \/ "database" \in workload.env /\ \E d \in {"up", "down", "slow"} : DbChanges(d)
           \/ "clients" \in workload.env /\ \E r \in Requests : ClientGone(r)
           \/ "results" \in workload.env /\ \E s, a \in 0 .. 1 : Publish(s, a)
           \/ "clock" \in workload.env /\ Age

Probe == /\ workload.kinds \cap {"health", "public health"} # {}
         /\ HealthStep \/ Outside
         /\ UNCHANGED <<routerVars, limiterVars, imageVars>>
Edit == /\ workload.kinds \cap ImageKinds # {}
        /\ ImagesStep /\ UNCHANGED <<routerVars, limiterVars, healthVars>>
Arrival(r) == \/ PublicHealth(r)
              \/ \E k \in workload.kinds, c \in workload.credentials :
                    Limited(r, k, c) \/ Unlimited(r, k, c)

Next == \/ \E r \in Requests : Arrival(r) \/ Pass(r) \/ Refuse(r)
        \/ Elapse
        \/ Probe
        \/ Edit

Spec == Init /\ [][Next]_vars

(* The refresh goroutines are scheduled and a lookup ends within 30 seconds. *)
Fairness == \A g \in Refreshers :
              WF_vars(Refresh(g) /\ UNCHANGED <<routerVars, limiterVars, imageVars>>)

FairSpec == Spec /\ Fairness
=============================================================================
