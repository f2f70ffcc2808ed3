----------------------------- MODULE RateLimiter -----------------------------
(***************************************************************************)
(* internal/api/ratelimit.go: the fixed-window limiter in front of /api.   *)
(* A request reads the time, then waits for the mutex; other requests pass *)
(* in between, so it may meet a window that began after its own time.  An  *)
(* entry that was never written is the zero rateLimitState, as in a Go     *)
(* map.  Time is counted in ticks.                                         *)
(***************************************************************************)
EXTENDS HttpServer

CONSTANTS Keys, Hosts,    \* configured API keys, peer addresses
          Limit, Window,  \* rate_limit_requests, rate_limit_window_seconds in ticks
          Second,         \* ticks in a second
          CleanupMin,     \* entries from which a sweep is worth it: 1024
          MaxStall,       \* bound: ticks a request waits for the mutex
          MaxTime         \* bound: ticks

NoKey == "no valid key"

ASSUME LimiterAssumption ==
  /\ IsFiniteSet(Keys) /\ IsFiniteSet(Hosts) /\ NoKey \notin Keys
  /\ Limit \in Nat \ {0} /\ Window \in Nat \ {0} /\ Second \in Nat \ {0}
  /\ CleanupMin \in Nat /\ MaxTime \in Nat
  /\ MaxStall \in Nat /\ MaxStall <= Window

(* What a request presents: one of the configured keys, or none of them.    *)
Credentials == [key : Keys \cup {NoKey}, host : Hosts]
Buckets == {<<"api-key", k>> : k \in Keys} \cup {<<"remote", h>> : h \in Hosts}

VARIABLES now,          \* l.now()
          at,           \* where each request is
          from,         \* the credentials of each request
          stamp,        \* the time each request read
          clients,      \* l.clients
          lastCleanup,  \* l.lastCleanup
          start,        \* history: the window that decided each request
          retry,        \* the Retry-After of each refusal, in seconds
          opened        \* history: the windows each bucket has had

limiter == <<at, from, stamp, clients, lastCleanup, start, retry, opened>>
limiterVars == <<now, limiter>>

Never == -1
NoState == [start |-> Never, count |-> 0, denyLogged |-> FALSE]
NoOne == [key |-> NoKey, host |-> "none"]
Times == 0 .. MaxTime

LimiterTypeOK ==
  /\ now \in Times
  /\ at \in [Requests -> {"new", "stamped", "admitted", "denied"}]
  /\ from \in [Requests -> Credentials \cup {NoOne}]
  /\ \A r \in Requests : at[r] # "new" => from[r] \in Credentials
  /\ stamp \in [Requests -> Times]
  /\ clients \in [Buckets -> [start : Times \cup {Never}, count : Nat, denyLogged : BOOLEAN]]
  /\ lastCleanup \in Times \cup {Never}
  /\ start \in [Requests -> Times \cup {Never}]
  /\ retry \in [Requests -> Nat]
  /\ opened \in [Buckets -> SUBSET Times]

LimiterInit ==
  /\ now = 0
  /\ at = [r \in Requests |-> "new"]
  /\ from = [r \in Requests |-> NoOne]
  /\ stamp = [r \in Requests |-> 0]
  /\ clients = [b \in Buckets |-> NoState]
  /\ lastCleanup = Never
  /\ start = [r \in Requests |-> Never]
  /\ retry = [r \in Requests |-> 0]
  /\ opened = [b \in Buckets |-> {}]

-----------------------------------------------------------------------------
(* A bug to catch: every request is counted against its peer address. *)
RateLimitKeyByPeer(c) == <<"remote", c.host>>

(* rateLimitKey: a valid key has a budget of its own; everything else is    *)
(* counted against the direct peer.                                         *)
RateLimitKey(c) == IF c.key \in Keys THEN <<"api-key", c.key>> ELSE <<"remote", c.host>>

Bucket(r) == RateLimitKey(from[r])

RetryAfter(w, t) == w.start + Window - t

(* retryAfterSeconds: rounded up, at least one. *)
RetryAfterSeconds(d) == LET s == (d + Second - 1) \div Second IN IF s < 1 THEN 1 ELSE s

(* The state allow() works with: a new window when there is none or the     *)
(* last one is over.                                                        *)
WindowAt(b, t) == IF clients[b].start = Never \/ t - clients[b].start >= Window
                  THEN [start |-> t, count |-> 0, denyLogged |-> FALSE]
                  ELSE clients[b]

Known(m) == {b \in Buckets : m[b].start # Never}

(* A bug to catch: an entry is forgotten while its window may still count. *)
IdleTooShort(m, b, t) == t - m[b].start > 0

Idle(m, b, t) == t - m[b].start > 2 * Window

(* cleanupLocked. *)
SweepDue(m, t) == /\ Cardinality(Known(m)) >= CleanupMin
                  /\ lastCleanup = Never \/ t - lastCleanup >= Window

Swept(m, t) == [b \in Buckets |-> IF m[b].start # Never /\ Idle(m, b, t) THEN NoState ELSE m[b]]

-----------------------------------------------------------------------------
(* allow() up to the mutex. *)
Arrive(r, c) ==
  /\ at[r] = "new"
  /\ at' = [at EXCEPT ![r] = "stamped"]
  /\ from' = [from EXCEPT ![r] = c]
  /\ stamp' = [stamp EXCEPT ![r] = now]
  /\ UNCHANGED <<now, clients, lastCleanup, start, retry, opened, serverVars>>

(* allow() under the mutex, and the middleware's answer. *)
Decide(r, w, verdict) ==
  /\ at' = [at EXCEPT ![r] = verdict]
  /\ start' = [start EXCEPT ![r] = w.start]
  /\ opened' = [opened EXCEPT ![Bucket(r)] = @ \cup {w.start}]
  /\ UNCHANGED <<now, from, stamp>>

Admit(r) ==
  /\ at[r] = "stamped"
  /\ LET b == Bucket(r)
         w == WindowAt(b, stamp[r])
         m == [clients EXCEPT ![b] = [w EXCEPT !.count = @ + 1]]
     IN /\ w.count < Limit
        /\ Decide(r, w, "admitted")
        /\ IF SweepDue(m, stamp[r])
           THEN clients' = Swept(m, stamp[r]) /\ lastCleanup' = stamp[r]
           ELSE clients' = m /\ UNCHANGED lastCleanup
  /\ UNCHANGED <<retry, took>>

Deny(r) ==
  /\ at[r] = "stamped"
  /\ LET b == Bucket(r)
         w == WindowAt(b, stamp[r])
     IN /\ w.count >= Limit
        /\ Decide(r, w, "denied")
        /\ clients' = [clients EXCEPT ![b] = [w EXCEPT !.denyLogged = TRUE]]
        /\ retry' = [retry EXCEPT ![r] = RetryAfterSeconds(RetryAfter(w, stamp[r]))]
  /\ Respond(r, 429)
  /\ UNCHANGED <<lastCleanup, took>>

(* The clock; a request does not wait longer than MaxStall for the mutex. *)
Tick == /\ now < MaxTime
        /\ \A r \in Requests : at[r] = "stamped" => now < stamp[r] + MaxStall
        /\ now' = now + 1
        /\ UNCHANGED <<limiter, serverVars>>

-----------------------------------------------------------------------------
Granted(b, s) == {r \in Requests : at[r] = "admitted" /\ Bucket(r) = b /\ start[r] = s}

(* The windows of a bucket never overlap and each grants at most Limit      *)
(* requests: neither a request that was stamped before the window it meets  *)
(* nor a sweep that forgets the bucket gives anyone a second budget.        *)
BudgetPerWindow ==
  \A b \in Buckets :
     /\ \A s, u \in opened[b] : s < u => u - s >= Window
     /\ \A s \in opened[b] : Cardinality(Granted(b, s)) <= Limit

(* A refusal is earned and honest: Limit requests with the same key, or     *)
(* without one from the same peer, were admitted in the window that refuses *)
(* it, and whoever comes back after Retry-After is not refused by the same  *)
(* window.                                                                  *)
RefusalsJustified ==
  \A r \in Requests : at[r] = "denied" =>
     /\ Cardinality({q \in Requests :
                       /\ at[q] = "admitted" /\ start[q] = start[r]
                       /\ from[q].key = from[r].key
                       /\ from[r].key = NoKey => from[q].host = from[r].host}) >= Limit
     /\ \A q \in Requests : /\ at[q] = "denied" /\ Bucket(q) = Bucket(r)
                            /\ stamp[q] >= stamp[r] + retry[r] * Second
                            => start[q] # start[r]
=============================================================================
