------------------------------ MODULE ApiProofs ------------------------------
(***************************************************************************)
(* Proofs about the HTTP API, for any keys, hosts, requests, limit and     *)
(* window, and whatever the database, the clients and Aeron do: no window  *)
(* of a bucket grants more than its budget and every refusal is earned;    *)
(* the health endpoints tell the truth about the database and about counts *)
(* of one run; an image a client is told of is stored.  First the image    *)
(* sizes of module Resize, for every size.                                 *)
(***************************************************************************)
EXTENDS Api, Resize, FiniteSetTheorems, TLAPS

Positive == Nat \ {0}

-----------------------------------------------------------------------------
(* Integer division, by its quotient and remainder. *)
LEMMA Division ==
  ASSUME NEW n \in Int, NEW d \in Positive
  PROVE  /\ n \div d \in Int /\ n % d \in 0 .. d - 1
         /\ n = d * (n \div d) + (n % d)
BY SMT DEF Positive

(* A product with a positive factor keeps strict order. *)
LEMMA Monotone ==
  ASSUME NEW a \in Int, NEW b \in Int, NEW d \in Positive, a < b
  PROVE  d * a + d <= d * b
<1>1. PICK c \in Nat : b = a + 1 + c
  <2>1. b - a - 1 \in Nat /\ b = a + 1 + (b - a - 1)
    BY SMT
  <2> QED BY <2>1
<1>2. d * b = d * a + d + d * c
  BY <1>1, SMT DEF Positive
<1>3. d * c >= 0
  BY SMT DEF Positive
<1> QED BY <1>2, <1>3, SMT DEF Positive

(* exceedsMaxPixels refuses exactly the images with more pixels than the    *)
(* limit: the division that replaces the product of two widths loses none.  *)
THEOREM PixelLimitExact ==
  \A width, height, maxPixels \in Positive : PixelLimit(width, height, maxPixels)
<1> SUFFICES ASSUME NEW width \in Positive, NEW height \in Positive, NEW maxPixels \in Positive
             PROVE  PixelLimit(width, height, maxPixels)
  OBVIOUS
<1> DEFINE q == maxPixels \div height
<1>1. /\ q \in Int /\ maxPixels % height \in 0 .. height - 1
      /\ maxPixels = height * q + (maxPixels % height)
  BY Division DEF Positive
<1>2. width * height = height * width
  BY SMT DEF Positive
<1>3. CASE width > q
  <2>1. height * q + height <= height * width
    BY <1>1, <1>3, Monotone DEF Positive
  <2> QED BY <1>1, <1>2, <1>3, <2>1, SMT DEF PixelLimit, ExceedsMaxPixels, Positive
<1>4. CASE width <= q
  <2>1. height * width <= height * q
    <3>1. CASE width = q  BY <3>1
    <3>2. CASE width < q  BY <3>2, <1>1, Monotone, SMT DEF Positive
    <3> QED BY <1>1, <1>4, <3>1, <3>2, SMT DEF Positive
  <2> QED BY <1>1, <1>2, <1>4, <2>1, SMT DEF PixelLimit, ExceedsMaxPixels, Positive
<1> QED BY <1>1, <1>3, <1>4, SMT DEF Positive

-----------------------------------------------------------------------------
(* A quotient is below a bound exactly when the number is below as many     *)
(* divisors.                                                                *)
LEMMA QuotientBelow ==
  ASSUME NEW n \in Int, NEW d \in Positive, NEW b \in Int
  PROVE  n \div d < b <=> n < d * b
<1> DEFINE q == n \div d
<1>1. q \in Int /\ n % d \in 0 .. d - 1 /\ n = d * q + (n % d)
  BY Division
<1>2. d * q \in Int /\ d * b \in Int
  BY <1>1, SMT DEF Positive
<1> HIDE DEF q
<1>3. ASSUME q < b  PROVE n < d * b
  <2>1. d * q + d <= d * b  BY <1>1, <1>3, Monotone
  <2> QED BY <1>1, <1>2, <2>1, SMT DEF Positive
<1>4. ASSUME b <= q  PROVE d * b <= n
  <2>1. d * b <= d * q
    <3>1. CASE b = q  BY <3>1, <1>2, SMT
    <3>2. CASE b < q
      <4>1. d * b + d <= d * q  BY <1>1, <3>2, Monotone
      <4> QED BY <4>1, <1>2, SMT DEF Positive
    <3> QED BY <3>1, <3>2, <1>1, <1>4, SMT
  <2> QED BY <1>1, <1>2, <2>1, SMT DEF Positive
<1>5. q < b \/ b <= q
  BY <1>1, SMT
<1>6. n < d * b => ~(d * b <= n)
  BY <1>2, SMT
<1>7. q < b => ~(b <= q)
  BY <1>1, SMT
<1>8. q < b <=> n < d * b
  BY <1>3, <1>4, <1>5, <1>6
<1> QED BY <1>8 DEF q

(* The side that follows the other one's scale, a * m / b rounded either    *)
(* way: raised to one pixel exactly when there is one, and never above a    *)
(* bound the exact quotient keeps.                                          *)
LEMMA FollowingSide ==
  ASSUME NEW a \in Positive, NEW b \in Positive, NEW m \in Positive,
         NEW x \in Truncated(a * m, b)
  PROVE  /\ AtLeastOne(x, a, b, m) \in Int
         /\ AtLeastOne(x, a, b, m) < 1 <=> a * m < b
         /\ \A k \in Positive : a * m <= k * b => AtLeastOne(x, a, b, m) <= k
<1> DEFINE n == a * m
           q == n \div b
           y == AtLeastOne(x, a, b, m)
<1>1. n \in Positive /\ b * 1 = b /\ m * a = n
  BY SMT DEF Positive
<1>2. q \in Int /\ n % b \in 0 .. b - 1 /\ n = b * q + (n % b)
  <2> n \in Int  BY <1>1, SMT DEF Positive
  <2> QED BY Division
<1>3. x = q \/ (x = q - 1 /\ n % b = 0)
  BY DEF Truncated
<1>4. q < 1 <=> n < b
  BY <1>1, QuotientBelow DEF Positive
<1>5. q >= 0
  <2>1. q < 0 <=> n < b * 0
    BY <1>1, QuotientBelow DEF Positive
  <2> QED BY <1>1, <1>2, <2>1, SMT DEF Positive
<1>6. (b - 1) \div m < a <=> b - 1 < m * a
  BY QuotientBelow, SMT DEF Positive
<1>7. (b - 1) \div m \in Int
  BY Division, SMT DEF Positive
<1>8. a > (b - 1) \div m <=> n >= b
  BY <1>1, <1>6, <1>7, SMT DEF Positive
<1>9. y = IF x = 0 /\ n >= b THEN 1 ELSE x
  BY <1>8 DEF AtLeastOne
<1>10. \A k \in Positive : n <= k * b => q <= k
  <2> SUFFICES ASSUME NEW k \in Positive, n <= k * b  PROVE q <= k
    OBVIOUS
  <2>1. q < k + 1 <=> n < b * (k + 1)
    BY <1>1, QuotientBelow DEF Positive
  <2>2. b * (k + 1) = k * b + b /\ k * b \in Int
    BY SMT DEF Positive
  <2> QED BY <1>1, <1>2, <2>1, <2>2, SMT DEF Positive
<1>11. n < b => x = 0 \/ n % b = 0
  BY <1>2, <1>3, <1>4, <1>5, SMT
<1>12. n < b => n % b # 0
  <2> SUFFICES ASSUME n < b  PROVE n % b # 0
    OBVIOUS
  <2>1. q = 0  BY <1>2, <1>4, <1>5, SMT
  <2>2. n = n % b  BY <1>2, <2>1, SMT DEF Positive
  <2> QED BY <1>1, <2>2, SMT DEF Positive
<1> HIDE DEF n, q, y
<1>13. y \in Int /\ (y < 1 <=> n < b)
  BY <1>1, <1>2, <1>3, <1>4, <1>5, <1>9, <1>11, <1>12, SMT DEF Positive
<1>14. \A k \in Positive : n <= k * b => y <= k
  BY <1>2, <1>3, <1>9, <1>10, SMT DEF Positive
<1> QED BY <1>13, <1>14 DEF n, y

(* The side that sets the scale comes out as its maximum, or one below when *)
(* the rounding goes wrong, and at least 1.                                 *)
LEMMA LimitingSide ==
  ASSUME NEW a \in Positive, NEW k \in Positive, NEW b \in Positive, NEW m \in Positive,
         k * b <= m * a, NEW x \in Truncated(a * k, a)
  PROVE  AtLeastOne(x, a, b, m) \in 1 .. k
<1>1. (a * k) \div a = k
  <2>1. /\ (a * k) \div a < k + 1 <=> a * k < a * (k + 1)
        /\ (a * k) \div a < k <=> a * k < a * k
    BY QuotientBelow, SMT DEF Positive
  <2>2. a * k \in Int /\ a * (k + 1) = a * k + a
    BY SMT DEF Positive
  <2>3. (a * k) \div a \in Int
    BY <2>2, Division
  <2> QED BY <2>1, <2>2, <2>3, SMT DEF Positive
<1>2. x = k \/ x = k - 1
  BY <1>1 DEF Truncated
<1>3. b <= m * a
  <2>1. b <= k * b
    <3>1. CASE k = 1  BY <3>1, SMT DEF Positive
    <3>2. CASE k > 1
      <4>1. b * 1 + b <= b * k  BY <3>2, Monotone, SMT DEF Positive
      <4> QED BY <4>1, SMT DEF Positive
    <3> QED BY <3>1, <3>2, SMT DEF Positive
  <2> QED BY <2>1, SMT DEF Positive
<1>4. a > (b - 1) \div m
  <2>1. (b - 1) \div m < a <=> b - 1 < m * a
    BY QuotientBelow, SMT DEF Positive
  <2>2. (b - 1) \div m \in Int
    BY Division, SMT DEF Positive
  <2> QED BY <1>3, <2>1, <2>2, SMT DEF Positive
<1> QED BY <1>2, <1>4, SMT DEF AtLeastOne, Positive

(* What both sides of a resized image satisfy. *)
LEMMA ResizedSides ==
  ASSUME NEW width \in Positive, NEW height \in Positive,
         NEW maxWidth \in Positive, NEW maxHeight \in Positive,
         NEW size \in Resized(width, height, maxWidth, maxHeight)
  PROVE  /\ size.width \in Int /\ size.height \in Int
         /\ size.width <= maxWidth /\ size.height <= maxHeight
         /\ Refused(size) <=> (width * maxHeight < height \/ height * maxWidth < width)
<1>1. /\ width * maxHeight \in Int /\ height * maxWidth \in Int
      /\ maxWidth * height = height * maxWidth /\ maxHeight * width = width * maxHeight
  BY SMT DEF Positive
<1>2. height <= height * maxWidth /\ width <= width * maxHeight
  BY SMT DEF Positive
<1>3. CASE maxWidth * height <= maxHeight * width
  <2>1. Scale(width, height, maxWidth, maxHeight) = [num |-> maxWidth, den |-> width]
    BY <1>3 DEF Scale
  <2>2. PICK w \in Truncated(width * maxWidth, width), h \in Truncated(height * maxWidth, width) :
          size = [width |-> AtLeastOne(w, width, height, maxHeight),
                  height |-> AtLeastOne(h, height, width, maxWidth)]
    BY <2>1 DEF Resized
  <2>3. size.width \in 1 .. maxWidth
    BY <1>3, <2>2, LimitingSide
  <2>4. /\ size.height \in Int
        /\ size.height < 1 <=> height * maxWidth < width
        /\ height * maxWidth <= maxHeight * width => size.height <= maxHeight
    BY <2>2, FollowingSide
  <2> QED BY <1>1, <1>2, <1>3, <2>3, <2>4, SMT DEF Refused, Positive
<1>4. CASE ~(maxWidth * height <= maxHeight * width)
  <2>1. Scale(width, height, maxWidth, maxHeight) = [num |-> maxHeight, den |-> height]
    BY <1>4 DEF Scale
  <2>2. PICK w \in Truncated(width * maxHeight, height), h \in Truncated(height * maxHeight, height) :
          size = [width |-> AtLeastOne(w, width, height, maxHeight),
                  height |-> AtLeastOne(h, height, width, maxWidth)]
    BY <2>1 DEF Resized
  <2>3. maxHeight * width <= maxWidth * height
    BY <1>1, <1>4, SMT
  <2>4. size.height \in 1 .. maxHeight
    BY <2>2, <2>3, LimitingSide
  <2>5. /\ size.width \in Int
        /\ size.width < 1 <=> width * maxHeight < height
        /\ width * maxHeight <= maxWidth * height => size.width <= maxWidth
    BY <2>2, FollowingSide
  <2> QED BY <1>1, <1>2, <2>3, <2>4, <2>5, SMT DEF Refused, Positive
<1> QED BY <1>3, <1>4

(* The two ways to say that a pixel is left. *)
LEMMA PixelsKept ==
  ASSUME NEW width \in Positive, NEW height \in Positive,
         NEW maxWidth \in Positive, NEW maxHeight \in Positive
  PROVE  ~KeepsPixels(width, height, maxWidth, maxHeight) <=>
            (width * maxHeight < height \/ height * maxWidth < width)
<1>1. width * maxHeight \in Int /\ height * maxWidth \in Int
  BY SMT DEF Positive
<1>2. QED
  BY <1>1, SMT DEF KeepsPixels, Positive

(* Whichever way the floating point rounds, an image is refused as too      *)
(* narrow exactly when less than one pixel would be left.                   *)
THEOREM TooNarrowIsExact ==
  \A width, height, maxWidth, maxHeight \in Positive :
     TooNarrowExactly(width, height, maxWidth, maxHeight)
BY ResizedSides, PixelsKept DEF TooNarrowExactly

(* An image that is scaled fits the target in both dimensions and keeps at  *)
(* least one pixel of each; only one without a pixel left is refused.       *)
THEOREM ResizedFits ==
  \A width, height, maxWidth, maxHeight \in Positive :
     FitsTarget(width, height, maxWidth, maxHeight)
<1> SUFFICES ASSUME NEW width \in Positive, NEW height \in Positive,
                    NEW maxWidth \in Positive, NEW maxHeight \in Positive,
                    KeepsPixels(width, height, maxWidth, maxHeight),
                    NEW size \in Resized(width, height, maxWidth, maxHeight)
             PROVE  size.width \in 1 .. maxWidth /\ size.height \in 1 .. maxHeight
    BY DEF FitsTarget
<1>1. /\ size.width \in Int /\ size.height \in Int
      /\ size.width <= maxWidth /\ size.height <= maxHeight
  BY ResizedSides
<1>2. ~Refused(size)
  BY ResizedSides, PixelsKept
<1>3. QED
  BY <1>1, <1>2, SMT DEF Refused, Positive

-----------------------------------------------------------------------------
(* The rate limiter. *)

(* Nobody waits longer than MaxStall for the mutex. *)
Timely == \A r \in Requests : at[r] = "stamped" => stamp[r] <= now /\ now <= stamp[r] + MaxStall

(* The entry of a bucket is its latest window; a bucket without an entry    *)
(* has had no window for long enough that no request still belongs to one.  *)
Latest(m, o) ==
  \A b \in Buckets :
     IF m[b].start = Never THEN \A s \in o[b] : now - s > 2 * Window
                           ELSE m[b].start \in o[b] /\ \A s \in o[b] : s <= m[b].start

(* Whoever was admitted was admitted in a window its bucket has had. *)
Attributed == \A r \in Requests : at[r] = "admitted" => start[r] \in opened[Bucket(r)]

(* The count of an entry is the number of requests its window admitted. *)
Counted == \A b \in Buckets : clients[b].start # Never =>
                                 clients[b].count = Cardinality(Granted(b, clients[b].start))

(* A refusal came inside its window, with the budget spent, and Retry-After *)
(* reaches to the end of it.                                                *)
Denied(r) == /\ start[r] \in Times /\ stamp[r] - start[r] < Window
             /\ start[r] + Window <= stamp[r] + retry[r] * Second
             /\ Cardinality(Granted(Bucket(r), start[r])) >= Limit

AllDenied == \A r \in Requests : at[r] = "denied" => Denied(r)

LimiterInv == /\ workload \in Workloads
              /\ LimiterTypeOK /\ Timely /\ Latest(clients, opened) /\ Attributed
              /\ Counted /\ BudgetPerWindow /\ AllDenied

USE ServerAssumption, LimiterAssumption, WorkloadAssumption
    DEF ServerAssumption, LimiterAssumption, WorkloadAssumption

-----------------------------------------------------------------------------
LEMMA GrantedFinite ==
  \A b, s : IsFiniteSet(Granted(b, s)) /\ Cardinality(Granted(b, s)) \in Nat
<1> SUFFICES ASSUME NEW b, NEW s
             PROVE  IsFiniteSet(Granted(b, s)) /\ Cardinality(Granted(b, s)) \in Nat
    OBVIOUS
<1>1. Granted(b, s) \in SUBSET Requests
  BY DEF Granted
<1>2. QED
  BY <1>1, FS_Subset, FS_CardinalityType

LEMMA BucketTyped == \A c \in Credentials : RateLimitKey(c) \in Buckets
  BY DEF Credentials, RateLimitKey, Buckets

LEMMA RequestBucket ==
  ASSUME LimiterTypeOK, NEW r \in Requests, at[r] # "new" PROVE Bucket(r) \in Buckets
  BY BucketTyped DEF LimiterTypeOK, Bucket

(* Two requests share a bucket exactly when they share a key, or have none  *)
(* and share a peer.                                                        *)
LEMMA SameBucket ==
  ASSUME NEW c \in Credentials, NEW d \in Credentials
  PROVE  RateLimitKey(c) = RateLimitKey(d) <=> /\ c.key = d.key
                                               /\ d.key = NoKey => c.host = d.host
<1>1. c.key \in Keys \/ c.key = NoKey
  BY DEF Credentials
<1>2. d.key \in Keys \/ d.key = NoKey
  BY DEF Credentials
<1>3. QED
  BY <1>1, <1>2 DEF RateLimitKey

(* Rounding up never shortens a wait. *)
LEMMA RoundedUp ==
  ASSUME NEW d \in Int, d > 0
  PROVE  RetryAfterSeconds(d) \in Nat /\ RetryAfterSeconds(d) * Second >= d
<1> DEFINE n == d + Second - 1
           q == n \div Second
<1>1. /\ n \in Int /\ q \in Int /\ n % Second \in 0 .. Second - 1
      /\ n = Second * q + (n % Second)
  BY SMT
<1>2. Second * q >= d
  BY <1>1, SMT
<1>3. q >= 1
  <2> SUFFICES ASSUME q <= 0 PROVE FALSE
      BY <1>1
  <2>1. Second * q <= 0
    BY <1>1, SMT
  <2>2. QED
    BY <1>2, <2>1
<1>4. RetryAfterSeconds(d) = q
  BY <1>1, <1>3 DEF RetryAfterSeconds
<1>5. q * Second = Second * q
  BY <1>1, SMT
<1>6. QED
  BY <1>1, <1>2, <1>3, <1>4, <1>5

-----------------------------------------------------------------------------
(* What allow() knows of the window it works with: it is the latest of its  *)
(* bucket, or begins far enough after it.                                   *)
LEMMA WindowKnown ==
  ASSUME LimiterInv, NEW r \in Requests, at[r] = "stamped"
  PROVE  LET b == Bucket(r)
             w == WindowAt(b, stamp[r])
         IN /\ b \in Buckets
            /\ w \in [start : Times, count : Nat, denyLogged : BOOLEAN]
            /\ stamp[r] - w.start < Window
            /\ \A s \in opened[b] : s <= w.start /\ (s = w.start \/ w.start - s >= Window)
            /\ w.count = Cardinality(Granted(b, w.start))
            /\ w.count # 0 => w = clients[b] /\ w.start \in opened[b]
<1> DEFINE b == Bucket(r)
           t == stamp[r]
           w == WindowAt(b, t)
<1>1. b \in Buckets
  BY RequestBucket DEF LimiterInv
<1>2. /\ t \in Times /\ t \in Int /\ now \in Int /\ t <= now /\ now <= t + MaxStall
      /\ opened[b] \subseteq Times
      /\ clients[b] \in [start : Times \cup {Never}, count : Nat, denyLogged : BOOLEAN]
  BY <1>1 DEF LimiterInv, LimiterTypeOK, Timely, Times
<1>3. \A s \in opened[b], u \in opened[b] : s < u => u - s >= Window
  BY <1>1 DEF LimiterInv, BudgetPerWindow
<1>4. CASE clients[b].start = Never
  <2>1. w = [start |-> t, count |-> 0, denyLogged |-> FALSE]
    BY <1>4 DEF WindowAt
  <2>2. \A s \in opened[b] : s \in Int /\ now - s > 2 * Window
    BY <1>1, <1>2, <1>4 DEF LimiterInv, Latest, Times
  <2>3. \A s \in opened[b] : t - s >= Window /\ s <= t
    BY <1>2, <2>2
  <2>4. t \notin opened[b]
    BY <1>2, <2>3
  <2>5. Granted(b, t) = {}
    BY <2>4 DEF LimiterInv, Attributed, Granted
  <2>6. /\ w \in [start : Times, count : Nat, denyLogged : BOOLEAN]
        /\ w.start = t /\ w.count = 0 /\ t - w.start < Window
    BY <1>2, <2>1
  <2>7. w.count = Cardinality(Granted(b, w.start))
    BY <2>5, <2>6, FS_EmptySet
  <2>8. QED
    BY <1>1, <2>3, <2>6, <2>7
<1>5. CASE clients[b].start # Never /\ t - clients[b].start >= Window
  <2>1. w = [start |-> t, count |-> 0, denyLogged |-> FALSE]
    BY <1>5 DEF WindowAt
  <2>2. clients[b].start \in Int /\ \A s \in opened[b] : s \in Int /\ s <= clients[b].start
    BY <1>1, <1>2, <1>5 DEF LimiterInv, Latest, Times
  <2>3. \A s \in opened[b] : t - s >= Window /\ s <= t
    BY <1>2, <1>5, <2>2
  <2>4. t \notin opened[b]
    BY <1>2, <2>3
  <2>5. Granted(b, t) = {}
    BY <2>4 DEF LimiterInv, Attributed, Granted
  <2>6. /\ w \in [start : Times, count : Nat, denyLogged : BOOLEAN]
        /\ w.start = t /\ w.count = 0 /\ t - w.start < Window
    BY <1>2, <2>1
  <2>7. w.count = Cardinality(Granted(b, w.start))
    BY <2>5, <2>6, FS_EmptySet
  <2>8. QED
    BY <1>1, <2>3, <2>6, <2>7
<1>6. CASE clients[b].start # Never /\ ~(t - clients[b].start >= Window)
  <2>1. w = clients[b]
    BY <1>6 DEF WindowAt
  <2>2. w.start \in Times /\ w.start \in Int /\ w.start \in opened[b]
        /\ \A s \in opened[b] : s \in Int /\ s <= w.start
    BY <1>1, <1>2, <1>6, <2>1 DEF LimiterInv, Latest, Times
  <2>3. w \in [start : Times, count : Nat, denyLogged : BOOLEAN]
    BY <1>2, <2>1, <2>2
  <2>4. \A s \in opened[b] : s = w.start \/ w.start - s >= Window
    BY <1>3, <2>2
  <2>5. w.count = Cardinality(Granted(b, w.start))
    BY <1>1, <1>6, <2>1 DEF LimiterInv, Counted
  <2>6. t - w.start < Window
    BY <1>2, <1>6, <2>1, <2>2
  <2>7. QED
    BY <1>1, <2>1, <2>2, <2>3, <2>4, <2>5, <2>6
<1>7. QED
  BY <1>4, <1>5, <1>6

-----------------------------------------------------------------------------
LEMMA LimiterRests ==
  ASSUME LimiterInv, UNCHANGED <<workload, limiterVars>> PROVE LimiterInv'
<1>1. /\ UNCHANGED <<workload, now, at, from, stamp, clients>>
      /\ UNCHANGED <<lastCleanup, start, retry, opened>>
  BY DEF limiterVars, limiter
<1>2. \A b, s : Granted(b, s)' = Granted(b, s)
  BY <1>1 DEF Granted, Bucket
<1>3. QED
  BY <1>1, <1>2 DEF LimiterInv, LimiterTypeOK, Timely, Latest, Attributed, Counted,
                    BudgetPerWindow, AllDenied, Denied, Bucket

(* A request that arrives has been granted nothing. *)
LEMMA ArriveStep ==
  ASSUME LimiterInv, NEW r \in Requests, NEW c \in Credentials, Arrive(r, c), UNCHANGED workload
  PROVE  LimiterInv'
<1>1. /\ at[r] = "new" /\ at' = [at EXCEPT ![r] = "stamped"]
      /\ from' = [from EXCEPT ![r] = c]
      /\ stamp' = [stamp EXCEPT ![r] = now]
      /\ UNCHANGED <<workload, now, clients, lastCleanup, start, retry, opened>>
  BY DEF Arrive
<1>2. LimiterTypeOK
  BY DEF LimiterInv
<1>3. \A q \in Requests : q # r => Bucket(q)' = Bucket(q)
  BY <1>1, <1>2 DEF Bucket, LimiterTypeOK
<1>4. \A b, s : Granted(b, s)' = Granted(b, s)
  BY <1>1, <1>2, <1>3 DEF Granted, LimiterTypeOK
<1>5. LimiterTypeOK'
  BY <1>1, <1>2 DEF LimiterTypeOK
<1>6. Timely'
  BY <1>1, <1>2 DEF LimiterInv, Timely, LimiterTypeOK, Times
<1>7. Latest(clients, opened)' /\ Counted' /\ BudgetPerWindow'
  BY <1>1, <1>4 DEF LimiterInv, Latest, Counted, BudgetPerWindow
<1>8. Attributed'
  BY <1>1, <1>2, <1>3 DEF LimiterInv, Attributed, LimiterTypeOK
<1>9. AllDenied'
  <2> SUFFICES ASSUME NEW q \in Requests, at'[q] = "denied" PROVE Denied(q)'
      BY DEF AllDenied
  <2>1. q # r /\ Denied(q)
    BY <1>1, <1>2 DEF LimiterInv, AllDenied, LimiterTypeOK
  <2>2. QED
    BY <1>1, <1>2, <1>3, <1>4, <2>1 DEF Denied, LimiterTypeOK
<1>10. QED
  BY <1>1, <1>5, <1>6, <1>7, <1>8, <1>9 DEF LimiterInv

LEMMA TickStep == ASSUME LimiterInv, Tick, UNCHANGED workload PROVE LimiterInv'
<1>1. /\ now < MaxTime /\ now' = now + 1
      /\ \A r \in Requests : at[r] = "stamped" => now < stamp[r] + MaxStall
      /\ UNCHANGED <<workload, at, from, stamp, clients, lastCleanup, start, retry, opened>>
  BY DEF Tick, limiter
<1>2. LimiterTypeOK
  BY DEF LimiterInv
<1>3. \A b, s : Granted(b, s)' = Granted(b, s)
  BY <1>1 DEF Granted, Bucket
<1>4. LimiterTypeOK'
  BY <1>1, <1>2 DEF LimiterTypeOK, Times
<1>5. Timely'
  BY <1>1, <1>2 DEF LimiterInv, Timely, LimiterTypeOK, Times
<1>6. Latest(clients, opened)'
  <2> SUFFICES ASSUME NEW b \in Buckets
               PROVE  IF clients[b].start = Never
                      THEN \A s \in opened[b] : now' - s > 2 * Window
                      ELSE clients[b].start \in opened[b] /\ \A s \in opened[b] : s <= clients[b].start
      BY <1>1 DEF Latest
  <2>1. CASE clients[b].start = Never
    <3>1. \A s \in opened[b] : s \in Int /\ now - s > 2 * Window
      BY <1>2, <2>1 DEF LimiterInv, Latest, LimiterTypeOK, Times
    <3>2. QED
      BY <1>1, <1>2, <2>1, <3>1 DEF LimiterTypeOK, Times
  <2>2. CASE clients[b].start # Never
    BY <2>2 DEF LimiterInv, Latest
  <2>3. QED
    BY <2>1, <2>2
<1>7. Attributed' /\ Counted' /\ BudgetPerWindow'
  BY <1>1, <1>3 DEF LimiterInv, Attributed, Counted, BudgetPerWindow, Bucket
<1>8. AllDenied'
  BY <1>1, <1>3 DEF LimiterInv, AllDenied, Denied, Bucket
<1>9. QED
  BY <1>1, <1>4, <1>5, <1>6, <1>7, <1>8 DEF LimiterInv

-----------------------------------------------------------------------------
(* What a decision changes, whichever way it goes. *)
LEMMA DecideStep ==
  ASSUME LimiterInv, NEW r \in Requests, at[r] = "stamped",
         NEW verdict \in {"admitted", "denied"},
         NEW w, w = WindowAt(Bucket(r), stamp[r]), Decide(r, w, verdict)
  PROVE  /\ at' \in [Requests -> {"new", "stamped", "admitted", "denied"}]
         /\ start' \in [Requests -> Times \cup {Never}]
         /\ opened' \in [Buckets -> SUBSET Times]
         /\ \A q \in Requests : at'[q] # "new" => from[q] \in Credentials
         /\ Timely'
         /\ \A q \in Requests : Bucket(q)' = Bucket(q)
         /\ Attributed'
         /\ \A b \in Buckets, s \in Times :
               Granted(b, s)' = IF verdict = "admitted" /\ b = Bucket(r) /\ s = w.start
                                THEN Granted(b, s) \cup {r} ELSE Granted(b, s)
         /\ r \notin Granted(Bucket(r), w.start)
<1>1. /\ at' = [at EXCEPT ![r] = verdict]
      /\ start' = [start EXCEPT ![r] = w.start]
      /\ opened' = [opened EXCEPT ![Bucket(r)] = @ \cup {w.start}]
      /\ now' = now /\ from' = from /\ stamp' = stamp
  BY DEF Decide
<1>2. LimiterTypeOK
  BY DEF LimiterInv
<1>3. Bucket(r) \in Buckets /\ w.start \in Times
  BY WindowKnown
<1>4. /\ at' \in [Requests -> {"new", "stamped", "admitted", "denied"}]
      /\ start' \in [Requests -> Times \cup {Never}]
      /\ opened' \in [Buckets -> SUBSET Times]
      /\ \A q \in Requests : at'[q] # "new" => from[q] \in Credentials
  BY <1>1, <1>2, <1>3 DEF LimiterTypeOK
<1>5. Timely'
  BY <1>1, <1>2 DEF LimiterInv, Timely, LimiterTypeOK
<1>6. \A q \in Requests : Bucket(q)' = Bucket(q)
  BY <1>1 DEF Bucket
<1>7. Attributed'
  <2> SUFFICES ASSUME NEW q \in Requests, at'[q] = "admitted"
               PROVE  start'[q] \in opened'[Bucket(q)]
      BY <1>6 DEF Attributed
  <2>1. CASE q = r
    BY <1>1, <1>2, <1>3, <2>1 DEF LimiterTypeOK
  <2>2. CASE q # r
    <3>1. at[q] = "admitted" /\ start'[q] = start[q]
      BY <1>1, <1>2, <2>2 DEF LimiterTypeOK
    <3>2. start[q] \in opened[Bucket(q)] /\ Bucket(q) \in Buckets
      BY <1>2, <3>1, RequestBucket DEF LimiterInv, Attributed
    <3>3. QED
      BY <1>1, <1>2, <3>1, <3>2 DEF LimiterTypeOK
  <2>3. QED
    BY <2>1, <2>2
<1>8. ASSUME NEW b \in Buckets, NEW s \in Times
      PROVE  Granted(b, s)' = IF verdict = "admitted" /\ b = Bucket(r) /\ s = w.start
                              THEN Granted(b, s) \cup {r} ELSE Granted(b, s)
  <2>1. \A q \in Requests : q # r => (q \in Granted(b, s)' <=> q \in Granted(b, s))
    BY <1>1, <1>2, <1>6 DEF Granted, LimiterTypeOK
  <2>2. r \in Granted(b, s)' <=> verdict = "admitted" /\ b = Bucket(r) /\ s = w.start
    BY <1>1, <1>2, <1>6 DEF Granted, LimiterTypeOK
  <2>3. r \notin Granted(b, s)
    BY DEF Granted
  <2>4. Granted(b, s) \subseteq Requests /\ Granted(b, s)' \subseteq Requests
    BY DEF Granted
  <2>5. QED
    BY <2>1, <2>2, <2>3, <2>4
<1>9. r \notin Granted(Bucket(r), w.start)
  BY DEF Granted
<1>10. QED
  BY <1>4, <1>5, <1>6, <1>7, <1>8, <1>9

(* The windows of a bucket after a decision. *)
LEMMA WindowsStep ==
  ASSUME LimiterInv, NEW r \in Requests, at[r] = "stamped",
         NEW w, w = WindowAt(Bucket(r), stamp[r]),
         opened' = [opened EXCEPT ![Bucket(r)] = @ \cup {w.start}],
         NEW m \in [Buckets -> [start : Times \cup {Never}, count : Nat, denyLogged : BOOLEAN]],
         m[Bucket(r)].start = w.start,
         \A b \in Buckets \ {Bucket(r)} : m[b] = clients[b]
  PROVE  /\ Latest(m, opened')
         /\ \A b \in Buckets : \A s, u \in opened'[b] : s < u => u - s >= Window
<1>1. LimiterTypeOK /\ Latest(clients, opened)
  BY DEF LimiterInv
<1>2. /\ Bucket(r) \in Buckets /\ w.start \in Times
      /\ \A s \in opened[Bucket(r)] : s <= w.start /\ (s = w.start \/ w.start - s >= Window)
  BY WindowKnown
<1>3. \A b \in Buckets : opened[b] \subseteq Times
  BY <1>1 DEF LimiterTypeOK
<1>4. opened'[Bucket(r)] = opened[Bucket(r)] \cup {w.start}
      /\ \A b \in Buckets \ {Bucket(r)} : opened'[b] = opened[b]
  BY <1>1, <1>2 DEF LimiterTypeOK
<1>5. ASSUME NEW b \in Buckets
      PROVE  IF m[b].start = Never THEN \A s \in opened'[b] : now - s > 2 * Window
             ELSE m[b].start \in opened'[b] /\ \A s \in opened'[b] : s <= m[b].start
  <2>1. CASE b = Bucket(r)
    BY <1>2, <1>4, <2>1 DEF Times, Never
  <2>2. CASE b # Bucket(r)
    BY <1>1, <1>4, <2>2 DEF Latest
  <2>3. QED
    BY <2>1, <2>2
<1>6. ASSUME NEW b \in Buckets, NEW s \in opened'[b], NEW u \in opened'[b], s < u
      PROVE  u - s >= Window
  <2>1. CASE b = Bucket(r)
    <3>1. s \in Int /\ u \in Int /\ w.start \in Int
      BY <1>2, <1>3, <1>4, <2>1 DEF Times
    <3>2. CASE u = w.start
      BY <1>2, <1>4, <1>6, <2>1, <3>1, <3>2
    <3>3. CASE u # w.start
      <4>1. u \in opened[b] /\ s \in opened[b]
        BY <1>2, <1>4, <1>6, <2>1, <3>1, <3>3
      <4>2. QED
        BY <1>6, <4>1 DEF LimiterInv, BudgetPerWindow
    <3>4. QED
      BY <3>2, <3>3
  <2>2. CASE b # Bucket(r)
    BY <1>4, <1>6, <2>2 DEF LimiterInv, BudgetPerWindow
  <2>3. QED
    BY <2>1, <2>2
<1>7. QED
  BY <1>5, <1>6 DEF Latest

(* A sweep forgets only entries that are long over. *)
LEMMA SweepStep ==
  ASSUME NEW o \in [Buckets -> SUBSET Times], now \in Times,
         NEW m \in [Buckets -> [start : Times \cup {Never}, count : Nat, denyLogged : BOOLEAN]],
         Latest(m, o), NEW t \in Times, t <= now
  PROVE  /\ Latest(Swept(m, t), o)
         /\ Swept(m, t) \in [Buckets -> [start : Times \cup {Never}, count : Nat,
                                         denyLogged : BOOLEAN]]
         /\ \A b \in Buckets : Swept(m, t)[b] \in {m[b], NoState}
<1>1. NoState \in [start : Times \cup {Never}, count : Nat, denyLogged : BOOLEAN]
      /\ NoState.start = Never
  BY DEF NoState
<1>2. Swept(m, t) \in [Buckets -> [start : Times \cup {Never}, count : Nat, denyLogged : BOOLEAN]]
  BY <1>1 DEF Swept
<1>3. ASSUME NEW b \in Buckets
      PROVE  IF Swept(m, t)[b].start = Never THEN \A s \in o[b] : now - s > 2 * Window
             ELSE Swept(m, t)[b].start \in o[b] /\ \A s \in o[b] : s <= Swept(m, t)[b].start
  <2>1. CASE m[b].start # Never /\ Idle(m, b, t)
    <3>1. Swept(m, t)[b] = NoState
      BY <2>1 DEF Swept
    <3>2. \A s \in o[b] : s \in Times /\ s <= m[b].start
      BY <2>1 DEF Latest
    <3>3. m[b].start \in Times /\ t - m[b].start > 2 * Window
      BY <2>1 DEF Idle
    <3>4. \A s \in o[b] : now - s > 2 * Window
      BY <3>2, <3>3 DEF Times
    <3>5. QED
      BY <1>1, <3>1, <3>4
  <2>2. CASE ~(m[b].start # Never /\ Idle(m, b, t))
    BY <2>2 DEF Swept, Latest
  <2>3. QED
    BY <2>1, <2>2
<1>4. \A b \in Buckets : Swept(m, t)[b] \in {m[b], NoState}
  BY DEF Swept
<1>5. QED
  BY <1>2, <1>3, <1>4 DEF Latest

(* What was granted before a decision is granted after it. *)
LEMMA KeepDenied ==
  ASSUME LimiterInv, NEW r \in Requests, at[r] = "stamped",
         NEW w, w = WindowAt(Bucket(r), stamp[r]),
         NEW verdict \in {"admitted", "denied"}, Decide(r, w, verdict),
         NEW q \in Requests, q # r, at[q] = "denied", retry'[q] = retry[q]
  PROVE  Denied(q)'
<1>1. LimiterTypeOK /\ Denied(q)
  BY DEF LimiterInv, AllDenied
<1>2. /\ start'[q] = start[q] /\ stamp' = stamp /\ Bucket(q)' = Bucket(q)
      /\ Bucket(q) \in Buckets
  BY <1>1, DecideStep, RequestBucket DEF Decide, LimiterTypeOK
<1>3. start[q] \in Times
  BY <1>1 DEF Denied
<1>4. PICK b \in Buckets, s \in Times : b = Bucket(q) /\ s = start[q]
  BY <1>2, <1>3
<1>5. Granted(b, s)' \in {Granted(b, s), Granted(b, s) \cup {r}}
  BY DecideStep
<1>6. Cardinality(Granted(b, s)) \in Nat /\ IsFiniteSet(Granted(b, s))
  BY GrantedFinite
<1>7. Cardinality(Granted(b, s) \cup {r}) \in {Cardinality(Granted(b, s)),
                                              Cardinality(Granted(b, s)) + 1}
  BY <1>6, FS_AddElement, Zenon
<1>8. Cardinality(Granted(b, s)) >= Limit
  BY <1>1, <1>4 DEF Denied
<1>9. Cardinality(Granted(b, s)') >= Limit
  <2>1. CASE Granted(b, s)' = Granted(b, s)
    BY <1>8, <2>1
  <2>2. CASE Granted(b, s)' = Granted(b, s) \cup {r}
    <3>1. Cardinality(Granted(b, s) \cup {r}) >= Limit
      BY <1>6, <1>7, <1>8
    <3>2. QED
      BY <2>2, <3>1
  <2>3. QED
    BY <1>5, <2>1, <2>2
<1>10. Cardinality(Granted(Bucket(q), start[q]))' >= Limit
  BY <1>2, <1>4, <1>9
<1>11. /\ start'[q] \in Times /\ stamp'[q] - start'[q] < Window
       /\ start'[q] + Window <= stamp'[q] + retry'[q] * Second
  BY <1>1, <1>2 DEF Denied
<1>12. QED
  BY <1>10, <1>11 DEF Denied

-----------------------------------------------------------------------------
LEMMA AdmitStep ==
  ASSUME LimiterInv, NEW r \in Requests, Admit(r), UNCHANGED workload PROVE LimiterInv'
<1> DEFINE b == Bucket(r)
           t == stamp[r]
           w == WindowAt(b, t)
           m == [clients EXCEPT ![b] = [w EXCEPT !.count = @ + 1]]
           Entry == [start : Times \cup {Never}, count : Nat, denyLogged : BOOLEAN]
<1>1. /\ at[r] = "stamped" /\ w.count < Limit /\ Decide(r, w, "admitted")
      /\ \/ clients' = Swept(m, t) /\ lastCleanup' = t
         \/ clients' = m /\ lastCleanup' = lastCleanup
      /\ retry' = retry
  BY DEF Admit
<1>2. LimiterTypeOK
  BY DEF LimiterInv
<1>3. /\ now' = now /\ from' = from /\ stamp' = stamp
      /\ opened' = [opened EXCEPT ![b] = @ \cup {w.start}]
      /\ start' = [start EXCEPT ![r] = w.start] /\ at' = [at EXCEPT ![r] = "admitted"]
  BY <1>1 DEF Decide
<1>4. /\ b \in Buckets
      /\ w \in [start : Times, count : Nat, denyLogged : BOOLEAN]
      /\ w.count = Cardinality(Granted(b, w.start))
      /\ w.count # 0 => w.start \in opened[b]
  BY <1>1, WindowKnown
<1>5. /\ t \in Times /\ t <= now /\ now \in Times
  BY <1>1, <1>2 DEF LimiterInv, LimiterTypeOK, Timely
<1>6. /\ m \in [Buckets -> Entry]
      /\ m[b].start = w.start /\ m[b].count = w.count + 1
      /\ \A c \in Buckets \ {b} : m[c] = clients[c]
  BY <1>2, <1>4 DEF LimiterTypeOK
<1>7. /\ at' \in [Requests -> {"new", "stamped", "admitted", "denied"}]
      /\ start' \in [Requests -> Times \cup {Never}]
      /\ opened' \in [Buckets -> SUBSET Times]
      /\ \A q \in Requests : at'[q] # "new" => from[q] \in Credentials
      /\ Timely' /\ Attributed'
      /\ \A c \in Buckets, s \in Times :
            Granted(c, s)' = IF c = b /\ s = w.start THEN Granted(c, s) \cup {r} ELSE Granted(c, s)
      /\ r \notin Granted(b, w.start)
  BY <1>1, DecideStep
<1>a. w = WindowAt(Bucket(r), stamp[r])
  OBVIOUS
<1> HIDE DEF w, m
<1>8. /\ Latest(m, opened')
      /\ \A c \in Buckets : \A s, u \in opened'[c] : s < u => u - s >= Window
  BY <1>a, <1>1, <1>3, <1>6, WindowsStep
<1>9. /\ Latest(clients', opened') /\ clients' \in [Buckets -> Entry]
      /\ \A c \in Buckets : clients'[c] \in {m[c], NoState}
  BY <1>1, <1>5, <1>6, <1>7, <1>8, SweepStep
<1>10. LimiterTypeOK'
  BY <1>1, <1>2, <1>3, <1>5, <1>7, <1>9 DEF LimiterTypeOK
<1>11. Latest(clients, opened)'
  BY <1>3, <1>9 DEF Latest
<1>12. Cardinality(Granted(b, w.start) \cup {r}) = w.count + 1
  BY <1>4, <1>7, GrantedFinite, FS_AddElement
<1>13. Counted'
  <2> SUFFICES ASSUME NEW c \in Buckets, NEW s \in Times, clients'[c].start = s
               PROVE  clients'[c].count = Cardinality(Granted(c, s)')
    <3>1. \A c \in Buckets : clients'[c].start # Never => clients'[c].start \in Times
      BY <1>9
    <3>2. QED
      BY <3>1 DEF Counted
  <2>1. clients'[c] = m[c]
    BY <1>9 DEF NoState, Times, Never
  <2>2. CASE c = b
    <3>1. s = w.start /\ clients'[c].count = w.count + 1
      BY <1>6, <2>1, <2>2
    <3>2. Granted(c, s)' = Granted(b, w.start) \cup {r}
      BY <1>7, <2>2, <3>1
    <3>3. QED
      BY <1>12, <3>1, <3>2
  <2>3. CASE c # b
    <3>1. clients'[c] = clients[c] /\ clients[c].start = s /\ s # Never
      BY <1>6, <2>1, <2>3 DEF Times, Never
    <3>2. Granted(c, s)' = Granted(c, s)
      BY <1>7, <2>3
    <3>3. clients[c].count = Cardinality(Granted(c, s))
      BY <3>1 DEF LimiterInv, Counted
    <3>4. QED
      BY <3>1, <3>2, <3>3
  <2>4. QED
    BY <2>2, <2>3
<1>14. BudgetPerWindow'
  <2> SUFFICES ASSUME NEW c \in Buckets, NEW s \in opened'[c]
               PROVE  Cardinality(Granted(c, s)') <= Limit
      BY <1>8 DEF BudgetPerWindow
  <2>1. s \in Times
    BY <1>7
  <2>2. CASE c = b /\ s = w.start
    <3>1. Granted(c, s)' = Granted(b, w.start) \cup {r}
      BY <1>7, <2>1, <2>2
    <3>2. QED
      BY <1>1, <1>4, <1>12, <3>1
  <2>3. CASE ~(c = b /\ s = w.start)
    <3>1. Granted(c, s)' = Granted(c, s) /\ s \in opened[c]
      BY <1>2, <1>3, <1>4, <1>7, <2>1, <2>3 DEF LimiterTypeOK
    <3>2. QED
      BY <3>1 DEF LimiterInv, BudgetPerWindow
  <2>4. QED
    BY <2>2, <2>3
<1>15. AllDenied'
  <2> SUFFICES ASSUME NEW q \in Requests, at'[q] = "denied" PROVE Denied(q)'
      BY DEF AllDenied
  <2>1. q # r /\ at[q] = "denied"
    BY <1>2, <1>3 DEF LimiterTypeOK
  <2>2. QED
    BY <1>a, <1>1, <2>1, KeepDenied
<1>16. QED
  BY <1>7, <1>10, <1>11, <1>13, <1>14, <1>15 DEF LimiterInv

LEMMA DenyStep ==
  ASSUME LimiterInv, NEW r \in Requests, Deny(r), UNCHANGED workload PROVE LimiterInv'
<1> DEFINE b == Bucket(r)
           t == stamp[r]
           w == WindowAt(b, t)
           m == [clients EXCEPT ![b] = [w EXCEPT !.denyLogged = TRUE]]
           Entry == [start : Times \cup {Never}, count : Nat, denyLogged : BOOLEAN]
<1>1. /\ at[r] = "stamped" /\ w.count >= Limit /\ Decide(r, w, "denied")
      /\ clients' = m /\ lastCleanup' = lastCleanup
      /\ retry' = [retry EXCEPT ![r] = RetryAfterSeconds(RetryAfter(w, t))]
  BY DEF Deny
<1>2. LimiterTypeOK
  BY DEF LimiterInv
<1>3. /\ now' = now /\ from' = from /\ stamp' = stamp
      /\ opened' = [opened EXCEPT ![b] = @ \cup {w.start}]
      /\ start' = [start EXCEPT ![r] = w.start] /\ at' = [at EXCEPT ![r] = "denied"]
  BY <1>1 DEF Decide
<1>4. /\ b \in Buckets
      /\ w \in [start : Times, count : Nat, denyLogged : BOOLEAN]
      /\ t - w.start < Window
      /\ w.count = Cardinality(Granted(b, w.start))
      /\ w.count # 0 => w = clients[b] /\ w.start \in opened[b]
  BY <1>1, WindowKnown
<1>5. t \in Times /\ now \in Times
  BY <1>2 DEF LimiterTypeOK
<1>6. /\ m \in [Buckets -> Entry]
      /\ m[b].start = w.start /\ m[b].count = w.count
      /\ \A c \in Buckets \ {b} : m[c] = clients[c]
  BY <1>2, <1>4 DEF LimiterTypeOK
<1>7. /\ at' \in [Requests -> {"new", "stamped", "admitted", "denied"}]
      /\ start' \in [Requests -> Times \cup {Never}]
      /\ opened' \in [Buckets -> SUBSET Times]
      /\ \A q \in Requests : at'[q] # "new" => from[q] \in Credentials
      /\ Timely' /\ Attributed'
      /\ \A c \in Buckets, s \in Times : Granted(c, s)' = Granted(c, s)
      /\ Bucket(r)' = b
  BY <1>1, DecideStep
<1>a. w = WindowAt(Bucket(r), stamp[r])
  OBVIOUS
<1> HIDE DEF w, m
<1>8. /\ Latest(m, opened')
      /\ \A c \in Buckets : \A s, u \in opened'[c] : s < u => u - s >= Window
  BY <1>a, <1>1, <1>3, <1>6, WindowsStep
<1>9. RetryAfter(w, t) \in Int /\ RetryAfter(w, t) > 0
  BY <1>4, <1>5 DEF RetryAfter, Times
<1>10. /\ RetryAfterSeconds(RetryAfter(w, t)) \in Nat
       /\ RetryAfterSeconds(RetryAfter(w, t)) * Second >= RetryAfter(w, t)
  BY <1>9, RoundedUp
<1>11. LimiterTypeOK'
  BY <1>1, <1>2, <1>3, <1>6, <1>7, <1>10 DEF LimiterTypeOK
<1>12. Latest(clients, opened)'
  BY <1>1, <1>3, <1>8 DEF Latest
<1>13. Counted'
  <2> SUFFICES ASSUME NEW c \in Buckets, NEW s \in Times, clients'[c].start = s
               PROVE  clients'[c].count = Cardinality(Granted(c, s)')
    <3>1. \A c \in Buckets : clients'[c].start # Never => clients'[c].start \in Times
      BY <1>1, <1>6
    <3>2. QED
      BY <3>1 DEF Counted
  <2>1. CASE c = b
    BY <1>1, <1>4, <1>6, <1>7, <2>1
  <2>2. CASE c # b
    <3>1. clients'[c] = clients[c] /\ clients[c].start = s /\ s # Never
      BY <1>1, <1>6, <2>2 DEF Times, Never
    <3>2. clients[c].count = Cardinality(Granted(c, s))
      BY <3>1 DEF LimiterInv, Counted
    <3>3. QED
      BY <1>7, <3>1, <3>2
  <2>3. QED
    BY <2>1, <2>2
<1>14. BudgetPerWindow'
  <2> SUFFICES ASSUME NEW c \in Buckets, NEW s \in opened'[c]
               PROVE  Cardinality(Granted(c, s)') <= Limit
      BY <1>8 DEF BudgetPerWindow
  <2>1. s \in Times /\ s \in opened[c]
    BY <1>1, <1>2, <1>3, <1>4, <1>7 DEF LimiterTypeOK
  <2>2. QED
    BY <1>7, <2>1 DEF LimiterInv, BudgetPerWindow
<1>15. Denied(r)'
  <2>1. start'[r] = w.start /\ retry'[r] = RetryAfterSeconds(RetryAfter(w, t))
    BY <1>1, <1>2, <1>3 DEF LimiterTypeOK
  <2>2. w.start \in Times /\ w.start + Window <= t + retry'[r] * Second
    BY <1>4, <1>5, <1>10, <2>1 DEF RetryAfter, Times
  <2>3. PICK c \in Buckets, s \in Times : c = b /\ s = w.start
    BY <1>4
  <2>4. Granted(c, s)' = Granted(c, s) /\ Cardinality(Granted(c, s)) >= Limit
    BY <1>1, <1>4, <1>7, <2>3
  <2>5. Cardinality(Granted(Bucket(r), start[r]))' >= Limit
    BY <1>7, <2>1, <2>3, <2>4
  <2>6. QED
    BY <1>3, <1>4, <2>1, <2>2, <2>5 DEF Denied
<1>16. AllDenied'
  <2> SUFFICES ASSUME NEW q \in Requests, q # r, at'[q] = "denied" PROVE Denied(q)'
      BY <1>15 DEF AllDenied
  <2>1. at[q] = "denied" /\ retry'[q] = retry[q]
    BY <1>1, <1>2, <1>3 DEF LimiterTypeOK
  <2>2. QED
    BY <1>a, <1>1, <2>1, KeepDenied
<1>17. QED
  BY <1>7, <1>11, <1>12, <1>13, <1>14, <1>16 DEF LimiterInv

-----------------------------------------------------------------------------
LEMMA LimiterInvInit == Init => LimiterInv
<1> SUFFICES ASSUME Init PROVE LimiterInv
    OBVIOUS
<1>1. /\ workload \in Workloads /\ now = 0
      /\ at = [r \in Requests |-> "new"] /\ from = [r \in Requests |-> NoOne]
      /\ stamp = [r \in Requests |-> 0] /\ clients = [b \in Buckets |-> NoState]
      /\ lastCleanup = Never /\ start = [r \in Requests |-> Never]
      /\ retry = [r \in Requests |-> 0] /\ opened = [b \in Buckets |-> {}]
  BY DEF Init, LimiterInit
<1>2. LimiterTypeOK
  BY <1>1 DEF LimiterTypeOK, Times, NoState
<1>3. Timely /\ Attributed /\ AllDenied
  BY <1>1 DEF Timely, Attributed, AllDenied
<1>4. Latest(clients, opened) /\ Counted /\ BudgetPerWindow
  BY <1>1 DEF Latest, Counted, BudgetPerWindow, NoState
<1>5. QED
  BY <1>1, <1>2, <1>3, <1>4 DEF LimiterInv

LEMMA LimiterInvStep == LimiterInv /\ [Next]_vars => LimiterInv'
<1> SUFFICES ASSUME LimiterInv, [Next]_vars PROVE LimiterInv'
    OBVIOUS
<1>1. CASE UNCHANGED vars
  BY <1>1, LimiterRests DEF vars
<1>2. ASSUME NEW r \in Requests, PublicHealth(r) PROVE LimiterInv'
  BY <1>2, LimiterRests DEF PublicHealth, Sends
<1>3. ASSUME NEW r \in Requests, NEW k \in workload.kinds, NEW c \in workload.credentials,
             Limited(r, k, c)
      PROVE  LimiterInv'
  <2>1. c \in Credentials
    BY DEF LimiterInv
  <2>2. QED
    BY <1>3, <2>1, ArriveStep DEF Limited, Sends
<1>4. ASSUME NEW r \in Requests, NEW k, NEW c, Unlimited(r, k, c) PROVE LimiterInv'
  BY <1>4, LimiterRests DEF Unlimited, Sends
<1>5. ASSUME NEW r \in Requests, Pass(r) PROVE LimiterInv'
  BY <1>5, AdmitStep DEF Pass, routerVars
<1>6. ASSUME NEW r \in Requests, Refuse(r) PROVE LimiterInv'
  BY <1>6, DenyStep DEF Refuse, routerVars
<1>7. CASE Elapse
  BY <1>7, TickStep DEF Elapse, routerVars
<1>8. CASE Probe \/ Edit
  BY <1>8, LimiterRests DEF Probe, Edit, routerVars
<1>9. QED
  BY <1>1, <1>2, <1>3, <1>4, <1>5, <1>6, <1>7, <1>8 DEF Next, Arrival

LEMMA LimiterInvariance == Spec => []LimiterInv
  BY LimiterInvInit, LimiterInvStep, PTL DEF Spec

(* In every window of its bucket at most Limit requests are admitted, and   *)
(* windows of one bucket do not overlap, under any load, however long       *)
(* requests wait for the mutex up to a window, and whenever the sweep runs. *)
THEOREM BudgetKept == Spec => []BudgetPerWindow
<1>1. LimiterInv => BudgetPerWindow
  BY DEF LimiterInv
<1>2. QED
  BY <1>1, LimiterInvariance, PTL

(* A 429 means that the caller's own budget was spent in that window, and a *)
(* caller who waits as long as Retry-After says is not refused by it again. *)
THEOREM RefusalsEarned == Spec => []RefusalsJustified
<1>1. ASSUME LimiterInv, NEW r \in Requests, at[r] = "denied"
      PROVE  /\ Cardinality({q \in Requests :
                               /\ at[q] = "admitted" /\ start[q] = start[r]
                               /\ from[q].key = from[r].key
                               /\ from[r].key = NoKey => from[q].host = from[r].host}) >= Limit
             /\ \A q \in Requests : /\ at[q] = "denied" /\ Bucket(q) = Bucket(r)
                                    /\ stamp[q] >= stamp[r] + retry[r] * Second
                                    => start[q] # start[r]
  <2>1. LimiterTypeOK /\ Denied(r)
    BY <1>1 DEF LimiterInv, AllDenied
  <2>2. ASSUME NEW q \in Requests, at[q] = "admitted"
        PROVE  Bucket(q) = Bucket(r) <=> /\ from[q].key = from[r].key
                                         /\ from[r].key = NoKey => from[q].host = from[r].host
    BY <1>1, <2>1, <2>2, SameBucket DEF LimiterTypeOK, Bucket
  <2>3. {q \in Requests : /\ at[q] = "admitted" /\ start[q] = start[r]
                          /\ from[q].key = from[r].key
                          /\ from[r].key = NoKey => from[q].host = from[r].host}
        = Granted(Bucket(r), start[r])
    BY <2>2 DEF Granted
  <2>4. ASSUME NEW q \in Requests, at[q] = "denied", start[q] = start[r],
               stamp[q] >= stamp[r] + retry[r] * Second
        PROVE  FALSE
    <3>1. /\ start[q] \in Int /\ stamp[q] - start[q] < Window
          /\ start[r] + Window <= stamp[r] + retry[r] * Second
      BY <1>1, <2>1, <2>4 DEF LimiterInv, AllDenied, Denied, Times
    <3>2. stamp[q] \in Int /\ stamp[r] \in Int /\ retry[r] * Second \in Int
      BY <2>1 DEF LimiterTypeOK, Times
    <3>3. QED
      BY <2>4, <3>1, <3>2
  <2>5. QED
    BY <2>1, <2>3, <2>4 DEF Denied
<1>2. LimiterInv => RefusalsJustified
  BY <1>1 DEF RefusalsJustified
<1>3. QED
  BY <1>2, LimiterInvariance, PTL

-----------------------------------------------------------------------------
(* The health endpoints. *)
Databases == {"up", "down", "slow"}
HealthSteps == {"idle", "ping", "waiting", "expiry", "alerting", "stale", "problems", "done"}
Reads == [db : {"none", "connected", "disconnected"}, seen : SUBSET Databases,
          alerting : Nat, alertingRun : Nat, stale : Nat, staleRun : Nat]
Calls == [leader : Refreshers, waiting : SUBSET Requests, seen : SUBSET Databases]
Counts == [run : Nat, stale : Nat, alerting : Nat]

HealthTyped == /\ db \in Databases /\ ping \in Calls /\ published \in Counts
               /\ hpc \in [Requests -> HealthSteps]
               /\ detailed \in [Requests -> BOOLEAN]
               /\ health \in [Requests -> Reads]

(* A call has seen the state the database is in, and answers only those who *)
(* wait for it.                                                             *)
PingSees == /\ ping # NoCall => db \in ping.seen
            /\ \A r \in ping.waiting : hpc[r] = "waiting"

(* Between its two reads a request has the first count of a run that may    *)
(* since have been followed by others.                                      *)
FirstCount ==
  /\ published.alerting <= published.stale
  /\ \A r \in Requests : hpc[r] = "stale" =>
       /\ health[r].alertingRun <= published.run
       /\ health[r].alertingRun = published.run => health[r].alerting = published.alerting

HealthInv == HealthTyped /\ PingSees /\ FirstCount /\ AnswerTrue /\ CountsAgree

(* The image endpoints.  A request that no handler has met has no answer,   *)
(* and one that an image handler has is met by no other.                    *)
Uploaded == [source : {"none", "data", "url"}, tooBig : BOOLEAN, exact : BOOLEAN, whole : BOOLEAN]

ImagesTyped == /\ rows \in [Entities -> [exists : BOOLEAN, by : Requests \cup {Nobody},
                                         whole : BOOLEAN]]
               /\ ipc \in [Requests -> ImageKinds \cup {"idle", "find", "fetch", "store", "done"}]
               /\ target \in [Requests -> Entities]
               /\ upload \in [Requests -> Uploaded]
               /\ code \in [Requests -> Nat]
               /\ kind \in [Requests -> Kinds \cup {"none"}]
               /\ stored \subseteq Requests /\ removed \subseteq Requests

Met(r) == kind[r] # "none" /\ at[r] # "stamped"

OneHandler(r) ==
  /\ kind[r] = "none" => at[r] = "new"
  /\ ~Met(r) => hpc[r] = "idle" /\ ipc[r] = "idle" /\ code[r] = Unanswered
  /\ hpc[r] = "idle" \/ ipc[r] = "idle"

UploadTrue(r) ==
  /\ ipc[r] \notin {"idle", "done"} => code[r] = Unanswered
  /\ upload[r].source # "none" => ipc[r] \in {"find", "fetch", "store", "done"}
  /\ r \in stored => ipc[r] = "done" /\ code[r] \in {200, 500}
  /\ code[r] = 200 /\ upload[r].source # "none" => r \in stored \cup removed

ImagesInv == /\ ImagesTyped
             /\ \A r \in Requests : OneHandler(r) /\ UploadTrue(r)
             /\ \A e \in Entities : Pictured(e) => rows[e].by \in stored

ApiInv == LimiterInv /\ HealthInv /\ ImagesInv

-----------------------------------------------------------------------------
LEMMA HealthInvInit == Init => HealthInv
<1> SUFFICES ASSUME Init PROVE HealthInv
    OBVIOUS
<1>1. HealthInit
  BY DEF Init
<1>2. HealthTyped
  <2>1. NoAnswer \in Reads /\ NoCall \in Calls
    BY DEF NoAnswer, Reads, NoCall, Calls, Refreshers
  <2>2. QED
    BY <1>1, <2>1 DEF HealthInit, HealthTyped, Databases, Counts, HealthSteps
<1>3. PingSees /\ FirstCount /\ AnswerTrue /\ CountsAgree
  BY <1>1 DEF HealthInit, PingSees, FirstCount, AnswerTrue, CountsAgree, NoAnswer, NoCall
<1>4. QED
  BY <1>2, <1>3 DEF HealthInv

LEMMA HealthRests ==
  ASSUME HealthInv, UNCHANGED <<pingVars, requestVars, published>> PROVE HealthInv'
<1>1. UNCHANGED <<db, ping, hpc, detailed, health, published>>
  BY DEF pingVars, requestVars
<1>2. QED
  BY <1>1 DEF HealthInv, HealthTyped, PingSees, FirstCount, AnswerTrue, CountsAgree

(* A step that changes where a request is, and nothing of what it read. *)
LEMMA HealthMoves ==
  ASSUME HealthInv, NEW r \in Requests, NEW step \in HealthSteps, NEW d \in BOOLEAN,
         hpc[r] # "waiting", step # "stale",
         step \in {"problems", "done"} /\ d => detailed[r] /\ hpc[r] \in {"problems", "done"},
         hpc' = [hpc EXCEPT ![r] = step], detailed' = [detailed EXCEPT ![r] = d],
         UNCHANGED <<db, ping, health, published>>
  PROVE  HealthInv'
<1>1. HealthTyped
  BY DEF HealthInv
<1>2. HealthTyped'
  BY <1>1 DEF HealthTyped
<1>3. PingSees'
  BY <1>1 DEF HealthInv, PingSees, HealthTyped, Calls
<1>4. FirstCount' /\ AnswerTrue'
  BY <1>1 DEF HealthInv, HealthTyped, FirstCount, AnswerTrue
<1>5. CountsAgree'
  BY <1>1 DEF HealthInv, HealthTyped, CountsAgree
<1>6. QED
  BY <1>2, <1>3, <1>4, <1>5 DEF HealthInv

LEMMA SameDetails ==
  ASSUME HealthInv, NEW r \in Requests, detailed' = detailed
  PROVE  detailed[r] \in BOOLEAN /\ detailed' = [detailed EXCEPT ![r] = detailed[r]]
BY DEF HealthInv, HealthTyped

LEMMA StartHealthStep ==
  ASSUME HealthInv, NEW r \in Requests, NEW details \in BOOLEAN, StartHealth(r, details)
  PROVE  HealthInv'
<1>1. /\ hpc[r] = "idle" /\ hpc' = [hpc EXCEPT ![r] = "ping"]
      /\ detailed' = [detailed EXCEPT ![r] = details]
      /\ UNCHANGED <<db, ping, health, published>>
  BY DEF StartHealth, pingVars
<1>2. "ping" \in HealthSteps
  BY DEF HealthSteps
<1>3. QED
  BY <1>1, <1>2, HealthMoves

LEMMA PingStep == ASSUME HealthInv, NEW r \in Requests, Ping(r) PROVE HealthInv'
<1>1. /\ hpc[r] = "ping" /\ hpc' = [hpc EXCEPT ![r] = "waiting"]
      /\ ping' = IF ping = NoCall THEN [leader |-> r, waiting |-> {r}, seen |-> {db}]
                 ELSE [ping EXCEPT !.waiting = @ \cup {r}]
      /\ UNCHANGED <<db, detailed, health, published>>
  BY DEF Ping
<1>2. HealthTyped
  BY DEF HealthInv
<1>3. /\ ping' \in Calls /\ db \in ping'.seen
      /\ \A q \in ping'.waiting : q = r \/ hpc[q] = "waiting"
  <2>1. CASE ping = NoCall
    BY <1>1, <1>2, <2>1 DEF HealthTyped, Calls, Refreshers
  <2>2. CASE ping # NoCall
    BY <1>1, <1>2, <2>2 DEF HealthInv, HealthTyped, PingSees, Calls
  <2>3. QED
    BY <2>1, <2>2
<1>4. HealthTyped'
  BY <1>1, <1>2, <1>3 DEF HealthTyped, HealthSteps
<1>5. PingSees'
  BY <1>1, <1>2, <1>3, <1>4 DEF PingSees, HealthTyped, Calls
<1>6. FirstCount' /\ AnswerTrue' /\ CountsAgree'
  BY <1>1, <1>2 DEF HealthInv, HealthTyped, FirstCount, AnswerTrue, CountsAgree
<1>7. QED
  BY <1>4, <1>5, <1>6 DEF HealthInv

(* The database is in a state the call has seen when it answers. *)
LEMMA PingReturnsStep == ASSUME HealthInv, PingOk \/ PingFails PROVE HealthInv'
<1>1. PICK status \in {"connected", "disconnected"} :
        PingReturns(status) /\ (status = "connected" <=> db = "up")
  BY DEF PingOk, PingFails, PingTimedOut
<1>2. /\ ping # NoCall /\ ping' = NoCall
      /\ health' = [r \in Requests |->
           IF r \notin ping.waiting THEN health[r]
           ELSE [health[r] EXCEPT !.db = status, !.seen = ping.seen]]
      /\ hpc' = [r \in Requests |-> IF r \notin ping.waiting THEN hpc[r]
                                    ELSE IF detailed[r] THEN "expiry" ELSE "done"]
      /\ UNCHANGED <<db, detailed, published>>
  BY <1>1 DEF PingReturns
<1>3. HealthTyped /\ db \in ping.seen /\ ping.seen \in SUBSET Databases
  BY <1>2 DEF HealthInv, HealthTyped, PingSees, Calls
<1>4. ASSUME NEW r \in Requests
      PROVE  /\ health'[r] \in Reads
             /\ health'[r].alerting = health[r].alerting /\ health'[r].stale = health[r].stale
             /\ health'[r].alertingRun = health[r].alertingRun
             /\ health'[r].staleRun = health[r].staleRun
             /\ \/ health'[r].db = status /\ health'[r].seen = ping.seen
                \/ health'[r].db = health[r].db /\ health'[r].seen = health[r].seen
             /\ hpc'[r] \in HealthSteps
             /\ \/ hpc'[r] = hpc[r]
                \/ hpc'[r] = "expiry"
                \/ hpc'[r] = "done" /\ ~detailed[r]
  <2>1. health[r] \in Reads
    BY <1>3 DEF HealthTyped
  <2>2. CASE r \in ping.waiting
    <3>1. health'[r] = [health[r] EXCEPT !.db = status, !.seen = ping.seen]
      BY <1>2, <2>2
    <3>2. QED
      BY <1>2, <1>3, <2>1, <2>2, <3>1 DEF Reads, HealthSteps
  <2>3. CASE r \notin ping.waiting
    BY <1>2, <1>3, <2>1, <2>3 DEF HealthTyped
  <2>4. QED
    BY <2>2, <2>3
<1>5. HealthTyped'
  <2>1. NoCall \in Calls
    BY DEF NoCall, Calls, Refreshers
  <2>2. health' \in [Requests -> Reads] /\ hpc' \in [Requests -> HealthSteps]
    BY <1>2, <1>4
  <2>3. QED
    BY <1>2, <1>3, <2>1, <2>2 DEF HealthTyped
<1>6. PingSees'
  BY <1>2 DEF PingSees, NoCall
<1>7. FirstCount'
  BY <1>2, <1>4 DEF HealthInv, FirstCount
<1>8. AnswerTrue'
  BY <1>1, <1>3, <1>4 DEF HealthInv, AnswerTrue
<1>9. CountsAgree'
  BY <1>2, <1>4 DEF HealthInv, CountsAgree
<1>10. QED
  BY <1>5, <1>6, <1>7, <1>8, <1>9 DEF HealthInv

LEMMA ReadExpiryStep == ASSUME HealthInv, NEW r \in Requests, ReadExpiry(r) PROVE HealthInv'
<1>1. /\ hpc[r] = "expiry" /\ hpc' = [hpc EXCEPT ![r] = "alerting"]
      /\ UNCHANGED <<db, ping, detailed, health, published>>
  BY DEF ReadExpiry, pingVars
<1>2. "alerting" \in HealthSteps
  BY DEF HealthSteps
<1>3. QED
  BY <1>1, <1>2, SameDetails, HealthMoves

LEMMA AnswerDetailsStep ==
  ASSUME HealthInv, NEW r \in Requests, AnswerDetails(r) PROVE HealthInv'
<1>1. /\ hpc[r] = "problems" /\ hpc' = [hpc EXCEPT ![r] = "done"]
      /\ UNCHANGED <<db, ping, detailed, health, published>>
  BY DEF AnswerDetails, pingVars
<1>2. "done" \in HealthSteps
  BY DEF HealthSteps
<1>3. QED
  BY <1>1, <1>2, SameDetails, HealthMoves

(* The two reads of the file monitor's counts. *)
LEMMA ReadAlertingStep ==
  ASSUME HealthInv, NEW r \in Requests, ReadAlerting(r) PROVE HealthInv'
<1> DEFINE h == [health[r] EXCEPT !.alerting = published.alerting, !.alertingRun = published.run]
<1>1. /\ hpc[r] = "alerting" /\ hpc' = [hpc EXCEPT ![r] = "stale"]
      /\ health' = [health EXCEPT ![r].alerting = published.alerting,
                                  ![r].alertingRun = published.run]
      /\ UNCHANGED <<db, ping, detailed, published>>
  BY DEF ReadAlerting, pingVars
<1>2. HealthTyped /\ published \in Counts /\ health[r] \in Reads
  BY DEF HealthInv, HealthTyped
<1>3. health' = [health EXCEPT ![r] = h]
  BY <1>1, <1>2 DEF HealthTyped
<1>4. /\ h \in Reads /\ h.db = health[r].db /\ h.seen = health[r].seen
      /\ h.alerting = published.alerting /\ h.alertingRun = published.run
      /\ published.run \in Nat
  BY <1>2 DEF Reads, Counts
<1> HIDE DEF h
<1>5. HealthTyped'
  BY <1>1, <1>2, <1>3, <1>4 DEF HealthTyped, HealthSteps
<1>6. PingSees'
  BY <1>1, <1>2 DEF HealthInv, PingSees, HealthTyped, Calls
<1>7. FirstCount' /\ AnswerTrue' /\ CountsAgree'
  BY <1>1, <1>2, <1>3, <1>4 DEF HealthInv, HealthTyped, FirstCount, AnswerTrue, CountsAgree
<1>8. QED
  BY <1>5, <1>6, <1>7 DEF HealthInv

LEMMA ReadStaleStep == ASSUME HealthInv, NEW r \in Requests, ReadStale(r) PROVE HealthInv'
<1> DEFINE h == [health[r] EXCEPT !.stale = published.stale, !.staleRun = published.run]
<1>1. /\ hpc[r] = "stale" /\ hpc' = [hpc EXCEPT ![r] = "problems"]
      /\ health' = [health EXCEPT ![r].stale = published.stale, ![r].staleRun = published.run]
      /\ UNCHANGED <<db, ping, detailed, published>>
  BY DEF ReadStale, pingVars, StaleCount
<1>2. HealthTyped /\ published \in Counts /\ health[r] \in Reads
  BY DEF HealthInv, HealthTyped
<1>3. health' = [health EXCEPT ![r] = h]
  BY <1>1, <1>2 DEF HealthTyped
<1>4. /\ h \in Reads /\ h.db = health[r].db /\ h.seen = health[r].seen
      /\ h.alerting = health[r].alerting /\ h.alertingRun = health[r].alertingRun
      /\ h.stale = published.stale /\ h.staleRun = published.run
      /\ h.alerting \in Nat /\ h.alertingRun \in Nat /\ published.run \in Nat
      /\ published.alerting \in Nat /\ published.stale \in Nat
  BY <1>2 DEF Reads, Counts
<1> HIDE DEF h
<1>5. HealthTyped'
  BY <1>1, <1>2, <1>3, <1>4 DEF HealthTyped, HealthSteps
<1>6. PingSees'
  BY <1>1, <1>2 DEF HealthInv, PingSees, HealthTyped, Calls
<1>7. FirstCount' /\ AnswerTrue'
  BY <1>1, <1>2, <1>3, <1>4 DEF HealthInv, HealthTyped, FirstCount, AnswerTrue
<1>8. CountsAgree'
  <2>1. /\ h.alertingRun <= h.staleRun
        /\ h.alertingRun = h.staleRun => h.alerting <= h.stale
    BY <1>1, <1>4 DEF HealthInv, FirstCount
  <2>2. /\ h.alerting > h.stale => h.alertingRun < h.staleRun
        /\ h.alertingRun = h.staleRun => h.alerting <= h.stale
    BY <1>4, <2>1
  <2>3. QED
    BY <1>1, <1>2, <1>3, <2>2 DEF HealthInv, HealthTyped, CountsAgree
<1>9. QED
  BY <1>5, <1>6, <1>7, <1>8 DEF HealthInv

LEMMA DbChangesStep == ASSUME HealthInv, NEW d \in Databases, DbChanges(d) PROVE HealthInv'
<1>1. /\ db' = d
      /\ ping' = IF ping = NoCall THEN ping ELSE [ping EXCEPT !.seen = @ \cup {d}]
      /\ UNCHANGED <<hpc, detailed, health, published>>
  BY DEF DbChanges, requestVars
<1>2. HealthTyped
  BY DEF HealthInv
<1>3. ping' \in Calls /\ ping'.waiting = ping.waiting /\ (ping' # NoCall => d \in ping'.seen)
  BY <1>1, <1>2 DEF HealthTyped, Calls
<1>4. HealthTyped' /\ PingSees'
  BY <1>1, <1>2, <1>3 DEF HealthInv, HealthTyped, PingSees
<1>5. FirstCount' /\ AnswerTrue' /\ CountsAgree'
  BY <1>1 DEF HealthInv, FirstCount, AnswerTrue, CountsAgree
<1>6. QED
  BY <1>4, <1>5 DEF HealthInv

LEMMA PublishStep ==
  ASSUME HealthInv, NEW s \in Nat, NEW a \in Nat, Publish(s, a) PROVE HealthInv'
<1>1. /\ a <= s /\ published' = [run |-> published.run + 1, stale |-> s, alerting |-> a]
      /\ UNCHANGED <<db, ping, hpc, detailed, health>>
  BY DEF Publish, pingVars, requestVars
<1>2. HealthTyped /\ published.run \in Nat
  BY DEF HealthInv, HealthTyped, Counts
<1>3. /\ published' \in Counts /\ published'.run = published.run + 1
      /\ published'.alerting <= published'.stale
  BY <1>1, <1>2 DEF Counts
<1>4. HealthTyped'
  BY <1>1, <1>2, <1>3 DEF HealthTyped
<1>5. FirstCount'
  <2> SUFFICES ASSUME NEW r \in Requests, hpc[r] = "stale"
               PROVE  health[r].alertingRun < published'.run
      BY <1>1, <1>2, <1>3 DEF FirstCount, HealthTyped, Reads
  <2>1. health[r].alertingRun \in Nat /\ health[r].alertingRun <= published.run
    BY <1>2 DEF HealthInv, FirstCount, HealthTyped, Reads
  <2>2. QED
    BY <1>2, <1>3, <2>1
<1>6. PingSees' /\ AnswerTrue' /\ CountsAgree'
  BY <1>1 DEF HealthInv, PingSees, AnswerTrue, CountsAgree
<1>7. QED
  BY <1>3, <1>4, <1>5, <1>6 DEF HealthInv

LEMMA ProbeStep == ASSUME HealthInv, HealthStep \/ Outside PROVE HealthInv'
<1>1. ASSUME NEW r \in Requests, HandleHealth(r) PROVE HealthInv'
  BY <1>1, PingStep, ReadExpiryStep, ReadAlertingStep, ReadStaleStep, AnswerDetailsStep
     DEF HandleHealth
<1>2. CASE PingOk \/ PingFails
  BY <1>2, PingReturnsStep
<1>3. ASSUME NEW g \in Refreshers, Refresh(g) PROVE HealthInv'
  <2>1. UNCHANGED <<pingVars, requestVars, published>>
    BY <1>3 DEF Refresh, BeginRefresh, StoreExpiry, EndRefresh
  <2>2. QED
    BY <2>1, HealthRests
<1>4. CASE Outside
  <2>1. ASSUME NEW d \in {"up", "down", "slow"}, DbChanges(d) PROVE HealthInv'
    BY <2>1, DbChangesStep DEF Databases
  <2>2. ASSUME NEW r \in Requests, ClientGone(r) PROVE HealthInv'
    <3>1. UNCHANGED <<db, ping, hpc, detailed, health, published>>
      BY <2>2 DEF ClientGone, pingVars
    <3>2. QED
      BY <3>1 DEF HealthInv, HealthTyped, PingSees, FirstCount, AnswerTrue, CountsAgree
  <2>3. ASSUME NEW s \in 0 .. 1, NEW a \in 0 .. 1, Publish(s, a) PROVE HealthInv'
    BY <2>3, PublishStep
  <2>4. ASSUME Age PROVE HealthInv'
    BY <2>4, HealthRests DEF Age
  <2>5. QED
    BY <1>4, <2>1, <2>2, <2>3, <2>4 DEF Outside
<1>5. QED
  BY <1>1, <1>2, <1>3, <1>4 DEF HealthStep

-----------------------------------------------------------------------------
LEMMA ImagesInvInit == Init => ImagesInv
<1> SUFFICES ASSUME Init PROVE ImagesInv
    OBVIOUS
<1>1. ImagesInit /\ HealthInit /\ LimiterInit /\ ServerInit /\ kind = [r \in Requests |-> "none"]
  BY DEF Init
<1>2. ImagesTyped
  BY <1>1 DEF ImagesInit, ServerInit, ImagesTyped, NoPicture, NoUpload, Uploaded, Unanswered
<1>3. \A r \in Requests : OneHandler(r) /\ UploadTrue(r)
  BY <1>1 DEF ImagesInit, HealthInit, LimiterInit, ServerInit, OneHandler, UploadTrue, NoUpload
<1>4. \A e \in Entities : ~Pictured(e)
  BY <1>1 DEF ImagesInit, Pictured, NoPicture
<1>5. QED
  BY <1>2, <1>3, <1>4 DEF ImagesInv

(* Answers outside the image handlers go to requests that have no upload.   *)
LEMMA ImagesRest ==
  ASSUME ImagesInv, UNCHANGED imageVars,
         code' \in [Requests -> Nat], kind' \in [Requests -> Kinds \cup {"none"}],
         \A r \in Requests : OneHandler(r)' /\ (code'[r] = code[r] \/ ipc[r] = "idle")
  PROVE  ImagesInv'
<1>1. UNCHANGED <<rows, ipc, target, upload, stored, removed>>
  BY DEF imageVars
<1>2. ImagesTyped'
  BY <1>1 DEF ImagesInv, ImagesTyped
<1>3. \A r \in Requests : UploadTrue(r)'
  BY <1>1 DEF ImagesInv, UploadTrue
<1>4. \A e \in Entities : Pictured(e)' => rows'[e].by \in stored'
  BY <1>1 DEF ImagesInv, Pictured
<1>5. QED
  BY <1>2, <1>3, <1>4 DEF ImagesInv

LEMMA AllRest ==
  ASSUME ApiInv, UNCHANGED vars PROVE ApiInv'
<1>1. UNCHANGED <<workload, kind, limiterVars, healthVars, imageVars, code>>
  BY DEF vars, serverVars
<1>2. UNCHANGED <<at, hpc, ipc, pingVars, requestVars, published>>
  BY <1>1 DEF limiterVars, limiter, healthVars, requestVars, imageVars
<1>3. \A r \in Requests : OneHandler(r)'
  BY <1>1, <1>2 DEF ApiInv, ImagesInv, OneHandler, Met
<1>4. QED
  BY <1>1, <1>2, <1>3, LimiterRests, HealthRests, ImagesRest DEF ApiInv, ImagesInv, ImagesTyped

(* The health handlers answer none but the requests they have. *)
LEMMA ProbeAnswers ==
  ASSUME HealthInv, ImagesTyped, HealthStep \/ Outside
  PROVE  /\ code' \in [Requests -> Nat]
         /\ \A r \in Requests : /\ hpc'[r] = "idle" <=> hpc[r] = "idle"
                                /\ code'[r] = code[r] \/ hpc[r] # "idle"
<1> USE DEF serverVars, Respond
<1>1. hpc \in [Requests -> HealthSteps] /\ code \in [Requests -> Nat]
  BY DEF HealthInv, HealthTyped, ImagesTyped
<1>2. ASSUME NEW r \in Requests, HandleHealth(r)
      PROVE  /\ code' \in [Requests -> Nat]
             /\ \A q \in Requests : /\ hpc'[q] = "idle" <=> hpc[q] = "idle"
                                    /\ code'[q] = code[q] \/ hpc[q] # "idle"
  BY <1>1, <1>2 DEF HandleHealth, Ping, ReadExpiry, ReadAlerting, ReadStale, AnswerDetails
<1>3. ASSUME NEW status, PingReturns(status)
      PROVE  /\ code' \in [Requests -> Nat]
             /\ \A q \in Requests : /\ hpc'[q] = "idle" <=> hpc[q] = "idle"
                                    /\ code'[q] = code[q] \/ hpc[q] # "idle"
  <2>1. /\ code' = [r \in Requests |->
                     IF r \notin ping.waiting \/ detailed[r] THEN code[r]
                     ELSE IF status = "connected" THEN 200 ELSE 503]
        /\ hpc' = [r \in Requests |-> IF r \notin ping.waiting THEN hpc[r]
                                      ELSE IF detailed[r] THEN "expiry" ELSE "done"]
    BY <1>3 DEF PingReturns
  <2>2. \A q \in Requests : q \in ping.waiting => hpc[q] = "waiting"
    BY DEF HealthInv, PingSees
  <2>3. ASSUME NEW q \in Requests
        PROVE  /\ hpc'[q] = "idle" <=> hpc[q] = "idle"
               /\ code'[q] = code[q] \/ hpc[q] # "idle"
               /\ code'[q] \in Nat
    BY <1>1, <2>1, <2>2
  <2>4. QED
    BY <2>1, <2>3
<1>4. ASSUME NEW g \in Refreshers, Refresh(g) PROVE UNCHANGED <<hpc, code>>
  BY <1>4 DEF Refresh, BeginRefresh, StoreExpiry, EndRefresh, requestVars
<1>5. ASSUME Outside PROVE UNCHANGED <<hpc, code>>
  BY <1>5 DEF Outside, DbChanges, ClientGone, Publish, Age, requestVars
<1>6. QED
  BY <1>1, <1>2, <1>3, <1>4, <1>5 DEF HealthStep, PingOk, PingFails

-----------------------------------------------------------------------------
(* The route of a request that no handler has met. *)
LEMMA RouteStep ==
  ASSUME HealthInv, ImagesInv, NEW r \in Requests, ~Met(r), NEW k \in Kinds, NEW c,
         Route(r, k, c), kind' \in [Requests -> Kinds \cup {"none"}], Met(r)',
         \A q \in Requests \ {r} : kind'[q] = kind[q] /\ at'[q] = at[q]
  PROVE  HealthInv' /\ ImagesInv'
<1>1. /\ ImagesTyped /\ hpc \in [Requests -> HealthSteps]
      /\ hpc[r] = "idle" /\ ipc[r] = "idle" /\ code[r] = Unanswered
      /\ \A q \in Requests : OneHandler(q) /\ UploadTrue(q)
  BY DEF HealthInv, HealthTyped, ImagesInv, OneHandler
<1>2. CASE (Respond(r, 404) \/ Respond(r, 401)) /\ UNCHANGED <<healthVars, imageVars>>
  <2>1. /\ code' \in [Requests -> Nat]
        /\ \A q \in Requests : code'[q] = code[q] \/ ipc[q] = "idle"
        /\ \A q \in Requests \ {r} : code'[q] = code[q]
    BY <1>1, <1>2 DEF Respond, ImagesTyped
  <2>2. UNCHANGED <<pingVars, requestVars, published, hpc, ipc>>
    BY <1>2 DEF healthVars, requestVars, imageVars
  <2>3. \A q \in Requests : OneHandler(q)'
    BY <1>1, <2>1, <2>2 DEF OneHandler, Met
  <2>4. QED
    BY <1>2, <2>1, <2>2, <2>3, HealthRests, ImagesRest
<1>3. CASE StartHealth(r, TRUE) /\ UNCHANGED imageVars
  <2>1. code' = code /\ hpc' = [hpc EXCEPT ![r] = "ping"] /\ ipc' = ipc
    BY <1>3 DEF StartHealth, serverVars, imageVars
  <2>2. \A q \in Requests : OneHandler(q)'
    BY <1>1, <2>1 DEF OneHandler, Met
  <2>3. QED
    BY <1>1, <1>3, <2>1, <2>2, StartHealthStep, ImagesRest DEF ImagesTyped
<1>4. CASE k \in ImageKinds /\ UNCHANGED healthVars /\ (StartImage(r, k) \/ Malformed(r, k))
  <2>1. PICK step \in ImageKinds \cup {"done"}, status \in {Unanswered, 400} :
          /\ ipc' = [ipc EXCEPT ![r] = step] /\ code' = [code EXCEPT ![r] = status]
          /\ step # "done" => status = Unanswered
    <3>1. CASE StartImage(r, k)
      <4>1. ipc' = [ipc EXCEPT ![r] = k] /\ code' = code
        BY <3>1 DEF StartImage, Goto
      <4>2. code' = [code EXCEPT ![r] = Unanswered]
        BY <1>1, <4>1 DEF ImagesTyped
      <4>3. QED
        BY <1>4, <4>1, <4>2
    <3>2. CASE Malformed(r, k)
      BY <1>1, <1>4, <3>2 DEF Malformed, Finish, Respond
    <3>3. QED
      BY <1>4, <3>1, <3>2
  <2>2. UNCHANGED <<rows, target, upload, stored, removed>>
    BY <1>4 DEF StartImage, Malformed
  <2>3. UNCHANGED <<pingVars, requestVars, published, hpc>>
    BY <1>4 DEF healthVars, requestVars
  <2>4. ImagesTyped'
    BY <1>1, <2>1, <2>2 DEF ImagesTyped, Unanswered
  <2>5. \A q \in Requests : OneHandler(q)'
    BY <1>1, <2>1, <2>3 DEF OneHandler, Met, ImagesTyped
  <2>6. \A q \in Requests : UploadTrue(q)'
    BY <1>1, <2>1, <2>2 DEF UploadTrue, ImagesTyped, Unanswered
  <2>7. \A e \in Entities : Pictured(e)' => rows'[e].by \in stored'
    BY <2>2 DEF ImagesInv, Pictured
  <2>8. QED
    BY <2>3, <2>4, <2>5, <2>6, <2>7, HealthRests DEF ImagesInv
<1>5. QED
  BY <1>2, <1>3, <1>4 DEF Route

LEMMA Unmet ==
  ASSUME ImagesInv, NEW r \in Requests, kind[r] = "none" \/ at[r] = "stamped"
  PROVE  /\ ~Met(r) /\ hpc[r] = "idle" /\ ipc[r] = "idle" /\ code[r] = Unanswered
         /\ kind[r] = "none" => at[r] = "new"
         /\ at[r] = "stamped" => kind[r] \in Kinds
BY DEF ImagesInv, OneHandler, Met, ImagesTyped

LEMMA PassStep == ASSUME ApiInv, NEW r \in Requests, Pass(r) PROVE ApiInv'
<1>1. /\ at[r] = "stamped" /\ at' = [at EXCEPT ![r] = "admitted"] /\ kind' = kind
      /\ workload' = workload /\ at \in [Requests -> {"new", "stamped", "admitted", "denied"}]
  BY DEF Pass, Admit, Decide, routerVars, ApiInv, LimiterInv, LimiterTypeOK
<1>2. ~Met(r) /\ kind[r] \in Kinds /\ kind \in [Requests -> Kinds \cup {"none"}]
  BY <1>1, Unmet DEF ApiInv, ImagesInv, ImagesTyped
<1>3. "none" \notin Kinds
  BY DEF Kinds, ImageKinds
<1>4. Met(r)'
  BY <1>1, <1>2, <1>3 DEF Met
<1>5. Route(r, kind[r], from[r])
  BY DEF Pass
<1>6. HealthInv' /\ ImagesInv'
  BY <1>1, <1>2, <1>4, <1>5, RouteStep DEF ApiInv
<1>7. LimiterInv'
  BY <1>1, AdmitStep DEF Pass, ApiInv
<1>8. QED
  BY <1>6, <1>7 DEF ApiInv

LEMMA RefuseStep == ASSUME ApiInv, NEW r \in Requests, Refuse(r) PROVE ApiInv'
<1>1. /\ at[r] = "stamped" /\ at' = [at EXCEPT ![r] = "denied"]
      /\ code' = [code EXCEPT ![r] = 429]
      /\ UNCHANGED <<workload, kind, healthVars, imageVars>>
      /\ at \in [Requests -> {"new", "stamped", "admitted", "denied"}]
  BY DEF Refuse, Deny, Decide, Respond, routerVars, ApiInv, LimiterInv, LimiterTypeOK
<1>2. UNCHANGED <<pingVars, requestVars, published, hpc, ipc>>
  BY <1>1 DEF healthVars, requestVars, imageVars
<1>3. ImagesInv /\ ImagesTyped /\ HealthInv /\ ipc[r] = "idle"
  BY <1>1, Unmet DEF ApiInv, ImagesInv
<1>4. /\ code' \in [Requests -> Nat]
      /\ \A q \in Requests : code'[q] = code[q] \/ ipc[q] = "idle"
  BY <1>1, <1>3 DEF ImagesTyped
<1>5. \A q \in Requests : OneHandler(q)'
  BY <1>1, <1>2, <1>3 DEF ImagesInv, OneHandler, Met, ImagesTyped, Kinds, ImageKinds
<1>6. LimiterInv'
  BY <1>1, DenyStep DEF Refuse, ApiInv
<1>7. QED
  BY <1>1, <1>2, <1>3, <1>4, <1>5, <1>6, HealthRests, ImagesRest DEF ApiInv, ImagesTyped

LEMMA Sent ==
  ASSUME ApiInv, NEW r \in Requests, NEW k \in workload.kinds, Turn(r), Sends(r, k)
  PROVE  /\ ~Met(r) /\ k \in Kinds /\ "none" \notin Kinds
         /\ at[r] = "new" /\ hpc[r] = "idle" /\ ipc[r] = "idle"
         /\ kind' = [kind EXCEPT ![r] = k] /\ kind' \in [Requests -> Kinds \cup {"none"}]
         /\ kind'[r] = k /\ (\A q \in Requests \ {r} : kind'[q] = kind[q])
         /\ workload' = workload /\ workload \in Workloads
<1>1. k \in Kinds /\ workload \in Workloads
  BY DEF ApiInv, LimiterInv
<1>2. "none" \notin Kinds
  BY DEF Kinds, ImageKinds
<1>3. kind \in [Requests -> Kinds \cup {"none"}]
  BY DEF ApiInv, ImagesInv, ImagesTyped
<1>4. kind[r] = "none"
  BY DEF Turn
<1>5. kind' = [kind EXCEPT ![r] = k] /\ workload' = workload
  BY DEF Sends
<1>6. /\ kind' \in [Requests -> Kinds \cup {"none"}]
      /\ kind'[r] = k /\ (\A q \in Requests \ {r} : kind'[q] = kind[q])
  BY <1>1, <1>3, <1>5
<1>7. QED
  BY <1>1, <1>2, <1>4, <1>5, <1>6, Unmet DEF ApiInv

LEMMA ArrivalStep == ASSUME ApiInv, NEW r \in Requests, Arrival(r) PROVE ApiInv'
<1>1. CASE PublicHealth(r)
  <2> DEFINE k == "public health"
  <2>1. /\ kind[r] = "none" /\ kind' = [kind EXCEPT ![r] = k] /\ workload' = workload
        /\ StartHealth(r, FALSE) /\ UNCHANGED <<limiterVars, imageVars>>
    BY <1>1 DEF PublicHealth, Turn, Sends
  <2>2. /\ ImagesTyped /\ HealthInv /\ LimiterInv /\ hpc \in [Requests -> HealthSteps]
        /\ at[r] = "new" /\ ipc[r] = "idle" /\ \A q \in Requests : OneHandler(q)
    BY <2>1, Unmet DEF ApiInv, ImagesInv, HealthInv, HealthTyped
  <2>3. kind' \in [Requests -> Kinds \cup {"none"}]
    BY <2>1, <2>2 DEF ImagesTyped, Kinds
  <2>4. code' = code /\ hpc' = [hpc EXCEPT ![r] = "ping"] /\ at' = at /\ ipc' = ipc
    BY <2>1 DEF StartHealth, serverVars, limiterVars, limiter, imageVars
  <2>5. \A q \in Requests : OneHandler(q)'
    BY <2>1, <2>2, <2>4 DEF OneHandler, Met, ImagesTyped
  <2>6. LimiterInv'
    BY <2>1, <2>2, LimiterRests
  <2>7. HealthInv'
    BY <2>1, <2>2, StartHealthStep
  <2>8. ImagesInv'
    BY <2>1, <2>2, <2>3, <2>4, <2>5, ImagesRest DEF ApiInv, ImagesTyped
  <2>9. QED
    BY <2>6, <2>7, <2>8 DEF ApiInv
<1>2. ASSUME NEW k \in workload.kinds, NEW c \in workload.credentials, Limited(r, k, c)
      PROVE  ApiInv'
  <2>1. /\ Turn(r) /\ Sends(r, k) /\ Arrive(r, c) /\ UNCHANGED <<healthVars, imageVars>>
        /\ at' = [at EXCEPT ![r] = "stamped"] /\ code' = code
    BY <1>2 DEF Limited, Arrive, serverVars
  <2>2. /\ k \in Kinds /\ "none" \notin Kinds /\ hpc[r] = "idle" /\ ipc[r] = "idle"
        /\ kind' \in [Requests -> Kinds \cup {"none"}]
        /\ kind'[r] = k /\ (\A q \in Requests \ {r} : kind'[q] = kind[q])
        /\ workload' = workload /\ workload \in Workloads
    BY <2>1, Sent
  <2>3. c \in Credentials
    BY <2>2
  <2>4. LimiterInv' /\ at \in [Requests -> {"new", "stamped", "admitted", "denied"}]
    BY <2>1, <2>2, <2>3, ArriveStep DEF ApiInv, LimiterInv, LimiterTypeOK
  <2>5. UNCHANGED <<pingVars, requestVars, published, hpc, ipc>>
    BY <2>1 DEF healthVars, requestVars, imageVars
  <2>6. code[r] = Unanswered
    BY <2>1, Unmet DEF Turn, ApiInv
  <2>7. \A q \in Requests : OneHandler(q)'
    BY <2>1, <2>2, <2>4, <2>5, <2>6 DEF ApiInv, ImagesInv, OneHandler, Met
  <2>8. ImagesInv'
    BY <2>1, <2>2, <2>7, ImagesRest DEF ApiInv, ImagesInv, ImagesTyped
  <2>9. QED
    BY <2>4, <2>5, <2>8, HealthRests DEF ApiInv
<1>3. ASSUME NEW k \in workload.kinds, NEW c \in workload.credentials, Unlimited(r, k, c)
      PROVE  ApiInv'
  <2>1. Turn(r) /\ Sends(r, k) /\ Route(r, k, c) /\ UNCHANGED limiterVars
    BY <1>3 DEF Unlimited
  <2>2. /\ ~Met(r) /\ k \in Kinds /\ "none" \notin Kinds /\ at[r] = "new"
        /\ kind' \in [Requests -> Kinds \cup {"none"}]
        /\ kind'[r] = k /\ (\A q \in Requests \ {r} : kind'[q] = kind[q])
        /\ workload' = workload
    BY <2>1, Sent
  <2>3. at' = at
    BY <2>1 DEF limiterVars, limiter
  <2>4. Met(r)'
    BY <2>2, <2>3 DEF Met
  <2>5. HealthInv' /\ ImagesInv'
    BY <2>1, <2>2, <2>3, <2>4, RouteStep DEF ApiInv
  <2>6. LimiterInv'
    BY <2>1, <2>2, LimiterRests DEF ApiInv
  <2>7. QED
    BY <2>5, <2>6 DEF ApiInv
<1>4. QED
  BY <1>1, <1>2, <1>3 DEF Arrival

LEMMA ElapseStep == ASSUME ApiInv, Elapse PROVE ApiInv'
<1>1. /\ UNCHANGED <<workload, kind, at, code, healthVars, imageVars>> /\ Tick
  BY DEF Elapse, Tick, routerVars, limiter, serverVars
<1>2. UNCHANGED <<pingVars, requestVars, published, hpc, ipc>>
  BY <1>1 DEF healthVars, requestVars, imageVars
<1>3. \A r \in Requests : OneHandler(r)'
  BY <1>1, <1>2 DEF ApiInv, ImagesInv, OneHandler, Met
<1>4. QED
  BY <1>1, <1>2, <1>3, TickStep, HealthRests, ImagesRest DEF ApiInv, ImagesInv, ImagesTyped

LEMMA ProbeInv == ASSUME ApiInv, Probe PROVE ApiInv'
<1>1. /\ HealthStep \/ Outside
      /\ UNCHANGED <<workload, kind, limiterVars, imageVars>>
  BY DEF Probe, routerVars
<1>2. UNCHANGED <<at, ipc>>
  BY <1>1 DEF limiterVars, limiter, imageVars
<1>3. LimiterInv' /\ HealthInv'
  BY <1>1, LimiterRests, ProbeStep DEF ApiInv
<1>4. /\ code' \in [Requests -> Nat]
      /\ \A r \in Requests : /\ hpc'[r] = "idle" <=> hpc[r] = "idle"
                             /\ code'[r] = code[r] \/ hpc[r] # "idle"
  BY <1>1, ProbeAnswers DEF ApiInv, ImagesInv
<1>5. \A r \in Requests : OneHandler(r)
  BY DEF ApiInv, ImagesInv
<1>6. ASSUME NEW r \in Requests PROVE OneHandler(r)' /\ (code'[r] = code[r] \/ ipc[r] = "idle")
  BY <1>1, <1>2, <1>4, <1>5 DEF OneHandler, Met
<1>7. ImagesInv'
  BY <1>1, <1>4, <1>6, ImagesRest DEF ApiInv, ImagesInv, ImagesTyped
<1>8. QED
  BY <1>3, <1>7 DEF ApiInv

-----------------------------------------------------------------------------
(* A step of an image handler that has request r. *)
Rows == [exists : BOOLEAN, by : Requests \cup {Nobody}, whole : BOOLEAN]

Touches(r, step, status) ==
  /\ ipc' = [ipc EXCEPT ![r] = step] /\ code' = [code EXCEPT ![r] = status]
  /\ upload' \in [Requests -> Uploaded]
  /\ \A q \in Requests \ {r} : upload'[q] = upload[q]
  /\ UNCHANGED <<kind, at, hpc, target>>

LEMMA ImageMoves ==
  ASSUME ImagesInv, NEW r \in Requests, ipc[r] \notin {"idle", "done"},
         NEW step \in {"find", "fetch", "store", "done"}, NEW status \in Nat,
         Touches(r, step, status),
         stored' \subseteq Requests, removed' \subseteq Requests,
         \A q \in Requests \ {r} : /\ q \in stored' <=> q \in stored
                                   /\ q \in removed' <=> q \in removed,
         rows' \in [Entities -> Rows],
         \A e \in Entities : rows'[e].by \in {rows[e].by, Nobody} \/ rows'[e].by \in stored',
         step # "done" => status = Unanswered,
         r \in stored' => step = "done" /\ status \in {200, 500},
         status = 200 /\ upload'[r].source # "none" => r \in stored' \cup removed',
         r \in stored => r \in stored'
  PROVE  ImagesInv'
<1>1. ImagesTyped /\ \A q \in Requests : OneHandler(q) /\ UploadTrue(q)
  BY DEF ImagesInv
<1>2. ImagesTyped'
  BY <1>1 DEF ImagesTyped, Touches, Rows
<1>3. /\ \A q \in Requests \ {r} : /\ ipc'[q] = ipc[q] /\ code'[q] = code[q]
                                   /\ upload'[q] = upload[q]
      /\ ipc'[r] = step /\ code'[r] = status
      /\ UNCHANGED <<kind, at, hpc>>
  BY <1>1 DEF ImagesTyped, Touches
<1>4. Met(r) /\ hpc[r] = "idle"
  BY <1>1 DEF OneHandler
<1>5. ASSUME NEW q \in Requests PROVE OneHandler(q)' /\ UploadTrue(q)'
  <2>1. CASE q = r
    BY <1>1, <1>3, <1>4, <2>1 DEF OneHandler, UploadTrue, Met
  <2>2. CASE q # r
    BY <1>1, <1>3, <2>2 DEF OneHandler, UploadTrue, Met
  <2>3. QED
    BY <2>1, <2>2
<1>6. \A e \in Entities : Pictured(e)' => rows'[e].by \in stored'
  <2>1. \A q \in Requests : q \in stored => q \in stored'
    OBVIOUS
  <2>2. \A e \in Entities : Pictured(e) => rows[e].by \in stored /\ rows[e].by \in Requests
    BY <1>1 DEF ImagesInv, ImagesTyped
  <2>3. QED
    BY <2>1, <2>2 DEF Pictured
<1>7. QED
  BY <1>2, <1>5, <1>6 DEF ImagesInv

LEMMA ImagesKnown ==
  ASSUME ImagesInv, NEW r \in Requests
  PROVE  /\ upload[r] \in Uploaded /\ upload \in [Requests -> Uploaded]
         /\ code = [code EXCEPT ![r] = code[r]]
         /\ rows \in [Entities -> Rows]
         /\ stored \subseteq Requests /\ removed \subseteq Requests
         /\ target[r] \in Entities
         /\ ipc[r] \notin {"idle", "done"} => code[r] = Unanswered /\ r \notin stored
         /\ upload[r].source # "none" => ipc[r] \in {"find", "fetch", "store", "done"}
BY DEF ImagesInv, ImagesTyped, UploadTrue, Rows

(* A handler that stores nothing ends, or goes on without an answer.        *)
LEMMA ImageAnswers ==
  ASSUME ImagesInv, NEW r \in Requests, ipc[r] \notin {"idle", "done"}, NEW status \in Nat,
         NEW step \in {"find", "fetch", "store", "done"},
         \/ step = "done" /\ Finish(r, status)
         \/ step # "done" /\ Goto(r, step) /\ status = Unanswered,
         status = 200 => upload'[r].source = "none",
         upload' \in [Requests -> Uploaded],
         \A q \in Requests \ {r} : upload'[q] = upload[q],
         rows' \in [Entities -> Rows],
         \A e \in Entities : rows'[e].by \in {rows[e].by, Nobody},
         UNCHANGED <<kind, at, hpc, target, stored, removed>>
  PROVE  ImagesInv'
<1>1. /\ code[r] = Unanswered /\ r \notin stored /\ code = [code EXCEPT ![r] = code[r]]
      /\ stored \subseteq Requests /\ removed \subseteq Requests
  BY ImagesKnown
<1>2. Touches(r, step, status)
  BY <1>1 DEF Finish, Goto, Respond, Touches
<1>3. step # "done" => status = Unanswered
  OBVIOUS
<1>4. QED
  BY <1>1, <1>2, <1>3, ImageMoves

LEMMA StoreImageStep ==
  ASSUME ImagesInv, NEW r \in Requests, NEW failed \in BOOLEAN, NEW done \in BOOLEAN,
         StoreImage(r, failed, done), UNCHANGED <<kind, at, hpc>>
  PROVE  ImagesInv'
<1> DEFINE status == UpdateStatus(failed)
<1>1. /\ upload[r] \in Uploaded /\ upload \in [Requests -> Uploaded]
      /\ rows \in [Entities -> Rows] /\ target[r] \in Entities
      /\ stored \subseteq Requests /\ removed \subseteq Requests
      /\ ipc[r] = "store" /\ r \notin stored
  BY ImagesKnown DEF StoreImage
<1>2. /\ Touches(r, "done", status)
      /\ status \in {200, 500} /\ status \in Nat /\ (status = 200 => done)
  BY <1>1 DEF StoreImage, Finish, Respond, UpdateStatus, Touches
<1> HIDE DEF status
<1>3. CASE done /\ rows[target[r]] # Absent
  <2>1. /\ rows' = [rows EXCEPT ![target[r]] = Picture(r, upload[r])]
        /\ stored' = stored \cup {r} /\ removed' = removed
    BY <1>3 DEF StoreImage
  <2>2. Picture(r, upload[r]) \in Rows /\ Picture(r, upload[r]).by = r
    BY <1>1 DEF Picture, Uploaded, Rows
  <2>3. /\ rows' \in [Entities -> Rows]
        /\ \A e \in Entities : rows'[e].by \in {rows[e].by, Nobody} \/ rows'[e].by \in stored'
    BY <1>1, <2>1, <2>2
  <2>4. /\ stored' \subseteq Requests /\ removed' \subseteq Requests
        /\ \A q \in Requests \ {r} : /\ q \in stored' <=> q \in stored
                                     /\ q \in removed' <=> q \in removed
        /\ r \in stored' /\ r \in stored' \cup removed'
    BY <1>1, <2>1
  <2>5. QED
    BY <1>1, <1>2, <2>3, <2>4, ImageMoves
<1>4. CASE ~(done /\ rows[target[r]] # Absent)
  <2>1. /\ removed' = IF done THEN removed \cup {r} ELSE removed
        /\ UNCHANGED <<rows, stored>>
    BY <1>4 DEF StoreImage
  <2>2. /\ stored' \subseteq Requests /\ removed' \subseteq Requests
        /\ \A q \in Requests \ {r} : /\ q \in stored' <=> q \in stored
                                     /\ q \in removed' <=> q \in removed
        /\ r \notin stored' /\ (status = 200 => r \in stored' \cup removed')
    BY <1>1, <1>2, <2>1
  <2>3. /\ rows' \in [Entities -> Rows]
        /\ \A e \in Entities : rows'[e].by \in {rows[e].by, Nobody} \/ rows'[e].by \in stored'
    BY <1>1, <2>1
  <2>4. QED
    BY <1>1, <1>2, <2>2, <2>3, ImageMoves
<1>5. QED
  BY <1>3, <1>4

LEMMA HandleImageStep ==
  ASSUME ImagesInv, NEW r \in Requests, HandleImage(r), UNCHANGED <<kind, at, hpc>>
  PROVE  ImagesInv'
<1>1. /\ upload[r] \in Uploaded /\ upload \in [Requests -> Uploaded]
      /\ rows \in [Entities -> Rows]
      /\ upload[r].source # "none" => ipc[r] \in {"find", "fetch", "store", "done"}
  BY ImagesKnown
<1>2. \A e \in Entities : rows[e].by \in {rows[e].by, Nobody}
  OBVIOUS
<1>3. ASSUME NEW u \in Uploads, NEW d \in Durations, ReadBody(r, u, d) PROVE ImagesInv'
  <2>1. ipc[r] = "upload" /\ UNCHANGED <<rows, target, stored, removed>>
    BY <1>3 DEF ReadBody
  <2>2. u \in Uploaded
    BY DEF Uploads, Uploaded
  <2>3. \/ (Finish(r, 408) \/ Finish(r, 413) \/ Finish(r, 400)) /\ upload' = upload
        \/ Goto(r, "find") /\ upload' = [upload EXCEPT ![r] = u]
    BY <1>3 DEF ReadBody
  <2>4. CASE (Finish(r, 408) \/ Finish(r, 413) \/ Finish(r, 400)) /\ upload' = upload
    BY <1>1, <1>2, <2>1, <2>4, ImageAnswers
  <2>5. CASE Goto(r, "find") /\ upload' = [upload EXCEPT ![r] = u]
    <3>1. /\ upload' \in [Requests -> Uploaded]
          /\ \A q \in Requests \ {r} : upload'[q] = upload[q]
      BY <1>1, <2>2, <2>5
    <3>2. QED
      BY <1>1, <1>2, <2>1, <2>5, <3>1, ImageAnswers DEF Unanswered
  <2>6. QED
    BY <2>3, <2>4, <2>5
<1>4. CASE FindEntity(r)
  <2>1. /\ ipc[r] = "find" /\ UNCHANGED <<rows, target, upload, stored, removed>>
        /\ Finish(r, 500) \/ Finish(r, 404) \/ Goto(r, "fetch")
    BY <1>4 DEF FindEntity
  <2>2. QED
    BY <1>1, <1>2, <2>1, ImageAnswers DEF Unanswered
<1>5. ASSUME NEW d \in {0, WriteTimeout}, Fetch(r, d) PROVE ImagesInv'
  <2>1. /\ ipc[r] = "fetch" /\ UNCHANGED <<rows, target, stored, removed>>
        /\ upload' = [upload EXCEPT ![r] = Fetched(upload[r])]
        /\ Finish(r, 400) \/ Goto(r, "store")
    BY <1>1, <1>5 DEF Fetch
  <2>2. Fetched(upload[r]) \in Uploaded
    <3>1. PICK w \in BOOLEAN : w = (upload[r].source = "data" \/ ~upload[r].tooBig)
      OBVIOUS
    <3>2. Fetched(upload[r]) = [upload[r] EXCEPT !.whole = w]
      BY <3>1, Zenon DEF Fetched
    <3>3. QED
      BY <1>1, <3>2 DEF Uploaded
  <2>3. /\ upload' \in [Requests -> Uploaded]
        /\ \A q \in Requests \ {r} : upload'[q] = upload[q]
    BY <1>1, <2>1, <2>2
  <2>4. QED
    BY <1>1, <1>2, <2>1, <2>3, ImageAnswers DEF Unanswered
<1>6. CASE GetImage(r) \/ CountImages(r)
  <2>1. /\ ipc[r] \in {"image", "stats"} /\ UNCHANGED <<rows, target, upload, stored, removed>>
        /\ \E status \in {200, 404, 500} : Finish(r, status)
    BY <1>6 DEF GetImage, CountImages
  <2>2. QED
    BY <1>1, <1>2, <2>1, ImageAnswers
<1>7. ASSUME NEW failed \in BOOLEAN, NEW done \in BOOLEAN,
             DeleteImage(r, failed, done) \/ DeleteAllImages(r, failed, done)
      PROVE  ImagesInv'
  <2>1. /\ ipc[r] \in {"delete", "bulk"} /\ UNCHANGED <<target, upload, stored, removed>>
        /\ \E status \in {200, 404, 500} : Finish(r, status)
    BY <1>7 DEF DeleteImage, DeleteAllImages
  <2>2. /\ rows' \in [Entities -> Rows]
        /\ \A e \in Entities : rows'[e].by \in {rows[e].by, Nobody}
    <3>1. NoPicture \in Rows /\ NoPicture.by = Nobody
      BY DEF NoPicture, Rows
    <3>2. QED
      BY <1>1, <1>7, <3>1 DEF DeleteImage, DeleteAllImages
  <2>3. QED
    BY <1>1, <2>1, <2>2, ImageAnswers
<1>8. ASSUME NEW failed \in BOOLEAN, NEW done \in BOOLEAN, StoreImage(r, failed, done)
      PROVE  ImagesInv'
  BY <1>8, StoreImageStep
<1>9. QED
  BY <1>3, <1>4, <1>5, <1>6, <1>7, <1>8 DEF HandleImage

LEMMA EditStep == ASSUME ApiInv, Edit PROVE ApiInv'
<1>1. ImagesStep /\ UNCHANGED <<workload, kind, limiterVars, healthVars>>
  BY DEF Edit, routerVars
<1>2. UNCHANGED <<at, hpc, pingVars, requestVars, published>>
  BY <1>1 DEF limiterVars, limiter, healthVars, requestVars
<1>3. ASSUME NEW e \in Entities, AeronChanges(e) PROVE ImagesInv'
  <2>1. /\ rows' = [rows EXCEPT ![e] = IF @ = Absent THEN NoPicture ELSE Absent]
        /\ UNCHANGED <<ipc, target, upload, stored, removed, code>>
    BY <1>3 DEF AeronChanges, serverVars
  <2>2. /\ ImagesTyped /\ (\A r \in Requests : OneHandler(r) /\ UploadTrue(r))
        /\ \A d \in Entities : Pictured(d) => rows[d].by \in stored
    BY DEF ApiInv, ImagesInv
  <2>3. /\ NoPicture \in Rows /\ Absent \in Rows
        /\ NoPicture.by = Nobody /\ Absent.by = Nobody
    BY DEF NoPicture, Absent, Rows
  <2>4. /\ rows' \in [Entities -> Rows]
        /\ \A d \in Entities : rows'[d].by \in {rows[d].by, Nobody}
    BY <2>1, <2>2, <2>3 DEF ImagesTyped, Rows
  <2>5. \A r \in Requests : OneHandler(r)' /\ UploadTrue(r)'
    BY <1>1, <1>2, <2>1, <2>2 DEF OneHandler, UploadTrue, Met
  <2>6. ImagesTyped' /\ \A d \in Entities : Pictured(d)' => rows'[d].by \in stored'
    BY <1>1, <2>1, <2>2, <2>4 DEF ImagesTyped, Pictured, Rows
  <2>7. QED
    BY <2>5, <2>6 DEF ImagesInv
<1>4. ImagesInv'
  BY <1>1, <1>2, <1>3, HandleImageStep DEF ImagesStep, ApiInv
<1>5. QED
  BY <1>1, <1>2, <1>4, LimiterRests, HealthRests DEF ApiInv

-----------------------------------------------------------------------------
LEMMA InvStep == ApiInv /\ [Next]_vars => ApiInv'
<1> SUFFICES ASSUME ApiInv, [Next]_vars PROVE ApiInv'
    OBVIOUS
<1>1. ASSUME NEW r \in Requests, Arrival(r) \/ Pass(r) \/ Refuse(r) PROVE ApiInv'
  BY <1>1, ArrivalStep, PassStep, RefuseStep
<1>2. CASE Elapse \/ Probe \/ Edit
  BY <1>2, ElapseStep, ProbeInv, EditStep
<1>3. CASE UNCHANGED vars
  BY <1>3, AllRest
<1>4. QED
  BY <1>1, <1>2, <1>3 DEF Next

LEMMA Invariance == Spec => []ApiInv
<1>1. Init => ApiInv
  BY LimiterInvInit, HealthInvInit, ImagesInvInit DEF ApiInv
<1>2. QED
  BY <1>1, InvStep, PTL DEF Spec

(* What /health says of the database was so while the request waited for    *)
(* its ping, however many requests share the ping and lose their clients.   *)
THEOREM HealthTrue == Spec => []AnswerTrue
<1>1. ApiInv => AnswerTrue
  BY DEF ApiInv, HealthInv
<1>2. QED
  BY <1>1, Invariance, PTL

(* Counts that disagree come from two runs of the file monitor, whatever it *)
(* publishes between the two reads.                                         *)
THEOREM CountsOfOneRun == Spec => []CountsAgree
<1>1. ApiInv => CountsAgree
  BY DEF ApiInv, HealthInv
<1>2. QED
  BY <1>1, Invariance, PTL

(* An image whose client was told 200 is stored unless Aeron removed its    *)
(* entity, and one that is stored was not refused, for any number of        *)
(* clients that upload and delete at once and whatever fails.               *)
THEOREM ImagesKept == Spec => []ImageKept
<1>1. ASSUME ApiInv PROVE ImageKept
  <2>1. \A r \in Requests : UploadTrue(r)
    BY <1>1 DEF ApiInv, ImagesInv
  <2>2. \A e \in Entities : Pictured(e) => rows[e].by \in stored
    BY <1>1 DEF ApiInv, ImagesInv
  <2>3. ASSUME NEW r \in Requests, r \in stored
        PROVE  Told(r) \in {200, 500} \/ (Told(r) = 0 /\ took[r] >= WriteTimeout)
    BY <2>1, <2>3 DEF UploadTrue, Told, Unanswered
  <2>4. QED
    BY <2>1, <2>2, <2>3 DEF ImageKept, UploadTrue
<1>2. QED
  BY <1>1, Invariance, PTL
=============================================================================
