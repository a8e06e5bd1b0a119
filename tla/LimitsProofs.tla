---------------------------- MODULE LimitsProofs ----------------------------
(***************************************************************************)
(* Proofs about Limits: the calls of an organization stay within its share *)
(* over every stretch of time, and a cached agent id is never older than   *)
(* the TTL and one request, for every burst, rate, TTL and latency.        *)
(***************************************************************************)
EXTENDS Limits, Integers, TLAPS

\* The limiter and the cache on one clock.
LNext == LimitsTick \/ BucketNext \/ NamesNext
LSpec == LInit /\ [][LNext]_lvars

-----------------------------------------------------------------------------
(* The inductive invariant.                                                *)

Lookup == [st : {"idle", "asked", "hit"}, org : Orgs, val : 0..2, at : 0..MaxNow]

LShapes ==
    /\ clock \in 0..MaxNow
    /\ bucket \in [Orgs -> [tokens : 0..Burst, last : 0..MaxNow]]
    /\ taken \in [Orgs -> [0..MaxNow -> Nat]]
    /\ agent \in [Orgs -> 1..2]
    /\ held \in [Orgs -> [1..2 -> 0..MaxNow]]
    /\ store \in [Orgs -> [val : 0..2, expiry : 0..MaxNow + TTL]]
    /\ look \in [Lookups -> Lookup]

Before(o, a) == IF a = 0 THEN 0 ELSE taken[o][a - 1]

\* The bucket accounts for the calls: none since the last refill, and over
\* every stretch up to it the calls and the tokens left are within the share.
BucketOK(o) ==
    /\ bucket[o].last <= clock
    /\ \A t \in 0..MaxNow : t >= bucket[o].last => taken[o][t] = taken[o][MaxNow]
    /\ \A a \in 0..MaxNow :
          a <= bucket[o].last =>
             taken[o][MaxNow] + bucket[o].tokens <= Before(o, a) + Burst + Rate * (bucket[o].last - a)

\* An entry expires no later than the TTL and one request after its id was the
\* agent's; the agent's own id is the agent's now.
NamesOK(o) ==
    /\ held[o][agent[o]] = clock /\ \A v \in 1..2 : held[o][v] <= clock
    /\ store[o].val # 0 => store[o].expiry <= held[o][store[o].val] + Latency + TTL

\* A request in flight is younger than the timeout, and what it read was so.
LookOK(l) ==
    /\ look[l].st = "asked" =>
          /\ look[l].val # 0 /\ look[l].at <= clock /\ clock <= look[l].at + Latency
          /\ held[look[l].org][look[l].val] >= look[l].at
    /\ look[l].st = "hit" =>
          look[l].val # 0 /\ clock <= held[look[l].org][look[l].val] + TTL + Latency

LimitsInv ==
    /\ LShapes /\ ShareIsBounded
    /\ \A o \in Orgs : BucketOK(o) /\ NamesOK(o)
    /\ \A l \in Lookups : LookOK(l)


-----------------------------------------------------------------------------
(* The bucket.                                                             *)

\* The rate times a stretch of time.
LEMMA RateLaws ==
    /\ \A n \in Int : Rate * n \in Int /\ n * Rate = Rate * n
    /\ \A m, n \in Int : Rate * (m + n) = Rate * m + Rate * n
    /\ \A m, n \in Int : m <= n => Rate * m <= Rate * n
    /\ \A n \in Nat : Rate * n \in Nat
<1>1. Rate \in Nat
    BY LimitsAssumption
<1>2. \A n \in Int : Rate * n \in Int /\ n * Rate = Rate * n
    BY <1>1
<1>3. \A m, n \in Int : Rate * (m + n) = Rate * m + Rate * n
    BY <1>1
<1>4. \A m, n \in Int : m <= n => Rate * m <= Rate * n
    BY <1>1
<1>5. \A n \in Nat : Rate * n \in Nat
    BY <1>1
<1> QED BY <1>2, <1>3, <1>4, <1>5

\* A refilled bucket holds at most Burst and what it held and the time brought.
LEMMA RefilledShape ==
    ASSUME LimitsInv, NEW o \in Orgs
    PROVE  /\ refilled(o) \in 0..Burst
           /\ refilled(o) <= bucket[o].tokens + Rate * (clock - bucket[o].last)
<1>1. /\ bucket[o].tokens \in 0..Burst /\ bucket[o].last \in Nat /\ clock \in Nat /\ Burst \in Nat
      /\ bucket[o].last <= clock
    BY LimitsAssumption DEF LimitsInv, LShapes, BucketOK
<1>2. clock - bucket[o].last \in Nat
    BY <1>1
<1>3. PICK w \in Nat : w = Rate * (clock - bucket[o].last) /\ w = (clock - bucket[o].last) * Rate
    BY <1>2, RateLaws
<1> QED BY <1>1, <1>3 DEF refilled

\* A call, let through or refused.
LEMMA TakeStep ==
    ASSUME LimitsInv, NEW o \in Orgs, take(o) PROVE LimitsInv'
<1> DEFINE r == refilled(o)
           k == IF r >= 1 THEN 1 ELSE 0
           b == [tokens |-> r - k, last |-> clock]
           f == taken[o]
           g == [t \in 0..MaxNow |-> f[t] + (IF t >= clock THEN k ELSE 0)]
<1>1. /\ clock \in Nat /\ clock <= MaxNow /\ MaxNow \in Nat /\ Burst \in Nat /\ r \in 0..Burst
      /\ bucket \in [Orgs -> [tokens : 0..Burst, last : 0..MaxNow]]
      /\ taken \in [Orgs -> [0..MaxNow -> Nat]] /\ f \in [0..MaxNow -> Nat]
  <2>1. r \in 0..Burst
      BY RefilledShape
  <2>2. /\ clock \in 0..MaxNow /\ MaxNow \in Nat /\ Burst \in Nat
        /\ bucket \in [Orgs -> [tokens : 0..Burst, last : 0..MaxNow]]
      BY LimitsAssumption DEF LimitsInv, LShapes
  <2>3. taken \in [Orgs -> [0..MaxNow -> Nat]]
      BY DEF LimitsInv, LShapes
  <2>4. f \in [0..MaxNow -> Nat]
      BY <2>3
  <2>5. clock \in Nat /\ clock <= MaxNow
      BY <2>2
  <2> HIDE DEF r, f
  <2> QED BY <2>1, <2>2, <2>3, <2>4, <2>5
<1>2. UNCHANGED <<clock, agent, held, store, look>>
    BY DEF take
<1> HIDE DEF r
<1>3. bucket' = [bucket EXCEPT ![o] = b] /\ r - k \in 0..Burst /\ k \in 0..1 /\ k <= r
  <2>1. CASE r >= 1
      BY <1>1, <2>1 DEF take, r
  <2>2. CASE ~(r >= 1)
      BY <1>1, <2>2 DEF take, r
  <2> QED BY <2>1, <2>2
<1>4. taken' = [taken EXCEPT ![o] = g]
  <2>1. CASE r >= 1
      BY <1>1, <2>1 DEF take, r
  <2>2. CASE ~(r >= 1)
    <3>1. taken' = taken
        BY <2>2 DEF take, r
    <3>2. g = f
        BY <1>1, <2>2
    <3> QED BY <1>1, <3>1, <3>2
  <2> QED BY <2>1, <2>2
<1>5. g \in [0..MaxNow -> Nat] /\ b \in [tokens : 0..Burst, last : 0..MaxNow]
    BY <1>1, <1>3
<1>6. /\ \A t \in 0..MaxNow : g[t] = f[t] + (IF t >= clock THEN k ELSE 0)
      /\ b.tokens = r - k /\ b.last = clock
    OBVIOUS
<1> HIDE DEF k, b, g
<1>7. /\ taken'[o] = g /\ bucket'[o] = b
      /\ \A p \in Orgs : p # o => taken'[p] = taken[p] /\ bucket'[p] = bucket[p]
    BY <1>1, <1>3, <1>4
<1>8. LShapes'
    BY <1>1, <1>2, <1>3, <1>4, <1>5 DEF LimitsInv, LShapes
<1>9. \A t \in 0..MaxNow : t >= clock => f[t] = f[MaxNow]
  <2>1. BucketOK(o)
      BY DEF LimitsInv
  <2>2. bucket[o] \in [tokens : 0..Burst, last : 0..MaxNow]
      BY <1>1
  <2>3. bucket[o].last \in Nat
      BY <1>1, <2>2
  <2> QED BY <1>1, <2>1, <2>3 DEF BucketOK
<1>10. ASSUME NEW a \in 0..clock
       PROVE  f[MaxNow] + r <= Before(o, a) + Burst + Rate * (clock - a)
  <2>0. PICK last : last = bucket[o].last
      OBVIOUS
  <2>1. /\ last \in Nat /\ last <= clock /\ a \in Nat /\ a <= clock /\ f[MaxNow] \in Nat
        /\ bucket[o].tokens \in Nat /\ a \in 0..MaxNow /\ BucketOK(o) /\ clock \in Nat
    <3>1. BucketOK(o)
        BY DEF LimitsInv
    <3>2. bucket[o] \in [tokens : 0..Burst, last : 0..MaxNow]
        BY <1>1
    <3>3. bucket[o].last \in Nat /\ bucket[o].tokens \in Nat /\ bucket[o].last <= clock
        BY <1>1, <3>1, <3>2 DEF BucketOK
    <3>4. f[MaxNow] \in Nat /\ a \in Nat /\ a <= clock /\ a \in 0..MaxNow
        BY <1>1, <1>10
    <3> QED BY <1>1, <2>0, <3>1, <3>3, <3>4
  <2>2. Before(o, a) \in Nat
      BY <1>1, <2>1 DEF Before
  <2>3. CASE a <= last
    <3>1. PICK u, v \in Int : u = clock - last /\ v = last - a
        BY <2>1
    <3>2. PICK x, y \in Int : x = Rate * u /\ y = Rate * v
        BY <3>1, RateLaws
    <3>3. clock - a = u + v
        BY <2>1, <3>1
    <3>4. Rate * (clock - a) = x + y
        BY <3>1, <3>2, <3>3, RateLaws
    <3>5. f[MaxNow] + bucket[o].tokens <= Before(o, a) + Burst + y
        BY <2>0, <2>1, <2>3, <3>1, <3>2 DEF BucketOK
    <3>6. r <= bucket[o].tokens + x
        BY <2>0, <3>1, <3>2, RefilledShape DEF r
    <3>7. PICK n, t, z \in Int : n = f[MaxNow] /\ t = bucket[o].tokens /\ z = Before(o, a)
        BY <2>1, <2>2
    <3>8. r \in Int /\ Burst \in Int
        BY <1>1
    <3>9. n + r <= z + Burst + (x + y)
        BY <3>2, <3>5, <3>6, <3>7, <3>8
    <3> QED BY <3>4, <3>7, <3>9
  <2>4. CASE ~(a <= last)
    <3>1. a # 0 /\ a - 1 \in 0..MaxNow /\ a - 1 >= last
        BY <2>1, <2>4, <1>1
    <3>2. Before(o, a) = f[MaxNow]
        BY <2>0, <2>1, <3>1 DEF Before, BucketOK
    <3>3. PICK x \in Nat : x = Rate * (clock - a)
      <4>1. clock - a \in Nat
          BY <2>1
      <4> QED BY <4>1, RateLaws
    <3> QED BY <1>1, <2>1, <3>2, <3>3
  <2> QED BY <2>3, <2>4
<1>11. ASSUME NEW a \in 0..clock PROVE Before(o, a)' = Before(o, a) /\ Before(o, a) \in Nat
  <2>1. a = 0 \/ (a - 1 \in 0..MaxNow /\ ~(a - 1 >= clock))
      BY <1>1, <1>11
  <2> QED BY <1>1, <1>6, <1>7, <2>1 DEF Before
<1>12. g[MaxNow] = f[MaxNow] + k /\ f[MaxNow] \in Nat
    BY <1>1, <1>6
<1>13. BucketOK(o)'
  <2>1. \A t \in 0..MaxNow : t >= clock => g[t] = g[MaxNow]
      BY <1>1, <1>6, <1>9
  <2>2. \A a \in 0..MaxNow : a <= clock => a \in 0..clock
      BY <1>1
  <2>3. ASSUME NEW a \in 0..clock
        PROVE  g[MaxNow] + (r - k) <= Before(o, a)' + Burst + Rate * (clock - a)
      BY <1>1, <1>3, <1>10, <1>11, <1>12
  <2> QED BY <1>1, <1>2, <1>6, <1>7, <2>1, <2>2, <2>3 DEF BucketOK
<1>14. ASSUME NEW p \in Orgs PROVE BucketOK(p)' /\ NamesOK(p)'
    BY <1>2, <1>7, <1>13 DEF LimitsInv, BucketOK, NamesOK, Before
<1>15. \A l \in Lookups : LookOK(l)'
    BY <1>2 DEF LimitsInv, LookOK
<1>16. ShareIsBounded'
  <2> SUFFICES ASSUME NEW p \in Orgs, NEW e \in 0..MaxNow, NEW a \in 0..e
               PROVE  taken'[p][e] <= Before(p, a)' + Burst + Rate * (e - a)
      BY DEF ShareIsBounded, Before
  <2>1. taken[p][e] <= Before(p, a) + Burst + Rate * (e - a)
      BY DEF LimitsInv, ShareIsBounded, Before
  <2>2. CASE p # o
      BY <1>7, <2>1, <2>2 DEF Before
  <2>3. CASE p = o /\ e < clock
    <3>1. a \in 0..clock /\ taken'[p][e] = taken[p][e]
        BY <1>1, <1>6, <1>7, <2>3
    <3> QED BY <1>11, <2>1, <2>3, <3>1
  <2>4. CASE p = o /\ e >= clock /\ a <= clock
    <3>1. a \in 0..clock /\ g[e] = f[MaxNow] + k
        BY <1>1, <1>6, <1>9, <2>4
    <3>2. f[MaxNow] + r <= Before(o, a) + Burst + Rate * (clock - a)
        BY <1>10, <3>1
    <3>3. PICK x, y \in Int : x = Rate * (clock - a) /\ y = Rate * (e - a) /\ x <= y
      <4>1. clock - a \in Int /\ e - a \in Int /\ clock - a <= e - a
          BY <1>1, <2>4
      <4> QED BY <4>1, RateLaws
    <3>4. PICK n, z \in Int : n = f[MaxNow] /\ z = Before(o, a)
        BY <1>11, <1>12, <3>1
    <3>5. r \in Int /\ Burst \in Int /\ k \in Int /\ k <= r
        BY <1>1, <1>3
    <3>6. n + k <= z + Burst + y
        BY <3>2, <3>3, <3>4, <3>5
    <3> QED BY <1>7, <1>11, <2>4, <3>1, <3>3, <3>4, <3>6
  <2>5. CASE p = o /\ a > clock
    <3>1. /\ a # 0 /\ a - 1 \in 0..MaxNow /\ a - 1 >= clock /\ e >= clock /\ a - 1 \in Nat
          /\ e - a \in Nat
        BY <1>1, <2>5
    <3>2. g[e] = f[MaxNow] + k /\ g[a - 1] = f[MaxNow] + k
        BY <1>6, <1>9, <3>1
    <3>3. PICK x \in Nat : x = Rate * (e - a)
        BY <3>1, RateLaws
    <3>4. Before(p, a)' = f[MaxNow] + k
        BY <1>7, <2>5, <3>1, <3>2 DEF Before
    <3>5. PICK n \in Int : n = f[MaxNow] + k
        BY <1>3, <1>12
    <3>6. n <= n + Burst + x
        BY <1>1, <3>3, <3>5
    <3> QED BY <1>7, <2>5, <3>2, <3>3, <3>4, <3>5, <3>6
  <2> QED BY <1>1, <2>2, <2>3, <2>4, <2>5
<1> QED BY <1>8, <1>14, <1>15, <1>16 DEF LimitsInv


-----------------------------------------------------------------------------
(* The cache and the clock.                                                *)

\* A lookup that is not running holds nothing.
LEMMA NoLookShape == NoLook \in Lookup /\ NoLook.st = "idle"
<1>1. (CHOOSE o \in Orgs : TRUE) \in Orgs /\ 0 \in 0..MaxNow
    BY LimitsAssumption
<1> QED BY <1>1 DEF NoLook, Lookup

\* The numbers of an organization and of a lookup.
LEMMA NameNumbers ==
    ASSUME LShapes
    PROVE  /\ clock \in Nat /\ clock <= MaxNow /\ MaxNow \in Nat /\ TTL \in Nat /\ Latency \in Nat
           /\ \A o \in Orgs : agent[o] \in 1..2 /\ store[o].val \in 0..2 /\ store[o].expiry \in Nat
           /\ \A o \in Orgs, v \in 1..2 : held[o][v] \in 0..MaxNow
           /\ \A l \in Lookups : /\ look[l] \in Lookup /\ look[l].org \in Orgs
                                 /\ look[l].val \in 0..2 /\ look[l].at \in Nat
<1>1. clock \in Nat /\ clock <= MaxNow /\ MaxNow \in Nat /\ TTL \in Nat /\ Latency \in Nat
    BY LimitsAssumption DEF LShapes
<1>2. ASSUME NEW o \in Orgs
      PROVE  agent[o] \in 1..2 /\ store[o].val \in 0..2 /\ store[o].expiry \in Nat
  <2>1. agent[o] \in 1..2 /\ store[o] \in [val : 0..2, expiry : 0..MaxNow + TTL]
      BY <1>2 DEF LShapes
  <2> QED BY <1>1, <2>1
<1>3. ASSUME NEW o \in Orgs, NEW v \in 1..2 PROVE held[o][v] \in 0..MaxNow
  <2>1. held[o] \in [1..2 -> 0..MaxNow]
      BY <1>3 DEF LShapes
  <2> QED BY <1>3, <2>1
<1>4. ASSUME NEW l \in Lookups
      PROVE  look[l] \in Lookup /\ look[l].org \in Orgs /\ look[l].val \in 0..2 /\ look[l].at \in Nat
  <2>1. look[l] \in Lookup
      BY <1>4 DEF LShapes
  <2> QED BY <1>1, <2>1 DEF Lookup
<1> QED BY <1>1, <1>2, <1>3, <1>4

\* A step of one lookup.
LEMMA LookSteps ==
    ASSUME LimitsInv, NEW l \in Lookups, NEW x \in Lookup, look' = [look EXCEPT ![l] = x],
           UNCHANGED <<clock, bucket, taken, agent, held>>,
           store' \in [Orgs -> [val : 0..2, expiry : 0..MaxNow + TTL]],
           \A o \in Orgs : NamesOK(o)',
           x.st = "asked" =>
              /\ x.val # 0 /\ x.at <= clock /\ clock <= x.at + Latency
              /\ held[x.org][x.val] >= x.at,
           x.st = "hit" => x.val # 0 /\ clock <= held[x.org][x.val] + TTL + Latency
    PROVE  LimitsInv'
<1>1. LShapes'
    BY DEF LimitsInv, LShapes
<1>2. ShareIsBounded' /\ \A o \in Orgs : BucketOK(o)'
    BY DEF LimitsInv, ShareIsBounded, BucketOK, Before
<1>3. ASSUME NEW m \in Lookups PROVE LookOK(m)'
  <2>1. look'[m] = IF m = l THEN x ELSE look[m]
      BY <1>3 DEF LimitsInv, LShapes
  <2>2. CASE m = l
      BY <2>1, <2>2 DEF LookOK
  <2>3. CASE m # l
      BY <1>3, <2>1, <2>3 DEF LookOK, LimitsInv
  <2> QED BY <2>2, <2>3
<1> QED BY <1>1, <1>2, <1>3 DEF LimitsInv

\* A step that moves the clock or an agent's id: no id was the agent's for less
\* time than before, and no request outlives its timeout.
LEMMA HeldMoves ==
    ASSUME LimitsInv, UNCHANGED <<bucket, taken, store, look>>,
           clock' \in 0..MaxNow, clock' >= clock,
           agent' \in [Orgs -> 1..2], held' \in [Orgs -> [1..2 -> 0..MaxNow]],
           \A o \in Orgs, v \in 1..2 : held'[o][v] >= held[o][v] /\ held'[o][v] <= clock',
           \A o \in Orgs : held'[o][agent'[o]] = clock',
           \A l \in Lookups : look[l].st = "asked" => clock' <= look[l].at + Latency,
           \A l \in Lookups : look[l].st = "hit" => clock' = clock
    PROVE  LimitsInv'
<1>0. LShapes
    BY DEF LimitsInv
<1>1. LShapes'
    BY DEF LimitsInv, LShapes
<1>2. ShareIsBounded'
    BY DEF LimitsInv, ShareIsBounded
<1>3. ASSUME NEW o \in Orgs PROVE BucketOK(o)'
  <2>1. bucket[o] \in [tokens : 0..Burst, last : 0..MaxNow] /\ MaxNow \in Nat /\ clock \in Nat
      BY <1>0, <1>3, NameNumbers DEF LShapes
  <2>2. bucket[o].last \in Nat
      BY <2>1
  <2>3. BucketOK(o)
      BY <1>3 DEF LimitsInv
  <2>4. bucket[o].last <= clock'
      BY <2>1, <2>2, <2>3 DEF BucketOK
  <2> QED BY <2>3, <2>4 DEF BucketOK, Before
<1>4. ASSUME NEW o \in Orgs PROVE NamesOK(o)'
  <2>1. NamesOK(o)
      BY <1>4 DEF LimitsInv
  <2>2. ASSUME store[o].val # 0 PROVE store[o].expiry <= held'[o][store[o].val] + Latency + TTL
    <3>1. store[o].val \in 1..2 /\ store[o].expiry \in Nat /\ Latency \in Nat /\ TTL \in Nat
        BY <1>0, <1>4, <2>2, NameNumbers
    <3>2. PICK h, k \in Nat : h = held[o][store[o].val] /\ k = held'[o][store[o].val] /\ k >= h
      <4>1. held'[o] \in [1..2 -> 0..MaxNow]
          BY <1>4
      <4>2. held[o][store[o].val] \in Nat /\ held'[o][store[o].val] \in Nat
          BY <1>0, <1>4, <3>1, <4>1, NameNumbers
      <4> QED BY <1>4, <3>1, <4>2
    <3>3. store[o].expiry <= h + Latency + TTL
        BY <2>1, <2>2, <3>2 DEF NamesOK
    <3> QED BY <3>1, <3>2, <3>3
  <2> QED BY <1>4, <2>2 DEF NamesOK
<1>5. ASSUME NEW l \in Lookups PROVE LookOK(l)'
  <2>1. /\ LookOK(l) /\ look[l].org \in Orgs /\ look[l].val \in 0..2 /\ look[l].at \in Nat
        /\ clock \in Nat /\ clock' \in Nat /\ TTL \in Nat /\ Latency \in Nat
      BY <1>0, <1>5, NameNumbers DEF LimitsInv
  <2>2. ASSUME look[l].val # 0
        PROVE  /\ held[look[l].org][look[l].val] \in Nat /\ held'[look[l].org][look[l].val] \in Nat
               /\ held'[look[l].org][look[l].val] >= held[look[l].org][look[l].val]
    <3>1. look[l].val \in 1..2
        BY <2>1, <2>2
    <3>2. held[look[l].org][look[l].val] \in 0..MaxNow
        BY <1>0, <2>1, <3>1, NameNumbers
    <3>3. held'[look[l].org] \in [1..2 -> 0..MaxNow]
        BY <2>1
    <3> QED BY <2>1, <3>1, <3>2, <3>3
  <2>3. CASE look[l].st = "asked"
    <3>1. /\ look[l].val # 0 /\ look[l].at <= clock
          /\ held[look[l].org][look[l].val] >= look[l].at
        BY <2>1, <2>3 DEF LookOK
    <3>2. PICK h, k \in Nat : /\ h = held[look[l].org][look[l].val]
                              /\ k = held'[look[l].org][look[l].val] /\ k >= h
        BY <2>2, <3>1
    <3>3. look[l].at <= clock' /\ k >= look[l].at /\ clock' <= look[l].at + Latency
        BY <1>5, <2>1, <2>3, <3>1, <3>2
    <3> QED BY <2>3, <3>1, <3>2, <3>3 DEF LookOK
  <2>4. CASE look[l].st = "hit"
    <3>1. look[l].val # 0 /\ clock <= held[look[l].org][look[l].val] + TTL + Latency
        BY <2>1, <2>4 DEF LookOK
    <3>2. PICK h, k \in Nat : /\ h = held[look[l].org][look[l].val]
                              /\ k = held'[look[l].org][look[l].val] /\ k >= h
        BY <2>2, <3>1
    <3>3. clock' <= k + TTL + Latency
        BY <1>5, <2>1, <2>4, <3>1, <3>2
    <3> QED BY <2>4, <3>1, <3>2, <3>3 DEF LookOK
  <2>5. CASE look[l].st # "asked" /\ look[l].st # "hit"
      BY <2>5 DEF LookOK
  <2> QED BY <2>3, <2>4, <2>5
<1> QED BY <1>1, <1>2, <1>3, <1>4, <1>5 DEF LimitsInv

\* The steps of the cache keep the invariant.
LEMMA NamesSteps == ASSUME LimitsInv, NamesNext PROVE LimitsInv'
<1>0. LShapes /\ \A o \in Orgs : BucketOK(o) /\ NamesOK(o)
    BY DEF LimitsInv
<1>1. ASSUME NEW l \in Lookups, NEW o \in Orgs, LookUp(l, o) PROVE LimitsInv'
  <2>1. UNCHANGED <<clock, bucket, taken, agent, held, store>> /\ clock \in 0..MaxNow
      BY <1>0, <1>1 DEF LookUp, LShapes
  <2>2. /\ store' \in [Orgs -> [val : 0..2, expiry : 0..MaxNow + TTL]]
        /\ \A p \in Orgs : NamesOK(p)'
      BY <1>0, <2>1 DEF LShapes, NamesOK
  <2>3. CASE get(o) # 0
    <3> DEFINE x == [st |-> "hit", org |-> o, val |-> get(o), at |-> clock]
    <3>1. /\ look' = [look EXCEPT ![l] = x] /\ get(o) = store[o].val
          /\ ~(store[o].expiry <= clock) /\ store[o].val # 0
        BY <1>1, <2>3 DEF LookUp, get
    <3>2. x \in Lookup /\ x.st = "hit" /\ x.org = o /\ x.val = store[o].val
        BY <1>0, <2>1, <3>1, NameNumbers DEF Lookup
    <3>3. /\ store[o].expiry <= held[o][store[o].val] + Latency + TTL /\ held[o][store[o].val] \in 0..MaxNow
          /\ store[o].expiry \in Nat
      <4>1. store[o].val \in 1..2 /\ store[o].expiry \in Nat
          BY <1>0, <3>1, NameNumbers
      <4> QED BY <1>0, <3>1, <4>1, NameNumbers DEF NamesOK
    <3>4. clock <= held[o][store[o].val] + TTL + Latency
        BY <1>0, <3>1, <3>3, NameNumbers
    <3> HIDE DEF x
    <3> QED BY <2>1, <2>2, <3>1, <3>2, <3>4, LookSteps
  <2>4. CASE ~(get(o) # 0)
    <3> DEFINE x == [st |-> "asked", org |-> o, val |-> agent[o], at |-> clock]
    <3>1. look' = [look EXCEPT ![l] = x]
        BY <1>1, <2>4 DEF LookUp
    <3>2. agent[o] \in 1..2 /\ clock \in Nat /\ Latency \in Nat
        BY <1>0, NameNumbers
    <3>3. /\ x \in Lookup /\ x.st = "asked" /\ x.org = o /\ x.val = agent[o] /\ x.at = clock
          /\ x.val # 0
        BY <2>1, <3>2 DEF Lookup
    <3>4. held[o][agent[o]] = clock /\ clock <= clock + Latency /\ clock <= clock /\ clock >= clock
        BY <1>0, <3>2 DEF NamesOK
    <3> HIDE DEF x
    <3> QED BY <2>1, <2>2, <3>1, <3>3, <3>4, LookSteps
  <2> QED BY <2>3, <2>4
<1>2. ASSUME NEW l \in Lookups, set(l) PROVE LimitsInv'
  <2> DEFINE e == [val |-> look[l].val, expiry |-> clock + TTL]
  <2>1. /\ UNCHANGED <<clock, bucket, taken, agent, held>> /\ look' = [look EXCEPT ![l] = NoLook]
        /\ store' = [store EXCEPT ![look[l].org] = e] /\ look[l].st = "asked"
      BY <1>2 DEF set
  <2>2. look[l].org \in Orgs /\ look[l].val \in 0..2 /\ look[l].at \in Nat
      BY <1>0, NameNumbers
  <2>3. clock + TTL \in 0..MaxNow + TTL
      BY <1>0, NameNumbers
  <2>4. /\ e \in [val : 0..2, expiry : 0..MaxNow + TTL] /\ e.val = look[l].val
        /\ e.expiry = clock + TTL
      BY <2>2, <2>3
  <2>5. /\ look[l].val # 0 /\ clock <= look[l].at + Latency
        /\ held[look[l].org][look[l].val] >= look[l].at
      BY <2>1 DEF LimitsInv, LookOK
  <2>6. clock + TTL <= held[look[l].org][look[l].val] + Latency + TTL
    <3>1. look[l].val \in 1..2
        BY <2>2, <2>5
    <3>2. PICK h \in Nat : h = held[look[l].org][look[l].val]
        BY <1>0, <2>2, <3>1, NameNumbers
    <3> QED BY <1>0, <2>2, <2>5, <3>2, NameNumbers
  <2> HIDE DEF e
  <2>7. store' \in [Orgs -> [val : 0..2, expiry : 0..MaxNow + TTL]]
      BY <1>0, <2>1, <2>2, <2>4 DEF LShapes
  <2>8. ASSUME NEW p \in Orgs PROVE NamesOK(p)'
    <3>1. store'[p] = IF p = look[l].org THEN e ELSE store[p]
        BY <1>0, <2>1, <2>8 DEF LShapes
    <3>2. NamesOK(p)
        BY <1>0, <2>8
    <3>3. CASE p = look[l].org
        BY <2>1, <2>4, <2>6, <3>1, <3>2, <3>3 DEF NamesOK
    <3>4. CASE p # look[l].org
        BY <2>1, <3>1, <3>2, <3>4 DEF NamesOK
    <3> QED BY <3>3, <3>4
  <2> QED BY <2>1, <2>7, <2>8, NoLookShape, LookSteps
<1>3. ASSUME NEW l \in Lookups, LookupEnds(l) PROVE LimitsInv'
  <2>1. /\ UNCHANGED <<clock, bucket, taken, agent, held, store>>
        /\ look' = [look EXCEPT ![l] = NoLook]
      BY <1>3 DEF LookupEnds
  <2>2. /\ store' \in [Orgs -> [val : 0..2, expiry : 0..MaxNow + TTL]]
        /\ \A p \in Orgs : NamesOK(p)'
      BY <1>0, <2>1 DEF LShapes, NamesOK
  <2> QED BY <2>1, <2>2, NoLookShape, LookSteps
<1>4. ASSUME NEW o \in Orgs, Reregistered(o) PROVE LimitsInv'
  <2>1. UNCHANGED <<clock, bucket, taken, store, look>> /\ agent[o] = 1 /\ agent' = [agent EXCEPT ![o] = 2]
      BY <1>4 DEF Reregistered
  <2>2. held' = [held EXCEPT ![o] = [held[o] EXCEPT ![1] = clock, ![2] = clock]]
      BY <1>4 DEF Reregistered
  <2>3. /\ agent \in [Orgs -> 1..2] /\ held \in [Orgs -> [1..2 -> 0..MaxNow]] /\ clock \in 0..MaxNow
        /\ held[o] \in [1..2 -> 0..MaxNow] /\ MaxNow \in Nat
      BY <1>0, LimitsAssumption DEF LShapes
  <2>4. [held[o] EXCEPT ![1] = clock, ![2] = clock] \in [1..2 -> 0..MaxNow]
      BY <2>3
  <2>5. agent' \in [Orgs -> 1..2] /\ held' \in [Orgs -> [1..2 -> 0..MaxNow]]
      BY <2>1, <2>2, <2>3, <2>4
  <2>6. ASSUME NEW p \in Orgs, NEW v \in 1..2
        PROVE  /\ held'[p][v] = (IF p = o THEN clock ELSE held[p][v])
               /\ held'[p][v] >= held[p][v] /\ held'[p][v] <= clock
    <3>1. held'[p] = IF p = o THEN [held[o] EXCEPT ![1] = clock, ![2] = clock] ELSE held[p]
        BY <2>2, <2>3, <2>6
    <3>2. held'[p][v] = (IF p = o THEN clock ELSE held[p][v])
        BY <2>3, <2>6, <3>1
    <3>3. held[p][v] \in 0..MaxNow /\ held[p][v] <= clock
        BY <1>0, <2>6, NameNumbers DEF NamesOK
    <3> QED BY <2>3, <3>2, <3>3
  <2>7. ASSUME NEW p \in Orgs PROVE held'[p][agent'[p]] = clock
    <3>1. agent'[p] \in 1..2 /\ agent[p] \in 1..2 /\ (p # o => agent'[p] = agent[p]) /\ NamesOK(p)
        BY <1>0, <2>1, <2>3, <2>7
    <3> QED BY <2>6, <2>7, <3>1 DEF NamesOK
  <2>8. \A l \in Lookups : look[l].st = "asked" => clock' <= look[l].at + Latency
      BY <2>1 DEF LimitsInv, LookOK
  <2>9. clock' \in 0..MaxNow /\ clock' >= clock /\ clock' = clock
      BY <2>1, <2>3
  <2> QED BY <2>1, <2>5, <2>6, <2>7, <2>8, <2>9, HeldMoves
<1> QED BY <1>1, <1>2, <1>3, <1>4 DEF NamesNext

\* Time passes while no hit is held and no request has used its time up.
LEMMA TickKeeps == ASSUME LimitsInv, LimitsTick PROVE LimitsInv'
<1>0. LShapes /\ \A o \in Orgs : NamesOK(o)
    BY DEF LimitsInv
<1>1. /\ clock < MaxNow /\ clock' = clock + 1 /\ UNCHANGED <<bucket, taken, agent, store, look>>
      /\ held' = [o \in Orgs |-> [held[o] EXCEPT ![agent[o]] = clock + 1]]
      /\ \A l \in Lookups : look[l].st = "asked" => clock - look[l].at < Latency
      /\ \A l \in Lookups : look[l].st # "hit"
    BY DEF LimitsTick
<1>2. clock \in Nat /\ MaxNow \in Nat /\ Latency \in Nat
    BY <1>0, NameNumbers
<1>3. clock' \in 0..MaxNow /\ clock' >= clock /\ clock + 1 \in 0..MaxNow
    BY <1>1, <1>2
<1>4. ASSUME NEW p \in Orgs
      PROVE  /\ held'[p] \in [1..2 -> 0..MaxNow] /\ held'[p][agent[p]] = clock'
             /\ \A v \in 1..2 : held'[p][v] >= held[p][v] /\ held'[p][v] <= clock'
  <2>1. held'[p] = [held[p] EXCEPT ![agent[p]] = clock + 1] /\ agent[p] \in 1..2
      BY <1>0, <1>1, <1>4, NameNumbers
  <2>2. held[p] \in [1..2 -> 0..MaxNow]
      BY <1>0, <1>4 DEF LShapes
  <2>3. held'[p] \in [1..2 -> 0..MaxNow] /\ held'[p][agent[p]] = clock'
      BY <1>1, <1>3, <2>1, <2>2
  <2>4. ASSUME NEW v \in 1..2 PROVE held'[p][v] >= held[p][v] /\ held'[p][v] <= clock'
    <3>1. held[p][v] \in 0..MaxNow /\ held[p][v] <= clock
        BY <1>0, <1>4, <2>4, NameNumbers DEF NamesOK
    <3>2. held'[p][v] = IF v = agent[p] THEN clock + 1 ELSE held[p][v]
        BY <2>1, <2>2, <2>4
    <3> QED BY <1>1, <1>2, <3>1, <3>2
  <2> QED BY <2>3, <2>4
<1>5. held' \in [Orgs -> [1..2 -> 0..MaxNow]]
  <2>1. held' = [p \in Orgs |-> held'[p]]
      BY <1>1
  <2> QED BY <1>4, <2>1
<1>6. \A l \in Lookups : look[l].st = "asked" => clock' <= look[l].at + Latency
  <2> SUFFICES ASSUME NEW l \in Lookups, look[l].st = "asked" PROVE clock' <= look[l].at + Latency
      OBVIOUS
  <2>1. look[l].at \in Nat /\ clock - look[l].at < Latency
      BY <1>0, <1>1, NameNumbers
  <2> QED BY <1>1, <1>2, <2>1
<1>7. agent' \in [Orgs -> 1..2] /\ \A p \in Orgs : held'[p][agent'[p]] = clock'
    BY <1>0, <1>1, <1>4 DEF LShapes
<1> QED BY <1>1, <1>3, <1>4, <1>5, <1>6, <1>7, HeldMoves

-----------------------------------------------------------------------------
(* The theorems.                                                           *)

\* Nothing is taken, cached or asked at first.
LEMMA LimitsInit == ASSUME LInit PROVE LimitsInv
<1>1. Burst \in Nat /\ MaxNow \in Nat /\ TTL \in Nat /\ Latency \in Nat
    BY LimitsAssumption
<1>2. LShapes
  <2>1. /\ clock \in 0..MaxNow /\ agent \in [Orgs -> 1..2]
        /\ bucket \in [Orgs -> [tokens : 0..Burst, last : 0..MaxNow]]
      BY <1>1 DEF LInit
  <2>2. taken \in [Orgs -> [0..MaxNow -> Nat]] /\ held \in [Orgs -> [1..2 -> 0..MaxNow]]
      BY <1>1 DEF LInit
  <2>3. Absent \in [val : 0..2, expiry : 0..MaxNow + TTL]
      BY <1>1 DEF Absent
  <2>4. store \in [Orgs -> [val : 0..2, expiry : 0..MaxNow + TTL]]
      BY <2>3 DEF LInit
  <2>5. look \in [Lookups -> Lookup]
      BY NoLookShape DEF LInit
  <2> QED BY <2>1, <2>2, <2>4, <2>5 DEF LShapes
<1>3. ASSUME NEW o \in Orgs, NEW t \in 0..MaxNow PROVE taken[o][t] = 0 /\ (Before(o, t) = 0)
  <2>1. t = 0 \/ t - 1 \in 0..MaxNow
      BY <1>1, <1>3
  <2> QED BY <1>3, <2>1 DEF LInit, Before
<1>4. ShareIsBounded
  <2> SUFFICES ASSUME NEW o \in Orgs, NEW b \in 0..MaxNow, NEW a \in 0..b
               PROVE  taken[o][b] <= Before(o, a) + Burst + Rate * (b - a)
      BY DEF ShareIsBounded, Before
  <2>1. a \in 0..MaxNow /\ b - a \in Nat
      BY <1>1
  <2>2. taken[o][b] = 0 /\ Before(o, a) = 0
      BY <1>3, <2>1
  <2>3. PICK x \in Nat : x = Rate * (b - a)
      BY <2>1, RateLaws
  <2> QED BY <1>1, <2>2, <2>3
<1>5. ASSUME NEW o \in Orgs PROVE BucketOK(o)
  <2>1. clock = 0 /\ bucket[o].tokens = Burst /\ bucket[o].last = 0
      BY <1>5 DEF LInit
  <2>2. \A t \in 0..MaxNow : taken[o][t] = 0 /\ taken[o][MaxNow] = 0
      BY <1>1, <1>3, <1>5
  <2>3. ASSUME NEW a \in 0..MaxNow, a <= 0
        PROVE  taken[o][MaxNow] + Burst <= Before(o, a) + Burst + Rate * (0 - a)
    <3>1. a = 0 /\ 0 - a = 0
        BY <1>1, <2>3
    <3>2. Rate * (0 - a) \in Nat
        BY <3>1, RateLaws
    <3>3. Before(o, a) = 0 /\ taken[o][MaxNow] = 0
        BY <1>3, <1>5, <2>2, <2>3
    <3> QED BY <1>1, <3>2, <3>3
  <2> QED BY <2>1, <2>2, <2>3 DEF BucketOK
<1>6. ASSUME NEW o \in Orgs PROVE NamesOK(o)
    BY <1>6 DEF LInit, NamesOK, Absent
<1>7. ASSUME NEW l \in Lookups PROVE LookOK(l)
    BY <1>7, NoLookShape DEF LInit, LookOK
<1> QED BY <1>2, <1>4, <1>5, <1>6, <1>7 DEF LimitsInv

\* Every step keeps the invariant.
LEMMA LimitsKept == ASSUME LimitsInv, [LNext]_lvars PROVE LimitsInv'
<1>1. CASE LimitsTick
    BY <1>1, TickKeeps
<1>2. CASE BucketNext
    BY <1>2, TakeStep DEF BucketNext
<1>3. CASE NamesNext
    BY <1>3, NamesSteps
<1>4. CASE UNCHANGED lvars
  <2>1. UNCHANGED <<clock, bucket, taken, agent, held, store, look>>
      BY <1>4 DEF lvars
  <2>2. LShapes' /\ ShareIsBounded'
      BY <2>1 DEF LimitsInv, LShapes, ShareIsBounded
  <2>3. \A o \in Orgs : BucketOK(o)' /\ NamesOK(o)'
      BY <2>1 DEF LimitsInv, BucketOK, NamesOK, Before
  <2>4. \A l \in Lookups : LookOK(l)'
      BY <2>1 DEF LimitsInv, LookOK
  <2> QED BY <2>2, <2>3, <2>4 DEF LimitsInv
<1> QED BY <1>1, <1>2, <1>3, <1>4 DEF LNext

\* The invariant is one of the limiter and the cache.
LEMMA LimitsInvariant == LSpec => []LimitsInv
<1>1. LInit => LimitsInv
    BY LimitsInit
<1>2. LimitsInv /\ [LNext]_lvars => LimitsInv'
    BY LimitsKept
<1> QED BY <1>1, <1>2, PTL DEF LSpec

\* Token buckets (guardrails/rate_limit.py): whatever the burst, the rate and
\* the interleaving, over every stretch of time an organization's calls are at
\* most the burst and what the stretch refills.
THEOREM ShareOfAnOrganization == LSpec => []ShareIsBounded
<1>1. LimitsInv => ShareIsBounded
    BY DEF LimitsInv
<1> QED BY <1>1, LimitsInvariant, PTL

\* Agent names (tools/alerts.py, caching/cache.py): an id served from the cache
\* was the agent's no longer ago than the TTL and one request, even when a
\* request that read the old id is answered after the agent got a new one.
THEOREM CachedIdsAreFresh == LSpec => []StaleIsBounded
<1>1. ASSUME LimitsInv PROVE StaleIsBounded
  <2> SUFFICES ASSUME NEW l \in Lookups, look[l].st = "hit"
               PROVE  clock - held[look[l].org][look[l].val] <= TTL + Latency
      BY DEF StaleIsBounded
  <2>1. LShapes /\ LookOK(l)
      BY <1>1 DEF LimitsInv
  <2>2. look[l].val \in 1..2 /\ look[l].org \in Orgs
      BY <2>1, NameNumbers DEF LookOK
  <2>3. PICK h \in Nat : h = held[look[l].org][look[l].val]
      BY <2>1, <2>2, NameNumbers
  <2>4. clock <= h + TTL + Latency /\ clock \in Nat /\ TTL \in Nat /\ Latency \in Nat
      BY <2>1, <2>3, NameNumbers DEF LookOK
  <2> QED BY <2>3, <2>4
<1> QED BY <1>1, LimitsInvariant, PTL
=============================================================================
