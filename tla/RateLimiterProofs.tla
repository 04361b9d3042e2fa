-------------------------- MODULE RateLimiterProofs --------------------------
(***************************************************************************)
(* For any clients, headers, rate, burst and pruning: the limiter's types, *)
(* that a client which waited is served, and, when a pruned bucket is a    *)
(* full one, that the limiter is the token bucket of TokenBucket and holds *)
(* every client to its rate over every window.                             *)
(***************************************************************************)
EXTENDS RateMeter, TLAPS

-----------------------------------------------------------------------------
(* Arithmetic.                                                             *)

LEMMA TimesMonotone ==
  ASSUME NEW a \in Nat, NEW b \in Nat, a <= b, NEW n \in Nat
  PROVE  a * n <= b * n
  <1>1. PICK d \in Nat : b = a + d
    <2>1. b - a \in Nat /\ b = a + (b - a)
      OBVIOUS
    <2> QED
      BY <2>1
  <1>2. b * n = a * n + d * n /\ d * n \in Nat /\ a * n \in Nat
    BY <1>1
  <1> QED
    BY <1>2

LEMMA TimesSuccessor ==
  ASSUME NEW a \in Nat, NEW n \in Nat
  PROVE  a * n \in Nat /\ (a + 1) * n = a * n + n
  OBVIOUS

\* A bucket's fill is a number of units, at most the burst.
LEMMA FilledType ==
  ASSUME NEW b \in Bucket
  PROVE  Filled(b) \in 0..Burst
  <1>1. b.tokens \in 0..Burst /\ b.idle \in Nat
    BY LimiterAssumption DEF Bucket
  <1>2. b.idle * Rate \in Nat
    BY <1>1, LimiterAssumption
  <1> QED
    BY <1>1, <1>2, LimiterAssumption DEF Filled, AtMost

\* A bucket just used holds its tokens.
LEMMA FilledNow ==
  ASSUME NEW n \in 0..Burst
  PROVE  Filled([tokens |-> n, idle |-> 0]) = n
  <1>1. 0 * Rate = 0
    BY LimiterAssumption
  <1> QED
    BY <1>1, LimiterAssumption DEF Filled, AtMost

\* Looking at a bucket every tick or once at the end fills it the same.
LEMMA FilledLater ==
  ASSUME NEW b \in Bucket
  PROVE  Filled([b EXCEPT !.idle = AtMost(MaxIdle, @ + 1)])
           = AtMost(Burst, Filled(b) + Rate)
  <1> DEFINE i == b.idle
             t == b.tokens
  <1>1. t \in 0..Burst /\ i \in 0..MaxIdle /\ i \in Nat
    BY LimiterAssumption DEF Bucket
  <1>2. [b EXCEPT !.idle = AtMost(MaxIdle, @ + 1)]
          = [tokens |-> t, idle |-> AtMost(MaxIdle, i + 1)]
    BY DEF Bucket
  <1>3. i * Rate \in Nat /\ (i + 1) * Rate = i * Rate + Rate
    BY <1>1, TimesSuccessor, LimiterAssumption
  <1>4. \A j : Filled([tokens |-> t, idle |-> j]) = AtMost(Burst, t + j * Rate)
    BY DEF Filled
  <1>5. Filled(b) = AtMost(Burst, t + i * Rate)
    BY DEF Filled
  <1>6. ASSUME NEW x \in Nat
        PROVE  AtMost(Burst, t + (x + Rate))
                 = AtMost(Burst, AtMost(Burst, t + x) + Rate)
    BY <1>1, LimiterAssumption DEF AtMost
  <1> HIDE DEF i, t
  <1>7. CASE i < MaxIdle
    <2>1. AtMost(MaxIdle, i + 1) = i + 1
      BY <1>1, <1>7, LimiterAssumption DEF AtMost
    <2>2. Filled([tokens |-> t, idle |-> i + 1])
            = AtMost(Burst, t + (i * Rate + Rate))
      BY <1>3, <1>4
    <2>3. AtMost(Burst, t + (i * Rate + Rate))
            = AtMost(Burst, Filled(b) + Rate)
      BY <1>3, <1>5, <1>6
    <2> QED
      BY <1>2, <2>1, <2>2, <2>3
  <1>8. CASE i = MaxIdle
    <2>1. AtMost(MaxIdle, i + 1) = MaxIdle
      BY <1>8, LimiterAssumption DEF AtMost
    <2>2. AtMost(Burst, t + MaxIdle * Rate) = Burst
      BY <1>1, <1>3, <1>8, LimiterAssumption DEF AtMost
    <2>3. Filled(b) = Burst
      BY <1>5, <1>8, <2>2
    <2>4. AtMost(Burst, Burst + Rate) = Burst
      BY LimiterAssumption DEF AtMost
    <2> QED
      BY <1>2, <1>4, <2>1, <2>2, <2>3, <2>4
  <1> QED
    BY <1>1, <1>7, <1>8, LimiterAssumption

\* A bucket that prune drops is full, when the configuration makes it so.
LEMMA PrunedWasFull ==
  ASSUME PruneHarmless, NEW b \in Bucket, b.idle > BucketIdle
  PROVE  Filled(b) = Burst
  <1>1. b.tokens \in 0..Burst /\ b.idle \in Nat /\ BucketIdle + 1 \in Nat
    BY LimiterAssumption DEF Bucket
  <1>2. (BucketIdle + 1) * Rate <= b.idle * Rate
    BY <1>1, TimesMonotone, LimiterAssumption
  <1>3. b.idle * Rate \in Nat /\ (BucketIdle + 1) * Rate \in Nat
    BY <1>1, LimiterAssumption
  <1> QED
    BY <1>1, <1>2, <1>3, LimiterAssumption DEF Filled, AtMost, PruneHarmless

-----------------------------------------------------------------------------
(* The types of the limiter.                                               *)

\* Forged headers or not, the bucket used is that of the client.
LEMMA OwnBucket ==
  ASSUME NEW c \in Clients, Request(c)
  PROVE  Allow(c)
  <1>1. ASSUME NEW h \in Forged
        PROVE  ClientAddr(Direct(c, h)) = c /\ ClientAddr(Forwarded(c, h)) = c
    <2>1. c # Proxy /\ h \in Seq(Clients)
      BY LimiterAssumption
    <2>2. /\ Append(h, c) # <<>>
          /\ Append(h, c)[Len(Append(h, c))] = c
      BY <2>1
    <2> QED
      BY <2>1, <2>2 DEF ClientAddr, Direct, Forwarded
  <1> QED
    BY <1>1 DEF Request

\* Any other request uses the bucket of the proxy or of a client.
LEMMA UnnamedBucket ==
  ASSUME NEW h \in Forged, Unnamed(h)
  PROVE  \E a \in Addresses : Allow(a)
  <1>1. h \in Seq(Clients)
    BY LimiterAssumption
  <1>2. CASE h = <<>>
    BY <1>2 DEF Unnamed, ClientAddr, PassedOn, Addresses
  <1>3. CASE h # <<>>
    <2>1. h[Len(h)] \in Clients
      BY <1>1, <1>3
    <2>2. ClientAddr(PassedOn(h)) = h[Len(h)]
      BY <1>3 DEF ClientAddr, PassedOn
    <2> QED
      BY <2>1, <2>2 DEF Unnamed, Addresses
  <1> QED
    BY <1>2, <1>3

LEMMA NextIs == Next => Tick \/ \E a \in Addresses : Allow(a)
  <1>1. ASSUME NEW c \in Clients, Request(c)
        PROVE  \E a \in Addresses : Allow(a)
    BY <1>1, OwnBucket DEF Addresses
  <1> QED
    BY <1>1, UnnamedBucket DEF Next

LEMMA TokensType ==
  ASSUME TypeOK, NEW c \in Addresses
  PROVE  Tokens(c) \in 0..Burst /\ Spent(Tokens(c)) \in 0..Burst
  <1>1. Tokens(c) \in 0..Burst
    BY FilledType, LimiterAssumption DEF Tokens, TypeOK
  <1> QED
    BY <1>1, LimiterAssumption DEF Spent

LEMMA TypeInit == Init => TypeOK
  BY LimiterAssumption DEF Init, TypeOK, Known

LEMMA AllowType ==
  ASSUME TypeOK, NEW c \in Addresses, Allow(c)
  PROVE  TypeOK'
  <1> DEFINE spent == [tokens |-> Spent(Tokens(c)), idle |-> 0]
  <1>1. PICK gone : buckets' = [d \in {c} \cup (Known \ gone) |->
                                 IF d = c THEN spent ELSE buckets[d]]
    BY DEF Allow
  <1>2. spent \in Bucket
    BY TokensType, LimiterAssumption DEF Bucket
  <1>3. inserts' \in 0..PruneEvery - 1
    BY LimiterAssumption DEF Allow, TypeOK
  <1>4. verdict' \in [client : Addresses, allowed : BOOLEAN]
    BY DEF Allow
  <1> HIDE DEF spent
  <1> QED
    BY <1>1, <1>2, <1>3, <1>4 DEF TypeOK, Known

LEMMA TickType == TypeOK /\ Tick => TypeOK'
  <1> SUFFICES ASSUME TypeOK, Tick PROVE TypeOK'
    OBVIOUS
  <1>1. ASSUME NEW b \in Bucket
        PROVE  [b EXCEPT !.idle = AtMost(MaxIdle, @ + 1)] \in Bucket
    <2>1. b.idle \in 0..MaxIdle /\ b.idle \in Nat
      BY LimiterAssumption DEF Bucket
    <2>2. AtMost(MaxIdle, b.idle + 1) \in 0..MaxIdle
      BY <2>1, LimiterAssumption DEF AtMost
    <2> QED
      BY <2>2 DEF Bucket
  <1> QED
    BY <1>1 DEF TypeOK, Tick, Known

LEMMA TypeStep == TypeOK /\ [Next]_vars => TypeOK'
  <1> SUFFICES ASSUME TypeOK, [Next]_vars PROVE TypeOK'
    OBVIOUS
  <1>1. ASSUME NEW a \in Addresses, Allow(a) PROVE TypeOK'
    BY <1>1, AllowType
  <1>2. CASE UNCHANGED vars
    BY <1>2 DEF TypeOK, Known, vars
  <1> QED
    BY <1>1, <1>2, TickType, NextIs

\* No bucket is overdrawn, overfull or another's.
THEOREM TypeCorrect == Spec => []TypeOK
  BY TypeInit, TypeStep, PTL DEF Spec

\* A client that sat out the Retry-After is served.
THEOREM RetriesAreServed == Spec => RetryIsServed
  <1> DEFINE Served == \A c \in Known :
       buckets[c].idle >= RetryAfter /\ c \in Known' /\ buckets'[c].idle = 0
         => verdict' = [client |-> c, allowed |-> TRUE]
  <1>1. TypeOK /\ [Next]_vars => [Served]_vars
    <2> SUFFICES ASSUME TypeOK, Next, NEW c \in Known,
                        buckets[c].idle >= RetryAfter, c \in Known',
                        buckets'[c].idle = 0
                 PROVE  verdict' = [client |-> c, allowed |-> TRUE]
      OBVIOUS
    <2>1. /\ buckets[c] \in Bucket /\ buckets[c].idle \in Nat
          /\ buckets[c].tokens \in 0..Burst
      BY LimiterAssumption DEF TypeOK, Bucket
    <2>2. RetryAfter \in Nat /\ RetryAfter # 0
      <3>1. 0 * Rate = 0
        BY LimiterAssumption
      <3> QED
        BY <3>1, LimiterAssumption
    <2>3. Tokens(c) >= Cost
      <3>1. RetryAfter * Rate <= buckets[c].idle * Rate
        BY <2>1, <2>2, TimesMonotone, LimiterAssumption
      <3>2. buckets[c].idle * Rate \in Nat /\ RetryAfter * Rate \in Nat
        BY <2>1, <2>2, LimiterAssumption
      <3> DEFINE brought == buckets[c].idle * Rate
      <3>3. brought \in Nat /\ brought >= Cost
        BY <3>1, <3>2, LimiterAssumption
      <3>4. Tokens(c) = AtMost(Burst, buckets[c].tokens + brought)
        BY DEF Tokens, Filled
      <3>5. /\ buckets[c].tokens \in Nat
            /\ Cost \in Nat /\ Burst \in Nat /\ Burst >= Cost
        BY <2>1, LimiterAssumption
      <3> HIDE DEF brought
      <3> QED
        BY <3>3, <3>4, <3>5 DEF AtMost
    <2>4. CASE Tick
      <3>1. buckets'[c].idle = AtMost(MaxIdle, buckets[c].idle + 1)
        BY <2>1, <2>4 DEF Tick, Bucket
      <3> QED
        BY <2>1, <3>1, LimiterAssumption DEF AtMost
    <2>5. ASSUME NEW d \in Addresses, Allow(d)
          PROVE  verdict' = [client |-> c, allowed |-> TRUE]
      <3>1. CASE d = c
        BY <2>3, <2>5, <3>1 DEF Allow
      <3>2. CASE d # c
        BY <2>1, <2>2, <2>5, <3>2 DEF Allow, Known
      <3> QED
        BY <3>1, <3>2
    <2> QED
      BY <2>4, <2>5, NextIs
  <1> QED
    BY <1>1, TypeInit, TypeStep, PTL DEF Spec, RetryIsServed

-----------------------------------------------------------------------------
(* The limiter is the token bucket.                                        *)

CreditOf == [c \in Addresses |-> Tokens(c)]

\* What a request does to every client's credit: it costs the client that
\* asked, and pruning gives nobody anything.
LEMMA AllowCredit ==
  ASSUME PruneHarmless, TypeOK, NEW c \in Addresses, Allow(c)
  PROVE  CreditOf' = [CreditOf EXCEPT ![c] = Spent(Tokens(c))]
  <1>1. Tokens(c)' = Spent(Tokens(c))
    BY TokensType, FilledNow DEF Allow, Tokens, Known
  <1>2. ASSUME NEW d \in Addresses, d # c PROVE Tokens(d)' = Tokens(d)
    <2>1. CASE d \notin Known
      BY <1>2, <2>1 DEF Allow, Tokens, Known
    <2>2. CASE d \in Known /\ d \in Known'
      BY <1>2, <2>2 DEF Allow, Tokens, Known
    <2>3. CASE d \in Known /\ d \notin Known'
      <3>1. buckets[d] \in Bucket /\ buckets[d].idle > BucketIdle
        BY <1>2, <2>3 DEF Allow, Idle, Known, TypeOK
      <3> QED
        BY <2>3, <3>1, PrunedWasFull DEF Tokens
    <2> QED
      BY <2>1, <2>2, <2>3
  <1> QED
    BY <1>1, <1>2 DEF CreditOf

\* What a tick does to it: everybody gains the rate, up to the burst.
LEMMA TickCredit ==
  ASSUME TypeOK, Tick
  PROVE  CreditOf' = [c \in Addresses |-> AtMost(Burst, CreditOf[c] + Rate)]
  <1>1. ASSUME NEW c \in Addresses
        PROVE  Tokens(c)' = AtMost(Burst, Tokens(c) + Rate)
    <2>1. CASE c \in Known
      <3>1. buckets[c] \in Bucket
        BY <2>1 DEF TypeOK
      <3>2. /\ c \in Known'
            /\ buckets'[c] = [buckets[c] EXCEPT !.idle = AtMost(MaxIdle, @ + 1)]
        BY <2>1 DEF Tick, Known
      <3> QED
        BY <2>1, <3>1, <3>2, FilledLater DEF Tokens
    <2>2. CASE c \notin Known
      BY <2>2, LimiterAssumption DEF Tick, Tokens, Known, AtMost
    <2> QED
      BY <2>1, <2>2
  <1> QED
    BY <1>1 DEF CreditOf

\* Lazy refills, pruning and recreated buckets are invisible to clients: the
\* limiter implements the token bucket per address.
THEOREM ImplementsTokenBucket ==
  ASSUME PruneHarmless
  PROVE  Spec => IsTokenBucket
  <1>1. Init => Credit!BucketInit
    BY DEF Init, Credit!BucketInit, Tokens, Known
  <1>2. TypeOK /\ [Next]_vars => [Credit!BucketNext]_(Credit!bucketVars)
    <2> SUFFICES ASSUME TypeOK, [Next]_vars
                 PROVE  [Credit!BucketNext]_(Credit!bucketVars)
      OBVIOUS
    <2>1. ASSUME NEW c \in Addresses, Allow(c) PROVE Credit!Ask(c)
      <3>1. CreditOf' = [CreditOf EXCEPT ![c] = Spent(Tokens(c))]
        BY <2>1, AllowCredit
      <3>2. Spent(Tokens(c)) = IF Tokens(c) >= Cost THEN Tokens(c) - Cost
                                                    ELSE Tokens(c)
        BY <2>1, TokensType, LimiterAssumption DEF Spent
      <3>3. verdict' = [client |-> c, allowed |-> Tokens(c) >= Cost]
        BY <2>1 DEF Allow
      <3> QED
        BY <3>1, <3>2, <3>3 DEF Credit!Ask, CreditOf
    <2>2. CASE Tick
      <3>1. CreditOf' = [c \in Addresses |-> AtMost(Burst, CreditOf[c] + Rate)]
        BY <2>2, TickCredit
      <3>2. Credit!Fill
        BY <2>2, <3>1 DEF Credit!Fill, CreditOf, Credit!AtMost, AtMost, Tick
      <3> QED
        BY <3>2 DEF Credit!BucketNext
    <2>3. CASE UNCHANGED vars
      BY <2>3 DEF vars, Credit!bucketVars, Tokens, Known
    <2> QED
      BY <2>1, <2>2, <2>3, NextIs DEF Credit!BucketNext
  <1> QED
    BY <1>1, <1>2, TypeInit, TypeStep, PTL
       DEF Spec, IsTokenBucket, Credit!BucketSpec

-----------------------------------------------------------------------------
(* The rate over a window.                                                 *)

\* While the window is open, what was allowed in it and what can still be spent
\* are covered by a full burst and the window's share of the rate.
Covered ==
  elapsed < Window => granted * Cost + Tokens(metered) <= Burst + elapsed * Rate

MeterTypeOK ==
  /\ metered \in Addresses
  /\ granted \in Nat
  /\ elapsed \in 0..Window

MeterInv == TypeOK /\ MeterTypeOK /\ SustainedRate /\ Covered

LEMMA MeterInvInit == MeterInit => MeterInv
  <1> SUFFICES ASSUME MeterInit PROVE MeterInv
    OBVIOUS
  <1>1. TypeOK
    BY TypeInit DEF MeterInit
  <1>2. 0 * Cost = 0 /\ 0 * Rate = 0
    BY LimiterAssumption
  <1>3. Tokens(metered) \in 0..Burst
    BY <1>1, TokensType DEF MeterInit
  <1>4. MeterTypeOK
    BY WindowAssumption DEF MeterInit, MeterTypeOK
  <1>5. SustainedRate
    BY <1>2, LimiterAssumption DEF MeterInit, SustainedRate
  <1>6. Covered
    BY <1>2, <1>3, LimiterAssumption DEF MeterInit, Covered
  <1> QED
    BY <1>1, <1>4, <1>5, <1>6 DEF MeterInv

\* A request moves its cost from what can be spent to what was allowed, or does
\* neither.
LEMMA CountStep ==
  ASSUME PruneHarmless, MeterInv, NEW a \in Addresses, Allow(a), Count(a)
  PROVE  MeterInv'
  <1> USE DEF MeterInv
  <1>1. /\ elapsed' = elapsed /\ metered' = metered
        /\ metered \in Addresses
    BY DEF Count, MeterTypeOK
  <1>2. TypeOK'
    BY AllowType
  <1>3. granted' = IF a = metered /\ Tokens(a) >= Cost /\ elapsed < Window
                   THEN granted + 1 ELSE granted
    BY DEF Count, Allow
  <1>4. MeterTypeOK'
    BY <1>1, <1>3 DEF MeterTypeOK
  <1>5. CreditOf' = [CreditOf EXCEPT ![a] = Spent(Tokens(a))]
    BY AllowCredit
  <1>6. Tokens(metered)'
          = IF a = metered THEN Spent(Tokens(metered)) ELSE Tokens(metered)
    BY <1>1, <1>5 DEF CreditOf
  <1> DEFINE left == Tokens(metered)
             room == Burst + elapsed * Rate
  <1>7. /\ granted \in Nat /\ granted * Cost \in Nat
        /\ (granted + 1) * Cost = granted * Cost + Cost
        /\ room \in Nat /\ left \in 0..Burst
    BY TimesSuccessor, TokensType, LimiterAssumption, WindowAssumption
       DEF MeterTypeOK
  <1>8. /\ granted * Cost <= room
        /\ elapsed < Window => granted * Cost + left <= room
    BY DEF SustainedRate, Covered
  <1> DEFINE Fits == /\ granted' * Cost <= room
                     /\ elapsed < Window =>
                          granted' * Cost + Tokens(metered)' <= room
  <1>9. ASSUME a = metered /\ left >= Cost /\ elapsed < Window PROVE Fits
    <2>1. granted' * Cost = granted * Cost + Cost
      BY <1>3, <1>7, <1>9
    <2>2. Tokens(metered)' = left - Cost
      BY <1>6, <1>7, <1>9, LimiterAssumption DEF Spent
    <2> HIDE DEF left, room
    <2> QED
      BY <1>7, <1>8, <1>9, <2>1, <2>2, LimiterAssumption
  <1>10. ASSUME ~(a = metered /\ left >= Cost /\ elapsed < Window) PROVE Fits
    <2>1. granted' = granted
      BY <1>3, <1>10
    <2>2. elapsed < Window => Tokens(metered)' = left
      BY <1>6, <1>7, <1>10, LimiterAssumption DEF Spent
    <2> QED
      BY <1>8, <2>1, <2>2
  <1>11. SustainedRate' /\ Covered'
    BY <1>1, <1>9, <1>10 DEF SustainedRate, Covered
  <1> QED
    BY <1>2, <1>4, <1>11

\* A tick brings at most what it adds to the window.
LEMMA MeteredTickStep ==
  ASSUME MeterInv, MeteredTick
  PROVE  MeterInv'
  <1> USE DEF MeterInv
  <1>1. /\ TypeOK' /\ granted' = granted /\ metered' = metered
        /\ metered \in Addresses
    BY TickType DEF MeteredTick, MeterTypeOK
  <1>2. /\ elapsed \in Nat /\ elapsed' \in 0..Window
        /\ elapsed' = IF elapsed < Window THEN elapsed + 1 ELSE elapsed
    BY WindowAssumption DEF MeteredTick, MeterTypeOK, AtMost
  <1>3. MeterTypeOK'
    BY <1>1, <1>2 DEF MeterTypeOK
  <1>4. CreditOf' = [c \in Addresses |-> AtMost(Burst, CreditOf[c] + Rate)]
    BY TickCredit DEF MeteredTick
  <1>5. Tokens(metered)' = AtMost(Burst, Tokens(metered) + Rate)
    BY <1>1, <1>4 DEF CreditOf
  <1>6. /\ granted * Cost \in Nat
        /\ elapsed * Rate \in Nat
        /\ (elapsed + 1) * Rate = elapsed * Rate + Rate
    BY <1>2, TimesSuccessor, LimiterAssumption DEF MeterTypeOK
  <1>7. /\ granted * Cost <= Burst + elapsed * Rate
        /\ elapsed < Window =>
             granted * Cost + Tokens(metered) <= Burst + elapsed * Rate
    BY DEF SustainedRate, Covered
  <1>8. /\ Tokens(metered) \in 0..Burst /\ Tokens(metered)' \in 0..Burst
        /\ Tokens(metered)' <= Tokens(metered) + Rate
    BY <1>1, <1>5, TokensType, LimiterAssumption DEF AtMost
  <1>9. CASE elapsed < Window
    <2>1. elapsed' * Rate = elapsed * Rate + Rate
      BY <1>2, <1>6, <1>9
    <2>2. /\ granted * Cost <= Burst + elapsed' * Rate
          /\ granted * Cost + Tokens(metered)' <= Burst + elapsed' * Rate
      BY <1>6, <1>7, <1>8, <1>9, <2>1, LimiterAssumption
    <2> QED
      BY <1>1, <1>3, <2>2 DEF SustainedRate, Covered
  <1>10. CASE ~(elapsed < Window)
    BY <1>1, <1>2, <1>3, <1>7, <1>10 DEF SustainedRate, Covered
  <1> QED
    BY <1>9, <1>10

LEMMA OpenStep ==
  ASSUME MeterInv, Open
  PROVE  MeterInv'
  <1> USE DEF MeterInv
  <1>1. TypeOK'
    BY DEF Open, vars, TypeOK, Known
  <1>2. 0 * Cost = 0 /\ 0 * Rate = 0
    BY LimiterAssumption
  <1>3. MeterTypeOK'
    BY WindowAssumption DEF Open, MeterTypeOK
  <1>4. Tokens(metered)' \in 0..Burst
    <2>1. metered' \in Addresses /\ Tokens(metered') \in 0..Burst
      BY TokensType DEF Open
    <2>2. Tokens(metered)' = Tokens(metered')
      BY DEF Open, vars, Tokens, Known
    <2> QED
      BY <2>1, <2>2
  <1>5. SustainedRate' /\ Covered'
    BY <1>2, <1>4, LimiterAssumption DEF Open, SustainedRate, Covered
  <1> QED
    BY <1>1, <1>3, <1>5

\* No client is allowed more than its burst and its rate over any window, when
\* the burst fills within the time an idle bucket is kept: nor are all those
\* together whom a proxy does not name.
THEOREM RateIsSustained ==
  ASSUME PruneHarmless
  PROVE  MeterSpec => []SustainedRate
  <1>1. MeterInv /\ [MeterNext]_meterVars => MeterInv'
    <2> SUFFICES ASSUME MeterInv, [MeterNext]_meterVars PROVE MeterInv'
      OBVIOUS
    <2>1. CASE UNCHANGED meterVars
      BY <2>1 DEF meterVars, MeterInv, TypeOK, MeterTypeOK, SustainedRate,
         Covered, Known, Tokens
    <2>2. ASSUME NEW c \in Clients, MeteredRequest(c) PROVE MeterInv'
      BY <2>2, OwnBucket, CountStep DEF MeteredRequest, Addresses
    <2>3. ASSUME NEW h \in Forged, MeteredUnnamed(h) PROVE MeterInv'
      <3>1. PICK a \in Addresses : Allow(a)
        BY <2>3, UnnamedBucket DEF MeteredUnnamed
      <3>2. verdict'.client = a
        BY <3>1 DEF Allow
      <3> QED
        BY <2>3, <3>1, <3>2, CountStep DEF MeteredUnnamed
    <2> QED
      BY <2>1, <2>2, <2>3, MeteredTickStep, OpenStep DEF MeterNext
  <1> QED
    BY <1>1, MeterInvInit, PTL DEF MeterSpec, MeterInv
=============================================================================
