----------------------------- MODULE RateLimiter -----------------------------
(***************************************************************************)
(* The per-client rate limiter of src/app/ratelimit.go as Handler calls    *)
(* it: allow, with the prune it triggers, under the limiter's mutex, on    *)
(* the address clientAddr reads off the connection.                        *)
(*                                                                         *)
(* Tokens are counted in units of which one request takes Cost and a tick  *)
(* brings Rate, so that fractions of a token stay integers.  A bucket's    *)
(* idle time is the time since its last; it saturates at MaxIdle, which is *)
(* past everything the code compares it with.                              *)
(***************************************************************************)
EXTENDS Integers, Sequences, FiniteSets

CONSTANTS
  Clients,     \* client addresses, none of them private
  Proxy,       \* the private address of the reverse proxy
  Forged,      \* X-Forwarded-For headers a client may send; <<>> is none
  Rate,        \* perSecond, in units per tick
  Cost,        \* one token, in units
  Burst,       \* burst, in units
  BucketIdle,  \* bucketIdle, in ticks
  PruneEvery,  \* how many new buckets between two prunes
  MaxIdle,     \* bound on the idle time kept
  RetryAfter   \* the Retry-After a 429 carries, in ticks

ASSUME LimiterAssumption ==
  /\ Proxy \notin Clients
  /\ Forged \subseteq Seq(Clients)
  /\ Rate \in Nat \ {0}   \* rate-limit.per-minute 0 makes no limiter
  /\ Cost \in Nat \ {0}
  /\ Burst \in Nat /\ Burst >= Cost   \* ExecuteConfig floors burst to one
  /\ BucketIdle \in Nat
  /\ PruneEvery \in Nat \ {0}
  /\ MaxIdle \in Nat /\ MaxIdle > BucketIdle /\ MaxIdle * Rate >= Burst
  /\ RetryAfter \in 0..MaxIdle
  /\ RetryAfter * Rate >= Cost  \* at least one token a minute

VARIABLES
  buckets,  \* the buckets held, by address
  inserts,  \* new buckets made, modulo PruneEvery
  verdict   \* the last answer: the address, and whether it was allowed

vars == <<buckets, inserts, verdict>>

\* The addresses a request can be limited by.
Addresses == Clients \cup {Proxy}

Known == DOMAIN buckets

AtMost(cap, n) == IF n < cap THEN n ELSE cap

Init ==
  /\ buckets = [c \in {} |-> 0]
  /\ inserts = 0
  /\ \E a \in Addresses : verdict = [client |-> a, allowed |-> TRUE]

\* A connection: the address it comes from and the entries of its header.  A
\* proxy may append the address of the client, as clientAddr expects, or pass
\* on the header as the client sent it, as the nginx example of SETUP.md does.
Direct(c, h)    == [remote |-> c, header |-> h]
Forwarded(c, h) == [remote |-> Proxy, header |-> Append(h, c)]
PassedOn(h)     == [remote |-> Proxy, header |-> h]

\* Mutant of ClientAddr: the header is trusted whoever sent it.
ClientAddrTrusting(conn) ==
  IF conn.header # <<>> THEN conn.header[1] ELSE conn.remote

\* The rightmost entry when the connection comes from the proxy, and without
\* one the proxy itself.
ClientAddr(conn) ==
  IF conn.remote = Proxy /\ conn.header # <<>>
  THEN conn.header[Len(conn.header)]
  ELSE conn.remote

\* Mutant of Filled: per minute divided by 60 as integers.
FilledAtNoRate(b) == AtMost(Burst, b.tokens)

\* Mutant of Filled: whole tokens only, what is left of the time lost.
FilledInTokens(b) ==
  AtMost(Burst, b.tokens + Cost * ((b.idle * Rate) \div Cost))

Filled(b) == AtMost(Burst, b.tokens + b.idle * Rate)

\* A client's first request finds a full bucket.
Tokens(c) == IF c \in Known THEN Filled(buckets[c]) ELSE Burst

\* Mutant of Spent: a token is taken before it is looked for.
SpentUnseen(n) == n - Cost

Spent(n) == IF n < Cost THEN n ELSE n - Cost

\* Mutant of Idle: dropped a tick too early, with a >= for the >.
IdleEarly == {c \in Known : buckets[c].idle >= BucketIdle}

Idle == {c \in Known : buckets[c].idle > BucketIdle}

\* allow(c).  The bucket looked up is never pruned: it was used just now.
Allow(c) ==
  LET inserted == IF c \in Known THEN inserts
                  ELSE (inserts + 1) % PruneEvery
      pruned == IF c \notin Known /\ inserted = 0 THEN Idle ELSE {}
  IN  /\ buckets' = [d \in {c} \cup (Known \ pruned) |->
                       IF d = c THEN [tokens |-> Spent(Tokens(c)), idle |-> 0]
                                ELSE buckets[d]]
      /\ inserts' = inserted
      /\ verdict' = [client |-> c, allowed |-> Tokens(c) >= Cost]

\* A page, feed or API request of client c that says so: over a connection of
\* its own, or through a proxy that appends its address.
Request(c) ==
  \E h \in Forged : Allow(ClientAddr(Direct(c, h)))
                    \/ Allow(ClientAddr(Forwarded(c, h)))

\* One through a proxy that passes its header on: no telling whose it is.
Unnamed(h) == Allow(ClientAddr(PassedOn(h)))

Tick ==
  /\ buckets' = [c \in Known |->
                   [buckets[c] EXCEPT !.idle = AtMost(MaxIdle, @ + 1)]]
  /\ UNCHANGED <<inserts, verdict>>

Next ==
  \/ Tick
  \/ \E c \in Clients : Request(c)
  \/ \E h \in Forged : Unnamed(h)

Spec == Init /\ [][Next]_vars

-----------------------------------------------------------------------------
Bucket == [tokens : 0..Burst, idle : 0..MaxIdle]

\* The type invariant of the limiter's fields: no bucket overdrawn or above
\* the burst, none for an address that is not a client's or the proxy's.
TypeOK ==
  /\ Known \subseteq Addresses
  /\ buckets \in [Known -> Bucket]
  /\ inserts \in 0..PruneEvery - 1
  /\ verdict \in [client : Addresses, allowed : BOOLEAN]

\* Whoever has kept quiet for the Retry-After of a 429 is served, however
\* many refused requests came before.
RetryIsServed ==
  [][\A c \in Known :
       buckets[c].idle >= RetryAfter /\ c \in Known' /\ buckets'[c].idle = 0
         => verdict' = [client |-> c, allowed |-> TRUE]]_vars

\* A dropped bucket was full, so that dropping it gives nothing away.
PruneHarmless == (BucketIdle + 1) * Rate >= Burst

\* The limiter as seen from an address: a credit that fills all the time.
Credit == INSTANCE TokenBucket WITH
            Clients <- Addresses,
            credit  <- [a \in Addresses |-> Tokens(a)]

\* The limiter answers as the token bucket per address does: lazy refills,
\* pruning and recreated buckets are invisible.
IsTokenBucket == Credit!BucketSpec
=============================================================================
