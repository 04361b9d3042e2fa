----------------------------- MODULE TokenBucket -----------------------------
(***************************************************************************)
(* What src/app/ratelimit.go promises a client, without buckets that come  *)
(* and go: every address has a credit that starts full, fills at the       *)
(* configured rate whether or not anybody looks at it, and never exceeds   *)
(* the burst.  A request is allowed exactly when it can be paid for.       *)
(***************************************************************************)
EXTENDS Integers

CONSTANTS
  Clients,  \* client addresses
  Rate,     \* credit gained per tick
  Cost,     \* credit a request takes
  Burst     \* the most credit a client can hold

VARIABLES
  credit,   \* credit[c]: what client c can spend now
  verdict   \* the last answer: the client, and whether it was allowed

bucketVars == <<credit, verdict>>

AtMost(cap, n) == IF n < cap THEN n ELSE cap

BucketInit ==
  /\ credit = [c \in Clients |-> Burst]
  /\ \E c \in Clients : verdict = [client |-> c, allowed |-> TRUE]

Ask(c) ==
  /\ verdict' = [client |-> c, allowed |-> credit[c] >= Cost]
  /\ credit' = [credit EXCEPT ![c] = IF @ >= Cost THEN @ - Cost ELSE @]

Fill ==
  /\ credit' = [c \in Clients |-> AtMost(Burst, credit[c] + Rate)]
  /\ UNCHANGED verdict

BucketNext == Fill \/ \E c \in Clients : Ask(c)

BucketSpec == BucketInit /\ [][BucketNext]_bucketVars
=============================================================================
