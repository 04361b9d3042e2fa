------------------------------ MODULE RateMeter ------------------------------
(***************************************************************************)
(* RateLimiter with a meter beside it: how many requests of one client,    *)
(* any client, were allowed in a window that may be opened at any moment.  *)
(* A request counts for the client that made it or, when the proxy does    *)
(* not say who that was, for the address it is limited by.  The meter is   *)
(* not in the code; it stops when the window is Window ticks long.         *)
(***************************************************************************)
EXTENDS RateLimiter

CONSTANT Window   \* the longest window metered, in ticks

ASSUME WindowAssumption == Window \in Nat

VARIABLES
  metered,  \* the client, or the address, whose requests are counted
  granted,  \* how many of them were allowed in the window
  elapsed   \* length of the window; at Window it is closed

meterVars == <<buckets, inserts, verdict, metered, granted, elapsed>>

MeterInit ==
  /\ Init
  /\ metered \in Addresses
  /\ granted = 0
  /\ elapsed = 0

\* The answer just given was for a.
Count(a) ==
  /\ granted' = IF a = metered /\ verdict'.allowed /\ elapsed < Window
                THEN granted + 1 ELSE granted
  /\ UNCHANGED <<metered, elapsed>>

MeteredRequest(c) == Request(c) /\ Count(c)

MeteredUnnamed(h) == Unnamed(h) /\ Count(verdict'.client)

MeteredTick ==
  /\ Tick
  /\ elapsed' = AtMost(Window, elapsed + 1)
  /\ UNCHANGED <<metered, granted>>

Open ==
  /\ metered' \in Addresses
  /\ granted' = 0
  /\ elapsed' = 0
  /\ UNCHANGED vars

MeterNext ==
  \/ MeteredTick
  \/ Open
  \/ \E c \in Clients : MeteredRequest(c)
  \/ \E h \in Forged : MeteredUnnamed(h)

MeterSpec == MeterInit /\ [][MeterNext]_meterVars

-----------------------------------------------------------------------------
\* Over any stretch of time a client is allowed its burst and what the rate
\* brought meanwhile, never more, whatever headers it sends: pruning does not
\* refill anybody early.  Clients behind a proxy that does not name them have
\* one allowance between them, or that of the address their header names.
SustainedRate == granted * Cost <= Burst + elapsed * Rate
=============================================================================
