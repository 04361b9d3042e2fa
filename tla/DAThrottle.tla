----------------------------- MODULE DAThrottle -----------------------------
(***************************************************************************)
(* The throttle in front of DeviantArt: daThrottle.RoundTrip of            *)
(* src/app/httpclient.go.  Every request is a goroutine that walks through *)
(* the function; pc names the statement it is about to execute.            *)
(*                                                                         *)
(*   load  read waiting and decide whether to shed                         *)
(*   add   waiting.Add(1)                                                  *)
(*   slot  select between the semaphore and ctx.Done                       *)
(*   lock  mu.Lock                                                         *)
(*   pace  holding mu, select between the interval's timer and ctx.Done    *)
(*   turn  holding mu, about to write last                                 *)
(*   flight      inside base.RoundTrip                                     *)
(*   release     deferred receive from the semaphore                       *)
(*   leave       deferred waiting.Add(-1)                                  *)
(*                                                                         *)
(* Time is relative.  gap[t] is the time since throttle t last wrote last, *)
(* saturating at MinInterval because the code only compares it with        *)
(* MinInterval; a throttle that never let a request through has gap        *)
(* MinInterval, since last is then the zero time.                          *)
(***************************************************************************)
EXTENDS Integers, FiniteSets

CONSTANTS
  Reqs,           \* request goroutines, each making one call after another
  Proxied,        \* the requests sent through ProxiedTransport
  Shared,         \* the throttle of http.DefaultTransport
  None,           \* no request holds the mutex
  MinInterval,    \* daMinInterval, in ticks
  MaxConcurrent,  \* daMaxConcurrent
  MaxQueueWait    \* maxQueueWait, in ticks

ASSUME ReqsAssumption ==
  /\ IsFiniteSet(Reqs)
  /\ Proxied \subseteq Reqs
  /\ Shared \notin Reqs
  /\ None \notin Reqs

\* ExecuteConfig floors the two tunables: max(.., 0) and max(.., 1).
ASSUME TunablesAssumption ==
  /\ MinInterval \in Nat
  /\ MaxConcurrent \in Nat \ {0}
  /\ MaxQueueWait \in Nat

VARIABLES
  pc,        \* pc[r]: the statement request r is at
  ctxDone,   \* ctxDone[r]: r's context has ended
  waiting,   \* waiting[t]: the atomic counter of throttle t
  sem,       \* sem[t]: tokens in the semaphore channel of t
  mu,        \* mu[t]: the request holding t's mutex, or None
  gap,       \* gap[t]: time since t.last, saturating at MinInterval
  timer,     \* timer[t]: what is left of the holder's interval timer
  sinceTurn  \* time since any throttle last let a request start

vars == <<pc, ctxDone, waiting, sem, mu, gap, timer, sinceTurn>>

Throttles == {Shared} \cup Proxied

\* ProxiedTransport builds a new chain, hence a new daThrottle, for each
\* Download; every other request goes through http.DefaultTransport.
Via(r) == IF r \in Proxied THEN r ELSE Shared

Statements == {"idle", "load", "add", "slot", "lock", "pace", "turn",
               "flight", "release", "leave"}

Goto(r, s) == pc' = [pc EXCEPT ![r] = s]

Init ==
  /\ pc = [r \in Reqs |-> "idle"]
  /\ ctxDone = [r \in Reqs |-> FALSE]
  /\ waiting = [t \in Throttles |-> 0]
  /\ sem = [t \in Throttles |-> 0]
  /\ mu = [t \in Throttles |-> None]
  /\ gap = [t \in Throttles |-> MinInterval]
  /\ timer = [t \in Throttles |-> 0]
  /\ sinceTurn = MinInterval

(***************************************************************************)
(* A new call.  A proxied one starts on a throttle nobody has used.        *)
(***************************************************************************)
Arrive(r) ==
  /\ pc[r] = "idle"
  /\ Goto(r, "load")
  /\ ctxDone' = [ctxDone EXCEPT ![r] = FALSE]
  /\ gap' = IF r \in Proxied THEN [gap EXCEPT ![r] = MinInterval] ELSE gap
  /\ UNCHANGED <<waiting, sem, mu, timer, sinceTurn>>

\* The queue already implies a wait no client will sit through.
TooDeep(t) == waiting[t] * MinInterval > MaxQueueWait

\* errUpstreamBusy, or on to joining the queue.
Load(r) ==
  /\ pc[r] = "load"
  /\ Goto(r, IF TooDeep(Via(r)) THEN "idle" ELSE "add")
  /\ UNCHANGED <<ctxDone, waiting, sem, mu, gap, timer, sinceTurn>>

Enqueue(r) ==
  /\ pc[r] = "add"
  /\ Goto(r, "slot")
  /\ waiting' = [waiting EXCEPT ![Via(r)] = @ + 1]
  /\ UNCHANGED <<ctxDone, sem, mu, gap, timer, sinceTurn>>

\* Mutant of AcquireSlot: the channel is one too large.
AcquireSlotTooMany(r) ==
  /\ pc[r] = "slot"
  /\ sem[Via(r)] <= MaxConcurrent
  /\ Goto(r, "lock")
  /\ sem' = [sem EXCEPT ![Via(r)] = @ + 1]
  /\ UNCHANGED <<ctxDone, waiting, mu, gap, timer, sinceTurn>>

\* When a slot is free and the context has ended as well, select picks
\* either branch: both actions are enabled.
AcquireSlot(r) ==
  /\ pc[r] = "slot"
  /\ sem[Via(r)] < MaxConcurrent
  /\ Goto(r, "lock")
  /\ sem' = [sem EXCEPT ![Via(r)] = @ + 1]
  /\ UNCHANGED <<ctxDone, waiting, mu, gap, timer, sinceTurn>>

GiveUpSlot(r) ==
  /\ pc[r] = "slot"
  /\ ctxDone[r]
  /\ Goto(r, "leave")
  /\ UNCHANGED <<ctxDone, waiting, sem, mu, gap, timer, sinceTurn>>

\* Mutant of Lock: the wait is computed without the mutex.
LockUnheld(r) ==
  LET t == Via(r) IN
  /\ pc[r] = "lock"
  /\ mu' = [mu EXCEPT ![t] = r]
  /\ timer' = [timer EXCEPT ![t] = MinInterval - gap[t]]
  /\ Goto(r, IF gap[t] < MinInterval THEN "pace" ELSE "turn")
  /\ UNCHANGED <<ctxDone, waiting, sem, gap, sinceTurn>>

\* Mutant of Lock: the subtraction is the wrong way round.
LockSwapped(r) ==
  LET t == Via(r) IN
  /\ pc[r] = "lock"
  /\ mu[t] = None
  /\ mu' = [mu EXCEPT ![t] = r]
  /\ timer' = [timer EXCEPT ![t] = gap[t] - MinInterval]
  /\ Goto(r, IF gap[t] < MinInterval THEN "pace" ELSE "turn")
  /\ UNCHANGED <<ctxDone, waiting, sem, gap, sinceTurn>>

\* mu.Lock and the computation of wait, made under it.  Lock does not watch
\* the context, and nothing looks at the context when there is no wait.
Lock(r) ==
  LET t == Via(r) IN
  /\ pc[r] = "lock"
  /\ mu[t] = None
  /\ mu' = [mu EXCEPT ![t] = r]
  /\ timer' = [timer EXCEPT ![t] = MinInterval - gap[t]]
  /\ Goto(r, IF gap[t] < MinInterval THEN "pace" ELSE "turn")
  /\ UNCHANGED <<ctxDone, waiting, sem, gap, sinceTurn>>

TimerFires(r) ==
  /\ pc[r] = "pace"
  /\ timer[Via(r)] = 0
  /\ Goto(r, "turn")
  /\ UNCHANGED <<ctxDone, waiting, sem, mu, gap, timer, sinceTurn>>

\* Mutant of GiveUpPace: the release of the slot is not deferred.
GiveUpPaceWithSlot(r) ==
  /\ pc[r] = "pace"
  /\ ctxDone[r]
  /\ Goto(r, "leave")
  /\ mu' = [mu EXCEPT ![Via(r)] = None]
  /\ timer' = [timer EXCEPT ![Via(r)] = 0]
  /\ UNCHANGED <<ctxDone, waiting, sem, gap, sinceTurn>>

\* Mutant of GiveUpPace: the select falls through to the turn.
GiveUpPaceFallsThrough(r) ==
  /\ pc[r] = "pace"
  /\ ctxDone[r]
  /\ Goto(r, "turn")
  /\ timer' = [timer EXCEPT ![Via(r)] = 0]
  /\ UNCHANGED <<ctxDone, waiting, sem, mu, gap, sinceTurn>>

\* Mutant of GiveUpPace: the early return leaves the mutex locked.
GiveUpPaceLocked(r) ==
  /\ pc[r] = "pace"
  /\ ctxDone[r]
  /\ Goto(r, "release")
  /\ timer' = [timer EXCEPT ![Via(r)] = 0]
  /\ UNCHANGED <<ctxDone, waiting, sem, mu, gap, sinceTurn>>

\* Cancelled during the interval: the timer is stopped, last is left alone.
GiveUpPace(r) ==
  /\ pc[r] = "pace"
  /\ ctxDone[r]
  /\ Goto(r, "release")
  /\ mu' = [mu EXCEPT ![Via(r)] = None]
  /\ timer' = [timer EXCEPT ![Via(r)] = 0]
  /\ UNCHANGED <<ctxDone, waiting, sem, gap, sinceTurn>>

\* last = time.Now(), mu.Unlock, and the call of base.RoundTrip.
TakeTurn(r) ==
  /\ pc[r] = "turn"
  /\ Goto(r, "flight")
  /\ gap' = [gap EXCEPT ![Via(r)] = 0]
  /\ sinceTurn' = 0
  /\ mu' = [mu EXCEPT ![Via(r)] = None]
  /\ timer' = [timer EXCEPT ![Via(r)] = 0]
  /\ UNCHANGED <<ctxDone, waiting, sem>>

\* base.RoundTrip returns: an error, or a response whose body is still open
\* and no longer this function's business.
Respond(r) ==
  /\ pc[r] = "flight"
  /\ Goto(r, "release")
  /\ UNCHANGED <<ctxDone, waiting, sem, mu, gap, timer, sinceTurn>>

Release(r) ==
  /\ pc[r] = "release"
  /\ Goto(r, "leave")
  /\ sem' = [sem EXCEPT ![Via(r)] = @ - 1]
  /\ UNCHANGED <<ctxDone, waiting, mu, gap, timer, sinceTurn>>

Leave(r) ==
  /\ pc[r] = "leave"
  /\ Goto(r, "idle")
  /\ waiting' = [waiting EXCEPT ![Via(r)] = @ - 1]
  /\ UNCHANGED <<ctxDone, sem, mu, gap, timer, sinceTurn>>

\* The client goes away or its timeout strikes, at any point.
CtxEnds(r) ==
  /\ pc[r] # "idle"
  /\ ~ctxDone[r]
  /\ ctxDone' = [ctxDone EXCEPT ![r] = TRUE]
  /\ UNCHANGED <<pc, waiting, sem, mu, gap, timer, sinceTurn>>

Older(n) == IF n < MinInterval THEN n + 1 ELSE MinInterval

Tick ==
  /\ gap' = [t \in Throttles |-> Older(gap[t])]
  /\ timer' = [t \in Throttles |-> IF timer[t] > 0 THEN timer[t] - 1 ELSE 0]
  /\ sinceTurn' = Older(sinceTurn)
  /\ UNCHANGED <<pc, ctxDone, waiting, sem, mu>>

\* What the goroutine of r does once called.
RoundTrip(r) ==
  \/ Load(r) \/ Enqueue(r)
  \/ AcquireSlot(r) \/ GiveUpSlot(r)
  \/ Lock(r) \/ TimerFires(r) \/ GiveUpPace(r)
  \/ TakeTurn(r) \/ Respond(r) \/ Release(r) \/ Leave(r)

Next ==
  \/ \E r \in Reqs : Arrive(r) \/ RoundTrip(r) \/ CtxEnds(r)
  \/ Tick

Spec == Init /\ [][Next]_vars

(***************************************************************************)
(* A goroutine keeps running, a base call ends (ResponseHeaderTimeout and  *)
(* the callers' own timeouts bound it) and time passes: weak fairness.     *)
(* The semaphore and the mutex are only intermittently free; a channel     *)
(* serves its blocked senders in order and sync.Mutex turns to handing     *)
(* over in order after a millisecond: strong fairness for those two.       *)
(* Nothing makes a client call or go away.                                 *)
(***************************************************************************)
Fairness ==
  /\ WF_vars(Tick)
  /\ \A r \in Reqs : /\ WF_vars(RoundTrip(r))
                     /\ SF_vars(AcquireSlot(r))
                     /\ SF_vars(Lock(r))

FairSpec == Spec /\ Fairness

-----------------------------------------------------------------------------
\* The type invariant of RoundTrip's variables and the throttle's fields.
TypeOK ==
  /\ pc \in [Reqs -> Statements]
  /\ ctxDone \in [Reqs -> BOOLEAN]
  /\ waiting \in [Throttles -> Int]
  /\ sem \in [Throttles -> Int]
  /\ mu \in [Throttles -> Reqs \cup {None}]
  /\ gap \in [Throttles -> 0..MinInterval]
  /\ timer \in [Throttles -> 0..MinInterval]
  /\ sinceTurn \in 0..MinInterval

At(t, S) == {r \in Reqs : Via(r) = t /\ pc[r] \in S}

HasSlot == {"lock", "pace", "turn", "flight", "release"}
InQueue == HasSlot \cup {"slot", "leave"}

\* No path out of RoundTrip, the three errors included, leaks a semaphore
\* token: sem is the number of requests between the send and its deferred
\* receive.  Nor does one leak a count: waiting never forgets a request that
\* is queued for a slot, nor counts one that has returned.  What it counts
\* between the two is more than its comment says, "requests queued for a
\* slot": a request stays counted until it returns, in flight and all.
Accounting ==
  \A t \in Throttles :
    /\ sem[t] = Cardinality(At(t, HasSlot))
    /\ Cardinality(At(t, {"slot"})) <= waiting[t]
    /\ waiting[t] <= Cardinality(At(t, InQueue))

\* At most max-concurrent requests of one throttle wait for response headers.
InFlightBounded ==
  \A t \in Throttles : Cardinality(At(t, {"flight"})) <= MaxConcurrent

\* The mutex is held by exactly the request between Lock and Unlock, so the
\* interval one request waits out cannot be overtaken by another's turn.
PaceExclusive ==
  \A r \in Reqs : pc[r] \in {"pace", "turn"} <=> mu[Via(r)] = r

\* last is rewritten only when min-interval has passed since it was written:
\* two turns of one throttle are never closer, whoever is cancelled between.
TurnsSpaced == [][\A t \in Throttles :
                    gap'[t] < gap[t] => gap[t] = MinInterval]_vars

\* Every call returns: no request waits for ever for a slot, for the mutex or
\* for its interval, however many others come and go.
CallsReturn == \A r \in Reqs : pc[r] = "load" ~> pc[r] = "idle"

-----------------------------------------------------------------------------
(* A statement of the documentation that the code does not keep.           *)

\* SETUP.md: min-interval-ms is the minimum gap between two requests to
\* DeviantArt.
GlobalGap == [][sinceTurn' < sinceTurn => sinceTurn = MinInterval]_vars
=============================================================================
