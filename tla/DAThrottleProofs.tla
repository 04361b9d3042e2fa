-------------------------- MODULE DAThrottleProofs --------------------------
(***************************************************************************)
(* For any number of requests, any limits and any set of proxied           *)
(* downloads: the throttle leaks no token and no count, its concurrency    *)
(* bound holds and two turns of one throttle are min-interval apart.       *)
(***************************************************************************)
EXTENDS DAThrottle, FiniteSetTheorems, TLAPS

\* A request waiting out the interval sleeps until the interval is over, and
\* one past the wait finds it over: nobody else rewrites last meanwhile.
PaceWaited ==
  \A r \in Reqs :
    /\ pc[r] = "pace" => gap[Via(r)] + timer[Via(r)] >= MinInterval
    /\ pc[r] = "turn" => gap[Via(r)] = MinInterval

\* The counters are exact: waiting is the number of requests between the two
\* Adds.  This is what a step preserves; Accounting follows from it.
Counts ==
  \A t \in Throttles : /\ sem[t] = Cardinality(At(t, HasSlot))
                       /\ waiting[t] = Cardinality(At(t, InQueue))

SlotsBounded == \A t \in Throttles : sem[t] <= MaxConcurrent

-----------------------------------------------------------------------------
LEMMA ViaType == \A r \in Reqs : Via(r) \in Throttles
  BY DEF Via, Throttles

LEMMA AtFinite ==
  ASSUME NEW t, NEW S
  PROVE  IsFiniteSet(At(t, S)) /\ Cardinality(At(t, S)) \in Nat
  <1>1. At(t, S) \subseteq Reqs
    BY DEF At
  <1> QED
    BY <1>1, ReqsAssumption, FS_Subset, FS_CardinalityType

\* What a step of one goroutine does to the number of requests in a region of
\* the function: nothing, one more, or one less on its own throttle.
LEMMA CountKept ==
  ASSUME NEW r \in Reqs, NEW s, NEW S, pc \in [Reqs -> Statements],
         Goto(r, s), pc[r] \in S <=> s \in S, NEW t
  PROVE  At(t, S)' = At(t, S)
  BY DEF At, Goto

LEMMA CountUp ==
  ASSUME NEW r \in Reqs, NEW s, NEW S, pc \in [Reqs -> Statements],
         Goto(r, s), pc[r] \notin S, s \in S, NEW t
  PROVE  Cardinality(At(t, S)') =
           IF t = Via(r) THEN Cardinality(At(t, S)) + 1
                         ELSE Cardinality(At(t, S))
  <1>1. CASE t = Via(r)
    <2>1. At(t, S)' = At(t, S) \cup {r}
      BY <1>1 DEF At, Goto
    <2>2. r \notin At(t, S)
      BY DEF At
    <2>3. Cardinality(At(t, S) \cup {r}) = Cardinality(At(t, S)) + 1
      BY <2>2, AtFinite, FS_AddElement
    <2> QED
      BY <1>1, <2>1, <2>3
  <1>2. CASE t # Via(r)
    <2>1. At(t, S)' = At(t, S)
      BY <1>2 DEF At, Goto
    <2> QED
      BY <1>2, <2>1
  <1> QED
    BY <1>1, <1>2

LEMMA CountDown ==
  ASSUME NEW r \in Reqs, NEW s, NEW S, pc \in [Reqs -> Statements],
         Goto(r, s), pc[r] \in S, s \notin S, NEW t
  PROVE  Cardinality(At(t, S)') =
           IF t = Via(r) THEN Cardinality(At(t, S)) - 1
                         ELSE Cardinality(At(t, S))
  <1>1. CASE t = Via(r)
    <2>1. At(t, S)' = At(t, S) \ {r}
      BY <1>1 DEF At, Goto
    <2>2. r \in At(t, S)
      BY <1>1 DEF At
    <2>3. Cardinality(At(t, S) \ {r}) = Cardinality(At(t, S)) - 1
      BY <2>2, AtFinite, FS_RemoveElement
    <2> QED
      BY <1>1, <2>1, <2>3
  <1>2. CASE t # Via(r)
    <2>1. At(t, S)' = At(t, S)
      BY <1>2 DEF At, Goto
    <2> QED
      BY <1>2, <2>1
  <1> QED
    BY <1>1, <1>2

-----------------------------------------------------------------------------
\* The types of RoundTrip's variables are preserved by every step.
LEMMA TypeInit == Init => TypeOK
  BY TunablesAssumption DEF Init, TypeOK, Statements, Throttles

LEMMA TypeStep == TypeOK /\ [Next]_vars => TypeOK'
  <1> USE ReqsAssumption, TunablesAssumption, ViaType
  <1> SUFFICES ASSUME TypeOK, [Next]_vars PROVE TypeOK'
    OBVIOUS
  <1> USE DEF TypeOK, Statements, Goto
  <1>1. ASSUME NEW r \in Reqs, Arrive(r) PROVE TypeOK'
    <2>1. MinInterval \in 0..MinInterval
      OBVIOUS
    <2>2. gap' \in [Throttles -> 0..MinInterval]
      <3>1. CASE r \in Proxied
        BY <1>1, <2>1, <3>1 DEF Arrive
      <3>2. CASE r \notin Proxied
        BY <1>1, <3>2 DEF Arrive
      <3> QED
        BY <3>1, <3>2
    <2> QED
      BY <1>1, <2>2 DEF Arrive
  <1>2. ASSUME NEW r \in Reqs, Load(r) PROVE TypeOK'
    BY <1>2 DEF Load
  <1>3. ASSUME NEW r \in Reqs, Enqueue(r) PROVE TypeOK'
    BY <1>3 DEF Enqueue
  <1>4. ASSUME NEW r \in Reqs, AcquireSlot(r) PROVE TypeOK'
    BY <1>4 DEF AcquireSlot
  <1>5. ASSUME NEW r \in Reqs, GiveUpSlot(r) PROVE TypeOK'
    BY <1>5 DEF GiveUpSlot
  <1>6. ASSUME NEW r \in Reqs, Lock(r) PROVE TypeOK'
    BY <1>6 DEF Lock
  <1>7. ASSUME NEW r \in Reqs, TimerFires(r) PROVE TypeOK'
    BY <1>7 DEF TimerFires
  <1>8. ASSUME NEW r \in Reqs, GiveUpPace(r) PROVE TypeOK'
    BY <1>8 DEF GiveUpPace
  <1>9. ASSUME NEW r \in Reqs, TakeTurn(r) PROVE TypeOK'
    BY <1>9 DEF TakeTurn
  <1>10. ASSUME NEW r \in Reqs, Respond(r) PROVE TypeOK'
    BY <1>10 DEF Respond
  <1>11. ASSUME NEW r \in Reqs, Release(r) PROVE TypeOK'
    BY <1>11 DEF Release
  <1>12. ASSUME NEW r \in Reqs, Leave(r) PROVE TypeOK'
    BY <1>12 DEF Leave
  <1>13. ASSUME NEW r \in Reqs, CtxEnds(r) PROVE TypeOK'
    BY <1>13 DEF CtxEnds
  <1>14. CASE Tick
    BY <1>14 DEF Tick, Older
  <1>15. CASE UNCHANGED vars
    BY <1>15 DEF vars
  <1> QED
    BY <1>1, <1>2, <1>3, <1>4, <1>5, <1>6, <1>7, <1>8, <1>9, <1>10, <1>11,
       <1>12, <1>13, <1>14, <1>15 DEF Next, RoundTrip

THEOREM TypeCorrect == Spec => []TypeOK
  BY TypeInit, TypeStep, PTL DEF Spec

-----------------------------------------------------------------------------
\* The counters and the semaphore's capacity.  Only four steps cross a border of
\* one of the two regions, and each writes the matching counter.
LEMMA CountsInit == Init => Counts /\ SlotsBounded
  <1> SUFFICES ASSUME Init, NEW t \in Throttles
               PROVE  /\ sem[t] = Cardinality(At(t, HasSlot))
                      /\ waiting[t] = Cardinality(At(t, InQueue))
                      /\ sem[t] <= MaxConcurrent
    BY DEF Counts, SlotsBounded
  <1>1. At(t, HasSlot) = {} /\ At(t, InQueue) = {}
    BY DEF Init, At, HasSlot, InQueue
  <1> QED
    BY <1>1, FS_EmptySet, TunablesAssumption DEF Init

LEMMA CountsStep ==
  TypeOK /\ Counts /\ SlotsBounded /\ [Next]_vars
    => (Counts /\ SlotsBounded)'
  <1> SUFFICES ASSUME TypeOK, Counts, SlotsBounded, [Next]_vars
               PROVE  (Counts /\ SlotsBounded)'
    OBVIOUS
  <1> USE ViaType DEF TypeOK, Counts, SlotsBounded
  <1> DEFINE Crosses(s, S, r) == ~(pc[r] \in S <=> s \in S)
  <1>1. ASSUME NEW r \in Reqs, NEW s, Goto(r, s), UNCHANGED <<sem, waiting>>,
               ~Crosses(s, HasSlot, r), ~Crosses(s, InQueue, r)
        PROVE  (Counts /\ SlotsBounded)'
    <2>1. \A t : /\ At(t, HasSlot)' = At(t, HasSlot)
                 /\ At(t, InQueue)' = At(t, InQueue)
      BY <1>1, CountKept
    <2> QED
      BY <1>1, <2>1
  <1>2. ASSUME NEW r \in Reqs, Enqueue(r) PROVE (Counts /\ SlotsBounded)'
    <2>1. \A t : At(t, HasSlot)' = At(t, HasSlot)
      BY <1>2, CountKept DEF Enqueue, HasSlot
    <2>2. \A t : Cardinality(At(t, InQueue)') =
                   IF t = Via(r) THEN Cardinality(At(t, InQueue)) + 1
                                 ELSE Cardinality(At(t, InQueue))
      <3>1. pc[r] \notin InQueue /\ "slot" \in InQueue
        BY <1>2 DEF Enqueue, HasSlot, InQueue
      <3> QED
        BY <1>2, <3>1, CountUp DEF Enqueue
    <2>3. \A t \in Throttles :
            waiting'[t] = IF t = Via(r) THEN waiting[t] + 1 ELSE waiting[t]
      BY <1>2 DEF Enqueue
    <2>4. sem' = sem
      BY <1>2 DEF Enqueue
    <2> QED
      BY <2>1, <2>2, <2>3, <2>4
  <1>3. ASSUME NEW r \in Reqs, AcquireSlot(r)
        PROVE  (Counts /\ SlotsBounded)'
    <2>1. \A t : At(t, InQueue)' = At(t, InQueue)
      BY <1>3, CountKept DEF AcquireSlot, HasSlot, InQueue
    <2>2. \A t : Cardinality(At(t, HasSlot)') =
                   IF t = Via(r) THEN Cardinality(At(t, HasSlot)) + 1
                                 ELSE Cardinality(At(t, HasSlot))
      BY <1>3, CountUp DEF AcquireSlot, HasSlot
    <2> QED
      BY <1>3, <2>1, <2>2, TunablesAssumption DEF AcquireSlot
  <1>4. ASSUME NEW r \in Reqs, Release(r) PROVE (Counts /\ SlotsBounded)'
    <2>1. \A t : At(t, InQueue)' = At(t, InQueue)
      BY <1>4, CountKept DEF Release, HasSlot, InQueue
    <2>2. \A t : Cardinality(At(t, HasSlot)') =
                   IF t = Via(r) THEN Cardinality(At(t, HasSlot)) - 1
                                 ELSE Cardinality(At(t, HasSlot))
      BY <1>4, CountDown DEF Release, HasSlot
    <2> QED
      BY <1>4, <2>1, <2>2, TunablesAssumption DEF Release
  <1>5. ASSUME NEW r \in Reqs, Leave(r) PROVE (Counts /\ SlotsBounded)'
    <2>1. \A t : At(t, HasSlot)' = At(t, HasSlot)
      BY <1>5, CountKept DEF Leave, HasSlot
    <2>2. \A t : Cardinality(At(t, InQueue)') =
                   IF t = Via(r) THEN Cardinality(At(t, InQueue)) - 1
                                 ELSE Cardinality(At(t, InQueue))
      <3>1. Goto(r, "idle") /\ pc[r] = "leave"
        BY <1>5 DEF Leave
      <3>2. "leave" \in InQueue /\ "idle" \notin InQueue
        BY DEF HasSlot, InQueue
      <3> QED
        BY <3>1, <3>2, CountDown
    <2>3. \A t \in Throttles :
            waiting'[t] = IF t = Via(r) THEN waiting[t] - 1 ELSE waiting[t]
      BY <1>5 DEF Leave
    <2>4. sem' = sem
      BY <1>5 DEF Leave
    <2> QED
      BY <2>1, <2>2, <2>3, <2>4
  <1>6. ASSUME NEW r \in Reqs, Arrive(r) \/ Load(r)
        PROVE  (Counts /\ SlotsBounded)'
    BY <1>1, <1>6 DEF Arrive, Load, HasSlot, InQueue
  <1>7. ASSUME NEW r \in Reqs, GiveUpSlot(r) \/ Lock(r) \/ TimerFires(r)
        PROVE  (Counts /\ SlotsBounded)'
    BY <1>1, <1>7 DEF GiveUpSlot, Lock, TimerFires, HasSlot, InQueue
  <1>8. ASSUME NEW r \in Reqs, GiveUpPace(r) \/ TakeTurn(r) \/ Respond(r)
        PROVE  (Counts /\ SlotsBounded)'
    BY <1>1, <1>8 DEF GiveUpPace, TakeTurn, Respond, HasSlot, InQueue
  <1>9. CASE Tick \/ UNCHANGED vars \/ \E r \in Reqs : CtxEnds(r)
    <2>1. UNCHANGED <<pc, sem, waiting>>
      BY <1>9 DEF Tick, CtxEnds, vars
    <2>2. \A t, S : At(t, S)' = At(t, S)
      BY <2>1 DEF At
    <2> QED
      BY <2>1, <2>2
  <1> QED
    BY <1>2, <1>3, <1>4, <1>5, <1>6, <1>7, <1>8, <1>9 DEF Next, RoundTrip

\* A request queued for a slot is one of those between the two Adds.
LEMMA CountsAccount == Counts => Accounting
  <1> SUFFICES ASSUME Counts, NEW t \in Throttles
               PROVE  /\ sem[t] = Cardinality(At(t, HasSlot))
                      /\ Cardinality(At(t, {"slot"})) <= waiting[t]
                      /\ waiting[t] <= Cardinality(At(t, InQueue))
    BY DEF Accounting
  <1>1. At(t, {"slot"}) \in SUBSET At(t, InQueue)
    BY DEF At, InQueue
  <1>2. Cardinality(At(t, {"slot"})) <= Cardinality(At(t, InQueue))
    BY <1>1, AtFinite, FS_Subset
  <1> QED
    BY <1>2, AtFinite DEF Counts

\* Every path out of RoundTrip gives back what it took, and waiting never
\* forgets a request that is queued for a slot.
THEOREM AccountingHolds == Spec => []Accounting
  <1>1. Init => TypeOK /\ Counts /\ SlotsBounded
    BY TypeInit, CountsInit
  <1>2. TypeOK /\ Counts /\ SlotsBounded /\ [Next]_vars
          => (TypeOK /\ Counts /\ SlotsBounded)'
    BY TypeStep, CountsStep
  <1> QED
    BY <1>1, <1>2, CountsAccount, PTL DEF Spec

\* The semaphore has room for max-concurrent tokens and every request inside
\* base.RoundTrip holds one.
THEOREM ConcurrencyBounded == Spec => []InFlightBounded
  <1>1. TypeOK /\ Counts /\ SlotsBounded => InFlightBounded
    <2> SUFFICES ASSUME TypeOK, Counts, SlotsBounded,
                        NEW t \in Throttles
                 PROVE  Cardinality(At(t, {"flight"})) <= MaxConcurrent
      BY DEF InFlightBounded
    <2>1. At(t, {"flight"}) \in SUBSET At(t, HasSlot)
      BY DEF At, HasSlot
    <2>2. Cardinality(At(t, {"flight"})) <= Cardinality(At(t, HasSlot))
      BY <2>1, AtFinite, FS_Subset
    <2>3. Cardinality(At(t, HasSlot)) <= MaxConcurrent
      BY DEF Counts, SlotsBounded
    <2> QED
      BY <2>2, <2>3, AtFinite, TunablesAssumption
  <1>2. Init => TypeOK /\ Counts /\ SlotsBounded
    BY TypeInit, CountsInit
  <1>3. TypeOK /\ Counts /\ SlotsBounded /\ [Next]_vars
          => (TypeOK /\ Counts /\ SlotsBounded)'
    BY TypeStep, CountsStep
  <1> QED
    BY <1>1, <1>2, <1>3, PTL DEF Spec

-----------------------------------------------------------------------------
\* The mutex and the interval.  Whoever is between Lock and Unlock keeps every
\* other request of its throttle out of pace and turn, so nobody can rewrite
\* last under a request that has computed its wait from it.
LEMMA PaceInit == Init => PaceExclusive /\ PaceWaited
  BY ViaType, ReqsAssumption DEF Init, PaceExclusive, PaceWaited

LEMMA ExclusiveStep ==
  TypeOK /\ PaceExclusive /\ [Next]_vars => PaceExclusive'
  <1> SUFFICES ASSUME TypeOK, PaceExclusive, [Next]_vars PROVE PaceExclusive'
    OBVIOUS
  <1> USE ReqsAssumption, ViaType DEF TypeOK, PaceExclusive, Goto
  <1>1. ASSUME NEW r \in Reqs, Lock(r) PROVE PaceExclusive'
    BY <1>1 DEF Lock
  <1>2. ASSUME NEW r \in Reqs, GiveUpPace(r) PROVE PaceExclusive'
    BY <1>2 DEF GiveUpPace
  <1>3. ASSUME NEW r \in Reqs, TakeTurn(r) PROVE PaceExclusive'
    BY <1>3 DEF TakeTurn
  <1>4. ASSUME NEW r \in Reqs,
               Arrive(r) \/ Load(r) \/ Enqueue(r) \/ AcquireSlot(r)
        PROVE  PaceExclusive'
    BY <1>4 DEF Arrive, Load, Enqueue, AcquireSlot
  <1>5. ASSUME NEW r \in Reqs,
               GiveUpSlot(r) \/ TimerFires(r) \/ Respond(r) \/ Release(r)
        PROVE  PaceExclusive'
    BY <1>5 DEF GiveUpSlot, TimerFires, Respond, Release
  <1>6. ASSUME NEW r \in Reqs, Leave(r) \/ CtxEnds(r)
        PROVE  PaceExclusive'
    BY <1>6 DEF Leave, CtxEnds
  <1>7. CASE Tick \/ UNCHANGED vars
    BY <1>7 DEF Tick, vars
  <1> QED
    BY <1>1, <1>2, <1>3, <1>4, <1>5, <1>6, <1>7 DEF Next, RoundTrip

LEMMA WaitedStep ==
  TypeOK /\ PaceExclusive /\ PaceWaited /\ [Next]_vars => PaceWaited'
  <1> SUFFICES ASSUME TypeOK, PaceExclusive, PaceWaited, [Next]_vars
               PROVE  PaceWaited'
    OBVIOUS
  <1> USE ReqsAssumption, TunablesAssumption, ViaType
      DEF TypeOK, PaceExclusive, PaceWaited, Goto
  <1>1. ASSUME NEW r \in Reqs, Lock(r) PROVE PaceWaited'
    BY <1>1 DEF Lock
  <1>2. ASSUME NEW r \in Reqs, GiveUpPace(r) PROVE PaceWaited'
    BY <1>2 DEF GiveUpPace
  <1>3. ASSUME NEW r \in Reqs, TakeTurn(r) PROVE PaceWaited'
    BY <1>3 DEF TakeTurn
  <1>4. ASSUME NEW r \in Reqs, Arrive(r) PROVE PaceWaited'
    BY <1>4 DEF Arrive
  <1>5. ASSUME NEW r \in Reqs, TimerFires(r) PROVE PaceWaited'
    BY <1>5 DEF TimerFires
  <1>6. ASSUME NEW r \in Reqs,
               Load(r) \/ Enqueue(r) \/ AcquireSlot(r) \/ GiveUpSlot(r)
        PROVE  PaceWaited'
    BY <1>6 DEF Load, Enqueue, AcquireSlot, GiveUpSlot
  <1>7. ASSUME NEW r \in Reqs,
               Respond(r) \/ Release(r) \/ Leave(r)
                 \/ CtxEnds(r)
        PROVE  PaceWaited'
    BY <1>7 DEF Respond, Release, Leave, CtxEnds
  <1>8. CASE Tick
    BY <1>8 DEF Tick, Older
  <1>9. CASE UNCHANGED vars
    BY <1>9 DEF vars
  <1> QED
    BY <1>1, <1>2, <1>3, <1>4, <1>5, <1>6, <1>7, <1>8, <1>9
       DEF Next, RoundTrip

\* One request at a time is between mu.Lock and mu.Unlock.
THEOREM PaceIsExclusive == Spec => []PaceExclusive
  <1>1. Init => TypeOK /\ PaceExclusive
    BY TypeInit, PaceInit
  <1>2. TypeOK /\ PaceExclusive /\ [Next]_vars => (TypeOK /\ PaceExclusive)'
    BY TypeStep, ExclusiveStep
  <1> QED
    BY <1>1, <1>2, PTL DEF Spec

\* No two turns of one throttle are closer than min-interval.
THEOREM TurnsAreSpaced == Spec => TurnsSpaced
  <1> DEFINE Inv == TypeOK /\ PaceExclusive /\ PaceWaited
             Spaced == \A t \in Throttles :
                         gap'[t] < gap[t] => gap[t] = MinInterval
  <1>1. Init => Inv
    BY TypeInit, PaceInit
  <1>2. Inv /\ [Next]_vars => Inv'
    BY TypeStep, ExclusiveStep, WaitedStep
  <1>3. Inv /\ [Next]_vars => [Spaced]_vars
    <2> SUFFICES ASSUME Inv, Next, NEW t \in Throttles, gap'[t] < gap[t]
                 PROVE  gap[t] = MinInterval
      OBVIOUS
    <2> USE TunablesAssumption, ViaType DEF TypeOK, PaceWaited
    <2>1. ASSUME NEW r \in Reqs, TakeTurn(r) PROVE gap[t] = MinInterval
      BY <2>1 DEF TakeTurn
    <2>2. ASSUME NEW r \in Reqs, Arrive(r) PROVE FALSE
      BY <2>2 DEF Arrive
    <2>3. CASE Tick
      BY <2>3 DEF Tick, Older
    <2>4. gap' # gap
      OBVIOUS
    <2>5. \/ \E r \in Reqs : TakeTurn(r) \/ Arrive(r)
          \/ Tick
      BY <2>4 DEF Next, RoundTrip, Load, Enqueue, AcquireSlot, GiveUpSlot,
         Lock, TimerFires, GiveUpPace, Respond, Release, Leave, CtxEnds
    <2> QED
      BY <2>1, <2>2, <2>3, <2>5
  <1> QED
    BY <1>1, <1>2, <1>3, PTL DEF Spec, TurnsSpaced
=============================================================================
