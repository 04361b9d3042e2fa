--------------------------- MODULE APICacheProofs ---------------------------
(***************************************************************************)
(* For any number of callers and keys: one upstream call per key, no       *)
(* caller left waiting for a call that has ended, and no caller with a     *)
(* usable expired entry given anything but a 200.                          *)
(***************************************************************************)
EXTENDS APICache, APIStoreProofs

\* The store holds 200s, each under its own key.
EntriesSound ==
  \A k \in Held : k \in Keys /\ entries[k] \in Entry
                    /\ entries[k].key = k /\ entries[k].status = OK

CallsTyped ==
  /\ pc \in [Callers -> Statement]
  /\ want \in [Callers -> Keys \cup {None}]
  /\ old \in [Callers -> Entry \cup {None}]
  /\ got \in [Callers -> Answers \cup {None}]
  /\ answer \in [Callers -> Answers \cup {None}]
  /\ flight \in [Keys -> Callers \cup {None}]

\* What a caller carries is about the key it asked for.
CarriesOwn ==
  \A r \in Callers :
    /\ pc[r] # "idle" => want[r] \in Keys
    /\ pc[r] \in {"idle", "get"} => old[r] = None
    /\ old[r] # None => old[r].key = want[r] /\ old[r].status = OK
    /\ pc[r] \in {"record", "finish", "settle"} =>
         got[r] \in Answers /\ got[r].key = want[r]
    /\ pc[r] = "done" => answer[r] \in Answers

BlockSound ==
  blockResp # None => blockResp \in Answers /\ blockResp.status \in Blocks

CallInv == CallsTyped /\ EntriesSound /\ BlockSound /\ CarriesOwn

BackoffTyped == blockedFor \in 0..BlockBackoff

IInv == CallInv /\ BackoffTyped /\ FlightSound /\ Shielded /\ OwnAnswer

-----------------------------------------------------------------------------
\* No store operation lets anything but a 200 under its own key in.
LEMMA StoreKeepsSound ==
  ASSUME EntriesSound,
         \/ UNCHANGED entries
         \/ \E k \in Keys : Get(k)
         \/ \E k \in Keys, size \in Sizes : Put(k, OK, size)
         \/ StoreTick
  PROVE  EntriesSound'
  <1> USE DEF EntriesSound, Held
  <1>1. CASE UNCHANGED entries
    BY <1>1
  <1>2. ASSUME NEW k \in Keys, Get(k) PROVE EntriesSound'
    BY <1>2 DEF Get, Hit, StaleHit, Expire, Absent, Drop, storeVars
  <1>3. ASSUME NEW k \in Keys, NEW size \in Sizes, Put(k, OK, size)
        PROVE  EntriesSound'
    <2>1. PICK gone : entries' = [j \in {k} \cup (Held \ gone) |->
                       IF j = k THEN [key |-> k, status |-> OK,
                                      size |-> size, age |-> 0]
                                ELSE entries[j]]
      BY <1>3 DEF Put
    <2>2. [key |-> k, status |-> OK, size |-> size, age |-> 0] \in Entry
      BY StoreAssumption DEF Entry, Lifetime
    <2> QED
      BY <2>1, <2>2
  <1>4. CASE StoreTick
    BY <1>4, AgedEntry DEF StoreTick
  <1> QED
    BY <1>1, <1>2, <1>3, <1>4

\* Every step of the callers is a step of the store or leaves it alone: only a
\* lookup, a put and the clock touch it.
LEMMA StoreStepOf == CarriesOwn /\ [Next]_vars => [StoreNext]_storeVars
  <1> SUFFICES ASSUME CarriesOwn, [Next]_vars PROVE [StoreNext]_storeVars
    OBVIOUS
  <1>1. ASSUME NEW r \in Callers, Lookup(r) PROVE StoreNext
    <2>1. want[r] \in Keys
      BY <1>1 DEF Lookup, CarriesOwn
    <2>2. Get(want[r])
      BY <1>1 DEF Lookup, Get
    <2> QED
      BY <2>1, <2>2 DEF StoreNext
  <1>2. ASSUME NEW r \in Callers, RecordPage(r) PROVE StoreNext
    <2>1. got[r].key \in Keys
      BY <1>2 DEF RecordPage, CarriesOwn, Answers
    <2>2. \E size \in Sizes : Put(got[r].key, OK, size) \/ TooLarge(size)
      BY <1>2 DEF RecordPage
    <2> QED
      BY <2>1, <2>2 DEF StoreNext
  <1>3. CASE Tick
    BY <1>3 DEF Tick, StoreNext
  <1>4. ASSUME NEW r \in Callers,
               \/ Arrive(r) \/ Blocked(r) \/ NotBlocked(r) \/ Lead(r)
               \/ Wait(r) \/ Call(r) \/ CallFails(r) \/ CallAnswered(r)
        PROVE  UNCHANGED storeVars
    BY <1>4 DEF Arrive, Blocked, NotBlocked, Lead, Wait, Call, CallFails,
       CallAnswered, storeVars
  <1>5. ASSUME NEW r \in Callers,
               \/ RecordBlock(r) \/ RecordNothing(r) \/ Finish(r)
               \/ Settle(r) \/ Leave(r)
        PROVE  UNCHANGED storeVars
    BY <1>5 DEF RecordBlock, RecordNothing, Finish, Settle, Leave, storeVars
  <1>6. UNCHANGED vars => UNCHANGED storeVars
    BY DEF vars, storeVars
  <1> QED
    BY <1>1, <1>2, <1>3, <1>4, <1>5, <1>6 DEF Next, RoundTrip

\* So what a step of the store keeps, every step of the callers keeps.
LEMMA EntriesStep ==
  EntriesSound /\ CarriesOwn /\ [Next]_vars => EntriesSound'
  <1> SUFFICES ASSUME EntriesSound, CarriesOwn, [Next]_vars PROVE EntriesSound'
    OBVIOUS
  <1>1. [StoreNext]_storeVars
    BY StoreStepOf
  <1>2. \/ UNCHANGED entries
        \/ \E k \in Keys : Get(k)
        \/ \E k \in Keys, size \in Sizes : Put(k, OK, size)
        \/ StoreTick
    BY <1>1 DEF StoreNext, TooLarge, storeVars
  <1> QED
    BY <1>2, StoreKeepsSound

\* The ways out of a lookup, without the store behind them.
LEMMA LookupOutcomes ==
  ASSUME EntriesSound, CarriesOwn, NEW r \in Callers, Lookup(r)
  PROVE  /\ want[r] \in Keys /\ pc[r] = "get"
         /\ UNCHANGED <<want, got, flight, blockedFor, blockResp>>
         /\ \/ /\ Goto(r, "done")
               /\ UNCHANGED old
               /\ \E a \in Answers :
                    /\ a.key = want[r] /\ a.status = OK
                    /\ answer' = [answer EXCEPT ![r] = a]
            \/ /\ Goto(r, "check")
               /\ UNCHANGED answer
               /\ \/ UNCHANGED old
                  \/ \E e \in Entry : /\ e.key = want[r] /\ e.status = OK
                                      /\ old' = [old EXCEPT ![r] = e]
  <1> USE DEF Lookup
  <1>1. want[r] \in Keys
    BY DEF CarriesOwn
  <1>2. CASE Hit(want[r]) /\ Return(r, Answer(entries[want[r]].key,
                                              entries[want[r]].status))
                           /\ UNCHANGED old
    <2>1. entries[want[r]].key = want[r] /\ entries[want[r]].status = OK
      BY <1>2 DEF Hit, EntriesSound
    <2>2. Answer(want[r], OK) \in Answers
      BY <1>1, StoreAssumption DEF Answer, Answers
    <2>3. Answer(want[r], OK).key = want[r] /\ Answer(want[r], OK).status = OK
      BY DEF Answer
    <2> QED
      BY <1>1, <1>2, <2>1, <2>2, <2>3 DEF Return, blockVars
  <1>3. CASE StaleHit(want[r]) /\ Goto(r, "check") /\ UNCHANGED answer
                /\ old' = [old EXCEPT ![r] = entries[want[r]]]
    <2>1. /\ entries[want[r]] \in Entry
          /\ entries[want[r]].key = want[r] /\ entries[want[r]].status = OK
      BY <1>3 DEF StaleHit, EntriesSound
    <2> QED
      BY <1>1, <1>3, <2>1 DEF blockVars
  <1>4. CASE Goto(r, "check") /\ UNCHANGED <<old, answer>>
    BY <1>1, <1>4 DEF blockVars
  <1> QED
    BY <1>2, <1>3, <1>4

\* Every variable of a caller keeps its type.
LEMMA TypesStep ==
  CallsTyped /\ CarriesOwn /\ EntriesSound /\ BlockSound /\ [Next]_vars
    => CallsTyped'
  <1> SUFFICES ASSUME CallsTyped, CarriesOwn, EntriesSound, BlockSound,
                      [Next]_vars
               PROVE  CallsTyped'
    OBVIOUS
  <1> USE CacheAssumption, StoreAssumption, AgedEntry
       DEF CallsTyped, CarriesOwn, Statement, Leading, Goto, BlockSound
  <1>1. ASSUME NEW r \in Callers, Arrive(r) PROVE CallsTyped'
    BY <1>1 DEF Arrive
  <1>2. ASSUME NEW r \in Callers, Lookup(r) PROVE CallsTyped'
    BY <1>2, LookupOutcomes
  <1>3. ASSUME NEW r \in Callers, Blocked(r) PROVE CallsTyped'
    BY <1>3 DEF Blocked, Return, OldAnswer, Answer, Answers, Entry
  <1>4. ASSUME NEW r \in Callers, NotBlocked(r) PROVE CallsTyped'
    BY <1>4 DEF NotBlocked
  <1>5. ASSUME NEW r \in Callers, Lead(r) PROVE CallsTyped'
    BY <1>5 DEF Lead
  <1>6. ASSUME NEW r \in Callers, Wait(r) PROVE CallsTyped'
    BY <1>6 DEF Wait
  <1>7. ASSUME NEW r \in Callers, Call(r) PROVE CallsTyped'
    BY <1>7 DEF Call
  <1>8. ASSUME NEW r \in Callers, CallFails(r) PROVE CallsTyped'
    BY <1>8 DEF CallFails, Answer, Answers
  <1>9. ASSUME NEW r \in Callers, CallAnswered(r) PROVE CallsTyped'
    BY <1>9 DEF CallAnswered, Answer, Answers
  <1>10. ASSUME NEW r \in Callers, RecordPage(r) PROVE CallsTyped'
    BY <1>10 DEF RecordPage
  <1>11. ASSUME NEW r \in Callers, RecordBlock(r) PROVE CallsTyped'
    BY <1>11 DEF RecordBlock
  <1>12. ASSUME NEW r \in Callers, RecordNothing(r) PROVE CallsTyped'
    BY <1>12 DEF RecordNothing
  <1>13. ASSUME NEW r \in Callers, Finish(r) PROVE CallsTyped'
    BY <1>13 DEF Finish, Waiters
  <1>14. ASSUME NEW r \in Callers, Settle(r) PROVE CallsTyped'
    BY <1>14 DEF Settle, Return, OldAnswer, Answer, Answers, Entry
  <1>15. ASSUME NEW r \in Callers, Leave(r) PROVE CallsTyped'
    BY <1>15 DEF Leave
  <1>16. CASE Tick
    BY <1>16 DEF Tick
  <1>17. CASE UNCHANGED vars
    BY <1>17 DEF vars, callVars, blockVars, storeVars
  <1> QED
    BY <1>1, <1>2, <1>3, <1>4, <1>5, <1>6, <1>7, <1>8, <1>9, <1>10, <1>11,
       <1>12, <1>13, <1>14, <1>15, <1>16, <1>17 DEF Next, RoundTrip

\* A caller goes on carrying what belongs to the key it asked for.
LEMMA OwnStep ==
  CallsTyped /\ CarriesOwn /\ EntriesSound /\ BlockSound /\ [Next]_vars
    => CarriesOwn'
  <1> SUFFICES ASSUME CallsTyped, CarriesOwn, EntriesSound, BlockSound,
                      [Next]_vars
               PROVE  CarriesOwn'
    OBVIOUS
  <1> USE CacheAssumption, StoreAssumption, AgedEntry
       DEF CallsTyped, CarriesOwn, Goto, BlockSound
  <1>1. ASSUME NEW r \in Callers, Arrive(r) PROVE CarriesOwn'
    BY <1>1 DEF Arrive
  <1>2. ASSUME NEW r \in Callers, Lookup(r) PROVE CarriesOwn'
    BY <1>2, LookupOutcomes
  <1>3. ASSUME NEW r \in Callers, Blocked(r) PROVE CarriesOwn'
    BY <1>3 DEF Blocked, Return, OldAnswer, Answer, Answers, Entry
  <1>4. ASSUME NEW r \in Callers, NotBlocked(r) PROVE CarriesOwn'
    BY <1>4 DEF NotBlocked
  <1>5. ASSUME NEW r \in Callers, Lead(r) PROVE CarriesOwn'
    BY <1>5 DEF Lead
  <1>6. ASSUME NEW r \in Callers, Wait(r) PROVE CarriesOwn'
    BY <1>6 DEF Wait
  <1>7. ASSUME NEW r \in Callers, Call(r) PROVE CarriesOwn'
    BY <1>7 DEF Call
  <1>8. ASSUME NEW r \in Callers, CallFails(r) PROVE CarriesOwn'
    BY <1>8 DEF CallFails, Answer, Answers
  <1>9. ASSUME NEW r \in Callers, CallAnswered(r) PROVE CarriesOwn'
    BY <1>9 DEF CallAnswered, Answer, Answers
  <1>10. ASSUME NEW r \in Callers, RecordPage(r) PROVE CarriesOwn'
    BY <1>10 DEF RecordPage
  <1>11. ASSUME NEW r \in Callers, RecordBlock(r) PROVE CarriesOwn'
    BY <1>11 DEF RecordBlock
  <1>12. ASSUME NEW r \in Callers, RecordNothing(r) PROVE CarriesOwn'
    BY <1>12 DEF RecordNothing
  <1>13. ASSUME NEW r \in Callers, Finish(r) PROVE CarriesOwn'
    BY <1>13 DEF Finish, Waiters
  <1>14. ASSUME NEW r \in Callers, Settle(r) PROVE CarriesOwn'
    BY <1>14 DEF Settle, Return, OldAnswer, Answer, Answers, Entry
  <1>15. ASSUME NEW r \in Callers, Leave(r) PROVE CarriesOwn'
    BY <1>15 DEF Leave
  <1>16. CASE Tick
    BY <1>16 DEF Tick
  <1>17. CASE UNCHANGED vars
    BY <1>17 DEF vars, callVars, blockVars, storeVars
  <1> QED
    BY <1>1, <1>2, <1>3, <1>4, <1>5, <1>6, <1>7, <1>8, <1>9, <1>10, <1>11,
       <1>12, <1>13, <1>14, <1>15, <1>16, <1>17 DEF Next, RoundTrip

\* A leader stays its flight's leader until it ends it, for its waiters too.
LEMMA FlightStep ==
  CallsTyped /\ CarriesOwn /\ EntriesSound /\ FlightSound /\ [Next]_vars
    => FlightSound'
  <1> SUFFICES ASSUME CallsTyped, CarriesOwn, EntriesSound, FlightSound,
                      [Next]_vars
               PROVE  FlightSound'
    OBVIOUS
  <1> USE CacheAssumption
       DEF CallsTyped, CarriesOwn, FlightSound, Leading, Goto
  <1>1. ASSUME NEW r \in Callers, Arrive(r) PROVE FlightSound'
    BY <1>1 DEF Arrive
  <1>2. ASSUME NEW r \in Callers, Lookup(r) PROVE FlightSound'
    BY <1>2, LookupOutcomes
  <1>3. ASSUME NEW r \in Callers, Blocked(r) PROVE FlightSound'
    BY <1>3 DEF Blocked, Return
  <1>4. ASSUME NEW r \in Callers, NotBlocked(r) PROVE FlightSound'
    BY <1>4 DEF NotBlocked
  <1>5. ASSUME NEW r \in Callers, Lead(r) PROVE FlightSound'
    BY <1>5 DEF Lead
  <1>6. ASSUME NEW r \in Callers, Wait(r) PROVE FlightSound'
    BY <1>6 DEF Wait
  <1>7. ASSUME NEW r \in Callers, Call(r) PROVE FlightSound'
    BY <1>7 DEF Call
  <1>8. ASSUME NEW r \in Callers, CallFails(r) PROVE FlightSound'
    BY <1>8 DEF CallFails
  <1>9. ASSUME NEW r \in Callers, CallAnswered(r) PROVE FlightSound'
    BY <1>9 DEF CallAnswered
  <1>10. ASSUME NEW r \in Callers, RecordPage(r) PROVE FlightSound'
    BY <1>10 DEF RecordPage
  <1>11. ASSUME NEW r \in Callers, RecordBlock(r) PROVE FlightSound'
    BY <1>11 DEF RecordBlock
  <1>12. ASSUME NEW r \in Callers, RecordNothing(r) PROVE FlightSound'
    BY <1>12 DEF RecordNothing
  <1>13. ASSUME NEW r \in Callers, Finish(r) PROVE FlightSound'
    BY <1>13 DEF Finish, Waiters
  <1>14. ASSUME NEW r \in Callers, Settle(r) PROVE FlightSound'
    BY <1>14 DEF Settle, Return
  <1>15. ASSUME NEW r \in Callers, Leave(r) PROVE FlightSound'
    BY <1>15 DEF Leave
  <1>16. CASE Tick
    BY <1>16 DEF Tick
  <1>17. CASE UNCHANGED vars
    BY <1>17 DEF vars, callVars, blockVars, storeVars
  <1> QED
    BY <1>1, <1>2, <1>3, <1>4, <1>5, <1>6, <1>7, <1>8, <1>9, <1>10, <1>11,
       <1>12, <1>13, <1>14, <1>15, <1>16, <1>17 DEF Next, RoundTrip

\* Only a block is ever recorded as the block response.
LEMMA BlockStep ==
  CallsTyped /\ CarriesOwn /\ BlockSound /\ [Next]_vars
    => BlockSound'
  <1> SUFFICES ASSUME CallsTyped, CarriesOwn, BlockSound, [Next]_vars
               PROVE  BlockSound'
    OBVIOUS
  <1> USE CacheAssumption DEF CallsTyped, CarriesOwn, BlockSound
  <1>1. ASSUME NEW r \in Callers,
               Arrive(r) \/ Lookup(r) \/ Blocked(r) \/ NotBlocked(r) \/ Lead(r)
        PROVE  BlockSound'
    BY <1>1 DEF Arrive, blockVars, Lookup, Blocked, NotBlocked, Lead
  <1>2. ASSUME NEW r \in Callers,
               \/ Wait(r) \/ Call(r) \/ CallFails(r)
               \/ CallAnswered(r) \/ RecordPage(r)
        PROVE  BlockSound'
    BY <1>2 DEF Wait, blockVars, Call, CallFails, CallAnswered, RecordPage
  <1>3. ASSUME NEW r \in Callers, RecordBlock(r) PROVE BlockSound'
    BY <1>3 DEF RecordBlock, blockVars
  <1>4. ASSUME NEW r \in Callers,
               RecordNothing(r) \/ Finish(r) \/ Settle(r) \/ Leave(r)
        PROVE  BlockSound'
    BY <1>4 DEF RecordNothing, blockVars, Finish, Settle, Leave
  <1>5. CASE Tick
    BY <1>5 DEF Tick
  <1>6. CASE UNCHANGED vars
    BY <1>6 DEF vars, callVars, blockVars, storeVars
  <1> QED
    BY <1>1, <1>2, <1>3, <1>4, <1>5, <1>6 DEF Next, RoundTrip

\* The backoff runs from BlockBackoff down to 0, whoever is blocked meanwhile.
LEMMA BackoffStep == BackoffTyped /\ [Next]_vars => BackoffTyped'
  <1> SUFFICES ASSUME BackoffTyped, [Next]_vars PROVE BackoffTyped'
    OBVIOUS
  <1> USE CacheAssumption DEF BackoffTyped
  <1>1. ASSUME NEW r \in Callers,
               \/ Arrive(r) \/ Lookup(r) \/ Blocked(r) \/ NotBlocked(r)
               \/ Lead(r) \/ Wait(r) \/ Call(r)
        PROVE  BackoffTyped'
    BY <1>1 DEF Arrive, Lookup, Blocked, NotBlocked, Lead, Wait, Call, blockVars
  <1>2. ASSUME NEW r \in Callers,
               \/ CallFails(r) \/ CallAnswered(r) \/ RecordPage(r)
               \/ RecordNothing(r) \/ Finish(r) \/ Settle(r) \/ Leave(r)
        PROVE  BackoffTyped'
    BY <1>2 DEF CallFails, CallAnswered, RecordPage, RecordNothing, Finish,
       Settle, Leave, blockVars
  <1>3. ASSUME NEW r \in Callers, RecordBlock(r) PROVE BackoffTyped'
    BY <1>3 DEF RecordBlock
  <1>4. CASE Tick
    BY <1>4 DEF Tick
  <1>5. CASE UNCHANGED vars
    BY <1>5 DEF vars, blockVars
  <1> QED
    BY <1>1, <1>2, <1>3, <1>4, <1>5 DEF Next, RoundTrip

\* No step answers a caller that has an expired entry with anything but a 200.
LEMMA ShieldStep == CallInv /\ Shielded /\ [Next]_vars => Shielded'
  <1> SUFFICES ASSUME CallInv, Shielded, [Next]_vars PROVE Shielded'
    OBVIOUS
  <1> USE CacheAssumption, AgedEntry
       DEF CallInv, CallsTyped, CarriesOwn, BlockSound, Goto, Shielded
  <1>1. ASSUME NEW r \in Callers, Arrive(r) PROVE Shielded'
    BY <1>1 DEF Arrive
  <1>2. ASSUME NEW r \in Callers, Lookup(r) PROVE Shielded'
    BY <1>2, LookupOutcomes
  <1>3. ASSUME NEW r \in Callers, Blocked(r) PROVE Shielded'
    BY <1>3 DEF Blocked, Return, OldAnswer, Answer
  <1>4. ASSUME NEW r \in Callers, NotBlocked(r) PROVE Shielded'
    BY <1>4 DEF NotBlocked
  <1>5. ASSUME NEW r \in Callers, Lead(r) PROVE Shielded'
    BY <1>5 DEF Lead
  <1>6. ASSUME NEW r \in Callers, Wait(r) PROVE Shielded'
    BY <1>6 DEF Wait
  <1>7. ASSUME NEW r \in Callers, Call(r) PROVE Shielded'
    BY <1>7 DEF Call
  <1>8. ASSUME NEW r \in Callers, CallFails(r) PROVE Shielded'
    BY <1>8 DEF CallFails
  <1>9. ASSUME NEW r \in Callers, CallAnswered(r) PROVE Shielded'
    BY <1>9 DEF CallAnswered
  <1>10. ASSUME NEW r \in Callers, RecordPage(r) PROVE Shielded'
    BY <1>10 DEF RecordPage
  <1>11. ASSUME NEW r \in Callers, RecordBlock(r) PROVE Shielded'
    BY <1>11 DEF RecordBlock
  <1>12. ASSUME NEW r \in Callers, RecordNothing(r) PROVE Shielded'
    BY <1>12 DEF RecordNothing
  <1>13. ASSUME NEW r \in Callers, Finish(r) PROVE Shielded'
    BY <1>13 DEF Finish, Waiters
  <1>14. ASSUME NEW r \in Callers, Settle(r) PROVE Shielded'
    BY <1>14 DEF Settle, Return, OldAnswer, Answer
  <1>15. ASSUME NEW r \in Callers, Leave(r) PROVE Shielded'
    BY <1>15 DEF Leave
  <1>16. CASE Tick
    BY <1>16 DEF Tick
  <1>17. CASE UNCHANGED vars
    BY <1>17 DEF vars, callVars, blockVars, storeVars
  <1> QED
    BY <1>1, <1>2, <1>3, <1>4, <1>5, <1>6, <1>7, <1>8, <1>9, <1>10, <1>11,
       <1>12, <1>13, <1>14, <1>15, <1>16, <1>17 DEF Next, RoundTrip

\* No step answers a caller with another key's page.
LEMMA OwnAnswerStep == CallInv /\ OwnAnswer /\ [Next]_vars => OwnAnswer'
  <1> SUFFICES ASSUME CallInv, OwnAnswer, [Next]_vars PROVE OwnAnswer'
    OBVIOUS
  <1> USE CacheAssumption, AgedEntry
       DEF CallInv, CallsTyped, CarriesOwn, BlockSound, Goto, OwnAnswer
  <1>1. ASSUME NEW r \in Callers, Arrive(r) PROVE OwnAnswer'
    BY <1>1 DEF Arrive
  <1>2. ASSUME NEW r \in Callers, Lookup(r) PROVE OwnAnswer'
    BY <1>2, LookupOutcomes
  <1>3. ASSUME NEW r \in Callers, Blocked(r) PROVE OwnAnswer'
    BY <1>3 DEF Blocked, Return, OldAnswer, Answer
  <1>4. ASSUME NEW r \in Callers, NotBlocked(r) PROVE OwnAnswer'
    BY <1>4 DEF NotBlocked
  <1>5. ASSUME NEW r \in Callers, Lead(r) PROVE OwnAnswer'
    BY <1>5 DEF Lead
  <1>6. ASSUME NEW r \in Callers, Wait(r) PROVE OwnAnswer'
    BY <1>6 DEF Wait
  <1>7. ASSUME NEW r \in Callers, Call(r) PROVE OwnAnswer'
    BY <1>7 DEF Call
  <1>8. ASSUME NEW r \in Callers, CallFails(r) PROVE OwnAnswer'
    BY <1>8 DEF CallFails
  <1>9. ASSUME NEW r \in Callers, CallAnswered(r) PROVE OwnAnswer'
    BY <1>9 DEF CallAnswered
  <1>10. ASSUME NEW r \in Callers, RecordPage(r) PROVE OwnAnswer'
    BY <1>10 DEF RecordPage
  <1>11. ASSUME NEW r \in Callers, RecordBlock(r) PROVE OwnAnswer'
    BY <1>11 DEF RecordBlock
  <1>12. ASSUME NEW r \in Callers, RecordNothing(r) PROVE OwnAnswer'
    BY <1>12 DEF RecordNothing
  <1>13. ASSUME NEW r \in Callers, Finish(r) PROVE OwnAnswer'
    BY <1>13 DEF Finish, Waiters
  <1>14. ASSUME NEW r \in Callers, Settle(r) PROVE OwnAnswer'
    BY <1>14 DEF Settle, Return, OldAnswer, Answer
  <1>15. ASSUME NEW r \in Callers, Leave(r) PROVE OwnAnswer'
    BY <1>15 DEF Leave
  <1>16. CASE Tick
    BY <1>16 DEF Tick
  <1>17. CASE UNCHANGED vars
    BY <1>17 DEF vars, callVars, blockVars, storeVars
  <1> QED
    BY <1>1, <1>2, <1>3, <1>4, <1>5, <1>6, <1>7, <1>8, <1>9, <1>10, <1>11,
       <1>12, <1>13, <1>14, <1>15, <1>16, <1>17 DEF Next, RoundTrip

\* The inductive invariant holds at first.
LEMMA InvInit == Init => IInv
  BY CacheAssumption, StoreAssumption
     DEF Init, StoreInit, IInv, CallInv, CallsTyped, EntriesSound, BlockSound,
         CarriesOwn, BackoffTyped, FlightSound, Shielded, OwnAnswer, Statement,
         Leading, Held

\* The inductive invariant is preserved, by the lemmas above.
LEMMA InvStep == IInv /\ [Next]_vars => IInv'
  <1> SUFFICES ASSUME IInv, [Next]_vars PROVE IInv'
    OBVIOUS
  <1>1. CallsTyped /\ EntriesSound /\ BlockSound /\ CarriesOwn
    BY DEF IInv, CallInv
  <1>2. CallInv'
    BY <1>1, TypesStep, EntriesStep, OwnStep, BlockStep DEF CallInv
  <1>3. BackoffTyped' /\ FlightSound' /\ Shielded' /\ OwnAnswer'
    BY <1>1, BackoffStep, FlightStep, ShieldStep, OwnAnswerStep DEF IInv
  <1> QED
    BY <1>2, <1>3 DEF IInv

\* One upstream call per key, and no waiter without a call under way.
THEOREM FlightsAreSound == Spec => []FlightSound
  BY InvInit, InvStep, PTL DEF Spec, IInv

\* An expired entry inside its window shields its caller from every failure.
THEOREM CallersAreShielded == Spec => []Shielded
  BY InvInit, InvStep, PTL DEF Spec, IInv

\* Callers are given their own page, or the block page.
THEOREM AnswersAreOwn == Spec => []OwnAnswer
  BY InvInit, InvStep, PTL DEF Spec, IInv

\* The concurrent cache uses its store as the store's specification has it:
\* whatever the callers do, entries, lru and held take only its steps.
THEOREM CacheUsesStore == Spec => StoreSpec
  <1>1. Init => StoreInit
    BY DEF Init
  <1>2. IInv /\ [Next]_vars => [StoreNext]_storeVars
    BY StoreStepOf DEF IInv, CallInv
  <1> QED
    BY <1>1, <1>2, InvInit, InvStep, PTL DEF Spec, StoreSpec

\* So, for any number of callers, the map, the list and the counter agree and
\* stay within maxBytes.
THEOREM StoreSoundForCallers == Spec => []StoreSound
  BY CacheUsesStore, StoreStaysSound, PTL

\* And no caller's page pushes out more than it must, or a younger one first.
THEOREM CallersEvictForRoom == Spec => EvictsForRoom
  BY CacheUsesStore, EvictsOnlyForRoom, PTL

\* Every variable of the cache keeps its type.
THEOREM CacheTyped == Spec => []TypeOK
  <1>1. IInv /\ StoreTypeOK => TypeOK
    BY DEF IInv, CallInv, CallsTyped, BackoffTyped, BlockSound, TypeOK
  <1> QED
    BY <1>1, InvInit, InvStep, CacheUsesStore, StoreTyped, PTL DEF Spec
=============================================================================
