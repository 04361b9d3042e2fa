------------------------------ MODULE APICache ------------------------------
(***************************************************************************)
(* cachedTransport.RoundTrip of src/app/apicache.go: concurrent callers in *)
(* front of one store, one singleflight group and one upstream.            *)
(*                                                                         *)
(* Each caller is a goroutine; pc names what it does next.                 *)
(*                                                                         *)
(*   get     look the key up            fetch   leader: call base          *)
(*   check   look at the backoff        upstream  leader: inside base      *)
(*   join    enter flight.Do            record  leader: put or block       *)
(*   wait    wait for the leader        finish  leader: end the flight     *)
(*   settle  pick the answer            done    RoundTrip has returned     *)
(*                                                                         *)
(* Upstream is everything below the cache: the throttle, the transport and *)
(* DeviantArt.  It may answer with any status, or fail, whenever it likes. *)
(***************************************************************************)
EXTENDS APIStore

CONSTANTS
  Callers,       \* goroutines calling RoundTrip
  None,          \* nil
  Failure,       \* an error instead of a response
  Blocks,        \* http.StatusForbidden and http.StatusTooManyRequests
  BlockBackoff   \* blockBackoff, in ticks

\* What RoundTrip returns: a response of some request's key, or a failure.
Answers == [key : Keys, status : Statuses \cup {Failure}]
Answer(k, s) == [key |-> k, status |-> s]

ASSUME CacheAssumption ==
  /\ None \notin Callers \cup Keys \cup Entry \cup Answers
  /\ Blocks \subseteq Statuses \ {OK}
  /\ Failure \notin Statuses
  /\ BlockBackoff \in Nat \ {0}

VARIABLES
  pc,         \* pc[r]: what caller r does next
  want,       \* want[r]: the key r asks for
  old,        \* old[r]: the expired entry get left r with, or None
  got,        \* got[r]: what flight.Do gives r, or None
  answer,     \* answer[r]: what r returns, or None
  flight,     \* flight[k]: the leader of the call for k, or None
  blockedFor, \* what is left of the backoff; 0 once it is over
  blockResp   \* the last block response, or None

callVars  == <<pc, want, old, got, answer, flight>>
blockVars == <<blockedFor, blockResp>>
vars      == <<storeVars, callVars, blockVars>>

Goto(r, s) == pc' = [pc EXCEPT ![r] = s]

Return(r, a) ==
  /\ Goto(r, "done")
  /\ answer' = [answer EXCEPT ![r] = a]

Init ==
  /\ StoreInit
  /\ pc = [r \in Callers |-> "idle"]
  /\ want = [r \in Callers |-> None]
  /\ old = [r \in Callers |-> None]
  /\ got = [r \in Callers |-> None]
  /\ answer = [r \in Callers |-> None]
  /\ flight = [k \in Keys |-> None]
  /\ blockedFor = 0
  /\ blockResp = None

Arrive(r) ==
  /\ pc[r] = "idle"
  /\ Goto(r, "get")
  /\ \E k \in Keys : want' = [want EXCEPT ![r] = k]
  /\ UNCHANGED <<storeVars, old, got, answer, flight, blockVars>>

\* A fresh entry is the answer; an expired one is kept for later.
Lookup(r) ==
  LET k == want[r] IN
  /\ pc[r] = "get"
  /\ \/ /\ Hit(k)
        /\ Return(r, Answer(entries[k].key, entries[k].status))
        /\ UNCHANGED old
     \/ /\ StaleHit(k)
        /\ Goto(r, "check")
        /\ old' = [old EXCEPT ![r] = entries[k]]
        /\ UNCHANGED answer
     \/ /\ Expire(k) \/ Absent(k)
        /\ Goto(r, "check")
        /\ UNCHANGED <<old, answer>>
  /\ UNCHANGED <<want, got, flight, blockVars>>

OldAnswer(r) == Answer(old[r].key, old[r].status)

\* Mutant of Blocked: a caller turned away starts the backoff anew.
BlockedProlongs(r) ==
  /\ pc[r] = "check"
  /\ blockResp # None /\ blockedFor > 0
  /\ Return(r, IF old[r] # None THEN OldAnswer(r) ELSE blockResp)
  /\ blockedFor' = BlockBackoff
  /\ UNCHANGED <<storeVars, want, old, got, flight, blockResp>>

\* During the backoff: the stale entry, or the block response of whichever
\* request was blocked last.
Blocked(r) ==
  /\ pc[r] = "check"
  /\ blockResp # None /\ blockedFor > 0
  /\ Return(r, IF old[r] # None THEN OldAnswer(r) ELSE blockResp)
  /\ UNCHANGED <<storeVars, want, old, got, flight, blockVars>>

NotBlocked(r) ==
  /\ pc[r] = "check"
  /\ blockResp = None \/ blockedFor = 0
  /\ Goto(r, "join")
  /\ UNCHANGED <<storeVars, want, old, got, answer, flight, blockVars>>

\* Mutant of Lead: every miss makes its own call.
LeadAlways(r) ==
  /\ pc[r] = "join"
  /\ flight' = [flight EXCEPT ![want[r]] = r]
  /\ Goto(r, "fetch")
  /\ UNCHANGED <<storeVars, want, old, got, answer, blockVars>>

\* flight.Do: the first caller of a key leads, the others wait for it.
Lead(r) ==
  /\ pc[r] = "join"
  /\ flight[want[r]] = None
  /\ flight' = [flight EXCEPT ![want[r]] = r]
  /\ Goto(r, "fetch")
  /\ UNCHANGED <<storeVars, want, old, got, answer, blockVars>>

Wait(r) ==
  /\ pc[r] = "join"
  /\ flight[want[r]] # None
  /\ Goto(r, "wait")
  /\ UNCHANGED <<storeVars, want, old, got, answer, flight, blockVars>>

Call(r) ==
  /\ pc[r] = "fetch"
  /\ Goto(r, "upstream")
  /\ UNCHANGED <<storeVars, want, old, got, answer, flight, blockVars>>

\* base.RoundTrip fails (queue full, timeout, cancelled leader, network) or
\* the body cannot be read.
CallFails(r) ==
  /\ pc[r] = "upstream"
  /\ Goto(r, "finish")
  /\ got' = [got EXCEPT ![r] = Answer(want[r], Failure)]
  /\ UNCHANGED <<storeVars, want, old, answer, flight, blockVars>>

\* A response, its body read in full.
CallAnswered(r) ==
  /\ pc[r] = "upstream"
  /\ Goto(r, "record")
  /\ \E s \in Statuses : got' = [got EXCEPT ![r] = Answer(want[r], s)]
  /\ UNCHANGED <<storeVars, want, old, answer, flight, blockVars>>

\* The switch on the status: put, block, or neither.
RecordPage(r) ==
  /\ pc[r] = "record"
  /\ got[r].status = OK
  /\ \E size \in Sizes : Put(got[r].key, OK, size) \/ TooLarge(size)
  /\ Goto(r, "finish")
  /\ UNCHANGED <<want, old, got, answer, flight, blockVars>>

\* Mutant of RecordBlock: a block during the backoff extends it.
RecordBlockAdds(r) ==
  /\ pc[r] = "record"
  /\ got[r].status \in Blocks
  /\ blockedFor' = blockedFor + BlockBackoff
  /\ blockResp' = got[r]
  /\ Goto(r, "finish")
  /\ UNCHANGED <<storeVars, want, old, got, answer, flight>>

RecordBlock(r) ==
  /\ pc[r] = "record"
  /\ got[r].status \in Blocks
  /\ blockedFor' = BlockBackoff
  /\ blockResp' = got[r]
  /\ Goto(r, "finish")
  /\ UNCHANGED <<storeVars, want, old, got, answer, flight>>

RecordNothing(r) ==
  /\ pc[r] = "record"
  /\ got[r].status \notin {OK} \cup Blocks
  /\ Goto(r, "finish")
  /\ UNCHANGED <<storeVars, want, old, got, answer, flight, blockVars>>

\* Mutant of Waiters: the group forgets its keys.
WaitersOfAnyKey(k) == {w \in Callers : pc[w] = "wait"}

Waiters(k) == {w \in Callers : pc[w] = "wait" /\ want[w] = k}

\* Mutant of Finish: the call stays in the group's map.
FinishKeepsCall(r) ==
  LET released == {r} \cup Waiters(want[r]) IN
  /\ pc[r] = "finish"
  /\ got' = [w \in Callers |-> IF w \in released THEN got[r] ELSE got[w]]
  /\ pc' = [w \in Callers |-> IF w \in released THEN "settle" ELSE pc[w]]
  /\ UNCHANGED <<storeVars, want, old, answer, flight, blockVars>>

\* doCall's end, under the group's mutex: the call leaves the map and every
\* waiter gets the leader's result.
Finish(r) ==
  LET released == {r} \cup Waiters(want[r]) IN
  /\ pc[r] = "finish"
  /\ flight' = [flight EXCEPT ![want[r]] = None]
  /\ got' = [w \in Callers |-> IF w \in released THEN got[r] ELSE got[w]]
  /\ pc' = [w \in Callers |-> IF w \in released THEN "settle" ELSE pc[w]]
  /\ UNCHANGED <<storeVars, want, old, answer, blockVars>>

\* Mutant of Settle: the expired entry stands in for errors only.
SettleOnError(r) ==
  /\ pc[r] = "settle"
  /\ Return(r, IF got[r].status = Failure /\ old[r] # None
               THEN OldAnswer(r) ELSE got[r])
  /\ UNCHANGED <<storeVars, want, old, got, flight, blockVars>>

\* After an error, or any status but OK, the expired entry is preferred.
Settle(r) ==
  /\ pc[r] = "settle"
  /\ Return(r, IF got[r].status # OK /\ old[r] # None
               THEN OldAnswer(r) ELSE got[r])
  /\ UNCHANGED <<storeVars, want, old, got, flight, blockVars>>

Leave(r) ==
  /\ pc[r] = "done"
  /\ Goto(r, "idle")
  /\ want' = [want EXCEPT ![r] = None]
  /\ old' = [old EXCEPT ![r] = None]
  /\ got' = [got EXCEPT ![r] = None]
  /\ answer' = [answer EXCEPT ![r] = None]
  /\ UNCHANGED <<storeVars, flight, blockVars>>

Tick ==
  /\ StoreTick
  /\ old' = [r \in Callers |-> IF old[r] = None THEN None ELSE Aged(old[r])]
  /\ blockedFor' = IF blockedFor > 0 THEN blockedFor - 1 ELSE 0
  /\ UNCHANGED <<pc, want, got, answer, flight, blockResp>>

RoundTrip(r) ==
  \/ Lookup(r) \/ Blocked(r) \/ NotBlocked(r) \/ Lead(r) \/ Wait(r) \/ Call(r)
  \/ CallFails(r) \/ CallAnswered(r)
  \/ RecordPage(r) \/ RecordBlock(r) \/ RecordNothing(r)
  \/ Finish(r) \/ Settle(r)

Next ==
  \/ \E r \in Callers : Arrive(r) \/ RoundTrip(r) \/ Leave(r)
  \/ Tick

Spec == Init /\ [][Next]_vars

(***************************************************************************)
(* Goroutines run, upstream calls end (the transport's timeouts bound      *)
(* them) and time passes.  Nothing obliges a client to call, nor           *)
(* DeviantArt to answer with anything but blocks.                          *)
(***************************************************************************)
Fairness ==
  /\ \A r \in Callers : WF_vars(RoundTrip(r))
  /\ WF_vars(Tick)

FairSpec == Spec /\ Fairness

-----------------------------------------------------------------------------
Leading   == {"fetch", "upstream", "record", "finish"}
Statement == Leading \cup {"idle", "get", "check", "join", "wait", "settle",
                           "done"}

\* The type invariant of RoundTrip's variables and the cache's fields.
TypeOK ==
  /\ StoreTypeOK
  /\ pc \in [Callers -> Statement]
  /\ want \in [Callers -> Keys \cup {None}]
  /\ old \in [Callers -> Entry \cup {None}]
  /\ got \in [Callers -> Answers \cup {None}]
  /\ answer \in [Callers -> Answers \cup {None}]
  /\ flight \in [Keys -> Callers \cup {None}]
  /\ blockedFor \in 0..BlockBackoff
  /\ blockResp \in Answers \cup {None}

\* However many callers miss on a key, one of them is calling upstream for it,
\* and whoever waits for a key waits for a call that is under way: nobody is
\* left behind when a call ends or fails.
FlightSound ==
  /\ \A r \in Callers : pc[r] \in Leading => flight[want[r]] = r
  /\ \A k \in Keys : flight[k] # None =>
                       pc[flight[k]] \in Leading /\ want[flight[k]] = k
  /\ \A r \in Callers : pc[r] = "wait" => flight[want[r]] # None

\* A caller that found an expired entry inside its window gets a 200 whatever
\* upstream, the backoff and the other callers do: the entry is a fallback
\* from every bad end.
Shielded ==
  \A r \in Callers : pc[r] = "done" /\ old[r] # None => answer[r].status = OK

\* Nobody is handed the page of another URL, though callers share flights and
\* the store; the one response that crosses keys is the block page.
OwnAnswer ==
  \A r \in Callers :
    pc[r] = "done" => answer[r].key = want[r] \/ answer[r].status \in Blocks

\* Every caller is answered: leaders because upstream calls end, waiters
\* because no leader leaves its flight behind.
AnsweredEventually ==
  \A r \in Callers : pc[r] = "get" ~> pc[r] = "done"

\* A backoff always ends, even when DeviantArt answers nothing but blocks:
\* callers turned away by it do not prolong it.
BackoffEnds == []<>(blockedFor = 0)
=============================================================================
