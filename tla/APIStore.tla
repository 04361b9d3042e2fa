------------------------------ MODULE APIStore ------------------------------
(***************************************************************************)
(* The store of the API response cache: entries, lru and held of apiCache  *)
(* in src/app/apicache.go, with get, put and remove.  Each runs under the  *)
(* cache's mutex, so each is one step.                                     *)
(*                                                                         *)
(* An entry's age is the time since put set its expires; it saturates at   *)
(* Lifetime, where the entry is past the stale window for good.  The body  *)
(* is its size.                                                            *)
(***************************************************************************)
EXTENDS Integers, Sequences, SequencesExt

CONSTANTS
  Keys,      \* cache keys: request URLs without csrf_token
  Statuses,  \* classes of upstream status codes
  OK,        \* http.StatusOK
  Sizes,     \* body sizes an upstream response may have
  MaxBytes,  \* maxBytes
  TTL,       \* ttl, in ticks
  Stale      \* stale, in ticks

ASSUME StoreAssumption ==
  /\ Sizes \subseteq Nat
  /\ OK \in Statuses
  /\ MaxBytes \in Nat
  /\ TTL \in Nat
  /\ Stale \in Nat

VARIABLES
  entries,  \* the held entries, by key
  lru,      \* their keys, most recently used first
  held      \* bytes held

storeVars == <<entries, lru, held>>

Lifetime == TTL + Stale

Entry == [key : Keys, status : Statuses, size : Sizes, age : 0..Lifetime]

Held == DOMAIN entries

StoreInit ==
  /\ entries = [k \in {} |-> 0]
  /\ lru = <<>>
  /\ held = 0

Fresh(e)    == e.age < TTL
InWindow(e) == e.age < Lifetime

\* list.Remove of the element of k, which does nothing if q does not hold it.
Without(q, k) ==
  IF k \in ToSet(q) THEN RemoveAt(q, CHOOSE i \in DOMAIN q : q[i] = k) ELSE q

\* Mutant of Drop: remove forgets the map.
DropFromList(k) ==
  /\ lru' = Without(lru, k)
  /\ held' = held - entries[k].size
  /\ UNCHANGED entries

\* Mutant of Drop: remove forgets the list.
DropFromMap(k) ==
  /\ entries' = [j \in Held \ {k} |-> entries[j]]
  /\ held' = held - entries[k].size
  /\ UNCHANGED lru

\* remove.
Drop(k) ==
  /\ entries' = [j \in Held \ {k} |-> entries[j]]
  /\ lru' = Without(lru, k)
  /\ held' = held - entries[k].size

\* The four ways out of get.
Hit(k) ==
  /\ k \in Held
  /\ Fresh(entries[k])
  /\ lru' = <<k>> \o Without(lru, k)
  /\ UNCHANGED <<entries, held>>

StaleHit(k) ==
  /\ k \in Held
  /\ ~Fresh(entries[k]) /\ InWindow(entries[k])
  /\ UNCHANGED storeVars

Expire(k) ==
  /\ k \in Held
  /\ ~InWindow(entries[k])
  /\ Drop(k)

Absent(k) ==
  /\ k \notin Held
  /\ UNCHANGED storeVars

\* The bytes of the entries with keys in S.
BytesOf(S) == SumFunctionOnSet([k \in Held |-> entries[k].size], S)

\* Mutant of Victims: the most recently used go.
VictimsInFront(q, n) == SubSeq(q, 1, Len(q) - n)

\* What goes when n entries of q stay: the least recently used.
Victims(q, n) == SubSeq(q, n + 1, Len(q))

\* put drops the entry it replaces, then entries from the back of lru until
\* the counter says that size more bytes fit.
Put(k, status, size) ==
  LET rest == Without(lru, k)
      counted == IF k \in Held THEN held - entries[k].size ELSE held
      n == Max({i \in 0..Len(rest) :
                  counted - BytesOf(ToSet(Victims(rest, i))) + size <= MaxBytes})
      gone == ToSet(Victims(rest, n))
  IN  /\ size <= MaxBytes
      /\ lru' = <<k>> \o SubSeq(rest, 1, n)
      /\ entries' = [j \in {k} \cup (Held \ gone) |->
                       IF j = k THEN [key |-> k, status |-> status,
                                      size |-> size, age |-> 0]
                                ELSE entries[j]]
      /\ held' = counted - BytesOf(gone) + size

\* A body larger than the whole bound is not stored.
TooLarge(size) ==
  /\ size > MaxBytes
  /\ UNCHANGED storeVars

Aged(e) == [e EXCEPT !.age = IF @ < Lifetime THEN @ + 1 ELSE Lifetime]

StoreTick ==
  /\ entries' = [k \in Held |-> Aged(entries[k])]
  /\ UNCHANGED <<lru, held>>

Get(k) == Hit(k) \/ StaleHit(k) \/ Expire(k) \/ Absent(k)

StoreNext ==
  \/ \E k \in Keys :
       \/ Get(k)
       \/ \E size \in Sizes : Put(k, OK, size) \/ TooLarge(size)
  \/ StoreTick

StoreSpec == StoreInit /\ [][StoreNext]_storeVars

-----------------------------------------------------------------------------
\* The type invariant of the store's three fields.
StoreTypeOK ==
  /\ Held \subseteq Keys
  /\ entries \in [Held -> Entry]
  /\ lru \in Seq(Keys)
  /\ held \in Nat

\* The map, the list and the byte counter tell of the same entries, each once,
\* and these fit the bound: the eviction loop never meets an empty list, on
\* which lru.Back().Value would panic.
StoreSound ==
  /\ ToSet(lru) = Held
  /\ IsInjective(lru)
  /\ \A k \in Held : entries[k].key = k
  /\ held = BytesOf(Held)
  /\ held <= MaxBytes

\* x comes before y in q.
Before(q, x, y) == \E a, b \in DOMAIN q : a < b /\ q[a] = x /\ q[b] = y

\* An entry still worth serving is given up only for room: of what was used
\* less recently only the entry put survives it, and keeping it, with what was
\* used more recently, would not have fitted.
EvictsForRoom ==
  [][LET gone == Held \ Held'
     IN  \A k \in gone : InWindow(entries[k]) =>
           /\ \A j \in Held \ gone : Before(lru, k, j) => lru'[1] = j
           /\ held' + BytesOf({j \in gone : ~Before(lru, k, j)}) > MaxBytes]_storeVars
=============================================================================
