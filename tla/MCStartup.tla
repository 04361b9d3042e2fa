------------------------------ MODULE MCStartup ------------------------------
(* Startup for TLC: every flag, alone and in the orders that matter; a file  *)
(* that is good, missing, malformed or wrong in one setting; lists of one or *)
(* two instances, one of which has an onion address and one has none.        *)
EXTENDS Startup

MCArgLists ==
  {<<>>, <<"-c", "f">>, <<"-c">>, <<"-h">>, <<"-a">>, <<"-c", "-h">>, <<"junk", "-a">>}

MCDefaults ==
  [cache |-> TRUE, proxy |-> TRUE, writable |-> TRUE, lifetime |-> "ok",
   memcache |-> FALSE, theme |-> "auto", apicache |-> "ok", perMinute |-> 60,
   burst |-> 20, interval |-> 400, concurrent |-> 2,
   downloadProxy |-> FALSE]

Variants ==
  {[MCDefaults EXCEPT !.proxy = FALSE], [MCDefaults EXCEPT !.writable = FALSE],
   [MCDefaults EXCEPT !.lifetime = "bad"], [MCDefaults EXCEPT !.theme = "unknown"],
   [MCDefaults EXCEPT !.apicache = "bad"],
   [MCDefaults EXCEPT !.cache = FALSE, !.proxy = FALSE, !.perMinute = 0],
   [MCDefaults EXCEPT !.lifetime = "", !.memcache = TRUE],
   [MCDefaults EXCEPT !.burst = 0, !.concurrent = 0, !.interval = -1],
   [MCDefaults EXCEPT !.apicache = "off", !.downloadProxy = TRUE]}

File(found, parsed, s) == [found |-> found, parsed |-> parsed, settings |-> s]

MCFiles ==
  {File(TRUE, TRUE, s) : s \in Variants \cup {MCDefaults}}
  \cup {File(FALSE, FALSE, MCDefaults), File(TRUE, FALSE, MCDefaults)}

MCLanguages == {"en", "es"}

MCText == {"none", "alice", "alice.onion", "bob"}

alice == [title |-> "alice", onion |-> "alice.onion"]
bob == [title |-> "bob", onion |-> "none"]

MCPublished == {<<alice>>, <<bob>>, <<alice, bob>>, <<bob, alice>>}
=============================================================================
