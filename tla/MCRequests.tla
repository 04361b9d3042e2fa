----------------------------- MODULE MCRequests -----------------------------
(* Requests for TLC: every visibility setting, the three ways to serve media  *)
(* and a few states of the catalogues; lists of up to two deviations of any   *)
(* kind, and texts that embed none or every kind in either format; pages      *)
(* before and at the first, and one whose bar starts past it; page counts     *)
(* unknown, small, and so large that the bar is cut at its twelve numbers;    *)
(* CDN statuses of every class, two of them without a body.                   *)
EXTENDS Requests

Setting(nsfw, hideai, media, language, loaded) ==
  [nsfw |-> nsfw, hideai |-> hideai, media |-> media, language |-> language,
   loaded |-> loaded]

MCInstances ==
  {Setting(n, a, "proxy", "auto", {"en"}) : n, a \in BOOLEAN}
  \cup {Setting(FALSE, FALSE, m, "auto", {"en", "es"}) : m \in {"direct", "cache"}}
  \cup {Setting(FALSE, FALSE, "proxy", "es", loaded) : loaded \in {{"en"}, {"en", "es"}, {"de"}}}

MCLists == {<<>>} \cup {<<d>> : d \in Deviations}
           \cup {<<d, e>> : d, e \in Deviations}

MCPages == {-1, 0, 1, 2, 8}

MCCounts ==
  {[pages |-> n, more |-> FALSE] : n \in {0, 2, 20}} \cup {[pages |-> 0, more |-> TRUE]}

MCTexts == {{}, Embeds}

MCStatuses == {0, 200, 203, 204, 302, 304, 404, 429, 503, 600}

Tags == {[tag |-> "es", main |-> ""], [tag |-> "es-mx", main |-> "es"],
         [tag |-> "en-gb", main |-> "en"], [tag |-> "fr", main |-> ""]}

MCAccepts == {<<>>} \cup {<<t>> : t \in Tags} \cup {<<t, u>> : t, u \in Tags}
=============================================================================
