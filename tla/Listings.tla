------------------------------ MODULE Listings ------------------------------
(***************************************************************************)
(* What SkunkyArt shows of a list of deviations: the visibility rule, the  *)
(* HTML grid or Atom feed of DeviationList, and the navigation bar; and of *)
(* the deviations that a description or a comment embeds.                  *)
(***************************************************************************)
EXTENDS Responses

\* VisibleDeviation: hide-ai first, then the NSFW setting.
Visible(cfg, d) == ~(d.ai /\ cfg.hideai) /\ (d.nsfw => cfg.nsfw)

\* Mutant of Shown: the first hidden deviation ends the list.
ShownUpToHidden(cfg, devs) ==
  {devs[i] : i \in {n \in DOMAIN devs : \A m \in 1..n : Visible(cfg, devs[m])}}

\* The deviations of a list that the instance may show.
Shown(cfg, devs) == {d \in Range(devs) : Visible(cfg, d)}

\* Mutant of LastPage: the page count alone, which is 0 when it is unknown.
LastCounted(pages, p) == pages

\* The window of numbers runs to the last page or the current one.
LastPage(pages, p) == Max({pages, p})

\* Mutant of BarPage: the page as it was asked for.
BarPageAsked(page) == page

\* The page the bar counts from: a missing, zero or negative p is the first.
BarPage(page) == IF page > 1 THEN page ELSE 1

\* The bar under page: previous, up to twelve numbers around it, next.  The
\* current page is a number without a link.
NavBase(page, pages, more) ==
  LET p == BarPage(page)
      first == Max({1, p - 6})
      numbers == {i \in first..LastPage(pages, p) : i <= p + 6 /\ i - first < 12}
  IN  [page |-> p, pages |-> pages, more |-> more, numbers |-> numbers,
       links |-> (numbers \ {p}) \cup (IF p > 1 THEN {p - 1} ELSE {})
                                 \cup (IF more THEN {p + 1} ELSE {})]

\* A paged feed, which DeviationList refuses on the spot.
PagedFeed(q) == q.atom /\ q.page > 1

\* DeviationList's effect on the response where no feed is allowed.
Listed(w, q) == IF PagedFeed(q) THEN ReturnHTTPError(w, 400) ELSE w

\* The deviations embedded in texts (descriptions and comments), each with the
\* format of its text: the editor's document, or the older Draft.js blocks.
\* Markup, the third format, embeds none.
Embeds == [dev : Deviations, format : {"document", "blocks"}]

\* Only the document's renderer asks VisibleDeviation.
Rendered(cfg, text) ==
  {e \in text : e.format = "document" => Visible(cfg, e.dev)}

\* ParseDescription.
Describe(w, cfg, text) ==
  [w EXCEPT !.shows = @ \cup {<<e.dev, e.format>> : e \in Rendered(cfg, text)}]

\* DeviationList where a feed is allowed: it goes out at once, typed only if it
\* has an entry, each entry with its description.
Fed(w, q, cfg, devs, text) ==
  LET shown == Shown(cfg, devs)
      typed == IF shown = {} THEN w ELSE Add(w, "type", "atom")
      described == Describe(typed, cfg, IF shown = {} THEN {} ELSE text)
  IN  IF q.atom /\ ~PagedFeed(q) THEN Show(Write(described, "feed"), shown, "feed")
      ELSE Listed(w, q)

\* The HTML grid the call returns: nothing for a paged feed.
Grid(q, cfg, devs) == IF PagedFeed(q) THEN {} ELSE Shown(cfg, devs)

\* The bar below the grid.
Bar(q, content) ==
  IF PagedFeed(q) THEN {} ELSE {NavBase(q.page, content.pages, content.more)}
=============================================================================
