------------------------------ MODULE Requests ------------------------------
(***************************************************************************)
(* The request handlers of SkunkyArt: Handler's dispatch, the pages of     *)
(* wrapper.go, the JSON API and the media routes, each from the request to *)
(* the response it ends with, over everything DeviantArt and the CDN may   *)
(* answer.  One action is one handler; the next request is served once the *)
(* last is done, since handlers share nothing that is written here.        *)
(*                                                                         *)
(* DeviantArt's answer to a call is "ok", "refused" (an error it reports), *)
(* "busy" (shed by the throttle) or, where devianter also returns a Go     *)
(* error, "failed".                                                        *)
(***************************************************************************)
EXTENDS Listings

CONSTANTS
  Instances,  \* settings: nsfw, hideai, media ("direct", "proxy" or "cache"),
              \* language and the catalogues loaded
  Lists,      \* sequences of deviations DeviantArt may list
  Pages,      \* values of p
  Counts,     \* page count and has-more of a listing
  Texts,      \* what the descriptions and comments of a page embed
  Statuses,   \* final statuses of the CDN, 0 for a fetch that never completed
  Accepts     \* Accept-Language headers

ASSUME RequestsAssumption ==
  /\ \A c \in Instances : /\ c.nsfw \in BOOLEAN /\ c.hideai \in BOOLEAN
                          /\ c.media \in {"direct", "proxy", "cache"}
  /\ Lists \subseteq Seq(Deviations)
  /\ Pages \subseteq Int
  /\ \A n \in Counts : n.pages \in Int /\ n.more \in BOOLEAN
  /\ Texts \subseteq SUBSET Embeds
  /\ Statuses \subseteq Nat \ 100..199
  /\ Accepts \subseteq Seq([tag : STRING, main : STRING])

VARIABLES
  cfg,   \* the instance's settings
  q,     \* the request being served, or NoRequest
  got,   \* the deviations DeviantArt listed for it
  w      \* the response

vars == <<cfg, q, got, w>>

Types == {"", "a", "t", "g", "f", "r", "e", "x"}  \* type, "" if absent, "x" any other

\* Beside its parts, a request has what became of it: whether it was refused for
\* load, by the rate limiter ("limited") or by the throttle ("shed"), and the
\* status the CDN gave, 0 if it gave none.
Request(ep, type, atom, page) ==
  [ep |-> ep, type |-> type, atom |-> atom, page |-> page, accept |-> <<>>,
   load |-> "no", cdn |-> 0]

NoRequest == Request("none", "", FALSE, 0)

Plain(ep) == Request(ep, "", FALSE, 0)

\* A request whose call to DeviantArt ended in e.
Told(r, e) == [r EXCEPT !.load = IF e = "busy" THEN "shed" ELSE "no"]

\* Answers of the calls that return devianter's error only, or a Go error too.
Errors == {"refused", "busy"}
Failures == Errors \cup {"failed"}

Init ==
  /\ cfg \in Instances
  /\ q = NoRequest
  /\ got = <<>>
  /\ w = Blank

\* Handler's prologue.
Start == Put(Blank, "cache", "page")

\* The handler's answer to request r, DeviantArt having listed devs.
Reply(r, devs, response) ==
  /\ q' = r
  /\ got' = devs
  /\ w' = Served(response)
  /\ UNCHANGED cfg

Done ==
  /\ q # NoRequest
  /\ q' = NoRequest
  /\ got' = <<>>
  /\ w' = Blank
  /\ UNCHANGED cfg

Page(v, r) == ExecuteTemplate(v, cfg, ResolveLang(cfg, r.accept))

\* A page with the given navigation bars.
PageWith(v, r, bars) == Page([v EXCEPT !.navs = @ \cup bars], r)

-----------------------------------------------------------------------------
(* Refusals and static routes.                                             *)

\* The endpoints the rate limiter counts.
Limited == {"index", "about", "post", "search", "dd", "group_user", "api", "unknown"}

TooMany ==
  \E ep \in Limited :
    Reply([Plain(ep) EXCEPT !.load = "limited"], <<>>,
          ReturnHTTPError(Put(Start, "retry", "60"), 429))

NotFound ==
  \/ \E ep \in {"unknown", "media"} : Reply(Plain(ep), <<>>, ReturnHTTPError(Start, 404))
  \/ Reply(Plain("api"), <<>>, APIError(Put(Start, "type", "json"), 404))

\* The index and about pages, whose data is already in memory.
StaticPage ==
  \E ep \in {"index", "about"}, accept \in Accepts :
    LET r == [Plain(ep) EXCEPT !.accept = accept]
    IN  Reply(r, <<>>, Page(Start, r))

\* Stylesheet, favicon and robots.txt.
Asset ==
  \/ Reply(Plain("stylesheet"), <<>>,
           Write(Add(Put(Start, "cache", "assets"), "type", "css"), "css"))
  \/ Reply(Plain("favicon.ico"), <<>>, Write(Put(Start, "cache", "assets"), "image"))
  \/ Reply(Plain("robots.txt"), <<>>,
           Write(Put(Put(Start, "cache", "assets"), "type", "text"), "plain"))

-----------------------------------------------------------------------------
(* Media.                                                                  *)

\* A fetch from the CDN: its status and its type.
Fetches == [status : Statuses, kind : {"image", "other"}]

\* downloadAndSendMedia, for a URL that is wixmp's or not and may be held.
SendMedia(v, known, held, fetch) ==
  IF ~known THEN ReturnHTTPError(v, 400)
  ELSE CASE cfg.media = "cache" ->
              IF held THEN Write(v, "image")
              ELSE IF fetch.status # 200 \/ fetch.kind # "image"
                   THEN ReturnHTTPError(v, fetch.status)
                   ELSE Write(v, "image")
         [] cfg.media = "proxy" ->
              IF fetch.status # 200 THEN ReturnHTTPError(v, fetch.status)
              ELSE Write(v, fetch.kind)
         [] OTHER -> Write(WriteHeader(Del(v, "cache"), 403), "plain")

\* The request r for a file, with the CDN's status if it is asked for the file.
Fetching(r, known, held, fetch) ==
  IF known /\ (cfg.media = "proxy" \/ (cfg.media = "cache" /\ ~held))
  THEN [r EXCEPT !.cdn = fetch.status] ELSE r

MediaFile ==
  \E named, known, held \in BOOLEAN, fetch \in Fetches :
    LET v == IF named THEN Add(Start, "filename", "given") ELSE Start
    IN  Reply(Fetching(Plain("media"), known, held, fetch), <<>>,
              SendMedia(Put(v, "cache", "media"), known, held, fetch))

\* An avatar or emoticon, held or fetched.
Emojitar ==
  \E type \in Types :
    LET r == Request("media", type, FALSE, 0)
        v == Put(Start, "cache", "assets")
    IN  \/ Reply(r, <<>>, ReturnHTTPError(v, 400))  \* no name, or another type
        \/ /\ type \in {"a", "e"}
           /\ \/ Reply(r, <<>>, Write(v, "image"))
              \/ \E e \in Errors : Reply(Told(r, e), <<>>, ReturnHTTPError(v, 404))

-----------------------------------------------------------------------------
(* Pages.                                                                  *)

\* Comments: a link when they were not asked for, a notice when the call
\* failed (or was shed), else the thread over its bar.
Threads == {"link", "failed", "last", "more"}

ThreadBars(r, thread) ==
  IF thread \in {"last", "more"} THEN {NavBase(r.page, 0, thread = "more")} ELSE {}

\* Deviation for a post that was fetched; text is its description and comments.
Post(r, d, related, thread, text) ==
  IF d.nsfw /\ ~cfg.nsfw THEN Mature(Start)
  ELSE LET v == IF related = <<>> THEN Start ELSE Listed(Start, r)
           x == Show(Describe(v, cfg, text), {d}, "post")
       IN  PageWith(Show(x, Grid(r, cfg, related), "list"), r, ThreadBars(r, thread))

Deviation ==
  \/ Reply(Plain("post"), <<>>, ReturnHTTPError(Start, 400))  \* no id in the name
  \/ \E e \in Errors : Reply(Told(Plain("post"), e), <<>>, UpstreamError(Start, e))
  \/ \E atom \in BOOLEAN, page \in Pages, d \in Deviations, related \in Lists,
        thread \in Threads, text \in Texts :
       LET r == Request("post", "", atom, page)
       IN  Reply(r, related, Post(r, d, related, thread, text))

\* DD: the themed strips, which are not in the feed, and the day's list.
DailyPage(r, strip, devs, text, more) ==
  LET content == [pages |-> 0, more |-> more]
      v == IF strip = <<>> THEN Start ELSE Listed(Start, r)
      x == Fed(v, r, cfg, devs, text)
  IN  IF r.atom THEN x
      ELSE PageWith(Show(x, Grid(r, cfg, strip) \cup Grid(r, cfg, devs), "list"),
                    r, Bar(r, content))

DD ==
  \/ \E e \in Errors : Reply(Told(Plain("dd"), e), <<>>, UpstreamError(Start, e))
  \/ \E atom, more \in BOOLEAN, page \in Pages, strip, devs \in Lists, text \in Texts :
       LET r == Request("dd", "", atom, page)
       IN  /\ Len(strip) <= 1
           /\ Reply(r, IF atom THEN devs ELSE strip \o devs,
                    DailyPage(r, strip, devs, text, more))

\* A page of search results.
Found(r, devs, content) ==
  PageWith(Show(Listed(Start, r), Grid(r, cfg, devs), "list"), r, Bar(r, content))

\* Mutant of BadSearch: the handler goes on after an unknown type.
BadSearchGoesOn(r) == Page(ReturnHTTPError(Start, 400), r)

BadSearch(r) == ReturnHTTPError(Start, 400)

\* Group search is scraped; a page without users, or no page, leaves it empty, a
\* shed request too.
Search ==
  \/ \E type \in Types \ {"a", "t", "g", "f", "r"} :  \* or no query
       LET r == Request("search", type, FALSE, 0) IN Reply(r, <<>>, BadSearch(r))
  \/ \E page \in Pages :
       LET r == Request("search", "r", FALSE, page)
       IN  \/ Reply(r, <<>>, PageWith(Start, r, {NavBase(page, 0, TRUE)}))
           \/ \E e \in Failures : Reply(Told(r, e), <<>>, Page(Start, r))
  \/ \E type \in {"a", "t", "g", "f"}, e \in Errors :
       Reply(Told(Request("search", type, FALSE, 0), e), <<>>, UpstreamError(Start, e))
  \/ \E type \in {"a", "t", "g", "f"}, atom \in BOOLEAN, page \in Pages,
        devs \in Lists, content \in Counts :
       LET r == Request("search", type, atom, page)
       IN  Reply(r, devs, Found(r, devs, content))
  \/ \E type \in {"a", "t", "g", "f"}, atom \in BOOLEAN, page \in Pages :  \* "failed"
       LET r == Request("search", type, atom, page)
       IN  Reply(r, <<>>, Found(r, <<>>, [pages |-> 0, more |-> FALSE]))

\* The about tab: the profile's text, its cover and its comments.  The cover is
\* drawn by gruser.htm, which leaves out mature ones on every instance.
AboutTab(r, cover, thread, text) ==
  PageWith(Show(Describe(Start, cfg, text), {d \in cover : ~d.nsfw}, "cover"),
           r, ThreadBars(r, thread))

\* The folders of a gallery, each drawn with its first deviation.
FolderCovers(folders) ==
  {folders[i] : i \in {n \in DOMAIN folders : folders[n].nsfw => cfg.nsfw}}

\* Gallery or favourites: one folder (or all of them) listed, or the modules of
\* the tab, of which the deviations may be missing.
GalleryTab(r, folders, listed, devs, text, content) ==
  LET v == IF listed THEN Fed(Start, r, cfg, devs, text) ELSE Start
      x == Show(v, FolderCovers(folders), "folder")
  IN  IF r.atom THEN v
      ELSE IF listed
           THEN PageWith(Show(x, Grid(r, cfg, devs), "list"), r, Bar(r, content))
           ELSE Page(x, r)

\* A tab that does not exist is refused, and then rendered all the same.
NoTab(r) ==
  LET v == ReturnHTTPError(Start, 400) IN IF r.atom THEN v ELSE Page(v, r)

\* A page left out, or 0, is the first.
FirstPage(page) == IF page = 0 THEN 1 ELSE page

GRUser ==
  \/ Reply(Plain("group_user"), <<>>, ReturnHTTPError(Start, 400))  \* no query
  \/ \E type \in Types, e \in Errors :  \* the profile, the gallery, the favourites
       Reply(Told(Request("group_user", type, FALSE, 0), e), <<>>,
             UpstreamError(Start, e))
  \/ \E atom \in BOOLEAN, page \in Pages, cover \in {{}} \cup {{d} : d \in Deviations},
        thread \in Threads, text \in Texts :
       LET r == Request("group_user", "a", atom, page)
       IN  Reply(r, <<>>, AboutTab(r, cover, thread, text))
  \/ \E type \in {"g", "f"}, atom, whole, listed \in BOOLEAN, page \in Pages,
        folders, devs \in Lists, text \in Texts, content \in Counts :
       LET r == Request("group_user", type, atom, FirstPage(page))
       IN  /\ Len(folders) <= 1
           /\ whole => listed /\ folders = <<>> /\ content.pages = 0
           /\ ~listed => devs = <<>>
           /\ Reply(r, devs, GalleryTab(r, folders, listed, devs, text, content))
  \/ \E type \in Types \ {"a", "g", "f"}, atom \in BOOLEAN :
       LET r == Request("group_user", type, atom, 0) IN Reply(r, <<>>, NoTab(r))

-----------------------------------------------------------------------------
(* The JSON API.                                                           *)

StartAPI == Put(Start, "type", "json")

\* Every body writeJSON is given can be encoded.
WriteJSON(v) == Write(v, "json")

APIInfo == Reply(Plain("api"), <<>>, WriteJSON(StartAPI))

\* Mutant of ByAPI: the page's listing rule is replaced by the page's NSFW rule.
ByAPIMature(devs) == {d \in Range(devs) : d.nsfw => cfg.nsfw}

\* What the API lists of devs.
ByAPI(devs) == Shown(cfg, devs)

APISearch ==
  \/ Reply(Plain("api"), <<>>, APIError(StartAPI, 400))  \* query, type or usr
  \/ \E e \in Failures : Reply(Told(Plain("api"), e), <<>>, APIError(StartAPI, 502))
  \/ \E type \in {"", "a", "t", "g", "f"}, page \in Pages, devs \in Lists :
       Reply(Request("api", type, FALSE, page), devs,
             Show(WriteJSON(StartAPI), ByAPI(devs), "json"))

APIPost ==
  \/ Reply(Plain("api"), <<>>, APIError(StartAPI, 400))  \* no author or no id
  \/ \E e \in Errors : Reply(Told(Plain("api"), e), <<>>, APIError(StartAPI, 502))
  \/ \E d \in Deviations, text \in Texts :
       Reply(Plain("api"), <<>>,
             IF d.nsfw /\ ~cfg.nsfw THEN APIError(StartAPI, 403)
             ELSE Show(WriteJSON(Describe(StartAPI, cfg, text)), {d}, "post"))

\* Mutant of Untyped: an image goes out as the API's JSON.
UntypedNot(v) == v

\* An image answers in its own type, not in the API's.
Untyped(v) == Del(v, "type")

\* API.sendMedia: nothing at all for a deviation without media.
APISendMedia(v, media, known, held, fetch) ==
  LET x == Add(v, "filename", "artwork")
  IN  IF ~media THEN x
      ELSE IF cfg.media = "direct"
           THEN WriteHeader(Put(x, "location", "artwork"), 302)
           ELSE IF ~known THEN APIError(x, 502)
                ELSE SendMedia(Untyped(x), TRUE, held, fetch)

APIRandom ==
  \/ \E e \in Errors : Reply(Told(Plain("api"), e), <<>>, APIError(StartAPI, 502))
  \/ \E devs \in Lists, media, known, held \in BOOLEAN, fetch \in Fetches :
       LET pool == Shown(cfg, devs)
       IN  IF pool = {} THEN Reply(Plain("api"), devs, APIError(StartAPI, 404))
           ELSE \E d \in pool :
                  Reply(Fetching(Plain("api"), media /\ known, held, fetch), devs,
                        Show(APISendMedia(StartAPI, media, known, held, fetch),
                             IF media THEN {d} ELSE {}, "random"))
-----------------------------------------------------------------------------

Handle ==
  /\ q = NoRequest
  /\ \/ TooMany \/ NotFound \/ StaticPage \/ Asset
     \/ MediaFile \/ Emojitar
     \/ Deviation \/ DD \/ Search \/ GRUser
     \/ APIInfo \/ APISearch \/ APIPost \/ APIRandom

Next == Handle \/ Done

Spec == Init /\ [][Next]_vars

-----------------------------------------------------------------------------
(* Properties of every response.                                           *)

Answered == q # NoRequest

Header == [Fields -> {"none", "page", "assets", "media", "json", "atom", "css", "text",
                      "html", "xml", "image", "other", "5", "60", "artwork", "given"}]

\* Every part of the request and of the response has its type.
TypeOK ==
  /\ cfg \in Instances
  /\ q.type \in Types /\ q.atom \in BOOLEAN /\ q.page \in Int
  /\ got \in Seq(Deviations)
  /\ w.header \in Header /\ w.sent \in Header
  /\ w.status \in {0} \cup 100..599
  /\ w.body \in Seq(Kinds)
  /\ w.shows \subseteq Deviations \X Places
  /\ \A b \in w.navs : b.page \in Nat \ {0} /\ b.links \subseteq Nat \ {0}
  /\ Answered <=> w.status # 0

\* The one 500 that keeps its headers: no templates for the page's language,
\* nor English ones.
NotParsed == w.status = 500 /\ w.body = <<"plain">>

\* Nothing but an answer may be kept by a browser or a proxy: whatever ends in
\* an error goes out without Cache-Control, on every path.  The templates that
\* were never parsed are the exception the code makes.
FailuresUncached ==
  w.sent.cache # "none" /\ ~NotParsed =>
    w.status < 400 /\ \A i \in DOMAIN w.body : w.body[i] \notin {"error", "jsonError"}

\* The handlers that refuse a request and then go on: a profile tab that does
\* not exist, and DeviationList asked for a further page of a feed.
GoesOn ==
  \/ q.ep = "group_user" /\ q.type \notin {"a", "g", "f"}
  \/ q.ep \in {"post", "search", "dd"} /\ PagedFeed(q)

\* The error page in the status of a CDN that did not answer with an error: a
\* 200 that is no image, and every other 2xx or 3xx.
PassedOn == w.body = <<"error">> /\ w.status = q.cdn /\ w.status < 400

\* The notice of an instance that serves no media.
NoProxy == cfg.media = "direct" /\ w.body = <<"plain">> /\ q.ep = "media"

\* A response is one document, and says by its status whether that is an error;
\* the media routes put the CDN's own status on their error page instead.
AnsweredOnce ==
  /\ Len(w.body) > 1 => GoesOn
  /\ w.body # <<>> /\ ~NotParsed /\ ~PassedOn =>
       (w.body[1] \in {"error", "jsonError"} \/ NoProxy <=> w.status >= 400)

\* The refusals for load that go through skunkyart.Error or the rate limiter.  A
\* request shed by the throttle is also answered by the API (502), the group
\* search (an empty 200) and the avatars (404), none of which names a time.
SaysWhen(r) ==
  \/ r.load = "limited"
  \/ /\ r.load = "shed"
     /\ r.ep \in {"post", "dd", "search", "group_user"}
     /\ r.ep = "search" => r.type # "r"

\* A page refused for load says so with a 429 or a 503 and names the time to come
\* back at, and nothing else does; a 429 or 503 without one is the CDN's own.
RetryAfterSaid ==
  Answered => /\ w.sent.retry # "none" <=> SaysWhen(q)
              /\ SaysWhen(q) => w.status \in {429, 503}
              /\ w.status \in {429, 503} => SaysWhen(q) \/ w.status = q.cdn

\* The Content-Type that goes out is that of the document the body begins with.
TypeFitsBody ==
  LET Fit == [page |-> {"html"}, error |-> {"html"}, json |-> {"json"},
              jsonError |-> {"json"}, feed |-> {"atom", "xml"}, image |-> {"image"},
              other |-> {"other"}, css |-> {"css"}, plain |-> {"text"}]
  IN  w.body # <<>> => w.sent.type \in Fit[w.body[1]]

\* What the instance hides is shown nowhere but in the blocks of a Draft.js text,
\* whose renderer does not ask VisibleDeviation: mature work in no other place of
\* any page, feed or API answer, AI work in no list, feed, JSON, random pick or
\* document.  The covers of a gallery's folders follow the NSFW setting only.
HiddenStaysHidden ==
  \A s \in w.shows : s[2] # "blocks" =>
    /\ s[1].nsfw => cfg.nsfw
    /\ s[1].ai /\ cfg.hideai => s[2] \in {"folder", "cover", "post"}

\* Nothing else is lost: a page, feed or API answer lists every deviation
\* DeviantArt listed that the instance may show, whatever stands before it.
VisibleListed ==
  w.status = 200 /\ (q.ep = "api" => w.body = <<"json">>) =>
    \A i \in DOMAIN got :
      LET d == got[i] IN
      (d.nsfw => cfg.nsfw) /\ ~(d.ai /\ cfg.hideai) =>
        \E place \in {"list", "feed", "json"} : <<d, place>> \in w.shows

\* Every bar leads one page back and one on where there is one, never to a page
\* before the first or past the last, and says where the reader is.
BarsLead ==
  \A b \in w.navs :
    /\ b.page \in b.numbers \ b.links
    /\ b.page > 1 => b.page - 1 \in b.links
    /\ b.page < b.pages \/ b.more => b.page + 1 \in b.links
    /\ \A l \in b.links : l >= 1 /\ l <= Max({b.pages, IF b.more THEN b.page + 1 ELSE b.page})

\* A page comes in the instance's language if that one is loaded; left to the
\* browser, in English only if none it names is loaded, and in no other language
\* than one it names.
LanguageAsked ==
  w.lang # "none" =>
    LET named == UNION {{t.tag, t.main} : t \in Range(q.accept)}
    IN  IF cfg.language # "auto"
        THEN cfg.language \in cfg.loaded => w.lang = cfg.language
        ELSE /\ w.lang # DefaultLang => w.lang \in named
             /\ w.lang = DefaultLang /\ DefaultLang \notin named =>
                  named \cap cfg.loaded = {}
=============================================================================
