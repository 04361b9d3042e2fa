# A TLA+ verification of SkunkyArt

SkunkyArt is an alternative frontend to DeviantArt: one Go process that answers
each page, feed and API request by asking DeviantArt, rewriting the answer and,
when it may, keeping it.  Its hard part is not the HTML but the layers between
the client and DeviantArt, which bans an address that asks too often.  This
directory models those layers, checks them with TLC and proves the main results
with TLAPS.  Line numbers below refer to `src/`.

## The system

A request goes through these parts, each a goroutine calling the next:

    client ──> Handler ──> rate limiter ──> page / API code ──> devianter
                              │ 429                                │
                              └ (media) ──> media cache ──> Download
                                                               │
                 http.DefaultTransport = API cache ──> throttle ──> network
                 proxied Download      = API cache ──> own throttle ──> network

| part | code | state | operations | hard because |
|---|---|---|---|---|
| throttle | `app/httpclient.go` 35-103 | `sem`, `mu`, `last`, `waiting` per throttle | `RoundTrip` | every request is concurrent, any may be cancelled at any wait, four early returns |
| API cache | `app/apicache.go` | `entries`, `lru`, `held`, `blockedUntil`, `blockResp`, singleflight group | `get`, `put`, `remove`, `block`, `blockedResponse`, `RoundTrip` | results are read before and used after an upstream call of any length; waiters share one result |
| rate limiter | `app/ratelimit.go`, `app/router.go` 140-144 | `buckets`, `inserts` | `allow`, `prune`, `clientAddr` | lazy refills, buckets that come and go, addresses from headers |
| transport assembly | `app/httpclient.go` 105-181, `app/util.go` `Download` | `baseTransport`, `daCache` | `chain`, `InstallDAThrottle`, `ProxiedTransport` | which state is shared by which requests |
| media cache | `app/cache.go`, `Emojitar` | files, `tempFS` with scores | `loadOrFetchMedia`, `memGet`, `memPut`, `ageMemCache`, `rotateCache` | files are written while others read and a rotation removes them |
| response protocol | `app/router.go`, `app/util.go` 190-271 | status, headers and body of one response | `Handler` and every page | error paths that go on writing, headers set before the outcome |
| pages, JSON API | `app/wrapper.go`, `app/parsers.go`, `app/document.go`, `app/api*.go` | none beyond the request | one function per endpoint | error paths, visibility and pagination rules |
| configuration, startup, command line | `app/config.go`, `app/cli.go`, `main.go` | `CFG` and the globals made of it | `ExecuteConfig`, `addInstance` | order of initialisation, units and overflow |
| instance list | `app/util.go` 64-91 | `instances`, `About` | `RefreshInstances` | decoded over the list before, without a lock while handlers read |
| languages, templates | `app/i18n.go`, `app/util.go` 165-203, `static/` | catalogues, filled once | `T`, `ResolveLang`, `ExecuteTemplate` | fallbacks |

Not all parts share state.  Below the handlers, every request meets the others
in the throttle, the API cache, the limiter's buckets and the media cache: those
modules are about interleavings.  The handlers themselves only read what startup
wrote, so that a response is a function of the request, the settings and what
upstream answers: `Requests` is about error paths and order within one request,
and `Startup` about the writes that come before.

`PROJECT.json` lists the hazards of each part at their lines, with the
properties that cover them or the reason why none does.

What makes each part correct:

* throttle: no path leaks a slot, a count or the lock; at most `max-concurrent`
  calls wait for an answer; starts are `min-interval-ms` apart whoever is
  cancelled; every call returns.
* API cache: map, list and byte count agree and stay in the bound; eviction is
  least recently used; one upstream call per key at a time; nobody waits for a
  call that is over; an expired entry covers for every failure; nobody gets
  another URL's page; backoffs end.
* rate limiter: it answers as a plain token bucket per address would; no window
  of time gives a client, whatever header it sends, more than the burst and what
  the rate brought; `Retry-After` is long enough.
* media cache: a file nobody writes holds a whole image unless its write was cut
  short, and such a file does not stay; a pass leaves nothing expired and no
  more than the cap of what it saw, the oldest going first; a body stays
  in memory as long as its use has earned it, no less and no more.
* response protocol: no failure goes out with a `Cache-Control`; one document per
  response, of its own `Content-Type`, whose status says whether it is an error;
  a page refused for load names the time to come back at, and nothing else does.
* pages and JSON API: what the instance hides is shown nowhere (but for one
  place where the code forgets to ask) and nothing else is lost; navigation bars lead to pages that exist; the language is one that was
  asked for.
* startup: a goroutine starts after what it reads was assigned; the process's own
  requests have the configured agent and timeouts, and those to DeviantArt the
  throttle; it exits or comes to serve; no setting disables the
  throttle or the limiter.
* instance list: the page shows the titles that were published last, and keeps
  them through failing downloads.

## The modules

### DAThrottle: `daThrottle.RoundTrip`

One process per request; `pc` names the statement it is at, and each statement
that touches shared state is one action: the load of `waiting` (`Load`), its
increment (`Enqueue`), the two branches of the first `select` (`AcquireSlot`,
`GiveUpSlot`), `mu.Lock` with the computation made under it (`Lock`), the two
branches of the second `select` (`TimerFires`, `GiveUpPace`), the write of
`last` with `Unlock` (`TakeTurn`), the base call (`Respond`), and the two
deferred functions in the order Go runs them (`Release`, `Leave`).  A context
may end at any moment (`CtxEnds`); a `select` with both branches ready picks
either.  Time is relative: `gap[t]` is the time since throttle `t` wrote
`last`, kept up to `MinInterval` because nothing compares it with more.
`ProxiedTransport` makes a throttle per download, so `Proxied` requests have a
throttle of their own (`Via`), new at each call.

### APIStore and APICache: `apicache.go`

`APIStore` is the store under its mutex: `get` has four exits (`Hit`,
`StaleHit`, `Expire`, `Absent`), `put` is `Put` or `TooLarge`, `remove` is
`Drop`.  An entry is its key, its status, its size and its age; ages stop at
`TTL + Stale`, after which an entry is useless for good.

`APICache` is `cachedTransport.RoundTrip`: callers that look up, check the
backoff, join a flight, and as leader call upstream, record the answer and
finish the flight.  Upstream, which is everything below the cache, answers with
any status or fails (`CallAnswered`, `CallFails`).  `Finish` is the end of
`singleflight`'s `doCall`, under the group's mutex: the call leaves the map and
every waiter gets its result.  The backoff is a countdown, `blockedFor`.

### RateLimiter, TokenBucket, RateMeter: `ratelimit.go`

`RateLimiter` is `allow` with the prune it triggers every `PruneEvery`-th new
bucket (1000 in the code), on the address that `clientAddr` reads off the
connection (`ClientAddr`).  A connection is direct (`Direct`), comes through a
proxy that appends the client's address to the header (`Forwarded`), or through
one that passes the header on as the client sent it, or without one
(`PassedOn`); the client may have sent any header.  The last kind is limited by
the address the client names, or by the proxy's own: nobody is told whose request
it is (`Unnamed`).  Tokens are counted in units: a request takes `Cost`, a tick
brings `Rate`, so that fractions are exact.  The floats of the code round;
that is not modelled.

`TokenBucket` is what an address is promised: a credit that starts full, fills at
the rate whether or not anybody looks, and pays for requests.  `RateLimiter`
implements it with `credit` refined to the tokens the next look would find.

`RateMeter` adds a meter that is not in the code, which counts what one client,
any client, was allowed in a window that may be opened at any moment.  A request
that a proxy does not name counts for the address it is limited by.

### MediaCache: `cache.go` and `Emojitar`

A request looks in memory (`MemGet`, `MemMiss`), reads the file (`ReadFile`,
`FileMiss`), downloads (`Fetch`, `FetchFails`), writes the file as
`os.WriteFile` does, truncating first (`CreateFile`) and then piece by piece at
its own offset (`Write`), and puts the body in memory (`MemPut`).  Any of these
may fail where the code handles it, leaving what was written.  `rotateCache` is
a step for each file it looks at (`RotateStat`) or removes (`RotateRemove`,
`RotateTrim`), beside the requests; a file removed while it is written goes on
being written without a name (`linked`).  `Janitor` is a round of `ageMemCache`,
`Crash` a restart, which loses memory and leaves half-written files.
`damaged` is not in the code: it marks the files whose write was cut short, until
they are removed or written again.  Nor are `asks` and `rounds` of an entry in
memory, which count the hits it had and the rounds of the janitor it outlived since
it was put there; `KeptByUse` relates them.

The module has what the code does not prevent: a request that reads while
another writes serves, and keeps in memory, a short image, and a file cut short
is served until it expires.  With `lifetime` 0 that is for ever, which is why
`DamageExpires` is checked with a lifetime.

### Responses, Listings, Requests: `router.go`, `wrapper.go`, `parsers.go`, `api*.go`

`Responses` is one `http.ResponseWriter`, a record with the headers that are set,
the status and the headers that went out, the kinds of the documents written,
and, beside them, what the reader gets to see (`shows`, `navs`, `lang`).  A status
that allows no body (204, 304) gets none, whatever is written.  Its
operators are the calls a handler makes: `Put`, `Add`, `Del`, `WriteHeader` and
`Write` have the rules of `net/http` (headers set after the status are lost, a
second status is ignored, an untyped body is sniffed), and `ReturnHTTPError`,
`UpstreamError`, `APIError`, `Mature` and `ExecuteTemplate` compose them in the
order of the code, since that order is what can go wrong.

`Listings` is what becomes of a list of deviations: the visibility rule, the grid
or feed of `DeviationList`, which answers a paged feed with a 400 on the spot,
and the arithmetic of `NavBase`.  A description or a comment may embed deviations
(`Embeds`), in the editor's document or in the older Draft.js blocks: `Rendered`
is what `ParseDescription` shows of them, which asks the visibility rule for the
former only.

`Requests` has one action per handler.  A handler is a chain of those operators,
branch by branch, over every answer of DeviantArt (an answer, an error, a request
shed by the throttle, a Go error where devianter returns one as well) and of the
CDN, which may give any final status.  A request keeps what became of it:
whether it was refused for load, by the limiter or by the throttle, and the CDN's
status (`load`, `cdn`; neither is in the code).  Handlers share nothing that they write, so one request at a time loses no
interleaving; `Done` makes way for the next.  `got` is what DeviantArt listed
and is not in the code.

### Startup: `main.go`, `config.go`, `cli.go`, `RefreshInstances`

`pc` is the statement of `main`: the command line argument by argument
(`ParseArg`, `AddInstance`), the three parts of `ExecuteConfig` (`ReadConfig`,
`StartCaches`, `CheckConfig`), the assets, catalogues and templates, the throttle
(`InstallThrottle`), the refresh (`StartRefresh`), the first session
(`Bootstrap`) and the listener (`Router`).  Each may exit where the code does.
A setting is abstracted to what the checks tell apart; the numbers stay numbers.
`writes` counts main's assignments to each global and `Reads` says which of them
a goroutine reads; both are there to state `NoLateWrites`.  `fetches` notes how the
process's own requests went out: to which host, whether `daThrottle.RoundTrip`
paced them or let them pass, whether their transport had the timeouts, and
whether the agent had been assigned.  The session is DeviantArt's and goes through
the default transport; the instance list lies on another host, and behind
`download-proxy` it is fetched through a transport of its own.

Beside main run the hourly log of the API cache, which reads nothing that main
assigns, the session renewal and the refresh, whose download may fail with
or without an answer (`RefreshFails`) and whose decoding goes row by row into
the array that is there (`DecodeRow`), as `json.Unmarshal` does: a field that a
row omits keeps its value, and the length is set at the end.

## The runs

All run with two workers in at most about two minutes each.

| run | instance | shows |
|---|---|---|
| Throttle | 3 requests, 2 slots, interval of 2 ticks, shed above 1 queued | `Accounting`, `InFlightBounded`, `PaceExclusive`, `TurnsSpaced`, and `CallsReturn` under fairness |
| Store | 4 keys, bodies of 0 to 4 bytes, 3 bytes held, entries fresh for 2 ticks | `StoreSound`, `EvictsForRoom` |
| Cache | 3 callers, 2 keys, 1 byte held, bodies of 1 and 2 bytes | `FlightSound`, `Shielded`, `OwnAnswer` |
| CacheLive | 2 callers, 2 keys, backoff of 2 ticks | `AnsweredEventually`, `BackoffEnds` |
| Rate | 2 clients and a proxy, rate 1 1/2 tokens a tick, burst of 2 tokens, dropped after 2 idle ticks, window of 4 | `RetryIsServed`, `SustainedRate`, `IsTokenBucket` |
| Media | 2 requests, 2 keys, bodies of 2 pieces, a cap of 3, no lifetime | `PassDone` for the cap, `OldestGoFirst` |
| MediaLive | 2 requests, 1 key in memory too and asked for up to twice, lifetime of a tick, a restart | `AtRestWhole` and `PassDone` with expiry and restart, `DamageExpires`, `KeptByUse` |
| Requests | 9 settings, lists of up to 2 of the 4 kinds of deviation, texts that embed none or all in both formats, pages -1, 0, 1, 2 and 8, page counts 0, 2 and 20, 10 statuses of the CDN | `FailuresUncached`, `AnsweredOnce`, `RetryAfterSaid`, `TypeFitsBody`, `HiddenStaysHidden`, `VisibleListed`, `BarsLead`, `LanguageAsked` |
| Startup | 7 command lines, 12 config files, lists of 1 and 2 instances | `NoLateWrites`, `OwnRequestsBounded`, `TitlesAsPublished`, and `ComesUp` under fairness |

Why the bounds are enough.  Three requests are one in flight, one at the lock
or in its interval, one at the semaphore: with two slots every pair of waits
meets.  `MaxQueueWait` of 3 with an interval of 2 sheds at a counter of 2, which
three requests reach.  Three callers are a leader, a waiter and a latecomer that
finds the state the two left; two keys are needed for a block or an eviction
that crosses keys.  In Store a new body may push out one, two or three entries,
fit exactly, or not fit at all; with a TTL of 2 an entry in use can outlive
a younger one, so that the list is not in the order of ages.  In Rate two tokens of burst, a rate that is not
a whole token, and a prune at every second new bucket make partial refills and
buckets that come back.  A bucket is dropped when it has been idle for more than
one tick and is full after one and a third, so that one dropped a tick too early
is not.  The window of 4 ticks is long enough for it to be: a client
spends its burst, others make the limiter prune, and the same client comes back,
all within the window (the mutant `IdleEarly` overdraws there).  In Media two requests truncate each other's file
at either piece, and two whole files are one piece too many; ages of 0 and 1
tell which is older.  MediaLive has one key, as passes choose among files in
Media already.  Saturations (`gap` at `MinInterval`, ages at `TTL + Stale`, idle
times at `MaxIdle`, a file's age at its lifetime) lose nothing: the code compares
with nothing above them.  A body in memory is asked for at most twice before
it is dropped or put again (`MaxAsks`), which bounds its score at 4 and the rounds
it stays at 4: none, two and four are all met.

In Requests two deviations are one hidden before one shown and the reverse;
-1 and 0 are the pages that a bar must not count from, 1 has no page before it, 2
has, and from 8 on the window slides: it begins at 2.  A count of 0 is unknown, 2
is the last page reached, or passed by page 8, and 20 is more than the bar shows: from page 8
it would run to 14, and the cut at twelve numbers ends it at 13.  The CDN's
statuses are none (0), 200, another 2xx, one that is a redirect left alone, the
two without a body, 404, the two that tell of load, and one that cannot be sent.
Each setting of visibility meets every handler; the two other
ways to serve media and the states of the catalogues come with one visibility
each, as no branch looks at both.  The header's languages are a plain tag, two
regional ones and one that is not shipped, in every order of two.  In Startup a
config file is good, missing, malformed or wrong in one setting, since the first
wrong one exits; a list grows, shrinks and changes places, and an instance with an
onion address takes the row of one without and the reverse; one file has the API
cache off and a download proxy.

Symmetry over callers, keys, clients or requests is used in Store, Cache, Rate
and Media, which check safety only.

### Fairness

`DAThrottle!Fairness`: goroutines run, the base call ends
(`ResponseHeaderTimeout` and the callers' timeouts bound it) and time passes,
which is weak fairness of each request's `RoundTrip` and of `Tick`.  A slot and
the mutex are only free now and then, so weak fairness would not be enough:
Go serves blocked channel senders in order, and `sync.Mutex` hands over in order
once a waiter has waited a millisecond, which is strong fairness of
`AcquireSlot` and `Lock`.  Nothing makes a client call or go away.

`APICache!Fairness`: goroutines run, upstream calls end, time passes.  Upstream
is free to answer blocks for ever.

`MediaCache!Fairness`: goroutines run, file operations and downloads end, the
janitor and the rotation are loops that come round.  Time passes between two
passes again and again (the rotation sleeps `update-interval` seconds), which is
strong fairness of `Tick`, as it does not tick during a pass.

`Startup!FairSpec`: main's statements run, and so does the decoding once a list
has arrived; the list is published somewhere that answers now and then, as the
refresh asks every hour for as long as it lives, which is weak fairness of
`RefreshGets`.  Nothing makes the session succeed, and nothing keeps a start
from exiting.

### Where documentation and code part

Runs that expect a violation; each states a sentence of the documentation.

| run | says | the code |
|---|---|---|
| ThrottleProxied | minimum gap between two requests to DeviantArt (`SETUP.md:56`) | each proxied download has its own throttle |
| AddInstance | `--add-instance` generates the two files (`cli.go:19`) | it waits for a list that only a goroutine which main starts later downloads |
| About | `About` is the instance list shown in the frontend (`util.go:66`) | a row keeps the addresses of the row decoded there before |

Met while modelling, without a run of their own; where a property touches one, it
names it as an exception or says only what both sides agree on:

* Draft.js blocks (`parsers.go:383-399`) render an embedded deviation, its image,
  author and title, without asking `VisibleDeviation`, which the document's renderer
  does at `document.go:216`: an instance with `nsfw` off shows mature work there,
  although `SETUP.md:72` says `nsfw` is "Show mature content. Default false" and
  `API.md:9-12` that an instance's settings apply to the API as to the pages.
  `parsers.go:93-96` warns of just this, "a second thing to forget".
  `HiddenStaysHidden` excepts the place `"blocks"` and no other.
* `waiting` "counts requests queued for a slot" (`httpclient.go:41`, `:45-49`).
  Its decrement is deferred to the return (`:75`), so requests in their
  interval and in flight count too, and a request may be shed while nobody
  queues for a slot; with `max-concurrent` above 50 at the default interval the
  requests in flight alone are enough.  `Accounting` bounds the counter from
  below by the queue and from above by the requests that have not returned.
* `SETUP.md:18-20`: entries in memory are "dropped once they go a round unused".
  A hit adds two points and a round takes one, so a body stays two rounds for
  every hit it had, however long nobody has asked; `KeptByUse` states that.
* `SETUP.md:46-49`: behind a reverse proxy the client is taken from the rightmost
  `X-Forwarded-For` entry, the one the proxy appended (`ratelimit.go:78-82`).  The
  nginx example of `SETUP.md:114-126` sets no such header: nginx passes on
  what the client sent.  Without a header all clients share the proxy's
  bucket, and with one a client is limited by the address it names.
  `SustainedRate` promises a client its own allowance only where it is named.
* `util.go:230`: a shed request is not an upstream failure, and the client is told
  to come back shortly.  That is so for the pages that end in `skunkyart.Error`;
  the API answers 502 without `Retry-After` (`api_json.go:115`, `api.go:80`), a
  group search is an empty 200 and an avatar a 404.  `SaysWhen` names who says it.
* `cache.go:235` and `:268` put the CDN's status on their error page: a 2xx or 3xx
  other than 200 is an error page in a status that is none, and a 429 or 503
  goes out without `Retry-After`.  `PassedOn` and `RetryAfterSaid` name them.
* `main.go:37-39`: started earlier, the refresh would "escape the throttle".  It
  always does: its host is not DeviantArt's (`util.go:76`), so the throttle
  lets it pass (`httpclient.go:63-66`).  `OwnRequestsBounded` asks it for the
  agent and the timeouts only.
* `SETUP.md:62-66`: only media fetches go through `download-proxy`.  So do the
  instance list and the group search, which use the same `Download`.

* `httpclient.go:58`: a request whose context ends while it waits takes no turn.
  Nothing looks at the context in `mu.Lock`, or when no wait is left, and a
  `select` may prefer the timer.
* `SETUP.md:41`: after a block DeviantArt is left alone for a minute.  Callers
  past the check at `apicache.go:121`, or queued in the throttle, still call.
* `SETUP.md:28`: the same question within the TTL is answered from memory.  A
  caller that missed before the flight ended leads another.
* `SETUP.md:49`: sustained requests per minute.  A bucket is dropped after ten
  idle minutes even if it is not yet full, and comes back full; it takes a burst
  above ten minutes of the rate (see `PruneHarmless` below).
* `SETUP.md:73`: `hide-ai` hides AI work.  The covers of a gallery's folders
  follow the NSFW setting only, a profile's cover is left out when mature and
  shown when it is AI work, which `HiddenStaysHidden` allows by name.
* `API.md:5`: every response is JSON.  The 429 is an HTML page, and so are the
  media errors of `/api/random`, which answers with an empty 200 for a deviation
  without media.
* Failures that may be cached: "templates not parsed" is a 500 with its
  `Cache-Control`; a group search whose page did not load, and a search that
  devianter reports as a Go error, are empty 200s.  The JSON API answers the
  latter with a 502.
* `wrapper.go:221` and `parsers.go:109` answer 400 and go on to render the page
  into the same response; `cache.go:268` sends its error page with a 200 for a
  CDN answer that is no image.  `AnsweredOnce` names these.
* `ResolveLang` ignores the quality values of `Accept-Language`: the order of the
  header decides.  `LanguageAsked` does not judge the choice among named languages.
* The rotation is started at `config.go:206`, before the theme and the API
  cache's lifetimes are checked: a start that is refused may already have removed
  files, by the cache settings that were checked.
* The refresh writes `About` while handlers copy it, without a lock: a handler
  may see a list half decoded.  `TitlesAsPublished` speaks of decoded lists.

## The proofs

`tlapm` checks every step; the theorems hold for all values of the constants
that satisfy the modules' named assumptions.  Those say what `ExecuteConfig`
guarantees (`max-concurrent` and `burst` floored to 1, intervals not negative),
that distinguished values are distinct, that the throttle's set of requests is
finite, that sizes and lifetimes are natural numbers, and that a file has at
least one piece.  `RequestsAssumption` gives the inputs of a request their types:
settings are booleans and one of the three ways to serve media, a listing is a
sequence of deviations, page numbers and counts are integers (`strconv.Atoi`,
any sign), and `Accept-Language` is a sequence of tags.

`DAThrottleProofs`
: `TypeCorrect`, `AccountingHolds`, `ConcurrencyBounded`, `PaceIsExclusive`,
  `TurnsAreSpaced`.  What is inductive is sharper than `Accounting`: `Counts` says of
  `sem` and `waiting` exactly how many requests stand at which statements.  Its
  lemmas say how one request's move changes the cardinality of the set at some
  statements, and it is inductive once joined to the types and to `SlotsBounded` (the semaphore
  never above its capacity), from which the concurrency bound follows as the
  requests in flight are among the slot holders.  `TurnsSpaced` needs
  `PaceWaited`: the holder's timer is what is missing from the gap.  That is
  inductive only because `PaceExclusive` keeps others from rewriting the gap.

`APIStoreProofs`
: `StoreTyped`, `StoreStaysSound`, `EvictsOnlyForRoom`, for any keys, sizes and
  bound.  `StoreSound` with the types and the finiteness of the map is
  inductive: `held` stays natural only because it is the sum of the bodies, which
  needs list and map to agree.  The lemmas are on lists without duplicates
  (removing a key leaves the others in their order) and on what a cut of the list
  leaves; the cut itself exists because all entries gone leaves 0 bytes, and is
  the longest that fits (`MaxIsGreatest`).  Proving `EvictsForRoom` showed its
  first statement false: it said that nothing older than what goes may stay,
  but a `get` moves an entry to the front of the list without making it younger,
  which takes a TTL of two ticks to show.  It now speaks of the order of use.

`APICacheProofs`
: `CacheUsesStore`: whatever the callers do, `entries`, `lru` and `held` take only
  steps of `StoreSpec`, that is, APICache implements its store.  So
  `StoreSoundForCallers` and `CallersEvictForRoom` hold under any interleaving, and
  `CacheTyped` with them.
  `FlightsAreSound`, `CallersAreShielded`, `AnswersAreOwn`.  The inductive
  invariant joins them to `CallInv`, which says what each statement knows: a
  result in hand belongs to the caller's key, an expired entry is a 200 of
  that key, the stored entries are 200s under their own key, and a recorded
  block response has a blocking status.  A waiter gets its leader's result;
  that it is of its own key is `FlightSound`.

`RateLimiterProofs`
: `TypeCorrect`, `RetriesAreServed`, `ImplementsTokenBucket`,
  `RateIsSustained`.  The last two assume `PruneHarmless`: a bucket is full
  by the time it may be dropped, that is, burst at most ten minutes of the rate,
  as in the default configuration.  Without it they fail.
  `RateIsSustained` rests on: what the metered address was granted, with what it
  could still spend, is at most the burst and what the rate brought.  A client that
  is named spends from its own bucket whatever it sends (`OwnBucket`), which is
  what makes the claim one about clients.

`StartupProofs`
: `TypeCorrect`, `OwnRequestsAreBounded`, `TitlesArePublished`, `NothingIsLate`,
  for every set of command lines, files and lists.  The inductive invariant
  says of each statement of main what has started and what is still at its
  default: before `throttle` nothing that fetches runs, after the configuration
  the agents are assigned, before `caches` nothing runs at all, and from `listen` on nothing is assigned.  For the list it says
  that while a row is decoded, the rows before it have their titles and the
  length covers them.

`MediaCacheProofs`
: `Typed`, `StaysByUse`, `RestsWhole`, `TakesOldest`, `PassLeavesFit`, for any
  number of requests, keys and pieces and any number of restarts.  `AtRestWhole` says
  nothing while somebody writes, so it rests on `Covered`: a piece that an
  undamaged file lacks is still ahead of a request that has the file open by its
  name.  A truncation by a second request keeps this, as that request starts at
  the first piece; a failed write or a restart loses it and marks the file.
  `PassInv` says how far a pass is: what it has looked at was kept within the
  lifetime, no older than it was seen, or was rewritten since.  So a
  file taken as it was seen is as old as any: the others are no older than they
  were seen, or new.  What is left fits because the pass ends only once the sum
  over the kept files does, and untouched files are among these.  `StaysByUse` needs
  that the score of a body is what its hits have earned and the rounds not yet used.

`RequestsProofs`
: one theorem for each property of Requests, over all settings, lists of any
  length, page numbers, counts and headers: `ResponsesTyped`, `ErrorsStayUncached`,
  `OneAnswer`, `RetryIsTold`, `TypesFit`, `HiddenIsHidden`, `NothingIsLost`,
  `BarsLeadOn`, `LanguageIsHeard`.  The responses being built in one step, the
  work is in the handlers, not in the induction: a response is followed through
  its handler as one term (`Open`, `Response`), each operator of `Responses` and
  `Listings` has a lemma that says what becomes of it, `RetryRight` keeps track of
  who was told to come back, and the end of every path is
  one of six (`Proper`: refused, answered, empty, templates not parsed, not an
  image, no proxy), from which `Right` and the nine properties follow.  The
  deviations from a plain answer are thus listed in one place.

`FiniteProofs`
: what the others need of finite sets: a set of integers has a greatest and a
  least member, and how a sum over a set changes with it.  These take an
  induction, which is had by descent: the subsets of a finite set are
  well-founded, so that a claim that fails somewhere fails on a smallest set.

Only model-checked are the liveness properties (`CallsReturn`, `AnsweredEventually`,
`BackoffEnds`, `DamageExpires`, `ComesUp`): they rest on fairness, and
the prover has no `ENABLED`.  Every other property that a passing run checks is
a theorem.  The counterexamples of the three runs that expect a violation are
TLC's.

## Left out

In the modelled parts: log lines and statistics counters, response headers and
bodies beyond their size, float rounding, panics inside a base transport.
Requests that a layer passes straight on are not among its requests: other hosts in
DAThrottle (`httpclient.go:64-66`), what is not cacheable in APICache
(`apicache.go:113-115`); they touch no state of it.  In APICache a caller's context is not separate: a leader's cancellation is one
of the ways `CallFails`, and waiters do not watch theirs in the code either.
In MediaCache every download of a key brings the same, non-empty body; a failing
`os.Remove` or `ReadDir`, which the next pass retries, and the paths without a
cache, which keep no state, are left out, and no time passes during a pass.

In Requests a document is its kind: the fields of a page, feed or JSON answer are
left out, as are the Content-Security-Policy, the conditional requests of
`http.ServeContent`.  The notice in place of comments that failed to load is part
of its page.  A template that fails while it executes (`util.go:201`), after part of
the page was sent, machine integers (`strconv.Atoi` saturates, and the bar's p+1
and p+6 would overflow there), and more than one module of folders on a
gallery tab are left out.  In Startup the
arithmetic of `parseLifetime` (a lifetime is empty, good or bad), the prompts of
`addInstance` and the two files it would write after a poll that never ends, and
the country and settings of an instance's row are left out, and a published list
that is empty, null, or of another type than expected after some of its rows.

Not modelled: `T`'s lookup of single strings; HTML, Atom and JSON building and
the parsing of DeviantArt's markup, Draft.js included (formatting, without state
that outlives a request); the external devianter library (seen only through the
transport it calls and the answers it returns); build and packaging.

## Plan

What is left, in this order.

1. `UpstreamChain`: APICache composed with DAThrottle and contexts: a leader's
   cancellation and shedding as its waiters see them.
2. An abstract cache that APICache implements, beyond its store.
3. `parseLifetime` at its machine width, against exact arithmetic.
