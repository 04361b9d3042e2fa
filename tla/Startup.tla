------------------------------- MODULE Startup -------------------------------
(***************************************************************************)
(* The start of the SkunkyArt process: main's statements in order, the     *)
(* command line and --add-instance, the configuration, the assets, and the *)
(* goroutines main starts beside it, until the listener serves or the      *)
(* process exits.  RefreshInstances goes on for as long as the process     *)
(* lives.                                                                  *)
(*                                                                         *)
(* A global is a name here; writes counts its assignments by main, so that *)
(* what a goroutine reads can be compared with what main still assigns.    *)
(***************************************************************************)
EXTENDS Integers, Sequences

CONSTANTS
  ArgLists,   \* command lines
  Files,      \* what the config file may be: found, parsed, settings
  Defaults,   \* the settings CFG holds in the source
  Languages,  \* the catalogues shipped
  Text,       \* titles and addresses
  Published,  \* instance lists that may be published: sequences of rows
  MaxRows     \* the longest of them

Settings ==
  [cache : BOOLEAN, proxy : BOOLEAN, writable : BOOLEAN, lifetime : {"", "ok", "bad"},
   memcache : BOOLEAN, theme : {"auto", "dark", "light", "unknown"},
   apicache : {"off", "ok", "bad"}, perMinute : Int, burst : Int, interval : Int,
   concurrent : Int, downloadProxy : BOOLEAN]

\* An address that is not published is "none".
Row == [title : Text, onion : Text]

ASSUME StartupAssumption ==
  /\ ArgLists \subseteq Seq(STRING)
  /\ Defaults \in Settings
  /\ \A f \in Files : f.found \in BOOLEAN /\ f.parsed \in BOOLEAN /\ f.settings \in Settings
  /\ MaxRows \in Nat /\ "none" \in Text
  /\ \A published \in Published : published \in Seq(Row) /\ Len(published) \in 1..MaxRows

VARIABLES
  pc,          \* the statement main is at
  args,        \* os.Args after the program
  arg,         \* the argument looked at
  explicit,    \* cfgExplicit
  file,        \* the config file named
  cfg,         \* CFG
  limiter,     \* the burst of daLimiter, 0 without one
  throttle,    \* the throttle in the default transport: its slots and interval
  catalogues,  \* the catalogues loaded
  running,     \* the goroutines started
  writes,      \* how often main assigned each global
  fetches,     \* how the instance's own requests went out
  downloaded,  \* whether instances holds anything
  rows,        \* About.Instances, up to its capacity
  shown,       \* its length
  incoming,    \* the list decoded last
  next         \* its row to decode next, 0 when none is being decoded

command == <<args, arg, explicit, file>>
settings == <<cfg, limiter, throttle, catalogues>>
list == <<downloaded, rows, shown, incoming, next>>
vars == <<pc, command, settings, running, writes, fetches, list>>

Globals == {"CFG", "lifetime", "tunables", "assets", "catalogues", "templates",
            "transport", "session", "About"}

\* What each goroutine reads of what main assigns.
Reads ==
  [rotation |-> {"CFG", "lifetime"},
   janitor  |-> {},
   stats    |-> {},
   refresh  |-> {"CFG", "tunables", "transport", "About"},
   csrf     |-> {"tunables", "transport"},
   listener |-> Globals]

Goroutines == DOMAIN Reads

NoRow == [title |-> "none", onion |-> "none"]

\* The statements of main, in order, with the poll of --add-instance and the end.
Statements ==
  {"args", "config", "caches", "checks", "assets", "languages", "templates",
   "throttle", "refresh", "session", "listen", "serving", "add", "exited"}

NoThrottle == [slots |-> 0, interval |-> 0]

Throttles == {NoThrottle} \cup [slots : Nat \ {0}, interval : Nat]

Init ==
  /\ pc = "args" /\ args \in ArgLists /\ arg = 1 /\ explicit = FALSE
  /\ file \in Files
  /\ cfg = Defaults
  /\ limiter = 0 /\ throttle = NoThrottle /\ catalogues = {}
  /\ running = {} /\ writes = [g \in Globals |-> 0] /\ fetches = {}
  /\ downloaded = FALSE
  /\ rows = [i \in 1..MaxRows |-> NoRow] /\ shown = 0
  /\ incoming = <<>> /\ next = 0

Assign(globals) == writes' = [g \in Globals |-> writes[g] + (IF g \in globals THEN 1 ELSE 0)]

Goto(statement) == pc' = statement

\* exit, tryWithExitStatus: os.Exit takes every goroutine with it.
Exit ==
  /\ Goto("exited")
  /\ running' = {}
  /\ UNCHANGED <<command, settings, writes, fetches, list>>

-----------------------------------------------------------------------------
(* The command line.                                                       *)

\* The value after -c is looked at as an argument of its own, too.
NextArg ==
  /\ arg' = arg + 1
  /\ explicit' = (explicit \/ args[arg] = "-c")
  /\ UNCHANGED <<pc, args, file, settings, running, writes, fetches, list>>

ParseArg ==
  /\ pc = "args" /\ arg <= Len(args)
  /\ \/ args[arg] = "-h" /\ Exit
     \/ args[arg] = "-c" /\ arg = Len(args) /\ Exit
     \/ args[arg] = "-a" /\ Exit  \* its files cannot be opened
     \/ /\ args[arg] = "-a" /\ Goto("add")
        /\ UNCHANGED <<command, settings, running, writes, fetches, list>>
     \/ args[arg] \notin {"-a", "-h"} /\ (args[arg] = "-c" => arg < Len(args)) /\ NextArg

\* addInstance: sleep for as long as the list has not been downloaded.
AddInstance ==
  /\ pc = "add"
  /\ IF downloaded THEN Exit ELSE UNCHANGED vars

ArgsDone ==
  /\ pc = "args" /\ arg > Len(args)
  /\ Goto("config")
  /\ UNCHANGED <<command, settings, running, writes, fetches, list>>

-----------------------------------------------------------------------------
(* ExecuteConfig.                                                          *)

\* Mutant of ReadConfig: RefreshInstances is started with the configuration.
ReadConfigRefreshing ==
  /\ pc = "config"
  /\ IF (file.found /\ ~file.parsed) \/ (~file.found /\ explicit) THEN Exit
     ELSE /\ Goto("caches")
          /\ cfg' = IF file.found THEN file.settings ELSE Defaults
          /\ Assign({"CFG"})
          /\ running' = running \cup {"refresh"}
          /\ UNCHANGED <<command, limiter, throttle, catalogues, fetches, list>>

\* A missing file means the defaults, unless -c named it.
ReadConfig ==
  /\ pc = "config"
  /\ IF (file.found /\ ~file.parsed) \/ (~file.found /\ explicit) THEN Exit
     ELSE /\ Goto("caches")
          /\ cfg' = IF file.found THEN file.settings ELSE Defaults
          /\ Assign({"CFG"})
          /\ UNCHANGED <<command, limiter, throttle, catalogues, running, fetches, list>>

\* What the media cache refuses; an empty lifetime is not parsed.
CacheRefused == ~cfg.proxy \/ ~cfg.writable \/ cfg.lifetime = "bad"

CacheGoroutines == {"rotation"} \cup (IF cfg.memcache THEN {"janitor"} ELSE {})

CacheGlobals == {"CFG"} \cup (IF cfg.lifetime = "" THEN {} ELSE {"lifetime"})

\* Mutant of StartCaches: the rotation is started before its settings are made.
StartCachesEarly ==
  /\ pc = "caches"
  /\ IF cfg.cache /\ CacheRefused THEN Exit
     ELSE IF cfg.cache /\ "rotation" \notin running
     THEN /\ running' = running \cup CacheGoroutines
          /\ UNCHANGED <<pc, command, settings, writes, fetches, list>>
     ELSE /\ Goto("checks")
          /\ Assign(IF cfg.cache THEN CacheGlobals ELSE {})
          /\ UNCHANGED <<command, settings, running, fetches, list>>

\* The media cache: checked, its lifetime and its size in bytes assigned, and
\* then its goroutines.
StartCaches ==
  /\ pc = "caches"
  /\ IF cfg.cache /\ CacheRefused THEN Exit
     ELSE /\ Goto("checks")
          /\ running' = IF cfg.cache THEN running \cup CacheGoroutines ELSE running
          /\ Assign(IF cfg.cache THEN CacheGlobals ELSE {})
          /\ UNCHANGED <<command, settings, fetches, list>>

\* Mutant of AtLeast: a tunable is taken as it stands.
AtLeastNothing(floor, n) == n

AtLeast(floor, n) == IF n < floor THEN floor ELSE n

\* About, the theme, the API cache's lifetimes, the rate limit, and the
\* throttle's tunables.
CheckConfig ==
  /\ pc = "checks"
  /\ IF cfg.theme = "unknown" \/ cfg.apicache = "bad" THEN Exit
     ELSE /\ Goto("assets")
          /\ limiter' = IF cfg.perMinute > 0 THEN AtLeast(1, cfg.burst) ELSE 0
          /\ Assign({"About", "tunables"})
          /\ UNCHANGED <<command, cfg, throttle, catalogues, running, fetches, list>>

-----------------------------------------------------------------------------
(* Assets, languages, templates.                                           *)

\* CopyTemplatesToMemory exits on any file it cannot read.
CopyAssets ==
  /\ pc = "assets"
  /\ \/ Exit
     \/ /\ Goto("languages")
        /\ Assign({"assets"})
        /\ UNCHANGED <<command, settings, running, fetches, list>>

\* A malformed catalogue is skipped.
LoadLanguages ==
  /\ pc = "languages"
  /\ catalogues' \in SUBSET Languages
  /\ Goto("templates")
  /\ Assign({"catalogues"})
  /\ UNCHANGED <<command, cfg, limiter, throttle, running, fetches, list>>

\* For each catalogue loaded, or the default language; a template that does not
\* parse ends it.
ParseTemplates ==
  /\ pc = "templates"
  /\ \/ Exit
     \/ /\ Goto("throttle")
        /\ Assign({"templates"})
        /\ UNCHANGED <<command, settings, running, fetches, list>>

-----------------------------------------------------------------------------
(* The network: throttle, instance list, session, listener.                *)

\* With the API cache on, a goroutine logs its counters from here on.
InstallThrottle ==
  /\ pc = "throttle"
  /\ Goto("refresh")
  /\ running' = IF cfg.apicache = "off" THEN running ELSE running \cup {"stats"}
  /\ throttle' = [slots |-> AtLeast(1, cfg.concurrent), interval |-> AtLeast(0, cfg.interval)]
  /\ Assign({"transport"})
  /\ UNCHANGED <<command, cfg, limiter, catalogues, fetches, list>>

StartRefresh ==
  /\ pc = "refresh"
  /\ Goto("session")
  /\ running' = running \cup {"refresh"}
  /\ UNCHANGED <<command, settings, writes, fetches, list>>

\* The instance list is published on a host of its own.
Host(by) == IF by = "refresh" THEN "gitbay" ELSE "deviantart"

\* daThrottle.RoundTrip: a request to any other host than DeviantArt's passes.
Pacing(by) == IF Host(by) = "deviantart" THEN throttle ELSE NoThrottle

\* The transport's timeouts: InstallDAThrottle puts them into the default one,
\* and Download behind download-proxy has a transport of its own that has them.
Timed(by) == throttle # NoThrottle \/ (by = "refresh" /\ cfg.downloadProxy)

\* Download takes the agent of CFG, the session the one ExecuteConfig hands on.
Agent(by) == writes[IF by = "refresh" THEN "CFG" ELSE "tunables"] > 0

\* A request of the process itself, on the transport and the agent of the moment.
Fetched(by) ==
  fetches' = fetches \cup {[host |-> Host(by), pacing |-> Pacing(by),
                            timed |-> Timed(by), agent |-> Agent(by)]}

\* The first session: an error is logged, and the listener opens all the same.
Bootstrap ==
  /\ pc = "session"
  /\ Goto("listen")
  /\ running' = running \cup {"csrf"}
  /\ Fetched("csrf")
  /\ Assign({"session"}) \/ UNCHANGED writes
  /\ UNCHANGED <<command, settings, list>>

\* The listener opens, or its address is taken.
Router ==
  /\ pc = "listen"
  /\ \/ Exit
     \/ /\ Goto("serving")
        /\ running' = running \cup {"listener"}
        /\ UNCHANGED <<command, settings, writes, fetches, list>>

Main ==
  \/ ParseArg \/ AddInstance \/ ArgsDone
  \/ ReadConfig \/ StartCaches \/ CheckConfig
  \/ CopyAssets \/ LoadLanguages \/ ParseTemplates
  \/ InstallThrottle \/ StartRefresh \/ Bootstrap \/ Router

-----------------------------------------------------------------------------
(* The goroutines that use the network.                                    *)

\* Every twelve hours.
RenewSession ==
  /\ "csrf" \in running
  /\ Fetched("csrf")
  /\ UNCHANGED <<pc, command, settings, running, writes, list>>

Refreshing == "refresh" \in running /\ next = 0

Decoding == "refresh" \in running /\ next \in 1..Len(incoming)

AllDecoded == "refresh" \in running /\ next > Len(incoming)

\* The list arrives and its decoding into About begins.
RefreshGets ==
  /\ Refreshing
  /\ Fetched("refresh")
  /\ incoming' \in Published /\ next' = 1 /\ downloaded' = TRUE
  /\ UNCHANGED <<pc, command, settings, running, writes, rows, shown>>

\* Mutant of RefreshFails: the failure ends the goroutine, not the round.
RefreshFailsForGood ==
  /\ Refreshing
  /\ Fetched("refresh")
  /\ downloaded' \in BOOLEAN
  /\ running' = running \ {"refresh"}
  /\ UNCHANGED <<pc, command, settings, writes, rows, shown, incoming, next>>

\* No answer, which empties instances, or one that is no JSON: logged, and
\* About stays.
RefreshFails ==
  /\ Refreshing
  /\ Fetched("refresh")
  /\ downloaded' \in BOOLEAN
  /\ UNCHANGED <<pc, command, settings, running, writes, rows, shown, incoming, next>>

\* json.Unmarshal decodes into the element that is there already: a field the
\* published row omits keeps its value.
Decoded(row, published) ==
  [title |-> published.title,
   onion |-> IF published.onion = "none" THEN row.onion ELSE published.onion]

DecodeRow ==
  /\ Decoding /\ next' = next + 1
  /\ rows' = [rows EXCEPT ![next] = Decoded(rows[next], incoming[next])]
  /\ shown' = AtLeast(next, shown)
  /\ UNCHANGED <<pc, command, settings, running, writes, fetches, downloaded, incoming>>

\* Mutant of DecodeEnd: a shorter list leaves the tail of the longer one.
DecodeEndKeepsTail ==
  /\ AllDecoded /\ next' = 0
  /\ UNCHANGED <<pc, command, settings, running, writes, fetches, downloaded, rows, shown,
                 incoming>>

DecodeEnd ==
  /\ AllDecoded /\ next' = 0
  /\ shown' = Len(incoming)
  /\ UNCHANGED <<pc, command, settings, running, writes, fetches, downloaded, rows, incoming>>

RefreshInstances == RefreshGets \/ RefreshFails \/ DecodeRow \/ DecodeEnd

Next == Main \/ RenewSession \/ RefreshInstances

Spec == Init /\ [][Next]_vars

\* The statements of main and the decoding go on by themselves; the list is
\* published somewhere that answers now and then.
FairSpec ==
  /\ Spec
  /\ WF_vars(Main)
  /\ WF_vars(RefreshGets)
  /\ WF_vars(DecodeRow \/ DecodeEnd)

-----------------------------------------------------------------------------
(* What the start is for.                                                  *)

CommandOK ==
  /\ args \in ArgLists /\ arg \in 1..Len(args) + 1 /\ explicit \in BOOLEAN
  /\ file \in Files

SettingsOK ==
  /\ cfg \in Settings /\ limiter \in Nat /\ throttle \in Throttles
  /\ catalogues \subseteq Languages

OwnRequests ==
  [host : {"deviantart", "gitbay"}, pacing : Throttles, timed : BOOLEAN, agent : BOOLEAN]

ProcessOK ==
  /\ running \subseteq Goroutines /\ writes \in [Globals -> Nat]
  /\ fetches \subseteq OwnRequests

ListOK ==
  /\ downloaded \in BOOLEAN /\ rows \in [1..MaxRows -> Row] /\ shown \in 0..MaxRows
  /\ incoming \in Published \cup {<<>>} /\ next \in 0..MaxRows + 1

\* Every variable has its type: no length beyond the list, and whatever numbers
\* the file holds, a throttle that has a slot and a limiter with a whole token,
\* which is what DAThrottle and RateLimiter assume of them.
TypeOK ==
  /\ pc \in Statements /\ CommandOK /\ SettingsOK /\ ProcessOK /\ ListOK
  /\ pc = "serving" /\ limiter = 0 => cfg.perMinute <= 0

\* No global is assigned by main while a goroutine that reads it runs: main
\* starts each one after the statements that set it up (main.go, the comment
\* on RefreshInstances), and none of the globals has a lock.
NoLateWrites ==
  [][\A g \in running : \A x \in Reads[g] : writes'[x] = writes[x]]_vars

\* Every request of the process itself goes out under the configured agent and
\* within the transport's timeouts, and each one to DeviantArt, for a session,
\* through the throttle.  The refresh of the instance list goes to another host,
\* so the throttle lets it pass (httpclient.go:64-66), although main.go:37-39
\* counts it among the requests that must not escape.
OwnRequestsBounded ==
  \A f \in fetches :
    f.agent /\ f.timed /\ (f.host = "deviantart" => f.pacing # NoThrottle)

\* Once a list has been decoded the About page names its instances, no more
\* and no fewer, whatever list it was decoded over.
TitlesAsPublished ==
  next = 0 =>
    /\ shown = Len(incoming)
    /\ \A i \in 1..shown : rows[i].title = incoming[i].title

\* A start comes to an end whether or not DeviantArt gives it a session: unless
\* --add-instance was asked for, the process exits or serves for good, and then
\* it comes to have an instance list and keeps one, however many downloads fail.
ComesUp ==
  (pc = "args" /\ \A i \in 1..Len(args) : args[i] # "-a")
    ~> (pc = "exited" \/ [](pc = "serving" /\ shown > 0))

-----------------------------------------------------------------------------
(* What the documentation says, and the code does not do.                  *)

\* --help: --add-instance generates the two files.  It waits for a list that
\* nothing downloads before main has come past the command line.
AddInstanceEnds == pc = "add" ~> pc = "exited"

\* "About is the instance list": what a decoded list shows is what was
\* published.  An address omitted from a row keeps the one of the row that was
\* decoded there before.
AboutAsPublished ==
  next = 0 => SubSeq(rows, 1, shown) = incoming
=============================================================================
