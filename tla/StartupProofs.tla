---------------------------- MODULE StartupProofs ----------------------------
(***************************************************************************)
(* For any command lines, config files, catalogues and published lists of  *)
(* any length: the types of the start, that no request of the process      *)
(* itself escapes the agent and the timeouts, nor one for a session the    *)
(* throttle, that no goroutine runs while main still assigns what it       *)
(* reads, and that a decoded list names the instances that were published. *)
(***************************************************************************)
EXTENDS Startup, TLAPS

\* The statements after ExecuteConfig, and those after the throttle.
Configured == {"assets", "languages", "templates", "throttle"}
Networked == {"refresh", "session", "listen", "serving"}

\* A goroutine runs only past the statement that starts it.
StartedInTurn ==
  /\ "rotation" \in running \/ "janitor" \in running =>
       pc \in {"checks"} \cup Configured \cup Networked
  /\ "refresh" \in running => pc \in {"session", "listen", "serving"}
  /\ "stats" \in running => pc \in Networked
  /\ "csrf" \in running => pc \in {"listen", "serving"}
  /\ "listener" \in running => pc = "serving"

\* What is set up by the time main is at a statement.
SetUp ==
  /\ pc \in {"caches", "checks"} \cup Configured \cup Networked => writes["CFG"] > 0
  /\ pc \in Configured \cup Networked =>
       writes["tunables"] > 0 /\ (limiter = 0 => cfg.perMinute <= 0)
  /\ pc \in Networked => throttle # NoThrottle

\* What main and the goroutines it starts keep between them.
MainInv ==
  /\ pc \in Statements /\ CommandOK /\ SettingsOK /\ ProcessOK
  /\ StartedInTurn /\ SetUp /\ OwnRequestsBounded

\* The rows decoded so far carry the titles of the list they come from.
DecodedSoFar ==
  /\ next <= Len(incoming) + 1
  /\ next > 0 => /\ shown >= next - 1
                 /\ \A i \in 1..next - 1 : rows[i].title = incoming[i].title

ListInv == ListOK /\ DecodedSoFar /\ TitlesAsPublished

-----------------------------------------------------------------------------
(* The list.                                                               *)

LEMMA IncomingType ==
  ListOK => /\ Len(incoming) \in 0..MaxRows
            /\ \A i \in 1..Len(incoming) : incoming[i] \in Row
  BY StartupAssumption DEF ListOK

LEMMA ListInvInit == Init => ListInv
  <1> SUFFICES ASSUME Init PROVE ListInv
    OBVIOUS
  <1>1. /\ downloaded = FALSE /\ rows = [i \in 1..MaxRows |-> NoRow]
        /\ shown = 0 /\ incoming = <<>> /\ next = 0
    BY DEF Init
  <1>2. NoRow \in Row
    BY StartupAssumption DEF Row, NoRow
  <1>3. MaxRows \in Nat
    BY StartupAssumption
  <1>4. rows \in [1..MaxRows -> Row]
    BY <1>1, <1>2
  <1>5. ListOK
    <2>1. shown \in 0..MaxRows /\ next \in 0..MaxRows + 1
      BY <1>1, <1>3
    <2>2. incoming \in Published \cup {<<>>} /\ downloaded \in BOOLEAN
      BY <1>1
    <2> QED
      BY <1>4, <2>1, <2>2, Zenon DEF ListOK
  <1>6. DecodedSoFar /\ TitlesAsPublished
    BY <1>1 DEF DecodedSoFar, TitlesAsPublished
  <1> QED
    BY <1>5, <1>6 DEF ListInv

LEMMA ListInvKept == ListInv /\ UNCHANGED list => ListInv'
  BY DEF list, ListInv, ListOK, DecodedSoFar, TitlesAsPublished

LEMMA GetsKeepsList == ListInv /\ RefreshGets => ListInv'
  BY StartupAssumption
  DEF RefreshGets, ListInv, ListOK, DecodedSoFar, TitlesAsPublished

LEMMA FailsKeepsList == ListInv /\ RefreshFails => ListInv'
  BY DEF RefreshFails, ListInv, ListOK, DecodedSoFar, TitlesAsPublished, Refreshing

LEMMA DecodedType ==
  ASSUME NEW row \in Row, NEW published \in Row
  PROVE  Decoded(row, published) \in Row /\ Decoded(row, published).title = published.title
  BY DEF Decoded, Row

LEMMA DecodeRowKeepsList == ListInv /\ DecodeRow => ListInv'
  <1> SUFFICES ASSUME ListInv, DecodeRow PROVE ListInv'
    OBVIOUS
  <1>1. ListOK /\ DecodedSoFar
    BY DEF ListInv
  <1>2. next \in 1..Len(incoming) /\ Len(incoming) \in 0..MaxRows /\ incoming[next] \in Row
    BY <1>1, IncomingType DEF DecodeRow, Decoding
  <1>3. next \in 1..MaxRows /\ rows[next] \in Row /\ shown \in 0..MaxRows /\ MaxRows \in Nat
    BY <1>1, <1>2, StartupAssumption DEF ListOK
  <1>4. /\ Decoded(rows[next], incoming[next]) \in Row
        /\ Decoded(rows[next], incoming[next]).title = incoming[next].title
    BY <1>2, <1>3, DecodedType
  <1>5. /\ rows' = [rows EXCEPT ![next] = Decoded(rows[next], incoming[next])]
        /\ next' = next + 1 /\ shown' = AtLeast(next, shown)
        /\ UNCHANGED <<downloaded, incoming>>
    BY DEF DecodeRow
  <1>6. shown' \in 0..MaxRows /\ shown' >= next
    BY <1>3, <1>5 DEF AtLeast
  <1>7. ListOK'
    BY <1>1, <1>3, <1>4, <1>5, <1>6 DEF ListOK
  <1>8. DecodedSoFar'
    <2>1. next' <= Len(incoming)' + 1 /\ shown' >= next' - 1
      BY <1>2, <1>3, <1>5, <1>6
    <2>2. ASSUME NEW i \in 1..next' - 1 PROVE rows'[i].title = incoming'[i].title
      <3>1. i \in 1..next /\ i \in 1..MaxRows
        BY <1>3, <1>5
      <3>2. CASE i = next
        BY <1>1, <1>3, <1>4, <1>5, <3>1, <3>2 DEF ListOK
      <3>3. CASE i # next
        <4>1. i \in 1..next - 1 /\ next > 0
          BY <1>3, <3>1, <3>3
        <4>2. rows[i].title = incoming[i].title
          BY <1>1, <4>1 DEF DecodedSoFar
        <4> QED
          BY <1>1, <1>5, <3>1, <3>3, <4>2 DEF ListOK
      <3> QED
        BY <3>2, <3>3
    <2> QED
      BY <2>1, <2>2 DEF DecodedSoFar
  <1>9. TitlesAsPublished'
    BY <1>3, <1>5 DEF TitlesAsPublished
  <1> QED
    BY <1>7, <1>8, <1>9 DEF ListInv

LEMMA DecodeEndKeepsList == ListInv /\ DecodeEnd => ListInv'
  <1> SUFFICES ASSUME ListInv, DecodeEnd PROVE ListInv'
    OBVIOUS
  <1>1. ListOK /\ DecodedSoFar /\ Len(incoming) \in 0..MaxRows
    BY IncomingType DEF ListInv
  <1>2. next > Len(incoming) /\ next' = 0 /\ shown' = Len(incoming)
        /\ UNCHANGED <<downloaded, rows, incoming>>
    BY DEF DecodeEnd, AllDecoded
  <1>3. next = Len(incoming) + 1 /\ next > 0 /\ next \in Nat
    BY <1>1, <1>2, StartupAssumption DEF ListOK, DecodedSoFar
  <1>4. ListOK'
    BY <1>1, <1>2, StartupAssumption DEF ListOK
  <1>5. DecodedSoFar'
    BY <1>1, <1>2 DEF DecodedSoFar
  <1>6. TitlesAsPublished'
    BY <1>1, <1>2, <1>3 DEF DecodedSoFar, TitlesAsPublished
  <1> QED
    BY <1>4, <1>5, <1>6 DEF ListInv

-----------------------------------------------------------------------------
(* Main and what it starts.                                                *)

LEMMA AssignType ==
  ASSUME NEW S, writes \in [Globals -> Nat], Assign(S)
  PROVE  /\ writes' \in [Globals -> Nat]
         /\ \A g \in Globals : writes'[g] >= writes[g]
         /\ \A g \in Globals \cap S : writes'[g] > 0
         /\ \A g \in Globals \ S : writes'[g] = writes[g]
  BY DEF Assign

LEMMA FetchType ==
  ASSUME MainInv, NEW by \in {"refresh", "csrf"}, Fetched(by),
         throttle # NoThrottle, writes["tunables"] > 0, writes["CFG"] > 0
  PROVE  fetches' \subseteq OwnRequests /\ OwnRequestsBounded'
  <1> DEFINE request == [host |-> Host(by), pacing |-> Pacing(by),
                         timed |-> Timed(by), agent |-> Agent(by)]
  <1>1. fetches' = fetches \cup {request}
    BY Zenon DEF Fetched
  <1>2. throttle \in Throttles /\ NoThrottle \in Throttles
    BY DEF MainInv, SettingsOK, Throttles
  <1>3. Host(by) \in {"deviantart", "gitbay"} /\ Pacing(by) \in Throttles
    BY <1>2 DEF Host, Pacing
  <1>4. Timed(by) \in BOOLEAN /\ Timed(by)
    BY DEF Timed
  <1>5. Agent(by) \in BOOLEAN /\ Agent(by)
    <2>1. CASE by = "refresh"
      BY <2>1 DEF Agent
    <2>2. CASE by = "csrf"
      BY <2>2 DEF Agent
    <2> QED
      BY <2>1, <2>2
  <1>6. Host(by) = "deviantart" => Pacing(by) # NoThrottle
    BY DEF Pacing
  <1>7. request \in OwnRequests
    BY <1>3, <1>4, <1>5 DEF OwnRequests
  <1>8. /\ request.agent /\ request.timed
        /\ request.host = "deviantart" => request.pacing # NoThrottle
    BY <1>4, <1>5, <1>6
  <1> HIDE DEF request
  <1>9. fetches' \subseteq OwnRequests
    BY <1>1, <1>7 DEF MainInv, ProcessOK
  <1>10. OwnRequestsBounded'
    BY <1>1, <1>8, Zenon DEF MainInv, OwnRequestsBounded
  <1> QED
    BY <1>9, <1>10

\* Nobody runs beside main before the caches are started.
LEMMA AloneAtFirst ==
  MainInv /\ pc \in {"args", "add", "config", "caches"} => running = {}
  BY DEF MainInv, ProcessOK, StartedInTurn, Goroutines, Reads, Configured, Networked

LEMMA MainInvInit == Init => MainInv
  <1> SUFFICES ASSUME Init PROVE MainInv
    OBVIOUS
  <1>1. pc \in Statements /\ CommandOK
    <2>1. args \in Seq(STRING)
      BY StartupAssumption DEF Init
    <2>2. 1 \in 1..Len(args) + 1
      BY <2>1
    <2> QED
      BY <2>2 DEF Init, Statements, CommandOK
  <1>2. SettingsOK
    BY StartupAssumption DEF Init, SettingsOK, Throttles
  <1>3. ProcessOK
    BY DEF Init, ProcessOK
  <1>4. StartedInTurn /\ SetUp /\ OwnRequestsBounded
    BY DEF Init, StartedInTurn, SetUp, OwnRequestsBounded, Configured, Networked
  <1> QED
    BY <1>1, <1>2, <1>3, <1>4 DEF MainInv

LEMMA ExitKeeps == MainInv /\ Exit => MainInv'
  BY DEF MainInv, Exit, Goto, command, settings, Statements, CommandOK, SettingsOK,
         ProcessOK, StartedInTurn, SetUp, OwnRequestsBounded, Configured, Networked

LEMMA MainInvKept ==
  MainInv /\ UNCHANGED <<pc, command, settings, running, writes, fetches>> => MainInv'
  BY DEF MainInv, command, settings, CommandOK, SettingsOK, ProcessOK, StartedInTurn,
         SetUp, OwnRequestsBounded

LEMMA ParseArgKeeps == MainInv /\ ParseArg => MainInv'
  <1> SUFFICES ASSUME MainInv, ParseArg PROVE MainInv'
    OBVIOUS
  <1>1. CASE Exit
    BY <1>1, ExitKeeps
  <1>2. CASE Goto("add") /\ UNCHANGED <<command, settings, running, writes, fetches, list>>
    BY <1>2, AloneAtFirst
    DEF MainInv, ParseArg, Goto, command, settings, Statements, CommandOK, SettingsOK,
        ProcessOK, StartedInTurn, SetUp, OwnRequestsBounded, Configured, Networked
  <1>3. CASE NextArg
    <2>1. args \in Seq(STRING) /\ arg \in 1..Len(args)
      BY StartupAssumption DEF MainInv, CommandOK, ParseArg
    <2>2. CommandOK'
      BY <1>3, <2>1 DEF MainInv, CommandOK, NextArg
    <2> QED
      BY <1>3, <2>2
      DEF MainInv, NextArg, settings, SettingsOK, ProcessOK, StartedInTurn, SetUp,
          OwnRequestsBounded
  <1> QED
    BY <1>1, <1>2, <1>3 DEF ParseArg

LEMMA ArgsDoneKeeps == MainInv /\ ArgsDone => MainInv'
  BY AloneAtFirst
  DEF MainInv, ArgsDone, Goto, command, settings, Statements, CommandOK, SettingsOK,
      ProcessOK, StartedInTurn, SetUp, OwnRequestsBounded, Configured, Networked

LEMMA ReadConfigKeeps == MainInv /\ ReadConfig => MainInv'
  <1> SUFFICES ASSUME MainInv, ReadConfig, ~Exit PROVE MainInv'
    BY ExitKeeps
  <1>1. /\ pc = "config" /\ pc' = "caches" /\ running = {} /\ running' = {}
        /\ cfg' = IF file.found THEN file.settings ELSE Defaults
        /\ Assign({"CFG"})
        /\ UNCHANGED <<command, limiter, throttle, catalogues, fetches>>
    BY AloneAtFirst DEF ReadConfig, Goto
  <1>2. SettingsOK'
    BY <1>1, StartupAssumption DEF MainInv, CommandOK, SettingsOK
  <1>3. writes' \in [Globals -> Nat] /\ writes'["CFG"] > 0
    BY <1>1, AssignType DEF MainInv, ProcessOK, Globals
  <1>4. ProcessOK'
    BY <1>1, <1>3 DEF MainInv, ProcessOK
  <1> QED
    BY <1>1, <1>2, <1>3, <1>4
    DEF MainInv, command, Statements, CommandOK, StartedInTurn, SetUp, OwnRequestsBounded,
        Configured, Networked

LEMMA StartCachesKeeps == MainInv /\ StartCaches => MainInv'
  <1> SUFFICES ASSUME MainInv, StartCaches, ~Exit PROVE MainInv'
    BY ExitKeeps
  <1>1. /\ pc = "caches" /\ pc' = "checks" /\ running = {}
        /\ running' \subseteq {"rotation", "janitor"}
        /\ Assign(IF cfg.cache THEN CacheGlobals ELSE {})
        /\ UNCHANGED <<command, settings, fetches>>
    BY AloneAtFirst DEF StartCaches, Goto, CacheGoroutines
  <1>2. writes' \in [Globals -> Nat] /\ writes'["CFG"] > 0
    <2>1. writes \in [Globals -> Nat] /\ "CFG" \in Globals /\ writes["CFG"] > 0
      BY <1>1 DEF MainInv, ProcessOK, SetUp, Globals
    <2> QED
      BY <1>1, <2>1, AssignType
  <1>3. ProcessOK'
    BY <1>1, <1>2 DEF MainInv, ProcessOK, Goroutines, Reads
  <1> QED
    BY <1>1, <1>2, <1>3
    DEF MainInv, command, settings, Statements, CommandOK, SettingsOK, StartedInTurn, SetUp,
        OwnRequestsBounded, Configured, Networked

LEMMA CheckConfigKeeps == MainInv /\ CheckConfig => MainInv'
  <1> SUFFICES ASSUME MainInv, CheckConfig, ~Exit PROVE MainInv'
    BY ExitKeeps
  <1>1. /\ pc = "checks" /\ pc' = "assets"
        /\ limiter' = IF cfg.perMinute > 0 THEN AtLeast(1, cfg.burst) ELSE 0
        /\ Assign({"About", "tunables"})
        /\ UNCHANGED <<command, cfg, throttle, catalogues, running, fetches>>
    BY DEF CheckConfig, Goto
  <1>2. cfg.perMinute \in Int /\ cfg.burst \in Int
    BY DEF MainInv, SettingsOK, Settings
  <1>3. limiter' \in Nat /\ (limiter' = 0 => cfg.perMinute <= 0)
    BY <1>1, <1>2 DEF AtLeast
  <1>4. writes' \in [Globals -> Nat] /\ writes'["tunables"] > 0 /\ writes'["CFG"] > 0
    <2>1. /\ writes \in [Globals -> Nat] /\ {"tunables", "CFG"} \subseteq Globals
          /\ writes["CFG"] > 0
      BY <1>1 DEF MainInv, ProcessOK, SetUp, Globals
    <2> QED
      BY <1>1, <2>1, AssignType
  <1> QED
    BY <1>1, <1>3, <1>4
    DEF MainInv, command, Statements, CommandOK, SettingsOK, ProcessOK, StartedInTurn, SetUp,
        OwnRequestsBounded, Configured, Networked

\* The statements that only assign, between the configuration and the throttle.
LEMMA ConfiguredStepKeeps ==
  ASSUME MainInv, NEW S, pc \in Configured, pc' \in Configured, Assign(S),
         catalogues' \subseteq Languages,
         UNCHANGED <<command, cfg, limiter, throttle, running, fetches>>
  PROVE  MainInv'
  <1>1. writes' \in [Globals -> Nat] /\ writes'["tunables"] > 0 /\ writes'["CFG"] > 0
    <2>1. /\ writes \in [Globals -> Nat] /\ {"tunables", "CFG"} \subseteq Globals
          /\ writes["tunables"] > 0 /\ writes["CFG"] > 0
      BY DEF MainInv, ProcessOK, SetUp, Globals
    <2> QED
      BY <2>1, AssignType
  <1> QED
    BY <1>1
    DEF MainInv, command, Statements, CommandOK, SettingsOK, ProcessOK, StartedInTurn, SetUp,
        OwnRequestsBounded, Configured, Networked

LEMMA CopyAssetsKeeps == MainInv /\ CopyAssets => MainInv'
  <1> SUFFICES ASSUME MainInv, CopyAssets, ~Exit PROVE MainInv'
    BY ExitKeeps
  <1>1. /\ pc \in Configured /\ pc' \in Configured /\ Assign({"assets"})
        /\ UNCHANGED <<command, cfg, limiter, throttle, catalogues, running, fetches>>
    BY DEF CopyAssets, Goto, settings, Configured
  <1> QED
    BY <1>1, ConfiguredStepKeeps DEF MainInv, SettingsOK

LEMMA LoadLanguagesKeeps == MainInv /\ LoadLanguages => MainInv'
  <1> SUFFICES ASSUME MainInv, LoadLanguages PROVE MainInv'
    OBVIOUS
  <1>1. /\ pc \in Configured /\ pc' \in Configured /\ Assign({"catalogues"})
        /\ catalogues' \subseteq Languages
        /\ UNCHANGED <<command, cfg, limiter, throttle, running, fetches>>
    BY DEF LoadLanguages, Goto, Configured
  <1> QED
    BY <1>1, ConfiguredStepKeeps

LEMMA ParseTemplatesKeeps == MainInv /\ ParseTemplates => MainInv'
  <1> SUFFICES ASSUME MainInv, ParseTemplates, ~Exit PROVE MainInv'
    BY ExitKeeps
  <1>1. /\ pc \in Configured /\ pc' \in Configured /\ Assign({"templates"})
        /\ UNCHANGED <<command, cfg, limiter, throttle, catalogues, running, fetches>>
    BY DEF ParseTemplates, Goto, settings, Configured
  <1> QED
    BY <1>1, ConfiguredStepKeeps DEF MainInv, SettingsOK

LEMMA InstallThrottleKeeps == MainInv /\ InstallThrottle => MainInv'
  <1> SUFFICES ASSUME MainInv, InstallThrottle PROVE MainInv'
    OBVIOUS
  <1>1. /\ pc = "throttle" /\ pc' = "refresh" /\ Assign({"transport"})
        /\ throttle' = [slots |-> AtLeast(1, cfg.concurrent),
                        interval |-> AtLeast(0, cfg.interval)]
        /\ running \subseteq running' /\ running' \subseteq running \cup {"stats"}
        /\ UNCHANGED <<command, cfg, limiter, catalogues, fetches>>
    BY DEF InstallThrottle, Goto
  <1>2. cfg.concurrent \in Int /\ cfg.interval \in Int
    BY DEF MainInv, SettingsOK, Settings
  <1>3. AtLeast(1, cfg.concurrent) \in Nat \ {0} /\ AtLeast(0, cfg.interval) \in Nat
    BY <1>2 DEF AtLeast
  <1>4. throttle' \in Throttles /\ throttle' # NoThrottle
    BY <1>1, <1>3 DEF Throttles, NoThrottle
  <1>5. /\ writes' \in [Globals -> Nat]
        /\ writes'["tunables"] > 0 /\ writes'["CFG"] > 0
    <2>1. /\ writes \in [Globals -> Nat] /\ {"tunables", "CFG"} \subseteq Globals
          /\ writes["tunables"] > 0 /\ writes["CFG"] > 0
      BY <1>1 DEF MainInv, ProcessOK, SetUp, Globals, Configured
    <2> QED
      BY <1>1, <2>1, AssignType
  <1>6. ProcessOK'
    BY <1>1, <1>5 DEF MainInv, ProcessOK, Goroutines, Reads
  <1>7. StartedInTurn'
    BY <1>1 DEF MainInv, StartedInTurn, Configured, Networked
  <1> QED
    BY <1>1, <1>4, <1>5, <1>6, <1>7
    DEF MainInv, command, Statements, CommandOK, SettingsOK, SetUp, OwnRequestsBounded,
        Configured, Networked

LEMMA StartRefreshKeeps == MainInv /\ StartRefresh => MainInv'
  BY DEF MainInv, StartRefresh, Goto, command, settings, Statements, CommandOK, SettingsOK,
         ProcessOK, StartedInTurn, SetUp, OwnRequestsBounded, Configured, Networked,
         Goroutines, Reads

LEMMA BootstrapKeeps == MainInv /\ Bootstrap => MainInv'
  <1> SUFFICES ASSUME MainInv, Bootstrap PROVE MainInv'
    OBVIOUS
  <1>1. /\ pc = "session" /\ pc' = "listen" /\ running' = running \cup {"csrf"}
        /\ Fetched("csrf") /\ (Assign({"session"}) \/ UNCHANGED writes)
        /\ UNCHANGED <<command, settings>>
    BY DEF Bootstrap, Goto
  <1>2. throttle # NoThrottle /\ writes["tunables"] > 0 /\ writes["CFG"] > 0
    BY <1>1 DEF MainInv, SetUp, Networked
  <1>3. "csrf" \in Goroutines
    BY DEF Goroutines, Reads
  <1>4. fetches' \subseteq OwnRequests /\ OwnRequestsBounded'
    BY <1>1, <1>2, <1>3, FetchType
  <1>5. /\ writes' \in [Globals -> Nat]
        /\ writes'["tunables"] > 0 /\ writes'["CFG"] > 0
    <2>1. writes \in [Globals -> Nat] /\ {"tunables", "CFG"} \subseteq Globals
      BY DEF MainInv, ProcessOK, Globals
    <2>2. CASE Assign({"session"})
      BY <1>2, <2>1, <2>2, AssignType
    <2>3. CASE UNCHANGED writes
      BY <1>2, <2>1, <2>3
    <2> QED
      BY <1>1, <2>2, <2>3
  <1> QED
    BY <1>1, <1>2, <1>3, <1>4, <1>5
    DEF MainInv, command, settings, Statements, CommandOK, SettingsOK, ProcessOK,
        StartedInTurn, SetUp, Configured, Networked

LEMMA RouterKeeps == MainInv /\ Router => MainInv'
  <1> SUFFICES ASSUME MainInv, Router, ~Exit PROVE MainInv'
    BY ExitKeeps
  <1> QED
    BY DEF MainInv, Router, Goto, command, settings, Statements, CommandOK, SettingsOK,
           ProcessOK, StartedInTurn, SetUp, OwnRequestsBounded, Configured, Networked,
           Goroutines, Reads

\* A request of a goroutine that runs beside main.
LEMMA FetchKeeps ==
  ASSUME MainInv, NEW by \in {"refresh", "csrf"}, by \in running, Fetched(by),
         UNCHANGED <<pc, command, settings, running, writes>>
  PROVE  MainInv'
  <1>1. pc \in Networked /\ by \in Goroutines
    BY DEF MainInv, StartedInTurn, Networked, Goroutines, Reads
  <1>2. throttle # NoThrottle /\ writes["tunables"] > 0 /\ writes["CFG"] > 0
    BY <1>1 DEF MainInv, SetUp
  <1>3. fetches' \subseteq OwnRequests /\ OwnRequestsBounded'
    BY <1>1, <1>2, FetchType
  <1> QED
    BY <1>3 DEF MainInv, command, settings, CommandOK, SettingsOK, ProcessOK, StartedInTurn,
                SetUp

LEMMA MainKeeps == MainInv /\ Main => MainInv'
  <1> SUFFICES ASSUME MainInv, Main PROVE MainInv'
    OBVIOUS
  <1>1. CASE AddInstance
    BY <1>1, ExitKeeps, MainInvKept DEF AddInstance, vars
  <1> QED
    BY <1>1, ParseArgKeeps, ArgsDoneKeeps, ReadConfigKeeps, StartCachesKeeps,
       CheckConfigKeeps, CopyAssetsKeeps, LoadLanguagesKeeps, ParseTemplatesKeeps,
       InstallThrottleKeeps, StartRefreshKeeps, BootstrapKeeps, RouterKeeps
    DEF Main

LEMMA MainInvStep == MainInv /\ [Next]_vars => MainInv'
  <1> SUFFICES ASSUME MainInv, [Next]_vars PROVE MainInv'
    OBVIOUS
  <1>1. CASE Main
    BY <1>1, MainKeeps
  <1>2. CASE RenewSession
    BY <1>2, FetchKeeps DEF RenewSession
  <1>3. CASE RefreshGets \/ RefreshFails
    BY <1>3, FetchKeeps DEF RefreshGets, RefreshFails, Refreshing
  <1>4. CASE DecodeRow \/ DecodeEnd
    BY <1>4, MainInvKept DEF DecodeRow, DecodeEnd
  <1>5. CASE UNCHANGED vars
    BY <1>5, MainInvKept DEF vars
  <1> QED
    BY <1>1, <1>2, <1>3, <1>4, <1>5 DEF Next, RefreshInstances

LEMMA ListInvStep == ListInv /\ [Next]_vars => ListInv'
  <1> SUFFICES ASSUME ListInv, [Next]_vars PROVE ListInv'
    OBVIOUS
  <1>1. CASE Main
    <2>1. UNCHANGED list
      BY <1>1
      DEF Main, ParseArg, NextArg, AddInstance, ArgsDone, ReadConfig, StartCaches, CheckConfig,
          CopyAssets, LoadLanguages, ParseTemplates, InstallThrottle, StartRefresh, Bootstrap,
          Router, Exit, vars
    <2> QED
      BY <2>1, ListInvKept
  <1>2. CASE RenewSession
    BY <1>2, ListInvKept DEF RenewSession
  <1>3. CASE RefreshInstances
    BY <1>3, GetsKeepsList, FailsKeepsList, DecodeRowKeepsList, DecodeEndKeepsList
    DEF RefreshInstances
  <1>4. CASE UNCHANGED vars
    BY <1>4, ListInvKept DEF vars
  <1> QED
    BY <1>1, <1>2, <1>3, <1>4 DEF Next

-----------------------------------------------------------------------------
(* The theorems.                                                           *)

LEMMA Invariants == Spec => [](MainInv /\ ListInv)
  <1>1. Init => MainInv /\ ListInv
    BY MainInvInit, ListInvInit
  <1>2. MainInv /\ ListInv /\ [Next]_vars => MainInv' /\ ListInv'
    BY MainInvStep, ListInvStep
  <1> QED
    BY <1>1, <1>2, PTL DEF Spec

\* The types of the start hold for any configuration file: whatever it says,
\* the throttle that ExecuteConfig sets up has a slot and the limiter a token.
THEOREM TypeCorrect == Spec => []TypeOK
  <1>1. MainInv /\ ListInv => TypeOK
    BY DEF MainInv, ListInv, TypeOK, SetUp, Networked
  <1> QED
    BY <1>1, Invariants, PTL

\* No request of the process itself goes out before its agent and the timeouts
\* are in place, and none for a session before the throttle is; with a download
\* proxy or without one, and after any number of refreshes.
THEOREM OwnRequestsAreBounded == Spec => []OwnRequestsBounded
  <1>1. MainInv => OwnRequestsBounded
    BY DEF MainInv
  <1> QED
    BY <1>1, Invariants, PTL

\* After any number of refreshes, over lists of any length, a decoded list has
\* the instances that were published, in their order.
THEOREM TitlesArePublished == Spec => []TitlesAsPublished
  <1>1. ListInv => TitlesAsPublished
    BY DEF ListInv
  <1> QED
    BY <1>1, Invariants, PTL

\* What the goroutines that may run beside a statement read, it does not assign.
LEMMA NothingLate ==
  ASSUME MainInv, [Next]_vars
  PROVE  \A g \in running : \A x \in Reads[g] : writes'[x] = writes[x]
  <1> DEFINE Unread(S) == \A g \in running : Reads[g] \cap S = {}
  <1>1. writes \in [Globals -> Nat] /\ running \subseteq Goroutines
    BY DEF MainInv, ProcessOK
  <1>2. \A g \in Goroutines : Reads[g] \subseteq Globals
    BY DEF Goroutines, Reads, Globals
  <1>3. ASSUME NEW S, Assign(S), Unread(S)
        PROVE  \A g \in running : \A x \in Reads[g] : writes'[x] = writes[x]
    BY <1>1, <1>2, <1>3, AssignType
  <1>4. ASSUME pc \in {"config", "caches"}, NEW S PROVE Unread(S)
    BY <1>4, AloneAtFirst
  <1>5. ASSUME pc \in {"checks"} \cup Configured, NEW S, S \cap {"CFG", "lifetime"} = {}
        PROVE  Unread(S)
    <2>1. running \subseteq {"rotation", "janitor"}
      BY <1>1, <1>5
      DEF MainInv, StartedInTurn, Goroutines, Reads, Configured, Networked
    <2> QED
      BY <1>5, <2>1 DEF Reads
  <1>6. ASSUME pc = "session" PROVE Unread({"session"})
    <2>1. running \subseteq {"rotation", "janitor", "stats", "refresh"}
      BY <1>1, <1>6 DEF MainInv, StartedInTurn, Goroutines, Reads
    <2> QED
      BY <2>1 DEF Reads
  <1> HIDE DEF Unread
  <1>7. CASE UNCHANGED writes
    BY <1>7
  <1>8. CASE ReadConfig
    BY <1>3, <1>4, <1>7, <1>8 DEF ReadConfig, Exit
  <1>9. CASE StartCaches
    BY <1>3, <1>4, <1>7, <1>9 DEF StartCaches, Exit
  <1>10. CASE CheckConfig
    <2>1. Unread({"About", "tunables"})
      BY <1>5, <1>10 DEF CheckConfig
    <2> QED
      BY <1>3, <1>7, <1>10, <2>1 DEF CheckConfig, Exit
  <1>11. CASE CopyAssets
    <2>1. Unread({"assets"})
      BY <1>5, <1>11 DEF CopyAssets, Configured
    <2> QED
      BY <1>3, <1>7, <1>11, <2>1 DEF CopyAssets, Exit
  <1>12. CASE LoadLanguages
    <2>1. Unread({"catalogues"})
      BY <1>5, <1>12 DEF LoadLanguages, Configured
    <2> QED
      BY <1>3, <1>12, <2>1 DEF LoadLanguages
  <1>13. CASE ParseTemplates
    <2>1. Unread({"templates"})
      BY <1>5, <1>13 DEF ParseTemplates, Configured
    <2> QED
      BY <1>3, <1>7, <1>13, <2>1 DEF ParseTemplates, Exit
  <1>14. CASE InstallThrottle
    <2>1. Unread({"transport"})
      BY <1>5, <1>14 DEF InstallThrottle, Configured
    <2> QED
      BY <1>3, <1>14, <2>1 DEF InstallThrottle
  <1>15. CASE Bootstrap
    BY <1>3, <1>6, <1>7, <1>15 DEF Bootstrap
  <1>16. CASE ParseArg \/ AddInstance \/ ArgsDone \/ StartRefresh \/ Router
    BY <1>7, <1>16 DEF ParseArg, NextArg, AddInstance, ArgsDone, StartRefresh, Router, Exit,
                       vars
  <1>17. CASE RenewSession \/ RefreshInstances \/ UNCHANGED vars
    BY <1>7, <1>17 DEF RenewSession, RefreshInstances, RefreshGets, RefreshFails, DecodeRow,
                       DecodeEnd, vars
  <1> QED
    BY <1>8, <1>9, <1>10, <1>11, <1>12, <1>13, <1>14, <1>15, <1>16, <1>17 DEF Next, Main

\* A goroutine never runs while main still assigns a global that it reads, in
\* whatever order the statements' own outcomes fall.
THEOREM NothingIsLate == Spec => NoLateWrites
  <1>1. MainInv /\ [Next]_vars =>
          [\A g \in running : \A x \in Reads[g] : writes'[x] = writes[x]]_vars
    BY NothingLate
  <1> QED
    BY <1>1, Invariants, PTL DEF Spec, NoLateWrites
=============================================================================
