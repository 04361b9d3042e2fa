------------------------------ MODULE Responses ------------------------------
(***************************************************************************)
(* One HTTP response of SkunkyArt while a handler writes it, and the       *)
(* helpers of src/app/util.go and src/app/api.go that every handler ends   *)
(* with.  The rules of http.ResponseWriter are those of net/http: headers  *)
(* may change until the status goes out, the first status stays, a write   *)
(* without a status sends 200, a body without a Content-Type is sniffed,   *)
(* and a 204 or a 304 has no body.                                         *)
(*                                                                         *)
(* A body is the sequence of documents written into it, each by its kind.  *)
(* What a response lets the reader see is kept beside it: the deviations,  *)
(* each with the place it is shown in, and the navigation bars.            *)
(***************************************************************************)
EXTENDS Integers, Sequences, FiniteSetsExt

Deviations == [nsfw: BOOLEAN, ai: BOOLEAN]

\* Where a deviation can be shown; the last two are the formats of a text that
\* embeds it.
Places == {"list", "feed", "json", "folder", "cover", "post", "random",
           "document", "blocks"}

Fields == {"cache", "type", "retry", "location", "filename"}

NoHeader == [f \in Fields |-> "none"]

Blank ==
  [header |-> NoHeader, status |-> 0, sent |-> NoHeader, body |-> <<>>,
   shows |-> {}, navs |-> {}, lang |-> "none"]

Put(w, field, value) == [w EXCEPT !.header[field] = value]

\* Header.Add: a reader of the field takes its first value.
Add(w, field, value) ==
  IF w.header[field] = "none" THEN Put(w, field, value) ELSE w

Del(w, field) == Put(w, field, "none")

WriteHeader(w, code) ==
  IF w.status = 0 THEN [w EXCEPT !.status = code, !.sent = w.header] ELSE w

\* What http.DetectContentType says of each kind of document.
Sniffed ==
  [page |-> "html", error |-> "html", json |-> "text", jsonError |-> "text",
   feed |-> "xml", image |-> "image", other |-> "other", css |-> "text",
   plain |-> "text"]

Kinds == DOMAIN Sniffed

BodyAllowed(code) == code \notin {204, 304}

\* The first document of an untyped response gives it its type.
AddBody(v, kind) ==
  IF ~BodyAllowed(v.status) THEN v
  ELSE IF v.sent.type = "none" /\ v.body = <<>>
  THEN [v EXCEPT !.sent.type = Sniffed[kind], !.body = <<kind>>]
  ELSE [v EXCEPT !.body = Append(@, kind)]

Write(w, kind) == AddBody(WriteHeader(w, 200), kind)

Show(w, devs, place) == [w EXCEPT !.shows = @ \cup {<<d, place>> : d \in devs}]

\* The server ends a response no handler gave a status.
Served(w) == WriteHeader(w, 200)

-----------------------------------------------------------------------------

\* 0 is a fetch that never completed.
Sendable(status) == IF status < 100 \/ status > 599 THEN 502 ELSE status

ReturnHTTPError(w, status) ==
  Write(WriteHeader(Del(w, "cache"), Sendable(status)), "error")

\* Mutant of UpstreamError: Retry-After is set once the status is out.
UpstreamErrorLate(w, answer) ==
  IF answer = "busy"
  THEN Put(ReturnHTTPError(w, 503), "retry", "5")
  ELSE Write(WriteHeader(Del(w, "cache"), 502), "error")

\* skunkyart.Error: DeviantArt's error, or a request shed by the throttle.
UpstreamError(w, answer) ==
  IF answer = "busy"
  THEN ReturnHTTPError(Put(Del(w, "cache"), "retry", "5"), 503)
  ELSE Write(WriteHeader(Del(w, "cache"), 502), "error")

\* Mutant of APIError: the status goes out before the header is dropped.
APIErrorLate(w, status) ==
  Write(Del(WriteHeader(w, status), "cache"), "jsonError")

APIError(w, status) == Write(WriteHeader(Del(w, "cache"), status), "jsonError")

\* The artwork page's own answer for a mature post.
Mature(w) == Write(WriteHeader(Del(w, "cache"), 403), "error")

-----------------------------------------------------------------------------

DefaultLang == "en"

\* Mutant of Accepted: a regional tag does not fall back to its language.
AcceptedExactly(cfg, t) == t.tag \in cfg.loaded

\* A tag of Accept-Language comes with its primary language ("" without one).
Accepted(cfg, t) == t.tag \in cfg.loaded \/ t.main \in cfg.loaded

\* The first accepted tag decides.
ResolveLang(cfg, accept) ==
  LET hits == {i \in DOMAIN accept : Accepted(cfg, accept[i])}
      t == accept[Min(hits)]
  IN  IF cfg.language # "auto"
      THEN IF cfg.language \in cfg.loaded THEN cfg.language ELSE DefaultLang
      ELSE IF hits = {} THEN DefaultLang
           ELSE IF t.tag \in cfg.loaded THEN t.tag ELSE t.main

\* The languages whose page templates were parsed.
Parsed(cfg) == IF cfg.loaded = {} THEN {DefaultLang} ELSE cfg.loaded

\* A page in lang; 500, with the headers as they are, if neither its templates
\* nor the English ones were parsed.
ExecuteTemplate(w, cfg, lang) ==
  LET used == IF lang \in Parsed(cfg) THEN lang ELSE DefaultLang
  IN  IF used \in Parsed(cfg)
      THEN [Write(w, "page") EXCEPT !.lang = used]
      ELSE Write(WriteHeader(w, 500), "plain")
=============================================================================
