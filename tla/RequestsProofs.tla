--------------------------- MODULE RequestsProofs ---------------------------
(***************************************************************************)
(* For any settings, lists, pages and answers of DeviantArt: every         *)
(* response of every handler is as the properties of Requests have it.     *)
(*                                                                         *)
(* A response is followed through its handler as one term: Open is one     *)
(* that is still open, with its header and what it shows; one lemma per    *)
(* operator of Responses says what becomes of it.                          *)
(***************************************************************************)
EXTENDS Requests, FiniteProofs, SequenceTheorems

Values == {"none", "page", "assets", "media", "json", "atom", "css", "text",
           "html", "xml", "image", "other", "5", "60", "artwork", "given"}

\* A header, by its fields.
Headers(c, t, r, l, n) ==
  [f \in Fields |-> CASE f = "cache" -> c [] f = "type" -> t [] f = "retry" -> r
                      [] f = "location" -> l [] f = "filename" -> n]

Response(header, status, sent, body, shows, navs, lang) ==
  [header |-> header, status |-> status, sent |-> sent, body |-> body,
   shows |-> shows, navs |-> navs, lang |-> lang]

Open(c, t, r, l, n, shows, navs) ==
  Response(Headers(c, t, r, l, n), 0, NoHeader, <<>>, shows, navs, "none")

\* The type a body of that kind goes out with.
Typed(t, kind) == IF t = "none" THEN Sniffed[kind] ELSE t

-----------------------------------------------------------------------------
(* The operators of Responses.                                             *)

LEMMA BlankOpen == Blank = Open("none", "none", "none", "none", "none", {}, {})
  <1>1. NoHeader = Headers("none", "none", "none", "none", "none")
    BY DEF NoHeader, Headers, Fields
  <1> QED
    BY <1>1 DEF Blank, Open, Response

Set(h, f, x) == [h EXCEPT ![f] = x]

LEMMA HeaderFields ==
  ASSUME NEW c, NEW t, NEW r, NEW l, NEW n
  PROVE  /\ Headers(c, t, r, l, n).cache = c /\ Headers(c, t, r, l, n).type = t
         /\ Headers(c, t, r, l, n).retry = r /\ Headers(c, t, r, l, n).filename = n
         /\ c \in Values /\ t \in Values /\ r \in Values /\ l \in Values /\ n \in Values
              => Headers(c, t, r, l, n) \in Header
  BY DEF Headers, Fields, Header, Values

LEMMA SetField ==
  ASSUME NEW c, NEW t, NEW r, NEW l, NEW n, NEW x
  PROVE  /\ Set(Headers(c, t, r, l, n), "cache", x) = Headers(x, t, r, l, n)
         /\ Set(Headers(c, t, r, l, n), "type", x) = Headers(c, x, r, l, n)
         /\ Set(Headers(c, t, r, l, n), "retry", x) = Headers(c, t, x, l, n)
         /\ Set(Headers(c, t, r, l, n), "location", x) = Headers(c, t, r, x, n)
         /\ Set(Headers(c, t, r, l, n), "filename", x) = Headers(c, t, r, l, x)
  BY DEF Set, Headers, Fields

\* What an assignment to a field of a response changes.
LEMMA PutSets ==
  ASSUME NEW h, NEW code, NEW s, NEW b, NEW shows, NEW navs, NEW lang, NEW f, NEW x
  PROVE  Put(Response(h, code, s, b, shows, navs, lang), f, x)
           = Response(Set(h, f, x), code, s, b, shows, navs, lang)
  BY DEF Put, Response, Set

\* A header set before the status goes out.
LEMMA PutOpen ==
  ASSUME NEW c, NEW t, NEW r, NEW l, NEW n, NEW shows, NEW navs, NEW x
  PROVE  /\ Put(Open(c, t, r, l, n, shows, navs), "cache", x)
              = Open(x, t, r, l, n, shows, navs)
         /\ Put(Open(c, t, r, l, n, shows, navs), "type", x)
              = Open(c, x, r, l, n, shows, navs)
         /\ Put(Open(c, t, r, l, n, shows, navs), "retry", x)
              = Open(c, t, x, l, n, shows, navs)
         /\ Put(Open(c, t, r, l, n, shows, navs), "location", x)
              = Open(c, t, r, x, n, shows, navs)
         /\ Put(Open(c, t, r, l, n, shows, navs), "filename", x)
              = Open(c, t, r, l, x, shows, navs)
  BY PutSets, SetField DEF Open

LEMMA DelOpen ==
  ASSUME NEW c, NEW t, NEW r, NEW l, NEW n, NEW shows, NEW navs
  PROVE  /\ Del(Open(c, t, r, l, n, shows, navs), "cache")
              = Open("none", t, r, l, n, shows, navs)
         /\ Del(Open(c, t, r, l, n, shows, navs), "type")
              = Open(c, "none", r, l, n, shows, navs)
  BY PutOpen DEF Del

LEMMA AddOpen ==
  ASSUME NEW c, NEW t, NEW r, NEW l, NEW n, NEW shows, NEW navs, NEW x
  PROVE  /\ Add(Open(c, "none", r, l, n, shows, navs), "type", x)
              = Open(c, x, r, l, n, shows, navs)
         /\ Add(Open(c, t, r, l, "none", shows, navs), "filename", x)
              = Open(c, t, r, l, x, shows, navs)
  <1>1. /\ Open(c, "none", r, l, n, shows, navs).header["type"] = "none"
        /\ Open(c, t, r, l, "none", shows, navs).header["filename"] = "none"
    BY DEF Headers, Fields, Open, Response
  <1> QED
    BY <1>1, PutOpen DEF Add

\* What is shown beside what a response shows already.
Seen(v, more) == [v EXCEPT !.shows = @ \cup more]

LEMMA SeenAny ==
  ASSUME NEW h, NEW code, NEW s, NEW b, NEW shows, NEW navs, NEW lang, NEW more
  PROVE  Seen(Response(h, code, s, b, shows, navs, lang), more)
           = Response(h, code, s, b, shows \cup more, navs, lang)
  <1> DEFINE e == Seen(Response(h, code, s, b, shows, navs, lang), more)
  <1>1. e \in [header : {h}, status : {code}, sent : {s}, body : {b},
               shows : {shows \cup more}, navs : {navs}, lang : {lang}]
    BY DEF Seen, Response
  <1> HIDE DEF e
  <1>2. e = Response(h, code, s, b, shows \cup more, navs, lang)
    BY <1>1 DEF Response
  <1> QED
    BY <1>2 DEF e

LEMMA ShowAny ==
  ASSUME NEW h, NEW code, NEW s, NEW b, NEW shows, NEW navs, NEW lang, NEW S, NEW place
  PROVE  Show(Response(h, code, s, b, shows, navs, lang), S, place)
           = Response(h, code, s, b, shows \cup {<<d, place>> : d \in S}, navs, lang)
  <1> DEFINE more == {<<d, place>> : d \in S}
  <1>1. \A v : Show(v, S, place) = Seen(v, more)
    BY DEF Seen, Show
  <1> HIDE DEF more
  <1>2. Show(Response(h, code, s, b, shows, navs, lang), S, place)
          = Response(h, code, s, b, shows \cup more, navs, lang)
    BY <1>1, SeenAny
  <1> QED
    BY <1>2 DEF more

\* What a text shows.
Texted(cf, text) == {<<e.dev, e.format>> : e \in Rendered(cf, text)}

LEMMA DescribeAny ==
  ASSUME NEW h, NEW code, NEW s, NEW b, NEW shows, NEW navs, NEW lang, NEW cf, NEW text
  PROVE  Describe(Response(h, code, s, b, shows, navs, lang), cf, text)
           = Response(h, code, s, b, shows \cup Texted(cf, text), navs, lang)
  <1>1. \A v : Describe(v, cf, text) = Seen(v, Texted(cf, text))
    BY DEF Seen, Describe, Texted
  <1> QED
    BY <1>1, SeenAny

LEMMA DescribeOpen ==
  ASSUME NEW c, NEW t, NEW r, NEW l, NEW n, NEW shows, NEW navs, NEW cf, NEW text
  PROVE  Describe(Open(c, t, r, l, n, shows, navs), cf, text)
           = Open(c, t, r, l, n, shows \cup Texted(cf, text), navs)
  <1>1. Describe(Open(c, t, r, l, n, shows, navs), cf, text)
          = Response(Headers(c, t, r, l, n), 0, NoHeader, <<>>, shows \cup Texted(cf, text),
                     navs, "none")
    BY DescribeAny DEF Open
  <1> QED
    BY <1>1 DEF Open

LEMMA ShowOpen ==
  ASSUME NEW c, NEW t, NEW r, NEW l, NEW n, NEW shows, NEW navs, NEW S, NEW place
  PROVE  Show(Open(c, t, r, l, n, shows, navs), S, place)
           = Open(c, t, r, l, n, shows \cup {<<d, place>> : d \in S}, navs)
  <1> DEFINE more == shows \cup {<<d, place>> : d \in S}
  <1>1. Show(Open(c, t, r, l, n, shows, navs), S, place)
          = Response(Headers(c, t, r, l, n), 0, NoHeader, <<>>, more, navs, "none")
    BY ShowAny DEF Open
  <1> HIDE DEF more
  <1> QED
    BY <1>1 DEF Open, more

\* The status, with the headers as they are; it is set once.
LEMMA SendOpen ==
  ASSUME NEW c, NEW t, NEW r, NEW l, NEW n, NEW shows, NEW navs, NEW code
  PROVE  WriteHeader(Open(c, t, r, l, n, shows, navs), code)
           = Response(Headers(c, t, r, l, n), code, Headers(c, t, r, l, n), <<>>, shows,
                      navs, "none")
  <1> DEFINE h == Headers(c, t, r, l, n)
  <1> DEFINE e == WriteHeader(Open(c, t, r, l, n, shows, navs), code)
  <1> HIDE DEF h
  <1>1. e \in [header : {h}, status : {code}, sent : {h}, body : {<<>>}, shows : {shows},
               navs : {navs}, lang : {"none"}]
    BY DEF WriteHeader, Open, Response, h
  <1> HIDE DEF e
  <1>2. e = Response(h, code, h, <<>>, shows, navs, "none")
    BY <1>1 DEF Response
  <1> QED
    BY <1>2 DEF e, h

LEMMA SentOnce ==
  ASSUME NEW h, NEW code, code # 0, NEW s, NEW b, NEW shows, NEW navs, NEW lang, NEW other
  PROVE  WriteHeader(Response(h, code, s, b, shows, navs, lang), other)
           = Response(h, code, s, b, shows, navs, lang)
  BY DEF WriteHeader, Response

\* A document into a response whose status is out.
LEMMA WriteSent ==
  ASSUME NEW h, NEW c, NEW t, NEW r, NEW l, NEW n, NEW shows, NEW navs, NEW lang,
         NEW code, code # 0, BodyAllowed(code), NEW kind
  PROVE  Write(Response(h, code, Headers(c, t, r, l, n), <<>>, shows, navs, lang), kind)
           = Response(h, code, Headers(c, Typed(t, kind), r, l, n), <<kind>>, shows, navs,
                      lang)
  <1> DEFINE s == Headers(c, t, r, l, n)
  <1> DEFINE x == Response(h, code, s, <<>>, shows, navs, lang)
  <1> DEFINE e == Write(x, kind)
  <1> DEFINE y == Set(s, "type", Typed(t, kind))
  <1>1. s.type = t /\ s = [f \in Fields |-> s[f]]
    BY DEF Headers, Fields
  <1> HIDE DEF x
  <1>6. e = AddBody(x, kind)
    BY SentOnce DEF Write, x
  <1> USE DEF x
  <1>2. x.sent = s /\ x.body = <<>> /\ x.status = code
    BY DEF Response
  <1>3. y = Headers(c, Typed(t, kind), r, l, n)
    BY SetField
  <1> HIDE DEF s
  <1>4. e \in [header : {h}, status : {code}, sent : {y}, body : {<<kind>>},
               shows : {shows}, navs : {navs}, lang : {lang}]
    <2>1. CASE t = "none"
      <3>1. e = [x EXCEPT !.sent.type = Sniffed[kind], !.body = <<kind>>]
        BY <1>1, <1>2, <1>6, <2>1 DEF AddBody, BodyAllowed
      <3>2. y = [s EXCEPT !.type = Sniffed[kind]]
        BY <2>1 DEF Set, Typed
      <3> QED
        BY <3>1, <3>2 DEF Response
    <2>2. CASE t # "none"
      <3>1. e = [x EXCEPT !.body = Append(@, kind)]
        BY <1>1, <1>2, <1>6, <2>2 DEF AddBody, BodyAllowed
      <3>2. y = s /\ Append(<<>>, kind) = <<kind>>
        BY <1>1, <2>2 DEF Set, Typed, Fields
      <3> QED
        BY <1>2, <3>1, <3>2 DEF Response
    <2> QED
      BY <2>1, <2>2
  <1> HIDE DEF e, y
  <1>5. e = Response(h, code, y, <<kind>>, shows, navs, lang)
    BY <1>4 DEF Response
  <1> QED
    BY <1>3, <1>5 DEF e, s

\* A response whose status has no body stays as it is.
LEMMA WriteBare ==
  ASSUME NEW h, NEW s, NEW b, NEW shows, NEW navs, NEW lang, NEW code, code # 0,
         ~BodyAllowed(code), NEW kind
  PROVE  Write(Response(h, code, s, b, shows, navs, lang), kind)
           = Response(h, code, s, b, shows, navs, lang)
  <1> DEFINE x == Response(h, code, s, b, shows, navs, lang)
  <1>1. WriteHeader(x, 200) = x /\ x.status = code
    BY SentOnce DEF Response
  <1> HIDE DEF x
  <1>2. Write(x, kind) = x
    BY <1>1 DEF Write, AddBody
  <1> QED
    BY <1>2 DEF x

LEMMA WriteOpen ==
  ASSUME NEW c, NEW t, NEW r, NEW l, NEW n, NEW shows, NEW navs, NEW kind
  PROVE  Write(Open(c, t, r, l, n, shows, navs), kind)
           = Response(Headers(c, t, r, l, n), 200, Headers(c, Typed(t, kind), r, l, n),
                      <<kind>>, shows, navs, "none")
  <1> DEFINE x == Response(Headers(c, t, r, l, n), 200, Headers(c, t, r, l, n), <<>>,
                           shows, navs, "none")
  <1>1. WriteHeader(Open(c, t, r, l, n, shows, navs), 200) = x
    BY SendOpen
  <1>2. WriteHeader(x, 200) = x
    BY SentOnce
  <1>3. Write(Open(c, t, r, l, n, shows, navs), kind) = Write(x, kind)
    <2> HIDE DEF x
    <2> QED
      BY <1>1, <1>2 DEF Write
  <1>4. BodyAllowed(200)
    BY DEF BodyAllowed
  <1> QED
    BY <1>3, <1>4, WriteSent

\* A further document.
LEMMA WriteMore ==
  ASSUME NEW h, NEW s, NEW shows, NEW navs, NEW lang, NEW code, code # 0,
         BodyAllowed(code), NEW b, b # <<>>, NEW kind
  PROVE  Write(Response(h, code, s, b, shows, navs, lang), kind)
           = Response(h, code, s, Append(b, kind), shows, navs, lang)
  <1> DEFINE x == Response(h, code, s, b, shows, navs, lang)
  <1> DEFINE e == Write(x, kind)
  <1> DEFINE y == Append(b, kind)
  <1>1. WriteHeader(x, 200) = x
    BY SentOnce
  <1>2. e = [x EXCEPT !.body = Append(@, kind)] /\ x.body = b
    <2>1. x.body = b /\ x.status = code
      BY DEF Response
    <2> HIDE DEF x
    <2> QED
      BY <1>1, <2>1 DEF Write, AddBody
  <1> HIDE DEF y
  <1>3. e \in [header : {h}, status : {code}, sent : {s}, body : {y}, shows : {shows},
               navs : {navs}, lang : {lang}]
    BY <1>2 DEF Response, y
  <1> HIDE DEF e
  <1>4. e = Response(h, code, s, y, shows, navs, lang)
    BY <1>3 DEF Response
  <1> QED
    BY <1>4 DEF e, y

KindsAre == Kinds = {"page", "error", "json", "jsonError", "feed", "image", "other",
                     "css", "plain"}

LEMMA KindsListed == KindsAre
  BY DEF Kinds, Sniffed, KindsAre

Refusal(t, r, l, n, code, kind, shows, navs) ==
  Response(Headers("none", t, r, l, n), code, Headers("none", Typed(t, kind), r, l, n), <<kind>>,
           shows, navs, "none")

LEMMA SendDocument ==
  ASSUME NEW c, NEW t, NEW r, NEW l, NEW n, NEW shows, NEW navs, NEW code, code # 0,
         BodyAllowed(code), NEW kind
  PROVE  Write(WriteHeader(Open(c, t, r, l, n, shows, navs), code), kind)
           = Response(Headers(c, t, r, l, n), code, Headers(c, Typed(t, kind), r, l, n),
                      <<kind>>, shows, navs, "none")
  BY SendOpen, WriteSent

\* Every way to refuse drops Cache-Control before the status goes out.
LEMMA RefuseOpen ==
  ASSUME NEW c, NEW t, NEW r, NEW l, NEW n, NEW shows, NEW navs
  PROVE  /\ \A code \in Nat : BodyAllowed(code) =>
              ReturnHTTPError(Open(c, t, r, l, n, shows, navs), code)
                = Refusal(t, r, l, n, Sendable(code), "error", shows, navs)
         /\ \A code \in Nat : ~BodyAllowed(code) =>
              ReturnHTTPError(Open(c, t, r, l, n, shows, navs), code)
                = Response(Headers("none", t, r, l, n), code, Headers("none", t, r, l, n),
                           <<>>, shows, navs, "none")
         /\ \A code \in Nat \ {0} : BodyAllowed(code) =>
              APIError(Open(c, t, r, l, n, shows, navs), code)
                = Refusal(t, r, l, n, code, "jsonError", shows, navs)
         /\ UpstreamError(Open(c, t, r, l, n, shows, navs), "busy")
              = Refusal(t, "5", l, n, 503, "error", shows, navs)
         /\ \A answer : answer # "busy" =>
              UpstreamError(Open(c, t, r, l, n, shows, navs), answer)
                = Refusal(t, r, l, n, 502, "error", shows, navs)
         /\ Mature(Open(c, t, r, l, n, shows, navs))
              = Refusal(t, r, l, n, 403, "error", shows, navs)
  <1>1. BodyAllowed(403) /\ BodyAllowed(502) /\ BodyAllowed(503) /\ Sendable(503) = 503
    BY DEF BodyAllowed, Sendable
  <1>2. ASSUME NEW code \in Nat \ {0}, BodyAllowed(code), NEW x, NEW kind
        PROVE  Write(WriteHeader(Open("none", t, x, l, n, shows, navs), code), kind)
                 = Refusal(t, x, l, n, code, kind, shows, navs)
    BY <1>2, SendDocument DEF Refusal
  <1>3. ASSUME NEW code \in Nat, BodyAllowed(code), NEW x
        PROVE  ReturnHTTPError(Open(c, t, x, l, n, shows, navs), code)
                 = Refusal(t, x, l, n, Sendable(code), "error", shows, navs)
    <2>1. Sendable(code) \in Nat \ {0} /\ BodyAllowed(Sendable(code))
      BY <1>3 DEF Sendable, BodyAllowed
    <2> QED
      BY <1>2, <2>1, DelOpen DEF ReturnHTTPError
  <1>8. ASSUME NEW code \in Nat, ~BodyAllowed(code)
        PROVE  ReturnHTTPError(Open(c, t, r, l, n, shows, navs), code)
                 = Response(Headers("none", t, r, l, n), code, Headers("none", t, r, l, n),
                            <<>>, shows, navs, "none")
    <2>1. Sendable(code) = code /\ code # 0
      BY <1>8 DEF Sendable, BodyAllowed
    <2>2. ReturnHTTPError(Open(c, t, r, l, n, shows, navs), code)
            = Write(WriteHeader(Open("none", t, r, l, n, shows, navs), code), "error")
      BY <2>1, DelOpen DEF ReturnHTTPError
    <2> QED
      BY <1>8, <2>1, <2>2, SendOpen, WriteBare
  <1>4. UpstreamError(Open(c, t, r, l, n, shows, navs), "busy")
              = Refusal(t, "5", l, n, 503, "error", shows, navs)
    <2>1. \A x : ReturnHTTPError(Open("none", t, x, l, n, shows, navs), 503)
                   = Refusal(t, x, l, n, 503, "error", shows, navs)
      BY <1>1, <1>2, DelOpen DEF ReturnHTTPError
    <2> QED
      BY <2>1, DelOpen, PutOpen DEF UpstreamError
  <1>5. \A code \in Nat \ {0} : BodyAllowed(code) =>
          APIError(Open(c, t, r, l, n, shows, navs), code)
            = Refusal(t, r, l, n, code, "jsonError", shows, navs)
    BY <1>2, DelOpen DEF APIError
  <1>6. \A answer : answer # "busy" =>
          UpstreamError(Open(c, t, r, l, n, shows, navs), answer)
            = Refusal(t, r, l, n, 502, "error", shows, navs)
    BY <1>1, <1>2, DelOpen DEF UpstreamError
  <1>7. Mature(Open(c, t, r, l, n, shows, navs))
          = Refusal(t, r, l, n, 403, "error", shows, navs)
    BY <1>1, <1>2, DelOpen DEF Mature
  <1> QED
    BY <1>3, <1>4, <1>5, <1>6, <1>7, <1>8

\* The refusals of this code, which all have a body.
LEMMA RefuseCodes ==
  ASSUME NEW c, NEW t, NEW r, NEW l, NEW n, NEW shows, NEW navs,
         NEW code \in {400, 403, 404, 429, 502, 503}
  PROVE  /\ ReturnHTTPError(Open(c, t, r, l, n, shows, navs), code)
              = Refusal(t, r, l, n, code, "error", shows, navs)
         /\ APIError(Open(c, t, r, l, n, shows, navs), code)
              = Refusal(t, r, l, n, code, "jsonError", shows, navs)
  <1>1. code \in Nat /\ code \in Nat \ {0} /\ BodyAllowed(code) /\ Sendable(code) = code
    BY DEF BodyAllowed, Sendable
  <1> QED
    BY <1>1, RefuseOpen

\* The language the templates are taken from.
Used(c, lang) == IF lang \in Parsed(c) THEN lang ELSE DefaultLang

\* A page into an open response; without templates a 500 with its headers.
LEMMA PageOpen ==
  ASSUME NEW cf, NEW lang, NEW c, NEW t, NEW r, NEW l, NEW n, NEW shows, NEW navs
  PROVE  LET x == ExecuteTemplate(Open(c, t, r, l, n, shows, navs), cf, lang)
         IN  \/ x = Response(Headers(c, t, r, l, n), 200,
                             Headers(c, Typed(t, "page"), r, l, n), <<"page">>, shows,
                             navs, Used(cf, lang))
             \/ x = Response(Headers(c, t, r, l, n), 500,
                             Headers(c, Typed(t, "plain"), r, l, n), <<"plain">>, shows,
                             navs, "none")
  <1> DEFINE o == Open(c, t, r, l, n, shows, navs)
  <1> DEFINE u == Used(cf, lang)
  <1> DEFINE h == Headers(c, t, r, l, n)
  <1> DEFINE s == Headers(c, Typed(t, "page"), r, l, n)
  <1> DEFINE e == [Write(o, "page") EXCEPT !.lang = u]
  <1>1. Write(o, "page") = Response(h, 200, s, <<"page">>, shows, navs, "none")
    BY WriteOpen
  <1>2. Write(WriteHeader(o, 500), "plain")
          = Response(h, 500, Headers(c, Typed(t, "plain"), r, l, n), <<"plain">>, shows,
                     navs, "none")
    <2>1. BodyAllowed(500)
      BY DEF BodyAllowed
    <2> QED
      BY <2>1, SendDocument
  <1>3. ExecuteTemplate(o, cf, lang) = IF u \in Parsed(cf) THEN e
                                       ELSE Write(WriteHeader(o, 500), "plain")
    BY DEF ExecuteTemplate, Used
  <1> HIDE DEF o, u, h, s
  <1>4. e \in [header : {h}, status : {200}, sent : {s}, body : {<<"page">>},
               shows : {shows}, navs : {navs}, lang : {u}]
    BY <1>1 DEF Response
  <1> HIDE DEF e
  <1>5. e = Response(h, 200, s, <<"page">>, shows, navs, u)
    BY <1>4 DEF Response
  <1> QED
    BY <1>2, <1>3, <1>5 DEF o, u, h, s

\* A page after a document that was sent already: one body, the first status.
LEMMA PageMore ==
  ASSUME NEW cf, NEW lang, NEW h, NEW s, NEW b, b # <<>>, NEW code, code # 0,
         BodyAllowed(code), NEW shows, NEW navs
  PROVE  LET x == ExecuteTemplate(Response(h, code, s, b, shows, navs, "none"), cf, lang)
         IN  \/ x = Response(h, code, s, Append(b, "page"), shows, navs, Used(cf, lang))
             \/ x = Response(h, code, s, Append(b, "plain"), shows, navs, "none")
  <1> DEFINE o == Response(h, code, s, b, shows, navs, "none")
  <1> DEFINE u == Used(cf, lang)
  <1> DEFINE y == Append(b, "page")
  <1> DEFINE e == [Write(o, "page") EXCEPT !.lang = u]
  <1>1. Write(o, "page") = Response(h, code, s, y, shows, navs, "none")
    BY WriteMore
  <1>2. Write(WriteHeader(o, 500), "plain")
          = Response(h, code, s, Append(b, "plain"), shows, navs, "none")
    BY SentOnce, WriteMore
  <1>3. ExecuteTemplate(o, cf, lang) = IF u \in Parsed(cf) THEN e
                                       ELSE Write(WriteHeader(o, 500), "plain")
    BY DEF ExecuteTemplate, Used
  <1> HIDE DEF o, u, y
  <1>4. e \in [header : {h}, status : {code}, sent : {s}, body : {y},
               shows : {shows}, navs : {navs}, lang : {u}]
    BY <1>1 DEF Response
  <1> HIDE DEF e
  <1>5. e = Response(h, code, s, y, shows, navs, u)
    BY <1>4 DEF Response
  <1> QED
    BY <1>2, <1>3, <1>5 DEF o, u, y

-----------------------------------------------------------------------------
(* The properties, of a response by its parts.                             *)

Inv ==
  /\ TypeOK /\ FailuresUncached /\ AnsweredOnce /\ RetryAfterSaid /\ TypeFitsBody
  /\ HiddenStaysHidden /\ VisibleListed /\ BarsLead /\ LanguageAsked

IsRequest(r) ==
  /\ r.type \in Types /\ r.atom \in BOOLEAN /\ r.page \in Int
  /\ r # NoRequest

GoesOnFor(r) ==
  \/ r.ep = "group_user" /\ r.type \notin {"a", "g", "f"}
  \/ r.ep \in {"post", "search", "dd"} /\ PagedFeed(r)

Good == {"page", "json", "feed", "image", "other", "css", "plain"}

\* The types a document of each kind may go out with.
Fit == [page |-> {"html"}, error |-> {"html"}, json |-> {"json"},
        jsonError |-> {"json"}, feed |-> {"atom", "xml"}, image |-> {"image"},
        other |-> {"other"}, css |-> {"css"}, plain |-> {"text"}]

\* The ways a response ends: a refusal, a document, nothing, or the exceptions
\* that AnsweredOnce and FailuresUncached name.
Refused(r, code, c, t, body) ==
  /\ code \in 400..599 /\ c = "none"
  /\ \/ body[1] = "error" /\ t = "html"
     \/ body[1] = "jsonError" /\ t = "json"
  /\ body \in Seq(Kinds) /\ Len(body) >= 1
  /\ Len(body) > 1 => GoesOnFor(r)

Answer(r, code, t, body) ==
  /\ code = 200
  /\ \E kind \in Good : /\ body = <<kind>> /\ t \in Fit[kind]
                        /\ kind = "plain" => r.ep # "media"

Empty(code, body) == code \in {200, 204, 302, 304} /\ body = <<>>

Unparsed(code, t, body) == code = 500 /\ t = "text" /\ body = <<"plain">>

Handed(r, code, c, t, body) ==
  /\ code = r.cdn /\ code < 400 /\ c = "none" /\ t = "html" /\ body = <<"error">>

Unproxied(cf, r, code, c, t, body) ==
  /\ cf.media = "direct" /\ r.ep = "media" /\ code = 403 /\ c = "none" /\ t = "text"
  /\ body = <<"plain">>

Proper(cf, r, code, c, t, body) ==
  \/ Refused(r, code, c, t, body)
  \/ Answer(r, code, t, body)
  \/ Empty(code, body)
  \/ Unparsed(code, t, body)
  \/ Handed(r, code, c, t, body)
  \/ Unproxied(cf, r, code, c, t, body)

RetryRight(r, code, retry) ==
  /\ retry # "none" <=> SaysWhen(r)
  /\ SaysWhen(r) => code \in {429, 503}
  /\ code \in {429, 503} => SaysWhen(r) \/ code = r.cdn

ShowsAllowed(cf, shows) ==
  /\ shows \subseteq Deviations \X Places
  /\ \A s \in shows : s[2] # "blocks" =>
       /\ s[1].nsfw => cf.nsfw
       /\ s[1].ai /\ cf.hideai => s[2] \in {"folder", "cover", "post"}

ListsAll(cf, devs, shows) ==
  \A i \in DOMAIN devs :
    (devs[i].nsfw => cf.nsfw) /\ ~(devs[i].ai /\ cf.hideai) =>
      \E place \in {"list", "feed", "json"} : <<devs[i], place>> \in shows

BarRight(b) ==
  /\ b.page \in Nat \ {0} /\ b.links \subseteq Nat \ {0}
  /\ b.page \in b.numbers \ b.links
  /\ b.page > 1 => b.page - 1 \in b.links
  /\ b.page < b.pages \/ b.more => b.page + 1 \in b.links
  /\ \A l \in b.links : l >= 1 /\ l <= Max({b.pages, IF b.more THEN b.page + 1 ELSE b.page})

LangRight(cf, accept, lang) ==
  LET named == UNION {{t.tag, t.main} : t \in Range(accept)}
  IN  IF cf.language # "auto"
      THEN cf.language \in cf.loaded => lang = cf.language
      ELSE /\ lang # DefaultLang => lang \in named
           /\ lang = DefaultLang /\ DefaultLang \notin named => named \cap cf.loaded = {}

\* A reply whose parts are right is a response as the properties have it.
Right(cf, r, devs, h, code, c, t, retry, l, n, body, shows, navs, lang) ==
  /\ cf \in Instances /\ IsRequest(r) /\ devs \in Seq(Deviations)
  /\ h \in Header /\ code \in 100..599 /\ body \in Seq(Kinds)
  /\ c \in Values /\ t \in Values /\ retry \in Values /\ l \in Values /\ n \in Values
  /\ Proper(cf, r, code, c, t, body) /\ RetryRight(r, code, retry)
  /\ ShowsAllowed(cf, shows)
  /\ code = 200 /\ (r.ep = "api" => body = <<"json">>) => ListsAll(cf, devs, shows)
  /\ \A b \in navs : BarRight(b)
  /\ lang # "none" => LangRight(cf, r.accept, lang)

LEMMA ReplyKeeps ==
  ASSUME NEW r, NEW devs, NEW h, NEW code, NEW c, NEW t, NEW retry, NEW l, NEW n,
         NEW body, NEW shows, NEW navs, NEW lang,
         Right(cfg, r, devs, h, code, c, t, retry, l, n, body, shows, navs, lang),
         Reply(r, devs, Response(h, code, Headers(c, t, retry, l, n), body, shows, navs,
                                 lang))
  PROVE  Inv'
  <1>0. /\ cfg \in Instances /\ IsRequest(r) /\ devs \in Seq(Deviations)
        /\ h \in Header /\ code \in Int /\ code \in 100..599 /\ body \in Seq(Kinds)
        /\ c \in Values /\ t \in Values /\ retry \in Values /\ l \in Values
        /\ n \in Values /\ Proper(cfg, r, code, c, t, body)
        /\ RetryRight(r, code, retry)
        /\ ShowsAllowed(cfg, shows)
        /\ code = 200 /\ (r.ep = "api" => body = <<"json">>) => ListsAll(cfg, devs, shows)
        /\ \A b \in navs : BarRight(b)
        /\ lang # "none" => LangRight(cfg, r.accept, lang)
    BY DEF Right
  <1> DEFINE s == Headers(c, t, retry, l, n)
  <1>1. s \in Header /\ s.cache = c /\ s.type = t /\ s.retry = retry
    BY <1>0, HeaderFields
  <1> HIDE DEF s
  <1>2. cfg' = cfg /\ q' = r /\ got' = devs
    BY DEF Reply
  <1>3. w' = Response(h, code, s, body, shows, navs, lang)
    BY <1>0, SentOnce DEF Reply, Served, s
  <1>4. /\ w'.header = h /\ w'.status = code /\ w'.sent = s /\ w'.body = body
        /\ w'.shows = shows /\ w'.navs = navs /\ w'.lang = lang
    BY <1>3 DEF Response
  <1>5. TypeOK'
    <2>1. w'.status # 0 /\ q' # NoRequest /\ w'.status \in {0} \cup 100..599
      <3>1. code \in 100..599
        BY <1>0
      <3>2. code # 0 /\ code \in {0} \cup 100..599
        BY <3>1
      <3>3. r # NoRequest
        BY <1>0, Zenon DEF IsRequest
      <3>4. w'.status = code /\ q' = r
        BY <1>2, <1>4
      <3> QED
        BY <3>2, <3>3, <3>4, Zenon
    <2>2. /\ cfg' \in Instances
          /\ q'.type \in Types /\ q'.atom \in BOOLEAN /\ q'.page \in Int
          /\ got' \in Seq(Deviations)
      BY <1>0, <1>2 DEF IsRequest
    <2>3. w'.header \in Header /\ w'.sent \in Header /\ w'.body \in Seq(Kinds)
      BY <1>0, <1>1, <1>4
    <2>4. w'.shows \subseteq Deviations \X Places
      BY <1>0, <1>4 DEF ShowsAllowed
    <2>5. \A b \in w'.navs : b.page \in Nat \ {0} /\ b.links \subseteq Nat \ {0}
      BY <1>0, <1>4 DEF BarRight
    <2> QED
      BY <2>1, <2>2, <2>3, <2>4, <2>5 DEF TypeOK, Answered
  <1>6. FailuresUncached'
    BY <1>0, <1>1, <1>2, <1>4
       DEF FailuresUncached, NotParsed, Proper, Refused, Answer, Empty, Unparsed,
           Handed, Unproxied, Good
  <1>7. AnsweredOnce'
    <2>1. Len(body) > 1 => GoesOnFor(r)
      <3>1. ASSUME NEW kind, body = <<kind>> PROVE ~(Len(body) > 1)
        BY <3>1
      <3>2. body = <<>> => ~(Len(body) > 1)
        OBVIOUS
      <3>3. Refused(r, code, c, t, body) => (Len(body) > 1 => GoesOnFor(r))
        BY DEF Refused
      <3>4. ~Refused(r, code, c, t, body) => \/ body = <<>>
                                                   \/ \E kind : body = <<kind>>
        BY <1>0 DEF Proper, Answer, Empty, Unparsed, Handed, Unproxied
      <3> QED
        BY <3>1, <3>2, <3>3, <3>4
    <2>3. GoesOnFor(r) => GoesOn'
      BY <1>0, <1>2 DEF GoesOn, GoesOnFor, PagedFeed
    <2>2. ASSUME body # <<>>, ~NotParsed', ~PassedOn'
          PROVE  (body[1] \in {"error", "jsonError"} \/ NoProxy') <=> code >= 400
      <3>1. NoProxy' <=> cfg.media = "direct" /\ body = <<"plain">> /\ r.ep = "media"
        BY <1>2, <1>4 DEF NoProxy
      <3>2. ~(code = 500 /\ body = <<"plain">>)
        BY <1>4, <2>2 DEF NotParsed
      <3>3. ~Handed(r, code, c, t, body)
        BY <1>2, <1>4, <2>2 DEF PassedOn, Handed
      <3>4. CASE Refused(r, code, c, t, body)
        BY <3>4 DEF Refused
      <3>5. CASE Answer(r, code, t, body)
        <4>1. PICK kind \in Good : body = <<kind>> /\ (kind = "plain" => r.ep # "media")
          BY <3>5 DEF Answer
        <4>2. body[1] = kind /\ (body = <<"plain">> => kind = "plain")
          BY <4>1
        <4> QED
          BY <3>1, <3>5, <4>1, <4>2 DEF Answer, Good
      <3>6. CASE Unproxied(cfg, r, code, c, t, body)
        BY <3>1, <3>6 DEF Unproxied
      <3> QED
        BY <1>0, <2>2, <3>2, <3>3, <3>4, <3>5, <3>6 DEF Proper, Empty, Unparsed
    <2> QED
      BY <1>4, <2>1, <2>2, <2>3 DEF AnsweredOnce
  <1>8. RetryAfterSaid'
    BY <1>0, <1>1, <1>2, <1>4
       DEF RetryAfterSaid, Answered, IsRequest, RetryRight, SaysWhen
  <1>9. TypeFitsBody'
    BY <1>0, <1>1, <1>2, <1>4
       DEF TypeFitsBody, Proper, Refused, Answer, Empty, Unparsed, Handed, Unproxied,
           Good, Fit
  <1>10. HiddenStaysHidden'
    BY <1>0, <1>2, <1>4 DEF HiddenStaysHidden, ShowsAllowed
  <1>11. VisibleListed'
    BY <1>0, <1>2, <1>4 DEF VisibleListed, ListsAll
  <1>12. BarsLead'
    BY <1>0, <1>4 DEF BarsLead, BarRight
  <1>13. LanguageAsked'
    BY <1>0, <1>2, <1>4 DEF LanguageAsked, LangRight
  <1> QED
    BY <1>5, <1>6, <1>7, <1>8, <1>9, <1>10, <1>11, <1>12, <1>13 DEF Inv

-----------------------------------------------------------------------------
(* What a page shows.                                                      *)

LEMMA MaxOfTwo ==
  ASSUME NEW a \in Int, NEW b \in Int
  PROVE  Max({a, b}) = IF a >= b THEN a ELSE b
  <1>1. IsFiniteSet({a, b})
    <2>1. IsFiniteSet({a}) /\ {a, b} = {a} \cup {b}
      BY FS_Singleton
    <2> QED
      BY <2>1, FS_AddElement
  <1>2. Max({a, b}) \in {a, b} /\ \A y \in {a, b} : Max({a, b}) >= y
    BY <1>1, MaxIsGreatest
  <1> QED
    BY <1>2

\* A bar holds the page it is on, the ones beside it, and none out of range.
LEMMA BarIsRight ==
  ASSUME NEW page \in Int, NEW pages \in Int, NEW more \in BOOLEAN
  PROVE  BarRight(NavBase(page, pages, more))
  <1> DEFINE p == BarPage(page)
  <1> DEFINE first == Max({1, p - 6})
  <1> DEFINE last == LastPage(pages, p)
  <1> DEFINE numbers == {i \in first..last : i <= p + 6 /\ i - first < 12}
  <1> DEFINE links == (numbers \ {p}) \cup (IF p > 1 THEN {p - 1} ELSE {})
                        \cup (IF more THEN {p + 1} ELSE {})
  <1> DEFINE b == NavBase(page, pages, more)
  <1>1. p \in Int /\ p >= 1
    BY DEF BarPage
  <1>2. /\ b.page = p /\ b.pages = pages /\ b.more = more /\ b.numbers = numbers
        /\ b.links = links
    BY DEF NavBase
  <1> HIDE DEF p, b
  <1>3. first = IF 1 >= p - 6 THEN 1 ELSE p - 6
    BY <1>1, MaxOfTwo
  <1>4. last = IF pages >= p THEN pages ELSE p
    BY <1>1, MaxOfTwo DEF LastPage
  <1>5. /\ first \in Int /\ last \in Int /\ 1 <= first /\ first <= p /\ p - first <= 6
        /\ p <= last /\ (p < pages => p + 1 <= last)
    BY <1>1, <1>3, <1>4
  <1> HIDE DEF first, last
  <1>6. p \in numbers /\ (p < pages => p + 1 \in numbers)
    BY <1>1, <1>5
  <1>7. \A i \in numbers : i \in Int /\ 1 <= i /\ i <= last
    BY <1>5
  <1> HIDE DEF numbers
  <1>8. p \in numbers \ links
    BY <1>1, <1>6
  <1>9. /\ p > 1 => p - 1 \in links
        /\ p < pages \/ more => p + 1 \in links
    BY <1>1, <1>6
  <1>10. \A i \in links : /\ i \in Int /\ 1 <= i
                          /\ i <= last \/ (more /\ i = p + 1)
    <2>1. \A i \in numbers \ {p} : i \in Int /\ 1 <= i /\ i <= last
      BY <1>7
    <2>2. p > 1 => p - 1 \in Int /\ 1 <= p - 1 /\ p - 1 <= last
      BY <1>1, <1>5
    <2>3. p + 1 \in Int /\ 1 <= p + 1
      BY <1>1
    <2> QED
      BY <2>1, <2>2, <2>3
  <1>11. Max({pages, IF more THEN p + 1 ELSE p})
           = IF pages >= (IF more THEN p + 1 ELSE p) THEN pages
             ELSE (IF more THEN p + 1 ELSE p)
    BY <1>1, MaxOfTwo
  <1>12. \A i \in links : i <= Max({pages, IF more THEN p + 1 ELSE p})
    BY <1>1, <1>4, <1>10, <1>11
  <1>13. p \in Nat \ {0} /\ links \subseteq Nat \ {0} /\ \A i \in links : i >= 1
    BY <1>1, <1>10
  <1> HIDE DEF links
  <1>14. b.page \in Nat \ {0} /\ b.links \subseteq Nat \ {0} /\ b.page \in b.numbers \ b.links
    BY <1>2, <1>8, <1>13
  <1>15. /\ b.page > 1 => b.page - 1 \in b.links
         /\ b.page < b.pages \/ b.more => b.page + 1 \in b.links
    BY <1>2, <1>9
  <1>16. \A i \in b.links : i >= 1 /\ i <= Max({b.pages, IF b.more THEN b.page + 1 ELSE b.page})
    BY <1>2, <1>12, <1>13
  <1> QED
    BY <1>14, <1>15, <1>16 DEF BarRight, b

\* The list, feed or JSON of the visible part of a list is allowed, and whole.
LEMMA ShownIsRight ==
  ASSUME NEW cf \in Instances, NEW devs \in Seq(Deviations), NEW place \in Places
  PROVE  /\ Shown(cf, devs) \subseteq Deviations
         /\ ShowsAllowed(cf, {<<d, place>> : d \in Shown(cf, devs)})
         /\ place \in {"list", "feed", "json"} =>
              ListsAll(cf, devs, {<<d, place>> : d \in Shown(cf, devs)})
  <1>1. \A i \in DOMAIN devs : devs[i] \in Deviations
    BY ElementOfSeq
  <1>2. cf.nsfw \in BOOLEAN /\ cf.hideai \in BOOLEAN
    BY RequestsAssumption
  <1>3. \A d \in Shown(cf, devs) : /\ d \in Deviations
                                   /\ d.nsfw => cf.nsfw
                                   /\ ~(d.ai /\ cf.hideai)
    BY <1>1 DEF Shown, Visible, Range
  <1>4. \A i \in DOMAIN devs :
          (devs[i].nsfw => cf.nsfw) /\ ~(devs[i].ai /\ cf.hideai)
             => devs[i] \in Shown(cf, devs)
    BY DEF Shown, Visible, Range
  <1> QED
    BY <1>3, <1>4 DEF ShowsAllowed, ListsAll

\* The language a page comes in is one that was asked for.
LEMMA LangIsRight ==
  ASSUME NEW cf \in Instances, NEW accept \in Seq([tag : STRING, main : STRING])
  PROVE  LangRight(cf, accept, Used(cf, ResolveLang(cf, accept)))
  <1> DEFINE hits == {i \in DOMAIN accept : Accepted(cf, accept[i])}
  <1> DEFINE t == accept[Min(hits)]
  <1> DEFINE lang == ResolveLang(cf, accept)
  <1> DEFINE named == UNION {{x.tag, x.main} : x \in Range(accept)}
  <1>1. DOMAIN accept = 1..Len(accept) /\ Len(accept) \in Nat
    BY LenProperties
  <1>2. \A i \in DOMAIN accept : {accept[i].tag, accept[i].main} \subseteq named
    BY DEF Range
  <1>3. CASE cf.language # "auto"
    BY <1>3 DEF LangRight, ResolveLang, Used, Parsed
  <1>4. CASE cf.language = "auto" /\ hits = {}
    <2>1. lang = DefaultLang
      BY <1>4 DEF ResolveLang
    <2>2. named \cap cf.loaded = {}
      BY <1>4 DEF Accepted, Range
    <2>3. Used(cf, lang) = DefaultLang
      BY <2>1 DEF Used
    <2> QED
      BY <1>4, <2>2, <2>3 DEF LangRight
  <1>5. CASE cf.language = "auto" /\ hits # {}
    <2>1. Min(hits) \in hits
      <3>1. IsFiniteSet(hits)
        <4>1. IsFiniteSet(1..Len(accept)) /\ hits \subseteq 1..Len(accept)
          BY <1>1, FS_Interval
        <4> HIDE DEF hits
        <4> QED
          BY <4>1, FS_Subset
      <3>2. \A i \in hits : i \in Int
        BY <1>1
      <3> HIDE DEF hits
      <3> QED
        BY <1>5, <3>1, <3>2, MinIsLeast
    <2>2. lang = IF t.tag \in cf.loaded THEN t.tag ELSE t.main
      BY <1>5 DEF ResolveLang
    <2>3. lang \in named /\ lang \in cf.loaded
      BY <1>2, <2>1, <2>2 DEF Accepted
    <2>4. Used(cf, ResolveLang(cf, accept)) = lang
      BY <2>3 DEF Used, Parsed
    <2> HIDE DEF lang, hits, t
    <2> QED
      BY <1>5, <2>3, <2>4 DEF LangRight
  <1> QED
    BY <1>3, <1>4, <1>5

-----------------------------------------------------------------------------
(* Replies.                                                                *)

\* A page in the making: what it shows so far.
Showing(shows, navs) == Open("page", "none", "none", "none", "none", shows, navs)

LEMMA StartIs == Start = Showing({}, {})
  BY BlankOpen, PutOpen DEF Start, Showing

LEMMA Requested ==
  ASSUME NEW ep, ep # "none", NEW type \in Types, NEW atom \in BOOLEAN, NEW page \in Int
  PROVE  LET r == Request(ep, type, atom, page)
         IN  /\ IsRequest(r) /\ r.ep = ep /\ r.type = type /\ r.atom = atom
             /\ r.page = page /\ r.accept = <<>> /\ r.cdn = 0 /\ ~SaysWhen(r)
  BY DEF Request, IsRequest, NoRequest, SaysWhen

LEMMA PlainRequested ==
  ASSUME NEW ep, ep # "none"
  PROVE  /\ IsRequest(Plain(ep)) /\ Plain(ep).ep = ep /\ Plain(ep).accept = <<>>
         /\ Plain(ep).cdn = 0 /\ ~SaysWhen(Plain(ep))
  <1> DEFINE r == Plain(ep)
  <1>1. /\ r.ep = ep /\ r.type = "" /\ r.page = 0 /\ r.accept = <<>>
        /\ NoRequest.ep = "none" /\ r.load = "no" /\ r.cdn = 0
    BY DEF Plain, Request, NoRequest
  <1>3. r.atom \in BOOLEAN
    BY DEF Plain, Request
  <1> HIDE DEF r
  <1>4. r.type \in Types /\ r.page \in Int
    <2>1. "" \in Types /\ 0 \in Int
      BY DEF Types
    <2> QED
      BY <1>1, <2>1, Zenon
  <1>2. IsRequest(r)
    BY <1>1, <1>3, <1>4, Zenon DEF IsRequest
  <1>5. ~SaysWhen(r)
    BY <1>1 DEF SaysWhen
  <1> QED
    BY <1>1, <1>2, <1>5 DEF r

\* A request of any endpoint is none of those between two requests.
LEMMA PartsRequest ==
  ASSUME NEW r, r.ep # "none", r.type \in Types, r.atom = FALSE, r.page \in Int
  PROVE  IsRequest(r)
  <1>1. NoRequest.ep = "none"
    BY DEF NoRequest, Request
  <1> QED
    BY <1>1 DEF IsRequest

LEMMA SomeValues ==
  /\ "none" \in Values /\ "page" \in Values /\ "assets" \in Values /\ "media" \in Values
  /\ "json" \in Values /\ "atom" \in Values /\ "css" \in Values /\ "text" \in Values
  /\ "html" \in Values /\ "xml" \in Values /\ "image" \in Values /\ "other" \in Values
  /\ "5" \in Values /\ "60" \in Values /\ "artwork" \in Values /\ "given" \in Values
  /\ \A kind \in Kinds : Sniffed[kind] \in Values
  BY DEF Values, Kinds, Sniffed

\* A request that was not refused for load by a page.
Asked(cf, r, devs) ==
  cf \in Instances /\ IsRequest(r) /\ devs \in Seq(Deviations) /\ ~SaysWhen(r)

CanRefuse(cf, r, devs, t, retry, l, n, code, kind, shows) ==
  /\ cf \in Instances /\ IsRequest(r) /\ devs \in Seq(Deviations)
  /\ t \in Values /\ retry \in Values /\ l \in Values /\ n \in Values
  /\ code \in 400..599
  /\ RetryRight(r, code, retry)
  /\ \/ kind = "error" /\ Typed(t, kind) = "html"
     \/ kind = "jsonError" /\ Typed(t, kind) = "json"
  /\ ShowsAllowed(cf, shows)

LEMMA RefusalReply ==
  ASSUME NEW r, NEW devs, NEW t, NEW retry, NEW l, NEW n, NEW code, NEW kind, NEW shows,
         CanRefuse(cfg, r, devs, t, retry, l, n, code, kind, shows),
         Reply(r, devs, Refusal(t, retry, l, n, code, kind, shows, {}))
  PROVE  Inv'
  <1> USE DEF CanRefuse
  <1> DEFINE h == Headers("none", t, retry, l, n)
  <1> DEFINE x == Typed(t, kind)
  <1> DEFINE body == <<kind>>
  <1>1. h \in Header /\ x \in Values /\ "none" \in Values
    BY HeaderFields, SomeValues
  <1>2. Reply(r, devs, Response(h, code, Headers("none", x, retry, l, n), body, shows, {},
                                "none"))
    BY DEF Refusal
  <1>3. body \in Seq(Kinds) /\ Len(body) = 1 /\ body[1] = kind
    BY KindsListed DEF KindsAre
  <1>4. Refused(r, code, "none", x, body)
    BY <1>3 DEF Refused
  <1>5. Proper(cfg, r, code, "none", x, body)
    BY <1>4 DEF Proper
  <1>6. code # 200 /\ code \in 100..599
    OBVIOUS
  <1> HIDE DEF h, x, body
  <1>7. Right(cfg, r, devs, h, code, "none", x, retry, l, n, body, shows, {},
               "none")
    BY <1>1, <1>3, <1>5, <1>6 DEF Right
  <1> QED
    BY <1>2, <1>7, ReplyKeeps

\* A document of its own type.
CanAnswer(cf, r, devs, c, t, l, n, kind, shows) ==
  /\ Asked(cf, r, devs)
  /\ c \in Values /\ t \in Values /\ l \in Values /\ n \in Values
  /\ kind \in Good /\ Typed(t, kind) \in Fit[kind]
  /\ kind = "plain" => r.ep # "media"
  /\ ShowsAllowed(cf, shows)
  /\ (r.ep = "api" => kind = "json") => ListsAll(cf, devs, shows)

LEMMA DocumentReply ==
  ASSUME NEW r, NEW devs, NEW c, NEW t, NEW l, NEW n, NEW kind, NEW shows,
         CanAnswer(cfg, r, devs, c, t, l, n, kind, shows),
         Reply(r, devs, Response(Headers(c, t, "none", l, n), 200,
                                 Headers(c, Typed(t, kind), "none", l, n), <<kind>>, shows,
                                 {}, "none"))
  PROVE  Inv'
  <1> USE DEF CanAnswer, Asked
  <1> DEFINE h == Headers(c, t, "none", l, n)
  <1> DEFINE x == Typed(t, kind)
  <1> DEFINE body == <<kind>>
  <1>1. "none" \in Values /\ kind \in Kinds
    BY SomeValues, KindsListed DEF KindsAre, Good
  <1>2. h \in Header /\ x \in Values
    BY <1>1, HeaderFields, SomeValues DEF Typed
  <1>3. body \in Seq(Kinds)
    BY <1>1
  <1>4. Proper(cfg, r, 200, c, x, body) /\ RetryRight(r, 200, "none")
    BY DEF Proper, Answer, RetryRight
  <1>5. r.ep = "api" /\ body = <<"json">> => kind = "json"
    OBVIOUS
  <1> HIDE DEF h, x
  <1>6. Reply(r, devs, Response(h, 200, Headers(c, x, "none", l, n), body, shows, {},
                                "none"))
    BY DEF h, x
  <1>7. 200 = 200 /\ (r.ep = "api" => body = <<"json">>) => ListsAll(cfg, devs, shows)
    BY <1>5
  <1>8. 200 \in 100..599
    OBVIOUS
  <1> HIDE DEF body
  <1>9. Right(cfg, r, devs, h, 200, c, x, "none", l, n, body, shows, {}, "none")
    BY <1>1, <1>2, <1>3, <1>4, <1>7, <1>8 DEF Right
  <1> QED
    BY <1>6, <1>9, ReplyKeeps

LEMMA WriteReply ==
  ASSUME NEW r, NEW devs, NEW c, NEW t, NEW l, NEW n, NEW kind, NEW shows,
         CanAnswer(cfg, r, devs, c, t, l, n, kind, shows),
         Reply(r, devs, Write(Open(c, t, "none", l, n, shows, {}), kind))
  PROVE  Inv'
  <1>1. Write(Open(c, t, "none", l, n, shows, {}), kind)
          = Response(Headers(c, t, "none", l, n), 200,
                     Headers(c, Typed(t, kind), "none", l, n), <<kind>>, shows, {}, "none")
    BY WriteOpen
  <1>2. Reply(r, devs, Response(Headers(c, t, "none", l, n), 200,
                                Headers(c, Typed(t, kind), "none", l, n), <<kind>>, shows,
                                {}, "none"))
    BY <1>1
  <1> QED
    BY <1>2, DocumentReply

\* A page, or the 500 of templates that were never parsed.
CanPage(cf, r, devs, shows, navs) ==
  /\ Asked(cf, r, devs) /\ r.ep # "api"
  /\ r.accept \in Seq([tag : STRING, main : STRING])
  /\ ShowsAllowed(cf, shows) /\ ListsAll(cf, devs, shows)
  /\ \A b \in navs : BarRight(b)

LEMMA PageReply ==
  ASSUME NEW r, NEW devs, NEW shows, NEW navs, CanPage(cfg, r, devs, shows, navs),
         Reply(r, devs, Page(Showing(shows, navs), r))
  PROVE  Inv'
  <1> USE DEF CanPage, Asked
  <1> DEFINE h == Headers("page", "none", "none", "none", "none")
  <1> DEFINE lang == Used(cfg, ResolveLang(cfg, r.accept))
  <1>1. /\ "none" \in Values /\ "page" \in Values /\ "html" \in Values
        /\ "text" \in Values /\ h \in Header
    BY SomeValues, HeaderFields
  <1>2. Typed("none", "page") = "html" /\ Typed("none", "plain") = "text"
    BY DEF Typed, Sniffed
  <1>3. LangRight(cfg, r.accept, lang)
    BY LangIsRight
  <1> HIDE DEF lang
  <1>4. LET x == Page(Showing(shows, navs), r)
        IN  \/ x = Response(h, 200, Headers("page", "html", "none", "none", "none"),
                            <<"page">>, shows, navs, lang)
            \/ x = Response(h, 500, Headers("page", "text", "none", "none", "none"),
                            <<"plain">>, shows, navs, "none")
    BY <1>2, PageOpen DEF Page, Showing, lang
  <1>5. /\ Proper(cfg, r, 200, "page", "html", <<"page">>)
        /\ Proper(cfg, r, 500, "page", "text", <<"plain">>)
        /\ RetryRight(r, 200, "none") /\ RetryRight(r, 500, "none")
    BY DEF Proper, Answer, Unparsed, Good, Fit, RetryRight
  <1>6. <<"page">> \in Seq(Kinds) /\ <<"plain">> \in Seq(Kinds)
    BY KindsListed DEF KindsAre
  <1>7. 200 \in 100..599 /\ 500 \in 100..599
    OBVIOUS
  <1>8. CASE Reply(r, devs, Response(h, 200,
                                     Headers("page", "html", "none", "none", "none"),
                                     <<"page">>, shows, navs, lang))
    <2> HIDE DEF h
    <2>1. Right(cfg, r, devs, h, 200, "page", "html", "none", "none", "none", <<"page">>,
                shows, navs, lang)
      BY <1>1, <1>3, <1>5, <1>6, <1>7 DEF Right
    <2> QED
      BY <1>8, <2>1, ReplyKeeps
  <1>9. CASE Reply(r, devs, Response(h, 500,
                                     Headers("page", "text", "none", "none", "none"),
                                     <<"plain">>, shows, navs, "none"))
    <2> HIDE DEF h
    <2>1. Right(cfg, r, devs, h, 500, "page", "text", "none", "none", "none", <<"plain">>,
                shows, navs, "none")
      BY <1>1, <1>5, <1>6, <1>7 DEF Right
    <2> QED
      BY <1>9, <2>1, ReplyKeeps
  <1> QED
    BY <1>4, <1>8, <1>9

\* A refusal that the handler goes on after, with a page into the same body.
CanGoOn(cf, r, devs, shows, navs) ==
  /\ Asked(cf, r, devs) /\ GoesOnFor(r)
  /\ r.accept = <<>>
  /\ ShowsAllowed(cf, shows)
  /\ \A b \in navs : BarRight(b)

LEMMA PageAfterRefusal ==
  ASSUME NEW r, NEW devs, NEW shows, NEW navs, CanGoOn(cfg, r, devs, shows, navs),
         Reply(r, devs, Page(Refusal("none", "none", "none", "none", 400, "error", shows,
                                     navs), r))
  PROVE  Inv'
  <1> USE DEF CanGoOn, Asked
  <1> DEFINE h == Headers("none", "none", "none", "none", "none")
  <1> DEFINE s == Headers("none", "html", "none", "none", "none")
  <1> DEFINE lang == Used(cfg, ResolveLang(cfg, r.accept))
  <1> DEFINE b == <<"error">>
  <1>1. "none" \in Values /\ "html" \in Values /\ h \in Header
    BY SomeValues, HeaderFields
  <1>2. Typed("none", "error") = "html"
    BY DEF Typed, Sniffed
  <1>3. LangRight(cfg, r.accept, lang)
    <2>1. <<>> \in Seq([tag : STRING, main : STRING])
      OBVIOUS
    <2> QED
      BY <2>1, LangIsRight
  <1> HIDE DEF lang
  <1>4. PICK lg \in {"none", lang}, last \in {"page", "plain"} :
          Page(Response(h, 400, s, b, shows, navs, "none"), r)
            = Response(h, 400, s, Append(b, last), shows, navs, lg)
    <2>1. b # <<>> /\ BodyAllowed(400)
      BY DEF BodyAllowed
    <2> HIDE DEF b, h, s
    <2> QED
      BY <2>1, PageMore DEF Page, lang
  <1> DEFINE body == Append(b, last)
  <1>5. body \in Seq(Kinds) /\ Len(body) = 2 /\ body[1] = "error"
    BY <1>4, KindsListed DEF KindsAre
  <1>6. Proper(cfg, r, 400, "none", "html", body) /\ RetryRight(r, 400, "none")
    BY <1>5 DEF Proper, Refused, RetryRight
  <1>7. Reply(r, devs, Response(h, 400, s, body, shows, navs, lg))
    BY <1>2, <1>4 DEF Refusal
  <1>8. 400 \in 100..599 /\ ~(400 = 200)
    OBVIOUS
  <1> HIDE DEF h, body
  <1>9. lg # "none" => LangRight(cfg, r.accept, lg)
    BY <1>3
  <1>10. Right(cfg, r, devs, h, 400, "none", "html", "none", "none", "none", body, shows,
               navs, lg)
    BY <1>1, <1>5, <1>6, <1>8, <1>9 DEF Right
  <1> QED
    BY <1>7, <1>10, ReplyKeeps

LEMMA NothingShown == ShowsAllowed(cfg, {})
  BY DEF ShowsAllowed

\* The refusals of a page before it has shown anything.
StartRefusal(x) ==
  \/ x = ReturnHTTPError(Start, 400) \/ x = ReturnHTTPError(Start, 404)
  \/ x = UpstreamError(Start, "refused")
  \/ x = Mature(Start)

LEMMA StartRefusals ==
  ASSUME NEW r, NEW devs, NEW x, Asked(cfg, r, devs), StartRefusal(x), Reply(r, devs, x)
  PROVE  Inv'
  <1> DEFINE Refuse(code) ==
               Refusal("none", "none", "none", "none", code, "error", {}, {})
  <1>1. Typed("none", "error") = "html"
    BY DEF Typed, Sniffed
  <1>2. /\ CanRefuse(cfg, r, devs, "none", "none", "none", "none", 400, "error", {})
        /\ CanRefuse(cfg, r, devs, "none", "none", "none", "none", 403, "error", {})
        /\ CanRefuse(cfg, r, devs, "none", "none", "none", "none", 404, "error", {})
        /\ CanRefuse(cfg, r, devs, "none", "none", "none", "none", 502, "error", {})
    BY <1>1, NothingShown, SomeValues DEF CanRefuse, Asked, RetryRight
  <1>3. /\ ReturnHTTPError(Start, 400) = Refuse(400)
        /\ ReturnHTTPError(Start, 404) = Refuse(404)
        /\ UpstreamError(Start, "refused") = Refuse(502)
        /\ Mature(Start) = Refuse(403)
    BY StartIs, RefuseOpen, RefuseCodes DEF Showing
  <1>4. \/ Reply(r, devs, Refuse(400)) \/ Reply(r, devs, Refuse(404))
        \/ Reply(r, devs, Refuse(502)) \/ Reply(r, devs, Refuse(403))
    BY <1>3 DEF StartRefusal
  <1> QED
    BY <1>2, <1>4, RefusalReply

LEMMA StartAPIIs == StartAPI = Open("page", "json", "none", "none", "none", {}, {})
  BY StartIs, PutOpen DEF StartAPI, Showing

APIRefusal(x) ==
  \/ x = APIError(StartAPI, 400) \/ x = APIError(StartAPI, 403)
  \/ x = APIError(StartAPI, 404) \/ x = APIError(StartAPI, 502)

LEMMA APIRefusals ==
  ASSUME NEW r, NEW devs, NEW x, Asked(cfg, r, devs), APIRefusal(x), Reply(r, devs, x)
  PROVE  Inv'
  <1> DEFINE Refuse(code) ==
               Refusal("json", "none", "none", "none", code, "jsonError", {}, {})
  <1>1. Typed("json", "jsonError") = "json"
    BY DEF Typed
  <1>2. /\ CanRefuse(cfg, r, devs, "json", "none", "none", "none", 400, "jsonError", {})
        /\ CanRefuse(cfg, r, devs, "json", "none", "none", "none", 403, "jsonError", {})
        /\ CanRefuse(cfg, r, devs, "json", "none", "none", "none", 404, "jsonError", {})
        /\ CanRefuse(cfg, r, devs, "json", "none", "none", "none", 502, "jsonError", {})
    BY <1>1, NothingShown, SomeValues DEF CanRefuse, Asked, RetryRight
  <1>3. /\ APIError(StartAPI, 400) = Refuse(400) /\ APIError(StartAPI, 403) = Refuse(403)
        /\ APIError(StartAPI, 404) = Refuse(404) /\ APIError(StartAPI, 502) = Refuse(502)
    BY StartAPIIs, RefuseCodes
  <1>4. \/ Reply(r, devs, Refuse(400)) \/ Reply(r, devs, Refuse(403))
        \/ Reply(r, devs, Refuse(404)) \/ Reply(r, devs, Refuse(502))
    BY <1>3 DEF APIRefusal
  <1> QED
    BY <1>2, <1>4, RefusalReply

LEMMA PlainAsked ==
  ASSUME cfg \in Instances, NEW ep, ep # "none"
  PROVE  Asked(cfg, Plain(ep), <<>>)
  BY PlainRequested DEF Asked

LEMMA RequestAsked ==
  ASSUME cfg \in Instances, NEW ep, ep # "none", NEW type \in Types, NEW atom \in BOOLEAN,
         NEW page \in Int, NEW devs \in Seq(Deviations)
  PROVE  Asked(cfg, Request(ep, type, atom, page), devs)
  BY Requested DEF Asked

\* A call that ended in e, where the answer names no time.
LEMMA ToldAsked ==
  ASSUME cfg \in Instances, NEW ep, ep # "none", NEW type \in Types, NEW page \in Int,
         NEW e, \/ e # "busy"
                \/ ep \notin {"post", "search", "dd", "group_user"}
                \/ ep = "search" /\ type = "r"
  PROVE  Asked(cfg, Told(Request(ep, type, FALSE, page), e), <<>>)
  <1> DEFINE r == Told(Request(ep, type, FALSE, page), e)
  <1>1. /\ IsRequest(r) /\ r.ep = ep /\ r.type = type
        /\ e = "busy" => r.load = "shed"
        /\ e # "busy" => r.load = "no"
    <2>1. /\ r.ep = ep /\ r.type = type /\ r.page = page /\ r.atom = FALSE
          /\ r.load = IF e = "busy" THEN "shed" ELSE "no"
      BY DEF Told, Request
    <2> HIDE DEF r
    <2> QED
      BY <2>1, PartsRequest
  <1> HIDE DEF r
  <1>2. ~SaysWhen(r)
    BY <1>1 DEF SaysWhen
  <1>3. <<>> \in Seq(Deviations)
    OBVIOUS
  <1>4. Asked(cfg, r, <<>>)
    BY <1>1, <1>2, <1>3 DEF Asked
  <1> QED
    BY <1>4 DEF r

\* skunkyart.Error: a shed request is told when to come back, another is not.
LEMMA UpstreamReply ==
  ASSUME cfg \in Instances, NEW ep \in {"post", "search", "dd", "group_user"},
         NEW type \in Types, ep = "search" => type # "r", NEW e \in Errors,
         Reply(Told(Request(ep, type, FALSE, 0), e), <<>>, UpstreamError(Start, e))
  PROVE  Inv'
  <1> DEFINE r == Told(Request(ep, type, FALSE, 0), e)
  <1>0. 0 \in Int /\ ep # "none" /\ <<>> \in Seq(Deviations)
    OBVIOUS
  <1>1. /\ IsRequest(r) /\ r.ep = ep /\ r.type = type
        /\ e = "busy" => r.load = "shed"
        /\ e # "busy" => r.load = "no"
    <2>1. /\ r.ep = ep /\ r.type = type /\ r.page = 0 /\ r.atom = FALSE
          /\ r.load = IF e = "busy" THEN "shed" ELSE "no"
      BY DEF Told, Request
    <2> HIDE DEF r
    <2> QED
      BY <1>0, <2>1, PartsRequest
  <1>2. CASE e = "busy"
    <2> HIDE DEF r
    <2>1. SaysWhen(r)
      BY <1>1, <1>2 DEF SaysWhen
    <2>2. Typed("none", "error") = "html"
      BY DEF Typed, Sniffed
    <2>3. RetryRight(r, 503, "5")
      BY <2>1 DEF RetryRight
    <2>4. CanRefuse(cfg, r, <<>>, "none", "5", "none", "none", 503, "error", {})
      BY <1>0, <1>1, <2>2, <2>3, NothingShown, SomeValues DEF CanRefuse
    <2>5. UpstreamError(Start, "busy")
            = Refusal("none", "5", "none", "none", 503, "error", {}, {})
      BY StartIs, RefuseOpen DEF Showing
    <2>6. Reply(r, <<>>, Refusal("none", "5", "none", "none", 503, "error", {}, {}))
      BY <1>2, <2>5 DEF r
    <2> QED
      BY <2>4, <2>6, RefusalReply
  <1>3. CASE e # "busy"
    <2>1. Asked(cfg, r, <<>>)
      BY <1>0, <1>3, ToldAsked
    <2>2. StartRefusal(UpstreamError(Start, e))
      BY <1>3 DEF StartRefusal, Errors
    <2> QED
      BY <2>1, <2>2, StartRefusals
  <1> QED
    BY <1>2, <1>3

PutAssets(v) == Put(v, "cache", "assets")

\* The static routes and the refusals that are not of one page.
LEMMA StaticKeeps ==
  ASSUME cfg \in Instances, TooMany \/ NotFound \/ StaticPage \/ Asset
  PROVE  Inv'
  <1>1. <<>> \in Seq(Deviations) /\ <<>> \in Seq([tag : STRING, main : STRING])
    OBVIOUS
  <1>2. ASSUME TooMany PROVE Inv'
    <2>1. PICK ep \in Limited :
            Reply([Plain(ep) EXCEPT !.load = "limited"], <<>>,
                  ReturnHTTPError(Put(Start, "retry", "60"), 429))
      BY <1>2 DEF TooMany
    <2> DEFINE r == [Plain(ep) EXCEPT !.load = "limited"]
    <2>2. /\ r.ep = ep /\ r.type = "" /\ r.atom = FALSE /\ r.page = 0
          /\ r.load = "limited" /\ NoRequest.ep = "none" /\ ep # "none"
      BY DEF Plain, Request, NoRequest, Limited
    <2> HIDE DEF r
    <2>7. IsRequest(r)
      <3>1. "" \in Types /\ FALSE \in BOOLEAN /\ 0 \in Int
        BY DEF Types
      <3> QED
        BY <2>2, <3>1 DEF IsRequest
    <2>8. SaysWhen(r)
      BY <2>2 DEF SaysWhen
    <2>3. IsRequest(r) /\ RetryRight(r, 429, "60")
      BY <2>7, <2>8 DEF RetryRight
    <2>4. Typed("none", "error") = "html"
      BY DEF Typed, Sniffed
    <2>5. CanRefuse(cfg, r, <<>>, "none", "60", "none", "none", 429, "error", {})
      BY <1>1, <2>3, <2>4, SomeValues, NothingShown DEF CanRefuse
    <2>6. ReturnHTTPError(Put(Start, "retry", "60"), 429)
            = Refusal("none", "60", "none", "none", 429, "error", {}, {})
      BY StartIs, PutOpen, RefuseCodes DEF Showing
    <2> QED
      BY <2>1, <2>5, <2>6, RefusalReply DEF r
  <1>3. ASSUME NotFound PROVE Inv'
    <2>1. ASSUME NEW ep \in {"unknown", "media"},
                 Reply(Plain(ep), <<>>, ReturnHTTPError(Start, 404))
          PROVE  Inv'
      <3>1. Asked(cfg, Plain(ep), <<>>)
        BY PlainAsked
      <3>2. StartRefusal(ReturnHTTPError(Start, 404))
        BY DEF StartRefusal
      <3> QED
        BY <2>1, <3>1, <3>2, StartRefusals
    <2>2. ASSUME Reply(Plain("api"), <<>>, APIError(StartAPI, 404)) PROVE Inv'
      <3>1. Asked(cfg, Plain("api"), <<>>)
        BY PlainAsked
      <3>2. APIRefusal(APIError(StartAPI, 404))
        BY DEF APIRefusal
      <3> QED
        BY <2>2, <3>1, <3>2, APIRefusals
    <2> QED
      BY <1>3, <2>1, <2>2 DEF NotFound, StartAPI
  <1>4. ASSUME StaticPage PROVE Inv'
    <2>1. PICK ep \in {"index", "about"}, accept \in Accepts :
            Reply([Plain(ep) EXCEPT !.accept = accept], <<>>,
                  Page(Start, [Plain(ep) EXCEPT !.accept = accept]))
      BY <1>4 DEF StaticPage
    <2> DEFINE r == [Plain(ep) EXCEPT !.accept = accept]
    <2>2. r.accept = accept /\ r.ep = ep /\ NoRequest.ep = "none" /\ r.load = "no"
      BY DEF Plain, Request, NoRequest
    <2>3. r.type \in Types /\ r.atom \in BOOLEAN /\ r.page \in Int
      BY DEF Plain, Request, Types
    <2> HIDE DEF r
    <2>4. Asked(cfg, r, <<>>)
      BY <1>1, <2>2, <2>3 DEF IsRequest, Asked, SaysWhen
    <2>5. accept \in Seq([tag : STRING, main : STRING])
      BY RequestsAssumption
    <2>6. ListsAll(cfg, <<>>, {}) /\ \A b \in {} : BarRight(b)
      BY DEF ListsAll
    <2>7. Reply(r, <<>>, Page(Showing({}, {}), r))
      BY <2>1, StartIs DEF r
    <2>8. CanPage(cfg, r, <<>>, {}, {})
      BY <1>1, <2>2, <2>4, <2>5, <2>6, NothingShown DEF CanPage
    <2> QED
      BY <2>7, <2>8, PageReply
  <1>5. ASSUME Asset PROVE Inv'
    <2>1. PutAssets(Start) = Open("assets", "none", "none", "none", "none", {}, {})
      BY StartIs, PutOpen DEF Showing, PutAssets
    <2>2. ListsAll(cfg, <<>>, {})
      BY DEF ListsAll
    <2>4. /\ "css" \in Good /\ "image" \in Good /\ "plain" \in Good
          /\ Typed("css", "css") \in Fit["css"] /\ Typed("none", "image") \in Fit["image"]
          /\ Typed("text", "plain") \in Fit["plain"]
      BY DEF Good, Typed, Fit, Sniffed
    <2>8. /\ CanAnswer(cfg, Plain("stylesheet"), <<>>, "assets", "css", "none", "none",
                       "css", {})
          /\ CanAnswer(cfg, Plain("favicon.ico"), <<>>, "assets", "none", "none", "none",
                       "image", {})
          /\ CanAnswer(cfg, Plain("robots.txt"), <<>>, "assets", "text", "none", "none",
                       "plain", {})
      BY <1>1, <2>2, <2>4, PlainAsked, PlainRequested, SomeValues, NothingShown DEF CanAnswer
    <2>5. ASSUME Reply(Plain("stylesheet"), <<>>,
                       Write(Add(PutAssets(Start), "type", "css"), "css"))
          PROVE  Inv'
      <3>1. Add(PutAssets(Start), "type", "css")
              = Open("assets", "css", "none", "none", "none", {}, {})
        BY <2>1, AddOpen
      <3> QED
        BY <2>8, WriteReply, <2>5, <3>1
    <2>6. ASSUME Reply(Plain("favicon.ico"), <<>>, Write(PutAssets(Start), "image"))
          PROVE  Inv'
      BY <2>1, <2>8, WriteReply, <2>6, SomeValues
    <2>7. ASSUME Reply(Plain("robots.txt"), <<>>,
                       Write(Put(PutAssets(Start), "type", "text"), "plain"))
          PROVE  Inv'
      BY <2>1, <2>8, WriteReply, <2>7, PutOpen, SomeValues
    <2> QED
      BY <1>5, <2>5, <2>6, <2>7 DEF Asset, PutAssets
  <1> QED
    BY <1>2, <1>3, <1>4, <1>5

-----------------------------------------------------------------------------
(* Media.                                                                  *)

\* The ways a media route ends: a refusal, the error page in the CDN's status cdn
\* (which may have no body), the file, or the notice of an instance without a proxy.
MediaOutcome(cf, x, c, n, shows, cdn) ==
  \/ \E code \in {400, 404, 502} :
       x = Refusal("none", "none", "none", n, code, "error", shows, {})
  \/ /\ cdn \in 200..599
     /\ x = Refusal("none", "none", "none", n, cdn, "error", shows, {})
  \/ /\ cdn \in {204, 304}
     /\ x = Response(Headers("none", "none", "none", "none", n), cdn,
                     Headers("none", "none", "none", "none", n), <<>>, shows, {}, "none")
  \/ \E kind \in {"image", "other"} :
       x = Response(Headers(c, "none", "none", "none", n), 200,
                    Headers(c, Typed("none", kind), "none", "none", n), <<kind>>, shows, {},
                    "none")
  \/ /\ cf.media = "direct"
     /\ x = Refusal("none", "none", "none", n, 403, "plain", shows, {})

LEMMA MediaIs ==
  ASSUME cfg \in Instances, NEW known \in BOOLEAN, NEW held \in BOOLEAN,
         NEW fetch \in Fetches, NEW c, NEW n, NEW cdn,
         known /\ (cfg.media = "proxy" \/ (cfg.media = "cache" /\ ~held))
           => cdn = fetch.status
  PROVE  MediaOutcome(cfg, SendMedia(Open(c, "none", "none", "none", n, {}, {}), known, held,
                                     fetch), c, n, {}, cdn)
  <1> DEFINE v == Open(c, "none", "none", "none", n, {}, {})
  <1> DEFINE x == SendMedia(v, known, held, fetch)
  <1>1. cfg.media \in {"direct", "proxy", "cache"}
    BY RequestsAssumption
  <1>2. /\ fetch.status \in Nat /\ ~(100 <= fetch.status /\ fetch.status <= 199)
        /\ fetch.kind \in {"image", "other"}
    <2>1. fetch.status \in Statuses /\ fetch.kind \in {"image", "other"}
      BY DEF Fetches
    <2>2. Statuses \subseteq Nat \ 100..199
      BY RequestsAssumption
    <2>3. \A i \in Nat \ 100..199 : i \in Nat /\ ~(100 <= i /\ i <= 199)
      OBVIOUS
    <2> QED
      BY <2>1, <2>2, <2>3, Zenon
  <1>3. ReturnHTTPError(v, 400) = Refusal("none", "none", "none", n, 400, "error", {}, {})
    BY RefuseCodes
  <1>4. ASSUME NEW kind
        PROVE  Write(v, kind)
                 = Response(Headers(c, "none", "none", "none", n), 200,
                            Headers(c, Typed("none", kind), "none", "none", n), <<kind>>, {},
                            {}, "none")
    BY WriteOpen
  <1>5. Write(WriteHeader(Del(v, "cache"), 403), "plain")
          = Refusal("none", "none", "none", n, 403, "plain", {}, {})
    <2>1. Del(v, "cache") = Open("none", "none", "none", "none", n, {}, {})
      BY DelOpen
    <2>2. BodyAllowed(403)
      BY DEF BodyAllowed
    <2> QED
      BY <2>1, <2>2, SendDocument DEF Refusal
  <1>6. /\ BodyAllowed(fetch.status) =>
             ReturnHTTPError(v, fetch.status)
               = Refusal("none", "none", "none", n, Sendable(fetch.status), "error", {}, {})
        /\ ~BodyAllowed(fetch.status) =>
             ReturnHTTPError(v, fetch.status)
               = Response(Headers("none", "none", "none", "none", n), fetch.status,
                          Headers("none", "none", "none", "none", n), <<>>, {}, {}, "none")
    BY <1>2, RefuseOpen
  <1>7. Sendable(fetch.status) = 502 \/ (Sendable(fetch.status) = fetch.status
                                         /\ fetch.status \in 200..599)
    BY <1>2 DEF Sendable
  <1>8. ~BodyAllowed(fetch.status) => fetch.status \in {204, 304}
    BY DEF BodyAllowed
  <1> HIDE DEF v
  <1>9. \/ x = ReturnHTTPError(v, 400)
        \/ x = ReturnHTTPError(v, fetch.status) /\ cdn = fetch.status
        \/ \E kind \in {"image", "other"} : x = Write(v, kind)
        \/ cfg.media = "direct" /\ x = Write(WriteHeader(Del(v, "cache"), 403), "plain")
    <2>2. CASE ~known
      BY <2>2 DEF SendMedia
    <2>3. CASE known /\ cfg.media = "cache"
      BY <1>2, <2>3 DEF SendMedia
    <2>4. CASE known /\ cfg.media = "proxy"
      BY <1>2, <2>4 DEF SendMedia
    <2>5. CASE known /\ cfg.media = "direct"
      BY <2>5 DEF SendMedia
    <2> QED
      BY <1>1, <2>2, <2>3, <2>4, <2>5
  <1> HIDE DEF x
  <1>10. MediaOutcome(cfg, x, c, n, {}, cdn)
    <2>1. CASE x = ReturnHTTPError(v, fetch.status) /\ cdn = fetch.status
      <3>1. CASE BodyAllowed(fetch.status)
        BY <1>6, <1>7, <2>1, <3>1 DEF MediaOutcome
      <3>2. CASE ~BodyAllowed(fetch.status)
        BY <1>6, <1>8, <2>1, <3>2 DEF MediaOutcome
      <3> QED
        BY <3>1, <3>2
    <2> QED
      BY <1>3, <1>4, <1>5, <1>9, <2>1 DEF MediaOutcome
  <1> QED
    BY <1>10 DEF x, v

\* A random pick is noted on the response it was answered with.
LEMMA MediaShows ==
  ASSUME NEW x, NEW c, NEW n, NEW cdn, MediaOutcome(cfg, x, c, n, {}, cdn), NEW S, NEW place
  PROVE  MediaOutcome(cfg, Show(x, S, place), c, n, {<<d, place>> : d \in S}, cdn)
  <1> DEFINE more == {<<d, place>> : d \in S}
  <1>1. \A h, code, s, b :
          Show(Response(h, code, s, b, {}, {}, "none"), S, place)
            = Response(h, code, s, b, more, {}, "none")
    <2>1. {} \cup more = more
      OBVIOUS
    <2> TAKE h, code, s, b
    <2>2. Show(Response(h, code, s, b, {}, {}, "none"), S, place)
            = Response(h, code, s, b, {} \cup more, {}, "none")
      BY ShowAny
    <2> HIDE DEF more
    <2> QED
      BY <2>1, <2>2
  <1> HIDE DEF more
  <1>2. MediaOutcome(cfg, Show(x, S, place), c, n, more, cdn)
    <2>1. ASSUME NEW code, NEW kind,
                 x = Refusal("none", "none", "none", n, code, kind, {}, {})
          PROVE  Show(x, S, place) = Refusal("none", "none", "none", n, code, kind, more, {})
      BY <1>1, <2>1 DEF Refusal
    <2>2. CASE \E code \in {400, 404, 502} :
                 x = Refusal("none", "none", "none", n, code, "error", {}, {})
      BY <2>1, <2>2 DEF MediaOutcome
    <2>3. CASE /\ cdn \in 200..599
               /\ x = Refusal("none", "none", "none", n, cdn, "error", {}, {})
      BY <2>1, <2>3 DEF MediaOutcome
    <2>4. CASE /\ cdn \in {204, 304}
               /\ x = Response(Headers("none", "none", "none", "none", n), cdn,
                               Headers("none", "none", "none", "none", n), <<>>, {}, {},
                               "none")
      BY <1>1, <2>4 DEF MediaOutcome
    <2>5. CASE \E kind \in {"image", "other"} :
                 x = Response(Headers(c, "none", "none", "none", n), 200,
                              Headers(c, Typed("none", kind), "none", "none", n), <<kind>>,
                              {}, {}, "none")
      BY <1>1, <2>5 DEF MediaOutcome
    <2>6. CASE /\ cfg.media = "direct"
               /\ x = Refusal("none", "none", "none", n, 403, "plain", {}, {})
      BY <2>1, <2>6 DEF MediaOutcome
    <2> QED
      BY <2>2, <2>3, <2>4, <2>5, <2>6 DEF MediaOutcome
  <1> QED
    BY <1>2 DEF more

CanSend(cf, r, devs, c, n, shows) ==
  /\ Asked(cf, r, devs)
  /\ \/ r.ep = "media" /\ devs = <<>>
     \/ r.ep = "api" /\ cf.media # "direct"
  /\ c \in Values /\ n \in Values /\ ShowsAllowed(cf, shows)

LEMMA MediaReply ==
  ASSUME NEW r, NEW devs, NEW c, NEW n, NEW shows, NEW x,
         CanSend(cfg, r, devs, c, n, shows), MediaOutcome(cfg, x, c, n, shows, r.cdn),
         Reply(r, devs, x)
  PROVE  Inv'
  <1> USE DEF CanSend, Asked
  <1>1. "none" \in Values /\ "html" \in Values /\ "text" \in Values
    BY SomeValues
  <1>2. r.ep = "media" => ListsAll(cfg, devs, shows)
    BY DEF ListsAll
  <1>3. /\ Typed("none", "error") = "html" /\ Typed("none", "plain") = "text"
        /\ \A kind \in {"image", "other"} : kind \in Good /\ Typed("none", kind) \in Fit[kind]
    BY DEF Typed, Sniffed, Good, Fit
  <1>4. ASSUME NEW code \in {400, 404, 502},
               x = Refusal("none", "none", "none", n, code, "error", shows, {})
        PROVE  Inv'
    <2>1. CanRefuse(cfg, r, devs, "none", "none", "none", n, code, "error", shows)
      BY <1>1, <1>3 DEF CanRefuse, RetryRight
    <2> QED
      BY <1>4, <2>1, RefusalReply
  <1>5. ASSUME NEW kind \in {"image", "other"},
               x = Response(Headers(c, "none", "none", "none", n), 200,
                            Headers(c, Typed("none", kind), "none", "none", n), <<kind>>,
                            shows, {}, "none")
        PROVE  Inv'
    <2>1. CanAnswer(cfg, r, devs, c, "none", "none", n, kind, shows)
      BY <1>1, <1>2, <1>3 DEF CanAnswer
    <2> QED
      BY <1>5, <2>1, DocumentReply
  <1> DEFINE h == Headers("none", "none", "none", "none", n)
  <1>6. h \in Header
    BY <1>1, HeaderFields
  <1>7. <<"error">> \in Seq(Kinds) /\ <<"plain">> \in Seq(Kinds)
    BY KindsListed DEF KindsAre
  <1>8. ASSUME NEW code \in 200..599, code = r.cdn,
               x = Refusal("none", "none", "none", n, code, "error", shows, {})
        PROVE  Inv'
    <2>1. CASE code >= 400
      <3>1. code \in 400..599
        BY <2>1
      <3>2. RetryRight(r, code, "none")
        BY <1>8 DEF RetryRight
      <3>3. CanRefuse(cfg, r, devs, "none", "none", "none", n, code, "error", shows)
        BY <1>1, <1>3, <3>1, <3>2 DEF CanRefuse
      <3> QED
        BY <1>8, <3>3, RefusalReply
    <2>2. CASE code < 400
      <3>1. /\ Proper(cfg, r, code, "none", "html", <<"error">>)
            /\ RetryRight(r, code, "none")
        BY <1>8, <2>2 DEF Proper, Handed, RetryRight
      <3>2. x = Response(h, code, Headers("none", "html", "none", "none", n), <<"error">>,
                         shows, {}, "none")
        BY <1>3, <1>8 DEF Refusal
      <3>3. /\ code \in 100..599
            /\ (r.ep = "api" => <<"error">> = <<"json">>) => r.ep = "media"
        OBVIOUS
      <3> HIDE DEF h
      <3>4. Right(cfg, r, devs, h, code, "none", "html", "none", "none", n, <<"error">>,
                  shows, {}, "none")
        BY <1>1, <1>2, <1>6, <1>7, <3>1, <3>3 DEF Right
      <3>5. Reply(r, devs, Response(h, code, Headers("none", "html", "none", "none", n),
                                    <<"error">>, shows, {}, "none"))
        BY <3>2
      <3> QED
        BY <3>4, <3>5, ReplyKeeps
    <2> QED
      BY <2>1, <2>2
  <1>10. ASSUME r.cdn \in {204, 304},
                x = Response(h, r.cdn, h, <<>>, shows, {}, "none")
         PROVE  Inv'
    <2>1. Proper(cfg, r, r.cdn, "none", "none", <<>>) /\ RetryRight(r, r.cdn, "none")
      BY <1>10 DEF Proper, Empty, RetryRight
    <2>2. r.cdn \in 100..599 /\ r.cdn # 200 /\ <<>> \in Seq(Kinds)
      BY <1>10
    <2> HIDE DEF h
    <2>3. Right(cfg, r, devs, h, r.cdn, "none", "none", "none", "none", n, <<>>, shows, {},
                "none")
      BY <1>1, <1>6, <2>1, <2>2 DEF Right
    <2> QED
      BY <1>10, <2>3, ReplyKeeps DEF h
  <1>9. ASSUME cfg.media = "direct",
               x = Refusal("none", "none", "none", n, 403, "plain", shows, {})
        PROVE  Inv'
    <2>1. Proper(cfg, r, 403, "none", "text", <<"plain">>) /\ RetryRight(r, 403, "none")
      BY <1>9 DEF Proper, Unproxied, RetryRight
    <2>2. x = Response(h, 403, Headers("none", "text", "none", "none", n), <<"plain">>, shows,
                       {}, "none")
      BY <1>3, <1>9 DEF Refusal
    <2>3. 403 \in 100..599 /\ ~(403 = 200)
      OBVIOUS
    <2> HIDE DEF h
    <2>4. Right(cfg, r, devs, h, 403, "none", "text", "none", "none", n, <<"plain">>, shows,
                {}, "none")
      BY <1>1, <1>6, <1>7, <2>1, <2>3 DEF Right
    <2> QED
      BY <2>2, <2>4, ReplyKeeps
  <1>11. ASSUME r.cdn \in 200..599,
                x = Refusal("none", "none", "none", n, r.cdn, "error", shows, {})
         PROVE  Inv'
    BY <1>8, <1>11
  <1> QED
    BY <1>4, <1>5, <1>9, <1>10, <1>11 DEF MediaOutcome

\* A request for a file, whether the CDN is asked or not.
LEMMA FetchingIs ==
  ASSUME NEW ep, ep # "none", NEW known \in BOOLEAN, NEW held \in BOOLEAN,
         NEW fetch \in Fetches, cfg \in Instances
  PROVE  /\ \A devs \in Seq(Deviations) :
              Asked(cfg, Fetching(Plain(ep), known, held, fetch), devs)
         /\ Fetching(Plain(ep), known, held, fetch).ep = ep
         /\ known /\ (cfg.media = "proxy" \/ (cfg.media = "cache" /\ ~held))
              => Fetching(Plain(ep), known, held, fetch).cdn = fetch.status
  <1> DEFINE r == Fetching(Plain(ep), known, held, fetch)
  <1>1. /\ r.ep = ep /\ r.type = "" /\ r.atom = FALSE /\ r.page = 0 /\ r.load = "no"
        /\ r.cdn = 0 \/ r.cdn = fetch.status
        /\ known /\ (cfg.media = "proxy" \/ (cfg.media = "cache" /\ ~held))
             => r.cdn = fetch.status
    BY DEF Fetching, Plain, Request
  <1>2. fetch.status \in Nat /\ NoRequest.ep = "none"
    <2>1. fetch.status \in Statuses /\ NoRequest.ep = "none"
      BY DEF Fetches, NoRequest, Request
    <2>2. Statuses \subseteq Nat
      BY RequestsAssumption
    <2> QED
      BY <2>1, <2>2
  <1> HIDE DEF r
  <1>4. IsRequest(r) /\ ~SaysWhen(r)
    <2>1. "" \in Types /\ FALSE \in BOOLEAN /\ 0 \in Int
      BY DEF Types
    <2> QED
      BY <1>1, <1>2, <2>1 DEF IsRequest, SaysWhen
  <1>3. \A devs \in Seq(Deviations) : Asked(cfg, r, devs)
    BY <1>4 DEF Asked
  <1> QED
    BY <1>1, <1>3 DEF r

LEMMA MediaKeeps ==
  ASSUME cfg \in Instances, MediaFile \/ Emojitar
  PROVE  Inv'
  <1>0. <<>> \in Seq(Deviations) /\ 0 \in Int
    OBVIOUS
  <1>1. ASSUME MediaFile PROVE Inv'
    <2>1. PICK named \in BOOLEAN, known \in BOOLEAN, held \in BOOLEAN, fetch \in Fetches :
            Reply(Fetching(Plain("media"), known, held, fetch), <<>>,
                  SendMedia(Put(IF named THEN Add(Start, "filename", "given") ELSE Start,
                                "cache", "media"), known, held, fetch))
      BY <1>1 DEF MediaFile
    <2> DEFINE n == IF named THEN "given" ELSE "none"
    <2>2. Put(IF named THEN Add(Start, "filename", "given") ELSE Start, "cache", "media")
            = Open("media", "none", "none", "none", n, {}, {})
      <3>1. CASE named
        <4>1. Add(Start, "filename", "given")
                = Open("page", "none", "none", "none", "given", {}, {})
          BY StartIs, AddOpen DEF Showing
        <4> QED
          BY <3>1, <4>1, PutOpen
      <3>2. CASE ~named
        BY <3>2, StartIs, PutOpen DEF Showing
      <3> QED
        BY <3>1, <3>2
    <2> DEFINE r == Fetching(Plain("media"), known, held, fetch)
    <2>3. /\ Asked(cfg, r, <<>>) /\ r.ep = "media"
          /\ known /\ (cfg.media = "proxy" \/ (cfg.media = "cache" /\ ~held))
               => r.cdn = fetch.status
      <3>1. /\ \A devs \in Seq(Deviations) : Asked(cfg, r, devs)
            /\ r.ep = "media"
            /\ known /\ (cfg.media = "proxy" \/ (cfg.media = "cache" /\ ~held))
                 => r.cdn = fetch.status
        BY FetchingIs
      <3> HIDE DEF r
      <3> QED
        BY <1>0, <3>1
    <2> DEFINE x == SendMedia(Open("media", "none", "none", "none", n, {}, {}), known, held,
                              fetch)
    <2>4. n \in Values /\ "media" \in Values
      BY SomeValues
    <2> HIDE DEF n
    <2>5. MediaOutcome(cfg, x, "media", n, {}, r.cdn)
      BY <2>3, MediaIs
    <2>6. Reply(r, <<>>, x)
      BY <2>1, <2>2
    <2> HIDE DEF x, r
    <2>7. CanSend(cfg, r, <<>>, "media", n, {})
      BY <2>3, <2>4, NothingShown, Zenon DEF CanSend
    <2> QED
      BY <2>5, <2>6, <2>7, MediaReply
  <1>2. ASSUME Emojitar PROVE Inv'
    <2> DEFINE v == PutAssets(Start)
    <2>1. PICK type \in Types :
            \/ Reply(Request("media", type, FALSE, 0), <<>>, ReturnHTTPError(v, 400))
            \/ Reply(Request("media", type, FALSE, 0), <<>>, Write(v, "image"))
            \/ \E e \in Errors : Reply(Told(Request("media", type, FALSE, 0), e), <<>>,
                                       ReturnHTTPError(v, 404))
      BY <1>2 DEF Emojitar, PutAssets
    <2>2. v = Open("assets", "none", "none", "none", "none", {}, {})
      BY StartIs, PutOpen DEF Showing, PutAssets
    <2>3. /\ Write(v, "image")
               = Response(Headers("assets", "none", "none", "none", "none"), 200,
                          Headers("assets", Typed("none", "image"), "none", "none", "none"),
                          <<"image">>, {}, {}, "none")
          /\ \A code \in {400, 404} :
               ReturnHTTPError(v, code)
                 = Refusal("none", "none", "none", "none", code, "error", {}, {})
      BY <2>2, WriteOpen, RefuseCodes
    <2> HIDE DEF v
    <2>4. ASSUME NEW r, Asked(cfg, r, <<>>), r.ep = "media",
                 NEW x \in {ReturnHTTPError(v, 400), ReturnHTTPError(v, 404),
                            Write(v, "image")},
                 Reply(r, <<>>, x)
          PROVE  Inv'
      <3>1. MediaOutcome(cfg, x, "assets", "none", {}, r.cdn)
        BY <2>3 DEF MediaOutcome
      <3>2. "none" \in Values /\ "assets" \in Values
        BY SomeValues
      <3>3. CanSend(cfg, r, <<>>, "assets", "none", {})
        BY <2>4, <3>2, NothingShown, Zenon DEF CanSend
      <3> QED
        BY <2>4, <3>1, <3>3, MediaReply
    <2>5. /\ Asked(cfg, Request("media", type, FALSE, 0), <<>>)
          /\ Request("media", type, FALSE, 0).ep = "media"
      <3>1. FALSE \in BOOLEAN
        OBVIOUS
      <3>2. Asked(cfg, Request("media", type, FALSE, 0), <<>>)
        BY <1>0, <3>1, RequestAsked
      <3> QED
        BY <3>2 DEF Request
    <2>6. \A e \in Errors : /\ Asked(cfg, Told(Request("media", type, FALSE, 0), e), <<>>)
                             /\ Told(Request("media", type, FALSE, 0), e).ep = "media"
      <3> TAKE e \in Errors
      <3>1. Asked(cfg, Told(Request("media", type, FALSE, 0), e), <<>>)
        BY <1>0, ToldAsked
      <3> QED
        BY <3>1 DEF Told, Request
    <2>7. CASE Reply(Request("media", type, FALSE, 0), <<>>, ReturnHTTPError(v, 400))
      BY <2>4, <2>5, <2>7
    <2>8. CASE Reply(Request("media", type, FALSE, 0), <<>>, Write(v, "image"))
      BY <2>4, <2>5, <2>8
    <2>9. ASSUME NEW e \in Errors,
                 Reply(Told(Request("media", type, FALSE, 0), e), <<>>,
                       ReturnHTTPError(v, 404))
          PROVE  Inv'
      <3> DEFINE r == Told(Request("media", type, FALSE, 0), e)
      <3>1. Asked(cfg, r, <<>>) /\ r.ep = "media" /\ Reply(r, <<>>, ReturnHTTPError(v, 404))
        BY <2>6, <2>9
      <3> HIDE DEF r
      <3> QED
        BY <2>4, <3>1
    <2> QED
      BY <2>1, <2>7, <2>8, <2>9
  <1> QED
    BY <1>1, <1>2

-----------------------------------------------------------------------------
(* Pages.                                                                  *)

\* The response a page is drawn into: still open, or refused before.
Drawing(v, refused, shows, navs) ==
  v = IF refused
      THEN Refusal("none", "none", "none", "none", 400, "error", shows, navs)
      ELSE Showing(shows, navs)

LEMMA StartDraws == Drawing(Start, FALSE, {}, {})
  BY StartIs DEF Drawing

LEMMA RefusedDraws == Drawing(ReturnHTTPError(Start, 400), TRUE, {}, {})
  BY StartIs, RefuseCodes DEF Drawing, Showing

At(S, place) == {<<d, place>> : d \in S}

LEMMA ShowDraws ==
  ASSUME NEW v, NEW refused, NEW shows, NEW navs, Drawing(v, refused, shows, navs),
         NEW S, NEW place
  PROVE  Drawing(Show(v, S, place), refused, shows \cup At(S, place), navs)
  <1> USE DEF At
  <1> DEFINE more == shows \cup {<<d, place>> : d \in S}
  <1>1. Show(Showing(shows, navs), S, place) = Showing(more, navs)
    BY ShowOpen DEF Showing
  <1>2. Show(Refusal("none", "none", "none", "none", 400, "error", shows, navs), S, place)
          = Refusal("none", "none", "none", "none", 400, "error", more, navs)
    <2> HIDE DEF more
    <2>1. PICK h, x, b : \A sh :
            Refusal("none", "none", "none", "none", 400, "error", sh, navs)
              = Response(h, 400, x, b, sh, navs, "none")
      BY DEF Refusal
    <2>2. Show(Response(h, 400, x, b, shows, navs, "none"), S, place)
            = Response(h, 400, x, b, more, navs, "none")
      BY ShowAny DEF more
    <2> QED
      BY <2>1, <2>2
  <1> HIDE DEF more
  <1>3. Drawing(Show(v, S, place), refused, more, navs)
    <2>1. CASE refused
      BY <1>2, <2>1 DEF Drawing
    <2>2. CASE ~refused
      BY <1>1, <2>2 DEF Drawing
    <2> QED
      BY <2>1, <2>2
  <1> QED
    BY <1>3 DEF more

\* What a text embeds, drawn into a page.
LEMMA DescribeDraws ==
  ASSUME NEW v, NEW refused, NEW shows, NEW navs, Drawing(v, refused, shows, navs), NEW text
  PROVE  Drawing(Describe(v, cfg, text), refused, shows \cup Texted(cfg, text), navs)
  <1> DEFINE more == shows \cup Texted(cfg, text)
  <1>1. Describe(Showing(shows, navs), cfg, text) = Showing(more, navs)
    BY DescribeOpen DEF Showing
  <1>2. Describe(Refusal("none", "none", "none", "none", 400, "error", shows, navs), cfg, text)
          = Refusal("none", "none", "none", "none", 400, "error", more, navs)
    BY DescribeAny DEF Refusal
  <1> HIDE DEF more
  <1>3. CASE refused
    BY <1>2, <1>3 DEF Drawing, more
  <1>4. CASE ~refused
    BY <1>1, <1>4 DEF Drawing, more
  <1> QED
    BY <1>3, <1>4

\* What a text may show: blocks are not asked about, the document's are visible.
LEMMA TextAllowed ==
  ASSUME cfg \in Instances, NEW text, text \subseteq Embeds
  PROVE  ShowsAllowed(cfg, Texted(cfg, text))
  <1>1. cfg.nsfw \in BOOLEAN /\ cfg.hideai \in BOOLEAN
    BY RequestsAssumption
  <1>2. ASSUME NEW e \in Rendered(cfg, text)
        PROVE  /\ e.dev \in Deviations /\ e.format \in Places
               /\ e.format # "blocks" => /\ e.dev.nsfw => cfg.nsfw
                                         /\ ~(e.dev.ai /\ cfg.hideai)
    BY <1>1 DEF Rendered, Embeds, Visible, Places
  <1> QED
    BY <1>2 DEF ShowsAllowed, Texted

\* A list that is not sent as a feed leaves the page as it is, or refuses it.
LEMMA ListedDraws ==
  ASSUME NEW v, NEW shows, NEW navs, Drawing(v, FALSE, shows, navs), NEW r
  PROVE  Drawing(Listed(v, r), PagedFeed(r), shows, navs)
  <1>1. ReturnHTTPError(v, 400)
          = Refusal("none", "none", "none", "none", 400, "error", shows, navs)
    BY RefuseCodes DEF Drawing, Showing
  <1>2. CASE PagedFeed(r)
    BY <1>1, <1>2 DEF Drawing, Listed
  <1>3. CASE ~PagedFeed(r)
    BY <1>3 DEF Drawing, Listed
  <1> QED
    BY <1>2, <1>3

WithBars(v, bars) == [v EXCEPT !.navs = @ \cup bars]

LEMMA BarsAny ==
  ASSUME NEW h, NEW code, NEW s, NEW b, NEW shows, NEW navs, NEW lang, NEW bars
  PROVE  WithBars(Response(h, code, s, b, shows, navs, lang), bars)
           = Response(h, code, s, b, shows, navs \cup bars, lang)
  <1> DEFINE more == navs \cup bars
  <1> DEFINE e == WithBars(Response(h, code, s, b, shows, navs, lang), bars)
  <1>1. e \in [header : {h}, status : {code}, sent : {s}, body : {b}, shows : {shows},
               navs : {more}, lang : {lang}]
    BY DEF WithBars, Response
  <1> HIDE DEF e, more
  <1>2. e = Response(h, code, s, b, shows, more, lang)
    BY <1>1 DEF Response
  <1> QED
    BY <1>2 DEF e, more

LEMMA BarsDraw ==
  ASSUME NEW v, NEW refused, NEW shows, Drawing(v, refused, shows, {}), NEW bars
  PROVE  Drawing(WithBars(v, bars), refused, shows, bars)
  <1>0. {} \cup bars = bars
    OBVIOUS
  <1>1. WithBars(Showing(shows, {}), bars) = Showing(shows, bars)
    BY <1>0, BarsAny DEF Showing, Open
  <1>2. WithBars(Refusal("none", "none", "none", "none", 400, "error", shows, {}), bars)
          = Refusal("none", "none", "none", "none", 400, "error", shows, bars)
    <2>1. PICK h, x, b : \A some :
            Refusal("none", "none", "none", "none", 400, "error", shows, some)
              = Response(h, 400, x, b, shows, some, "none")
      BY DEF Refusal
    <2>2. WithBars(Response(h, 400, x, b, shows, {}, "none"), bars)
            = Response(h, 400, x, b, shows, bars, "none")
      BY <1>0, BarsAny
    <2> QED
      BY <2>1, <2>2
  <1>3. CASE refused
    BY <1>2, <1>3 DEF Drawing
  <1>4. CASE ~refused
    BY <1>1, <1>4 DEF Drawing
  <1> QED
    BY <1>3, <1>4

\* A page may be refused and drawn all the same only where GoesOn says so.
CanDraw(cf, r, devs, refused, shows, bars) ==
  /\ Asked(cf, r, devs) /\ r.accept = <<>> /\ r.ep # "api"
  /\ refused \in BOOLEAN
  /\ refused => GoesOnFor(r)
  /\ ~refused => ListsAll(cf, devs, shows)
  /\ ShowsAllowed(cf, shows)
  /\ \A b \in bars : BarRight(b)

LEMMA DrawReply ==
  ASSUME NEW r, NEW devs, NEW v, NEW refused, NEW shows, NEW bars,
         Drawing(v, refused, shows, bars), CanDraw(cfg, r, devs, refused, shows, bars),
         Reply(r, devs, Page(v, r))
  PROVE  Inv'
  <1> USE DEF CanDraw, Asked
  <1>1. CASE refused
    <2>1. CanGoOn(cfg, r, devs, shows, bars)
      BY <1>1 DEF CanGoOn
    <2>2. v = Refusal("none", "none", "none", "none", 400, "error", shows, bars)
      BY <1>1 DEF Drawing
    <2> QED
      BY <2>1, <2>2, PageAfterRefusal
  <1>2. CASE ~refused
    <2>1. <<>> \in Seq([tag : STRING, main : STRING])
      OBVIOUS
    <2>2. CanPage(cfg, r, devs, shows, bars)
      BY <1>2, <2>1 DEF CanPage
    <2>3. v = Showing(shows, bars)
      BY <1>2 DEF Drawing
    <2> QED
      BY <2>2, <2>3, PageReply
  <1> QED
    BY <1>1, <1>2

LEMMA BarsReply ==
  ASSUME NEW r, NEW devs, NEW v, NEW refused, NEW shows, NEW bars,
         Drawing(v, refused, shows, {}), CanDraw(cfg, r, devs, refused, shows, bars),
         Reply(r, devs, PageWith(v, r, bars))
  PROVE  Inv'
  <1>1. PageWith(v, r, bars) = Page(WithBars(v, bars), r)
    BY DEF PageWith, WithBars
  <1>2. Drawing(WithBars(v, bars), refused, shows, bars)
    BY BarsDraw
  <1> QED
    BY <1>1, <1>2, DrawReply

\* What a page may show besides its list.
LEMMA ShowsJoin ==
  ASSUME cfg \in Instances, NEW S, NEW T, ShowsAllowed(cfg, S), ShowsAllowed(cfg, T),
         NEW devs
  PROVE  /\ ShowsAllowed(cfg, S \cup T)
         /\ ListsAll(cfg, devs, T) => ListsAll(cfg, devs, S \cup T)
  BY DEF ShowsAllowed, ListsAll

LEMMA OwnPlaceAllowed ==
  ASSUME cfg \in Instances, NEW S, S \subseteq Deviations, NEW place,
         place \in {"folder", "cover", "post"}, \A d \in S : d.nsfw => cfg.nsfw
  PROVE  ShowsAllowed(cfg, At(S, place))
  BY DEF ShowsAllowed, Places, At

LEMMA GridIsRight ==
  ASSUME cfg \in Instances, NEW r, NEW devs \in Seq(Deviations)
  PROVE  /\ ShowsAllowed(cfg, At(Grid(r, cfg, devs), "list"))
         /\ ~PagedFeed(r) \/ devs = <<>>
              => ListsAll(cfg, devs, At(Grid(r, cfg, devs), "list"))
  <1> USE DEF At
  <1>1. "list" \in Places
    BY DEF Places
  <1>2. CASE PagedFeed(r)
    BY <1>2 DEF Grid, ShowsAllowed, ListsAll
  <1>3. CASE ~PagedFeed(r)
    <2>1. Grid(r, cfg, devs) = Shown(cfg, devs)
      BY <1>3 DEF Grid
    <2> QED
      BY <1>1, <2>1, ShownIsRight
  <1> QED
    BY <1>2, <1>3

LEMMA BarsRight ==
  /\ \A r, content : r.page \in Int /\ content.pages \in Int /\ content.more \in BOOLEAN =>
       \A b \in Bar(r, content) : BarRight(b)
  /\ \A r, thread : r.page \in Int => \A b \in ThreadBars(r, thread) : BarRight(b)
  <1>1. ASSUME NEW r, NEW content, r.page \in Int, content.pages \in Int,
               content.more \in BOOLEAN
        PROVE  \A b \in Bar(r, content) : BarRight(b)
    BY <1>1, BarIsRight DEF Bar
  <1>2. ASSUME NEW r, NEW thread, r.page \in Int
        PROVE  \A b \in ThreadBars(r, thread) : BarRight(b)
    <2>1. (thread = "more") \in BOOLEAN /\ 0 \in Int
      OBVIOUS
    <2> QED
      BY <1>2, <2>1, BarIsRight DEF ThreadBars
  <1> QED
    BY <1>1, <1>2

\* Deviation.
LEMMA PostIsRight ==
  ASSUME cfg \in Instances, NEW page \in Int, NEW atom \in BOOLEAN, NEW d \in Deviations,
         NEW related \in Seq(Deviations), NEW thread, NEW text, text \subseteq Embeds,
         Reply(Request("post", "", atom, page), related,
               Post(Request("post", "", atom, page), d, related, thread, text))
  PROVE  Inv'
  <1> DEFINE r == Request("post", "", atom, page)
  <1>1. Asked(cfg, r, related) /\ r.ep = "post" /\ r.accept = <<>> /\ r.page \in Int
    <2>1. "" \in Types
      BY DEF Types
    <2>2. Asked(cfg, r, related)
      BY <2>1, RequestAsked
    <2>3. r.ep = "post" /\ r.accept = <<>> /\ r.page = page
      BY DEF Request
    <2> QED
      BY <2>2, <2>3
  <1> HIDE DEF r
  <1>2. Reply(r, related, Post(r, d, related, thread, text))
    BY DEF r
  <1>3. CASE d.nsfw /\ ~cfg.nsfw
    <2>1. Post(r, d, related, thread, text) = Mature(Start) /\ StartRefusal(Mature(Start))
      BY <1>3 DEF Post, StartRefusal
    <2> QED
      BY <1>1, <1>2, <2>1, StartRefusals
  <1>4. CASE ~(d.nsfw /\ ~cfg.nsfw)
    <2> DEFINE v == IF related = <<>> THEN Start ELSE Listed(Start, r)
    <2> DEFINE z == Describe(v, cfg, text)
    <2> DEFINE said == Texted(cfg, text)
    <2> DEFINE refused == related # <<>> /\ PagedFeed(r)
    <2> DEFINE own == At({d}, "post")
    <2> DEFINE grid == At(Grid(r, cfg, related), "list")
    <2> DEFINE y == Show(Show(z, {d}, "post"), Grid(r, cfg, related), "list")
    <2>1. Post(r, d, related, thread, text) = PageWith(y, r, ThreadBars(r, thread))
      BY <1>4 DEF Post
    <2>2. Drawing(v, refused, {}, {})
      <3>1. CASE related = <<>>
        BY <3>1, StartDraws
      <3>2. CASE related # <<>>
        <4>1. v = Listed(Start, r) /\ (refused <=> PagedFeed(r))
          BY <3>2
        <4>2. Drawing(Listed(Start, r), PagedFeed(r), {}, {})
          BY StartDraws, ListedDraws
        <4>3. refused = PagedFeed(r)
          BY <4>1 DEF PagedFeed
        <4> HIDE DEF refused, v
        <4> QED
          BY <4>1, <4>2, <4>3
      <3> QED
        BY <3>1, <3>2
    <2> HIDE DEF v
    <2>3. Drawing(y, refused, said \cup own \cup grid, {})
      <3>0. {} \cup said = said
        OBVIOUS
      <3> HIDE DEF refused
      <3>1. Drawing(z, refused, {} \cup said, {})
        BY <2>2, DescribeDraws
      <3> HIDE DEF z
      <3>2. Drawing(z, refused, said, {})
        BY <3>0, <3>1
      <3> HIDE DEF said
      <3>3. Drawing(Show(z, {d}, "post"), refused, said \cup own, {})
        BY <3>2, ShowDraws
      <3> HIDE DEF own
      <3> QED
        BY <3>3, ShowDraws
    <2>9. ShowsAllowed(cfg, said)
      BY TextAllowed
    <2>4. ShowsAllowed(cfg, own)
      <3>1. {d} \subseteq Deviations /\ \A x \in {d} : x.nsfw => cfg.nsfw
        BY <1>4
      <3> QED
        BY <3>1, OwnPlaceAllowed
    <2>5. ShowsAllowed(cfg, grid) /\ (~refused => ListsAll(cfg, related, grid))
      BY GridIsRight
    <2>6. \A b \in ThreadBars(r, thread) : BarRight(b)
      BY <1>1, BarsRight
    <2>7. refused \in BOOLEAN /\ (refused => GoesOnFor(r))
      BY <1>1 DEF GoesOnFor
    <2> HIDE DEF own, grid, said, refused, y
    <2>8. CanDraw(cfg, r, related, refused, said \cup own \cup grid, ThreadBars(r, thread))
      BY <1>1, <2>4, <2>5, <2>6, <2>7, <2>9, ShowsJoin DEF CanDraw
    <2> QED
      BY <1>2, <2>1, <2>3, <2>8, BarsReply
  <1> QED
    BY <1>3, <1>4

LEMMA DeviationKeeps ==
  ASSUME cfg \in Instances, Deviation
  PROVE  Inv'
  <1>1. Asked(cfg, Plain("post"), <<>>)
    BY PlainAsked
  <1>2. ASSUME Reply(Plain("post"), <<>>, ReturnHTTPError(Start, 400)) PROVE Inv'
    <2>1. StartRefusal(ReturnHTTPError(Start, 400))
      BY DEF StartRefusal
    <2> QED
      BY <1>1, <1>2, <2>1, StartRefusals
  <1>3. ASSUME NEW e \in Errors,
               Reply(Told(Plain("post"), e), <<>>, UpstreamError(Start, e))
        PROVE  Inv'
    <2>1. "" \in Types
      BY DEF Types
    <2> QED
      BY <1>3, <2>1, UpstreamReply DEF Plain
  <1>4. ASSUME NEW atom \in BOOLEAN, NEW page \in Pages, NEW d \in Deviations,
               NEW related \in Lists, NEW thread \in Threads, NEW text \in Texts,
               Reply(Request("post", "", atom, page), related,
                     Post(Request("post", "", atom, page), d, related, thread, text))
        PROVE  Inv'
    <2>1. page \in Int /\ related \in Seq(Deviations) /\ text \subseteq Embeds
      BY RequestsAssumption
    <2> QED
      BY <1>4, <2>1, PostIsRight
  <1> QED
    BY <1>2, <1>3, <1>4 DEF Deviation

\* A feed that is sent.
LEMMA FeedReply ==
  ASSUME NEW r, NEW devs, Asked(cfg, r, devs), r.atom, ~PagedFeed(r), NEW text,
         text \subseteq Embeds, Reply(r, devs, Fed(Start, r, cfg, devs, text))
  PROVE  Inv'
  <1> DEFINE shown == Shown(cfg, devs)
  <1> DEFINE said == Texted(cfg, IF shown = {} THEN {} ELSE text)
  <1> DEFINE listed == {<<d, "feed">> : d \in shown}
  <1> DEFINE more == said \cup listed
  <1> DEFINE t == IF shown = {} THEN "none" ELSE "atom"
  <1> DEFINE h == Headers("page", t, "none", "none", "none")
  <1> DEFINE s == Headers("page", Typed(t, "feed"), "none", "none", "none")
  <1> DEFINE x == IF shown = {} THEN Start ELSE Add(Start, "type", "atom")
  <1> DEFINE y == Describe(x, cfg, IF shown = {} THEN {} ELSE text)
  <1>0. cfg \in Instances /\ devs \in Seq(Deviations)
    BY DEF Asked
  <1>1. x = Open("page", t, "none", "none", "none", {}, {})
    <2>1. CASE shown = {}
      BY <2>1, StartIs DEF Showing
    <2>2. CASE shown # {}
      BY <2>2, StartIs, AddOpen DEF Showing
    <2> QED
      BY <2>1, <2>2
  <1>2. Fed(Start, r, cfg, devs, text) = Show(Write(y, "feed"), shown, "feed")
    BY DEF Fed
  <1>10. ShowsAllowed(cfg, said)
    <2>1. (IF shown = {} THEN {} ELSE text) \subseteq Embeds
      OBVIOUS
    <2> HIDE DEF shown
    <2> QED
      BY <1>0, <2>1, TextAllowed
  <1> HIDE DEF x, t
  <1>11. y = Open("page", t, "none", "none", "none", said, {})
    <2>1. y = Open("page", t, "none", "none", "none", {} \cup said, {})
      BY <1>1, DescribeOpen
    <2>2. {} \cup said = said
      OBVIOUS
    <2> HIDE DEF said, y
    <2> QED
      BY <2>1, <2>2
  <1> HIDE DEF y, said
  <1>3. Write(y, "feed") = Response(h, 200, s, <<"feed">>, said, {}, "none")
    BY <1>11, WriteOpen
  <1> HIDE DEF h, s, shown
  <1>4. Show(Write(y, "feed"), shown, "feed")
          = Response(h, 200, s, <<"feed">>, more, {}, "none")
    BY <1>3, ShowAny
  <1>5. Reply(r, devs, Response(h, 200, s, <<"feed">>, more, {}, "none"))
    BY <1>2, <1>4
  <1>6. ShowsAllowed(cfg, more) /\ ListsAll(cfg, devs, more)
    <2>1. "feed" \in Places
      BY DEF Places
    <2>2. ShowsAllowed(cfg, listed) /\ ListsAll(cfg, devs, listed)
      BY <1>0, <2>1, ShownIsRight DEF shown
    <2> HIDE DEF listed
    <2> QED
      BY <1>0, <1>10, <2>2, ShowsJoin
  <1>7. t \in Values /\ "page" \in Values /\ "none" \in Values
    BY SomeValues DEF t
  <1>8. "feed" \in Good /\ Typed(t, "feed") \in Fit["feed"]
    BY DEF Good, Fit, Typed, Sniffed, t
  <1> HIDE DEF more
  <1>9. CanAnswer(cfg, r, devs, "page", t, "none", "none", "feed", more)
    BY <1>6, <1>7, <1>8 DEF CanAnswer, Asked
  <1> QED
    BY <1>5, <1>9, DocumentReply DEF h, s

\* A feed that is refused once more by the list after the strip.
LEMMA TwiceRefused ==
  ASSUME NEW r, NEW devs, Asked(cfg, r, devs), GoesOnFor(r),
         Reply(r, devs, ReturnHTTPError(ReturnHTTPError(Start, 400), 400))
  PROVE  Inv'
  <1> DEFINE h == Headers("none", "none", "none", "none", "none")
  <1> DEFINE s == Headers("none", "html", "none", "none", "none")
  <1> DEFINE once == <<"error">>
  <1> DEFINE twice == Append(once, "error")
  <1> DEFINE v == Response(h, 400, s, once, {}, {}, "none")
  <1>1. ReturnHTTPError(Start, 400) = v
    <2>1. Typed("none", "error") = "html"
      BY DEF Typed, Sniffed
    <2> QED
      BY <2>1, StartIs, RefuseCodes DEF Showing, Refusal
  <1>2. Del(v, "cache") = v
    <2>1. Set(h, "cache", "none") = h
      BY SetField
    <2> HIDE DEF h, s, once
    <2> QED
      BY <2>1, PutSets DEF Del
  <1>3. once # <<>> /\ twice \in Seq(Kinds) /\ Len(twice) = 2 /\ twice[1] = "error"
    BY KindsListed DEF KindsAre
  <1>4. WriteHeader(v, 400) = v
    <2> HIDE DEF h, s, once
    <2> QED
      BY SentOnce
  <1>5. Write(v, "error") = Response(h, 400, s, twice, {}, {}, "none")
    <2>1. BodyAllowed(400)
      BY DEF BodyAllowed
    <2> HIDE DEF h, s, once
    <2> QED
      BY <1>3, <2>1, WriteMore
  <1> HIDE DEF v
  <1>6. ReturnHTTPError(v, 400) = Write(v, "error")
    BY <1>2, <1>4 DEF ReturnHTTPError, Sendable
  <1>7. Reply(r, devs, Response(h, 400, s, twice, {}, {}, "none"))
    BY <1>1, <1>5, <1>6
  <1>8. Proper(cfg, r, 400, "none", "html", twice) /\ RetryRight(r, 400, "none")
    BY <1>3 DEF Proper, Refused, RetryRight, Asked
  <1>9. "none" \in Values /\ "html" \in Values /\ h \in Header
    BY SomeValues, HeaderFields
  <1>10. 400 \in 100..599 /\ ~(400 = 200) /\ \A b \in {} : BarRight(b)
    OBVIOUS
  <1> HIDE DEF h, twice
  <1>11. Right(cfg, r, devs, h, 400, "none", "html", "none", "none", "none", twice, {}, {},
               "none")
    BY <1>3, <1>8, <1>9, <1>10, NothingShown DEF Right, Asked
  <1> QED
    BY <1>7, <1>11, ReplyKeeps

\* DD.
LEMMA DailyIsRight ==
  ASSUME cfg \in Instances, NEW r, NEW strip \in Seq(Deviations), NEW devs \in Seq(Deviations),
         NEW more \in BOOLEAN, Asked(cfg, r, devs), Asked(cfg, r, strip \o devs),
         r.ep = "dd", r.accept = <<>>, r.page \in Int, r.atom \in BOOLEAN,
         NEW text, text \subseteq Embeds,
         Reply(r, IF r.atom THEN devs ELSE strip \o devs,
               DailyPage(r, strip, devs, text, more))
  PROVE  Inv'
  <1> DEFINE content == [pages |-> 0, more |-> more]
  <1> DEFINE v == IF strip = <<>> THEN Start ELSE Listed(Start, r)
  <1> DEFINE x == Fed(v, r, cfg, devs, text)
  <1> DEFINE grid == Grid(r, cfg, strip) \cup Grid(r, cfg, devs)
  <1>1. DailyPage(r, strip, devs, text, more)
          = IF r.atom THEN x ELSE PageWith(Show(x, grid, "list"), r, Bar(r, content))
    BY DEF DailyPage
  <1>2. CASE ~r.atom
    <2>0. ~PagedFeed(r) /\ PagedFeed(r) \in BOOLEAN
      BY <1>2 DEF PagedFeed
    <2>1. Drawing(v, FALSE, {}, {})
      <3>1. v = Start
        BY <1>2, <2>0 DEF Listed
      <3> QED
        BY <3>1, StartDraws
    <2> HIDE DEF v
    <2>2. Drawing(x, FALSE, {}, {})
      <3>1. x = v
        BY <1>2, <2>0 DEF Fed, Listed
      <3> QED
        BY <2>1, <3>1
    <2> HIDE DEF x, grid
    <2>3. Drawing(Show(x, grid, "list"), FALSE, {} \cup At(grid, "list"), {})
      BY <2>2, ShowDraws
    <2>4. {} \cup At(grid, "list") = At(grid, "list")
      OBVIOUS
    <2>5. grid = Shown(cfg, strip \o devs)
      <3>1. Range(strip \o devs) = Range(strip) \cup Range(devs)
        BY RangeConcatenation
      <3> QED
        BY <2>0, <3>1 DEF grid, Grid, Shown
    <2>6. /\ ShowsAllowed(cfg, At(grid, "list"))
          /\ ListsAll(cfg, strip \o devs, At(grid, "list"))
      <3>1. "list" \in Places
        BY DEF Places
      <3> QED
        BY <2>5, <3>1, ShownIsRight DEF At, Asked
    <2>7. \A b \in Bar(r, content) : BarRight(b)
      <3>1. content.pages = 0 /\ content.more = more /\ 0 \in Int
        OBVIOUS
      <3> HIDE DEF content
      <3> QED
        BY <3>1, BarsRight
    <2> HIDE DEF content
    <2>8. CanDraw(cfg, r, strip \o devs, FALSE, At(grid, "list"), Bar(r, content))
      BY <2>6, <2>7 DEF CanDraw
    <2>9. Reply(r, strip \o devs, PageWith(Show(x, grid, "list"), r, Bar(r, content)))
      BY <1>1, <1>2
    <2> QED
      BY <2>3, <2>4, <2>8, <2>9, BarsReply
  <1>3. CASE r.atom /\ ~PagedFeed(r)
    <2>1. v = Start
      BY <1>3 DEF Listed
    <2>2. Reply(r, devs, Fed(Start, r, cfg, devs, text))
      BY <1>1, <1>3, <2>1
    <2> QED
      BY <1>3, <2>2, FeedReply
  <1>4. CASE PagedFeed(r)
    <2>1. r.atom
      BY <1>4 DEF PagedFeed
    <2>2. x = ReturnHTTPError(v, 400)
      BY <1>4 DEF Fed, Listed
    <2>3. Reply(r, devs, x)
      BY <1>1, <2>1
    <2>4. CASE strip = <<>>
      <3>1. x = ReturnHTTPError(Start, 400)
        BY <2>2, <2>4
      <3>2. StartRefusal(x)
        BY <3>1 DEF StartRefusal
      <3> HIDE DEF x
      <3> QED
        BY <2>3, <3>2, StartRefusals
    <2>5. CASE strip # <<>>
      <3>1. v = ReturnHTTPError(Start, 400)
        BY <1>4, <2>5 DEF Listed
      <3>2. GoesOnFor(r)
        BY <1>4 DEF GoesOnFor
      <3> HIDE DEF x, v
      <3>3. Reply(r, devs, ReturnHTTPError(ReturnHTTPError(Start, 400), 400))
        BY <2>2, <2>3, <3>1, Zenon
      <3> QED
        BY <3>2, <3>3, TwiceRefused
    <2> QED
      BY <2>4, <2>5
  <1> QED
    BY <1>2, <1>3, <1>4

LEMMA DDKeeps ==
  ASSUME cfg \in Instances, DD
  PROVE  Inv'
  <1>1. ASSUME NEW e \in Errors, Reply(Told(Plain("dd"), e), <<>>, UpstreamError(Start, e))
        PROVE  Inv'
    <2>1. "" \in Types
      BY DEF Types
    <2> QED
      BY <1>1, <2>1, UpstreamReply DEF Plain
  <1>2. ASSUME NEW atom \in BOOLEAN, NEW more \in BOOLEAN, NEW page \in Pages,
               NEW strip \in Lists, NEW devs \in Lists, NEW text \in Texts,
               Reply(Request("dd", "", atom, page), IF atom THEN devs ELSE strip \o devs,
                     DailyPage(Request("dd", "", atom, page), strip, devs, text, more))
        PROVE  Inv'
    <2> DEFINE r == Request("dd", "", atom, page)
    <2>1. /\ page \in Int /\ strip \in Seq(Deviations) /\ devs \in Seq(Deviations)
          /\ strip \o devs \in Seq(Deviations) /\ "" \in Types /\ text \subseteq Embeds
      BY RequestsAssumption DEF Types
    <2>2. r.ep = "dd" /\ r.accept = <<>> /\ r.page = page /\ r.atom = atom
      BY DEF Request
    <2>3. Asked(cfg, r, devs) /\ Asked(cfg, r, strip \o devs)
      BY <2>1, RequestAsked
    <2>4. Reply(r, IF r.atom THEN devs ELSE strip \o devs,
                DailyPage(r, strip, devs, text, more))
      BY <1>2, <2>2
    <2> HIDE DEF r
    <2> QED
      BY <2>1, <2>2, <2>3, <2>4, DailyIsRight
  <1> QED
    BY <1>1, <1>2 DEF DD

\* A grid under its bar, of a list that may have been refused as a feed.
LEMMA GridReply ==
  ASSUME cfg \in Instances, NEW r, NEW devs \in Seq(Deviations), Asked(cfg, r, devs),
         r.ep # "api", r.accept = <<>>, r.page \in Int, r.atom \in BOOLEAN,
         PagedFeed(r) => GoesOnFor(r),
         NEW v, NEW S, ShowsAllowed(cfg, S), Drawing(v, PagedFeed(r), S, {}),
         NEW bars, \A b \in bars : BarRight(b),
         Reply(r, devs, PageWith(Show(v, Grid(r, cfg, devs), "list"), r, bars))
  PROVE  Inv'
  <1> DEFINE grid == At(Grid(r, cfg, devs), "list")
  <1> DEFINE x == Show(v, Grid(r, cfg, devs), "list")
  <1>1. Drawing(x, PagedFeed(r), S \cup grid, {})
    BY ShowDraws
  <1>2. ShowsAllowed(cfg, grid) /\ (~PagedFeed(r) => ListsAll(cfg, devs, grid))
    BY GridIsRight
  <1>3. PagedFeed(r) \in BOOLEAN
    BY DEF PagedFeed
  <1> HIDE DEF grid, x
  <1>4. CanDraw(cfg, r, devs, PagedFeed(r), S \cup grid, bars)
    BY <1>2, <1>3, ShowsJoin DEF CanDraw
  <1> QED
    BY <1>1, <1>4, BarsReply DEF x

LEMMA FoundIsRight ==
  ASSUME cfg \in Instances, NEW r, NEW devs \in Seq(Deviations), Asked(cfg, r, devs),
         r.ep = "search", r.accept = <<>>, r.page \in Int, r.atom \in BOOLEAN,
         NEW content, content.pages \in Int, content.more \in BOOLEAN,
         Reply(r, devs, Found(r, devs, content))
  PROVE  Inv'
  <1> DEFINE v == Listed(Start, r)
  <1>1. Drawing(v, PagedFeed(r), {}, {})
    BY StartDraws, ListedDraws
  <1>2. Found(r, devs, content)
          = PageWith(Show(v, Grid(r, cfg, devs), "list"), r, Bar(r, content))
    BY DEF Found
  <1> HIDE DEF v
  <1>3. \A b \in Bar(r, content) : BarRight(b)
    BY BarsRight
  <1>4. PagedFeed(r) => GoesOnFor(r)
    BY DEF GoesOnFor
  <1>5. Reply(r, devs, PageWith(Show(v, Grid(r, cfg, devs), "list"), r, Bar(r, content)))
    BY <1>2
  <1>6. r.ep # "api"
    OBVIOUS
  <1> QED
    BY <1>1, <1>3, <1>4, <1>5, <1>6, NothingShown, GridReply

\* A page that lists nothing.
LEMMA BareReply ==
  ASSUME NEW r, Asked(cfg, r, <<>>), r.ep # "api", r.accept = <<>>,
         NEW v, NEW S, ShowsAllowed(cfg, S), Drawing(v, FALSE, S, {}),
         NEW bars, \A b \in bars : BarRight(b),
         Reply(r, <<>>, PageWith(v, r, bars))
  PROVE  Inv'
  <1>1. ListsAll(cfg, <<>>, S)
    BY DEF ListsAll
  <1>2. CanDraw(cfg, r, <<>>, FALSE, S, bars)
    BY <1>1 DEF CanDraw
  <1> QED
    BY <1>2, BarsReply

LEMMA SearchKeeps ==
  ASSUME cfg \in Instances, Search
  PROVE  Inv'
  <1>0. FALSE \in BOOLEAN /\ 0 \in Int /\ <<>> \in Seq(Deviations)
    OBVIOUS
  <1>1. ASSUME NEW type \in Types,
               Reply(Request("search", type, FALSE, 0), <<>>,
                     BadSearch(Request("search", type, FALSE, 0)))
        PROVE  Inv'
    <2>1. Asked(cfg, Request("search", type, FALSE, 0), <<>>)
      BY <1>0, RequestAsked
    <2>2. StartRefusal(BadSearch(Request("search", type, FALSE, 0)))
      BY DEF StartRefusal, BadSearch
    <2> QED
      BY <1>1, <2>1, <2>2, StartRefusals
  <1>2. ASSUME NEW page \in Pages,
               Reply(Request("search", "r", FALSE, page), <<>>,
                     PageWith(Start, Request("search", "r", FALSE, page),
                              {NavBase(page, 0, TRUE)}))
        PROVE  Inv'
    <2> DEFINE r == Request("search", "r", FALSE, page)
    <2> DEFINE bars == {NavBase(page, 0, TRUE)}
    <2>1. page \in Int /\ "r" \in Types /\ TRUE \in BOOLEAN
      BY RequestsAssumption DEF Types
    <2>2. Asked(cfg, r, <<>>) /\ r.ep # "api" /\ r.accept = <<>>
      <3>1. Asked(cfg, r, <<>>)
        BY <1>0, <2>1, RequestAsked
      <3> QED
        BY <3>1 DEF Request
    <2>3. \A b \in bars : BarRight(b)
      BY <1>0, <2>1, BarIsRight
    <2> HIDE DEF r, bars
    <2>4. Reply(r, <<>>, PageWith(Start, r, bars))
      BY <1>2 DEF r, bars
    <2> QED
      BY <2>2, <2>3, <2>4, NothingShown, StartDraws, BareReply
  <1>8. ASSUME NEW page \in Pages, NEW e \in Failures,
               Reply(Told(Request("search", "r", FALSE, page), e), <<>>,
                     Page(Start, Request("search", "r", FALSE, page)))
        PROVE  Inv'
    <2> DEFINE r == Told(Request("search", "r", FALSE, page), e)
    <2>1. page \in Int /\ "r" \in Types
      BY RequestsAssumption DEF Types
    <2>2. Asked(cfg, r, <<>>) /\ r.ep # "api" /\ r.accept = <<>>
      <3>1. Asked(cfg, r, <<>>)
        BY <2>1, ToldAsked
      <3> QED
        BY <3>1 DEF Told, Request
    <2>3. Request("search", "r", FALSE, page).accept = <<>>
      BY DEF Request
    <2> HIDE DEF r
    <2>4. Reply(r, <<>>, Page(Start, r))
      BY <1>8, <2>2, <2>3 DEF Page, r
    <2>5. ListsAll(cfg, <<>>, {})
      BY DEF ListsAll
    <2>6. CanDraw(cfg, r, <<>>, FALSE, {}, {})
      BY <2>2, <2>5, NothingShown DEF CanDraw
    <2> QED
      BY <2>4, <2>6, StartDraws, DrawReply
  <1>3. ASSUME NEW type \in {"a", "t", "g", "f"}, NEW e \in Errors,
               Reply(Told(Request("search", type, FALSE, 0), e), <<>>, UpstreamError(Start, e))
        PROVE  Inv'
    <2>1. type \in Types /\ type # "r"
      BY DEF Types
    <2> QED
      BY <1>3, <2>1, UpstreamReply
  <1>4. ASSUME NEW type \in Types, NEW atom \in BOOLEAN, NEW page \in Pages,
               NEW devs \in Seq(Deviations), NEW content, content.pages \in Int,
               content.more \in BOOLEAN,
               Reply(Request("search", type, atom, page), devs,
                     Found(Request("search", type, atom, page), devs, content))
        PROVE  Inv'
    <2> DEFINE r == Request("search", type, atom, page)
    <2>1. page \in Int
      BY RequestsAssumption
    <2>2. Asked(cfg, r, devs)
      BY <2>1, RequestAsked
    <2>3. r.ep = "search" /\ r.accept = <<>> /\ r.page = page /\ r.atom = atom
      BY DEF Request
    <2> HIDE DEF r
    <2>4. Reply(r, devs, Found(r, devs, content))
      BY <1>4 DEF r
    <2> QED
      BY <1>4, <2>1, <2>2, <2>3, <2>4, FoundIsRight
  <1>5. ASSUME NEW type \in {"a", "t", "g", "f"}, NEW atom \in BOOLEAN, NEW page \in Pages,
               NEW devs \in Lists, NEW content \in Counts,
               Reply(Request("search", type, atom, page), devs,
                     Found(Request("search", type, atom, page), devs, content))
        PROVE  Inv'
    <2>1. /\ devs \in Seq(Deviations) /\ content.pages \in Int /\ content.more \in BOOLEAN
          /\ type \in Types
      BY RequestsAssumption DEF Types
    <2> QED
      BY <1>4, <1>5, <2>1
  <1>6. ASSUME NEW type \in {"a", "t", "g", "f"}, NEW atom \in BOOLEAN, NEW page \in Pages,
               Reply(Request("search", type, atom, page), <<>>,
                     Found(Request("search", type, atom, page), <<>>,
                           [pages |-> 0, more |-> FALSE]))
        PROVE  Inv'
    <2> DEFINE content == [pages |-> 0, more |-> FALSE]
    <2>1. content.pages \in Int /\ content.more \in BOOLEAN
      BY <1>0
    <2>3. type \in Types
      BY DEF Types
    <2> HIDE DEF content
    <2>2. Reply(Request("search", type, atom, page), <<>>,
                Found(Request("search", type, atom, page), <<>>, content))
      BY <1>6 DEF content
    <2> QED
      BY <1>0, <1>4, <2>1, <2>2, <2>3
  <1>7. {"a", "t", "g", "f"} \subseteq Types
    BY DEF Types
  <1> QED
    BY <1>1, <1>2, <1>3, <1>5, <1>6, <1>7, <1>8 DEF Search

\* A reply without a document: the status alone.
CanEnd(cf, r, devs, c, t, l, n, shows, code) ==
  /\ Asked(cf, r, devs) /\ code \in {200, 302}
  /\ c \in Values /\ t \in Values /\ l \in Values /\ n \in Values
  /\ r.ep = "api" \/ ListsAll(cf, devs, shows)
  /\ ShowsAllowed(cf, shows)

LEMMA EmptyReply ==
  ASSUME NEW r, NEW devs, NEW c, NEW t, NEW l, NEW n, NEW shows, NEW code,
         CanEnd(cfg, r, devs, c, t, l, n, shows, code),
         Reply(r, devs, Response(Headers(c, t, "none", l, n), code,
                                 Headers(c, t, "none", l, n), <<>>, shows, {}, "none"))
  PROVE  Inv'
  <1> DEFINE h == Headers(c, t, "none", l, n)
  <1>1. "none" \in Values
    BY SomeValues
  <1>2. h \in Header
    BY <1>1, HeaderFields DEF CanEnd
  <1>3. <<>> \in Seq(Kinds) /\ <<>> # <<"json">>
    OBVIOUS
  <1>4. Proper(cfg, r, code, c, t, <<>>) /\ RetryRight(r, code, "none")
    BY DEF Proper, Empty, CanEnd, RetryRight, Asked
  <1>5. code \in 100..599
    BY DEF CanEnd
  <1> HIDE DEF h
  <1>6. Right(cfg, r, devs, h, code, c, t, "none", l, n, <<>>, shows, {}, "none")
    BY <1>1, <1>2, <1>3, <1>4, <1>5 DEF Right, CanEnd, Asked
  <1> QED
    BY <1>6, ReplyKeeps DEF h

LEMMA NothingReply ==
  ASSUME NEW r, NEW devs, NEW c, NEW t, NEW l, NEW n, NEW shows,
         CanEnd(cfg, r, devs, c, t, l, n, shows, 200),
         Reply(r, devs, Open(c, t, "none", l, n, shows, {}))
  PROVE  Inv'
  <1> DEFINE h == Headers(c, t, "none", l, n)
  <1> DEFINE x == Response(h, 200, h, <<>>, shows, {}, "none")
  <1>1. Served(Open(c, t, "none", l, n, shows, {})) = x
    BY SendOpen DEF Served
  <1>2. Served(x) = x
    BY SentOnce DEF Served
  <1> HIDE DEF x
  <1>3. Reply(r, devs, x)
    BY <1>1, <1>2 DEF Reply
  <1> QED
    BY <1>3, EmptyReply DEF x

-----------------------------------------------------------------------------
(* GRUser.                                                                 *)

LEMMA AboutIsRight ==
  ASSUME cfg \in Instances, NEW r, Asked(cfg, r, <<>>), r.ep = "group_user", r.accept = <<>>,
         r.page \in Int, NEW cover, cover \subseteq Deviations, NEW thread, NEW text,
         text \subseteq Embeds, Reply(r, <<>>, AboutTab(r, cover, thread, text))
  PROVE  Inv'
  <1> DEFINE S == {d \in cover : ~d.nsfw}
  <1> DEFINE bars == ThreadBars(r, thread)
  <1> DEFINE said == Texted(cfg, text)
  <1> DEFINE v == Describe(Start, cfg, text)
  <1> DEFINE shows == said \cup At(S, "cover")
  <1>1. ShowsAllowed(cfg, shows)
    <2>1. S \subseteq Deviations /\ \A d \in S : d.nsfw => cfg.nsfw
      OBVIOUS
    <2> HIDE DEF S
    <2>2. ShowsAllowed(cfg, At(S, "cover")) /\ ShowsAllowed(cfg, said)
      BY <2>1, OwnPlaceAllowed, TextAllowed
    <2> HIDE DEF said
    <2> QED
      BY <2>2, ShowsJoin
  <1>2. AboutTab(r, cover, thread, text) = PageWith(Show(v, S, "cover"), r, bars)
    BY DEF AboutTab
  <1> HIDE DEF S
  <1>3. Drawing(Show(v, S, "cover"), FALSE, shows, {})
    <2>1. Drawing(v, FALSE, {} \cup said, {})
      BY StartDraws, DescribeDraws
    <2>2. {} \cup said = said
      OBVIOUS
    <2> HIDE DEF v, said
    <2> QED
      BY <2>1, <2>2, ShowDraws
  <1> HIDE DEF v, shows
  <1>4. \A b \in bars : BarRight(b)
    BY BarsRight
  <1> HIDE DEF bars
  <1>5. Reply(r, <<>>, PageWith(Show(v, S, "cover"), r, bars))
    BY <1>2
  <1>6. r.ep # "api"
    OBVIOUS
  <1> QED
    BY <1>1, <1>3, <1>4, <1>5, <1>6, BareReply

LEMMA GalleryIsRight ==
  ASSUME cfg \in Instances, NEW r, NEW devs \in Seq(Deviations), Asked(cfg, r, devs),
         r.ep = "group_user", r.accept = <<>>, r.page \in Int, r.atom \in BOOLEAN,
         NEW folders \in Seq(Deviations), NEW listed \in BOOLEAN, ~listed => devs = <<>>,
         NEW content, content.pages \in Int, content.more \in BOOLEAN,
         NEW text, text \subseteq Embeds,
         Reply(r, devs, GalleryTab(r, folders, listed, devs, text, content))
  PROVE  Inv'
  <1> DEFINE v == IF listed THEN Fed(Start, r, cfg, devs, text) ELSE Start
  <1> DEFINE S == FolderCovers(folders)
  <1> DEFINE x == Show(v, S, "folder")
  <1>1. GalleryTab(r, folders, listed, devs, text, content)
          = IF r.atom THEN v
            ELSE IF listed
                 THEN PageWith(Show(x, Grid(r, cfg, devs), "list"), r, Bar(r, content))
                 ELSE Page(x, r)
    BY DEF GalleryTab
  <1>2. r.ep # "api"
    OBVIOUS
  <1>3. CASE r.atom /\ listed
    <2>1. Reply(r, devs, Fed(Start, r, cfg, devs, text))
      BY <1>1, <1>3
    <2>2. CASE PagedFeed(r)
      <3>1. StartRefusal(Fed(Start, r, cfg, devs, text))
        BY <2>2 DEF StartRefusal, Fed, Listed
      <3> QED
        BY <2>1, <3>1, StartRefusals
    <2> QED
      BY <1>3, <2>1, <2>2, FeedReply
  <1>4. CASE r.atom /\ ~listed
    <2>1. Reply(r, devs, Open("page", "none", "none", "none", "none", {}, {}))
      BY <1>1, <1>4, StartIs DEF Showing
    <2>2. ListsAll(cfg, devs, {})
      BY <1>4 DEF ListsAll
    <2>3. "page" \in Values /\ "none" \in Values
      BY SomeValues
    <2>4. CanEnd(cfg, r, devs, "page", "none", "none", "none", {}, 200)
      BY <2>2, <2>3, NothingShown DEF CanEnd
    <2> QED
      BY <2>1, <2>4, NothingReply
  <1>5. ASSUME ~r.atom PROVE Inv'
    <2>1. PagedFeed(r) = FALSE
      BY <1>5 DEF PagedFeed
    <2>2. Drawing(v, FALSE, {}, {})
      <3>1. v = Start
        BY <1>5, <2>1 DEF Fed, Listed
      <3> QED
        BY <3>1, StartDraws
    <2>3. ShowsAllowed(cfg, At(S, "folder"))
      <3>1. \A i \in DOMAIN folders : folders[i] \in Deviations
        BY ElementOfSeq
      <3>2. S \subseteq Deviations /\ \A d \in S : d.nsfw => cfg.nsfw
        BY <3>1 DEF FolderCovers
      <3> HIDE DEF S
      <3> QED
        BY <3>2, OwnPlaceAllowed
    <2> HIDE DEF v, S
    <2>4. Drawing(x, FALSE, At(S, "folder"), {})
      <3>1. Drawing(x, FALSE, {} \cup At(S, "folder"), {})
        BY <2>2, ShowDraws
      <3>2. {} \cup At(S, "folder") = At(S, "folder")
        OBVIOUS
      <3> QED
        BY <3>1, <3>2
    <2> HIDE DEF x
    <2>5. CASE listed
      <3>1. \A b \in Bar(r, content) : BarRight(b)
        BY BarsRight
      <3>2. Reply(r, devs, PageWith(Show(x, Grid(r, cfg, devs), "list"), r,
                                    Bar(r, content)))
        BY <1>1, <1>5, <2>5
      <3>3. Drawing(x, PagedFeed(r), At(S, "folder"), {}) /\ (PagedFeed(r) => GoesOnFor(r))
        BY <2>1, <2>4
      <3> QED
        BY <1>2, <2>3, <3>1, <3>2, <3>3, GridReply
    <2>6. CASE ~listed
      <3>1. Reply(r, devs, Page(x, r)) /\ devs = <<>>
        BY <1>1, <1>5, <2>6
      <3>2. ListsAll(cfg, devs, At(S, "folder"))
        BY <3>1 DEF ListsAll
      <3>3. CanDraw(cfg, r, devs, FALSE, At(S, "folder"), {})
        BY <1>2, <2>3, <3>2 DEF CanDraw
      <3> QED
        BY <2>4, <3>1, <3>3, DrawReply
    <2> QED
      BY <2>5, <2>6
  <1> QED
    BY <1>3, <1>4, <1>5

LEMMA NoTabKeeps ==
  ASSUME cfg \in Instances, NEW type \in Types \ {"a", "g", "f"}, NEW atom \in BOOLEAN,
         Reply(Request("group_user", type, atom, 0), <<>>,
               NoTab(Request("group_user", type, atom, 0)))
  PROVE  Inv'
  <1> DEFINE r == Request("group_user", type, atom, 0)
  <1> DEFINE v == ReturnHTTPError(Start, 400)
  <1>1. Asked(cfg, r, <<>>)
    <2>1. <<>> \in Seq(Deviations) /\ 0 \in Int
      OBVIOUS
    <2> QED
      BY <2>1, RequestAsked
  <1>2. r.ep = "group_user" /\ r.type = type /\ r.accept = <<>> /\ r.atom = atom
    BY DEF Request
  <1> HIDE DEF r
  <1>3. Reply(r, <<>>, IF r.atom THEN v ELSE Page(v, r))
    BY DEF NoTab, r
  <1>4. StartRefusal(v)
    BY DEF StartRefusal
  <1>5. Drawing(v, TRUE, {}, {})
    BY RefusedDraws
  <1>6. GoesOnFor(r)
    BY <1>2 DEF GoesOnFor
  <1>7. r.ep # "api" /\ \A b \in {} : BarRight(b)
    BY <1>2
  <1> HIDE DEF v
  <1>8. CanDraw(cfg, r, <<>>, TRUE, {}, {})
    BY <1>1, <1>2, <1>6, <1>7, NothingShown DEF CanDraw
  <1>9. CASE r.atom
    BY <1>1, <1>3, <1>4, <1>9, StartRefusals
  <1>10. CASE ~r.atom
    BY <1>3, <1>5, <1>8, <1>10, DrawReply
  <1> QED
    BY <1>9, <1>10

LEMMA GRUserKeeps ==
  ASSUME cfg \in Instances, GRUser
  PROVE  Inv'
  <1>0. FALSE \in BOOLEAN /\ 0 \in Int /\ <<>> \in Seq(Deviations)
    OBVIOUS
  <1>1. ASSUME Reply(Plain("group_user"), <<>>, ReturnHTTPError(Start, 400)) PROVE Inv'
    <2>1. StartRefusal(ReturnHTTPError(Start, 400)) /\ Asked(cfg, Plain("group_user"), <<>>)
      BY PlainAsked DEF StartRefusal
    <2> QED
      BY <1>1, <2>1, StartRefusals
  <1>2. ASSUME NEW type \in Types, NEW e \in Errors,
               Reply(Told(Request("group_user", type, FALSE, 0), e), <<>>,
                     UpstreamError(Start, e))
        PROVE  Inv'
    BY <1>2, UpstreamReply
  <1>3. ASSUME NEW atom \in BOOLEAN, NEW page \in Pages,
               NEW cover \in {{}} \cup {{d} : d \in Deviations}, NEW thread \in Threads,
               NEW text \in Texts,
               Reply(Request("group_user", "a", atom, page), <<>>,
                     AboutTab(Request("group_user", "a", atom, page), cover, thread, text))
        PROVE  Inv'
    <2> DEFINE r == Request("group_user", "a", atom, page)
    <2>1. page \in Int /\ "a" \in Types
      BY RequestsAssumption DEF Types
    <2>2. Asked(cfg, r, <<>>)
      BY <1>0, <2>1, RequestAsked
    <2>3. r.ep = "group_user" /\ r.accept = <<>> /\ r.page = page
      BY DEF Request
    <2>4. cover \subseteq Deviations /\ text \subseteq Embeds
      BY RequestsAssumption
    <2> HIDE DEF r
    <2>5. Reply(r, <<>>, AboutTab(r, cover, thread, text))
      BY <1>3 DEF r
    <2> QED
      BY <2>1, <2>2, <2>3, <2>4, <2>5, AboutIsRight
  <1>4. ASSUME NEW type \in {"g", "f"}, NEW atom \in BOOLEAN, NEW listed \in BOOLEAN,
               NEW page \in Pages, NEW folders \in Lists, NEW devs \in Lists,
               NEW text \in Texts, NEW content \in Counts, ~listed => devs = <<>>,
               Reply(Request("group_user", type, atom, FirstPage(page)), devs,
                     GalleryTab(Request("group_user", type, atom, FirstPage(page)), folders,
                                listed, devs, text, content))
        PROVE  Inv'
    <2> DEFINE r == Request("group_user", type, atom, FirstPage(page))
    <2>1. /\ page \in Int /\ devs \in Seq(Deviations) /\ folders \in Seq(Deviations)
          /\ text \subseteq Embeds /\ content.pages \in Int /\ content.more \in BOOLEAN
      BY RequestsAssumption
    <2>2. FirstPage(page) \in Int
      BY <2>1 DEF FirstPage
    <2>3. type \in Types
      BY DEF Types
    <2>4. Asked(cfg, r, devs)
      BY <2>1, <2>2, <2>3, RequestAsked
    <2>5. /\ r.ep = "group_user" /\ r.accept = <<>> /\ r.page = FirstPage(page)
          /\ r.atom = atom
      BY DEF Request
    <2> HIDE DEF r
    <2>6. Reply(r, devs, GalleryTab(r, folders, listed, devs, text, content))
      BY <1>4 DEF r
    <2>7. r.page \in Int /\ r.atom \in BOOLEAN
      BY <2>2, <2>5
    <2> QED
      BY <1>4, <2>1, <2>4, <2>5, <2>6, <2>7, GalleryIsRight
  <1>5. ASSUME NEW type \in Types \ {"a", "g", "f"}, NEW atom \in BOOLEAN,
               Reply(Request("group_user", type, atom, 0), <<>>,
                     NoTab(Request("group_user", type, atom, 0)))
        PROVE  Inv'
    BY <1>5, NoTabKeeps
  <1> QED
    <2>1. CASE Reply(Plain("group_user"), <<>>, ReturnHTTPError(Start, 400))
      BY <1>1, <2>1
    <2>2. CASE \E type \in Types, e \in Errors :
                 Reply(Told(Request("group_user", type, FALSE, 0), e), <<>>,
                       UpstreamError(Start, e))
      BY <1>2, <2>2
    <2>3. CASE \E atom \in BOOLEAN, page \in Pages,
                  cover \in {{}} \cup {{d} : d \in Deviations}, thread \in Threads,
                  text \in Texts :
                 LET r == Request("group_user", "a", atom, page)
                 IN  Reply(r, <<>>, AboutTab(r, cover, thread, text))
      BY <1>3, <2>3
    <2>4. CASE \E type \in {"g", "f"}, atom, whole, listed \in BOOLEAN, page \in Pages,
                  folders, devs \in Lists, text \in Texts, content \in Counts :
                 LET r == Request("group_user", type, atom, FirstPage(page))
                 IN  /\ Len(folders) <= 1
                     /\ whole => listed /\ folders = <<>> /\ content.pages = 0
                     /\ ~listed => devs = <<>>
                     /\ Reply(r, devs, GalleryTab(r, folders, listed, devs, text, content))
      <3>1. PICK type \in {"g", "f"}, atom \in BOOLEAN, whole \in BOOLEAN,
                 listed \in BOOLEAN, page \in Pages, folders \in Lists, devs \in Lists,
                 text \in Texts, content \in Counts :
              LET r == Request("group_user", type, atom, FirstPage(page))
              IN  /\ Len(folders) <= 1
                  /\ whole => listed /\ folders = <<>> /\ content.pages = 0
                  /\ ~listed => devs = <<>>
                  /\ Reply(r, devs, GalleryTab(r, folders, listed, devs, text, content))
        BY <2>4
      <3> QED
        BY <1>4, <3>1
    <2>5. CASE \E type \in Types \ {"a", "g", "f"}, atom \in BOOLEAN :
                 LET r == Request("group_user", type, atom, 0) IN Reply(r, <<>>, NoTab(r))
      BY <1>5, <2>5
    <2> QED
      BY <2>1, <2>2, <2>3, <2>4, <2>5, Zenon DEF GRUser

-----------------------------------------------------------------------------
(* The JSON API.                                                           *)

\* A JSON answer that lists devs, with what its text embeds.
LEMMA JSONReply ==
  ASSUME NEW r, NEW devs, Asked(cfg, r, devs), NEW S, NEW place, NEW text,
         text \subseteq Embeds,
         ShowsAllowed(cfg, At(S, place)), ListsAll(cfg, devs, At(S, place)),
         NEW x, (x = StartAPI /\ text = {}) \/ x = Describe(StartAPI, cfg, text),
         Reply(r, devs, Show(WriteJSON(x), S, place))
  PROVE  Inv'
  <1> DEFINE said == Texted(cfg, text)
  <1> DEFINE listed == At(S, place)
  <1> DEFINE shows == said \cup listed
  <1> DEFINE h == Headers("page", "json", "none", "none", "none")
  <1>1. Typed("json", "json") = "json"
    BY DEF Typed
  <1>0. cfg \in Instances
    BY DEF Asked
  <1>8. x = Open("page", "json", "none", "none", "none", said, {})
    <2>1. {} \cup said = said
      OBVIOUS
    <2>2. text = {} => said = {}
      BY DEF Texted, Rendered
    <2>3. Describe(StartAPI, cfg, text)
            = Open("page", "json", "none", "none", "none", {} \cup said, {})
      BY StartAPIIs, DescribeOpen
    <2> HIDE DEF said
    <2> QED
      BY <2>1, <2>2, <2>3, StartAPIIs
  <1>9. ShowsAllowed(cfg, shows) /\ ListsAll(cfg, devs, shows)
    <2>1. ShowsAllowed(cfg, said)
      BY <1>0, TextAllowed
    <2> HIDE DEF said, listed
    <2> QED
      BY <1>0, <2>1, ShowsJoin DEF listed
  <1> HIDE DEF said
  <1>2. WriteJSON(x) = Response(h, 200, h, <<"json">>, said, {}, "none")
    BY <1>1, <1>8, WriteOpen DEF WriteJSON
  <1> HIDE DEF h
  <1>3. Show(WriteJSON(x), S, place) = Response(h, 200, h, <<"json">>, shows, {}, "none")
    BY <1>2, ShowAny DEF At
  <1> HIDE DEF shows
  <1>4. Reply(r, devs, Response(h, 200, h, <<"json">>, shows, {}, "none"))
    BY <1>3
  <1>5. "page" \in Values /\ "json" \in Values /\ "none" \in Values
    BY SomeValues
  <1>6. "json" \in Good /\ Typed("json", "json") \in Fit["json"]
    BY <1>1 DEF Good, Fit
  <1>7. CanAnswer(cfg, r, devs, "page", "json", "none", "none", "json", shows)
    BY <1>5, <1>6, <1>9 DEF CanAnswer, Asked
  <1> QED
    BY <1>1, <1>4, <1>7, DocumentReply DEF h

LEMMA APIKeeps ==
  ASSUME cfg \in Instances, APIInfo \/ APISearch \/ APIPost
  PROVE  Inv'
  <1> DEFINE p == Plain("api")
  <1>0. Asked(cfg, p, <<>>)
    BY PlainAsked
  <1>1. ASSUME NEW code \in {400, 403, 502}, Reply(p, <<>>, APIError(StartAPI, code))
        PROVE  Inv'
    <2>1. APIRefusal(APIError(StartAPI, code))
      BY DEF APIRefusal
    <2> QED
      BY <1>0, <1>1, <2>1, APIRefusals
  <1>2. ASSUME APIInfo PROVE Inv'
    <2>1. At({}, "json") = {}
      BY DEF At
    <2>2. ListsAll(cfg, <<>>, {})
      BY DEF ListsAll
    <2>3. Typed("json", "json") = "json" /\ "json" \in Good /\ "json" \in Fit["json"]
      BY DEF Typed, Good, Fit
    <2>4. CanAnswer(cfg, p, <<>>, "page", "json", "none", "none", "json", {})
      BY <1>0, <2>2, <2>3, NothingShown, SomeValues DEF CanAnswer, Asked
    <2> QED
      BY <1>2, <2>4, StartAPIIs, WriteReply DEF APIInfo, WriteJSON
  <1>3. ASSUME NEW type \in {"", "a", "t", "g", "f"}, NEW page \in Pages, NEW devs \in Lists,
               Reply(Request("api", type, FALSE, page), devs,
                     Show(WriteJSON(StartAPI), ByAPI(devs), "json"))
        PROVE  Inv'
    <2> DEFINE r == Request("api", type, FALSE, page)
    <2>1. page \in Int /\ devs \in Seq(Deviations) /\ FALSE \in BOOLEAN
      BY RequestsAssumption
    <2>2. type \in Types /\ "json" \in Places
      BY DEF Types, Places
    <2>3. Asked(cfg, r, devs)
      BY <2>1, <2>2, RequestAsked
    <2>4. /\ ShowsAllowed(cfg, At(ByAPI(devs), "json"))
          /\ ListsAll(cfg, devs, At(ByAPI(devs), "json"))
      BY <2>1, <2>2, ShownIsRight DEF ByAPI, At
    <2>5. {} \subseteq Embeds
      OBVIOUS
    <2> HIDE DEF r
    <2> QED
      BY <1>3, <2>3, <2>4, <2>5, JSONReply DEF r
  <1>4. ASSUME NEW d \in Deviations, ~(d.nsfw /\ ~cfg.nsfw), NEW text \in Texts,
               Reply(p, <<>>, Show(WriteJSON(Describe(StartAPI, cfg, text)), {d}, "post"))
        PROVE  Inv'
    <2>1. {d} \subseteq Deviations /\ \A x \in {d} : x.nsfw => cfg.nsfw
      BY <1>4
    <2>2. ShowsAllowed(cfg, At({d}, "post"))
      BY <2>1, OwnPlaceAllowed
    <2>3. ListsAll(cfg, <<>>, At({d}, "post"))
      BY DEF ListsAll
    <2>4. text \subseteq Embeds
      BY RequestsAssumption
    <2> QED
      BY <1>0, <1>4, <2>2, <2>3, <2>4, JSONReply
  <1>7. ASSUME NEW e \in Failures, Reply(Told(p, e), <<>>, APIError(StartAPI, 502))
        PROVE  Inv'
    <2>1. APIRefusal(APIError(StartAPI, 502))
      BY DEF APIRefusal
    <2>2. "" \in Types /\ 0 \in Int
      BY DEF Types
    <2>3. Asked(cfg, Told(p, e), <<>>)
      BY <2>2, ToldAsked DEF Plain
    <2> QED
      BY <1>7, <2>1, <2>3, APIRefusals
  <1>5. ASSUME APISearch PROVE Inv'
    <2>1. CASE Reply(Plain("api"), <<>>, APIError(StartAPI, 400))
      BY <1>1, <2>1
    <2>2. CASE \E e \in Failures : Reply(Told(Plain("api"), e), <<>>, APIError(StartAPI, 502))
      BY <1>7, <2>2
    <2>3. CASE \E type \in {"", "a", "t", "g", "f"}, page \in Pages, devs \in Lists :
                 Reply(Request("api", type, FALSE, page), devs,
                       Show(WriteJSON(StartAPI), ByAPI(devs), "json"))
      BY <1>3, <2>3, Zenon
    <2> QED
      BY <1>5, <2>1, <2>2, <2>3, Zenon DEF APISearch
  <1>6. ASSUME APIPost PROVE Inv'
    <2>1. ASSUME NEW d \in Deviations, NEW text \in Texts,
                 Reply(p, <<>>, IF d.nsfw /\ ~cfg.nsfw THEN APIError(StartAPI, 403)
                                ELSE Show(WriteJSON(Describe(StartAPI, cfg, text)), {d},
                                          "post"))
          PROVE  Inv'
      <3>1. CASE d.nsfw /\ ~cfg.nsfw
        <4>1. Reply(p, <<>>, APIError(StartAPI, 403))
          BY <2>1, <3>1
        <4> QED
          BY <1>1, <4>1
      <3>2. CASE ~(d.nsfw /\ ~cfg.nsfw)
        <4>1. Reply(p, <<>>, Show(WriteJSON(Describe(StartAPI, cfg, text)), {d}, "post"))
          BY <2>1, <3>2
        <4> QED
          BY <1>4, <3>2, <4>1
      <3> QED
        BY <3>1, <3>2
    <2>2. CASE Reply(Plain("api"), <<>>, APIError(StartAPI, 400))
      BY <1>1, <2>2
    <2>3. CASE \E e \in Errors : Reply(Told(Plain("api"), e), <<>>, APIError(StartAPI, 502))
      BY <1>7, <2>3 DEF Failures
    <2> QED
      BY <1>6, <2>1, <2>2, <2>3, Zenon DEF APIPost
  <1> QED
    BY <1>2, <1>5, <1>6

\* What API.sendMedia answers with a pick that may be shown.
LEMMA PickIsRight ==
  ASSUME cfg \in Instances, NEW devs \in Seq(Deviations), NEW S,
         ShowsAllowed(cfg, At(S, "random")), NEW media \in BOOLEAN, NEW known \in BOOLEAN,
         NEW held \in BOOLEAN, NEW fetch \in Fetches,
         Reply(Fetching(Plain("api"), media /\ known, held, fetch), devs,
               Show(APISendMedia(StartAPI, media, known, held, fetch), S, "random"))
  PROVE  Inv'
  <1> DEFINE r == Fetching(Plain("api"), media /\ known, held, fetch)
  <1> DEFINE shows == At(S, "random")
  <1> DEFINE x == Add(StartAPI, "filename", "artwork")
  <1> DEFINE y == APISendMedia(StartAPI, media, known, held, fetch)
  <1>1. /\ Asked(cfg, r, devs) /\ r.ep = "api"
        /\ media /\ known /\ (cfg.media = "proxy" \/ (cfg.media = "cache" /\ ~held))
             => r.cdn = fetch.status
    BY FetchingIs
  <1>2. /\ "page" \in Values /\ "json" \in Values /\ "none" \in Values
        /\ "artwork" \in Values
    BY SomeValues
  <1>3. x = Open("page", "json", "none", "none", "artwork", {}, {})
    BY StartAPIIs, AddOpen
  <1>4. y = IF ~media THEN x
            ELSE IF cfg.media = "direct"
                 THEN WriteHeader(Put(x, "location", "artwork"), 302)
                 ELSE IF ~known THEN APIError(x, 502)
                      ELSE SendMedia(Untyped(x), TRUE, held, fetch)
    BY DEF APISendMedia
  <1>5. {} \cup shows = shows
    OBVIOUS
  <1> HIDE DEF x, y, r
  <1>6. Reply(r, devs, Show(y, S, "random"))
    BY DEF y, r
  <1>7. ASSUME NEW h, NEW code, NEW s, NEW b
        PROVE  Show(Response(h, code, s, b, {}, {}, "none"), S, "random")
                 = Response(h, code, s, b, shows, {}, "none")
    <2>1. Show(Response(h, code, s, b, {}, {}, "none"), S, "random")
            = Response(h, code, s, b, {} \cup shows, {}, "none")
      BY ShowAny DEF At
    <2> HIDE DEF shows
    <2> QED
      BY <1>5, <2>1
  <1> HIDE DEF shows
  <1>8. CASE ~media
    <2>1. Show(y, S, "random") = Open("page", "json", "none", "none", "artwork", shows, {})
      BY <1>3, <1>4, <1>7, <1>8 DEF Open
    <2>2. CanEnd(cfg, r, devs, "page", "json", "none", "artwork", shows, 200)
      BY <1>1, <1>2 DEF CanEnd, shows
    <2> QED
      BY <1>6, <2>1, <2>2, NothingReply
  <1>9. CASE media /\ cfg.media = "direct"
    <2> DEFINE h == Headers("page", "json", "none", "artwork", "artwork")
    <2>1. y = Response(h, 302, h, <<>>, {}, {}, "none")
      <3>1. Put(x, "location", "artwork")
              = Open("page", "json", "none", "artwork", "artwork", {}, {})
        BY <1>3, PutOpen
      <3> QED
        BY <1>4, <1>9, <3>1, SendOpen
    <2> HIDE DEF h
    <2>2. Show(y, S, "random") = Response(h, 302, h, <<>>, shows, {}, "none")
      BY <1>7, <2>1
    <2>3. CanEnd(cfg, r, devs, "page", "json", "artwork", "artwork", shows, 302)
      BY <1>1, <1>2 DEF CanEnd, shows
    <2> QED
      BY <1>6, <2>2, <2>3, EmptyReply DEF h
  <1>10. CASE media /\ cfg.media # "direct" /\ ~known
    <2>1. y = Refusal("json", "none", "none", "artwork", 502, "jsonError", {}, {})
      BY <1>3, <1>4, <1>10, RefuseCodes
    <2>2. Show(y, S, "random")
            = Refusal("json", "none", "none", "artwork", 502, "jsonError", shows, {})
      BY <1>7, <2>1 DEF Refusal
    <2>3. Typed("json", "jsonError") = "json"
      BY DEF Typed
    <2>4. CanRefuse(cfg, r, devs, "json", "none", "none", "artwork", 502,
                    "jsonError", shows)
      BY <1>1, <1>2, <2>3 DEF CanRefuse, Asked, RetryRight, shows
    <2> QED
      BY <1>6, <2>2, <2>4, RefusalReply
  <1>11. CASE media /\ cfg.media # "direct" /\ known
    <2> DEFINE v == Open("page", "none", "none", "none", "artwork", {}, {})
    <2>1. Untyped(x) = v
      BY <1>3, DelOpen DEF Untyped
    <2>2. MediaOutcome(cfg, SendMedia(v, TRUE, held, fetch), "page", "artwork", {}, r.cdn)
      <3>1. TRUE \in BOOLEAN
        OBVIOUS
      <3> QED
        BY <1>1, <1>11, <3>1, MediaIs
    <2>3. y = SendMedia(v, TRUE, held, fetch)
      BY <1>4, <1>11, <2>1
    <2> HIDE DEF v
    <2>4. MediaOutcome(cfg, y, "page", "artwork", {}, r.cdn)
      BY <2>2, <2>3
    <2>5. MediaOutcome(cfg, Show(y, S, "random"), "page", "artwork", shows, r.cdn)
      BY <2>4, MediaShows DEF shows, At
    <2>6. CanSend(cfg, r, devs, "page", "artwork", shows)
      BY <1>1, <1>2, <1>11 DEF CanSend, shows
    <2> QED
      BY <1>6, <2>5, <2>6, MediaReply
  <1> QED
    BY <1>8, <1>9, <1>10, <1>11

LEMMA RandomKeeps ==
  ASSUME cfg \in Instances, APIRandom
  PROVE  Inv'
  <1>1. ASSUME NEW e \in Errors, Reply(Told(Plain("api"), e), <<>>, APIError(StartAPI, 502))
        PROVE  Inv'
    <2>2. "" \in Types /\ 0 \in Int
      BY DEF Types
    <2>1. APIRefusal(APIError(StartAPI, 502)) /\ Asked(cfg, Told(Plain("api"), e), <<>>)
      BY <2>2, ToldAsked DEF APIRefusal, Plain
    <2> QED
      BY <1>1, <2>1, APIRefusals
  <1>2. ASSUME NEW devs \in Lists, Reply(Plain("api"), devs, APIError(StartAPI, 404))
        PROVE  Inv'
    <2>1. devs \in Seq(Deviations)
      BY RequestsAssumption
    <2>2. APIRefusal(APIError(StartAPI, 404)) /\ Asked(cfg, Plain("api"), devs)
      BY <2>1, PlainRequested DEF APIRefusal, Asked
    <2> QED
      BY <1>2, <2>2, APIRefusals
  <1>3. ASSUME NEW devs \in Lists, NEW media \in BOOLEAN, NEW known \in BOOLEAN,
               NEW held \in BOOLEAN, NEW fetch \in Fetches, NEW d \in Shown(cfg, devs),
               Reply(Fetching(Plain("api"), media /\ known, held, fetch), devs,
                     Show(APISendMedia(StartAPI, media, known, held, fetch),
                          IF media THEN {d} ELSE {}, "random"))
        PROVE  Inv'
    <2> DEFINE S == IF media THEN {d} ELSE {}
    <2>1. devs \in Seq(Deviations) /\ "random" \in Places
      BY RequestsAssumption DEF Places
    <2>2. ShowsAllowed(cfg, At(Shown(cfg, devs), "random"))
      BY <2>1, ShownIsRight DEF At
    <2>3. At(S, "random") \subseteq At(Shown(cfg, devs), "random")
      BY DEF At
    <2> HIDE DEF S
    <2>4. ShowsAllowed(cfg, At(S, "random"))
      BY <2>2, <2>3 DEF ShowsAllowed
    <2>5. Reply(Fetching(Plain("api"), media /\ known, held, fetch), devs,
                Show(APISendMedia(StartAPI, media, known, held, fetch), S, "random"))
      BY <1>3 DEF S
    <2> QED
      BY <2>1, <2>4, <2>5, PickIsRight
  <1>4. CASE \E e \in Errors : Reply(Told(Plain("api"), e), <<>>, APIError(StartAPI, 502))
    BY <1>1, <1>4
  <1>5. CASE \E devs \in Lists, media, known, held \in BOOLEAN, fetch \in Fetches :
               LET pool == Shown(cfg, devs)
               IN  IF pool = {} THEN Reply(Plain("api"), devs, APIError(StartAPI, 404))
                   ELSE \E d \in pool :
                          Reply(Fetching(Plain("api"), media /\ known, held, fetch), devs,
                                Show(APISendMedia(StartAPI, media, known, held, fetch),
                                     IF media THEN {d} ELSE {}, "random"))
    <2>1. PICK devs \in Lists, media \in BOOLEAN, known \in BOOLEAN, held \in BOOLEAN,
               fetch \in Fetches :
            IF Shown(cfg, devs) = {}
            THEN Reply(Plain("api"), devs, APIError(StartAPI, 404))
            ELSE \E d \in Shown(cfg, devs) :
                   Reply(Fetching(Plain("api"), media /\ known, held, fetch), devs,
                         Show(APISendMedia(StartAPI, media, known, held, fetch),
                              IF media THEN {d} ELSE {}, "random"))
      BY <1>5
    <2>2. CASE Shown(cfg, devs) = {}
      BY <1>2, <2>1, <2>2
    <2>3. CASE Shown(cfg, devs) # {}
      BY <1>3, <2>1, <2>3
    <2> QED
      BY <2>2, <2>3
  <1> QED
    BY <1>4, <1>5, Zenon DEF APIRandom

-----------------------------------------------------------------------------
(* Every step.                                                             *)

LEMMA BlankIs ==
  /\ Blank.header \in Header /\ Blank.sent \in Header /\ Blank.status = 0
  /\ Blank.body = <<>> /\ Blank.shows = {} /\ Blank.navs = {} /\ Blank.lang = "none"
  /\ Blank.sent.cache = "none"
  /\ NoRequest.type \in Types /\ NoRequest.atom \in BOOLEAN /\ NoRequest.page \in Int
  BY DEF Blank, NoHeader, Header, Fields, NoRequest, Request, Types

\* Between two requests there is nothing to be wrong.
LEMMA InitKeeps ==
  ASSUME Init
  PROVE  Inv
  <1>1. cfg \in Instances /\ q = NoRequest /\ got = <<>> /\ w = Blank
    BY DEF Init
  <1>2. TypeOK
    BY <1>1, BlankIs DEF TypeOK, Answered
  <1>3. FailuresUncached /\ AnsweredOnce /\ TypeFitsBody
    BY <1>1, BlankIs DEF FailuresUncached, AnsweredOnce, TypeFitsBody
  <1>4. RetryAfterSaid /\ HiddenStaysHidden /\ VisibleListed /\ BarsLead /\ LanguageAsked
    BY <1>1, BlankIs
       DEF RetryAfterSaid, HiddenStaysHidden, VisibleListed, BarsLead, LanguageAsked, Answered
  <1> QED
    BY <1>2, <1>3, <1>4 DEF Inv

LEMMA DoneKeeps ==
  ASSUME cfg \in Instances, Done
  PROVE  Inv'
  <1>1. cfg' \in Instances /\ q' = NoRequest /\ got' = <<>> /\ w' = Blank
    BY DEF Done
  <1>2. TypeOK'
    BY <1>1, BlankIs DEF TypeOK, Answered
  <1>3. FailuresUncached' /\ AnsweredOnce' /\ TypeFitsBody'
    BY <1>1, BlankIs DEF FailuresUncached, AnsweredOnce, TypeFitsBody
  <1>4. /\ RetryAfterSaid' /\ HiddenStaysHidden' /\ VisibleListed' /\ BarsLead'
        /\ LanguageAsked'
    BY <1>1, BlankIs
       DEF RetryAfterSaid, HiddenStaysHidden, VisibleListed, BarsLead, LanguageAsked, Answered
  <1> QED
    BY <1>2, <1>3, <1>4 DEF Inv

LEMMA NextKeeps ==
  ASSUME Inv, [Next]_vars
  PROVE  Inv'
  <1>1. cfg \in Instances
    BY DEF Inv, TypeOK
  <1>2. CASE TooMany \/ NotFound \/ StaticPage \/ Asset
    BY <1>1, <1>2, StaticKeeps
  <1>3. CASE MediaFile \/ Emojitar
    BY <1>1, <1>3, MediaKeeps
  <1>4. CASE Deviation
    BY <1>1, <1>4, DeviationKeeps
  <1>5. CASE DD
    BY <1>1, <1>5, DDKeeps
  <1>6. CASE Search
    BY <1>1, <1>6, SearchKeeps
  <1>7. CASE GRUser
    BY <1>1, <1>7, GRUserKeeps
  <1>8. CASE APIInfo \/ APISearch \/ APIPost
    BY <1>1, <1>8, APIKeeps
  <1>9. CASE APIRandom
    BY <1>1, <1>9, RandomKeeps
  <1>10. CASE Done
    BY <1>1, <1>10, DoneKeeps
  <1>11. CASE UNCHANGED vars
    <2>1. cfg' = cfg /\ q' = q /\ got' = got /\ w' = w
      BY <1>11 DEF vars
    <2>2. TypeOK'
      BY <2>1 DEF Inv, TypeOK, Answered
    <2>3. FailuresUncached' /\ AnsweredOnce' /\ TypeFitsBody'
      BY <2>1 DEF Inv, FailuresUncached, AnsweredOnce, TypeFitsBody, NotParsed, PassedOn,
                  NoProxy, GoesOn
    <2>4. RetryAfterSaid' /\ HiddenStaysHidden' /\ VisibleListed'
      BY <2>1 DEF Inv, RetryAfterSaid, SaysWhen, HiddenStaysHidden, VisibleListed, Answered
    <2>5. BarsLead' /\ LanguageAsked'
      BY <2>1 DEF Inv, BarsLead, LanguageAsked
    <2> QED
      BY <2>2, <2>3, <2>4, <2>5 DEF Inv
  <1> QED
    BY <1>2, <1>3, <1>4, <1>5, <1>6, <1>7, <1>8, <1>9, <1>10, <1>11 DEF Next, Handle

\* Every response of every handler is right, whatever was asked and answered.
THEOREM ResponsesAreRight == Spec => []Inv
  BY InitKeeps, NextKeeps, PTL DEF Spec

\* Request and response are of their types, and a request is answered exactly
\* when a status went out.
THEOREM ResponsesTyped == Spec => []TypeOK
  <1>1. Inv => TypeOK
    BY DEF Inv
  <1> QED
    BY <1>1, ResponsesAreRight, PTL

\* Whatever ends in an error goes out without Cache-Control, on every path.
THEOREM ErrorsStayUncached == Spec => []FailuresUncached
  <1>1. Inv => FailuresUncached
    BY DEF Inv
  <1> QED
    BY <1>1, ResponsesAreRight, PTL

\* A response is one document, and its status says whether that is an error,
\* whatever the CDN answered: only its own status below 400 is passed on with an
\* error page, and the only handlers that write a second document are those that
\* go on by mistake.
THEOREM OneAnswer == Spec => []AnsweredOnce
  <1>1. Inv => AnsweredOnce
    BY DEF Inv
  <1> QED
    BY <1>1, ResponsesAreRight, PTL

\* Retry-After goes out exactly with the refusals for load that the rate limiter
\* or skunkyart.Error writes, each a 429 or a 503; any other 429 or 503 is the
\* CDN's, passed on.
THEOREM RetryIsTold == Spec => []RetryAfterSaid
  <1>1. Inv => RetryAfterSaid
    BY DEF Inv
  <1> QED
    BY <1>1, ResponsesAreRight, PTL

\* The Content-Type is that of the document, whichever route it went through.
THEOREM TypesFit == Spec => []TypeFitsBody
  <1>1. Inv => TypeFitsBody
    BY DEF Inv
  <1> QED
    BY <1>1, ResponsesAreRight, PTL

\* No handler shows what the instance hides, in a list, a feed, a JSON answer or
\* a document a text embeds; the blocks of a Draft.js text are not asked about.
THEOREM HiddenIsHidden == Spec => []HiddenStaysHidden
  <1>1. Inv => HiddenStaysHidden
    BY DEF Inv
  <1> QED
    BY <1>1, ResponsesAreRight, PTL

\* No handler drops a deviation the instance may show, wherever it stands in a
\* list of any length.
THEOREM NothingIsLost == Spec => []VisibleListed
  <1>1. Inv => VisibleListed
    BY DEF Inv
  <1> QED
    BY <1>1, ResponsesAreRight, PTL

\* Every bar leads on and back, for every page number and page count.
THEOREM BarsLeadOn == Spec => []BarsLead
  <1>1. Inv => BarsLead
    BY DEF Inv
  <1> QED
    BY <1>1, ResponsesAreRight, PTL

\* A page comes in a language that was configured or asked for, for any header
\* and any catalogues.
THEOREM LanguageIsHeard == Spec => []LanguageAsked
  <1>1. Inv => LanguageAsked
    BY DEF Inv
  <1> QED
    BY <1>1, ResponsesAreRight, PTL
=============================================================================
