------------------------------- MODULE WebQueries -------------------------------
(***************************************************************************)
(* The handlers that ask a web service and reply with what it says         *)
(* (web/handler/web-api.hpp, web-api-concrete.hpp and .cpp, and those of   *)
(* fun/fun-handlers.hpp).  Each asks once and returns; what it replies     *)
(* depends on what comes of the request: the service cannot be reached, it *)
(* answers with an error, with something that is not JSON, or with a tree, *)
(* of which only the values the handler looks for matter.  Only functions: *)
(* MCTexts checks them.                                                    *)
(***************************************************************************)
EXTENDS Naturals, Sequences, FiniteSets

\* What came of a request; "tree" is a function from paths to values or to lists.
Outcome(kind, tree) == [kind |-> kind, tree |-> tree]

\* A reply, by the setting or place its text comes from, and the values in it.
Reply(text, values) == [text |-> text, values |-> values]
not_found_reply == <<Reply("not_found", {})>>

get(tree, path, default) == IF path \in DOMAIN tree THEN tree[path] ELSE default
Values(tree, paths) == {tree[p] : p \in paths \cap DOMAIN tree}

\* SimpleWebApi::request_http(): network_failure() is not among the arguments of the
\* request, and never called.
request_http(outcome, success, failure) ==
  CASE outcome.kind = "unreachable" -> {<<>>}
    [] outcome.kind = "error" -> failure
    [] OTHER -> success

\* SimpleJson: the replies, one of each set, to a tree and to anything else.
SimpleJson(outcome, success, failure) ==
  request_http(outcome, IF outcome.kind = "malformed" THEN failure ELSE success, failure)

-----------------------------------------------------------------------------
(* The handlers.  Each gives the sequences of replies it may send.         *)

\* A failure is not told of.
SearchVideoYoutube(o) ==
  SimpleJson(o,
    {IF get(o.tree, "totalResults", 0) = 0 THEN not_found_reply
     ELSE <<Reply("found", Values(o.tree, {"videoId", "title"}))>>}, {<<>>})

\* VideoInfo: the site of the link decides what to look for; nobody has asked.
VideoInfo(site, o) ==
  CASE site = "none" -> {<<>>}
    [] site # "none" /\ (o.kind # "json" \/ (site = "youtube" /\ get(o.tree, "totalResults", 0) = 0)
                                         \/ (site \in {"dailymotion", "vidme"} /\ "error" \in DOMAIN o.tree)) -> {<<>>}
    [] OTHER -> {<<Reply("found", Values(o.tree, {"videoId", "title"}))>>}

\* It ignores errors of the parser: what is malformed is an empty tree.
UrbanDictionary(o) ==
  request_http(o,
    {IF o.kind = "malformed" \/ get(o.tree, "definition", "") = "" THEN not_found_reply
     ELSE <<Reply("found", {o.tree["definition"]})>>}, {not_found_reply})

\* The result, and then what it is about.
SearchWebSearx(description_maxlen, o) ==
  SimpleJson(o,
    {IF "title" \notin DOMAIN o.tree THEN not_found_reply
     ELSE <<Reply("found", Values(o.tree, {"title", "url"}))>>
          \o (IF description_maxlen = 0 THEN <<>> ELSE <<Reply("content", Values(o.tree, {"content"}))>>)},
    {not_found_reply})

MediaWiki(o) ==
  SimpleJson(o, {IF "search" \notin DOMAIN o.tree THEN not_found_reply
                 ELSE <<Reply("found", Values(o.tree, {"title", "snippet"}))>>}, {<<>>})

\* The first page; one that does not exist has no revision.
MediaWikiTitles(o) ==
  SimpleJson(o, {IF "pages" \notin DOMAIN o.tree \/ "revision" \notin DOMAIN o.tree THEN not_found_reply
                 ELSE <<Reply("found", Values(o.tree, {"title", "revision"}))>>}, {<<>>})

\* The map is sent before the answer comes.
WhereIsGoogle(o) ==
  {<<Reply("map", {})>> \o r : r \in
     SimpleJson(o, {IF get(o.tree, "address", "") = "" THEN not_found_reply
                    ELSE <<Reply("found", {o.tree["address"]})>>}, {<<>>})}

RandomReddit(o) ==
  SimpleJson(o, {IF "post" \notin DOMAIN o.tree THEN not_found_reply
                 ELSE <<Reply("found", {o.tree["post"]})>>}, {not_found_reply})

\* What there is is sent, be it nothing.
ChuckNorris(o) == SimpleJson(o, {<<Reply("found", Values(o.tree, {"joke"}))>>}, {<<>>})
RandomCat(o) == SimpleJson(o, {<<Reply("found", Values(o.tree, {"file"}))>>}, {<<>>})

\* A time in the past is counted from, too.
PonyCountDown(now, o) ==
  SimpleJson(o,
    {IF o.tree = <<>> THEN not_found_reply
     ELSE LET time == get(o.tree, "time", now)
          IN  <<Reply("found", {IF time > now THEN time - now ELSE now - time})>>}, {not_found_reply})

\* One of the faces; nothing if it has no image.
PonyFace(o) ==
  SimpleJson(o,
    IF get(o.tree, "faces", <<>>) = <<>> THEN {not_found_reply}
    ELSE {IF o.tree["faces"][i] = "" THEN <<>> ELSE <<Reply("found", {o.tree["faces"][i]})>> :
            i \in DOMAIN o.tree["faces"]}, {not_found_reply})

E926(o) ==
  SimpleJson(o,
    IF get(o.tree, "posts", <<>>) = <<>> THEN {not_found_reply}
    ELSE {<<Reply("found", {o.tree["posts"][i]})>> : i \in DOMAIN o.tree["posts"]}, {not_found_reply})

Ask(handler, o) ==
  CASE handler = "SearchVideoYoutube" -> SearchVideoYoutube(o)
    [] handler = "UrbanDictionary" -> UrbanDictionary(o)
    [] handler = "SearchWebSearx" -> SearchWebSearx(400, o)
    [] handler = "MediaWiki" -> MediaWiki(o)
    [] handler = "MediaWikiTitles" -> MediaWikiTitles(o)
    [] handler = "WhereIsGoogle" -> WhereIsGoogle(o)
    [] handler = "RandomReddit" -> RandomReddit(o)
    [] handler = "ChuckNorris" -> ChuckNorris(o)
    [] handler = "RandomCat" -> RandomCat(o)
    [] handler = "PonyCountDown" -> PonyCountDown(3, o)
    [] handler = "PonyFace" -> PonyFace(o)
    [] handler = "E926" -> E926(o)
    [] OTHER -> VideoInfo(handler, o)

-----------------------------------------------------------------------------
(* Properties                                                              *)

Sites == {"none", "youtube", "vimeo", "dailymotion", "vidme"}
\* Those that say that something failed.
Telling == {"UrbanDictionary", "SearchWebSearx", "RandomReddit", "PonyCountDown", "PonyFace", "E926"}
Handlers ==
  Sites \cup Telling
  \cup {"SearchVideoYoutube", "MediaWiki", "MediaWikiTitles", "WhereIsGoogle", "ChuckNorris", "RandomCat"}

\* A service that is reached is heard of: who asked one is told what it found or that it
\* found nothing, and, by the handlers that tell of errors, that it failed, once; nobody is
\* told both; and where the service found nothing, failed or was not reached, nothing is said to
\* be found.
QuestionsAnswered(handler, o) ==
  \A replies \in Ask(handler, o) :
    LET of(text) == Cardinality({i \in DOMAIN replies : replies[i].text = text})
        noImage == handler = "PonyFace" /\ o.kind = "json" /\ \E i \in DOMAIN get(o.tree, "faces", <<>>) : o.tree["faces"][i] = ""
    IN  /\ of("found") + of("not_found") <= 1
        /\ o.kind = "json" /\ handler \notin Sites /\ ~noImage => of("found") + of("not_found") = 1
        /\ o.kind \in {"error", "malformed"} /\ handler \in Telling => of("not_found") = 1
        /\ o.kind # "json" => of("found") = 0
        /\ of("content") > 0 => of("found") = 1
        /\ handler = "PonyCountDown" /\ of("found") = 1 /\ get(o.tree, "time", 3) > 3 =>
             replies[1].values = {o.tree["time"] - 3}
=============================================================================
