---------------------------------- MODULE Pages ----------------------------------
(***************************************************************************)
(* The pages of the HTTP server: how a request finds its page through the  *)
(* directories (web/server/base_pages.hpp, pages.hpp, server.cpp), what    *)
(* the status page does with the bot (pages.cpp, type_system.cpp), and     *)
(* which page tells of an error.  Only functions: MCTexts checks them.  A  *)
(* path is a sequence of names; the statuses are 200, 302, 400, 404, 500.  *)
(***************************************************************************)
EXTENDS Naturals, Sequences, SequencesExt

\* A page, its place in its directory and its settings ("opens": its file does; "clients":
\* the certificates that are let in, or {} for all).  The server is a page, too.
Page(kind, uri) ==
  [kind |-> kind, uri |-> uri, kids |-> <<>>, errors |-> <<>>, files |-> {}, opens |-> TRUE,
   clients |-> {}, editable |-> FALSE, receiver |-> ""]

\* An error page is a function from the statuses it fails for to the status it throws.
HtmlErrorPage == <<>>

(* What becomes of a request: an answer of some page, with what has been done to the bot;  *)
(* an HttpError, or an exception, that stands for status 500; or nothing, of another page. *)
Answer(status, by, done) == [kind |-> "answer", status |-> status, by |-> by, done |-> done]
Thrown(status) == [kind |-> "thrown", status |-> status, by |-> "", done |-> <<>>]
Declined == [kind |-> "declined", status |-> 0, by |-> "", done |-> <<>>]
canned_response(status) == Answer(status, "canned", <<>>)

match_prefix(r, uri) == IsPrefix(uri, r.path)
descend(r, uri) == [r EXCEPT !.path = SubSeq(@, Len(uri) + 1, Len(@))]

-----------------------------------------------------------------------------
(* Pages that only show something                                          *)

RenderStatic(p, r) ==
  IF ~match_prefix(r, p.uri) \/ descend(r, p.uri).path \notin p.files THEN Declined
  ELSE IF p.opens THEN Answer(200, p.kind, <<>>) ELSE Thrown(404)

RenderFile(p, r) ==
  IF r.path # p.uri THEN Declined ELSE IF p.opens THEN Answer(200, p.kind, <<>>) ELSE Thrown(500)

Redirect(p, r) == IF r.path # p.uri THEN Declined ELSE Answer(302, p.kind, <<>>)

-----------------------------------------------------------------------------
(* What is pushed to the bot                                               *)

\* PushReceiver: who is registered after these were made and deleted, in this order.
\* "Who": <<made or deleted, name, which>>.
registry(events) ==
  FoldLeft(LAMBDA reg, e :
      IF e[1] = "made" THEN [n \in DOMAIN reg \cup {e[2]} |-> IF n = e[2] THEN e[3] ELSE reg[n]]
      ELSE [n \in DOMAIN reg \ {e[2]} |-> reg[n]],
    <<>>, events)

PushPage(p, r) ==
  IF p.receiver \notin DOMAIN r.bot.receivers \/ ~match_prefix(r, r.bot.receivers[p.receiver])
  THEN Declined ELSE Answer(200, p.kind, <<<<"push", p.receiver>>>>)

-----------------------------------------------------------------------------
(* The status page                                                         *)

\* ServiceStatus, of the statuses of a connection in their order, and of a service.
ServiceStatus(status) ==
  LET order == <<"DISCONNECTED", "WAITING", "CONNECTING", "CHECKING", "CONNECTED">>
      at == CHOOSE i \in DOMAIN order : order[i] = status
  IN  IF at > 4 THEN "Connected" ELSE IF at >= 3 THEN "Connecting" ELSE "Disconnected"

\* What ConnectionDetails and ServiceDetails have in common.
Details(p, found, path) ==
  CASE ~found -> Thrown(404)
    [] found /\ Len(path) = 3 /\ p.editable ->
         CASE path[3] = "stop" -> Answer(302, p.kind, <<<<"stop", path[2]>>>>)
           [] path[3] = "start" -> Answer(302, p.kind, <<<<"stop", path[2]>>, <<"start", path[2]>>>>)
           [] OTHER -> Thrown(404)
    [] found /\ ~(Len(path) = 3 /\ p.editable) ->
         IF Len(path) # 2 THEN Thrown(404) ELSE Answer(200, p.kind, <<>>)

ConnectionDetails(p, r) == Details(p, r.path[2] \in DOMAIN r.bot.connections, r.path)
ServiceDetails(p, r) == Details(p, r.path[2] \in r.bot.services, r.path)

\* Whether the page is editable is not looked at.
StorageView(p, r) ==
  LET edit_key == Append(IF Len(r.path) > 1 THEN <<r.path[2]>> ELSE <<>>, r.post.key)
  IN  CASE ~r.bot.storage \/ r.method # "POST" -> Answer(200, p.kind, <<>>)
        [] r.bot.storage /\ r.method = "POST" /\ edit_key = <<"">> -> Thrown(400)
        [] OTHER -> Answer(200, p.kind, <<<<IF r.post.delete THEN "erase" ELSE "put", edit_key>>>>)

\* StatusPage::respond(): the first of its pages that matches.  A list shows the bot as it is.
StatusPage(p, r) ==
  LET here == descend(r, p.uri)
      under(name) == match_prefix(here, <<name>>)
  IN  CASE ~match_prefix(r, p.uri) -> Declined
        [] match_prefix(r, p.uri) /\ here.path \in {<<>>, <<"settings">>, <<"connection">>, <<"service">>} ->
             Answer(200, p.kind, <<>>)
        [] match_prefix(r, p.uri) /\ under("connection") /\ Len(here.path) >= 2 -> ConnectionDetails(p, here)
        [] match_prefix(r, p.uri) /\ under("service") /\ Len(here.path) >= 2 -> ServiceDetails(p, here)
        [] match_prefix(r, p.uri) /\ under("storage") -> StorageView(p, here)
        [] OTHER -> Thrown(404)

\* page_link(): the page one is at is no link.
page_link(r, path, current) ==
  CASE r.path = path -> "current_page"
    [] r.path # path /\ current -> "link current_page"
    [] OTHER -> "link"

-----------------------------------------------------------------------------
(* Directories and the server                                              *)

max_error_depth == 2

\* Mutant: as in a directory.
unhandled_errorThrown(h, status) == Thrown(status)

\* A directory leaves the error to what is around it, the server gives a plain answer.
unhandled_error(h, status) == IF h.kind = "server" THEN canned_response(status) ELSE Thrown(status)

\* handle_error(): without error pages, a directory gives a plain answer, too.
RECURSIVE handle_error(_, _, _)
handle_error(h, status, depth) ==
  CASE depth >= max_error_depth -> unhandled_error(h, status)
    [] depth < max_error_depth /\ h.errors = <<>> -> canned_response(status)
    [] OTHER -> LET fails == h.errors[1] IN
         IF status \notin DOMAIN fails THEN Answer(status, "HtmlErrorPage", <<>>)
         ELSE IF fails[status] # status THEN handle_error(h, fails[status], depth + 1)
         ELSE unhandled_error(h, status)

\* What the pages of a handler make of a request: that of the first that takes it.  What
\* is thrown when none does is handled once more.
get_response(h, answers) ==
  LET taken == SelectSeq(answers, LAMBDA a : a # Declined)
      nowhere == handle_error(h, 404, 0)
  IN  CASE taken = <<>> -> IF nowhere.kind = "thrown" THEN handle_error(h, nowhere.status, 0) ELSE nowhere
        [] taken # <<>> /\ taken[1].kind = "thrown" -> handle_error(h, taken[1].status, 0)
        [] OTHER -> taken[1]

RECURSIVE page(_, _)
PageDirectory(p, r) ==
  IF ~match_prefix(r, p.uri) \/ (p.clients # {} /\ r.client \notin p.clients) THEN Declined
  ELSE get_response(p, [i \in DOMAIN p.kids |-> page(p.kids[i], descend(r, p.uri))])

page(p, r) ==
  CASE p.kind = "RenderStatic" -> RenderStatic(p, r)
    [] p.kind = "RenderFile" -> RenderFile(p, r)
    [] p.kind = "Redirect" -> Redirect(p, r)
    [] p.kind = "PushPage" -> PushPage(p, r)
    [] p.kind = "StatusPage" -> StatusPage(p, r)
    [] p.kind = "Directory" -> PageDirectory(p, r)

\* HttpServer::respond(): "status" is that of the request as it was read.
respond(server, r, status) ==
  IF status >= 400 THEN handle_error(server, status, 0)
  ELSE get_response(server, [i \in DOMAIN server.kids |-> page(server.kids[i], r)])

-----------------------------------------------------------------------------
(* Properties                                                              *)

\* The handlers, from the server inwards, and then the page, that a request comes to.
RECURSIVE Way(_, _)
Way(h, r) ==
  LET takes == SelectSeq(h.kids, LAMBDA p : CASE p.kind = "Directory" ->
                                                   match_prefix(r, p.uri) /\ p.clients \in {{}, {r.client}}
                                              [] OTHER -> page(p, r) # Declined)
  IN  IF h.kind \notin {"server", "Directory"} \/ takes = <<>> THEN <<h>>
      ELSE <<h>> \o Way(takes[1], IF takes[1].kind = "Directory" THEN descend(r, takes[1].uri) ELSE r)

\* Every request is answered, by the page that the way of first matches ends at, unless that
\* fails; the bot is told to do something only by an answer that is not an error, and
\* stopped or started only where pages are editable; an error keeps its status, and is
\* shown by the error page next to where it happened, unless error pages fail themselves.
RequestsAnswered(server, r, status) ==
  LET got == respond(server, r, status)
      way == Way(server, r)
      leaf == Last(way)
      handlers == SelectSeq(way, LAMBDA p : p.kind \in {"server", "Directory"})
      failing == \E i \in DOMAIN handlers : \E e \in ToSet(handlers[i].errors) : e # HtmlErrorPage
      shown == IF status >= 400 THEN server ELSE Last(handlers)
  IN  /\ got.kind = "answer"
      /\ got.by \in {leaf.kind, "canned", "HtmlErrorPage"}
      /\ got.status >= 400 <=> got.by \in {"canned", "HtmlErrorPage"}
      /\ got.done # <<>> => got.status < 400 /\ leaf.kind \in {"StatusPage", "PushPage"}
      /\ \A d \in ToSet(got.done) : d[1] \in {"stop", "start"} => leaf.editable
      /\ leaf.kind \in {"server", "Directory"} /\ ~failing /\ status < 400 => got.status = 404
      /\ status >= 400 /\ ~failing => got.status = status
      /\ got.status >= 400 /\ ~failing => (got.by = "canned" <=> shown.errors = <<>>)

\* A push reaches the receiver of that name if there is one: if no two have the same.
ReceiversFound(events) ==
  LET reg == registry(events)
      alive == {e \in ToSet(events) : e[1] = "made" /\ ~Contains(events, <<"deleted", e[2], e[3]>>)}
      named == \A d, e \in ToSet(events) : d[2] = e[2] => d[3] = e[3]
  IN  named => {<<n, reg[n]>> : n \in DOMAIN reg} = {<<e[2], e[3]>> : e \in alive}
=============================================================================
