------------------------------- MODULE GitHubNews -------------------------------
(***************************************************************************)
(* What the listeners say of the events of a repository                    *)
(* (github-listeners.hpp), when GitHubFeed gives them some, and what the   *)
(* handlers answer who asks GitHub (github-handlers.hpp).  An event is     *)
(* [type, action, parts]: the parts are the pages of a wiki or the commits *)
(* of a push.  Only functions: MCTexts checks them.                        *)
(***************************************************************************)
EXTENDS Naturals, Sequences, FiniteSets, SequencesExt

AtMost(n, s) == IF Len(s) > n THEN SubSeq(s, 1, n) ELSE s

-----------------------------------------------------------------------------
(* Listeners: [type, limit, detailed, commit_limit].  A message is about   *)
(* an event, or a part of one, and has a colour.                           *)

Message(event, part, color) == [event |-> event, part |-> part, color |-> color]

\* The colour of an action.
RefEvents(event) == IF event.type = "DeleteEvent" THEN "red" ELSE "green"
IssueColor(event) ==
  CASE event.action = "closed" -> "red"
    [] event.action \in {"opened", "reopened"} -> "green"
    [] OTHER -> "cyan"
MemberEvent(event) == IF event.action = "added" THEN "green" ELSE "red"
PullRequestEvent(event) == IF event.action = "closed" THEN "red" ELSE "green"
Color(type, event) ==
  CASE type = "RefEvents" -> RefEvents(event)
    [] type = "IssuesEvent" -> IssueColor(event)
    [] type = "MemberEvent" -> MemberEvent(event)
    [] type = "PullRequestEvent" -> PullRequestEvent(event)
    [] OTHER -> ""

\* The first events, each by one message.
handle_event(l, events) ==
  [i \in 1..Len(AtMost(l.limit, events)) |-> Message(i, 0, Color(l.type, events[i]))]

\* Without "detailed", what happens to an issue but opening and closing is passed over.
IssuesEvent(l, events) ==
  LET shown == {i \in DOMAIN events : l.detailed \/ IssueColor(events[i]) # "cyan"}
      order == SetToSortSeq(shown, <)
  IN  [k \in 1..Len(AtMost(l.limit, order)) |-> Message(order[k], 0, IssueColor(events[order[k]]))]

\* The pages of all the events count together.
GollumEvent(l, events) ==
  AtMost(l.limit, FlattenSeq([i \in DOMAIN events |->
    [p \in DOMAIN events[i].parts |-> Message(i, p, "")]]))

\* Each push, and the first of its commits.
PushEvent(l, events) ==
  FlattenSeq([i \in 1..Len(AtMost(l.limit, events)) |->
    <<Message(i, 0, "")>> \o
    [c \in 1..Len(AtMost(l.commit_limit, events[i].parts)) |-> Message(i, c, "")]])

Listen(l, events) ==
  CASE l.type = "IssuesEvent" -> IssuesEvent(l, events)
    [] l.type = "GollumEvent" -> GollumEvent(l, events)
    [] l.type = "PushEvent" -> PushEvent(l, events)
    [] OTHER -> handle_event(l, events)

-----------------------------------------------------------------------------
(* Handlers.  What comes of a request is [kind, found]: the service cannot *)
(* be reached, it answers with an error, with what it found, or with what  *)
(* is not JSON, which is read as an empty tree.  A reply has the text of a *)
(* setting, and says what it is about.                                     *)

Reply(text, about) == [text |-> text, about |-> about]

\* Nothing is done when the service cannot be reached.
request_github(o, success, failure) ==
  CASE o.kind = "unreachable" -> <<>>
    [] o.kind = "error" -> failure
    [] OTHER -> success

GitHubIssue(asked, o) ==
  IF asked = "number" THEN request_github(o, <<Reply("reply", asked)>>, <<Reply("reply_failure", asked)>>)
  ELSE <<Reply("reply_invalid", "")>>

\* A release, then its files.  A release is [name, score, assets]: score says how similar
\* it is to what was asked for.
Release(r) == <<Reply("reply", r.name)>> \o [i \in 1..r.assets |-> Reply("reply_asset", r.name)]

\* The first of those most similar.
find_release(releases) ==
  LET best(i) == /\ releases[i].score > 0
                 /\ \A j \in DOMAIN releases :
                      releases[j].score < releases[i].score \/ (releases[j].score = releases[i].score /\ i <= j)
  IN  IF \E i \in DOMAIN releases : best(i)
      THEN Release(releases[CHOOSE i \in DOMAIN releases : best(i)])
      ELSE <<Reply("reply_failure", "")>>

\* The latest is the first, and where there is none it is an error; the others are searched.
GitHubRelease(asked, o) ==
  LET latest == CASE o.found # <<>> -> Release(o.found[1])
                  [] o.found = <<>> /\ o.kind = "malformed" -> <<Reply("reply", "")>>
                  [] OTHER -> <<Reply("reply_failure", "")>>
  IN  request_github(o, IF asked \in {"", "latest"} THEN latest ELSE find_release(o.found),
                     <<Reply("reply_failure", "")>>)

\* The text for a question without words is read from the setting of the answers.
GitHubSearch(asked, max_results, o) ==
  IF asked = "" THEN <<Reply("reply", "")>>
  ELSE request_github(o,
         IF o.found = <<>> THEN <<Reply("reply_failure", asked)>>
         ELSE [i \in 1..Len(AtMost(max_results, o.found)) |-> Reply("reply", asked)],
         <<Reply("reply_failure", asked)>>)

-----------------------------------------------------------------------------
(* Properties                                                              *)

\* A listener tells of events in the order they are in, of each once, and of a part of an
\* event after the event.  It leaves out what it is told to leave out, and otherwise only
\* when it has told of as many as it may.
NewsInOrder(l, events) ==
  LET said  == Listen(l, events)
      Heads == {i \in DOMAIN said : said[i].part = 0}
      About(i) == <<said[i].event, said[i].part>>
      Parts(e) == Cardinality({i \in DOMAIN said : said[i].event = e /\ said[i].part > 0})
      wanted(e) == l.type = "IssuesEvent" /\ ~l.detailed => events[e].action \in {"opened", "reopened", "closed"}
  IN  /\ \A i, j \in DOMAIN said : i < j =>
           \/ said[i].event < said[j].event
           \/ said[i].event = said[j].event /\ said[i].part < said[j].part
      /\ l.type # "GollumEvent" =>
           /\ Cardinality(Heads) <= l.limit
           /\ \A e \in DOMAIN events :
                (\E i \in Heads : said[i].event = e) <=>
                  /\ wanted(e)
                  /\ Cardinality({f \in 1..e : wanted(f)}) <= l.limit
           /\ \A i \in DOMAIN said : said[i].part > 0 =>
                \E h \in Heads : h < i /\ said[h].event = said[i].event
      /\ l.type = "GollumEvent" =>
           \A e \in DOMAIN events : Parts(e) < Len(events[e].parts) => Len(said) = l.limit
      /\ l.type = "PushEvent" =>
           \A i \in Heads : Parts(said[i].event) = Len(AtMost(l.commit_limit, events[said[i].event].parts))

\* Who asks is answered, once or by as many results as there may be, unless GitHub cannot be
\* reached; the release shown is one of those most similar to what was asked for; and a
\* failure shows nothing.
HubAnswersAsked(handler, asked, max_results, o) ==
  LET replies == CASE handler = "issue" -> GitHubIssue(asked, o)
                   [] handler = "release" -> GitHubRelease(asked, o)
                   [] handler = "code search" -> GitHubSearch(asked, max_results, o)
      of(text) == {i \in DOMAIN replies : replies[i].text = text}
      invalid == (handler = "issue" /\ asked # "number") \/ (handler = "code search" /\ asked = "")
  IN  /\ replies = <<>> => o.kind = "unreachable" \/ max_results = 0
      /\ o.kind = "unreachable" /\ ~invalid => of("reply") = {}
      /\ of("reply_failure") # {} => Len(replies) = 1
      /\ o.kind = "error" /\ ~invalid => Len(replies) = 1 /\ of("reply") = {}
      /\ handler = "code search" => Cardinality(of("reply")) <= max_results \/ invalid
      /\ handler = "release" /\ of("reply") # {} /\ asked \notin {"", "latest"} =>
           \E r \in ToSet(o.found) :
             /\ replies = Release(r) /\ r.score > 0
             /\ \A other \in ToSet(o.found) : other.score <= r.score
=============================================================================
