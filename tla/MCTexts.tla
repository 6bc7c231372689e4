------------------------------- MODULE MCTexts -------------------------------
(***************************************************************************)
(* An instance for TLC of the parts of the bot that are functions of what  *)
(* they are given.  The first state says which of them is looked at, the   *)
(* next one is an input for it.                                            *)
(***************************************************************************)
EXTENDS Integers, Sequences, TLC

VARIABLE case

C == INSTANCE Config
D == INSTANCE Dispatch
F == INSTANCE Formats
L == INSTANCE Language
S == INSTANCE XonoticScores
H == INSTANCE Help
W == INSTANCE Pages
Q == INSTANCE WebQueries
X == INSTANCE Fun
M == INSTANCE Markov
G == INSTANCE XonoticHandlers
B == INSTANCE Bridges WITH Connections <- {"irc", "xon", "tg"}
I == INSTANCE Lists
N == INSTANCE IrcHandlers
E == INSTANCE GitHubNews
Y == INSTANCE IrcLines

UpTo(n, T) == UNION {[1..i -> T] : i \in 0..n}
Pairs(T, U) == {<<t, u>> : t \in T, u \in U}
Singles(T) == {<<t>> : t \in T}

-----------------------------------------------------------------------------
(* Groups of handlers with a setting "p"; templates with an argument "@q", *)
(* one of which uses the other and one has it for its type; and modules    *)

Leaf(data) == C!Node(data, <<>>)
Given(key, values) == Singles({C!Kid(key, Leaf(v)) : v \in values}) \cup {<<>>}
P == Given("p", {<<>>, <<"1">>, <<"2">>})
Makes(key, settings, kids) == {C!Kid(key, C!Node(<<>>, s \o k)) : s \in settings, k \in kids}
Handlers == Makes("Say", P, {<<>>})
Inner == Makes("Group", P, Singles(Handlers) \cup Pairs(Handlers, Handlers))
Outer == Makes("Group", P, Pairs(Inner, Handlers))

Greets == Makes("Say", Given("p", {<<"@q">>, <<"hello", "@q">>}), {<<>>})
Templates ==
  {[t \in {<<"Greet">>, <<"Both">>, <<"Typed">>} |->
      CASE t = <<"Greet">> -> C!Node(<<>>, <<C!Kid("@q", Leaf(<<"1">>))>> \o p \o <<g>>)
        [] t = <<"Both">> ->
             C!Node(<<>>, <<C!Kid("@q", Leaf(<<>>)), C!Kid("Greet", C!Node(<<>>, q)), C!Kid("Say", Leaf(<<>>))>>)
        [] t = <<"Typed">> -> C!Node(<<>>, <<C!Kid("type", Leaf(<<"Greet">>)), g>>)] :
     p \in Given("p", {<<"3">>}), g \in Greets, q \in Given("q", {<<"@q">>, <<"4">>})}
Q1 == Given("q", {<<>>, <<"5">>})
Uses ==
  UNION {Makes(t, {p \o q : p \in Given("p", {<<"2">>}), q \in Q1}, {<<>>}) : t \in {"Greet", "Both", "Typed"}}
  \cup Makes("Template", Q1, {<<C!Kid("template", Leaf(t))>> : t \in {<<"Greet">>, <<"Both">>}})
  \cup Makes("Hello", Q1, {<<C!Kid("type", Leaf(<<"Greet">>))>>})
  \cup Makes("Template", Q1, {<<C!Kid("type", Leaf(<<"Template">>)), C!Kid("template", Leaf(<<"Greet">>))>>})
Templated == Makes("Group", {p \o q : p \in P, q \in Given("q", {<<"6">>})}, Pairs(Uses, Makes("Say", {<<>>}, {<<>>})))

Template ==
  C!Node(<<>>, <<C!Kid("@p", Leaf(<<"1">>)), C!Kid("r", Leaf(<<"a", "@p", "@p">>)),
                 C!Kid("Say", C!Node(<<>>, <<C!Kid("p", Leaf(<<"@p">>)), C!Kid("q", Leaf(<<"@q">>))>>))>>)
TemplateSettings ==
  {C!Node(<<>>, p \o r \o s) : p \in P, r \in Given("r", {<<"3">>}), s \in {<<>>} \cup Singles(Handlers)}

Dependencies ==
  {{}} \cup {{[name |-> n, min |-> i, max |-> x]} : n \in 1..2, i \in {0, 2}, x \in {0, 1}}
Module(names) == [name : names, version : 1..2, deps : Dependencies]
Modules ==
  {s \in {<<a, b, c>> : a \in Module({1}), b \in Module(1..3), c \in Module({3})} :
     \A i, j \in 1..3 : s[i].name = s[j].name /\ s[i].version = s[j].version => i = j}

-----------------------------------------------------------------------------
(* Two levels of groups or bridges over two actions, and Multi             *)

Action(trigger) == D!Handler("action", trigger, <<>>)
Actions == {Action("a"), Action(""), [Action("") EXCEPT !.direct = TRUE, !.private = TRUE]}
Around(kids) ==
  {[D!Handler("group", t, s) EXCEPT !.pass = p, !.prefix = "in"] :
     t \in {"", "g"}, p \in BOOLEAN, s \in kids}
  \cup {[D!Handler("bridge", "", s) EXCEPT !.prefix = "br", !.to = to, !.channel = c, !.member = m] :
          to \in {"", "xon"}, c \in {"", "#d"}, m \in BOOLEAN, s \in kids}
Trees == Around(Pairs(Around(Pairs(Actions, {Action("a"), Action("")})), {Action("")}))
Messages ==
  [type : {"CHAT"}, text : {<<"a", "x">>, <<"g", "a">>, <<"b">>}, direct : BOOLEAN,
   channels : {<<>>, <<"#c">>}, from : {"u"}, self : {FALSE}, destination : {"irc"}]
Multis ==
  {[D!Handler("multi", "m", kids) EXCEPT !.direct = d] :
     d \in BOOLEAN, kids \in Pairs({Action("a"), [Action("a") EXCEPT !.direct = TRUE]},
                                  {Action("b"), Action("c")})}
Multiplied == {[m EXCEPT !.text = <<"m">> \o @] : m \in Messages}

-----------------------------------------------------------------------------
(* Texts with colours and flags                                            *)

Elements ==
  {F!Char(c) : c \in {"a", "1", "^", "$", ",", "*"}} \cup {F!Letter("*")}
  \cup {F!Color(c) : c \in {F!nocolor, <<0, 0, 0>>, <<15, 0, 0>>, <<7, 0, 1>>}}
  \cup {F!Flags(f) : f \in {{}, {"bold"}, {"bold", "italic"}}} \cup {F!Clear}
Coloured == {<<F!Color(<<r, g, b>>), F!Char("1")>> : r, g, b \in {0, 3, 7, 8, 10, 12, 15}}
Protocols == {"xonotic", "irc", "ansi", "config", "html"}
Texts == UpTo(3, Elements) \cup Coloured

-----------------------------------------------------------------------------
(* Replies in the language of the configuration                            *)

Var(x) == L!Placeholder(x, <<>>)
Simple == {L!Text("a"), L!Text("0"), Var("x"), Var("y")}
Calls ==
  {L!FilterCall("ifeq", <<<<Var("x")>>, <<b>>, <<c>>, <<L!Text("e")>>>>) :
     b \in {L!Text("0"), Var("y")}, c \in {L!Text("a"), L!ListItem(<<L!Text("a"), Var("x")>>)}}
  \cup {L!FilterCall("f", <<<<Var("y")>>>>)}
Ifs(conditions, bodies) == {L!IfStatement(<<c>>, t, f) : c \in conditions, t, f \in bodies}
Fors(bodies) ==
  {L!ForStatement("x", source, body) : body \in bodies,
     source \in {<<Var("x")>>, <<L!ListItem(<<L!Text("a"), Var("x")>>), Var("y")>>}}
Bodies == {<<>>, <<Var("x"), L!Text("a")>>, <<Var("y")>>}
Statements == Ifs({Var("x"), L!Text("0")}, Bodies) \cup Fors(Bodies)
Nested == {<<>>} \cup Singles(Fors(Bodies)) \cup Pairs({Var("x")}, Ifs({Var("x")}, Bodies))
Replies ==
  Pairs(Simple \cup Calls \cup {L!Style("red")}, Simple \cup Statements)
  \cup Singles(Ifs({Var("x"), L!FilterCall("f", <<<<Var("y")>>>>)}, Nested) \cup Fors(Nested))
Values == {<<L!Text("0")>>, <<L!Text("b"), L!Text("c")>>}
Lists == Values \cup {<<L!ListItem(<<L!Text("1"), L!Text("d")>>), Var("y")>>}
Environments == {<<>>} \cup [x : Lists, y : Values]

-----------------------------------------------------------------------------
(* Matches of up to three players, and what came before                    *)

Players(teams) == UpTo(3, [score : {0, 2}, team : {S!SPECTATORS, 5} \cup teams])
Matches ==
  [gametype : {"dm", "lms"}, lowest : BOOLEAN, players : Players({S!NO_TEAM}), teams : {<<>>}]
  \cup [gametype : {"dm"}, lowest : BOOLEAN, players : Players({14}), teams : {<<5, 14>>}]
Left == [type |-> "player", name |-> 9, score |-> 1, team |-> 14, humans |-> TRUE]
Before ==
  {<<>>,
   <<[type |-> "teamscores", team |-> 5, score |-> 1, humans |-> TRUE]>>,
   <<[type |-> "labels", lowest |-> TRUE, humans |-> TRUE], Left, [type |-> "end", humans |-> FALSE]>>}

-----------------------------------------------------------------------------
(* Help on handlers in two levels of groups, some of them closed to some   *)

Closed(h) ==
  {h, [h EXCEPT !.auth = "admin"], [h EXCEPT !.help_group = "other"], [h EXCEPT !.channels = "#c"]}
Commands == {H!Item("action", n, "?", <<>>) : n \in {"a", "b", "help"}}
Folders(n, kids) == UNION {Closed(H!Item("group", n, IF n = "" THEN "" ELSE "h", s)) : s \in kids}
Within == Folders("", Pairs(Commands, Commands)) \cup Folders("g", Pairs(Commands, {H!Item("action", "a", "?", <<>>)}))
Listed == UNION {Folders(n, Pairs(Within, {H!Item("action", "b", "?", <<>>)})) : n \in {"", "f"}}
Askers == {H!Asked(g, {"#c"}, q) : g \in {{}, {"admin"}}, q \in {"", "a", "g"}}
          \cup {H!Asked({"admin"}, {}, "a")}

-----------------------------------------------------------------------------
(* Requests to a server with a directory, and receivers of pushes          *)

TheBot == {[connections |-> [c \in {"irc"} |-> "CONNECTED"], services |-> {"http"}, storage |-> TRUE,
            receivers |-> [n \in {"telegram"} |-> <<"a">>]]}
Paths == {<<>>, <<"a">>, <<"b">>, <<"a", "b">>, <<"a", "a", "b">>, <<"a", "connection", "irc">>,
          <<"a", "connection", "irc", "start">>, <<"service", "http", "stop">>, <<"a", "service", "irc">>}
Requests ==
  [path : Paths, method : {"GET"}, post : {[key |-> "", delete |-> TRUE]}, client : {"c"}, bot : TheBot]
  \cup [path : {<<"a", "storage", "k">>, <<"storage">>}, method : {"POST"},
        post : {[key |-> "", delete |-> TRUE]}, client : {"d"}, bot : TheBot]
Shown ==
  {W!Page("RenderFile", <<"a">>), W!Page("Redirect", <<"a", "b">>),
   [W!Page("RenderFile", <<"b">>) EXCEPT !.opens = FALSE],
   [W!Page("RenderStatic", <<>>) EXCEPT !.files = {<<"a">>, <<"b">>}],
   [W!Page("PushPage", <<>>) EXCEPT !.receiver = "telegram"]}
  \cup {[W!Page("StatusPage", u) EXCEPT !.editable = e] : u \in {<<>>, <<"a">>}, e \in BOOLEAN}
ErrorPages ==
  {<<>>} \cup Singles({W!HtmlErrorPage, [s \in {404} |-> 500], [s \in {404, 500} |-> 904 - s]})
Directories ==
  {[W!Page("Directory", <<"a">>) EXCEPT !.kids = k, !.errors = e, !.clients = c] :
     k \in Singles(Shown), e \in ErrorPages, c \in {{}, {"d"}}}
Servers ==
  {[W!Page("server", <<>>) EXCEPT !.kids = k, !.errors = e] : e \in ErrorPages,
     k \in Pairs(Directories, {W!Page("RenderFile", <<"a", "b">>)}) \cup Singles(Shown)}
\* Each receiver is made once, and deleted later if at all.
Pushes ==
  {s \in UpTo(4, {"made", "deleted"} \X {"n", "m"} \X {1, 2}) :
     \A i, j \in DOMAIN s :
       /\ s[i] = s[j] => i = j
       /\ s[i][3] = s[j][3] => s[i][2] = s[j][2]
       /\ s[i][1] = "deleted" => \E k \in 1..i-1 : s[k] = <<"made", s[i][2], s[i][3]>>}

-----------------------------------------------------------------------------
(* What becomes of a question to a web service                             *)

Replied ==
  {<<>>} \cup [{"totalResults", "videoId"} -> 0..1] \cup [{"definition"} -> {"", "d"}]
  \cup [{"title", "content"} -> {"", "t"}] \cup [{"search", "title"} -> {"t"}] \cup [{"pages"} -> {1}]
  \cup [{"pages", "revision"} -> {1}] \cup [{"address"} -> {"", "a"}]
  \cup [{"post", "joke", "file", "error"} -> {"x"}] \cup [{"time"} -> 2..4]
  \cup [{"faces"} -> {<<"", "f">>, <<>>}] \cup [{"posts"} -> {<<"p", "q">>}]
Outcomes ==
  [kind : {"unreachable", "error", "malformed"}, tree : {<<>>}] \cup [kind : {"json"}, tree : Replied]

-----------------------------------------------------------------------------
(* What the bot says for fun, and the chains that it talks by              *)

Drawings == [name : {"p"}, score : 0..2, opens : BOOLEAN]
Speakers ==
  UpTo(3, [kind : {"listener", "generator", "save"}, key : {"", "k"}, read_only : {"unset", "true"}]
          \cup {M!Handler(k, "markov", "unset") : k \in {"status", "save"}})
Names == UpTo(1, {<<"a", "">>, <<"c", "input">>, <<"d", "output">>}) \cup {<<<<"c", "">>, <<"d", "output">>>>}
Chains == UpTo(2, [name : {"a", "b"}, names : Names])

-----------------------------------------------------------------------------
(* A server with up to three players, what is asked of it and what it logs *)

Watched ==
  {[i \in DOMAIN s |-> s[i] @@ [id |-> i, entity |-> ToString(i)]] :
     s \in UpTo(3, [name : {{"a"}, {"a", "b"}}, host : {"", "h"}, frags : {-666, 1}])}
BanCalls ==
  [verb : {"player"}, by : {"entity"}, what : {"1", "3"}, ids : {<<>>}, time : {"", "9"}, reason : {"", "r"}]
  \cup [verb : {"player"}, by : {"name"}, what : {"a", "b"}, ids : {<<>>}, time : {""}, reason : {""}]
  \cup [verb : {"", "refresh", "ip", "rm", "other"}, by : {""}, what : {"h"},
        ids : UpTo(2, {"1", "2"}), time : {"9"}, reason : {""}]
Listings ==
  [header : BOOLEAN, arrived : SUBSET {1, 2},
   bans : [{1, 2} -> {"i", "j"}] \cup [{2} -> {"i"}] \cup {<<>>}]
Lines ==
  [kind : {"vcall"}, id : 1..3, vote : {"v"}] \cup [kind : {"vstop", "vlogin"}, id : {1}]
  \cup [kind : {"vdo"}, id : {1}, vote : {"v"}] \cup [kind : {"recordset"}, id : {1}, time : {9}]
  \cup [kind : {"result"}, result : {"yes", "timeout"}, yes : {1}, no : {0},
        abstain : 0..1, novote : 0..1, min : {-1, 1}]
News ==
  [type : {"JOIN", "PART"}, from : [id : {1}, host : {"", "h"}] \cup [id : {2}, host : {"h"}]]

-----------------------------------------------------------------------------
(* Two bridges between two connections, and a third one to attach them to  *)

Telling(type, self, others) ==
  [B!Handler("event") EXCEPT !.type = type, !.discard_self = self, !.discard_others = others]
Bridged ==
  {<<B!Bridge("irc", "xon", "",
              <<[B!Handler("attach") EXCEPT !.detach = e # "self"], B!Handler("channel"),
                Telling("JOIN", e = "self", e = "others"), Telling("KICK", FALSE, TRUE), B!Handler("chat")>>),
     B!Bridge("xon", "irc", "#d", <<B!Handler("channel"), B!Handler("chat")>>)>> :
       e \in {"", "self", "others"}}
Told(type, source, from, victim, text, direct) ==
  [type |-> type, source |-> source, from |-> from, victim |-> victim, text |-> text,
   direct |-> direct, channels |-> IF source = "irc" THEN <<"#c">> ELSE <<>>]
Heard ==
  {Told("CHAT", "irc", f, "", <<"said", "">>, d) : f \in {"u", "bot"}, d \in BOOLEAN}
  \cup {Told("CHAT", "irc", "u", "", t, FALSE) : t \in {<<"attach", "tg">>, <<"attach", "">>, <<"channel", "#e">>}}
  \cup {Told("KICK", "irc", "u", v, <<"x", "">>, FALSE) : v \in {"v", "bot"}}
  \cup {Told("JOIN", "irc", f, "", <<"x", "">>, FALSE) : f \in {"u", "bot"}}
  \cup {Told("CHAT", "xon", "u", "", t, FALSE) : t \in {<<"said", "">>, <<"channel", "#e">>}}

-----------------------------------------------------------------------------
(* What users do on an IRC network and ask of the bot.  Sooner or later    *)
(* all questions to Q are answered.                                        *)

Happening(what, nick, account) == [what |-> what, nick |-> nick, account |-> account]
Happened ==
  {Happening("join", "u", a) : a \in {"", "a"}} \cup {Happening("join", "v", "b")}
  \cup {Happening("quit", "u", ""), Happening("rename", "u", "v")}
  \cup {Happening(w, "", "") : w \in {"bot joins", "Q", "notice"}}
Drained == [i \in 1..14 |-> Happening(IF i < 5 THEN "Q" ELSE "notice", "", "")]
Orders ==
  [what : {"join"}, channels : {<<"#a">>, <<"#a", "#b">>},
   words : {<<>>, <<<<"#b">>>>, <<<<"#a", ",", "#b">>, <<"key">>>>}]
  \cup [what : {"part"}, channels : {<<"#a">>}, words : {<<>>, <<<<"#a">>>>, <<<<"#b">>>>}]
  \cup [what : {"INVITE"}, channels : {<<>>}, words : {<<<<"#b">>>>}]
  \cup [what : {"KICK"}, channels : {<<"#a">>, <<"#b">>, <<"#b", "#a">>}, words : {<<"why">>}]
  \cup [what : {"nick"}, channels : {<<"#a">>}, words : {<<<<"n">>>>}]
Ctcps ==
  UpTo(3, [ctcp : {"PING", "CLIENTINFO", "VERSION"}, clientinfo : {"i"}, help_group : {"", "g"}])
Asks == [ctcp : {"PING", "CLIENTINFO", "FINGER"}, argument : {"", "PING"}, private : BOOLEAN]

-----------------------------------------------------------------------------
(* What is said on IRC, and the queue of lines                             *)

Sayings ==
  [target : {<<"#", "c">>, <<"you">>, <<"bot">>}, from : {<<>>, <<"u">>}, action : BOOLEAN,
   text : UpTo(4, {"a", " ", ":", "LF", "^A", "you"})]
Floods == [max : {1, 3}, penalty : 0..2, bytes : 0..1]
Queues ==
  {[i \in DOMAIN s |-> s[i] @@ [id |-> i]] :
     s \in UpTo(4, [at : {0, 3}, size : {0, 3}, timeout : {4, Y!Forever}])}
InOrder(s) == \A i, j \in DOMAIN s : i < j => s[i].at <= s[j].at

-----------------------------------------------------------------------------
(* What happens in a repository, and what is asked of GitHub               *)

Types == {"ForkEvent", "RefEvents", "IssuesEvent", "MemberEvent", "PullRequestEvent", "GollumEvent", "PushEvent"}
Listeners == [type : Types, limit : 0..2, detailed : BOOLEAN, commit_limit : {1}]
Events ==
  UpTo(3, [type : {"CreateEvent", "DeleteEvent"}, action : {"opened", "labeled", "closed"}, parts : {<<"x">>}]
          \cup [type : {""}, action : {""}, parts : {<<>>, <<"x", "y">>}])
Found ==
  {[i \in DOMAIN s |-> [name |-> ToString(i), score |-> s[i], assets |-> i - 1]] : s \in UpTo(3, 0..2)}

-----------------------------------------------------------------------------
(* What is done to a list and to an inventory, and taught to the bot       *)

ListCommands ==
  [verb : {"add", "rm"}, items : {<<"a">>, <<"a", "b">>, <<"b", "b">>}, editor : BOOLEAN]
  \cup [verb : {"clear", "list"}, items : {<<>>}, editor : BOOLEAN]
Gifts ==
  [verb : {"gives"}, item : {"a", "b"}, rand : {0}, admin : {FALSE}]
  \cup [verb : {"gives"}, item : {"c"}, rand : 0..1, admin : {FALSE}]
  \cup [verb : {"takes from"}, item : {"a"}, rand : {0}, admin : {FALSE}]
  \cup [verb : {"clear"}, item : {""}, rand : {0}, admin : BOOLEAN]
Lessons ==
  {s \in UpTo(4, [teach : {TRUE}, trigger : {"q"}, reply : {"", "a"}, at : 1..2]
                 \cup [teach : {FALSE}, trigger : {"q", "r"}, reply : {""}, at : 1..2]) :
     \A i, j \in DOMAIN s : i < j => s[i].at <= s[j].at}

-----------------------------------------------------------------------------
Inputs(about) ==
  CASE about = "settings" ->
         [about : {about}, item : Outer, templates : {<<>>}]
         \cup [about : {about}, item : Templated, templates : Templates]
    [] about = "template" ->
         [about : {about}, settings : TemplateSettings]
    [] about = "modules" ->
         [about : {about}, modules : Modules]
    [] about = "message" ->
         [about : {about}, handler : Trees, message : Messages]
    [] about = "multi" ->
         [about : {about}, handler : Multis, message : Multiplied]
    [] about = "text" ->
         [about : {about}, format : Protocols, text : Texts, beyond : {<<>>}]
         \cup [about : {about}, format : {"telegram-md"}, text : Texts, beyond : {<<>>, <<"*">>}]
    [] about = "reply" ->
         [about : {about}, reply : Replies, env : Environments]
    [] about = "match" ->
         [about : {about}, empty : {"unset", "true", "false"}, before : Before, match : Matches]
    [] about = "help" ->
         [about : {about}, handler : Listed, other : Commands, asker : Askers]
    [] about = "page" ->
         [about : {about}, server : Servers, request : Requests, status : {200, 400}]
    [] about = "push" ->
         [about : {about}, events : Pushes]
    [] about = "query" ->
         [about : {about}, handler : Q!Handlers, outcome : Outcomes]
    [] about = "morse" ->
         [about : {about}, text : UpTo(4, {"a", "A", "t", " ", "(", ".", "-", "?"})]
    [] about = "turn" ->
         [about : {about}, text : UpTo(3, {"b", "q", "(", "x", "5", "?"})]
    [] about = "question" ->
         [about : {about}, users : UpTo(2, {"bot", "u"}),
         question : {"", "when", "when did", "when will", "who", "what"}]
    [] about = "pony" ->
         [about : {about}, files : UpTo(3, Drawings), query : BOOLEAN]
    [] about = "year" ->
         [about : {about}, year : 1999..2004]
    [] about = "listen" ->
         [about : {about}, handlers : Speakers, files : [{"k"} -> {{"old"}}]]
    [] about = "server" ->
         [about : {about}, users : Watched, maps : UpTo(2, {{"a"}, {"a", "["}}),
         query : {"", "a", "b", "["}, max_print : {-1, 1}]
    [] about = "ban" ->
         [about : {about}, users : Watched, call : BanCalls]
    [] about = "bans" ->
         [about : {about}, listings : UpTo(2, Listings)]
    [] about = "votes" ->
         [about : {about}, calls : UpTo(3, [at : 1..5, as : {"u", "v"}])]
    [] about = "news" ->
         [about : {about}, bots : BOOLEAN, events : UpTo(3, News)]
    [] about = "log" ->
         [about : {about}, users : {u \in Watched : Len(u) < 3}, line : Lines, command : {"n", "status"}]
    [] about = "bridge" ->
         [about : {about}, bridges : Bridged, messages : UpTo(3, Heard)]
    [] about = "accounts" ->
         [about : {about}, events : UpTo(4, Happened) \cup {s \o Drained : s \in UpTo(4, Happened)}]
    [] about = "channels" ->
         [about : {about}, messages : UpTo(3, Orders)]
    [] about = "ctcp" ->
         [about : {about}, handlers : Ctcps, request : Asks]
    [] about = "raw" ->
         [about : {about}, words : UpTo(4, {"x", "y", ":"})]
    [] about = "events" ->
         [about : {about}, listener : Listeners, events : Events]
    [] about = "hub" ->
         [about : {about}, handler : {"issue", "release", "code search"}, asked : {"", "number", "latest"},
         max_results : 0..2, outcome : [kind : {"answer"}, found : Found]
                                   \cup [kind : {"unreachable", "error", "malformed"}, found : {<<>>}]]
    [] about = "said" ->
         [about : {about}, message : Sayings, notice : BOOLEAN, max_length : {12}]
    [] about = "flood" ->
         [about : {about}, commands : {q \in Queues : InOrder(q)}, flood : Floods]
    [] about = "list" ->
         [about : {about}, commands : UpTo(3, ListCommands)]
    [] about = "inventory" ->
         [about : {about}, actions : UpTo(4, Gifts), max_items : {2}]
         \cup [about : {about}, actions : UpTo(3, Gifts), max_items : {0}]
    [] about = "lesson" ->
         [about : {about}, events : Lessons]
    [] about = "speak" ->
         [about : {about}, chains : Chains, name : {"", "a", "c", "d"}]

Kinds ==
  {"settings", "template", "modules", "message", "multi", "text", "reply", "match",
   "help", "page", "push", "query", "morse", "turn", "question", "pony", "year",
   "listen", "server", "ban", "bans", "votes", "news", "log", "bridge", "accounts",
   "channels", "ctcp", "raw", "said", "flood", "events", "hub", "list", "inventory", "lesson", "speak"}

Init == case \in [about : {"none"}, kind : Kinds]

Give == case.about = "none" /\ case' \in Inputs(case.kind)
Done == case.about # "none" /\ UNCHANGED case
Next == Give \/ Done

Spec == Init /\ [][Next]_case

\* Handlers are built with the settings written for them, for the groups around them, or
\* for the template they are in, in the newest modules whose dependencies can be met; and
\* what the chains of words learn reaches the file their settings name.
SettingsReach ==
  /\ case.about = "settings" => C!SettingsInherited(case.item, {<<"Say">>}, case.templates)
  /\ case.about = "template" => C!TemplateFilled(case.settings, Template)
  /\ case.about = "modules" => C!ModulesFound(case.modules)
  /\ case.about = "listen" => M!LearnedIsKept(case.handlers, case.files, "new")

\* A message is answered by the first handler that takes it, under the filters of all
\* the groups and bridges around it; by one that asks a service, as the service answers; by
\* those that make an answer up, with one of theirs, or with that of whom it names; what is
\* said on one side of a bridge is told once on the other; and IRC is given its lines at a
\* pace it takes.
MessagesAnswered ==
  /\ case.about = "message" => D!AnsweredByFirst(case.handler, case.message)
  /\ case.about = "multi" => D!MultiReaches(case.handler, case.message)
  /\ case.about = "query" => Q!QuestionsAnswered(case.handler, case.outcome)
  /\ case.about = "question" => X!AnswersFit(case.question, case.users)
  /\ case.about = "bridge" => B!ToldOnce(case.bridges, case.messages)
  /\ case.about = "hub" =>
       E!HubAnswersAsked(case.handler, case.asked, case.max_results, case.outcome)
  /\ case.about = "flood" => Y!PaceIsKept(case.commands, case.flood)
  /\ case.about = "speak" => M!SpeaksAsAsked(case.chains, case.name)
  /\ case.about = "pony" =>
       X!DrawsTheBest([i \in DOMAIN case.files |-> [case.files[i] EXCEPT !.name = ToString(i)]],
                      case.query)

\* Help names and explains what the sender may use, and nothing else; and so does that of
\* the CTCP requests.
HelpIsHonest ==
  /\ case.about = "help" => H!HelpIsHonest(<<case.handler, case.other>>, case.asker, "")
  /\ case.about = "ctcp" => N!CtcpAnswered(case.handlers, case.request)

\* The web server answers each request, with the page it is for or an error; what is pushed
\* reaches the receiver of its name.
RequestsAnswered ==
  /\ case.about = "page" => W!RequestsAnswered(case.server, case.request, case.status)
  /\ case.about = "push" => W!ReceiversFound(case.events)

\* A text looks the same when it has been written for a protocol, and ends what it begins;
\* what is said on IRC is heard there; turned upside down or into Morse code it comes back;
\* and so does a date.
TextsKeepTheirLook ==
  /\ case.about = "text" =>
       /\ F!LooksTheSame(case.format, case.text, case.beyond)
       /\ F!ClosesWhatItOpens(case.format, case.text, case.beyond)
  /\ case.about = "said" =>
       Y!SaidIsHeard(case.message, case.notice, case.max_length, <<"you">>)
  /\ case.about = "morse" => X!MorseReadsBack(case.text)
  /\ case.about = "turn" => X!TurnsBack(case.text)
  /\ case.about = "year" => X!DaysFollow(case.year)

\* A reply says what is written in the configuration, or what it was taught to be; those
\* about a list or an inventory, what has been put in it and taken out.
RepliesMeanWhatTheySay ==
  /\ case.about = "reply" => L!RepliesAsWritten(case.reply, case.env)
  /\ case.about = "list" => I!ListsAccounted(case.commands)
  /\ case.about = "inventory" => I!InventoryAccounted(case.actions, case.max_items)
  /\ case.about = "lesson" => I!TaughtIsTold(case.events)

\* A server is shown as it is: the scores of a match, who plays, the maps, the bans, the
\* calls and results of votes; the account of a user on IRC is that user's unless the nick
\* was reused; and what is asked of a server is done to the entity, the address or the bans
\* it was asked for, in the channels it was asked for.
ServersAreShown ==
  /\ case.about = "match" => S!ShowsTheMatch(S!Scorer(case.empty), case.before, case.match)
  /\ case.about = "server" => G!CountsAgree(case.users, case.maps, case.query, case.max_print)
  /\ case.about = "ban" => G!BansAsAsked(case.users, case.call)
  /\ case.about = "bans" => G!BanListFollows(case.listings)
  /\ case.about = "votes" => G!VotesInOwnName(case.calls)
  /\ case.about = "news" => G!NewsTold(case.events, case.bots)
  /\ case.about = "accounts" => N!AccountsAreTheirs(case.events)
  /\ case.about = "events" => E!NewsInOrder(case.listener, case.events)
  /\ case.about = "channels" => N!InChannelsAsked(case.messages)
  /\ case.about = "raw" => N!RawAsWritten(case.words)
  /\ case.about = "log" => G!VoteTold(case.command, case.line, case.users)
=============================================================================
