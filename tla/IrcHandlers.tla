------------------------------ MODULE IrcHandlers ------------------------------
(***************************************************************************)
(* The handlers only IRC has: accounts of users, asked of the service Q    *)
(* (irc_whois.hpp), channels to join and to part (irc_admin.hpp,           *)
(* irc_actions.hpp) and CTCP requests (ctcp.hpp).  The network and Q are   *)
(* modelled from the messages the handlers read and the commands they      *)
(* send.                                                                   *)
(***************************************************************************)
EXTENDS Naturals, Sequences, FiniteSets, SequencesExt, Functions

Drop(f, x) == [y \in DOMAIN f \ {x} |-> f[y]]
Get(f, x) == IF x \in DOMAIN f THEN f[x] ELSE ""
Put(f, x, v) == [y \in DOMAIN f \cup {x} |-> IF y = x THEN v ELSE f[y]]

-----------------------------------------------------------------------------
(* Accounts.  The network has users with the accounts they are logged in   *)
(* to ("": none); Q answers the questions in their order, when it gets to  *)
(* them, with notices that are read later still.                           *)

Network ==
  [users |-> <<>>, here |-> FALSE, global_id |-> <<>>, asked |-> <<>>, notices |-> <<>>,
   expects_users |-> FALSE]

\* What the bot asks when a user, or the bot itself (""), joins a channel.
QSendWhois(n, nick) ==
  IF nick = "" THEN [n EXCEPT !.asked = Append(@, "users")]
  ELSE IF ~n.here THEN n
  ELSE IF n.global_id[nick] = "" THEN [n EXCEPT !.asked = Append(@, nick)]
  ELSE n

\* Q: whose account it is, or the users of the channel who have one, between two lines.
Notice(kind, nick, account) == [kind |-> kind, nick |-> nick, account |-> account]
Answers(n) ==
  LET known == {u \in DOMAIN n.users : n.users[u] # ""}
      lines == SetToSeq({Notice("user", u, n.users[u]) : u \in known})
  IN  IF Head(n.asked) = "users"
      THEN <<Notice("start", "", "")>> \o lines \o <<Notice("end", "", "")>>
      ELSE IF Head(n.asked) \in known
           THEN <<Notice("whois", Head(n.asked), n.users[Head(n.asked)])>>
      ELSE <<>>
QAnswers(n) ==
  IF n.asked = <<>> THEN n
  ELSE [n EXCEPT !.asked = Tail(@), !.notices = @ \o Answers(n)]

\* The account is that of the user who has the nick when the notice is read.
update_user(n, nick, account) ==
  IF nick \in DOMAIN n.global_id THEN [n EXCEPT !.global_id[nick] = account] ELSE n

QGetWhois(n) ==
  IF n.notices = <<>> THEN n
  ELSE LET notice == Head(n.notices)
           read   == [n EXCEPT !.notices = Tail(@)]
       IN  CASE notice.kind = "whois" \/ (n.expects_users /\ notice.kind = "user") ->
                  update_user(read, notice.nick, notice.account)
             [] notice.kind = "start" -> [read EXCEPT !.expects_users = TRUE]
             [] notice.kind = "end" -> [read EXCEPT !.expects_users = FALSE]
             [] OTHER -> read

\* What happens on the network: users come, go and change their nicks, before the bot joins
\* the channel and after.
Happens(n, e) ==
  CASE e.what = "join" ->
         IF e.nick \in DOMAIN n.users THEN n
         ELSE QSendWhois([n EXCEPT !.users = Put(@, e.nick, e.account),
                                   !.global_id = IF n.here THEN Put(@, e.nick, "") ELSE @], e.nick)
    [] e.what = "bot joins" ->
         QSendWhois([n EXCEPT !.here = TRUE,
                              !.global_id = [u \in DOMAIN n.users |-> Get(@, u)]], "")
    [] e.what = "quit" -> [n EXCEPT !.users = Drop(@, e.nick), !.global_id = Drop(@, e.nick)]
    [] e.what = "rename" ->
         IF e.nick \notin DOMAIN n.users \/ e.account \in DOMAIN n.users THEN n
         ELSE [n EXCEPT !.users = Put(Drop(@, e.nick), e.account, @[e.nick]),
                        !.global_id = IF n.here THEN Put(Drop(@, e.nick), e.account, @[e.nick]) ELSE @]
    [] e.what = "Q" -> QAnswers(n)
    [] e.what = "notice" -> QGetWhois(n)

-----------------------------------------------------------------------------
(* Channels.  A message is [what, channels, words]; a word is a sequence   *)
(* of names and commas.                                                    *)

\* implode(): the channels with ", " between.
implode(channels) ==
  FlattenSeq([i \in DOMAIN channels |->
    IF i = 1 THEN <<channels[i]>> ELSE <<",", " ", channels[i]>>])

\* The channels, and their keys, are the first two words; or those it was said in.
AdminJoin(m) ==
  IF m.words # <<>> THEN <<<<"JOIN", m.words[1]>>>>
  ELSE IF m.channels # <<>> THEN <<<<"JOIN", implode(m.channels)>>>>
  ELSE <<>>
AdminPart(m) ==
  IF m.words # <<>> THEN <<<<"PART", m.words[1]>>>>
  ELSE IF Len(m.channels) = 1 THEN <<<<"PART", <<m.channels[1]>>>>>>
  ELSE <<>>
AcceptInvite(m) == <<<<"JOIN", m.words[1]>>>>
IrcKickRejoin(m) == IF m.channels = <<>> THEN <<>> ELSE <<<<"JOIN", implode(m.channels)>>>>
AdminNick(m) == IF m.words = <<>> THEN <<>> ELSE <<<<"NICK", m.words[1]>>>>

Commanded(m) ==
  CASE m.what = "join" -> AdminJoin(m)
    [] m.what = "part" -> AdminPart(m)
    [] m.what = "INVITE" -> AcceptInvite(m)
    [] m.what = "KICK" -> IrcKickRejoin(m)
    [] m.what = "nick" -> AdminNick(m)

\* The network does it.  A space ends the list of channels: what follows are their keys.
Performed(channels, c) ==
  LET space == SelectInSeq(c[2], LAMBDA w : w = " ")
      listed == ToSet(IF space = 0 THEN c[2] ELSE SubSeq(c[2], 1, space - 1)) \ {","}
  IN  CASE c[1] = "JOIN" -> channels \cup listed
        [] c[1] = "PART" -> channels \ listed
        [] OTHER -> channels

\* A command as it is written: words, and with a ":" the rest of the line.
AdminRaw(words) ==
  LET at == SelectInSeq(words, LAMBDA w : w = ":")
  IN  IF words = <<>> THEN <<>>
      ELSE IF at <= 1 THEN [i \in DOMAIN words |-> <<words[i]>>]
      ELSE [i \in 1..at - 1 |-> <<words[i]>>] \o <<SubSeq(words, at + 1, Len(words))>>

-----------------------------------------------------------------------------
(* CTCP.  A handler is [ctcp, clientinfo, help_group]; a request names     *)
(* what it asks for, or asks "CLIENTINFO" about a query.                   *)

\* Only what is said to the bot alone is a request.
CtcpBase_can_handle(h, request) == request.private /\ request.ctcp = h.ctcp

\* The handlers of a help group; the last of a name describes it.
gather(handlers, help_group) ==
  FoldLeft(LAMBDA info, h : IF h.help_group \notin {"", help_group} THEN info
                            ELSE Put(info, h.ctcp, h.clientinfo),
           <<>>, handlers)

CtcpClientInfo(handlers, h, query) ==
  LET info == gather(handlers, h.help_group)
  IN  IF info = <<>> THEN <<>>
      ELSE IF query \in DOMAIN info THEN <<[kind |-> "info", of |-> {query}, text |-> info[query]]>>
      ELSE <<[kind |-> "list", of |-> DOMAIN info, text |-> ""]>>

\* The notice sent for a request by the first handler that takes it: a fixed text, the
\* argument of PING, or help.
Ctcp(handlers, request) ==
  LET taking == SelectSeq(handlers, LAMBDA h : CtcpBase_can_handle(h, request))
  IN  CASE taking = <<>> -> <<>>
        [] taking # <<>> /\ request.ctcp = "CLIENTINFO" ->
             CtcpClientInfo(handlers, taking[1], request.argument)
        [] taking # <<>> /\ request.ctcp # "CLIENTINFO" ->
             <<[kind |-> "reply", of |-> {request.ctcp},
                text |-> IF request.ctcp = "PING" THEN request.argument ELSE taking[1].clientinfo]>>

-----------------------------------------------------------------------------
(* Properties                                                              *)

\* The account the bot knows of a user is that user's, unless a nick was given to another
\* user before Q's answers about it were all read; and when they are, it knows all those
\* of the users in its channel, who joined after it or were there when it did.
AccountsAreTheirs(events) ==
  LET after[i \in 0..Len(events)] == IF i = 0 THEN Network ELSE Happens(after[i - 1], events[i])
      end == after[Len(events)]
      Told(n) == {n.asked[i] : i \in DOMAIN n.asked} \cup {n.notices[i].nick : i \in DOMAIN n.notices}
      \* A question about the nick, or about everybody, is on its way when it is taken.
      reused == \E i \in DOMAIN events : \E u \in DOMAIN after[i].users :
                  /\ u \notin DOMAIN after[i - 1].users
                  /\ u \in Told(after[i - 1]) \/ "users" \in Told(after[i - 1])
      renamed == \E i \in DOMAIN events : events[i].what = "rename"
  IN  /\ ~reused =>
           \A u \in DOMAIN end.global_id : end.global_id[u] \in {"", end.users[u]}
      /\ ~reused /\ ~renamed /\ end.here /\ end.asked = <<>> /\ end.notices = <<>> =>
           end.global_id = end.users

\* The bot ends up in the channels it was asked to join, or invited to, or kicked from,
\* after it was last told to part them; a message that is about several without naming them
\* is not counted on, the second of them is taken for the key of the first.
InChannelsAsked(messages) ==
  LET step(channels, m) ==
        FoldLeft(Performed, IF m.what = "KICK" THEN channels \ ToSet(m.channels) ELSE channels,
                 Commanded(m))
      unnamed(m) == m.what = "KICK" \/ m.words = <<>>
      about(m) == IF unnamed(m) THEN ToSet(m.channels) ELSE ToSet(m.words[1])
      joins(c) == {i \in DOMAIN messages : messages[i].what \in {"join", "INVITE", "KICK"} /\ c \in about(messages[i])}
      parts(c) == {i \in DOMAIN messages : messages[i].what = "part" /\ c \in about(messages[i])}
      several(c) == \E i \in joins(c) \cup parts(c) : unnamed(messages[i]) /\ Len(messages[i].channels) > 1
  IN  \A c \in {"#a", "#b"} : ~several(c) =>
        (c \in FoldLeft(step, {}, messages) <=> \E i \in joins(c) : \A j \in parts(c) : j < i)

\* What CLIENTINFO lists is answered and what is answered is listed (in a help group of its
\* own, or in none); a request in a channel is not answered, PING with what it says.
CtcpAnswered(handlers, request) ==
  LET reply == Ctcp(handlers, request)
      list  == Ctcp(handlers, [ctcp |-> "CLIENTINFO", argument |-> "", private |-> TRUE])
      open  == \A i \in DOMAIN handlers : handlers[i].help_group = ""
  IN  /\ Len(reply) <= 1
      /\ ~request.private => reply = <<>>
      /\ reply # <<>> /\ request.ctcp = "PING" => reply[1].text = request.argument
      /\ list # <<>> =>
           /\ \A c \in list[1].of :
                Ctcp(handlers, [ctcp |-> c, argument |-> "", private |-> TRUE]) # <<>>
           /\ open /\ reply # <<>> => request.ctcp \in list[1].of

\* A raw command has all the words of the line but the ":".
RawAsWritten(words) ==
  words # <<>> /\ words[1] # ":" =>
    FlattenSeq(AdminRaw(words)) =
      LET at == SelectInSeq(words, LAMBDA w : w = ":")
      IN  SelectSeq([i \in DOMAIN words |-> IF i = at THEN "" ELSE words[i]], LAMBDA w : w # "")
=============================================================================
