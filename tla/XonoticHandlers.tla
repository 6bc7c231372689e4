---------------------------- MODULE XonoticHandlers ----------------------------
(***************************************************************************)
(* The handlers that watch a Xonotic or an Unvanquished server: its        *)
(* players, maps and bans (status.hpp, unvanquished.hpp), the commands     *)
(* they send it (rcon.hpp) and the news they tell of it (log.hpp).         *)
(*                                                                         *)
(* A user is a record [name, entity, host, frags]: its name is the set of  *)
(* the words that can be found in it, its host is "" for a bot.  What a    *)
(* handler does is the sequence of what it says and of the commands it     *)
(* sends; how a reply looks is left out.                                   *)
(***************************************************************************)
EXTENDS Integers, Sequences, FiniteSets, SequencesExt, Functions

Say(what) == <<[to |-> "chat", what |-> what]>>
Rcon(words) == <<[to |-> "rcon", what |-> words]>>
Sent(doing, to) == SelectSeq(doing, LAMBDA d : d.to = to)

Human(u) == u.host # ""
Spectates(u) == u.frags = -666
Count(users, Test(_)) == Len(SelectSeq(users, Test))

-----------------------------------------------------------------------------
(* Who plays: who, status, scores and maps                                 *)

ListPlayers(users, bots) ==
  LET list == SelectSeq(users, LAMBDA u : bots \/ Human(u))
  IN  Say(<<"players", list>>)

\* The users a filter leaves ("": all of them), a heading and a line for each.
filter(users, query) == SelectSeq(users, LAMBDA u : query \in u.name)
print_users(users) == Say(<<"heading">>) \o FlattenSeq([i \in DOMAIN users |-> Say(<<"line", users[i]>>)])

Status(users, query, info) ==
  IF query # ""
  THEN IF filter(users, query) = <<>> THEN Say(<<"no match">>) ELSE print_users(filter(users, query))
  ELSE (IF users = <<>> THEN <<>> ELSE print_users(users)) \o Say(<<"info", info>>) \o Say(<<"map">>)

XonoticStatus(users, query) ==
  Status(users, query, [active |-> Count(users, LAMBDA u : Human(u) /\ ~Spectates(u)),
                        spectators |-> Count(users, LAMBDA u : Human(u) /\ Spectates(u))])

\* "active" are the players of the connection, whatever they do.
UnvanquishedStatus(users, query) ==
  Status(users, query, [active |-> Count(users, Human), spectators |-> 0])

XonoticScores(users, include_bots, include_spectators) ==
  LET shown == SelectSeq(users, LAMBDA u : include_bots \/ Human(u))
      lines == SelectSeq(shown, LAMBDA u : include_spectators \/ ~Spectates(u))
  IN  Say(<<"info", [active |-> Count(shown, LAMBDA u : ~Spectates(u)),
                     spectators |-> Count(shown, Spectates)]>>)
        \o FlattenSeq([i \in DOMAIN lines |-> Say(<<"line", lines[i]>>)])

\* A map is the set of the patterns it matches; "[" is no pattern.
XonoticMaps(maps, query, regex, max_print) ==
  LET found == IF query = "" THEN maps
               ELSE IF regex /\ query = "[" THEN <<>>
               ELSE SelectSeq(maps, LAMBDA m : query \in m)
  IN  Say(<<"match", Len(found), Len(maps)>>)
        \o (IF max_print >= 0 /\ Len(found) <= max_print /\ found # <<>> THEN Say(<<"maps", found>>) ELSE <<>>)

-----------------------------------------------------------------------------
(* Bans and kicks.  A call is [verb, by, what, ids, time, reason].         *)

refresh == Rcon(<<"defer 1 banlist">>)

\* The user with the entity; by name, the first whose name does not have it.
find_user(users, call) ==
  SelectSeq(users, LAMBDA u : IF call.by = "entity" THEN u.entity = call.what
                              ELSE call.what \notin u.name)

\* A reason follows a duration.
extra(call) ==
  IF call.time = "" THEN <<>>
  ELSE IF call.reason = "" THEN <<call.time>> ELSE <<call.time, call.reason>>

kickban(users, call) ==
  LET kicked == find_user(users, call)
  IN  IF kicked = <<>> THEN Say(<<"not found">>)
      ELSE Say(<<"Banning", kicked[1].entity, kicked[1].host>>)
             \o Rcon(<<"kickban", kicked[1].entity>> \o extra(call)) \o refresh
ban(call) == Say(<<"Banning", call.what>>) \o Rcon(<<"ban", call.what>> \o extra(call)) \o refresh

\* Each id is given with or without a "#".
unban(ids) ==
  FlattenSeq([i \in DOMAIN ids |-> Rcon(<<"unban", ids[i]>>)]) \o Say(<<"Removing">>) \o refresh

\* Where there is no ban there is no such node, and get_child() throws; nobody catches it.
Throws == <<[to |-> "main", what |-> <<"exception">>]>>
show_bans(banlist) ==
  IF banlist = <<>> THEN Throws
  ELSE LET ids == SetToSeq(DOMAIN banlist)
       IN  FlattenSeq([i \in DOMAIN ids |-> Say(<<"ban", ids[i], banlist[ids[i]]>>)])

XonoticBan(users, banlist, call) ==
  CASE call.verb = "refresh" -> refresh \o Say(<<"refreshed">>)
    [] call.verb \in {"", "list"} -> show_bans(banlist)
    [] call.verb = "rm" -> unban(call.ids)
    [] call.verb = "player" -> kickban(users, call)
    [] call.verb = "ip" -> ban(call)
    [] OTHER -> Say(<<"Invalid call">>)

XonoticKick(users, call) ==
  LET kicked == find_user(users, call)
  IN  IF call.verb # "player" THEN Say(<<"Invalid call">>)
      ELSE IF kicked = <<>> THEN Say(<<"not found">>)
      ELSE Say(<<"Kicking", kicked[1].entity, kicked[1].host>>) \o Rcon(<<"kick", kicked[1].entity>>)

\* The list of bans, kept from what the server prints.
XonoticUpdateBans(banlist, line) ==
  CASE line.kind = "header" -> <<>>
    [] line.kind = "ban" -> [i \in DOMAIN banlist \cup {line.id} |->
                               IF i = line.id THEN line.ip ELSE banlist[i]]
    [] OTHER -> banlist

-----------------------------------------------------------------------------
(* Commands under the name of a user: the nick of the server's             *)
(* administrator is saved, and put back a second later                     *)

\* The server: the nick, the one saved, when to put it back, and the votes called.
Server == [nick |-> "admin", saved |-> "", pops |-> {}, votes |-> <<>>]

rcon_adminnick(server, command, nick, now) ==
  [server EXCEPT !.saved = server.nick, !.nick = nick, !.pops = @ \cup {now + 1},
                 !.votes = Append(@, [command |-> command, as |-> nick])]

Melanobot_nick_pop(server, now) ==
  IF \A t \in server.pops : t > now THEN server
  ELSE [server EXCEPT !.nick = server.saved, !.pops = {t \in @ : t > now}]

\* The arguments of the message follow the command, if the handler takes any.
RconCommand(command, arguments, message) ==
  Rcon(IF arguments /\ message # "" THEN <<command, message>> ELSE <<command>>)

-----------------------------------------------------------------------------
(* News of the server                                                      *)

ConnectionEvents(type) ==
  IF type \in {"CONNECTED", "DISCONNECTED"} THEN Say(<<type>>) ELSE <<>>
XonoticJoinPart(type, from, bots) ==
  IF type \in {"JOIN", "PART"} /\ (bots \/ Human(from)) THEN Say(<<type, from>>) ELSE <<>>
XonoticMatchStart(command, empty, users) ==
  IF command = "gamestart" /\ (empty \/ Count(users, Human) > 0) THEN Say(<<command>>) ELSE <<>>
XonoticHostError(admins) ==
  FlattenSeq([i \in DOMAIN admins |-> <<[to |-> admins[i], what |-> <<"SERVER ERROR">>]>>])

\* The handlers of a line of the log: each tells the lines of its own kind.
ParseEventlog(command, kind, line, told) ==
  IF command = "n" /\ line.kind = kind THEN Say(<<kind, told>>) ELSE <<>>

name(users, id) == LET found == SelectSeq(users, LAMBDA u : u.id = id)
                   IN  IF found = <<>> THEN {} ELSE found[1].name
ShowVoteCall(command, line, users) ==
  ParseEventlog(command, "vcall", line, [name |-> name(users, line.id), vote |-> line.vote])
\* Who did not vote is told when all have, and how many are needed when none are.
ShowVoteResult(command, line) ==
  ParseEventlog(command, "result", line,
    [result |-> line.result, yes |-> line.yes, no |-> line.no,
     abstain |-> IF line.abstain + line.novote <= 0 THEN <<line.abstain + line.novote>> ELSE <<>>,
     min |-> IF line.min <= 0 THEN <<line.min>> ELSE <<>>])
ShowVoteStop(command, line, users) ==
  ParseEventlog(command, "vstop", line, [name |-> name(users, line.id)])
\* The messages of these two are not read for placeholders.
ShowVoteLogin(command, line) == ParseEventlog(command, "vlogin", line, "$name")
ShowVoteDo(command, line) == ParseEventlog(command, "vdo", line, "$vote")
ShowRecordSet(command, line, users) ==
  ParseEventlog(command, "recordset", line, [name |-> name(users, line.id), time |-> line.time])

\* The group of the handlers of votes.
ShowVotes(command, line, users) ==
  ShowVoteCall(command, line, users) \o ShowVoteResult(command, line)
    \o ShowVoteStop(command, line, users) \o ShowVoteLogin(command, line) \o ShowVoteDo(command, line)

-----------------------------------------------------------------------------
(* Properties                                                              *)

\* Who is asked for by entity is banned, or kicked, an address is banned, each id is
\* unbanned, and nobody else; the reply says who it is, once, and the bans are listed anew
\* after the command that changes them.  A ban and a kick by name agree on who it is; nothing
\* is claimed of whether that is who was asked for (the test in find_user() is inverted).
BansAsAsked(users, call) ==
  LET did == XonoticBan(users, <<>>, call)
      sent == Sent(did, "rcon")
      said == Sent(did, "chat")
      entities == {u.entity : u \in ToSet(users)}
  IN  /\ call.verb \notin {"", "list"} => Len(said) = 1
      /\ call.verb \in {"", "list", "other"} => sent = <<>>
      /\ sent # <<>> => Last(did) \in ToSet(refresh \o Say(<<"refreshed">>)) /\ Last(sent) = refresh[1]
      /\ call.verb = "rm" =>
           [i \in 1..Len(sent) - 1 |-> sent[i].what[2]] = call.ids
      /\ call.verb = "ip" => sent[1].what[2] = call.what /\ said[1].what[2] = call.what
      /\ call.verb = "player" /\ sent # <<>> =>
           /\ said[1].what[2] = sent[1].what[2]
           /\ call.by = "entity" => sent[1].what[2] = call.what
           /\ call.reason # "" /\ call.time # "" => Last(sent[1].what) = call.reason
           /\ Sent(XonoticKick(users, call), "rcon")[1].what[2] = sent[1].what[2]
      /\ call.verb = "player" /\ call.by = "entity" => (sent = <<>>) = (call.what \notin entities)

\* The bans the bot shows are those of the last listing of the server, when all its lines
\* arrived; when its first line did, none that is not there.
BanListFollows(listings) ==
  LET shown ==
        FoldLeft(LAMBDA list, l :
            FoldLeft(XonoticUpdateBans, list,
                     (IF l.header THEN <<[kind |-> "header"]>> ELSE <<>>)
                       \o SetToSeq({[kind |-> "ban", id |-> i, ip |-> l.bans[i]] :
                                     i \in l.arrived \cap DOMAIN l.bans})),
          <<>>, listings)
      last == Last(listings)
  IN  listings # <<>> /\ last.header =>
        /\ shown # <<>> => Len(Sent(show_bans(shown), "chat")) = Cardinality(DOMAIN shown)
        /\ \A i \in DOMAIN shown : i \in DOMAIN last.bans /\ shown[i] = last.bans[i]
        /\ DOMAIN last.bans \subseteq last.arrived => DOMAIN shown = DOMAIN last.bans

\* Each vote is called in the name of the user who calls it, and the administrator has
\* the own nick back in the end, unless a vote is called within a second of another.
VotesInOwnName(calls) ==
  LET second(server, t) ==
        FoldLeft(LAMBDA s, i : IF calls[i].at = t THEN rcon_adminnick(s, "vcall", calls[i].as, t) ELSE s,
                 Melanobot_nick_pop(server, t), [i \in DOMAIN calls |-> i])
      end == FoldLeft(second, Server, <<1, 2, 3, 4, 5, 6>>)
  IN  (\A i, j \in DOMAIN calls : i < j => calls[i].at + 1 < calls[j].at) =>
        /\ [i \in DOMAIN end.votes |-> end.votes[i].as] = [i \in DOMAIN calls |-> calls[i].as]
        /\ end.nick = Server.nick /\ end.pops = {}

\* Status, scores and the list of players count the same humans; the users a filter finds
\* are among those shown without it, and as many maps are shown as are said to match.
CountsAgree(users, maps, query, max_print) ==
  LET humans == Count(users, Human)
      total(info) == info.active + info.spectators
      status == XonoticStatus(users, "")
      shown == XonoticMaps(maps, query, FALSE, max_print)
  IN  /\ total(status[Len(status) - 1].what[2]) = humans
      /\ total(XonoticScores(users, FALSE, FALSE)[1].what[2]) = humans
      /\ total(UnvanquishedStatus(users, "")[Len(status) - 1].what[2]) = humans
      /\ Len(ListPlayers(users, FALSE)[1].what[2]) = humans
      /\ query # "" =>
           \A l \in ToSet(XonoticStatus(users, query)) \ {Say(<<"no match">>)[1]} : l \in ToSet(status)
      /\ Len(shown) = 2 => Len(shown[2].what[2]) = shown[1].what[2] /\ shown[1].what[2] \in 1..max_print
      /\ Len(shown) = 1 => shown[1].what[2] \notin 1..max_print

\* Who is told to have joined and not to have parted is who the list of players shows;
\* each line of a vote is told once, unless it is no line of the log, with its caller and
\* its result.  Nothing is claimed of the abstentions and the votes that were needed, which
\* are told when there are none (the conditions are inverted).
NewsTold(events, bots) ==
  LET users == FoldLeft(LAMBDA us, e : IF e.type = "JOIN" THEN Append(us, e.from)
                                       ELSE SelectSeq(us, LAMBDA u : u # e.from), <<>>, events)
      told == FlattenSeq([i \in DOMAIN events |-> XonoticJoinPart(events[i].type, events[i].from, bots)])
      here == FoldLeft(LAMBDA us, t : IF t.what[1] = "JOIN" THEN Append(us, t.what[2])
                                      ELSE SelectSeq(us, LAMBDA u : u # t.what[2]), <<>>, told)
  IN  ListPlayers(users, bots) = Say(<<"players", here>>)
VoteTold(command, line, users) ==
  LET told == ShowVotes(command, line, users)
  IN  /\ Len(told) = IF command = "n" /\ line.kind # "recordset" THEN 1 ELSE 0
      /\ told # <<>> /\ line.kind = "vcall" =>
           \A u \in ToSet(users) : u.id = line.id => told[1].what[2].name = u.name
      /\ told # <<>> /\ line.kind = "result" =>
           LET t == told[1].what[2] IN <<t.result, t.yes, t.no>> = <<line.result, line.yes, line.no>>
=============================================================================
