------------------------------ MODULE Unvanquished ------------------------------
(***************************************************************************)
(* The connection to an Unvanquished server (unvanquished-connection.cpp,  *)
(* daemon.cpp): the players and the maps the bot knows of.  The server     *)
(* logs nothing by itself: the bot polls, and tells of who has joined and  *)
(* parted from the difference between two answers.  The answers are lines  *)
(* that may be lost; who talks on the server appears between them.         *)
(*                                                                         *)
(* The server is external: it executes the commands in their order, and a  *)
(* command or an answer is on its way until it is handled or lost.  The    *)
(* requests and challenges of an encrypted rcon are in module XonoticLink; *)
(* nothing is sent by an encrypted one here (daemon.cpp, \todo).           *)
(***************************************************************************)
EXTENDS Naturals, FiniteSets, Sequences, SequencesExt

CONSTANTS
  Players,      \* who may play; a player's local_id is who they are
  Maps,        \* the maps of the server, in its order
  Garbage,     \* values map_checking may have before it is set
  MaxChanges,  \* bound: joins, parts and lines of chat
  MaxRounds,    \* bound: polls of the status
  MaxMishaps    \* bound: lines and commands lost, and network errors

ASSUME UnvanquishedAssumption ==
  Maps \in Seq(STRING) /\ Garbage \subseteq Nat /\ {MaxChanges, MaxRounds, MaxMishaps} \subseteq Nat

VARIABLES
  playing,     \* the server: the players
  changes,     \* joins, parts and lines of chat so far
  listed,      \* the players of the last status
  link,        \* status_
  polling,     \* status_polling is running
  present,     \* user_manager: the users
  unchecked,   \* those whose "checked" is false
  told,        \* the players the messages JOIN and PART tell of
  mapsKnown,   \* maps_
  mapsLeft,    \* map_checking
  toServer, toBot,
  rounds,      \* polls so far
  mishaps,     \* losses so far
  sure         \* since a poll began with nothing on its way, nothing was lost

worldVars == <<playing, changes, listed>>
botSideVars == <<link, polling, present, unchecked, told, mapsKnown, mapsLeft>>
unvVars == <<worldVars, botSideVars, toServer, toBot, rounds, mishaps, sure>>

UnvInit ==
  /\ playing = {} /\ changes = 0 /\ listed = {}
  /\ link = "DISCONNECTED" /\ polling = FALSE /\ present = {} /\ unchecked = {} /\ told = {}
  /\ mapsKnown = <<>> /\ mapsLeft \in Garbage
  /\ toServer = <<>> /\ toBot = <<>> /\ rounds = 0 /\ mishaps = 0 /\ sure = FALSE

-----------------------------------------------------------------------------
(* The server                                                              *)

Line(type, what) == [type |-> type, what |-> what]

Change == changes < MaxChanges /\ changes' = changes + 1

Plays(p) ==
  /\ Change /\ playing' = IF p \in playing THEN playing \ {p} ELSE playing \cup {p}
  /\ UNCHANGED <<listed, botSideVars, toServer, toBot, rounds, mishaps, sure>>

Chats ==
  /\ Change /\ link # "DISCONNECTED" /\ toBot' = Append(toBot, Line("chat", 0))
  /\ UNCHANGED <<playing, listed, botSideVars, toServer, rounds, mishaps, sure>>

Reply(command) ==
  LET here == SetToSeq(playing) IN
  CASE command = "rconinfo" -> <<Line("rconInfoResponse", 0)>>
    [] command = "status" ->
         <<Line("begin", 0)>> \o [i \in DOMAIN here |-> Line("player", here[i])] \o <<Line("end", 0)>>
    [] command = "listmaps" ->
         <<Line("listing", Len(Maps))>> \o [i \in DOMAIN Maps |-> Line("map", Maps[i])]

ServerReplies ==
  /\ toServer # <<>> /\ toServer' = Tail(toServer)
  /\ toBot' = toBot \o Reply(Head(toServer))
  /\ listed' = IF Head(toServer) = "status" THEN playing ELSE listed
  /\ UNCHANGED <<playing, changes, botSideVars, rounds, mishaps, sure>>

-----------------------------------------------------------------------------
(* connect(), request_status()                                             *)

\* connect() and on_connect(): the users are cleared, and nobody is told that they have
\* gone.
Connected ==
  /\ link = "DISCONNECTED" /\ link' = "CONNECTING"
  /\ present' = {} /\ unchecked' = {} /\ told' = {}
  /\ toServer' = <<"rconinfo">>

ConnectUnv ==
  /\ ~polling /\ Connected
  /\ UNCHANGED <<worldVars, polling, mapsKnown, mapsLeft, toBot, rounds, mishaps, sure>>

\* The timer: commands are sent with the mutex held.
PollStatus ==
  /\ polling /\ rounds < MaxRounds /\ rounds' = rounds + 1
  /\ IF link = "DISCONNECTED"
     THEN Connected /\ UNCHANGED sure
     ELSE /\ link' = "CHECKING" /\ toServer' = Append(toServer, "status")
          /\ sure' = (sure \/ (toServer = <<>> /\ toBot = <<>>))
          /\ UNCHANGED <<present, unchecked, told>>
  /\ UNCHANGED <<worldVars, polling, mapsKnown, mapsLeft, toBot, mishaps>>

-----------------------------------------------------------------------------
(* on_receive(), on_receive_log()                                          *)

\* The startup commands are sent, then a poll begins, and the timer.
RconInfo(line) ==
  /\ line.type = "rconInfoResponse"
  /\ toServer' = toServer \o <<"listmaps", "status">>
  /\ link' = "CHECKING" /\ polling' = TRUE
  /\ UNCHANGED <<present, unchecked, told, mapsKnown, mapsLeft>>

Begin(line) ==
  /\ line.type = "begin"
  /\ unchecked' = present /\ link' = "CHECKING"
  /\ UNCHANGED <<polling, present, told, mapsKnown, mapsLeft, toServer>>

Listed(line) ==
  /\ line.type = "player" /\ link = "CHECKING"
  /\ present' = present \cup {line.what} /\ unchecked' = unchecked \ {line.what}
  /\ told' = told \cup (present' \ present)
  /\ UNCHANGED <<link, polling, mapsKnown, mapsLeft, toServer>>

\* Mutant: who has gone stays marked as such.
EndUnswept(line) ==
  /\ line.type = "end" /\ link = "CHECKING"
  /\ present' = present \ unchecked /\ told' = told \ unchecked
  /\ UNCHANGED unchecked /\ link' = "CONNECTED"
  /\ UNCHANGED <<polling, mapsKnown, mapsLeft, toServer>>

End(line) ==
  /\ line.type = "end" /\ link = "CHECKING"
  /\ present' = present \ unchecked /\ told' = told \ unchecked
  /\ unchecked' = {} /\ link' = "CONNECTED"
  /\ UNCHANGED <<polling, mapsKnown, mapsLeft, toServer>>

\* Outside of a poll any line but the first of a status is taken for a map while maps are
\* still to come.
Outside(line) ==
  /\ line.type \notin {"rconInfoResponse", "begin"} /\ link # "CHECKING"
  /\ IF mapsLeft > 0
     THEN mapsKnown' = Append(mapsKnown, line.what) /\ mapsLeft' = mapsLeft - 1
     ELSE IF line.type = "listing" THEN mapsKnown' = <<>> /\ mapsLeft' = line.what
                                 ELSE UNCHANGED <<mapsKnown, mapsLeft>>
  /\ UNCHANGED <<link, polling, present, unchecked, told, toServer>>

\* In a poll what is not part of the status is passed on, and nothing else.
Ignored(line) ==
  /\ line.type \in {"chat", "listing", "map"} /\ link = "CHECKING"
  /\ UNCHANGED <<botSideVars, toServer>>

ReceiveLine ==
  /\ toBot # <<>> /\ toBot' = Tail(toBot) /\ link # "DISCONNECTED"
  /\ LET line == Head(toBot) IN
       RconInfo(line) \/ Begin(line) \/ Listed(line) \/ End(line) \/ Outside(line) \/ Ignored(line)
  /\ UNCHANGED <<worldVars, rounds, mishaps, sure>>

-----------------------------------------------------------------------------
Mishap == mishaps < MaxMishaps /\ mishaps' = mishaps + 1 /\ sure' = FALSE

LineLost ==
  /\ Mishap /\ toBot # <<>> /\ toBot' = Tail(toBot)
  /\ UNCHANGED <<worldVars, botSideVars, toServer, rounds>>

CommandLost ==
  /\ Mishap /\ toServer # <<>> /\ toServer' = Tail(toServer)
  /\ UNCHANGED <<worldVars, botSideVars, toBot, rounds>>

\* on_network_error()
LinkFails ==
  /\ Mishap /\ link # "DISCONNECTED" /\ link' = "DISCONNECTED"
  /\ toServer' = <<>> /\ toBot' = <<>>
  /\ UNCHANGED <<worldVars, polling, present, unchecked, told, mapsKnown, mapsLeft, rounds>>

UnvNext ==
  \/ \E p \in Players : Plays(p)
  \/ Chats \/ ServerReplies \/ ConnectUnv \/ PollStatus \/ ReceiveLine
  \/ LineLost \/ CommandLost \/ LinkFails

UnvSpec == UnvInit /\ [][UnvNext]_unvVars

-----------------------------------------------------------------------------
UnvTypeOK ==
  /\ playing \subseteq Players /\ present \subseteq Players /\ unchecked \subseteq present
  /\ link \in {"DISCONNECTED", "CONNECTING", "CHECKING", "CONNECTED"}
  /\ mapsLeft \in Nat /\ {polling, sure} \subseteq BOOLEAN

Quiescent == toServer = <<>> /\ toBot = <<>>

\* A poll repairs the bot's picture, whatever was lost before it and whatever other polls
\* overlap it: when nothing is left on its way, the users are the players of the last
\* answer, and the joins and parts that were told of make up the same set.
KnowsThePlayers == sure /\ Quiescent => present = listed /\ told = listed
=============================================================================
