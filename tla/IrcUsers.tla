------------------------------- MODULE IrcUsers -------------------------------
(***************************************************************************)
(* What an IRC connection knows about users and channels: the user_manager *)
(* that IrcConnection::handle_message keeps up to date from JOIN, 353,     *)
(* PART, KICK, QUIT and NICK lines, and that command() and reconnect()     *)
(* consult.  The server is external: it has the real members of every      *)
(* channel, sends the bot a line for each change the bot can see, in       *)
(* order, and `seen` is its state as of the last line that was handled.    *)
(* All lines are handled on irc_in, each under the mutex: one step a line. *)
(***************************************************************************)
EXTENDS Naturals, Sequences, SequencesExt, FiniteSets

CONSTANTS
  Nicks,        \* all nicknames; the bot has one of them
  Preferred,    \* the bot's preferred_nick
  Channels,     \* channel names, as the server spells them
  lower,        \* strtolower on channel names
  MaxEvents,    \* bound: changes on the server
  MaxLines      \* bound: lines on their way to the bot

ASSUME NamesAssumption ==
  /\ Preferred \in Nicks /\ IsFiniteSet(Nicks)
  /\ Channels \subseteq DOMAIN lower
  /\ \A c \in DOMAIN lower : lower[c] \in DOMAIN lower /\ lower[lower[c]] = lower[c]
  /\ {MaxEvents, MaxLines} \subseteq Nat

VARIABLES
  members,       \* server: who is in each channel
  me,            \* server: the bot's nick
  events,        \* changes so far
  lines,         \* on their way to the bot
  users,         \* UserManager::users_
  current_nick,
  scheduled,     \* channels of the JOINs reconnect() scheduled
  seen,          \* history: members and me as of the last line handled
  lost           \* history: the bot has missed a change of its nick

serverVars == <<members, me, events>>
botVars == <<users, current_nick, scheduled>>
history == <<seen, lost>>
vars == <<serverVars, lines, botVars, history>>

Names == DOMAIN lower

Real == [members |-> members', me |-> me']

Line(command, from, channels, arg) ==
  [command |-> command, from |-> from, channels |-> channels, arg |-> arg, real |-> Real]

Init ==
  /\ members \in [Channels -> SUBSET (Nicks \ {Preferred})]
  /\ \A c \in Channels : Cardinality(members[c]) <= 1
  /\ me = Preferred
  /\ events = 0
  /\ lines = <<>>
  /\ users = <<>>
  /\ current_nick = me
  /\ scheduled = {}
  /\ seen = [members |-> members, me |-> me]
  /\ lost = FALSE

-----------------------------------------------------------------------------
(* The server *)

Present == (UNION {members[c] : c \in Channels}) \cup {me}

Shares(n) == \E c \in Channels : {n, me} \subseteq members[c]

Event == events < MaxEvents /\ events' = events + 1

Send(new) ==
  /\ lines' = lines \o new
  /\ Len(lines') <= MaxLines

\* A user joins a channel; the bot is told when it is there itself.
UserJoins(n, c) ==
  /\ Event
  /\ n # me /\ n \notin members[c]
  /\ members' = [members EXCEPT ![c] = @ \cup {n}]
  /\ UNCHANGED me
  /\ Send(IF me \in members[c] THEN <<Line("JOIN", n, {c}, n)>> ELSE <<>>)
  /\ UNCHANGED <<botVars, history>>

\* A user, or the bot, leaves a channel or is kicked from it.
Leaves(n, c, command) ==
  /\ Event
  /\ n \in members[c]
  /\ members' = [members EXCEPT ![c] = @ \ {n}]
  /\ UNCHANGED me
  /\ Send(IF me \in members[c] THEN <<Line(command, n, {c}, n)>> ELSE <<>>)
  /\ UNCHANGED <<botVars, history>>

UserQuits(n) ==
  /\ Event
  /\ n # me /\ n \in Present
  /\ members' = [c \in Channels |-> members[c] \ {n}]
  /\ UNCHANGED me
  /\ Send(IF Shares(n) THEN <<Line("QUIT", n, {}, n)>> ELSE <<>>)
  /\ UNCHANGED <<botVars, history>>

\* A user, or the bot, takes a nick nobody has.
Renames(n, m) ==
  /\ Event
  /\ n \in Present /\ m \notin Present
  /\ members' = [c \in Channels |-> IF n \in members[c] THEN (members[c] \ {n}) \cup {m}
                                    ELSE members[c]]
  /\ me' = IF n = me THEN m ELSE me
  /\ Send(IF Shares(n) \/ n = me THEN <<Line("NICK", n, {}, m)>> ELSE <<>>)
  /\ UNCHANGED <<botVars, history>>

\* What the server does with the JOIN of the bot: it echoes it and sends the
\* names in the channel (353).
AdmitBot(c) ==
  /\ Event
  /\ members' = [members EXCEPT ![c] = @ \cup {me}]
  /\ UNCHANGED me
  /\ Send(IF me \in members[c] THEN <<>>
          ELSE <<Line("JOIN", me, {c}, me), Line("353", me, {c}, members'[c])>>)

-----------------------------------------------------------------------------
(* user_manager *)

\* user(): the first entry with the id; 0 when there is none.
IndexOf(us, id) == SelectInSeq(us, LAMBDA u : u.local_id = id)

Known(us, id) == IndexOf(us, id) # 0

add_user(us, id, channels) == Append(us, [local_id |-> id, channels |-> channels])

remove_user(us, id) == IF Known(us, id) THEN RemoveAt(us, IndexOf(us, id)) ELSE us

Lowered(channels) == {lower[c] : c \in channels}

ChannelsOf(us, id) == us[IndexOf(us, id)].channels

\* Take users out of channels, and out of the list with the last one.
DropChannels(us, id, channels) ==
  IF ~Known(us, id) THEN us
  ELSE IF ChannelsOf(us, id) \subseteq channels THEN remove_user(us, id)
  ELSE [us EXCEPT ![IndexOf(us, id)].channels = @ \ channels]

\* Mutant: the bot's leaving a channel is taken for anybody's.
RemoveOnlyFromChannel(id, channels) == DropChannels(users, id, channels)

\* When it is the bot that leaves, those known to be in the channel are taken out of it
\* one after the other, and out of the list with the last channel, by their id.
EmptyChannel(us, channels) ==
  LET left[n \in 0..Len(us)] ==
        IF n = 0 THEN <<>>
        ELSE LET rest == [us[n] EXCEPT !.channels = @ \ channels]
             IN  IF rest.channels = {} /\ us[n].channels # {}
                 THEN remove_user(Append(left[n - 1], rest), rest.local_id)
                 ELSE Append(left[n - 1], rest)
  IN  left[Len(us)]

\* remove_from_channel.
RemoveFromChannel(id, channels) ==
  IF id = current_nick THEN EmptyChannel(users, channels) ELSE DropChannels(users, id, channels)

\* Mutant: names already known are added again.
AddNamesTwice(names, channel) ==
  users \o SetToSeq({[local_id |-> n, channels |-> {lower[channel]}] : n \in names})

\* 353: the unknown names are added; each gets the channel.
AddNames(names, channel) ==
  LET old == [i \in DOMAIN users |->
                IF users[i].local_id \in names
                THEN [users[i] EXCEPT !.channels = @ \cup {lower[channel]}] ELSE users[i]]
      new == {n \in names : ~Known(users, n)}
  IN  old \o SetToSeq({[local_id |-> n, channels |-> {lower[channel]}] : n \in new})

\* JOIN: a new user gets the channels of the line, spelt as they are; a known one
\* gets, in lower case, the channels it had (msg.from was overwritten with the
\* known user, so they are not those of the line).
AddJoined(id, channels) ==
  IF ~Known(users, id) THEN add_user(users, id, channels)
  ELSE [users EXCEPT ![IndexOf(users, id)].channels = @ \cup Lowered(@)]

Renamed(old, new) ==
  IF Known(users, old) THEN [users EXCEPT ![IndexOf(users, old)].local_id = new] ELSE users

-----------------------------------------------------------------------------
(* handle_message *)

Receive(command) ==
  /\ lines # <<>>
  /\ Head(lines).command = command
  /\ lines' = Tail(lines)
  /\ seen' = Head(lines).real
  /\ UNCHANGED <<serverVars, scheduled>>

HandleJoin ==
  /\ Receive("JOIN")
  /\ users' = AddJoined(Head(lines).from, Head(lines).channels)
  /\ UNCHANGED <<current_nick, lost>>

HandleNames ==
  /\ Receive("353")
  /\ users' = AddNames(Head(lines).arg, CHOOSE c \in Head(lines).channels : TRUE)
  /\ UNCHANGED <<current_nick, lost>>

HandlePart ==
  /\ Receive("PART")
  /\ users' = RemoveFromChannel(Head(lines).from, Head(lines).channels)
  /\ UNCHANGED <<current_nick, lost>>

\* Mutant: the one who kicks leaves.
HandleKickOfKicker ==
  /\ Receive("KICK")
  /\ users' = RemoveFromChannel(CHOOSE n \in Nicks \ {Head(lines).arg} : TRUE, Head(lines).channels)
  /\ UNCHANGED <<current_nick, lost>>

HandleKick ==
  /\ Receive("KICK")
  /\ users' = RemoveFromChannel(Head(lines).arg, Head(lines).channels)
  /\ UNCHANGED <<current_nick, lost>>

\* QUIT of another: the user is removed; if it had the preferred nick, the bot asks
\* for it (Renames may answer; command() sends it only when it is not the bot's).
HandleQuit ==
  /\ Receive("QUIT")
  /\ users' = remove_user(users, Head(lines).from)
  /\ UNCHANGED <<current_nick, lost>>

\* Mutant: the bot looks for its nick among the new ones.
HandleNickTooLate ==
  /\ Receive("NICK")
  /\ users' = Renamed(Head(lines).from, Head(lines).arg)
  /\ current_nick' = IF Known(users', current_nick) /\ Head(lines).from = current_nick
                     THEN Head(lines).arg ELSE current_nick
  /\ lost' = (lost \/ current_nick' # seen'.me)

\* NICK: ignored altogether when the sender is not in the list, as the bot is not
\* while it is in no channel.
HandleNick ==
  /\ Receive("NICK")
  /\ users' = Renamed(Head(lines).from, Head(lines).arg)
  /\ current_nick' = IF Known(users, Head(lines).from) /\ Head(lines).from = current_nick
                     THEN Head(lines).arg ELSE current_nick
  /\ lost' = (lost \/ current_nick' # seen'.me)

-----------------------------------------------------------------------------
(* The commands and reconnect() *)

\* command(JOIN): not sent when the bot's own user is known to be there; sent, it
\* is what the server admits.
CommandJoin(c) ==
  /\ ~(Known(users, current_nick) /\ lower[c] \in ChannelsOf(users, current_nick))
  /\ AdmitBot(c)
  /\ UNCHANGED <<botVars, history>>

\* command(PART): not sent when the bot's own user is known not to be there.
CommandPart(c) ==
  /\ Known(users, current_nick) => lower[c] \in ChannelsOf(users, current_nick)
  /\ Leaves(me, c, "PART")

\* reconnect(): the channels of the bot's own user are to be joined again, the
\* rest is forgotten; the server gives the bot its preferred nick, or any other.
Reconnect ==
  /\ Event
  /\ scheduled' = IF Known(users, current_nick) THEN ChannelsOf(users, current_nick) ELSE {}
  /\ users' = <<>>
  /\ lines' = <<>>
  /\ members' = [c \in Channels |-> members[c] \ {me}]
  /\ \E n \in Nicks \ (Present \ {me}) :
       /\ me' = n /\ current_nick' = n
  /\ seen' = Real
  /\ lost' = FALSE

\* 002 after it: the scheduled JOINs.
Rejoin(c) ==
  /\ lower[c] \in scheduled
  /\ scheduled' = scheduled \ {lower[c]}
  /\ AdmitBot(c)
  /\ UNCHANGED <<users, current_nick, history>>

-----------------------------------------------------------------------------
Handle ==
  \/ HandleJoin \/ HandleNames \/ HandlePart \/ HandleKick \/ HandleQuit \/ HandleNick

Next ==
  \/ \E n \in Nicks, c \in Channels :
       UserJoins(n, c) \/ (n # me /\ Leaves(n, c, "PART")) \/ Leaves(n, c, "KICK")
  \/ \E n \in Nicks : UserQuits(n) \/ \E m \in Nicks : Renames(n, m)
  \/ Handle
  \/ \E c \in Channels : CommandJoin(c) \/ CommandPart(c) \/ Rejoin(c)
  \/ Reconnect

Spec == Init /\ [][Next]_vars

-----------------------------------------------------------------------------
\* The names the bot is sent with its own JOIN are still to come.
NamesPending(c) == \E i \in DOMAIN lines : lines[i].command = "353" /\ c \in lines[i].channels

\* Nobody is in the list twice: user() finds the first entry only, so a second one
\* would outlive every PART, KICK, QUIT and NICK of its user.  (A bot that has missed a
\* change of its nick keeps ghosts when it leaves a channel, and a user who takes the nick
\* of a ghost is in the list twice: until it reconnects.)
UsersAreUnique ==
  ~lost => \A i, j \in DOMAIN users : users[i].local_id = users[j].local_id => i = j

\* The bot in a channel knows it: what command() checks before it joins and parts,
\* and what reconnect() joins again.
KnowsItself ==
  ~lost =>
    /\ current_nick = seen.me
    /\ \A c \in Channels : ~NamesPending(c) =>
         (seen.me \in seen.members[c]) =
           (Known(users, current_nick) /\ lower[c] \in ChannelsOf(users, current_nick))

\* A change of the bot's nick is missed only by a bot that is in no channel.
FollowsItsNick == [][ lost' /\ ~lost => \A c \in Channels : seen.me \notin seen.members[c] ]_vars

\* No ghosts: whoever the bot has in a channel is there, and so is the bot; and who is
\* in no channel any more is not in the list.
NoGhosts ==
  ~lost =>
    \A i \in DOMAIN users :
      /\ users[i].channels # {}
      /\ \A c \in Channels :
           lower[c] \in users[i].channels =>
             users[i].local_id \in seen.members[c] /\ seen.me \in seen.members[c]

\* src/network/connection.hpp:189, of get_users: "the users in the given channel".
KnowsTheOthers ==
  \A c \in Channels :
    ~lost /\ seen.me \in seen.members[c] /\ ~NamesPending(c) =>
      \A n \in seen.members[c] : Known(users, n) /\ lower[c] \in ChannelsOf(users, n)
=============================================================================
