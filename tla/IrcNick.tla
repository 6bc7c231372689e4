-------------------------------- MODULE IrcNick --------------------------------
(***************************************************************************)
(* How the bot comes by its nick on IRC, and goes back to the one it       *)
(* prefers (connection.cpp: login(), command(NICK), 001, 005, 433, NICK    *)
(* and QUIT).  It asks for a nick, and while the answer is on its way an   *)
(* administrator may ask for another one, users come and go, and the link  *)
(* may be lost.                                                            *)
(*                                                                         *)
(* The server is external: it refuses a nick another user has, and cuts    *)
(* one that is too long, which it says (005) when it has welcomed the bot. *)
(* A nick is [base, tail], the tail being the "_" at its end.              *)
(***************************************************************************)
EXTENDS Naturals, Sequences

CONSTANTS
  Configured,    \* "nick" in the settings, without a tail
  Wanted,        \* what an administrator may ask for, without a tail
  Longest,       \* NICKLEN: the longest tail the server takes
  MaxNickEvents  \* bound: nicks taken and left by others, commands and lost links

\* Nobody asks for an empty nick (command(NICK) is "Ill-formed" then).
ASSUME NickAssumption ==
  {Longest, MaxNickEvents} \subseteq Nat /\ "" \notin Wanted \cup {Configured}

VARIABLES
  others,      \* the server: the nicks of other users
  given,       \* the server: the bot's nick; NoNick before it is welcomed
  session,     \* connection_status
  preferred, attempted, current,  \* preferred_nick, attempted_nick, current_nick
  nicklen,     \* "005.NICKLEN" is known
  inList,      \* the bot is in its list of users: it is in a channel
  asks,        \* NICK commands on their way to the server
  answers,     \* lines on their way to the bot
  nickEvents,
  missed       \* the bot has not followed a change of its nick

nickVars == <<others, given, session, preferred, attempted, current, nicklen, inList, asks,
              answers, nickEvents, missed>>

Nick(base, tail) == [base |-> base, tail |-> tail]
NoNick == Nick("", 0)
Bases == Wanted \cup {Configured}
NickLine(what, from, to) == [what |-> what, from |-> from, to |-> to]
Cut(n) == IF n.tail > Longest THEN [n EXCEPT !.tail = Longest] ELSE n

NickInit ==
  /\ others \in SUBSET {Nick(Configured, t) : t \in 0..Longest}
  /\ given = NoNick /\ session = "DISCONNECTED"
  /\ preferred = Nick(Configured, 0) /\ attempted = NoNick /\ current = NoNick
  /\ nicklen = FALSE /\ inList = FALSE /\ asks = <<>> /\ answers = <<>>
  /\ nickEvents = 0 /\ missed = FALSE

NickEvent == nickEvents < MaxNickEvents /\ nickEvents' = nickEvents + 1

-----------------------------------------------------------------------------
(* The bot                                                                 *)

\* What becomes of preferred_nick when n is asked for: a nick asked for while no other
\* attempt is open is a wish, and not a way round a refusal.
Prefer(n) == IF attempted = NoNick THEN n ELSE preferred

\* command(NICK): cut, and sent unless the bot has it already.
AskNick(n) ==
  LET new == IF nicklen THEN Cut(n) ELSE n
  IN  IF new = current THEN UNCHANGED <<preferred, attempted, asks>>
      ELSE /\ preferred' = Prefer(new) /\ attempted' = new
           /\ asks' = Append(asks, new)

NoAsk == UNCHANGED <<preferred, attempted, asks>>

\* connect() and login()
LogIn ==
  /\ session = "DISCONNECTED" /\ session' = "CONNECTING"
  /\ AskNick(preferred)
  /\ UNCHANGED <<others, given, current, nicklen, inList, answers, nickEvents, missed>>

\* The command "nick" of an administrator.
AdminAsks(base) ==
  /\ session = "CONNECTED" /\ NickEvent
  /\ AskNick(Nick(base, 0))
  /\ UNCHANGED <<others, given, session, current, nicklen, inList, answers, missed>>

\* The link is lost, and disconnect() forgets all but what the bot wants; commands that
\* were not written yet stay in the buffer.
LinkLost ==
  /\ session # "DISCONNECTED" /\ session' = "DISCONNECTED" /\ NickEvent
  /\ \E written \in 0..Len(asks) : asks' = SubSeq(asks, written + 1, Len(asks))
  /\ given' = NoNick /\ answers' = <<>>
  /\ current' = NoNick /\ nicklen' = FALSE /\ inList' = FALSE /\ missed' = FALSE
  /\ UNCHANGED <<others, preferred, attempted>>

Read(what) ==
  /\ answers # <<>> /\ Head(answers).what = what /\ answers' = Tail(answers)
  /\ UNCHANGED <<others, given, nickEvents>>

\* 001
Welcome ==
  /\ Read("001") /\ session' = "CONNECTED" /\ current' = Head(answers).to
  /\ NoAsk /\ UNCHANGED <<nicklen, inList, missed>>

\* 005, and the JOIN of the bot in a channel.
Supported ==
  /\ Read("005") /\ nicklen' = TRUE
  /\ NoAsk /\ UNCHANGED <<session, current, inList, missed>>
Joined ==
  /\ Read("JOIN") /\ inList' = TRUE
  /\ NoAsk /\ UNCHANGED <<session, current, nicklen, missed>>

\* 433: if it is the last nick asked for, another one is tried.
NickRefused ==
  /\ Read("433")
  /\ IF attempted = Head(answers).to
     THEN AskNick(Nick(attempted.base, attempted.tail + 1))
     ELSE NoAsk
  /\ UNCHANGED <<session, current, nicklen, inList, missed>>

\* NICK of the bot: not followed while it is in no channel.
Renamed ==
  /\ Read("NICK")
  /\ IF inList /\ Head(answers).from = current
     THEN current' = Head(answers).to /\ attempted' = NoNick /\ UNCHANGED missed
     ELSE missed' = TRUE /\ UNCHANGED <<current, attempted>>
  /\ UNCHANGED <<session, preferred, nicklen, inList, asks>>

\* QUIT of another, in a channel the bot is in: the bot asks for the nick it prefers.
NickIsFree ==
  /\ Read("QUIT")
  /\ IF Head(answers).from = preferred THEN AskNick(preferred) ELSE NoAsk
  /\ UNCHANGED <<session, current, nicklen, inList, missed>>

BotReads == Welcome \/ Supported \/ Joined \/ NickRefused \/ Renamed \/ NickIsFree

-----------------------------------------------------------------------------
(* The server                                                              *)

ServerAnswers ==
  /\ session # "DISCONNECTED" /\ asks # <<>> /\ asks' = Tail(asks)
  /\ LET n == Cut(Head(asks)) IN
       /\ given' = IF n \in others THEN given ELSE n
       /\ answers' = answers \o
            CASE n \in others -> <<NickLine("433", NoNick, n)>>
              [] n \notin others /\ given = NoNick -> <<NickLine("001", NoNick, n), NickLine("005", NoNick, n)>>
              [] n \notin others /\ given = n -> <<>>
              [] OTHER -> <<NickLine("NICK", given, n)>>
  /\ UNCHANGED <<others, session, preferred, attempted, current, nicklen, inList, nickEvents, missed>>

\* The bot joins its channel.
BotJoins ==
  /\ session = "CONNECTED" /\ nicklen /\ ~inList
  /\ \A i \in DOMAIN answers : answers[i].what # "JOIN"
  /\ answers' = Append(answers, NickLine("JOIN", NoNick, NoNick))
  /\ UNCHANGED <<others, given, session, preferred, attempted, current, nicklen, inList, asks,
                 nickEvents, missed>>

OtherTakes(n) ==
  /\ NickEvent /\ n # given /\ others' = others \cup {n} /\ n \notin others
  /\ UNCHANGED <<given, session, preferred, attempted, current, nicklen, inList, asks, answers, missed>>

\* The bot sees it only if they are in the same channel.
OtherQuits(n) ==
  /\ NickEvent /\ n \in others /\ others' = others \ {n}
  /\ answers' \in {answers} \cup IF inList THEN {Append(answers, NickLine("QUIT", n, NoNick))} ELSE {}
  /\ UNCHANGED <<given, session, preferred, attempted, current, nicklen, inList, asks, missed>>

NickNext ==
  \/ LogIn \/ LinkLost \/ BotReads \/ ServerAnswers \/ BotJoins
  \/ \E base \in Wanted : AdminAsks(base)
  \/ \E base \in Bases : OtherTakes(Nick(base, 0)) \/ OtherQuits(Nick(base, 0))

NickSpec == NickInit /\ [][NickNext]_nickVars

-----------------------------------------------------------------------------
NickTypeOK ==
  /\ \A n \in others \cup {given, preferred, attempted, current} : n.base \in Bases \cup {""} /\ n.tail \in Nat
  /\ session \in {"DISCONNECTED", "CONNECTING", "CONNECTED"} /\ {nicklen, inList, missed} \subseteq BOOLEAN
  /\ nickEvents \in 0..MaxNickEvents

\* The bot knows its nick when it has read all the lines, unless it was in no channel when
\* the nick changed; and the nick it goes back to is the configured one or one it was asked
\* to take, never one that it only made up when those were refused.
KnowsItsNick ==
  /\ session = "CONNECTED" /\ answers = <<>> /\ ~missed => current = given
  /\ preferred.tail = 0

\* Another try is the same nick again, which is taken, for ever: the "_" is cut off.
Storm == nicklen /\ attempted \in others /\ attempted.tail = Longest
\* ... and before the length is known, the refusal is about another nick than the one tried.
TooLong == session = "CONNECTING" /\ attempted.tail > Longest

\* The bot is welcomed whoever has its nick, and no question about a nick goes on for ever,
\* but for these two ways.
NickSettles ==
  /\ (session = "CONNECTING") ~> (session # "CONNECTING" \/ TooLong)
  /\ []<>((asks = <<>> /\ answers = <<>>) \/ session = "DISCONNECTED" \/ Storm)
==============================================================================
