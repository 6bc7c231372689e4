-------------------------------- MODULE IrcLines --------------------------------
(***************************************************************************)
(* What the bot says on IRC as the line it writes, and what a bot makes of *)
(* such a line when it reads it (connection.cpp: say() and PRIVMSG;        *)
(* buffer.cpp: write(), write_line(), parse_line()); and the pace at which *)
(* the lines of the queue are written.  Only functions: MCTexts checks     *)
(* them.  Texts are sequences of characters; their colours are of Formats. *)
(***************************************************************************)
EXTENDS Integers, Sequences, SequencesExt

Breaks == {"LF", "CR", "NUL"}
CTCP == "^A"
Nothing == [kind |-> "", direct |-> FALSE, channel |-> <<>>, text |-> <<>>]

Without(s, chars) == SelectSeq(s, LAMBDA c : c \notin chars)
Word(s) == LET end == SelectInSeq(s, LAMBDA c : c = " ") IN IF end = 0 THEN s ELSE SubSeq(s, 1, end - 1)
After(s, n) == SubSeq(s, n + 1, Len(s))
Trim(s) == After(s, SelectInSeq(s \o <<"">>, LAMBDA c : c # " ") - 1)

-----------------------------------------------------------------------------
(* Writing                                                                 *)

\* What say() makes of a message: the words of a command.
say(message, private_notice) ==
  LET sender == CASE message.from = <<>> -> <<>>
                  [] message.from # <<>> /\ message.action -> <<"*", " ">> \o message.from \o <<" ">>
                  [] OTHER -> <<"<">> \o message.from \o <<">", " ">>
      text == sender \o message.text
      notice == private_notice /\ message.target[1] # "#"
  IN  <<IF notice THEN <<"NOTICE">> ELSE <<"PRIVMSG">>, message.target,
        IF message.action /\ message.from = <<>>
        THEN <<CTCP, "ACTION", " ">> \o text \o <<CTCP>> ELSE text>>

\* command(PRIVMSG): nothing is sent that is empty, or to the bot itself.
sendable(words, nick) == words[3] # <<>> /\ words[2] # nick

\* Only the last word may have spaces, and only then it is marked.
write(words) ==
  LET mark(i) == IF i = 1 THEN <<>>
                 ELSE IF i = Len(words) /\ " " \in ToSet(words[i]) THEN <<" ", ":">> ELSE <<" ">>
  IN  FlattenSeq([i \in DOMAIN words |-> mark(i) \o words[i]])

\* The line ends where it is too long, one character before the limit.
write_line(line, max_length) ==
  LET one == Without(line, Breaks)
  IN  IF Len(one) > max_length THEN SubSeq(one, 1, max_length - 1) ELSE one

-----------------------------------------------------------------------------
(* Reading                                                                 *)

RECURSIVE Params(_)
Params(rest) ==
  LET s == Trim(rest) IN
  IF s = <<>> THEN <<>>
  ELSE IF s[1] = ":" THEN <<Tail(s)>>
  ELSE <<Word(s)>> \o Params(After(s, Len(Word(s))))

parse_line(line) ==
  LET prefixed == line # <<>> /\ line[1] = ":"
      from == IF prefixed THEN Word(Trim(Tail(line))) ELSE <<>>
      rest == Trim(IF prefixed THEN After(Trim(Tail(line)), Len(from)) ELSE line)
  IN  [from |-> from, command |-> Word(rest), params |-> Params(After(rest, Len(Word(rest))))]

\* A CTCP request in a text: <<what, argument>>, empty unless the text is one and no more.
ctcp(text) ==
  LET inner == SubSeq(text, 2, Len(text) - 1)
      what == Word(inner)
      argument == After(inner, Len(what) + 1)
  IN  IF /\ Len(text) > 2 /\ Last(text) = CTCP /\ CTCP \notin ToSet(inner)
         /\ what # <<>> /\ (what = inner \/ argument # <<>>)
      THEN <<what, argument>> ELSE <<<<>>, <<>>>>

\* What is addressed to the bot in a channel, with its nick before it; empty if nothing is.
direct(text, nick) ==
  LET rest == After(text, Len(nick) + 1)
  IN  IF /\ IsPrefix(nick, text) /\ Len(text) > Len(nick) /\ text[Len(nick) + 1] \in {":", ","}
         /\ rest # <<>> /\ rest[1] = " "
      THEN IF Trim(rest) # <<>> THEN Trim(rest) ELSE IF Len(rest) > 1 THEN <<" ">> ELSE <<>>
      ELSE <<>>

\* PRIVMSG, as the bot called nick hears it.
PrivMsg(msg, nick) ==
  LET target == msg.params[1]
      text == msg.params[2]
      own == target = nick
      request == ctcp(text)
      addressed == direct(text, nick)
      heard(kind, is_direct, said) ==
        [kind |-> kind, direct |-> is_direct,
         channel |-> IF own THEN msg.from ELSE target, text |-> said]
  IN  IF msg.command # <<"PRIVMSG">> \/ Len(msg.params) # 2 \/ text = <<>> \/ msg.from = nick THEN Nothing
      ELSE IF text[1] = CTCP
      THEN heard(IF request[1] = <<"ACTION">> THEN "ACTION" ELSE "CTCP", own, request[2])
      ELSE IF addressed # <<>> THEN heard("CHAT", TRUE, addressed)
      ELSE heard("CHAT", own, text)

-----------------------------------------------------------------------------
(* The pace                                                                *)

Forever == 1000

\* What a line of so many characters adds to the timer.
Cost(flood, size) ==
  flood.penalty + IF flood.bytes > 0 THEN size \div flood.bytes ELSE 0

\* process(): one command of the queue, which came at its time; what has been written so
\* far is in out.  The command is dropped if it is too late when the waiting is over.
process(state, command, flood) ==
  LET now == IF state.now < command.at THEN command.at ELSE state.now
      over == state.timer - (now + flood.max)
      sleep == IF over + flood.penalty <= 0 THEN 0
               ELSE IF over > flood.penalty THEN over ELSE flood.penalty
      then == now + sleep
      timer == IF state.timer < then THEN then ELSE state.timer
  IN  IF command.timeout < then THEN [state EXCEPT !.now = then]
      ELSE [now |-> then, timer |-> timer + Cost(flood, command.size),
            out |-> Append(state.out, [at |-> then, command |-> command])]

Written(commands, flood) ==
  FoldLeft(LAMBDA state, command : process(state, command, flood),
           [now |-> 0, timer |-> 0, out |-> <<>>], commands).out

-----------------------------------------------------------------------------
\* What is said is one line within the limit, and is heard where it is said, as it is said
\* and by another bot as what it is; but for a text that begins with ":" and has no space,
\* which loses that, and one that a nick or the mark of CTCP makes another kind of message.
\* A notice is not heard,
\* and what the bot would say to itself not said.
SaidIsHeard(message, private_notice, max_length, listener) ==
  LET words == say(message, private_notice)
      line == write_line(write(words), max_length)
      msg == parse_line(<<":", "bot", " ">> \o line)
      heard == IF sendable(words, <<"bot">>) THEN PrivMsg(msg, listener) ELSE Nothing
      text == Without(message.text, Breaks)
      plain == ~message.action /\ message.from = <<>>
      fits == Len(Without(write(words), Breaks)) <= max_length
      asRequest == plain /\ text # <<>> /\ text[1] = CTCP
      called == plain /\ direct(text, listener) # <<>>
      unmarked == plain /\ text # <<>> /\ text[1] = ":" /\ " " \notin ToSet(text)
      spoken == words[1] = <<"PRIVMSG">> /\ message.target # <<"bot">>
  IN  /\ Len(line) <= max_length /\ ToSet(line) \cap Breaks = {}
      /\ ~spoken => heard = Nothing
      /\ fits /\ spoken /\ ~asRequest /\ ~called /\ ~unmarked /\ text # <<>>
           => /\ heard.direct = (message.target = listener)
              /\ heard.channel = IF heard.direct THEN <<"bot">> ELSE message.target
              /\ message.from = <<>> /\ message.action /\ CTCP \notin ToSet(text)
                   => heard.kind = "ACTION" /\ heard.text = text
              /\ plain => heard.kind = "CHAT" /\ heard.text = text
              /\ message.from # <<>> => heard.kind = "CHAT" /\ IsSuffix(text, heard.text)

\* A server that counts like the bot finds the timer no more than the maximum ahead at any
\* line; no line is too late, those that have the time are all written, in the order of the
\* queue, and none waits longer than the others before it cost, and once the penalty, if
\* that is not beyond the maximum.
PaceIsKept(commands, flood) ==
  LET out == Written(commands, flood)
      spent(i, j) == FoldLeft(LAMBDA n, k : n + Cost(flood, out[k].command.size), 0,
                              [k \in 1..j - i |-> i + k - 1])
      patient(c) == c.timeout = Forever
  IN  /\ \A i, j \in DOMAIN out : i < j => spent(i, j) <= out[j].at - out[i].at + flood.max
      /\ \A i \in DOMAIN out : out[i].at <= out[i].command.timeout
      /\ SelectSeq([i \in DOMAIN out |-> out[i].command], patient) = SelectSeq(commands, patient)
      /\ \A j \in DOMAIN out : flood.penalty <= flood.max => \E i \in 1..j :
           out[j].at <= out[i].command.at + spent(i, j) + flood.penalty
==============================================================================
