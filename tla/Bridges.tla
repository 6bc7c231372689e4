-------------------------------- MODULE Bridges --------------------------------
(***************************************************************************)
(* Bridges between connections (bridge.cpp, bridge.hpp): groups of         *)
(* handlers that tell on one connection what is said and done on another,  *)
(* and that messages can attach somewhere else.  What a bridge delivers    *)
(* may come back from the other side, as said by the bot.                  *)
(*                                                                         *)
(* A message is [type, source, from, victim, text, direct, channels]; the  *)
(* name of the bot is "bot" everywhere.  How the groups around a handler   *)
(* filter what it delivers is in Dispatch.                                 *)
(***************************************************************************)
EXTENDS Naturals, Sequences, SequencesExt

CONSTANT Connections       \* the names of the connections

Bot == "bot"

\* A bridge for the messages of a connection: where it tells them, and its handlers.
Bridge(source, destination, dst_channel, kids) ==
  [source |-> source, destination |-> destination, dst_channel |-> dst_channel, kids |-> kids]

\* A handler: its kind, and its settings (what a kind does not use is FALSE or "").
Handler(kind) ==
  [kind |-> kind, type |-> "", ignore_self |-> TRUE, detach |-> TRUE,
   discard_self |-> FALSE, discard_others |-> FALSE]

-----------------------------------------------------------------------------
(* Handlers that tell                                                      *)

\* Where a reply goes: the channel of the message, or else that of the bridge.
deliver(bridge, m, what) ==
  <<[to |-> IF bridge.destination = "" THEN m.source ELSE bridge.destination,
     target |-> IF m.channels # <<>> THEN m.channels[1] ELSE bridge.dst_channel, what |-> what]>>

BridgeChat_can_handle(h, m) ==
  m.type = "CHAT" /\ ~m.direct /\ (~h.ignore_self \/ m.from # Bot)

\* The bot does something, or something is done to it.
involves_self(m) == Bot \in {m.from, m.victim}

EventMessageBase_can_handle(h, m) ==
  /\ m.type = h.type
  /\ h.discard_others => involves_self(m)
  /\ h.discard_self => ~involves_self(m)

\* Whom a message is about: who is kicked is told along with who kicks.
message_replacements(m) ==
  IF m.type = "KICK" THEN <<m.from, m.victim, m.text>> ELSE <<m.from, m.text>>

-----------------------------------------------------------------------------
(* Handlers that attach the bridge.  A command is <<its name, argument>>.  *)

Called(m, name) == m.type = "CHAT" /\ m.text[1] = name

\* A connection that is not there detaches the bridge, if that is allowed.
BridgeAttach(bridge, h, m) ==
  IF m.text[2] \in Connections \/ h.detach
  THEN [bridge EXCEPT !.destination = IF m.text[2] \in Connections THEN m.text[2] ELSE ""]
  ELSE bridge

BridgeAttachChannel(bridge, m) == [bridge EXCEPT !.dst_channel = m.text[2]]

-----------------------------------------------------------------------------
(* The bridge: the first handler that takes the message                    *)

Result(bridge, out, ok) == [bridge |-> bridge, out |-> out, ok |-> ok]

handle(bridge, h, m) ==
  CASE h.kind = "attach" /\ Called(m, "attach") -> Result(BridgeAttach(bridge, h, m), <<>>, TRUE)
    [] h.kind = "channel" /\ Called(m, "channel") -> Result(BridgeAttachChannel(bridge, m), <<>>, TRUE)
    [] h.kind = "event" /\ EventMessageBase_can_handle(h, m) ->
         Result(bridge, deliver(bridge, m, message_replacements(m)), TRUE)
    [] h.kind = "chat" /\ BridgeChat_can_handle(h, m) ->
         Result(bridge, deliver(bridge, m, <<m.from, m.text>>), TRUE)
    [] OTHER -> Result(bridge, <<>>, FALSE)

on_handle(bridge, m) ==
  IF m.source # bridge.source THEN Result(bridge, <<>>, FALSE)
  ELSE FoldLeft(LAMBDA r, h : IF r.ok THEN r ELSE handle(r.bridge, h, m),
                Result(bridge, <<>>, FALSE), bridge.kids)

\* A connection that shows the bot what it says there itself.
echo(out) ==
  [type |-> "CHAT", source |-> out.to, from |-> Bot, victim |-> "", text |-> <<"said", "">>,
   direct |-> FALSE, channels |-> <<>>]

\* The bridges of the bot, one after the other, and what comes back of what they tell: at
\* most "times" are followed.
RECURSIVE relay(_, _, _)
relay(bridges, m, times) ==
  LET first == FoldLeft(LAMBDA r, i :
                   IF r.ok THEN r
                   ELSE LET b == on_handle(bridges[i], m)
                        IN  [bridges |-> [r.bridges EXCEPT ![i] = b.bridge], out |-> b.out, ok |-> b.ok],
                 [bridges |-> bridges, out |-> <<>>, ok |-> FALSE], [i \in DOMAIN bridges |-> i])
      back == IF first.out = <<>> \/ times = 0 THEN <<>>
              ELSE relay(first.bridges, echo(first.out[1]), times - 1).out
  IN  [first EXCEPT !.out = @ \o back]

\* (connection_monitor.hpp.)  A server that is being checked counts as connected.
MonitorServerStatus(status) ==
  IF status \in {"CHECKING", "CONNECTED"} THEN "connected" ELSE "disconnected"

-----------------------------------------------------------------------------
(* Properties                                                              *)

\* A bridge that ignores what the bot says tells each line and each event once, on the
\* connection and in the channel it was last attached to, whatever comes back from there;
\* events of the bot and those of others only to who wants them, and commands to nobody.
ToldOnce(bridges, messages) ==
  LET after[n \in 0..Len(messages)] ==
        IF n = 0 THEN [bridges |-> bridges, out |-> <<>>, ok |-> FALSE]
        ELSE relay(after[n - 1].bridges, messages[n], 3)
      Of(m) == SelectSeq(bridges, LAMBDA b : b.source = m.source)
      Has(n, kind) == \E h \in ToSet(Of(messages[n])[1].kids) : h.kind = kind
      detaches(n) == \A h \in ToSet(Of(messages[n])[1].kids) : h.kind = "attach" => h.detach
      commands(n, name) ==
        {i \in 1..n - 1 : /\ messages[i].source = messages[n].source /\ Has(n, name)
                          /\ Called(messages[i], name)
                          /\ name = "attach" => detaches(n) \/ messages[i].text[2] \in Connections}
      latest(n, name, none) ==
        IF commands(n, name) = {} THEN none
        ELSE messages[CHOOSE i \in commands(n, name) : \A j \in commands(n, name) : j <= i].text[2]
      where(n) ==
        LET to == latest(n, "attach", Of(messages[n])[1].destination)
        IN  IF to \in Connections THEN to ELSE messages[n].source
      target(n) ==
        IF messages[n].channels # <<>> THEN messages[n].channels[1]
        ELSE latest(n, "channel", Of(messages[n])[1].dst_channel)
      wanted(n) ==
        \E h \in ToSet(Of(messages[n])[1].kids) :
          \/ /\ h.kind = "chat" /\ messages[n].type = "CHAT"
             /\ ~messages[n].direct /\ messages[n].from # Bot
             /\ ~(Has(n, messages[n].text[1]) /\ messages[n].text[1] \in {"attach", "channel"})
          \/ /\ h.kind = "event" /\ h.type = messages[n].type
             /\ h.discard_self => messages[n].from # Bot /\ messages[n].victim # Bot
             /\ h.discard_others => messages[n].from = Bot \/ messages[n].victim = Bot
  IN  \A n \in DOMAIN messages :
        Of(messages[n]) # <<>> =>
          /\ Len(after[n].out) = IF wanted(n) THEN 1 ELSE 0
          /\ wanted(n) => after[n].out[1].to = where(n) /\ after[n].out[1].target = target(n)
=============================================================================
