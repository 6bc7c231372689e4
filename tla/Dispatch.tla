-------------------------------- MODULE Dispatch --------------------------------
(***************************************************************************)
(* How a message is given to the handlers: the tree of handlers            *)
(* (handler.cpp, message_consumer.hpp, melanobot.cpp) with the groups and  *)
(* bridges that filter, redirect, multiply or change the message on its    *)
(* way (group.cpp, bridge.cpp, admin.hpp), and what the handlers deliver   *)
(* through the filters of their parents.  Only functions: MCTexts checks   *)
(* them.  A text is a sequence of words.                                   *)
(***************************************************************************)
EXTENDS Naturals, Sequences, FiniteSets, SequencesExt

\* A handler: its kind, its settings and its children ("" or <<>>: not set; "member" says
\* if the sender of the messages is in the group named by auth or ignore).
Handler(kind, trigger, kids) ==
  [kind |-> kind, trigger |-> trigger, kids |-> kids, direct |-> FALSE, member |-> TRUE,
   channels |-> {}, pass |-> FALSE, prefix |-> "", to |-> "", channel |-> "", private |-> FALSE]

Groups == {"group", "bridge"}

\* SimpleAction's patterns: the trigger, and the end or a space.
matches_pattern(h, m) == m.text # <<>> /\ Head(m.text) = h.trigger

can_handle(h, m) ==
  CASE h.kind = "action" -> m.type = "CHAT" /\ (m.direct \/ ~h.direct)
    [] h.kind \in Groups -> /\ h.member /\ (m.direct \/ ~h.direct)
                            /\ h.channels = {} \/ ToSet(m.channels) \cap h.channels # {}
    [] h.kind = "multi" -> m.direct \/ ~h.direct
    [] h.kind = "filter" -> h.member
    [] h.kind = "chat" -> m.type = "CHAT" /\ ~m.direct /\ ~m.self
    [] h.kind = "join" -> m.type = "JOIN"
    [] h.kind = "chanhax" -> m.type = "CHAT" /\ m.text # <<>>

\* deliver(): the output filters of the parents of a handler, the nearest first.
filtered(path, out) ==
  FoldLeft(LAMBDA o, h : IF h.kind \notin Groups THEN o
      ELSE [o EXCEPT !.prefix = (IF h.prefix = "" THEN <<>> ELSE <<h.prefix>>) \o @,
                     !.target = IF h.kind = "bridge" /\ @ = "" THEN h.channel ELSE @],
    out, Reverse(path))

\* reply_to() and reply_channel()
reply(h, m, path) ==
  filtered(path, [by |-> h, to |-> m.destination, text |-> m.text, prefix |-> <<>>,
                  target |-> IF h.private THEN m.from
                             ELSE IF m.channels = <<>> THEN "" ELSE m.channels[1]])

\* The first trigger in the properties of a handler, and the prefixes Multi finds for its
\* children: those of the properties that are there, in their order (one for each name).
RECURSIVE trigger(_)
trigger(h) ==
  IF h.trigger # "" THEN h.trigger
  ELSE LET below == SelectSeq([i \in DOMAIN h.kids |-> trigger(h.kids[i])], LAMBDA t : t # "")
       IN  IF below = <<>> THEN "" ELSE below[1]
prefixes(h) ==
  LET found == SelectSeq([i \in DOMAIN h.kids |-> trigger(h.kids[i])], LAMBDA t : t # "")
      named == FoldLeft(LAMBDA s, t : IF Contains(s, t) THEN s ELSE Append(s, t), <<>>, found)
  IN  [i \in DOMAIN h.kids |-> IF i \in DOMAIN named THEN named[i] ELSE ""]

\* What a handler returns, with the message as it leaves it and what it has sent.
Result(ok, m, out) == [ok |-> ok, msg |-> m, out |-> out]

RECURSIVE handle(_, _, _), on_handle(_, _, _)

\* The children in their order, while "more" of what they return: each is given the message
\* the one before has left.
children(h, m, path, stops) ==
  FoldLeft(LAMBDA x, k :
      IF stops /\ x.ok THEN x
      ELSE LET r == handle(k, x.msg, Append(path, h))
           IN  Result(x.ok \/ r.ok, r.msg, x.out \o r.out),
    Result(FALSE, m, <<>>), h.kids)

\* Mutant: the trigger is not put back.
handleStrips(h, m, path) ==
  IF ~can_handle(h, m) THEN Result(FALSE, m, <<>>)
  ELSE IF h.kind \notin Groups \cup {"action"} \/ h.trigger = "" THEN on_handle(h, m, path)
  ELSE IF matches_pattern(h, m) THEN on_handle(h, [m EXCEPT !.text = Tail(@)], path)
  ELSE Result(FALSE, m, <<>>)

\* handle(), of Handler and of SimpleAction.
handle(h, m, path) ==
  IF ~can_handle(h, m) THEN Result(FALSE, m, <<>>)
  ELSE IF h.kind \notin Groups \cup {"action"} \/ h.trigger = "" THEN on_handle(h, m, path)
  ELSE IF matches_pattern(h, m)
       THEN [on_handle(h, [m EXCEPT !.text = Tail(@)], path) EXCEPT !.msg.text = m.text]
  ELSE Result(FALSE, m, <<>>)

on_handle(h, m, path) ==
  CASE h.kind \in {"action", "chat", "join"} -> Result(TRUE, m, <<reply(h, m, path)>>)
    [] h.kind = "filter" -> Result(TRUE, m, <<>>)
    [] h.kind = "chanhax" ->
         IF Len(m.text) > 2 /\ m.text[Len(m.text) - 1] = h.trigger
         THEN Result(FALSE, [m EXCEPT !.text = SubSeq(@, 1, Len(@) - 2),
                                      !.channels = <<m.text[Len(m.text)]>>], <<>>)
         ELSE Result(FALSE, m, <<>>)
    [] h.kind = "group" -> LET r == children(h, m, path, ~h.pass)
                           IN  [r EXCEPT !.ok = @ /\ ~h.pass]
    [] h.kind = "bridge" ->
         LET targeted == IF h.to = "" THEN m ELSE [m EXCEPT !.destination = h.to]
             r == children(h, targeted, path, ~h.pass)
         IN  Result(r.ok /\ ~h.pass, m, r.out)
    [] h.kind = "multi" ->
         IF h.trigger # "" /\ matches_pattern(h, m)
         THEN LET each == FoldLeft(LAMBDA x, i :
                     LET r == handle(h.kids[i], [x.msg EXCEPT !.text = <<prefixes(h)[i]>> \o Tail(m.text)],
                                     Append(path, h))
                     IN  Result(x.ok \/ r.ok, r.msg, x.out \o r.out),
                   Result(FALSE, m, <<>>), [i \in DOMAIN h.kids |-> i])
              IN  Result(each.ok, m, each.out)
         ELSE children(h, m, path, FALSE)

\* Melanobot::handle(): the handlers of the bot.
dispatch(handlers, m) ==
  FoldLeft(LAMBDA x, h : IF x.ok THEN x
             ELSE LET r == handle(h, x.msg, <<>>) IN Result(r.ok, r.msg, x.out \o r.out),
           Result(FALSE, m, <<>>), handlers)

-----------------------------------------------------------------------------
(* Reference: which handlers of a tree of groups and bridges answer        *)

\* The actions, in the order they are written in: the path from the root, and the place
\* of each of its handlers among its siblings.
RECURSIVE Leaves(_)
Leaves(h) ==
  IF h.kind \notin Groups THEN <<[path |-> <<h>>, at |-> <<>>]>>
  ELSE FoldLeft(LAMBDA s, n :
           s \o [i \in DOMAIN Leaves(h.kids[n]) |->
                   [path |-> <<h>> \o Leaves(h.kids[n])[i].path, at |-> <<n>> \o Leaves(h.kids[n])[i].at]],
         <<>>, [n \in DOMAIN h.kids |-> n])

\* All the handlers of a path take the message; their triggers are its first words.
Takes(path, m) ==
  LET triggers == SelectSeq([i \in DOMAIN path |-> path[i].trigger], LAMBDA t : t # "")
  IN  /\ \A i \in DOMAIN path : can_handle(path[i], m)
      /\ IsPrefix(triggers, m.text)

\* An action that answers hides a later one if the group they share, and every group from
\* there to the one that answers, does not let messages through.
Hides(a, b) ==
  LET shared == 1 + Cardinality({i \in DOMAIN a.at : i \in DOMAIN b.at /\ SubSeq(a.at, 1, i) = SubSeq(b.at, 1, i)})
  IN  \A i \in shared..Len(a.at) : ~a.path[i].pass

\* What is said, by whom, to whom: the innermost bridge that is attached, the channel of
\* the message or else the innermost bridge's, and all the prefixes, the outermost first.
Said(path, m) ==
  LET set(f(_)) == SelectSeq([i \in DOMAIN path |-> f(path[i])], LAMBDA x : x # "")
      to == set(LAMBDA h : h.to)
      channel == (IF m.channels = <<>> THEN <<>> ELSE <<m.channels[1]>>)
                 \o Reverse(set(LAMBDA h : h.channel))
      triggers == set(LAMBDA h : h.trigger)
      by == Last(path)
  IN  [by |-> by, to |-> IF to = <<>> THEN m.destination ELSE Last(to),
       text |-> SubSeq(m.text, Len(triggers) + 1, Len(m.text)),
       prefix |-> set(LAMBDA h : h.prefix),
       target |-> IF by.private THEN m.from ELSE IF channel = <<>> THEN "" ELSE channel[1]]

\* The message is answered by the first action that takes it (and by those that groups
\* which pass through still let see it), and is left as it was.
AnsweredByFirst(root, m) ==
  LET leaves == Leaves(root)
      taking == SelectSeq(leaves, LAMBDA l : Takes(l.path, m))
      answers[n \in 0..Len(taking)] ==
        IF n = 0 THEN <<>>
        ELSE IF \E i \in DOMAIN answers[n - 1] : Hides(answers[n - 1][i], taking[n])
             THEN answers[n - 1] ELSE Append(answers[n - 1], taking[n])
      r == handle(root, m, <<>>)
  IN  /\ r.out = [i \in DOMAIN answers[Len(taking)] |-> Said(answers[Len(taking)][i].path, m)]
      /\ r.msg = m

\* A message given to Multi reaches every child that would take it, under the child's own
\* trigger: what one of them does to the message is not seen by the bot's next handler.
MultiReaches(h, m) ==
  (h.trigger # "" /\ matches_pattern(h, m) /\ can_handle(h, m)) =>
     LET r == handle(h, m, <<>>)
     IN  /\ r.msg = m
         /\ {o.by : o \in ToSet(r.out)} = {k \in ToSet(h.kids) : can_handle(k, m) /\ k.kind = "action"}
=============================================================================
