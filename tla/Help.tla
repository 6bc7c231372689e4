---------------------------------- MODULE Help ----------------------------------
(***************************************************************************)
(* What the handler Help (core/handler/misc.hpp) says about the others:    *)
(* the handlers write their properties into a tree (handler.hpp,           *)
(* group.cpp, melanobot.cpp), from which it takes what the sender may not  *)
(* use, then the groups without a name, and in which it looks for what it  *)
(* was asked.  Only functions: MCTexts checks them.  Names have no dots.   *)
(***************************************************************************)
EXTENDS Config

\* A handler, with the properties that it has ("": it has not).
Item(kind, name, help, kids) ==
  [kind |-> kind, name |-> name, help |-> help, auth |-> "", help_group |-> "",
   channels |-> "", kids |-> kids]

\* Who asks: the groups of the sender, and the masks that fit the message's channels.
Asked(groups, masks, query) == [groups |-> groups, masks |-> masks, query |-> query]

\* ptree::put_child()
put_child(t, key, tree) ==
  IF Places(t, key) = {} THEN [t EXCEPT !.kids = Append(@, Kid(key, tree))]
  ELSE [t EXCEPT !.kids[First(Places(t, key))].tree = tree]

\* Handler::populate_properties(): the properties that have a value.
own_properties(h, t) ==
  FoldLeft(LAMBDA x, p : IF h[p] = "" THEN x ELSE put(x, p, <<h[p]>>), t,
           <<"name", "help", "auth", "help_group", "channels">>)

\* ptree::get() of a property, a single word or none.
property(t, key, default) ==
  LET data == get(t, key, <<default>>) IN IF data = <<>> THEN "" ELSE data[1]

RECURSIVE populate_properties(_), child_properties(_), cleanup(_, _, _), restructure(_, _),
          gather(_), find(_, _)

\* The handlers of a group, or of the bot, by their names or else their numbers.
child_properties(kids) ==
  FoldLeft(LAMBDA t, i :
      LET c == populate_properties(kids[i])
      IN  IF c = Node(<<>>, <<>>) THEN t
          ELSE put_child(t, IF kids[i].name = "" THEN ToString(i - 1) ELSE kids[i].name, c),
    Node(<<>>, <<>>), [i \in DOMAIN kids |-> i])

\* AbstractActionGroup: those of its children, then its own.
populate_properties(h) ==
  own_properties(h, IF h.kind = "group" THEN child_properties(h.kids) ELSE Node(<<>>, <<>>))

\* The conditions of cleanup(), on one item.
considered(t, m, help_group) ==
  /\ property(t, "auth", "") \in m.groups \cup {""}
  /\ property(t, "help_group", help_group) = help_group
  /\ Places(t, "channels") # {} => property(t, "channels", "") \in m.masks

\* Mutant: what is below an item that is shown is shown.
cleanupTop(t, m, help_group) ==
  [t EXCEPT !.kids = SelectSeq(@, LAMBDA k : considered(k.tree, m, help_group))]

\* cleanup()
cleanup(t, m, help_group) ==
  LET kept == SelectSeq(t.kids, LAMBDA k : considered(k.tree, m, help_group))
  IN  [t EXCEPT !.kids = [i \in DOMAIN kept |->
         Kid(kept[i].key, cleanup(kept[i].tree, m, help_group))]]

\* restructure(): an item with a name is a new tree, of its properties and of the named
\* items below it; one without leaves these to its parent.
restructure(input, parent) ==
  LET named == Places(input, "name") # {}
  IN  [made |-> named,
       tree |-> FoldLeft(LAMBDA p, k :
           IF k.tree.kids = <<>>
           THEN IF named /\ k.tree.data # <<>> THEN put(p, k.key, k.tree.data) ELSE p
           ELSE LET child_tree == restructure(k.tree, p)
                IN  IF ~child_tree.made THEN child_tree.tree
                    ELSE put_child(p, k.key, IF Places(p, k.key) = {} THEN child_tree.tree
                           ELSE merge(get_child(p, k.key), child_tree.tree, TRUE)),
         IF named THEN Node(<<>>, <<>>) ELSE parent, input.kids)]

\* gather(): the topmost names.
gather(t) ==
  FoldLeft(LAMBDA s, k : IF Places(k.tree, "name") = {} THEN s \o gather(k.tree)
                         ELSE Append(s, property(k.tree, "name", "")), <<>>, t.kids)

\* find(): the first item of that name; of no name, everything.
find(t, name) ==
  LET at == IF name = "" THEN t ELSE get_child(t, name)
  IN  IF at.kids # <<>> THEN at
      ELSE FoldLeft(LAMBDA x, k : IF x # Missing THEN x ELSE find(k.tree, name), Missing, t.kids)

\* Help::on_handle(): the name, the names below it, and the help of what was found.
on_help(handlers, m, help_group) ==
  LET props == cleanup(child_properties(handlers), m, help_group)
      queried == find(restructure(props, Node(<<>>, <<>>)).tree, m.query)
  IN  IF queried = Missing THEN [found |-> FALSE, name |-> "", names |-> {}, help |-> ""]
      ELSE [found |-> TRUE, name |-> property(queried, "name", ""), names |-> ToSet(gather(queried)),
            help |-> property(queried, "help", "")]

-----------------------------------------------------------------------------
(* Reference: the handlers the sender may use                              *)

Usable(h, m, help_group) ==
  /\ h.auth \in m.groups \cup {""}
  /\ h.help_group \in {"", help_group}
  /\ h.channels \in m.masks \cup {""}

RECURSIVE Below(_, _, _, _), Named(_, _, _)

\* The handlers of a list and of the groups in it, with what is around each.
Below(kids, around, m, help_group) ==
  UNION {LET usable == SelectSeq(<<k>>, LAMBDA h : Usable(h, m, help_group))
             inside == IF k.kind = "group" /\ usable # <<>>
                       THEN Below(k.kids, Append(around, k), m, help_group) ELSE {}
         IN  inside \cup {Append(around, h) : h \in ToSet(usable)} : k \in ToSet(kids)}

\* The names one meets first on the way down.
Named(kids, m, help_group) ==
  UNION {IF ~Usable(k, m, help_group) THEN {}
         ELSE IF k.name # "" THEN {k.name}
         ELSE IF k.kind = "group" THEN Named(k.kids, m, help_group) ELSE {} : k \in ToSet(kids)}

\* Help speaks of nothing the sender may not use; and unless two handlers of a group have
\* the same name, or one that of a property, it names, and explains, all that he may.
HelpIsHonest(handlers, m, help_group) ==
  LET usable == Below(handlers, <<>>, m, help_group)
      about == {p \in usable : Last(p).name = m.query}
      r == on_help(handlers, m, help_group)
      Distinct(kids) == \A i, j \in DOMAIN kids :
                          kids[i].name = kids[j].name => i = j \/ kids[i].name = ""
      plain == /\ \A p \in usable : Last(p).name # "help" /\ Distinct(Last(p).kids)
               /\ Distinct(handlers)
  IN  /\ r.found /\ m.query # "" =>
           \E p \in about : r.name = m.query /\ r.help \in {Last(p).help, ""}
      /\ r.names \subseteq {Last(p).name : p \in usable}
      /\ plain /\ m.query # "" => r.found = (about # {})
      /\ plain /\ m.query = "" => r.names = Named(handlers, m, help_group)
=============================================================================
