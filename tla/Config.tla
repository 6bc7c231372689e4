--------------------------------- MODULE Config ---------------------------------
(***************************************************************************)
(* What becomes of a configuration: the settings are a tree (a boost       *)
(* property tree: the data of a node, then its children in order, whose    *)
(* keys may repeat), merged by settings.cpp, built into handlers by        *)
(* ConfigFactory and the groups (config_factory.cpp, group.cpp), with      *)
(* templates in it replaced; and the modules that provide all of this,     *)
(* which load_module.cpp selects.  Only functions: MCTexts checks them.    *)
(* The data of a node is a sequence of words; the arguments of a template  *)
(* are words of their own, none of which begins another.                   *)
(***************************************************************************)
EXTENDS Integers, Sequences, FiniteSets, SequencesExt, TLC

Node(data, kids) == [data |-> data, kids |-> kids]
Kid(key, tree) == [key |-> key, tree |-> tree]
Missing == Node(<<"missing">>, <<>>)

\* The places of the children with a key.
Places(t, key) == {i \in DOMAIN t.kids : t.kids[i].key = key}
First(S) == CHOOSE i \in S : \A j \in S : i <= j

\* get_child_optional() and get(): the first child of that name.
get_child(t, key) ==
  IF Places(t, key) = {} THEN Missing ELSE t.kids[First(Places(t, key))].tree
get(t, key, default) ==
  IF Places(t, key) = {} THEN default ELSE get_child(t, key).data

\* erase(): every child of that name.
erase(t, key) == [t EXCEPT !.kids = SelectSeq(@, LAMBDA k : k.key # key)]

\* What the code tells from the first letter of a key: a handler from a setting, and the
\* arguments of a template; and the setting an argument is read from.
isupper(key) ==
  SubSeq(key, 1, 1) \in {"A", "B", "C", "D", "E", "F", "G", "H", "I", "J", "K", "L", "M",
                         "N", "O", "P", "Q", "R", "S", "T", "U", "V", "W", "X", "Y", "Z"}
isArgument(key) == SubSeq(key, 1, 1) = "@"
Setting(argument) == SubSeq(argument, 2, Len(argument))

RECURSIVE merge(_, _, _), mapData(_, _), build(_, _, _, _, _)

\* settings::merge(), its result.
merge(target, source, overwrite) ==
  FoldLeft(LAMBDA t, k :
      IF Places(t, k.key) = {} THEN [t EXCEPT !.kids = Append(@, k)]
      ELSE [t EXCEPT !.kids[First(Places(t, k.key))].tree = merge(@, k.tree, overwrite)],
    IF overwrite THEN [target EXCEPT !.data = source.data] ELSE target, source.kids)

\* replace(): the words of "f" in the data, wherever they stand.
replace(data, f) ==
  FlattenSeq([i \in DOMAIN data |-> IF data[i] \in DOMAIN f THEN f[data[i]] ELSE <<data[i]>>])

\* settings::recurse() with replace().
mapData(t, f) ==
  Node(replace(t.data, f),
       [i \in DOMAIN t.kids |-> Kid(t.kids[i].key, mapData(t.kids[i].tree, f))])

\* build_template(): the arguments are taken out of the settings and replaced in the
\* template, which the rest of the settings then overwrites.
Arguments(source) == {x \in {k.key : k \in ToSet(source.kids)} : isArgument(x)}
build_template(settings, source) ==
  LET values == [x \in Arguments(source) |-> get(settings, Setting(x), get_child(source, x).data)]
      rest   == FoldLeft(LAMBDA t, x : erase(t, Setting(x)), settings, SetToSeq(Arguments(source)))
  IN  merge(mapData(source, values), rest, TRUE)

\* put(): the value of the first child of that name.
put(t, key, data) ==
  IF Places(t, key) = {} THEN [t EXCEPT !.kids = Append(@, Kid(key, Node(data, <<>>)))]
  ELSE [t EXCEPT !.kids[First(Places(t, key))].tree.data = data]

\* The defaults Group gathers for its children: its settings that have a value, but for
\* those that are about the group itself.
OwnSettings == {"trigger", "auth", "name", "type", "prefix", "source", "channels"}
defaults(t) ==
  FoldLeft(LAMBDA d, k : IF k.tree.data = <<>> \/ k.key \in OwnSettings THEN d
                         ELSE put(d, k.key, k.tree.data),
           Node(<<>>, <<>>), t.kids)

\* Mutant: the group's settings win over those of the child.
childOver(k, group) == Kid(k.key, merge(k.tree, defaults(group), TRUE))

\* AbstractGroup::add_children(): what a child is built from.
child(k, group) == Kid(k.key, merge(k.tree, defaults(group), FALSE))

\* ConfigFactory::build(): the handlers an item makes, each with its settings.  The type of
\* an item is that of a handler ("registered"), or else the name of one of the templates
\* load_templates() has registered; "depth" bounds the templates that are built for ever
\* (\todo recursion check, the code says).
build(item, default_type, registered, templates, depth) ==
  LET type == get(item.tree, "type", <<default_type>>)
      from(source) ==
        build(Kid(item.key, build_template(item.tree, source)), "Group", registered, templates, depth - 1)
      named == get(item.tree, "template", <<>>)
  IN  CASE depth = 0 -> <<Kid("for ever", item.tree)>>
        [] depth > 0 /\ get(item.tree, "enabled", <<"true">>) = <<"false">> -> <<>>
        [] type = <<"Group">> ->
             FoldLeft(LAMBDA made, k :
                 IF isupper(k.key)
                 THEN made \o build(child(k, item.tree), k.key, registered, templates, depth - 1)
                 ELSE made,
               <<>>, item.tree.kids)
        [] type = <<"Template">> -> IF named \in DOMAIN templates THEN from(templates[named]) ELSE <<>>
        [] type \in registered -> <<item>>
        [] type \in DOMAIN templates \ registered -> from(templates[type])
        [] OTHER -> <<>>

-----------------------------------------------------------------------------
(* Modules: records of a name, a version and the dependencies              *)

\* Dependency::match(); 0 is no limit.
match(d, m) ==
  /\ m.name = d.name
  /\ d.min = 0 \/ d.min <= m.version
  /\ d.max = 0 \/ m.version <= d.max

\* dependencies_satisfied()
satisfied(m, loaded) == \A d \in m.deps : \E x \in ToSet(loaded) : match(d, x)

\* filter_dependencies(): each round of the loop appends, in order, what the modules
\* loaded so far (those of this round included) satisfy.
filter_dependencies(modules) ==
  LET round(st) == FoldLeft(LAMBDA x, m : IF satisfied(m, x.loaded)
                       THEN [x EXCEPT !.loaded = Append(@, m)]
                       ELSE [x EXCEPT !.left = Append(@, m)],
                     [loaded |-> st.loaded, left |-> <<>>], st.left)
      rounds[n \in 0..Len(modules)] ==
        IF n = 0 THEN [loaded |-> <<>>, left |-> modules] ELSE round(rounds[n - 1])
  IN  rounds[Len(modules)].loaded

\* lexcompare(): by name, the newest first.
lexcompare(a, b) == a.name < b.name \/ (a.name = b.name /\ a.version > b.version)

\* filter_deprecation(): sorted, and the first of each name.
filter_deprecation(modules) ==
  LET sorted == SetToSortSeq(ToSet(modules), lexcompare)
  IN  FoldLeft(LAMBDA x, m : IF x # <<>> /\ Last(x).name = m.name THEN x ELSE Append(x, m),
               <<>>, sorted)

\* find_modules()
find_modules(modules) == filter_deprecation(filter_dependencies(modules))

-----------------------------------------------------------------------------
(* Properties                                                              *)

RECURSIVE Paths(_), Lookup(_, _)
Paths(t) == {<<>>} \cup UNION {{<<k.key>> \o p : p \in Paths(k.tree)} : k \in ToSet(t.kids)}
Lookup(t, path) == IF path = <<>> THEN t.data ELSE Lookup(get_child(t, Head(path)), Tail(path))

\* In a template that is used, an argument stands for the value given, or for its default,
\* wherever the template has it and the settings do not say otherwise.
TemplateFilled(settings, source) ==
  LET t == build_template(settings, source)
      value(x) == get(settings, Setting(x), get_child(source, x).data)
  IN  \A p \in Paths(source) \ Paths(settings) :
        Lookup(t, p) = replace(Lookup(source, p), [x \in Arguments(source) |-> value(x)])

\* Reference: the values of the setting "p" of the handlers an item stands for, when "scope"
\* has the settings of what is around it.  Own settings come first, then those of the
\* nearest group; a template reads its arguments from them, keeps these for itself, and
\* has its own settings last.
Own(t) == [x \in {k.key : k \in {y \in ToSet(t.kids) : ~isupper(y.key)}} |-> get(t, x, <<>>)]
Passed(scope) == [x \in {y \in DOMAIN scope : scope[y] # <<>> /\ y \notin OwnSettings} |-> scope[x]]
RECURSIVE Meant(_, _, _)
Meant(item, scope, templates) ==
  LET here == Own(item.tree) @@ scope
      source == templates[IF item.key = "Template" THEN here["template"] ELSE <<item.key>>]
      read == {Setting(x) : x \in Arguments(source)}
      filled == mapData(source, [x \in Arguments(source) |->
                  IF Setting(x) \in DOMAIN here THEN here[Setting(x)] ELSE get(source, x, <<>>)])
      all(t, around) ==
        FoldLeft(LAMBDA s, k : IF isupper(k.key) THEN s \o Meant(k, Passed(around), templates) ELSE s,
                 <<>>, t.kids)
  IN  CASE item.key = "Group" -> all(item.tree, here)
        [] item.key = "Template" \/ <<item.key>> \in DOMAIN templates ->
             all(filled, [x \in DOMAIN here \ read |-> here[x]] @@ Own(filled))
        [] OTHER -> <<IF "p" \in DOMAIN here THEN here["p"] ELSE <<"none">>>>

\* An item that has a template for its type, or uses a template that has.
RECURSIVE HasTyped(_, _)
HasTyped(item, templates) ==
  LET typed(t) == get(t, "type", <<"Group">>) \in DOMAIN templates \cup {<<"Template">>}
      source == IF item.key = "Template" THEN get(item.tree, "template", <<>>) ELSE <<item.key>>
      below(t) == \E k \in ToSet(t.kids) : isupper(k.key) /\ HasTyped(k, templates)
  IN  \/ typed(item.tree) \/ below(item.tree)
      \/ source \in DOMAIN templates /\ (typed(templates[source]) \/ below(templates[source]))

\* A handler has the settings of the groups and templates around it, the nearest first; a
\* group that has one without a value passes none on.  Handlers are built for ever only from
\* an item that says its type is a template: the type is then that of what is built, too.
SettingsInherited(item, registered, templates) ==
  LET made == build(item, item.key, registered, templates, 8)
      forEver == \E i \in DOMAIN made : made[i].key = "for ever"
  IN  /\ forEver <=> HasTyped(item, templates)
      /\ ~forEver => [i \in DOMAIN made |-> get(made[i].tree, "p", <<"none">>)] = Meant(item, <<>>, templates)

\* The modules found are, of those whose dependencies can be met, the newest of each name;
\* where no dependency has a maximum version, what is found meets them.
ModulesFound(modules) ==
  LET can[n \in 0..Len(modules)] ==
        IF n = 0 THEN {} ELSE {m \in ToSet(modules) : satisfied(m, SetToSeq(can[n - 1]))}
      loadable == can[Len(modules)]
      found == find_modules(modules)
  IN  /\ ToSet(found) = {m \in loadable : \A x \in loadable : x.name = m.name => x.version <= m.version}
      /\ (\A m \in ToSet(modules) : \A d \in m.deps : d.max = 0) =>
           \A m \in ToSet(found) : satisfied(m, found)
=============================================================================
