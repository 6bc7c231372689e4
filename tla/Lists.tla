--------------------------------- MODULE Lists ---------------------------------
(***************************************************************************)
(* The lists people edit by talking to the bot: a list of words (FixedList *)
(* and AbstractList), an inventory things are given to and taken from, and *)
(* replies that are taught.  A list is in the storage, and read again each *)
(* time; of the replies a copy is kept, with the time they last changed.   *)
(***************************************************************************)
EXTENDS Naturals, Sequences, FiniteSets, SequencesExt, Functions

-----------------------------------------------------------------------------
(* FixedList.  A command is [verb, items, editor].                         *)

Did(list, said, ok, ko) == [list |-> list, said |-> said, ok |-> ok, ko |-> ko]

\* FixedList: an element is added whether it is there or not, and removed wherever it is.
add(list, element) == Append(list, element)
remove(list, element) == SelectSeq(list, LAMBDA x : x # element)

ListInsert(list, items) == Did(FoldLeft(add, list, items), "Added", items, <<>>)
ListRemove(list, items) ==
  FoldLeft(LAMBDA d, item :
      IF Contains(d.list, item)
      THEN Did(remove(d.list, item), "Removed", Append(d.ok, item), d.ko)
      ELSE [d EXCEPT !.ko = Append(@, item)],
    Did(list, "Removed", <<>>, <<>>), items)
ListClear == Did(<<>>, "cleared", <<>>, <<>>)
ListShow(list) == Did(list, "list", list, <<>>)

\* Who may not edit the list may only see it.
AbstractList(list, command) ==
  CASE command.verb = "list" -> ListShow(list)
    [] ~command.editor -> Did(list, "", <<>>, <<>>)
    [] command.verb = "add" -> ListInsert(list, command.items)
    [] command.verb = "rm" -> ListRemove(list, command.items)
    [] command.verb = "clear" -> ListClear

-----------------------------------------------------------------------------
(* The inventory.  An action is [verb, item, admin, rand]: "rand" stands   *)
(* for the random numbers.                                                 *)

Has(inventory, said, items) == [inventory |-> inventory, said |-> said, items |-> items]

\* The last item takes the place of the one that is removed.
pop(inventory, i) ==
  LET last == Len(inventory)
  IN  [j \in 1..last - 1 |-> IF j = i THEN inventory[last] ELSE inventory[j]]

\* Items are dropped until the new one fits (0: any number does).
drops(inventory, max_items, rand) ==
  LET extra == IF max_items > 0 /\ Len(inventory) >= max_items THEN Len(inventory) - max_items + 1 ELSE 0
      picked(left) == (rand % Len(left)) + 1
  IN  FoldLeft(LAMBDA d, n : [left |-> pop(d.left, picked(d.left)),
                              dropped |-> Append(d.dropped, d.left[picked(d.left)])],
               [left |-> inventory, dropped |-> <<>>], [n \in 1..extra |-> n])

InventoryPut(inventory, item, max_items, rand) ==
  LET d == drops(inventory, max_items, rand)
  IN  IF Contains(inventory, item) THEN Has(inventory, "already had", <<item>>)
      ELSE Has(Append(d.left, item), "takes", <<item>> \o d.dropped)

InventoryTake(inventory, item) ==
  IF ~Contains(inventory, item) THEN Has(inventory, "doesn't have", <<item>>)
  ELSE Has(pop(inventory, SelectInSeq(inventory, LAMBDA x : x = item)), "gives", <<item>>)

\* (Who may not clear it gets no answer.)
InventoryClear(inventory, admin) ==
  IF ~admin THEN Has(inventory, "", <<>>)
  ELSE IF inventory = <<>> THEN Has(inventory, "was already empty", <<>>)
  ELSE Has(<<>>, "is now empty", <<>>)

InventoryList(inventory) ==
  IF inventory = <<>> THEN Has(inventory, "is empty", <<>>) ELSE Has(inventory, "has", inventory)

Inventory(inventory, action, max_items) ==
  CASE action.verb = "gives" -> InventoryPut(inventory, action.item, max_items, action.rand)
    [] action.verb = "takes from" -> InventoryTake(inventory, action.item)
    [] action.verb = "clear" -> InventoryClear(inventory, action.admin)
    [] action.verb = "list" -> InventoryList(inventory)

-----------------------------------------------------------------------------
(* Replies that are taught.  The storage keeps them with the time they     *)
(* last changed, in seconds; so does each handler that gives them.         *)

NeverTaught == [map |-> <<>>, last_updated |-> 0]

\* "trigger -> reply", or without a reply to forget it.
DynamicReplyManager(storage, trigger, reply, now) ==
  [map |-> IF reply = "" THEN [t \in DOMAIN storage.map \ {trigger} |-> storage.map[t]]
           ELSE [t \in DOMAIN storage.map \cup {trigger} |->
                   IF t = trigger THEN reply ELSE storage.map[t]],
   last_updated |-> now]

load_replies(storage) == [replies |-> storage.map, last_updated |-> storage.last_updated]

\* The handler with what it answers ("": the message is for others).
DynamicReply(handler, storage, message) ==
  LET h == IF handler.last_updated < storage.last_updated THEN load_replies(storage) ELSE handler
  IN  [handler |-> h, reply |-> IF message \in DOMAIN h.replies THEN h.replies[message] ELSE ""]

-----------------------------------------------------------------------------
(* Properties                                                              *)

\* A list shows what was said to be added to it and not to be removed or cleared since, as
\* often as it was; only those who may edit it are told that it changed.
ListsAccounted(commands) ==
  LET after[n \in 0..Len(commands)] ==
        IF n = 0 THEN Did(<<>>, "", <<>>, <<>>) ELSE AbstractList(after[n - 1].list, commands[n])
      end == Len(commands)
      Times(s, x) == Len(SelectSeq(s, LAMBDA y : y = x))
      told[n \in 0..end, x \in {"a", "b"}] ==
        CASE n = 0 -> 0
          [] n > 0 /\ after[n].said = "cleared" -> 0
          [] n > 0 /\ after[n].said = "Added" -> told[n - 1, x] + Times(after[n].ok, x)
          [] n > 0 /\ after[n].said = "Removed" /\ Contains(after[n].ok, x) -> 0
          [] OTHER -> told[n - 1, x]
  IN  /\ \A x \in {"a", "b"} : Times(ListShow(after[end].list).ok, x) = told[end, x]
      /\ \A n \in 1..end : after[n].list # after[n - 1].list => commands[n].editor
      /\ \A n \in 1..end : \A x \in ToSet(after[n].ko) :
           ~Contains(after[n - 1].list, x) \/ Times(commands[n].items, x) > 1

\* What the bot has is what it said it takes less what it said it drops or gives, never the
\* same thing twice, and no more than the limit.
InventoryAccounted(actions, max_items) ==
  LET after[n \in 0..Len(actions)] ==
        IF n = 0 THEN Has(<<>>, "", <<>>) ELSE Inventory(after[n - 1].inventory, actions[n], max_items)
      end == Len(actions)
      account[n \in 0..end] ==
        IF n = 0 THEN {}
        ELSE CASE after[n].said = "takes" ->
                    (account[n - 1] \ ToSet(Tail(after[n].items))) \cup {after[n].items[1]}
               [] after[n].said = "gives" -> account[n - 1] \ ToSet(after[n].items)
               [] after[n].said = "is now empty" -> {}
               [] OTHER -> account[n - 1]
  IN  \A n \in 1..end :
        LET inventory == after[n].inventory
        IN  /\ ToSet(inventory) = account[n]
            /\ Len(inventory) = Cardinality(account[n])
            /\ max_items > 0 => Len(inventory) <= max_items
            /\ after[n].said \in {"already had", "doesn't have"} =>
                 (after[n].said = "already had") = (after[n].items[1] \in account[n])
            /\ after[n].said = "takes" =>
                 Len(after[n].items) = IF max_items > 0 /\ Cardinality(account[n - 1]) = max_items THEN 2 ELSE 1

\* A question gets the reply that was last taught, unless the replies have changed twice in
\* a second.  (An event is [teach, trigger, reply, at], and asks if it does not teach.)
TaughtIsTold(events) ==
  LET start == [storage |-> NeverTaught, handler |-> load_replies(NeverTaught), told |-> <<>>]
      end == FoldLeft(LAMBDA s, e :
               IF e.teach THEN [s EXCEPT !.storage = DynamicReplyManager(@, e.trigger, e.reply, e.at)]
               ELSE LET d == DynamicReply(s.handler, s.storage, e.trigger)
                    IN  [s EXCEPT !.handler = d.handler, !.told = Append(@, d.reply)],
               start, events)
      taught(i) == {j \in 1..i - 1 : events[j].teach /\ events[j].trigger = events[i].trigger}
      last(i) == CHOOSE j \in taught(i) : \A k \in taught(i) : k <= j
      asked == SelectSeq([i \in DOMAIN events |-> i], LAMBDA i : ~events[i].teach)
  IN  (\A i, j \in DOMAIN events : i < j /\ events[i].teach /\ events[j].teach => events[i].at < events[j].at) =>
        \A n \in DOMAIN asked :
          end.told[n] = IF taught(asked[n]) = {} THEN "" ELSE events[last(asked[n])].reply
=============================================================================
