----------------------------- MODULE RemindProofs -----------------------------
(***************************************************************************)
(* For any number of reminders, any bound on the clock and any number of   *)
(* lives: the timer thread never sleeps past an item, no reminder is       *)
(* delivered before its time, and while every life ends by quitting none   *)
(* is delivered twice or forgotten.                                        *)
(*                                                                         *)
(* The first two hold whatever the lives leave on the disk: there the      *)
(* stored items matter only through their types (IInv).  The last two say  *)
(* of each reminder that it is in one place (CleanLives): the heap, the    *)
(* action or the push, and then also on Remind's list; or, before it is    *)
(* loaded, in the file.                                                    *)
(***************************************************************************)
EXTENDS Remind, SequenceTheorems, FunctionTheorems, FiniteSetTheorems, TLAPS

\* How many there are is the count's business (NoneForgotten).
Counts == {Cardinality(s) : s \in SUBSET Reminders}
StoredItems == [count : Counts, entries : Seq(Reminders)]

\* What the handler hands to the queue.
HandlerTypes ==
  /\ mem \in StoredItems /\ file \in StoredItems
  /\ loaded \in Nat
  /\ pending \subseteq Reminders
  /\ delivered \in [Ids -> Nat]

QueueTypes ==
  /\ now \in Nat
  /\ items \subseteq Items
  /\ deadline \in Nat
  /\ edit \in Edits \cup {NoEdit}
  /\ editor = "edit" => edit \in Edits

\* A thread about to sleep holds the mutex, so not even a push that is under way
\* can have changed the heap; one that sleeps may be a notification behind.
DeadlineIsFirst ==
  /\ thread = "gap" => \A i \in items : deadline <= i.timeout
  /\ thread = "asleep" /\ editor # "tick" => \A i \in items : deadline <= i.timeout

\* Only the thread inside an action delivers, and only an item that was due.
ExecutingIsDue ==
  /\ thread = "exec" => executing \in Items /\ executing.timeout <= now
  /\ lambda # "none" => thread = "exec"

\* Between two lives there is no timer thread.
DownIsQuiet == phase = "down" => thread = "none" /\ lambda = "none"

IInv == HandlerTypes /\ QueueTypes /\ DeadlineIsFirst /\ ExecutingIsDue /\ DownIsQuiet

-----------------------------------------------------------------------------
\* The items of a push and a remove are items of the queue, and so is what the
\* edit leaves.
LEMMA EditsAreTyped ==
  /\ \A r \in Reminders : PushOf(ItemOf(r)) \in Edits
  /\ \A o \in Owners : RemoveOf(o) \in Edits
  /\ \A e \in Edits : items \subseteq Items => Edited(e) \subseteq Items
<1>1. \A r \in Reminders : ItemOf(r) \in Items
  BY LivesAssumption DEF Reminders, ItemOf, Items
<1>2. \A r \in Reminders : PushOf(ItemOf(r)) \in Edits
  BY <1>1 DEF PushOf, Edits
<1>3. \A o \in Owners : RemoveOf(o) \in Edits
  BY DEF RemoveOf, Edits
<1>4. \A e \in Edits : items \subseteq Items => Edited(e) \subseteq Items
  BY DEF Edits, Edited
<1> QED BY <1>2, <1>3, <1>4

\* Where an edit begins, main is in no other, and the heap changes only while
\* there is no thread to sleep.
LEMMA EditBeginKeeps ==
  ASSUME NEW e \in Edits, QueueTypes, DeadlineIsFirst, ExecutingIsDue, EditBegin(e),
         UNCHANGED lambda
  PROVE  QueueTypes' /\ DeadlineIsFirst' /\ ExecutingIsDue'
<1>1. CASE thread = "none"
  <2>1. items' = Edited(e)
    BY <1>1 DEF EditBegin
  <2>2. items' \subseteq Items
    BY <2>1, EditsAreTyped DEF QueueTypes
  <2> QED BY <1>1, <2>2 DEF EditBegin, QueueTypes, DeadlineIsFirst, ExecutingIsDue
<1>2. CASE thread # "none"
  BY <1>2 DEF EditBegin, QueueTypes, DeadlineIsFirst, ExecutingIsDue, Notified
<1> QED BY <1>1, <1>2

LEMMA TopsAndDue ==
  ASSUME QueueTypes
  PROVE  /\ \A i \in Due : i \in Items /\ i.timeout <= now
         /\ \A i \in Tops : i.timeout \in Nat /\ \A j \in items : i.timeout <= j.timeout
BY TimeAssumption DEF Due, Tops, Items, QueueTypes

\* The timer thread, and the clock.
LEMMA QueueStepKeeps ==
  ASSUME QueueTypes, DeadlineIsFirst, ExecutingIsDue, UNCHANGED lambda,
         \/ EditStep \/ ThreadStep \/ SpuriousWake \/ ClockTicks \/ StopDie
         \/ ActionReturns /\ lambda = "none"
  PROVE  /\ QueueTypes' /\ DeadlineIsFirst' /\ ExecutingIsDue'
         /\ thread = "none" => thread' = "none"
<1> USE DEF QueueTypes, DeadlineIsFirst, ExecutingIsDue
<1>1. CASE EditApply
  <2>1. edit \in Edits /\ items' = Edited(edit)
    BY <1>1 DEF EditApply
  <2>2. items' \subseteq Items
    BY <2>1, EditsAreTyped
  <2> QED BY <1>1, <2>2 DEF EditApply, MutexFree
<1>2. CASE EditEnd
  BY <1>2 DEF EditEnd, Notified
<1>3. CASE StopJoin
  BY <1>3 DEF StopJoin
<1>4. CASE Look
  <2>1. CASE \E i \in Due : Execute(i)
    BY <1>4, <2>1, TopsAndDue DEF Look, Execute
  <2>2. CASE thread' = "gap" /\ UNCHANGED <<items, executing>>
             /\ \/ items = {} /\ deadline' = Never
                \/ \E i \in Tops : deadline' = i.timeout
    BY <1>4, <2>2, TopsAndDue, TimeAssumption DEF Look, Never
  <2> QED BY <1>4, <2>1, <2>2 DEF Look
<1>5. CASE Sleep
  BY <1>5 DEF Sleep
<1>6. CASE TimeOut
  BY <1>6 DEF TimeOut
<1>7. CASE Switch
  <2>1. CASE \E i \in Due : Execute(i)
    BY <1>7, <2>1, TopsAndDue DEF Switch, Execute
  <2>2. CASE thread' \in {"done", "lock"} /\ UNCHANGED <<items, executing>>
    BY <1>7, <2>2 DEF Switch
  <2> QED BY <1>7, <2>1, <2>2 DEF Switch
<1>8. CASE SpuriousWake
  BY <1>8 DEF SpuriousWake
<1>9. CASE ClockTicks
  <2>1. thread = "exec" => executing.timeout <= now'
    BY <1>9 DEF ClockTicks, Items
  <2> QED BY <1>9, <2>1 DEF ClockTicks
<1>10. CASE StopDie
  BY <1>10 DEF StopDie, Notified
<1>11. CASE ActionReturns /\ lambda = "none"
  BY <1>11 DEF ActionReturns
<1> QED
  BY <1>1, <1>2, <1>3, <1>4, <1>5, <1>6, <1>7, <1>8, <1>9, <1>10, <1>11
  DEF EditStep, ThreadStep

-----------------------------------------------------------------------------
\* Nothing is stored as no items.
LEMMA EmptyIsStored == EmptyStore \in StoredItems
<1>1. Cardinality({}) = 0 /\ Cardinality({}) \in Counts
  BY FS_EmptySet DEF Counts
<1> QED BY <1>1, EmptySeq DEF EmptyStore, StoredItems

\* The initial heap is empty and nothing was stored.
LEMMA InitIInv == Init => IInv
<1> SUFFICES ASSUME Init PROVE IInv
  OBVIOUS
<1> QED
  BY EmptyIsStored, TimeAssumption
  DEF Init, DownIsQuiet, TimerInit, IInv, HandlerTypes, QueueTypes, DeadlineIsFirst, ExecutingIsDue,
      Never, NoEdit, Edits

\* Nothing is left of a process that ends but its file.
LEMMA GoneKeeps ==
  ASSUME IInv, Gone PROVE IInv'
<1>1. EmptyStore \in StoredItems
  BY EmptyIsStored
<1>2. HandlerTypes'
  BY <1>1 DEF IInv, HandlerTypes, Gone
<1>3. QueueTypes' /\ DeadlineIsFirst' /\ ExecutingIsDue'
  BY TimeAssumption
  DEF IInv, QueueTypes, DeadlineIsFirst, ExecutingIsDue, Gone, Never
<1> QED BY <1>2, <1>3 DEF IInv, DownIsQuiet, Gone

\* Every step preserves the invariant.
LEMMA NextIInv == IInv /\ [Next]_vars => IInv'
<1> SUFFICES ASSUME IInv, [Next]_vars PROVE IInv'
  OBVIOUS
<1> USE DEF IInv, DownIsQuiet
<1>0. QueueTypes /\ DeadlineIsFirst /\ ExecutingIsDue /\ UNCHANGED <<timerVars, lambda>>
      => QueueTypes' /\ DeadlineIsFirst' /\ ExecutingIsDue'
  BY DEF QueueTypes, DeadlineIsFirst, ExecutingIsDue, timerVars
<1>1. CASE Boot
  BY <1>1 DEF Boot, HandlerTypes, QueueTypes, DeadlineIsFirst, ExecutingIsDue
<1>2. CASE AddConnection
  BY <1>0, <1>2 DEF AddConnection, HandlerTypes
<1>3. CASE LoadNext
  <2>1. CASE loaded < Len(mem.entries)
    <3>1. mem.entries[loaded + 1] \in Reminders
      BY <2>1, ElementOfSeq DEF HandlerTypes, StoredItems
    <3>2. EditBegin(PushOf(ItemOf(mem.entries[loaded + 1]))) /\ UNCHANGED lambda
      BY <1>3, <2>1 DEF LoadNext, ScheduleItem
    <3>3. QueueTypes' /\ DeadlineIsFirst' /\ ExecutingIsDue'
      BY <3>1, <3>2, EditsAreTyped, EditBeginKeeps
    <3> QED BY <1>3, <2>1, <3>1, <3>3 DEF LoadNext, ScheduleItem, HandlerTypes
  <2>2. CASE ~(loaded < Len(mem.entries))
    BY <1>0, <1>3, <2>2 DEF LoadNext, HandlerTypes
  <2> QED BY <2>1, <2>2
<1>4. CASE LoadEnd
  <2>1. EmptyStore \in StoredItems
    BY EmptyIsStored
  <2> QED BY <1>0, <1>4, <2>1 DEF LoadEnd, HandlerTypes
<1>5. CASE Run
  BY <1>0, <1>5 DEF Run, HandlerTypes
<1>6. CASE Destroy
  <2>1. QueueTypes' /\ DeadlineIsFirst' /\ ExecutingIsDue'
    BY <1>6, LivesAssumption, EditsAreTyped, EditBeginKeeps DEF Destroy
  <2> QED BY <1>6, <2>1 DEF Destroy, HandlerTypes
<1>7. CASE StoreCount
  <2>1. [count |-> Cardinality(pending), entries |-> <<>>] \in StoredItems
    <3>1. Cardinality(pending) \in Counts
      BY DEF HandlerTypes, Counts
    <3> QED BY <3>1, EmptySeq DEF StoredItems
  <2> QED BY <1>0, <1>7, <2>1 DEF StoreCount, HandlerTypes
<1>8. CASE StoreNext
  <2>1. PICK r \in pending \ Entries(mem) : mem' = [mem EXCEPT !.entries = Append(@, r)]
    BY <1>8 DEF StoreNext
  <2>2. Append(mem.entries, r) \in Seq(Reminders)
    BY <2>1, AppendProperties DEF HandlerTypes, StoredItems
  <2>3. mem' \in StoredItems
    BY <2>1, <2>2 DEF HandlerTypes, StoredItems
  <2> QED BY <1>0, <1>8, <2>3 DEF StoreNext, HandlerTypes
<1>9. CASE Exit \/ Crash
  BY <1>9, GoneKeeps DEF Exit, Crash
<1>10. CASE EditStep /\ UNCHANGED remindVars
  BY <1>10, QueueStepKeeps DEF remindVars, HandlerTypes
<1>11. CASE ThreadStep /\ UNCHANGED remindVars
  BY <1>11, QueueStepKeeps DEF remindVars, HandlerTypes
<1>12. CASE LookupConnection
  <2>1. CASE connected
    BY <1>12, <2>1 DEF LookupConnection, HandlerTypes, QueueTypes, DeadlineIsFirst,
                       ExecutingIsDue, timerVars
  <2>2. CASE ~connected
    BY <1>12, <2>2, QueueStepKeeps DEF LookupConnection, HandlerTypes
  <2> QED BY <2>1, <2>2
<1>13. CASE Deliver
  <2>1. delivered' \in [Ids -> Nat]
    <3>1. executing.id \in Ids
      BY <1>13 DEF Deliver, ExecutingIsDue, Items
    <3>2. delivered[executing.id] + 1 \in Nat
      BY <3>1 DEF HandlerTypes
    <3>3. delivered' = [delivered EXCEPT ![executing.id] = delivered[executing.id] + 1]
      BY <1>13, Zenon DEF Deliver
    <3> QED BY <3>1, <3>2, <3>3 DEF HandlerTypes
  <2>2. QueueTypes' /\ DeadlineIsFirst' /\ ExecutingIsDue'
    BY <1>13 DEF Deliver, QueueTypes, DeadlineIsFirst, ExecutingIsDue, timerVars
  <2> QED BY <1>13, <2>1, <2>2 DEF Deliver, HandlerTypes
<1>14. CASE EraseDelivered
  BY <1>14 DEF EraseDelivered, ActionReturns, HandlerTypes, QueueTypes, DeadlineIsFirst,
               ExecutingIsDue
<1>15. CASE \E id \in Ids, t \in 0..MaxTime : Accept(id, t)
  <2>1. PICK id \in Ids, t \in 0..MaxTime : Accept(id, t)
    BY <1>15
  <2>2. [id |-> id, timeout |-> t] \in Reminders
    BY DEF Reminders
  <2>3. QueueTypes' /\ DeadlineIsFirst' /\ ExecutingIsDue'
    BY <2>1, <2>2, EditsAreTyped, EditBeginKeeps DEF Accept, ScheduleItem
  <2> QED BY <2>1, <2>2, <2>3 DEF Accept, ScheduleItem, HandlerTypes
<1>16. CASE OtherPut
  BY <1>0, <1>16 DEF OtherPut, HandlerTypes
<1>17. CASE Quit
  BY <1>17, QueueStepKeeps DEF Quit, HandlerTypes
<1>18. CASE Throw
  BY <1>0, <1>18 DEF Throw, HandlerTypes
<1>19. CASE (SpuriousWake \/ ClockTicks) /\ UNCHANGED remindVars
  BY <1>19, QueueStepKeeps DEF remindVars, HandlerTypes
<1>20. CASE UNCHANGED vars
  BY <1>0, <1>20 DEF vars, remindVars, timerVars, HandlerTypes
<1> QED
  BY <1>1, <1>2, <1>3, <1>4, <1>5, <1>6, <1>7, <1>8, <1>9, <1>10, <1>11, <1>12, <1>13,
     <1>14, <1>15, <1>16, <1>17, <1>18, <1>19, <1>20
  DEF Next, Main, TimerThread

THEOREM Invariant == Spec => []IInv
<1> QED BY InitIInv, NextIInv, PTL DEF Spec

-----------------------------------------------------------------------------
\* Whenever the timer thread waits and no edit is about to notify it, it waits for
\* the item that is due first, or for an earlier instant.
THEOREM SleepsRight == Spec => []SleepsUntilFirst
<1>1. IInv => SleepsUntilFirst
  BY DEF IInv, DeadlineIsFirst, SleepsUntilFirst
<1> QED BY <1>1, Invariant, PTL

\* No reminder is delivered before its time.
THEOREM DeliversOnTime == Spec => NeverEarly
<1>1. IInv /\ [Next]_vars
      => [ \A id \in Ids :
             delivered'[id] > delivered[id] => executing.id = id /\ executing.timeout <= now ]_vars
  <2> SUFFICES ASSUME IInv, [Next]_vars, NEW id \in Ids, delivered'[id] > delivered[id]
               PROVE  executing.id = id /\ executing.timeout <= now
    OBVIOUS
  <2>1. delivered' # delivered
    BY DEF IInv, HandlerTypes
  <2>2. CASE Deliver
    <3>1. thread = "exec"
      BY <2>2 DEF IInv, ExecutingIsDue, Deliver
    <3>2. executing.id = id
      BY <2>2 DEF Deliver, IInv, HandlerTypes
    <3> QED BY <3>1, <3>2 DEF IInv, ExecutingIsDue
  <2>3. CASE ~Deliver
    <3>1. UNCHANGED delivered
      BY <2>3
      DEF Next, Main, TimerThread, vars, remindVars, Boot, AddConnection, LoadNext, LoadEnd,
          Run, Destroy, StoreCount, StoreNext, Exit, Gone, Crash, LookupConnection,
          EraseDelivered, Accept, OtherPut, Quit, Throw
    <3> QED BY <2>1, <3>1
  <2> QED BY <2>2, <2>3
<1> QED BY <1>1, Invariant, PTL DEF Spec, NeverEarly

-----------------------------------------------------------------------------
(* While every life ended by quitting, each reminder is in one place.       *)

ReminderOf(i) == [id |-> i.id, timeout |-> i.timeout]

Pushing == editor = "edit" /\ edit.op = "push"

\* What the timer has is on Remind's list, and no reminder is in two of its places: the
\* heap, the action that runs, the push that waits for the mutex.
Scheduled ==
  /\ \A i \in items : ReminderOf(i) \in pending
  /\ thread = "exec" => TheReminder \in pending
  /\ Pushing => ReminderOf(edit.item) \in pending
  /\ \A i, j \in items : i.id = j.id => i = j
  /\ thread = "exec" => \A i \in items : i.id # executing.id
  /\ Pushing => \A i \in items : i.id # edit.item.id
  /\ Pushing /\ thread = "exec" => executing.id # edit.item.id

\* The list has a reminder once, and none that was delivered but the one whose action has
\* yet to erase it.
Delivering(id) == lambda = "erase" /\ executing.id = id

Listed ==
  /\ IsFiniteSet(pending) /\ promised \subseteq Ids
  /\ \A r, s \in pending : r.id = s.id => r = s
  /\ \A r \in pending : r.id \in promised /\ (delivered[r.id] > 0 => Delivering(r.id))
  /\ \A id \in Ids : delivered[id] <= 1 /\ (delivered[id] > 0 => id \in promised)
  /\ lambda = "erase" => delivered[executing.id] > 0

\* What the file has for a life to load is whole; what is left to load was not delivered,
\* and is not on the list.
LeftToLoad(n) == phase \in {"down", "load"} /\ n \in DOMAIN file.entries /\ n > loaded

Loadable ==
  /\ phase \in {"down", "load"} =>
       /\ file.count = Len(file.entries) /\ loaded <= Len(file.entries)
       /\ \A m, n \in DOMAIN file.entries : file.entries[m].id = file.entries[n].id => m = n
  /\ \A n \in DOMAIN file.entries : LeftToLoad(n) =>
       /\ file.entries[n].id \in promised /\ delivered[file.entries[n].id] = 0
       /\ \A r \in pending : r.id # file.entries[n].id
  /\ phase = "load" => mem = file
  /\ phase = "down" => loaded = 0

\* Main stops the timer thread before it stores.
StopsFirst ==
  phase \in {"stopping", "store", "storing"} =>
    \/ editor = "idle" /\ thread = "none"
    \/ editor = "join" /\ phase = "stopping"

\* The storage says how many there are before it has them, and has none twice.
Stores ==
  phase = "storing" =>
    /\ file = mem /\ mem.count = Cardinality(pending) /\ Entries(mem) \subseteq pending
    /\ \A m, n \in DOMAIN mem.entries : mem.entries[m] = mem.entries[n] => m = n

PromiseKept(id) ==
  \/ delivered[id] > 0
  \/ \E r \in pending : r.id = id
  \/ \E n \in DOMAIN file.entries : LeftToLoad(n) /\ file.entries[n].id = id

Clean ==
  /\ phase # "broken" /\ Scheduled /\ Listed /\ Loadable /\ StopsFirst /\ Stores
  /\ \A id \in promised : PromiseKept(id)

CleanLives == failures \in Nat /\ (failures = 0 => Clean)

LEMMA TypedStores ==
  ASSUME IInv
  PROVE  /\ \A r \in pending : r \in Reminders /\ r.id \in Ids
         /\ file.entries \in Seq(Reminders) /\ Len(file.entries) \in Nat
         /\ DOMAIN file.entries = 1..Len(file.entries)
         /\ \A n \in DOMAIN file.entries : file.entries[n] \in Reminders /\ file.entries[n].id \in Ids
         /\ mem.entries \in Seq(Reminders) /\ Len(mem.entries) \in Nat
         /\ DOMAIN mem.entries = 1..Len(mem.entries)
         /\ loaded \in Nat
<1>1. file.entries \in Seq(Reminders) /\ mem.entries \in Seq(Reminders) /\ pending \subseteq Reminders
      /\ loaded \in Nat
  BY DEF IInv, HandlerTypes, StoredItems
<1>2. \A r \in Reminders : r.id \in Ids
  BY DEF Reminders
<1>3. \A n \in DOMAIN file.entries : file.entries[n] \in Reminders
  BY <1>1
<1> QED BY <1>1, <1>2, <1>3

\* The steps of the queue itself move an item from a place to the next, or drop it.
LEMMA QueueKeepsScheduled ==
  ASSUME Scheduled, UNCHANGED pending,
         \/ EditStep \/ ThreadStep \/ SpuriousWake \/ ClockTicks \/ StopDie \/ ActionReturns
  PROVE  Scheduled'
<1> USE DEF Scheduled, Pushing, TheReminder, ReminderOf
<1>1. CASE EditApply
  <2>1. editor = "edit" /\ items' = Edited(edit) /\ editor' = "tick" /\ UNCHANGED <<thread, executing>>
    BY <1>1 DEF EditApply
  <2>2. CASE edit.op = "push"
    <3>1. items' = items \cup {edit.item}
      BY <2>1, <2>2 DEF Edited
    <3> QED BY <2>1, <2>2, <3>1
  <2>3. CASE edit.op # "push"
    <3>1. items' \subseteq items
      BY <2>1, <2>3 DEF Edited
    <3> QED BY <2>1, <3>1
  <2> QED BY <2>2, <2>3
<1>2. CASE EditEnd
  BY <1>2 DEF EditEnd, Notified
<1>3. CASE StopJoin
  BY <1>3 DEF StopJoin
<1>4. ASSUME NEW i \in items, Execute(i), UNCHANGED <<editor, edit>> PROVE Scheduled'
  BY <1>4 DEF Execute
<1>5. CASE Look
  <2>1. CASE \E i \in Due : Execute(i)
    BY <1>4, <1>5, <2>1 DEF Look, Due, Tops
  <2>2. CASE thread' = "gap" /\ UNCHANGED <<items, executing>>
    BY <1>5, <2>2 DEF Look
  <2> QED BY <1>5, <2>1, <2>2 DEF Look
<1>6. CASE Sleep
  BY <1>6 DEF Sleep
<1>7. CASE TimeOut \/ SpuriousWake
  BY <1>7 DEF TimeOut, SpuriousWake
<1>8. CASE Switch
  <2>1. CASE \E i \in Due : Execute(i)
    BY <1>4, <1>8, <2>1 DEF Switch, Due, Tops
  <2>2. CASE thread' \in {"done", "lock"} /\ UNCHANGED <<items, executing>>
    BY <1>8, <2>2 DEF Switch
  <2> QED BY <1>8, <2>1, <2>2 DEF Switch
<1>9. CASE ClockTicks
  BY <1>9 DEF ClockTicks
<1>10. CASE StopDie
  BY <1>10 DEF StopDie, Notified
<1>11. CASE ActionReturns
  BY <1>11 DEF ActionReturns
<1> QED BY <1>1, <1>2, <1>3, <1>5, <1>6, <1>7, <1>8, <1>9, <1>10, <1>11 DEF EditStep, ThreadStep

\* schedule_item, of a reminder the list does not have.
LEMMA ScheduleKeeps ==
  ASSUME Scheduled, NEW r, ScheduleItem(r), \A s \in pending : s.id # r.id, r \in Reminders
  PROVE  Scheduled'
<1>1. r = [id |-> r.id, timeout |-> r.timeout]
  BY DEF Reminders
<1>2. PICK i : i = ItemOf(r)
  OBVIOUS
<1>3. ReminderOf(i) = r /\ i.id = r.id
  BY <1>1, <1>2 DEF ReminderOf, ItemOf
<1>4. pending' = pending \cup {r} /\ EditBegin(PushOf(i))
  BY <1>2 DEF ScheduleItem
<1>5. PushOf(i).op = "push" /\ PushOf(i).item = i
  BY DEF PushOf
<1>6. /\ \A j \in items : j.id # i.id
      /\ thread = "exec" => executing.id # i.id
  BY <1>3 DEF Scheduled, ReminderOf, TheReminder
<1>7. CASE thread = "none"
  <2>1. items' = items \cup {i} /\ UNCHANGED <<thread, editor, edit, executing>> /\ editor = "idle"
    BY <1>4, <1>5, <1>7 DEF EditBegin, Edited
  <2> QED BY <1>3, <1>4, <1>6, <1>7, <2>1 DEF Scheduled, Pushing, TheReminder, ReminderOf
<1>8. CASE thread # "none"
  <2>1. /\ UNCHANGED <<items, executing>> /\ edit' = PushOf(i)
        /\ thread' = "exec" <=> thread = "exec"
    BY <1>4, <1>8 DEF EditBegin, Notified
  <2> QED BY <1>3, <1>4, <1>5, <1>6, <2>1 DEF Scheduled, Pushing, TheReminder, ReminderOf
<1> QED BY <1>7, <1>8

\* What the storage has, when it has all, it has as often as it says.
LEMMA StoredAreCounted ==
  ASSUME IInv, Stores, phase = "storing", pending \subseteq Entries(mem)
  PROVE  mem.count = Len(mem.entries)
<1>1. /\ mem.entries \in Seq(Reminders) /\ Len(mem.entries) \in Nat
      /\ DOMAIN mem.entries = 1..Len(mem.entries)
  BY TypedStores
<1>2. mem.entries \in [1..Len(mem.entries) -> pending]
  BY <1>1 DEF Stores, Entries
<1>3. \A m, n \in 1..Len(mem.entries) : mem.entries[m] = mem.entries[n] => m = n
  BY <1>1 DEF Stores
<1>4. \A r \in pending : \E n \in 1..Len(mem.entries) : mem.entries[n] = r
  BY <1>1 DEF Entries
<1>5. mem.entries \in Bijection(1..Len(mem.entries), pending)
  BY <1>2, <1>3, <1>4 DEF Bijection, Injection, IsInjective, Surjection
<1>6. Cardinality(pending) = Len(mem.entries)
  BY <1>1, <1>5, FS_CountingElements DEF ExistsBijection
<1> QED BY <1>6 DEF Stores

\* A step that does not touch what Remind and the storage keep.
LEMMA ListsStay ==
  ASSUME Clean, UNCHANGED <<phase, pending, promised, delivered, lambda, file, mem, loaded>>,
         lambda = "erase" => executing' = executing
  PROVE  phase' # "broken" /\ Listed' /\ Loadable' /\ Stores' /\ \A id \in promised' : PromiseKept(id)'
BY DEF Clean, Listed, Delivering, Loadable, LeftToLoad, Stores, Entries, PromiseKept

LEMMA QueueStepClean ==
  ASSUME IInv, Clean, UNCHANGED remindVars,
         EditStep \/ ThreadStep \/ SpuriousWake \/ ClockTicks
  PROVE  Clean'
<1>1. Scheduled'
  BY QueueKeepsScheduled DEF Clean, remindVars
<1>2. lambda = "erase" => executing' = executing
  <2>1. lambda = "erase" => thread = "exec"
    BY DEF IInv, ExecutingIsDue
  <2> QED BY <2>1 DEF EditStep, EditApply, EditEnd, StopJoin, ThreadStep, Look, Sleep, TimeOut, Switch,
             SpuriousWake, ClockTicks
<1>3. StopsFirst'
  <2>1. StopsFirst /\ UNCHANGED phase
    BY DEF Clean, remindVars
  <2>2. CASE EditStep
    BY <2>1, <2>2 DEF StopsFirst, EditStep, EditApply, EditEnd, StopJoin
  <2>3. CASE ThreadStep \/ SpuriousWake \/ ClockTicks
    <3>1. UNCHANGED editor /\ (thread = "none" => thread' = "none")
      BY <2>3 DEF ThreadStep, Look, Sleep, TimeOut, Switch, SpuriousWake, ClockTicks
    <3> QED BY <2>1, <3>1 DEF StopsFirst
  <2> QED BY <2>2, <2>3
<1> QED BY <1>1, <1>2, <1>3, ListsStay DEF Clean, remindVars

\* The steps of main that leave the queue, the list and the promises alone.
LEMMA BootClean == ASSUME IInv, Clean, Boot PROVE Clean'
<1> USE DEF Boot
<1>1. Scheduled'
  BY DEF Clean, Scheduled, Pushing, ReminderOf, TheReminder
<1>2. lambda # "erase"
  BY DEF IInv, DownIsQuiet
<1>3. Listed'
  BY <1>2 DEF Clean, Listed, Delivering
<1>4. Loadable' /\ \A id \in promised' : PromiseKept(id)'
  BY DEF Clean, Loadable, LeftToLoad, PromiseKept
<1> QED BY <1>1, <1>3, <1>4 DEF Clean, StopsFirst, Stores

LEMMA AddConnectionClean == ASSUME IInv, Clean, AddConnection PROVE Clean'
<1> USE DEF AddConnection, timerVars
<1>1. Scheduled'
  BY DEF Clean, Scheduled, Pushing, ReminderOf, TheReminder
<1> QED BY <1>1, ListsStay DEF Clean, StopsFirst

LEMMA LoadEndClean == ASSUME IInv, Clean, LoadEnd PROVE Clean'
<1> USE DEF LoadEnd, timerVars
<1>1. Scheduled'
  BY DEF Clean, Scheduled, Pushing, ReminderOf, TheReminder
<1>2. Listed'
  BY DEF Clean, Listed, Delivering
<1>3. \A n \in DOMAIN file.entries : ~LeftToLoad(n)
  BY TypedStores DEF Clean, Loadable, LeftToLoad
<1>4. \A id \in promised' : PromiseKept(id)'
  BY <1>3 DEF Clean, PromiseKept
<1> QED BY <1>1, <1>2, <1>4 DEF Clean, StopsFirst, Stores, Loadable, LeftToLoad

\* Once it has loaded, nothing of the file is left to load.
LEMMA ListIsAll ==
  ASSUME Clean, phase \notin {"down", "load"}, phase' \notin {"down", "load"},
         UNCHANGED <<pending, promised, delivered>>
  PROVE  Loadable' /\ \A id \in promised' : PromiseKept(id)'
BY DEF Clean, Loadable, LeftToLoad, PromiseKept

LEMMA RunClean == ASSUME IInv, Clean, Run PROVE Clean'
<1> USE DEF Run, timerVars
<1>1. Scheduled' /\ Listed'
  BY DEF Clean, Scheduled, Pushing, ReminderOf, TheReminder, Listed, Delivering
<1>2. Loadable' /\ \A id \in promised' : PromiseKept(id)'
  BY ListIsAll
<1> QED BY <1>1, <1>2 DEF Clean, StopsFirst, Stores

LEMMA OtherPutClean == ASSUME IInv, Clean, OtherPut PROVE Clean'
<1> USE DEF OtherPut, timerVars
<1>1. Scheduled' /\ Listed'
  BY DEF Clean, Scheduled, Pushing, ReminderOf, TheReminder, Listed, Delivering
<1>2. Loadable' /\ \A id \in promised' : PromiseKept(id)'
  BY ListIsAll
<1> QED BY <1>1, <1>2 DEF Clean, StopsFirst, Stores

LEMMA QuitClean == ASSUME IInv, Clean, Quit PROVE Clean'
<1> USE DEF Quit
<1>1. StopDie /\ UNCHANGED <<pending, promised, delivered, lambda, executing>> /\ phase = "running"
      /\ phase' = "stopping"
  BY DEF StopDie
<1>2. Scheduled'
  BY <1>1, QueueKeepsScheduled DEF Clean
<1>3. Listed'
  BY <1>1 DEF Clean, Listed, Delivering
<1>4. Loadable' /\ \A id \in promised' : PromiseKept(id)'
  BY <1>1, ListIsAll
<1>5. StopsFirst'
  BY <1>1 DEF StopDie, StopsFirst
<1> QED BY <1>1, <1>2, <1>3, <1>4, <1>5 DEF Clean, Stores

LEMMA DestroyClean == ASSUME IInv, Clean, Destroy PROVE Clean'
<1> USE DEF Destroy
<1>1. editor = "idle" /\ thread = "none" /\ phase = "stopping" /\ phase' = "store"
  BY DEF Clean, StopsFirst, EditBegin
<1>2. /\ items' = {i \in items : i.owner # "Remind"}
      /\ UNCHANGED <<thread, editor, edit, executing, pending, promised, delivered, lambda>>
  BY <1>1 DEF EditBegin, Edited, RemoveOf
<1>3. Scheduled' /\ Listed'
  BY <1>1, <1>2 DEF Clean, Scheduled, Pushing, ReminderOf, TheReminder, Listed, Delivering
<1>4. Loadable' /\ \A id \in promised' : PromiseKept(id)'
  BY <1>1, <1>2, ListIsAll
<1> QED BY <1>1, <1>2, <1>3, <1>4 DEF Clean, StopsFirst, Stores

LEMMA StoreCountClean == ASSUME IInv, Clean, StoreCount PROVE Clean'
<1> USE DEF StoreCount, timerVars
<1>1. Scheduled' /\ Listed'
  BY DEF Clean, Scheduled, Pushing, ReminderOf, TheReminder, Listed, Delivering
<1>2. Loadable' /\ \A id \in promised' : PromiseKept(id)'
  BY ListIsAll
<1>3. Stores'
  <2>1. mem' = [count |-> Cardinality(pending), entries |-> <<>>] /\ file' = mem'
        /\ UNCHANGED pending
    OBVIOUS
  <2>2. DOMAIN mem'.entries = {} /\ Entries(mem') = {} /\ mem'.count = Cardinality(pending)
    BY <2>1 DEF Entries
  <2> QED BY <2>1, <2>2 DEF Stores, Entries
<1> QED BY <1>1, <1>2, <1>3 DEF Clean, StopsFirst

LEMMA StoreNextClean == ASSUME IInv, Clean, StoreNext PROVE Clean'
<1> USE DEF StoreNext, timerVars
<1>1. Scheduled' /\ Listed'
  BY DEF Clean, Scheduled, Pushing, ReminderOf, TheReminder, Listed, Delivering
<1>2. Loadable' /\ \A id \in promised' : PromiseKept(id)'
  BY ListIsAll
<1>3. Stores'
  <2>1. PICK r \in pending \ Entries(mem) : mem' = [mem EXCEPT !.entries = Append(@, r)]
    OBVIOUS
  <2>2. /\ mem.entries \in Seq(Reminders) /\ r \in Reminders /\ Len(mem.entries) \in Nat
        /\ DOMAIN mem.entries = 1..Len(mem.entries)
    BY <2>1, TypedStores
  <2>3. PICK a : a = Append(mem.entries, r)
    OBVIOUS
  <2>4. /\ DOMAIN a = 1..(Len(mem.entries) + 1) /\ a[Len(mem.entries) + 1] = r
        /\ \A n \in 1..Len(mem.entries) : a[n] = mem.entries[n]
    <3>1. a \in Seq(Reminders) /\ Len(a) = Len(mem.entries) + 1 /\ a[Len(mem.entries) + 1] = r
          /\ \A n \in 1..Len(mem.entries) : a[n] = mem.entries[n]
      BY <2>2, <2>3, AppendProperties
    <3> QED BY <3>1
  <2>5. mem'.entries = a /\ mem'.count = mem.count
    BY <2>1, <2>3 DEF IInv, HandlerTypes, StoredItems
  <2>6. \A n \in 1..(Len(mem.entries) + 1) : n \in 1..Len(mem.entries) \/ n = Len(mem.entries) + 1
    BY <2>2
  <2>7. \A n \in DOMAIN mem.entries : mem.entries[n] \in pending /\ mem.entries[n] # r
    BY <2>1 DEF Clean, Stores, Entries
  <2>8. \A n \in DOMAIN a : a[n] \in pending
    BY <2>1, <2>2, <2>4, <2>6, <2>7
  <2>9. \A m, n \in DOMAIN a : a[m] = a[n] => m = n
    BY <2>2, <2>4, <2>6, <2>7 DEF Clean, Stores
  <2> QED BY <2>5, <2>8, <2>9 DEF Clean, Stores, Entries
<1> QED BY <1>1, <1>2, <1>3 DEF Clean, StopsFirst

LEMMA LoadNextClean == ASSUME IInv, Clean, LoadNext PROVE Clean'
<1>1. /\ phase = "load" /\ editor = "idle" /\ mem = file /\ file.count = Len(file.entries)
      /\ loaded \in Nat /\ loaded < Len(file.entries) /\ Len(file.entries) \in Nat
  BY TypedStores DEF LoadNext, Clean, Loadable
<1>n. PICK n : n = loaded + 1
  OBVIOUS
<1>2. n \in DOMAIN file.entries /\ n > loaded /\ n <= Len(file.entries) /\ n \in Nat
  BY <1>1, <1>n, TypedStores
<1>r. PICK r : r = file.entries[n]
  OBVIOUS
<1>3. /\ ScheduleItem(r) /\ loaded' = n
      /\ UNCHANGED <<phase, mem, file, lambda, promised, delivered>>
  BY <1>1, <1>n, <1>r DEF LoadNext
<1>4. r \in Reminders /\ r.id \in Ids
  BY <1>2, <1>r, TypedStores
<1>5. r.id \in promised /\ delivered[r.id] = 0 /\ \A s \in pending : s.id # r.id
  BY <1>1, <1>2, <1>r DEF Clean, Loadable, LeftToLoad
<1>6. Scheduled'
  BY <1>3, <1>4, <1>5, ScheduleKeeps DEF Clean
<1>7. pending' = pending \cup {r} /\ UNCHANGED executing
  BY <1>3 DEF ScheduleItem, EditBegin
<1>8. Listed'
  <2>1. IsFiniteSet(pending')
    BY <1>7, FS_AddElement DEF Clean, Listed
  <2>2. \A s \in pending' : s.id \in promised' /\ (delivered'[s.id] > 0 => Delivering(s.id)')
    <3> SUFFICES ASSUME NEW s \in pending'
                 PROVE s.id \in promised' /\ (delivered'[s.id] > 0 => Delivering(s.id)')
      OBVIOUS
    <3>1. CASE s = r
      BY <3>1, <1>3, <1>5
    <3>2. CASE s # r
      BY <3>2, <1>3, <1>7 DEF Clean, Listed, Delivering
    <3> QED BY <3>1, <3>2
  <2>3. \A s, t \in pending' : s.id = t.id => s = t
    BY <1>5, <1>7 DEF Clean, Listed
  <2> QED BY <1>3, <1>7, <2>1, <2>2, <2>3 DEF Clean, Listed
<1>9. Loadable'
  <2>1. /\ file'.count = Len(file'.entries) /\ loaded' <= Len(file'.entries) /\ mem' = file'
        /\ \A k, m \in DOMAIN file'.entries : file'.entries[k].id = file'.entries[m].id => k = m
    BY <1>1, <1>2, <1>3 DEF Clean, Loadable
  <2>2. ASSUME NEW k \in DOMAIN file'.entries, LeftToLoad(k)'
        PROVE  /\ file'.entries[k].id \in promised' /\ delivered'[file'.entries[k].id] = 0
               /\ \A s \in pending' : s.id # file'.entries[k].id
    <3>1. k \in DOMAIN file.entries /\ k > n /\ k \in Nat
      BY <1>3, <2>2, TypedStores DEF LeftToLoad
    <3>2. LeftToLoad(k) /\ k # n
      BY <3>1, <1>1, <1>n, <1>2 DEF LeftToLoad
    <3>3. /\ file.entries[k].id \in promised /\ delivered[file.entries[k].id] = 0
          /\ \A s \in pending : s.id # file.entries[k].id
      BY <3>1, <3>2 DEF Clean, Loadable
    <3>4. r.id # file.entries[k].id
      BY <3>1, <3>2, <1>1, <1>2, <1>r DEF Clean, Loadable
    <3> QED BY <3>3, <3>4, <1>3, <1>7
  <2>3. phase' = "load"
    BY <1>1, <1>3
  <2> QED BY <2>1, <2>2, <2>3 DEF Loadable
<1>10. ASSUME NEW id \in promised' PROVE PromiseKept(id)'
  <2>1. PromiseKept(id)
    BY <1>3 DEF Clean
  <2>2. CASE delivered[id] > 0 \/ \E s \in pending : s.id = id
    BY <2>2, <1>3, <1>7 DEF PromiseKept
  <2>3. ASSUME NEW k \in DOMAIN file.entries, LeftToLoad(k), file.entries[k].id = id PROVE PromiseKept(id)'
    <3>1. CASE k = n
      BY <3>1, <2>3, <1>r, <1>7 DEF PromiseKept
    <3>2. CASE k # n
      <4>1. k > n
        BY <3>2, <2>3, <1>1, <1>n, TypedStores DEF LeftToLoad
      <4> QED BY <4>1, <2>3, <1>1, <1>3 DEF PromiseKept, LeftToLoad
    <3> QED BY <3>1, <3>2
  <2> QED BY <2>1, <2>2, <2>3 DEF PromiseKept
<1> QED BY <1>1, <1>3, <1>6, <1>8, <1>9, <1>10 DEF Clean, StopsFirst, Stores

LEMMA AcceptClean == ASSUME IInv, Clean, NEW id \in Ids, NEW t \in 0..MaxTime, Accept(id, t) PROVE Clean'
<1>r. PICK r : r = [id |-> id, timeout |-> t]
  OBVIOUS
<1>1. /\ phase = "running" /\ id \notin promised /\ promised' = promised \cup {id} /\ ScheduleItem(r)
      /\ UNCHANGED <<phase, mem, file, lambda, loaded, delivered>>
  BY <1>r DEF Accept
<1>2. r \in Reminders /\ r.id = id
  BY <1>r DEF Reminders
<1>3. delivered[id] = 0 /\ \A s \in pending : s.id # r.id
  <2>1. ~(delivered[id] > 0) /\ delivered[id] \in Nat
    BY <1>1 DEF Clean, Listed, IInv, HandlerTypes
  <2> QED BY <2>1, <1>1, <1>2 DEF Clean, Listed
<1>4. Scheduled'
  BY <1>1, <1>2, <1>3, ScheduleKeeps DEF Clean
<1>5. pending' = pending \cup {r} /\ UNCHANGED executing
  BY <1>1 DEF ScheduleItem, EditBegin
<1>6. Listed'
  <2>1. IsFiniteSet(pending')
    BY <1>5, FS_AddElement DEF Clean, Listed
  <2>2. \A s \in pending' : s.id \in promised' /\ (delivered'[s.id] > 0 => Delivering(s.id)')
    <3> SUFFICES ASSUME NEW s \in pending'
                 PROVE s.id \in promised' /\ (delivered'[s.id] > 0 => Delivering(s.id)')
      OBVIOUS
    <3>1. CASE s = r
      BY <3>1, <1>1, <1>2, <1>3
    <3>2. CASE s # r
      BY <3>2, <1>1, <1>5 DEF Clean, Listed, Delivering
    <3> QED BY <3>1, <3>2
  <2>3. \A s, u \in pending' : s.id = u.id => s = u
    BY <1>3, <1>5 DEF Clean, Listed
  <2> QED BY <1>1, <1>5, <2>1, <2>2, <2>3 DEF Clean, Listed
<1>7. Loadable'
  BY <1>1 DEF Loadable, LeftToLoad
<1>8. ASSUME NEW k \in promised' PROVE PromiseKept(k)'
  <2>1. CASE k = id
    BY <2>1, <1>2, <1>5 DEF PromiseKept
  <2>2. CASE k # id
    BY <2>2, <1>1, <1>5 DEF Clean, PromiseKept, LeftToLoad
  <2> QED BY <2>1, <2>2
<1> QED BY <1>1, <1>4, <1>6, <1>7, <1>8 DEF Clean, StopsFirst, Stores

\* Exit leaves a file the next life can load, of what was on the list.
LEMMA ExitClean == ASSUME IInv, Clean, Exit PROVE Clean'
<1>1. /\ phase = "storing" /\ pending \subseteq Entries(mem) /\ phase' = "down" /\ loaded' = 0
      /\ items' = {} /\ thread' = "none" /\ editor' = "idle" /\ pending' = {} /\ lambda' = "none"
      /\ UNCHANGED <<file, promised, delivered>>
  BY DEF Exit, Gone
<1>2. file = mem /\ file.count = Len(file.entries) /\ Entries(mem) = pending
  BY <1>1, StoredAreCounted DEF Clean, Stores
<1>3. Scheduled'
  BY <1>1 DEF Scheduled, Pushing
<1>4. Listed'
  BY <1>1, FS_EmptySet DEF Clean, Listed
<1>5. lambda # "erase"
  BY <1>1 DEF Clean, StopsFirst, IInv, ExecutingIsDue
<1>6. ASSUME NEW n \in DOMAIN file.entries
      PROVE  /\ file.entries[n] \in pending /\ file.entries[n].id \in promised
             /\ delivered[file.entries[n].id] = 0
  <2>1. file.entries[n] \in pending
    BY <1>2 DEF Entries
  <2>2. delivered[file.entries[n].id] \in Nat
    BY <1>6, TypedStores DEF IInv, HandlerTypes
  <2>3. ~(delivered[file.entries[n].id] > 0) /\ file.entries[n].id \in promised
    BY <2>1, <1>5 DEF Clean, Listed, Delivering
  <2> QED BY <2>1, <2>2, <2>3
<1>7. \A m, n \in DOMAIN file.entries : file.entries[m].id = file.entries[n].id => m = n
  BY <1>1, <1>2, <1>6 DEF Clean, Listed, Stores
<1>8. Loadable'
  <2>1. 0 <= Len(file.entries)
    BY TypedStores
  <2> QED BY <1>1, <1>2, <1>6, <1>7, <2>1 DEF Loadable, LeftToLoad
<1>9. ASSUME NEW id \in promised' PROVE PromiseKept(id)'
  <2>1. delivered[id] > 0 \/ \E r \in pending : r.id = id
    BY <1>1, <1>9 DEF Clean, PromiseKept, LeftToLoad
  <2>2. ASSUME NEW r \in pending, r.id = id PROVE PromiseKept(id)'
    <3>1. PICK n \in DOMAIN file.entries : file.entries[n] = r
      BY <1>2, <2>2 DEF Entries
    <3>2. n \in Nat /\ n > 0
      BY <3>1, TypedStores
    <3>3. LeftToLoad(n)'
      BY <3>1, <3>2, <1>1 DEF LeftToLoad
    <3> QED BY <3>1, <3>3, <2>2, <1>1 DEF PromiseKept
  <2> QED BY <2>1, <2>2, <1>1 DEF PromiseKept
<1> QED BY <1>1, <1>3, <1>4, <1>8, <1>9 DEF Clean, StopsFirst, Stores

\* The action of a reminder.
LEMMA LookupClean == ASSUME IInv, Clean, LookupConnection PROVE Clean'
<1>1. /\ thread = "exec" /\ lambda = "none" /\ lambda' \in {"none", "deliver"}
      /\ UNCHANGED <<phase, mem, file, loaded, pending, promised, delivered, editor>>
  BY DEF LookupConnection, timerVars, ActionReturns
<1>2. Scheduled'
  <2>1. CASE connected
    BY <2>1 DEF LookupConnection, timerVars, Clean, Scheduled, Pushing, ReminderOf, TheReminder
  <2>2. CASE ~connected
    BY <2>2, QueueKeepsScheduled DEF LookupConnection, Clean
  <2> QED BY <2>1, <2>2
<1>3. Listed'
  BY <1>1 DEF Clean, Listed, Delivering
<1>4. Loadable' /\ \A id \in promised' : PromiseKept(id)'
  BY <1>1 DEF Clean, Loadable, LeftToLoad, PromiseKept
<1>5. StopsFirst'
  <2>1. thread' \in {"exec", "lock"}
    BY <1>1 DEF LookupConnection, timerVars, ActionReturns
  <2> QED BY <1>1, <2>1 DEF Clean, StopsFirst
<1> QED BY <1>1, <1>2, <1>3, <1>4, <1>5 DEF Clean, Stores

LEMMA DeliverClean == ASSUME IInv, Clean, Deliver PROVE Clean'
<1>1. /\ lambda = "deliver" /\ lambda' = "erase" /\ thread = "exec"
      /\ delivered' = [delivered EXCEPT ![executing.id] = @ + 1]
      /\ UNCHANGED <<phase, mem, file, loaded, pending, promised>> /\ UNCHANGED timerVars
  BY DEF Deliver, IInv, ExecutingIsDue
<1>2. executing.id \in Ids /\ TheReminder \in pending /\ TheReminder.id = executing.id
  BY <1>1 DEF IInv, ExecutingIsDue, Items, Clean, Scheduled, TheReminder
<1>3. delivered[executing.id] = 0
  <2>1. ~(delivered[executing.id] > 0) /\ delivered[executing.id] \in Nat
    BY <1>1, <1>2 DEF Clean, Listed, Delivering, IInv, HandlerTypes
  <2> QED BY <2>1
<1>4. delivered'[executing.id] = 1 /\ \A id \in Ids \ {executing.id} : delivered'[id] = delivered[id]
  BY <1>1, <1>2, <1>3 DEF IInv, HandlerTypes
<1>5. Scheduled' /\ StopsFirst'
  BY <1>1 DEF timerVars, Clean, Scheduled, Pushing, ReminderOf, TheReminder, StopsFirst
<1>6. Listed'
  <2>1. ASSUME NEW r \in pending, delivered'[r.id] > 0 PROVE Delivering(r.id)'
    <3>1. r.id \in Ids
      BY <2>1, TypedStores
    <3>2. CASE r.id = executing.id
      BY <3>2, <1>1 DEF Delivering, timerVars
    <3>3. CASE r.id # executing.id
      BY <3>1, <3>3, <2>1, <1>1, <1>4 DEF Clean, Listed, Delivering
    <3> QED BY <3>2, <3>3
  <2>2. ASSUME NEW id \in Ids PROVE delivered'[id] <= 1 /\ (delivered'[id] > 0 => id \in promised)
    <3>1. CASE id = executing.id
      BY <3>1, <1>2, <1>4 DEF Clean, Listed
    <3>2. CASE id # executing.id
      BY <3>2, <1>4 DEF Clean, Listed
    <3> QED BY <3>1, <3>2
  <2>3. UNCHANGED executing /\ delivered'[executing.id] > 0
    BY <1>1, <1>4 DEF timerVars
  <2> QED BY <1>1, <2>1, <2>2, <2>3 DEF Clean, Listed
<1>7. Loadable'
  <2>1. ASSUME NEW n \in DOMAIN file.entries, LeftToLoad(n) PROVE delivered'[file.entries[n].id] = 0
    <3>1. file.entries[n].id # executing.id /\ delivered[file.entries[n].id] = 0
      BY <2>1, <1>2 DEF Clean, Loadable
    <3>2. file.entries[n].id \in Ids
      BY <2>1, TypedStores
    <3> QED BY <3>1, <3>2, <1>4
  <2> QED BY <1>1, <2>1 DEF Clean, Loadable, LeftToLoad
<1>8. ASSUME NEW id \in promised' PROVE PromiseKept(id)'
  <2>1. PromiseKept(id) /\ id \in Ids
    BY <1>1, <1>8 DEF Clean, Listed
  <2>2. delivered[id] > 0 => delivered'[id] > 0
    BY <2>1, <1>4, <1>3
  <2> QED BY <2>1, <2>2, <1>1 DEF PromiseKept, LeftToLoad
<1> QED BY <1>1, <1>5, <1>6, <1>7, <1>8 DEF Clean, Stores

LEMMA EraseClean == ASSUME IInv, Clean, EraseDelivered PROVE Clean'
<1>1. /\ lambda = "erase" /\ lambda' = "none" /\ phase # "storing" /\ thread = "exec" /\ thread' = "lock"
      /\ pending' = pending \ {TheReminder}
      /\ UNCHANGED <<phase, mem, file, loaded, promised, delivered, items, editor, edit>>
  BY DEF EraseDelivered, ActionReturns
<1>2. TheReminder \in pending /\ TheReminder.id = executing.id
  BY <1>1 DEF Clean, Scheduled, TheReminder
<1>3. Scheduled'
  <2>1. \A i \in items : ReminderOf(i) \in pending'
    <3> TAKE i \in items
    <3>1. ReminderOf(i) \in pending /\ ReminderOf(i).id # executing.id
      BY <1>1 DEF Clean, Scheduled, ReminderOf
    <3> QED BY <3>1, <1>1, <1>2
  <2>2. Pushing => ReminderOf(edit.item) \in pending'
    <3> HAVE Pushing
    <3>1. ReminderOf(edit.item) \in pending /\ ReminderOf(edit.item).id # executing.id
      BY <1>1 DEF Clean, Scheduled, ReminderOf
    <3> QED BY <3>1, <1>1, <1>2
  <2> QED BY <1>1, <2>1, <2>2 DEF Clean, Scheduled, Pushing, ReminderOf
<1>4. Listed'
  <2>1. IsFiniteSet(pending')
    BY <1>1, FS_RemoveElement DEF Clean, Listed
  <2>2. \A r \in pending' : r.id # executing.id
    BY <1>1, <1>2 DEF Clean, Listed
  <2> QED BY <1>1, <2>1, <2>2 DEF Clean, Listed, Delivering
<1>5. Loadable'
  BY <1>1 DEF Clean, Loadable, LeftToLoad
<1>6. ASSUME NEW id \in promised' PROVE PromiseKept(id)'
  <2>1. PromiseKept(id)
    BY <1>1, <1>6 DEF Clean
  <2>2. ASSUME NEW r \in pending, r.id = id PROVE PromiseKept(id)'
    <3>1. CASE r = TheReminder
      <4>1. executing.id = id /\ id \in Ids
        BY <3>1, <2>2, <1>2, TypedStores
      <4>2. delivered[id] > 0
        BY <4>1, <1>1 DEF Clean, Listed
      <4> QED BY <4>2, <1>1 DEF PromiseKept
    <3>2. CASE r # TheReminder
      BY <3>2, <2>2, <1>1 DEF PromiseKept
    <3> QED BY <3>1, <3>2
  <2> QED BY <2>1, <2>2, <1>1 DEF PromiseKept, LeftToLoad
<1>7. StopsFirst' /\ Stores'
  BY <1>1 DEF Clean, StopsFirst, Stores
<1> QED BY <1>1, <1>3, <1>4, <1>5, <1>6, <1>7 DEF Clean

LEMMA StartClean == Init => CleanLives
<1> SUFFICES ASSUME Init PROVE CleanLives
  OBVIOUS
<1> USE DEF Init, TimerInit
<1>1. DOMAIN file.entries = {} /\ Len(file.entries) = 0 /\ file.count = 0
  BY EmptySeq DEF EmptyStore
<1>2. Scheduled /\ Stores /\ StopsFirst
  BY DEF Scheduled, Pushing, Stores, StopsFirst
<1>3. Listed
  BY FS_EmptySet DEF Listed
<1>4. Loadable
  BY <1>1 DEF Loadable
<1> QED BY <1>2, <1>3, <1>4 DEF Clean, CleanLives

LEMMA NextClean == IInv /\ CleanLives /\ [Next]_vars => CleanLives'
<1> SUFFICES ASSUME IInv, CleanLives, [Next]_vars
             PROVE failures' \in Nat /\ (failures' = 0 => Clean')
  BY DEF CleanLives
<1>1. CASE Throw \/ Crash
  <2>1. failures' = failures + 1 /\ failures \in Nat
    BY <1>1 DEF Throw, Crash, CleanLives
  <2> QED BY <2>1
<1>2. CASE UNCHANGED vars
  BY <1>2 DEF vars, remindVars, timerVars, CleanLives, Clean, Scheduled, Pushing, ReminderOf, TheReminder,
     Listed, Delivering, Loadable, LeftToLoad, StopsFirst, Stores, Entries, PromiseKept
<1>3. CASE ~(Throw \/ Crash) /\ Next
  <2>1. UNCHANGED failures
    BY <1>3 DEF Next, Main, TimerThread, remindVars, Boot, AddConnection, LoadNext, LoadEnd,
       Run, Destroy, StoreCount, StoreNext, Exit, LookupConnection, Deliver, EraseDelivered, Accept,
       OtherPut, Quit
  <2>2. failures' \in Nat /\ (failures' = 0 => Clean)
    BY <2>1 DEF CleanLives
  <2> QED
    BY <1>3, <2>2, BootClean, AddConnectionClean, LoadNextClean, LoadEndClean, RunClean, DestroyClean,
       StoreCountClean, StoreNextClean, ExitClean, QueueStepClean, LookupClean, DeliverClean,
       EraseClean, AcceptClean, OtherPutClean, QuitClean
    DEF Next, Main, TimerThread
<1> QED BY <1>1, <1>2, <1>3

LEMMA CleanInvariance == Spec => []CleanLives
<1>1. Init => CleanLives
  BY StartClean
<1>2. IInv /\ CleanLives /\ [Next]_vars => CleanLives'
  BY NextClean
<1> QED BY <1>1, <1>2, Invariant, PTL DEF Spec

\* Over lives that all ended by quitting, no reminder is delivered twice.  DeliveredOnce
\* (Remind), of Remind's list, store_items and load_items.
THEOREM NobodyIsToldTwice == Spec => []DeliveredOnce
<1>1. CleanLives => DeliveredOnce
  BY DEF CleanLives, Clean, Listed, DeliveredOnce
<1> QED BY <1>1, CleanInvariance, PTL

\* Over such lives, what was promised was delivered, is on Remind's list, or in the file, which
\* can be loaded.  NoneForgotten (Remind), of store_items and load_items.
THEOREM NothingIsForgotten == Spec => []NoneForgotten
<1>1. CleanLives => NoneForgotten
  <2> SUFFICES ASSUME CleanLives, failures = 0
               PROVE  /\ phase # "broken"
                      /\ \A id \in promised :
                           \/ delivered[id] > 0
                           \/ \E r \in pending \cup Entries(file) : r.id = id
    BY DEF NoneForgotten
  <2>1. Clean
    BY DEF CleanLives
  <2>2. ASSUME NEW id \in promised
        PROVE  delivered[id] > 0 \/ \E r \in pending \cup Entries(file) : r.id = id
    BY <2>1, <2>2 DEF Clean, PromiseKept, Entries
  <2> QED BY <2>1, <2>2 DEF Clean
<1> QED BY <1>1, CleanInvariance, PTL
=============================================================================
