------------------------------ MODULE TimerQueue ------------------------------
(***************************************************************************)
(* The timer service (modules/timer/timer-queue.cpp): a heap of actions    *)
(* with a time, executed by one thread.  push, remove, start and stop are  *)
(* all called on the main thread, whose place inside them is `editor`.     *)
(* The mutex is held over several steps only by the timer thread between   *)
(* finding nothing to do and sleeping ("gap").  What an action does is up  *)
(* to the module that pushes it (Remind).                                  *)
(***************************************************************************)
EXTENDS Naturals

CONSTANTS
  Ids,        \* identities of pushed items
  Owners,     \* objects that own items
  MaxTime     \* bound: the last instant of the clock

ASSUME TimeAssumption == MaxTime \in Nat

VARIABLES
  now,           \* network::Clock::now()
  items,         \* the heap
  timer_action,  \* what the thread does when it wakes
  thread,        \* program counter of run(); "none": not joinable
  deadline,      \* what it sleeps until
  executing,     \* the item whose action runs, or NoItem
  editor,        \* where main is inside push, remove or stop
  edit           \* the edit it is making

timerVars == <<now, items, timer_action, thread, deadline, executing, editor, edit>>

Items == [id : Ids, timeout : 0..MaxTime, owner : Owners]
NoItem == [id |-> "none"]

Edits == [op : {"push"}, item : Items] \cup [op : {"remove"}, owner : Owners]
NoEdit == [op |-> "none"]
PushOf(item) == [op |-> "push", item |-> item]
RemoveOf(owner) == [op |-> "remove", owner |-> owner]

Never == MaxTime + 1

\* items[0]: one that is due first.
Tops == {i \in items : \A j \in items : i.timeout <= j.timeout}
Due == {i \in Tops : i.timeout <= now}

\* notify_one: the timer thread is the only one that waits.
Notified == IF thread = "asleep" THEN "woken" ELSE thread

\* The mutex the timer thread keeps.
MutexFree == thread # "gap"

Edited(e) ==
  IF e.op = "push" THEN items \cup {e.item} ELSE {i \in items : i.owner # e.owner}

TimerInit ==
  /\ now = 0
  /\ items = {}
  /\ timer_action = "Tick"
  /\ thread = "none"
  /\ deadline = Never
  /\ executing = NoItem
  /\ editor = "idle"
  /\ edit = NoEdit

-----------------------------------------------------------------------------
(* main: EditLock and the edit it guards *)

\* The constructor: with no thread there is nothing to lock, and the edit is
\* done at once; else Noop, notify_one, and on to lock the mutex.
EditBegin(e) ==
  /\ editor = "idle"
  /\ IF thread = "none"
     THEN items' = Edited(e) /\ UNCHANGED <<timer_action, thread, editor, edit>>
     ELSE /\ timer_action' = "Noop"
          /\ thread' = Notified
          /\ editor' = "edit"
          /\ edit' = e
          /\ UNCHANGED items
  /\ UNCHANGED <<now, deadline, executing>>

EditApply ==
  /\ editor = "edit"
  /\ MutexFree
  /\ items' = Edited(edit)
  /\ edit' = NoEdit
  /\ editor' = "tick"
  /\ UNCHANGED <<now, timer_action, thread, deadline, executing>>

\* Mutant: the destructor does not notify.
EditEndSilent ==
  /\ editor = "tick"
  /\ timer_action' = "Tick"
  /\ editor' = "idle"
  /\ UNCHANGED <<now, items, thread, deadline, executing, edit>>

\* The destructor, after the unlock: Tick, notify_one.
EditEnd ==
  /\ editor = "tick"
  /\ timer_action' = "Tick"
  /\ thread' = Notified
  /\ editor' = "idle"
  /\ UNCHANGED <<now, items, deadline, executing, edit>>

\* stop(): Die, notify_one (without the mutex) and join.
StopDie ==
  /\ editor = "idle"
  /\ thread # "none"
  /\ timer_action' = "Die"
  /\ thread' = Notified
  /\ editor' = "join"
  /\ UNCHANGED <<now, items, deadline, executing, edit>>

\* Mutant: detached instead of joined.
StopDetach ==
  /\ editor = "join"
  /\ editor' = "idle"
  /\ UNCHANGED <<now, items, timer_action, thread, deadline, executing, edit>>

StopJoin ==
  /\ editor = "join"
  /\ thread = "done"
  /\ thread' = "none"
  /\ editor' = "idle"
  /\ UNCHANGED <<now, items, timer_action, deadline, executing, edit>>

-----------------------------------------------------------------------------
(* The timer thread: run() and tick() *)

\* pop_heap, unlock, and the action is about to run.
Execute(i) ==
  /\ items' = items \ {i}
  /\ executing' = i
  /\ thread' = "exec"

\* The top of the loop: lock, tick, or wait for the first item, if any.
Look ==
  /\ thread = "lock"
  /\ \/ /\ \E i \in Due : Execute(i)
        /\ UNCHANGED deadline
     \/ /\ Due = {}
        /\ thread' = "gap"
        /\ \/ items = {} /\ deadline' = Never
           \/ \E i \in Tops : deadline' = i.timeout
        /\ UNCHANGED <<items, executing>>
  /\ UNCHANGED <<now, timer_action, editor, edit>>

Sleep ==
  /\ thread = "gap"
  /\ thread' = "asleep"
  /\ UNCHANGED <<now, items, timer_action, deadline, executing, editor, edit>>

TimeOut ==
  /\ thread = "asleep"
  /\ deadline <= now
  /\ thread' = "woken"
  /\ UNCHANGED <<now, items, timer_action, deadline, executing, editor, edit>>

SpuriousWake ==
  /\ thread = "asleep"
  /\ thread' = "woken"
  /\ UNCHANGED <<now, items, timer_action, deadline, executing, editor, edit>>

\* Mutant: tick() without the test for spurious wake-ups.
SwitchBlindly ==
  /\ thread = "woken"
  /\ \/ timer_action = "Tick" /\ \E i \in Tops : Execute(i)
     \/ /\ timer_action = "Tick" => items = {}
        /\ thread' = IF timer_action = "Die" THEN "done" ELSE "lock"
        /\ UNCHANGED <<items, executing>>
  /\ UNCHANGED <<now, timer_action, deadline, editor, edit>>

\* Mutant: a loop that does not know Die.
SwitchDeathless ==
  /\ thread = "woken"
  /\ \/ timer_action = "Tick" /\ \E i \in Due : Execute(i)
     \/ /\ timer_action = "Tick" => Due = {}
        /\ thread' = "lock"
        /\ UNCHANGED <<items, executing>>
  /\ UNCHANGED <<now, timer_action, deadline, editor, edit>>

\* The wait returned, with the mutex: switch( timer_action ).
Switch ==
  /\ thread = "woken"
  /\ \/ timer_action = "Tick" /\ \E i \in Due : Execute(i)
     \/ /\ timer_action = "Tick" => Due = {}
        /\ thread' = IF timer_action = "Die" THEN "done" ELSE "lock"
        /\ UNCHANGED <<items, executing>>
  /\ UNCHANGED <<now, timer_action, deadline, editor, edit>>

\* item.action() returns.
ActionReturns ==
  /\ thread = "exec"
  /\ executing' = NoItem
  /\ thread' = "lock"
  /\ UNCHANGED <<now, items, timer_action, deadline, editor, edit>>

ClockTicks ==
  /\ now < MaxTime
  /\ now' = now + 1
  /\ UNCHANGED <<items, timer_action, thread, deadline, executing, editor, edit>>

EditStep == EditApply \/ EditEnd \/ StopJoin
ThreadStep == Look \/ Sleep \/ TimeOut \/ Switch

\* The timer thread never sleeps past an item: each time it waits with nobody
\* inside an edit, it waits for the first item (or the edit will notify it).
SleepsUntilFirst ==
  thread \in {"gap", "asleep"} /\ editor # "tick" =>
    \A i \in items : deadline <= i.timeout
=============================================================================
