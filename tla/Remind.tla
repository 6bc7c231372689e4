------------------------------- MODULE Remind -------------------------------
(***************************************************************************)
(* The Remind handler (modules/timer/handlers.cpp) on the TimerQueue, over *)
(* several lives of the process.  main (`phase`) boots: the services are   *)
(* started, Remind's constructor loads what the last life stored, the      *)
(* connection is created somewhere around that; it accepts reminders; it   *)
(* quits: the services are stopped, Remind's destructor removes its items  *)
(* and stores what is left.  An exception other than MelanobotError skips  *)
(* the stop of the services; a crash skips everything.  The storage is     *)
(* FileStorage with the default policy: put saves the file, erase does not.*)
(***************************************************************************)
EXTENDS TimerQueue, Sequences, FiniteSets

CONSTANTS
  MaxBoots,       \* bound: lives of the process
  MaxFailures     \* bound: crashes and unhandled exceptions

ASSUME LivesAssumption ==
  /\ MaxBoots \in Nat /\ MaxFailures \in Nat
  /\ "Remind" \in Owners

VARIABLES
  phase,       \* where main is
  boots,       \* lives so far
  failures,    \* lives that ended otherwise than by quitting
  mem,         \* the storage in memory, under Remind's path
  file,        \* the storage on disk, under Remind's path
  loaded,      \* how many items load_items has scheduled
  pending,     \* Remind::items
  lambda,      \* where the action of the executing item is
  connected,   \* Melanobot has the connection the reminders are for
  promised,    \* ids of accepted reminders ("Got it!")
  delivered    \* how often each was delivered

remindVars == <<phase, boots, failures, mem, file, loaded, pending, lambda,
                connected, promised, delivered>>
vars == <<timerVars, remindVars>>

Reminders == [id : Ids, timeout : 0..MaxTime]
ItemOf(r) == [id |-> r.id, timeout |-> r.timeout, owner |-> "Remind"]

\* What is stored: the count, and the items one by one.
EmptyStore == [count |-> 0, entries |-> <<>>]

Entries(store) == {store.entries[n] : n \in DOMAIN store.entries}

Init ==
  /\ TimerInit
  /\ phase = "down"
  /\ boots = 0 /\ failures = 0
  /\ mem = EmptyStore /\ file = EmptyStore
  /\ loaded = 0
  /\ pending = {}
  /\ lambda = "none"
  /\ connected = FALSE
  /\ promised = {}
  /\ delivered = [id \in Ids |-> 0]

-----------------------------------------------------------------------------
(* main *)

\* The storage is read, the services are started.
Boot ==
  /\ phase = "down"
  /\ boots < MaxBoots
  /\ phase' = "load"
  /\ boots' = boots + 1
  /\ mem' = file
  /\ loaded' = 0
  /\ timer_action' = "Tick"
  /\ thread' = "lock"
  /\ UNCHANGED <<now, items, deadline, executing, editor, edit, failures, file, pending,
                 lambda, connected, promised, delivered>>

\* Before, between or after the handlers, or not at all: as the configuration
\* has it.
AddConnection ==
  /\ phase \in {"load", "loaded"}
  /\ connected' = TRUE
  /\ UNCHANGED <<timerVars, phase, boots, failures, mem, file, loaded, pending, lambda,
                 promised, delivered>>

\* schedule_item: onto Remind's own list and into the timer's heap.
ScheduleItem(r) ==
  /\ pending' = pending \cup {r}
  /\ EditBegin(PushOf(ItemOf(r)))

\* load_items: the next of the `count` items.  One that is missing is a
\* StorageError, which ConfigFactory::build does not catch: the bot gives up.
LoadNext ==
  /\ phase = "load"
  /\ editor = "idle"
  /\ loaded < mem.count
  /\ IF loaded < Len(mem.entries)
     THEN /\ ScheduleItem(mem.entries[loaded + 1])
          /\ loaded' = loaded + 1
          /\ UNCHANGED phase
     ELSE phase' = "broken" /\ UNCHANGED <<timerVars, pending, loaded>>
  /\ UNCHANGED <<boots, failures, mem, file, lambda, connected, promised, delivered>>

\* ... and the erase, which reaches the disk with the next put only.
LoadEnd ==
  /\ phase = "load"
  /\ editor = "idle"
  /\ loaded = mem.count
  /\ mem' = EmptyStore
  /\ phase' = "loaded"
  /\ UNCHANGED <<timerVars, boots, failures, file, loaded, pending, lambda, connected,
                 promised, delivered>>

Run ==
  /\ phase = "loaded"
  /\ phase' = "running"
  /\ UNCHANGED <<timerVars, boots, failures, mem, file, loaded, pending, lambda,
                 connected, promised, delivered>>

\* on_handle: a user asks for a reminder; a time in the past is accepted too.
Accept(id, time) ==
  /\ phase = "running"
  /\ id \notin promised
  /\ promised' = promised \cup {id}
  /\ ScheduleItem([id |-> id, timeout |-> time])
  /\ UNCHANGED <<phase, boots, failures, mem, file, loaded, lambda, connected, delivered>>

\* Any other handler stores something: the whole tree is saved.
OtherPut ==
  /\ phase = "running"
  /\ editor = "idle"
  /\ file' = mem
  /\ UNCHANGED <<timerVars, phase, boots, failures, mem, loaded, pending, lambda,
                 connected, promised, delivered>>

\* The end of execution: ServiceRegistry::stop ...
Quit ==
  /\ phase = "running"
  /\ StopDie
  /\ phase' = "stopping"
  /\ UNCHANGED <<boots, failures, mem, file, loaded, pending, lambda, connected,
                 promised, delivered>>

\* ... which the process skips when an exception leaves main's try block.
Throw ==
  /\ phase = "running"
  /\ editor = "idle"
  /\ failures < MaxFailures
  /\ failures' = failures + 1
  /\ phase' = "stopping"
  /\ UNCHANGED <<timerVars, boots, mem, file, loaded, pending, lambda, connected,
                 promised, delivered>>

\* ~Remind: remove(this), then store_items.
Destroy ==
  /\ phase = "stopping"
  /\ EditBegin(RemoveOf("Remind"))
  /\ phase' = "store"
  /\ UNCHANGED <<boots, failures, mem, file, loaded, pending, lambda, connected,
                 promised, delivered>>

\* store_items, holding Remind's mutex from here on: the count ...
StoreCount ==
  /\ phase = "store"
  /\ editor = "idle"
  /\ mem' = [count |-> Cardinality(pending), entries |-> <<>>]
  /\ file' = mem'
  /\ phase' = "storing"
  /\ UNCHANGED <<timerVars, boots, failures, loaded, pending, lambda, connected,
                 promised, delivered>>

\* ... then each item; every put saves the file.
StoreNext ==
  /\ phase = "storing"
  /\ \E r \in pending \ Entries(mem) :
       mem' = [mem EXCEPT !.entries = Append(@, r)]
  /\ file' = mem'
  /\ UNCHANGED <<timerVars, phase, boots, failures, loaded, pending, lambda, connected,
                 promised, delivered>>

\* What a process that ends takes with it.
Gone ==
  /\ phase' = "down"
  /\ items' = {} /\ timer_action' = "Tick" /\ thread' = "none" /\ deadline' = Never
  /\ executing' = NoItem /\ editor' = "idle" /\ edit' = NoEdit
  /\ mem' = EmptyStore /\ loaded' = 0 /\ pending' = {} /\ lambda' = "none"
  /\ connected' = FALSE
  /\ UNCHANGED <<now, boots, file, promised, delivered>>

Exit ==
  /\ phase = "storing"
  /\ pending \subseteq Entries(mem)
  /\ Gone
  /\ UNCHANGED failures

Crash ==
  /\ phase \notin {"down", "broken"}
  /\ failures < MaxFailures
  /\ failures' = failures + 1
  /\ Gone

-----------------------------------------------------------------------------
(* The action of a reminder, on the timer thread *)

TheReminder == [id |-> executing.id, timeout |-> executing.timeout]

\* Mutant: an item without a connection is dropped from the list.
LookupDropping ==
  /\ thread = "exec" /\ lambda = "none"
  /\ IF connected
     THEN lambda' = "deliver" /\ UNCHANGED <<timerVars, pending>>
     ELSE ActionReturns /\ pending' = pending \ {TheReminder} /\ UNCHANGED lambda
  /\ UNCHANGED <<phase, boots, failures, mem, file, loaded, connected, promised, delivered>>

\* Without the connection it returns, and leaves the item on Remind's list.
LookupConnection ==
  /\ thread = "exec" /\ lambda = "none"
  /\ IF connected
     THEN lambda' = "deliver" /\ UNCHANGED timerVars
     ELSE ActionReturns /\ UNCHANGED lambda
  /\ UNCHANGED <<phase, boots, failures, mem, file, loaded, pending, connected,
                 promised, delivered>>

Deliver ==
  /\ lambda = "deliver"
  /\ delivered' = [delivered EXCEPT ![executing.id] = @ + 1]
  /\ lambda' = "erase"
  /\ UNCHANGED <<timerVars, phase, boots, failures, mem, file, loaded, pending, connected,
                 promised>>

\* items.erase(iterator), under the mutex store_items holds.
EraseDelivered ==
  /\ lambda = "erase"
  /\ phase # "storing"
  /\ pending' = pending \ {TheReminder}
  /\ lambda' = "none"
  /\ ActionReturns
  /\ UNCHANGED <<phase, boots, failures, mem, file, loaded, connected, promised, delivered>>

-----------------------------------------------------------------------------
Main ==
  \/ Boot \/ AddConnection \/ LoadNext \/ LoadEnd \/ Run
  \/ Destroy \/ StoreCount \/ StoreNext \/ Exit
  \/ EditStep /\ UNCHANGED remindVars

TimerThread ==
  \/ ThreadStep /\ UNCHANGED remindVars
  \/ LookupConnection \/ Deliver \/ EraseDelivered

Next ==
  \/ Main
  \/ TimerThread
  \/ (\E id \in Ids, t \in 0..MaxTime : Accept(id, t)) \/ OtherPut \/ Quit \/ Throw \/ Crash
  \/ (SpuriousWake \/ ClockTicks) /\ UNCHANGED remindVars

Spec == Init /\ [][Next]_vars

\* Time passes; both threads go on; a connection that the configuration has is
\* created.  Nobody has to ask, quit or fail.
FairSpec ==
  /\ Spec
  /\ WF_vars(Main)
  /\ WF_vars(TimerThread)
  /\ WF_vars(ClockTicks /\ UNCHANGED remindVars)

-----------------------------------------------------------------------------
\* No reminder is delivered before its time, spurious wake-ups and concurrent
\* edits of the heap notwithstanding.
NeverEarly ==
  [][ \A id \in Ids :
        delivered'[id] > delivered[id] => executing.id = id /\ executing.timeout <= now ]_vars

\* Over lives that all ended by quitting, no reminder is delivered twice:
\* not even one whose action was running when the bot was told to quit.
DeliveredOnce == failures = 0 => \A id \in Ids : delivered[id] <= 1

\* ... and none is forgotten: what was promised was delivered, is on Remind's
\* list, or is in the storage the next life will read, and can read.
NoneForgotten ==
  failures = 0 =>
    /\ phase # "broken"
    /\ \A id \in promised :
         \/ delivered[id] > 0
         \/ \E r \in pending \cup Entries(file) : r.id = id

\* A reminder that is due while the bot runs leaves the heap.
DueIsExecuted ==
  \A id \in Ids :
    (\E i \in items : i.id = id /\ i.timeout <= now)
      ~> ((\A i \in items : i.id # id) \/ phase # "running")

\* stop() ends when it finds the timer thread asleep, and a thread that sleeps until
\* an item ends it with that item.  (One that is told to die while it looks for
\* work or does it, and then finds no item, sleeps for good and is joined in vain,
\* though timer-queue.hpp:78 says "Stops the thread".)
StopEnds ==
  (editor = "join" /\ (thread = "woken" \/ (thread = "asleep" /\ deadline # Never)))
    ~> editor # "join"
=============================================================================
