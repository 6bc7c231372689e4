----------------------------- MODULE MessageQueue -----------------------------
(***************************************************************************)
(* ConcurrentContainer over std::queue (src/src/concurrency/container.hpp):*)
(* the queue the connections push messages to and Melanobot::run pops from.*)
(* Any number of producers, one consumer, and a thread that stops and      *)
(* restarts it.  run is an atomic flag outside the mutex; everything else  *)
(* happens under it.  Only the consumer keeps the mutex over several steps *)
(* (it sleeps on the condition variable), so who holds it is read off      *)
(* `popping`, and the critical section of push is one step.                *)
(***************************************************************************)
EXTENDS Naturals, Sequences

CONSTANTS
  Producers,    \* threads that call push
  MaxPushes,    \* bound: pushes of each producer
  MaxStops      \* bound: calls of stop

ASSUME BoundsAssumption == MaxPushes \in Nat /\ MaxStops \in Nat

VARIABLES
  run,          \* the atomic flag behind active()
  container,    \* the std::queue, front first
  pushing,      \* producers past `if ( !run ) return`, not yet in the section
  sent,         \* pushes each producer began; numbers its messages
  popping,      \* where the consumer is
  stopping,     \* stop() has cleared run and not yet notified
  stops,        \* calls of stop so far
  delivered     \* history: what pop returned, in order

vars == <<run, container, pushing, sent, popping, stopping, stops, delivered>>

Messages == [from : Producers, id : Nat]

MessageOf(p) == [from |-> p, id |-> sent[p]]

\* out: in the loop around pop;  lock: pop entered, mutex not yet taken;
\* test: at the predicate;  wait: predicate said wait, mutex still held;
\* asleep: in the condition variable;  woken: notified, mutex to retake;
\* checked: past the wait;  take: past `if ( !run ) return`.
PopPoints == {"out", "lock", "test", "wait", "asleep", "woken", "checked", "take"}

MutexFree == popping \in {"out", "lock", "asleep", "woken"}

\* condition.notify_one / notify_all: the consumer is the only waiter.
Notified == IF popping = "asleep" THEN "woken" ELSE popping

wait_condition == container = <<>> /\ run

Init ==
  /\ run = TRUE
  /\ container = <<>>
  /\ pushing = {}
  /\ sent = [p \in Producers |-> 0]
  /\ popping = "out"
  /\ stopping = FALSE
  /\ stops = 0
  /\ delivered = <<>>

-----------------------------------------------------------------------------
\* Mutant: push does not test run.
PushTestAlways(p) ==
  /\ p \notin pushing
  /\ sent[p] < MaxPushes
  /\ sent' = [sent EXCEPT ![p] = @ + 1]
  /\ pushing' = pushing \cup {p}
  /\ UNCHANGED <<run, container, popping, stopping, stops, delivered>>

\* push: the test of run, outside the mutex.
PushTest(p) ==
  /\ p \notin pushing
  /\ sent[p] < MaxPushes
  /\ sent' = [sent EXCEPT ![p] = @ + 1]
  /\ pushing' = IF run THEN pushing \cup {p} ELSE pushing
  /\ UNCHANGED <<run, container, popping, stopping, stops, delivered>>

\* Mutant: push does not lock the mutex.
PushInsertUnlocked(p) ==
  /\ p \in pushing
  /\ container' = Append(container, MessageOf(p))
  /\ pushing' = pushing \ {p}
  /\ popping' = Notified
  /\ UNCHANGED <<run, sent, stopping, stops, delivered>>

\* Mutant: push does not notify.
PushInsertSilent(p) ==
  /\ p \in pushing
  /\ MutexFree
  /\ container' = Append(container, MessageOf(p))
  /\ pushing' = pushing \ {p}
  /\ UNCHANGED <<run, sent, popping, stopping, stops, delivered>>

\* push: lock, insert, notify_one, unlock.
PushInsert(p) ==
  /\ p \in pushing
  /\ MutexFree
  /\ container' = Append(container, MessageOf(p))
  /\ pushing' = pushing \ {p}
  /\ popping' = Notified
  /\ UNCHANGED <<run, sent, stopping, stops, delivered>>

\* The loop `while ( active() )` around pop, in Melanobot::run and run_output.
PopEnter ==
  /\ popping = "out"
  /\ run
  /\ popping' = "lock"
  /\ UNCHANGED <<run, container, pushing, sent, stopping, stops, delivered>>

PopLock ==
  /\ popping \in {"lock", "woken"}
  /\ popping' = "test"
  /\ UNCHANGED <<run, container, pushing, sent, stopping, stops, delivered>>

PopTest ==
  /\ popping = "test"
  /\ popping' = IF wait_condition THEN "wait" ELSE "checked"
  /\ UNCHANGED <<run, container, pushing, sent, stopping, stops, delivered>>

PopSleep ==
  /\ popping = "wait"
  /\ popping' = "asleep"
  /\ UNCHANGED <<run, container, pushing, sent, stopping, stops, delivered>>

\* std::condition_variable may wake for no reason.
PopSpurious ==
  /\ popping = "asleep"
  /\ popping' = "woken"
  /\ UNCHANGED <<run, container, pushing, sent, stopping, stops, delivered>>

\* Mutant: without it.
PopCheckNothing ==
  /\ popping = "checked"
  /\ popping' = "take"
  /\ UNCHANGED <<run, container, pushing, sent, stopping, stops, delivered>>

\* `if ( !run ) return;`
PopCheckRun ==
  /\ popping = "checked"
  /\ popping' = IF run THEN "take" ELSE "out"
  /\ UNCHANGED <<run, container, pushing, sent, stopping, stops, delivered>>

PopTake ==
  /\ popping = "take"
  /\ delivered' = Append(delivered, Head(container))
  /\ container' = Tail(container)
  /\ popping' = "out"
  /\ UNCHANGED <<run, pushing, sent, stopping, stops>>

StopStore ==
  /\ ~stopping
  /\ stops < MaxStops
  /\ run' = FALSE
  /\ stopping' = TRUE
  /\ stops' = stops + 1
  /\ UNCHANGED <<container, pushing, sent, popping, delivered>>

\* Mutant: stop does not notify.
StopNotifyNobody ==
  /\ stopping
  /\ stopping' = FALSE
  /\ UNCHANGED <<run, container, pushing, sent, popping, stops, delivered>>

\* notify_all, without the mutex.
StopNotify ==
  /\ stopping
  /\ stopping' = FALSE
  /\ popping' = Notified
  /\ UNCHANGED <<run, container, pushing, sent, stops, delivered>>

\* Restarted only when the consumer is out of pop: run_output restarts it from
\* the consumer's own thread, and nobody restarts Melanobot's queue.
Start ==
  /\ ~stopping
  /\ popping = "out"
  /\ run' = TRUE
  /\ UNCHANGED <<container, pushing, sent, popping, stopping, stops, delivered>>

-----------------------------------------------------------------------------
Pop == PopEnter \/ PopLock \/ PopTest \/ PopSleep \/ PopCheckRun \/ PopTake

Next ==
  \/ \E p \in Producers : PushTest(p) \/ PushInsert(p)
  \/ Pop
  \/ PopSpurious
  \/ StopStore
  \/ StopNotify
  \/ Start

Spec == Init /\ [][Next]_vars

\* The threads inside push, pop and stop keep running; nobody has to call
\* push, stop or start, and spurious wake-ups are not owed.
FairSpec ==
  /\ Spec
  /\ WF_vars(Pop)
  /\ WF_vars(StopNotify)
  /\ \A p \in Producers : WF_vars(PushInsert(p))

-----------------------------------------------------------------------------
TypeOK ==
  /\ run \in BOOLEAN
  /\ container \in Seq(Messages)
  /\ pushing \subseteq Producers
  /\ sent \in [Producers -> Nat]
  /\ popping \in PopPoints
  /\ stopping \in BOOLEAN
  /\ stops \in Nat
  /\ delivered \in Seq(Messages)

\* The consumer never sleeps on a queue with messages in it: insertion and
\* notification are one critical section, and so are test and sleep.
NeverSleepsOnMessages == popping \in {"wait", "asleep"} => container = <<>>

\* The strengthening that makes the two invariants above and the refinement
\* below inductive (checked here, proved in MessageQueueProofs).
PopFindsMessage ==
  /\ popping = "take" => container # <<>>
  /\ popping = "checked" => container # <<>> \/ ~run

\* Messages of one producer stand in the queue in the order of their numbers,
\* and the one in flight is the youngest.
QueueInOrder ==
  /\ \A p \in pushing : sent[p] > 0
  /\ \A i \in 1..Len(container) :
       /\ container[i].id \in 1..sent[container[i].from]
       /\ container[i].from \in pushing => container[i].id < sent[container[i].from]
  /\ \A i, j \in 1..Len(container) :
       i < j /\ container[i].from = container[j].from => container[i].id < container[j].id

IInv == TypeOK /\ NeverSleepsOnMessages /\ PopFindsMessage /\ QueueInOrder

\* The queue is a StoppableChannel.  A push takes effect at its test of run, a
\* pop at its test of run: what sits between is accepted, or delivered, already.
InContainer == {container[i] : i \in 1..Len(container)}
InFlight == {MessageOf(p) : p \in pushing}
Handed == IF popping = "take" THEN {Head(container)} ELSE {}

Channel == INSTANCE StoppableChannel WITH
  active <- run,
  pool <- (InContainer \cup InFlight) \ Handed,
  delivered <- IF popping = "take" THEN Append(delivered, Head(container)) ELSE delivered

ImplementsChannel == Channel!Spec

\* Every message in the queue is delivered, unless the queue is stopped.
NoStrandedMessage ==
  \A p \in Producers, n \in 1..MaxPushes :
    LET m == [from |-> p, id |-> n]
    IN  m \in InContainer ~> (m \notin InContainer \/ ~run)

\* A consumer asleep when stop() notifies leaves pop (or finds the queue
\* restarted).  One that has tested run and is not asleep yet misses the
\* notification, which is given without the mutex, and stays in pop.
StopWakesSleeper == (stopping /\ popping = "asleep") ~> (popping = "out" \/ run)
=============================================================================
