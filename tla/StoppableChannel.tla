--------------------------- MODULE StoppableChannel ---------------------------
(***************************************************************************)
(* What src/src/concurrency/container.hpp promises its callers, with every *)
(* operation a single step: a channel that accepts messages only while it  *)
(* is active ("If active() is not true, it will discard any input"), hands *)
(* each accepted message over at most once, the messages of one producer   *)
(* in the order they were pushed, and hands over nothing while stopped.    *)
(* MessageQueue implements it.                                             *)
(***************************************************************************)
EXTENDS Naturals, Sequences

CONSTANT Producers      \* threads that push

VARIABLES
  active,               \* the channel accepts and delivers
  pool,                 \* messages accepted and not delivered yet
  sent,                 \* how many pushes each producer made
  delivered             \* the messages handed over, in order

vars == <<active, pool, sent, delivered>>

\* A push is identified by its thread and by how many that thread made.
Messages == [from : Producers, id : Nat]

Init ==
  /\ active = TRUE
  /\ pool = {}
  /\ sent = [p \in Producers |-> 0]
  /\ delivered = <<>>

Push(p) ==
  /\ sent' = [sent EXCEPT ![p] = @ + 1]
  /\ pool' = IF active THEN pool \cup {[from |-> p, id |-> sent[p] + 1]} ELSE pool
  /\ UNCHANGED <<active, delivered>>

\* The oldest message of its producer leaves the pool.
Deliver(m) ==
  /\ active
  /\ m \in pool
  /\ \A other \in pool : other.from = m.from => m.id <= other.id
  /\ pool' = pool \ {m}
  /\ delivered' = Append(delivered, m)
  /\ UNCHANGED <<active, sent>>

Stop == active' = FALSE /\ UNCHANGED <<pool, sent, delivered>>

Start == active' = TRUE /\ UNCHANGED <<pool, sent, delivered>>

Next ==
  \/ \E p \in Producers : Push(p)
  \/ \E m \in pool : Deliver(m)
  \/ Stop
  \/ Start

Spec == Init /\ [][Next]_vars

-----------------------------------------------------------------------------
TypeOK ==
  /\ active \in BOOLEAN
  /\ pool \subseteq Messages
  /\ sent \in [Producers -> Nat]
  /\ delivered \in Seq(Messages)

\* Messages of one producer are delivered in the order it pushed them, none
\* twice (equal positions are the only way to equal numbers).
DeliveredInOrder ==
  \A i, j \in 1..Len(delivered) :
    i < j /\ delivered[i].from = delivered[j].from
      => delivered[i].id < delivered[j].id
=============================================================================
