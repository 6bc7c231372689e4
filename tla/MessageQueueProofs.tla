-------------------------- MODULE MessageQueueProofs --------------------------
(* The queue's invariants, that it implements StoppableChannel, and that it  *)
(* therefore delivers the messages of each producer in order, for any set of *)
(* producers and any number of pushes and stops.                             *)
EXTENDS MessageQueue, SequenceTheorems, TLAPS

\* The elements of a queue after a push at the back.
LEMMA AppendElements ==
  ASSUME NEW S, NEW s \in Seq(S), NEW e \in S
  PROVE  /\ Append(s, e) \in Seq(S)
         /\ Append(s, e) # <<>>
         /\ Len(Append(s, e)) = Len(s) + 1
         /\ Len(s) \in Nat
         /\ \A i \in 1..Len(s) : Append(s, e)[i] = s[i]
         /\ Append(s, e)[Len(s) + 1] = e
  OBVIOUS

\* The elements of a queue after a pop at the front.
LEMMA TailElements ==
  ASSUME NEW S, NEW s \in Seq(S), s # <<>>
  PROVE  /\ Tail(s) \in Seq(S)
         /\ Len(s) \in Nat \ {0}
         /\ Len(Tail(s)) = Len(s) - 1
         /\ \A i \in 1..Len(Tail(s)) : i + 1 \in 1..Len(s) /\ Tail(s)[i] = s[i + 1]
         /\ 1 \in 1..Len(s)
         /\ Head(s) = s[1] /\ s[1] \in S
  <1>1. Tail(s) \in Seq(S) /\ Len(Tail(s)) = Len(s) - 1
        /\ \A i \in 1..Len(Tail(s)) : Tail(s)[i] = s[i + 1]
    BY HeadTailProperties
  <1>2. Len(s) \in Nat \ {0}
    BY EmptySeq
  <1>3. Head(s) = s[1]
    OBVIOUS
  <1>4. 1 \in 1..Len(s) /\ s[1] \in S
    BY <1>2, ElementOfSeq
  <1> QED BY <1>1, <1>2, <1>3, <1>4

-----------------------------------------------------------------------------
LEMMA InitIInv == Init => IInv
  <1> SUFFICES ASSUME Init PROVE IInv
    OBVIOUS
  <1>1. TypeOK
    <2>1. container \in Seq(Messages) /\ delivered \in Seq(Messages)
      BY EmptySeq DEF Init
    <2>2. popping \in PopPoints
      BY DEF Init, PopPoints
    <2> QED BY <2>1, <2>2 DEF Init, TypeOK
  <1>2. NeverSleepsOnMessages /\ PopFindsMessage
    BY DEF Init, NeverSleepsOnMessages, PopFindsMessage
  <1>3. Len(container) = 0
    BY EmptySeq DEF Init
  <1>4. QueueInOrder
    BY <1>3 DEF Init, QueueInOrder
  <1> QED BY <1>1, <1>2, <1>4 DEF IInv

LEMMA PushTestIInv ==
  ASSUME IInv, NEW p \in Producers, PushTest(p)
  PROVE  IInv'
  <1> USE DEF IInv, PushTest
  <1>1. TypeOK'
    BY DEF TypeOK
  <1>2. (NeverSleepsOnMessages /\ PopFindsMessage)'
    BY DEF NeverSleepsOnMessages, PopFindsMessage
  <1>3. /\ \A q \in Producers : sent[q] \in Nat /\ sent'[q] = IF q = p THEN sent[q] + 1 ELSE sent[q]
        /\ \A i \in 1..Len(container) : container[i] \in Messages
    BY DEF TypeOK
  <1>4. QueueInOrder'
    <2>1. \A q \in pushing' : sent'[q] > 0
      BY <1>3 DEF QueueInOrder, TypeOK
    <2>2. ASSUME NEW i \in 1..Len(container)
          PROVE  /\ container[i].id \in 1..sent'[container[i].from]
                 /\ container[i].from \in pushing' => container[i].id < sent'[container[i].from]
      BY <1>3 DEF QueueInOrder, Messages
    <2> QED BY <2>1, <2>2 DEF QueueInOrder
  <1> QED BY <1>1, <1>2, <1>4

LEMMA PushInsertIInv ==
  ASSUME IInv, NEW p \in Producers, PushInsert(p)
  PROVE  IInv'
  <1> USE DEF IInv, PushInsert
  <1>0. container \in Seq(Messages) /\ MessageOf(p) \in Messages /\ sent[p] \in Nat
    BY DEF TypeOK, Messages, MessageOf
  <1>1. TypeOK'
    BY <1>0, AppendElements DEF TypeOK, PopPoints, Notified
  <1>2. (NeverSleepsOnMessages /\ PopFindsMessage)'
    BY <1>0, AppendElements
    DEF NeverSleepsOnMessages, PopFindsMessage, MutexFree, Notified, TypeOK
  <1>3. /\ Len(container') = Len(container) + 1 /\ Len(container) \in Nat
        /\ \A i \in 1..Len(container) : container'[i] = container[i] /\ container[i] \in Messages
        /\ container'[Len(container) + 1] = MessageOf(p)
    BY <1>0, AppendElements, ElementOfSeq
  <1>4. MessageOf(p).from = p /\ MessageOf(p).id = sent[p]
    BY DEF MessageOf
  <1>5. QueueInOrder'
    <2>1. \A q \in pushing' : sent'[q] > 0
      BY DEF QueueInOrder
    <2>2. ASSUME NEW i \in 1..Len(container')
          PROVE  /\ container'[i].id \in 1..sent'[container'[i].from]
                 /\ container'[i].from \in pushing' => container'[i].id < sent'[container'[i].from]
      <3>1. CASE i \in 1..Len(container)
        BY <3>1, <1>3 DEF QueueInOrder
      <3>2. CASE i = Len(container) + 1
        BY <3>2, <1>0, <1>3, <1>4 DEF QueueInOrder
      <3> QED BY <3>1, <3>2, <1>3
    <2>3. ASSUME NEW i \in 1..Len(container'), NEW j \in 1..Len(container'),
                 i < j, container'[i].from = container'[j].from
          PROVE  container'[i].id < container'[j].id
      <3>1. CASE j \in 1..Len(container)
        BY <3>1, <2>3, <1>3 DEF QueueInOrder
      <3>2. CASE j = Len(container) + 1
        BY <3>2, <2>3, <1>3, <1>4 DEF QueueInOrder
      <3> QED BY <3>1, <3>2, <1>3
    <2> QED BY <2>1, <2>2, <2>3 DEF QueueInOrder
  <1> QED BY <1>1, <1>2, <1>5

LEMMA PopTakeIInv ==
  ASSUME IInv, PopTake
  PROVE  IInv'
  <1> USE DEF IInv, PopTake
  <1>0. container \in Seq(Messages) /\ container # <<>> /\ delivered \in Seq(Messages)
    BY DEF TypeOK, PopFindsMessage
  <1>1. /\ container' \in Seq(Messages) /\ Head(container) \in Messages
        /\ \A i \in 1..Len(container') : i + 1 \in 1..Len(container) /\ container'[i] = container[i + 1]
        /\ Len(container') \in Nat
    BY <1>0, TailElements
  <1>2. TypeOK'
    BY <1>0, <1>1, AppendElements DEF TypeOK, PopPoints
  <1>3. (NeverSleepsOnMessages /\ PopFindsMessage)'
    BY DEF NeverSleepsOnMessages, PopFindsMessage
  <1>4. QueueInOrder'
    BY <1>1 DEF QueueInOrder
  <1> QED BY <1>2, <1>3, <1>4

LEMMA NextIInv == IInv /\ [Next]_vars => IInv'
  <1> SUFFICES ASSUME IInv, [Next]_vars PROVE IInv'
    OBVIOUS
  <1> USE DEF IInv, TypeOK, NeverSleepsOnMessages, PopFindsMessage, QueueInOrder, PopPoints
  <1>1. ASSUME NEW p \in Producers, PushTest(p) PROVE IInv'
    BY <1>1, PushTestIInv
  <1>2. ASSUME NEW p \in Producers, PushInsert(p) PROVE IInv'
    BY <1>2, PushInsertIInv
  <1>3. CASE PopEnter
    BY <1>3 DEF PopEnter
  <1>4. CASE PopLock
    BY <1>4 DEF PopLock
  <1>5. CASE PopTest
    BY <1>5 DEF PopTest, wait_condition
  <1>6. CASE PopSleep
    BY <1>6 DEF PopSleep
  <1>7. CASE PopSpurious
    BY <1>7 DEF PopSpurious
  <1>8. CASE PopCheckRun
    BY <1>8 DEF PopCheckRun
  <1>9. CASE PopTake
    BY <1>9, PopTakeIInv
  <1>10. CASE StopStore
    <2>1. stops' \in Nat
      BY <1>10 DEF StopStore
    <2> QED BY <2>1, <1>10, Zenon DEF StopStore
  <1>11. CASE StopNotify
    BY <1>11 DEF StopNotify, Notified
  <1>12. CASE Start
    BY <1>12 DEF Start
  <1>13. CASE UNCHANGED vars
    BY <1>13 DEF vars
  <1> QED
    BY <1>1, <1>2, <1>3, <1>4, <1>5, <1>6, <1>7, <1>8, <1>9, <1>10, <1>11, <1>12, <1>13
    DEF Next, Pop

\* The types, NeverSleepsOnMessages, that the consumer takes from a queue that has something,
\* and that the messages of a producer are in the queue in the order of their pushes.  IInv
\* (MessageQueue), of push, pop and wait of the concurrent queue.
THEOREM Invariance == Spec => []IInv
  BY InitIInv, NextIInv, PTL DEF Spec

\* Every variable keeps the type the container's members have.
THEOREM TypeCorrect == Spec => []TypeOK
  <1>1. IInv => TypeOK
    BY DEF IInv
  <1> QED BY <1>1, Invariance, PTL

\* However pushes, stops and restarts interleave with pop, its wait never
\* sleeps while a message is in the queue: no push is missed by the consumer.
THEOREM NoMissedPush == Spec => []NeverSleepsOnMessages
  <1>1. IInv => NeverSleepsOnMessages
    BY DEF IInv
  <1> QED BY <1>1, Invariance, PTL

-----------------------------------------------------------------------------
(* Refinement.  IInv is invariant, so it may be assumed of every step.       *)

\* The messages waiting in the queue after a push and after a pop.
LEMMA InContainerAfterPush ==
  ASSUME NEW p \in Producers, IInv, PushInsert(p)
  PROVE  InContainer' = InContainer \cup {MessageOf(p)}
  <1>1. container \in Seq(Messages) /\ MessageOf(p) \in Messages
    BY DEF IInv, TypeOK, Messages, MessageOf
  <1>2. /\ Len(container') = Len(container) + 1 /\ Len(container) \in Nat
        /\ \A i \in 1..Len(container) : container'[i] = container[i]
        /\ container'[Len(container) + 1] = MessageOf(p)
    BY <1>1, AppendElements DEF PushInsert
  <1>3. \A i \in 1..Len(container') : i \in 1..Len(container) \/ i = Len(container) + 1
    BY <1>2
  <1>4. 1..Len(container) \subseteq 1..Len(container') /\ Len(container) + 1 \in 1..Len(container')
    BY <1>2
  <1> QED BY <1>2, <1>3, <1>4 DEF InContainer

LEMMA InContainerAfterPop ==
  ASSUME IInv, PopTake
  PROVE  InContainer' = InContainer \ {Head(container)}
  <1>1. container \in Seq(Messages) /\ container # <<>>
    BY DEF IInv, TypeOK, PopFindsMessage, PopTake
  <1>2. /\ Len(container) \in Nat \ {0} /\ Len(container') = Len(container) - 1
        /\ \A i \in 1..Len(container') : container'[i] = container[i + 1]
        /\ Head(container) = container[1]
    BY <1>1, TailElements DEF PopTake
  <1>3. \A i \in 2..Len(container) : container[i] # container[1]
    <2> SUFFICES ASSUME NEW i \in 2..Len(container), container[i] = container[1]
                 PROVE  FALSE
      OBVIOUS
    <2>1. container[1].id < container[i].id
      BY <1>2 DEF IInv, QueueInOrder
    <2>2. container[i].id \in Nat
      <3>1. i \in 1..Len(container)
        BY <1>2
      <3>2. container[i] \in Messages
        BY <1>1, <3>1, ElementOfSeq
      <3> QED BY <3>2 DEF Messages
    <2> QED BY <2>1, <2>2
  <1>4. InContainer' = {container[i] : i \in 2..Len(container)}
    <2>1. \A i \in 1..Len(container') : i + 1 \in 2..Len(container)
      BY <1>2
    <2>2. \A j \in 2..Len(container) : j - 1 \in 1..Len(container') /\ container'[j - 1] = container[j]
      BY <1>2
    <2> QED BY <1>2, <2>1, <2>2 DEF InContainer
  <1>5. \A i \in 1..Len(container) : i = 1 \/ i \in 2..Len(container)
    BY <1>2
  <1>6. 2..Len(container) \subseteq 1..Len(container)
    BY <1>2
  <1>7. InContainer = {container[i] : i \in 2..Len(container)} \cup {container[1]}
    <2>1. 1 \in 1..Len(container)
      BY <1>2
    <2> QED BY <1>5, <1>6, <2>1 DEF InContainer
  <1> QED BY <1>2, <1>3, <1>4, <1>7

\* A message in flight is not in the queue: it is younger than all that are.
LEMMA InFlightNotQueued ==
  ASSUME IInv, NEW p \in pushing, NEW i \in 1..Len(container)
  PROVE  container[i] # MessageOf(p)
  BY DEF IInv, TypeOK, QueueInOrder, MessageOf

\* Steps that move no message between the sets and leave run alone stutter.
LEMMA QuietStep ==
  ASSUME UNCHANGED <<run, container, pushing, sent, delivered>>,
         popping # "take", popping' # "take"
  PROVE  UNCHANGED Channel!vars
  BY DEF Channel!vars, InContainer, InFlight, Handed, MessageOf

LEMMA PushTestRefines ==
  ASSUME IInv, NEW p \in Producers, PushTest(p)
  PROVE  Channel!Push(p)
  <1> USE DEF PushTest
  <1>1. InContainer' = InContainer /\ Handed' = Handed
    BY DEF InContainer, Handed
  <1>2. \A q \in Producers : q # p => MessageOf(q)' = MessageOf(q)
    BY DEF MessageOf, IInv, TypeOK
  <1>3. MessageOf(p)' = [from |-> p, id |-> sent[p] + 1]
    BY DEF MessageOf, IInv, TypeOK
  <1>4. InFlight' = IF run THEN InFlight \cup {[from |-> p, id |-> sent[p] + 1]} ELSE InFlight
    <2>1. pushing \subseteq Producers /\ p \notin pushing
      BY DEF IInv, TypeOK
    <2> QED BY <1>2, <1>3, <2>1 DEF InFlight
  <1>5. [from |-> p, id |-> sent[p] + 1] \notin Handed
    <2> SUFFICES ASSUME popping = "take", Head(container) = [from |-> p, id |-> sent[p] + 1]
                 PROVE  FALSE
      BY DEF Handed
    <2>1. container \in Seq(Messages) /\ container # <<>>
      BY DEF IInv, TypeOK, PopFindsMessage
    <2>2. 1 \in 1..Len(container) /\ Head(container) = container[1]
      BY <2>1, TailElements
    <2>3. sent[p] + 1 \in 1..sent[p] /\ sent[p] \in Nat
      BY <2>2 DEF IInv, QueueInOrder, TypeOK
    <2> QED BY <2>3
  <1> QED BY <1>1, <1>4, <1>5 DEF Channel!Push

LEMMA PushInsertRefines ==
  ASSUME IInv, NEW p \in Producers, PushInsert(p)
  PROVE  UNCHANGED Channel!vars
  <1> USE DEF PushInsert
  <1>1. popping # "take" /\ popping' # "take"
    BY DEF MutexFree, Notified
  <1>2. \A q \in pushing : MessageOf(q)' = MessageOf(q)
    BY DEF MessageOf
  <1>3. InFlight' \cup {MessageOf(p)} = InFlight
    BY <1>2 DEF InFlight
  <1>4. (InContainer \cup InFlight)' = InContainer \cup InFlight
    BY <1>3, InContainerAfterPush
  <1> QED BY <1>1, <1>4 DEF Channel!vars, Handed

LEMMA PopCheckRunRefines ==
  ASSUME IInv, PopCheckRun
  PROVE  [Channel!Next]_(Channel!vars)
  <1> USE DEF PopCheckRun
  <1>1. CASE ~run
    <2>1. popping # "take" /\ popping' # "take"
      BY <1>1
    <2> QED BY <2>1, QuietStep
  <1>2. CASE run
    <2> DEFINE m == Head(container)
    <2>1. container \in Seq(Messages) /\ container # <<>>
      BY <1>2 DEF IInv, TypeOK, PopFindsMessage
    <2>2. 1 \in 1..Len(container) /\ m = container[1] /\ m \in Messages /\ Len(container) \in Nat
      BY <2>1, TailElements
    <2>3. m \in InContainer
      BY <2>2 DEF InContainer
    <2>4. popping = "checked" /\ popping' = "take"
      BY <1>2
    <2>5. Handed = {} /\ Handed' = {m}
      BY <2>4 DEF Handed
    <2>6. InContainer' = InContainer /\ InFlight' = InFlight
      BY DEF InContainer, InFlight, MessageOf
    <2>7. ASSUME NEW other \in InContainer \cup InFlight, other.from = m.from
          PROVE  m.id <= other.id
      <3>1. CASE other \in InContainer
        <4>1. PICK i \in 1..Len(container) : other = container[i]
          BY <3>1 DEF InContainer
        <4>2. i = 1 \/ m.id < container[i].id
          BY <2>2, <2>7, <4>1 DEF IInv, QueueInOrder
        <4>3. other \in Messages
          BY <2>1, <4>1, ElementOfSeq
        <4>4. m.id \in Nat /\ other.id \in Nat
          BY <2>2, <4>3 DEF Messages
        <4> QED BY <2>2, <4>1, <4>2, <4>4
      <3>2. CASE other \in InFlight
        <4>1. PICK p \in pushing : other = [from |-> p, id |-> sent[p]]
          BY <3>2 DEF InFlight, MessageOf
        <4>2. m.id < sent[p]
          BY <2>2, <2>7, <4>1 DEF IInv, QueueInOrder
        <4>3. sent[p] \in Nat /\ m.id \in Nat
          BY <2>2 DEF IInv, TypeOK, Messages
        <4> QED BY <4>1, <4>2, <4>3
      <3> QED BY <3>1, <3>2
    <2>8. Channel!Deliver(m)
      BY <1>2, <2>3, <2>4, <2>5, <2>6, <2>7 DEF Channel!Deliver
    <2>9. m \in (InContainer \cup InFlight) \ Handed
      BY <2>3, <2>5
    <2> QED BY <2>8, <2>9 DEF Channel!Next
  <1> QED BY <1>1, <1>2

LEMMA PopTakeRefines ==
  ASSUME IInv, PopTake
  PROVE  UNCHANGED Channel!vars
  <1> USE DEF PopTake
  <1>1. container \in Seq(Messages) /\ container # <<>>
    BY DEF IInv, TypeOK, PopFindsMessage
  <1>2. 1 \in 1..Len(container) /\ Head(container) = container[1]
    BY <1>1, TailElements
  <1>3. Head(container) \notin InFlight
    BY <1>2, InFlightNotQueued DEF InFlight
  <1>4. InFlight' = InFlight
    BY DEF InFlight, MessageOf
  <1>5. Handed = {Head(container)} /\ Handed' = {}
    BY DEF Handed
  <1>6. ((InContainer \cup InFlight) \ Handed)' = (InContainer \cup InFlight) \ Handed
    BY <1>3, <1>4, <1>5, InContainerAfterPop
  <1> QED BY <1>6 DEF Channel!vars

LEMMA StepRefines ==
  ASSUME IInv, [Next]_vars
  PROVE  [Channel!Next]_(Channel!vars)
  <1>1. ASSUME NEW p \in Producers, PushTest(p) PROVE [Channel!Next]_(Channel!vars)
    BY <1>1, PushTestRefines DEF Channel!Next
  <1>2. ASSUME NEW p \in Producers, PushInsert(p) PROVE [Channel!Next]_(Channel!vars)
    BY <1>2, PushInsertRefines
  <1>3. CASE PopEnter
    BY <1>3, QuietStep DEF PopEnter
  <1>4. CASE PopLock
    BY <1>4, QuietStep DEF PopLock
  <1>5. CASE PopTest
    BY <1>5, QuietStep DEF PopTest
  <1>6. CASE PopSleep
    BY <1>6, QuietStep DEF PopSleep
  <1>7. CASE PopSpurious
    BY <1>7, QuietStep DEF PopSpurious
  <1>8. CASE PopCheckRun
    BY <1>8, PopCheckRunRefines
  <1>9. CASE PopTake
    BY <1>9, PopTakeRefines
  <1>10. CASE StopStore
    BY <1>10
    DEF StopStore, Channel!Next, Channel!Stop, InContainer, InFlight, Handed, MessageOf
  <1>11. CASE StopNotify
    <2>1. popping = "take" <=> popping' = "take"
      BY <1>11 DEF StopNotify, Notified
    <2> QED BY <1>11, <2>1
        DEF StopNotify, Channel!vars, InContainer, InFlight, Handed, MessageOf
  <1>12. CASE Start
    BY <1>12
    DEF Start, Channel!Next, Channel!Start, InContainer, InFlight, Handed, MessageOf
  <1>13. CASE UNCHANGED vars
    BY <1>13 DEF vars, Channel!vars, InContainer, InFlight, Handed, MessageOf
  <1> QED
    BY <1>1, <1>2, <1>3, <1>4, <1>5, <1>6, <1>7, <1>8, <1>9, <1>10, <1>11, <1>12, <1>13
    DEF Next, Pop

\* push, pop and stop, with the test of run outside the mutex, still behave as
\* if each were one step: accepted only while active, delivered only while
\* active, at most once, in the order of each producer.
THEOREM Refinement == Spec => ImplementsChannel
  <1>1. Init => Channel!Init
    <2> SUFFICES ASSUME Init PROVE Channel!Init
      OBVIOUS
    <2>1. InContainer = {}
      BY EmptySeq DEF Init, InContainer
    <2>2. InFlight = {}
      BY DEF Init, InFlight
    <2> QED BY <2>1, <2>2 DEF Init, Channel!Init, Handed
  <1>2. IInv /\ [Next]_vars => [Channel!Next]_(Channel!vars)
    BY StepRefines
  <1> QED BY <1>1, <1>2, Invariance, PTL DEF Spec, ImplementsChannel, Channel!Spec

-----------------------------------------------------------------------------
(* What the channel promises *)

\* Equal producers are delivered in order, what waits is younger than what was delivered
\* and no younger than the last push: the channel's invariant, of any pool of messages,
\* numbers of pushes and sequence of deliveries.
Typed(waiting, pushes, out) ==
  waiting \subseteq Channel!Messages /\ pushes \in [Producers -> Nat] /\ out \in Seq(Channel!Messages)
InOrder(out) ==
  \A i, j \in 1..Len(out) : i < j /\ out[i].from = out[j].from => out[i].id < out[j].id
Younger(waiting, pushes, out) ==
  \A m \in waiting :
    /\ m.id \in 1..pushes[m.from]
    /\ \A i \in 1..Len(out) : out[i].from = m.from => out[i].id < m.id
WasPushed(pushes, out) == \A i \in 1..Len(out) : out[i].id \in 1..pushes[out[i].from]
Ordered(waiting, pushes, out) ==
  /\ Typed(waiting, pushes, out) /\ InOrder(out)
  /\ Younger(waiting, pushes, out) /\ WasPushed(pushes, out)

\* A push adds the youngest message of its producer, or nothing.
LEMMA PushKeepsOrder ==
  ASSUME NEW waiting, NEW pushes, NEW out, Ordered(waiting, pushes, out), NEW p \in Producers,
         NEW more, more = [pushes EXCEPT ![p] = @ + 1],
         NEW then, then \subseteq waiting \cup {[from |-> p, id |-> pushes[p] + 1]}
  PROVE  Ordered(then, more, out)
  <1>1. \A q \in Producers : pushes[q] \in Nat /\ more[q] \in Nat /\ pushes[q] <= more[q]
    BY DEF Ordered, Typed
  <1>2. more[p] = pushes[p] + 1
    BY DEF Ordered, Typed
  <1>3. \A i \in 1..Len(out) : out[i] \in Channel!Messages
    BY DEF Ordered, Typed
  <1>4. Typed(then, more, out)
    BY <1>1 DEF Ordered, Typed, Channel!Messages
  <1>5. WasPushed(more, out)
    BY <1>1, <1>3 DEF Ordered, WasPushed, Channel!Messages
  <1>6. Younger(then, more, out)
    <2> SUFFICES ASSUME NEW m \in then
                 PROVE  /\ m.id \in 1..more[m.from]
                        /\ \A i \in 1..Len(out) : out[i].from = m.from => out[i].id < m.id
      BY DEF Younger
    <2>1. CASE m \in waiting
      BY <2>1, <1>1 DEF Ordered, Younger, Typed, Channel!Messages
    <2>2. CASE m = [from |-> p, id |-> pushes[p] + 1]
      BY <2>2, <1>1, <1>2, <1>3 DEF Ordered, WasPushed, Channel!Messages
    <2> QED BY <2>1, <2>2
  <1> QED BY <1>4, <1>5, <1>6 DEF Ordered

\* A delivery moves the oldest message of its producer to the end of what was delivered.
LEMMA DeliveryKeepsOrder ==
  ASSUME NEW waiting, NEW pushes, NEW out, Ordered(waiting, pushes, out), NEW m \in waiting,
         \A other \in waiting : other.from = m.from => m.id <= other.id
  PROVE  Ordered(waiting \ {m}, pushes, Append(out, m))
  <1> DEFINE now == Append(out, m)
  <1>1. m \in Channel!Messages /\ out \in Seq(Channel!Messages) /\ Len(out) \in Nat
    BY DEF Ordered, Typed
  <1>2. /\ now \in Seq(Channel!Messages)
        /\ Len(now) = Len(out) + 1
        /\ \A i \in 1..Len(out) : now[i] = out[i]
        /\ now[Len(out) + 1] = m
    BY <1>1, AppendElements
  <1> HIDE DEF now
  <1>3. Typed(waiting \ {m}, pushes, now)
    BY <1>2 DEF Ordered, Typed
  <1>4. InOrder(now)
    <2> SUFFICES ASSUME NEW i \in 1..Len(now), NEW j \in 1..Len(now), i < j, now[i].from = now[j].from
                 PROVE  now[i].id < now[j].id
      BY DEF InOrder
    <2>1. CASE j \in 1..Len(out)
      BY <2>1, <1>1, <1>2 DEF Ordered, InOrder
    <2>2. CASE j = Len(out) + 1
      BY <2>2, <1>1, <1>2 DEF Ordered, Younger
    <2> QED BY <2>1, <2>2, <1>1, <1>2
  <1>5. Younger(waiting \ {m}, pushes, now)
    <2> SUFFICES ASSUME NEW other \in waiting \ {m}
                 PROVE  /\ other.id \in 1..pushes[other.from]
                        /\ \A i \in 1..Len(now) : now[i].from = other.from => now[i].id < other.id
      BY DEF Younger
    <2>1. other \in Channel!Messages
      BY DEF Ordered, Typed
    <2>2. other.from = m.from => m.id < other.id
      BY <2>1, <1>1 DEF Channel!Messages
    <2>3. other.id \in 1..pushes[other.from]
      BY DEF Ordered, Younger
    <2>4. ASSUME NEW i \in 1..Len(now), now[i].from = other.from PROVE now[i].id < other.id
      <3>1. CASE i \in 1..Len(out)
        BY <3>1, <2>4, <1>2 DEF Ordered, Younger
      <3>2. CASE i = Len(out) + 1
        BY <3>2, <2>2, <2>4, <1>2
      <3> QED BY <3>1, <3>2, <1>1, <1>2
    <2> QED BY <2>3, <2>4
  <1>6. WasPushed(pushes, now)
    <2> SUFFICES ASSUME NEW i \in 1..Len(now) PROVE now[i].id \in 1..pushes[now[i].from]
      BY DEF WasPushed
    <2>1. CASE i \in 1..Len(out)
      BY <2>1, <1>2 DEF Ordered, WasPushed
    <2>2. CASE i = Len(out) + 1
      BY <2>2, <1>2 DEF Ordered, Younger
    <2> QED BY <2>1, <2>2, <1>1, <1>2
  <1> QED BY <1>3, <1>4, <1>5, <1>6 DEF Ordered, now

\* The pool and the deliveries of the channel the queue is.
Waiting == (InContainer \cup InFlight) \ Handed
Out == IF popping = "take" THEN Append(delivered, Head(container)) ELSE delivered
ChannelInv == Ordered(Waiting, sent, Out)

LEMMA NextChannelInv == ChannelInv /\ [Channel!Next]_(Channel!vars) => ChannelInv'
  <1> SUFFICES ASSUME ChannelInv, [Channel!Next]_(Channel!vars) PROVE Ordered(Waiting', sent', Out')
    BY DEF ChannelInv
  <1>1. ASSUME NEW p \in Producers, Channel!Push(p) PROVE Ordered(Waiting', sent', Out')
    <2>1. /\ sent' = [sent EXCEPT ![p] = @ + 1] /\ Out' = Out
          /\ Waiting' \subseteq Waiting \cup {[from |-> p, id |-> sent[p] + 1]}
      BY <1>1 DEF Channel!Push, Waiting, Out
    <2> QED BY <2>1, PushKeepsOrder DEF ChannelInv
  <1>2. ASSUME NEW m \in Waiting, Channel!Deliver(m) PROVE Ordered(Waiting', sent', Out')
    <2>1. /\ \A other \in Waiting : other.from = m.from => m.id <= other.id
          /\ Waiting' = Waiting \ {m} /\ Out' = Append(Out, m) /\ sent' = sent
      BY <1>2 DEF Channel!Deliver, Waiting, Out
    <2> QED BY <2>1, DeliveryKeepsOrder DEF ChannelInv
  <1>3. CASE Waiting' = Waiting /\ sent' = sent /\ Out' = Out
    BY <1>3 DEF ChannelInv
  <1> QED BY <1>1, <1>2, <1>3
          DEF Channel!Next, Channel!Stop, Channel!Start, Channel!vars, Waiting, Out

\* Whatever the producers do, a StoppableChannel delivers the messages of each in the order
\* it pushed them and none twice.
THEOREM ChannelDeliversInOrder == Channel!Spec => []Channel!DeliveredInOrder
  <1>1. Channel!Init => ChannelInv
    <2> SUFFICES ASSUME Channel!Init PROVE Ordered(Waiting, sent, Out)
      BY DEF ChannelInv
    <2>1. Waiting = {} /\ sent = [q \in Producers |-> 0] /\ Out = <<>>
      BY DEF Channel!Init, Waiting, Out
    <2> QED BY <2>1 DEF Ordered, Typed, InOrder, Younger, WasPushed
  <1>2. ChannelInv => Channel!DeliveredInOrder
    BY DEF ChannelInv, Ordered, InOrder, Out, Channel!DeliveredInOrder
  <1> QED BY <1>1, <1>2, NextChannelInv, PTL DEF Channel!Spec

\* So does the queue, whose pops are interrupted by pushes and stops: the order in which a
\* connection's messages reach Melanobot::handle.
THEOREM QueueDeliversInOrder == Spec => []Channel!DeliveredInOrder
  BY Refinement, ChannelDeliversInOrder, PTL DEF ImplementsChannel
=============================================================================
