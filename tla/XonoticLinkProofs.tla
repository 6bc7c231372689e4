-------------------------- MODULE XonoticLinkProofs --------------------------
(***************************************************************************)
(* The challenges of the Xonotic link are spent on the commands that asked *)
(* for them (ChallengesOneByOne); what is true of the link at any time     *)
(* (Sound: the types, the stacks, who holds the mutex), and that a link that *)
(* is stuck stays stuck.  Then Good, of the first connection of a link that *)
(* is not stuck, which says what each thread may be doing while the others *)
(* do what they do, and that every step of main keeps it; XonoticToldProofs *)
(* has the steps of the others.                                            *)
(***************************************************************************)
EXTENDS XonoticLink, SequenceTheorems, TLAPS

Queued == [cmd : Commands, challenged : BOOLEAN]
OnlyFirstAsked(b) == b \in Seq(Queued) /\ \A i \in 2..Len(b) : ~b[i].challenged

\* The inductive invariant: OneChallenge of a well-formed queue.
ChallengeInv == OnlyFirstAsked(buffer)

-----------------------------------------------------------------------------
(* What the link does with the commands waiting *)

\* A command that has not asked is appended: schedule_challenged_command.
LEMMA AppendKeeps ==
  ASSUME NEW b, OnlyFirstAsked(b), NEW cmd \in Commands
  PROVE  OnlyFirstAsked(Append(b, [cmd |-> cmd, challenged |-> FALSE]))
  BY DEF OnlyFirstAsked, Queued

\* The first is sent: handle_challenge.
LEMMA TailKeeps ==
  ASSUME NEW b, OnlyFirstAsked(b), b # <<>>
  PROVE  OnlyFirstAsked(Tail(b))
  BY DEF OnlyFirstAsked, Queued

\* The first asks, or has to ask again: request_challenge, handle_challenge.
LEMMA FirstKeeps ==
  ASSUME NEW b, OnlyFirstAsked(b), b # <<>>, NEW x \in BOOLEAN
  PROVE  OnlyFirstAsked([b EXCEPT ![1].challenged = x])
<1> DEFINE c == [b EXCEPT ![1].challenged = x]
           first == [b[1] EXCEPT !.challenged = x]
<1>1. b \in Seq(Queued) /\ Len(b) \in Nat \ {0} /\ 1 \in 1..Len(b)
  BY DEF OnlyFirstAsked, Queued
<1>2. first \in Queued
  <2>1. b[1] \in Queued
    BY <1>1
  <2>2. \A r \in Queued : [r EXCEPT !.challenged = x] \in Queued
    BY DEF Queued
  <2> QED BY <2>1, <2>2
<1>3. c = [b EXCEPT ![1] = first]
  OBVIOUS
<1>4. c \in Seq(Queued) /\ Len(c) = Len(b)
  BY <1>1, <1>2, <1>3
<1>5. \A i \in 2..Len(b) : c[i] = b[i]
  BY <1>1, <1>3
<1> QED BY <1>4, <1>5 DEF OnlyFirstAsked

-----------------------------------------------------------------------------
\* The operations of the threads that touch the commands.
LEMMA ThreadStep ==
  ASSUME ChallengeInv, NEW t \in Threads, Step(t)
  PROVE  ChallengeInv'
<1> USE DEF ChallengeInv
<1> DEFINE Others ==
      \/ Connect(t) \/ OpenAlready(t) \/ OpenCrashes(t) \/ OpenSocket(t)
      \/ Update(t) \/ Wait(t) \/ Updated(t) \/ Request(t) \/ Checking(t)
      \/ CommandDropped(t) \/ CommandSent(t) \/ CommandFails(t) \/ Release(t)
      \/ Sync(t) \/ SyncReceives(t) \/ ChallengeUnused(t)
      \/ HandleDest(t) \/ Connected(t) \/ Announce(t)
      \/ Close(t) \/ Closed(t) \/ IoPoll(t) \/ IoClose(t) \/ JoinCrashes(t)
<1>1. CASE CommandScheduled(t)
  BY <1>1, AppendKeeps DEF CommandScheduled, Sending
<1>2. CASE GetChallenge(t)
  BY <1>2, FirstKeeps DEF GetChallenge, NeedsChallenge
<1>3. CASE GetChallengeFails(t)
  BY <1>3, FirstKeeps DEF GetChallengeFails, NeedsChallenge
<1>4. CASE Challenge(t)
  BY <1>4, TailKeeps DEF Challenge
<1>5. CASE Clear(t)
  BY <1>5 DEF Clear, OnlyFirstAsked
<1>6. ASSUME Others PROVE buffer' = buffer
  BY <1>6 DEF Connect, OpenAlready, OpenCrashes, OpenSocket, Update, Wait, Updated, Request,
     Checking, CommandDropped, CommandSent, CommandFails, Release, Sync, SyncReceives, Receive,
     ChallengeUnused, HandleDest, Connected, Announce, Close, Closed, IoPoll, IoClose, JoinCrashes,
     Same, SameEngine, engineVars
<1>7. CASE Others
  BY <1>6, <1>7
<1> QED BY <1>1, <1>2, <1>3, <1>4, <1>5, <1>7 DEF Step

\* Every other step, and a challenge that came too late.
LEMMA NextKeeps ==
  ASSUME ChallengeInv, [Next]_vars
  PROVE  ChallengeInv'
<1> USE DEF ChallengeInv
<1>1. ASSUME NEW t \in Threads, Step(t) PROVE ChallengeInv'
  BY <1>1, ThreadStep
<1>2. ASSUME NEW t \in Threads, ChallengeLate(t) PROVE ChallengeInv'
  BY <1>2, FirstKeeps DEF ChallengeLate
<1>3. ASSUME NEW t \in Threads, OpenFails(t) \/ SyncRefused(t) PROVE buffer' = buffer
  BY <1>3 DEF OpenFails, SyncRefused, Same, SameEngine, engineVars
<1>4. ASSUME Bye \/ TimerFires \/ ReadDatagram \/ ReadCancelled \/ ReadRefused
             \/ MainConnects \/ MainDisconnects
      PROVE  buffer' = buffer
  BY <1>4 DEF Bye, TimerFires, ReadDatagram, Receive, ReadCancelled, ReadRefused, MainConnects,
     MainDisconnects, Same, SameEngine, engineVars
<1>5. ASSUME ServerAnswers \/ Lose \/ DestTaken \/ UNCHANGED vars PROVE buffer' = buffer
  BY <1>5 DEF ServerAnswers, Lose, DestTaken, SameEngine, engineVars, vars
<1>6. Threads = {"main", "timer", "input"}
  BY DEF Threads
<1> QED BY <1>1, <1>2, <1>3, <1>4, <1>5, <1>6 DEF Next, Main, Timer, Input

\* At no time has any but the first of the commands waiting asked for a challenge.
THEOREM ChallengesOneByOne == Spec => []OneChallenge
<1>1. Init => ChallengeInv
  BY DEF Init, ChallengeInv, OnlyFirstAsked
<1>2. ChallengeInv /\ [Next]_vars => ChallengeInv'
  BY NextKeeps
<1>3. ChallengeInv => OneChallenge
  BY DEF ChallengeInv, OnlyFirstAsked, OneChallenge
<1> QED BY <1>1, <1>2, <1>3, PTL DEF Spec

-----------------------------------------------------------------------------
(* Stacks of operations *)

Operations ==
  {"connect", "open", "update", "wait", "updated", "request", "checking", "set", "unset", "ask",
   "getchallenge", "release", "sync", "receiving", "challenge", "mine", "others", "connected",
   "announce", "close", "closed", "disconnect", "join", "clear", "read", "bye"}

Elems(s) == {s[i] : i \in 1..Len(s)}
Rest(s) == IF s = <<>> THEN <<>> ELSE Tail(s)
Top(s) == IF s = <<>> THEN "end" ELSE Head(s)
Second(s) == Top(Rest(s))
Below(s) == Elems(Rest(s))
Alone(s, op) == Top(s) = op /\ Second(s) = "end"
AtMostOne(s, S) == \A i, j \in 1..Len(s) : s[i] \in S /\ s[j] \in S => i = j

\* What may be right below an operation: of main before and after it has started the
\* poll, of thread_input, of it while main sets the link up again, and of the timer.
FirstNext ==
  ({"connect", "open", "update", "updated"} \X {"end"})
  \cup ({"wait", "sync", "receiving"} \X {"updated"})
  \cup {<<"set", "wait">>, <<"disconnect", "join">>}
  \cup ({"getchallenge"} \X {"disconnect", "updated", "wait"})
  \cup ({"challenge"} \X {"disconnect", "updated"})
  \cup ({"close", "closed"} \X {"close", "getchallenge", "release", "updated", "wait"})
  \cup ({"release"} \X {"updated", "wait"})
  \cup ({"join"} \X {"end", "close", "getchallenge", "updated", "wait"})
MainNext ==
  ({"connect", "open"} \X {"end", "updated"})
  \cup ({"update", "updated", "request", "ask"} \X {"end", "disconnect", "updated"})
  \cup ({"wait", "sync", "receiving"} \X {"updated"})
  \cup {<<"checking", "ask">>, <<"set", "wait">>, <<"disconnect", "join">>, <<"release", "end">>}
  \cup ({"getchallenge"} \X {"end", "disconnect", "updated", "wait"})
  \cup ({"challenge", "mine", "others", "announce", "connected"} \X {"disconnect", "updated"})
  \cup {<<"connected", "announce">>}
  \cup ({"close", "closed"} \X {"end", "connect", "release"})
  \cup ({"join"} \X {"end", "connect"})
InputNext ==
  ({"update", "updated", "request", "ask", "challenge", "mine", "others", "announce", "connected"}
     \X {"read", "updated"})
  \cup ({"wait", "sync", "receiving"} \X {"updated"})
  \cup {<<"checking", "ask">>, <<"set", "wait">>, <<"disconnect", "join">>, <<"clear", "read">>,
        <<"read", "end">>, <<"connected", "announce">>}
  \cup ({"getchallenge", "release"} \X {"read", "updated", "wait"})
  \cup ({"close", "closed"}
          \X {"end", "close", "getchallenge", "read", "release", "updated", "wait"})
  \cup ({"join"} \X {"end", "close", "getchallenge", "read", "updated", "wait"})
HandlingNext ==
  ({"update", "updated", "request", "ask", "mine", "others", "announce", "connected", "clear"}
     \X {"read"})
  \cup ({"wait", "sync", "receiving"} \X {"updated"})
  \cup {<<"checking", "ask">>, <<"set", "wait">>, <<"read", "end">>, <<"connected", "announce">>}
  \cup ({"getchallenge"} \X {"read", "updated", "wait"})
  \cup ({"challenge"} \X {"read", "updated"})
TimerNext ==
  ({"connect", "open", "update", "updated", "request", "ask", "release"} \X {"end"})
  \cup ({"wait", "sync", "receiving", "challenge"} \X {"updated"})
  \cup {<<"checking", "ask">>, <<"set", "wait">>, <<"disconnect", "join">>}
  \cup ({"getchallenge"} \X {"end", "updated", "wait"})
  \cup ({"close", "closed"} \X {"end", "connect", "release"})
  \cup ({"join"} \X {"end", "connect"})

\* What may be anywhere below an operation; but below the handler of a datagram that
\* main's io_service.poll() runs (Handles) is the main that closes the link.
Beneath ==
  ((Operations \ {"read"}) \X {"updated", "read"})
  \cup ({"set", "getchallenge", "release"} \X {"wait"})
  \cup {<<"checking", "ask">>, <<"connected", "announce">>}
  \cup ({"close", "closed", "disconnect", "join"}
          \X {"close", "connect", "join", "getchallenge", "release", "wait"})
Handles ==
  {"mine", "others", "challenge", "getchallenge", "connected", "announce", "update", "set", "wait",
   "sync", "receiving", "updated", "request", "checking", "ask"}
Over(op, below) ==
  IF "disconnect" \in below THEN op \in Handles ELSE \A o \in below : <<op, o>> \in Beneath

Fits(s, next) ==
  \A i \in 1..Len(s) :
    /\ <<s[i], IF i = Len(s) THEN "end" ELSE s[i + 1]>> \in next
    /\ Over(s[i], {s[j] : j \in i+1..Len(s)})

\* What is known of a stack, and of one that an operation leaves on returning or calling.
Seen(s) ==
  /\ s = <<>> <=> Top(s) = "end"
  /\ Top(s) = "end" => Second(s) = "end" /\ Elems(s) = {}
  /\ Top(s) # "end" => Top(s) \in Operations /\ Elems(s) = {Top(s)} \cup Below(s)
  /\ Second(s) = "end" => Below(s) = {}
  /\ Second(s) # "end" => Second(s) \in Operations /\ Second(s) \in Below(s)
  /\ Below(s) \subseteq Operations
Popped(s, r) == Top(r) = Second(s) /\ Elems(r) = Below(s) /\ Below(r) \subseteq Below(s)
Becomes(s, r, a) ==
  Top(r) = a /\ Second(r) = Second(s) /\ Below(r) = Below(s) /\ Elems(r) = {a} \cup Below(s)
Becomes2(s, r, a, b) ==
  /\ Top(r) = a /\ Second(r) = b
  /\ Below(r) = {b} \cup Below(s) /\ Elems(r) = {a, b} \cup Below(s)
Becomes3(s, r, a, b, c) ==
  /\ Top(r) = a /\ Second(r) = b
  /\ Below(r) = {b, c} \cup Below(s) /\ Elems(r) = {a, b, c} \cup Below(s)
Pushed(s, r, a) ==
  Top(r) = a /\ Second(r) = Top(s) /\ Below(r) = Elems(s) /\ Elems(r) = {a} \cup Elems(s)

\* What is seen of every stack, and of what is below its top.
LEMMA SeenAlways ==
  ASSUME NEW s \in Seq(Operations)
  PROVE  Seen(s) /\ Rest(s) \in Seq(Operations)
<1> DEFINE First(q) == /\ q = <<>> <=> Top(q) = "end"
                       /\ Top(q) = "end" => Elems(q) = {} /\ Rest(q) = <<>>
                       /\ Top(q) # "end" => Top(q) \in Operations /\ Elems(q) = {Top(q)} \cup
                            Elems(Rest(q))
                       /\ Rest(q) \in Seq(Operations)
                       /\ Elems(q) \subseteq Operations
<1>1. ASSUME NEW q \in Seq(Operations) PROVE First(q)
  <2>0. "end" \notin Operations
    BY DEF Operations
  <2>1. CASE q = <<>>
    BY <2>1 DEF Rest, Top, Elems
  <2>2. CASE q # <<>>
    <3>1. Len(q) \in Nat \ {0} /\ Head(q) = q[1] /\ q[1] \in Operations
      BY <2>2
    <3>2. Rest(q) = Tail(q) /\ Tail(q) \in Seq(Operations) /\ Len(Tail(q)) = Len(q) - 1
      BY <2>2 DEF Rest
    <3>3. \A i \in 1..Len(q)-1 : Tail(q)[i] = q[i + 1]
      BY <2>2
    <3>4. ASSUME NEW i \in 1..Len(q), i # 1 PROVE q[i] \in Elems(Tail(q))
      <4>1. i - 1 \in 1..Len(Tail(q)) /\ Tail(q)[i - 1] = q[i]
        BY <3>1, <3>2, <3>3, <3>4
      <4> QED BY <4>1 DEF Elems
    <3>5. ASSUME NEW i \in 1..Len(Tail(q)) PROVE Tail(q)[i] \in Elems(q)
      <4>1. i + 1 \in 1..Len(q) /\ Tail(q)[i] = q[i + 1]
        BY <3>1, <3>2, <3>3
      <4> QED BY <4>1 DEF Elems
    <3>6. Elems(q) = {q[1]} \cup Elems(Tail(q))
      BY <3>1, <3>4, <3>5 DEF Elems
    <3>7. Elems(q) \subseteq Operations
      BY DEF Elems
    <3> QED BY <2>0, <2>2, <3>1, <3>2, <3>6, <3>7 DEF Top
  <2> QED BY <2>1, <2>2
<1>2. First(s) /\ First(Rest(s))
  BY <1>1
<1> HIDE DEF First
<1>3. Top(<<>>) = "end" /\ Elems(<<>>) = {}
  BY DEF Top, Elems
<1> QED BY <1>2, <1>3 DEF Seen, First, Second, Below

\* What an operation that calls others leaves behind, the last call first.
LEMMA Pushes ==
  ASSUME NEW r \in Seq(Operations), NEW a \in Operations
  PROVE  /\ <<a>> \o r \in Seq(Operations) /\ <<a>> \o r # <<>>
         /\ Top(<<a>> \o r) = a /\ Rest(<<a>> \o r) = r /\ Second(<<a>> \o r) = Top(r)
         /\ Below(<<a>> \o r) = Elems(r) /\ Elems(<<a>> \o r) = {a} \cup Elems(r)
<1> DEFINE s == <<a>> \o r
<1>1. s \in Seq(Operations) /\ s # <<>> /\ Head(s) = a
  OBVIOUS
<1>2. Tail(s) = r
  OBVIOUS
<1>3. Top(s) = a /\ Rest(s) = r
  BY <1>1, <1>2 DEF Top, Rest
<1>4. Top(s) # "end" => Elems(s) = {Top(s)} \cup Below(s)
  BY <1>1, SeenAlways DEF Seen
<1>5. a # "end"
  BY DEF Operations
<1> HIDE DEF s
<1> QED BY <1>1, <1>3, <1>4, <1>5 DEF s, Second, Below

\* ... two operations ...
LEMMA PushesTwo ==
  ASSUME NEW r \in Seq(Operations), NEW a \in Operations, NEW b \in Operations
  PROVE  <<a, b>> \o r = <<a>> \o (<<b>> \o r)
<1>1. <<a>> \in Seq(Operations) /\ <<b>> \in Seq(Operations)
  OBVIOUS
<1>2. <<a, b>> = <<a>> \o <<b>>
  <2>1. <<a, b>> \in Seq(Operations) /\ <<a>> \o <<b>> \in Seq(Operations)
    OBVIOUS
  <2>2. Len(<<a, b>>) = 2 /\ Len(<<a>> \o <<b>>) = 2
    OBVIOUS
  <2>3. \A i \in 1..2 : <<a, b>>[i] = (<<a>> \o <<b>>)[i]
    OBVIOUS
  <2> QED BY <2>1, <2>2, <2>3, SeqEqual
<1>3. (<<a>> \o <<b>>) \o r = <<a>> \o (<<b>> \o r)
  BY <1>1, ConcatAssociative
<1> QED BY <1>2, <1>3

\* ... or three.
OneByOne(r, a, b, c) == <<a, b, c>> \o r = <<a>> \o (<<b>> \o (<<c>> \o r))
LEMMA PushesThree ==
  ASSUME NEW r \in Seq(Operations), NEW a \in Operations, NEW b \in Operations, NEW c \in Operations
  PROVE  OneByOne(r, a, b, c)
<1>1. <<a>> \in Seq(Operations) /\ <<b, c>> \in Seq(Operations)
  OBVIOUS
<1>2. <<a, b, c>> = <<a>> \o <<b, c>>
  <2>1. <<a, b, c>> \in Seq(Operations) /\ <<a>> \o <<b, c>> \in Seq(Operations)
    OBVIOUS
  <2>2. Len(<<a, b, c>>) = 3 /\ Len(<<a>> \o <<b, c>>) = 3
    OBVIOUS
  <2>3. \A i \in 1..3 : <<a, b, c>>[i] = (<<a>> \o <<b, c>>)[i]
    OBVIOUS
  <2> QED BY <2>1, <2>2, <2>3, SeqEqual
<1>3. (<<a>> \o <<b, c>>) \o r = <<a>> \o (<<b, c>> \o r)
  BY <1>1, ConcatAssociative
<1>4. <<b, c>> \o r = <<b>> \o (<<c>> \o r)
  BY PushesTwo
<1> QED BY <1>2, <1>3, <1>4 DEF OneByOne

\* The same, of the stack the operation was the top of.
LEMMA Stacks ==
  ASSUME NEW s \in Seq(Operations), s # <<>>,
         NEW a \in Operations, NEW b \in Operations, NEW c \in Operations
  PROVE  /\ Popped(s, <<>> \o Rest(s)) /\ Becomes(s, <<a>> \o Rest(s), a)
         /\ Becomes2(s, <<a, b>> \o Rest(s), a, b)
         /\ Becomes3(s, <<a, b, c>> \o Rest(s), a, b, c)
         /\ Pushed(s, <<a>> \o s, a)
         /\ \A ops \in {<<>>, <<a>>, <<a, b>>, <<a, b, c>>} : ops \o Rest(s) \in Seq(Operations)
<1> DEFINE r == Rest(s)
           r1 == <<c>> \o r
           r2 == <<b>> \o r1
<1>1. r \in Seq(Operations) /\ Seen(s) /\ Seen(r)
  BY SeenAlways
<1>2. Popped(s, <<>> \o r)
  BY <1>1, ConcatEmptySeq DEF Popped, Seen, Second, Below
<1>3. /\ Becomes(s, <<a>> \o r, a)
      /\ Pushed(s, <<a>> \o s, a)
  BY <1>1, Pushes DEF Becomes, Pushed, Second, Below
<1>0. \A S : {a} \cup ({b} \cup S) = {a, b} \cup S /\ {b} \cup ({c} \cup S) = {b, c} \cup S
               /\ {a} \cup ({b, c} \cup S) = {a, b, c} \cup S
  OBVIOUS
<1>4. /\ <<b>> \o r \in Seq(Operations) /\ Top(<<b>> \o r) = b /\ Elems(<<b>> \o r) = {b} \cup Below(s)
  BY <1>1, Pushes DEF Below
<1>5. Becomes2(s, <<a>> \o (<<b>> \o r), a, b)
  <2> DEFINE q == <<b>> \o r
  <2>1. q \in Seq(Operations) /\ Top(q) = b /\ Elems(q) = {b} \cup Below(s)
    BY <1>4
  <2> HIDE DEF q
  <2>2. /\ Top(<<a>> \o q) = a /\ Second(<<a>> \o q) = b
        /\ Below(<<a>> \o q) = Elems(q) /\ Elems(<<a>> \o q) = {a} \cup Elems(q)
    BY <2>1, Pushes
  <2>3. Becomes2(s, <<a>> \o q, a, b)
    BY <1>0, <2>1, <2>2 DEF Becomes2
  <2> QED BY <2>3 DEF q
<1>6. /\ r1 \in Seq(Operations) /\ Top(r1) = c /\ Elems(r1) = {c} \cup Below(s)
  BY <1>1, Pushes DEF Below
<1>7. /\ r2 \in Seq(Operations) /\ Top(r2) = b /\ Elems(r2) = {b} \cup Elems(r1)
  BY <1>6, Pushes
<1>8. Becomes3(s, <<a>> \o r2, a, b, c)
  <2> HIDE DEF r, r1, r2
  <2>1. /\ Top(<<a>> \o r2) = a /\ Second(<<a>> \o r2) = b
        /\ Below(<<a>> \o r2) = Elems(r2) /\ Elems(<<a>> \o r2) = {a} \cup Elems(r2)
    BY <1>7, Pushes
  <2>2. Elems(r2) = {b, c} \cup Below(s)
    BY <1>0, <1>6, <1>7
  <2> QED BY <1>0, <2>1, <2>2 DEF Becomes3
<1>9. <<a>> \o r \in Seq(Operations) /\ <<a>> \o (<<b>> \o r) \in Seq(Operations) /\
        <<a>> \o r2 \in Seq(Operations)
  BY <1>1, <1>4, <1>7, Pushes
<1>10. <<>> \o r = r /\ <<a, b>> \o r = <<a>> \o (<<b>> \o r) /\ <<a, b, c>> \o r = <<a>> \o r2
  <2> HIDE DEF r
  <2>1. <<>> \o r = r
    BY <1>1, ConcatEmptySeq
  <2>2. <<a, b>> \o r = <<a>> \o (<<b>> \o r)
    BY <1>1, PushesTwo
  <2>3. <<a, b, c>> \o r = <<a>> \o (<<b>> \o (<<c>> \o r))
    <3>1. OneByOne(r, a, b, c)
      BY <1>1, PushesThree
    <3> QED BY ONLY <3>1 DEF OneByOne
  <2> QED BY <2>1, <2>2, <2>3
<1> HIDE DEF r, r1, r2
<1>11. \A ops \in {<<>>, <<a>>, <<a, b>>, <<a, b, c>>} : ops \o r \in Seq(Operations)
  BY <1>1, <1>9, <1>10
<1> QED BY <1>2, <1>3, <1>5, <1>8, <1>10, <1>11 DEF r

\* What may be at the top of a stack that fits, and what below it.
LEMMA FitsTop ==
  ASSUME NEW s \in Seq(Operations), s # <<>>, NEW next, Fits(s, next)
  PROVE  <<Top(s), Second(s)>> \in next /\ Over(Top(s), Below(s))
<1>1. Len(s) \in Nat \ {0} /\ Top(s) = s[1] /\ Rest(s) = Tail(s) /\ 1 \in 1..Len(s)
  BY DEF Top, Rest
<1>2. Tail(s) \in Seq(Operations) /\ Len(Tail(s)) = Len(s) - 1 /\
        \A i \in 1..Len(s)-1 : Tail(s)[i] = s[i + 1]
  OBVIOUS
<1>3. Second(s) = IF 1 = Len(s) THEN "end" ELSE s[1 + 1]
  <2>1. CASE Len(s) = 1
    <3>1. \A q \in Seq(Operations) : Len(q) = 0 => q = <<>>
      OBVIOUS
    <3>2. Len(Tail(s)) = 0
      BY <2>1, <1>2
    <3>3. Tail(s) = <<>>
      BY <3>1, <3>2, <1>2
    <3> QED BY <3>3, <2>1, <1>1 DEF Second, Top
  <2>2. CASE Len(s) # 1
    <3>1. Tail(s) # <<>> /\ Head(Tail(s)) = s[2]
      BY <2>2, <1>1, <1>2
    <3> QED BY <3>1, <2>2, <1>1 DEF Second, Top
  <2> QED BY <2>1, <2>2
<1>4. Below(s) = {s[j] : j \in 1+1..Len(s)}
  <2>1. ASSUME NEW j \in 1+1..Len(s) PROVE s[j] \in Elems(Tail(s))
    <3>1. j - 1 \in 1..Len(Tail(s)) /\ Tail(s)[j - 1] = s[j]
      BY <1>1, <1>2
    <3> QED BY <3>1 DEF Elems
  <2>2. ASSUME NEW j \in 1..Len(Tail(s)) PROVE Tail(s)[j] \in {s[k] : k \in 1+1..Len(s)}
    <3>1. j + 1 \in 1+1..Len(s) /\ Tail(s)[j] = s[j + 1]
      BY <1>1, <1>2
    <3> QED BY <3>1
  <2> QED BY <2>1, <2>2, <1>1 DEF Below, Elems
<1> QED BY <1>1, <1>3, <1>4 DEF Fits

\* A stack still fits when its top returns ...
LEMMA FitsRest ==
  ASSUME NEW s \in Seq(Operations), NEW next, Fits(s, next)
  PROVE  Fits(Rest(s), next)
<1>1. CASE s = <<>>
  BY <1>1 DEF Rest
<1>2. CASE s # <<>>
  <2> DEFINE r == Tail(s)
  <2>1. Rest(s) = r /\ r \in Seq(Operations) /\ Len(r) = Len(s) - 1 /\ Len(s) \in Nat
        /\ \A i \in 1..Len(r) : r[i] = s[i + 1]
    BY <1>2 DEF Rest
  <2> HIDE DEF r
  <2>2. ASSUME NEW i \in 1..Len(r)
        PROVE  /\ <<r[i], IF i = Len(r) THEN "end" ELSE r[i + 1]>> \in next
               /\ Over(r[i], {r[j] : j \in i+1..Len(r)})
    <3>1. i + 1 \in 1..Len(s) /\ r[i] = s[i + 1] /\ (i = Len(r) <=> i + 1 = Len(s))
      BY <2>1
    <3>2. i # Len(r) => r[i + 1] = s[(i + 1) + 1]
      BY <2>1
    <3>3. {r[j] : j \in i+1..Len(r)} = {s[j] : j \in (i+1)+1..Len(s)}
      <4>1. ASSUME NEW j \in i+1..Len(r) PROVE r[j] \in {s[k] : k \in (i+1)+1..Len(s)}
        <5>1. j + 1 \in (i+1)+1..Len(s) /\ r[j] = s[j + 1]
          BY <2>1
        <5> QED BY <5>1
      <4>2. ASSUME NEW j \in (i+1)+1..Len(s) PROVE s[j] \in {r[k] : k \in i+1..Len(r)}
        <5>1. j - 1 \in i+1..Len(r) /\ s[j] = r[j - 1]
          BY <2>1
        <5> QED BY <5>1
      <4> QED BY <4>1, <4>2
    <3>4. /\ <<s[i + 1], IF i + 1 = Len(s) THEN "end" ELSE s[(i + 1) + 1]>> \in next
          /\ Over(s[i + 1], {s[j] : j \in (i+1)+1..Len(s)})
      BY <3>1 DEF Fits
    <3>5. CASE i = Len(r)
      BY <3>1, <3>3, <3>4, <3>5
    <3>6. CASE i # Len(r)
      BY <3>1, <3>2, <3>3, <3>4, <3>6
    <3> QED BY <3>5, <3>6
  <2>3. Fits(r, next)
    BY <2>2 DEF Fits
  <2> QED BY <2>1, <2>3
<1> QED BY <1>1, <1>2

\* ... and when one, two or three operations that may be there are put on top.
LEMMA FitsPush ==
  ASSUME NEW r \in Seq(Operations), NEW a \in Operations, NEW next, Fits(r, next),
         <<a, Top(r)>> \in next, Over(a, Elems(r))
  PROVE  Fits(<<a>> \o r, next)
<1> DEFINE s == <<a>> \o r
<1>1. /\ s \in Seq(Operations) /\ Len(s) = Len(r) + 1 /\ Len(r) \in Nat /\ s[1] = a
      /\ \A i \in 1..Len(r) : s[i + 1] = r[i]
  OBVIOUS
<1> HIDE DEF s
<1>2. ASSUME NEW i \in 1..Len(s)
      PROVE  /\ <<s[i], IF i = Len(s) THEN "end" ELSE s[i + 1]>> \in next
             /\ Over(s[i], {s[j] : j \in i+1..Len(s)})
  <2>1. CASE i = 1
    <3>1. Top(r) = IF 1 = Len(s) THEN "end" ELSE s[1 + 1]
      <4>1. CASE r = <<>>
        BY <4>1, <1>1 DEF Top
      <4>2. CASE r # <<>>
        <5>1. Len(r) # 0 /\ Top(r) = r[1]
          BY <4>2 DEF Top
        <5> QED BY <5>1, <1>1
      <4> QED BY <4>1, <4>2
    <3>2. Elems(r) = {s[j] : j \in 1+1..Len(s)}
      <4>1. ASSUME NEW j \in 1..Len(r) PROVE r[j] \in {s[m] : m \in 1+1..Len(s)}
        <5>1. j + 1 \in 1+1..Len(s) /\ r[j] = s[j + 1]
          BY <1>1
        <5> QED BY <5>1
      <4>2. ASSUME NEW j \in 1+1..Len(s) PROVE s[j] \in {r[m] : m \in 1..Len(r)}
        <5>1. j - 1 \in 1..Len(r) /\ s[j] = r[j - 1]
          BY <1>1
        <5> QED BY <5>1
      <4> QED BY <4>1, <4>2 DEF Elems
    <3> QED BY <1>1, <2>1, <3>1, <3>2
  <2>2. CASE i # 1
    <3> DEFINE k == i - 1
    <3>1. k \in 1..Len(r) /\ i = k + 1 /\ s[i] = r[k] /\ (i = Len(s) <=> k = Len(r))
      BY <1>1, <2>2
    <3>2. k # Len(r) => s[i + 1] = r[k + 1]
      BY <1>1, <2>2
    <3> HIDE DEF k
    <3>3. {s[j] : j \in i+1..Len(s)} = {r[j] : j \in k+1..Len(r)}
      <4>1. ASSUME NEW j \in k+1..Len(r) PROVE r[j] \in {s[m] : m \in i+1..Len(s)}
        <5>1. j + 1 \in i+1..Len(s) /\ r[j] = s[j + 1]
          BY <1>1, <3>1
        <5> QED BY <5>1
      <4>2. ASSUME NEW j \in i+1..Len(s) PROVE s[j] \in {r[m] : m \in k+1..Len(r)}
        <5>1. j - 1 \in k+1..Len(r) /\ s[j] = r[j - 1]
          BY <1>1, <3>1
        <5> QED BY <5>1
      <4> QED BY <4>1, <4>2
    <3>4. /\ <<r[k], IF k = Len(r) THEN "end" ELSE r[k + 1]>> \in next
          /\ Over(r[k], {r[j] : j \in k+1..Len(r)})
      BY <3>1 DEF Fits
    <3>5. CASE k = Len(r)
      BY <3>1, <3>3, <3>4, <3>5
    <3>6. CASE k # Len(r)
      BY <3>1, <3>2, <3>3, <3>4, <3>6
    <3> QED BY <3>5, <3>6
  <2> QED BY <2>1, <2>2
<1> QED BY <1>2 DEF Fits, s

\* An operation is replaced by a call.
LEMMA FitsBecomes ==
  ASSUME NEW s \in Seq(Operations), NEW next, Fits(s, next), NEW a \in Operations,
         <<a, Second(s)>> \in next, Over(a, Below(s))
  PROVE  Fits(<<a>> \o Rest(s), next)
<1>1. Rest(s) \in Seq(Operations) /\ Fits(Rest(s), next)
  BY SeenAlways, FitsRest
<1> QED BY <1>1, FitsPush DEF Second, Below

\* An operation is replaced by two calls.
LEMMA FitsBecomes2 ==
  ASSUME NEW s \in Seq(Operations), NEW next, Fits(s, next),
         NEW a \in Operations, NEW b \in Operations,
         <<b, Second(s)>> \in next, Over(b, Below(s)),
         <<a, b>> \in next, Over(a, {b} \cup Below(s))
  PROVE  Fits(<<a, b>> \o Rest(s), next)
<1>1. Rest(s) \in Seq(Operations)
  BY SeenAlways
<1>2. Fits(<<b>> \o Rest(s), next)
  BY FitsBecomes
<1>3. /\ <<b>> \o Rest(s) \in Seq(Operations) /\ Top(<<b>> \o Rest(s)) = b
      /\ Elems(<<b>> \o Rest(s)) = {b} \cup Below(s)
  BY <1>1, Pushes DEF Below
<1>4. Fits(<<a>> \o (<<b>> \o Rest(s)), next)
  BY <1>2, <1>3, FitsPush
<1> QED BY <1>1, <1>4, PushesTwo

\* An operation is replaced by three calls.
LEMMA FitsBecomes3 ==
  ASSUME NEW s \in Seq(Operations), NEW next, Fits(s, next),
         NEW a \in Operations, NEW b \in Operations, NEW c \in Operations,
         <<c, Second(s)>> \in next, Over(c, Below(s)),
         <<b, c>> \in next, Over(b, {c} \cup Below(s)),
         <<a, b>> \in next, Over(a, {b, c} \cup Below(s))
  PROVE  Fits(<<a, b, c>> \o Rest(s), next)
<1> DEFINE r == <<b>> \o (<<c>> \o Rest(s))
<1>1. Rest(s) \in Seq(Operations)
  BY SeenAlways
<1>2. Fits(<<b, c>> \o Rest(s), next)
  BY FitsBecomes2
<1>3. <<b, c>> \o Rest(s) = r
  BY <1>1, PushesTwo
<1>4. <<c>> \o Rest(s) \in Seq(Operations) /\ Elems(<<c>> \o Rest(s)) = {c} \cup Below(s)
  BY <1>1, Pushes DEF Below
<1>5. r \in Seq(Operations) /\ Top(r) = b /\ Elems(r) = {b} \cup Elems(<<c>> \o Rest(s))
  BY <1>4, Pushes
<1>6. Elems(r) = {b, c} \cup Below(s)
  BY <1>4, <1>5
<1>7. <<a, b, c>> \o Rest(s) = <<a>> \o r
  <2> DEFINE t == Rest(s)
  <2>1. t \in Seq(Operations) /\ a \in Operations /\ b \in Operations /\ c \in Operations
    BY <1>1
  <2> HIDE DEF t
  <2>2. <<a, b, c>> \o t = <<a>> \o (<<b>> \o (<<c>> \o t))
    <3>1. OneByOne(t, a, b, c)
      BY ONLY <2>1, PushesThree
    <3> QED BY ONLY <3>1 DEF OneByOne
  <2> QED BY <2>2 DEF t
<1> HIDE DEF r
<1>8. Fits(<<a>> \o r, next)
  BY <1>2, <1>3, <1>5, <1>6, FitsPush
<1> QED BY <1>7, <1>8

-----------------------------------------------------------------------------
(* Queues of datagrams and of commands *)

\* A datagram is put at the end of a queue.
LEMMA Appended ==
  ASSUME NEW S, NEW s \in Seq(S), NEW x \in S, NEW C
  PROVE  /\ Append(s, x) \in Seq(S) /\ Append(s, x) # <<>>
         /\ Elems(Append(s, x)) = Elems(s) \cup {x}
         /\ AtMostOne(s, C) /\ (x \notin C \/ \A y \in Elems(s) : y \notin C)
              => AtMostOne(Append(s, x), C)
<1> DEFINE q == Append(s, x)
<1>1. /\ q \in Seq(S) /\ q # <<>> /\ Len(q) = Len(s) + 1 /\ Len(s) \in Nat
      /\ \A i \in 1..Len(s) : q[i] = s[i]
      /\ q[Len(s) + 1] = x
  OBVIOUS
<1> HIDE DEF q
<1>2. Elems(q) = Elems(s) \cup {x}
  BY <1>1 DEF Elems
<1>3. ASSUME AtMostOne(s, C), x \notin C \/ \A y \in Elems(s) : y \notin C
      PROVE  AtMostOne(q, C)
  <2> SUFFICES ASSUME NEW i \in 1..Len(q), NEW j \in 1..Len(q), q[i] \in C, q[j] \in C PROVE i = j
    BY DEF AtMostOne
  <2>1. \A k \in 1..Len(q) : k \in 1..Len(s) \/ k = Len(s) + 1
    BY <1>1
  <2>2. CASE x \notin C
    BY <1>1, <1>3, <2>1, <2>2 DEF AtMostOne
  <2>3. CASE \A y \in Elems(s) : y \notin C
    BY <1>1, <2>1, <2>3 DEF Elems
  <2> QED BY <1>3, <2>2, <2>3
<1> QED BY <1>1, <1>2, <1>3 DEF q

\* The first datagram is taken from a queue.
LEMMA Taken ==
  ASSUME NEW S, NEW s \in Seq(S), s # <<>>, NEW C
  PROVE  /\ Head(s) \in S /\ Tail(s) \in Seq(S)
         /\ Elems(s) = {Head(s)} \cup Elems(Tail(s))
         /\ AtMostOne(s, C) => /\ AtMostOne(Tail(s), C)
                               /\ Head(s) \in C => \A y \in Elems(Tail(s)) : y \notin C
<1> DEFINE q == Tail(s)
<1>1. /\ q \in Seq(S) /\ Len(q) = Len(s) - 1 /\ Len(s) \in Nat \ {0} /\ Head(s) = s[1] /\ s[1] \in S
      /\ \A i \in 1..Len(q) : q[i] = s[i + 1]
  OBVIOUS
<1> HIDE DEF q
<1>2. Elems(s) = {Head(s)} \cup Elems(q)
  <2>1. ASSUME NEW i \in 1..Len(s), i # 1 PROVE s[i] \in Elems(q)
    <3>1. i - 1 \in 1..Len(q) /\ q[i - 1] = s[i]
      BY <1>1, <2>1
    <3> QED BY <3>1 DEF Elems
  <2>2. ASSUME NEW i \in 1..Len(q) PROVE q[i] \in Elems(s)
    <3>1. i + 1 \in 1..Len(s) /\ q[i] = s[i + 1]
      BY <1>1
    <3> QED BY <3>1 DEF Elems
  <2>3. s[1] \in Elems(s)
    BY <1>1 DEF Elems
  <2>4. Elems(s) \subseteq {s[1]} \cup Elems(q)
    BY <2>1 DEF Elems
  <2>5. Elems(q) \subseteq Elems(s)
    BY <2>2 DEF Elems
  <2> QED BY <1>1, <2>3, <2>4, <2>5
<1>3. ASSUME AtMostOne(s, C) PROVE AtMostOne(q, C)
  <2> SUFFICES ASSUME NEW i \in 1..Len(q), NEW j \in 1..Len(q), q[i] \in C, q[j] \in C PROVE i = j
    BY DEF AtMostOne
  <2>1. i + 1 \in 1..Len(s) /\ j + 1 \in 1..Len(s) /\ s[i + 1] \in C /\ s[j + 1] \in C
    BY <1>1
  <2> QED BY <2>1, <1>3 DEF AtMostOne
<1>4. ASSUME AtMostOne(s, C), Head(s) \in C, NEW i \in 1..Len(q) PROVE q[i] \notin C
  <2>1. i + 1 \in 1..Len(s) /\ 1 \in 1..Len(s) /\ q[i] = s[i + 1] /\ i + 1 # 1
    BY <1>1
  <2> QED BY <1>1, <1>4, <2>1 DEF AtMostOne
<1> QED BY <1>1, <1>2, <1>3, <1>4 DEF q, Elems

Cmds(b) == {b[i].cmd : i \in 1..Len(b)}
OneAsk(b) == \A i, j \in 1..Len(b) : b[i].cmd = "ask" /\ b[j].cmd = "ask" => i = j

\* A command is scheduled.
LEMMA AppendedCommand ==
  ASSUME NEW b \in Seq(Queued), NEW cmd \in Commands, NEW r \in Queued, r.cmd = cmd, ~r.challenged,
         NEW q, q = Append(b, r)
  PROVE  /\ q \in Seq(Queued) /\ q # <<>>
         /\ Cmds(q) = Cmds(b) \cup {cmd}
         /\ OneAsk(b) /\ (cmd # "ask" \/ "ask" \notin Cmds(b)) => OneAsk(q)
         /\ b # <<>> => Head(q) = Head(b)
         /\ b = <<>> => ~Head(q).challenged
<1>1. /\ q \in Seq(Queued) /\ q # <<>> /\ Len(q) = Len(b) + 1 /\ Len(b) \in Nat
      /\ \A i \in 1..Len(b) : q[i] = b[i]
      /\ q[Len(b) + 1] = r
      /\ b # <<>> => Head(q) = Head(b)
      /\ b = <<>> => Head(q) = r
  BY DEF Queued
<1>2. q[Len(b) + 1].cmd = cmd /\ (b = <<>> => ~Head(q).challenged)
  BY <1>1
<1>3. Cmds(q) = Cmds(b) \cup {cmd}
  BY <1>1, <1>2 DEF Cmds
<1>4. ASSUME OneAsk(b), cmd # "ask" \/ "ask" \notin Cmds(b) PROVE OneAsk(q)
  <2> SUFFICES ASSUME NEW i \in 1..Len(q), NEW j \in 1..Len(q), q[i].cmd = "ask", q[j].cmd = "ask"
               PROVE  i = j
    BY DEF OneAsk
  <2>1. \A k \in 1..Len(q) : k \in 1..Len(b) \/ k = Len(b) + 1
    BY <1>1
  <2>2. CASE cmd # "ask"
    BY <1>1, <1>2, <1>4, <2>1, <2>2 DEF OneAsk
  <2>3. CASE "ask" \notin Cmds(b)
    BY <1>1, <2>1, <2>3 DEF Cmds
  <2> QED BY <1>4, <2>2, <2>3
<1> QED BY <1>1, <1>2, <1>3, <1>4

\* The first command is sent.
LEMMA TakenCommand ==
  ASSUME NEW b \in Seq(Queued), b # <<>>
  PROVE  /\ Tail(b) \in Seq(Queued) /\ Head(b).cmd \in Commands
         /\ Cmds(b) = {Head(b).cmd} \cup Cmds(Tail(b))
         /\ OneAsk(b) => /\ OneAsk(Tail(b))
                         /\ Head(b).cmd = "ask" => "ask" \notin Cmds(Tail(b))
         /\ Len(b) > 1 <=> Tail(b) # <<>>
<1> DEFINE q == Tail(b)
<1>1. /\ q \in Seq(Queued) /\ Len(q) = Len(b) - 1 /\ Len(b) \in Nat \ {0} /\ Head(b) = b[1]
      /\ b[1] \in Queued
      /\ \A i \in 1..Len(q) : q[i] = b[i + 1]
  OBVIOUS
<1> HIDE DEF q
<1>0. q = <<>> <=> Len(q) = 0
  BY <1>1
<1>2. Cmds(b) = {Head(b).cmd} \cup Cmds(q)
  <2>1. ASSUME NEW i \in 1..Len(b), i # 1 PROVE b[i].cmd \in Cmds(q)
    <3>1. i - 1 \in 1..Len(q) /\ q[i - 1] = b[i]
      BY <1>1, <2>1
    <3> QED BY <3>1 DEF Cmds
  <2>2. ASSUME NEW i \in 1..Len(q) PROVE q[i].cmd \in Cmds(b)
    <3>1. i + 1 \in 1..Len(b) /\ q[i] = b[i + 1]
      BY <1>1
    <3> QED BY <3>1 DEF Cmds
  <2>3. b[1].cmd \in Cmds(b)
    BY <1>1 DEF Cmds
  <2>4. Cmds(b) \subseteq {b[1].cmd} \cup Cmds(q)
    BY <2>1 DEF Cmds
  <2>5. Cmds(q) \subseteq Cmds(b)
    BY <2>2 DEF Cmds
  <2> QED BY <1>1, <2>3, <2>4, <2>5
<1>3. ASSUME OneAsk(b) PROVE OneAsk(q)
  <2> SUFFICES ASSUME NEW i \in 1..Len(q), NEW j \in 1..Len(q), q[i].cmd = "ask", q[j].cmd = "ask"
               PROVE  i = j
    BY DEF OneAsk
  <2>1. i + 1 \in 1..Len(b) /\ j + 1 \in 1..Len(b) /\ b[i + 1].cmd = "ask" /\ b[j + 1].cmd = "ask"
    BY <1>1
  <2> QED BY <2>1, <1>3 DEF OneAsk
<1>4. ASSUME OneAsk(b), Head(b).cmd = "ask", NEW i \in 1..Len(q) PROVE q[i].cmd # "ask"
  <2>1. i + 1 \in 1..Len(b) /\ 1 \in 1..Len(b) /\ q[i] = b[i + 1] /\ i + 1 # 1
    BY <1>1
  <2> QED BY <1>1, <1>4, <2>1 DEF OneAsk
<1>5. Head(b).cmd \in Commands
  BY <1>1 DEF Queued
<1>6. Len(b) > 1 <=> q # <<>>
  BY <1>0, <1>1
<1> QED BY <1>1, <1>2, <1>3, <1>4, <1>5, <1>6 DEF q, Cmds

\* The first command asks for a challenge, or has to ask again.
LEMMA AskedCommand ==
  ASSUME NEW b \in Seq(Queued), b # <<>>, NEW x \in BOOLEAN, NEW q,
         q = [b EXCEPT ![1].challenged = x]
  PROVE  /\ q \in Seq(Queued) /\ q # <<>> /\ Cmds(q) = Cmds(b) /\ (OneAsk(b) => OneAsk(q))
         /\ Head(q).challenged = x /\ (Len(q) > 1 <=> Len(b) > 1)
<1> DEFINE first == [b[1] EXCEPT !.challenged = x]
<1>1. Len(b) \in Nat \ {0} /\ b[1] \in Queued
  OBVIOUS
<1>2. first \in Queued /\ first.cmd = b[1].cmd /\ first.challenged = x
  <2>1. \A r \in Queued : LET s == [r EXCEPT !.challenged = x]
                          IN  s \in Queued /\ s.cmd = r.cmd /\ s.challenged = x
    BY DEF Queued
  <2> QED BY <1>1, <2>1
<1>3. q = [b EXCEPT ![1] = first]
  OBVIOUS
<1> HIDE DEF first
<1>4. /\ q \in Seq(Queued) /\ Len(q) = Len(b) /\ q # <<>> /\ Head(q) = first /\ q[1] = first
      /\ \A i \in 1..Len(b) : i # 1 => q[i] = b[i]
  BY <1>1, <1>2, <1>3
<1>5. \A i \in 1..Len(b) : q[i].cmd = b[i].cmd
  BY <1>2, <1>4
<1>6. Cmds(q) = Cmds(b) /\ (OneAsk(b) => OneAsk(q))
  BY <1>4, <1>5 DEF Cmds, OneAsk
<1> QED BY <1>2, <1>4, <1>6

\* An operation of A above one of B.
Above(s, A, B) == \E i, j \in 1..Len(s) : i < j /\ s[i] \in A /\ s[j] \in B
Closes == {"close", "closed", "disconnect"}

\* What short stacks hold.
LEMMA Tuples ==
  ASSUME NEW a, NEW b, NEW c
  PROVE  /\ Elems(<<>>) = {} /\ Elems(<<a>>) = {a} /\ Elems(<<a, b>>) = {a, b}
         /\ Elems(<<a, b, c>>) = {a, b, c}
<1>1. Elems(<<>>) = {} /\ Elems(<<a>>) = {a}
  BY DEF Elems
<1>2. Elems(<<a, b>>) = {a, b}
  <2>1. 1..Len(<<a, b>>) = {1, 2}
    OBVIOUS
  <2> QED BY <2>1 DEF Elems
<1>3. Elems(<<a, b, c>>) = {a, b, c}
  <2>1. 1..Len(<<a, b, c>>) = {1, 2, 3}
    OBVIOUS
  <2> QED BY <2>1 DEF Elems
<1> QED BY <1>1, <1>2, <1>3

\* What an operation that returns or calls others does to what is above what.
LEMMA Concats ==
  ASSUME NEW p \in Seq(Operations), NEW q \in Seq(Operations), NEW A, NEW B
  PROVE  /\ p \o q \in Seq(Operations) /\ Elems(p \o q) = Elems(p) \cup Elems(q)
         /\ Above(p \o q, A, B)
              <=> \/ Above(p, A, B) \/ Above(q, A, B)
                  \/ (\E x \in Elems(p) : x \in A) /\ (\E y \in Elems(q) : y \in B)
<1> DEFINE s == p \o q
           m == Len(p)
           n == Len(q)
<1>1. /\ s \in Seq(Operations) /\ Len(s) = m + n /\ m \in Nat /\ n \in Nat
      /\ \A i \in 1..m : s[i] = p[i]
      /\ \A i \in 1..n : s[m + i] = q[i]
  OBVIOUS
<1> HIDE DEF s, m, n
<1>2. /\ \A i \in 1..m : i \in 1..Len(s)
      /\ \A i \in 1..n : m + i \in 1..Len(s)
      /\ \A i \in 1..Len(s) : i \in 1..m \/ (i - m \in 1..n /\ s[i] = q[i - m])
  <2>1. ASSUME NEW i \in 1..Len(s), i \notin 1..m PROVE i - m \in 1..n /\ s[i] = q[i - m]
    <3>1. i - m \in 1..n /\ m + (i - m) = i
      BY <1>1, <2>1
    <3> QED BY <1>1, <3>1
  <2> QED BY <1>1, <2>1
<1>3. Elems(s) = Elems(p) \cup Elems(q)
  <2>1. Elems(s) = {s[i] : i \in 1..Len(s)} /\ Elems(p) = {p[i] : i \in 1..m} /\
          Elems(q) = {q[i] : i \in 1..n}
    BY DEF Elems, m, n
  <2>2. ASSUME NEW i \in 1..Len(s) PROVE s[i] \in Elems(p) \cup Elems(q)
    BY <1>1, <1>2, <2>1
  <2>3. ASSUME NEW i \in 1..m PROVE p[i] \in Elems(s)
    BY <1>1, <1>2, <2>1
  <2>4. ASSUME NEW i \in 1..n PROVE q[i] \in Elems(s)
    BY <1>1, <1>2, <2>1
  <2> QED BY <2>1, <2>2, <2>3, <2>4
<1>4. ASSUME Above(s, A, B)
      PROVE  \/ Above(p, A, B) \/ Above(q, A, B)
             \/ (\E x \in Elems(p) : x \in A) /\ (\E y \in Elems(q) : y \in B)
  <2>1. PICK i, j \in 1..Len(s) : i < j /\ s[i] \in A /\ s[j] \in B
    BY <1>4 DEF Above
  <2>2. CASE i \in 1..m /\ j \in 1..m
    BY <1>1, <2>1, <2>2 DEF Above, m
  <2>3. CASE i \in 1..m /\ j \notin 1..m
    <3>1. j - m \in 1..n /\ s[j] = q[j - m] /\ s[i] = p[i]
      BY <1>1, <1>2, <2>3
    <3> QED BY <2>1, <2>3, <3>1 DEF Elems, m, n
  <2>4. CASE i \notin 1..m
    <3>1. j \notin 1..m
      BY <1>1, <2>1, <2>4
    <3>2. i - m \in 1..n /\ j - m \in 1..n /\ i - m < j - m /\ s[i] = q[i - m] /\ s[j] = q[j - m]
      BY <1>1, <1>2, <2>1, <2>4, <3>1
    <3> QED BY <2>1, <3>2 DEF Above, n
  <2> QED BY <2>2, <2>3, <2>4
<1>5. ASSUME Above(p, A, B) PROVE Above(s, A, B)
  <2>1. PICK i, j \in 1..m : i < j /\ p[i] \in A /\ p[j] \in B
    BY <1>5 DEF Above, m
  <2> QED BY <1>1, <1>2, <2>1 DEF Above
<1>6. ASSUME Above(q, A, B) PROVE Above(s, A, B)
  <2>1. PICK i, j \in 1..n : i < j /\ q[i] \in A /\ q[j] \in B
    BY <1>6 DEF Above, n
  <2>2. m + i \in 1..Len(s) /\ m + j \in 1..Len(s) /\ m + i < m + j /\ s[m + i] = q[i] /\
          s[m + j] = q[j]
    BY <1>1, <1>2, <2>1
  <2> QED BY <2>1, <2>2 DEF Above
<1>7. ASSUME NEW x \in Elems(p), x \in A, NEW y \in Elems(q), y \in B PROVE Above(s, A, B)
  <2>1. PICK i \in 1..m : p[i] = x
    BY DEF Elems, m
  <2>2. PICK j \in 1..n : q[j] = y
    BY DEF Elems, n
  <2>3. i \in 1..Len(s) /\ m + j \in 1..Len(s) /\ i < m + j /\ s[i] = x /\ s[m + j] = y
    BY <1>1, <1>2, <2>1, <2>2
  <2> QED BY <1>7, <2>3 DEF Above
<1> QED BY <1>1, <1>3, <1>4, <1>5, <1>6, <1>7 DEF s

\* What is above what, by the top of the stack.
LEMMA AboveTop ==
  ASSUME NEW s \in Seq(Operations), s # <<>>, NEW A, NEW B
  PROVE  Above(s, A, B) <=> \/ Top(s) \in A /\ \E y \in Below(s) : y \in B
                            \/ Above(Rest(s), A, B)
<1> DEFINE p == <<Top(s)>>
           r == Rest(s)
<1>1. p \in Seq(Operations) /\ r \in Seq(Operations)
  BY DEF Top, Rest
<1>2. s = p \o r
  <2>1. p \o r \in Seq(Operations) /\ Len(p \o r) = Len(s)
    BY DEF Top, Rest
  <2>2. \A i \in 1..Len(s) : (p \o r)[i] = s[i]
    BY DEF Top, Rest
  <2> QED BY <2>1, <2>2, SeqEqual
<1>3. Elems(p) = {Top(s)}
  BY Tuples
<1>4. Len(p) = 1
  OBVIOUS
<1> HIDE DEF p, r
<1>5. ~Above(p, A, B)
  BY <1>4 DEF Above
<1>6. Above(p \o r, A, B) <=> \/ Above(p, A, B) \/ Above(r, A, B)
                              \/ (\E x \in Elems(p) : x \in A) /\ (\E y \in Elems(r) : y \in B)
  BY <1>1, Concats
<1> QED BY <1>2, <1>3, <1>5, <1>6 DEF Below, r

Answers == {"ack", "challenge", "mine", "others"}
main == todo["main"]
timer == todo["timer"]
input == todo["input"]

TypeOK ==
  /\ secure \in {"NO", "CHALLENGE"}
  /\ todo \in [Threads -> Seq(Operations)]
  /\ status \in {"DISCONNECTED", "WAITING"} \cup Alive
  /\ open \in BOOLEAN /\ polling \in BOOLEAN /\ crashed \in BOOLEAN
  /\ emutex \in Threads \cup {"free"}
  /\ OnlyFirstAsked(buffer) /\ (secure = "NO" => buffer = <<>>)
  /\ toServer \in Seq(Commands \cup {"getchallenge"})
  /\ toBot \in Seq(Answers)
  /\ calls \in Nat /\ taken \in Nat /\ faults \in Nat

Well(s) == ~Above(s, {"read"}, Operations) /\ ~Above(s, {"release"}, {"release"})
Wells == \A t \in Threads : Well(todo[t])
Mutex == \A t \in Threads : "release" \in Elems(todo[t]) <=> emutex = t
SomebodyAsks == NeedsChallenge => \E t \in Threads : "getchallenge" \in Elems(todo[t])
CrashedBusy == crashed => \E t \in Threads : Top(todo[t]) \in {"open", "join"}
NotYet ==
  calls = 0 => /\ \A t \in Threads : todo[t] = <<>>
               /\ status = "DISCONNECTED" /\ ~open /\ ~polling /\ emutex = "free"
               /\ buffer = <<>> /\ toServer = <<>> /\ toBot = <<>> /\ dest = "none"
               /\ ~crashed /\ faults = 0

Sound == TypeOK /\ Wells /\ Mutex /\ SomebodyAsks /\ CrashedBusy

ReceivesClosed(t) == Top(todo[t]) = "receiving" /\ ~open
JoinsHolding(t) == emutex = t /\ Above(todo[t], {"join"}, {"release"})
InputReconnects == Above(input, Closes, {"connect"}) \/ (~open /\ "connect" \in Elems(input))
InputOpens == Top(input) = "open" /\ ~open
Stuck ==
  \/ crashed
  \/ \E t \in Threads : ReceivesClosed(t) \/ JoinsHolding(t)
  \/ InputReconnects \/ InputOpens

Nests ==
  {<<>>} \cup {<<a>> : a \in Operations \ {"read", "release"}}
  \cup {<<"close", "release">>, <<"close", "close">>, <<"close", "connect">>,
    <<"close", "getchallenge">>,
        <<"disconnect", "join">>, <<"checking", "ask">>, <<"connected", "announce">>,
        <<"unset", "sync">>, <<"bye", "close">>, <<"set", "wait", "updated">>,
        <<"close", "disconnect", "join">>}

\* What an operation calls is well formed.
LEMMA NestsAre ==
  ASSUME NEW ops \in Nests
  PROVE  /\ ops \in Seq(Operations) /\ Well(ops) /\ "read" \notin Elems(ops)
         /\ Elems(ops) \subseteq Operations
<1>1. CASE ops = <<>>
  BY <1>1 DEF Elems, Well, Above
<1>2. CASE \E a \in Operations \ {"read", "release"} : ops = <<a>>
  <2>1. PICK a \in Operations \ {"read", "release"} : ops = <<a>>
    BY <1>2
  <2>2. 1..Len(ops) = {1} /\ ops \in Seq(Operations)
    BY <2>1
  <2>3. Well(ops)
    BY <2>2 DEF Well, Above
  <2>4. Elems(ops) = {a}
    BY <2>1, Tuples
  <2> QED BY <2>2, <2>3, <2>4
<1>3. ASSUME NEW a \in Operations \ {"read", "release"}, NEW b \in Operations \ {"read"}, ops = <<a, b>>
      PROVE  /\ ops \in Seq(Operations) /\ Well(ops) /\ "read" \notin Elems(ops)
             /\ Elems(ops) \subseteq Operations
  <2>1. 1..Len(ops) = {1, 2} /\ ops \in Seq(Operations) /\ ops[1] = a /\ ops[2] = b
    BY <1>3
  <2>2. Well(ops)
    BY <2>1 DEF Well, Above
  <2>3. Elems(ops) = {a, b}
    BY <1>3, Tuples
  <2> QED BY <2>1, <2>2, <2>3
<1>4. ASSUME NEW a \in Operations \ {"read", "release"}, NEW b \in Operations \ {"read", "release"},
             NEW c \in Operations \ {"read", "release"}, ops = <<a, b, c>>
      PROVE  /\ ops \in Seq(Operations) /\ Well(ops) /\ "read" \notin Elems(ops)
             /\ Elems(ops) \subseteq Operations
  <2>1. 1..Len(ops) = {1, 2, 3} /\ ops \in Seq(Operations) /\ ops[1] = a /\ ops[2] = b /\ ops[3] = c
    BY <1>4
  <2>2. Well(ops)
    BY <2>1 DEF Well, Above
  <2>3. Elems(ops) = {a, b, c}
    BY Zenon, <1>4, Tuples
  <2> QED BY <2>1, <2>2, <2>3
<1>5. {"close", "release", "connect", "getchallenge", "disconnect", "join", "checking", "ask",
       "connected", "announce", "unset", "sync", "bye", "set", "wait",
         "updated"} \subseteq Operations \ {"read"}
  BY DEF Operations
<1>6. CASE ops \in {<<"close", "release">>, <<"close", "close">>, <<"close", "connect">>,
                    <<"close", "getchallenge">>}
  BY <1>3, <1>5, <1>6
<1>7. CASE ops \in {<<"disconnect", "join">>, <<"checking", "ask">>, <<"connected", "announce">>,
                    <<"unset", "sync">>, <<"bye", "close">>}
  BY <1>3, <1>5, <1>7
<1>8. CASE ops \in {<<"set", "wait", "updated">>, <<"close", "disconnect", "join">>}
  BY <1>4, <1>5, <1>8
<1> QED BY <1>1, <1>2, <1>6, <1>7, <1>8 DEF Nests

\* A thread that goes on has a well-formed stack.
LEMMA RunsStack ==
  ASSUME todo \in [Threads -> Seq(Operations)], NEW t \in Threads, todo[t] # <<>>, NEW ops \in Nests,
         Well(todo[t]), "release" \in Elems(ops) => "release" \notin Below(todo[t]),
         Do(t, ops)
  PROVE  /\ todo' \in [Threads -> Seq(Operations)]
         /\ \A u \in Threads \ {t} : todo'[u] = todo[u]
         /\ todo'[t] = ops \o Rest(todo[t])
         /\ Well(todo'[t])
         /\ Elems(todo'[t]) = Elems(ops) \cup Below(todo[t])
         /\ \A A, B : Above(Rest(todo[t]), A, B) => Above(todo'[t], A, B)
         /\ \A A, B : (\E x \in Elems(ops) : x \in A) /\ (\E y \in Below(todo[t]) : y \in B)
              => Above(todo'[t], A, B)
<1> DEFINE s == todo[t]
           r == Rest(todo[t])
<1>1. /\ s \in Seq(Operations) /\ r \in Seq(Operations) /\ r = Tail(s)
      /\ ops \in Seq(Operations) /\ Well(ops) /\ "read" \notin Elems(ops)
  BY SeenAlways, NestsAre DEF Rest
<1>2. todo'[t] = ops \o r /\ \A u \in Threads \ {t} : todo'[u] = todo[u]
  BY <1>1 DEF Do
<1>3. ops \o r \in Seq(Operations) /\ Elems(ops \o r) = Elems(ops) \cup Below(s)
  BY <1>1, Concats DEF Below
<1>4. todo' \in [Threads -> Seq(Operations)]
  BY <1>1, <1>3 DEF Do
<1>5. \A A, B : Above(ops \o r, A, B)
              <=> \/ Above(ops, A, B) \/ Above(r, A, B)
                  \/ (\E x \in Elems(ops) : x \in A) /\ (\E y \in Below(s) : y \in B)
  BY <1>1, Concats DEF Below
<1>6. Well(r)
  BY <1>1, AboveTop DEF Well
<1> HIDE DEF s, r
<1>7. Well(ops \o r)
  BY <1>1, <1>5, <1>6 DEF Well, s
<1> QED BY <1>2, <1>3, <1>4, <1>5, <1>7 DEF s, r

\* What the steps of a thread have in common: they leave the stacks well formed...
LEMMA RunsSound ==
  ASSUME Sound, NEW t \in Threads, todo[t] # <<>>, NEW ops \in Nests, Do(t, ops),
         "release" \in Elems(ops) => emutex = "free",
         emutex' = IF "release" \in Elems(ops) THEN t
                   ELSE IF Top(todo[t]) = "release" THEN "free" ELSE emutex,
         NeedsChallenge' => \/ NeedsChallenge /\ Top(todo[t]) # "getchallenge"
                            \/ "getchallenge" \in Elems(ops),
         ~crashed'
  PROVE  /\ todo' \in [Threads -> Seq(Operations)]
         /\ Wells' /\ Mutex' /\ SomebodyAsks' /\ CrashedBusy'
<1> USE DEF Sound
<1>1. /\ todo \in [Threads -> Seq(Operations)] /\ Well(todo[t])
      /\ \A u \in Threads : "release" \in Elems(todo[u]) <=> emutex = u
  BY DEF TypeOK, Wells, Mutex
<1>2. /\ Elems(todo[t]) = {Top(todo[t])} \cup Below(todo[t])
      /\ "free" \notin Threads
      /\ Rest(todo[t]) \in Seq(Operations) /\ todo[t] \in Seq(Operations)
  BY <1>1, SeenAlways DEF Seen, Threads
<1>3. Top(todo[t]) = "release" => "release" \notin Below(todo[t])
  BY <1>1, <1>2, AboveTop DEF Well
<1>4. "release" \in Elems(ops) => "release" \notin Below(todo[t])
  BY <1>1, <1>2
<1>5. /\ todo' \in [Threads -> Seq(Operations)]
      /\ \A u \in Threads \ {t} : todo'[u] = todo[u]
      /\ Well(todo'[t]) /\ Elems(todo'[t]) = Elems(ops) \cup Below(todo[t])
  BY <1>1, <1>4, RunsStack
<1>6. Wells'
  BY <1>5 DEF Wells
<1>7. Mutex'
  <2> SUFFICES ASSUME NEW u \in Threads PROVE "release" \in Elems(todo'[u]) <=> emutex' = u
    BY DEF Mutex
  <2>1. CASE u = t
    BY <2>1, <1>1, <1>2, <1>3, <1>4, <1>5
  <2>2. CASE u # t
    <3>1. todo'[u] = todo[u]
      BY <2>2, <1>5
    <3> QED BY <2>2, <3>1, <1>1, <1>2
  <2> QED BY <2>1, <2>2
<1>8. SomebodyAsks'
  <2>1. CASE "getchallenge" \in Elems(ops)
    BY <2>1, <1>5 DEF SomebodyAsks
  <2>2. CASE NeedsChallenge /\ Top(todo[t]) # "getchallenge"
    <3>1. PICK u \in Threads : "getchallenge" \in Elems(todo[u])
      BY <2>2 DEF SomebodyAsks
    <3>2. "getchallenge" \in Elems(todo'[u])
      <4>1. CASE u = t
        BY <4>1, <3>1, <2>2, <1>2, <1>5
      <4>2. CASE u # t
        BY <4>2, <3>1, <1>5
      <4> QED BY <4>1, <4>2
    <3> QED BY <3>2 DEF SomebodyAsks
  <2>3. CASE ~NeedsChallenge'
    BY <2>3 DEF SomebodyAsks
  <2> QED BY <2>1, <2>2, <2>3
<1>9. CrashedBusy'
  BY DEF CrashedBusy
<1> QED BY <1>5, <1>6, <1>7, <1>8, <1>9

\* ... and a link that is stuck stuck.
LEMMA RunsStuck ==
  ASSUME Sound, Stuck, ~crashed, NEW t \in Threads, todo[t] # <<>>, NEW ops \in Nests, Do(t, ops),
         "release" \in Elems(ops) => emutex = "free",
         emutex' = IF "release" \in Elems(ops) THEN t
                   ELSE IF Top(todo[t]) = "release" THEN "free" ELSE emutex,
         open' => open,
         Top(todo[t]) = "receiving" => open,
         Top(todo[t]) = "join" => emutex # t,
         Top(todo[t]) \in Closes => ~open' \/ \E x \in Elems(ops) : x \in Closes,
         Top(todo[t]) = "connect" => open \/ ops = <<"open">>,
         Top(todo[t]) = "open" => open \/ t # "input"
  PROVE  Stuck'
<1> USE DEF Sound
<1>1. /\ todo \in [Threads -> Seq(Operations)] /\ Well(todo[t])
      /\ \A u \in Threads : "release" \in Elems(todo[u]) <=> emutex = u
  BY DEF TypeOK, Wells, Mutex
<1>2. /\ Elems(todo[t]) = {Top(todo[t])} \cup Below(todo[t])
      /\ "free" \notin Threads /\ "input" \in Threads
      /\ Rest(todo[t]) \in Seq(Operations) /\ todo[t] \in Seq(Operations)
  BY <1>1, SeenAlways DEF Seen, Threads
<1>3. Top(todo[t]) = "release" => "release" \notin Below(todo[t])
  BY <1>1, <1>2, AboveTop DEF Well
<1>4. "release" \in Elems(ops) => "release" \notin Below(todo[t])
  BY <1>1, <1>2
<1>5. /\ \A u \in Threads \ {t} : todo'[u] = todo[u]
      /\ Elems(todo'[t]) = Elems(ops) \cup Below(todo[t])
      /\ \A A, B : Above(Rest(todo[t]), A, B) => Above(todo'[t], A, B)
      /\ \A A, B : (\E x \in Elems(ops) : x \in A) /\ (\E y \in Below(todo[t]) : y \in B)
           => Above(todo'[t], A, B)
      /\ todo'[t] = ops \o Rest(todo[t])
  BY <1>1, <1>4, RunsStack
<1>6. \A A, B : Above(todo[t], A, B) <=> \/ Top(todo[t]) \in A /\ \E y \in Below(todo[t]) : y \in B
                                        \/ Above(Rest(todo[t]), A, B)
  BY <1>2, AboveTop
<1>7. ASSUME NEW u \in Threads, ReceivesClosed(u) PROVE Stuck'
  <2>1. u # t /\ ~open /\ ~open'
    BY <1>7 DEF ReceivesClosed
  <2>2. ReceivesClosed(u)'
    BY <1>5, <1>7, <2>1 DEF ReceivesClosed
  <2> QED BY <2>2 DEF Stuck
<1>8. ASSUME NEW u \in Threads, JoinsHolding(u) PROVE Stuck'
  <2>1. emutex = u /\ Above(todo[u], {"join"}, {"release"})
    BY <1>8 DEF JoinsHolding
  <2>2. CASE u = t
    <3>1. Above(Rest(todo[t]), {"join"}, {"release"})
      BY <1>6, <2>1, <2>2
    <3>2. Top(todo[t]) = "release" => FALSE
      <4>1. \A y \in {"release"} : y = "release"
        OBVIOUS
      <4>2. "release" \in Below(todo[t])
        BY <1>2, <3>1 DEF Above, Below, Elems
      <4> QED BY <1>3, <4>2
    <3>3. emutex' = t /\ Above(todo'[t], {"join"}, {"release"})
      BY <1>2, <1>5, <2>1, <2>2, <3>1, <3>2
    <3> QED BY <3>3 DEF JoinsHolding, Stuck
  <2>3. CASE u # t
    <3>1. Top(todo[t]) # "release"
      BY <1>1, <1>2, <2>1, <2>3
    <3>2. emutex' = u /\ todo'[u] = todo[u]
      BY <1>2, <1>5, <2>1, <2>3, <3>1
    <3> QED BY <2>1, <3>2 DEF JoinsHolding, Stuck
  <2> QED BY <2>2, <2>3
<1>9. CASE InputReconnects
  <2>1. CASE t # "input"
    BY <1>2, <1>5, <1>9, <2>1 DEF InputReconnects, input, Stuck
  <2>2. CASE t = "input"
    <3>0. TypeOK
      OBVIOUS
    <3>1. CASE Above(Rest(todo[t]), Closes, {"connect"})
      BY <1>5, <2>2, <3>1 DEF InputReconnects, input, Stuck
    <3>2. CASE Top(todo[t]) \in Closes /\ "connect" \in Below(todo[t])
      <4>1. CASE ~open'
        BY <1>5, <2>2, <3>2, <4>1 DEF InputReconnects, input, Stuck
      <4>2. CASE \E x \in Elems(ops) : x \in Closes
        <5>1. \E y \in Below(todo[t]) : y \in {"connect"}
          BY <3>2
        <5>2. Above(todo'[t], Closes, {"connect"})
          BY <1>5, <4>2, <5>1
        <5> QED BY <2>2, <5>2 DEF InputReconnects, input, Stuck
      <4> QED BY <3>2, <4>1, <4>2
    <3>3. CASE ~open /\ "connect" \in Below(todo[t])
      BY <1>5, <2>2, <3>3 DEF InputReconnects, input, Stuck
    <3>4. CASE ~open /\ Top(todo[t]) = "connect"
      <4>1. ops = <<"open">> /\ "open" \in Operations
        BY <3>4 DEF Operations
      <4>2. Top(todo'[t]) = "open"
        BY <1>2, <1>5, <4>1, Pushes
      <4> QED BY <2>2, <3>4, <4>2 DEF InputOpens, input, Stuck
    <3>5. Above(todo[t], Closes, {"connect"}) \/ (~open /\ "connect" \in Elems(todo[t]))
      BY <1>9, <2>2 DEF InputReconnects, input
    <3>6. \A y \in {"connect"} : y = "connect"
      OBVIOUS
    <3> QED BY <1>2, <1>6, <3>1, <3>2, <3>3, <3>4, <3>5
  <2> QED BY <2>1, <2>2
<1>10. CASE InputOpens
  <2>1. t # "input" /\ ~open'
    BY <1>10 DEF InputOpens, input
  <2> QED BY <1>2, <1>5, <1>10, <2>1 DEF InputOpens, input, Stuck
<1> QED BY <1>7, <1>8, <1>9, <1>10 DEF Stuck

\* An operation that returns or calls others, in a thread.
Runs(t, ops) ==
  /\ ops \in Nests /\ todo[t] # <<>> /\ Do(t, ops)
  /\ "release" \in Elems(ops) => emutex = "free"
  /\ emutex' = IF "release" \in Elems(ops) THEN t
               ELSE IF Top(todo[t]) = "release" THEN "free" ELSE emutex
  /\ NeedsChallenge' => \/ NeedsChallenge /\ Top(todo[t]) # "getchallenge"
                        \/ "getchallenge" \in Elems(ops)
  /\ open' => open
  /\ Top(todo[t]) = "receiving" => open
  /\ Top(todo[t]) = "join" => emutex # t
  /\ Top(todo[t]) \in Closes => ~open' \/ \E x \in Elems(ops) : x \in Closes
  /\ Top(todo[t]) = "connect" => open \/ ops = <<"open">>
  /\ Top(todo[t]) = "open" => open \/ t # "input"
  /\ ~crashed'

\* Both, of a step of a thread.
LEMMA RunsKeep ==
  ASSUME Sound, ~crashed, NEW t \in Threads, NEW ops, Runs(t, ops)
  PROVE  /\ todo' \in [Threads -> Seq(Operations)]
         /\ Wells' /\ Mutex' /\ SomebodyAsks' /\ CrashedBusy'
         /\ Stuck => Stuck'
<1>1. /\ todo' \in [Threads -> Seq(Operations)]
      /\ Wells' /\ Mutex' /\ SomebodyAsks' /\ CrashedBusy'
  BY RunsSound DEF Runs
<1>2. ASSUME Stuck PROVE Stuck'
  BY <1>2, RunsStuck DEF Runs
<1> QED BY <1>1, <1>2

\* What the calls of an operation hold.
LEMMA NestElems ==
  /\ Elems(<<>>) = {} /\ <<>> \in Nests
  /\ \A a \in Operations \ {"read", "release"} : Elems(<<a>>) = {a} /\ <<a>> \in Nests
  /\ \A a, b : Elems(<<a, b>>) = {a, b}
  /\ \A a, b, c : Elems(<<a, b, c>>) = {a, b, c}
<1>1. Elems(<<>>) = {} /\ <<>> \in Nests
  BY Tuples DEF Nests
<1>2. \A a \in Operations \ {"read", "release"} : Elems(<<a>>) = {a} /\ <<a>> \in Nests
  BY Tuples DEF Nests
<1>3. \A a, b : Elems(<<a, b>>) = {a, b}
  BY Tuples
<1>4. ASSUME NEW a, NEW b, NEW c PROVE Elems(<<a, b, c>>) = {a, b, c}
  <2>1. 1..Len(<<a, b, c>>) = {1, 2, 3}
    OBVIOUS
  <2> QED BY <2>1 DEF Elems
<1> QED BY <1>1, <1>2, <1>3, <1>4

\* The operation a thread is at is the top of its stack.
LEMMA AtTop ==
  ASSUME NEW t, NEW op, At(t, op)
  PROVE  todo[t] # <<>> /\ Top(todo[t]) = op
  BY DEF At, Top

\* The steps of a thread that return or call other operations.
LEMMA StepRuns ==
  ASSUME Sound, ~crashed, NEW t \in Threads
  PROVE  Connect(t) \/ OpenAlready(t) \/ Update(t) \/ Wait(t) \/ Updated(t) \/ Request(t) \/
         Checking(t) \/ CommandDropped(t) \/ CommandSent(t) \/ CommandScheduled(t) \/
         CommandFails(t) \/ Release(t) \/ Sync(t) \/ SyncRefused(t) \/ ChallengeUnused(t) \/
         ChallengeLate(t) \/ HandleDest(t) \/ Connected(t) \/ Announce(t) \/ Close(t) \/ Closed(t) \/
         IoClose(t) => \E ops : Runs(t, ops)
<1> USE NestElems DEF Operations
<1>1. ASSUME Connect(t) PROVE \E ops : Runs(t, ops)
  <2>1. todo[t] # <<>> /\ Top(todo[t]) = "connect"
    BY <1>1, AtTop DEF Connect
  <2>2. Runs(t, <<>>) \/ Runs(t, <<"open">>)
    BY <1>1, <2>1 DEF Connect, Done, Runs, Closes, Same, SameLink, linkVars, SameEngine, engineVars,
       NeedsChallenge, EngineFree, Nests
  <2> QED BY <2>2
<1>2. ASSUME OpenAlready(t) PROVE \E ops : Runs(t, ops)
  <2>1. todo[t] # <<>> /\ Top(todo[t]) = "open"
    BY <1>2, AtTop DEF OpenAlready
  <2>2. Runs(t, <<>>)
    BY <1>2, <2>1 DEF OpenAlready, Done, Runs, Closes, Same, SameLink, linkVars, SameEngine,
       engineVars, NeedsChallenge, EngineFree, Nests
  <2> QED BY <2>2
<1>3. ASSUME Update(t) PROVE \E ops : Runs(t, ops)
  <2>1. todo[t] # <<>> /\ Top(todo[t]) = "update"
    BY <1>3, AtTop DEF Update
  <2>2. Runs(t, <<>>) \/ Runs(t, <<"set", "wait", "updated">>)
    BY <1>3, <2>1 DEF Update, Done, Runs, Closes, Same, SameLink, linkVars, SameEngine, engineVars,
       NeedsChallenge, EngineFree, Nests
  <2> QED BY <2>2
<1>4. ASSUME Wait(t) PROVE \E ops : Runs(t, ops)
  <2>1. todo[t] # <<>> /\ Top(todo[t]) = "wait"
    BY <1>4, AtTop DEF Wait
  <2>2. Runs(t, <<>>) \/ Runs(t, <<"sync">>)
    BY <1>4, <2>1 DEF Wait, Done, Runs, Closes, Same, SameLink, linkVars, SameEngine, engineVars,
       NeedsChallenge, EngineFree, Nests
  <2> QED BY <2>2
<1>5. ASSUME Updated(t) PROVE \E ops : Runs(t, ops)
  <2>1. todo[t] # <<>> /\ Top(todo[t]) = "updated"
    BY <1>5, AtTop DEF Updated
  <2>2. Runs(t, <<>>) \/ Runs(t, <<"request">>)
    BY <1>5, <2>1 DEF Updated, Done, Runs, Closes, Same, SameLink, linkVars, SameEngine, engineVars,
       NeedsChallenge, EngineFree, Nests
  <2> QED BY <2>2
<1>6. ASSUME Request(t) PROVE \E ops : Runs(t, ops)
  <2>1. todo[t] # <<>> /\ Top(todo[t]) = "request"
    BY <1>6, AtTop DEF Request
  <2>2. Runs(t, <<"checking", "ask">>) \/ Runs(t, <<"ask">>) \/ Runs(t, <<"close", "connect">>)
    BY <1>6, <2>1 DEF Request, Done, Runs, Closes, Same, SameLink, linkVars, SameEngine, engineVars,
       NeedsChallenge, EngineFree, Nests
  <2> QED BY <2>2
<1>7. ASSUME Checking(t) PROVE \E ops : Runs(t, ops)
  <2>1. todo[t] # <<>> /\ Top(todo[t]) = "checking"
    BY <1>7, AtTop DEF Checking
  <2>2. Runs(t, <<>>)
    BY <1>7, <2>1 DEF Checking, Done, Runs, Closes, Same, SameLink, linkVars, SameEngine,
       engineVars, NeedsChallenge, EngineFree, Nests
  <2> QED BY <2>2
<1>8. ASSUME CommandDropped(t) PROVE \E ops : Runs(t, ops)
  <2>1. todo[t] # <<>> /\ Top(todo[t]) \in {"set", "unset", "ask"}
    BY <1>8, AtTop DEF CommandDropped, Commands
  <2>2. Runs(t, <<>>)
    BY <1>8, <2>1 DEF CommandDropped, Commands, Done, Runs, Closes, Same, SameLink, linkVars,
       SameEngine, engineVars, NeedsChallenge, EngineFree, Nests
  <2> QED BY <2>2
<1>9. ASSUME CommandSent(t) PROVE \E ops : Runs(t, ops)
  <2>1. todo[t] # <<>> /\ Top(todo[t]) \in {"set", "unset", "ask"}
    BY <1>9, AtTop DEF CommandSent, Commands, Sending
  <2>2. Runs(t, <<>>)
    BY <1>9, <2>1 DEF CommandSent, Commands, Sending, Done, Runs, Closes, Same, SameLink, linkVars,
       SameEngine, engineVars, NeedsChallenge, EngineFree, Nests
  <2> QED BY <2>2
<1>10. ASSUME CommandScheduled(t) PROVE \E ops : Runs(t, ops)
  <2>1. todo[t] # <<>> /\ Top(todo[t]) \in {"set", "unset", "ask"}
    BY <1>10, AtTop DEF CommandScheduled, Commands, Sending
  <2>2. Runs(t, <<"getchallenge">>)
    BY <1>10, <2>1 DEF CommandScheduled, Commands, Sending, Done, Runs, Closes, Same, SameLink,
       linkVars, SameEngine, engineVars, NeedsChallenge, EngineFree, Nests
  <2> QED BY <2>2
<1>11. ASSUME CommandFails(t) PROVE \E ops : Runs(t, ops)
  <2>1. todo[t] # <<>> /\ Top(todo[t]) \in {"set", "unset", "ask"}
    BY <1>11, AtTop DEF CommandFails, Commands, Sending
  <2>2. Runs(t, <<"close">>)
    BY <1>11, <2>1 DEF CommandFails, Commands, Sending, Done, Runs, Closes, Same, SameLink,
       linkVars, SameEngine, engineVars, NeedsChallenge, EngineFree, Nests
  <2> QED BY <2>2
<1>12. ASSUME Release(t) PROVE \E ops : Runs(t, ops)
  <2>1. todo[t] # <<>> /\ Top(todo[t]) = "release"
    BY <1>12, AtTop DEF Release
  <2>2. Runs(t, <<>>)
    BY <1>12, <2>1 DEF Release, Done, Runs, Closes, Same, SameLink, linkVars, SameEngine,
       engineVars, NeedsChallenge, EngineFree, Nests
  <2> QED BY <2>2
<1>13. ASSUME Sync(t) PROVE \E ops : Runs(t, ops)
  <2>1. todo[t] # <<>> /\ Top(todo[t]) = "sync"
    BY <1>13, AtTop DEF Sync
  <2>2. Runs(t, <<"receiving">>) \/ Runs(t, <<"close", "close">>)
    BY <1>13, <2>1 DEF Sync, Done, Runs, Closes, Same, SameLink, linkVars, SameEngine, engineVars,
       NeedsChallenge, EngineFree, Nests
  <2> QED BY <2>2
<1>14. ASSUME SyncRefused(t) PROVE \E ops : Runs(t, ops)
  <2>1. todo[t] # <<>> /\ Top(todo[t]) = "receiving"
    BY <1>14, AtTop DEF SyncRefused
  <2>2. Runs(t, <<"close", "close">>)
    BY <1>14, <2>1 DEF SyncRefused, Done, Runs, Closes, Same, SameLink, linkVars, SameEngine,
       engineVars, NeedsChallenge, EngineFree, Nests
  <2> QED BY <2>2
<1>15. ASSUME ChallengeUnused(t) PROVE \E ops : Runs(t, ops)
  <2>1. todo[t] # <<>> /\ Top(todo[t]) = "challenge"
    BY <1>15, AtTop DEF ChallengeUnused
  <2>2. Runs(t, <<>>) \/ Runs(t, <<"getchallenge">>)
    BY <1>15, <2>1 DEF ChallengeUnused, Done, Runs, Closes, Same, SameLink, linkVars, SameEngine,
       engineVars, NeedsChallenge, EngineFree, Nests
  <2> QED BY <2>2
<1>16. ASSUME ChallengeLate(t) PROVE \E ops : Runs(t, ops)
  <2>1. todo[t] # <<>> /\ Top(todo[t]) = "challenge"
    BY <1>16, AtTop DEF ChallengeLate
  <2>2. Runs(t, <<"getchallenge">>)
    BY <1>16, <2>1 DEF ChallengeLate, Done, Runs, Closes, Same, SameLink, linkVars, SameEngine,
       engineVars, NeedsChallenge, EngineFree, Nests
  <2> QED BY <2>2
<1>17. ASSUME HandleDest(t) PROVE \E ops : Runs(t, ops)
  <2>1. todo[t] # <<>> /\ Top(todo[t]) \in {"mine", "others"}
    BY <1>17, AtTop DEF HandleDest
  <2>2. Runs(t, <<"update">>) \/ Runs(t, <<"connected">>) \/ Runs(t, <<"connected", "announce">>)
    BY <1>17, <2>1 DEF HandleDest, Done, Runs, Closes, Same, SameLink, linkVars, SameEngine,
       engineVars, NeedsChallenge, EngineFree, Nests
  <2> QED BY <2>2
<1>18. ASSUME Connected(t) PROVE \E ops : Runs(t, ops)
  <2>1. todo[t] # <<>> /\ Top(todo[t]) = "connected"
    BY <1>18, AtTop DEF Connected
  <2>2. Runs(t, <<>>)
    BY <1>18, <2>1 DEF Connected, Done, Runs, Closes, Same, SameLink, linkVars, SameEngine,
       engineVars, NeedsChallenge, EngineFree, Nests
  <2> QED BY <2>2
<1>19. ASSUME Announce(t) PROVE \E ops : Runs(t, ops)
  <2>1. todo[t] # <<>> /\ Top(todo[t]) = "announce"
    BY <1>19, AtTop DEF Announce
  <2>2. Runs(t, <<>>)
    BY <1>19, <2>1 DEF Announce, Done, Runs, Closes, Same, SameLink, linkVars, SameEngine,
       engineVars, NeedsChallenge, EngineFree, Nests
  <2> QED BY <2>2
<1>20. ASSUME Close(t) PROVE \E ops : Runs(t, ops)
  <2>1. todo[t] # <<>> /\ Top(todo[t]) = "close"
    BY <1>20, AtTop DEF Close
  <2>2. Runs(t, <<"closed">>)
    BY <1>20, <2>1 DEF Close, Done, Runs, Closes, Same, SameLink, linkVars, SameEngine, engineVars,
       NeedsChallenge, EngineFree, Nests
  <2> QED BY <2>2
<1>21. ASSUME Closed(t) PROVE \E ops : Runs(t, ops)
  <2>1. todo[t] # <<>> /\ Top(todo[t]) = "closed"
    BY <1>21, AtTop DEF Closed
  <2>2. Runs(t, <<>>) \/ Runs(t, <<"disconnect", "join">>)
    BY <1>21, <2>1 DEF Closed, Done, Runs, Closes, Same, SameLink, linkVars, SameEngine, engineVars,
       NeedsChallenge, EngineFree, Nests
  <2> QED BY <2>2
<1>22. ASSUME IoClose(t) PROVE \E ops : Runs(t, ops)
  <2>1. todo[t] # <<>> /\ Top(todo[t]) = "disconnect"
    BY <1>22, AtTop DEF IoClose
  <2>2. Runs(t, <<>>)
    BY <1>22, <2>1 DEF IoClose, Done, Runs, Closes, Same, SameLink, linkVars, SameEngine,
       engineVars, NeedsChallenge, EngineFree, Nests
  <2> QED BY <2>2
<1> QED BY <1>1, <1>2, <1>3, <1>4, <1>5, <1>6, <1>7, <1>8, <1>9, <1>10, <1>11, <1>12, <1>13, <1>14,
   <1>15, <1>16, <1>17, <1>18, <1>19, <1>20, <1>21, <1>22

\* The socket is not opened.
LEMMA OpenFailsRuns ==
  ASSUME Sound, ~crashed, NEW t \in Threads, OpenFails(t)
  PROVE  Runs(t, <<"close", "disconnect", "join">>)
<1>1. todo[t] # <<>> /\ Top(todo[t]) = "open" /\ t # "input"
  BY AtTop DEF OpenFails, AsioInUse, Idle
<1> QED BY <1>1, NestElems DEF OpenFails, Nests, Runs, Closes, Same, SameLink, linkVars, SameEngine,
   engineVars, NeedsChallenge

\* The challenges.
LEMMA ChallengeRuns ==
  ASSUME Sound, ~crashed, NEW t \in Threads
  PROVE  GetChallenge(t) \/ GetChallengeFails(t) \/ Challenge(t) \/ Clear(t)
           => \E ops : Runs(t, ops)
<1> USE NestElems DEF Operations, Runs, Closes, Done, SameLink, linkVars, EngineFree, Sound
<1>0. OnlyFirstAsked(buffer) /\ "free" \notin Threads
  BY DEF TypeOK, Threads
<1>1. ASSUME GetChallenge(t) PROVE \E ops : Runs(t, ops)
  <2>1. todo[t] # <<>> /\ Top(todo[t]) = "getchallenge"
    BY <1>1, AtTop DEF GetChallenge
  <2>2. ~NeedsChallenge'
    <3>1. CASE NeedsChallenge
      <4>1. buffer # <<>> /\ buffer' = [buffer EXCEPT ![1].challenged = TRUE]
        BY <1>1, <3>1 DEF GetChallenge, NeedsChallenge
      <4>2. Head(buffer').challenged
        BY <4>1, <1>0, AskedCommand DEF OnlyFirstAsked
      <4> QED BY <4>2 DEF NeedsChallenge
    <3>2. CASE ~NeedsChallenge
      BY <1>1, <3>2 DEF GetChallenge, NeedsChallenge
    <3> QED BY <3>1, <3>2
  <2>3. Runs(t, <<>>)
    BY <1>1, <2>1, <2>2 DEF GetChallenge
  <2> QED BY <2>3
<1>2. ASSUME GetChallengeFails(t) PROVE \E ops : Runs(t, ops)
  <2>1. todo[t] # <<>> /\ Top(todo[t]) = "getchallenge"
    BY <1>2, AtTop DEF GetChallengeFails
  <2>2. Head(buffer').challenged
    BY <1>0, <1>2, AskedCommand DEF OnlyFirstAsked, GetChallengeFails, NeedsChallenge
  <2>3. ~NeedsChallenge'
    BY <2>2 DEF NeedsChallenge
  <2>4. Runs(t, <<"close", "release">>)
    BY <1>2, <2>1, <2>3 DEF GetChallengeFails, Nests
  <2> QED BY <2>4
<1>3. ASSUME Challenge(t) PROVE \E ops : Runs(t, ops)
  <2>1. todo[t] # <<>> /\ Top(todo[t]) = "challenge"
    BY <1>3, AtTop DEF Challenge
  <2>2. NeedsChallenge' => Len(buffer) > 1
    BY <1>0, <1>3, TakenCommand DEF Challenge, NeedsChallenge, OnlyFirstAsked
  <2>3. \/ Runs(t, <<>>) \/ Runs(t, <<"getchallenge">>)
        \/ Runs(t, <<"close">>) \/ Runs(t, <<"close", "getchallenge">>)
    <3>1. CASE Len(buffer) > 1
      <4>1. \/ Do(t, <<"getchallenge">>)
            \/ Do(t, <<"close">> \o <<"getchallenge">>)
        BY <1>3, <3>1 DEF Challenge
      <4>2. <<"close">> \o <<"getchallenge">> = <<"close", "getchallenge">>
        <5>1. /\ <<"close">> \o <<"getchallenge">> \in Seq(Operations)
              /\ <<"close", "getchallenge">> \in Seq(Operations)
          OBVIOUS
        <5>2. Len(<<"close">> \o <<"getchallenge">>) = 2 /\ Len(<<"close", "getchallenge">>) = 2
          OBVIOUS
        <5>3. \A i \in 1..2 : (<<"close">> \o <<"getchallenge">>)[i] = <<"close", "getchallenge">>[i]
          OBVIOUS
        <5> QED BY <5>1, <5>2, <5>3, SeqEqual
      <4>3. CASE Do(t, <<"getchallenge">>)
        BY <1>3, <2>1, <4>3 DEF Challenge
      <4>4. CASE Do(t, <<"close", "getchallenge">>)
        <5>1. <<"close", "getchallenge">> \in Nests /\
                Elems(<<"close", "getchallenge">>) = {"close", "getchallenge"}
          BY DEF Nests
        <5> QED BY <1>3, <2>1, <4>4, <5>1 DEF Challenge
      <4> QED BY <4>1, <4>2, <4>3, <4>4
    <3>2. CASE ~(Len(buffer) > 1)
      <4>1. Do(t, <<>>) \/ Do(t, <<"close">> \o <<>>)
        BY <1>3, <3>2 DEF Challenge
      <4>2. <<"close">> \o <<>> = <<"close">>
        BY ConcatEmptySeq
      <4> QED BY <1>3, <2>1, <2>2, <3>2, <4>1, <4>2 DEF Challenge, Nests
    <3> QED BY <3>1, <3>2
  <2> QED BY <2>3
<1>4. ASSUME Clear(t) PROVE \E ops : Runs(t, ops)
  <2>1. todo[t] # <<>> /\ Top(todo[t]) \in {"clear", "join"}
    BY <1>4, AtTop DEF Clear
  <2>2. Runs(t, <<>>)
    BY <1>0, <1>4, <2>1 DEF Clear, NeedsChallenge
  <2> QED BY <2>2
<1> QED BY <1>1, <1>2, <1>3, <1>4

\* A thread that waits for a datagram receives it.
LEMMA ReceiveRuns ==
  ASSUME Sound, ~crashed, NEW t \in Threads, SyncReceives(t)
  PROVE  \E ops : Runs(t, ops)
<1> USE NestElems DEF Operations, Runs, Closes, SameLink, linkVars, SameEngine, engineVars,
   NeedsChallenge, Sound
<1>1. todo[t] # <<>> /\ Top(todo[t]) = "receiving"
  BY AtTop DEF SyncReceives
<1>2. Head(toBot) \in Answers
  BY DEF SyncReceives, Receive, TypeOK
<1>3. CASE Head(toBot) = "ack"
  <2>1. Do(t, <<>>)
    BY <1>3 DEF SyncReceives, Receive, Do
  <2>2. Runs(t, <<>>)
    BY <1>1, <2>1 DEF SyncReceives, Receive
  <2> QED BY <2>2
<1>4. CASE Head(toBot) # "ack"
  <2>1. Do(t, <<Head(toBot)>>)
    BY <1>4 DEF SyncReceives, Receive, Do
  <2>2. Runs(t, <<Head(toBot)>>)
    BY <1>1, <1>2, <1>4, <2>1 DEF SyncReceives, Receive, Answers
  <2> QED BY <2>2
<1> QED BY <1>3, <1>4

\* Main says goodbye, and the destruction of an object under a thread.
LEMMA OthersRun ==
  ASSUME Sound, ~crashed, Bye \/ ReadRefused \/ ReadCancelled
  PROVE  \E t \in Threads : \E ops : Runs(t, ops)
<1> USE NestElems DEF Operations, Runs, Closes, Same, SameLink, linkVars, SameEngine, engineVars,
   NeedsChallenge, Sound
<1>0. "input" \in Threads /\ "main" \in Threads
  BY DEF Threads
<1>1. CASE Bye
  <2>1. todo["main"] # <<>> /\ Top(todo["main"]) = "bye"
    BY <1>1, AtTop DEF Bye
  <2>2. Runs("main", <<>>) \/ Runs("main", <<"unset">>) \/ Runs("main", <<"unset", "sync">>)
    <3>1. secure \in {"NO", "CHALLENGE"} /\ open \in BOOLEAN
      BY DEF TypeOK
    <3> QED BY <1>1, <2>1, <3>1 DEF Bye, Nests
  <2> QED BY <1>0, <2>2
<1>2. CASE ReadRefused \/ ReadCancelled
  <2>1. todo["input"] # <<>> /\ Top(todo["input"]) = "read"
    BY <1>2, AtTop DEF ReadRefused, ReadScheduled, ReadCancelled
  <2>2. todo["input"] \in Seq(Operations) /\ Well(todo["input"])
    BY <1>0 DEF TypeOK, Wells
  <2>3. Below(todo["input"]) = {}
    <3>1. \A y \in Below(todo["input"]) : y \notin Operations
      BY <2>1, <2>2, AboveTop DEF Well
    <3>2. Below(todo["input"]) \subseteq Operations
      BY <2>2, SeenAlways DEF Seen
    <3> QED BY <3>1, <3>2
  <2>4. Rest(todo["input"]) = <<>>
    <3>1. Rest(todo["input"]) \in Seq(Operations)
      BY <2>2, SeenAlways
    <3>2. Rest(todo["input"]) # <<>> => Top(Rest(todo["input"])) \in Elems(Rest(todo["input"]))
      BY <3>1, SeenAlways DEF Seen
    <3> QED BY <2>3, <3>2 DEF Below
  <2>5. Tail(todo["input"]) = <<>>
    BY <2>1, <2>4 DEF Rest
  <2>6. <<>> \o <<>> = <<>> /\ <<"close">> \o <<>> = <<"close">>
    BY ConcatEmptySeq
  <2>7. Do("input", <<>>) \/ Do("input", <<"close">>)
    BY <1>2, <2>5, <2>6 DEF Do, ReadRefused, ReadCancelled
  <2>8. Runs("input", <<>>) \/ Runs("input", <<"close">>)
    BY <1>2, <2>1, <2>7 DEF ReadRefused, ReadCancelled
  <2> QED BY <1>0, <2>8
<1> QED BY <1>1, <1>2

\* Steps that no thread takes.
LEMMA StacksStay ==
  ASSUME Sound, todo' = todo, emutex' = emutex, buffer' = buffer, open' = open,
         crashed' => \E t \in Threads : Top(todo[t]) \in {"open", "join"}
  PROVE  /\ todo' \in [Threads -> Seq(Operations)]
         /\ Wells' /\ Mutex' /\ SomebodyAsks' /\ CrashedBusy'
         /\ (Stuck /\ ~crashed) \/ crashed' => Stuck'
<1> USE DEF Sound
<1>1. todo' \in [Threads -> Seq(Operations)] /\ Wells' /\ Mutex' /\ SomebodyAsks' /\ CrashedBusy'
  BY DEF TypeOK, Wells, Mutex, SomebodyAsks, NeedsChallenge, CrashedBusy
<1>2. (Stuck /\ ~crashed) \/ crashed' => Stuck'
  BY DEF Stuck, ReceivesClosed, JoinsHolding, InputReconnects, InputOpens, input
<1> QED BY <1>1, <1>2

\* The handler of a datagram is called on top of what the thread does.
LEMMA HandlesKeep ==
  ASSUME Sound, ~crashed, ~crashed', NEW t \in Threads, Top(todo[t]) \in {"read", "disconnect"},
         NEW h \in {<<>>, <<"challenge">>, <<"mine">>, <<"others">>},
         todo' = [todo EXCEPT ![t] = h \o todo[t]],
         emutex' = emutex, buffer' = buffer, open' = open
  PROVE  /\ todo' \in [Threads -> Seq(Operations)]
         /\ Wells' /\ Mutex' /\ SomebodyAsks' /\ CrashedBusy'
         /\ Stuck => Stuck'
<1> USE DEF Sound
<1>1. todo \in [Threads -> Seq(Operations)] /\ todo[t] \in Seq(Operations) /\ "input" \in Threads
  BY DEF TypeOK, Threads
<1>2. /\ h \in Nests /\ Elems(h) \subseteq {"challenge", "mine", "others"}
      /\ h \in Seq(Operations) /\ Well(h)
  BY NestElems, NestsAre DEF Operations
<1>3. /\ h \o todo[t] \in Seq(Operations)
      /\ Elems(h \o todo[t]) = Elems(h) \cup Elems(todo[t])
      /\ \A A, B : Above(h \o todo[t], A, B)
           <=> \/ Above(h, A, B) \/ Above(todo[t], A, B)
               \/ (\E x \in Elems(h) : x \in A) /\ (\E y \in Elems(todo[t]) : y \in B)
  BY <1>1, <1>2, Concats
<1>4. /\ todo' \in [Threads -> Seq(Operations)] /\ todo'[t] = h \o todo[t]
      /\ \A u \in Threads \ {t} : todo'[u] = todo[u]
  BY <1>1, <1>3
<1>5. /\ \A u \in Threads : Elems(todo[u]) \subseteq Elems(todo'[u])
      /\ \A u \in Threads : \A op \in {"release"} : op \in Elems(todo'[u]) <=> op \in Elems(todo[u])
  BY <1>2, <1>3, <1>4
<1>6. Well(todo'[t])
  <2>1. "read" \notin Elems(h) /\ "release" \notin Elems(h) /\ Well(todo[t])
    BY <1>2 DEF Wells
  <2>2. \A x \in Elems(h) : x \notin {"read"} /\ x \notin {"release"}
    BY <2>1
  <2>3. Well(h \o todo[t])
    BY <1>2, <1>3, <2>1, <2>2 DEF Well
  <2> QED BY <1>4, <2>3
<1>7. Wells'
  BY <1>4, <1>6 DEF Wells
<1>8. Mutex' /\ SomebodyAsks' /\ CrashedBusy'
  BY <1>5 DEF Mutex, SomebodyAsks, NeedsChallenge, CrashedBusy
<1>9. ASSUME Stuck PROVE Stuck'
  <2>1. \A u \in Threads : \A A, B : Above(todo[u], A, B) => Above(todo'[u], A, B)
    BY <1>3, <1>4
  <2>2. \A u \in Threads : Top(todo[u]) \in {"receiving", "open"} => todo'[u] = todo[u]
    BY <1>4
  <2> QED BY <1>1, <1>5, <1>9, <2>1, <2>2 DEF Stuck, ReceivesClosed, JoinsHolding, InputReconnects,
     InputOpens, input
<1> QED BY <1>4, <1>7, <1>8, <1>9

\* A thread that was idle is given something to do.
LEMMA StartsKeep ==
  ASSUME Sound, ~crashed, ~crashed', NEW t \in Threads, todo[t] = <<>>,
         NEW ops \in Nests, "release" \notin Elems(ops),
         todo' = [todo EXCEPT ![t] = ops],
         emutex' = emutex, buffer' = buffer, open' = open
  PROVE  /\ todo' \in [Threads -> Seq(Operations)]
         /\ Wells' /\ Mutex' /\ SomebodyAsks' /\ CrashedBusy'
         /\ Stuck => Stuck'
<1> USE DEF Sound
<1>1. /\ todo \in [Threads -> Seq(Operations)] /\ todo[t] \in Seq(Operations) /\ "input" \in Threads
      /\ Elems(todo[t]) = {} /\ Top(todo[t]) = "end" /\ \A A, B : ~Above(todo[t], A, B)
  BY SeenAlways DEF TypeOK, Threads, Seen, Above
<1>2. ops \in Seq(Operations) /\ Well(ops)
  BY NestsAre
<1>3. /\ todo' \in [Threads -> Seq(Operations)] /\ todo'[t] = ops
      /\ \A u \in Threads \ {t} : todo'[u] = todo[u]
  BY <1>1, <1>2
<1>4. Wells'
  BY <1>2, <1>3 DEF Wells
<1>5. Mutex' /\ SomebodyAsks' /\ CrashedBusy'
  BY <1>1, <1>3 DEF Mutex, SomebodyAsks, NeedsChallenge, CrashedBusy
<1>6. ASSUME Stuck PROVE Stuck'
  BY <1>1, <1>3, <1>6 DEF Stuck, ReceivesClosed, JoinsHolding, InputReconnects, InputOpens, input
<1> QED BY <1>3, <1>4, <1>5, <1>6

\* The socket is opened: a thread goes on, and thread_input is started.
LEMMA OpensKeep ==
  ASSUME Sound, ~crashed, NEW t \in Threads, OpenSocket(t)
  PROVE  /\ todo' \in [Threads -> Seq(Operations)]
         /\ Wells' /\ Mutex' /\ SomebodyAsks' /\ CrashedBusy'
         /\ Stuck => Stuck'
<1> USE DEF Sound
<1>1. /\ todo[t] # <<>> /\ Top(todo[t]) = "open" /\ t # "input" /\ todo["input"] = <<>>
      /\ \A u \in Threads : Top(todo[u]) # "receiving"
  <2>1. todo[t] # <<>> /\ Top(todo[t]) = "open"
    BY AtTop DEF OpenSocket
  <2>2. \A u \in Threads : Top(todo[u]) = "receiving" => At(u, "receiving")
    BY DEF At, Top
  <2> QED BY <2>1, <2>2 DEF OpenSocket, AsioInUse, Idle
<1>2. /\ emutex' = emutex /\ buffer' = buffer /\ ~crashed'
      /\ todo' = [todo EXCEPT ![t] = <<"update">> \o Tail(@), !["input"] = <<"clear", "read">>]
  BY DEF OpenSocket, SameEngine, engineVars
<1>3. todo \in [Threads -> Seq(Operations)] /\ "input" \in Threads /\ todo[t] \in Seq(Operations)
  BY DEF TypeOK, Threads
<1>4. Rest(todo[t]) \in Seq(Operations) /\ Rest(todo[t]) = Tail(todo[t])
      /\ <<"update">> \in Seq(Operations) /\ Well(<<"update">>) /\ Elems(<<"update">>) = {"update"}
  BY <1>1, <1>3, SeenAlways, NestElems, NestsAre DEF Rest, Operations
<1>5. /\ <<"update">> \o Rest(todo[t]) \in Seq(Operations)
      /\ Elems(<<"update">> \o Rest(todo[t])) = {"update"} \cup Below(todo[t])
      /\ \A A, B : Above(<<"update">> \o Rest(todo[t]), A, B)
           <=> \/ Above(<<"update">>, A, B) \/ Above(Rest(todo[t]), A, B)
               \/ (\E x \in {"update"} : x \in A) /\ (\E y \in Below(todo[t]) : y \in B)
  BY Zenon, <1>4, Concats DEF Below
<1>6. /\ <<"clear", "read">> \in Seq(Operations) /\ Elems(<<"clear", "read">>) = {"clear", "read"}
      /\ Well(<<"clear", "read">>)
  <2>1. 1..Len(<<"clear", "read">>) = {1, 2}
    OBVIOUS
  <2>2. Elems(<<"clear", "read">>) = {"clear", "read"}
    BY Tuples
  <2>3. <<"clear", "read">> \in Seq(Operations)
    BY DEF Operations
  <2>4. Well(<<"clear", "read">>)
    BY <2>1 DEF Well, Above
  <2> QED BY <2>2, <2>3, <2>4
<1>7. /\ todo' \in [Threads -> Seq(Operations)] /\ todo'["input"] = <<"clear", "read">>
      /\ todo'[t] = <<"update">> \o Rest(todo[t])
      /\ \A u \in Threads \ {t, "input"} : todo'[u] = todo[u]
  BY <1>1, <1>2, <1>3, <1>4, <1>5, <1>6
<1>8. /\ Elems(todo[t]) = {"open"} \cup Below(todo[t])
      /\ Elems(todo["input"]) = {} /\ Top(todo["input"]) = "end" /\
           \A A, B : ~Above(todo["input"], A, B)
  BY <1>1, <1>3, SeenAlways DEF Seen, Above
<1>9. \A A, B : Above(todo[t], A, B) <=> \/ Top(todo[t]) \in A /\ \E y \in Below(todo[t]) : y \in B
                                        \/ Above(Rest(todo[t]), A, B)
  BY <1>1, <1>3, AboveTop
<1>10. Well(todo'[t])
  BY <1>4, <1>5, <1>7, <1>9 DEF Wells, Well
<1>11. Wells'
  BY <1>6, <1>7, <1>10 DEF Wells
<1>12. \A u \in Threads : \A op \in {"release", "getchallenge"} :
         op \in Elems(todo'[u]) <=> op \in Elems(todo[u])
  BY <1>5, <1>6, <1>7, <1>8
<1>13. Mutex' /\ SomebodyAsks' /\ CrashedBusy'
  BY <1>2, <1>12 DEF Mutex, SomebodyAsks, NeedsChallenge, CrashedBusy
<1>14. ASSUME Stuck PROVE Stuck'
  <2>1. PICK u \in Threads : JoinsHolding(u)
    BY <1>1, <1>8, <1>14, ~crashed DEF Stuck, ReceivesClosed, InputReconnects, InputOpens, input
  <2>2. u # "input"
    BY <2>1, <1>8 DEF JoinsHolding
  <2>3. Above(todo'[u], {"join"}, {"release"})
    <3>1. CASE u = t
      <4>1. "open" \notin {"join"}
        OBVIOUS
      <4> QED BY <2>1, <3>1, <4>1, <1>1, <1>5, <1>7, <1>9 DEF JoinsHolding
    <3>2. CASE u # t
      BY <2>1, <2>2, <3>2, <1>7 DEF JoinsHolding
    <3> QED BY <3>1, <3>2
  <2> QED BY <2>1, <2>3, <1>2 DEF JoinsHolding, Stuck
<1> QED BY <1>7, <1>11, <1>13, <1>14

RestOK ==
  /\ secure \in {"NO", "CHALLENGE"}
  /\ status \in {"DISCONNECTED", "WAITING"} \cup Alive
  /\ open \in BOOLEAN /\ polling \in BOOLEAN /\ crashed \in BOOLEAN
  /\ emutex \in Threads \cup {"free"}
  /\ secure = "NO" => buffer = <<>>
  /\ toServer \in Seq(Commands \cup {"getchallenge"})
  /\ toBot \in Seq(Answers)
  /\ calls \in Nat /\ taken \in Nat /\ faults \in Nat

\* What joins a queue has the type of what is in it.
LEMMA Appends ==
  /\ \A s \in Seq(Commands \cup {"getchallenge"}) : \A c \in Commands \cup {"getchallenge"} :
       Append(s, c) \in Seq(Commands \cup {"getchallenge"})
  /\ \A s \in Seq(Commands \cup {"getchallenge"}) : s # <<>> =>
       Tail(s) \in Seq(Commands \cup {"getchallenge"})
  /\ \A s \in Seq(Answers) : \A a \in Answers : Append(s, a) \in Seq(Answers)
  /\ \A s \in Seq(Answers) : s # <<>> => Tail(s) \in Seq(Answers)
  /\ <<>> \in Seq(Answers) /\ <<>> \in Seq(Commands \cup {"getchallenge"})
OBVIOUS

\* The types of the variables, in the steps of the threads ...
LEMMA StepRest ==
  ASSUME TypeOK, NEW t \in Threads
  PROVE  Step(t) \/ OpenFails(t) \/ SyncRefused(t) \/ ChallengeLate(t) => RestOK'
<1> USE DEF TypeOK, RestOK, Alive, Same, SameLink, linkVars, SameEngine, engineVars, SameNet,
   netVars, SameWorld, worldVars, Fault, SendFails
<1>1. ASSUME Connect(t) PROVE RestOK'
  BY <1>1 DEF Connect
<1>2. ASSUME OpenAlready(t) PROVE RestOK'
  BY <1>2 DEF OpenAlready
<1>3. ASSUME OpenCrashes(t) PROVE RestOK'
  BY <1>3 DEF OpenCrashes
<1>4. ASSUME OpenSocket(t) PROVE RestOK'
  BY <1>4 DEF OpenSocket
<1>5. ASSUME Update(t) PROVE RestOK'
  BY <1>5 DEF Update
<1>6. ASSUME Wait(t) PROVE RestOK'
  BY <1>6 DEF Wait
<1>7. ASSUME Updated(t) PROVE RestOK'
  BY <1>7 DEF Updated
<1>8. ASSUME Request(t) PROVE RestOK'
  BY <1>8 DEF Request
<1>9. ASSUME Checking(t) PROVE RestOK'
  BY <1>9 DEF Checking
<1>10. ASSUME CommandDropped(t) PROVE RestOK'
  BY <1>10 DEF CommandDropped
<1>11. ASSUME CommandSent(t) PROVE RestOK'
  BY <1>11 DEF CommandSent
<1>12. ASSUME CommandScheduled(t) PROVE RestOK'
  BY <1>12 DEF CommandScheduled
<1>13. ASSUME CommandFails(t) PROVE RestOK'
  BY <1>13 DEF CommandFails
<1>14. ASSUME GetChallenge(t) PROVE RestOK'
  <2>1. toServer' \in Seq(Commands \cup {"getchallenge"}) /\ (secure = "NO" => buffer' = <<>>)
    BY <1>14, Appends DEF GetChallenge, NeedsChallenge
  <2> QED BY <1>14, <2>1 DEF GetChallenge
<1>15. ASSUME GetChallengeFails(t) PROVE RestOK'
  BY <1>15 DEF GetChallengeFails, NeedsChallenge
<1>16. ASSUME Release(t) PROVE RestOK'
  BY <1>16 DEF Release
<1>17. ASSUME Sync(t) PROVE RestOK'
  BY <1>17 DEF Sync
<1>18. ASSUME SyncReceives(t) PROVE RestOK'
  BY <1>18 DEF SyncReceives, Receive
<1>19. ASSUME Challenge(t) PROVE RestOK'
  <2>1. Head(buffer).cmd \in Commands /\ buffer # <<>>
    BY <1>19, TakenCommand DEF Challenge, OnlyFirstAsked
  <2>2. toServer' \in Seq(Commands \cup {"getchallenge"}) /\ secure # "NO"
    BY <1>19, <2>1, Appends DEF Challenge
  <2>3. UNCHANGED <<secure, status, open, polling, told, crashed, emutex, toBot, dest, calls, taken>>
        /\ faults' \in Nat
    BY <1>19 DEF Challenge
  <2> QED BY <2>2, <2>3
<1>20. ASSUME ChallengeUnused(t) PROVE RestOK'
  BY <1>20 DEF ChallengeUnused
<1>21. ASSUME HandleDest(t) PROVE RestOK'
  BY <1>21 DEF HandleDest
<1>22. ASSUME Connected(t) PROVE RestOK'
  BY <1>22 DEF Connected
<1>23. ASSUME Announce(t) PROVE RestOK'
  BY <1>23 DEF Announce
<1>24. ASSUME Close(t) PROVE RestOK'
  BY <1>24 DEF Close
<1>25. ASSUME Closed(t) PROVE RestOK'
  BY <1>25 DEF Closed
<1>26. ASSUME IoPoll(t) PROVE RestOK'
  BY <1>26 DEF IoPoll, Receive
<1>27. ASSUME IoClose(t) PROVE RestOK'
  BY <1>27, Appends DEF IoClose
<1>28. ASSUME Clear(t) PROVE RestOK'
  BY <1>28 DEF Clear
<1>29. ASSUME JoinCrashes(t) PROVE RestOK'
  BY <1>29 DEF JoinCrashes
<1>30. ASSUME OpenFails(t) PROVE RestOK'
  BY <1>30 DEF OpenFails
<1>31. ASSUME SyncRefused(t) PROVE RestOK'
  BY <1>31 DEF SyncRefused
<1>32. ASSUME ChallengeLate(t) PROVE RestOK'
  BY <1>32 DEF ChallengeLate
<1> QED BY <1>1, <1>2, <1>3, <1>4, <1>5, <1>6, <1>7, <1>8, <1>9, <1>10, <1>11, <1>12, <1>13, <1>14,
   <1>15, <1>16, <1>17, <1>18, <1>19, <1>20, <1>21, <1>22, <1>23, <1>24, <1>25, <1>26, <1>27, <1>28,
   <1>29, <1>30, <1>31, <1>32 DEF Step

\* ... and in every other step.
LEMMA OtherRest ==
  ASSUME TypeOK
  PROVE  Bye \/ ReadDatagram \/ ReadCancelled \/ ReadRefused \/ MainConnects \/ MainDisconnects
         \/ TimerFires \/ ServerAnswers \/ DestTaken \/ Lose \/ UNCHANGED vars => RestOK'
<1> USE DEF TypeOK, RestOK, Alive, Same, SameLink, linkVars, SameEngine, engineVars, SameNet,
   netVars, SameWorld, worldVars, Fault, Call
<1>1. ASSUME Bye \/ ReadCancelled \/ ReadRefused
              \/ MainConnects \/ MainDisconnects \/ TimerFires PROVE RestOK'
  <2>1. CASE Bye
    BY <2>1 DEF Bye
  <2>2. CASE ReadCancelled
    BY <2>2 DEF ReadCancelled
  <2>3. CASE ReadRefused
    BY <2>3 DEF ReadRefused
  <2>4. CASE MainConnects
    BY <2>4 DEF MainConnects
  <2>5. CASE MainDisconnects
    BY <2>5 DEF MainDisconnects
  <2>6. CASE TimerFires
    BY <2>6 DEF TimerFires
  <2> QED BY <1>1, <2>1, <2>2, <2>3, <2>4, <2>5, <2>6
<1>2. ASSUME ReadDatagram PROVE RestOK'
  BY <1>2 DEF ReadDatagram, Receive
<1>3. ASSUME ServerAnswers PROVE RestOK'
  <2>1. \A cmd : Answer(cmd) \in Answers
    BY DEF Answer, Answers
  <2>2. \A s \in Seq(Answers) : \A a \in Answers : Append(s, a) \in Seq(Answers)
    OBVIOUS
  <2>3. toBot' \in Seq(Answers) /\ toServer' \in Seq(Commands \cup {"getchallenge"})
    BY <1>3, <2>1, <2>2 DEF ServerAnswers
  <2> QED BY <1>3, <2>3 DEF ServerAnswers
<1>4. ASSUME DestTaken \/ UNCHANGED vars PROVE RestOK'
  BY <1>4 DEF DestTaken, vars
<1>5. ASSUME Lose PROVE RestOK'
  <2>1. toServer' \in Seq(Commands \cup {"getchallenge"}) /\ toBot' \in Seq(Answers)
    BY <1>5, Appends DEF Lose
  <2>2. UNCHANGED <<secure, status, open, polling, told, crashed, emutex, buffer, calls, taken>>
        /\ faults' \in Nat
    BY <1>5 DEF Lose
  <2> QED BY <2>1, <2>2
<1> QED BY <1>1, <1>2, <1>3, <1>4, <1>5

\* A datagram is handled on top of what the thread does.
LEMMA ReadsOn ==
  ASSUME Sound, NEW t \in Threads, Receive(t, todo[t])
  PROVE  /\ \E h \in {<<>>, <<"challenge">>, <<"mine">>, <<"others">>} :
              todo' = [todo EXCEPT ![t] = h \o todo[t]]
         /\ emutex' = emutex /\ buffer' = buffer /\ open' = open /\ crashed' = crashed
<1>1. Head(toBot) \in Answers
  BY DEF Sound, TypeOK, Receive
<1> QED BY <1>1 DEF Receive, Answers, SameEngine, engineVars

\* Every step leaves the stacks well formed, and a link that is stuck stuck.
LEMMA NextStacks ==
  ASSUME Sound, ~crashed, Next
  PROVE  /\ todo' \in [Threads -> Seq(Operations)]
         /\ Wells' /\ Mutex' /\ SomebodyAsks' /\ CrashedBusy'
         /\ Stuck => Stuck'
<1> DEFINE Goal == /\ todo' \in [Threads -> Seq(Operations)]
                   /\ Wells' /\ Mutex' /\ SomebodyAsks' /\ CrashedBusy'
                   /\ Stuck => Stuck'
<1> SUFFICES Goal
  OBVIOUS
<1>0. Threads = {"main", "timer", "input"}
  BY DEF Threads
<1>1. ASSUME NEW t \in Threads, NEW ops, Runs(t, ops) PROVE Goal
  BY <1>1, RunsKeep
<1> HIDE DEF Goal
<1>2. ASSUME NEW t \in Threads, \/ Step(t) \/ OpenFails(t) \/ SyncRefused(t) \/ ChallengeLate(t)
      PROVE  Goal
  <2>1. CASE OpenSocket(t)
    BY <2>1, OpensKeep DEF Goal
  <2>2. CASE OpenCrashes(t) \/ JoinCrashes(t)
    <3>1. /\ todo' = todo /\ emutex' = emutex /\ buffer' = buffer /\ open' = open /\ crashed'
          /\ Top(todo[t]) \in {"open", "join"}
      BY <2>2, AtTop DEF OpenCrashes, JoinCrashes, SameEngine, engineVars
    <3> QED BY <3>1, StacksStay DEF Goal
  <2>3. CASE IoPoll(t)
    <3>1. Receive(t, todo[t]) /\ Top(todo[t]) = "disconnect"
      BY <2>3, AtTop DEF IoPoll
    <3> QED BY <3>1, ReadsOn, HandlesKeep DEF Goal
  <2>4. CASE SyncReceives(t)
    BY <1>1, <2>4, ReceiveRuns
  <2>5. CASE OpenFails(t)
    BY <1>1, <2>5, OpenFailsRuns
  <2>6. CASE GetChallenge(t) \/ GetChallengeFails(t) \/ Challenge(t) \/ Clear(t)
    BY <1>1, <2>6, ChallengeRuns
  <2>7. CASE Connect(t) \/ OpenAlready(t) \/ Update(t) \/ Wait(t) \/ Updated(t) \/ Request(t) \/
             Checking(t) \/ CommandDropped(t) \/ CommandSent(t) \/ CommandScheduled(t) \/
             CommandFails(t) \/ Release(t) \/ Sync(t) \/ SyncRefused(t) \/ ChallengeUnused(t) \/
             ChallengeLate(t) \/ HandleDest(t) \/ Connected(t) \/ Announce(t) \/ Close(t) \/
             Closed(t) \/ IoClose(t)
    BY <1>1, <2>7, StepRuns
  <2> QED BY <1>2, <2>1, <2>2, <2>3, <2>4, <2>5, <2>6, <2>7 DEF Step
<1>3. CASE Bye \/ ReadRefused \/ ReadCancelled
  BY <1>1, <1>3, OthersRun
<1>4. CASE ReadDatagram
  <2>1. Receive("input", todo["input"]) /\ Top(todo["input"]) = "read"
    BY <1>4, AtTop DEF ReadDatagram, ReadScheduled
  <2> QED BY <1>0, <2>1, ReadsOn, HandlesKeep DEF Goal
<1>5. CASE MainConnects \/ MainDisconnects \/ TimerFires
  <2>1. /\ emutex' = emutex /\ buffer' = buffer /\ open' = open /\ ~crashed'
        /\ \E t \in Threads : \E ops \in {<<"connect">>, <<"bye", "close">>, <<"request">>} :
             todo[t] = <<>> /\ todo' = [todo EXCEPT ![t] = ops]
    BY <1>0, <1>5 DEF MainConnects, MainDisconnects, TimerFires, Idle, Same, SameLink, linkVars,
       SameEngine, engineVars
  <2>2. /\ {<<"connect">>, <<"bye", "close">>, <<"request">>} \subseteq Nests
        /\ \A ops \in {<<"connect">>, <<"bye", "close">>, <<"request">>} : "release" \notin Elems(ops)
    BY NestElems DEF Nests, Operations
  <2> QED BY <2>1, <2>2, StartsKeep DEF Goal
<1>6. CASE ServerAnswers \/ Lose \/ DestTaken
  <2>1. todo' = todo /\ emutex' = emutex /\ buffer' = buffer /\ open' = open /\ ~crashed'
    BY <1>6 DEF ServerAnswers, Lose, DestTaken, SameLink, linkVars, SameEngine, engineVars
  <2> QED BY <2>1, StacksStay DEF Goal
<1> QED BY <1>0, <1>2, <1>3, <1>4, <1>5, <1>6 DEF Next, Main, Timer, Input

\* Sound is inductive, and a link that is stuck stays so.
LEMMA NextSound ==
  ASSUME Sound, [Next]_vars
  PROVE  Sound' /\ (Stuck => Stuck')
<1>1. CASE UNCHANGED vars
  <2>1. UNCHANGED <<secure, todo, status, open, polling, crashed, emutex, buffer, toServer, toBot,
          calls, taken, faults>>
    BY <1>1 DEF vars, linkVars, engineVars, netVars, worldVars
  <2>2. TypeOK' /\ Wells' /\ Mutex' /\ SomebodyAsks' /\ CrashedBusy'
    BY <2>1 DEF Sound, TypeOK, Wells, Mutex, SomebodyAsks, NeedsChallenge, CrashedBusy
  <2>3. Stuck => Stuck'
    BY <2>1 DEF Stuck, ReceivesClosed, JoinsHolding, InputReconnects, InputOpens, input
  <2> QED BY <2>2, <2>3 DEF Sound
<1>2. CASE Next
  <2>1. /\ todo' \in [Threads -> Seq(Operations)]
        /\ Wells' /\ Mutex' /\ SomebodyAsks' /\ CrashedBusy'
        /\ Stuck => Stuck'
    BY <1>2, NextStacks DEF Next
  <2>2. OnlyFirstAsked(buffer')
    BY <1>2, NextKeeps DEF ChallengeInv, Sound, TypeOK
  <2>3. RestOK'
    <3>1. TypeOK
      BY DEF Sound
    <3>2. ASSUME NEW t \in Threads, Step(t) \/ OpenFails(t) \/ SyncRefused(t) \/ ChallengeLate(t)
          PROVE  RestOK'
      BY <3>1, <3>2, StepRest
    <3>3. Threads = {"main", "timer", "input"}
      BY DEF Threads
    <3> QED BY <1>2, <3>1, <3>2, <3>3, OtherRest DEF Next, Main, Timer, Input
  <2> QED BY <2>1, <2>2, <2>3 DEF Sound, TypeOK, RestOK
<1> QED BY <1>1, <1>2

\* Nothing has happened yet.
LEMMA InitSound == Init => Sound
<1> SUFFICES ASSUME Init PROVE Sound
  OBVIOUS
<1>1. TypeOK
  <2>1. secure \in {"NO", "CHALLENGE"}
    BY XonoticAssumption DEF Init
  <2>2. todo \in [Threads -> Seq(Operations)]
    BY DEF Init
  <2>3. OnlyFirstAsked(buffer) /\ toServer \in Seq(Commands \cup {"getchallenge"}) /\
          toBot \in Seq(Answers)
    BY DEF Init, OnlyFirstAsked
  <2> QED BY <2>1, <2>2, <2>3 DEF Init, TypeOK
<1>2. \A t \in Threads : todo[t] = <<>> /\ Elems(todo[t]) = {} /\ Well(todo[t])
  BY NestElems, NestsAre DEF Init
<1>3. ~crashed /\ emutex = "free" /\ "free" \notin Threads /\ buffer = <<>>
  BY DEF Init, Threads
<1> QED BY <1>1, <1>2, <1>3 DEF Sound, Wells, Mutex, SomebodyAsks, NeedsChallenge, CrashedBusy

\* Whatever happens, the variables keep their types (Sound is inductive by itself).
THEOREM LinkTypeCorrect == Spec => []TypeOK
<1>1. Sound /\ [Next]_vars => Sound'
  BY NextSound
<1>2. Sound => TypeOK
  BY DEF Sound
<1> QED BY <1>1, <1>2, InitSound, PTL DEF Spec

\* The mutex of Engine is held by the one thread that has still to unlock it, when it has
\* closed the link (request_challenge calls on_error with the mutex locked).
THEOREM MutexIsOwned == Spec => []Mutex
<1>1. Sound /\ [Next]_vars => Sound'
  BY NextSound
<1>2. Sound => Mutex
  BY DEF Sound
<1> QED BY <1>1, <1>2, InitSound, PTL DEF Spec

\* A link is not released once a thread reads a closed socket, joins while it holds the
\* mutex, or thread_input reconnects; nor is one under which an object was destroyed.
THEOREM StuckForGood == Spec => [][Stuck => Stuck']_vars
<1>1. Sound /\ [Next]_vars => Sound' /\ (Stuck => Stuck')
  BY NextSound
<1> QED BY <1>1, InitSound, PTL DEF Spec

-----------------------------------------------------------------------------
(* The first connection, while nothing has been destroyed or waits for ever *)

Live == calls = 1 /\ faults <= 1 /\ ~Stuck

Closing(s) == "close" \in Elems(s) \/ "closed" \in Elems(s) \/ "disconnect" \in Elems(s)
Calm(s) == ~Closing(s) /\ "join" \notin Elems(s) /\ "release" \notin Elems(s)
Simple(s) ==
  Elems(s) \subseteq {"clear", "read", "challenge", "getchallenge", "close", "closed",
                      "disconnect", "join", "release"}

\* The stacks.
Failing == {<<"close", "disconnect", "join">>, <<"closed", "disconnect", "join">>}
NextOfMain == IF polling THEN MainNext ELSE FirstNext
MainShape == main \in Failing \/ Fits(main, NextOfMain)
InputShape == Fits(input, InputNext)
TimerShape == Fits(timer, TimerNext)
OnlyMainNests == "disconnect" \notin Below(timer) /\ "disconnect" \notin Below(input)
Nested == "disconnect" \in Below(main)
NestShape ==
  Nested => IF main \in Failing THEN ~open
            ELSE Top(input) = "read" /\ open /\ (Top(main) = "request" => status \in Alive)
JoinsClosed == Top(main) = "join" \/ Top(input) = "join" => ~open
InputGone == "read" \notin Elems(input) => ~open \/ Closing(input)
ConnectsClosed == Top(main) \in {"connect", "open"} \/ Top(timer) \in {"connect", "open"} => ~open
HolderCloses == emutex = "main" => Top(main) \in {"close", "closed", "release"}

\* The datagrams and commands.
AskSent == "ask" \in Elems(toServer)
AskAnswered == "mine" \in Elems(toBot) \/ "others" \in Elems(toBot)
BufferAsks == "ask" \in Cmds(buffer)
Nets == toServer = <<>> /\ toBot = <<>>
FirstAsked == buffer # <<>> /\ Head(buffer).challenged
Receiver ==
  \/ Top(main) \in {"update", "set", "wait", "sync", "receiving", "others", "mine"}
  \/ Top(main) = "getchallenge" /\ "wait" \in Below(main)
SetsUp == polling /\ Receiver /\ ~Nested
InputWaits == Top(input) \in {"sync", "receiving"} \/ "wait" \in Elems(input)

\* Before the poll is started, and until something goes wrong.
FirstLife ==
  ~polling =>
    /\ timer = <<>>
    /\ ~AskSent /\ ~AskAnswered /\ ~BufferAsks
    /\ Simple(input)
    /\ "connect" \notin Below(main)
NoFaultFirst ==
  ~polling /\ faults = 0 =>
    IF Top(main) \in {"connect", "open"} THEN input = <<>>
    ELSE open /\ Calm(main) /\ Calm(input) /\ (status = "WAITING" => Receiver)
NoFaultPolled ==
  polling /\ faults = 0 =>
    /\ Elems(main) \subseteq {"request", "checking", "ask", "getchallenge"}
    /\ Calm(input)
    /\ "connect" \notin Elems(timer) =>
         /\ open /\ status # "DISCONNECTED" /\ ~Closing(timer)
         /\ status = "WAITING" => InputWaits

\* Main goes on with the poll running, or connects again.
Second1 == open /\ faults = 1 /\ Calm(input)
First1 == ~AskSent /\ ~AskAnswered /\ ~BufferAsks /\ Simple(input)
MainGoesOn ==
  /\ polling
  /\ Top(main) = "request" \/ "updated" \in Elems(main)
  /\ Top(main) \notin {"close", "closed", "disconnect", "join", "connect", "open", "release"}
MainCalm == MainGoesOn => Second1 \/ (First1 /\ Alone(main, "request"))
MainReconnects ==
  Top(main) \in {"close", "closed"} /\ "connect" \in Below(main) =>
    \/ open /\ Calm(input)
    \/ Simple(input) /\ "updated" \notin Below(main)
MainOpens ==
  /\ Top(main) \in {"connect", "open"} =>
       Simple(input) /\ ("updated" \in Below(main) => input = <<>>)
  /\ Top(main) = "open" =>
       /\ status \in {"WAITING", "DISCONNECTED"}
       /\ status = "DISCONNECTED" => Alone(main, "open")

\* Main sets the link up again.
InputAsks ==
  \E op \in {"mine", "others", "update", "set", "wait", "sync", "receiving", "updated",
             "request", "ask"} : op \in Elems(input)
QueueAsks == BufferAsks /\ Top(input) # "clear"
SetupCalm == SetsUp => open /\ Fits(input, HandlingNext)
OneAsks ==
  Receiver /\ ~Nested =>
    /\ Top(main) # "receiving" => ~InputAsks /\ ~QueueAsks /\ ~AskSent /\ ~AskAnswered
    /\ InputAsks => ~QueueAsks /\ ~AskSent /\ ~AskAnswered
    /\ QueueAsks => ~AskSent /\ ~AskAnswered
    /\ AskSent => ~AskAnswered
    /\ AtMostOne(toServer, {"ask"}) /\ AtMostOne(toBot, {"mine", "others"})
    /\ Top(input) # "clear" => OneAsk(buffer)
Coming ==
  Top(main) = "receiving" =>
    /\ Top(input) \in {"wait", "sync", "receiving"} => ~Nets
    /\ Top(input) = "getchallenge" /\ "wait" \in Below(input) => buffer # <<>>
ChallengeComing ==
  SetsUp /\ FirstAsked /\ Top(input) # "clear" =>
    "getchallenge" \in Elems(toServer) \/ "challenge" \in Elems(toBot) \/ Top(input) = "challenge"

\* The poll.
TimerAsks == Top(timer) \in {"request", "checking", "ask"} \/ Alone(timer, "getchallenge")
BothBusy ==
  main # <<>> /\ timer # <<>> =>
    /\ Top(main) = "receiving" /\ Nets /\ Alone(input, "read")
    /\ TimerAsks \/ "connect" \in Below(timer)
NoHarm ==
  /\ Elems(input) \subseteq {"read", "receiving", "close", "closed", "disconnect", "join", "updated"}
  /\ Top(input) = "updated" => ~open
Reopens == Top(timer) = "request" \/ "connect" \in Elems(timer)
Fired ==
  /\ open => Nets
  /\ open \/ Reopens => NoHarm
  /\ Reopens /\ Top(input) \in {"disconnect", "join", "updated"} => status \notin Alive
AfterSetup ==
  /\ open /\ faults = 1 /\ Calm(input) /\ TimerAsks
  /\ Top(timer) = "request" => status \in Alive /\ First1
TimerPolls ==
  TimerAsks \/ Top(timer) \in {"close", "closed", "disconnect", "join", "release", "connect"} =>
    Fired \/ AfterSetup
TimerReopens ==
  /\ Top(timer) \in {"close", "closed", "disconnect"} => faults = 1 \/ Top(input) = "receiving"
  /\ Top(timer) \in {"join", "connect", "open"} => faults = 1
  /\ Top(timer) = "open" =>
       status \in {"WAITING", "DISCONNECTED"} /\ Top(input) \notin {"connected", "checking"}
TimerSetsUp ==
  \/ Top(timer) \in {"update", "set", "wait", "sync", "receiving", "challenge", "updated"}
  \/ Top(timer) = "getchallenge" /\ Second(timer) # "end"
OldAsks == BufferAsks => Top(input) = "clear" /\ FirstAsked /\ Nets
TimerCalm ==
  TimerSetsUp =>
    /\ open /\ faults = 1 /\ Simple(input) /\ Calm(input)
    /\ ~AskSent /\ ~AskAnswered /\ OldAsks
    /\ status \in {"WAITING", "CONNECTING"} \/ Alone(timer, "update")
    /\ Top(timer) \in {"updated", "challenge"} => status = "CONNECTING"
    /\ Top(timer) = "getchallenge" /\ Second(timer) = "updated" => status = "CONNECTING"
    /\ status = "CONNECTING" => ~BufferAsks

\* What the bot is told.
Told == told = "connected" \/ "announce" \in Elems(main) \/ "announce" \in Elems(input)
StatusTold ==
  status \in {"CHECKING", "CONNECTED"} =>
    ~open \/ Closing(main) \/ Closing(timer) \/ Closing(input) \/ Told
ConnectedTold ==
  Top(main) \in {"connected", "checking"} \/ Top(timer) \in {"connected", "checking"}
    \/ Top(input) \in {"connected", "checking"} =>
    ~open \/ Closing(main) \/ Closing(input) \/ Told
MineWaits ==
  (Top(main) = "mine" \/ Top(input) = "mine") /\ status \in {"WAITING", "DISCONNECTED"} =>
    ~open \/ Closing(main)
NothingAsked ==
  open /\ status = "DISCONNECTED" /\ ~Closing(main) /\ ~Closing(timer) /\ ~Closing(input) =>
    /\ Nets /\ Top(input) \in {"clear", "read"}
    /\ main = <<>> \/ Alone(main, "update")
    /\ timer = <<>> \/ Alone(timer, "update") \/ Alone(timer, "request")

Good ==
  /\ MainShape /\ InputShape /\ TimerShape /\ OnlyMainNests /\ NestShape
  /\ JoinsClosed /\ InputGone /\ ConnectsClosed /\ HolderCloses
  /\ FirstLife /\ NoFaultFirst /\ NoFaultPolled
  /\ MainCalm /\ MainReconnects /\ MainOpens
  /\ SetupCalm /\ OneAsks /\ Coming /\ ChallengeComing
  /\ BothBusy /\ TimerPolls /\ TimerReopens /\ TimerCalm
  /\ StatusTold /\ ConnectedTold /\ MineWaits /\ NothingAsked

-----------------------------------------------------------------------------
\* What is known of the tops of the stacks.
Follows(s, next) == s # <<>> => <<Top(s), Second(s)>> \in next /\ Over(Top(s), Below(s))
Tops ==
  /\ Seen(main) /\ Seen(timer) /\ Seen(input)
  /\ main \in Failing \/ Follows(main, NextOfMain)
  /\ main \in Failing =>
       Top(main) \in {"close", "closed"} /\ Second(main) = "disconnect" /\
         Below(main) = {"disconnect", "join"}
  /\ Follows(timer, TimerNext) /\ Follows(input, InputNext)
  /\ Fits(input, HandlingNext) => Follows(input, HandlingNext) /\ Calm(input)
  /\ Top(input) = "read" => Second(input) = "end"
  /\ Second(input) = "read" => Below(input) = {"read"}

\* It follows from the shapes of the stacks.
LEMMA TopsKnown ==
  ASSUME Sound, MainShape, InputShape, TimerShape, OnlyMainNests
  PROVE  Tops
<1>1. /\ main \in Seq(Operations) /\ timer \in Seq(Operations) /\ input \in Seq(Operations)
      /\ Well(input)
  BY DEF Sound, TypeOK, Wells, Threads, main, timer, input
<1>2. /\ Seen(main) /\ Seen(timer) /\ Seen(input)
      /\ Rest(input) \in Seq(Operations) /\ Seen(Rest(input))
  BY <1>1, SeenAlways
<1>3. /\ main \in Failing \/ Follows(main, NextOfMain)
      /\ Follows(timer, TimerNext) /\ Follows(input, InputNext)
      /\ Fits(input, HandlingNext) => Follows(input, HandlingNext)
  BY <1>1, FitsTop DEF MainShape, InputShape, TimerShape, Follows
<1>4. main \in Failing =>
       Top(main) \in {"close", "closed"} /\ Second(main) = "disconnect" /\
         Below(main) = {"disconnect", "join"}
  <2>1. ASSUME NEW a, main = <<a, "disconnect", "join">>
        PROVE  Top(main) = a /\ Second(main) = "disconnect" /\ Below(main) = {"disconnect", "join"}
    <3>1. main # <<>> /\ Tail(main) = <<"disconnect", "join">> /\ Head(main) = a
      BY <2>1
    <3>2. <<"disconnect", "join">> # <<>> /\ Head(<<"disconnect", "join">>) = "disconnect"
      OBVIOUS
    <3>3. Elems(<<"disconnect", "join">>) = {"disconnect", "join"}
      BY NestElems
    <3> QED BY <3>1, <3>2, <3>3 DEF Second, Below, Rest, Top
  <2> QED BY <2>1 DEF Failing
<1>5. (Top(input) = "read" => Second(input) = "end") /\
        (Second(input) = "read" => Below(input) = {"read"})
  <2>1. CASE input = <<>>
    BY <2>1 DEF Top, Second, Rest
  <2>2. CASE input # <<>>
    <3>1. ~(Top(input) = "read" /\ \E y \in Below(input) : y \in Operations) /\
            ~Above(Rest(input), {"read"}, Operations)
      BY <1>1, <2>2, AboveTop DEF Well
    <3>2. Top(input) = "read" => Second(input) = "end"
      BY <1>2, <3>1 DEF Seen
    <3>3. ASSUME Second(input) = "read" PROVE Below(input) = {"read"}
      <4>1. Rest(input) # <<>> /\ Top(Rest(input)) = "read"
        BY <1>2, <3>3 DEF Second, Seen
      <4>2. ~(\E y \in Below(Rest(input)) : y \in Operations)
        BY <1>2, <3>1, <4>1, AboveTop
      <4>3. Below(Rest(input)) = {}
        BY <1>2, <4>2 DEF Seen
      <4> QED BY <1>2, <4>1, <4>3 DEF Seen, Below
    <3> QED BY <3>2, <3>3
  <2> QED BY <2>1, <2>2
<1>6. ASSUME Fits(input, HandlingNext) PROVE Calm(input)
  <2>1. input # <<>> => /\ Top(input) \notin {"close", "closed", "disconnect", "join", "release"}
                        /\ \A op \in Below(input) : <<Top(input), op>> \in Beneath
    BY <1>3, <1>6 DEF Follows, Over, OnlyMainNests, HandlingNext
  <2>2. input # <<>> => Below(input) \subseteq {"updated", "read", "wait", "ask", "announce"}
    BY <1>2, <2>1 DEF Beneath
  <2> QED BY <1>2, <2>1, <2>2 DEF Seen, Calm, Closing
<1> QED BY <1>2, <1>3, <1>4, <1>5, <1>6 DEF Tops

\* What an operation that returns or calls others does to the stacks.
LEMMA Calls ==
  ASSUME TypeOK, NEW t \in Threads, todo[t] # <<>>,
         NEW a \in Operations, NEW b \in Operations, NEW c \in Operations
  PROVE  /\ Do(t, <<>>) =>
              /\ Popped(todo[t], todo'[t]) /\ Seen(todo'[t])
              /\ \A next : Fits(todo[t], next) => Fits(todo'[t], next)
         /\ Do(t, <<a>>) =>
              /\ Becomes(todo[t], todo'[t], a) /\ Seen(todo'[t])
              /\ \A next : Fits(todo[t], next) /\ <<a, Second(todo[t])>> \in next /\
                   Over(a, Below(todo[t]))
                   => Fits(todo'[t], next)
         /\ Do(t, <<a, b>>) =>
              /\ Becomes2(todo[t], todo'[t], a, b) /\ Seen(todo'[t])
              /\ \A next : /\ Fits(todo[t], next)
                           /\ <<b, Second(todo[t])>> \in next /\ Over(b, Below(todo[t]))
                           /\ <<a, b>> \in next /\ Over(a, {b} \cup Below(todo[t]))
                   => Fits(todo'[t], next)
         /\ Do(t, <<a, b, c>>) =>
              /\ Becomes3(todo[t], todo'[t], a, b, c) /\ Seen(todo'[t])
              /\ \A next : /\ Fits(todo[t], next)
                           /\ <<c, Second(todo[t])>> \in next /\ Over(c, Below(todo[t]))
                           /\ <<b, c>> \in next /\ Over(b, {c} \cup Below(todo[t]))
                           /\ <<a, b>> \in next /\ Over(a, {b, c} \cup Below(todo[t]))
                   => Fits(todo'[t], next)
<1> DEFINE s == todo[t]
<1>1. s \in Seq(Operations) /\ s # <<>> /\ Rest(s) = Tail(s) /\ todo \in [Threads -> Seq(Operations)]
  BY DEF TypeOK, Rest
<1>2. \A ops : Do(t, ops) => todo'[t] = ops \o Rest(s)
  BY <1>1 DEF Do
<1> HIDE DEF s
<1>3. /\ Popped(s, <<>> \o Rest(s)) /\ Becomes(s, <<a>> \o Rest(s), a)
      /\ Becomes2(s, <<a, b>> \o Rest(s), a, b)
      /\ Becomes3(s, <<a, b, c>> \o Rest(s), a, b, c)
  BY <1>1, Stacks
<1>4. \A ops \in {<<>>, <<a>>, <<a, b>>, <<a, b, c>>} : ops \o Rest(s) \in Seq(Operations)
  BY <1>1, Stacks
<1>5. \A ops \in {<<>>, <<a>>, <<a, b>>, <<a, b, c>>} : Seen(ops \o Rest(s))
  BY <1>4, SeenAlways
<1>6. ASSUME NEW next, Fits(s, next) PROVE Fits(<<>> \o Rest(s), next)
  <2>1. Rest(s) \in Seq(Operations) /\ Fits(Rest(s), next)
    BY <1>1, <1>6, SeenAlways, FitsRest
  <2> QED BY <2>1, ConcatEmptySeq
<1>7. ASSUME NEW next, Fits(s, next), <<a, Second(s)>> \in next, Over(a, Below(s))
      PROVE  Fits(<<a>> \o Rest(s), next)
  BY <1>1, <1>7, FitsBecomes
<1>8. ASSUME NEW next, Fits(s, next), <<b, Second(s)>> \in next, Over(b, Below(s)),
             <<a, b>> \in next, Over(a, {b} \cup Below(s))
      PROVE  Fits(<<a, b>> \o Rest(s), next)
  BY <1>1, <1>8, FitsBecomes2
<1>9. ASSUME NEW next, Fits(s, next), <<c, Second(s)>> \in next, Over(c, Below(s)),
             <<b, c>> \in next, Over(b, {c} \cup Below(s)), <<a, b>> \in next,
               Over(a, {b, c} \cup Below(s))
      PROVE  Fits(<<a, b, c>> \o Rest(s), next)
  BY <1>1, <1>9, FitsBecomes3
<1>10. Do(t, <<>>) => /\ Popped(s, todo'[t]) /\ Seen(todo'[t])
                      /\ \A next : Fits(s, next) => Fits(todo'[t], next)
  BY <1>2, <1>3, <1>5, <1>6
<1>11. Do(t, <<a>>) => /\ Becomes(s, todo'[t], a) /\ Seen(todo'[t])
                       /\ \A next : Fits(s, next) /\ <<a, Second(s)>> \in next /\ Over(a, Below(s))
                            => Fits(todo'[t], next)
  BY <1>2, <1>3, <1>5, <1>7
<1>12. Do(t, <<a, b>>) => /\ Becomes2(s, todo'[t], a, b) /\ Seen(todo'[t])
                          /\ \A next : /\ Fits(s, next)
                                       /\ <<b, Second(s)>> \in next /\ Over(b, Below(s))
                                       /\ <<a, b>> \in next /\ Over(a, {b} \cup Below(s))
                               => Fits(todo'[t], next)
  BY <1>2, <1>3, <1>5, <1>8
<1>13. Do(t, <<a, b, c>>) => /\ Becomes3(s, todo'[t], a, b, c) /\ Seen(todo'[t])
                             /\ \A next : /\ Fits(s, next)
                                          /\ <<c, Second(s)>> \in next /\ Over(c, Below(s))
                                          /\ <<b, c>> \in next /\ Over(b, {c} \cup Below(s))
                                          /\ <<a, b>> \in next /\ Over(a, {b, c} \cup Below(s))
                                  => Fits(todo'[t], next)
  BY <1>2, <1>3, <1>5, <1>9
<1> QED BY <1>10, <1>11, <1>12, <1>13 DEF s

\* The other threads stay where they are.
LEMMA OthersStay ==
  ASSUME TypeOK, NEW t \in Threads, NEW ops, Do(t, ops)
  PROVE  \A u \in Threads \ {t} : todo'[u] = todo[u]
  BY DEF Do, TypeOK

\* What else is known while nothing is stuck.
Leaves(s) == Top(s) = "join" \/ (Top(s) = "disconnect" /\ Second(s) = "join")
Unstuck ==
  /\ ~crashed
  /\ Top(main) = "receiving" \/ Top(timer) = "receiving" \/ Top(input) = "receiving" => open
  /\ Leaves(main) => "release" \notin Below(main)
  /\ Leaves(timer) => "release" \notin Below(timer)
  /\ Leaves(input) => "release" \notin Below(input)
  /\ "connect" \in Elems(input) => open
  /\ Top(input) \in Closes => "connect" \notin Below(input)
  /\ Top(input) = "open" => open
Locks ==
  /\ "release" \in Elems(main) <=> emutex = "main"
  /\ "release" \in Elems(timer) <=> emutex = "timer"
  /\ "release" \in Elems(input) <=> emutex = "input"
  /\ NeedsChallenge => \/ "getchallenge" \in Elems(main) \/ "getchallenge" \in Elems(timer)
                       \/ "getchallenge" \in Elems(input)

\* It follows from the mutex, and from nothing being stuck.
LEMMA UnstuckKnown ==
  ASSUME Sound, ~Stuck
  PROVE  Unstuck /\ Locks
<1>1. Locks
  BY DEF Sound, Mutex, SomebodyAsks, Threads, Locks, main, timer, input
<1>2. ASSUME NEW t \in Threads, Leaves(todo[t])
      PROVE  "release" \notin Below(todo[t])
  <2> SUFFICES ASSUME "release" \in Below(todo[t]) PROVE FALSE
    OBVIOUS
  <2>1. /\ todo[t] \in Seq(Operations) /\ todo[t] # <<>> /\ Seen(todo[t])
        /\ Rest(todo[t]) \in Seq(Operations) /\ Seen(Rest(todo[t]))
    BY <1>2, SeenAlways DEF Sound, TypeOK, Top, Leaves
  <2>2. emutex = t
    BY <2>1 DEF Sound, Mutex, Seen
  <2>3. Above(todo[t], {"join"}, {"release"})
    <3>1. CASE Top(todo[t]) = "join"
      BY <2>1, <3>1, AboveTop
    <3>2. CASE Top(todo[t]) = "disconnect" /\ Second(todo[t]) = "join"
      <4>1. Top(Rest(todo[t])) = "join" /\ Rest(todo[t]) # <<>>
        BY <2>1, <3>2 DEF Second, Seen
      <4>2. "release" \in Below(Rest(todo[t]))
        BY <2>1, <4>1 DEF Below, Seen
      <4>3. Above(Rest(todo[t]), {"join"}, {"release"})
        BY <2>1, <4>1, <4>2, AboveTop
      <4> QED BY <2>1, <4>3, AboveTop
    <3> QED BY <1>2, <3>1, <3>2 DEF Leaves
  <2> QED BY <2>2, <2>3 DEF Stuck, JoinsHolding
<1>3. Top(input) \in Closes => "connect" \notin Below(input)
  <2>1. input \in Seq(Operations)
    BY DEF Sound, TypeOK, Threads, input
  <2>2. input # <<>> => (Top(input) \in Closes /\ "connect" \in Below(input) =>
          Above(input, Closes, {"connect"}))
    BY <2>1, AboveTop
  <2>3. Seen(input)
    BY <2>1, SeenAlways
  <2> QED BY <2>2, <2>3 DEF Seen, Stuck, InputReconnects, Closes
<1>4. ~crashed /\ ("connect" \in Elems(input) => open) /\ (Top(input) = "open" => open)
  BY DEF Stuck, InputReconnects, InputOpens
<1>5. Top(main) = "receiving" \/ Top(timer) = "receiving" \/ Top(input) = "receiving" => open
  BY DEF Stuck, ReceivesClosed, Threads, main, timer, input
<1> QED BY <1>1, <1>2, <1>3, <1>4, <1>5 DEF Unstuck, Threads, main, timer, input

-----------------------------------------------------------------------------
\* How a stack changes when its top returns, or calls one, two or three operations.
Goes0(s, r) == Popped(s, r) /\ Seen(r) /\ \A next : Fits(s, next) => Fits(r, next)
Goes1(s, r, a) ==
  /\ Becomes(s, r, a) /\ Seen(r)
  /\ \A next : Fits(s, next) /\ <<a, Second(s)>> \in next /\ Over(a, Below(s)) => Fits(r, next)
Goes2(s, r, a, b) ==
  /\ Becomes2(s, r, a, b) /\ Seen(r)
  /\ \A next : /\ Fits(s, next)
               /\ <<b, Second(s)>> \in next /\ Over(b, Below(s))
               /\ <<a, b>> \in next /\ Over(a, {b} \cup Below(s))
       => Fits(r, next)
Goes3(s, r, a, b, c) ==
  /\ Becomes3(s, r, a, b, c) /\ Seen(r)
  /\ \A next : /\ Fits(s, next)
               /\ <<c, Second(s)>> \in next /\ Over(c, Below(s))
               /\ <<b, c>> \in next /\ Over(b, {c} \cup Below(s))
               /\ <<a, b>> \in next /\ Over(a, {b, c} \cup Below(s))
       => Fits(r, next)

\* Of every thread ...
LEMMA Goes ==
  ASSUME TypeOK, NEW t \in Threads, todo[t] # <<>>
  PROVE  /\ Do(t, <<>>) => Goes0(todo[t], todo'[t])
         /\ \A a \in Operations : Do(t, <<a>>) => Goes1(todo[t], todo'[t], a)
         /\ \A a, b \in Operations : Do(t, <<a, b>>) => Goes2(todo[t], todo'[t], a, b)
         /\ Do(t, <<"set", "wait", "updated">>)
              => Goes3(todo[t], todo'[t], "set", "wait", "updated")
         /\ Do(t, <<"close", "disconnect", "join">>)
              => Goes3(todo[t], todo'[t], "close", "disconnect", "join")
<1>0. {"set", "wait", "updated", "close", "disconnect", "join"} \subseteq Operations
  BY DEF Operations
<1>1. Do(t, <<>>) => Goes0(todo[t], todo'[t])
  BY <1>0, Calls DEF Goes0
<1>2. ASSUME NEW a \in Operations, Do(t, <<a>>) PROVE Goes1(todo[t], todo'[t], a)
  BY <1>2, Calls DEF Goes1
<1>3. ASSUME NEW a \in Operations, NEW b \in Operations, Do(t, <<a, b>>)
      PROVE  Goes2(todo[t], todo'[t], a, b)
  BY <1>3, Calls DEF Goes2
<1>4. ASSUME NEW a \in Operations, NEW b \in Operations, NEW c \in Operations, Do(t, <<a, b, c>>)
      PROVE  Goes3(todo[t], todo'[t], a, b, c)
  BY <1>4, Calls DEF Goes3
<1>5. Do(t, <<"set", "wait", "updated">>) => Goes3(todo[t], todo'[t], "set", "wait", "updated")
  BY <1>0, <1>4
<1>6. Do(t, <<"close", "disconnect", "join">>)
        => Goes3(todo[t], todo'[t], "close", "disconnect", "join")
  BY <1>0, <1>4
<1> QED BY <1>1, <1>2, <1>3, <1>5, <1>6

\* ... of main ...
LEMMA MainGoes ==
  ASSUME TypeOK, main # <<>>
  PROVE  /\ \A ops : Do("main", ops) => timer' = timer /\ input' = input
         /\ Do("main", <<>>) => Goes0(main, main')
         /\ \A a \in Operations : Do("main", <<a>>) => Goes1(main, main', a)
         /\ \A a, b \in Operations : Do("main", <<a, b>>) => Goes2(main, main', a, b)
         /\ Do("main", <<"set", "wait", "updated">>)
              => Goes3(main, main', "set", "wait", "updated")
         /\ Do("main", <<"close", "disconnect", "join">>)
              => Goes3(main, main', "close", "disconnect", "join")
BY Goes, OthersStay DEF Threads, main, timer, input

\* ... of the poll ...
LEMMA TimerGoes ==
  ASSUME TypeOK, timer # <<>>
  PROVE  /\ \A ops : Do("timer", ops) => main' = main /\ input' = input
         /\ Do("timer", <<>>) => Goes0(timer, timer')
         /\ \A a \in Operations : Do("timer", <<a>>) => Goes1(timer, timer', a)
         /\ \A a, b \in Operations : Do("timer", <<a, b>>) => Goes2(timer, timer', a, b)
         /\ Do("timer", <<"set", "wait", "updated">>)
              => Goes3(timer, timer', "set", "wait", "updated")
BY Goes, OthersStay DEF Threads, main, timer, input

\* ... and of thread_input.
LEMMA InputGoes ==
  ASSUME TypeOK, input # <<>>
  PROVE  /\ \A ops : Do("input", ops) => main' = main /\ timer' = timer
         /\ Do("input", <<>>) => Goes0(input, input')
         /\ \A a \in Operations : Do("input", <<a>>) => Goes1(input, input', a)
         /\ \A a, b \in Operations : Do("input", <<a, b>>) => Goes2(input, input', a, b)
         /\ Do("input", <<"set", "wait", "updated">>)
              => Goes3(input, input', "set", "wait", "updated")
BY Goes, OthersStay DEF Threads, main, timer, input

\* At most one fault is none or one.
LEMMA FewFaults == \A n \in Nat : n <= 1 => n \in {0, 1}
OBVIOUS

\* What every step of the first connection starts from.
LEMMA Known ==
  ASSUME Sound, Good, Live, Sound', Live'
  PROVE  Tops /\ Unstuck /\ Locks /\ faults \in {0, 1} /\ faults' \in {0, 1} /\ TypeOK /\ TypeOK'
<1>1. Tops /\ Unstuck /\ Locks /\ faults \in {0, 1} /\ TypeOK
  BY TopsKnown, UnstuckKnown, FewFaults DEF Sound, TypeOK, Good, Live
<1>2. faults' \in {0, 1} /\ TypeOK'
  BY FewFaults DEF Sound, TypeOK, Live
<1> QED BY <1>1, <1>2

\* A datagram put into a queue, and the first taken from it.
Added(s, r, c, C) ==
  /\ r # <<>> /\ Elems(r) = Elems(s) \cup {c}
  /\ AtMostOne(s, C) /\ (c \notin C \/ \A y \in Elems(s) : y \notin C) => AtMostOne(r, C)
Removed(s, r, C) ==
  /\ s # <<>> /\ Elems(s) = {Head(s)} \cup Elems(r) /\ (r = <<>> <=> Elems(r) = {})
  /\ AtMostOne(s, C) => /\ AtMostOne(r, C)
                        /\ Head(s) \in C => \A y \in Elems(r) : y \notin C

\* An empty queue holds nothing.
LEMMA Nothing == \A S : \A s \in Seq(S) : s = <<>> <=> Elems(s) = {}
<1>1. ASSUME NEW S, NEW s \in Seq(S), s # <<>> PROVE Elems(s) # {}
  BY <1>1, Taken
<1>2. Elems(<<>>) = {}
  BY DEF Elems
<1> QED BY <1>1, <1>2

Queues ==
  /\ toServer = <<>> <=> Elems(toServer) = {}
  /\ toBot = <<>> <=> Elems(toBot) = {}
  /\ buffer = <<>> => Cmds(buffer) = {}
  /\ "ask" \in Cmds(buffer) => secure = "CHALLENGE"
  /\ Len(buffer) > 1 => buffer # <<>>
  /\ "ask" \notin Elems(toServer) => AtMostOne(toServer, {"ask"})
  /\ "mine" \notin Elems(toBot) /\ "others" \notin Elems(toBot) => AtMostOne(toBot, {"mine", "others"})
  /\ "ask" \notin Cmds(buffer) => OneAsk(buffer)

\* It follows from the types.
LEMMA QueuesKnown == TypeOK => Queues
<1> SUFFICES ASSUME TypeOK PROVE Queues
  OBVIOUS
<1>1. toServer \in Seq(Commands \cup {"getchallenge"}) /\ toBot \in Seq(Answers)
      /\ secure \in {"NO", "CHALLENGE"} /\ (secure = "NO" => buffer = <<>>)
  BY DEF TypeOK
<1>2. Cmds(<<>>) = {}
  BY DEF Cmds
<1>3. Len(<<>>) = 0
  OBVIOUS
<1>4. /\ "ask" \notin Elems(toServer) => AtMostOne(toServer, {"ask"})
      /\ "mine" \notin Elems(toBot) /\ "others" \notin Elems(toBot) =>
           AtMostOne(toBot, {"mine", "others"})
      /\ "ask" \notin Cmds(buffer) => OneAsk(buffer)
  BY DEF AtMostOne, OneAsk, Elems, Cmds
<1> QED BY <1>1, <1>2, <1>3, <1>4, Nothing DEF Queues

\* A command or a question is written.
LEMMA Sent ==
  ASSUME TypeOK, NEW c \in Commands \cup {"getchallenge"}, toServer' = Append(toServer, c)
  PROVE  Added(toServer, toServer', c, {"ask"})
<1>1. PICK S : S = Commands \cup {"getchallenge"}
  OBVIOUS
<1>2. toServer \in Seq(S) /\ c \in S
  BY <1>1 DEF TypeOK
<1>3. /\ Append(toServer, c) # <<>> /\ Elems(Append(toServer, c)) = Elems(toServer) \cup {c}
      /\ AtMostOne(toServer, {"ask"}) /\
           (c \notin {"ask"} \/ \A y \in Elems(toServer) : y \notin {"ask"})
           => AtMostOne(Append(toServer, c), {"ask"})
  BY <1>2, Appended
<1> QED BY <1>3 DEF Added

\* The server answers.
LEMMA Answered ==
  ASSUME TypeOK, NEW c \in Answers, toBot' = Append(toBot, c)
  PROVE  Added(toBot, toBot', c, {"mine", "others"})
BY Appended DEF TypeOK, Added

\* A datagram arrives at the server, or is lost.
LEMMA Arrived ==
  ASSUME TypeOK, toServer # <<>>, toServer' = Tail(toServer)
  PROVE  Removed(toServer, toServer', {"ask"}) /\ Head(toServer) \in Commands \cup {"getchallenge"}
<1>1. PICK S : S = Commands \cup {"getchallenge"}
  OBVIOUS
<1>2. toServer \in Seq(S)
  BY <1>1 DEF TypeOK
<1>3. /\ Head(toServer) \in S /\ Tail(toServer) \in Seq(S)
      /\ Elems(toServer) = {Head(toServer)} \cup Elems(Tail(toServer))
      /\ AtMostOne(toServer, {"ask"}) =>
           /\ AtMostOne(Tail(toServer), {"ask"})
           /\ Head(toServer) \in {"ask"} => \A y \in Elems(Tail(toServer)) : y \notin {"ask"}
  BY <1>2, Taken
<1>4. toServer' = <<>> <=> Elems(toServer') = {}
  BY <1>3, Nothing
<1> QED BY <1>1, <1>3, <1>4 DEF Removed

\* A datagram arrives at the bot, or is lost.
LEMMA Received ==
  ASSUME TypeOK, toBot # <<>>, toBot' = Tail(toBot)
  PROVE  Removed(toBot, toBot', {"mine", "others"}) /\ Head(toBot) \in Answers
<1>1. toBot \in Seq(Answers)
  BY DEF TypeOK
<1>2. /\ Head(toBot) \in Answers /\ Tail(toBot) \in Seq(Answers)
      /\ Elems(toBot) = {Head(toBot)} \cup Elems(Tail(toBot))
      /\ AtMostOne(toBot, {"mine", "others"}) =>
           /\ AtMostOne(Tail(toBot), {"mine", "others"})
           /\ Head(toBot) \in {"mine", "others"} => \A y \in Elems(Tail(toBot)) : y \notin {"mine",
                "others"}
  BY <1>1, Taken
<1> QED BY <1>2, Nothing DEF Removed

-----------------------------------------------------------------------------
\* The commands that wait: one more, the first sent, the first asking (or not any more).
OneMore(b, q, cmd) ==
  /\ q # <<>> /\ Cmds(q) = Cmds(b) \cup {cmd}
  /\ OneAsk(b) /\ (cmd # "ask" \/ "ask" \notin Cmds(b)) => OneAsk(q)
  /\ b # <<>> => Head(q) = Head(b)
  /\ b = <<>> => ~Head(q).challenged
OneLess(b, q) ==
  /\ b # <<>> /\ Head(b).cmd \in Commands /\ Cmds(b) = {Head(b).cmd} \cup Cmds(q)
  /\ OneAsk(b) => OneAsk(q) /\ (Head(b).cmd = "ask" => "ask" \notin Cmds(q))
  /\ q # <<>> => ~Head(q).challenged
  /\ Len(b) > 1 <=> q # <<>>
SameCmds(b, q, x) ==
  q # <<>> /\ Cmds(q) = Cmds(b) /\ (OneAsk(b) => OneAsk(q)) /\ Head(q).challenged = x

\* schedule_challenged_command.
LEMMA Scheduled ==
  ASSUME TypeOK, NEW cmd \in Commands,
         buffer' = Append(buffer, [cmd |-> cmd, challenged |-> FALSE])
  PROVE  OneMore(buffer, buffer', cmd)
<1>1. buffer \in Seq(Queued)
  BY DEF TypeOK, OnlyFirstAsked
<1>2. PICK r : r = [cmd |-> cmd, challenged |-> FALSE]
  OBVIOUS
<1>3. r \in Queued /\ r.cmd = cmd /\ ~r.challenged
  BY <1>2 DEF Queued
<1>4. buffer' = Append(buffer, r)
  BY <1>2
<1> QED BY <1>1, <1>3, <1>4, AppendedCommand DEF OneMore

\* handle_challenge.
LEMMA SentOff ==
  ASSUME TypeOK, buffer # <<>>, buffer' = Tail(buffer)
  PROVE  OneLess(buffer, buffer')
<1>1. buffer \in Seq(Queued) /\ \A i \in 2..Len(buffer) : ~buffer[i].challenged
  BY DEF TypeOK, OnlyFirstAsked
<1>2. Tail(buffer) # <<>> => ~Head(Tail(buffer)).challenged
  <2>1. ASSUME Tail(buffer) # <<>> PROVE Head(Tail(buffer)) = buffer[2] /\ 2 \in 2..Len(buffer)
    BY <1>1, <2>1
  <2> QED BY <1>1, <2>1
<1> QED BY <1>1, <1>2, TakenCommand DEF OneLess

\* request_challenge.
LEMMA Challenged ==
  ASSUME TypeOK, buffer # <<>>, NEW x \in BOOLEAN, buffer' = [buffer EXCEPT ![1].challenged = x]
  PROVE  SameCmds(buffer, buffer', x)
BY Zenon, AskedCommand DEF TypeOK, OnlyFirstAsked, SameCmds

-----------------------------------------------------------------------------
\* A stack that the handler of a datagram is called on top of.
Adds(s, r, a) ==
  /\ Pushed(s, r, a) /\ Seen(r)
  /\ \A next : Fits(s, next) /\ <<a, Top(s)>> \in next /\ Over(a, Elems(s)) => Fits(r, next)

\* The handler of a datagram is called.
LEMMA Handled ==
  ASSUME TypeOK, NEW t \in Threads, todo[t] # <<>>, NEW a \in Operations,
         todo' = [todo EXCEPT ![t] = <<a>> \o todo[t]]
  PROVE  Adds(todo[t], todo'[t], a) /\ \A u \in Threads \ {t} : todo'[u] = todo[u]
<1>1. todo[t] \in Seq(Operations) /\ todo'[t] = <<a>> \o todo[t]
  BY DEF TypeOK
<1>2. Pushed(todo[t], <<a>> \o todo[t], a) /\ <<a>> \o todo[t] \in Seq(Operations)
  BY <1>1, Stacks, Pushes
<1>3. Seen(<<a>> \o todo[t])
  BY <1>2, SeenAlways
<1>4. ASSUME NEW next, Fits(todo[t], next), <<a, Top(todo[t])>> \in next, Over(a, Elems(todo[t]))
      PROVE  Fits(<<a>> \o todo[t], next)
  BY <1>1, <1>4, FitsPush
<1>5. \A u \in Threads \ {t} : todo'[u] = todo[u]
  BY DEF TypeOK
<1> QED BY <1>1, <1>2, <1>3, <1>4, <1>5 DEF Adds

Holds(r, a) == r # <<>> /\ Top(r) = a /\ Second(r) = "end" /\ Below(r) = {} /\ Elems(r) = {a} /\ Seen(r)

\* A thread is given something to do ...
LEMMA Starts ==
  ASSUME NEW a \in Operations
  PROVE  Holds(<<a>>, a) /\ \A next : <<a, "end">> \in next => Fits(<<a>>, next)
<1>1. <<a>> \in Seq(Operations) /\ <<>> \in Seq(Operations) /\ <<a>> \o <<>> = <<a>>
  BY ConcatEmptySeq
<1>2. \A next : Fits(<<>>, next)
  BY DEF Fits
<1>3. Top(<<>>) = "end" /\ Elems(<<>>) = {} /\ Over(a, {})
  BY DEF Top, Elems, Over
<1>4. /\ <<a>> # <<>> /\ Top(<<a>>) = a /\ Second(<<a>>) = "end" /\ Below(<<a>>) = {}
      /\ Elems(<<a>>) = {a}
  BY <1>1, <1>3, Pushes
<1>5. Seen(<<a>>)
  BY <1>1, SeenAlways
<1>6. ASSUME NEW next, <<a, "end">> \in next PROVE Fits(<<a>>, next)
  <2>1. Fits(<<a>> \o <<>>, next)
    BY <1>1, <1>2, <1>3, <1>6, FitsPush
  <2> QED BY <1>1, <2>1
<1> QED BY <1>4, <1>5, <1>6 DEF Holds

\* ... or two things.
LEMMA StartsTwo ==
  ASSUME NEW a \in Operations, NEW b \in Operations
  PROVE  /\ <<a, b>> # <<>> /\ Top(<<a, b>>) = a /\ Second(<<a, b>>) = b
         /\ Below(<<a, b>>) = {b} /\ Elems(<<a, b>>) = {a, b} /\ Seen(<<a, b>>)
         /\ \A next : <<b, "end">> \in next /\ <<a, b>> \in next /\ Over(a, {b}) => Fits(<<a, b>>, next)
<1>0. <<b>> \in Seq(Operations) /\ <<>> \in Seq(Operations)
  OBVIOUS
<1>1. <<a>> \o <<b>> = <<a, b>>
  <2>1. <<a>> \o <<b>> \in Seq(Operations) /\ <<a, b>> \in Seq(Operations)
    OBVIOUS
  <2>2. Len(<<a>> \o <<b>>) = 2 /\ Len(<<a, b>>) = 2
    OBVIOUS
  <2>3. \A i \in 1..2 : (<<a>> \o <<b>>)[i] = <<a, b>>[i]
    OBVIOUS
  <2> QED BY <2>1, <2>2, <2>3, SeqEqual
<1>2. Holds(<<b>>, b) /\ \A next : <<b, "end">> \in next => Fits(<<b>>, next)
  BY Starts
<1>3. /\ <<a>> \o <<b>> # <<>> /\ Top(<<a>> \o <<b>>) = a /\ Second(<<a>> \o <<b>>) = b
      /\ Below(<<a>> \o <<b>>) = {b} /\ Elems(<<a>> \o <<b>>) = {a} \cup {b}
  BY <1>0, <1>1, <1>2, Pushes DEF Holds
<1>4. <<a, b>> \in Seq(Operations)
  OBVIOUS
<1>5. Seen(<<a, b>>)
  BY <1>4, SeenAlways
<1>6. ASSUME NEW next, <<b, "end">> \in next, <<a, b>> \in next, Over(a, {b}) PROVE Fits(<<a, b>>, next)
  <2>1. Fits(<<a>> \o <<b>>, next)
    BY <1>0, <1>1, <1>2, <1>6, FitsPush DEF Holds
  <2> QED BY <1>1, <2>1
<1> QED BY <1>1, <1>3, <1>5, <1>6

\* A stack with one operation.
LEMMA FitsAlone ==
  ASSUME NEW r \in Seq(Operations), NEW next, Below(r) = {}, r # <<>> => <<Top(r), "end">> \in next
  PROVE  Fits(r, next)
<1>1. CASE r = <<>>
  BY <1>1 DEF Fits
<1>2. CASE r # <<>>
  <2>1. Rest(r) = Tail(r) /\ Tail(r) \in Seq(Operations) /\ Top(r) = Head(r) /\ Head(r) \in Operations
    BY <1>2 DEF Rest, Top
  <2>2. Tail(r) = <<>>
    BY <2>1, Nothing DEF Below
  <2>3. Len(r) = 1 /\ r[1] = Head(r)
    <3>1. Len(Tail(r)) = Len(r) - 1 /\ Len(r) \in Nat /\ r[1] = Head(r)
      BY <1>2
    <3>2. Len(<<>>) = 0
      OBVIOUS
    <3>3. Len(r) - 1 = 0
      BY <2>2, <3>1, <3>2
    <3>4. \A n \in Nat : n - 1 = 0 => n = 1
      OBVIOUS
    <3> QED BY <3>1, <3>3, <3>4
  <2>4. r = <<Head(r)>>
    BY <2>3, <2>1, SeqEqual
  <2> QED BY <1>2, <2>1, <2>4, Starts
<1> QED BY <1>1, <1>2

\* Main and the timer open a socket, and thread_input is started.
LEMMA Opens ==
  ASSUME TypeOK, NEW t \in {"main", "timer"}, todo[t] # <<>>,
         todo' = [todo EXCEPT ![t] = <<"update">> \o Tail(@), !["input"] = <<"clear", "read">>]
  PROVE  /\ Goes1(todo[t], todo'[t], "update") /\ todo'["input"] = <<"clear", "read">>
         /\ \A u \in Threads \ {t, "input"} : todo'[u] = todo[u]
<1>1. /\ todo'[t] = <<"update">> \o Rest(todo[t]) /\ todo'["input"] = <<"clear", "read">>
      /\ \A u \in Threads \ {t, "input"} : todo'[u] = todo[u]
      /\ todo[t] \in Seq(Operations)
  BY DEF TypeOK, Threads, Rest
<1>2. "update" \in Operations
  BY DEF Operations
<1>3. Becomes(todo[t], <<"update">> \o Rest(todo[t]), "update")
      /\ <<"update">> \o Rest(todo[t]) \in Seq(Operations)
  BY <1>1, <1>2, Stacks
<1>4. Seen(<<"update">> \o Rest(todo[t]))
  BY <1>3, SeenAlways
<1>5. ASSUME NEW next, Fits(todo[t], next), <<"update", Second(todo[t])>> \in next,
             Over("update", Below(todo[t]))
      PROVE  Fits(<<"update">> \o Rest(todo[t]), next)
  BY <1>1, <1>2, <1>5, FitsBecomes
<1> QED BY <1>1, <1>3, <1>4, <1>5 DEF Goes1

\* A thread that waits for a datagram receives it.
LEMMA Receives ==
  ASSUME TypeOK, NEW t \in Threads, todo[t] # <<>>, Receive(t, Tail(todo[t]))
  PROVE  /\ open /\ Removed(toBot, toBot', {"mine", "others"}) /\ Head(toBot) \in Answers
         /\ \A u \in Threads \ {t} : todo'[u] = todo[u]
         /\ IF Head(toBot) = "ack" THEN Goes0(todo[t], todo'[t])
            ELSE Goes1(todo[t], todo'[t], Head(toBot))
<1>1. open /\ toBot # <<>> /\ toBot' = Tail(toBot)
  BY DEF Receive
<1>2. Removed(toBot, toBot', {"mine", "others"}) /\ Head(toBot) \in Answers
  BY <1>1, Received
<1>3. CASE Head(toBot) = "ack"
  <2>1. Do(t, <<>>)
    BY <1>3 DEF Receive, Do
  <2> QED BY <1>1, <1>2, <1>3, <2>1, Goes, OthersStay
<1>4. CASE Head(toBot) # "ack"
  <2>1. Do(t, <<Head(toBot)>>)
    BY <1>4 DEF Receive, Do
  <2>2. Head(toBot) \in Operations
    BY <1>2, <1>4 DEF Answers, Operations
  <2> QED BY <1>1, <1>2, <1>4, <2>1, <2>2, Goes, OthersStay
<1> QED BY <1>3, <1>4

\* thread_input is in run(), or a closing thread polls, and handles a datagram.
LEMMA ReceivesOn ==
  ASSUME TypeOK, NEW t \in Threads, todo[t] # <<>>, Receive(t, todo[t])
  PROVE  /\ open /\ Removed(toBot, toBot', {"mine", "others"}) /\ Head(toBot) \in Answers
         /\ \A u \in Threads \ {t} : todo'[u] = todo[u]
         /\ IF Head(toBot) = "ack" THEN todo'[t] = todo[t] ELSE Adds(todo[t], todo'[t], Head(toBot))
<1>1. open /\ toBot # <<>> /\ toBot' = Tail(toBot) /\ todo[t] \in Seq(Operations)
  BY DEF Receive, TypeOK
<1>2. Removed(toBot, toBot', {"mine", "others"}) /\ Head(toBot) \in Answers
  BY <1>1, Received
<1>3. CASE Head(toBot) = "ack"
  <2>1. todo' = [todo EXCEPT ![t] = <<>> \o todo[t]] /\ <<>> \o todo[t] = todo[t]
    BY <1>1, <1>3, ConcatEmptySeq DEF Receive
  <2> QED BY <1>1, <1>2, <1>3, <2>1 DEF TypeOK
<1>4. CASE Head(toBot) # "ack"
  <2>1. todo' = [todo EXCEPT ![t] = <<Head(toBot)>> \o todo[t]]
    BY <1>4 DEF Receive
  <2>2. Head(toBot) \in Operations
    BY <1>2, <1>4 DEF Answers, Operations
  <2> QED BY <1>1, <1>2, <1>4, <2>1, <2>2, Handled
<1> QED BY <1>3, <1>4

\* thread_input waits for a datagram, and no closing thread is handling one.
LEMMA Reading ==
  ASSUME TypeOK, ReadScheduled
  PROVE  /\ input # <<>> /\ Top(input) = "read"
         /\ "disconnect" \notin Below(main) /\ "disconnect" \notin Below(timer)
<1>1. input # <<>> /\ Top(input) = "read"
  BY AtTop DEF ReadScheduled, input
<1>2. ASSUME NEW u \in {"main", "timer"} PROVE "disconnect" \notin Below(todo[u])
  <2>1. todo[u] \in Seq(Operations)
    BY DEF TypeOK, Threads
  <2>2. CASE todo[u] = <<>>
    BY <2>2 DEF Below, Rest, Elems
  <2>3. CASE todo[u] # <<>>
    <3>1. Below(todo[u]) = Elems(Tail(todo[u])) /\ Len(Tail(todo[u])) = Len(todo[u]) - 1 /\
            Len(todo[u]) \in Nat
      BY <2>1, <2>3 DEF Below, Rest
    <3>2. ASSUME NEW i \in 1..Len(Tail(todo[u])) PROVE Tail(todo[u])[i] # "disconnect"
      <4>1. i + 1 \in 2..Len(todo[u]) /\ Tail(todo[u])[i] = todo[u][i + 1]
        BY <2>1, <2>3, <3>1
      <4> QED BY <4>1 DEF ReadScheduled
    <3> QED BY <3>1, <3>2 DEF Elems
  <2> QED BY <2>2, <2>3
<1> QED BY <1>1, <1>2 DEF main, timer

\* thread_input has nothing to do but to read.
LEMMA AloneTail ==
  ASSUME Tops, input \in Seq(Operations), input # <<>>, Top(input) = "read" PROVE Tail(input) = <<>>
<1>1. Rest(input) = Tail(input) /\ Tail(input) \in Seq(Operations)
  BY DEF Rest
<1>2. Seen(Tail(input)) /\ Top(Tail(input)) = "end"
  BY <1>1, SeenAlways DEF Tops, Second
<1> QED BY <1>2 DEF Seen

\* close_connection, and nothing else.
LEMMA CloseAlone == <<"close">> \o <<>> = <<"close">> /\ <<>> \o <<>> = <<>>
<1>1. <<"close">> \in Seq(Operations) /\ <<>> \in Seq(Operations)
  BY DEF Operations
<1> QED BY <1>1, ConcatEmptySeq

\* Main has failed to open the socket.
LEMMA Fails ==
  ASSUME TypeOK
  PROVE  /\ main # <<>> /\ Below(main) = {} /\ Do("main", <<"close", "disconnect", "join">>) =>
              main' \in Failing
         /\ main \in Failing /\ Do("main", <<"closed">>) => main' \in Failing
         /\ main \in Failing /\ Do("main", <<>>) =>
              Second(main') = "join" /\ Below(main') = {"join"} /\
                \A next : <<"join", "end">> \in next /\ <<"disconnect", "join">> \in next =>
                Fits(main', next)
<1>1. \A ops : Do("main", ops) => main' = ops \o Tail(main)
  BY DEF Do, TypeOK, Threads, main
<1>2. main \in Seq(Operations)
  BY DEF TypeOK, Threads, main
<1>3. ASSUME main # <<>>, Below(main) = {}, Do("main", <<"close", "disconnect", "join">>)
      PROVE  main' \in Failing
  <2>1. Tail(main) \in Seq(Operations) /\ Elems(Tail(main)) = {}
    BY <1>2, <1>3 DEF Below, Rest
  <2>2. Tail(main) = <<>>
    BY <2>1, Nothing
  <2>3. <<"close", "disconnect", "join">> \o <<>> = <<"close", "disconnect", "join">>
    <3>1. <<"close", "disconnect", "join">> \in Seq(Operations)
      BY DEF Operations
    <3> QED BY <3>1, ConcatEmptySeq
  <2> QED BY <1>1, <1>3, <2>2, <2>3 DEF Failing
<1>4. ASSUME main \in Failing PROVE Tail(main) = <<"disconnect", "join">>
  <2>1. ASSUME NEW a, main = <<a, "disconnect", "join">> PROVE Tail(main) = <<"disconnect", "join">>
    BY <2>1
  <2> QED BY <1>4, <2>1 DEF Failing
<1>5. ASSUME main \in Failing, Do("main", <<"closed">>) PROVE main' \in Failing
  <2>1. <<"closed">> \o <<"disconnect", "join">> = <<"closed", "disconnect", "join">>
    <3>1. /\ <<"closed">> \o <<"disconnect", "join">> \in Seq(Operations)
          /\ <<"closed", "disconnect", "join">> \in Seq(Operations)
      BY DEF Operations
    <3>2. Len(<<"closed">> \o <<"disconnect", "join">>) = 3 /\
            Len(<<"closed", "disconnect", "join">>) = 3
      OBVIOUS
    <3>3. \A i \in 1..3 :
            (<<"closed">> \o <<"disconnect", "join">>)[i] = <<"closed", "disconnect", "join">>[i]
      OBVIOUS
    <3> QED BY <3>1, <3>2, <3>3, SeqEqual
  <2> QED BY <1>1, <1>4, <1>5, <2>1 DEF Failing
<1>6. ASSUME main \in Failing, Do("main", <<>>), NEW next,
             <<"join", "end">> \in next, <<"disconnect", "join">> \in next
      PROVE  Fits(main', next) /\ Second(main') = "join" /\ Below(main') = {"join"}
  <2>1. <<"disconnect", "join">> \in Seq(Operations) /\ Over("disconnect", {"join"})
    BY DEF Over, Beneath, Operations
  <2>2. main' = <<"disconnect", "join">>
    BY <1>1, <1>4, <1>6, <2>1, ConcatEmptySeq
  <2>3. "disconnect" \in Operations /\ "join" \in Operations
    BY DEF Operations
  <2> QED BY <1>6, <2>1, <2>2, <2>3, StartsTwo
<1>7. ASSUME main \in Failing, Do("main", <<>>) PROVE Second(main') = "join" /\ Below(main') = {"join"}
  <2>1. <<"join", "end">> \in MainNext /\ <<"disconnect", "join">> \in MainNext
    BY DEF MainNext
  <2> QED BY <1>6, <1>7, <2>1
<1> QED BY <1>3, <1>5, <1>6, <1>7

\* What a fault is while at most one has happened.
LEMMA OneFault == ASSUME faults \in {0, 1}, faults' \in {0, 1}, Fault PROVE faults = 0 /\ faults' = 1
BY DEF Fault

\* The command is sent with the challenge, or the write fails.
ChallengeSends(t) ==
  /\ Challenge(t) /\ open /\ SameWorld /\ toServer' = Append(toServer, Head(buffer).cmd)
  /\ IF Len(buffer) > 1 THEN Do(t, <<"getchallenge">>) ELSE Do(t, <<>>)
ChallengeRefused(t) ==
  /\ Challenge(t) /\ SendFails /\ UNCHANGED toServer
  /\ IF Len(buffer) > 1 THEN Do(t, <<"close", "getchallenge">>) ELSE Do(t, <<"close">>)

\* A challenge is one or the other.
LEMMA Challenges ==
  ASSUME NEW t, Challenge(t) PROVE ChallengeSends(t) \/ ChallengeRefused(t)
<1>1. <<"close">> \o <<>> = <<"close">> /\ <<"close">> \o <<"getchallenge">> = <<"close",
        "getchallenge">>
  <2>1. /\ <<"close">> \o <<"getchallenge">> \in Seq(Operations)
        /\ <<"close", "getchallenge">> \in Seq(Operations) /\ <<"close">> \in Seq(Operations)
    BY DEF Operations
  <2>2. Len(<<"close">> \o <<"getchallenge">>) = 2 /\ Len(<<"close", "getchallenge">>) = 2
    OBVIOUS
  <2>3. \A i \in 1..2 : (<<"close">> \o <<"getchallenge">>)[i] = <<"close", "getchallenge">>[i]
    OBVIOUS
  <2> QED BY <2>1, <2>2, <2>3, SeqEqual, ConcatEmptySeq
<1>2. CASE Len(buffer) > 1
  BY <1>1, <1>2 DEF Challenge, ChallengeSends, ChallengeRefused
<1>3. CASE ~(Len(buffer) > 1)
  BY <1>1, <1>3 DEF Challenge, ChallengeSends, ChallengeRefused
<1> QED BY <1>2, <1>3

\* What is below an operation, but for the handler that a closing thread calls.
Covered(s) ==
  "disconnect" \notin Below(s) =>
    /\ Below(s) \subseteq {"updated", "read", "wait", "ask", "announce",
                           "close", "connect", "join", "getchallenge", "release"}
    /\ Top(s) \notin {"close", "closed", "disconnect", "join"} =>
         Below(s) \subseteq {"updated", "read", "wait", "ask", "announce"}
    /\ Top(s) \notin {"set", "getchallenge", "release", "close", "closed", "disconnect", "join"} =>
         "wait" \notin Below(s)
    /\ Top(s) # "checking" => "ask" \notin Below(s)
    /\ Top(s) # "connected" => "announce" \notin Below(s)
Covers ==
  /\ Covered(main) /\ Covered(timer) /\ Covered(input)
  /\ "disconnect" \notin Below(timer) /\ "disconnect" \notin Below(input)
  /\ "disconnect" \in Below(main) => main \in Failing \/ Top(main) \in Handles

\* It follows from what may be below each operation.
LEMMA OverCovered ==
  ASSUME NEW s, NEW next, Follows(s, next), Seen(s) PROVE Covered(s)
<1>1. CASE s = <<>>
  BY <1>1 DEF Seen, Covered
<1>2. CASE s # <<>>
  BY <1>2 DEF Follows, Over, Beneath, Covered
<1> QED BY <1>1, <1>2

\* It follows from the shapes of the stacks.
LEMMA CoversKnown == ASSUME Tops, OnlyMainNests PROVE Covers
<1>1. Covered(timer) /\ Covered(input)
  BY OverCovered DEF Tops
<1>2. Covered(main)
  <2>1. CASE main \in Failing
    BY <2>1 DEF Tops, Covered
  <2>2. CASE main \notin Failing
    BY <2>2, OverCovered DEF Tops
  <2> QED BY <2>1, <2>2
<1>3. "disconnect" \in Below(main) => main \in Failing \/ Top(main) \in Handles
  <2>1. main = <<>> => Below(main) = {}
    BY DEF Tops, Seen
  <2> QED BY <2>1 DEF Tops, Follows, Over
<1> QED BY <1>1, <1>2, <1>3 DEF Covers, OnlyMainNests

\* The same, with the queues and what is below each operation.
LEMMA AllKnown ==
  ASSUME Sound, Good, Live, Sound', Live'
  PROVE  /\ Tops /\ Covers /\ Unstuck /\ Locks /\ Queues /\ TypeOK
         /\ Unstuck' /\ Locks' /\ Queues' /\ TypeOK'
         /\ faults \in {0, 1} /\ faults' \in {0, 1}
<1>1. Tops /\ Unstuck /\ Locks /\ faults \in {0, 1} /\ faults' \in {0, 1} /\ TypeOK /\ TypeOK'
  BY Known
<1>2. Queues /\ Queues'
  BY <1>1, QueuesKnown, PTL
<1>3. ~Stuck'
  BY DEF Live
<1>4. Unstuck' /\ Locks'
  BY <1>3, UnstuckKnown, PTL
<1>5. Covers
  BY <1>1, CoversKnown DEF Good
<1> QED BY <1>1, <1>2, <1>4, <1>5

\* When the poll fires, main and thread_input have nothing to do or wait for a datagram.
LEMMA AllWait ==
  ASSUME TypeOK, Good, Tops, Covers, Unstuck, Locks, timer = <<>>, Waits("main"), Waits("input")
  PROVE  /\ main = <<>> \/ (Top(main) = "receiving" /\ open /\ toBot = <<>>)
         /\ input = <<>> \/ (Top(input) \in {"read", "receiving"} /\ open /\ toBot = <<>>)
<1>1. Seen(main) /\ Seen(timer) /\ Seen(input) /\ open \in BOOLEAN
  BY DEF Tops, TypeOK
<1>2. ASSUME NEW t \in Threads, Waits(t), todo[t] # <<>>, Top(todo[t]) # "bye"
      PROVE  \/ emutex # "free" /\ Top(todo[t]) \in {"clear", "getchallenge", "challenge", "join",
                  "set", "unset", "ask"}
             \/ Top(todo[t]) = "join" /\ t # "input" /\ input # <<>>
             \/ Top(todo[t]) = "receiving" /\ ~(open /\ toBot # <<>>)
             \/ Top(todo[t]) = "read" /\ open /\ ~(ReadScheduled /\ toBot # <<>>)
  BY <1>2 DEF Waits, NeedsMutex, Sending, Commands, At, Idle, EngineFree, Top, input
<1>3. Top(main) # "bye" /\ Top(input) # "bye" /\ (main # <<>> =>
        Top(main) \notin {"clear", "read", "unset"})
  <2>1. Top(input) # "bye"
    <3>1. input # <<>> => <<Top(input), Second(input)>> \in InputNext
      BY DEF Tops, Follows
    <3> QED BY <1>1, <3>1 DEF InputNext, Seen
  <2>2. main # <<>> => Top(main) \notin {"bye", "clear", "read", "unset"}
    <3>1. main # <<>> => main \in Failing \/ <<Top(main), Second(main)>> \in NextOfMain
      BY DEF Tops, Follows
    <3>2. main \in Failing => Top(main) \in {"close", "closed"}
      BY DEF Tops
    <3> QED BY <3>1, <3>2 DEF NextOfMain, MainNext, FirstNext
  <2> QED BY <1>1, <2>1, <2>2 DEF Seen
<1>4. emutex = "free"
  <2>1. emutex \in {"free", "main", "timer", "input"} /\ main = todo["main"] /\ input = todo["input"]
    BY DEF TypeOK, Threads, main, input
  <2>2. emutex # "timer"
    BY <1>1 DEF Locks, Seen
  <2>3. ASSUME emutex = "main" PROVE FALSE
    <3>1. main # <<>> /\ Top(main) \in {"close", "closed", "release"}
      BY <1>1, <2>3 DEF Good, HolderCloses, Seen
    <3> QED BY <1>2, <2>1, <3>1 DEF Threads
  <2>4. ASSUME emutex = "input" PROVE FALSE
    <3>1. input # <<>> /\ "release" \in Elems(input)
      BY <1>1, <2>4 DEF Locks, Seen
    <3>2. Top(input) \in {"clear", "getchallenge", "challenge", "join", "set", "unset", "ask",
            "receiving", "read"}
      BY <1>2, <1>3, <2>1, <3>1 DEF Threads
    <3>3. "release" \in Below(input)
      BY <1>1, <3>1, <3>2 DEF Seen
    <3> QED BY <3>2, <3>3 DEF Covers, Covered, Unstuck, Leaves
  <2> QED BY <2>1, <2>2, <2>3, <2>4
<1>5. Top(main) # "join"
  <2> SUFFICES ASSUME Top(main) = "join" PROVE FALSE
    OBVIOUS
  <2>1. ~open
    BY DEF Good, JoinsClosed
  <2>2. main # <<>> /\ input # <<>>
    BY <1>1, <1>2, <1>3, <1>4 DEF Seen, Threads, main, input
  <2>3. Top(input) = "receiving"
    BY <1>2, <1>3, <1>4, <2>1, <2>2 DEF Threads, input
  <2> QED BY <2>1, <2>3 DEF Unstuck
<1>6. main = <<>> \/ (Top(main) = "receiving" /\ open /\ toBot = <<>>)
  BY <1>1, <1>2, <1>3, <1>4, <1>5 DEF Threads, main, Unstuck
<1>7. input = <<>> \/ (Top(input) = "receiving" /\ open /\ toBot = <<>>) 
        \/ (Top(input) = "read" /\ open /\ ~(ReadScheduled /\ toBot # <<>>))
  BY <1>2, <1>3, <1>4 DEF Threads, input, Unstuck
<1>8. main = <<>> /\ Top(input) = "read" => ReadScheduled
  <2> SUFFICES ASSUME main = <<>>, Top(input) = "read" PROVE ReadScheduled
    OBVIOUS
  <2>1. At("input", "read")
    BY <1>1 DEF At, Top, input
  <2>2. Len(todo["main"]) = 0 /\ Len(todo["timer"]) = 0
    BY DEF main, timer
  <2> QED BY <2>1, <2>2 DEF ReadScheduled
<1> QED BY <1>6, <1>7, <1>8

-----------------------------------------------------------------------------
(* The first connection: the steps of main *)

\* Main: XonoticConnection::connect.
LEMMA ConnectMain ==
  ASSUME Sound, Good, Live, Sound', Live', Connect("main")
  PROVE  Good'
<1>1. /\ Tops /\ Covers /\ Unstuck /\ Locks /\ Queues /\ TypeOK
      /\ Unstuck' /\ Locks' /\ Queues' /\ TypeOK' /\ faults \in {0, 1} /\ faults' \in {0, 1}
  BY AllKnown
<1> USE DEF Good, Live
<1>2. /\ main # <<>> /\ Top(main) = "connect" /\ timer' = timer /\ input' = input
      /\ \/ open /\ status' = status /\ Goes0(main, main')
         \/ ~open /\ status' = "WAITING" /\ Goes1(main, main', "open")
  BY Zenon, <1>1, MainGoes, AtTop DEF Connect, Done, Sound, main, Operations
<1>3. UNCHANGED <<secure, open, polling, told, emutex, buffer, toServer, toBot, faults>>
  BY DEF Connect, Same, SameLink, linkVars, SameEngine, engineVars, SameNet, netVars, SameWorld,
     worldVars
<1>4. timer = <<>>
  BY <1>1, <1>2 DEF BothBusy, Tops, Seen
<1>5. /\ main \notin Failing /\ <<Top(main), Second(main)>> \in NextOfMain
      /\ Second(main) \in IF polling THEN {"end", "updated"} ELSE {"end"}
      /\ Below(main) \subseteq {"updated", "read"}
  <2>1. main \notin Failing /\ Follows(main, NextOfMain)
    BY <1>1, <1>2 DEF Tops
  <2>2. Second(main) \in IF polling THEN {"end", "updated"} ELSE {"end"}
    BY <1>2, <2>1 DEF Follows, NextOfMain, MainNext, FirstNext
  <2>3. Below(main) \subseteq {"updated", "read"}
    BY <1>1, <1>2, <2>1, Zenon DEF Tops, Follows, Over, Beneath, Handles, Seen
  <2> QED BY <1>2, <2>1, <2>2, <2>3 DEF Follows
<1>6. /\ Seen(main) /\ Seen(timer) /\ Seen(input) /\ Seen(main')
      /\ \/ open /\ status' = status /\ Popped(main, main')
         \/ ~open /\ status' = "WAITING" /\ Becomes(main, main', "open")
  BY <1>1, <1>2 DEF Tops, Goes0, Goes1
<1>7. MainShape'
  BY <1>2, <1>3, <1>5 DEF MainShape, NextOfMain, MainNext, FirstNext, Over, Handles, Beneath,
     Operations, Goes0, Goes1
<1>8. InputShape' /\ TimerShape' /\ OnlyMainNests'
  BY <1>2 DEF InputShape, TimerShape, OnlyMainNests
<1>9. Tops' /\ Covers'
  BY <1>7, <1>8, TopsKnown, CoversKnown, PTL
<1>10. NestShape' /\ JoinsClosed' /\ InputGone' /\ ConnectsClosed' /\ HolderCloses'
  BY <1>1, <1>2, <1>3, <1>4, <1>5, <1>6, <1>9 DEF NestShape, Nested, Alive, JoinsClosed, InputGone,
     Closing, ConnectsClosed, HolderCloses, Tops, Follows, HandlingNext, Locks, Seen, Becomes,
     Popped
<1>11. FirstLife' /\ NoFaultFirst' /\ NoFaultPolled'
  BY <1>1, <1>2, <1>3, <1>4, <1>5, <1>6 DEF ConnectsClosed, FirstLife, AskSent, AskAnswered,
     BufferAsks, Simple, NoFaultFirst, Calm, Closing, Receiver, NoFaultPolled, InputWaits, Seen,
     Becomes, Popped
<1>12. MainCalm' /\ MainReconnects' /\ MainOpens'
  BY <1>1, <1>2, <1>3, <1>4, <1>5, <1>6 DEF ConnectsClosed, MainCalm, MainGoesOn, Second1, First1,
     Calm, Closing, AskSent, AskAnswered, BufferAsks, Simple, Alone, MainReconnects, MainOpens,
     Seen, Becomes, Popped
<1>13. SetupCalm' /\ OneAsks' /\ Coming' /\ ChallengeComing'
  BY <1>1, <1>2, <1>3, <1>4, <1>5, <1>6 DEF ConnectsClosed, SetupCalm, SetsUp, Receiver, Nested,
     OneAsks, InputAsks, QueueAsks, BufferAsks, AskSent, AskAnswered, Coming, Nets, ChallengeComing,
     FirstAsked, Seen, Becomes, Popped
<1>14. BothBusy' /\ TimerPolls' /\ TimerReopens' /\ TimerCalm'
  BY <1>1, <1>2, <1>3, <1>4, <1>5, <1>6 DEF BothBusy, Nets, Alone, TimerAsks, TimerPolls, Fired,
     AfterSetup, NoHarm, Reopens, Calm, Closing, First1, AskSent, AskAnswered, Simple, BufferAsks,
     Alive, TimerReopens, TimerCalm, TimerSetsUp, OldAsks, FirstAsked, Seen, Becomes, Popped
<1>15. StatusTold' /\ ConnectedTold' /\ MineWaits' /\ NothingAsked'
  BY <1>1, <1>2, <1>3, <1>4, <1>5, <1>6 DEF ConnectsClosed, StatusTold, Closing, Told,
     ConnectedTold, MineWaits, NothingAsked, Nets, Alone, Seen, Becomes, Popped
<1> QED BY <1>7, <1>8, <1>10, <1>11, <1>12, <1>13, <1>14, <1>15

\* Main: io.connect, when the socket is open, which does not happen.
LEMMA OpenAlreadyMain ==
  ASSUME Sound, Good, Live, Sound', Live', OpenAlready("main")
  PROVE  FALSE
<1>1. /\ Tops /\ Covers /\ Unstuck /\ Locks /\ Queues /\ TypeOK
      /\ Unstuck' /\ Locks' /\ Queues' /\ TypeOK' /\ faults \in {0, 1} /\ faults' \in {0, 1}
  BY AllKnown
<1> USE DEF Good, Live
<1>2. /\ main # <<>> /\ Top(main) = "open" /\ timer' = timer /\ input' = input
      /\ open /\ Goes0(main, main')
  BY Zenon, <1>1, MainGoes, AtTop DEF OpenAlready, Done, Sound, main, Operations
<1> QED
  BY <1>1, <1>2 DEF ConnectsClosed, Seen, Tops

\* Main: io.connect opens the socket.
LEMMA OpenSocketMain ==
  ASSUME Sound, Good, Live, Sound', Live', OpenSocket("main")
  PROVE  Good'
<1>1. /\ Tops /\ Covers /\ Unstuck /\ Locks /\ Queues /\ TypeOK
      /\ Unstuck' /\ Locks' /\ Queues' /\ TypeOK' /\ faults \in {0, 1} /\ faults' \in {0, 1}
  BY AllKnown
<1> USE DEF Good, Live
<1>2. /\ main # <<>> /\ Top(main) = "open" /\ timer' = timer /\ input = <<>> /\
           input' = <<"clear", "read">>
      /\ ~open /\ open' /\ toServer' = <<>> /\ toBot' = <<>> /\ Goes1(main, main', "update")
  <2>1. /\ main # <<>> /\ Top(main) = "open" /\ input = <<>> /\ todo["main"] = main
        /\ ~open /\ open' /\ toServer' = <<>> /\ toBot' = <<>>
    BY AtTop DEF OpenSocket, AsioInUse, Idle, main, input
  <2> QED BY <1>1, <2>1, Opens DEF OpenSocket, Threads, main, timer, input
<1>3. UNCHANGED <<secure, status, polling, told, emutex, buffer, faults>>
  BY DEF OpenSocket, SameEngine, engineVars, SameWorld, worldVars
<1>4. timer = <<>>
  BY <1>1, <1>2 DEF BothBusy, Tops, Seen
<1>5. /\ main \notin Failing /\ <<Top(main), Second(main)>> \in NextOfMain
      /\ Second(main) \in IF polling THEN {"end", "updated"} ELSE {"end"}
      /\ Below(main) \subseteq {"updated", "read"}
  <2>1. main \notin Failing /\ Follows(main, NextOfMain)
    BY <1>1, <1>2 DEF Tops
  <2>2. Second(main) \in IF polling THEN {"end", "updated"} ELSE {"end"}
    BY <1>2, <2>1 DEF Follows, NextOfMain, MainNext, FirstNext
  <2>3. Below(main) \subseteq {"updated", "read"}
    BY <1>1, <1>2, <2>1, Zenon DEF Tops, Follows, Over, Beneath, Handles, Seen
  <2> QED BY <1>2, <2>1, <2>2, <2>3 DEF Follows
<1>6. /\ Seen(main) /\ Seen(timer) /\ Seen(main') /\ Becomes(main, main', "update")
      /\ Elems(input) = {} /\ Top(input') = "clear" /\ Second(input') = "read" /\
           Below(input') = {"read"}
      /\ Elems(input') = {"clear", "read"} /\ Seen(input') /\ Fits(input', HandlingNext) /\ InputShape'
  <2>1. Seen(input) /\ Elems(input) = {}
    BY <1>1, <1>2 DEF Tops, Seen
  <2>2. "clear" \in Operations /\ "read" \in Operations /\ Over("clear", {"read"})
    BY DEF Operations, Over, Beneath
  <2>3. /\ <<"read", "end">> \in InputNext /\ <<"clear", "read">> \in InputNext
        /\ <<"read", "end">> \in HandlingNext /\ <<"clear", "read">> \in HandlingNext
    BY DEF InputNext, HandlingNext
  <2> QED BY <1>1, <1>2, <2>1, <2>2, <2>3, StartsTwo DEF Tops, Goes1, InputShape
<1>7. MainShape'
  BY <1>2, <1>3, <1>5 DEF MainShape, NextOfMain, MainNext, FirstNext, Over, Handles, Beneath,
     Operations, Goes1
<1>8. InputShape' /\ TimerShape' /\ OnlyMainNests'
  BY <1>2, <1>3, <1>5, <1>6 DEF MainShape, NextOfMain, TimerShape, OnlyMainNests, Becomes
<1>9. Tops' /\ Covers'
  BY <1>7, <1>8, TopsKnown, CoversKnown, PTL
<1>10. NestShape' /\ JoinsClosed' /\ InputGone' /\ ConnectsClosed' /\ HolderCloses'
  BY <1>1, <1>2, <1>3, <1>4, <1>5, <1>6, <1>9 DEF NestShape, Nested, Alive, JoinsClosed, InputGone,
     Closing, ConnectsClosed, HolderCloses, BothBusy, Nets, Alone, TimerAsks, Tops, Follows,
     HandlingNext, Locks, Queues, Seen, Becomes
<1>11. FirstLife' /\ NoFaultFirst' /\ NoFaultPolled'
  BY <1>1, <1>2, <1>3, <1>4, <1>5, <1>6 DEF FirstLife, AskSent, AskAnswered, BufferAsks, Simple,
     NoFaultFirst, Calm, Closing, Receiver, NoFaultPolled, InputWaits, Queues, Seen, Becomes
<1>12. MainCalm' /\ MainReconnects' /\ MainOpens'
  BY <1>1, <1>2, <1>3, <1>4, <1>5, <1>6 DEF NoFaultPolled, Calm, Closing, InputWaits, MainCalm,
     MainGoesOn, Second1, First1, AskSent, AskAnswered, BufferAsks, Simple, Alone, MainReconnects,
     MainOpens, Queues, Seen, Becomes
<1>13. SetupCalm' /\ OneAsks' /\ Coming' /\ ChallengeComing'
  BY <1>1, <1>2, <1>3, <1>4, <1>5, <1>6 DEF SetupCalm, SetsUp, Receiver, Nested, OneAsks, InputAsks,
     QueueAsks, BufferAsks, AskSent, AskAnswered, Coming, Nets, ChallengeComing, FirstAsked, Queues,
     Seen, Becomes
<1>14. BothBusy' /\ TimerPolls' /\ TimerReopens' /\ TimerCalm'
  BY <1>1, <1>2, <1>3, <1>4, <1>5, <1>6 DEF BothBusy, Nets, Alone, TimerAsks, TimerPolls, Fired,
     AfterSetup, NoHarm, Reopens, Calm, Closing, First1, AskSent, AskAnswered, Simple, BufferAsks,
     Alive, TimerReopens, TimerCalm, TimerSetsUp, OldAsks, FirstAsked, Queues, Seen, Becomes
<1>15. StatusTold' /\ ConnectedTold' /\ MineWaits' /\ NothingAsked'
  BY <1>1, <1>2, <1>3, <1>4, <1>5, <1>6 DEF MainOpens, Simple, Alone, BothBusy, Nets, TimerAsks,
     StatusTold, Closing, Told, ConnectedTold, MineWaits, NothingAsked, Queues, Seen, Becomes
<1> QED BY <1>7, <1>8, <1>10, <1>11, <1>12, <1>13, <1>14, <1>15

\* Main: the name is not resolved.
LEMMA OpenFailsMain ==
  ASSUME Sound, Good, Live, Sound', Live', OpenFails("main")
  PROVE  Good'
<1>1. /\ Tops /\ Covers /\ Unstuck /\ Locks /\ Queues /\ TypeOK
      /\ Unstuck' /\ Locks' /\ Queues' /\ TypeOK' /\ faults \in {0, 1} /\ faults' \in {0, 1}
  BY AllKnown
<1> USE DEF Good, Live
<1>2. /\ main # <<>> /\ Top(main) = "open" /\ timer' = timer /\ input' = input
      /\ input = <<>>
      /\ ~open /\ faults = 0 /\ faults' = 1 /\ Goes3(main, main', "close", "disconnect", "join")
  BY <1>1, MainGoes, AtTop, OneFault DEF OpenFails, AsioInUse, Idle, Threads, main, input
<1>3. UNCHANGED <<secure, status, open, polling, told, emutex, buffer, toServer, toBot>>
  BY DEF OpenFails, Same, SameLink, linkVars, SameEngine, engineVars, SameNet, netVars, SameWorld,
     worldVars
<1>4. timer = <<>>
  BY <1>1, <1>2 DEF BothBusy, Tops, Seen
<1>5. /\ main \notin Failing /\ <<Top(main), Second(main)>> \in NextOfMain
      /\ Second(main) \in IF polling THEN {"end", "updated"} ELSE {"end"}
      /\ Below(main) \subseteq {"updated", "read"}
  <2>1. main \notin Failing /\ Follows(main, NextOfMain)
    BY <1>1, <1>2 DEF Tops
  <2>2. Second(main) \in IF polling THEN {"end", "updated"} ELSE {"end"}
    BY <1>2, <2>1 DEF Follows, NextOfMain, MainNext, FirstNext
  <2>3. Below(main) \subseteq {"updated", "read"}
    BY <1>1, <1>2, <2>1, Zenon DEF Tops, Follows, Over, Beneath, Handles, Seen
  <2> QED BY <1>2, <2>1, <2>2, <2>3 DEF Follows
<1>6. /\ Seen(main) /\ Seen(timer) /\ Seen(input) /\ Seen(main')
      /\ ~open /\ faults = 0 /\ faults' = 1 /\ Becomes3(main, main', "close", "disconnect", "join")
  BY <1>1, <1>2 DEF Tops, Goes3
<1>7. MainShape' /\ main' \in Failing
  BY <1>1, <1>2, <1>3, <1>5, Fails DEF OpenFails, MainShape, NoFaultPolled, Tops, Seen
<1>8. InputShape' /\ TimerShape' /\ OnlyMainNests'
  BY <1>2 DEF InputShape, TimerShape, OnlyMainNests
<1>9. Tops' /\ Covers'
  BY <1>7, <1>8, TopsKnown, CoversKnown, PTL
<1>10. NestShape' /\ JoinsClosed' /\ InputGone' /\ ConnectsClosed' /\ HolderCloses'
  BY <1>1, <1>2, <1>3, <1>4, <1>5, <1>7, <1>6, <1>9 DEF NestShape, Nested, Alive, JoinsClosed,
     InputGone, Closing, ConnectsClosed, HolderCloses, NoFaultPolled, Calm, InputWaits, Tops, Locks,
     Seen, Becomes3
<1>11. FirstLife' /\ NoFaultFirst' /\ NoFaultPolled'
  BY <1>1, <1>2, <1>3, <1>4, <1>5, <1>7, <1>6 DEF FirstLife, AskSent, AskAnswered, BufferAsks,
     Simple, NoFaultFirst, Calm, Closing, Receiver, NoFaultPolled, InputWaits, Seen, Becomes3
<1>12. MainCalm' /\ MainReconnects' /\ MainOpens'
  BY <1>1, <1>2, <1>3, <1>4, <1>5, <1>7, <1>6, <1>9 DEF NestShape, Nested, Alive, MainCalm,
     MainGoesOn, Second1, First1, Calm, Closing, AskSent, AskAnswered, BufferAsks, Simple, Alone,
     MainReconnects, MainOpens, Tops, Follows, HandlingNext, Covers, Covered, Handles, Seen,
     Becomes3
<1>13. SetupCalm' /\ OneAsks' /\ Coming' /\ ChallengeComing'
  BY <1>1, <1>2, <1>3, <1>4, <1>5, <1>7, <1>6 DEF SetupCalm, SetsUp, Receiver, Nested, OneAsks,
     InputAsks, QueueAsks, BufferAsks, AskSent, AskAnswered, Coming, Nets, ChallengeComing,
     FirstAsked, Seen, Becomes3
<1>14. BothBusy' /\ TimerPolls' /\ TimerReopens' /\ TimerCalm'
  BY <1>1, <1>2, <1>3, <1>4, <1>5, <1>7, <1>6 DEF BothBusy, Nets, Alone, TimerAsks, TimerPolls,
     Fired, AfterSetup, NoHarm, Reopens, Calm, Closing, First1, AskSent, AskAnswered, Simple,
     BufferAsks, Alive, TimerReopens, TimerCalm, TimerSetsUp, OldAsks, FirstAsked, Seen, Becomes3
<1>15. StatusTold' /\ ConnectedTold' /\ MineWaits' /\ NothingAsked'
  BY <1>1, <1>2, <1>3, <1>4, <1>5, <1>7, <1>6 DEF StatusTold, Closing, Told, ConnectedTold,
     MineWaits, NothingAsked, Nets, Alone, Seen, Becomes3
<1> QED BY <1>7, <1>8, <1>10, <1>11, <1>12, <1>13, <1>14, <1>15

\* Main: update_connection.
LEMMA UpdateMain ==
  ASSUME Sound, Good, Live, Sound', Live', Update("main")
  PROVE  Good'
<1>1. /\ Tops /\ Covers /\ Unstuck /\ Locks /\ Queues /\ TypeOK
      /\ Unstuck' /\ Locks' /\ Queues' /\ TypeOK' /\ faults \in {0, 1} /\ faults' \in {0, 1}
  BY AllKnown
<1> USE DEF Good, Live
<1>2. /\ main # <<>> /\ Top(main) = "update" /\ timer' = timer /\ input' = input
      /\ \/ status = "DISCONNECTED" /\ status' = status /\ Goes0(main, main')
         \/ status # "DISCONNECTED" /\ status' = "WAITING" /\
              Goes3(main, main', "set", "wait", "updated")
  BY Zenon, <1>1, MainGoes, AtTop DEF Update, Done, Sound, main, Operations
<1>3. UNCHANGED <<secure, open, polling, told, emutex, buffer, toServer, toBot, faults>>
  BY DEF Update, Same, SameLink, linkVars, SameEngine, engineVars, SameNet, netVars, SameWorld,
     worldVars
<1>4. timer = <<>>
  BY <1>1, <1>2 DEF BothBusy, Tops, Seen
<1>5. /\ main \notin Failing /\ <<Top(main), Second(main)>> \in NextOfMain
      /\ Second(main) \in IF polling THEN {"end", "disconnect", "updated"} ELSE {"end"}
      /\ "disconnect" \in Below(main) \/ Below(main) \subseteq {"updated", "read"}
  <2>1. main \notin Failing /\ Follows(main, NextOfMain)
    BY <1>1, <1>2 DEF Tops
  <2>2. Second(main) \in IF polling THEN {"end", "disconnect", "updated"} ELSE {"end"}
    BY <1>2, <2>1 DEF Follows, NextOfMain, MainNext, FirstNext
  <2>3. "disconnect" \in Below(main) \/ Below(main) \subseteq {"updated", "read"}
    BY <1>1, <1>2, <2>1, Zenon DEF Tops, Follows, Over, Beneath, Handles, Seen
  <2> QED BY <1>2, <2>1, <2>2, <2>3 DEF Follows
<1>6. /\ Seen(main) /\ Seen(timer) /\ Seen(input) /\ Seen(main')
      /\ \/ status = "DISCONNECTED" /\ status' = status /\ Popped(main, main')
         \/ status # "DISCONNECTED" /\ status' = "WAITING" /\
              Becomes3(main, main', "set", "wait", "updated")
  BY <1>1, <1>2 DEF Tops, Goes0, Goes3
<1>7. MainShape'
  BY <1>2, <1>3, <1>5 DEF MainShape, NextOfMain, MainNext, FirstNext, Over, Handles, Beneath,
     Operations, Goes0, Goes3
<1>8. InputShape' /\ TimerShape' /\ OnlyMainNests'
  BY <1>2 DEF InputShape, TimerShape, OnlyMainNests
<1>9. Tops' /\ Covers'
  BY <1>7, <1>8, TopsKnown, CoversKnown, PTL
<1>10. NestShape' /\ JoinsClosed' /\ InputGone' /\ ConnectsClosed' /\ HolderCloses'
  BY <1>1, <1>2, <1>3, <1>4, <1>5, <1>6, <1>9 DEF NestShape, Nested, Alive, JoinsClosed, InputGone,
     Closing, ConnectsClosed, HolderCloses, BothBusy, Nets, Alone, TimerAsks, Tops, Follows,
     HandlingNext, Locks, Seen, Becomes3, Popped
<1>11. FirstLife' /\ NoFaultFirst' /\ NoFaultPolled'
  BY <1>1, <1>2, <1>3, <1>4, <1>5, <1>6, <1>9 DEF FirstLife, AskSent, AskAnswered, BufferAsks,
     Simple, NoFaultFirst, Calm, Closing, Receiver, NoFaultPolled, InputWaits, Covers, Covered,
     Handles, Seen, Becomes3, Popped
<1>12. MainCalm' /\ MainReconnects' /\ MainOpens'
  BY <1>1, <1>2, <1>3, <1>4, <1>5, <1>6, <1>9 DEF NestShape, Nested, Alive, NoFaultPolled, Calm,
     Closing, InputWaits, MainCalm, MainGoesOn, Second1, First1, AskSent, AskAnswered, BufferAsks,
     Simple, Alone, MainReconnects, MainOpens, SetupCalm, SetsUp, Receiver, Tops, Follows,
     HandlingNext, Covers, Covered, Handles, Seen, Becomes3, Popped
<1>13. SetupCalm' /\ OneAsks' /\ Coming' /\ ChallengeComing'
  BY <1>1, <1>2, <1>3, <1>4, <1>5, <1>6 DEF SetupCalm, SetsUp, Receiver, Nested, OneAsks, InputAsks,
     QueueAsks, BufferAsks, AskSent, AskAnswered, Coming, Nets, ChallengeComing, FirstAsked, Seen,
     Becomes3, Popped
<1>14. BothBusy' /\ TimerPolls' /\ TimerReopens' /\ TimerCalm'
  BY <1>1, <1>2, <1>3, <1>4, <1>5, <1>6 DEF BothBusy, Nets, Alone, TimerAsks, TimerPolls, Fired,
     AfterSetup, NoHarm, Reopens, Calm, Closing, First1, AskSent, AskAnswered, Simple, BufferAsks,
     Alive, TimerReopens, TimerCalm, TimerSetsUp, OldAsks, FirstAsked, Seen, Becomes3, Popped
<1>15. StatusTold' /\ ConnectedTold' /\ MineWaits' /\ NothingAsked'
  BY <1>1, <1>2, <1>3, <1>4, <1>5, <1>6, <1>9 DEF OneAsks, Receiver, Nested, InputAsks, QueueAsks,
     BufferAsks, AskSent, AskAnswered, StatusTold, Closing, Told, ConnectedTold, MineWaits,
     NothingAsked, Nets, Alone, Covers, Covered, Handles, Seen, Becomes3, Popped
<1> QED BY <1>7, <1>8, <1>10, <1>11, <1>12, <1>13, <1>14, <1>15

\* Main: update_connection waits for a datagram if the link is WAITING.
LEMMA WaitMain ==
  ASSUME Sound, Good, Live, Sound', Live', Wait("main")
  PROVE  Good'
<1>1. /\ Tops /\ Covers /\ Unstuck /\ Locks /\ Queues /\ TypeOK
      /\ Unstuck' /\ Locks' /\ Queues' /\ TypeOK' /\ faults \in {0, 1} /\ faults' \in {0, 1}
  BY AllKnown
<1> USE DEF Good, Live
<1>2. /\ main # <<>> /\ Top(main) = "wait" /\ timer' = timer /\ input' = input
      /\ \/ status = "WAITING" /\ Goes1(main, main', "sync")
         \/ status # "WAITING" /\ Goes0(main, main')
  BY Zenon, <1>1, MainGoes, AtTop DEF Wait, Done, Sound, main, Operations
<1>3. UNCHANGED <<secure, status, open, polling, told, emutex, buffer, toServer, toBot, faults>>
  BY DEF Wait, Same, SameLink, linkVars, SameEngine, engineVars, SameNet, netVars, SameWorld,
     worldVars
<1>4. timer = <<>>
  BY <1>1, <1>2 DEF BothBusy, Tops, Seen
<1>5. /\ main \notin Failing /\ <<Top(main), Second(main)>> \in NextOfMain
      /\ Second(main) \in {"updated"}
      /\ "disconnect" \in Below(main) \/ Below(main) \subseteq {"updated", "read"}
  <2>1. main \notin Failing /\ Follows(main, NextOfMain)
    BY <1>1, <1>2 DEF Tops
  <2>2. Second(main) \in {"updated"}
    BY <1>2, <2>1 DEF Follows, NextOfMain, MainNext, FirstNext
  <2>3. "disconnect" \in Below(main) \/ Below(main) \subseteq {"updated", "read"}
    BY <1>1, <1>2, <2>1, Zenon DEF Tops, Follows, Over, Beneath, Handles, Seen
  <2> QED BY <1>2, <2>1, <2>2, <2>3 DEF Follows
<1>6. /\ Seen(main) /\ Seen(timer) /\ Seen(input) /\ Seen(main')
      /\ \/ status = "WAITING" /\ Becomes(main, main', "sync")
         \/ status # "WAITING" /\ Popped(main, main')
  BY <1>1, <1>2 DEF Tops, Goes0, Goes1
<1>7. MainShape'
  BY <1>2, <1>3, <1>5 DEF MainShape, NextOfMain, MainNext, FirstNext, Over, Handles, Beneath,
     Operations, Goes0, Goes1
<1>8. InputShape' /\ TimerShape' /\ OnlyMainNests'
  BY <1>2 DEF InputShape, TimerShape, OnlyMainNests
<1>9. Tops' /\ Covers'
  BY <1>7, <1>8, TopsKnown, CoversKnown, PTL
<1>10. NestShape' /\ JoinsClosed' /\ InputGone' /\ ConnectsClosed' /\ HolderCloses'
  BY <1>1, <1>2, <1>3, <1>4, <1>5, <1>6, <1>9 DEF NestShape, Nested, Alive, JoinsClosed, InputGone,
     Closing, ConnectsClosed, HolderCloses, Tops, Follows, HandlingNext, Locks, Seen, Becomes,
     Popped
<1>11. FirstLife' /\ NoFaultFirst' /\ NoFaultPolled'
  BY <1>1, <1>2, <1>3, <1>4, <1>5, <1>6, <1>9 DEF FirstLife, AskSent, AskAnswered, BufferAsks,
     Simple, NoFaultFirst, Calm, Closing, Receiver, NoFaultPolled, InputWaits, Covers, Covered,
     Handles, Seen, Becomes, Popped
<1>12. MainCalm' /\ MainReconnects' /\ MainOpens'
  BY <1>1, <1>2, <1>3, <1>4, <1>5, <1>6 DEF MainCalm, MainGoesOn, Second1, First1, Calm, Closing,
     AskSent, AskAnswered, BufferAsks, Simple, Alone, MainReconnects, MainOpens, Seen, Becomes,
     Popped
<1>13. SetupCalm' /\ OneAsks' /\ Coming' /\ ChallengeComing'
  BY <1>1, <1>2, <1>3, <1>4, <1>5, <1>6 DEF SetupCalm, SetsUp, Receiver, Nested, OneAsks, InputAsks,
     QueueAsks, BufferAsks, AskSent, AskAnswered, Coming, Nets, ChallengeComing, FirstAsked, Seen,
     Becomes, Popped
<1>14. BothBusy' /\ TimerPolls' /\ TimerReopens' /\ TimerCalm'
  BY <1>1, <1>2, <1>3, <1>4, <1>5, <1>6 DEF BothBusy, Nets, Alone, TimerAsks, TimerPolls, Fired,
     AfterSetup, NoHarm, Reopens, Calm, Closing, First1, AskSent, AskAnswered, Simple, BufferAsks,
     Alive, TimerReopens, TimerCalm, TimerSetsUp, OldAsks, FirstAsked, Seen, Becomes, Popped
<1>15. StatusTold' /\ ConnectedTold' /\ MineWaits' /\ NothingAsked'
  BY <1>1, <1>2, <1>3, <1>4, <1>5, <1>6, <1>9 DEF StatusTold, Closing, Told, ConnectedTold,
     MineWaits, NothingAsked, Nets, Alone, Covers, Covered, Handles, Seen, Becomes, Popped
<1> QED BY <1>7, <1>8, <1>10, <1>11, <1>12, <1>13, <1>14, <1>15

\* Main: update_connection starts the poll and requests the status.
LEMMA UpdatedMain ==
  ASSUME Sound, Good, Live, Sound', Live', Updated("main")
  PROVE  Good'
<1>1. /\ Tops /\ Covers /\ Unstuck /\ Locks /\ Queues /\ TypeOK
      /\ Unstuck' /\ Locks' /\ Queues' /\ TypeOK' /\ faults \in {0, 1} /\ faults' \in {0, 1}
  BY AllKnown
<1> USE DEF Good, Live
<1>2. /\ main # <<>> /\ Top(main) = "updated" /\ timer' = timer /\ input' = input
      /\ polling' = TRUE
      /\ \/ status \in Alive /\ Goes1(main, main', "request")
         \/ status \notin Alive /\ Goes0(main, main')
  BY Zenon, <1>1, MainGoes, AtTop DEF Updated, Done, Sound, main, Operations
<1>3. UNCHANGED <<secure, status, open, told, emutex, buffer, toServer, toBot, faults>>
  BY DEF Updated, Same, SameLink, linkVars, SameEngine, engineVars, SameNet, netVars, SameWorld,
     worldVars
<1>4. timer = <<>>
  BY <1>1, <1>2 DEF BothBusy, Tops, Seen
<1>5. /\ main \notin Failing /\ <<Top(main), Second(main)>> \in NextOfMain
      /\ Second(main) \in IF polling THEN {"end", "disconnect", "updated"} ELSE {"end"}
      /\ "disconnect" \in Below(main) \/ Below(main) \subseteq {"updated", "read"}
  <2>1. main \notin Failing /\ Follows(main, NextOfMain)
    BY <1>1, <1>2 DEF Tops
  <2>2. Second(main) \in IF polling THEN {"end", "disconnect", "updated"} ELSE {"end"}
    BY <1>2, <2>1 DEF Follows, NextOfMain, MainNext, FirstNext
  <2>3. "disconnect" \in Below(main) \/ Below(main) \subseteq {"updated", "read"}
    BY <1>1, <1>2, <2>1, Zenon DEF Tops, Follows, Over, Beneath, Handles, Seen
  <2> QED BY <1>2, <2>1, <2>2, <2>3 DEF Follows
<1>6. /\ Seen(main) /\ Seen(timer) /\ Seen(input) /\ Seen(main')
      /\ \/ status \in Alive /\ Becomes(main, main', "request")
         \/ status \notin Alive /\ Popped(main, main')
  BY <1>1, <1>2 DEF Tops, Goes0, Goes1
<1>7. MainShape'
  <2>1. CASE polling
    BY <1>2, <1>3, <1>5, <2>1 DEF MainShape, NextOfMain, MainNext, FirstNext, Over, Handles,
       Beneath, Operations, Goes0, Goes1
  <2>2. CASE ~polling
    <3>1. Below(main') = {} /\ (Top(main') = "end" \/ Top(main') = "request") /\
            main' \in Seq(Operations)
      BY <1>1, <1>5, <1>6, <2>2 DEF Seen, Popped, Becomes, TypeOK, Threads, main
    <3>2. main' # <<>> => <<Top(main'), "end">> \in NextOfMain'
      BY <1>2, <1>6, <3>1 DEF NextOfMain, MainNext, Seen
    <3> QED BY <3>1, <3>2, FitsAlone DEF MainShape
  <2> QED BY <2>1, <2>2
<1>8. InputShape' /\ TimerShape' /\ OnlyMainNests'
  BY <1>2 DEF InputShape, TimerShape, OnlyMainNests
<1>9. Tops' /\ Covers'
  BY <1>7, <1>8, TopsKnown, CoversKnown, PTL
<1>10. NestShape' /\ JoinsClosed' /\ InputGone' /\ ConnectsClosed' /\ HolderCloses'
  BY <1>1, <1>2, <1>3, <1>4, <1>5, <1>6, <1>9 DEF NestShape, Nested, Alive, JoinsClosed, InputGone,
     Closing, ConnectsClosed, HolderCloses, Tops, Follows, HandlingNext, Locks, Seen, Becomes,
     Popped
<1>11. FirstLife' /\ NoFaultFirst' /\ NoFaultPolled'
  BY <1>1, <1>2, <1>3, <1>4, <1>5, <1>6 DEF FirstLife, AskSent, AskAnswered, BufferAsks, Simple,
     NoFaultFirst, Calm, Closing, Receiver, NoFaultPolled, InputWaits, BothBusy, Nets, Alone,
     TimerAsks, NothingAsked, Seen, Becomes, Popped
<1>12. MainCalm' /\ MainReconnects' /\ MainOpens'
  BY <1>1, <1>2, <1>3, <1>4, <1>5, <1>6 DEF FirstLife, AskSent, AskAnswered, BufferAsks, Simple,
     MainCalm, MainGoesOn, Second1, First1, Calm, Closing, Alone, MainReconnects, MainOpens, Seen,
     Becomes, Popped
<1>13. SetupCalm' /\ OneAsks' /\ Coming' /\ ChallengeComing'
  BY <1>1, <1>2, <1>3, <1>4, <1>5, <1>6, <1>9 DEF SetupCalm, SetsUp, Receiver, Nested, OneAsks,
     InputAsks, QueueAsks, BufferAsks, AskSent, AskAnswered, Coming, Nets, ChallengeComing,
     FirstAsked, Covers, Covered, Handles, Seen, Becomes, Popped
<1>14. BothBusy' /\ TimerPolls' /\ TimerReopens' /\ TimerCalm'
  BY <1>1, <1>2, <1>3, <1>4, <1>5, <1>6 DEF BothBusy, Nets, Alone, TimerAsks, TimerPolls, Fired,
     AfterSetup, NoHarm, Reopens, Calm, Closing, First1, AskSent, AskAnswered, Simple, BufferAsks,
     Alive, TimerReopens, TimerCalm, TimerSetsUp, OldAsks, FirstAsked, Seen, Becomes, Popped
<1>15. StatusTold' /\ ConnectedTold' /\ MineWaits' /\ NothingAsked'
  BY <1>1, <1>2, <1>3, <1>4, <1>5, <1>6, <1>9 DEF StatusTold, Closing, Told, ConnectedTold,
     MineWaits, NothingAsked, Nets, Alone, Covers, Covered, Handles, Seen, Becomes, Popped
<1> QED BY <1>7, <1>8, <1>10, <1>11, <1>12, <1>13, <1>14, <1>15

\* Main: request_status.
LEMMA RequestMain ==
  ASSUME Sound, Good, Live, Sound', Live', Request("main")
  PROVE  Good'
<1>1. /\ Tops /\ Covers /\ Unstuck /\ Locks /\ Queues /\ TypeOK
      /\ Unstuck' /\ Locks' /\ Queues' /\ TypeOK' /\ faults \in {0, 1} /\ faults' \in {0, 1}
  BY AllKnown
<1> USE DEF Good, Live
<1>2. /\ main # <<>> /\ Top(main) = "request" /\ timer' = timer /\ input' = input
      /\ \/ status = "CONNECTED" /\ Goes2(main, main', "checking", "ask")
         \/ status \in {"CONNECTING", "CHECKING"} /\ Goes1(main, main', "ask")
         \/ status \in {"WAITING", "DISCONNECTED"} /\ Goes2(main, main', "close", "connect")
  BY Zenon, <1>1, MainGoes, AtTop DEF Request, Alive, TypeOK, Done, Sound, main, Operations
<1>3. UNCHANGED <<secure, status, open, polling, told, emutex, buffer, toServer, toBot, faults>>
  BY DEF Request, Same, SameLink, linkVars, SameEngine, engineVars, SameNet, netVars, SameWorld,
     worldVars
<1>4. timer = <<>>
  BY <1>1, <1>2 DEF BothBusy, Tops, Seen
<1>5. /\ main \notin Failing /\ <<Top(main), Second(main)>> \in NextOfMain
      /\ polling /\ Second(main) \in {"end", "disconnect", "updated"}
      /\ "disconnect" \in Below(main) \/ Below(main) \subseteq {"updated", "read"}
  <2>1. main \notin Failing /\ Follows(main, NextOfMain)
    BY <1>1, <1>2 DEF Tops
  <2>2. polling /\ Second(main) \in {"end", "disconnect", "updated"}
    BY <1>2, <2>1 DEF Follows, NextOfMain, MainNext, FirstNext
  <2>3. "disconnect" \in Below(main) \/ Below(main) \subseteq {"updated", "read"}
    BY <1>1, <1>2, <2>1, Zenon DEF Tops, Follows, Over, Beneath, Handles, Seen
  <2> QED BY <1>2, <2>1, <2>2, <2>3 DEF Follows
<1>6. /\ Seen(main) /\ Seen(timer) /\ Seen(input) /\ Seen(main')
      /\ \/ status = "CONNECTED" /\ Becomes2(main, main', "checking", "ask")
         \/ status \in {"CONNECTING", "CHECKING"} /\ Becomes(main, main', "ask")
         \/ status \in {"WAITING", "DISCONNECTED"} /\ Becomes2(main, main', "close", "connect")
  BY <1>1, <1>2 DEF Tops, Goes1, Goes2
<1>7. MainShape'
  BY <1>1, <1>2, <1>3, <1>5, <1>6 DEF MainShape, NextOfMain, MainNext, FirstNext, Over, Handles,
     Beneath, Operations, Goes1, Goes2, NestShape, Nested, Alive, Becomes, Becomes2, Seen
<1>8. InputShape' /\ TimerShape' /\ OnlyMainNests'
  BY <1>2 DEF InputShape, TimerShape, OnlyMainNests
<1>9. Tops' /\ Covers'
  BY <1>7, <1>8, TopsKnown, CoversKnown, PTL
<1>10. NestShape' /\ JoinsClosed' /\ InputGone' /\ ConnectsClosed' /\ HolderCloses'
  BY <1>1, <1>2, <1>3, <1>4, <1>5, <1>6, <1>9 DEF NestShape, Nested, Alive, JoinsClosed, InputGone,
     Closing, ConnectsClosed, HolderCloses, Tops, Follows, HandlingNext, Locks, Seen, Becomes,
     Becomes2
<1>11. FirstLife' /\ NoFaultFirst' /\ NoFaultPolled'
  BY <1>1, <1>2, <1>3, <1>4, <1>5, <1>6 DEF FirstLife, AskSent, AskAnswered, BufferAsks, Simple,
     NoFaultFirst, Calm, Closing, Receiver, NoFaultPolled, InputWaits, MainCalm, MainGoesOn,
     Second1, First1, Alone, TimerReopens, Covers, Covered, Seen, Becomes, Becomes2
<1>12. MainCalm' /\ MainReconnects' /\ MainOpens'
  BY <1>1, <1>2, <1>3, <1>4, <1>5, <1>6 DEF MainCalm, MainGoesOn, Second1, First1, Calm, Closing,
     AskSent, AskAnswered, BufferAsks, Simple, Alone, MainReconnects, MainOpens, Seen, Becomes,
     Becomes2
<1>13. SetupCalm' /\ OneAsks' /\ Coming' /\ ChallengeComing'
  BY <1>1, <1>2, <1>3, <1>4, <1>5, <1>6 DEF SetupCalm, SetsUp, Receiver, Nested, OneAsks, InputAsks,
     QueueAsks, BufferAsks, AskSent, AskAnswered, Coming, Nets, ChallengeComing, FirstAsked, Seen,
     Becomes, Becomes2
<1>14. BothBusy' /\ TimerPolls' /\ TimerReopens' /\ TimerCalm'
  BY <1>1, <1>2, <1>3, <1>4, <1>5, <1>6 DEF BothBusy, Nets, Alone, TimerAsks, TimerPolls, Fired,
     AfterSetup, NoHarm, Reopens, Calm, Closing, First1, AskSent, AskAnswered, Simple, BufferAsks,
     Alive, TimerReopens, TimerCalm, TimerSetsUp, OldAsks, FirstAsked, Seen, Becomes, Becomes2
<1>15. StatusTold' /\ ConnectedTold' /\ MineWaits' /\ NothingAsked'
  BY <1>1, <1>2, <1>3, <1>4, <1>5, <1>6 DEF BothBusy, Nets, Alone, TimerAsks, StatusTold, Closing,
     Told, ConnectedTold, MineWaits, NothingAsked, Seen, Becomes, Becomes2
<1> QED BY <1>7, <1>8, <1>10, <1>11, <1>12, <1>13, <1>14, <1>15

\* Main: request_status of a CONNECTED link.
LEMMA CheckingMain ==
  ASSUME Sound, Good, Live, Sound', Live', Checking("main")
  PROVE  Good'
<1>1. /\ Tops /\ Covers /\ Unstuck /\ Locks /\ Queues /\ TypeOK
      /\ Unstuck' /\ Locks' /\ Queues' /\ TypeOK' /\ faults \in {0, 1} /\ faults' \in {0, 1}
  BY AllKnown
<1> USE DEF Good, Live
<1>2. /\ main # <<>> /\ Top(main) = "checking" /\ timer' = timer /\ input' = input
      /\ status' = "CHECKING" /\ Goes0(main, main')
  BY Zenon, <1>1, MainGoes, AtTop DEF Checking, Done, Sound, main, Operations
<1>3. UNCHANGED <<secure, open, polling, told, emutex, buffer, toServer, toBot, faults>>
  BY DEF Checking, Same, SameLink, linkVars, SameEngine, engineVars, SameNet, netVars, SameWorld,
     worldVars
<1>4. timer = <<>>
  BY <1>1, <1>2 DEF BothBusy, Tops, Seen
<1>5. /\ main \notin Failing /\ <<Top(main), Second(main)>> \in NextOfMain
      /\ polling /\ Second(main) \in {"ask"}
      /\ "disconnect" \in Below(main) \/ Below(main) \subseteq {"updated", "read", "ask"}
  <2>1. main \notin Failing /\ Follows(main, NextOfMain)
    BY <1>1, <1>2 DEF Tops
  <2>2. polling /\ Second(main) \in {"ask"}
    BY <1>2, <2>1 DEF Follows, NextOfMain, MainNext, FirstNext
  <2>3. "disconnect" \in Below(main) \/ Below(main) \subseteq {"updated", "read", "ask"}
    BY <1>1, <1>2, <2>1, Zenon DEF Tops, Follows, Over, Beneath, Handles, Seen
  <2> QED BY <1>2, <2>1, <2>2, <2>3 DEF Follows
<1>6. /\ Seen(main) /\ Seen(timer) /\ Seen(input) /\ Seen(main')
      /\ status' = "CHECKING" /\ Popped(main, main')
  BY <1>1, <1>2 DEF Tops, Goes0
<1>7. MainShape'
  BY <1>2, <1>3, <1>5 DEF MainShape, NextOfMain, MainNext, FirstNext, Over, Handles, Beneath,
     Operations, Goes0
<1>8. InputShape' /\ TimerShape' /\ OnlyMainNests'
  BY <1>2 DEF InputShape, TimerShape, OnlyMainNests
<1>9. Tops' /\ Covers'
  BY <1>7, <1>8, TopsKnown, CoversKnown, PTL
<1>10. NestShape' /\ JoinsClosed' /\ InputGone' /\ ConnectsClosed' /\ HolderCloses'
  BY <1>1, <1>2, <1>3, <1>4, <1>5, <1>6, <1>9 DEF NestShape, Nested, Alive, JoinsClosed, InputGone,
     Closing, ConnectsClosed, HolderCloses, Tops, Locks, Seen, Popped
<1>11. FirstLife' /\ NoFaultFirst' /\ NoFaultPolled'
  BY <1>1, <1>2, <1>3, <1>4, <1>5, <1>6 DEF FirstLife, AskSent, AskAnswered, BufferAsks, Simple,
     NoFaultFirst, Calm, Closing, Receiver, NoFaultPolled, InputWaits, Seen, Popped
<1>12. MainCalm' /\ MainReconnects' /\ MainOpens'
  BY <1>1, <1>2, <1>3, <1>4, <1>5, <1>6, <1>9 DEF NestShape, Nested, Alive, MainCalm, MainGoesOn,
     Second1, First1, Calm, Closing, AskSent, AskAnswered, BufferAsks, Simple, Alone,
     MainReconnects, MainOpens, Tops, Follows, HandlingNext, Covers, Covered, Handles, Seen, Popped
<1>13. SetupCalm' /\ OneAsks' /\ Coming' /\ ChallengeComing'
  BY <1>1, <1>2, <1>3, <1>4, <1>5, <1>6, <1>9 DEF SetupCalm, SetsUp, Receiver, Nested, OneAsks,
     InputAsks, QueueAsks, BufferAsks, AskSent, AskAnswered, Coming, Nets, ChallengeComing,
     FirstAsked, Covers, Covered, Handles, Seen, Popped
<1>14. BothBusy' /\ TimerPolls' /\ TimerReopens' /\ TimerCalm'
  BY <1>1, <1>2, <1>3, <1>4, <1>5, <1>6 DEF BothBusy, Nets, Alone, TimerAsks, TimerPolls, Fired,
     AfterSetup, NoHarm, Reopens, Calm, Closing, First1, AskSent, AskAnswered, Simple, BufferAsks,
     Alive, TimerReopens, TimerCalm, TimerSetsUp, OldAsks, FirstAsked, Seen, Popped
<1>15. StatusTold' /\ ConnectedTold' /\ MineWaits' /\ NothingAsked'
  BY <1>1, <1>2, <1>3, <1>4, <1>5, <1>6 DEF StatusTold, Closing, Told, ConnectedTold, MineWaits,
     NothingAsked, Nets, Alone, Seen, Popped
<1> QED BY <1>7, <1>8, <1>10, <1>11, <1>12, <1>13, <1>14, <1>15

\* Main: a command, when the link is DISCONNECTED.
LEMMA CommandDroppedMain ==
  ASSUME Sound, Good, Live, Sound', Live', CommandDropped("main")
  PROVE  Good'
<1>1. /\ Tops /\ Covers /\ Unstuck /\ Locks /\ Queues /\ TypeOK
      /\ Unstuck' /\ Locks' /\ Queues' /\ TypeOK' /\ faults \in {0, 1} /\ faults' \in {0, 1}
  BY AllKnown
<1> USE DEF Good, Live
<1>2. /\ main # <<>> /\ Top(main) \in {"set", "unset", "ask"} /\ timer' = timer /\ input' = input
      /\ status = "DISCONNECTED" /\ Goes0(main, main')
  BY Zenon, <1>1, MainGoes, AtTop DEF CommandDropped, Commands, Done, Sound, main, Operations, Commands
<1>3. UNCHANGED <<secure, status, open, polling, told, emutex, buffer, toServer, toBot, faults>>
  BY DEF CommandDropped, Same, SameLink, linkVars, SameEngine, engineVars, SameNet, netVars,
     SameWorld, worldVars
<1>4. timer = <<>>
  BY <1>1, <1>2 DEF BothBusy, Tops, Seen
<1>5. /\ main \notin Failing /\ <<Top(main), Second(main)>> \in NextOfMain
      /\ \/ Top(main) = "set" /\ Second(main) \in {"wait"}
         \/ Top(main) = "ask" /\ polling /\ Second(main) \in {"end", "disconnect", "updated"}
      /\ "disconnect" \in Below(main) \/ Below(main) \subseteq {"updated", "read", "wait"}
  <2>1. main \notin Failing /\ Follows(main, NextOfMain)
    BY <1>1, <1>2 DEF Tops
  <2>2. \/ Top(main) = "set" /\ Second(main) \in {"wait"}
        \/ Top(main) = "ask" /\ polling /\ Second(main) \in {"end", "disconnect", "updated"}
    BY <1>2, <2>1 DEF Follows, NextOfMain, MainNext, FirstNext
  <2>3. "disconnect" \in Below(main) \/ Below(main) \subseteq {"updated", "read", "wait"}
    BY <1>1, <1>2, <2>1, Zenon DEF Tops, Follows, Over, Beneath, Handles, Seen
  <2> QED BY <1>2, <2>1, <2>2, <2>3 DEF Follows
<1>6. /\ Seen(main) /\ Seen(timer) /\ Seen(input) /\ Seen(main')
      /\ status = "DISCONNECTED" /\ Popped(main, main')
  BY <1>1, <1>2 DEF Tops, Goes0
<1>7. MainShape'
  BY <1>2, <1>3, <1>5 DEF MainShape, NextOfMain, MainNext, FirstNext, Over, Handles, Beneath,
     Operations, Goes0
<1>8. InputShape' /\ TimerShape' /\ OnlyMainNests'
  BY <1>2 DEF InputShape, TimerShape, OnlyMainNests
<1>9. Tops' /\ Covers'
  BY <1>7, <1>8, TopsKnown, CoversKnown, PTL
<1>10. NestShape' /\ JoinsClosed' /\ InputGone' /\ ConnectsClosed' /\ HolderCloses'
  BY <1>1, <1>2, <1>3, <1>4, <1>5, <1>6, <1>9 DEF NestShape, Nested, Alive, JoinsClosed, InputGone,
     Closing, ConnectsClosed, HolderCloses, Tops, Locks, Seen, Popped
<1>11. FirstLife' /\ NoFaultFirst' /\ NoFaultPolled'
  BY <1>1, <1>2, <1>3, <1>4, <1>5, <1>6 DEF FirstLife, AskSent, AskAnswered, BufferAsks, Simple,
     NoFaultFirst, Calm, Closing, Receiver, NoFaultPolled, InputWaits, Seen, Popped
<1>12. MainCalm' /\ MainReconnects' /\ MainOpens'
  BY <1>1, <1>2, <1>3, <1>4, <1>5, <1>6, <1>9 DEF NestShape, Nested, Alive, MainCalm, MainGoesOn,
     Second1, First1, Calm, Closing, AskSent, AskAnswered, BufferAsks, Simple, Alone,
     MainReconnects, MainOpens, Tops, Follows, HandlingNext, Covers, Covered, Handles, Seen, Popped
<1>13. SetupCalm' /\ OneAsks' /\ Coming' /\ ChallengeComing'
  BY <1>1, <1>2, <1>3, <1>4, <1>5, <1>6, <1>9 DEF SetupCalm, SetsUp, Receiver, Nested, OneAsks,
     InputAsks, QueueAsks, BufferAsks, AskSent, AskAnswered, Coming, Nets, ChallengeComing,
     FirstAsked, Covers, Covered, Handles, Seen, Popped
<1>14. BothBusy' /\ TimerPolls' /\ TimerReopens' /\ TimerCalm'
  BY <1>1, <1>2, <1>3, <1>4, <1>5, <1>6 DEF BothBusy, Nets, Alone, TimerAsks, TimerPolls, Fired,
     AfterSetup, NoHarm, Reopens, Calm, Closing, First1, AskSent, AskAnswered, Simple, BufferAsks,
     Alive, TimerReopens, TimerCalm, TimerSetsUp, OldAsks, FirstAsked, Seen, Popped
<1>15. StatusTold' /\ ConnectedTold' /\ MineWaits' /\ NothingAsked'
  BY <1>1, <1>2, <1>3, <1>4, <1>5, <1>6, <1>9 DEF StatusTold, Closing, Told, ConnectedTold,
     MineWaits, NothingAsked, Nets, Alone, Covers, Covered, Handles, Seen, Popped
<1> QED BY <1>7, <1>8, <1>10, <1>11, <1>12, <1>13, <1>14, <1>15

\* Main: a command is written.
LEMMA CommandSentMain ==
  ASSUME Sound, Good, Live, Sound', Live', CommandSent("main")
  PROVE  Good'
<1>1. /\ Tops /\ Covers /\ Unstuck /\ Locks /\ Queues /\ TypeOK
      /\ Unstuck' /\ Locks' /\ Queues' /\ TypeOK' /\ faults \in {0, 1} /\ faults' \in {0, 1}
  BY AllKnown
<1> USE DEF Good, Live
<1>2. /\ main # <<>> /\ Top(main) \in {"set", "unset", "ask"} /\ timer' = timer /\ input' = input
      /\ Added(toServer, toServer', Top(main), {"ask"})
      /\ secure = "NO" /\ open /\ status # "DISCONNECTED" /\ Goes0(main, main')
  <2>1. PICK cmd \in Commands : Sending("main", cmd) /\ toServer' = Append(toServer, cmd)
    BY DEF CommandSent
  <2>2. main # <<>> /\ Top(main) = cmd /\ status # "DISCONNECTED"
    BY <1>1, <2>1, AtTop DEF Sending, Threads, main
  <2>3. Added(toServer, toServer', Top(main), {"ask"})
    BY <1>1, <2>1, <2>2, Sent
  <2> QED BY <1>1, <2>2, <2>3, MainGoes DEF CommandSent, Done, Commands
<1>3. UNCHANGED <<secure, status, open, polling, told, emutex, buffer, toBot, faults>>
  BY DEF CommandSent, Same, SameLink, linkVars, SameEngine, engineVars, SameNet, netVars, SameWorld,
     worldVars
<1>4. timer = <<>>
  BY <1>1, <1>2 DEF BothBusy, Tops, Seen
<1>5. /\ main \notin Failing /\ <<Top(main), Second(main)>> \in NextOfMain
      /\ \/ Top(main) = "set" /\ Second(main) \in {"wait"}
         \/ Top(main) = "ask" /\ polling /\ Second(main) \in {"end", "disconnect", "updated"}
      /\ "disconnect" \in Below(main) \/ Below(main) \subseteq {"updated", "read", "wait"}
  <2>1. main \notin Failing /\ Follows(main, NextOfMain)
    BY <1>1, <1>2 DEF Tops
  <2>2. \/ Top(main) = "set" /\ Second(main) \in {"wait"}
        \/ Top(main) = "ask" /\ polling /\ Second(main) \in {"end", "disconnect", "updated"}
    BY <1>2, <2>1 DEF Follows, NextOfMain, MainNext, FirstNext
  <2>3. "disconnect" \in Below(main) \/ Below(main) \subseteq {"updated", "read", "wait"}
    BY <1>1, <1>2, <2>1, Zenon DEF Tops, Follows, Over, Beneath, Handles, Seen
  <2> QED BY <1>2, <2>1, <2>2, <2>3 DEF Follows
<1>6. /\ Seen(main) /\ Seen(timer) /\ Seen(input) /\ Seen(main')
      /\ secure = "NO" /\ open /\ status # "DISCONNECTED" /\ Popped(main, main')
  BY <1>1, <1>2 DEF Tops, Goes0
<1>7. MainShape'
  BY <1>2, <1>3, <1>5 DEF MainShape, NextOfMain, MainNext, FirstNext, Over, Handles, Beneath,
     Operations, Goes0
<1>8. InputShape' /\ TimerShape' /\ OnlyMainNests'
  BY <1>2 DEF InputShape, TimerShape, OnlyMainNests
<1>9. Tops' /\ Covers'
  BY <1>7, <1>8, TopsKnown, CoversKnown, PTL
<1>10. NestShape' /\ JoinsClosed' /\ InputGone' /\ ConnectsClosed' /\ HolderCloses'
  BY <1>1, <1>2, <1>3, <1>4, <1>5, <1>6, <1>9 DEF NestShape, Nested, Alive, JoinsClosed, InputGone,
     Closing, ConnectsClosed, HolderCloses, Tops, Locks, Seen, Popped
<1>11. FirstLife' /\ NoFaultFirst' /\ NoFaultPolled'
  BY <1>1, <1>2, <1>3, <1>4, <1>5, <1>6 DEF FirstLife, AskSent, AskAnswered, BufferAsks, Simple,
     NoFaultFirst, Calm, Closing, Receiver, NoFaultPolled, InputWaits, Added, Queues, Seen, Popped
<1>12. MainCalm' /\ MainReconnects' /\ MainOpens'
  BY <1>1, <1>2, <1>3, <1>4, <1>5, <1>6 DEF MainCalm, MainGoesOn, Second1, First1, Calm, Closing,
     AskSent, AskAnswered, BufferAsks, Simple, Alone, MainReconnects, MainOpens, Added, Queues,
     Seen, Popped
<1>13. SetupCalm' /\ OneAsks' /\ Coming' /\ ChallengeComing'
  BY <1>1, <1>2, <1>3, <1>4, <1>5, <1>6, <1>9 DEF SetupCalm, SetsUp, Receiver, Nested, OneAsks,
     InputAsks, QueueAsks, BufferAsks, AskSent, AskAnswered, Coming, Nets, ChallengeComing,
     FirstAsked, Covers, Covered, Handles, Added, Queues, Seen, Popped
<1>14. BothBusy' /\ TimerPolls' /\ TimerReopens' /\ TimerCalm'
  BY <1>1, <1>2, <1>3, <1>4, <1>5, <1>6 DEF BothBusy, Nets, Alone, TimerAsks, TimerPolls, Fired,
     AfterSetup, NoHarm, Reopens, Calm, Closing, First1, AskSent, AskAnswered, Simple, BufferAsks,
     Alive, TimerReopens, TimerCalm, TimerSetsUp, OldAsks, FirstAsked, Added, Queues, Seen, Popped
<1>15. StatusTold' /\ ConnectedTold' /\ MineWaits' /\ NothingAsked'
  BY <1>1, <1>2, <1>3, <1>4, <1>5, <1>6, <1>9 DEF StatusTold, Closing, Told, ConnectedTold,
     MineWaits, NothingAsked, Nets, Alone, Covers, Covered, Handles, Added, Queues, Seen, Popped
<1> QED BY <1>7, <1>8, <1>10, <1>11, <1>12, <1>13, <1>14, <1>15

\* Main: schedule_challenged_command.
LEMMA CommandScheduledMain ==
  ASSUME Sound, Good, Live, Sound', Live', CommandScheduled("main")
  PROVE  Good'
<1>1. /\ Tops /\ Covers /\ Unstuck /\ Locks /\ Queues /\ TypeOK
      /\ Unstuck' /\ Locks' /\ Queues' /\ TypeOK' /\ faults \in {0, 1} /\ faults' \in {0, 1}
  BY AllKnown
<1> USE DEF Good, Live
<1>2. /\ main # <<>> /\ Top(main) \in {"set", "unset", "ask"} /\ timer' = timer /\ input' = input
      /\ OneMore(buffer, buffer', Top(main))
      /\ secure = "CHALLENGE" /\ emutex = "free" /\ status # "DISCONNECTED" /\
           Goes1(main, main', "getchallenge")
  <2>1. PICK cmd \in Commands :
             Sending("main", cmd) /\ buffer' = Append(buffer, [cmd |-> cmd, challenged |-> FALSE])
    BY DEF CommandScheduled
  <2>2. main # <<>> /\ Top(main) = cmd /\ status # "DISCONNECTED"
    BY <1>1, <2>1, AtTop DEF Sending, Threads, main
  <2>3. OneMore(buffer, buffer', Top(main))
    BY <1>1, <2>1, <2>2, Scheduled
  <2> QED BY Zenon, <1>1, <2>2, <2>3, MainGoes DEF CommandScheduled, EngineFree, Commands, Operations
<1>3. UNCHANGED <<secure, status, open, polling, told, emutex, toServer, toBot, faults>>
  BY DEF CommandScheduled, Same, SameLink, linkVars, SameEngine, engineVars, SameNet, netVars,
     SameWorld, worldVars
<1>4. timer = <<>>
  BY <1>1, <1>2 DEF BothBusy, Tops, Seen
<1>5. /\ main \notin Failing /\ <<Top(main), Second(main)>> \in NextOfMain
      /\ \/ Top(main) = "set" /\ Second(main) \in {"wait"}
         \/ Top(main) = "ask" /\ polling /\ Second(main) \in {"end", "disconnect", "updated"}
      /\ "disconnect" \in Below(main) \/ Below(main) \subseteq {"updated", "read", "wait"}
  <2>1. main \notin Failing /\ Follows(main, NextOfMain)
    BY <1>1, <1>2 DEF Tops
  <2>2. \/ Top(main) = "set" /\ Second(main) \in {"wait"}
        \/ Top(main) = "ask" /\ polling /\ Second(main) \in {"end", "disconnect", "updated"}
    BY <1>2, <2>1 DEF Follows, NextOfMain, MainNext, FirstNext
  <2>3. "disconnect" \in Below(main) \/ Below(main) \subseteq {"updated", "read", "wait"}
    BY <1>1, <1>2, <2>1, Zenon DEF Tops, Follows, Over, Beneath, Handles, Seen
  <2> QED BY <1>2, <2>1, <2>2, <2>3 DEF Follows
<1>6. /\ Seen(main) /\ Seen(timer) /\ Seen(input) /\ Seen(main')
      /\ secure = "CHALLENGE" /\ emutex = "free" /\ status # "DISCONNECTED" /\
           Becomes(main, main', "getchallenge")
  BY <1>1, <1>2 DEF Tops, Goes1
<1>7. MainShape'
  BY <1>2, <1>3, <1>5 DEF MainShape, NextOfMain, MainNext, FirstNext, Over, Handles, Beneath,
     Operations, Goes1
<1>8. InputShape' /\ TimerShape' /\ OnlyMainNests'
  BY <1>2 DEF InputShape, TimerShape, OnlyMainNests
<1>9. Tops' /\ Covers'
  BY <1>7, <1>8, TopsKnown, CoversKnown, PTL
<1>10. NestShape' /\ JoinsClosed' /\ InputGone' /\ ConnectsClosed' /\ HolderCloses'
  BY <1>1, <1>2, <1>3, <1>4, <1>5, <1>6, <1>9 DEF NestShape, Nested, Alive, JoinsClosed, InputGone,
     Closing, ConnectsClosed, HolderCloses, Tops, Follows, HandlingNext, Locks, OneMore, Queues,
     Seen, Becomes
<1>11. FirstLife' /\ NoFaultFirst' /\ NoFaultPolled'
  BY <1>1, <1>2, <1>3, <1>4, <1>5, <1>6 DEF FirstLife, AskSent, AskAnswered, BufferAsks, Simple,
     NoFaultFirst, Calm, Closing, Receiver, NoFaultPolled, InputWaits, OneMore, Queues, Seen,
     Becomes
<1>12. MainCalm' /\ MainReconnects' /\ MainOpens'
  BY <1>1, <1>2, <1>3, <1>4, <1>5, <1>6 DEF MainCalm, MainGoesOn, Second1, First1, Calm, Closing,
     AskSent, AskAnswered, BufferAsks, Simple, Alone, MainReconnects, MainOpens, OneMore, Queues,
     Seen, Becomes
<1>13. SetupCalm' /\ OneAsks' /\ Coming' /\ ChallengeComing'
  BY <1>1, <1>2, <1>3, <1>4, <1>5, <1>6, <1>9 DEF SetupCalm, SetsUp, Receiver, Nested, OneAsks,
     InputAsks, QueueAsks, BufferAsks, AskSent, AskAnswered, Coming, Nets, ChallengeComing,
     FirstAsked, Covers, Covered, Handles, OneMore, Queues, Seen, Becomes
<1>14. BothBusy' /\ TimerPolls' /\ TimerReopens' /\ TimerCalm'
  BY <1>1, <1>2, <1>3, <1>4, <1>5, <1>6 DEF BothBusy, Nets, Alone, TimerAsks, TimerPolls, Fired,
     AfterSetup, NoHarm, Reopens, Calm, Closing, First1, AskSent, AskAnswered, Simple, BufferAsks,
     Alive, TimerReopens, TimerCalm, TimerSetsUp, OldAsks, FirstAsked, OneMore, Queues, Seen,
     Becomes
<1>15. StatusTold' /\ ConnectedTold' /\ MineWaits' /\ NothingAsked'
  BY <1>1, <1>2, <1>3, <1>4, <1>5, <1>6 DEF StatusTold, Closing, Told, ConnectedTold, MineWaits,
     NothingAsked, Nets, Alone, OneMore, Queues, Seen, Becomes
<1> QED BY <1>7, <1>8, <1>10, <1>11, <1>12, <1>13, <1>14, <1>15

\* Main: a command is not written.
LEMMA CommandFailsMain ==
  ASSUME Sound, Good, Live, Sound', Live', CommandFails("main")
  PROVE  Good'
<1>1. /\ Tops /\ Covers /\ Unstuck /\ Locks /\ Queues /\ TypeOK
      /\ Unstuck' /\ Locks' /\ Queues' /\ TypeOK' /\ faults \in {0, 1} /\ faults' \in {0, 1}
  BY AllKnown
<1> USE DEF Good, Live
<1>2. /\ main # <<>> /\ Top(main) \in {"set", "unset", "ask"} /\ timer' = timer /\ input' = input
      /\ ((open /\ faults = 0 /\ faults' = 1) \/ (~open /\ faults' = faults))
      /\ secure = "NO" /\ status # "DISCONNECTED" /\ Goes1(main, main', "close")
  <2>1. PICK cmd \in Commands : Sending("main", cmd)
    BY DEF CommandFails
  <2>2. main # <<>> /\ Top(main) = cmd /\ status # "DISCONNECTED"
    BY <1>1, <2>1, AtTop DEF Sending, Threads, main
  <2>3. (open /\ faults = 0 /\ faults' = 1) \/ (~open /\ faults' = faults)
    BY <1>1, OneFault DEF CommandFails, SendFails, SameWorld, worldVars
  <2> QED BY Zenon, <1>1, <2>2, <2>3, MainGoes DEF CommandFails, Commands, Operations
<1>3. UNCHANGED <<secure, status, open, polling, told, emutex, buffer, toServer, toBot>>
  BY DEF CommandFails, Same, SameLink, linkVars, SameEngine, engineVars, SameNet, netVars,
     SameWorld, worldVars
<1>4. timer = <<>>
  BY <1>1, <1>2 DEF BothBusy, Tops, Seen
<1>5. /\ main \notin Failing /\ <<Top(main), Second(main)>> \in NextOfMain
      /\ \/ Top(main) = "set" /\ Second(main) \in {"wait"}
         \/ Top(main) = "ask" /\ polling /\ Second(main) \in {"end", "disconnect", "updated"}
      /\ "disconnect" \in Below(main) \/ Below(main) \subseteq {"updated", "read", "wait"}
  <2>1. main \notin Failing /\ Follows(main, NextOfMain)
    BY <1>1, <1>2 DEF Tops
  <2>2. \/ Top(main) = "set" /\ Second(main) \in {"wait"}
        \/ Top(main) = "ask" /\ polling /\ Second(main) \in {"end", "disconnect", "updated"}
    BY <1>2, <2>1 DEF Follows, NextOfMain, MainNext, FirstNext
  <2>3. "disconnect" \in Below(main) \/ Below(main) \subseteq {"updated", "read", "wait"}
    BY <1>1, <1>2, <2>1, Zenon DEF Tops, Follows, Over, Beneath, Handles, Seen
  <2> QED BY <1>2, <2>1, <2>2, <2>3 DEF Follows
<1>6. /\ Seen(main) /\ Seen(timer) /\ Seen(input) /\ Seen(main')
      /\ secure = "NO" /\ status # "DISCONNECTED" /\ Becomes(main, main', "close")
  BY <1>1, <1>2 DEF Tops, Goes1
<1>7. "disconnect" \notin Below(main) /\ (polling => Top(main) = "ask" /\ Second(main) = "end")
  BY <1>1, <1>2, <1>3, <1>4, <1>5, <1>6 DEF NestShape, Nested, NoFaultFirst, NoFaultPolled, Calm,
     Closing, MainCalm, MainGoesOn, Second1, First1, Alone, SetupCalm, SetsUp, Receiver, Seen
<1>8. MainShape'
  BY <1>2, <1>3, <1>5, <1>7 DEF MainShape, NextOfMain, MainNext, FirstNext, Over, Handles, Beneath,
     Operations, Goes1
<1>9. InputShape' /\ TimerShape' /\ OnlyMainNests'
  BY <1>2 DEF InputShape, TimerShape, OnlyMainNests
<1>10. Tops' /\ Covers'
  BY <1>8, <1>9, TopsKnown, CoversKnown, PTL
<1>11. NestShape' /\ JoinsClosed' /\ InputGone' /\ ConnectsClosed' /\ HolderCloses'
  BY <1>1, <1>2, <1>3, <1>4, <1>5, <1>7, <1>6, <1>10 DEF NestShape, Nested, Alive, JoinsClosed,
     InputGone, Closing, ConnectsClosed, HolderCloses, NoFaultFirst, Calm, Receiver, NoFaultPolled,
     InputWaits, Tops, Follows, HandlingNext, Locks, Seen, Becomes
<1>12. FirstLife' /\ NoFaultFirst' /\ NoFaultPolled'
  BY <1>1, <1>2, <1>3, <1>4, <1>5, <1>7, <1>6 DEF FirstLife, AskSent, AskAnswered, BufferAsks,
     Simple, NoFaultFirst, Calm, Closing, Receiver, NoFaultPolled, InputWaits, BothBusy, Nets,
     Alone, TimerAsks, Seen, Becomes
<1>13. MainCalm' /\ MainReconnects' /\ MainOpens'
  BY <1>1, <1>2, <1>3, <1>4, <1>5, <1>7, <1>6, <1>10 DEF NestShape, Nested, Alive, FirstLife,
     AskSent, AskAnswered, BufferAsks, Simple, NoFaultPolled, Calm, Closing, InputWaits, MainCalm,
     MainGoesOn, Second1, First1, Alone, MainReconnects, MainOpens, Tops, Follows, HandlingNext,
     Covers, Covered, Handles, Seen, Becomes
<1>14. SetupCalm' /\ OneAsks' /\ Coming' /\ ChallengeComing'
  BY <1>1, <1>2, <1>3, <1>4, <1>5, <1>7, <1>6 DEF SetupCalm, SetsUp, Receiver, Nested, OneAsks,
     InputAsks, QueueAsks, BufferAsks, AskSent, AskAnswered, Coming, Nets, ChallengeComing,
     FirstAsked, Seen, Becomes
<1>15. BothBusy' /\ TimerPolls' /\ TimerReopens' /\ TimerCalm'
  BY <1>1, <1>2, <1>3, <1>4, <1>5, <1>7, <1>6 DEF BothBusy, Nets, Alone, TimerAsks, TimerPolls,
     Fired, AfterSetup, NoHarm, Reopens, Calm, Closing, First1, AskSent, AskAnswered, Simple,
     BufferAsks, Alive, TimerReopens, TimerCalm, TimerSetsUp, OldAsks, FirstAsked, Seen, Becomes
<1>16. StatusTold' /\ ConnectedTold' /\ MineWaits' /\ NothingAsked'
  BY <1>1, <1>2, <1>3, <1>4, <1>5, <1>7, <1>6 DEF StatusTold, Closing, Told, ConnectedTold,
     MineWaits, NothingAsked, Nets, Alone, Seen, Becomes
<1> QED BY <1>8, <1>9, <1>11, <1>12, <1>13, <1>14, <1>15, <1>16

\* Main: request_challenge asks.
LEMMA GetChallengeAsksMain ==
  ASSUME Sound, Good, Live, Sound', Live', GetChallenge("main"), NeedsChallenge
  PROVE  Good'
<1>1. /\ Tops /\ Covers /\ Unstuck /\ Locks /\ Queues /\ TypeOK
      /\ Unstuck' /\ Locks' /\ Queues' /\ TypeOK' /\ faults \in {0, 1} /\ faults' \in {0, 1}
  BY AllKnown
<1> USE DEF Good, Live
<1>2. /\ main # <<>> /\ Top(main) = "getchallenge" /\ timer' = timer /\ input' = input
      /\ SameCmds(buffer, buffer', TRUE) /\ Added(toServer, toServer', "getchallenge", {"ask"})
      /\ emutex = "free" /\ NeedsChallenge /\ open /\ Goes0(main, main')
  <2>1. main # <<>> /\ Top(main) = "getchallenge" /\ emutex = "free"
    BY AtTop DEF GetChallenge, EngineFree, main
  <2>2. SameCmds(buffer, buffer', TRUE)
    BY <1>1, Challenged DEF GetChallenge, NeedsChallenge
  <2>3. Added(toServer, toServer', "getchallenge", {"ask"})
    BY <1>1, Sent DEF GetChallenge
  <2> QED BY Zenon, <1>1, <2>1, <2>2, <2>3, MainGoes DEF GetChallenge, Done, Operations
<1>3. UNCHANGED <<secure, status, open, polling, told, emutex, toBot, faults>>
  BY DEF GetChallenge, Same, SameLink, linkVars, SameEngine, engineVars, SameNet, netVars,
     SameWorld, worldVars
<1>4. timer = <<>>
  BY <1>1, <1>2 DEF BothBusy, Tops, Seen
<1>5. /\ main \notin Failing /\ <<Top(main), Second(main)>> \in NextOfMain
      /\ Second(main) \in IF polling THEN {"end", "disconnect", "updated", "wait"}
           ELSE {"disconnect", "updated", "wait"}
      /\ "disconnect" \in Below(main) \/ Below(main) \subseteq {"updated", "read", "wait"}
  <2>1. main \notin Failing /\ Follows(main, NextOfMain)
    BY <1>1, <1>2 DEF Tops
  <2>2. Second(main) \in IF polling THEN {"end", "disconnect", "updated", "wait"}
          ELSE {"disconnect", "updated", "wait"}
    BY <1>2, <2>1 DEF Follows, NextOfMain, MainNext, FirstNext
  <2>3. "disconnect" \in Below(main) \/ Below(main) \subseteq {"updated", "read", "wait"}
    BY <1>1, <1>2, <2>1, Zenon DEF Tops, Follows, Over, Beneath, Handles, Seen
  <2> QED BY <1>2, <2>1, <2>2, <2>3 DEF Follows
<1>6. /\ Seen(main) /\ Seen(timer) /\ Seen(input) /\ Seen(main')
      /\ emutex = "free" /\ NeedsChallenge /\ open /\ Popped(main, main')
  BY <1>1, <1>2 DEF Tops, Goes0
<1>7. MainShape'
  BY <1>2, <1>3, <1>5 DEF MainShape, NextOfMain, MainNext, FirstNext, Over, Handles, Beneath,
     Operations, Goes0
<1>8. InputShape' /\ TimerShape' /\ OnlyMainNests'
  BY <1>2 DEF InputShape, TimerShape, OnlyMainNests
<1>9. Tops' /\ Covers'
  BY <1>7, <1>8, TopsKnown, CoversKnown, PTL
<1>10. NestShape' /\ JoinsClosed' /\ InputGone' /\ ConnectsClosed' /\ HolderCloses'
  BY <1>1, <1>2, <1>3, <1>4, <1>5, <1>6, <1>9 DEF NestShape, Nested, Alive, JoinsClosed, InputGone,
     Closing, ConnectsClosed, HolderCloses, Tops, Locks, SameCmds, Queues, Seen, Popped
<1>11. FirstLife' /\ NoFaultFirst' /\ NoFaultPolled'
  BY <1>1, <1>2, <1>3, <1>4, <1>5, <1>6, <1>9 DEF FirstLife, AskSent, AskAnswered, BufferAsks,
     Simple, NoFaultFirst, Calm, Closing, Receiver, NoFaultPolled, InputWaits, Covers, Covered,
     Handles, Added, Queues, SameCmds, Seen, Popped
<1>12. MainCalm' /\ MainReconnects' /\ MainOpens'
  BY <1>1, <1>2, <1>3, <1>4, <1>5, <1>6, <1>9 DEF NestShape, Nested, Alive, MainCalm, MainGoesOn,
     Second1, First1, Calm, Closing, AskSent, AskAnswered, BufferAsks, Simple, Alone,
     MainReconnects, MainOpens, Tops, Covers, Covered, Handles, Added, Queues, SameCmds, Seen,
     Popped
<1>13. SetupCalm' /\ OneAsks' /\ Coming' /\ ChallengeComing'
  BY <1>1, <1>2, <1>3, <1>4, <1>5, <1>6, <1>9 DEF SetupCalm, SetsUp, Receiver, Nested, OneAsks,
     InputAsks, QueueAsks, BufferAsks, AskSent, AskAnswered, Coming, Nets, ChallengeComing,
     FirstAsked, Covers, Covered, Handles, Added, Queues, SameCmds, Seen, Popped
<1>14. BothBusy' /\ TimerPolls' /\ TimerReopens' /\ TimerCalm'
  BY <1>1, <1>2, <1>3, <1>4, <1>5, <1>6 DEF BothBusy, Nets, Alone, TimerAsks, TimerPolls, Fired,
     AfterSetup, NoHarm, Reopens, Calm, Closing, First1, AskSent, AskAnswered, Simple, BufferAsks,
     Alive, TimerReopens, TimerCalm, TimerSetsUp, OldAsks, FirstAsked, Added, Queues, SameCmds,
     Seen, Popped
<1>15. StatusTold' /\ ConnectedTold' /\ MineWaits' /\ NothingAsked'
  BY <1>1, <1>2, <1>3, <1>4, <1>5, <1>6, <1>9 DEF StatusTold, Closing, Told, ConnectedTold,
     MineWaits, NothingAsked, Nets, Alone, Covers, Covered, Handles, Added, Queues, SameCmds, Seen,
     Popped
<1> QED BY <1>7, <1>8, <1>10, <1>11, <1>12, <1>13, <1>14, <1>15

\* Main: request_challenge has nothing to ask.
LEMMA GetChallengeIdleMain ==
  ASSUME Sound, Good, Live, Sound', Live', GetChallenge("main"), ~NeedsChallenge
  PROVE  Good'
<1>1. /\ Tops /\ Covers /\ Unstuck /\ Locks /\ Queues /\ TypeOK
      /\ Unstuck' /\ Locks' /\ Queues' /\ TypeOK' /\ faults \in {0, 1} /\ faults' \in {0, 1}
  BY AllKnown
<1> USE DEF Good, Live
<1>2. /\ main # <<>> /\ Top(main) = "getchallenge" /\ timer' = timer /\ input' = input
      /\ emutex = "free" /\ ~NeedsChallenge /\ Goes0(main, main')
  BY Zenon, <1>1, MainGoes, AtTop DEF GetChallenge, EngineFree, Done, Sound, main, Operations
<1>3. UNCHANGED <<secure, status, open, polling, told, emutex, buffer, toServer, toBot, faults>>
  BY DEF GetChallenge, Same, SameLink, linkVars, SameEngine, engineVars, SameNet, netVars,
     SameWorld, worldVars, NeedsChallenge
<1>4. timer = <<>>
  BY <1>1, <1>2 DEF BothBusy, Tops, Seen
<1>5. /\ main \notin Failing /\ <<Top(main), Second(main)>> \in NextOfMain
      /\ Second(main) \in IF polling THEN {"end", "disconnect", "updated", "wait"}
           ELSE {"disconnect", "updated", "wait"}
      /\ "disconnect" \in Below(main) \/ Below(main) \subseteq {"updated", "read", "wait"}
  <2>1. main \notin Failing /\ Follows(main, NextOfMain)
    BY <1>1, <1>2 DEF Tops
  <2>2. Second(main) \in IF polling THEN {"end", "disconnect", "updated", "wait"}
          ELSE {"disconnect", "updated", "wait"}
    BY <1>2, <2>1 DEF Follows, NextOfMain, MainNext, FirstNext
  <2>3. "disconnect" \in Below(main) \/ Below(main) \subseteq {"updated", "read", "wait"}
    BY <1>1, <1>2, <2>1, Zenon DEF Tops, Follows, Over, Beneath, Handles, Seen
  <2> QED BY <1>2, <2>1, <2>2, <2>3 DEF Follows
<1>6. /\ Seen(main) /\ Seen(timer) /\ Seen(input) /\ Seen(main')
      /\ emutex = "free" /\ ~NeedsChallenge /\ Popped(main, main')
  BY <1>1, <1>2 DEF Tops, Goes0
<1>7. MainShape'
  BY <1>2, <1>3, <1>5 DEF MainShape, NextOfMain, MainNext, FirstNext, Over, Handles, Beneath,
     Operations, Goes0
<1>8. InputShape' /\ TimerShape' /\ OnlyMainNests'
  BY <1>2 DEF InputShape, TimerShape, OnlyMainNests
<1>9. Tops' /\ Covers'
  BY <1>7, <1>8, TopsKnown, CoversKnown, PTL
<1>10. NestShape' /\ JoinsClosed' /\ InputGone' /\ ConnectsClosed' /\ HolderCloses'
  BY <1>1, <1>2, <1>3, <1>4, <1>5, <1>6, <1>9 DEF NestShape, Nested, Alive, JoinsClosed, InputGone,
     Closing, ConnectsClosed, HolderCloses, Tops, Locks, Seen, Popped
<1>11. FirstLife' /\ NoFaultFirst' /\ NoFaultPolled'
  BY <1>1, <1>2, <1>3, <1>4, <1>5, <1>6, <1>9 DEF FirstLife, AskSent, AskAnswered, BufferAsks,
     Simple, NoFaultFirst, Calm, Closing, Receiver, NoFaultPolled, InputWaits, Covers, Covered,
     Handles, Seen, Popped
<1>12. MainCalm' /\ MainReconnects' /\ MainOpens'
  BY <1>1, <1>2, <1>3, <1>4, <1>5, <1>6, <1>9 DEF NestShape, Nested, Alive, MainCalm, MainGoesOn,
     Second1, First1, Calm, Closing, AskSent, AskAnswered, BufferAsks, Simple, Alone,
     MainReconnects, MainOpens, Tops, Follows, HandlingNext, Covers, Covered, Handles, Seen, Popped
<1>13. SetupCalm' /\ OneAsks' /\ Coming' /\ ChallengeComing'
  BY <1>1, <1>2, <1>3, <1>4, <1>5, <1>6, <1>9 DEF SetupCalm, SetsUp, Receiver, Nested, OneAsks,
     InputAsks, QueueAsks, BufferAsks, AskSent, AskAnswered, Coming, Nets, ChallengeComing,
     FirstAsked, Covers, Covered, Handles, Seen, Popped
<1>14. BothBusy' /\ TimerPolls' /\ TimerReopens' /\ TimerCalm'
  BY <1>1, <1>2, <1>3, <1>4, <1>5, <1>6 DEF BothBusy, Nets, Alone, TimerAsks, TimerPolls, Fired,
     AfterSetup, NoHarm, Reopens, Calm, Closing, First1, AskSent, AskAnswered, Simple, BufferAsks,
     Alive, TimerReopens, TimerCalm, TimerSetsUp, OldAsks, FirstAsked, Seen, Popped
<1>15. StatusTold' /\ ConnectedTold' /\ MineWaits' /\ NothingAsked'
  BY <1>1, <1>2, <1>3, <1>4, <1>5, <1>6, <1>9 DEF StatusTold, Closing, Told, ConnectedTold,
     MineWaits, NothingAsked, Nets, Alone, Covers, Covered, Handles, Seen, Popped
<1> QED BY <1>7, <1>8, <1>10, <1>11, <1>12, <1>13, <1>14, <1>15

\* Main: request_challenge is not written.
LEMMA GetChallengeFailsMain ==
  ASSUME Sound, Good, Live, Sound', Live', GetChallengeFails("main")
  PROVE  Good'
<1>1. /\ Tops /\ Covers /\ Unstuck /\ Locks /\ Queues /\ TypeOK
      /\ Unstuck' /\ Locks' /\ Queues' /\ TypeOK' /\ faults \in {0, 1} /\ faults' \in {0, 1}
  BY AllKnown
<1> USE DEF Good, Live
<1>2. /\ main # <<>> /\ Top(main) = "getchallenge" /\ timer' = timer /\ input' = input
      /\ ((open /\ faults = 0 /\ faults' = 1) \/ (~open /\ faults' = faults))
      /\ SameCmds(buffer, buffer', TRUE) /\ emutex' = "main"
      /\ emutex = "free" /\ NeedsChallenge /\ Goes2(main, main', "close", "release")
  <2>1. main # <<>> /\ Top(main) = "getchallenge" /\ emutex = "free"
    BY AtTop DEF GetChallengeFails, EngineFree, main
  <2>2. SameCmds(buffer, buffer', TRUE)
    BY <1>1, Challenged DEF GetChallengeFails, NeedsChallenge
  <2>3. (open /\ faults = 0 /\ faults' = 1) \/ (~open /\ faults' = faults)
    BY <1>1, OneFault DEF GetChallengeFails, SendFails, SameWorld, worldVars
  <2> QED BY Zenon, <1>1, <2>1, <2>2, <2>3, MainGoes DEF GetChallengeFails, Done, Operations
<1>3. UNCHANGED <<secure, status, open, polling, told, toServer, toBot>>
  BY DEF GetChallengeFails, Same, SameLink, linkVars, SameEngine, engineVars, SameNet, netVars,
     SameWorld, worldVars
<1>4. timer = <<>>
  BY <1>1, <1>2 DEF BothBusy, Tops, Seen
<1>5. /\ main \notin Failing /\ <<Top(main), Second(main)>> \in NextOfMain
      /\ Second(main) \in IF polling THEN {"end", "disconnect", "updated", "wait"}
           ELSE {"disconnect", "updated", "wait"}
      /\ "disconnect" \in Below(main) \/ Below(main) \subseteq {"updated", "read", "wait"}
  <2>1. main \notin Failing /\ Follows(main, NextOfMain)
    BY <1>1, <1>2 DEF Tops
  <2>2. Second(main) \in IF polling THEN {"end", "disconnect", "updated", "wait"}
          ELSE {"disconnect", "updated", "wait"}
    BY <1>2, <2>1 DEF Follows, NextOfMain, MainNext, FirstNext
  <2>3. "disconnect" \in Below(main) \/ Below(main) \subseteq {"updated", "read", "wait"}
    BY <1>1, <1>2, <2>1, Zenon DEF Tops, Follows, Over, Beneath, Handles, Seen
  <2> QED BY <1>2, <2>1, <2>2, <2>3 DEF Follows
<1>6. /\ Seen(main) /\ Seen(timer) /\ Seen(input) /\ Seen(main')
      /\ emutex = "free" /\ NeedsChallenge /\ Becomes2(main, main', "close", "release")
  BY <1>1, <1>2 DEF Tops, Goes2
<1>7. MainShape'
  BY <1>1, <1>2, <1>3, <1>5, <1>6 DEF MainShape, NextOfMain, MainNext, FirstNext, Over, Handles,
     Beneath, Operations, Goes2, NestShape, Nested, Alive, NoFaultFirst, Calm, Closing, Receiver,
     NoFaultPolled, Calm, Closing, InputWaits, MainCalm, MainGoesOn, Second1, First1, Calm, Closing,
     AskSent, AskAnswered, BufferAsks, Simple, Alone, SetupCalm, SetsUp, Receiver, Nested, Becomes2,
     Seen
<1>8. InputShape' /\ TimerShape' /\ OnlyMainNests'
  BY <1>2 DEF InputShape, TimerShape, OnlyMainNests
<1>9. Tops' /\ Covers'
  BY <1>7, <1>8, TopsKnown, CoversKnown, PTL
<1>10. NestShape' /\ JoinsClosed' /\ InputGone' /\ ConnectsClosed' /\ HolderCloses'
  BY <1>1, <1>2, <1>3, <1>4, <1>5, <1>6, <1>9 DEF NestShape, Nested, Alive, JoinsClosed, InputGone,
     Closing, ConnectsClosed, HolderCloses, NoFaultFirst, Calm, Receiver, NoFaultPolled, InputWaits,
     Tops, Follows, HandlingNext, Locks, SameCmds, Queues, Seen, Becomes2
<1>11. FirstLife' /\ NoFaultFirst' /\ NoFaultPolled'
  BY <1>1, <1>2, <1>3, <1>4, <1>5, <1>6 DEF FirstLife, AskSent, AskAnswered, BufferAsks, Simple,
     NoFaultFirst, Calm, Closing, Receiver, NoFaultPolled, InputWaits, BothBusy, Nets, Alone,
     TimerAsks, SameCmds, Queues, Seen, Becomes2
<1>12. MainCalm' /\ MainReconnects' /\ MainOpens'
  BY <1>1, <1>2, <1>3, <1>4, <1>5, <1>6, <1>9 DEF NestShape, Nested, Alive, MainCalm, MainGoesOn,
     Second1, First1, Calm, Closing, AskSent, AskAnswered, BufferAsks, Simple, Alone,
     MainReconnects, MainOpens, Tops, Follows, HandlingNext, Covers, Covered, Handles, SameCmds,
     Queues, Seen, Becomes2
<1>13. SetupCalm' /\ OneAsks' /\ Coming' /\ ChallengeComing'
  BY <1>1, <1>2, <1>3, <1>4, <1>5, <1>6 DEF SetupCalm, SetsUp, Receiver, Nested, OneAsks, InputAsks,
     QueueAsks, BufferAsks, AskSent, AskAnswered, Coming, Nets, ChallengeComing, FirstAsked,
     SameCmds, Queues, Seen, Becomes2
<1>14. BothBusy' /\ TimerPolls' /\ TimerReopens' /\ TimerCalm'
  BY <1>1, <1>2, <1>3, <1>4, <1>5, <1>6 DEF BothBusy, Nets, Alone, TimerAsks, TimerPolls, Fired,
     AfterSetup, NoHarm, Reopens, Calm, Closing, First1, AskSent, AskAnswered, Simple, BufferAsks,
     Alive, TimerReopens, TimerCalm, TimerSetsUp, OldAsks, FirstAsked, SameCmds, Queues, Seen,
     Becomes2
<1>15. StatusTold' /\ ConnectedTold' /\ MineWaits' /\ NothingAsked'
  BY <1>1, <1>2, <1>3, <1>4, <1>5, <1>6 DEF StatusTold, Closing, Told, ConnectedTold, MineWaits,
     NothingAsked, Nets, Alone, SameCmds, Queues, Seen, Becomes2
<1> QED BY <1>7, <1>8, <1>10, <1>11, <1>12, <1>13, <1>14, <1>15

\* Main: request_challenge unlocks the mutex.
LEMMA ReleaseMain ==
  ASSUME Sound, Good, Live, Sound', Live', Release("main")
  PROVE  Good'
<1>1. /\ Tops /\ Covers /\ Unstuck /\ Locks /\ Queues /\ TypeOK
      /\ Unstuck' /\ Locks' /\ Queues' /\ TypeOK' /\ faults \in {0, 1} /\ faults' \in {0, 1}
  BY AllKnown
<1> USE DEF Good, Live
<1>2. /\ main # <<>> /\ Top(main) = "release" /\ timer' = timer /\ input' = input
      /\ emutex' = "free" /\ Goes0(main, main')
  BY Zenon, <1>1, MainGoes, AtTop DEF Release, Done, Sound, main, Operations
<1>3. UNCHANGED <<secure, status, open, polling, told, buffer, toServer, toBot, faults>>
  BY DEF Release, Same, SameLink, linkVars, SameEngine, engineVars, SameNet, netVars, SameWorld,
     worldVars
<1>4. timer = <<>>
  BY <1>1, <1>2 DEF BothBusy, Tops, Seen
<1>5. /\ main \notin Failing /\ <<Top(main), Second(main)>> \in NextOfMain
      /\ Second(main) \in IF polling THEN {"end"} ELSE {"updated", "wait"}
      /\ Below(main) \subseteq {"updated", "read", "wait"}
  <2>1. main \notin Failing /\ Follows(main, NextOfMain)
    BY <1>1, <1>2 DEF Tops
  <2>2. Second(main) \in IF polling THEN {"end"} ELSE {"updated", "wait"}
    BY <1>2, <2>1 DEF Follows, NextOfMain, MainNext, FirstNext
  <2>3. Below(main) \subseteq {"updated", "read", "wait"}
    BY <1>1, <1>2, <2>1, Zenon DEF Tops, Follows, Over, Beneath, Handles, Seen
  <2> QED BY <1>2, <2>1, <2>2, <2>3 DEF Follows
<1>6. /\ Seen(main) /\ Seen(timer) /\ Seen(input) /\ Seen(main')
      /\ emutex' = "free" /\ Popped(main, main')
  BY <1>1, <1>2 DEF Tops, Goes0
<1>7. MainShape'
  BY <1>2, <1>3, <1>5 DEF MainShape, NextOfMain, MainNext, FirstNext, Over, Handles, Beneath,
     Operations, Goes0
<1>8. InputShape' /\ TimerShape' /\ OnlyMainNests'
  BY <1>2 DEF InputShape, TimerShape, OnlyMainNests
<1>9. Tops' /\ Covers'
  BY <1>7, <1>8, TopsKnown, CoversKnown, PTL
<1>10. NestShape' /\ JoinsClosed' /\ InputGone' /\ ConnectsClosed' /\ HolderCloses'
  BY <1>1, <1>2, <1>3, <1>4, <1>5, <1>6, <1>9 DEF NestShape, Nested, Alive, JoinsClosed, InputGone,
     Closing, ConnectsClosed, HolderCloses, Tops, Locks, Covers, Covered, Handles, Seen, Popped
<1>11. FirstLife' /\ NoFaultFirst' /\ NoFaultPolled'
  BY <1>1, <1>2, <1>3, <1>4, <1>5, <1>6 DEF FirstLife, AskSent, AskAnswered, BufferAsks, Simple,
     NoFaultFirst, Calm, Closing, Receiver, NoFaultPolled, InputWaits, Seen, Popped
<1>12. MainCalm' /\ MainReconnects' /\ MainOpens'
  BY <1>1, <1>2, <1>3, <1>4, <1>5, <1>6, <1>9 DEF NestShape, Nested, Alive, MainCalm, MainGoesOn,
     Second1, First1, Calm, Closing, AskSent, AskAnswered, BufferAsks, Simple, Alone,
     MainReconnects, MainOpens, Tops, Follows, HandlingNext, Covers, Covered, Handles, Seen, Popped
<1>13. SetupCalm' /\ OneAsks' /\ Coming' /\ ChallengeComing'
  BY <1>1, <1>2, <1>3, <1>4, <1>5, <1>6 DEF FirstLife, AskSent, AskAnswered, BufferAsks, Simple,
     SetupCalm, SetsUp, Receiver, Nested, OneAsks, InputAsks, QueueAsks, Coming, Nets,
     ChallengeComing, FirstAsked, Queues, Seen, Popped
<1>14. BothBusy' /\ TimerPolls' /\ TimerReopens' /\ TimerCalm'
  BY <1>1, <1>2, <1>3, <1>4, <1>5, <1>6 DEF BothBusy, Nets, Alone, TimerAsks, TimerPolls, Fired,
     AfterSetup, NoHarm, Reopens, Calm, Closing, First1, AskSent, AskAnswered, Simple, BufferAsks,
     Alive, TimerReopens, TimerCalm, TimerSetsUp, OldAsks, FirstAsked, Seen, Popped
<1>15. StatusTold' /\ ConnectedTold' /\ MineWaits' /\ NothingAsked'
  BY <1>1, <1>2, <1>3, <1>4, <1>5, <1>6, <1>9 DEF StatusTold, Closing, Told, ConnectedTold,
     MineWaits, NothingAsked, Nets, Alone, Covers, Covered, Handles, Seen, Popped
<1> QED BY <1>7, <1>8, <1>10, <1>11, <1>12, <1>13, <1>14, <1>15

\* Main: sync_read.
LEMMA SyncMain ==
  ASSUME Sound, Good, Live, Sound', Live', Sync("main")
  PROVE  Good'
<1>1. /\ Tops /\ Covers /\ Unstuck /\ Locks /\ Queues /\ TypeOK
      /\ Unstuck' /\ Locks' /\ Queues' /\ TypeOK' /\ faults \in {0, 1} /\ faults' \in {0, 1}
  BY AllKnown
<1> USE DEF Good, Live
<1>2. /\ main # <<>> /\ Top(main) = "sync" /\ timer' = timer /\ input' = input
      /\ \/ open /\ Goes1(main, main', "receiving")
         \/ ~open /\ Goes2(main, main', "close", "close")
  BY Zenon, <1>1, MainGoes, AtTop DEF Sync, Done, Sound, main, Operations
<1>3. UNCHANGED <<secure, status, open, polling, told, emutex, buffer, toServer, toBot, faults>>
  BY DEF Sync, Same, SameLink, linkVars, SameEngine, engineVars, SameNet, netVars, SameWorld,
     worldVars
<1>4. timer = <<>>
  BY <1>1, <1>2 DEF BothBusy, Tops, Seen
<1>5. /\ main \notin Failing /\ <<Top(main), Second(main)>> \in NextOfMain
      /\ Second(main) \in {"updated"}
      /\ "disconnect" \in Below(main) \/ Below(main) \subseteq {"updated", "read"}
  <2>1. main \notin Failing /\ Follows(main, NextOfMain)
    BY <1>1, <1>2 DEF Tops
  <2>2. Second(main) \in {"updated"}
    BY <1>2, <2>1 DEF Follows, NextOfMain, MainNext, FirstNext
  <2>3. "disconnect" \in Below(main) \/ Below(main) \subseteq {"updated", "read"}
    BY <1>1, <1>2, <2>1, Zenon DEF Tops, Follows, Over, Beneath, Handles, Seen
  <2> QED BY <1>2, <2>1, <2>2, <2>3 DEF Follows
<1>6. /\ Seen(main) /\ Seen(timer) /\ Seen(input) /\ Seen(main')
      /\ \/ open /\ Becomes(main, main', "receiving")
         \/ ~open /\ Becomes2(main, main', "close", "close")
  BY <1>1, <1>2 DEF Tops, Goes1, Goes2
<1>7. MainShape'
  BY <1>1, <1>2, <1>3, <1>5, <1>6 DEF MainShape, NextOfMain, MainNext, FirstNext, Over, Handles,
     Beneath, Operations, Goes1, Goes2, NestShape, Nested, Alive, SetupCalm, SetsUp, Receiver,
     Nested, Becomes, Becomes2, Seen
<1>8. InputShape' /\ TimerShape' /\ OnlyMainNests'
  BY <1>2 DEF InputShape, TimerShape, OnlyMainNests
<1>9. Tops' /\ Covers'
  BY <1>7, <1>8, TopsKnown, CoversKnown, PTL
<1>10. NestShape' /\ JoinsClosed' /\ InputGone' /\ ConnectsClosed' /\ HolderCloses'
  BY <1>1, <1>2, <1>3, <1>4, <1>5, <1>6, <1>9 DEF NestShape, Nested, Alive, JoinsClosed, InputGone,
     Closing, ConnectsClosed, HolderCloses, Tops, Follows, HandlingNext, Locks, Seen, Becomes,
     Becomes2
<1>11. FirstLife' /\ NoFaultFirst' /\ NoFaultPolled'
  BY <1>1, <1>2, <1>3, <1>4, <1>5, <1>6 DEF FirstLife, AskSent, AskAnswered, BufferAsks, Simple,
     NoFaultFirst, Calm, Closing, Receiver, NoFaultPolled, InputWaits, Seen, Becomes, Becomes2
<1>12. MainCalm' /\ MainReconnects' /\ MainOpens'
  BY <1>1, <1>2, <1>3, <1>4, <1>5, <1>6 DEF FirstLife, AskSent, AskAnswered, BufferAsks, Simple,
     MainCalm, MainGoesOn, Second1, First1, Calm, Closing, Alone, MainReconnects, MainOpens, Seen,
     Becomes, Becomes2
<1>13. SetupCalm' /\ OneAsks' /\ Coming' /\ ChallengeComing'
  BY <1>1, <1>2, <1>3, <1>4, <1>5, <1>6, <1>9 DEF NestShape, Nested, Alive, SetupCalm, SetsUp,
     Receiver, OneAsks, InputAsks, QueueAsks, BufferAsks, AskSent, AskAnswered, Coming, Nets,
     ChallengeComing, FirstAsked, Tops, Seen, Becomes, Becomes2
<1>14. BothBusy' /\ TimerPolls' /\ TimerReopens' /\ TimerCalm'
  BY <1>1, <1>2, <1>3, <1>4, <1>5, <1>6 DEF BothBusy, Nets, Alone, TimerAsks, TimerPolls, Fired,
     AfterSetup, NoHarm, Reopens, Calm, Closing, First1, AskSent, AskAnswered, Simple, BufferAsks,
     Alive, TimerReopens, TimerCalm, TimerSetsUp, OldAsks, FirstAsked, Seen, Becomes, Becomes2
<1>15. StatusTold' /\ ConnectedTold' /\ MineWaits' /\ NothingAsked'
  BY <1>1, <1>2, <1>3, <1>4, <1>5, <1>6 DEF StatusTold, Closing, Told, ConnectedTold, MineWaits,
     NothingAsked, Nets, Alone, Seen, Becomes, Becomes2
<1> QED BY <1>7, <1>8, <1>10, <1>11, <1>12, <1>13, <1>14, <1>15

\* Main: sync_read receives a datagram.
LEMMA SyncReceivesMain ==
  ASSUME Sound, Good, Live, Sound', Live', SyncReceives("main")
  PROVE  Good'
<1>1. /\ Tops /\ Covers /\ Unstuck /\ Locks /\ Queues /\ TypeOK
      /\ Unstuck' /\ Locks' /\ Queues' /\ TypeOK' /\ faults \in {0, 1} /\ faults' \in {0, 1}
  BY AllKnown
<1> USE DEF Good, Live
<1>2. /\ main # <<>> /\ Top(main) = "receiving" /\ timer' = timer /\ input' = input
      /\ open /\ Removed(toBot, toBot', {"mine", "others"}) /\ Head(toBot) \in Answers
      /\ status' = IF status = "WAITING" THEN "CONNECTING" ELSE status
      /\ \/ Head(toBot) = "ack" /\ Goes0(main, main')
         \/ Head(toBot) # "ack" /\ Goes1(main, main', Head(toBot))
  <2>1. At("main", "receiving") /\ Receive("main", Tail(todo["main"]))
    BY DEF SyncReceives
  <2>2. main # <<>> /\ Top(main) = "receiving" /\ todo["main"] = main
    BY <2>1, AtTop DEF Sound, main
  <2> QED BY <1>1, <2>1, <2>2, Receives DEF Receive, Threads, main, timer, input
<1>3. UNCHANGED <<secure, open, polling, told, emutex, buffer, toServer, faults>>
  BY DEF SyncReceives, Receive, Same, SameLink, linkVars, SameEngine, engineVars, SameNet, netVars,
     SameWorld, worldVars
<1>4. /\ main \notin Failing /\ <<Top(main), Second(main)>> \in NextOfMain
      /\ Second(main) \in {"updated"}
      /\ "disconnect" \in Below(main) \/ Below(main) \subseteq {"updated", "read"}
  <2>1. main \notin Failing /\ Follows(main, NextOfMain)
    BY <1>1, <1>2 DEF Tops
  <2>2. Second(main) \in {"updated"}
    BY <1>2, <2>1 DEF Follows, NextOfMain, MainNext, FirstNext
  <2>3. "disconnect" \in Below(main) \/ Below(main) \subseteq {"updated", "read"}
    BY <1>1, <1>2, <2>1, Zenon DEF Tops, Follows, Over, Beneath, Handles, Seen
  <2> QED BY <1>2, <2>1, <2>2, <2>3 DEF Follows
<1>5. /\ Seen(main) /\ Seen(timer) /\ Seen(input) /\ Seen(main')
      /\ \/ Head(toBot) = "ack" /\ Popped(main, main')
         \/ Head(toBot) # "ack" /\ Becomes(main, main', Head(toBot))
  BY <1>1, <1>2 DEF Tops, Goes0, Goes1
<1>6. MainShape'
  <2>1. ~polling => Head(toBot) \in {"ack", "challenge"}
    BY <1>2, <1>5 DEF FirstLife, AskAnswered, Removed, Answers
  <2>2. "disconnect" \in Below(main) => Second(main) = "updated"
    BY <1>4
  <2> QED BY <1>2, <1>3, <1>4, <2>1 DEF MainShape, NextOfMain, MainNext, FirstNext, Over, Handles,
     Beneath, Operations, Goes0, Goes1, Answers
<1>7. InputShape' /\ TimerShape' /\ OnlyMainNests'
  BY <1>2 DEF InputShape, TimerShape, OnlyMainNests
<1>8. Tops' /\ Covers'
  BY <1>6, <1>7, TopsKnown, CoversKnown, PTL
<1>9. NestShape' /\ JoinsClosed' /\ InputGone' /\ ConnectsClosed' /\ HolderCloses'
  BY <1>1, <1>2, <1>3, <1>4, <1>5, <1>8 DEF NestShape, Nested, Alive, JoinsClosed, InputGone,
     Closing, ConnectsClosed, HolderCloses, Tops, Locks, Answers, Seen, Becomes, Popped
<1>10. FirstLife' /\ NoFaultFirst' /\ NoFaultPolled'
  BY <1>1, <1>2, <1>3, <1>4, <1>5, <1>8 DEF FirstLife, AskSent, AskAnswered, BufferAsks, Simple,
     NoFaultFirst, Calm, Closing, Receiver, NoFaultPolled, InputWaits, Covers, Covered, Handles,
     Answers, Removed, Queues, Seen, Becomes, Popped
<1>11. MainCalm' /\ MainReconnects' /\ MainOpens'
  BY <1>1, <1>2, <1>3, <1>4, <1>5 DEF MainCalm, MainGoesOn, Second1, First1, Calm, Closing, AskSent,
     AskAnswered, BufferAsks, Simple, Alone, MainReconnects, MainOpens, Answers, Removed, Queues,
     Seen, Becomes, Popped
<1>12. SetupCalm' /\ OneAsks' /\ Coming' /\ ChallengeComing'
  BY <1>1, <1>2, <1>3, <1>4, <1>5, <1>8 DEF NestShape, Nested, Alive, SetupCalm, SetsUp, Receiver,
     OneAsks, InputAsks, QueueAsks, BufferAsks, AskSent, AskAnswered, Coming, Nets, ChallengeComing,
     FirstAsked, Tops, Covers, Covered, Handles, Answers, Removed, Queues, Seen, Becomes, Popped
<1>13. BothBusy' /\ TimerPolls' /\ TimerReopens' /\ TimerCalm'
  BY <1>1, <1>2, <1>3, <1>4, <1>5 DEF BothBusy, Nets, Alone, TimerAsks, TimerPolls, Fired,
     AfterSetup, NoHarm, Reopens, Calm, Closing, First1, AskSent, AskAnswered, Simple, BufferAsks,
     Alive, TimerReopens, TimerCalm, TimerSetsUp, OldAsks, FirstAsked, Answers, Removed, Queues,
     Seen, Becomes, Popped
<1>14. StatusTold' /\ ConnectedTold' /\ MineWaits' /\ NothingAsked'
  BY <1>1, <1>2, <1>3, <1>4, <1>5, <1>8 DEF FirstLife, AskSent, AskAnswered, BufferAsks, Simple,
     MainCalm, MainGoesOn, Second1, First1, Calm, Closing, Alone, BothBusy, Nets, TimerAsks,
     StatusTold, Told, ConnectedTold, MineWaits, NothingAsked, Covers, Covered, Handles, Answers,
     Removed, Queues, Seen, Becomes, Popped
<1> QED BY <1>6, <1>7, <1>9, <1>10, <1>11, <1>12, <1>13, <1>14

\* Main: sync_read is refused.
LEMMA SyncRefusedMain ==
  ASSUME Sound, Good, Live, Sound', Live', SyncRefused("main")
  PROVE  Good'
<1>1. /\ Tops /\ Covers /\ Unstuck /\ Locks /\ Queues /\ TypeOK
      /\ Unstuck' /\ Locks' /\ Queues' /\ TypeOK' /\ faults \in {0, 1} /\ faults' \in {0, 1}
  BY AllKnown
<1> USE DEF Good, Live
<1>2. /\ main # <<>> /\ Top(main) = "receiving" /\ timer' = timer /\ input' = input
      /\ open /\ faults = 0 /\ faults' = 1 /\ Goes2(main, main', "close", "close")
  BY Zenon, <1>1, MainGoes, AtTop, OneFault DEF SyncRefused, Done, Sound, main, Operations
<1>3. UNCHANGED <<secure, status, open, polling, told, emutex, buffer, toServer, toBot>>
  BY DEF SyncRefused, Same, SameLink, linkVars, SameEngine, engineVars, SameNet, netVars, SameWorld,
     worldVars
<1>4. /\ main \notin Failing /\ <<Top(main), Second(main)>> \in NextOfMain
      /\ Second(main) \in {"updated"}
      /\ "disconnect" \in Below(main) \/ Below(main) \subseteq {"updated", "read"}
  <2>1. main \notin Failing /\ Follows(main, NextOfMain)
    BY <1>1, <1>2 DEF Tops
  <2>2. Second(main) \in {"updated"}
    BY <1>2, <2>1 DEF Follows, NextOfMain, MainNext, FirstNext
  <2>3. "disconnect" \in Below(main) \/ Below(main) \subseteq {"updated", "read"}
    BY <1>1, <1>2, <2>1, Zenon DEF Tops, Follows, Over, Beneath, Handles, Seen
  <2> QED BY <1>2, <2>1, <2>2, <2>3 DEF Follows
<1>5. /\ Seen(main) /\ Seen(timer) /\ Seen(input) /\ Seen(main')
      /\ open /\ faults = 0 /\ faults' = 1 /\ Becomes2(main, main', "close", "close")
  BY <1>1, <1>2 DEF Tops, Goes2
<1>6. MainShape'
  <2>1. ~polling /\ "disconnect" \notin Below(main)
    BY <1>2, <1>5 DEF NoFaultFirst, NoFaultPolled, Calm, Closing, Seen
  <2> QED BY <1>2, <1>3, <1>4, <2>1 DEF MainShape, NextOfMain, MainNext, FirstNext, Over, Handles,
     Beneath, Operations, Goes2
<1>7. InputShape' /\ TimerShape' /\ OnlyMainNests'
  BY <1>2 DEF InputShape, TimerShape, OnlyMainNests
<1>8. Tops' /\ Covers'
  BY <1>6, <1>7, TopsKnown, CoversKnown, PTL
<1>9. NestShape' /\ JoinsClosed' /\ InputGone' /\ ConnectsClosed' /\ HolderCloses'
  BY <1>1, <1>2, <1>3, <1>4, <1>5, <1>8 DEF NestShape, Nested, Alive, JoinsClosed, InputGone,
     Closing, ConnectsClosed, HolderCloses, NoFaultFirst, Calm, Receiver, NoFaultPolled, InputWaits,
     Tops, Locks, Seen, Becomes2
<1>10. FirstLife' /\ NoFaultFirst' /\ NoFaultPolled'
  BY <1>1, <1>2, <1>3, <1>4, <1>5 DEF FirstLife, AskSent, AskAnswered, BufferAsks, Simple,
     NoFaultFirst, Calm, Closing, Receiver, NoFaultPolled, InputWaits, Seen, Becomes2
<1>11. MainCalm' /\ MainReconnects' /\ MainOpens'
  BY <1>1, <1>2, <1>3, <1>4, <1>5 DEF FirstLife, AskSent, AskAnswered, BufferAsks, Simple, MainCalm,
     MainGoesOn, Second1, First1, Calm, Closing, Alone, MainReconnects, MainOpens, Seen, Becomes2
<1>12. SetupCalm' /\ OneAsks' /\ Coming' /\ ChallengeComing'
  BY <1>1, <1>2, <1>3, <1>4, <1>5 DEF SetupCalm, SetsUp, Receiver, Nested, OneAsks, InputAsks,
     QueueAsks, BufferAsks, AskSent, AskAnswered, Coming, Nets, ChallengeComing, FirstAsked, Seen,
     Becomes2
<1>13. BothBusy' /\ TimerPolls' /\ TimerReopens' /\ TimerCalm'
  BY <1>1, <1>2, <1>3, <1>4, <1>5 DEF FirstLife, AskSent, AskAnswered, BufferAsks, Simple,
     NoFaultPolled, Calm, Closing, InputWaits, BothBusy, Nets, Alone, TimerAsks, TimerPolls, Fired,
     AfterSetup, NoHarm, Reopens, First1, Alive, TimerReopens, TimerCalm, TimerSetsUp, OldAsks,
     FirstAsked, Covers, Covered, Seen, Becomes2
<1>14. StatusTold' /\ ConnectedTold' /\ MineWaits' /\ NothingAsked'
  BY <1>1, <1>2, <1>3, <1>4, <1>5 DEF StatusTold, Closing, Told, ConnectedTold, MineWaits,
     NothingAsked, Nets, Alone, Seen, Becomes2
<1> QED BY <1>6, <1>7, <1>9, <1>10, <1>11, <1>12, <1>13, <1>14

\* Main: handle_challenge sends the first command.
LEMMA ChallengeSendsMain ==
  ASSUME Sound, Good, Live, Sound', Live', ChallengeSends("main")
  PROVE  Good'
<1>1. /\ Tops /\ Covers /\ Unstuck /\ Locks /\ Queues /\ TypeOK
      /\ Unstuck' /\ Locks' /\ Queues' /\ TypeOK' /\ faults \in {0, 1} /\ faults' \in {0, 1}
  BY AllKnown
<1> USE DEF Good, Live
<1>2. /\ main # <<>> /\ Top(main) = "challenge" /\ timer' = timer /\ input' = input
      /\ OneLess(buffer, buffer') /\ emutex = "free" /\ Head(buffer).challenged /\ open
      /\ Added(toServer, toServer', Head(buffer).cmd, {"ask"})
      /\ \/ Len(buffer) > 1 /\ Goes1(main, main', "getchallenge")
         \/ ~(Len(buffer) > 1) /\ Goes0(main, main')
  <2>1. /\ main # <<>> /\ Top(main) = "challenge" /\ emutex = "free"
        /\ Head(buffer).challenged /\ OneLess(buffer, buffer')
    BY <1>1, AtTop, SentOff DEF ChallengeSends, Challenge, EngineFree, Threads, main
  <2>2. Added(toServer, toServer', Head(buffer).cmd, {"ask"})
    BY <1>1, <2>1, Sent DEF ChallengeSends, OneLess
  <2> QED BY Zenon, <1>1, <2>1, <2>2, MainGoes DEF ChallengeSends, Operations
<1>3. UNCHANGED <<secure, status, open, polling, told, emutex, toBot, faults>>
  BY DEF ChallengeSends, Challenge, Same, SameLink, linkVars, SameEngine, engineVars, SameNet,
     netVars, SameWorld, worldVars
<1>4. timer = <<>>
  BY <1>1, <1>2 DEF BothBusy, Tops, Seen
<1>5. /\ main \notin Failing /\ <<Top(main), Second(main)>> \in NextOfMain
      /\ Second(main) \in {"disconnect", "updated"}
      /\ "disconnect" \in Below(main) \/ Below(main) \subseteq {"updated", "read"}
  <2>1. main \notin Failing /\ Follows(main, NextOfMain)
    BY <1>1, <1>2 DEF Tops
  <2>2. Second(main) \in {"disconnect", "updated"}
    BY <1>2, <2>1 DEF Follows, NextOfMain, MainNext, FirstNext
  <2>3. "disconnect" \in Below(main) \/ Below(main) \subseteq {"updated", "read"}
    BY <1>1, <1>2, <2>1, Zenon DEF Tops, Follows, Over, Beneath, Handles, Seen
  <2> QED BY <1>2, <2>1, <2>2, <2>3 DEF Follows
<1>6. /\ Seen(main) /\ Seen(timer) /\ Seen(input) /\ Seen(main')
      /\ \/ Len(buffer) > 1 /\ Becomes(main, main', "getchallenge")
         \/ ~(Len(buffer) > 1) /\ Popped(main, main')
  BY <1>1, <1>2 DEF Tops, Goes0, Goes1
<1>7. MainShape'
  BY <1>2, <1>3, <1>5 DEF MainShape, NextOfMain, MainNext, FirstNext, Over, Handles, Beneath,
     Operations, Goes0, Goes1
<1>8. InputShape' /\ TimerShape' /\ OnlyMainNests'
  BY <1>2 DEF InputShape, TimerShape, OnlyMainNests
<1>9. Tops' /\ Covers'
  BY <1>7, <1>8, TopsKnown, CoversKnown, PTL
<1>10. NestShape' /\ JoinsClosed' /\ InputGone' /\ ConnectsClosed' /\ HolderCloses'
  BY <1>1, <1>2, <1>3, <1>4, <1>5, <1>6, <1>9 DEF NestShape, Nested, Alive, JoinsClosed, InputGone,
     Closing, ConnectsClosed, HolderCloses, Tops, Locks, OneLess, Queues, Seen, Becomes, Popped
<1>11. FirstLife' /\ NoFaultFirst' /\ NoFaultPolled'
  BY <1>1, <1>2, <1>3, <1>4, <1>5, <1>6, <1>9 DEF FirstLife, AskSent, AskAnswered, BufferAsks,
     Simple, NoFaultFirst, Calm, Closing, Receiver, NoFaultPolled, InputWaits, Covers, Covered,
     Handles, Added, Queues, OneLess, Seen, Becomes, Popped
<1>12. MainCalm' /\ MainReconnects' /\ MainOpens'
  BY <1>1, <1>2, <1>3, <1>4, <1>5, <1>6, <1>9 DEF NestShape, Nested, Alive, MainCalm, MainGoesOn,
     Second1, First1, Calm, Closing, AskSent, AskAnswered, BufferAsks, Simple, Alone,
     MainReconnects, MainOpens, Tops, Covers, Covered, Handles, Added, Queues, OneLess, Seen,
     Becomes, Popped
<1>13. SetupCalm' /\ OneAsks' /\ Coming' /\ ChallengeComing'
  BY <1>1, <1>2, <1>3, <1>4, <1>5, <1>6, <1>9 DEF NestShape, Nested, Alive, SetupCalm, SetsUp,
     Receiver, OneAsks, InputAsks, QueueAsks, BufferAsks, AskSent, AskAnswered, Coming, Nets,
     ChallengeComing, FirstAsked, Tops, Covers, Covered, Handles, Added, Queues, OneLess, Seen,
     Becomes, Popped
<1>14. BothBusy' /\ TimerPolls' /\ TimerReopens' /\ TimerCalm'
  BY <1>1, <1>2, <1>3, <1>4, <1>5, <1>6 DEF BothBusy, Nets, Alone, TimerAsks, TimerPolls, Fired,
     AfterSetup, NoHarm, Reopens, Calm, Closing, First1, AskSent, AskAnswered, Simple, BufferAsks,
     Alive, TimerReopens, TimerCalm, TimerSetsUp, OldAsks, FirstAsked, Added, Queues, OneLess, Seen,
     Becomes, Popped
<1>15. StatusTold' /\ ConnectedTold' /\ MineWaits' /\ NothingAsked'
  BY <1>1, <1>2, <1>3, <1>4, <1>5, <1>6, <1>9 DEF StatusTold, Closing, Told, ConnectedTold,
     MineWaits, NothingAsked, Nets, Alone, Covers, Covered, Handles, Added, Queues, OneLess, Seen,
     Becomes, Popped
<1> QED BY <1>7, <1>8, <1>10, <1>11, <1>12, <1>13, <1>14, <1>15

\* Main: handle_challenge fails to send the first command.
LEMMA ChallengeRefusedMain ==
  ASSUME Sound, Good, Live, Sound', Live', ChallengeRefused("main")
  PROVE  Good'
<1>1. /\ Tops /\ Covers /\ Unstuck /\ Locks /\ Queues /\ TypeOK
      /\ Unstuck' /\ Locks' /\ Queues' /\ TypeOK' /\ faults \in {0, 1} /\ faults' \in {0, 1}
  BY AllKnown
<1> USE DEF Good, Live
<1>2. /\ main # <<>> /\ Top(main) = "challenge" /\ timer' = timer /\ input' = input
      /\ OneLess(buffer, buffer') /\ emutex = "free" /\ Head(buffer).challenged
      /\ ((open /\ faults = 0 /\ faults' = 1) \/ (~open /\ faults' = faults))
      /\ \/ Len(buffer) > 1 /\ Goes2(main, main', "close", "getchallenge")
         \/ ~(Len(buffer) > 1) /\ Goes1(main, main', "close")
  <2>1. /\ main # <<>> /\ Top(main) = "challenge" /\ emutex = "free"
        /\ Head(buffer).challenged /\ OneLess(buffer, buffer')
    BY <1>1, AtTop, SentOff DEF ChallengeRefused, Challenge, EngineFree, Threads, main
  <2>2. (open /\ faults = 0 /\ faults' = 1) \/ (~open /\ faults' = faults)
    BY <1>1, OneFault DEF ChallengeRefused, SendFails, SameWorld, worldVars
  <2> QED BY Zenon, <1>1, <2>1, <2>2, MainGoes DEF ChallengeRefused, Operations
<1>3. UNCHANGED <<secure, status, open, polling, told, emutex, toServer, toBot>>
  BY DEF ChallengeRefused, Challenge, Same, SameLink, linkVars, SameEngine, engineVars, SameNet,
     netVars, SameWorld, worldVars
<1>4. timer = <<>>
  BY <1>1, <1>2 DEF BothBusy, Tops, Seen
<1>5. /\ main \notin Failing /\ <<Top(main), Second(main)>> \in NextOfMain
      /\ Second(main) \in {"disconnect", "updated"}
      /\ "disconnect" \in Below(main) \/ Below(main) \subseteq {"updated", "read"}
  <2>1. main \notin Failing /\ Follows(main, NextOfMain)
    BY <1>1, <1>2 DEF Tops
  <2>2. Second(main) \in {"disconnect", "updated"}
    BY <1>2, <2>1 DEF Follows, NextOfMain, MainNext, FirstNext
  <2>3. "disconnect" \in Below(main) \/ Below(main) \subseteq {"updated", "read"}
    BY <1>1, <1>2, <2>1, Zenon DEF Tops, Follows, Over, Beneath, Handles, Seen
  <2> QED BY <1>2, <2>1, <2>2, <2>3 DEF Follows
<1>6. /\ Seen(main) /\ Seen(timer) /\ Seen(input) /\ Seen(main')
      /\ \/ Len(buffer) > 1 /\ Becomes2(main, main', "close", "getchallenge")
         \/ ~(Len(buffer) > 1) /\ Becomes(main, main', "close")
  BY <1>1, <1>2 DEF Tops, Goes1, Goes2
<1>7. "disconnect" \notin Below(main) /\ ~polling
  BY <1>1, <1>2, <1>3, <1>4, <1>5, <1>6 DEF NestShape, Nested, NoFaultFirst, NoFaultPolled, Calm,
     Closing, MainCalm, MainGoesOn, Second1, First1, Alone, SetupCalm, SetsUp, Receiver, Seen
<1>8. MainShape'
  <2>1. Second(main) = "updated"
    BY <1>5, <1>6, <1>7 DEF Seen
  <2> QED BY <1>2, <1>3, <1>5, <1>7, <2>1 DEF MainShape, NextOfMain, MainNext, FirstNext, Over,
     Handles, Beneath, Operations, Goes1, Goes2
<1>9. InputShape' /\ TimerShape' /\ OnlyMainNests'
  BY <1>2 DEF InputShape, TimerShape, OnlyMainNests
<1>10. Tops' /\ Covers'
  BY <1>8, <1>9, TopsKnown, CoversKnown, PTL
<1>11. NestShape' /\ JoinsClosed' /\ InputGone' /\ ConnectsClosed' /\ HolderCloses'
  BY <1>1, <1>2, <1>3, <1>4, <1>5, <1>7, <1>6, <1>10 DEF NestShape, Nested, Alive, JoinsClosed,
     InputGone, Closing, ConnectsClosed, HolderCloses, NoFaultFirst, Calm, Receiver, NoFaultPolled,
     InputWaits, Tops, Follows, HandlingNext, Locks, OneLess, Queues, Seen, Becomes, Becomes2
<1>12. FirstLife' /\ NoFaultFirst' /\ NoFaultPolled'
  BY <1>1, <1>2, <1>3, <1>4, <1>5, <1>7, <1>6 DEF FirstLife, AskSent, AskAnswered, BufferAsks,
     Simple, NoFaultFirst, Calm, Closing, Receiver, NoFaultPolled, InputWaits, OneLess, Queues,
     Seen, Becomes, Becomes2
<1>13. MainCalm' /\ MainReconnects' /\ MainOpens'
  BY <1>1, <1>2, <1>3, <1>4, <1>5, <1>7, <1>6, <1>10 DEF NestShape, Nested, Alive, FirstLife,
     AskSent, AskAnswered, BufferAsks, Simple, NoFaultPolled, Calm, Closing, InputWaits, MainCalm,
     MainGoesOn, Second1, First1, Alone, MainReconnects, MainOpens, Tops, Follows, HandlingNext,
     Covers, Covered, Handles, OneLess, Queues, Seen, Becomes, Becomes2
<1>14. SetupCalm' /\ OneAsks' /\ Coming' /\ ChallengeComing'
  BY <1>1, <1>2, <1>3, <1>4, <1>5, <1>7, <1>6 DEF SetupCalm, SetsUp, Receiver, Nested, OneAsks,
     InputAsks, QueueAsks, BufferAsks, AskSent, AskAnswered, Coming, Nets, ChallengeComing,
     FirstAsked, OneLess, Queues, Seen, Becomes, Becomes2
<1>15. BothBusy' /\ TimerPolls' /\ TimerReopens' /\ TimerCalm'
  BY <1>1, <1>2, <1>3, <1>4, <1>5, <1>7, <1>6 DEF BothBusy, Nets, Alone, TimerAsks, TimerPolls,
     Fired, AfterSetup, NoHarm, Reopens, Calm, Closing, First1, AskSent, AskAnswered, Simple,
     BufferAsks, Alive, TimerReopens, TimerCalm, TimerSetsUp, OldAsks, FirstAsked, OneLess, Queues,
     Seen, Becomes, Becomes2
<1>16. StatusTold' /\ ConnectedTold' /\ MineWaits' /\ NothingAsked'
  BY <1>1, <1>2, <1>3, <1>4, <1>5, <1>7, <1>6 DEF StatusTold, Closing, Told, ConnectedTold,
     MineWaits, NothingAsked, Nets, Alone, OneLess, Queues, Seen, Becomes, Becomes2
<1> QED BY <1>8, <1>9, <1>11, <1>12, <1>13, <1>14, <1>15, <1>16

\* Main: handle_challenge has nothing to send.
LEMMA ChallengeUnusedMain ==
  ASSUME Sound, Good, Live, Sound', Live', ChallengeUnused("main")
  PROVE  Good'
<1>1. /\ Tops /\ Covers /\ Unstuck /\ Locks /\ Queues /\ TypeOK
      /\ Unstuck' /\ Locks' /\ Queues' /\ TypeOK' /\ faults \in {0, 1} /\ faults' \in {0, 1}
  BY AllKnown
<1> USE DEF Good, Live
<1>2. /\ main # <<>> /\ Top(main) = "challenge" /\ timer' = timer /\ input' = input
      /\ emutex = "free"
      /\ \/ buffer = <<>> /\ Goes0(main, main')
         \/ buffer # <<>> /\ ~Head(buffer).challenged /\ Goes1(main, main', "getchallenge")
  BY Zenon, <1>1, MainGoes, AtTop DEF ChallengeUnused, EngineFree, Done, Sound, main, Operations
<1>3. UNCHANGED <<secure, status, open, polling, told, emutex, buffer, toServer, toBot, faults>>
  BY DEF ChallengeUnused, Same, SameLink, linkVars, SameEngine, engineVars, SameNet, netVars,
     SameWorld, worldVars
<1>4. timer = <<>>
  BY <1>1, <1>2 DEF BothBusy, Tops, Seen
<1>5. /\ main \notin Failing /\ <<Top(main), Second(main)>> \in NextOfMain
      /\ Second(main) \in {"disconnect", "updated"}
      /\ "disconnect" \in Below(main) \/ Below(main) \subseteq {"updated", "read"}
  <2>1. main \notin Failing /\ Follows(main, NextOfMain)
    BY <1>1, <1>2 DEF Tops
  <2>2. Second(main) \in {"disconnect", "updated"}
    BY <1>2, <2>1 DEF Follows, NextOfMain, MainNext, FirstNext
  <2>3. "disconnect" \in Below(main) \/ Below(main) \subseteq {"updated", "read"}
    BY <1>1, <1>2, <2>1, Zenon DEF Tops, Follows, Over, Beneath, Handles, Seen
  <2> QED BY <1>2, <2>1, <2>2, <2>3 DEF Follows
<1>6. /\ Seen(main) /\ Seen(timer) /\ Seen(input) /\ Seen(main')
      /\ \/ buffer = <<>> /\ Popped(main, main')
         \/ buffer # <<>> /\ ~Head(buffer).challenged /\ Becomes(main, main', "getchallenge")
  BY <1>1, <1>2 DEF Tops, Goes0, Goes1
<1>7. MainShape'
  BY <1>2, <1>3, <1>5 DEF MainShape, NextOfMain, MainNext, FirstNext, Over, Handles, Beneath,
     Operations, Goes0, Goes1
<1>8. InputShape' /\ TimerShape' /\ OnlyMainNests'
  BY <1>2 DEF InputShape, TimerShape, OnlyMainNests
<1>9. Tops' /\ Covers'
  BY <1>7, <1>8, TopsKnown, CoversKnown, PTL
<1>10. NestShape' /\ JoinsClosed' /\ InputGone' /\ ConnectsClosed' /\ HolderCloses'
  BY <1>1, <1>2, <1>3, <1>4, <1>5, <1>6, <1>9 DEF NestShape, Nested, Alive, JoinsClosed, InputGone,
     Closing, ConnectsClosed, HolderCloses, Tops, Follows, HandlingNext, Locks, Seen, Becomes,
     Popped
<1>11. FirstLife' /\ NoFaultFirst' /\ NoFaultPolled'
  BY <1>1, <1>2, <1>3, <1>4, <1>5, <1>6, <1>9 DEF FirstLife, AskSent, AskAnswered, BufferAsks,
     Simple, NoFaultFirst, Calm, Closing, Receiver, NoFaultPolled, InputWaits, Covers, Covered,
     Handles, Seen, Becomes, Popped
<1>12. MainCalm' /\ MainReconnects' /\ MainOpens'
  BY <1>1, <1>2, <1>3, <1>4, <1>5, <1>6, <1>9 DEF NestShape, Nested, Alive, MainCalm, MainGoesOn,
     Second1, First1, Calm, Closing, AskSent, AskAnswered, BufferAsks, Simple, Alone,
     MainReconnects, MainOpens, Tops, Follows, HandlingNext, Covers, Covered, Handles, Seen,
     Becomes, Popped
<1>13. SetupCalm' /\ OneAsks' /\ Coming' /\ ChallengeComing'
  BY <1>1, <1>2, <1>3, <1>4, <1>5, <1>6, <1>9 DEF NestShape, Nested, Alive, SetupCalm, SetsUp,
     Receiver, OneAsks, InputAsks, QueueAsks, BufferAsks, AskSent, AskAnswered, Coming, Nets,
     ChallengeComing, FirstAsked, Tops, Follows, HandlingNext, Covers, Covered, Handles, Seen,
     Becomes, Popped
<1>14. BothBusy' /\ TimerPolls' /\ TimerReopens' /\ TimerCalm'
  BY <1>1, <1>2, <1>3, <1>4, <1>5, <1>6 DEF BothBusy, Nets, Alone, TimerAsks, TimerPolls, Fired,
     AfterSetup, NoHarm, Reopens, Calm, Closing, First1, AskSent, AskAnswered, Simple, BufferAsks,
     Alive, TimerReopens, TimerCalm, TimerSetsUp, OldAsks, FirstAsked, Seen, Becomes, Popped
<1>15. StatusTold' /\ ConnectedTold' /\ MineWaits' /\ NothingAsked'
  BY <1>1, <1>2, <1>3, <1>4, <1>5, <1>6, <1>9 DEF StatusTold, Closing, Told, ConnectedTold,
     MineWaits, NothingAsked, Nets, Alone, Covers, Covered, Handles, Seen, Becomes, Popped
<1> QED BY <1>7, <1>8, <1>10, <1>11, <1>12, <1>13, <1>14, <1>15

\* Main: handle_challenge gets a challenge that is too old.
LEMMA ChallengeLateMain ==
  ASSUME Sound, Good, Live, Sound', Live', ChallengeLate("main")
  PROVE  Good'
<1>1. /\ Tops /\ Covers /\ Unstuck /\ Locks /\ Queues /\ TypeOK
      /\ Unstuck' /\ Locks' /\ Queues' /\ TypeOK' /\ faults \in {0, 1} /\ faults' \in {0, 1}
  BY AllKnown
<1> USE DEF Good, Live
<1>2. /\ main # <<>> /\ Top(main) = "challenge" /\ timer' = timer /\ input' = input
      /\ SameCmds(buffer, buffer', FALSE)
      /\ emutex = "free" /\ Head(buffer).challenged /\ faults = 0 /\ faults' = 1 /\
           Goes1(main, main', "getchallenge")
  BY Zenon, <1>1, MainGoes, AtTop, OneFault, Challenged DEF ChallengeLate, EngineFree, Done, Sound, main,
     Operations
<1>3. UNCHANGED <<secure, status, open, polling, told, emutex, toServer, toBot>>
  BY DEF ChallengeLate, Same, SameLink, linkVars, SameEngine, engineVars, SameNet, netVars,
     SameWorld, worldVars
<1>4. timer = <<>>
  BY <1>1, <1>2 DEF BothBusy, Tops, Seen
<1>5. /\ main \notin Failing /\ <<Top(main), Second(main)>> \in NextOfMain
      /\ Second(main) \in {"disconnect", "updated"}
      /\ "disconnect" \in Below(main) \/ Below(main) \subseteq {"updated", "read"}
  <2>1. main \notin Failing /\ Follows(main, NextOfMain)
    BY <1>1, <1>2 DEF Tops
  <2>2. Second(main) \in {"disconnect", "updated"}
    BY <1>2, <2>1 DEF Follows, NextOfMain, MainNext, FirstNext
  <2>3. "disconnect" \in Below(main) \/ Below(main) \subseteq {"updated", "read"}
    BY <1>1, <1>2, <2>1, Zenon DEF Tops, Follows, Over, Beneath, Handles, Seen
  <2> QED BY <1>2, <2>1, <2>2, <2>3 DEF Follows
<1>6. /\ Seen(main) /\ Seen(timer) /\ Seen(input) /\ Seen(main')
      /\ emutex = "free" /\ Head(buffer).challenged /\ faults = 0 /\ faults' = 1 /\
           Becomes(main, main', "getchallenge")
  BY <1>1, <1>2 DEF Tops, Goes1
<1>7. MainShape'
  BY <1>2, <1>3, <1>5 DEF MainShape, NextOfMain, MainNext, FirstNext, Over, Handles, Beneath,
     Operations, Goes1
<1>8. InputShape' /\ TimerShape' /\ OnlyMainNests'
  BY <1>2 DEF InputShape, TimerShape, OnlyMainNests
<1>9. Tops' /\ Covers'
  BY <1>7, <1>8, TopsKnown, CoversKnown, PTL
<1>10. NestShape' /\ JoinsClosed' /\ InputGone' /\ ConnectsClosed' /\ HolderCloses'
  BY <1>1, <1>2, <1>3, <1>4, <1>5, <1>6, <1>9 DEF NestShape, Nested, Alive, JoinsClosed, InputGone,
     Closing, ConnectsClosed, HolderCloses, Tops, Follows, HandlingNext, Locks, SameCmds, Queues,
     Seen, Becomes
<1>11. FirstLife' /\ NoFaultFirst' /\ NoFaultPolled'
  BY <1>1, <1>2, <1>3, <1>4, <1>5, <1>6 DEF FirstLife, AskSent, AskAnswered, BufferAsks, Simple,
     NoFaultFirst, Calm, Closing, Receiver, NoFaultPolled, InputWaits, SameCmds, Queues, Seen,
     Becomes
<1>12. MainCalm' /\ MainReconnects' /\ MainOpens'
  BY <1>1, <1>2, <1>3, <1>4, <1>5, <1>6 DEF NoFaultPolled, Calm, Closing, InputWaits, MainCalm,
     MainGoesOn, Second1, First1, AskSent, AskAnswered, BufferAsks, Simple, Alone, MainReconnects,
     MainOpens, SameCmds, Queues, Seen, Becomes
<1>13. SetupCalm' /\ OneAsks' /\ Coming' /\ ChallengeComing'
  BY <1>1, <1>2, <1>3, <1>4, <1>5, <1>6, <1>9 DEF SetupCalm, SetsUp, Receiver, Nested, OneAsks,
     InputAsks, QueueAsks, BufferAsks, AskSent, AskAnswered, Coming, Nets, ChallengeComing,
     FirstAsked, Covers, Covered, Handles, SameCmds, Queues, Seen, Becomes
<1>14. BothBusy' /\ TimerPolls' /\ TimerReopens' /\ TimerCalm'
  BY <1>1, <1>2, <1>3, <1>4, <1>5, <1>6 DEF BothBusy, Nets, Alone, TimerAsks, TimerPolls, Fired,
     AfterSetup, NoHarm, Reopens, Calm, Closing, First1, AskSent, AskAnswered, Simple, BufferAsks,
     Alive, TimerReopens, TimerCalm, TimerSetsUp, OldAsks, FirstAsked, SameCmds, Queues, Seen,
     Becomes
<1>15. StatusTold' /\ ConnectedTold' /\ MineWaits' /\ NothingAsked'
  BY <1>1, <1>2, <1>3, <1>4, <1>5, <1>6 DEF StatusTold, Closing, Told, ConnectedTold, MineWaits,
     NothingAsked, Nets, Alone, SameCmds, Queues, Seen, Becomes
<1> QED BY <1>7, <1>8, <1>10, <1>11, <1>12, <1>13, <1>14, <1>15

\* Main: handle_message is given log_dest_udp.
LEMMA HandleDestMain ==
  ASSUME Sound, Good, Live, Sound', Live', HandleDest("main")
  PROVE  Good'
<1>1. /\ Tops /\ Covers /\ Unstuck /\ Locks /\ Queues /\ TypeOK
      /\ Unstuck' /\ Locks' /\ Queues' /\ TypeOK' /\ faults \in {0, 1} /\ faults' \in {0, 1}
  BY AllKnown
<1> USE DEF Good, Live
<1>2. /\ main # <<>> /\ Top(main) \in {"mine", "others"} /\ timer' = timer /\ input' = input
      /\ \/ (Top(main) = "others" \/ ~open) /\ Goes1(main, main', "update")
         \/ Top(main) = "mine" /\ open /\ status # "CONNECTING" /\ Goes1(main, main', "connected")
         \/ Top(main) = "mine" /\ open /\ status = "CONNECTING" /\
              Goes2(main, main', "connected", "announce")
  BY Zenon, <1>1, MainGoes, AtTop DEF HandleDest, Done, Sound, main, Operations
<1>3. UNCHANGED <<secure, status, open, polling, told, emutex, buffer, toServer, toBot, faults>>
  BY DEF HandleDest, Same, SameLink, linkVars, SameEngine, engineVars, SameNet, netVars, SameWorld,
     worldVars
<1>4. timer = <<>>
  BY <1>1, <1>2 DEF BothBusy, Tops, Seen
<1>5. /\ main \notin Failing /\ <<Top(main), Second(main)>> \in NextOfMain
      /\ \/ Top(main) = "mine" /\ polling /\ Second(main) \in {"disconnect", "updated"}
         \/ Top(main) = "others" /\ polling /\ Second(main) \in {"disconnect", "updated"}
      /\ "disconnect" \in Below(main) \/ Below(main) \subseteq {"updated", "read"}
  <2>1. main \notin Failing /\ Follows(main, NextOfMain)
    BY <1>1, <1>2 DEF Tops
  <2>2. \/ Top(main) = "mine" /\ polling /\ Second(main) \in {"disconnect", "updated"}
        \/ Top(main) = "others" /\ polling /\ Second(main) \in {"disconnect", "updated"}
    BY <1>2, <2>1 DEF Follows, NextOfMain, MainNext, FirstNext
  <2>3. "disconnect" \in Below(main) \/ Below(main) \subseteq {"updated", "read"}
    BY <1>1, <1>2, <2>1, Zenon DEF Tops, Follows, Over, Beneath, Handles, Seen
  <2> QED BY <1>2, <2>1, <2>2, <2>3 DEF Follows
<1>6. /\ Seen(main) /\ Seen(timer) /\ Seen(input) /\ Seen(main')
      /\ \/ (Top(main) = "others" \/ ~open) /\ Becomes(main, main', "update")
         \/ Top(main) = "mine" /\ open /\ status # "CONNECTING" /\ Becomes(main, main', "connected")
         \/ Top(main) = "mine" /\ open /\ status = "CONNECTING" /\
              Becomes2(main, main', "connected", "announce")
  BY <1>1, <1>2 DEF Tops, Goes1, Goes2
<1>7. MainShape'
  BY <1>2, <1>3, <1>5 DEF MainShape, NextOfMain, MainNext, FirstNext, Over, Handles, Beneath,
     Operations, Goes1, Goes2
<1>8. InputShape' /\ TimerShape' /\ OnlyMainNests'
  BY <1>2 DEF InputShape, TimerShape, OnlyMainNests
<1>9. Tops' /\ Covers'
  BY <1>7, <1>8, TopsKnown, CoversKnown, PTL
<1>10. NestShape' /\ JoinsClosed' /\ InputGone' /\ ConnectsClosed' /\ HolderCloses'
  BY <1>1, <1>2, <1>3, <1>4, <1>5, <1>6, <1>9 DEF NestShape, Nested, Alive, JoinsClosed, InputGone,
     Closing, ConnectsClosed, HolderCloses, Tops, Follows, HandlingNext, Locks, Seen, Becomes,
     Becomes2
<1>11. FirstLife' /\ NoFaultFirst' /\ NoFaultPolled'
  BY <1>1, <1>2, <1>3, <1>4, <1>5, <1>6 DEF FirstLife, AskSent, AskAnswered, BufferAsks, Simple,
     NoFaultFirst, Calm, Closing, Receiver, NoFaultPolled, InputWaits, Seen, Becomes, Becomes2
<1>12. MainCalm' /\ MainReconnects' /\ MainOpens'
  BY <1>1, <1>2, <1>3, <1>4, <1>5, <1>6 DEF MainCalm, MainGoesOn, Second1, First1, Calm, Closing,
     AskSent, AskAnswered, BufferAsks, Simple, Alone, MainReconnects, MainOpens, Seen, Becomes,
     Becomes2
<1>13. SetupCalm' /\ OneAsks' /\ Coming' /\ ChallengeComing'
  BY <1>1, <1>2, <1>3, <1>4, <1>5, <1>6 DEF SetupCalm, SetsUp, Receiver, Nested, OneAsks, InputAsks,
     QueueAsks, BufferAsks, AskSent, AskAnswered, Coming, Nets, ChallengeComing, FirstAsked, Seen,
     Becomes, Becomes2
<1>14. BothBusy' /\ TimerPolls' /\ TimerReopens' /\ TimerCalm'
  BY <1>1, <1>2, <1>3, <1>4, <1>5, <1>6 DEF BothBusy, Nets, Alone, TimerAsks, TimerPolls, Fired,
     AfterSetup, NoHarm, Reopens, Calm, Closing, First1, AskSent, AskAnswered, Simple, BufferAsks,
     Alive, TimerReopens, TimerCalm, TimerSetsUp, OldAsks, FirstAsked, Seen, Becomes, Becomes2
<1>15. ConnectedTold'
  <2>1. status \in {"DISCONNECTED", "WAITING", "CONNECTING", "CHECKING", "CONNECTED"}
    BY <1>1 DEF TypeOK, Alive
  <2>2. ~Closing(timer)
    BY <1>4, <1>6 DEF Closing, Seen
  <2>3. (Closing(main) => Closing(main')) /\ (Told => Told')
    BY <1>2, <1>3, <1>6 DEF Closing, Told, Becomes, Becomes2, Seen
  <2>4. Top(main') = "connected" => open /\ (Closing(main) \/ Closing(input) \/ Told \/ Told')
    BY <1>2, <1>6, <2>1, <2>2 DEF StatusTold, MineWaits, Told, Becomes, Becomes2, Seen
  <2>5. Top(input) \in {"connected", "checking"} => ~open \/ Closing(main) \/ Closing(input) \/ Told
    BY DEF ConnectedTold
  <2>6. Top(main') \in {"update", "connected"} /\ Top(timer) = "end"
    BY <1>2, <1>4, <1>6 DEF Becomes, Becomes2, Seen
  <2> QED BY <1>2, <1>3, <2>3, <2>4, <2>5, <2>6 DEF ConnectedTold, Closing
<1>16. StatusTold' /\ MineWaits' /\ NothingAsked'
  BY <1>1, <1>2, <1>3, <1>4, <1>5, <1>6 DEF StatusTold, Closing, Told, MineWaits, NothingAsked,
     Nets, Alone, Seen, Becomes, Becomes2
<1> QED BY <1>7, <1>8, <1>10, <1>11, <1>12, <1>13, <1>14, <1>15, <1>16

\* Main: handle_message sets the link CONNECTED.
LEMMA ConnectedMain ==
  ASSUME Sound, Good, Live, Sound', Live', Connected("main")
  PROVE  Good'
<1>1. /\ Tops /\ Covers /\ Unstuck /\ Locks /\ Queues /\ TypeOK
      /\ Unstuck' /\ Locks' /\ Queues' /\ TypeOK' /\ faults \in {0, 1} /\ faults' \in {0, 1}
  BY AllKnown
<1> USE DEF Good, Live
<1>2. /\ main # <<>> /\ Top(main) = "connected" /\ timer' = timer /\ input' = input
      /\ status' = "CONNECTED" /\ Goes0(main, main')
  BY Zenon, <1>1, MainGoes, AtTop DEF Connected, Done, Sound, main, Operations
<1>3. UNCHANGED <<secure, open, polling, told, emutex, buffer, toServer, toBot, faults>>
  BY DEF Connected, Same, SameLink, linkVars, SameEngine, engineVars, SameNet, netVars, SameWorld,
     worldVars
<1>4. timer = <<>>
  BY <1>1, <1>2 DEF BothBusy, Tops, Seen
<1>5. /\ main \notin Failing /\ <<Top(main), Second(main)>> \in NextOfMain
      /\ polling /\ Second(main) \in {"disconnect", "updated", "announce"}
      /\ "disconnect" \in Below(main) \/ Below(main) \subseteq {"updated", "read", "announce"}
  <2>1. main \notin Failing /\ Follows(main, NextOfMain)
    BY <1>1, <1>2 DEF Tops
  <2>2. polling /\ Second(main) \in {"disconnect", "updated", "announce"}
    BY <1>2, <2>1 DEF Follows, NextOfMain, MainNext, FirstNext
  <2>3. "disconnect" \in Below(main) \/ Below(main) \subseteq {"updated", "read", "announce"}
    BY <1>1, <1>2, <2>1, Zenon DEF Tops, Follows, Over, Beneath, Handles, Seen
  <2> QED BY <1>2, <2>1, <2>2, <2>3 DEF Follows
<1>6. /\ Seen(main) /\ Seen(timer) /\ Seen(input) /\ Seen(main')
      /\ status' = "CONNECTED" /\ Popped(main, main')
  BY <1>1, <1>2 DEF Tops, Goes0
<1>7. MainShape'
  BY <1>2, <1>3, <1>5 DEF MainShape, NextOfMain, MainNext, FirstNext, Over, Handles, Beneath,
     Operations, Goes0
<1>8. InputShape' /\ TimerShape' /\ OnlyMainNests'
  BY <1>2 DEF InputShape, TimerShape, OnlyMainNests
<1>9. Tops' /\ Covers'
  BY <1>7, <1>8, TopsKnown, CoversKnown, PTL
<1>10. NestShape' /\ JoinsClosed' /\ InputGone' /\ ConnectsClosed' /\ HolderCloses'
  BY <1>1, <1>2, <1>3, <1>4, <1>5, <1>6, <1>9 DEF NestShape, Nested, Alive, JoinsClosed, InputGone,
     Closing, ConnectsClosed, HolderCloses, Tops, Locks, Seen, Popped
<1>11. FirstLife' /\ NoFaultFirst' /\ NoFaultPolled'
  BY <1>1, <1>2, <1>3, <1>4, <1>5, <1>6 DEF FirstLife, AskSent, AskAnswered, BufferAsks, Simple,
     NoFaultFirst, Calm, Closing, Receiver, NoFaultPolled, InputWaits, Seen, Popped
<1>12. MainCalm' /\ MainReconnects' /\ MainOpens'
  BY <1>1, <1>2, <1>3, <1>4, <1>5, <1>6, <1>9 DEF NestShape, Nested, Alive, MainCalm, MainGoesOn,
     Second1, First1, Calm, Closing, AskSent, AskAnswered, BufferAsks, Simple, Alone,
     MainReconnects, MainOpens, Tops, Follows, HandlingNext, Covers, Covered, Handles, Seen, Popped
<1>13. SetupCalm' /\ OneAsks' /\ Coming' /\ ChallengeComing'
  BY <1>1, <1>2, <1>3, <1>4, <1>5, <1>6, <1>9 DEF SetupCalm, SetsUp, Receiver, Nested, OneAsks,
     InputAsks, QueueAsks, BufferAsks, AskSent, AskAnswered, Coming, Nets, ChallengeComing,
     FirstAsked, Covers, Covered, Handles, Seen, Popped
<1>14. BothBusy' /\ TimerPolls' /\ TimerReopens' /\ TimerCalm'
  BY <1>1, <1>2, <1>3, <1>4, <1>5, <1>6 DEF BothBusy, Nets, Alone, TimerAsks, TimerPolls, Fired,
     AfterSetup, NoHarm, Reopens, Calm, Closing, First1, AskSent, AskAnswered, Simple, BufferAsks,
     Alive, TimerReopens, TimerCalm, TimerSetsUp, OldAsks, FirstAsked, Seen, Popped
<1>15. StatusTold' /\ ConnectedTold' /\ MineWaits' /\ NothingAsked'
  BY <1>1, <1>2, <1>3, <1>4, <1>5, <1>6 DEF StatusTold, Closing, Told, ConnectedTold, MineWaits,
     NothingAsked, Nets, Alone, Seen, Popped
<1> QED BY <1>7, <1>8, <1>10, <1>11, <1>12, <1>13, <1>14, <1>15

\* Main: handle_message tells the bot.
LEMMA AnnounceMain ==
  ASSUME Sound, Good, Live, Sound', Live', Announce("main")
  PROVE  Good'
<1>1. /\ Tops /\ Covers /\ Unstuck /\ Locks /\ Queues /\ TypeOK
      /\ Unstuck' /\ Locks' /\ Queues' /\ TypeOK' /\ faults \in {0, 1} /\ faults' \in {0, 1}
  BY AllKnown
<1> USE DEF Good, Live
<1>2. /\ main # <<>> /\ Top(main) = "announce" /\ timer' = timer /\ input' = input
      /\ told' = "connected" /\ Goes0(main, main')
  BY Zenon, <1>1, MainGoes, AtTop DEF Announce, Done, Sound, main, Operations
<1>3. UNCHANGED <<secure, status, open, polling, emutex, buffer, toServer, toBot, faults>>
  BY DEF Announce, Same, SameLink, linkVars, SameEngine, engineVars, SameNet, netVars, SameWorld,
     worldVars
<1>4. timer = <<>>
  BY <1>1, <1>2 DEF BothBusy, Tops, Seen
<1>5. /\ main \notin Failing /\ <<Top(main), Second(main)>> \in NextOfMain
      /\ polling /\ Second(main) \in {"disconnect", "updated"}
      /\ "disconnect" \in Below(main) \/ Below(main) \subseteq {"updated", "read"}
  <2>1. main \notin Failing /\ Follows(main, NextOfMain)
    BY <1>1, <1>2 DEF Tops
  <2>2. polling /\ Second(main) \in {"disconnect", "updated"}
    BY <1>2, <2>1 DEF Follows, NextOfMain, MainNext, FirstNext
  <2>3. "disconnect" \in Below(main) \/ Below(main) \subseteq {"updated", "read"}
    BY <1>1, <1>2, <2>1, Zenon DEF Tops, Follows, Over, Beneath, Handles, Seen
  <2> QED BY <1>2, <2>1, <2>2, <2>3 DEF Follows
<1>6. /\ Seen(main) /\ Seen(timer) /\ Seen(input) /\ Seen(main')
      /\ told' = "connected" /\ Popped(main, main')
  BY <1>1, <1>2 DEF Tops, Goes0
<1>7. MainShape'
  BY <1>2, <1>3, <1>5 DEF MainShape, NextOfMain, MainNext, FirstNext, Over, Handles, Beneath,
     Operations, Goes0
<1>8. InputShape' /\ TimerShape' /\ OnlyMainNests'
  BY <1>2 DEF InputShape, TimerShape, OnlyMainNests
<1>9. Tops' /\ Covers'
  BY <1>7, <1>8, TopsKnown, CoversKnown, PTL
<1>10. NestShape' /\ JoinsClosed' /\ InputGone' /\ ConnectsClosed' /\ HolderCloses'
  BY <1>1, <1>2, <1>3, <1>4, <1>5, <1>6, <1>9 DEF NestShape, Nested, Alive, JoinsClosed, InputGone,
     Closing, ConnectsClosed, HolderCloses, Tops, Locks, Seen, Popped
<1>11. FirstLife' /\ NoFaultFirst' /\ NoFaultPolled'
  BY <1>1, <1>2, <1>3, <1>4, <1>5, <1>6 DEF FirstLife, AskSent, AskAnswered, BufferAsks, Simple,
     NoFaultFirst, Calm, Closing, Receiver, NoFaultPolled, InputWaits, Seen, Popped
<1>12. MainCalm' /\ MainReconnects' /\ MainOpens'
  BY <1>1, <1>2, <1>3, <1>4, <1>5, <1>6, <1>9 DEF NestShape, Nested, Alive, MainCalm, MainGoesOn,
     Second1, First1, Calm, Closing, AskSent, AskAnswered, BufferAsks, Simple, Alone,
     MainReconnects, MainOpens, Tops, Follows, HandlingNext, Covers, Covered, Handles, Seen, Popped
<1>13. SetupCalm' /\ OneAsks' /\ Coming' /\ ChallengeComing'
  BY <1>1, <1>2, <1>3, <1>4, <1>5, <1>6, <1>9 DEF SetupCalm, SetsUp, Receiver, Nested, OneAsks,
     InputAsks, QueueAsks, BufferAsks, AskSent, AskAnswered, Coming, Nets, ChallengeComing,
     FirstAsked, Covers, Covered, Handles, Seen, Popped
<1>14. BothBusy' /\ TimerPolls' /\ TimerReopens' /\ TimerCalm'
  BY <1>1, <1>2, <1>3, <1>4, <1>5, <1>6 DEF BothBusy, Nets, Alone, TimerAsks, TimerPolls, Fired,
     AfterSetup, NoHarm, Reopens, Calm, Closing, First1, AskSent, AskAnswered, Simple, BufferAsks,
     Alive, TimerReopens, TimerCalm, TimerSetsUp, OldAsks, FirstAsked, Seen, Popped
<1>15. StatusTold' /\ ConnectedTold' /\ MineWaits' /\ NothingAsked'
  BY <1>1, <1>2, <1>3, <1>4, <1>5, <1>6, <1>9 DEF StatusTold, Closing, Told, ConnectedTold,
     MineWaits, NothingAsked, Nets, Alone, Covers, Covered, Handles, Seen, Popped
<1> QED BY <1>7, <1>8, <1>10, <1>11, <1>12, <1>13, <1>14, <1>15

\* Main: close_connection tells the bot.
LEMMA CloseMain ==
  ASSUME Sound, Good, Live, Sound', Live', Close("main")
  PROVE  Good'
<1>1. /\ Tops /\ Covers /\ Unstuck /\ Locks /\ Queues /\ TypeOK
      /\ Unstuck' /\ Locks' /\ Queues' /\ TypeOK' /\ faults \in {0, 1} /\ faults' \in {0, 1}
  BY AllKnown
<1> USE DEF Good, Live
<1>2. /\ main # <<>> /\ Top(main) = "close" /\ timer' = timer /\ input' = input
      /\ told' = (IF status \in {"CHECKING", "CONNECTED"} THEN "disconnected" ELSE told) /\
           Goes1(main, main', "closed")
  BY Zenon, <1>1, MainGoes, AtTop DEF Close, Done, Sound, main, Operations
<1>3. UNCHANGED <<secure, status, open, polling, emutex, buffer, toServer, toBot, faults>>
  BY DEF Close, Same, SameLink, linkVars, SameEngine, engineVars, SameNet, netVars, SameWorld,
     worldVars
<1>4. timer = <<>>
  BY <1>1, <1>2 DEF BothBusy, Tops, Seen
<1>5. IF main \in Failing
      THEN Second(main) = "disconnect" /\ Below(main) = {"disconnect", "join"} /\ ~open
      ELSE /\ <<Top(main), Second(main)>> \in NextOfMain
           /\ Second(main) \in IF polling THEN {"end", "connect", "release"}
                ELSE {"close", "getchallenge", "release", "updated", "wait"}
           /\ Below(main) \subseteq {"updated", "read", "close", "connect", "join", "getchallenge",
                "release", "wait"}
  BY Zenon, <1>1, <1>2 DEF Tops, Follows, NextOfMain, MainNext, FirstNext, Over, Beneath, Handles, Seen,
     NestShape, Nested
<1>6. /\ Seen(main) /\ Seen(timer) /\ Seen(input) /\ Seen(main')
      /\ told' = (IF status \in {"CHECKING", "CONNECTED"} THEN "disconnected" ELSE told) /\
           Becomes(main, main', "closed")
  BY <1>1, <1>2 DEF Tops, Goes1
<1>7. MainShape' /\ (main \in Failing => main' \in Failing)
  <2>1. CASE main \in Failing
    BY <1>1, <2>1, Fails DEF Close, MainShape
  <2>2. CASE main \notin Failing
    BY <1>2, <1>3, <1>5, <2>2 DEF MainShape, NextOfMain, MainNext, FirstNext, Over, Handles,
       Beneath, Operations, Goes1
  <2> QED BY <2>1, <2>2
<1>8. InputShape' /\ TimerShape' /\ OnlyMainNests'
  BY <1>2 DEF InputShape, TimerShape, OnlyMainNests
<1>9. Tops' /\ Covers'
  BY <1>7, <1>8, TopsKnown, CoversKnown, PTL
<1>10. NestShape' /\ JoinsClosed' /\ InputGone' /\ ConnectsClosed' /\ HolderCloses'
  BY <1>1, <1>2, <1>3, <1>4, <1>5, <1>7, <1>6, <1>9 DEF NestShape, Nested, Alive, JoinsClosed,
     InputGone, Closing, ConnectsClosed, HolderCloses, Tops, Locks, Seen, Becomes
<1>11. FirstLife' /\ NoFaultFirst' /\ NoFaultPolled'
  BY <1>1, <1>2, <1>3, <1>4, <1>5, <1>7, <1>6 DEF FirstLife, AskSent, AskAnswered, BufferAsks,
     Simple, NoFaultFirst, Calm, Closing, Receiver, NoFaultPolled, InputWaits, Seen, Becomes
<1>12. MainCalm' /\ MainReconnects' /\ MainOpens'
  BY <1>1, <1>2, <1>3, <1>4, <1>5, <1>7, <1>6 DEF MainCalm, MainGoesOn, Second1, First1, Calm,
     Closing, AskSent, AskAnswered, BufferAsks, Simple, Alone, MainReconnects, MainOpens, Seen,
     Becomes
<1>13. SetupCalm' /\ OneAsks' /\ Coming' /\ ChallengeComing'
  BY <1>1, <1>2, <1>3, <1>4, <1>5, <1>7, <1>6 DEF SetupCalm, SetsUp, Receiver, Nested, OneAsks,
     InputAsks, QueueAsks, BufferAsks, AskSent, AskAnswered, Coming, Nets, ChallengeComing,
     FirstAsked, Seen, Becomes
<1>14. BothBusy' /\ TimerPolls' /\ TimerReopens' /\ TimerCalm'
  BY <1>1, <1>2, <1>3, <1>4, <1>5, <1>7, <1>6 DEF BothBusy, Nets, Alone, TimerAsks, TimerPolls,
     Fired, AfterSetup, NoHarm, Reopens, Calm, Closing, First1, AskSent, AskAnswered, Simple,
     BufferAsks, Alive, TimerReopens, TimerCalm, TimerSetsUp, OldAsks, FirstAsked, Seen, Becomes
<1>15. StatusTold' /\ ConnectedTold' /\ MineWaits' /\ NothingAsked'
  BY <1>1, <1>2, <1>3, <1>4, <1>5, <1>7, <1>6 DEF StatusTold, Closing, Told, ConnectedTold,
     MineWaits, NothingAsked, Nets, Alone, Seen, Becomes
<1> QED BY <1>7, <1>8, <1>10, <1>11, <1>12, <1>13, <1>14, <1>15

\* Main: close_connection sets the link DISCONNECTED.
LEMMA ClosedMain ==
  ASSUME Sound, Good, Live, Sound', Live', Closed("main")
  PROVE  Good'
<1>1. /\ Tops /\ Covers /\ Unstuck /\ Locks /\ Queues /\ TypeOK
      /\ Unstuck' /\ Locks' /\ Queues' /\ TypeOK' /\ faults \in {0, 1} /\ faults' \in {0, 1}
  BY AllKnown
<1> USE DEF Good, Live
<1>2. /\ main # <<>> /\ Top(main) = "closed" /\ timer' = timer /\ input' = input
      /\ status' = "DISCONNECTED"
      /\ \/ open /\ Goes2(main, main', "disconnect", "join")
         \/ ~open /\ Goes0(main, main')
  BY Zenon, <1>1, MainGoes, AtTop DEF Closed, Done, Sound, main, Operations
<1>3. UNCHANGED <<secure, open, polling, told, emutex, buffer, toServer, toBot, faults>>
  BY DEF Closed, Same, SameLink, linkVars, SameEngine, engineVars, SameNet, netVars, SameWorld,
     worldVars
<1>4. timer = <<>>
  BY <1>1, <1>2 DEF BothBusy, Tops, Seen
<1>5. IF main \in Failing
      THEN Second(main) = "disconnect" /\ Below(main) = {"disconnect", "join"} /\ ~open
      ELSE /\ <<Top(main), Second(main)>> \in NextOfMain
           /\ Second(main) \in IF polling THEN {"end", "connect", "release"}
                ELSE {"close", "getchallenge", "release", "updated", "wait"}
           /\ Below(main) \subseteq {"updated", "read", "close", "connect", "join", "getchallenge",
                "release", "wait"}
  BY Zenon, <1>1, <1>2 DEF Tops, Follows, NextOfMain, MainNext, FirstNext, Over, Beneath, Handles, Seen,
     NestShape, Nested
<1>6. /\ Seen(main) /\ Seen(timer) /\ Seen(input) /\ Seen(main')
      /\ \/ open /\ Becomes2(main, main', "disconnect", "join")
         \/ ~open /\ Popped(main, main')
  BY <1>1, <1>2 DEF Tops, Goes0, Goes2
<1>7. MainShape' /\ (main \in Failing => Second(main') = "join" /\ Below(main') = {"join"})
  <2>1. CASE main \in Failing
    <3>1. Do("main", <<>>)
      BY <1>5, <2>1 DEF Closed
    <3>2. <<"join", "end">> \in NextOfMain' /\ <<"disconnect", "join">> \in NextOfMain'
      BY DEF NextOfMain, MainNext, FirstNext
    <3> QED BY <1>1, <2>1, <3>1, <3>2, Fails DEF MainShape
  <2>2. CASE main \notin Failing
    BY <1>1, <1>2, <1>3, <1>5, <1>6, <2>2 DEF MainShape, NextOfMain, MainNext, FirstNext, Over,
       Handles, Beneath, Operations, Goes0, Goes2, Unstuck, Leaves, Becomes2, Seen
  <2> QED BY <2>1, <2>2
<1>8. InputShape' /\ TimerShape' /\ OnlyMainNests'
  BY <1>2 DEF InputShape, TimerShape, OnlyMainNests
<1>9. Tops' /\ Covers'
  BY <1>7, <1>8, TopsKnown, CoversKnown, PTL
<1>10. NestShape' /\ JoinsClosed' /\ InputGone' /\ ConnectsClosed' /\ HolderCloses'
  BY <1>1, <1>2, <1>3, <1>4, <1>5, <1>7, <1>6, <1>9 DEF NestShape, Nested, Alive, JoinsClosed,
     InputGone, Closing, ConnectsClosed, HolderCloses, Tops, Follows, HandlingNext, Unstuck, Leaves,
     Closes, Locks, Covers, Covered, Handles, Seen, Becomes2, Popped
<1>11. FirstLife' /\ NoFaultFirst' /\ NoFaultPolled'
  BY <1>1, <1>2, <1>3, <1>4, <1>5, <1>7, <1>6 DEF FirstLife, AskSent, AskAnswered, BufferAsks,
     Simple, NoFaultFirst, Calm, Closing, Receiver, NoFaultPolled, InputWaits, Seen, Becomes2,
     Popped
<1>12. MainCalm' /\ MainReconnects' /\ MainOpens'
  BY <1>1, <1>2, <1>3, <1>4, <1>5, <1>7, <1>6, <1>9 DEF NestShape, Nested, Alive, MainCalm,
     MainGoesOn, Second1, First1, Calm, Closing, AskSent, AskAnswered, BufferAsks, Simple, Alone,
     MainReconnects, MainOpens, Tops, Follows, HandlingNext, Covers, Covered, Handles, Seen,
     Becomes2, Popped
<1>13. SetupCalm' /\ OneAsks' /\ Coming' /\ ChallengeComing'
  BY <1>1, <1>2, <1>3, <1>4, <1>5, <1>7, <1>6 DEF FirstLife, AskSent, AskAnswered, BufferAsks,
     Simple, SetupCalm, SetsUp, Receiver, Nested, OneAsks, InputAsks, QueueAsks, Coming, Nets,
     ChallengeComing, FirstAsked, Unstuck, Leaves, Closes, Queues, Seen, Becomes2, Popped
<1>14. BothBusy' /\ TimerPolls' /\ TimerReopens' /\ TimerCalm'
  BY <1>1, <1>2, <1>3, <1>4, <1>5, <1>7, <1>6 DEF BothBusy, Nets, Alone, TimerAsks, TimerPolls,
     Fired, AfterSetup, NoHarm, Reopens, Calm, Closing, First1, AskSent, AskAnswered, Simple,
     BufferAsks, Alive, TimerReopens, TimerCalm, TimerSetsUp, OldAsks, FirstAsked, Seen, Becomes2,
     Popped
<1>15. StatusTold' /\ ConnectedTold' /\ MineWaits' /\ NothingAsked'
  BY <1>1, <1>2, <1>3, <1>4, <1>5, <1>7, <1>6 DEF StatusTold, Closing, Told, ConnectedTold,
     MineWaits, NothingAsked, Nets, Alone, Seen, Becomes2, Popped
<1> QED BY <1>7, <1>8, <1>10, <1>11, <1>12, <1>13, <1>14, <1>15

\* Main: UdpIo::disconnect handles a datagram that has arrived.
LEMMA IoPollMain ==
  ASSUME Sound, Good, Live, Sound', Live', IoPoll("main")
  PROVE  Good'
<1>1. /\ Tops /\ Covers /\ Unstuck /\ Locks /\ Queues /\ TypeOK
      /\ Unstuck' /\ Locks' /\ Queues' /\ TypeOK' /\ faults \in {0, 1} /\ faults' \in {0, 1}
  BY AllKnown
<1> USE DEF Good, Live
<1>2. /\ main # <<>> /\ Top(main) = "disconnect" /\ timer' = timer /\ input' = input
      /\ Top(input) = "read" /\ ~Nested
      /\ open /\ Removed(toBot, toBot', {"mine", "others"}) /\ Head(toBot) \in Answers
      /\ status' = IF status = "WAITING" THEN "CONNECTING" ELSE status
      /\ \/ Head(toBot) = "ack" /\ main' = main
         \/ Head(toBot) # "ack" /\ Adds(main, main', Head(toBot))
  <2>1. At("main", "disconnect") /\ Receive("main", todo["main"]) /\ ReadScheduled
    BY DEF IoPoll
  <2>2. main # <<>> /\ Top(main) = "disconnect" /\ todo["main"] = main
    BY <2>1, AtTop DEF Sound, main
  <2>3. Top(input) = "read" /\ ~Nested
    BY <1>1, <2>1, Reading DEF Nested
  <2> QED BY <1>1, <2>1, <2>2, <2>3, ReceivesOn DEF Receive, Threads, main, timer, input
<1>3. UNCHANGED <<secure, open, polling, told, emutex, buffer, toServer, faults>>
  BY DEF IoPoll, Receive, Same, SameLink, linkVars, SameEngine, engineVars, SameNet, netVars,
     SameWorld, worldVars
<1>4. timer = <<>>
  BY <1>1, <1>2 DEF BothBusy, Tops, Seen
<1>5. /\ main \notin Failing /\ <<Top(main), Second(main)>> \in NextOfMain
      /\ Second(main) \in {"join"}
      /\ Below(main) \subseteq {"updated", "read", "close", "connect", "join", "getchallenge",
           "release", "wait"}
  <2>1. main \notin Failing /\ Follows(main, NextOfMain)
    BY <1>1, <1>2 DEF Tops
  <2>2. Second(main) \in {"join"}
    BY <1>2, <2>1 DEF Follows, NextOfMain, MainNext, FirstNext
  <2>3. Below(main) \subseteq {"updated", "read", "close", "connect", "join", "getchallenge",
          "release", "wait"}
    BY <1>1, <1>2, <2>1, Zenon DEF Tops, Follows, Over, Beneath, Handles, Seen
  <2> QED BY <1>2, <2>1, <2>2, <2>3 DEF Follows
<1>6. /\ Seen(main) /\ Seen(timer) /\ Seen(input) /\ Seen(main')
      /\ \/ Head(toBot) = "ack" /\ main' = main
         \/ Head(toBot) # "ack" /\ Pushed(main, main', Head(toBot))
  BY <1>1, <1>2 DEF Tops, Adds
<1>7. MainShape'
  <2>1. ~polling => Head(toBot) \in {"ack", "challenge"}
    BY <1>2, <1>6 DEF FirstLife, AskAnswered, Removed, Answers
  <2>2. "disconnect" \in Elems(main) /\ main \notin Failing
    BY <1>2, <1>5, <1>6 DEF Seen
  <2>3. Head(toBot) # "ack" => Over(Head(toBot), Elems(main)) /\
          <<Head(toBot), "disconnect">> \in NextOfMain
    BY <1>2, <2>1, <2>2 DEF Over, Handles, Answers, NextOfMain, MainNext, FirstNext
  <2> QED BY <1>2, <1>3, <2>2, <2>3 DEF MainShape, NextOfMain, Adds
<1>8. InputShape' /\ TimerShape' /\ OnlyMainNests'
  BY <1>2 DEF InputShape, TimerShape, OnlyMainNests
<1>9. Tops' /\ Covers'
  BY <1>7, <1>8, TopsKnown, CoversKnown, PTL
<1>10. NestShape' /\ JoinsClosed' /\ InputGone' /\ ConnectsClosed' /\ HolderCloses'
  BY <1>1, <1>2, <1>3, <1>4, <1>5, <1>6, <1>9 DEF NestShape, Nested, Alive, JoinsClosed, InputGone,
     Closing, ConnectsClosed, HolderCloses, Tops, Unstuck, Leaves, Closes, Locks, Answers, Seen,
     Pushed
<1>11. FirstLife' /\ NoFaultFirst' /\ NoFaultPolled'
  BY <1>1, <1>2, <1>3, <1>4, <1>5, <1>6 DEF FirstLife, AskSent, AskAnswered, BufferAsks, Simple,
     NoFaultFirst, Calm, Closing, Receiver, NoFaultPolled, InputWaits, Answers, Removed, Queues,
     Seen, Pushed
<1>12. MainCalm' /\ MainReconnects' /\ MainOpens'
  BY <1>1, <1>2, <1>3, <1>4, <1>5, <1>6 DEF NoFaultPolled, Calm, Closing, InputWaits, MainCalm,
     MainGoesOn, Second1, First1, AskSent, AskAnswered, BufferAsks, Simple, Alone, MainReconnects,
     MainOpens, Covers, Covered, Answers, Removed, Queues, Seen, Pushed
<1>13. SetupCalm' /\ OneAsks' /\ Coming' /\ ChallengeComing'
  BY <1>1, <1>2, <1>3, <1>4, <1>5, <1>6 DEF SetupCalm, SetsUp, Receiver, Nested, OneAsks, InputAsks,
     QueueAsks, BufferAsks, AskSent, AskAnswered, Coming, Nets, ChallengeComing, FirstAsked,
     Answers, Removed, Queues, Seen, Pushed
<1>14. BothBusy' /\ TimerPolls' /\ TimerReopens' /\ TimerCalm'
  BY <1>1, <1>2, <1>3, <1>4, <1>5, <1>6 DEF BothBusy, Nets, Alone, TimerAsks, TimerPolls, Fired,
     AfterSetup, NoHarm, Reopens, Calm, Closing, First1, AskSent, AskAnswered, Simple, BufferAsks,
     Alive, TimerReopens, TimerCalm, TimerSetsUp, OldAsks, FirstAsked, Answers, Removed, Queues,
     Seen, Pushed
<1>15. StatusTold' /\ ConnectedTold' /\ MineWaits' /\ NothingAsked'
  BY <1>1, <1>2, <1>3, <1>4, <1>5, <1>6 DEF StatusTold, Closing, Told, ConnectedTold, MineWaits,
     NothingAsked, Nets, Alone, Answers, Removed, Queues, Seen, Pushed
<1> QED BY <1>7, <1>8, <1>10, <1>11, <1>12, <1>13, <1>14, <1>15

\* Main: UdpIo::disconnect closes the socket.
LEMMA IoCloseMain ==
  ASSUME Sound, Good, Live, Sound', Live', IoClose("main")
  PROVE  Good'
<1>1. /\ Tops /\ Covers /\ Unstuck /\ Locks /\ Queues /\ TypeOK
      /\ Unstuck' /\ Locks' /\ Queues' /\ TypeOK' /\ faults \in {0, 1} /\ faults' \in {0, 1}
  BY AllKnown
<1> USE DEF Good, Live
<1>2. /\ main # <<>> /\ Top(main) = "disconnect" /\ timer' = timer /\ input' = input
      /\ open' = FALSE /\ toBot' = <<>> /\ Goes0(main, main')
  BY Zenon, <1>1, MainGoes, AtTop DEF IoClose, Done, Sound, main, Operations
<1>3. UNCHANGED <<secure, status, polling, told, emutex, buffer, toServer, faults>>
  BY DEF IoClose, Same, SameLink, linkVars, SameEngine, engineVars, SameNet, netVars, SameWorld,
     worldVars
<1>4. timer = <<>>
  BY <1>1, <1>2 DEF BothBusy, Tops, Seen
<1>5. /\ main \notin Failing /\ <<Top(main), Second(main)>> \in NextOfMain
      /\ Second(main) \in {"join"}
      /\ Below(main) \subseteq {"updated", "read", "close", "connect", "join", "getchallenge",
           "release", "wait"}
  <2>1. main \notin Failing /\ Follows(main, NextOfMain)
    BY <1>1, <1>2 DEF Tops
  <2>2. Second(main) \in {"join"}
    BY <1>2, <2>1 DEF Follows, NextOfMain, MainNext, FirstNext
  <2>3. Below(main) \subseteq {"updated", "read", "close", "connect", "join", "getchallenge",
          "release", "wait"}
    BY <1>1, <1>2, <2>1, Zenon DEF Tops, Follows, Over, Beneath, Handles, Seen
  <2> QED BY <1>2, <2>1, <2>2, <2>3 DEF Follows
<1>6. /\ Seen(main) /\ Seen(timer) /\ Seen(input) /\ Seen(main')
      /\ open' = FALSE /\ toBot' = <<>> /\ Popped(main, main')
  BY <1>1, <1>2 DEF Tops, Goes0
<1>7. MainShape'
  BY <1>2, <1>3, <1>5 DEF MainShape, NextOfMain, MainNext, FirstNext, Over, Handles, Beneath,
     Operations, Goes0
<1>8. InputShape' /\ TimerShape' /\ OnlyMainNests'
  BY <1>2 DEF InputShape, TimerShape, OnlyMainNests
<1>9. Tops' /\ Covers'
  BY <1>7, <1>8, TopsKnown, CoversKnown, PTL
<1>10. NestShape' /\ JoinsClosed' /\ InputGone' /\ ConnectsClosed' /\ HolderCloses'
  BY <1>1, <1>2, <1>3, <1>4, <1>5, <1>6, <1>9 DEF NestShape, Nested, Alive, JoinsClosed, InputGone,
     Closing, ConnectsClosed, HolderCloses, Tops, Locks, Seen, Popped
<1>11. FirstLife' /\ NoFaultFirst' /\ NoFaultPolled'
  BY <1>1, <1>2, <1>3, <1>4, <1>5, <1>6 DEF FirstLife, AskSent, AskAnswered, BufferAsks, Simple,
     NoFaultFirst, Calm, Closing, Receiver, NoFaultPolled, InputWaits, Queues, Seen, Popped
<1>12. MainCalm' /\ MainReconnects' /\ MainOpens'
  BY <1>1, <1>2, <1>3, <1>4, <1>5, <1>6 DEF MainCalm, MainGoesOn, Second1, First1, Calm, Closing,
     AskSent, AskAnswered, BufferAsks, Simple, Alone, MainReconnects, MainOpens, Queues, Seen,
     Popped
<1>13. SetupCalm' /\ OneAsks' /\ Coming' /\ ChallengeComing'
  BY <1>1, <1>2, <1>3, <1>4, <1>5, <1>6 DEF SetupCalm, SetsUp, Receiver, Nested, OneAsks, InputAsks,
     QueueAsks, BufferAsks, AskSent, AskAnswered, Coming, Nets, ChallengeComing, FirstAsked, Queues,
     Seen, Popped
<1>14. BothBusy' /\ TimerPolls' /\ TimerReopens' /\ TimerCalm'
  BY <1>1, <1>2, <1>3, <1>4, <1>5, <1>6 DEF BothBusy, Nets, Alone, TimerAsks, TimerPolls, Fired,
     AfterSetup, NoHarm, Reopens, Calm, Closing, First1, AskSent, AskAnswered, Simple, BufferAsks,
     Alive, TimerReopens, TimerCalm, TimerSetsUp, OldAsks, FirstAsked, Queues, Seen, Popped
<1>15. StatusTold' /\ ConnectedTold' /\ MineWaits' /\ NothingAsked'
  BY <1>1, <1>2, <1>3, <1>4, <1>5, <1>6 DEF StatusTold, Closing, Told, ConnectedTold, MineWaits,
     NothingAsked, Nets, Alone, Queues, Seen, Popped
<1> QED BY <1>7, <1>8, <1>10, <1>11, <1>12, <1>13, <1>14, <1>15

\* Main: Engine::clear.
LEMMA ClearMain ==
  ASSUME Sound, Good, Live, Sound', Live', Clear("main")
  PROVE  Good'
<1>1. /\ Tops /\ Covers /\ Unstuck /\ Locks /\ Queues /\ TypeOK
      /\ Unstuck' /\ Locks' /\ Queues' /\ TypeOK' /\ faults \in {0, 1} /\ faults' \in {0, 1}
  BY AllKnown
<1> USE DEF Good, Live
<1>2. /\ main # <<>> /\ Top(main) \in {"clear", "join"} /\ timer' = timer /\ input' = input
      /\ Top(main) = "clear" \/ input = <<>>
      /\ emutex = "free" /\ buffer' = <<>> /\ Goes0(main, main')
  <2>1. /\ main # <<>> /\ Top(main) \in {"clear", "join"} /\ emutex = "free" /\ buffer' = <<>>
        /\ Top(main) = "clear" \/ input = <<>>
    BY AtTop DEF Clear, EngineFree, Idle, main, input
  <2> QED BY <1>1, <2>1, MainGoes DEF Clear, Done
<1>3. UNCHANGED <<secure, status, open, polling, told, emutex, toServer, toBot, faults>>
  BY DEF Clear, Same, SameLink, linkVars, SameEngine, engineVars, SameNet, netVars, SameWorld,
     worldVars
<1>4. timer = <<>>
  BY <1>1, <1>2 DEF BothBusy, Tops, Seen
<1>5. /\ main \notin Failing /\ <<Top(main), Second(main)>> \in NextOfMain
      /\ Top(main) = "join" /\ Second(main) \in IF polling THEN {"end", "connect"}
           ELSE {"end", "close", "getchallenge", "updated", "wait"}
      /\ Below(main) \subseteq {"updated", "read", "close", "connect", "join", "getchallenge",
           "release", "wait"}
  <2>1. main \notin Failing /\ Follows(main, NextOfMain)
    BY <1>1, <1>2 DEF Tops
  <2>2. Top(main) = "join" /\ Second(main) \in IF polling THEN {"end", "connect"}
          ELSE {"end", "close", "getchallenge", "updated", "wait"}
    BY <1>2, <2>1 DEF Follows, NextOfMain, MainNext, FirstNext
  <2>3. Below(main) \subseteq {"updated", "read", "close", "connect", "join", "getchallenge",
          "release", "wait"}
    BY <1>1, <1>2, <2>1, Zenon DEF Tops, Follows, Over, Beneath, Handles, Seen
  <2> QED BY <1>2, <2>1, <2>2, <2>3 DEF Follows
<1>6. /\ Seen(main) /\ Seen(timer) /\ Seen(input) /\ Seen(main')
      /\ emutex = "free" /\ buffer' = <<>> /\ Popped(main, main')
  BY <1>1, <1>2 DEF Tops, Goes0
<1>7. MainShape'
  BY <1>2, <1>3, <1>5 DEF MainShape, NextOfMain, MainNext, FirstNext, Over, Handles, Beneath,
     Operations, Goes0
<1>8. InputShape' /\ TimerShape' /\ OnlyMainNests'
  BY <1>2 DEF InputShape, TimerShape, OnlyMainNests
<1>9. Tops' /\ Covers'
  BY <1>7, <1>8, TopsKnown, CoversKnown, PTL
<1>10. NestShape' /\ JoinsClosed' /\ InputGone' /\ ConnectsClosed' /\ HolderCloses'
  BY <1>1, <1>2, <1>3, <1>4, <1>5, <1>6, <1>9 DEF NestShape, Nested, Alive, JoinsClosed, InputGone,
     Closing, ConnectsClosed, HolderCloses, Tops, Locks, Queues, Seen, Popped
<1>11. FirstLife' /\ NoFaultFirst' /\ NoFaultPolled'
  BY <1>1, <1>2, <1>3, <1>4, <1>5, <1>6 DEF FirstLife, AskSent, AskAnswered, BufferAsks, Simple,
     NoFaultFirst, Calm, Closing, Receiver, NoFaultPolled, InputWaits, Queues, Seen, Popped
<1>12. MainCalm' /\ MainReconnects' /\ MainOpens'
  BY <1>1, <1>2, <1>3, <1>4, <1>5, <1>6 DEF FirstLife, AskSent, AskAnswered, BufferAsks, Simple,
     MainCalm, MainGoesOn, Second1, First1, Calm, Closing, Alone, MainReconnects, MainOpens, Queues,
     Seen, Popped
<1>13. SetupCalm' /\ OneAsks' /\ Coming' /\ ChallengeComing'
  BY <1>1, <1>2, <1>3, <1>4, <1>5, <1>6 DEF FirstLife, AskSent, AskAnswered, BufferAsks, Simple,
     SetupCalm, SetsUp, Receiver, Nested, OneAsks, InputAsks, QueueAsks, Coming, Nets,
     ChallengeComing, FirstAsked, Queues, Seen, Popped
<1>14. BothBusy' /\ TimerPolls' /\ TimerReopens' /\ TimerCalm'
  BY <1>1, <1>2, <1>3, <1>4, <1>5, <1>6 DEF JoinsClosed, BothBusy, Nets, Alone, TimerAsks,
     TimerPolls, Fired, AfterSetup, NoHarm, Reopens, Calm, Closing, First1, AskSent, AskAnswered,
     Simple, BufferAsks, Alive, TimerReopens, TimerCalm, TimerSetsUp, OldAsks, FirstAsked, Queues,
     Seen, Popped
<1>15. StatusTold' /\ ConnectedTold' /\ MineWaits' /\ NothingAsked'
  BY <1>1, <1>2, <1>3, <1>4, <1>5, <1>6 DEF JoinsClosed, StatusTold, Closing, Told, ConnectedTold,
     MineWaits, NothingAsked, Nets, Alone, Queues, Seen, Popped
<1> QED BY <1>7, <1>8, <1>10, <1>11, <1>12, <1>13, <1>14, <1>15
=============================================================================
