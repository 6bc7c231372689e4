-------------------------- MODULE XonoticToldProofs --------------------------
(***************************************************************************)
(* While main has connected the link once and at most one thing has gone   *)
(* wrong, a link that is up is one the bot was told of, whatever the       *)
(* interleaving of the three threads and the bounds (FirstConnectionTold). *)
(*                                                                         *)
(* The invariant, LinkInv, has two parts (XonoticLinkProofs): Sound, of    *)
(* every state, and Good, of the first connection while the link is not    *)
(* stuck.  Each step of the poll and of thread_input has a lemma that it   *)
(* keeps Good; a link that is stuck (a thread reads a closed socket, joins *)
(* what it holds, or an object was destroyed) is never quiet.              *)
(***************************************************************************)
EXTENDS XonoticLinkProofs

-----------------------------------------------------------------------------
(* The first connection: the steps of the poll *)

\* The poll: XonoticConnection::connect.
LEMMA ConnectTimer ==
  ASSUME Sound, Good, Live, Sound', Live', Connect("timer")
  PROVE  Good'
<1>1. /\ Tops /\ Covers /\ Unstuck /\ Locks /\ Queues /\ TypeOK
      /\ Unstuck' /\ Locks' /\ Queues' /\ TypeOK' /\ faults \in {0, 1} /\ faults' \in {0, 1}
  BY AllKnown
<1> USE DEF Good, Live
<1>2. /\ timer # <<>> /\ Top(timer) = "connect" /\ main' = main /\ input' = input
      /\ \/ open /\ status' = status /\ Goes0(timer, timer')
         \/ ~open /\ status' = "WAITING" /\ Goes1(timer, timer', "open")
  BY Zenon, <1>1, TimerGoes, AtTop DEF Connect, Done, Sound, timer, Operations
<1>3. UNCHANGED <<secure, open, polling, told, emutex, buffer, toServer, toBot, faults>>
  BY DEF Connect, Same, SameLink, linkVars, SameEngine, engineVars, SameNet, netVars, SameWorld,
     worldVars
<1>4. main = <<>> \/ (Top(main) = "receiving" /\ Nets /\ Alone(input, "read"))
  BY <1>2 DEF BothBusy
<1>5. /\ <<Top(timer), Second(timer)>> \in TimerNext
      /\ Second(timer) \in {"end"}
      /\ "disconnect" \notin Below(timer) /\ Below(timer) \subseteq {"updated", "read"}
  <2>1. Follows(timer, TimerNext) /\ "disconnect" \notin Below(timer)
    BY <1>1, <1>2 DEF Tops, OnlyMainNests
  <2>2. Second(timer) \in {"end"}
    BY <1>2, <2>1 DEF Follows, TimerNext
  <2>3. "disconnect" \notin Below(timer) /\ Below(timer) \subseteq {"updated", "read"}
    BY <1>1, <1>2, <2>1, Zenon DEF Tops, Follows, Over, Beneath, Handles, Seen
  <2> QED BY <1>2, <2>1, <2>2, <2>3 DEF Follows
<1>6. /\ Seen(main) /\ Seen(timer) /\ Seen(input) /\ Seen(timer')
      /\ \/ open /\ status' = status /\ Popped(timer, timer')
         \/ ~open /\ status' = "WAITING" /\ Becomes(timer, timer', "open")
  BY <1>1, <1>2 DEF Tops, Goes0, Goes1
<1>7. TimerShape'
  BY <1>2, <1>3, <1>5 DEF TimerShape, TimerNext, Over, Handles, Beneath, Operations, Goes0, Goes1
<1>8. MainShape' /\ InputShape' /\ OnlyMainNests'
  BY <1>2, <1>3, <1>4, <1>5, <1>6 DEF MainShape, NextOfMain, InputShape, OnlyMainNests, Becomes,
     Popped
<1>9. Tops' /\ Covers'
  BY <1>7, <1>8, TopsKnown, CoversKnown, PTL
<1>10. NestShape' /\ JoinsClosed' /\ InputGone' /\ ConnectsClosed' /\ HolderCloses'
  BY <1>1, <1>2, <1>3, <1>4, <1>5, <1>6, <1>9 DEF NestShape, Nested, Alive, JoinsClosed, InputGone,
     Closing, ConnectsClosed, HolderCloses, Tops, Locks, Seen, Becomes, Popped
<1>11. FirstLife' /\ NoFaultFirst' /\ NoFaultPolled'
  BY <1>1, <1>2, <1>3, <1>4, <1>5, <1>6 DEF FirstLife, AskSent, AskAnswered, BufferAsks, Simple,
     NoFaultFirst, Calm, Closing, Receiver, NoFaultPolled, InputWaits, TimerReopens, Seen, Becomes,
     Popped
<1>12. MainCalm' /\ MainReconnects' /\ MainOpens'
  BY <1>1, <1>2, <1>3, <1>4, <1>5, <1>6 DEF MainCalm, MainGoesOn, Second1, First1, Calm, Closing,
     AskSent, AskAnswered, BufferAsks, Simple, Alone, MainReconnects, MainOpens, BothBusy, Nets,
     TimerAsks, Seen, Becomes, Popped
<1>13. SetupCalm' /\ OneAsks' /\ Coming' /\ ChallengeComing'
  BY <1>1, <1>2, <1>3, <1>4, <1>5, <1>6 DEF ConnectsClosed, SetupCalm, SetsUp, Receiver, Nested,
     OneAsks, InputAsks, QueueAsks, BufferAsks, AskSent, AskAnswered, Coming, Nets, ChallengeComing,
     FirstAsked, BothBusy, Alone, TimerAsks, Unstuck, Leaves, Closes, Seen, Becomes, Popped
<1>14. BothBusy' /\ TimerPolls' /\ TimerReopens' /\ TimerCalm'
  BY <1>1, <1>2, <1>3, <1>4, <1>5, <1>6 DEF ConnectsClosed, BothBusy, Nets, Alone, TimerAsks,
     TimerPolls, Fired, AfterSetup, NoHarm, Reopens, Calm, Closing, First1, AskSent, AskAnswered,
     Simple, BufferAsks, Alive, TimerReopens, TimerCalm, TimerSetsUp, OldAsks, FirstAsked, Seen,
     Becomes, Popped
<1>15. StatusTold' /\ ConnectedTold' /\ MineWaits' /\ NothingAsked'
  BY <1>1, <1>2, <1>3, <1>4, <1>5, <1>6 DEF ConnectsClosed, StatusTold, Closing, Told,
     ConnectedTold, MineWaits, NothingAsked, Nets, Alone, Seen, Becomes, Popped
<1> QED BY <1>7, <1>8, <1>10, <1>11, <1>12, <1>13, <1>14, <1>15

\* The poll: io.connect, when the socket is open, which does not happen.
LEMMA OpenAlreadyTimer ==
  ASSUME Sound, Good, Live, Sound', Live', OpenAlready("timer")
  PROVE  FALSE
<1>1. /\ Tops /\ Covers /\ Unstuck /\ Locks /\ Queues /\ TypeOK
      /\ Unstuck' /\ Locks' /\ Queues' /\ TypeOK' /\ faults \in {0, 1} /\ faults' \in {0, 1}
  BY AllKnown
<1> USE DEF Good, Live
<1>2. /\ timer # <<>> /\ Top(timer) = "open" /\ main' = main /\ input' = input
      /\ open /\ Goes0(timer, timer')
  BY Zenon, <1>1, TimerGoes, AtTop DEF OpenAlready, Done, Sound, timer, Operations
<1> QED
  BY <1>1, <1>2 DEF ConnectsClosed, Seen, Tops

\* The poll: io.connect opens the socket.
LEMMA OpenSocketTimer ==
  ASSUME Sound, Good, Live, Sound', Live', OpenSocket("timer")
  PROVE  Good'
<1>1. /\ Tops /\ Covers /\ Unstuck /\ Locks /\ Queues /\ TypeOK
      /\ Unstuck' /\ Locks' /\ Queues' /\ TypeOK' /\ faults \in {0, 1} /\ faults' \in {0, 1}
  BY AllKnown
<1> USE DEF Good, Live
<1>2. /\ timer # <<>> /\ Top(timer) = "open" /\ main' = main /\ input = <<>> /\
           input' = <<"clear", "read">>
      /\ ~open /\ open' /\ toServer' = <<>> /\ toBot' = <<>> /\ Goes1(timer, timer', "update")
  <2>1. /\ timer # <<>> /\ Top(timer) = "open" /\ input = <<>> /\ todo["timer"] = timer
        /\ ~open /\ open' /\ toServer' = <<>> /\ toBot' = <<>>
    BY AtTop DEF OpenSocket, AsioInUse, Idle, timer, input
  <2> QED BY <1>1, <2>1, Opens DEF OpenSocket, Threads, main, timer, input
<1>3. UNCHANGED <<secure, status, polling, told, emutex, buffer, faults>>
  BY DEF OpenSocket, SameEngine, engineVars, SameWorld, worldVars
<1>4. main = <<>>
  BY <1>2 DEF BothBusy, Alone, Top
<1>5. /\ <<Top(timer), Second(timer)>> \in TimerNext
      /\ Second(timer) = "end" /\ Below(timer) = {}
  BY <1>1, <1>2 DEF Tops, Follows, TimerNext, Seen
<1>6. /\ Seen(main) /\ Seen(timer) /\ Seen(timer') /\ Becomes(timer, timer', "update")
      /\ Elems(input) = {} /\ Top(input') = "clear" /\ Second(input') = "read" /\
           Below(input') = {"read"}
      /\ Elems(input') = {"clear", "read"} /\ Seen(input') /\ Fits(input', HandlingNext) /\ InputShape'
  <2>1. Seen(input) /\ Elems(input) = {}
    BY <1>1, <1>2 DEF Tops, Seen
  <2>2. "clear" \in Operations /\ "read" \in Operations /\ Over("clear", {"read"})
    BY DEF Operations, Over, Beneath
  <2>3. /\ <<"read", "end">> \in InputNext /\ <<"clear", "read">> \in InputNext
        /\ <<"read", "end">> \in HandlingNext /\ <<"clear", "read">> \in HandlingNext
    BY DEF InputNext, HandlingNext
  <2> QED BY <1>1, <1>2, <2>1, <2>2, <2>3, StartsTwo DEF Tops, Goes1, InputShape
<1>7. TimerShape'
  BY <1>2, <1>3, <1>5 DEF TimerShape, TimerNext, Over, Handles, Beneath, Operations, Goes1
<1>8. InputShape' /\ MainShape' /\ OnlyMainNests'
  BY <1>2, <1>3, <1>5, <1>6 DEF MainShape, NextOfMain, TimerShape, OnlyMainNests, Becomes
<1>9. Tops' /\ Covers'
  BY <1>7, <1>8, TopsKnown, CoversKnown, PTL
<1>10. NestShape' /\ JoinsClosed' /\ InputGone' /\ ConnectsClosed' /\ HolderCloses'
  BY <1>1, <1>2, <1>3, <1>4, <1>5, <1>6, <1>9 DEF NestShape, Nested, Alive, JoinsClosed, InputGone,
     Closing, ConnectsClosed, HolderCloses, BothBusy, Nets, Alone, TimerAsks, Tops, Locks, Queues,
     Seen, Becomes
<1>11. FirstLife' /\ NoFaultFirst' /\ NoFaultPolled'
  BY <1>1, <1>2, <1>3, <1>4, <1>5, <1>6 DEF FirstLife, AskSent, AskAnswered, BufferAsks, Simple,
     NoFaultFirst, Calm, Closing, Receiver, NoFaultPolled, InputWaits, TimerReopens, Queues, Seen,
     Becomes
<1>12. MainCalm' /\ MainReconnects' /\ MainOpens'
  BY <1>1, <1>2, <1>3, <1>4, <1>5, <1>6 DEF MainCalm, MainGoesOn, Second1, First1, Calm, Closing,
     AskSent, AskAnswered, BufferAsks, Simple, Alone, MainReconnects, MainOpens, BothBusy, Nets,
     TimerAsks, Queues, Seen, Becomes
<1>13. SetupCalm' /\ OneAsks' /\ Coming' /\ ChallengeComing'
  BY <1>1, <1>2, <1>3, <1>4, <1>5, <1>6 DEF SetupCalm, SetsUp, Receiver, Nested, OneAsks, InputAsks,
     QueueAsks, BufferAsks, AskSent, AskAnswered, Coming, Nets, ChallengeComing, FirstAsked, Queues,
     Seen, Becomes
<1>14. BothBusy' /\ TimerPolls' /\ TimerReopens' /\ TimerCalm'
  BY <1>1, <1>2, <1>3, <1>4, <1>5, <1>6 DEF BothBusy, Nets, Alone, TimerAsks, TimerPolls, Fired,
     AfterSetup, NoHarm, Reopens, Calm, Closing, First1, AskSent, AskAnswered, Simple, BufferAsks,
     Alive, TimerReopens, TimerCalm, TimerSetsUp, OldAsks, FirstAsked, Queues, Locks,
     NeedsChallenge, Seen, Becomes
<1>15. StatusTold' /\ ConnectedTold' /\ MineWaits' /\ NothingAsked'
  BY <1>1, <1>2, <1>3, <1>4, <1>5, <1>6 DEF FirstLife, AskSent, AskAnswered, BufferAsks, Simple,
     SetupCalm, SetsUp, Receiver, Nested, BothBusy, Nets, Alone, TimerAsks, TimerReopens,
     StatusTold, Closing, Told, ConnectedTold, MineWaits, NothingAsked, Queues, Seen, Becomes
<1> QED BY <1>7, <1>8, <1>10, <1>11, <1>12, <1>13, <1>14, <1>15

\* The poll: the name is not resolved, which does not happen.
LEMMA OpenFailsTimer ==
  ASSUME Sound, Good, Live, Sound', Live', OpenFails("timer")
  PROVE  FALSE
<1>1. /\ Tops /\ Covers /\ Unstuck /\ Locks /\ Queues /\ TypeOK
      /\ Unstuck' /\ Locks' /\ Queues' /\ TypeOK' /\ faults \in {0, 1} /\ faults' \in {0, 1}
  BY AllKnown
<1> USE DEF Good, Live
<1>2. /\ timer # <<>> /\ Top(timer) = "open" /\ main' = main /\ input' = input
      /\ input = <<>>
      /\ ~open /\ faults = 0 /\ faults' = 1
  BY <1>1, TimerGoes, AtTop, OneFault DEF OpenFails, AsioInUse, Idle, Threads, timer, input
<1> QED
  BY <1>1, <1>2 DEF TimerReopens

\* The poll: update_connection.
LEMMA UpdateTimer ==
  ASSUME Sound, Good, Live, Sound', Live', Update("timer")
  PROVE  Good'
<1>1. /\ Tops /\ Covers /\ Unstuck /\ Locks /\ Queues /\ TypeOK
      /\ Unstuck' /\ Locks' /\ Queues' /\ TypeOK' /\ faults \in {0, 1} /\ faults' \in {0, 1}
  BY AllKnown
<1> USE DEF Good, Live
<1>2. /\ timer # <<>> /\ Top(timer) = "update" /\ main' = main /\ input' = input
      /\ \/ status = "DISCONNECTED" /\ status' = status /\ Goes0(timer, timer')
         \/ status # "DISCONNECTED" /\ status' = "WAITING" /\
              Goes3(timer, timer', "set", "wait", "updated")
  BY Zenon, <1>1, TimerGoes, AtTop DEF Update, Done, Sound, timer, Operations
<1>3. UNCHANGED <<secure, open, polling, told, emutex, buffer, toServer, toBot, faults>>
  BY DEF Update, Same, SameLink, linkVars, SameEngine, engineVars, SameNet, netVars, SameWorld,
     worldVars
<1>4. main = <<>> \/ (Top(main) = "receiving" /\ Nets /\ Alone(input, "read"))
  BY <1>2 DEF BothBusy
<1>5. /\ <<Top(timer), Second(timer)>> \in TimerNext
      /\ Second(timer) \in {"end"}
      /\ "disconnect" \notin Below(timer) /\ Below(timer) \subseteq {"updated", "read"}
  <2>1. Follows(timer, TimerNext) /\ "disconnect" \notin Below(timer)
    BY <1>1, <1>2 DEF Tops, OnlyMainNests
  <2>2. Second(timer) \in {"end"}
    BY <1>2, <2>1 DEF Follows, TimerNext
  <2>3. "disconnect" \notin Below(timer) /\ Below(timer) \subseteq {"updated", "read"}
    BY <1>1, <1>2, <2>1, Zenon DEF Tops, Follows, Over, Beneath, Handles, Seen
  <2> QED BY <1>2, <2>1, <2>2, <2>3 DEF Follows
<1>6. /\ Seen(main) /\ Seen(timer) /\ Seen(input) /\ Seen(timer')
      /\ \/ status = "DISCONNECTED" /\ status' = status /\ Popped(timer, timer')
         \/ status # "DISCONNECTED" /\ status' = "WAITING" /\
              Becomes3(timer, timer', "set", "wait", "updated")
  BY <1>1, <1>2 DEF Tops, Goes0, Goes3
<1>7. TimerShape'
  BY <1>2, <1>3, <1>5 DEF TimerShape, TimerNext, Over, Handles, Beneath, Operations, Goes0, Goes3
<1>8. MainShape' /\ InputShape' /\ OnlyMainNests'
  BY <1>2, <1>3, <1>4, <1>5, <1>6 DEF MainShape, NextOfMain, InputShape, OnlyMainNests, Becomes3,
     Popped
<1>9. Tops' /\ Covers'
  BY <1>7, <1>8, TopsKnown, CoversKnown, PTL
<1>10. NestShape' /\ JoinsClosed' /\ InputGone' /\ ConnectsClosed' /\ HolderCloses'
  BY <1>1, <1>2, <1>3, <1>4, <1>5, <1>6, <1>9 DEF NestShape, Nested, Alive, JoinsClosed, InputGone,
     Closing, ConnectsClosed, HolderCloses, BothBusy, Nets, Alone, TimerAsks, Tops, Locks, Covers,
     Covered, Handles, Seen, Becomes3, Popped
<1>11. FirstLife' /\ NoFaultFirst' /\ NoFaultPolled'
  BY <1>1, <1>2, <1>3, <1>4, <1>5, <1>6 DEF FirstLife, AskSent, AskAnswered, BufferAsks, Simple,
     NoFaultFirst, Calm, Closing, Receiver, NoFaultPolled, InputWaits, TimerCalm, TimerSetsUp,
     OldAsks, FirstAsked, Nets, Alone, Seen, Becomes3, Popped
<1>12. MainCalm' /\ MainReconnects' /\ MainOpens'
  BY <1>1, <1>2, <1>3, <1>4, <1>5, <1>6 DEF ConnectsClosed, MainCalm, MainGoesOn, Second1, First1,
     Calm, Closing, AskSent, AskAnswered, BufferAsks, Simple, Alone, MainReconnects, MainOpens,
     BothBusy, Nets, TimerAsks, TimerCalm, TimerSetsUp, OldAsks, FirstAsked, Seen, Becomes3, Popped
<1>13. SetupCalm' /\ OneAsks' /\ Coming' /\ ChallengeComing'
  BY <1>1, <1>2, <1>3, <1>4, <1>5, <1>6, <1>9 DEF SetupCalm, SetsUp, Receiver, Nested, OneAsks,
     InputAsks, QueueAsks, BufferAsks, AskSent, AskAnswered, Coming, Nets, ChallengeComing,
     FirstAsked, BothBusy, Alone, TimerAsks, Covers, Covered, Handles, Seen, Becomes3, Popped
<1>14. BothBusy' /\ TimerPolls' /\ TimerReopens' /\ TimerCalm'
  BY <1>1, <1>2, <1>3, <1>4, <1>5, <1>6, <1>9 DEF BothBusy, Nets, Alone, TimerAsks, TimerPolls,
     Fired, AfterSetup, NoHarm, Reopens, Calm, Closing, First1, AskSent, AskAnswered, Simple,
     BufferAsks, Alive, TimerReopens, TimerCalm, TimerSetsUp, OldAsks, FirstAsked, Covers, Covered,
     Handles, Seen, Becomes3, Popped
<1>15. StatusTold' /\ ConnectedTold' /\ MineWaits' /\ NothingAsked'
  BY <1>1, <1>2, <1>3, <1>4, <1>5, <1>6, <1>9 DEF BothBusy, Nets, Alone, TimerAsks, TimerCalm,
     TimerSetsUp, Simple, Calm, Closing, AskSent, AskAnswered, OldAsks, BufferAsks, FirstAsked,
     StatusTold, Told, ConnectedTold, MineWaits, NothingAsked, Covers, Covered, Handles, Seen,
     Becomes3, Popped
<1> QED BY <1>7, <1>8, <1>10, <1>11, <1>12, <1>13, <1>14, <1>15

\* The poll: update_connection waits for a datagram if the link is WAITING.
LEMMA WaitTimer ==
  ASSUME Sound, Good, Live, Sound', Live', Wait("timer")
  PROVE  Good'
<1>1. /\ Tops /\ Covers /\ Unstuck /\ Locks /\ Queues /\ TypeOK
      /\ Unstuck' /\ Locks' /\ Queues' /\ TypeOK' /\ faults \in {0, 1} /\ faults' \in {0, 1}
  BY AllKnown
<1> USE DEF Good, Live
<1>2. /\ timer # <<>> /\ Top(timer) = "wait" /\ main' = main /\ input' = input
      /\ \/ status = "WAITING" /\ Goes1(timer, timer', "sync")
         \/ status # "WAITING" /\ Goes0(timer, timer')
  BY Zenon, <1>1, TimerGoes, AtTop DEF Wait, Done, Sound, timer, Operations
<1>3. UNCHANGED <<secure, status, open, polling, told, emutex, buffer, toServer, toBot, faults>>
  BY DEF Wait, Same, SameLink, linkVars, SameEngine, engineVars, SameNet, netVars, SameWorld,
     worldVars
<1>4. main = <<>> \/ (Top(main) = "receiving" /\ Nets /\ Alone(input, "read"))
  BY <1>2 DEF BothBusy
<1>5. /\ <<Top(timer), Second(timer)>> \in TimerNext
      /\ Second(timer) \in {"updated"}
      /\ "disconnect" \notin Below(timer) /\ Below(timer) \subseteq {"updated", "read"}
  <2>1. Follows(timer, TimerNext) /\ "disconnect" \notin Below(timer)
    BY <1>1, <1>2 DEF Tops, OnlyMainNests
  <2>2. Second(timer) \in {"updated"}
    BY <1>2, <2>1 DEF Follows, TimerNext
  <2>3. "disconnect" \notin Below(timer) /\ Below(timer) \subseteq {"updated", "read"}
    BY <1>1, <1>2, <2>1, Zenon DEF Tops, Follows, Over, Beneath, Handles, Seen
  <2> QED BY <1>2, <2>1, <2>2, <2>3 DEF Follows
<1>6. /\ Seen(main) /\ Seen(timer) /\ Seen(input) /\ Seen(timer')
      /\ \/ status = "WAITING" /\ Becomes(timer, timer', "sync")
         \/ status # "WAITING" /\ Popped(timer, timer')
  BY <1>1, <1>2 DEF Tops, Goes0, Goes1
<1>7. TimerShape'
  BY <1>2, <1>3, <1>5 DEF TimerShape, TimerNext, Over, Handles, Beneath, Operations, Goes0, Goes1
<1>8. MainShape' /\ InputShape' /\ OnlyMainNests'
  BY <1>2, <1>3, <1>4, <1>5, <1>6 DEF MainShape, NextOfMain, InputShape, OnlyMainNests, Becomes,
     Popped
<1>9. Tops' /\ Covers'
  BY <1>7, <1>8, TopsKnown, CoversKnown, PTL
<1>10. NestShape' /\ JoinsClosed' /\ InputGone' /\ ConnectsClosed' /\ HolderCloses'
  BY <1>1, <1>2, <1>3, <1>4, <1>5, <1>6, <1>9 DEF NestShape, Nested, Alive, JoinsClosed, InputGone,
     Closing, ConnectsClosed, HolderCloses, BothBusy, Nets, Alone, TimerAsks, Tops, Locks, Covers,
     Covered, Handles, Seen, Becomes, Popped
<1>11. FirstLife' /\ NoFaultFirst' /\ NoFaultPolled'
  BY <1>1, <1>2, <1>3, <1>4, <1>5, <1>6 DEF FirstLife, AskSent, AskAnswered, BufferAsks, Simple,
     NoFaultFirst, Calm, Closing, Receiver, NoFaultPolled, InputWaits, TimerCalm, TimerSetsUp,
     OldAsks, FirstAsked, Nets, Alone, Seen, Becomes, Popped
<1>12. MainCalm' /\ MainReconnects' /\ MainOpens'
  BY <1>1, <1>2, <1>3, <1>4, <1>5, <1>6 DEF ConnectsClosed, MainCalm, MainGoesOn, Second1, First1,
     Calm, Closing, AskSent, AskAnswered, BufferAsks, Simple, Alone, MainReconnects, MainOpens,
     BothBusy, Nets, TimerAsks, TimerCalm, TimerSetsUp, OldAsks, FirstAsked, Seen, Becomes, Popped
<1>13. SetupCalm' /\ OneAsks' /\ Coming' /\ ChallengeComing'
  BY <1>1, <1>2, <1>3, <1>4, <1>5, <1>6, <1>9 DEF SetupCalm, SetsUp, Receiver, Nested, OneAsks,
     InputAsks, QueueAsks, BufferAsks, AskSent, AskAnswered, Coming, Nets, ChallengeComing,
     FirstAsked, BothBusy, Alone, TimerAsks, Covers, Covered, Handles, Seen, Becomes, Popped
<1>14. BothBusy' /\ TimerPolls' /\ TimerReopens' /\ TimerCalm'
  BY <1>1, <1>2, <1>3, <1>4, <1>5, <1>6, <1>9 DEF BothBusy, Nets, Alone, TimerAsks, TimerPolls,
     Fired, AfterSetup, NoHarm, Reopens, Calm, Closing, First1, AskSent, AskAnswered, Simple,
     BufferAsks, Alive, TimerReopens, TimerCalm, TimerSetsUp, OldAsks, FirstAsked, Covers, Covered,
     Handles, Seen, Becomes, Popped
<1>15. StatusTold' /\ ConnectedTold' /\ MineWaits' /\ NothingAsked'
  BY <1>1, <1>2, <1>3, <1>4, <1>5, <1>6, <1>9 DEF TimerCalm, TimerSetsUp, Simple, Calm, Closing,
     AskSent, AskAnswered, OldAsks, BufferAsks, FirstAsked, Nets, Alone, StatusTold, Told,
     ConnectedTold, MineWaits, NothingAsked, Covers, Covered, Handles, Seen, Becomes, Popped
<1> QED BY <1>7, <1>8, <1>10, <1>11, <1>12, <1>13, <1>14, <1>15

\* The poll: update_connection starts the poll and requests the status.
LEMMA UpdatedTimer ==
  ASSUME Sound, Good, Live, Sound', Live', Updated("timer")
  PROVE  Good'
<1>1. /\ Tops /\ Covers /\ Unstuck /\ Locks /\ Queues /\ TypeOK
      /\ Unstuck' /\ Locks' /\ Queues' /\ TypeOK' /\ faults \in {0, 1} /\ faults' \in {0, 1}
  BY AllKnown
<1> USE DEF Good, Live
<1>2. /\ timer # <<>> /\ Top(timer) = "updated" /\ main' = main /\ input' = input
      /\ polling' = TRUE
      /\ \/ status \in Alive /\ Goes1(timer, timer', "request")
         \/ status \notin Alive /\ Goes0(timer, timer')
  BY Zenon, <1>1, TimerGoes, AtTop DEF Updated, Done, Sound, timer, Operations
<1>3. UNCHANGED <<secure, status, open, told, emutex, buffer, toServer, toBot, faults>>
  BY DEF Updated, Same, SameLink, linkVars, SameEngine, engineVars, SameNet, netVars, SameWorld,
     worldVars
<1>4. main = <<>> \/ (Top(main) = "receiving" /\ Nets /\ Alone(input, "read"))
  BY <1>2 DEF BothBusy
<1>5. /\ <<Top(timer), Second(timer)>> \in TimerNext
      /\ Second(timer) \in {"end"}
      /\ "disconnect" \notin Below(timer) /\ Below(timer) \subseteq {"updated", "read"}
  <2>1. Follows(timer, TimerNext) /\ "disconnect" \notin Below(timer)
    BY <1>1, <1>2 DEF Tops, OnlyMainNests
  <2>2. Second(timer) \in {"end"}
    BY <1>2, <2>1 DEF Follows, TimerNext
  <2>3. "disconnect" \notin Below(timer) /\ Below(timer) \subseteq {"updated", "read"}
    BY <1>1, <1>2, <2>1, Zenon DEF Tops, Follows, Over, Beneath, Handles, Seen
  <2> QED BY <1>2, <2>1, <2>2, <2>3 DEF Follows
<1>6. polling
  BY <1>1, <1>2 DEF FirstLife, Simple, Tops, Seen
<1>7. /\ Seen(main) /\ Seen(timer) /\ Seen(input) /\ Seen(timer')
      /\ \/ status \in Alive /\ Becomes(timer, timer', "request")
         \/ status \notin Alive /\ Popped(timer, timer')
  BY <1>1, <1>2 DEF Tops, Goes0, Goes1
<1>8. TimerShape'
  BY <1>2, <1>3, <1>5 DEF TimerShape, TimerNext, Over, Handles, Beneath, Operations, Goes0, Goes1
<1>9. MainShape' /\ InputShape' /\ OnlyMainNests'
  BY <1>2, <1>3, <1>4, <1>5, <1>6, <1>7 DEF MainShape, NextOfMain, InputShape, OnlyMainNests,
     Becomes, Popped
<1>10. Tops' /\ Covers'
  BY <1>8, <1>9, TopsKnown, CoversKnown, PTL
<1>11. NestShape' /\ JoinsClosed' /\ InputGone' /\ ConnectsClosed' /\ HolderCloses'
  BY <1>1, <1>2, <1>3, <1>4, <1>5, <1>6, <1>7, <1>10 DEF NestShape, Nested, Alive, JoinsClosed,
     InputGone, Closing, ConnectsClosed, HolderCloses, BothBusy, Nets, Alone, TimerAsks, TimerCalm,
     TimerSetsUp, Simple, Calm, AskSent, AskAnswered, OldAsks, BufferAsks, FirstAsked, Tops, Locks,
     Covers, Covered, Handles, Seen, Becomes, Popped
<1>12. FirstLife' /\ NoFaultFirst' /\ NoFaultPolled'
  BY <1>1, <1>2, <1>3, <1>4, <1>5, <1>6, <1>7 DEF FirstLife, AskSent, AskAnswered, BufferAsks,
     Simple, NoFaultFirst, Calm, Closing, Receiver, NoFaultPolled, InputWaits, TimerCalm,
     TimerSetsUp, OldAsks, FirstAsked, Nets, Alone, Seen, Becomes, Popped
<1>13. MainCalm' /\ MainReconnects' /\ MainOpens'
  BY <1>1, <1>2, <1>3, <1>4, <1>5, <1>6, <1>7 DEF ConnectsClosed, MainCalm, MainGoesOn, Second1,
     First1, Calm, Closing, AskSent, AskAnswered, BufferAsks, Simple, Alone, MainReconnects,
     MainOpens, BothBusy, Nets, TimerAsks, TimerCalm, TimerSetsUp, OldAsks, FirstAsked, Seen,
     Becomes, Popped
<1>14. SetupCalm' /\ OneAsks' /\ Coming' /\ ChallengeComing'
  BY <1>1, <1>2, <1>3, <1>4, <1>5, <1>6, <1>7, <1>10 DEF FirstLife, AskSent, AskAnswered,
     BufferAsks, Simple, SetupCalm, SetsUp, Receiver, Nested, OneAsks, InputAsks, QueueAsks, Coming,
     Nets, ChallengeComing, FirstAsked, BothBusy, Alone, TimerAsks, Covers, Covered, Handles,
     Queues, Seen, Becomes, Popped
<1>15. BothBusy' /\ TimerPolls' /\ TimerReopens' /\ TimerCalm'
  BY <1>1, <1>2, <1>3, <1>4, <1>5, <1>6, <1>7, <1>10 DEF BothBusy, Nets, Alone, TimerAsks,
     TimerPolls, Fired, AfterSetup, NoHarm, Reopens, Calm, Closing, First1, AskSent, AskAnswered,
     Simple, BufferAsks, Alive, TimerReopens, TimerCalm, TimerSetsUp, OldAsks, FirstAsked, Covers,
     Covered, Handles, Seen, Becomes, Popped
<1>16. StatusTold' /\ ConnectedTold' /\ MineWaits' /\ NothingAsked'
  BY <1>1, <1>2, <1>3, <1>4, <1>5, <1>6, <1>7 DEF TimerCalm, TimerSetsUp, Simple, Calm, Closing,
     AskSent, AskAnswered, OldAsks, BufferAsks, FirstAsked, Nets, Alone, StatusTold, Told,
     ConnectedTold, MineWaits, NothingAsked, Seen, Becomes, Popped
<1> QED BY <1>8, <1>9, <1>11, <1>12, <1>13, <1>14, <1>15, <1>16

\* The poll: request_status.
LEMMA RequestTimer ==
  ASSUME Sound, Good, Live, Sound', Live', Request("timer")
  PROVE  Good'
<1>1. /\ Tops /\ Covers /\ Unstuck /\ Locks /\ Queues /\ TypeOK
      /\ Unstuck' /\ Locks' /\ Queues' /\ TypeOK' /\ faults \in {0, 1} /\ faults' \in {0, 1}
  BY AllKnown
<1> USE DEF Good, Live
<1>2. /\ timer # <<>> /\ Top(timer) = "request" /\ main' = main /\ input' = input
      /\ \/ status = "CONNECTED" /\ Goes2(timer, timer', "checking", "ask")
         \/ status \in {"CONNECTING", "CHECKING"} /\ Goes1(timer, timer', "ask")
         \/ status \in {"WAITING", "DISCONNECTED"} /\ Goes2(timer, timer', "close", "connect")
  BY Zenon, <1>1, TimerGoes, AtTop DEF Request, Alive, TypeOK, Done, Sound, timer, Operations
<1>3. UNCHANGED <<secure, status, open, polling, told, emutex, buffer, toServer, toBot, faults>>
  BY DEF Request, Same, SameLink, linkVars, SameEngine, engineVars, SameNet, netVars, SameWorld,
     worldVars
<1>4. main = <<>> \/ (Top(main) = "receiving" /\ Nets /\ Alone(input, "read"))
  BY <1>2 DEF BothBusy
<1>5. /\ <<Top(timer), Second(timer)>> \in TimerNext
      /\ Second(timer) \in {"end"}
      /\ "disconnect" \notin Below(timer) /\ Below(timer) \subseteq {"updated", "read"}
  <2>1. Follows(timer, TimerNext) /\ "disconnect" \notin Below(timer)
    BY <1>1, <1>2 DEF Tops, OnlyMainNests
  <2>2. Second(timer) \in {"end"}
    BY <1>2, <2>1 DEF Follows, TimerNext
  <2>3. "disconnect" \notin Below(timer) /\ Below(timer) \subseteq {"updated", "read"}
    BY <1>1, <1>2, <2>1, Zenon DEF Tops, Follows, Over, Beneath, Handles, Seen
  <2> QED BY <1>2, <2>1, <2>2, <2>3 DEF Follows
<1>6. /\ Seen(main) /\ Seen(timer) /\ Seen(input) /\ Seen(timer')
      /\ \/ status = "CONNECTED" /\ Becomes2(timer, timer', "checking", "ask")
         \/ status \in {"CONNECTING", "CHECKING"} /\ Becomes(timer, timer', "ask")
         \/ status \in {"WAITING", "DISCONNECTED"} /\ Becomes2(timer, timer', "close", "connect")
  BY <1>1, <1>2 DEF Tops, Goes1, Goes2
<1>7. TimerShape'
  BY <1>2, <1>3, <1>5 DEF TimerShape, TimerNext, Over, Handles, Beneath, Operations, Goes1, Goes2
<1>8. MainShape' /\ InputShape' /\ OnlyMainNests'
  BY <1>2, <1>3, <1>4, <1>5, <1>6 DEF MainShape, NextOfMain, InputShape, OnlyMainNests, Becomes,
     Becomes2
<1>9. Tops' /\ Covers'
  BY <1>7, <1>8, TopsKnown, CoversKnown, PTL
<1>10. NestShape' /\ JoinsClosed' /\ InputGone' /\ ConnectsClosed' /\ HolderCloses'
  BY <1>1, <1>2, <1>3, <1>4, <1>5, <1>6, <1>9 DEF NestShape, Nested, Alive, JoinsClosed, InputGone,
     Closing, ConnectsClosed, HolderCloses, Tops, Locks, Seen, Becomes, Becomes2
<1>11. FirstLife' /\ NoFaultFirst' /\ NoFaultPolled'
  BY <1>1, <1>2, <1>3, <1>4, <1>5, <1>6 DEF FirstLife, AskSent, AskAnswered, BufferAsks, Simple,
     NoFaultFirst, Calm, Closing, Receiver, NoFaultPolled, InputWaits, Seen, Becomes, Becomes2
<1>12. MainCalm' /\ MainReconnects' /\ MainOpens'
  BY <1>1, <1>2, <1>3, <1>4, <1>5, <1>6 DEF MainCalm, MainGoesOn, Second1, First1, Calm, Closing,
     AskSent, AskAnswered, BufferAsks, Simple, Alone, MainReconnects, MainOpens, BothBusy, Nets,
     TimerAsks, Seen, Becomes, Becomes2
<1>13. SetupCalm' /\ OneAsks' /\ Coming' /\ ChallengeComing'
  BY <1>1, <1>2, <1>3, <1>4, <1>5, <1>6 DEF SetupCalm, SetsUp, Receiver, Nested, OneAsks, InputAsks,
     QueueAsks, BufferAsks, AskSent, AskAnswered, Coming, Nets, ChallengeComing, FirstAsked,
     BothBusy, Alone, TimerAsks, Seen, Becomes, Becomes2
<1>14. BothBusy' /\ TimerPolls' /\ TimerReopens' /\ TimerCalm'
  BY <1>1, <1>2, <1>3, <1>4, <1>5, <1>6, <1>9 DEF FirstLife, AskSent, AskAnswered, BufferAsks,
     Simple, NoFaultPolled, Calm, Closing, InputWaits, BothBusy, Nets, Alone, TimerAsks, TimerPolls,
     Fired, AfterSetup, NoHarm, Reopens, First1, Alive, TimerReopens, TimerCalm, TimerSetsUp,
     OldAsks, FirstAsked, Covers, Covered, Handles, Seen, Becomes, Becomes2
<1>15. StatusTold' /\ ConnectedTold' /\ MineWaits' /\ NothingAsked'
  BY <1>1, <1>2, <1>3, <1>4, <1>5, <1>6, <1>9 DEF StatusTold, Closing, Told, ConnectedTold,
     MineWaits, NothingAsked, Nets, Alone, Covers, Covered, Handles, Seen, Becomes, Becomes2
<1> QED BY <1>7, <1>8, <1>10, <1>11, <1>12, <1>13, <1>14, <1>15

\* The poll: request_status of a CONNECTED link.
LEMMA CheckingTimer ==
  ASSUME Sound, Good, Live, Sound', Live', Checking("timer")
  PROVE  Good'
<1>1. /\ Tops /\ Covers /\ Unstuck /\ Locks /\ Queues /\ TypeOK
      /\ Unstuck' /\ Locks' /\ Queues' /\ TypeOK' /\ faults \in {0, 1} /\ faults' \in {0, 1}
  BY AllKnown
<1> USE DEF Good, Live
<1>2. /\ timer # <<>> /\ Top(timer) = "checking" /\ main' = main /\ input' = input
      /\ status' = "CHECKING" /\ Goes0(timer, timer')
  BY Zenon, <1>1, TimerGoes, AtTop DEF Checking, Done, Sound, timer, Operations
<1>3. UNCHANGED <<secure, open, polling, told, emutex, buffer, toServer, toBot, faults>>
  BY DEF Checking, Same, SameLink, linkVars, SameEngine, engineVars, SameNet, netVars, SameWorld,
     worldVars
<1>4. main = <<>> \/ (Top(main) = "receiving" /\ Nets /\ Alone(input, "read"))
  BY <1>2 DEF BothBusy
<1>5. /\ <<Top(timer), Second(timer)>> \in TimerNext
      /\ Second(timer) \in {"ask"}
      /\ "disconnect" \notin Below(timer) /\ Below(timer) \subseteq {"updated", "read", "ask"}
  <2>1. Follows(timer, TimerNext) /\ "disconnect" \notin Below(timer)
    BY <1>1, <1>2 DEF Tops, OnlyMainNests
  <2>2. Second(timer) \in {"ask"}
    BY <1>2, <2>1 DEF Follows, TimerNext
  <2>3. "disconnect" \notin Below(timer) /\ Below(timer) \subseteq {"updated", "read", "ask"}
    BY <1>1, <1>2, <2>1, Zenon DEF Tops, Follows, Over, Beneath, Handles, Seen
  <2> QED BY <1>2, <2>1, <2>2, <2>3 DEF Follows
<1>6. /\ Seen(main) /\ Seen(timer) /\ Seen(input) /\ Seen(timer')
      /\ status' = "CHECKING" /\ Popped(timer, timer')
  BY <1>1, <1>2 DEF Tops, Goes0
<1>7. TimerShape'
  BY <1>2, <1>3, <1>5 DEF TimerShape, TimerNext, Over, Handles, Beneath, Operations, Goes0
<1>8. MainShape' /\ InputShape' /\ OnlyMainNests'
  BY <1>2, <1>3, <1>4, <1>5, <1>6 DEF MainShape, NextOfMain, InputShape, OnlyMainNests, Popped
<1>9. Tops' /\ Covers'
  BY <1>7, <1>8, TopsKnown, CoversKnown, PTL
<1>10. NestShape' /\ JoinsClosed' /\ InputGone' /\ ConnectsClosed' /\ HolderCloses'
  BY <1>1, <1>2, <1>3, <1>4, <1>5, <1>6, <1>9 DEF NestShape, Nested, Alive, JoinsClosed, InputGone,
     Closing, ConnectsClosed, HolderCloses, Tops, Locks, Covers, Covered, Handles, Seen, Popped
<1>11. FirstLife' /\ NoFaultFirst' /\ NoFaultPolled'
  BY <1>1, <1>2, <1>3, <1>4, <1>5, <1>6 DEF FirstLife, AskSent, AskAnswered, BufferAsks, Simple,
     NoFaultFirst, Calm, Closing, Receiver, NoFaultPolled, InputWaits, Seen, Popped
<1>12. MainCalm' /\ MainReconnects' /\ MainOpens'
  BY <1>1, <1>2, <1>3, <1>4, <1>5, <1>6 DEF MainCalm, MainGoesOn, Second1, First1, Calm, Closing,
     AskSent, AskAnswered, BufferAsks, Simple, Alone, MainReconnects, MainOpens, BothBusy, Nets,
     TimerAsks, Seen, Popped
<1>13. SetupCalm' /\ OneAsks' /\ Coming' /\ ChallengeComing'
  BY <1>1, <1>2, <1>3, <1>4, <1>5, <1>6 DEF SetupCalm, SetsUp, Receiver, Nested, OneAsks, InputAsks,
     QueueAsks, BufferAsks, AskSent, AskAnswered, Coming, Nets, ChallengeComing, FirstAsked,
     BothBusy, Alone, TimerAsks, Seen, Popped
<1>14. BothBusy' /\ TimerPolls' /\ TimerReopens' /\ TimerCalm'
  BY <1>1, <1>2, <1>3, <1>4, <1>5, <1>6, <1>9 DEF BothBusy, Nets, Alone, TimerAsks, TimerPolls,
     Fired, AfterSetup, NoHarm, Reopens, Calm, Closing, First1, AskSent, AskAnswered, Simple,
     BufferAsks, Alive, TimerReopens, TimerCalm, TimerSetsUp, OldAsks, FirstAsked, Covers, Covered,
     Handles, Seen, Popped
<1>15. StatusTold' /\ ConnectedTold' /\ MineWaits' /\ NothingAsked'
  BY <1>1, <1>2, <1>3, <1>4, <1>5, <1>6 DEF StatusTold, Closing, Told, ConnectedTold, MineWaits,
     NothingAsked, Nets, Alone, Seen, Popped
<1> QED BY <1>7, <1>8, <1>10, <1>11, <1>12, <1>13, <1>14, <1>15

\* The poll: a command, when the link is DISCONNECTED.
LEMMA CommandDroppedTimer ==
  ASSUME Sound, Good, Live, Sound', Live', CommandDropped("timer")
  PROVE  Good'
<1>1. /\ Tops /\ Covers /\ Unstuck /\ Locks /\ Queues /\ TypeOK
      /\ Unstuck' /\ Locks' /\ Queues' /\ TypeOK' /\ faults \in {0, 1} /\ faults' \in {0, 1}
  BY AllKnown
<1> USE DEF Good, Live
<1>2. /\ timer # <<>> /\ Top(timer) \in {"set", "unset", "ask"} /\ main' = main /\ input' = input
      /\ status = "DISCONNECTED" /\ Goes0(timer, timer')
  BY Zenon, <1>1, TimerGoes, AtTop DEF CommandDropped, Commands, Done, Sound, timer, Operations, Commands
<1>3. UNCHANGED <<secure, status, open, polling, told, emutex, buffer, toServer, toBot, faults>>
  BY DEF CommandDropped, Same, SameLink, linkVars, SameEngine, engineVars, SameNet, netVars,
     SameWorld, worldVars
<1>4. main = <<>> \/ (Top(main) = "receiving" /\ Nets /\ Alone(input, "read"))
  BY <1>2 DEF BothBusy
<1>5. /\ <<Top(timer), Second(timer)>> \in TimerNext
      /\ \/ Top(timer) = "set" /\ Second(timer) \in {"wait"}
         \/ Top(timer) = "ask" /\ Second(timer) \in {"end"}
      /\ "disconnect" \notin Below(timer) /\ Below(timer) \subseteq {"updated", "read", "wait"}
  <2>1. Follows(timer, TimerNext) /\ "disconnect" \notin Below(timer)
    BY <1>1, <1>2 DEF Tops, OnlyMainNests
  <2>2. \/ Top(timer) = "set" /\ Second(timer) \in {"wait"}
        \/ Top(timer) = "ask" /\ Second(timer) \in {"end"}
    BY <1>2, <2>1 DEF Follows, TimerNext
  <2>3. "disconnect" \notin Below(timer) /\ Below(timer) \subseteq {"updated", "read", "wait"}
    BY <1>1, <1>2, <2>1, Zenon DEF Tops, Follows, Over, Beneath, Handles, Seen
  <2> QED BY <1>2, <2>1, <2>2, <2>3 DEF Follows
<1>6. /\ Seen(main) /\ Seen(timer) /\ Seen(input) /\ Seen(timer')
      /\ status = "DISCONNECTED" /\ Popped(timer, timer')
  BY <1>1, <1>2 DEF Tops, Goes0
<1>7. TimerShape'
  BY <1>2, <1>3, <1>5 DEF TimerShape, TimerNext, Over, Handles, Beneath, Operations, Goes0
<1>8. MainShape' /\ InputShape' /\ OnlyMainNests'
  BY <1>2, <1>3, <1>4, <1>5, <1>6 DEF MainShape, NextOfMain, InputShape, OnlyMainNests, Popped
<1>9. Tops' /\ Covers'
  BY <1>7, <1>8, TopsKnown, CoversKnown, PTL
<1>10. NestShape' /\ JoinsClosed' /\ InputGone' /\ ConnectsClosed' /\ HolderCloses'
  BY <1>1, <1>2, <1>3, <1>4, <1>5, <1>6, <1>9 DEF NestShape, Nested, Alive, JoinsClosed, InputGone,
     Closing, ConnectsClosed, HolderCloses, Tops, Locks, Covers, Covered, Handles, Seen, Popped
<1>11. FirstLife' /\ NoFaultFirst' /\ NoFaultPolled'
  BY <1>1, <1>2, <1>3, <1>4, <1>5, <1>6 DEF FirstLife, AskSent, AskAnswered, BufferAsks, Simple,
     NoFaultFirst, Calm, Closing, Receiver, NoFaultPolled, InputWaits, Seen, Popped
<1>12. MainCalm' /\ MainReconnects' /\ MainOpens'
  BY <1>1, <1>2, <1>3, <1>4, <1>5, <1>6 DEF NoFaultPolled, Calm, Closing, InputWaits, MainCalm,
     MainGoesOn, Second1, First1, AskSent, AskAnswered, BufferAsks, Simple, Alone, MainReconnects,
     MainOpens, BothBusy, Nets, TimerAsks, Unstuck, Leaves, Closes, Seen, Popped
<1>13. SetupCalm' /\ OneAsks' /\ Coming' /\ ChallengeComing'
  BY <1>1, <1>2, <1>3, <1>4, <1>5, <1>6 DEF SetupCalm, SetsUp, Receiver, Nested, OneAsks, InputAsks,
     QueueAsks, BufferAsks, AskSent, AskAnswered, Coming, Nets, ChallengeComing, FirstAsked, Seen,
     Popped
<1>14. BothBusy' /\ TimerPolls' /\ TimerReopens' /\ TimerCalm'
  BY <1>1, <1>2, <1>3, <1>4, <1>5, <1>6, <1>9 DEF BothBusy, Nets, Alone, TimerAsks, TimerPolls,
     Fired, AfterSetup, NoHarm, Reopens, Calm, Closing, First1, AskSent, AskAnswered, Simple,
     BufferAsks, Alive, TimerReopens, TimerCalm, TimerSetsUp, OldAsks, FirstAsked, Covers, Covered,
     Handles, Seen, Popped
<1>15. StatusTold' /\ ConnectedTold' /\ MineWaits' /\ NothingAsked'
  BY <1>1, <1>2, <1>3, <1>4, <1>5, <1>6, <1>9 DEF StatusTold, Closing, Told, ConnectedTold,
     MineWaits, NothingAsked, Nets, Alone, Covers, Covered, Handles, Seen, Popped
<1> QED BY <1>7, <1>8, <1>10, <1>11, <1>12, <1>13, <1>14, <1>15

\* The poll: a command is written.
LEMMA CommandSentTimer ==
  ASSUME Sound, Good, Live, Sound', Live', CommandSent("timer")
  PROVE  Good'
<1>1. /\ Tops /\ Covers /\ Unstuck /\ Locks /\ Queues /\ TypeOK
      /\ Unstuck' /\ Locks' /\ Queues' /\ TypeOK' /\ faults \in {0, 1} /\ faults' \in {0, 1}
  BY AllKnown
<1> USE DEF Good, Live
<1>2. /\ timer # <<>> /\ Top(timer) \in {"set", "unset", "ask"} /\ main' = main /\ input' = input
      /\ Added(toServer, toServer', Top(timer), {"ask"})
      /\ secure = "NO" /\ open /\ status # "DISCONNECTED" /\ Goes0(timer, timer')
  <2>1. PICK cmd \in Commands : Sending("timer", cmd) /\ toServer' = Append(toServer, cmd)
    BY DEF CommandSent
  <2>2. timer # <<>> /\ Top(timer) = cmd /\ status # "DISCONNECTED"
    BY <1>1, <2>1, AtTop DEF Sending, Threads, timer
  <2>3. Added(toServer, toServer', Top(timer), {"ask"})
    BY <1>1, <2>1, <2>2, Sent
  <2> QED BY <1>1, <2>2, <2>3, TimerGoes DEF CommandSent, Done, Commands
<1>3. UNCHANGED <<secure, status, open, polling, told, emutex, buffer, toBot, faults>>
  BY DEF CommandSent, Same, SameLink, linkVars, SameEngine, engineVars, SameNet, netVars, SameWorld,
     worldVars
<1>4. main = <<>> \/ (Top(main) = "receiving" /\ Nets /\ Alone(input, "read"))
  BY <1>2 DEF BothBusy
<1>5. /\ <<Top(timer), Second(timer)>> \in TimerNext
      /\ \/ Top(timer) = "set" /\ Second(timer) \in {"wait"}
         \/ Top(timer) = "ask" /\ Second(timer) \in {"end"}
      /\ "disconnect" \notin Below(timer) /\ Below(timer) \subseteq {"updated", "read", "wait"}
  <2>1. Follows(timer, TimerNext) /\ "disconnect" \notin Below(timer)
    BY <1>1, <1>2 DEF Tops, OnlyMainNests
  <2>2. \/ Top(timer) = "set" /\ Second(timer) \in {"wait"}
        \/ Top(timer) = "ask" /\ Second(timer) \in {"end"}
    BY <1>2, <2>1 DEF Follows, TimerNext
  <2>3. "disconnect" \notin Below(timer) /\ Below(timer) \subseteq {"updated", "read", "wait"}
    BY <1>1, <1>2, <2>1, Zenon DEF Tops, Follows, Over, Beneath, Handles, Seen
  <2> QED BY <1>2, <2>1, <2>2, <2>3 DEF Follows
<1>6. /\ Seen(main) /\ Seen(timer) /\ Seen(input) /\ Seen(timer')
      /\ secure = "NO" /\ open /\ status # "DISCONNECTED" /\ Popped(timer, timer')
  BY <1>1, <1>2 DEF Tops, Goes0
<1>7. TimerShape'
  BY <1>2, <1>3, <1>5 DEF TimerShape, TimerNext, Over, Handles, Beneath, Operations, Goes0
<1>8. MainShape' /\ InputShape' /\ OnlyMainNests'
  BY <1>2, <1>3, <1>4, <1>5, <1>6 DEF MainShape, NextOfMain, InputShape, OnlyMainNests, Popped
<1>9. Tops' /\ Covers'
  BY <1>7, <1>8, TopsKnown, CoversKnown, PTL
<1>10. NestShape' /\ JoinsClosed' /\ InputGone' /\ ConnectsClosed' /\ HolderCloses'
  BY <1>1, <1>2, <1>3, <1>4, <1>5, <1>6, <1>9 DEF NestShape, Nested, Alive, JoinsClosed, InputGone,
     Closing, ConnectsClosed, HolderCloses, Tops, Locks, Covers, Covered, Handles, Seen, Popped
<1>11. FirstLife' /\ NoFaultFirst' /\ NoFaultPolled'
  BY <1>1, <1>2, <1>3, <1>4, <1>5, <1>6 DEF FirstLife, AskSent, AskAnswered, BufferAsks, Simple,
     NoFaultFirst, Calm, Closing, Receiver, NoFaultPolled, InputWaits, Added, Queues, Seen, Popped
<1>12. MainCalm' /\ MainReconnects' /\ MainOpens'
  BY <1>1, <1>2, <1>3, <1>4, <1>5, <1>6 DEF ConnectsClosed, MainCalm, MainGoesOn, Second1, First1,
     Calm, Closing, AskSent, AskAnswered, BufferAsks, Simple, Alone, MainReconnects, MainOpens,
     BothBusy, Nets, TimerAsks, Added, Queues, Seen, Popped
<1>13. SetupCalm' /\ OneAsks' /\ Coming' /\ ChallengeComing'
  BY <1>1, <1>2, <1>3, <1>4, <1>5, <1>6 DEF SetupCalm, SetsUp, Receiver, Nested, OneAsks, InputAsks,
     QueueAsks, BufferAsks, AskSent, AskAnswered, Coming, Nets, ChallengeComing, FirstAsked,
     BothBusy, Alone, TimerAsks, Added, Queues, Seen, Popped
<1>14. BothBusy' /\ TimerPolls' /\ TimerReopens' /\ TimerCalm'
  BY <1>1, <1>2, <1>3, <1>4, <1>5, <1>6, <1>9 DEF BothBusy, Nets, Alone, TimerAsks, TimerPolls,
     Fired, AfterSetup, NoHarm, Reopens, Calm, Closing, First1, AskSent, AskAnswered, Simple,
     BufferAsks, Alive, TimerReopens, TimerCalm, TimerSetsUp, OldAsks, FirstAsked, Covers, Covered,
     Handles, Added, Queues, Seen, Popped
<1>15. StatusTold' /\ ConnectedTold' /\ MineWaits' /\ NothingAsked'
  BY <1>1, <1>2, <1>3, <1>4, <1>5, <1>6, <1>9 DEF StatusTold, Closing, Told, ConnectedTold,
     MineWaits, NothingAsked, Nets, Alone, Covers, Covered, Handles, Added, Queues, Seen, Popped
<1> QED BY <1>7, <1>8, <1>10, <1>11, <1>12, <1>13, <1>14, <1>15

\* The poll: schedule_challenged_command.
LEMMA CommandScheduledTimer ==
  ASSUME Sound, Good, Live, Sound', Live', CommandScheduled("timer")
  PROVE  Good'
<1>1. /\ Tops /\ Covers /\ Unstuck /\ Locks /\ Queues /\ TypeOK
      /\ Unstuck' /\ Locks' /\ Queues' /\ TypeOK' /\ faults \in {0, 1} /\ faults' \in {0, 1}
  BY AllKnown
<1> USE DEF Good, Live
<1>2. /\ timer # <<>> /\ Top(timer) \in {"set", "unset", "ask"} /\ main' = main /\ input' = input
      /\ OneMore(buffer, buffer', Top(timer))
      /\ secure = "CHALLENGE" /\ emutex = "free" /\ status # "DISCONNECTED" /\
           Goes1(timer, timer', "getchallenge")
  <2>1. PICK cmd \in Commands :
             Sending("timer", cmd) /\ buffer' = Append(buffer, [cmd |-> cmd, challenged |-> FALSE])
    BY DEF CommandScheduled
  <2>2. timer # <<>> /\ Top(timer) = cmd /\ status # "DISCONNECTED"
    BY <1>1, <2>1, AtTop DEF Sending, Threads, timer
  <2>3. OneMore(buffer, buffer', Top(timer))
    BY <1>1, <2>1, <2>2, Scheduled
  <2> QED BY Zenon, <1>1, <2>2, <2>3, TimerGoes DEF CommandScheduled, EngineFree, Commands, Operations
<1>3. UNCHANGED <<secure, status, open, polling, told, emutex, toServer, toBot, faults>>
  BY DEF CommandScheduled, Same, SameLink, linkVars, SameEngine, engineVars, SameNet, netVars,
     SameWorld, worldVars
<1>4. main = <<>> \/ (Top(main) = "receiving" /\ Nets /\ Alone(input, "read"))
  BY <1>2 DEF BothBusy
<1>5. /\ <<Top(timer), Second(timer)>> \in TimerNext
      /\ \/ Top(timer) = "set" /\ Second(timer) \in {"wait"}
         \/ Top(timer) = "ask" /\ Second(timer) \in {"end"}
      /\ "disconnect" \notin Below(timer) /\ Below(timer) \subseteq {"updated", "read", "wait"}
  <2>1. Follows(timer, TimerNext) /\ "disconnect" \notin Below(timer)
    BY <1>1, <1>2 DEF Tops, OnlyMainNests
  <2>2. \/ Top(timer) = "set" /\ Second(timer) \in {"wait"}
        \/ Top(timer) = "ask" /\ Second(timer) \in {"end"}
    BY <1>2, <2>1 DEF Follows, TimerNext
  <2>3. "disconnect" \notin Below(timer) /\ Below(timer) \subseteq {"updated", "read", "wait"}
    BY <1>1, <1>2, <2>1, Zenon DEF Tops, Follows, Over, Beneath, Handles, Seen
  <2> QED BY <1>2, <2>1, <2>2, <2>3 DEF Follows
<1>6. /\ Seen(main) /\ Seen(timer) /\ Seen(input) /\ Seen(timer')
      /\ secure = "CHALLENGE" /\ emutex = "free" /\ status # "DISCONNECTED" /\
           Becomes(timer, timer', "getchallenge")
  BY <1>1, <1>2 DEF Tops, Goes1
<1>7. TimerShape'
  BY <1>2, <1>3, <1>5 DEF TimerShape, TimerNext, Over, Handles, Beneath, Operations, Goes1
<1>8. MainShape' /\ InputShape' /\ OnlyMainNests'
  BY <1>2, <1>3, <1>4, <1>5, <1>6 DEF MainShape, NextOfMain, InputShape, OnlyMainNests, Becomes
<1>9. Tops' /\ Covers'
  BY <1>7, <1>8, TopsKnown, CoversKnown, PTL
<1>10. NestShape' /\ JoinsClosed' /\ InputGone' /\ ConnectsClosed' /\ HolderCloses'
  BY <1>1, <1>2, <1>3, <1>4, <1>5, <1>6, <1>9 DEF NestShape, Nested, Alive, JoinsClosed, InputGone,
     Closing, ConnectsClosed, HolderCloses, Tops, Locks, OneMore, Queues, Seen, Becomes
<1>11. FirstLife' /\ NoFaultFirst' /\ NoFaultPolled'
  BY <1>1, <1>2, <1>3, <1>4, <1>5, <1>6 DEF FirstLife, AskSent, AskAnswered, BufferAsks, Simple,
     NoFaultFirst, Calm, Closing, Receiver, NoFaultPolled, InputWaits, OneMore, Queues, Seen,
     Becomes
<1>12. MainCalm' /\ MainReconnects' /\ MainOpens'
  BY <1>1, <1>2, <1>3, <1>4, <1>5, <1>6 DEF MainCalm, MainGoesOn, Second1, First1, Calm, Closing,
     AskSent, AskAnswered, BufferAsks, Simple, Alone, MainReconnects, MainOpens, BothBusy, Nets,
     TimerAsks, OneMore, Queues, Seen, Becomes
<1>13. SetupCalm' /\ OneAsks' /\ Coming' /\ ChallengeComing'
  BY <1>1, <1>2, <1>3, <1>4, <1>5, <1>6, <1>9 DEF FirstLife, AskSent, AskAnswered, BufferAsks,
     Simple, SetupCalm, SetsUp, Receiver, Nested, OneAsks, InputAsks, QueueAsks, Coming, Nets,
     ChallengeComing, FirstAsked, BothBusy, Alone, TimerAsks, Covers, Covered, Handles, Queues,
     Locks, NeedsChallenge, OneMore, Seen, Becomes
<1>14. BothBusy' /\ TimerPolls' /\ TimerReopens' /\ TimerCalm'
  BY <1>1, <1>2, <1>3, <1>4, <1>5, <1>6 DEF BothBusy, Nets, Alone, TimerAsks, TimerPolls, Fired,
     AfterSetup, NoHarm, Reopens, Calm, Closing, First1, AskSent, AskAnswered, Simple, BufferAsks,
     Alive, TimerReopens, TimerCalm, TimerSetsUp, OldAsks, FirstAsked, OneMore, Queues, Seen,
     Becomes
<1>15. StatusTold' /\ ConnectedTold' /\ MineWaits' /\ NothingAsked'
  BY <1>1, <1>2, <1>3, <1>4, <1>5, <1>6 DEF StatusTold, Closing, Told, ConnectedTold, MineWaits,
     NothingAsked, Nets, Alone, OneMore, Queues, Seen, Becomes
<1> QED BY <1>7, <1>8, <1>10, <1>11, <1>12, <1>13, <1>14, <1>15

\* The poll: a command is not written.
LEMMA CommandFailsTimer ==
  ASSUME Sound, Good, Live, Sound', Live', CommandFails("timer")
  PROVE  Good'
<1>1. /\ Tops /\ Covers /\ Unstuck /\ Locks /\ Queues /\ TypeOK
      /\ Unstuck' /\ Locks' /\ Queues' /\ TypeOK' /\ faults \in {0, 1} /\ faults' \in {0, 1}
  BY AllKnown
<1> USE DEF Good, Live
<1>2. /\ timer # <<>> /\ Top(timer) \in {"set", "unset", "ask"} /\ main' = main /\ input' = input
      /\ ((open /\ faults = 0 /\ faults' = 1) \/ (~open /\ faults' = faults))
      /\ secure = "NO" /\ status # "DISCONNECTED" /\ Goes1(timer, timer', "close")
  <2>1. PICK cmd \in Commands : Sending("timer", cmd)
    BY DEF CommandFails
  <2>2. timer # <<>> /\ Top(timer) = cmd /\ status # "DISCONNECTED"
    BY <1>1, <2>1, AtTop DEF Sending, Threads, timer
  <2>3. (open /\ faults = 0 /\ faults' = 1) \/ (~open /\ faults' = faults)
    BY <1>1, OneFault DEF CommandFails, SendFails, SameWorld, worldVars
  <2> QED BY Zenon, <1>1, <2>2, <2>3, TimerGoes DEF CommandFails, Commands, Operations
<1>3. UNCHANGED <<secure, status, open, polling, told, emutex, buffer, toServer, toBot>>
  BY DEF CommandFails, Same, SameLink, linkVars, SameEngine, engineVars, SameNet, netVars,
     SameWorld, worldVars
<1>4. main = <<>> \/ (Top(main) = "receiving" /\ Nets /\ Alone(input, "read"))
  BY <1>2 DEF BothBusy
<1>5. /\ <<Top(timer), Second(timer)>> \in TimerNext
      /\ \/ Top(timer) = "set" /\ Second(timer) \in {"wait"}
         \/ Top(timer) = "ask" /\ Second(timer) \in {"end"}
      /\ "disconnect" \notin Below(timer) /\ Below(timer) \subseteq {"updated", "read", "wait"}
  <2>1. Follows(timer, TimerNext) /\ "disconnect" \notin Below(timer)
    BY <1>1, <1>2 DEF Tops, OnlyMainNests
  <2>2. \/ Top(timer) = "set" /\ Second(timer) \in {"wait"}
        \/ Top(timer) = "ask" /\ Second(timer) \in {"end"}
    BY <1>2, <2>1 DEF Follows, TimerNext
  <2>3. "disconnect" \notin Below(timer) /\ Below(timer) \subseteq {"updated", "read", "wait"}
    BY <1>1, <1>2, <2>1, Zenon DEF Tops, Follows, Over, Beneath, Handles, Seen
  <2> QED BY <1>2, <2>1, <2>2, <2>3 DEF Follows
<1>6. /\ Seen(main) /\ Seen(timer) /\ Seen(input) /\ Seen(timer')
      /\ secure = "NO" /\ status # "DISCONNECTED" /\ Becomes(timer, timer', "close")
  BY <1>1, <1>2 DEF Tops, Goes1
<1>7. TimerShape'
  BY <1>1, <1>2, <1>3, <1>5, <1>6 DEF TimerShape, TimerNext, Over, Handles, Beneath, Operations,
     Goes1, TimerCalm, TimerSetsUp, Simple, Calm, Closing, AskSent, AskAnswered, OldAsks,
     BufferAsks, FirstAsked, Nets, Alone, Becomes, Seen
<1>8. MainShape' /\ InputShape' /\ OnlyMainNests'
  BY <1>2, <1>3, <1>4, <1>5, <1>6 DEF MainShape, NextOfMain, InputShape, OnlyMainNests, Becomes
<1>9. Tops' /\ Covers'
  BY <1>7, <1>8, TopsKnown, CoversKnown, PTL
<1>10. NestShape' /\ JoinsClosed' /\ InputGone' /\ ConnectsClosed' /\ HolderCloses'
  BY <1>1, <1>2, <1>3, <1>4, <1>5, <1>6, <1>9 DEF NestShape, Nested, Alive, JoinsClosed, InputGone,
     Closing, ConnectsClosed, HolderCloses, Tops, Locks, Seen, Becomes
<1>11. FirstLife' /\ NoFaultFirst' /\ NoFaultPolled'
  BY <1>1, <1>2, <1>3, <1>4, <1>5, <1>6 DEF FirstLife, AskSent, AskAnswered, BufferAsks, Simple,
     NoFaultFirst, Calm, Closing, Receiver, NoFaultPolled, InputWaits, Seen, Becomes
<1>12. MainCalm' /\ MainReconnects' /\ MainOpens'
  BY <1>1, <1>2, <1>3, <1>4, <1>5, <1>6 DEF MainCalm, MainGoesOn, Second1, First1, Calm, Closing,
     AskSent, AskAnswered, BufferAsks, Simple, Alone, MainReconnects, MainOpens, BothBusy, Nets,
     TimerAsks, Seen, Becomes
<1>13. SetupCalm' /\ OneAsks' /\ Coming' /\ ChallengeComing'
  BY <1>1, <1>2, <1>3, <1>4, <1>5, <1>6 DEF SetupCalm, SetsUp, Receiver, Nested, OneAsks, InputAsks,
     QueueAsks, BufferAsks, AskSent, AskAnswered, Coming, Nets, ChallengeComing, FirstAsked,
     BothBusy, Alone, TimerAsks, Seen, Becomes
<1>14. BothBusy' /\ TimerPolls' /\ TimerReopens' /\ TimerCalm'
  BY <1>1, <1>2, <1>3, <1>4, <1>5, <1>6, <1>9 DEF FirstLife, AskSent, AskAnswered, BufferAsks,
     Simple, NoFaultPolled, Calm, Closing, InputWaits, BothBusy, Nets, Alone, TimerAsks, TimerPolls,
     Fired, AfterSetup, NoHarm, Reopens, First1, Alive, TimerReopens, TimerCalm, TimerSetsUp,
     OldAsks, FirstAsked, Unstuck, Leaves, Closes, Covers, Covered, Handles, Seen, Becomes
<1>15. StatusTold' /\ ConnectedTold' /\ MineWaits' /\ NothingAsked'
  BY <1>1, <1>2, <1>3, <1>4, <1>5, <1>6 DEF StatusTold, Closing, Told, ConnectedTold, MineWaits,
     NothingAsked, Nets, Alone, Seen, Becomes
<1> QED BY <1>7, <1>8, <1>10, <1>11, <1>12, <1>13, <1>14, <1>15

\* The poll: request_challenge asks.
LEMMA GetChallengeAsksTimer ==
  ASSUME Sound, Good, Live, Sound', Live', GetChallenge("timer"), NeedsChallenge
  PROVE  Good'
<1>1. /\ Tops /\ Covers /\ Unstuck /\ Locks /\ Queues /\ TypeOK
      /\ Unstuck' /\ Locks' /\ Queues' /\ TypeOK' /\ faults \in {0, 1} /\ faults' \in {0, 1}
  BY AllKnown
<1> USE DEF Good, Live
<1>2. /\ timer # <<>> /\ Top(timer) = "getchallenge" /\ main' = main /\ input' = input
      /\ SameCmds(buffer, buffer', TRUE) /\ Added(toServer, toServer', "getchallenge", {"ask"})
      /\ emutex = "free" /\ NeedsChallenge /\ open /\ Goes0(timer, timer')
  <2>1. timer # <<>> /\ Top(timer) = "getchallenge" /\ emutex = "free"
    BY AtTop DEF GetChallenge, EngineFree, timer
  <2>2. SameCmds(buffer, buffer', TRUE)
    BY <1>1, Challenged DEF GetChallenge, NeedsChallenge
  <2>3. Added(toServer, toServer', "getchallenge", {"ask"})
    BY <1>1, Sent DEF GetChallenge
  <2> QED BY Zenon, <1>1, <2>1, <2>2, <2>3, TimerGoes DEF GetChallenge, Done, Operations
<1>3. UNCHANGED <<secure, status, open, polling, told, emutex, toBot, faults>>
  BY DEF GetChallenge, Same, SameLink, linkVars, SameEngine, engineVars, SameNet, netVars,
     SameWorld, worldVars
<1>4. main = <<>> \/ (Top(main) = "receiving" /\ Nets /\ Alone(input, "read"))
  BY <1>2 DEF BothBusy
<1>5. /\ <<Top(timer), Second(timer)>> \in TimerNext
      /\ Second(timer) \in {"end", "updated", "wait"}
      /\ "disconnect" \notin Below(timer) /\ Below(timer) \subseteq {"updated", "read", "wait"}
  <2>1. Follows(timer, TimerNext) /\ "disconnect" \notin Below(timer)
    BY <1>1, <1>2 DEF Tops, OnlyMainNests
  <2>2. Second(timer) \in {"end", "updated", "wait"}
    BY <1>2, <2>1 DEF Follows, TimerNext
  <2>3. "disconnect" \notin Below(timer) /\ Below(timer) \subseteq {"updated", "read", "wait"}
    BY <1>1, <1>2, <2>1, Zenon DEF Tops, Follows, Over, Beneath, Handles, Seen
  <2> QED BY <1>2, <2>1, <2>2, <2>3 DEF Follows
<1>6. /\ Seen(main) /\ Seen(timer) /\ Seen(input) /\ Seen(timer')
      /\ emutex = "free" /\ NeedsChallenge /\ open /\ Popped(timer, timer')
  BY <1>1, <1>2 DEF Tops, Goes0
<1>7. TimerShape'
  BY <1>2, <1>3, <1>5 DEF TimerShape, TimerNext, Over, Handles, Beneath, Operations, Goes0
<1>8. MainShape' /\ InputShape' /\ OnlyMainNests'
  BY <1>2, <1>3, <1>4, <1>5, <1>6 DEF MainShape, NextOfMain, InputShape, OnlyMainNests, Popped
<1>9. Tops' /\ Covers'
  BY <1>7, <1>8, TopsKnown, CoversKnown, PTL
<1>10. NestShape' /\ JoinsClosed' /\ InputGone' /\ ConnectsClosed' /\ HolderCloses'
  BY <1>1, <1>2, <1>3, <1>4, <1>5, <1>6, <1>9 DEF NestShape, Nested, Alive, JoinsClosed, InputGone,
     Closing, ConnectsClosed, HolderCloses, Tops, Locks, Covers, Covered, Handles, SameCmds, Queues,
     Seen, Popped
<1>11. FirstLife' /\ NoFaultFirst' /\ NoFaultPolled'
  BY <1>1, <1>2, <1>3, <1>4, <1>5, <1>6 DEF FirstLife, AskSent, AskAnswered, BufferAsks, Simple,
     NoFaultFirst, Calm, Closing, Receiver, NoFaultPolled, InputWaits, Added, Queues, SameCmds,
     Seen, Popped
<1>12. MainCalm' /\ MainReconnects' /\ MainOpens'
  BY <1>1, <1>2, <1>3, <1>4, <1>5, <1>6 DEF ConnectsClosed, MainCalm, MainGoesOn, Second1, First1,
     Calm, Closing, AskSent, AskAnswered, BufferAsks, Simple, Alone, MainReconnects, MainOpens,
     BothBusy, Nets, TimerAsks, Added, Queues, SameCmds, Seen, Popped
<1>13. SetupCalm' /\ OneAsks' /\ Coming' /\ ChallengeComing'
  BY <1>1, <1>2, <1>3, <1>4, <1>5, <1>6 DEF SetupCalm, SetsUp, Receiver, Nested, OneAsks, InputAsks,
     QueueAsks, BufferAsks, AskSent, AskAnswered, Coming, Nets, ChallengeComing, FirstAsked, Added,
     Queues, SameCmds, Seen, Popped
<1>14. TimerCalm'
  <2>1. TimerSetsUp' => TimerSetsUp /\ ~BufferAsks
    BY <1>1, <1>2, <1>5, <1>6 DEF TimerSetsUp, TimerCalm, OldAsks, FirstAsked, NeedsChallenge,
       Popped, Seen
  <2>2. ~BufferAsks => ~BufferAsks' /\ OldAsks'
    BY <1>2 DEF BufferAsks, OldAsks, SameCmds
  <2>3. ~AskSent => ~AskSent'
    BY <1>2 DEF AskSent, Added
  <2> QED BY <1>1, <1>2, <1>3, <1>5, <1>6, <2>1, <2>2, <2>3 DEF TimerCalm, TimerSetsUp, Simple,
     Calm, Closing, AskAnswered, Alone, Popped, Seen
<1>15. BothBusy' /\ TimerPolls' /\ TimerReopens'
  BY <1>1, <1>2, <1>3, <1>4, <1>5, <1>6, <1>9 DEF BothBusy, Nets, Alone, TimerAsks, TimerPolls,
     Fired, AfterSetup, NoHarm, Reopens, Calm, Closing, First1, AskSent, AskAnswered, Simple,
     BufferAsks, Alive, TimerReopens, Covers, Covered, Handles, Added, Queues, SameCmds, Seen,
     Popped
<1>16. StatusTold' /\ ConnectedTold' /\ MineWaits' /\ NothingAsked'
  BY <1>1, <1>2, <1>3, <1>4, <1>5, <1>6, <1>9 DEF StatusTold, Closing, Told, ConnectedTold,
     MineWaits, NothingAsked, Nets, Alone, Covers, Covered, Handles, Added, Queues, SameCmds, Seen,
     Popped
<1> QED BY <1>7, <1>8, <1>10, <1>11, <1>12, <1>13, <1>14, <1>15, <1>16

\* The poll: request_challenge has nothing to ask.
LEMMA GetChallengeIdleTimer ==
  ASSUME Sound, Good, Live, Sound', Live', GetChallenge("timer"), ~NeedsChallenge
  PROVE  Good'
<1>1. /\ Tops /\ Covers /\ Unstuck /\ Locks /\ Queues /\ TypeOK
      /\ Unstuck' /\ Locks' /\ Queues' /\ TypeOK' /\ faults \in {0, 1} /\ faults' \in {0, 1}
  BY AllKnown
<1> USE DEF Good, Live
<1>2. /\ timer # <<>> /\ Top(timer) = "getchallenge" /\ main' = main /\ input' = input
      /\ emutex = "free" /\ ~NeedsChallenge /\ Goes0(timer, timer')
  BY Zenon, <1>1, TimerGoes, AtTop DEF GetChallenge, EngineFree, Done, Sound, timer, Operations
<1>3. UNCHANGED <<secure, status, open, polling, told, emutex, buffer, toServer, toBot, faults>>
  BY DEF GetChallenge, Same, SameLink, linkVars, SameEngine, engineVars, SameNet, netVars,
     SameWorld, worldVars, NeedsChallenge
<1>4. main = <<>> \/ (Top(main) = "receiving" /\ Nets /\ Alone(input, "read"))
  BY <1>2 DEF BothBusy
<1>5. /\ <<Top(timer), Second(timer)>> \in TimerNext
      /\ Second(timer) \in {"end", "updated", "wait"}
      /\ "disconnect" \notin Below(timer) /\ Below(timer) \subseteq {"updated", "read", "wait"}
  <2>1. Follows(timer, TimerNext) /\ "disconnect" \notin Below(timer)
    BY <1>1, <1>2 DEF Tops, OnlyMainNests
  <2>2. Second(timer) \in {"end", "updated", "wait"}
    BY <1>2, <2>1 DEF Follows, TimerNext
  <2>3. "disconnect" \notin Below(timer) /\ Below(timer) \subseteq {"updated", "read", "wait"}
    BY <1>1, <1>2, <2>1, Zenon DEF Tops, Follows, Over, Beneath, Handles, Seen
  <2> QED BY <1>2, <2>1, <2>2, <2>3 DEF Follows
<1>6. /\ Seen(main) /\ Seen(timer) /\ Seen(input) /\ Seen(timer')
      /\ emutex = "free" /\ ~NeedsChallenge /\ Popped(timer, timer')
  BY <1>1, <1>2 DEF Tops, Goes0
<1>7. TimerShape'
  BY <1>2, <1>3, <1>5 DEF TimerShape, TimerNext, Over, Handles, Beneath, Operations, Goes0
<1>8. MainShape' /\ InputShape' /\ OnlyMainNests'
  BY <1>2, <1>3, <1>4, <1>5, <1>6 DEF MainShape, NextOfMain, InputShape, OnlyMainNests, Popped
<1>9. Tops' /\ Covers'
  BY <1>7, <1>8, TopsKnown, CoversKnown, PTL
<1>10. NestShape' /\ JoinsClosed' /\ InputGone' /\ ConnectsClosed' /\ HolderCloses'
  BY <1>1, <1>2, <1>3, <1>4, <1>5, <1>6, <1>9 DEF NestShape, Nested, Alive, JoinsClosed, InputGone,
     Closing, ConnectsClosed, HolderCloses, Tops, Locks, Covers, Covered, Handles, Seen, Popped
<1>11. FirstLife' /\ NoFaultFirst' /\ NoFaultPolled'
  BY <1>1, <1>2, <1>3, <1>4, <1>5, <1>6 DEF FirstLife, AskSent, AskAnswered, BufferAsks, Simple,
     NoFaultFirst, Calm, Closing, Receiver, NoFaultPolled, InputWaits, Seen, Popped
<1>12. MainCalm' /\ MainReconnects' /\ MainOpens'
  BY <1>1, <1>2, <1>3, <1>4, <1>5, <1>6 DEF MainCalm, MainGoesOn, Second1, First1, Calm, Closing,
     AskSent, AskAnswered, BufferAsks, Simple, Alone, MainReconnects, MainOpens, BothBusy, Nets,
     TimerAsks, Seen, Popped
<1>13. SetupCalm' /\ OneAsks' /\ Coming' /\ ChallengeComing'
  BY <1>1, <1>2, <1>3, <1>4, <1>5, <1>6 DEF SetupCalm, SetsUp, Receiver, Nested, OneAsks, InputAsks,
     QueueAsks, BufferAsks, AskSent, AskAnswered, Coming, Nets, ChallengeComing, FirstAsked,
     BothBusy, Alone, TimerAsks, Seen, Popped
<1>14. BothBusy' /\ TimerPolls' /\ TimerReopens' /\ TimerCalm'
  BY <1>1, <1>2, <1>3, <1>4, <1>5, <1>6, <1>9 DEF BothBusy, Nets, Alone, TimerAsks, TimerPolls,
     Fired, AfterSetup, NoHarm, Reopens, Calm, Closing, First1, AskSent, AskAnswered, Simple,
     BufferAsks, Alive, TimerReopens, TimerCalm, TimerSetsUp, OldAsks, FirstAsked, Covers, Covered,
     Handles, Seen, Popped
<1>15. StatusTold' /\ ConnectedTold' /\ MineWaits' /\ NothingAsked'
  BY <1>1, <1>2, <1>3, <1>4, <1>5, <1>6, <1>9 DEF StatusTold, Closing, Told, ConnectedTold,
     MineWaits, NothingAsked, Nets, Alone, Covers, Covered, Handles, Seen, Popped
<1> QED BY <1>7, <1>8, <1>10, <1>11, <1>12, <1>13, <1>14, <1>15

\* The poll: request_challenge is not written.
LEMMA GetChallengeFailsTimer ==
  ASSUME Sound, Good, Live, Sound', Live', GetChallengeFails("timer")
  PROVE  Good'
<1>1. /\ Tops /\ Covers /\ Unstuck /\ Locks /\ Queues /\ TypeOK
      /\ Unstuck' /\ Locks' /\ Queues' /\ TypeOK' /\ faults \in {0, 1} /\ faults' \in {0, 1}
  BY AllKnown
<1> USE DEF Good, Live
<1>2. /\ timer # <<>> /\ Top(timer) = "getchallenge" /\ main' = main /\ input' = input
      /\ ((open /\ faults = 0 /\ faults' = 1) \/ (~open /\ faults' = faults))
      /\ SameCmds(buffer, buffer', TRUE) /\ emutex' = "timer"
      /\ emutex = "free" /\ NeedsChallenge /\ Goes2(timer, timer', "close", "release")
  <2>1. timer # <<>> /\ Top(timer) = "getchallenge" /\ emutex = "free"
    BY AtTop DEF GetChallengeFails, EngineFree, timer
  <2>2. SameCmds(buffer, buffer', TRUE)
    BY <1>1, Challenged DEF GetChallengeFails, NeedsChallenge
  <2>3. (open /\ faults = 0 /\ faults' = 1) \/ (~open /\ faults' = faults)
    BY <1>1, OneFault DEF GetChallengeFails, SendFails, SameWorld, worldVars
  <2> QED BY Zenon, <1>1, <2>1, <2>2, <2>3, TimerGoes DEF GetChallengeFails, Done, Operations
<1>3. UNCHANGED <<secure, status, open, polling, told, toServer, toBot>>
  BY DEF GetChallengeFails, Same, SameLink, linkVars, SameEngine, engineVars, SameNet, netVars,
     SameWorld, worldVars
<1>4. main = <<>> \/ (Top(main) = "receiving" /\ Nets /\ Alone(input, "read"))
  BY <1>2 DEF BothBusy
<1>5. /\ <<Top(timer), Second(timer)>> \in TimerNext
      /\ Second(timer) \in {"end", "updated", "wait"}
      /\ "disconnect" \notin Below(timer) /\ Below(timer) \subseteq {"updated", "read", "wait"}
  <2>1. Follows(timer, TimerNext) /\ "disconnect" \notin Below(timer)
    BY <1>1, <1>2 DEF Tops, OnlyMainNests
  <2>2. Second(timer) \in {"end", "updated", "wait"}
    BY <1>2, <2>1 DEF Follows, TimerNext
  <2>3. "disconnect" \notin Below(timer) /\ Below(timer) \subseteq {"updated", "read", "wait"}
    BY <1>1, <1>2, <2>1, Zenon DEF Tops, Follows, Over, Beneath, Handles, Seen
  <2> QED BY <1>2, <2>1, <2>2, <2>3 DEF Follows
<1>6. /\ Seen(main) /\ Seen(timer) /\ Seen(input) /\ Seen(timer')
      /\ emutex = "free" /\ NeedsChallenge /\ Becomes2(timer, timer', "close", "release")
  BY <1>1, <1>2 DEF Tops, Goes2
<1>7. TimerShape'
  BY <1>1, <1>2, <1>3, <1>5, <1>6 DEF TimerShape, TimerNext, Over, Handles, Beneath, Operations,
     Goes2, TimerCalm, TimerSetsUp, Simple, Calm, Closing, AskSent, AskAnswered, OldAsks,
     BufferAsks, FirstAsked, Nets, Alone, Becomes2, Seen
<1>8. MainShape' /\ InputShape' /\ OnlyMainNests'
  BY <1>2, <1>3, <1>4, <1>5, <1>6 DEF MainShape, NextOfMain, InputShape, OnlyMainNests, Becomes2
<1>9. Tops' /\ Covers'
  BY <1>7, <1>8, TopsKnown, CoversKnown, PTL
<1>10. NestShape' /\ JoinsClosed' /\ InputGone' /\ ConnectsClosed' /\ HolderCloses'
  BY <1>1, <1>2, <1>3, <1>4, <1>5, <1>6, <1>9 DEF NestShape, Nested, Alive, JoinsClosed, InputGone,
     Closing, ConnectsClosed, HolderCloses, Tops, Locks, SameCmds, Queues, Seen, Becomes2
<1>11. FirstLife' /\ NoFaultFirst' /\ NoFaultPolled'
  BY <1>1, <1>2, <1>3, <1>4, <1>5, <1>6 DEF FirstLife, AskSent, AskAnswered, BufferAsks, Simple,
     NoFaultFirst, Calm, Closing, Receiver, NoFaultPolled, InputWaits, SameCmds, Queues, Seen,
     Becomes2
<1>12. MainCalm' /\ MainReconnects' /\ MainOpens'
  BY <1>1, <1>2, <1>3, <1>4, <1>5, <1>6 DEF MainCalm, MainGoesOn, Second1, First1, Calm, Closing,
     AskSent, AskAnswered, BufferAsks, Simple, Alone, MainReconnects, MainOpens, BothBusy, Nets,
     TimerAsks, Unstuck, Leaves, Closes, SameCmds, Queues, Seen, Becomes2
<1>13. SetupCalm' /\ OneAsks' /\ Coming' /\ ChallengeComing'
  BY <1>1, <1>2, <1>3, <1>4, <1>5, <1>6 DEF NoFaultPolled, Calm, Closing, InputWaits, SetupCalm,
     SetsUp, Receiver, Nested, OneAsks, InputAsks, QueueAsks, BufferAsks, AskSent, AskAnswered,
     Coming, Nets, ChallengeComing, FirstAsked, BothBusy, Alone, TimerAsks, Unstuck, Leaves, Closes,
     SameCmds, Queues, Seen, Becomes2
<1>14. BothBusy' /\ TimerPolls' /\ TimerReopens' /\ TimerCalm'
  BY <1>1, <1>2, <1>3, <1>4, <1>5, <1>6, <1>9 DEF FirstLife, AskSent, AskAnswered, BufferAsks,
     Simple, NoFaultPolled, Calm, Closing, InputWaits, BothBusy, Nets, Alone, TimerAsks, TimerPolls,
     Fired, AfterSetup, NoHarm, Reopens, First1, Alive, TimerReopens, TimerCalm, TimerSetsUp,
     OldAsks, FirstAsked, Unstuck, Leaves, Closes, Covers, Covered, Handles, SameCmds, Queues, Seen,
     Becomes2
<1>15. StatusTold' /\ ConnectedTold' /\ MineWaits' /\ NothingAsked'
  BY <1>1, <1>2, <1>3, <1>4, <1>5, <1>6 DEF StatusTold, Closing, Told, ConnectedTold, MineWaits,
     NothingAsked, Nets, Alone, SameCmds, Queues, Seen, Becomes2
<1> QED BY <1>7, <1>8, <1>10, <1>11, <1>12, <1>13, <1>14, <1>15

\* The poll: request_challenge unlocks the mutex.
LEMMA ReleaseTimer ==
  ASSUME Sound, Good, Live, Sound', Live', Release("timer")
  PROVE  Good'
<1>1. /\ Tops /\ Covers /\ Unstuck /\ Locks /\ Queues /\ TypeOK
      /\ Unstuck' /\ Locks' /\ Queues' /\ TypeOK' /\ faults \in {0, 1} /\ faults' \in {0, 1}
  BY AllKnown
<1> USE DEF Good, Live
<1>2. /\ timer # <<>> /\ Top(timer) = "release" /\ main' = main /\ input' = input
      /\ emutex' = "free" /\ Goes0(timer, timer')
  BY Zenon, <1>1, TimerGoes, AtTop DEF Release, Done, Sound, timer, Operations
<1>3. UNCHANGED <<secure, status, open, polling, told, buffer, toServer, toBot, faults>>
  BY DEF Release, Same, SameLink, linkVars, SameEngine, engineVars, SameNet, netVars, SameWorld,
     worldVars
<1>4. main = <<>> \/ (Top(main) = "receiving" /\ Nets /\ Alone(input, "read"))
  BY <1>2 DEF BothBusy
<1>5. /\ <<Top(timer), Second(timer)>> \in TimerNext
      /\ Second(timer) \in {"end"}
      /\ "disconnect" \notin Below(timer) /\ Below(timer) \subseteq {"updated", "read", "wait"}
  <2>1. Follows(timer, TimerNext) /\ "disconnect" \notin Below(timer)
    BY <1>1, <1>2 DEF Tops, OnlyMainNests
  <2>2. Second(timer) \in {"end"}
    BY <1>2, <2>1 DEF Follows, TimerNext
  <2>3. "disconnect" \notin Below(timer) /\ Below(timer) \subseteq {"updated", "read", "wait"}
    BY <1>1, <1>2, <2>1, Zenon DEF Tops, Follows, Over, Beneath, Handles, Seen
  <2> QED BY <1>2, <2>1, <2>2, <2>3 DEF Follows
<1>6. /\ Seen(main) /\ Seen(timer) /\ Seen(input) /\ Seen(timer')
      /\ emutex' = "free" /\ Popped(timer, timer')
  BY <1>1, <1>2 DEF Tops, Goes0
<1>7. TimerShape'
  BY <1>2, <1>3, <1>5 DEF TimerShape, TimerNext, Over, Handles, Beneath, Operations, Goes0
<1>8. MainShape' /\ InputShape' /\ OnlyMainNests'
  BY <1>2, <1>3, <1>4, <1>5, <1>6 DEF MainShape, NextOfMain, InputShape, OnlyMainNests, Popped
<1>9. Tops' /\ Covers'
  BY <1>7, <1>8, TopsKnown, CoversKnown, PTL
<1>10. NestShape' /\ JoinsClosed' /\ InputGone' /\ ConnectsClosed' /\ HolderCloses'
  BY <1>1, <1>2, <1>3, <1>4, <1>5, <1>6, <1>9 DEF NestShape, Nested, Alive, JoinsClosed, InputGone,
     Closing, ConnectsClosed, HolderCloses, BothBusy, Nets, Alone, TimerAsks, Tops, Locks, Covers,
     Covered, Handles, Seen, Popped
<1>11. FirstLife' /\ NoFaultFirst' /\ NoFaultPolled'
  BY <1>1, <1>2, <1>3, <1>4, <1>5, <1>6 DEF FirstLife, AskSent, AskAnswered, BufferAsks, Simple,
     NoFaultFirst, Calm, Closing, Receiver, NoFaultPolled, InputWaits, Seen, Popped
<1>12. MainCalm' /\ MainReconnects' /\ MainOpens'
  BY <1>1, <1>2, <1>3, <1>4, <1>5, <1>6 DEF MainCalm, MainGoesOn, Second1, First1, Calm, Closing,
     AskSent, AskAnswered, BufferAsks, Simple, Alone, MainReconnects, MainOpens, BothBusy, Nets,
     TimerAsks, Seen, Popped
<1>13. SetupCalm' /\ OneAsks' /\ Coming' /\ ChallengeComing'
  BY <1>1, <1>2, <1>3, <1>4, <1>5, <1>6, <1>9 DEF SetupCalm, SetsUp, Receiver, Nested, OneAsks,
     InputAsks, QueueAsks, BufferAsks, AskSent, AskAnswered, Coming, Nets, ChallengeComing,
     FirstAsked, BothBusy, Alone, TimerAsks, Covers, Covered, Handles, Seen, Popped
<1>14. BothBusy' /\ TimerPolls' /\ TimerReopens' /\ TimerCalm'
  BY <1>1, <1>2, <1>3, <1>4, <1>5, <1>6, <1>9 DEF BothBusy, Nets, Alone, TimerAsks, TimerPolls,
     Fired, AfterSetup, NoHarm, Reopens, Calm, Closing, First1, AskSent, AskAnswered, Simple,
     BufferAsks, Alive, TimerReopens, TimerCalm, TimerSetsUp, OldAsks, FirstAsked, Covers, Covered,
     Handles, Seen, Popped
<1>15. StatusTold' /\ ConnectedTold' /\ MineWaits' /\ NothingAsked'
  BY <1>1, <1>2, <1>3, <1>4, <1>5, <1>6, <1>9 DEF StatusTold, Closing, Told, ConnectedTold,
     MineWaits, NothingAsked, Nets, Alone, Covers, Covered, Handles, Seen, Popped
<1> QED BY <1>7, <1>8, <1>10, <1>11, <1>12, <1>13, <1>14, <1>15

\* The poll: sync_read.
LEMMA SyncTimer ==
  ASSUME Sound, Good, Live, Sound', Live', Sync("timer")
  PROVE  Good'
<1>1. /\ Tops /\ Covers /\ Unstuck /\ Locks /\ Queues /\ TypeOK
      /\ Unstuck' /\ Locks' /\ Queues' /\ TypeOK' /\ faults \in {0, 1} /\ faults' \in {0, 1}
  BY AllKnown
<1> USE DEF Good, Live
<1>2. /\ timer # <<>> /\ Top(timer) = "sync" /\ main' = main /\ input' = input
      /\ \/ open /\ Goes1(timer, timer', "receiving")
         \/ ~open /\ Goes2(timer, timer', "close", "close")
  BY Zenon, <1>1, TimerGoes, AtTop DEF Sync, Done, Sound, timer, Operations
<1>3. UNCHANGED <<secure, status, open, polling, told, emutex, buffer, toServer, toBot, faults>>
  BY DEF Sync, Same, SameLink, linkVars, SameEngine, engineVars, SameNet, netVars, SameWorld,
     worldVars
<1>4. main = <<>> \/ (Top(main) = "receiving" /\ Nets /\ Alone(input, "read"))
  BY <1>2 DEF BothBusy
<1>5. /\ <<Top(timer), Second(timer)>> \in TimerNext
      /\ Second(timer) \in {"updated"}
      /\ "disconnect" \notin Below(timer) /\ Below(timer) \subseteq {"updated", "read"}
  <2>1. Follows(timer, TimerNext) /\ "disconnect" \notin Below(timer)
    BY <1>1, <1>2 DEF Tops, OnlyMainNests
  <2>2. Second(timer) \in {"updated"}
    BY <1>2, <2>1 DEF Follows, TimerNext
  <2>3. "disconnect" \notin Below(timer) /\ Below(timer) \subseteq {"updated", "read"}
    BY <1>1, <1>2, <2>1, Zenon DEF Tops, Follows, Over, Beneath, Handles, Seen
  <2> QED BY <1>2, <2>1, <2>2, <2>3 DEF Follows
<1>6. /\ Seen(main) /\ Seen(timer) /\ Seen(input) /\ Seen(timer')
      /\ \/ open /\ Becomes(timer, timer', "receiving")
         \/ ~open /\ Becomes2(timer, timer', "close", "close")
  BY <1>1, <1>2 DEF Tops, Goes1, Goes2
<1>7. TimerShape'
  BY <1>1, <1>2, <1>3, <1>5, <1>6 DEF TimerShape, TimerNext, Over, Handles, Beneath, Operations,
     Goes1, Goes2, TimerCalm, TimerSetsUp, Simple, Calm, Closing, AskSent, AskAnswered, OldAsks,
     BufferAsks, FirstAsked, Nets, Alone, Becomes, Becomes2, Seen
<1>8. MainShape' /\ InputShape' /\ OnlyMainNests'
  BY <1>2, <1>3, <1>4, <1>5, <1>6 DEF MainShape, NextOfMain, InputShape, OnlyMainNests, Becomes,
     Becomes2
<1>9. Tops' /\ Covers'
  BY <1>7, <1>8, TopsKnown, CoversKnown, PTL
<1>10. NestShape' /\ JoinsClosed' /\ InputGone' /\ ConnectsClosed' /\ HolderCloses'
  BY <1>1, <1>2, <1>3, <1>4, <1>5, <1>6, <1>9 DEF NestShape, Nested, Alive, JoinsClosed, InputGone,
     Closing, ConnectsClosed, HolderCloses, BothBusy, Nets, Alone, TimerAsks, Tops, Locks, Covers,
     Covered, Handles, Seen, Becomes, Becomes2
<1>11. FirstLife' /\ NoFaultFirst' /\ NoFaultPolled'
  BY <1>1, <1>2, <1>3, <1>4, <1>5, <1>6 DEF FirstLife, AskSent, AskAnswered, BufferAsks, Simple,
     NoFaultFirst, Calm, Closing, Receiver, NoFaultPolled, InputWaits, TimerCalm, TimerSetsUp,
     OldAsks, FirstAsked, Nets, Alone, Seen, Becomes, Becomes2
<1>12. MainCalm' /\ MainReconnects' /\ MainOpens'
  BY <1>1, <1>2, <1>3, <1>4, <1>5, <1>6 DEF ConnectsClosed, MainCalm, MainGoesOn, Second1, First1,
     Calm, Closing, AskSent, AskAnswered, BufferAsks, Simple, Alone, MainReconnects, MainOpens,
     BothBusy, Nets, TimerAsks, TimerCalm, TimerSetsUp, OldAsks, FirstAsked, Seen, Becomes, Becomes2
<1>13. SetupCalm' /\ OneAsks' /\ Coming' /\ ChallengeComing'
  BY <1>1, <1>2, <1>3, <1>4, <1>5, <1>6, <1>9 DEF SetupCalm, SetsUp, Receiver, Nested, OneAsks,
     InputAsks, QueueAsks, BufferAsks, AskSent, AskAnswered, Coming, Nets, ChallengeComing,
     FirstAsked, BothBusy, Alone, TimerAsks, Covers, Covered, Handles, Seen, Becomes, Becomes2
<1>14. BothBusy' /\ TimerPolls' /\ TimerReopens' /\ TimerCalm'
  BY <1>1, <1>2, <1>3, <1>4, <1>5, <1>6 DEF BothBusy, Nets, Alone, TimerAsks, TimerPolls, Fired,
     AfterSetup, NoHarm, Reopens, Calm, Closing, First1, AskSent, AskAnswered, Simple, BufferAsks,
     Alive, TimerReopens, TimerCalm, TimerSetsUp, OldAsks, FirstAsked, Seen, Becomes, Becomes2
<1>15. StatusTold' /\ ConnectedTold' /\ MineWaits' /\ NothingAsked'
  BY <1>1, <1>2, <1>3, <1>4, <1>5, <1>6 DEF TimerCalm, TimerSetsUp, Simple, Calm, Closing, AskSent,
     AskAnswered, OldAsks, BufferAsks, FirstAsked, Nets, Alone, StatusTold, Told, ConnectedTold,
     MineWaits, NothingAsked, Seen, Becomes, Becomes2
<1> QED BY <1>7, <1>8, <1>10, <1>11, <1>12, <1>13, <1>14, <1>15

\* The poll: sync_read receives a datagram.
LEMMA SyncReceivesTimer ==
  ASSUME Sound, Good, Live, Sound', Live', SyncReceives("timer")
  PROVE  Good'
<1>1. /\ Tops /\ Covers /\ Unstuck /\ Locks /\ Queues /\ TypeOK
      /\ Unstuck' /\ Locks' /\ Queues' /\ TypeOK' /\ faults \in {0, 1} /\ faults' \in {0, 1}
  BY AllKnown
<1> USE DEF Good, Live
<1>2. /\ timer # <<>> /\ Top(timer) = "receiving" /\ main' = main /\ input' = input
      /\ open /\ Removed(toBot, toBot', {"mine", "others"}) /\ Head(toBot) \in Answers
      /\ status' = IF status = "WAITING" THEN "CONNECTING" ELSE status
      /\ \/ Head(toBot) = "ack" /\ Goes0(timer, timer')
         \/ Head(toBot) # "ack" /\ Goes1(timer, timer', Head(toBot))
  <2>1. At("timer", "receiving") /\ Receive("timer", Tail(todo["timer"]))
    BY DEF SyncReceives
  <2>2. timer # <<>> /\ Top(timer) = "receiving" /\ todo["timer"] = timer
    BY <2>1, AtTop DEF Sound, timer
  <2> QED BY <1>1, <2>1, <2>2, Receives DEF Receive, Threads, main, timer, input
<1>3. UNCHANGED <<secure, open, polling, told, emutex, buffer, toServer, faults>>
  BY DEF SyncReceives, Receive, Same, SameLink, linkVars, SameEngine, engineVars, SameNet, netVars,
     SameWorld, worldVars
<1>4. main = <<>> \/ (Top(main) = "receiving" /\ Nets /\ Alone(input, "read"))
  BY <1>2 DEF BothBusy
<1>5. /\ <<Top(timer), Second(timer)>> \in TimerNext
      /\ Second(timer) \in {"updated"}
      /\ "disconnect" \notin Below(timer) /\ Below(timer) \subseteq {"updated", "read"}
  <2>1. Follows(timer, TimerNext) /\ "disconnect" \notin Below(timer)
    BY <1>1, <1>2 DEF Tops, OnlyMainNests
  <2>2. Second(timer) \in {"updated"}
    BY <1>2, <2>1 DEF Follows, TimerNext
  <2>3. "disconnect" \notin Below(timer) /\ Below(timer) \subseteq {"updated", "read"}
    BY <1>1, <1>2, <2>1, Zenon DEF Tops, Follows, Over, Beneath, Handles, Seen
  <2> QED BY <1>2, <2>1, <2>2, <2>3 DEF Follows
<1>6. /\ Seen(main) /\ Seen(timer) /\ Seen(input) /\ Seen(timer')
      /\ \/ Head(toBot) = "ack" /\ Popped(timer, timer')
         \/ Head(toBot) # "ack" /\ Becomes(timer, timer', Head(toBot))
  BY <1>1, <1>2 DEF Tops, Goes0, Goes1
<1>7. TimerShape'
  <2>1. Head(toBot) \in {"ack", "challenge"}
    BY <1>2, <1>5, <1>6 DEF TimerCalm, TimerSetsUp, AskAnswered, Removed, Answers
  <2> QED BY <1>2, <1>3, <1>5, <2>1 DEF TimerShape, TimerNext, Over, Handles, Beneath, Operations,
     Goes0, Goes1
<1>8. MainShape' /\ InputShape' /\ OnlyMainNests'
  BY <1>2, <1>3, <1>4, <1>5, <1>6 DEF MainShape, NextOfMain, InputShape, OnlyMainNests, Becomes,
     Popped
<1>9. Tops' /\ Covers'
  BY <1>7, <1>8, TopsKnown, CoversKnown, PTL
<1>10. NestShape' /\ JoinsClosed' /\ InputGone' /\ ConnectsClosed' /\ HolderCloses'
  BY <1>1, <1>2, <1>3, <1>4, <1>5, <1>6, <1>9 DEF NestShape, Nested, Alive, JoinsClosed, InputGone,
     Closing, ConnectsClosed, HolderCloses, BothBusy, Nets, Alone, TimerAsks, Tops, Locks, Covers,
     Covered, Handles, Answers, Removed, Queues, Seen, Becomes, Popped
<1>11. FirstLife' /\ NoFaultFirst' /\ NoFaultPolled'
  BY <1>1, <1>2, <1>3, <1>4, <1>5, <1>6 DEF FirstLife, AskSent, AskAnswered, BufferAsks, Simple,
     NoFaultFirst, Calm, Closing, Receiver, NoFaultPolled, InputWaits, TimerCalm, TimerSetsUp,
     OldAsks, FirstAsked, Nets, Alone, Answers, Removed, Queues, Seen, Becomes, Popped
<1>12. MainCalm' /\ MainReconnects' /\ MainOpens'
  BY <1>1, <1>2, <1>3, <1>4, <1>5, <1>6 DEF ConnectsClosed, MainCalm, MainGoesOn, Second1, First1,
     Calm, Closing, AskSent, AskAnswered, BufferAsks, Simple, Alone, MainReconnects, MainOpens,
     BothBusy, Nets, TimerAsks, TimerCalm, TimerSetsUp, OldAsks, FirstAsked, Answers, Removed,
     Queues, Seen, Becomes, Popped
<1>13. SetupCalm' /\ OneAsks' /\ Coming' /\ ChallengeComing'
  BY <1>1, <1>2, <1>3, <1>4, <1>5, <1>6 DEF SetupCalm, SetsUp, Receiver, Nested, OneAsks, InputAsks,
     QueueAsks, BufferAsks, AskSent, AskAnswered, Coming, Nets, ChallengeComing, FirstAsked,
     BothBusy, Alone, TimerAsks, Answers, Removed, Queues, Seen, Becomes, Popped
<1>14. BothBusy' /\ TimerPolls' /\ TimerReopens' /\ TimerCalm'
  BY <1>1, <1>2, <1>3, <1>4, <1>5, <1>6, <1>9 DEF BothBusy, Nets, Alone, TimerAsks, TimerPolls,
     Fired, AfterSetup, NoHarm, Reopens, Calm, Closing, First1, AskSent, AskAnswered, Simple,
     BufferAsks, Alive, TimerReopens, TimerCalm, TimerSetsUp, OldAsks, FirstAsked, Covers, Covered,
     Handles, Answers, Removed, Queues, Seen, Becomes, Popped
<1>15. StatusTold' /\ ConnectedTold' /\ MineWaits' /\ NothingAsked'
  BY <1>1, <1>2, <1>3, <1>4, <1>5, <1>6, <1>9 DEF TimerCalm, TimerSetsUp, Simple, Calm, Closing,
     AskSent, AskAnswered, OldAsks, BufferAsks, FirstAsked, Nets, Alone, StatusTold, Told,
     ConnectedTold, MineWaits, NothingAsked, Covers, Covered, Handles, Answers, Removed, Queues,
     Seen, Becomes, Popped
<1> QED BY <1>7, <1>8, <1>10, <1>11, <1>12, <1>13, <1>14, <1>15

\* The poll: sync_read is refused, which does not happen.
LEMMA SyncRefusedTimer ==
  ASSUME Sound, Good, Live, Sound', Live', SyncRefused("timer")
  PROVE  FALSE
<1>1. /\ Tops /\ Covers /\ Unstuck /\ Locks /\ Queues /\ TypeOK
      /\ Unstuck' /\ Locks' /\ Queues' /\ TypeOK' /\ faults \in {0, 1} /\ faults' \in {0, 1}
  BY AllKnown
<1> USE DEF Good, Live
<1>2. /\ timer # <<>> /\ Top(timer) = "receiving" /\ main' = main /\ input' = input
      /\ open /\ faults = 0 /\ faults' = 1 /\ Goes2(timer, timer', "close", "close")
  BY Zenon, <1>1, TimerGoes, AtTop, OneFault DEF SyncRefused, Done, Sound, timer, Operations
<1> QED
  BY <1>1, <1>2 DEF TimerCalm, TimerSetsUp, Simple, Calm, Closing, AskSent, AskAnswered, OldAsks,
     BufferAsks, FirstAsked, Nets, Alone, Seen, Tops

\* The poll: handle_challenge sends the first command.
LEMMA ChallengeSendsTimer ==
  ASSUME Sound, Good, Live, Sound', Live', ChallengeSends("timer")
  PROVE  Good'
<1>1. /\ Tops /\ Covers /\ Unstuck /\ Locks /\ Queues /\ TypeOK
      /\ Unstuck' /\ Locks' /\ Queues' /\ TypeOK' /\ faults \in {0, 1} /\ faults' \in {0, 1}
  BY AllKnown
<1> USE DEF Good, Live
<1>2. /\ timer # <<>> /\ Top(timer) = "challenge" /\ main' = main /\ input' = input
      /\ OneLess(buffer, buffer') /\ emutex = "free" /\ Head(buffer).challenged /\ open
      /\ Added(toServer, toServer', Head(buffer).cmd, {"ask"})
      /\ \/ Len(buffer) > 1 /\ Goes1(timer, timer', "getchallenge")
         \/ ~(Len(buffer) > 1) /\ Goes0(timer, timer')
  <2>1. /\ timer # <<>> /\ Top(timer) = "challenge" /\ emutex = "free"
        /\ Head(buffer).challenged /\ OneLess(buffer, buffer')
    BY <1>1, AtTop, SentOff DEF ChallengeSends, Challenge, EngineFree, Threads, timer
  <2>2. Added(toServer, toServer', Head(buffer).cmd, {"ask"})
    BY <1>1, <2>1, Sent DEF ChallengeSends, OneLess
  <2> QED BY Zenon, <1>1, <2>1, <2>2, TimerGoes DEF ChallengeSends, Operations
<1>3. UNCHANGED <<secure, status, open, polling, told, emutex, toBot, faults>>
  BY DEF ChallengeSends, Challenge, Same, SameLink, linkVars, SameEngine, engineVars, SameNet,
     netVars, SameWorld, worldVars
<1>4. main = <<>> \/ (Top(main) = "receiving" /\ Nets /\ Alone(input, "read"))
  BY <1>2 DEF BothBusy
<1>5. /\ <<Top(timer), Second(timer)>> \in TimerNext
      /\ Second(timer) \in {"updated"}
      /\ "disconnect" \notin Below(timer) /\ Below(timer) \subseteq {"updated", "read"}
  <2>1. Follows(timer, TimerNext) /\ "disconnect" \notin Below(timer)
    BY <1>1, <1>2 DEF Tops, OnlyMainNests
  <2>2. Second(timer) \in {"updated"}
    BY <1>2, <2>1 DEF Follows, TimerNext
  <2>3. "disconnect" \notin Below(timer) /\ Below(timer) \subseteq {"updated", "read"}
    BY <1>1, <1>2, <2>1, Zenon DEF Tops, Follows, Over, Beneath, Handles, Seen
  <2> QED BY <1>2, <2>1, <2>2, <2>3 DEF Follows
<1>6. /\ Seen(main) /\ Seen(timer) /\ Seen(input) /\ Seen(timer')
      /\ \/ Len(buffer) > 1 /\ Becomes(timer, timer', "getchallenge")
         \/ ~(Len(buffer) > 1) /\ Popped(timer, timer')
  BY <1>1, <1>2 DEF Tops, Goes0, Goes1
<1>7. TimerShape'
  BY <1>2, <1>3, <1>5 DEF TimerShape, TimerNext, Over, Handles, Beneath, Operations, Goes0, Goes1
<1>8. MainShape' /\ InputShape' /\ OnlyMainNests'
  BY <1>2, <1>3, <1>4, <1>5, <1>6 DEF MainShape, NextOfMain, InputShape, OnlyMainNests, Becomes,
     Popped
<1>9. Tops' /\ Covers'
  BY <1>7, <1>8, TopsKnown, CoversKnown, PTL
<1>10. NestShape' /\ JoinsClosed' /\ InputGone' /\ ConnectsClosed' /\ HolderCloses'
  BY <1>1, <1>2, <1>3, <1>4, <1>5, <1>6, <1>9 DEF NestShape, Nested, Alive, JoinsClosed, InputGone,
     Closing, ConnectsClosed, HolderCloses, BothBusy, Nets, Alone, TimerAsks, Tops, Locks, Covers,
     Covered, Handles, Added, Queues, OneLess, Seen, Becomes, Popped
<1>11. FirstLife' /\ NoFaultFirst' /\ NoFaultPolled'
  BY <1>1, <1>2, <1>3, <1>4, <1>5, <1>6 DEF FirstLife, AskSent, AskAnswered, BufferAsks, Simple,
     NoFaultFirst, Calm, Closing, Receiver, NoFaultPolled, InputWaits, TimerCalm, TimerSetsUp,
     OldAsks, FirstAsked, Nets, Alone, Added, Queues, OneLess, Seen, Becomes, Popped
<1>12. MainCalm' /\ MainReconnects' /\ MainOpens'
  BY <1>1, <1>2, <1>3, <1>4, <1>5, <1>6 DEF ConnectsClosed, MainCalm, MainGoesOn, Second1, First1,
     Calm, Closing, AskSent, AskAnswered, BufferAsks, Simple, Alone, MainReconnects, MainOpens,
     BothBusy, Nets, TimerAsks, TimerCalm, TimerSetsUp, OldAsks, FirstAsked, Added, Queues, OneLess,
     Seen, Becomes, Popped
<1>13. SetupCalm' /\ OneAsks' /\ Coming' /\ ChallengeComing'
  BY <1>1, <1>2, <1>3, <1>4, <1>5, <1>6, <1>9 DEF SetupCalm, SetsUp, Receiver, Nested, OneAsks,
     InputAsks, QueueAsks, BufferAsks, AskSent, AskAnswered, Coming, Nets, ChallengeComing,
     FirstAsked, BothBusy, Alone, TimerAsks, Covers, Covered, Handles, Added, Queues, OneLess, Seen,
     Becomes, Popped
<1>14. BothBusy' /\ TimerPolls' /\ TimerReopens' /\ TimerCalm'
  BY <1>1, <1>2, <1>3, <1>4, <1>5, <1>6, <1>9 DEF BothBusy, Nets, Alone, TimerAsks, TimerPolls,
     Fired, AfterSetup, NoHarm, Reopens, Calm, Closing, First1, AskSent, AskAnswered, Simple,
     BufferAsks, Alive, TimerReopens, TimerCalm, TimerSetsUp, OldAsks, FirstAsked, Covers, Covered,
     Handles, Added, Queues, OneLess, Seen, Becomes, Popped
<1>15. StatusTold' /\ ConnectedTold' /\ MineWaits' /\ NothingAsked'
  BY <1>1, <1>2, <1>3, <1>4, <1>5, <1>6, <1>9 DEF TimerCalm, TimerSetsUp, Simple, Calm, Closing,
     AskSent, AskAnswered, OldAsks, BufferAsks, FirstAsked, Nets, Alone, StatusTold, Told,
     ConnectedTold, MineWaits, NothingAsked, Covers, Covered, Handles, Added, Queues, OneLess, Seen,
     Becomes, Popped
<1> QED BY <1>7, <1>8, <1>10, <1>11, <1>12, <1>13, <1>14, <1>15

\* The poll: handle_challenge fails to send the first command, which does not happen.
LEMMA ChallengeRefusedTimer ==
  ASSUME Sound, Good, Live, Sound', Live', ChallengeRefused("timer")
  PROVE  FALSE
<1>1. /\ Tops /\ Covers /\ Unstuck /\ Locks /\ Queues /\ TypeOK
      /\ Unstuck' /\ Locks' /\ Queues' /\ TypeOK' /\ faults \in {0, 1} /\ faults' \in {0, 1}
  BY AllKnown
<1> USE DEF Good, Live
<1>2. /\ timer # <<>> /\ Top(timer) = "challenge" /\ main' = main /\ input' = input
      /\ OneLess(buffer, buffer') /\ emutex = "free" /\ Head(buffer).challenged
      /\ ((open /\ faults = 0 /\ faults' = 1) \/ (~open /\ faults' = faults))
      /\ \/ Len(buffer) > 1 /\ Goes2(timer, timer', "close", "getchallenge")
         \/ ~(Len(buffer) > 1) /\ Goes1(timer, timer', "close")
  <2>1. /\ timer # <<>> /\ Top(timer) = "challenge" /\ emutex = "free"
        /\ Head(buffer).challenged /\ OneLess(buffer, buffer')
    BY <1>1, AtTop, SentOff DEF ChallengeRefused, Challenge, EngineFree, Threads, timer
  <2>2. (open /\ faults = 0 /\ faults' = 1) \/ (~open /\ faults' = faults)
    BY <1>1, OneFault DEF ChallengeRefused, SendFails, SameWorld, worldVars
  <2> QED BY Zenon, <1>1, <2>1, <2>2, TimerGoes DEF ChallengeRefused, Operations
<1> QED
  BY <1>1, <1>2 DEF TimerCalm, TimerSetsUp, Simple, Calm, Closing, AskSent, AskAnswered, OldAsks,
     BufferAsks, FirstAsked, Nets, Alone, Seen, Tops

\* The poll: handle_challenge has nothing to send.
LEMMA ChallengeUnusedTimer ==
  ASSUME Sound, Good, Live, Sound', Live', ChallengeUnused("timer")
  PROVE  Good'
<1>1. /\ Tops /\ Covers /\ Unstuck /\ Locks /\ Queues /\ TypeOK
      /\ Unstuck' /\ Locks' /\ Queues' /\ TypeOK' /\ faults \in {0, 1} /\ faults' \in {0, 1}
  BY AllKnown
<1> USE DEF Good, Live
<1>2. /\ timer # <<>> /\ Top(timer) = "challenge" /\ main' = main /\ input' = input
      /\ emutex = "free"
      /\ \/ buffer = <<>> /\ Goes0(timer, timer')
         \/ buffer # <<>> /\ ~Head(buffer).challenged /\ Goes1(timer, timer', "getchallenge")
  BY Zenon, <1>1, TimerGoes, AtTop DEF ChallengeUnused, EngineFree, Done, Sound, timer, Operations
<1>3. UNCHANGED <<secure, status, open, polling, told, emutex, buffer, toServer, toBot, faults>>
  BY DEF ChallengeUnused, Same, SameLink, linkVars, SameEngine, engineVars, SameNet, netVars,
     SameWorld, worldVars
<1>4. main = <<>> \/ (Top(main) = "receiving" /\ Nets /\ Alone(input, "read"))
  BY <1>2 DEF BothBusy
<1>5. /\ <<Top(timer), Second(timer)>> \in TimerNext
      /\ Second(timer) \in {"updated"}
      /\ "disconnect" \notin Below(timer) /\ Below(timer) \subseteq {"updated", "read"}
  <2>1. Follows(timer, TimerNext) /\ "disconnect" \notin Below(timer)
    BY <1>1, <1>2 DEF Tops, OnlyMainNests
  <2>2. Second(timer) \in {"updated"}
    BY <1>2, <2>1 DEF Follows, TimerNext
  <2>3. "disconnect" \notin Below(timer) /\ Below(timer) \subseteq {"updated", "read"}
    BY <1>1, <1>2, <2>1, Zenon DEF Tops, Follows, Over, Beneath, Handles, Seen
  <2> QED BY <1>2, <2>1, <2>2, <2>3 DEF Follows
<1>6. /\ Seen(main) /\ Seen(timer) /\ Seen(input) /\ Seen(timer')
      /\ \/ buffer = <<>> /\ Popped(timer, timer')
         \/ buffer # <<>> /\ ~Head(buffer).challenged /\ Becomes(timer, timer', "getchallenge")
  BY <1>1, <1>2 DEF Tops, Goes0, Goes1
<1>7. TimerShape'
  BY <1>2, <1>3, <1>5 DEF TimerShape, TimerNext, Over, Handles, Beneath, Operations, Goes0, Goes1
<1>8. MainShape' /\ InputShape' /\ OnlyMainNests'
  BY <1>2, <1>3, <1>4, <1>5, <1>6 DEF MainShape, NextOfMain, InputShape, OnlyMainNests, Becomes,
     Popped
<1>9. Tops' /\ Covers'
  BY <1>7, <1>8, TopsKnown, CoversKnown, PTL
<1>10. NestShape' /\ JoinsClosed' /\ InputGone' /\ ConnectsClosed' /\ HolderCloses'
  BY <1>1, <1>2, <1>3, <1>4, <1>5, <1>6, <1>9 DEF NestShape, Nested, Alive, JoinsClosed, InputGone,
     Closing, ConnectsClosed, HolderCloses, BothBusy, Nets, Alone, TimerAsks, Tops, Locks, Covers,
     Covered, Handles, Seen, Becomes, Popped
<1>11. FirstLife' /\ NoFaultFirst' /\ NoFaultPolled'
  BY <1>1, <1>2, <1>3, <1>4, <1>5, <1>6 DEF FirstLife, AskSent, AskAnswered, BufferAsks, Simple,
     NoFaultFirst, Calm, Closing, Receiver, NoFaultPolled, InputWaits, TimerCalm, TimerSetsUp,
     OldAsks, FirstAsked, Nets, Alone, Seen, Becomes, Popped
<1>12. MainCalm' /\ MainReconnects' /\ MainOpens'
  BY <1>1, <1>2, <1>3, <1>4, <1>5, <1>6 DEF ConnectsClosed, MainCalm, MainGoesOn, Second1, First1,
     Calm, Closing, AskSent, AskAnswered, BufferAsks, Simple, Alone, MainReconnects, MainOpens,
     BothBusy, Nets, TimerAsks, TimerCalm, TimerSetsUp, OldAsks, FirstAsked, Seen, Becomes, Popped
<1>13. SetupCalm' /\ OneAsks' /\ Coming' /\ ChallengeComing'
  BY <1>1, <1>2, <1>3, <1>4, <1>5, <1>6, <1>9 DEF SetupCalm, SetsUp, Receiver, Nested, OneAsks,
     InputAsks, QueueAsks, BufferAsks, AskSent, AskAnswered, Coming, Nets, ChallengeComing,
     FirstAsked, BothBusy, Alone, TimerAsks, Covers, Covered, Handles, Seen, Becomes, Popped
<1>14. BothBusy' /\ TimerPolls' /\ TimerReopens' /\ TimerCalm'
  BY <1>1, <1>2, <1>3, <1>4, <1>5, <1>6, <1>9 DEF BothBusy, Nets, Alone, TimerAsks, TimerPolls,
     Fired, AfterSetup, NoHarm, Reopens, Calm, Closing, First1, AskSent, AskAnswered, Simple,
     BufferAsks, Alive, TimerReopens, TimerCalm, TimerSetsUp, OldAsks, FirstAsked, Covers, Covered,
     Handles, Seen, Becomes, Popped
<1>15. StatusTold' /\ ConnectedTold' /\ MineWaits' /\ NothingAsked'
  BY <1>1, <1>2, <1>3, <1>4, <1>5, <1>6, <1>9 DEF TimerCalm, TimerSetsUp, Simple, Calm, Closing,
     AskSent, AskAnswered, OldAsks, BufferAsks, FirstAsked, Nets, Alone, StatusTold, Told,
     ConnectedTold, MineWaits, NothingAsked, Covers, Covered, Handles, Seen, Becomes, Popped
<1> QED BY <1>7, <1>8, <1>10, <1>11, <1>12, <1>13, <1>14, <1>15

\* The poll: handle_challenge gets a challenge that is too old, which does not happen.
LEMMA ChallengeLateTimer ==
  ASSUME Sound, Good, Live, Sound', Live', ChallengeLate("timer")
  PROVE  FALSE
<1>1. /\ Tops /\ Covers /\ Unstuck /\ Locks /\ Queues /\ TypeOK
      /\ Unstuck' /\ Locks' /\ Queues' /\ TypeOK' /\ faults \in {0, 1} /\ faults' \in {0, 1}
  BY AllKnown
<1> USE DEF Good, Live
<1>2. /\ timer # <<>> /\ Top(timer) = "challenge" /\ main' = main /\ input' = input
      /\ SameCmds(buffer, buffer', FALSE)
      /\ emutex = "free" /\ Head(buffer).challenged /\ faults = 0 /\ faults' = 1 /\
           Goes1(timer, timer', "getchallenge")
  BY Zenon, <1>1, TimerGoes, AtTop, OneFault, Challenged
  DEF ChallengeLate, EngineFree, Done, Sound, timer,
     Operations
<1> QED
  BY <1>1, <1>2 DEF TimerCalm, TimerSetsUp, Simple, Calm, Closing, AskSent, AskAnswered, OldAsks,
     BufferAsks, FirstAsked, Nets, Alone, Seen, Tops

\* The poll: handle_message is given log_dest_udp, which does not happen.
LEMMA HandleDestTimer ==
  ASSUME Sound, Good, Live, Sound', Live', HandleDest("timer")
  PROVE  FALSE
<1>1. /\ Tops /\ Covers /\ Unstuck /\ Locks /\ Queues /\ TypeOK
      /\ Unstuck' /\ Locks' /\ Queues' /\ TypeOK' /\ faults \in {0, 1} /\ faults' \in {0, 1}
  BY AllKnown
<1> USE DEF Good, Live
<1>2. /\ timer # <<>> /\ Top(timer) \in {"mine", "others"} /\ main' = main /\ input' = input
      /\ \/ (Top(timer) = "others" \/ ~open) /\ Goes1(timer, timer', "update")
         \/ Top(timer) = "mine" /\ open /\ status # "CONNECTING" /\ Goes1(timer, timer', "connected")
         \/ Top(timer) = "mine" /\ open /\ status = "CONNECTING" /\
              Goes2(timer, timer', "connected", "announce")
  BY Zenon, <1>1, TimerGoes, AtTop DEF HandleDest, Done, Sound, timer, Operations
<1> QED
  BY <1>1, <1>2 DEF Tops, Follows, TimerShape, TimerNext, Seen

\* The poll: handle_message sets the link CONNECTED, which does not happen.
LEMMA ConnectedTimer ==
  ASSUME Sound, Good, Live, Sound', Live', Connected("timer")
  PROVE  FALSE
<1>1. /\ Tops /\ Covers /\ Unstuck /\ Locks /\ Queues /\ TypeOK
      /\ Unstuck' /\ Locks' /\ Queues' /\ TypeOK' /\ faults \in {0, 1} /\ faults' \in {0, 1}
  BY AllKnown
<1> USE DEF Good, Live
<1>2. /\ timer # <<>> /\ Top(timer) = "connected" /\ main' = main /\ input' = input
      /\ status' = "CONNECTED" /\ Goes0(timer, timer')
  BY Zenon, <1>1, TimerGoes, AtTop DEF Connected, Done, Sound, timer, Operations
<1> QED
  BY <1>1, <1>2 DEF Tops, Follows, TimerShape, TimerNext, Seen

\* The poll: handle_message tells the bot, which does not happen.
LEMMA AnnounceTimer ==
  ASSUME Sound, Good, Live, Sound', Live', Announce("timer")
  PROVE  FALSE
<1>1. /\ Tops /\ Covers /\ Unstuck /\ Locks /\ Queues /\ TypeOK
      /\ Unstuck' /\ Locks' /\ Queues' /\ TypeOK' /\ faults \in {0, 1} /\ faults' \in {0, 1}
  BY AllKnown
<1> USE DEF Good, Live
<1>2. /\ timer # <<>> /\ Top(timer) = "announce" /\ main' = main /\ input' = input
      /\ told' = "connected" /\ Goes0(timer, timer')
  BY Zenon, <1>1, TimerGoes, AtTop DEF Announce, Done, Sound, timer, Operations
<1> QED
  BY <1>1, <1>2 DEF Tops, Follows, TimerShape, TimerNext, Seen

\* The poll: close_connection tells the bot.
LEMMA CloseTimer ==
  ASSUME Sound, Good, Live, Sound', Live', Close("timer")
  PROVE  Good'
<1>1. /\ Tops /\ Covers /\ Unstuck /\ Locks /\ Queues /\ TypeOK
      /\ Unstuck' /\ Locks' /\ Queues' /\ TypeOK' /\ faults \in {0, 1} /\ faults' \in {0, 1}
  BY AllKnown
<1> USE DEF Good, Live
<1>2. /\ timer # <<>> /\ Top(timer) = "close" /\ main' = main /\ input' = input
      /\ told' = (IF status \in {"CHECKING", "CONNECTED"} THEN "disconnected" ELSE told) /\
           Goes1(timer, timer', "closed")
  BY Zenon, <1>1, TimerGoes, AtTop DEF Close, Done, Sound, timer, Operations
<1>3. UNCHANGED <<secure, status, open, polling, emutex, buffer, toServer, toBot, faults>>
  BY DEF Close, Same, SameLink, linkVars, SameEngine, engineVars, SameNet, netVars, SameWorld,
     worldVars
<1>4. main = <<>> \/ (Top(main) = "receiving" /\ Nets /\ Alone(input, "read"))
  BY <1>2 DEF BothBusy
<1>5. /\ <<Top(timer), Second(timer)>> \in TimerNext
      /\ Second(timer) \in {"end", "connect", "release"}
      /\ "disconnect" \notin Below(timer) /\ Below(timer) \subseteq {"updated", "read", "close",
           "connect", "join", "getchallenge", "release", "wait"}
  <2>1. Follows(timer, TimerNext) /\ "disconnect" \notin Below(timer)
    BY <1>1, <1>2 DEF Tops, OnlyMainNests
  <2>2. Second(timer) \in {"end", "connect", "release"}
    BY <1>2, <2>1 DEF Follows, TimerNext
  <2>3. "disconnect" \notin Below(timer) /\ Below(timer) \subseteq {"updated", "read", "close",
          "connect", "join", "getchallenge", "release", "wait"}
    BY <1>1, <1>2, <2>1, Zenon DEF Tops, Follows, Over, Beneath, Handles, Seen
  <2> QED BY <1>2, <2>1, <2>2, <2>3 DEF Follows
<1>6. /\ Seen(main) /\ Seen(timer) /\ Seen(input) /\ Seen(timer')
      /\ told' = (IF status \in {"CHECKING", "CONNECTED"} THEN "disconnected" ELSE told) /\
           Becomes(timer, timer', "closed")
  BY <1>1, <1>2 DEF Tops, Goes1
<1>7. TimerShape'
  BY <1>2, <1>3, <1>5 DEF TimerShape, TimerNext, Over, Handles, Beneath, Operations, Goes1
<1>8. MainShape' /\ InputShape' /\ OnlyMainNests'
  BY <1>2, <1>3, <1>4, <1>5, <1>6 DEF MainShape, NextOfMain, InputShape, OnlyMainNests, Becomes
<1>9. Tops' /\ Covers'
  BY <1>7, <1>8, TopsKnown, CoversKnown, PTL
<1>10. NestShape' /\ JoinsClosed' /\ InputGone' /\ ConnectsClosed' /\ HolderCloses'
  BY <1>1, <1>2, <1>3, <1>4, <1>5, <1>6, <1>9 DEF NestShape, Nested, Alive, JoinsClosed, InputGone,
     Closing, ConnectsClosed, HolderCloses, Tops, Locks, Seen, Becomes
<1>11. FirstLife' /\ NoFaultFirst' /\ NoFaultPolled'
  BY <1>1, <1>2, <1>3, <1>4, <1>5, <1>6 DEF FirstLife, AskSent, AskAnswered, BufferAsks, Simple,
     NoFaultFirst, Calm, Closing, Receiver, NoFaultPolled, InputWaits, Seen, Becomes
<1>12. MainCalm' /\ MainReconnects' /\ MainOpens'
  BY <1>1, <1>2, <1>3, <1>4, <1>5, <1>6 DEF MainCalm, MainGoesOn, Second1, First1, Calm, Closing,
     AskSent, AskAnswered, BufferAsks, Simple, Alone, MainReconnects, MainOpens, BothBusy, Nets,
     TimerAsks, Seen, Becomes
<1>13. SetupCalm' /\ OneAsks' /\ Coming' /\ ChallengeComing'
  BY <1>1, <1>2, <1>3, <1>4, <1>5, <1>6 DEF SetupCalm, SetsUp, Receiver, Nested, OneAsks, InputAsks,
     QueueAsks, BufferAsks, AskSent, AskAnswered, Coming, Nets, ChallengeComing, FirstAsked,
     BothBusy, Alone, TimerAsks, Seen, Becomes
<1>14. BothBusy' /\ TimerPolls' /\ TimerReopens' /\ TimerCalm'
  BY <1>1, <1>2, <1>3, <1>4, <1>5, <1>6 DEF BothBusy, Nets, Alone, TimerAsks, TimerPolls, Fired,
     AfterSetup, NoHarm, Reopens, Calm, Closing, First1, AskSent, AskAnswered, Simple, BufferAsks,
     Alive, TimerReopens, TimerCalm, TimerSetsUp, OldAsks, FirstAsked, Seen, Becomes
<1>15. StatusTold' /\ ConnectedTold' /\ MineWaits' /\ NothingAsked'
  BY <1>1, <1>2, <1>3, <1>4, <1>5, <1>6 DEF BothBusy, Nets, Alone, TimerAsks, TimerPolls, Fired,
     AfterSetup, NoHarm, Reopens, Calm, Closing, First1, AskSent, AskAnswered, Simple, BufferAsks,
     Alive, StatusTold, Told, ConnectedTold, MineWaits, NothingAsked, Seen, Becomes
<1> QED BY <1>7, <1>8, <1>10, <1>11, <1>12, <1>13, <1>14, <1>15

\* The poll: close_connection sets the link DISCONNECTED.
LEMMA ClosedTimer ==
  ASSUME Sound, Good, Live, Sound', Live', Closed("timer")
  PROVE  Good'
<1>1. /\ Tops /\ Covers /\ Unstuck /\ Locks /\ Queues /\ TypeOK
      /\ Unstuck' /\ Locks' /\ Queues' /\ TypeOK' /\ faults \in {0, 1} /\ faults' \in {0, 1}
  BY AllKnown
<1> USE DEF Good, Live
<1>2. /\ timer # <<>> /\ Top(timer) = "closed" /\ main' = main /\ input' = input
      /\ status' = "DISCONNECTED"
      /\ \/ open /\ Goes2(timer, timer', "disconnect", "join")
         \/ ~open /\ Goes0(timer, timer')
  BY Zenon, <1>1, TimerGoes, AtTop DEF Closed, Done, Sound, timer, Operations
<1>3. UNCHANGED <<secure, open, polling, told, emutex, buffer, toServer, toBot, faults>>
  BY DEF Closed, Same, SameLink, linkVars, SameEngine, engineVars, SameNet, netVars, SameWorld,
     worldVars
<1>4. main = <<>> \/ (Top(main) = "receiving" /\ Nets /\ Alone(input, "read"))
  BY <1>2 DEF BothBusy
<1>5. /\ <<Top(timer), Second(timer)>> \in TimerNext
      /\ Second(timer) \in {"end", "connect", "release"}
      /\ "disconnect" \notin Below(timer) /\ Below(timer) \subseteq {"updated", "read", "close",
           "connect", "join", "getchallenge", "release", "wait"}
  <2>1. Follows(timer, TimerNext) /\ "disconnect" \notin Below(timer)
    BY <1>1, <1>2 DEF Tops, OnlyMainNests
  <2>2. Second(timer) \in {"end", "connect", "release"}
    BY <1>2, <2>1 DEF Follows, TimerNext
  <2>3. "disconnect" \notin Below(timer) /\ Below(timer) \subseteq {"updated", "read", "close",
          "connect", "join", "getchallenge", "release", "wait"}
    BY <1>1, <1>2, <2>1, Zenon DEF Tops, Follows, Over, Beneath, Handles, Seen
  <2> QED BY <1>2, <2>1, <2>2, <2>3 DEF Follows
<1>6. /\ Seen(main) /\ Seen(timer) /\ Seen(input) /\ Seen(timer')
      /\ \/ open /\ Becomes2(timer, timer', "disconnect", "join")
         \/ ~open /\ Popped(timer, timer')
  BY <1>1, <1>2 DEF Tops, Goes0, Goes2
<1>7. TimerShape'
  BY <1>1, <1>2, <1>3, <1>5, <1>6 DEF TimerShape, TimerNext, Over, Handles, Beneath, Operations,
     Goes0, Goes2, Unstuck, Leaves, Closes, Becomes2, Popped, Seen
<1>8. MainShape' /\ InputShape' /\ OnlyMainNests'
  BY <1>2, <1>3, <1>4, <1>5, <1>6 DEF MainShape, NextOfMain, InputShape, OnlyMainNests, Becomes2,
     Popped
<1>9. Tops' /\ Covers'
  BY <1>7, <1>8, TopsKnown, CoversKnown, PTL
<1>10. NestShape' /\ JoinsClosed' /\ InputGone' /\ ConnectsClosed' /\ HolderCloses'
  BY <1>1, <1>2, <1>3, <1>4, <1>5, <1>6, <1>9 DEF NestShape, Nested, Alive, JoinsClosed, InputGone,
     Closing, ConnectsClosed, HolderCloses, BothBusy, Nets, Alone, TimerAsks, Tops, Locks, Seen,
     Becomes2, Popped
<1>11. FirstLife' /\ NoFaultFirst' /\ NoFaultPolled'
  BY <1>1, <1>2, <1>3, <1>4, <1>5, <1>6 DEF FirstLife, AskSent, AskAnswered, BufferAsks, Simple,
     NoFaultFirst, Calm, Closing, Receiver, NoFaultPolled, InputWaits, Seen, Becomes2, Popped
<1>12. MainCalm' /\ MainReconnects' /\ MainOpens'
  BY <1>1, <1>2, <1>3, <1>4, <1>5, <1>6 DEF MainCalm, MainGoesOn, Second1, First1, Calm, Closing,
     AskSent, AskAnswered, BufferAsks, Simple, Alone, MainReconnects, MainOpens, BothBusy, Nets,
     TimerAsks, Seen, Becomes2, Popped
<1>13. SetupCalm' /\ OneAsks' /\ Coming' /\ ChallengeComing'
  BY <1>1, <1>2, <1>3, <1>4, <1>5, <1>6 DEF SetupCalm, SetsUp, Receiver, Nested, OneAsks, InputAsks,
     QueueAsks, BufferAsks, AskSent, AskAnswered, Coming, Nets, ChallengeComing, FirstAsked,
     BothBusy, Alone, TimerAsks, Seen, Becomes2, Popped
<1>14. BothBusy' /\ TimerPolls' /\ TimerReopens' /\ TimerCalm'
  BY <1>1, <1>2, <1>3, <1>4, <1>5, <1>6, <1>9 DEF BothBusy, Nets, Alone, TimerAsks, TimerPolls,
     Fired, AfterSetup, NoHarm, Reopens, Calm, Closing, First1, AskSent, AskAnswered, Simple,
     BufferAsks, Alive, TimerReopens, TimerCalm, TimerSetsUp, OldAsks, FirstAsked, Unstuck, Leaves,
     Closes, Covers, Covered, Handles, Seen, Becomes2, Popped
<1>15. StatusTold' /\ ConnectedTold' /\ MineWaits' /\ NothingAsked'
  BY <1>1, <1>2, <1>3, <1>4, <1>5, <1>6 DEF BothBusy, Nets, Alone, TimerAsks, TimerPolls, Fired,
     AfterSetup, NoHarm, Reopens, Calm, Closing, First1, AskSent, AskAnswered, Simple, BufferAsks,
     Alive, StatusTold, Told, ConnectedTold, MineWaits, NothingAsked, Seen, Becomes2, Popped
<1> QED BY <1>7, <1>8, <1>10, <1>11, <1>12, <1>13, <1>14, <1>15

\* The poll: UdpIo::disconnect handles a datagram that has arrived, which does not happen.
LEMMA IoPollTimer ==
  ASSUME Sound, Good, Live, Sound', Live', IoPoll("timer")
  PROVE  FALSE
<1>1. /\ Tops /\ Covers /\ Unstuck /\ Locks /\ Queues /\ TypeOK
      /\ Unstuck' /\ Locks' /\ Queues' /\ TypeOK' /\ faults \in {0, 1} /\ faults' \in {0, 1}
  BY AllKnown
<1> USE DEF Good, Live
<1>2. /\ timer # <<>> /\ Top(timer) = "disconnect" /\ main' = main /\ input' = input
      /\ Top(input) = "read" /\ ~Nested
      /\ open /\ Removed(toBot, toBot', {"mine", "others"}) /\ Head(toBot) \in Answers
      /\ status' = IF status = "WAITING" THEN "CONNECTING" ELSE status
      /\ \/ Head(toBot) = "ack" /\ timer' = timer
         \/ Head(toBot) # "ack" /\ Adds(timer, timer', Head(toBot))
  <2>1. At("timer", "disconnect") /\ Receive("timer", todo["timer"]) /\ ReadScheduled
    BY DEF IoPoll
  <2>2. timer # <<>> /\ Top(timer) = "disconnect" /\ todo["timer"] = timer
    BY <2>1, AtTop DEF Sound, timer
  <2>3. Top(input) = "read" /\ ~Nested
    BY <1>1, <2>1, Reading DEF Nested
  <2> QED BY <1>1, <2>1, <2>2, <2>3, ReceivesOn DEF Receive, Threads, main, timer, input
<1> QED
  BY <1>1, <1>2 DEF TimerPolls, TimerAsks, Alone, Fired, AfterSetup, NoHarm, Reopens, Nets, Calm,
     Closing, First1, AskSent, AskAnswered, Simple, BufferAsks, Alive, Seen, Tops, Removed

\* The poll: UdpIo::disconnect closes the socket.
LEMMA IoCloseTimer ==
  ASSUME Sound, Good, Live, Sound', Live', IoClose("timer")
  PROVE  Good'
<1>1. /\ Tops /\ Covers /\ Unstuck /\ Locks /\ Queues /\ TypeOK
      /\ Unstuck' /\ Locks' /\ Queues' /\ TypeOK' /\ faults \in {0, 1} /\ faults' \in {0, 1}
  BY AllKnown
<1> USE DEF Good, Live
<1>2. /\ timer # <<>> /\ Top(timer) = "disconnect" /\ main' = main /\ input' = input
      /\ open' = FALSE /\ toBot' = <<>> /\ Goes0(timer, timer')
  BY Zenon, <1>1, TimerGoes, AtTop DEF IoClose, Done, Sound, timer, Operations
<1>3. UNCHANGED <<secure, status, polling, told, emutex, buffer, toServer, faults>>
  BY DEF IoClose, Same, SameLink, linkVars, SameEngine, engineVars, SameNet, netVars, SameWorld,
     worldVars
<1>4. main = <<>> \/ (Top(main) = "receiving" /\ Nets /\ Alone(input, "read"))
  BY <1>2 DEF BothBusy
<1>5. /\ <<Top(timer), Second(timer)>> \in TimerNext
      /\ Second(timer) \in {"join"}
      /\ "disconnect" \notin Below(timer) /\ Below(timer) \subseteq {"updated", "read", "close",
           "connect", "join", "getchallenge", "release", "wait"}
  <2>1. Follows(timer, TimerNext) /\ "disconnect" \notin Below(timer)
    BY <1>1, <1>2 DEF Tops, OnlyMainNests
  <2>2. Second(timer) \in {"join"}
    BY <1>2, <2>1 DEF Follows, TimerNext
  <2>3. "disconnect" \notin Below(timer) /\ Below(timer) \subseteq {"updated", "read", "close",
          "connect", "join", "getchallenge", "release", "wait"}
    BY <1>1, <1>2, <2>1, Zenon DEF Tops, Follows, Over, Beneath, Handles, Seen
  <2> QED BY <1>2, <2>1, <2>2, <2>3 DEF Follows
<1>6. /\ Seen(main) /\ Seen(timer) /\ Seen(input) /\ Seen(timer')
      /\ open' = FALSE /\ toBot' = <<>> /\ Popped(timer, timer')
  BY <1>1, <1>2 DEF Tops, Goes0
<1>7. TimerShape'
  BY <1>2, <1>3, <1>5 DEF TimerShape, TimerNext, Over, Handles, Beneath, Operations, Goes0
<1>8. MainShape' /\ InputShape' /\ OnlyMainNests'
  BY <1>2, <1>3, <1>4, <1>5, <1>6 DEF MainShape, NextOfMain, InputShape, OnlyMainNests, Popped
<1>9. Tops' /\ Covers'
  BY <1>7, <1>8, TopsKnown, CoversKnown, PTL
<1>10. NestShape' /\ JoinsClosed' /\ InputGone' /\ ConnectsClosed' /\ HolderCloses'
  BY <1>1, <1>2, <1>3, <1>4, <1>5, <1>6, <1>9 DEF NestShape, Nested, Alive, JoinsClosed, InputGone,
     Closing, ConnectsClosed, HolderCloses, BothBusy, Nets, Alone, TimerAsks, Tops, Unstuck, Leaves,
     Closes, Locks, Queues, Seen, Popped
<1>11. FirstLife' /\ NoFaultFirst' /\ NoFaultPolled'
  BY <1>1, <1>2, <1>3, <1>4, <1>5, <1>6 DEF FirstLife, AskSent, AskAnswered, BufferAsks, Simple,
     NoFaultFirst, Calm, Closing, Receiver, NoFaultPolled, InputWaits, TimerReopens, Unstuck,
     Leaves, Closes, Queues, Seen, Popped
<1>12. MainCalm' /\ MainReconnects' /\ MainOpens'
  BY <1>1, <1>2, <1>3, <1>4, <1>5, <1>6 DEF MainCalm, MainGoesOn, Second1, First1, Calm, Closing,
     AskSent, AskAnswered, BufferAsks, Simple, Alone, MainReconnects, MainOpens, BothBusy, Nets,
     TimerAsks, Unstuck, Leaves, Closes, Queues, Seen, Popped
<1>13. SetupCalm' /\ OneAsks' /\ Coming' /\ ChallengeComing'
  BY <1>1, <1>2, <1>3, <1>4, <1>5, <1>6 DEF SetupCalm, SetsUp, Receiver, Nested, OneAsks, InputAsks,
     QueueAsks, BufferAsks, AskSent, AskAnswered, Coming, Nets, ChallengeComing, FirstAsked,
     BothBusy, Alone, TimerAsks, Unstuck, Leaves, Closes, Queues, Seen, Popped
<1>14. BothBusy' /\ TimerPolls' /\ TimerReopens' /\ TimerCalm'
  BY <1>1, <1>2, <1>3, <1>4, <1>5, <1>6, <1>9 DEF BothBusy, Nets, Alone, TimerAsks, TimerPolls,
     Fired, AfterSetup, NoHarm, Reopens, Calm, Closing, First1, AskSent, AskAnswered, Simple,
     BufferAsks, Alive, TimerReopens, TimerCalm, TimerSetsUp, OldAsks, FirstAsked, Unstuck, Leaves,
     Closes, Covers, Covered, Handles, Queues, Seen, Popped
<1>15. StatusTold' /\ ConnectedTold' /\ MineWaits' /\ NothingAsked'
  BY <1>1, <1>2, <1>3, <1>4, <1>5, <1>6 DEF StatusTold, Closing, Told, ConnectedTold, MineWaits,
     NothingAsked, Nets, Alone, Queues, Seen, Popped
<1> QED BY <1>7, <1>8, <1>10, <1>11, <1>12, <1>13, <1>14, <1>15

\* The poll: Engine::clear.
LEMMA ClearTimer ==
  ASSUME Sound, Good, Live, Sound', Live', Clear("timer")
  PROVE  Good'
<1>1. /\ Tops /\ Covers /\ Unstuck /\ Locks /\ Queues /\ TypeOK
      /\ Unstuck' /\ Locks' /\ Queues' /\ TypeOK' /\ faults \in {0, 1} /\ faults' \in {0, 1}
  BY AllKnown
<1> USE DEF Good, Live
<1>2. /\ timer # <<>> /\ Top(timer) \in {"clear", "join"} /\ main' = main /\ input' = input
      /\ Top(timer) = "clear" \/ input = <<>>
      /\ emutex = "free" /\ buffer' = <<>> /\ Goes0(timer, timer')
  <2>1. /\ timer # <<>> /\ Top(timer) \in {"clear", "join"} /\ emutex = "free" /\ buffer' = <<>>
        /\ Top(timer) = "clear" \/ input = <<>>
    BY AtTop DEF Clear, EngineFree, Idle, timer, input
  <2> QED BY <1>1, <2>1, TimerGoes DEF Clear, Done
<1>3. UNCHANGED <<secure, status, open, polling, told, emutex, toServer, toBot, faults>>
  BY DEF Clear, Same, SameLink, linkVars, SameEngine, engineVars, SameNet, netVars, SameWorld,
     worldVars
<1>4. main = <<>> \/ (Top(main) = "receiving" /\ Nets /\ Alone(input, "read"))
  BY <1>2 DEF BothBusy
<1>5. /\ <<Top(timer), Second(timer)>> \in TimerNext
      /\ Top(timer) = "join" /\ Second(timer) \in {"end", "connect"}
      /\ "disconnect" \notin Below(timer) /\ Below(timer) \subseteq {"updated", "read", "close",
           "connect", "join", "getchallenge", "release", "wait"}
  <2>1. Follows(timer, TimerNext) /\ "disconnect" \notin Below(timer)
    BY <1>1, <1>2 DEF Tops, OnlyMainNests
  <2>2. Top(timer) = "join" /\ Second(timer) \in {"end", "connect"}
    BY <1>2, <2>1 DEF Follows, TimerNext
  <2>3. "disconnect" \notin Below(timer) /\ Below(timer) \subseteq {"updated", "read", "close",
          "connect", "join", "getchallenge", "release", "wait"}
    BY <1>1, <1>2, <2>1, Zenon DEF Tops, Follows, Over, Beneath, Handles, Seen
  <2> QED BY <1>2, <2>1, <2>2, <2>3 DEF Follows
<1>6. /\ Seen(main) /\ Seen(timer) /\ Seen(input) /\ Seen(timer')
      /\ emutex = "free" /\ buffer' = <<>> /\ Popped(timer, timer')
  BY <1>1, <1>2 DEF Tops, Goes0
<1>7. TimerShape'
  BY <1>2, <1>3, <1>5 DEF TimerShape, TimerNext, Over, Handles, Beneath, Operations, Goes0
<1>8. MainShape' /\ InputShape' /\ OnlyMainNests'
  BY <1>2, <1>3, <1>4, <1>5, <1>6 DEF MainShape, NextOfMain, InputShape, OnlyMainNests, Popped
<1>9. Tops' /\ Covers'
  BY <1>7, <1>8, TopsKnown, CoversKnown, PTL
<1>10. NestShape' /\ JoinsClosed' /\ InputGone' /\ ConnectsClosed' /\ HolderCloses'
  BY <1>1, <1>2, <1>3, <1>4, <1>5, <1>6, <1>9 DEF NestShape, Nested, Alive, JoinsClosed, InputGone,
     Closing, ConnectsClosed, HolderCloses, Tops, Locks, Queues, Seen, Popped
<1>11. FirstLife' /\ NoFaultFirst' /\ NoFaultPolled'
  BY <1>1, <1>2, <1>3, <1>4, <1>5, <1>6 DEF FirstLife, AskSent, AskAnswered, BufferAsks, Simple,
     NoFaultFirst, Calm, Closing, Receiver, NoFaultPolled, InputWaits, TimerReopens, Queues, Seen,
     Popped
<1>12. MainCalm' /\ MainReconnects' /\ MainOpens'
  BY <1>1, <1>2, <1>3, <1>4, <1>5, <1>6 DEF MainCalm, MainGoesOn, Second1, First1, Calm, Closing,
     AskSent, AskAnswered, BufferAsks, Simple, Alone, MainReconnects, MainOpens, BothBusy, Nets,
     TimerAsks, Queues, Seen, Popped
<1>13. SetupCalm' /\ OneAsks' /\ Coming' /\ ChallengeComing'
  BY <1>1, <1>2, <1>3, <1>4, <1>5, <1>6 DEF SetupCalm, SetsUp, Receiver, Nested, OneAsks, InputAsks,
     QueueAsks, BufferAsks, AskSent, AskAnswered, Coming, Nets, ChallengeComing, FirstAsked,
     BothBusy, Alone, TimerAsks, Queues, Seen, Popped
<1>14. BothBusy' /\ TimerPolls' /\ TimerReopens' /\ TimerCalm'
  BY <1>1, <1>2, <1>3, <1>4, <1>5, <1>6, <1>9 DEF InputGone, Closing, BothBusy, Nets, Alone,
     TimerAsks, TimerPolls, Fired, AfterSetup, NoHarm, Reopens, Calm, First1, AskSent, AskAnswered,
     Simple, BufferAsks, Alive, TimerReopens, TimerCalm, TimerSetsUp, OldAsks, FirstAsked, Covers,
     Covered, Handles, Queues, Seen, Popped
<1>15. StatusTold' /\ ConnectedTold' /\ MineWaits' /\ NothingAsked'
  BY <1>1, <1>2, <1>3, <1>4, <1>5, <1>6 DEF InputGone, Closing, StatusTold, Told, ConnectedTold,
     MineWaits, NothingAsked, Nets, Alone, Queues, Seen, Popped
<1> QED BY <1>7, <1>8, <1>10, <1>11, <1>12, <1>13, <1>14, <1>15

\* The poll fires.
LEMMA TimerFiring ==
  ASSUME Sound, Good, Live, Sound', Live', TimerFires
  PROVE  Good'
<1>1. /\ Tops /\ Covers /\ Unstuck /\ Locks /\ Queues /\ TypeOK
      /\ Unstuck' /\ Locks' /\ Queues' /\ TypeOK' /\ faults \in {0, 1} /\ faults' \in {0, 1}
  BY AllKnown
<1> USE DEF Good, Live
<1>2. /\ timer = <<>> /\ timer' = <<"request">> /\ main' = main /\ input' = input
      /\ polling /\ toServer = <<>> /\ Waits("main") /\ Waits("input")
  BY <1>1 DEF TimerFires, InTime, Idle, TypeOK, Threads, main, timer, input
<1>3. UNCHANGED <<secure, status, open, polling, told, emutex, buffer, toServer, toBot, faults>>
  BY DEF TimerFires, Same, SameLink, linkVars, SameEngine, engineVars, SameNet, netVars, SameWorld,
     worldVars
<1>4. /\ Seen(main) /\ Seen(timer) /\ Seen(input) /\ Elems(timer) = {} /\ Holds(timer', "request") /\
           Seen(timer')
      /\ TimerShape'
  <2>1. "request" \in Operations /\ <<"request", "end">> \in TimerNext
    BY DEF Operations, TimerNext
  <2> QED BY <1>1, <1>2, <2>1, Starts DEF Tops, Seen, TimerShape, Holds
<1>5. MainShape' /\ InputShape' /\ OnlyMainNests'
  BY <1>2, <1>3, <1>4 DEF MainShape, NextOfMain, InputShape, OnlyMainNests, Holds
<1>6. /\ main = <<>> \/ (Top(main) = "receiving" /\ open /\ toBot = <<>>)
      /\ input = <<>> \/ (Top(input) \in {"read", "receiving"} /\ open /\ toBot = <<>>)
  BY <1>1, <1>2, AllWait
<1>7. Tops' /\ Covers'
  BY <1>4, <1>5, TopsKnown, CoversKnown, PTL
<1>8. NestShape' /\ JoinsClosed' /\ InputGone' /\ ConnectsClosed' /\ HolderCloses'
  BY <1>1, <1>2, <1>3, <1>4, <1>6, <1>7 DEF NestShape, Nested, Alive, JoinsClosed, InputGone,
     Closing, ConnectsClosed, HolderCloses, Tops, Locks, Seen, Holds
<1>9. FirstLife' /\ NoFaultFirst' /\ NoFaultPolled'
  BY <1>1, <1>2, <1>3, <1>4, <1>6 DEF FirstLife, AskSent, AskAnswered, BufferAsks, Simple,
     NoFaultFirst, Calm, Closing, Receiver, NoFaultPolled, InputWaits, Seen, Holds
<1>10. MainCalm' /\ MainReconnects' /\ MainOpens'
  BY <1>1, <1>2, <1>3, <1>4, <1>6 DEF MainCalm, MainGoesOn, Second1, First1, Calm, Closing, AskSent,
     AskAnswered, BufferAsks, Simple, Alone, MainReconnects, MainOpens, Seen, Holds
<1>11. SetupCalm' /\ OneAsks' /\ Coming' /\ ChallengeComing'
  BY <1>1, <1>2, <1>3, <1>4, <1>6 DEF SetupCalm, SetsUp, Receiver, Nested, OneAsks, InputAsks,
     QueueAsks, BufferAsks, AskSent, AskAnswered, Coming, Nets, ChallengeComing, FirstAsked, Seen,
     Holds
<1>12. BothBusy' /\ TimerPolls' /\ TimerReopens' /\ TimerCalm'
  BY <1>1, <1>2, <1>3, <1>4, <1>6 DEF JoinsClosed, InputGone, Closing, HolderCloses, Coming, Nets,
     BothBusy, Alone, TimerAsks, TimerPolls, Fired, AfterSetup, NoHarm, Reopens, Calm, First1,
     AskSent, AskAnswered, Simple, BufferAsks, Alive, TimerReopens, TimerCalm, TimerSetsUp, OldAsks,
     FirstAsked, Unstuck, Leaves, Closes, Locks, Tops, Follows, NextOfMain, MainNext, FirstNext,
     Covers, Covered, Handles, Seen, Holds
<1>13. StatusTold' /\ ConnectedTold' /\ MineWaits' /\ NothingAsked'
  BY <1>1, <1>2, <1>3, <1>4, <1>6 DEF StatusTold, Closing, Told, ConnectedTold, MineWaits,
     NothingAsked, Nets, Alone, Seen, Holds
<1> QED BY <1>4, <1>5, <1>8, <1>9, <1>10, <1>11, <1>12, <1>13

-----------------------------------------------------------------------------
(* The first connection: the steps of thread_input *)

\* thread_input: XonoticConnection::connect, which does not happen.
LEMMA ConnectInput ==
  ASSUME Sound, Good, Live, Sound', Live', Connect("input")
  PROVE  FALSE
<1>1. /\ Tops /\ Covers /\ Unstuck /\ Locks /\ Queues /\ TypeOK
      /\ Unstuck' /\ Locks' /\ Queues' /\ TypeOK' /\ faults \in {0, 1} /\ faults' \in {0, 1}
  BY AllKnown
<1> USE DEF Good, Live
<1>2. /\ input # <<>> /\ Top(input) = "connect" /\ main' = main /\ timer' = timer
      /\ \/ open /\ status' = status /\ Goes0(input, input')
         \/ ~open /\ status' = "WAITING" /\ Goes1(input, input', "open")
  BY Zenon, <1>1, InputGoes, AtTop DEF Connect, Done, Sound, input, Operations
<1> QED
  BY <1>1, <1>2 DEF Tops, Follows, InputShape, InputNext, Seen

\* thread_input: io.connect, when the socket is open, which does not happen.
LEMMA OpenAlreadyInput ==
  ASSUME Sound, Good, Live, Sound', Live', OpenAlready("input")
  PROVE  FALSE
<1>1. /\ Tops /\ Covers /\ Unstuck /\ Locks /\ Queues /\ TypeOK
      /\ Unstuck' /\ Locks' /\ Queues' /\ TypeOK' /\ faults \in {0, 1} /\ faults' \in {0, 1}
  BY AllKnown
<1> USE DEF Good, Live
<1>2. /\ input # <<>> /\ Top(input) = "open" /\ main' = main /\ timer' = timer
      /\ open /\ Goes0(input, input')
  BY Zenon, <1>1, InputGoes, AtTop DEF OpenAlready, Done, Sound, input, Operations
<1> QED
  BY <1>1, <1>2 DEF Tops, Follows, InputShape, InputNext, Seen

\* thread_input: the name is not resolved, which does not happen.
LEMMA OpenFailsInput ==
  ASSUME Sound, Good, Live, Sound', Live', OpenFails("input")
  PROVE  FALSE
<1>1. /\ Tops /\ Covers /\ Unstuck /\ Locks /\ Queues /\ TypeOK
      /\ Unstuck' /\ Locks' /\ Queues' /\ TypeOK' /\ faults \in {0, 1} /\ faults' \in {0, 1}
  BY AllKnown
<1> USE DEF Good, Live
<1>2. /\ input # <<>> /\ Top(input) = "open" /\ main' = main /\ timer' = timer
      /\ input = <<>>
      /\ ~open /\ faults = 0 /\ faults' = 1
  BY <1>1, InputGoes, AtTop, OneFault DEF OpenFails, AsioInUse, Idle, Threads, input, input
<1> QED
  BY <1>1, <1>2 DEF Seen, Tops

\* thread_input: update_connection.
LEMMA UpdateInput ==
  ASSUME Sound, Good, Live, Sound', Live', Update("input")
  PROVE  Good'
<1>1. /\ Tops /\ Covers /\ Unstuck /\ Locks /\ Queues /\ TypeOK
      /\ Unstuck' /\ Locks' /\ Queues' /\ TypeOK' /\ faults \in {0, 1} /\ faults' \in {0, 1}
  BY AllKnown
<1> USE DEF Good, Live
<1>2. /\ input # <<>> /\ Top(input) = "update" /\ main' = main /\ timer' = timer
      /\ \/ status = "DISCONNECTED" /\ status' = status /\ Goes0(input, input')
         \/ status # "DISCONNECTED" /\ status' = "WAITING" /\
              Goes3(input, input', "set", "wait", "updated")
  BY Zenon, <1>1, InputGoes, AtTop DEF Update, Done, Sound, input, Operations
<1>3. UNCHANGED <<secure, open, polling, told, emutex, buffer, toServer, toBot, faults>>
  BY DEF Update, Same, SameLink, linkVars, SameEngine, engineVars, SameNet, netVars, SameWorld,
     worldVars
<1>4. /\ <<Top(input), Second(input)>> \in InputNext
      /\ Second(input) \in {"read", "updated"}
      /\ "disconnect" \notin Below(input) /\ Below(input) \subseteq {"updated", "read"}
  <2>1. Follows(input, InputNext) /\ "disconnect" \notin Below(input)
    BY <1>1, <1>2 DEF Tops, OnlyMainNests
  <2>2. Second(input) \in {"read", "updated"}
    BY <1>2, <2>1 DEF Follows, InputNext
  <2>3. "disconnect" \notin Below(input) /\ Below(input) \subseteq {"updated", "read"}
    BY <1>1, <1>2, <2>1, Zenon DEF Tops, Follows, Over, Beneath, Handles, Seen
  <2> QED BY <1>2, <2>1, <2>2, <2>3 DEF Follows
<1>5. /\ Seen(main) /\ Seen(timer) /\ Seen(input) /\ Seen(input')
      /\ \/ status = "DISCONNECTED" /\ status' = status /\ Popped(input, input')
         \/ status # "DISCONNECTED" /\ status' = "WAITING" /\
              Becomes3(input, input', "set", "wait", "updated")
  BY <1>1, <1>2 DEF Tops, Goes0, Goes3
<1>6. InputShape'
  BY <1>2, <1>3, <1>4 DEF InputShape, InputNext, Over, Handles, Beneath, Operations, Goes0, Goes3
<1>7. MainShape' /\ TimerShape' /\ OnlyMainNests'
  BY <1>2, <1>3, <1>4, <1>5 DEF MainShape, NextOfMain, TimerShape, OnlyMainNests, Becomes3, Popped
<1>8. Tops' /\ Covers'
  BY <1>6, <1>7, TopsKnown, CoversKnown, PTL
<1>9. NestShape' /\ JoinsClosed' /\ InputGone' /\ ConnectsClosed' /\ HolderCloses'
  BY <1>1, <1>2, <1>3, <1>4, <1>5, <1>8 DEF NestShape, Nested, Alive, JoinsClosed, InputGone,
     Closing, ConnectsClosed, HolderCloses, Tops, Locks, Covers, Covered, Handles, Seen, Becomes3,
     Popped
<1>10. FirstLife' /\ NoFaultFirst' /\ NoFaultPolled'
  BY <1>1, <1>2, <1>3, <1>4, <1>5 DEF FirstLife, AskSent, AskAnswered, BufferAsks, Simple,
     NoFaultFirst, Calm, Closing, Receiver, NoFaultPolled, InputWaits, Seen, Becomes3, Popped
<1>11. MainCalm' /\ MainReconnects' /\ MainOpens'
  BY <1>1, <1>2, <1>3, <1>4, <1>5 DEF MainCalm, MainGoesOn, Second1, First1, Calm, Closing, AskSent,
     AskAnswered, BufferAsks, Simple, Alone, MainReconnects, MainOpens, Seen, Becomes3, Popped
<1>12. SetupCalm' /\ OneAsks' /\ Coming' /\ ChallengeComing'
  <2>1. SetupCalm'
    BY <1>1, <1>2, <1>3, <1>4, <1>5, <1>8 DEF SetupCalm, SetsUp, Receiver, Nested, InputAsks,
       QueueAsks, BufferAsks, AskSent, AskAnswered, Nets, Goes0, Goes3, Over, Beneath, Operations,
       HandlingNext, Tops, Follows, Covers, Covered, Handles, Seen, Becomes3, Popped
  <2>2. OneAsks'
    BY <1>1, <1>2, <1>3, <1>4, <1>5, <1>8 DEF Receiver, Nested, OneAsks, InputAsks, QueueAsks,
       BufferAsks, AskSent, AskAnswered, Nets, Goes0, Goes3, Tops, Follows, Covers, Covered, Handles,
       Seen, Becomes3, Popped
  <2>3. Coming' /\ ChallengeComing'
    BY <1>1, <1>2, <1>3, <1>4, <1>5, <1>8 DEF SetupCalm, SetsUp, Receiver, Nested, OneAsks,
       InputAsks, QueueAsks, BufferAsks, AskSent, AskAnswered, Coming, Nets, ChallengeComing,
       FirstAsked, Goes0, Goes3, Over, Beneath, Operations, HandlingNext, Tops, Follows, Covers,
       Covered, Handles, Seen, Becomes3, Popped
  <2> QED BY <2>1, <2>2, <2>3
<1>13. BothBusy' /\ TimerPolls' /\ TimerReopens' /\ TimerCalm'
  BY <1>1, <1>2, <1>3, <1>4, <1>5, <1>8 DEF BothBusy, Nets, Alone, TimerAsks, TimerPolls, Fired,
     AfterSetup, NoHarm, Reopens, Calm, Closing, First1, AskSent, AskAnswered, Simple, BufferAsks,
     Alive, TimerReopens, TimerCalm, TimerSetsUp, OldAsks, FirstAsked, Covers, Covered, Handles,
     Seen, Becomes3, Popped
<1>14. StatusTold' /\ ConnectedTold' /\ MineWaits' /\ NothingAsked'
  BY <1>1, <1>2, <1>3, <1>4, <1>5, <1>8 DEF OneAsks, Receiver, Nested, InputAsks, QueueAsks,
     BufferAsks, AskSent, AskAnswered, StatusTold, Closing, Told, ConnectedTold, MineWaits,
     NothingAsked, Nets, Alone, Covers, Covered, Handles, Seen, Becomes3, Popped
<1> QED BY <1>6, <1>7, <1>9, <1>10, <1>11, <1>12, <1>13, <1>14

\* thread_input: update_connection waits for a datagram if the link is WAITING.
LEMMA WaitInput ==
  ASSUME Sound, Good, Live, Sound', Live', Wait("input")
  PROVE  Good'
<1>1. /\ Tops /\ Covers /\ Unstuck /\ Locks /\ Queues /\ TypeOK
      /\ Unstuck' /\ Locks' /\ Queues' /\ TypeOK' /\ faults \in {0, 1} /\ faults' \in {0, 1}
  BY AllKnown
<1> USE DEF Good, Live
<1>2. /\ input # <<>> /\ Top(input) = "wait" /\ main' = main /\ timer' = timer
      /\ \/ status = "WAITING" /\ Goes1(input, input', "sync")
         \/ status # "WAITING" /\ Goes0(input, input')
  BY Zenon, <1>1, InputGoes, AtTop DEF Wait, Done, Sound, input, Operations
<1>3. UNCHANGED <<secure, status, open, polling, told, emutex, buffer, toServer, toBot, faults>>
  BY DEF Wait, Same, SameLink, linkVars, SameEngine, engineVars, SameNet, netVars, SameWorld,
     worldVars
<1>4. /\ <<Top(input), Second(input)>> \in InputNext
      /\ Second(input) \in {"updated"}
      /\ "disconnect" \notin Below(input) /\ Below(input) \subseteq {"updated", "read"}
  <2>1. Follows(input, InputNext) /\ "disconnect" \notin Below(input)
    BY <1>1, <1>2 DEF Tops, OnlyMainNests
  <2>2. Second(input) \in {"updated"}
    BY <1>2, <2>1 DEF Follows, InputNext
  <2>3. "disconnect" \notin Below(input) /\ Below(input) \subseteq {"updated", "read"}
    BY <1>1, <1>2, <2>1, Zenon DEF Tops, Follows, Over, Beneath, Handles, Seen
  <2> QED BY <1>2, <2>1, <2>2, <2>3 DEF Follows
<1>5. /\ Seen(main) /\ Seen(timer) /\ Seen(input) /\ Seen(input')
      /\ \/ status = "WAITING" /\ Becomes(input, input', "sync")
         \/ status # "WAITING" /\ Popped(input, input')
  BY <1>1, <1>2 DEF Tops, Goes0, Goes1
<1>6. InputShape'
  BY <1>2, <1>3, <1>4 DEF InputShape, InputNext, Over, Handles, Beneath, Operations, Goes0, Goes1
<1>7. MainShape' /\ TimerShape' /\ OnlyMainNests'
  BY <1>2, <1>3, <1>4, <1>5 DEF MainShape, NextOfMain, TimerShape, OnlyMainNests, Becomes, Popped
<1>8. Tops' /\ Covers'
  BY <1>6, <1>7, TopsKnown, CoversKnown, PTL
<1>9. NestShape' /\ JoinsClosed' /\ InputGone' /\ ConnectsClosed' /\ HolderCloses'
  BY <1>1, <1>2, <1>3, <1>4, <1>5, <1>8 DEF NestShape, Nested, Alive, JoinsClosed, InputGone,
     Closing, ConnectsClosed, HolderCloses, Tops, Locks, Covers, Covered, Handles, Seen, Becomes,
     Popped
<1>10. FirstLife' /\ NoFaultFirst' /\ NoFaultPolled'
  BY <1>1, <1>2, <1>3, <1>4, <1>5 DEF FirstLife, AskSent, AskAnswered, BufferAsks, Simple,
     NoFaultFirst, Calm, Closing, Receiver, NoFaultPolled, InputWaits, Seen, Becomes, Popped
<1>11. MainCalm' /\ MainReconnects' /\ MainOpens'
  BY <1>1, <1>2, <1>3, <1>4, <1>5 DEF MainCalm, MainGoesOn, Second1, First1, Calm, Closing, AskSent,
     AskAnswered, BufferAsks, Simple, Alone, MainReconnects, MainOpens, Seen, Becomes, Popped
<1>12. SetupCalm' /\ OneAsks' /\ Coming' /\ ChallengeComing'
  BY <1>1, <1>2, <1>3, <1>4, <1>5, <1>8 DEF SetupCalm, SetsUp, Receiver, Nested, OneAsks, InputAsks,
     QueueAsks, BufferAsks, AskSent, AskAnswered, Coming, Nets, ChallengeComing, FirstAsked, Goes0,
     Goes1, Over, Beneath, Operations, HandlingNext, Covers, Covered, Handles, Seen, Becomes, Popped
<1>13. BothBusy' /\ TimerPolls' /\ TimerReopens' /\ TimerCalm'
  BY <1>1, <1>2, <1>3, <1>4, <1>5, <1>8 DEF BothBusy, Nets, Alone, TimerAsks, TimerPolls, Fired,
     AfterSetup, NoHarm, Reopens, Calm, Closing, First1, AskSent, AskAnswered, Simple, BufferAsks,
     Alive, TimerReopens, TimerCalm, TimerSetsUp, OldAsks, FirstAsked, Covers, Covered, Handles,
     Seen, Becomes, Popped
<1>14. StatusTold' /\ ConnectedTold' /\ MineWaits' /\ NothingAsked'
  BY <1>1, <1>2, <1>3, <1>4, <1>5, <1>8 DEF StatusTold, Closing, Told, ConnectedTold, MineWaits,
     NothingAsked, Nets, Alone, Covers, Covered, Handles, Seen, Becomes, Popped
<1> QED BY <1>6, <1>7, <1>9, <1>10, <1>11, <1>12, <1>13, <1>14

\* thread_input: update_connection starts the poll and requests the status.
LEMMA UpdatedInput ==
  ASSUME Sound, Good, Live, Sound', Live', Updated("input")
  PROVE  Good'
<1>1. /\ Tops /\ Covers /\ Unstuck /\ Locks /\ Queues /\ TypeOK
      /\ Unstuck' /\ Locks' /\ Queues' /\ TypeOK' /\ faults \in {0, 1} /\ faults' \in {0, 1}
  BY AllKnown
<1> USE DEF Good, Live
<1>2. /\ input # <<>> /\ Top(input) = "updated" /\ main' = main /\ timer' = timer
      /\ polling' = TRUE
      /\ \/ status \in Alive /\ Goes1(input, input', "request")
         \/ status \notin Alive /\ Goes0(input, input')
  BY Zenon, <1>1, InputGoes, AtTop DEF Updated, Done, Sound, input, Operations
<1>3. UNCHANGED <<secure, status, open, told, emutex, buffer, toServer, toBot, faults>>
  BY DEF Updated, Same, SameLink, linkVars, SameEngine, engineVars, SameNet, netVars, SameWorld,
     worldVars
<1>4. /\ <<Top(input), Second(input)>> \in InputNext
      /\ Second(input) \in {"read", "updated"}
      /\ "disconnect" \notin Below(input) /\ Below(input) \subseteq {"updated", "read"}
  <2>1. Follows(input, InputNext) /\ "disconnect" \notin Below(input)
    BY <1>1, <1>2 DEF Tops, OnlyMainNests
  <2>2. Second(input) \in {"read", "updated"}
    BY <1>2, <2>1 DEF Follows, InputNext
  <2>3. "disconnect" \notin Below(input) /\ Below(input) \subseteq {"updated", "read"}
    BY <1>1, <1>2, <2>1, Zenon DEF Tops, Follows, Over, Beneath, Handles, Seen
  <2> QED BY <1>2, <2>1, <2>2, <2>3 DEF Follows
<1>5. polling
  BY <1>1, <1>2 DEF FirstLife, Simple, Tops, Seen
<1>6. /\ Seen(main) /\ Seen(timer) /\ Seen(input) /\ Seen(input')
      /\ \/ status \in Alive /\ Becomes(input, input', "request")
         \/ status \notin Alive /\ Popped(input, input')
  BY <1>1, <1>2 DEF Tops, Goes0, Goes1
<1>7. InputShape'
  BY <1>2, <1>3, <1>4 DEF InputShape, InputNext, Over, Handles, Beneath, Operations, Goes0, Goes1
<1>8. MainShape' /\ TimerShape' /\ OnlyMainNests'
  BY <1>2, <1>3, <1>4, <1>5, <1>6 DEF MainShape, NextOfMain, TimerShape, OnlyMainNests, Becomes,
     Popped
<1>9. Tops' /\ Covers'
  BY <1>7, <1>8, TopsKnown, CoversKnown, PTL
<1>10. NestShape' /\ JoinsClosed' /\ InputGone' /\ ConnectsClosed' /\ HolderCloses'
  BY <1>1, <1>2, <1>3, <1>4, <1>5, <1>6, <1>9 DEF NestShape, Nested, Alive, JoinsClosed, InputGone,
     Closing, ConnectsClosed, HolderCloses, Tops, Locks, Covers, Covered, Handles, Seen, Becomes,
     Popped
<1>11. FirstLife' /\ NoFaultFirst' /\ NoFaultPolled'
  BY <1>1, <1>2, <1>3, <1>4, <1>5, <1>6 DEF FirstLife, AskSent, AskAnswered, BufferAsks, Simple,
     NoFaultFirst, Calm, Closing, Receiver, NoFaultPolled, InputWaits, Seen, Becomes, Popped
<1>12. MainCalm' /\ MainReconnects' /\ MainOpens'
  BY <1>1, <1>2, <1>3, <1>4, <1>5, <1>6 DEF FirstLife, AskSent, AskAnswered, BufferAsks, Simple,
     MainCalm, MainGoesOn, Second1, First1, Calm, Closing, Alone, MainReconnects, MainOpens, Seen,
     Becomes, Popped
<1>13. SetupCalm' /\ OneAsks' /\ Coming' /\ ChallengeComing'
  <2>1. SetupCalm'
    BY <1>1, <1>2, <1>3, <1>4, <1>5, <1>6, <1>9 DEF FirstLife, AskSent, AskAnswered, BufferAsks,
       Simple, SetupCalm, SetsUp, Receiver, Nested, InputAsks, QueueAsks, Nets, Goes0, Goes1, Over,
       Beneath, Operations, HandlingNext, Tops, Follows, Covers, Covered, Handles, Queues, Seen,
       Becomes, Popped
  <2>2. OneAsks'
    BY <1>1, <1>2, <1>3, <1>4, <1>5, <1>6, <1>9 DEF FirstLife, AskSent, AskAnswered, BufferAsks,
       Simple, Receiver, Nested, OneAsks, InputAsks, QueueAsks, Nets, Goes0, Goes1, Tops, Follows,
       Covers, Covered, Handles, Queues, Seen, Becomes, Popped
  <2>3. Coming' /\ ChallengeComing'
    BY <1>1, <1>2, <1>3, <1>4, <1>5, <1>6, <1>9 DEF FirstLife, AskSent, AskAnswered, BufferAsks,
       Simple, SetupCalm, SetsUp, Receiver, Nested, OneAsks, InputAsks, QueueAsks, Coming, Nets,
       ChallengeComing, FirstAsked, Goes0, Goes1, Over, Beneath, Operations, HandlingNext, Tops,
       Follows, Covers, Covered, Handles, Queues, Seen, Becomes, Popped
  <2> QED BY <2>1, <2>2, <2>3
<1>14. BothBusy' /\ TimerPolls' /\ TimerReopens' /\ TimerCalm'
  BY <1>1, <1>2, <1>3, <1>4, <1>5, <1>6, <1>9 DEF BothBusy, Nets, Alone, TimerAsks, TimerPolls,
     Fired, AfterSetup, NoHarm, Reopens, Calm, Closing, First1, AskSent, AskAnswered, Simple,
     BufferAsks, Alive, TimerReopens, TimerCalm, TimerSetsUp, OldAsks, FirstAsked, Covers, Covered,
     Handles, Seen, Becomes, Popped
<1>15. StatusTold' /\ ConnectedTold' /\ MineWaits' /\ NothingAsked'
  BY <1>1, <1>2, <1>3, <1>4, <1>5, <1>6, <1>9 DEF StatusTold, Closing, Told, ConnectedTold,
     MineWaits, NothingAsked, Nets, Alone, Covers, Covered, Handles, Seen, Becomes, Popped
<1> QED BY <1>7, <1>8, <1>10, <1>11, <1>12, <1>13, <1>14, <1>15

\* thread_input: request_status.
LEMMA RequestInput ==
  ASSUME Sound, Good, Live, Sound', Live', Request("input")
  PROVE  Good'
<1>1. /\ Tops /\ Covers /\ Unstuck /\ Locks /\ Queues /\ TypeOK
      /\ Unstuck' /\ Locks' /\ Queues' /\ TypeOK' /\ faults \in {0, 1} /\ faults' \in {0, 1}
  BY AllKnown
<1> USE DEF Good, Live
<1>2. /\ input # <<>> /\ Top(input) = "request" /\ main' = main /\ timer' = timer
      /\ \/ status = "CONNECTED" /\ Goes2(input, input', "checking", "ask")
         \/ status \in {"CONNECTING", "CHECKING"} /\ Goes1(input, input', "ask")
         \/ status \in {"WAITING", "DISCONNECTED"} /\ Goes2(input, input', "close", "connect")
  BY Zenon, <1>1, InputGoes, AtTop DEF Request, Alive, TypeOK, Done, Sound, input, Operations
<1>3. UNCHANGED <<secure, status, open, polling, told, emutex, buffer, toServer, toBot, faults>>
  BY DEF Request, Same, SameLink, linkVars, SameEngine, engineVars, SameNet, netVars, SameWorld,
     worldVars
<1>4. /\ <<Top(input), Second(input)>> \in InputNext
      /\ Second(input) \in {"read", "updated"}
      /\ "disconnect" \notin Below(input) /\ Below(input) \subseteq {"updated", "read"}
  <2>1. Follows(input, InputNext) /\ "disconnect" \notin Below(input)
    BY <1>1, <1>2 DEF Tops, OnlyMainNests
  <2>2. Second(input) \in {"read", "updated"}
    BY <1>2, <2>1 DEF Follows, InputNext
  <2>3. "disconnect" \notin Below(input) /\ Below(input) \subseteq {"updated", "read"}
    BY <1>1, <1>2, <2>1, Zenon DEF Tops, Follows, Over, Beneath, Handles, Seen
  <2> QED BY <1>2, <2>1, <2>2, <2>3 DEF Follows
<1>5. /\ Seen(main) /\ Seen(timer) /\ Seen(input) /\ Seen(input')
      /\ \/ status = "CONNECTED" /\ Becomes2(input, input', "checking", "ask")
         \/ status \in {"CONNECTING", "CHECKING"} /\ Becomes(input, input', "ask")
         \/ status \in {"WAITING", "DISCONNECTED"} /\ Becomes2(input, input', "close", "connect")
  BY <1>1, <1>2 DEF Tops, Goes1, Goes2
<1>6. InputShape'
  BY <1>1, <1>2, <1>3, <1>4, <1>5 DEF InputShape, InputNext, Over, Handles, Beneath, Operations,
     Goes1, Goes2, Unstuck, Leaves, Closes, Becomes, Becomes2, Seen
<1>7. MainShape' /\ TimerShape' /\ OnlyMainNests'
  BY <1>2, <1>3, <1>4, <1>5 DEF MainShape, NextOfMain, TimerShape, OnlyMainNests, Becomes, Becomes2
<1>8. Tops' /\ Covers'
  BY <1>6, <1>7, TopsKnown, CoversKnown, PTL
<1>9. NestShape' /\ JoinsClosed' /\ InputGone' /\ ConnectsClosed' /\ HolderCloses'
  BY <1>1, <1>2, <1>3, <1>4, <1>5, <1>8 DEF NestShape, Nested, Alive, JoinsClosed, InputGone,
     Closing, ConnectsClosed, HolderCloses, Tops, Locks, Seen, Becomes, Becomes2
<1>10. FirstLife' /\ NoFaultFirst' /\ NoFaultPolled'
  BY <1>1, <1>2, <1>3, <1>4, <1>5, <1>8 DEF FirstLife, AskSent, AskAnswered, BufferAsks, Simple,
     NoFaultFirst, Calm, Closing, Receiver, NoFaultPolled, InputWaits, TimerReopens, Covers,
     Covered, Handles, Seen, Becomes, Becomes2
<1>11. MainCalm' /\ MainReconnects' /\ MainOpens'
  BY <1>1, <1>2, <1>3, <1>4, <1>5 DEF MainCalm, MainGoesOn, Second1, First1, Calm, Closing, AskSent,
     AskAnswered, BufferAsks, Simple, Alone, MainReconnects, MainOpens, Unstuck, Leaves, Closes,
     Seen, Becomes, Becomes2
<1>12. SetupCalm' /\ OneAsks' /\ Coming' /\ ChallengeComing'
  BY <1>1, <1>2, <1>3, <1>4, <1>5 DEF SetupCalm, SetsUp, Receiver, Nested, OneAsks, InputAsks,
     QueueAsks, BufferAsks, AskSent, AskAnswered, Coming, Nets, ChallengeComing, FirstAsked, Goes1,
     Goes2, Over, Beneath, Operations, HandlingNext, Tops, Follows, Unstuck, Leaves, Closes, Seen,
     Becomes, Becomes2
<1>13. BothBusy' /\ TimerPolls' /\ TimerReopens' /\ TimerCalm'
  BY <1>1, <1>2, <1>3, <1>4, <1>5 DEF BothBusy, Nets, Alone, TimerAsks, TimerPolls, Fired,
     AfterSetup, NoHarm, Reopens, Calm, Closing, First1, AskSent, AskAnswered, Simple, BufferAsks,
     Alive, TimerReopens, TimerCalm, TimerSetsUp, OldAsks, FirstAsked, Unstuck, Leaves, Closes,
     Seen, Becomes, Becomes2
<1>14. StatusTold' /\ ConnectedTold' /\ MineWaits' /\ NothingAsked'
  BY <1>1, <1>2, <1>3, <1>4, <1>5 DEF TimerPolls, TimerAsks, Alone, Fired, AfterSetup, NoHarm,
     Reopens, Nets, Calm, Closing, First1, AskSent, AskAnswered, Simple, BufferAsks, Alive,
     StatusTold, Told, ConnectedTold, MineWaits, NothingAsked, Covers, Covered, Seen, Becomes,
     Becomes2
<1> QED BY <1>6, <1>7, <1>9, <1>10, <1>11, <1>12, <1>13, <1>14

\* thread_input: request_status of a CONNECTED link.
LEMMA CheckingInput ==
  ASSUME Sound, Good, Live, Sound', Live', Checking("input")
  PROVE  Good'
<1>1. /\ Tops /\ Covers /\ Unstuck /\ Locks /\ Queues /\ TypeOK
      /\ Unstuck' /\ Locks' /\ Queues' /\ TypeOK' /\ faults \in {0, 1} /\ faults' \in {0, 1}
  BY AllKnown
<1> USE DEF Good, Live
<1>2. /\ input # <<>> /\ Top(input) = "checking" /\ main' = main /\ timer' = timer
      /\ status' = "CHECKING" /\ Goes0(input, input')
  BY Zenon, <1>1, InputGoes, AtTop DEF Checking, Done, Sound, input, Operations
<1>3. UNCHANGED <<secure, open, polling, told, emutex, buffer, toServer, toBot, faults>>
  BY DEF Checking, Same, SameLink, linkVars, SameEngine, engineVars, SameNet, netVars, SameWorld,
     worldVars
<1>4. /\ <<Top(input), Second(input)>> \in InputNext
      /\ Second(input) \in {"ask"}
      /\ "disconnect" \notin Below(input) /\ Below(input) \subseteq {"updated", "read", "ask"}
  <2>1. Follows(input, InputNext) /\ "disconnect" \notin Below(input)
    BY <1>1, <1>2 DEF Tops, OnlyMainNests
  <2>2. Second(input) \in {"ask"}
    BY <1>2, <2>1 DEF Follows, InputNext
  <2>3. "disconnect" \notin Below(input) /\ Below(input) \subseteq {"updated", "read", "ask"}
    BY <1>1, <1>2, <2>1, Zenon DEF Tops, Follows, Over, Beneath, Handles, Seen
  <2> QED BY <1>2, <2>1, <2>2, <2>3 DEF Follows
<1>5. /\ Seen(main) /\ Seen(timer) /\ Seen(input) /\ Seen(input')
      /\ status' = "CHECKING" /\ Popped(input, input')
  BY <1>1, <1>2 DEF Tops, Goes0
<1>6. InputShape'
  BY <1>2, <1>3, <1>4 DEF InputShape, InputNext, Over, Handles, Beneath, Operations, Goes0
<1>7. MainShape' /\ TimerShape' /\ OnlyMainNests'
  BY <1>2, <1>3, <1>4, <1>5 DEF MainShape, NextOfMain, TimerShape, OnlyMainNests, Popped
<1>8. Tops' /\ Covers'
  BY <1>6, <1>7, TopsKnown, CoversKnown, PTL
<1>9. NestShape' /\ JoinsClosed' /\ InputGone' /\ ConnectsClosed' /\ HolderCloses'
  BY <1>1, <1>2, <1>3, <1>4, <1>5, <1>8 DEF NestShape, Nested, Alive, JoinsClosed, InputGone,
     Closing, ConnectsClosed, HolderCloses, Tops, Locks, Covers, Covered, Handles, Seen, Popped
<1>10. FirstLife' /\ NoFaultFirst' /\ NoFaultPolled'
  BY <1>1, <1>2, <1>3, <1>4, <1>5 DEF FirstLife, AskSent, AskAnswered, BufferAsks, Simple,
     NoFaultFirst, Calm, Closing, Receiver, NoFaultPolled, InputWaits, Seen, Popped
<1>11. MainCalm' /\ MainReconnects' /\ MainOpens'
  BY <1>1, <1>2, <1>3, <1>4, <1>5 DEF MainCalm, MainGoesOn, Second1, First1, Calm, Closing, AskSent,
     AskAnswered, BufferAsks, Simple, Alone, MainReconnects, MainOpens, Seen, Popped
<1>12. SetupCalm' /\ OneAsks' /\ Coming' /\ ChallengeComing'
  BY <1>1, <1>2, <1>3, <1>4, <1>5, <1>8 DEF SetupCalm, SetsUp, Receiver, Nested, OneAsks, InputAsks,
     QueueAsks, BufferAsks, AskSent, AskAnswered, Coming, Nets, ChallengeComing, FirstAsked, Goes0,
     Over, Beneath, Operations, HandlingNext, Covers, Covered, Handles, Seen, Popped
<1>13. BothBusy' /\ TimerPolls' /\ TimerReopens' /\ TimerCalm'
  BY <1>1, <1>2, <1>3, <1>4, <1>5 DEF BothBusy, Nets, Alone, TimerAsks, TimerPolls, Fired,
     AfterSetup, NoHarm, Reopens, Calm, Closing, First1, AskSent, AskAnswered, Simple, BufferAsks,
     Alive, TimerReopens, TimerCalm, TimerSetsUp, OldAsks, FirstAsked, Seen, Popped
<1>14. StatusTold' /\ ConnectedTold' /\ MineWaits' /\ NothingAsked'
  BY <1>1, <1>2, <1>3, <1>4, <1>5 DEF StatusTold, Closing, Told, ConnectedTold, MineWaits,
     NothingAsked, Nets, Alone, Seen, Popped
<1> QED BY <1>6, <1>7, <1>9, <1>10, <1>11, <1>12, <1>13, <1>14

\* thread_input: a command, when the link is DISCONNECTED.
LEMMA CommandDroppedInput ==
  ASSUME Sound, Good, Live, Sound', Live', CommandDropped("input")
  PROVE  Good'
<1>1. /\ Tops /\ Covers /\ Unstuck /\ Locks /\ Queues /\ TypeOK
      /\ Unstuck' /\ Locks' /\ Queues' /\ TypeOK' /\ faults \in {0, 1} /\ faults' \in {0, 1}
  BY AllKnown
<1> USE DEF Good, Live
<1>2. /\ input # <<>> /\ Top(input) \in {"set", "unset", "ask"} /\ main' = main /\ timer' = timer
      /\ status = "DISCONNECTED" /\ Goes0(input, input')
  BY Zenon, <1>1, InputGoes, AtTop DEF CommandDropped, Commands, Done, Sound, input, Operations, Commands
<1>3. UNCHANGED <<secure, status, open, polling, told, emutex, buffer, toServer, toBot, faults>>
  BY DEF CommandDropped, Same, SameLink, linkVars, SameEngine, engineVars, SameNet, netVars,
     SameWorld, worldVars
<1>4. /\ <<Top(input), Second(input)>> \in InputNext
      /\ \/ Top(input) = "set" /\ Second(input) \in {"wait"}
         \/ Top(input) = "ask" /\ Second(input) \in {"read", "updated"}
      /\ "disconnect" \notin Below(input) /\ Below(input) \subseteq {"updated", "read", "wait"}
  <2>1. Follows(input, InputNext) /\ "disconnect" \notin Below(input)
    BY <1>1, <1>2 DEF Tops, OnlyMainNests
  <2>2. \/ Top(input) = "set" /\ Second(input) \in {"wait"}
        \/ Top(input) = "ask" /\ Second(input) \in {"read", "updated"}
    BY <1>2, <2>1 DEF Follows, InputNext
  <2>3. "disconnect" \notin Below(input) /\ Below(input) \subseteq {"updated", "read", "wait"}
    BY <1>1, <1>2, <2>1, Zenon DEF Tops, Follows, Over, Beneath, Handles, Seen
  <2> QED BY <1>2, <2>1, <2>2, <2>3 DEF Follows
<1>5. /\ Seen(main) /\ Seen(timer) /\ Seen(input) /\ Seen(input')
      /\ status = "DISCONNECTED" /\ Popped(input, input')
  BY <1>1, <1>2 DEF Tops, Goes0
<1>6. InputShape'
  BY <1>2, <1>3, <1>4 DEF InputShape, InputNext, Over, Handles, Beneath, Operations, Goes0
<1>7. MainShape' /\ TimerShape' /\ OnlyMainNests'
  BY <1>2, <1>3, <1>4, <1>5 DEF MainShape, NextOfMain, TimerShape, OnlyMainNests, Popped
<1>8. Tops' /\ Covers'
  BY <1>6, <1>7, TopsKnown, CoversKnown, PTL
<1>9. NestShape' /\ JoinsClosed' /\ InputGone' /\ ConnectsClosed' /\ HolderCloses'
  BY <1>1, <1>2, <1>3, <1>4, <1>5, <1>8 DEF NestShape, Nested, Alive, JoinsClosed, InputGone,
     Closing, ConnectsClosed, HolderCloses, Tops, Locks, Covers, Covered, Handles, Seen, Popped
<1>10. FirstLife' /\ NoFaultFirst' /\ NoFaultPolled'
  BY <1>1, <1>2, <1>3, <1>4, <1>5 DEF FirstLife, AskSent, AskAnswered, BufferAsks, Simple,
     NoFaultFirst, Calm, Closing, Receiver, NoFaultPolled, InputWaits, Seen, Popped
<1>11. MainCalm' /\ MainReconnects' /\ MainOpens'
  BY <1>1, <1>2, <1>3, <1>4, <1>5 DEF MainCalm, MainGoesOn, Second1, First1, Calm, Closing, AskSent,
     AskAnswered, BufferAsks, Simple, Alone, MainReconnects, MainOpens, Seen, Popped
<1>12. SetupCalm' /\ OneAsks' /\ Coming' /\ ChallengeComing'
  BY <1>1, <1>2, <1>3, <1>4, <1>5, <1>8 DEF NestShape, Nested, Alive, SetupCalm, SetsUp, Receiver,
     OneAsks, InputAsks, QueueAsks, BufferAsks, AskSent, AskAnswered, Coming, Nets, ChallengeComing,
     FirstAsked, BothBusy, Alone, TimerAsks, NothingAsked, Closing, Goes0, Over, Beneath,
     Operations, HandlingNext, Tops, Unstuck, Leaves, Closes, Covers, Covered, Handles, Seen, Popped
<1>13. BothBusy' /\ TimerPolls' /\ TimerReopens' /\ TimerCalm'
  BY <1>1, <1>2, <1>3, <1>4, <1>5, <1>8 DEF FirstLife, AskSent, AskAnswered, BufferAsks, Simple,
     NoFaultPolled, Calm, Closing, InputWaits, BothBusy, Nets, Alone, TimerAsks, TimerPolls, Fired,
     AfterSetup, NoHarm, Reopens, First1, Alive, TimerReopens, TimerCalm, TimerSetsUp, OldAsks,
     FirstAsked, Covers, Covered, Handles, Seen, Popped
<1>14. StatusTold' /\ ConnectedTold' /\ MineWaits' /\ NothingAsked'
  BY <1>1, <1>2, <1>3, <1>4, <1>5, <1>8 DEF StatusTold, Closing, Told, ConnectedTold, MineWaits,
     NothingAsked, Nets, Alone, Covers, Covered, Handles, Seen, Popped
<1> QED BY <1>6, <1>7, <1>9, <1>10, <1>11, <1>12, <1>13, <1>14

\* thread_input: a command is written.
LEMMA CommandSentInput ==
  ASSUME Sound, Good, Live, Sound', Live', CommandSent("input")
  PROVE  Good'
<1>1. /\ Tops /\ Covers /\ Unstuck /\ Locks /\ Queues /\ TypeOK
      /\ Unstuck' /\ Locks' /\ Queues' /\ TypeOK' /\ faults \in {0, 1} /\ faults' \in {0, 1}
  BY AllKnown
<1> USE DEF Good, Live
<1>2. /\ input # <<>> /\ Top(input) \in {"set", "unset", "ask"} /\ main' = main /\ timer' = timer
      /\ Added(toServer, toServer', Top(input), {"ask"})
      /\ secure = "NO" /\ open /\ status # "DISCONNECTED" /\ Goes0(input, input')
  <2>1. PICK cmd \in Commands : Sending("input", cmd) /\ toServer' = Append(toServer, cmd)
    BY DEF CommandSent
  <2>2. input # <<>> /\ Top(input) = cmd /\ status # "DISCONNECTED"
    BY <1>1, <2>1, AtTop DEF Sending, Threads, input
  <2>3. Added(toServer, toServer', Top(input), {"ask"})
    BY <1>1, <2>1, <2>2, Sent
  <2> QED BY <1>1, <2>2, <2>3, InputGoes DEF CommandSent, Done, Commands
<1>3. UNCHANGED <<secure, status, open, polling, told, emutex, buffer, toBot, faults>>
  BY DEF CommandSent, Same, SameLink, linkVars, SameEngine, engineVars, SameNet, netVars, SameWorld,
     worldVars
<1>4. /\ <<Top(input), Second(input)>> \in InputNext
      /\ \/ Top(input) = "set" /\ Second(input) \in {"wait"}
         \/ Top(input) = "ask" /\ Second(input) \in {"read", "updated"}
      /\ "disconnect" \notin Below(input) /\ Below(input) \subseteq {"updated", "read", "wait"}
  <2>1. Follows(input, InputNext) /\ "disconnect" \notin Below(input)
    BY <1>1, <1>2 DEF Tops, OnlyMainNests
  <2>2. \/ Top(input) = "set" /\ Second(input) \in {"wait"}
        \/ Top(input) = "ask" /\ Second(input) \in {"read", "updated"}
    BY <1>2, <2>1 DEF Follows, InputNext
  <2>3. "disconnect" \notin Below(input) /\ Below(input) \subseteq {"updated", "read", "wait"}
    BY <1>1, <1>2, <2>1, Zenon DEF Tops, Follows, Over, Beneath, Handles, Seen
  <2> QED BY <1>2, <2>1, <2>2, <2>3 DEF Follows
<1>5. /\ Seen(main) /\ Seen(timer) /\ Seen(input) /\ Seen(input')
      /\ secure = "NO" /\ open /\ status # "DISCONNECTED" /\ Popped(input, input')
  BY <1>1, <1>2 DEF Tops, Goes0
<1>6. InputShape'
  BY <1>2, <1>3, <1>4 DEF InputShape, InputNext, Over, Handles, Beneath, Operations, Goes0
<1>7. MainShape' /\ TimerShape' /\ OnlyMainNests'
  BY <1>2, <1>3, <1>4, <1>5 DEF MainShape, NextOfMain, TimerShape, OnlyMainNests, Popped
<1>8. Tops' /\ Covers'
  BY <1>6, <1>7, TopsKnown, CoversKnown, PTL
<1>9. NestShape' /\ JoinsClosed' /\ InputGone' /\ ConnectsClosed' /\ HolderCloses'
  BY <1>1, <1>2, <1>3, <1>4, <1>5, <1>8 DEF NestShape, Nested, Alive, JoinsClosed, InputGone,
     Closing, ConnectsClosed, HolderCloses, Tops, Locks, Covers, Covered, Handles, Seen, Popped
<1>10. FirstLife' /\ NoFaultFirst' /\ NoFaultPolled'
  BY <1>1, <1>2, <1>3, <1>4, <1>5 DEF FirstLife, AskSent, AskAnswered, BufferAsks, Simple,
     NoFaultFirst, Calm, Closing, Receiver, NoFaultPolled, InputWaits, Added, Queues, Seen, Popped
<1>11. MainCalm' /\ MainReconnects' /\ MainOpens'
  BY <1>1, <1>2, <1>3, <1>4, <1>5, <1>8 DEF ConnectsClosed, MainCalm, MainGoesOn, Second1, First1,
     Calm, Closing, AskSent, AskAnswered, BufferAsks, Simple, Alone, MainReconnects, MainOpens,
     Covers, Covered, Handles, Added, Queues, Seen, Popped
<1>12. SetupCalm' /\ OneAsks' /\ Coming' /\ ChallengeComing'
  BY <1>1, <1>2, <1>3, <1>4, <1>5, <1>8 DEF FirstLife, AskSent, AskAnswered, BufferAsks, Simple,
     SetupCalm, SetsUp, Receiver, Nested, OneAsks, InputAsks, QueueAsks, Coming, Nets,
     ChallengeComing, FirstAsked, Goes0, Over, Beneath, Operations, HandlingNext, Tops, Follows,
     Covers, Covered, Handles, Queues, Added, Seen, Popped
<1>13. BothBusy' /\ TimerPolls' /\ TimerReopens' /\ TimerCalm'
  BY <1>1, <1>2, <1>3, <1>4, <1>5, <1>8 DEF BothBusy, Nets, Alone, TimerAsks, TimerPolls, Fired,
     AfterSetup, NoHarm, Reopens, Calm, Closing, First1, AskSent, AskAnswered, Simple, BufferAsks,
     Alive, TimerReopens, TimerCalm, TimerSetsUp, OldAsks, FirstAsked, Covers, Covered, Handles,
     Added, Queues, Seen, Popped
<1>14. StatusTold' /\ ConnectedTold' /\ MineWaits' /\ NothingAsked'
  BY <1>1, <1>2, <1>3, <1>4, <1>5, <1>8 DEF StatusTold, Closing, Told, ConnectedTold, MineWaits,
     NothingAsked, Nets, Alone, Covers, Covered, Handles, Added, Queues, Seen, Popped
<1> QED BY <1>6, <1>7, <1>9, <1>10, <1>11, <1>12, <1>13, <1>14

\* thread_input: schedule_challenged_command.
LEMMA CommandScheduledInput ==
  ASSUME Sound, Good, Live, Sound', Live', CommandScheduled("input")
  PROVE  Good'
<1>1. /\ Tops /\ Covers /\ Unstuck /\ Locks /\ Queues /\ TypeOK
      /\ Unstuck' /\ Locks' /\ Queues' /\ TypeOK' /\ faults \in {0, 1} /\ faults' \in {0, 1}
  BY AllKnown
<1> USE DEF Good, Live
<1>2. /\ input # <<>> /\ Top(input) \in {"set", "unset", "ask"} /\ main' = main /\ timer' = timer
      /\ OneMore(buffer, buffer', Top(input))
      /\ secure = "CHALLENGE" /\ emutex = "free" /\ status # "DISCONNECTED" /\
           Goes1(input, input', "getchallenge")
  <2>1. PICK cmd \in Commands :
             Sending("input", cmd) /\ buffer' = Append(buffer, [cmd |-> cmd, challenged |-> FALSE])
    BY DEF CommandScheduled
  <2>2. input # <<>> /\ Top(input) = cmd /\ status # "DISCONNECTED"
    BY <1>1, <2>1, AtTop DEF Sending, Threads, input
  <2>3. OneMore(buffer, buffer', Top(input))
    BY <1>1, <2>1, <2>2, Scheduled
  <2> QED BY Zenon, <1>1, <2>2, <2>3, InputGoes DEF CommandScheduled, EngineFree, Commands, Operations
<1>3. UNCHANGED <<secure, status, open, polling, told, emutex, toServer, toBot, faults>>
  BY DEF CommandScheduled, Same, SameLink, linkVars, SameEngine, engineVars, SameNet, netVars,
     SameWorld, worldVars
<1>4. /\ <<Top(input), Second(input)>> \in InputNext
      /\ \/ Top(input) = "set" /\ Second(input) \in {"wait"}
         \/ Top(input) = "ask" /\ Second(input) \in {"read", "updated"}
      /\ "disconnect" \notin Below(input) /\ Below(input) \subseteq {"updated", "read", "wait"}
  <2>1. Follows(input, InputNext) /\ "disconnect" \notin Below(input)
    BY <1>1, <1>2 DEF Tops, OnlyMainNests
  <2>2. \/ Top(input) = "set" /\ Second(input) \in {"wait"}
        \/ Top(input) = "ask" /\ Second(input) \in {"read", "updated"}
    BY <1>2, <2>1 DEF Follows, InputNext
  <2>3. "disconnect" \notin Below(input) /\ Below(input) \subseteq {"updated", "read", "wait"}
    BY <1>1, <1>2, <2>1, Zenon DEF Tops, Follows, Over, Beneath, Handles, Seen
  <2> QED BY <1>2, <2>1, <2>2, <2>3 DEF Follows
<1>5. /\ Seen(main) /\ Seen(timer) /\ Seen(input) /\ Seen(input')
      /\ secure = "CHALLENGE" /\ emutex = "free" /\ status # "DISCONNECTED" /\
           Becomes(input, input', "getchallenge")
  BY <1>1, <1>2 DEF Tops, Goes1
<1>6. InputShape'
  BY <1>2, <1>3, <1>4 DEF InputShape, InputNext, Over, Handles, Beneath, Operations, Goes1
<1>7. MainShape' /\ TimerShape' /\ OnlyMainNests'
  BY <1>2, <1>3, <1>4, <1>5 DEF MainShape, NextOfMain, TimerShape, OnlyMainNests, Becomes
<1>8. Tops' /\ Covers'
  BY <1>6, <1>7, TopsKnown, CoversKnown, PTL
<1>9. NestShape' /\ JoinsClosed' /\ InputGone' /\ ConnectsClosed' /\ HolderCloses'
  BY <1>1, <1>2, <1>3, <1>4, <1>5, <1>8 DEF NestShape, Nested, Alive, JoinsClosed, InputGone,
     Closing, ConnectsClosed, HolderCloses, Tops, Locks, OneMore, Queues, Seen, Becomes
<1>10. FirstLife' /\ NoFaultFirst' /\ NoFaultPolled'
  BY <1>1, <1>2, <1>3, <1>4, <1>5 DEF FirstLife, AskSent, AskAnswered, BufferAsks, Simple,
     NoFaultFirst, Calm, Closing, Receiver, NoFaultPolled, InputWaits, OneMore, Queues, Seen,
     Becomes
<1>11. MainCalm' /\ MainReconnects' /\ MainOpens'
  BY <1>1, <1>2, <1>3, <1>4, <1>5 DEF MainCalm, MainGoesOn, Second1, First1, Calm, Closing, AskSent,
     AskAnswered, BufferAsks, Simple, Alone, MainReconnects, MainOpens, OneMore, Queues, Seen,
     Becomes
<1>12. SetupCalm' /\ OneAsks' /\ Coming' /\ ChallengeComing'
  <2>1. SetupCalm'
    BY <1>1, <1>2, <1>3, <1>4, <1>5, <1>8 DEF FirstLife, AskSent, AskAnswered, BufferAsks, Simple,
       SetupCalm, SetsUp, Receiver, Nested, InputAsks, QueueAsks, Nets, Goes1, Over, Beneath,
       Operations, HandlingNext, Tops, Follows, Covers, Covered, Handles, Queues, OneMore, Seen,
       Becomes
  <2>2. OneAsks'
    <3>1. InputAsks
      BY <1>2, <1>4, <1>5 DEF InputAsks, Seen
    <3>2. CASE ~(Receiver /\ ~Nested)
      BY <1>2, <3>2 DEF OneAsks, Receiver, Nested
    <3>3. CASE Receiver /\ ~Nested
      <4>1. /\ Top(main) = "receiving" /\ ~BufferAsks /\ ~AskSent /\ ~AskAnswered
            /\ AtMostOne(toServer, {"ask"}) /\ AtMostOne(toBot, {"mine", "others"})
            /\ OneAsk(buffer)
        BY <1>1, <1>4, <3>1, <3>3 DEF OneAsks, QueueAsks
      <4>2. OneAsk(buffer') /\ (Top(input) # "ask" => ~BufferAsks')
        BY <1>2, <4>1 DEF OneMore, BufferAsks
      <4>3. polling /\ SetsUp
        BY <1>1, <1>2, <1>5, <3>3 DEF FirstLife, Simple, SetsUp, Seen
      <4>4. Top(input) = "ask" => ~InputAsks'
        <5>1. Follows(input, HandlingNext)
          BY <1>1, <4>3 DEF SetupCalm, Tops
        <5>2. Top(input) = "ask" => Second(input) = "read"
          BY <1>2, <5>1 DEF Follows, HandlingNext
        <5>3. Top(input) = "ask" => Below(input) = {"read"}
          BY <1>1, <1>2, <1>4, <1>5, <4>3, <5>1, <5>2 DEF Seen, Tops, Covers, Covered
        <5> QED BY <1>5, <5>3 DEF InputAsks, Becomes
      <4> QED
        BY <1>2, <1>3, <1>5, <3>3, <4>1, <4>2, <4>4
        DEF Receiver, Nested, OneAsks, QueueAsks, AskSent, AskAnswered
    <3> QED BY <3>2, <3>3
  <2>3. Coming' /\ ChallengeComing'
    BY <1>1, <1>2, <1>3, <1>4, <1>5, <1>8 DEF FirstLife, AskSent, AskAnswered, BufferAsks, Simple,
       SetupCalm, SetsUp, Receiver, Nested, OneAsks, InputAsks, QueueAsks, Coming, Nets,
       ChallengeComing, FirstAsked, Goes1, Over, Beneath, Operations, HandlingNext, Tops, Follows,
       Covers, Covered, Handles, Queues, OneMore, Seen, Becomes
  <2> QED BY <2>1, <2>2, <2>3
<1>13. BothBusy' /\ TimerPolls' /\ TimerReopens' /\ TimerCalm'
  BY <1>1, <1>2, <1>3, <1>4, <1>5 DEF BothBusy, Nets, Alone, TimerAsks, TimerPolls, Fired,
     AfterSetup, NoHarm, Reopens, Calm, Closing, First1, AskSent, AskAnswered, Simple, BufferAsks,
     Alive, TimerReopens, TimerCalm, TimerSetsUp, OldAsks, FirstAsked, OneMore, Queues, Seen,
     Becomes
<1>14. StatusTold' /\ ConnectedTold' /\ MineWaits' /\ NothingAsked'
  BY <1>1, <1>2, <1>3, <1>4, <1>5 DEF StatusTold, Closing, Told, ConnectedTold, MineWaits,
     NothingAsked, Nets, Alone, OneMore, Queues, Seen, Becomes
<1> QED BY <1>6, <1>7, <1>9, <1>10, <1>11, <1>12, <1>13, <1>14

\* thread_input: a command is not written.
LEMMA CommandFailsInput ==
  ASSUME Sound, Good, Live, Sound', Live', CommandFails("input")
  PROVE  Good'
<1>1. /\ Tops /\ Covers /\ Unstuck /\ Locks /\ Queues /\ TypeOK
      /\ Unstuck' /\ Locks' /\ Queues' /\ TypeOK' /\ faults \in {0, 1} /\ faults' \in {0, 1}
  BY AllKnown
<1> USE DEF Good, Live
<1>2. /\ input # <<>> /\ Top(input) \in {"set", "unset", "ask"} /\ main' = main /\ timer' = timer
      /\ ((open /\ faults = 0 /\ faults' = 1) \/ (~open /\ faults' = faults))
      /\ secure = "NO" /\ status # "DISCONNECTED" /\ Goes1(input, input', "close")
  <2>1. PICK cmd \in Commands : Sending("input", cmd)
    BY DEF CommandFails
  <2>2. input # <<>> /\ Top(input) = cmd /\ status # "DISCONNECTED"
    BY <1>1, <2>1, AtTop DEF Sending, Threads, input
  <2>3. (open /\ faults = 0 /\ faults' = 1) \/ (~open /\ faults' = faults)
    BY <1>1, OneFault DEF CommandFails, SendFails, SameWorld, worldVars
  <2> QED BY Zenon, <1>1, <2>2, <2>3, InputGoes DEF CommandFails, Commands, Operations
<1>3. UNCHANGED <<secure, status, open, polling, told, emutex, buffer, toServer, toBot>>
  BY DEF CommandFails, Same, SameLink, linkVars, SameEngine, engineVars, SameNet, netVars,
     SameWorld, worldVars
<1>4. /\ <<Top(input), Second(input)>> \in InputNext
      /\ \/ Top(input) = "set" /\ Second(input) \in {"wait"}
         \/ Top(input) = "ask" /\ Second(input) \in {"read", "updated"}
      /\ "disconnect" \notin Below(input) /\ Below(input) \subseteq {"updated", "read", "wait"}
  <2>1. Follows(input, InputNext) /\ "disconnect" \notin Below(input)
    BY <1>1, <1>2 DEF Tops, OnlyMainNests
  <2>2. \/ Top(input) = "set" /\ Second(input) \in {"wait"}
        \/ Top(input) = "ask" /\ Second(input) \in {"read", "updated"}
    BY <1>2, <2>1 DEF Follows, InputNext
  <2>3. "disconnect" \notin Below(input) /\ Below(input) \subseteq {"updated", "read", "wait"}
    BY <1>1, <1>2, <2>1, Zenon DEF Tops, Follows, Over, Beneath, Handles, Seen
  <2> QED BY <1>2, <2>1, <2>2, <2>3 DEF Follows
<1>5. /\ Seen(main) /\ Seen(timer) /\ Seen(input) /\ Seen(input')
      /\ secure = "NO" /\ status # "DISCONNECTED" /\ Becomes(input, input', "close")
  BY <1>1, <1>2 DEF Tops, Goes1
<1>6. InputShape'
  BY <1>2, <1>3, <1>4 DEF InputShape, InputNext, Over, Handles, Beneath, Operations, Goes1
<1>7. MainShape' /\ TimerShape' /\ OnlyMainNests'
  BY <1>2, <1>3, <1>4, <1>5 DEF MainShape, NextOfMain, TimerShape, OnlyMainNests, Becomes
<1>8. Tops' /\ Covers'
  BY <1>6, <1>7, TopsKnown, CoversKnown, PTL
<1>9. NestShape' /\ JoinsClosed' /\ InputGone' /\ ConnectsClosed' /\ HolderCloses'
  BY <1>1, <1>2, <1>3, <1>4, <1>5, <1>8 DEF NestShape, Nested, Alive, JoinsClosed, InputGone,
     Closing, ConnectsClosed, HolderCloses, Tops, Locks, Seen, Becomes
<1>10. FirstLife' /\ NoFaultFirst' /\ NoFaultPolled'
  BY <1>1, <1>2, <1>3, <1>4, <1>5 DEF FirstLife, AskSent, AskAnswered, BufferAsks, Simple,
     NoFaultFirst, Calm, Closing, Receiver, NoFaultPolled, InputWaits, TimerPolls, TimerAsks, Alone,
     Fired, AfterSetup, NoHarm, Reopens, Nets, First1, Alive, Covers, Covered, Seen, Becomes
<1>11. MainCalm' /\ MainReconnects' /\ MainOpens'
  BY <1>1, <1>2, <1>3, <1>4, <1>5 DEF FirstLife, AskSent, AskAnswered, BufferAsks, Simple,
     NoFaultPolled, Calm, Closing, InputWaits, MainCalm, MainGoesOn, Second1, First1, Alone,
     MainReconnects, MainOpens, Seen, Becomes
<1>12. SetupCalm' /\ OneAsks' /\ Coming' /\ ChallengeComing'
  BY <1>1, <1>2, <1>3, <1>4, <1>5 DEF MainCalm, MainGoesOn, Second1, First1, Calm, Closing, AskSent,
     AskAnswered, BufferAsks, Simple, Alone, SetupCalm, SetsUp, Receiver, Nested, OneAsks,
     InputAsks, QueueAsks, Coming, Nets, ChallengeComing, FirstAsked, Goes1, Over, Beneath,
     Operations, HandlingNext, Tops, Follows, NextOfMain, MainNext, FirstNext, Seen, Becomes
<1>13. BothBusy' /\ TimerPolls' /\ TimerReopens' /\ TimerCalm'
  BY <1>1, <1>2, <1>3, <1>4, <1>5 DEF BothBusy, Nets, Alone, TimerAsks, TimerPolls, Fired,
     AfterSetup, NoHarm, Reopens, Calm, Closing, First1, AskSent, AskAnswered, Simple, BufferAsks,
     Alive, TimerReopens, TimerCalm, TimerSetsUp, OldAsks, FirstAsked, Seen, Becomes
<1>14. StatusTold' /\ ConnectedTold' /\ MineWaits' /\ NothingAsked'
  BY <1>1, <1>2, <1>3, <1>4, <1>5 DEF StatusTold, Closing, Told, ConnectedTold, MineWaits,
     NothingAsked, Nets, Alone, Seen, Becomes
<1> QED BY <1>6, <1>7, <1>9, <1>10, <1>11, <1>12, <1>13, <1>14

\* thread_input: request_challenge asks.
LEMMA GetChallengeAsksInput ==
  ASSUME Sound, Good, Live, Sound', Live', GetChallenge("input"), NeedsChallenge
  PROVE  Good'
<1>1. /\ Tops /\ Covers /\ Unstuck /\ Locks /\ Queues /\ TypeOK
      /\ Unstuck' /\ Locks' /\ Queues' /\ TypeOK' /\ faults \in {0, 1} /\ faults' \in {0, 1}
  BY AllKnown
<1> USE DEF Good, Live
<1>2. /\ input # <<>> /\ Top(input) = "getchallenge" /\ main' = main /\ timer' = timer
      /\ SameCmds(buffer, buffer', TRUE) /\ Added(toServer, toServer', "getchallenge", {"ask"})
      /\ emutex = "free" /\ NeedsChallenge /\ open /\ Goes0(input, input')
  <2>1. input # <<>> /\ Top(input) = "getchallenge" /\ emutex = "free"
    BY AtTop DEF GetChallenge, EngineFree, input
  <2>2. SameCmds(buffer, buffer', TRUE)
    BY <1>1, Challenged DEF GetChallenge, NeedsChallenge
  <2>3. Added(toServer, toServer', "getchallenge", {"ask"})
    BY <1>1, Sent DEF GetChallenge
  <2> QED BY Zenon, <1>1, <2>1, <2>2, <2>3, InputGoes DEF GetChallenge, Done, Operations
<1>3. UNCHANGED <<secure, status, open, polling, told, emutex, toBot, faults>>
  BY DEF GetChallenge, Same, SameLink, linkVars, SameEngine, engineVars, SameNet, netVars,
     SameWorld, worldVars
<1>4. /\ <<Top(input), Second(input)>> \in InputNext
      /\ Second(input) \in {"read", "updated", "wait"}
      /\ "disconnect" \notin Below(input) /\ Below(input) \subseteq {"updated", "read", "wait"}
  <2>1. Follows(input, InputNext) /\ "disconnect" \notin Below(input)
    BY <1>1, <1>2 DEF Tops, OnlyMainNests
  <2>2. Second(input) \in {"read", "updated", "wait"}
    BY <1>2, <2>1 DEF Follows, InputNext
  <2>3. "disconnect" \notin Below(input) /\ Below(input) \subseteq {"updated", "read", "wait"}
    BY <1>1, <1>2, <2>1, Zenon DEF Tops, Follows, Over, Beneath, Handles, Seen
  <2> QED BY <1>2, <2>1, <2>2, <2>3 DEF Follows
<1>5. /\ Seen(main) /\ Seen(timer) /\ Seen(input) /\ Seen(input')
      /\ emutex = "free" /\ NeedsChallenge /\ open /\ Popped(input, input')
  BY <1>1, <1>2 DEF Tops, Goes0
<1>6. InputShape'
  BY <1>2, <1>3, <1>4 DEF InputShape, InputNext, Over, Handles, Beneath, Operations, Goes0
<1>7. MainShape' /\ TimerShape' /\ OnlyMainNests'
  BY <1>2, <1>3, <1>4, <1>5 DEF MainShape, NextOfMain, TimerShape, OnlyMainNests, Popped
<1>8. Tops' /\ Covers'
  BY <1>6, <1>7, TopsKnown, CoversKnown, PTL
<1>9. NestShape' /\ JoinsClosed' /\ InputGone' /\ ConnectsClosed' /\ HolderCloses'
  BY <1>1, <1>2, <1>3, <1>4, <1>5, <1>8 DEF NestShape, Nested, Alive, JoinsClosed, InputGone,
     Closing, ConnectsClosed, HolderCloses, Tops, Locks, Covers, Covered, Handles, SameCmds, Queues,
     Seen, Popped
<1>10. FirstLife' /\ NoFaultFirst' /\ NoFaultPolled'
  BY <1>1, <1>2, <1>3, <1>4, <1>5 DEF FirstLife, AskSent, AskAnswered, BufferAsks, Simple,
     NoFaultFirst, Calm, Closing, Receiver, NoFaultPolled, InputWaits, Added, Queues, SameCmds,
     Seen, Popped
<1>11. MainCalm' /\ MainReconnects' /\ MainOpens'
  BY <1>1, <1>2, <1>3, <1>4, <1>5, <1>8 DEF ConnectsClosed, MainCalm, MainGoesOn, Second1, First1,
     Calm, Closing, AskSent, AskAnswered, BufferAsks, Simple, Alone, MainReconnects, MainOpens,
     Covers, Covered, Handles, Added, Queues, SameCmds, Seen, Popped
<1>12. SetupCalm' /\ OneAsks' /\ Coming' /\ ChallengeComing'
  BY <1>1, <1>2, <1>3, <1>4, <1>5 DEF SetupCalm, SetsUp, Receiver, Nested, OneAsks, InputAsks,
     QueueAsks, BufferAsks, AskSent, AskAnswered, Coming, Nets, ChallengeComing, FirstAsked, Goes0,
     Over, Beneath, Operations, HandlingNext, Added, Queues, SameCmds, Seen, Popped
<1>13. BothBusy' /\ TimerPolls' /\ TimerReopens' /\ TimerCalm'
  BY <1>1, <1>2, <1>3, <1>4, <1>5 DEF ConnectsClosed, BothBusy, Nets, Alone, TimerAsks, TimerPolls,
     Fired, AfterSetup, NoHarm, Reopens, Calm, Closing, First1, AskSent, AskAnswered, Simple,
     BufferAsks, Alive, TimerReopens, TimerCalm, TimerSetsUp, OldAsks, FirstAsked, Added, Queues,
     SameCmds, Seen, Popped
<1>14. StatusTold' /\ ConnectedTold' /\ MineWaits' /\ NothingAsked'
  BY <1>1, <1>2, <1>3, <1>4, <1>5, <1>8 DEF StatusTold, Closing, Told, ConnectedTold, MineWaits,
     NothingAsked, Nets, Alone, Covers, Covered, Handles, Added, Queues, SameCmds, Seen, Popped
<1> QED BY <1>6, <1>7, <1>9, <1>10, <1>11, <1>12, <1>13, <1>14

\* thread_input: request_challenge has nothing to ask.
LEMMA GetChallengeIdleInput ==
  ASSUME Sound, Good, Live, Sound', Live', GetChallenge("input"), ~NeedsChallenge
  PROVE  Good'
<1>1. /\ Tops /\ Covers /\ Unstuck /\ Locks /\ Queues /\ TypeOK
      /\ Unstuck' /\ Locks' /\ Queues' /\ TypeOK' /\ faults \in {0, 1} /\ faults' \in {0, 1}
  BY AllKnown
<1> USE DEF Good, Live
<1>2. /\ input # <<>> /\ Top(input) = "getchallenge" /\ main' = main /\ timer' = timer
      /\ emutex = "free" /\ ~NeedsChallenge /\ Goes0(input, input')
  BY Zenon, <1>1, InputGoes, AtTop DEF GetChallenge, EngineFree, Done, Sound, input, Operations
<1>3. UNCHANGED <<secure, status, open, polling, told, emutex, buffer, toServer, toBot, faults>>
  BY DEF GetChallenge, Same, SameLink, linkVars, SameEngine, engineVars, SameNet, netVars,
     SameWorld, worldVars, NeedsChallenge
<1>4. /\ <<Top(input), Second(input)>> \in InputNext
      /\ Second(input) \in {"read", "updated", "wait"}
      /\ "disconnect" \notin Below(input) /\ Below(input) \subseteq {"updated", "read", "wait"}
  <2>1. Follows(input, InputNext) /\ "disconnect" \notin Below(input)
    BY <1>1, <1>2 DEF Tops, OnlyMainNests
  <2>2. Second(input) \in {"read", "updated", "wait"}
    BY <1>2, <2>1 DEF Follows, InputNext
  <2>3. "disconnect" \notin Below(input) /\ Below(input) \subseteq {"updated", "read", "wait"}
    BY <1>1, <1>2, <2>1, Zenon DEF Tops, Follows, Over, Beneath, Handles, Seen
  <2> QED BY <1>2, <2>1, <2>2, <2>3 DEF Follows
<1>5. /\ Seen(main) /\ Seen(timer) /\ Seen(input) /\ Seen(input')
      /\ emutex = "free" /\ ~NeedsChallenge /\ Popped(input, input')
  BY <1>1, <1>2 DEF Tops, Goes0
<1>6. InputShape'
  BY <1>2, <1>3, <1>4 DEF InputShape, InputNext, Over, Handles, Beneath, Operations, Goes0
<1>7. MainShape' /\ TimerShape' /\ OnlyMainNests'
  BY <1>2, <1>3, <1>4, <1>5 DEF MainShape, NextOfMain, TimerShape, OnlyMainNests, Popped
<1>8. Tops' /\ Covers'
  BY <1>6, <1>7, TopsKnown, CoversKnown, PTL
<1>9. NestShape' /\ JoinsClosed' /\ InputGone' /\ ConnectsClosed' /\ HolderCloses'
  BY <1>1, <1>2, <1>3, <1>4, <1>5, <1>8 DEF NestShape, Nested, Alive, JoinsClosed, InputGone,
     Closing, ConnectsClosed, HolderCloses, Tops, Locks, Covers, Covered, Handles, Seen, Popped
<1>10. FirstLife' /\ NoFaultFirst' /\ NoFaultPolled'
  BY <1>1, <1>2, <1>3, <1>4, <1>5 DEF FirstLife, AskSent, AskAnswered, BufferAsks, Simple,
     NoFaultFirst, Calm, Closing, Receiver, NoFaultPolled, InputWaits, Seen, Popped
<1>11. MainCalm' /\ MainReconnects' /\ MainOpens'
  BY <1>1, <1>2, <1>3, <1>4, <1>5 DEF MainCalm, MainGoesOn, Second1, First1, Calm, Closing, AskSent,
     AskAnswered, BufferAsks, Simple, Alone, MainReconnects, MainOpens, Seen, Popped
<1>12. Coming'
  <2>1. Top(input') \in {"updated", "read", "wait"} /\ (Top(input') = "wait" => "wait" \in Below(input))
    BY <1>4, <1>5 DEF Popped, Seen
  <2>2. ASSUME Top(main) = "receiving", "wait" \in Below(input) PROVE ~Nets
    <3>1. buffer # <<>> /\ FirstAsked
      BY <1>1, <1>2, <2>2 DEF Coming, FirstAsked, NeedsChallenge
    <3>2. polling /\ ~Nested
      BY <1>1, <1>2, <2>2, <1>5 DEF FirstLife, Simple, NestShape, Tops, Seen
    <3> QED BY <1>1, <1>2, <2>2, <3>1, <3>2 DEF ChallengeComing, SetsUp, Receiver, Nets, Queues
  <2> QED BY <1>2, <1>3, <2>1, <2>2 DEF Coming, Nets
<1>13. SetupCalm' /\ OneAsks' /\ ChallengeComing'
  BY <1>1, <1>2, <1>3, <1>4, <1>5 DEF SetupCalm, SetsUp, Receiver, Nested, OneAsks, InputAsks,
     QueueAsks, BufferAsks, AskSent, AskAnswered, ChallengeComing, FirstAsked, Goes0, Over, Beneath,
     Operations, HandlingNext, Seen, Popped
<1>14. BothBusy' /\ TimerPolls' /\ TimerReopens' /\ TimerCalm'
  BY <1>1, <1>2, <1>3, <1>4, <1>5, <1>8 DEF BothBusy, Nets, Alone, TimerAsks, TimerPolls, Fired,
     AfterSetup, NoHarm, Reopens, Calm, Closing, First1, AskSent, AskAnswered, Simple, BufferAsks,
     Alive, TimerReopens, TimerCalm, TimerSetsUp, OldAsks, FirstAsked, Covers, Covered, Handles,
     Seen, Popped
<1>15. StatusTold' /\ ConnectedTold' /\ MineWaits' /\ NothingAsked'
  BY <1>1, <1>2, <1>3, <1>4, <1>5, <1>8 DEF StatusTold, Closing, Told, ConnectedTold, MineWaits,
     NothingAsked, Nets, Alone, Covers, Covered, Handles, Seen, Popped
<1> QED BY <1>6, <1>7, <1>9, <1>10, <1>11, <1>12, <1>13, <1>14, <1>15

\* thread_input: request_challenge is not written.
LEMMA GetChallengeFailsInput ==
  ASSUME Sound, Good, Live, Sound', Live', GetChallengeFails("input")
  PROVE  Good'
<1>1. /\ Tops /\ Covers /\ Unstuck /\ Locks /\ Queues /\ TypeOK
      /\ Unstuck' /\ Locks' /\ Queues' /\ TypeOK' /\ faults \in {0, 1} /\ faults' \in {0, 1}
  BY AllKnown
<1> USE DEF Good, Live
<1>2. /\ input # <<>> /\ Top(input) = "getchallenge" /\ main' = main /\ timer' = timer
      /\ ((open /\ faults = 0 /\ faults' = 1) \/ (~open /\ faults' = faults))
      /\ SameCmds(buffer, buffer', TRUE) /\ emutex' = "input"
      /\ emutex = "free" /\ NeedsChallenge /\ Goes2(input, input', "close", "release")
  <2>1. input # <<>> /\ Top(input) = "getchallenge" /\ emutex = "free"
    BY AtTop DEF GetChallengeFails, EngineFree, input
  <2>2. SameCmds(buffer, buffer', TRUE)
    BY <1>1, Challenged DEF GetChallengeFails, NeedsChallenge
  <2>3. (open /\ faults = 0 /\ faults' = 1) \/ (~open /\ faults' = faults)
    BY <1>1, OneFault DEF GetChallengeFails, SendFails, SameWorld, worldVars
  <2> QED BY Zenon, <1>1, <2>1, <2>2, <2>3, InputGoes DEF GetChallengeFails, Done, Operations
<1>3. UNCHANGED <<secure, status, open, polling, told, toServer, toBot>>
  BY DEF GetChallengeFails, Same, SameLink, linkVars, SameEngine, engineVars, SameNet, netVars,
     SameWorld, worldVars
<1>4. /\ <<Top(input), Second(input)>> \in InputNext
      /\ Second(input) \in {"read", "updated", "wait"}
      /\ "disconnect" \notin Below(input) /\ Below(input) \subseteq {"updated", "read", "wait"}
  <2>1. Follows(input, InputNext) /\ "disconnect" \notin Below(input)
    BY <1>1, <1>2 DEF Tops, OnlyMainNests
  <2>2. Second(input) \in {"read", "updated", "wait"}
    BY <1>2, <2>1 DEF Follows, InputNext
  <2>3. "disconnect" \notin Below(input) /\ Below(input) \subseteq {"updated", "read", "wait"}
    BY <1>1, <1>2, <2>1, Zenon DEF Tops, Follows, Over, Beneath, Handles, Seen
  <2> QED BY <1>2, <2>1, <2>2, <2>3 DEF Follows
<1>5. /\ Seen(main) /\ Seen(timer) /\ Seen(input) /\ Seen(input')
      /\ emutex = "free" /\ NeedsChallenge /\ Becomes2(input, input', "close", "release")
  BY <1>1, <1>2 DEF Tops, Goes2
<1>6. InputShape'
  BY <1>2, <1>3, <1>4 DEF InputShape, InputNext, Over, Handles, Beneath, Operations, Goes2
<1>7. MainShape' /\ TimerShape' /\ OnlyMainNests'
  BY <1>2, <1>3, <1>4, <1>5 DEF MainShape, NextOfMain, TimerShape, OnlyMainNests, Becomes2
<1>8. Tops' /\ Covers'
  BY <1>6, <1>7, TopsKnown, CoversKnown, PTL
<1>9. NestShape' /\ JoinsClosed' /\ InputGone' /\ ConnectsClosed' /\ HolderCloses'
  BY <1>1, <1>2, <1>3, <1>4, <1>5, <1>8 DEF NestShape, Nested, Alive, JoinsClosed, InputGone,
     Closing, ConnectsClosed, HolderCloses, Tops, Locks, SameCmds, Queues, Seen, Becomes2
<1>10. FirstLife' /\ NoFaultFirst' /\ NoFaultPolled'
  BY <1>1, <1>2, <1>3, <1>4, <1>5 DEF FirstLife, AskSent, AskAnswered, BufferAsks, Simple,
     NoFaultFirst, Calm, Closing, Receiver, NoFaultPolled, InputWaits, TimerPolls, TimerAsks, Alone,
     Fired, AfterSetup, NoHarm, Reopens, Nets, First1, Alive, Covers, Covered, SameCmds, Queues,
     Seen, Becomes2
<1>11. MainCalm' /\ MainReconnects' /\ MainOpens'
  BY <1>1, <1>2, <1>3, <1>4, <1>5 DEF FirstLife, AskSent, AskAnswered, BufferAsks, Simple,
     NoFaultPolled, Calm, Closing, InputWaits, MainCalm, MainGoesOn, Second1, First1, Alone,
     MainReconnects, MainOpens, SameCmds, Queues, Seen, Becomes2
<1>12. SetupCalm' /\ OneAsks' /\ Coming' /\ ChallengeComing'
  BY <1>1, <1>2, <1>3, <1>4, <1>5 DEF NoFaultPolled, Calm, Closing, InputWaits, SetupCalm, SetsUp,
     Receiver, Nested, OneAsks, InputAsks, QueueAsks, BufferAsks, AskSent, AskAnswered, Coming,
     Nets, ChallengeComing, FirstAsked, Goes2, Over, Beneath, Operations, HandlingNext, SameCmds,
     Queues, Seen, Becomes2
<1>13. TimerPolls'
  <2>1. \/ ~TimerAsks /\ Top(timer) \notin {"close", "closed", "disconnect", "join", "release",
             "connect"}
        \/ ~open /\ ~Reopens
    <3>1. ~NoHarm
      BY <1>2, <1>5 DEF NoHarm, Seen
    <3>2. ~(open /\ faults = 1)
      BY <1>1, <1>2
    <3> QED BY <3>1, <3>2 DEF TimerPolls, Fired, AfterSetup
  <2> QED BY <1>1, <1>2, <1>3, <1>5, <2>1 DEF TimerPolls, TimerAsks, Alone, Fired, Reopens
<1>14. BothBusy' /\ TimerReopens' /\ TimerCalm'
  BY <1>1, <1>2, <1>3, <1>4, <1>5 DEF BothBusy, Nets, Alone, TimerAsks, TimerReopens, TimerCalm,
     TimerSetsUp, Simple, Calm, Closing, AskSent, AskAnswered, OldAsks, BufferAsks, FirstAsked,
     SameCmds, Queues, Seen, Becomes2
<1>15. StatusTold' /\ ConnectedTold' /\ MineWaits' /\ NothingAsked'
  BY <1>1, <1>2, <1>3, <1>4, <1>5 DEF StatusTold, Closing, Told, ConnectedTold, MineWaits,
     NothingAsked, Nets, Alone, SameCmds, Queues, Seen, Becomes2
<1> QED BY <1>6, <1>7, <1>9, <1>10, <1>11, <1>12, <1>13, <1>14, <1>15

\* thread_input: request_challenge unlocks the mutex.
LEMMA ReleaseInput ==
  ASSUME Sound, Good, Live, Sound', Live', Release("input")
  PROVE  Good'
<1>1. /\ Tops /\ Covers /\ Unstuck /\ Locks /\ Queues /\ TypeOK
      /\ Unstuck' /\ Locks' /\ Queues' /\ TypeOK' /\ faults \in {0, 1} /\ faults' \in {0, 1}
  BY AllKnown
<1> USE DEF Good, Live
<1>2. /\ input # <<>> /\ Top(input) = "release" /\ main' = main /\ timer' = timer
      /\ emutex' = "free" /\ Goes0(input, input')
  BY Zenon, <1>1, InputGoes, AtTop DEF Release, Done, Sound, input, Operations
<1>3. UNCHANGED <<secure, status, open, polling, told, buffer, toServer, toBot, faults>>
  BY DEF Release, Same, SameLink, linkVars, SameEngine, engineVars, SameNet, netVars, SameWorld,
     worldVars
<1>4. /\ <<Top(input), Second(input)>> \in InputNext
      /\ Second(input) \in {"read", "updated", "wait"}
      /\ "disconnect" \notin Below(input) /\ Below(input) \subseteq {"updated", "read", "wait"}
  <2>1. Follows(input, InputNext) /\ "disconnect" \notin Below(input)
    BY <1>1, <1>2 DEF Tops, OnlyMainNests
  <2>2. Second(input) \in {"read", "updated", "wait"}
    BY <1>2, <2>1 DEF Follows, InputNext
  <2>3. "disconnect" \notin Below(input) /\ Below(input) \subseteq {"updated", "read", "wait"}
    BY <1>1, <1>2, <2>1, Zenon DEF Tops, Follows, Over, Beneath, Handles, Seen
  <2> QED BY <1>2, <2>1, <2>2, <2>3 DEF Follows
<1>5. /\ Seen(main) /\ Seen(timer) /\ Seen(input) /\ Seen(input')
      /\ emutex' = "free" /\ Popped(input, input')
  BY <1>1, <1>2 DEF Tops, Goes0
<1>6. InputShape'
  BY <1>2, <1>3, <1>4 DEF InputShape, InputNext, Over, Handles, Beneath, Operations, Goes0
<1>7. MainShape' /\ TimerShape' /\ OnlyMainNests'
  BY <1>2, <1>3, <1>4, <1>5 DEF MainShape, NextOfMain, TimerShape, OnlyMainNests, Popped
<1>8. Tops' /\ Covers'
  BY <1>6, <1>7, TopsKnown, CoversKnown, PTL
<1>9. NestShape' /\ JoinsClosed' /\ InputGone' /\ ConnectsClosed' /\ HolderCloses'
  BY <1>1, <1>2, <1>3, <1>4, <1>5, <1>8 DEF NestShape, Nested, Alive, JoinsClosed, InputGone,
     Closing, ConnectsClosed, HolderCloses, Tops, Locks, Covers, Covered, Handles, Seen, Popped
<1>10. FirstLife' /\ NoFaultFirst' /\ NoFaultPolled'
  BY <1>1, <1>2, <1>3, <1>4, <1>5 DEF FirstLife, AskSent, AskAnswered, BufferAsks, Simple,
     NoFaultFirst, Calm, Closing, Receiver, NoFaultPolled, InputWaits, Seen, Popped
<1>11. MainCalm' /\ MainReconnects' /\ MainOpens'
  BY <1>1, <1>2, <1>3, <1>4, <1>5 DEF MainCalm, MainGoesOn, Second1, First1, Calm, Closing, AskSent,
     AskAnswered, BufferAsks, Simple, Alone, MainReconnects, MainOpens, Seen, Popped
<1>12. SetupCalm' /\ OneAsks' /\ Coming' /\ ChallengeComing'
  BY <1>1, <1>2, <1>3, <1>4, <1>5, <1>8 DEF NestShape, Nested, Alive, FirstLife, AskSent,
     AskAnswered, BufferAsks, Simple, SetupCalm, SetsUp, Receiver, OneAsks, InputAsks, QueueAsks,
     Coming, Nets, ChallengeComing, FirstAsked, Goes0, Over, Beneath, Operations, HandlingNext,
     Tops, Follows, Queues, Seen, Popped
<1>13. BothBusy' /\ TimerPolls' /\ TimerReopens' /\ TimerCalm'
  BY <1>1, <1>2, <1>3, <1>4, <1>5, <1>8 DEF BothBusy, Nets, Alone, TimerAsks, TimerPolls, Fired,
     AfterSetup, NoHarm, Reopens, Calm, Closing, First1, AskSent, AskAnswered, Simple, BufferAsks,
     Alive, TimerReopens, TimerCalm, TimerSetsUp, OldAsks, FirstAsked, Covers, Covered, Handles,
     Seen, Popped
<1>14. StatusTold' /\ ConnectedTold' /\ MineWaits' /\ NothingAsked'
  BY <1>1, <1>2, <1>3, <1>4, <1>5, <1>8 DEF StatusTold, Closing, Told, ConnectedTold, MineWaits,
     NothingAsked, Nets, Alone, Covers, Covered, Handles, Seen, Popped
<1> QED BY <1>6, <1>7, <1>9, <1>10, <1>11, <1>12, <1>13, <1>14

\* thread_input: sync_read.
LEMMA SyncInput ==
  ASSUME Sound, Good, Live, Sound', Live', Sync("input")
  PROVE  Good'
<1>1. /\ Tops /\ Covers /\ Unstuck /\ Locks /\ Queues /\ TypeOK
      /\ Unstuck' /\ Locks' /\ Queues' /\ TypeOK' /\ faults \in {0, 1} /\ faults' \in {0, 1}
  BY AllKnown
<1> USE DEF Good, Live
<1>2. /\ input # <<>> /\ Top(input) = "sync" /\ main' = main /\ timer' = timer
      /\ \/ open /\ Goes1(input, input', "receiving")
         \/ ~open /\ Goes2(input, input', "close", "close")
  BY Zenon, <1>1, InputGoes, AtTop DEF Sync, Done, Sound, input, Operations
<1>3. UNCHANGED <<secure, status, open, polling, told, emutex, buffer, toServer, toBot, faults>>
  BY DEF Sync, Same, SameLink, linkVars, SameEngine, engineVars, SameNet, netVars, SameWorld,
     worldVars
<1>4. /\ <<Top(input), Second(input)>> \in InputNext
      /\ Second(input) \in {"updated"}
      /\ "disconnect" \notin Below(input) /\ Below(input) \subseteq {"updated", "read"}
  <2>1. Follows(input, InputNext) /\ "disconnect" \notin Below(input)
    BY <1>1, <1>2 DEF Tops, OnlyMainNests
  <2>2. Second(input) \in {"updated"}
    BY <1>2, <2>1 DEF Follows, InputNext
  <2>3. "disconnect" \notin Below(input) /\ Below(input) \subseteq {"updated", "read"}
    BY <1>1, <1>2, <2>1, Zenon DEF Tops, Follows, Over, Beneath, Handles, Seen
  <2> QED BY <1>2, <2>1, <2>2, <2>3 DEF Follows
<1>5. /\ Seen(main) /\ Seen(timer) /\ Seen(input) /\ Seen(input')
      /\ \/ open /\ Becomes(input, input', "receiving")
         \/ ~open /\ Becomes2(input, input', "close", "close")
  BY <1>1, <1>2 DEF Tops, Goes1, Goes2
<1>6. InputShape'
  BY <1>2, <1>3, <1>4 DEF InputShape, InputNext, Over, Handles, Beneath, Operations, Goes1, Goes2
<1>7. MainShape' /\ TimerShape' /\ OnlyMainNests'
  BY <1>2, <1>3, <1>4, <1>5 DEF MainShape, NextOfMain, TimerShape, OnlyMainNests, Becomes, Becomes2
<1>8. Tops' /\ Covers'
  BY <1>6, <1>7, TopsKnown, CoversKnown, PTL
<1>9. NestShape' /\ JoinsClosed' /\ InputGone' /\ ConnectsClosed' /\ HolderCloses'
  BY <1>1, <1>2, <1>3, <1>4, <1>5, <1>8 DEF NestShape, Nested, Alive, JoinsClosed, InputGone,
     Closing, ConnectsClosed, HolderCloses, Tops, Locks, Seen, Becomes, Becomes2
<1>10. FirstLife' /\ NoFaultFirst' /\ NoFaultPolled'
  BY <1>1, <1>2, <1>3, <1>4, <1>5 DEF FirstLife, AskSent, AskAnswered, BufferAsks, Simple,
     NoFaultFirst, Calm, Closing, Receiver, NoFaultPolled, InputWaits, TimerReopens, Covers,
     Covered, Seen, Becomes, Becomes2
<1>11. MainCalm' /\ MainReconnects' /\ MainOpens'
  BY <1>1, <1>2, <1>3, <1>4, <1>5 DEF MainCalm, MainGoesOn, Second1, First1, Calm, Closing, AskSent,
     AskAnswered, BufferAsks, Simple, Alone, MainReconnects, MainOpens, Seen, Becomes, Becomes2
<1>12. SetupCalm' /\ OneAsks' /\ Coming' /\ ChallengeComing'
  BY <1>1, <1>2, <1>3, <1>4, <1>5 DEF SetupCalm, SetsUp, Receiver, Nested, OneAsks, InputAsks,
     QueueAsks, BufferAsks, AskSent, AskAnswered, Coming, Nets, ChallengeComing, FirstAsked, Goes1,
     Goes2, Over, Beneath, Operations, HandlingNext, Seen, Becomes, Becomes2
<1>13. BothBusy' /\ TimerPolls' /\ TimerReopens' /\ TimerCalm'
  BY <1>1, <1>2, <1>3, <1>4, <1>5 DEF BothBusy, Nets, Alone, TimerAsks, TimerPolls, Fired,
     AfterSetup, NoHarm, Reopens, Calm, Closing, First1, AskSent, AskAnswered, Simple, BufferAsks,
     Alive, TimerReopens, TimerCalm, TimerSetsUp, OldAsks, FirstAsked, Seen, Becomes, Becomes2
<1>14. StatusTold' /\ ConnectedTold' /\ MineWaits' /\ NothingAsked'
  BY <1>1, <1>2, <1>3, <1>4, <1>5 DEF StatusTold, Closing, Told, ConnectedTold, MineWaits,
     NothingAsked, Nets, Alone, Seen, Becomes, Becomes2
<1> QED BY <1>6, <1>7, <1>9, <1>10, <1>11, <1>12, <1>13, <1>14

\* thread_input: sync_read receives a datagram.
LEMMA SyncReceivesInput ==
  ASSUME Sound, Good, Live, Sound', Live', SyncReceives("input")
  PROVE  Good'
<1>1. /\ Tops /\ Covers /\ Unstuck /\ Locks /\ Queues /\ TypeOK
      /\ Unstuck' /\ Locks' /\ Queues' /\ TypeOK' /\ faults \in {0, 1} /\ faults' \in {0, 1}
  BY AllKnown
<1> USE DEF Good, Live
<1>2. /\ input # <<>> /\ Top(input) = "receiving" /\ main' = main /\ timer' = timer
      /\ open /\ Removed(toBot, toBot', {"mine", "others"}) /\ Head(toBot) \in Answers
      /\ status' = IF status = "WAITING" THEN "CONNECTING" ELSE status
      /\ \/ Head(toBot) = "ack" /\ Goes0(input, input')
         \/ Head(toBot) # "ack" /\ Goes1(input, input', Head(toBot))
  <2>1. At("input", "receiving") /\ Receive("input", Tail(todo["input"]))
    BY DEF SyncReceives
  <2>2. input # <<>> /\ Top(input) = "receiving" /\ todo["input"] = input
    BY <2>1, AtTop DEF Sound, input
  <2> QED BY <1>1, <2>1, <2>2, Receives DEF Receive, Threads, main, timer, input
<1>3. UNCHANGED <<secure, open, polling, told, emutex, buffer, toServer, faults>>
  BY DEF SyncReceives, Receive, Same, SameLink, linkVars, SameEngine, engineVars, SameNet, netVars,
     SameWorld, worldVars
<1>4. /\ <<Top(input), Second(input)>> \in InputNext
      /\ Second(input) \in {"updated"}
      /\ "disconnect" \notin Below(input) /\ Below(input) \subseteq {"updated", "read"}
  <2>1. Follows(input, InputNext) /\ "disconnect" \notin Below(input)
    BY <1>1, <1>2 DEF Tops, OnlyMainNests
  <2>2. Second(input) \in {"updated"}
    BY <1>2, <2>1 DEF Follows, InputNext
  <2>3. "disconnect" \notin Below(input) /\ Below(input) \subseteq {"updated", "read"}
    BY <1>1, <1>2, <2>1, Zenon DEF Tops, Follows, Over, Beneath, Handles, Seen
  <2> QED BY <1>2, <2>1, <2>2, <2>3 DEF Follows
<1>5. /\ Seen(main) /\ Seen(timer) /\ Seen(input) /\ Seen(input')
      /\ \/ Head(toBot) = "ack" /\ Popped(input, input')
         \/ Head(toBot) # "ack" /\ Becomes(input, input', Head(toBot))
  BY <1>1, <1>2 DEF Tops, Goes0, Goes1
<1>6. InputShape'
  BY <1>2, <1>3, <1>4 DEF InputShape, InputNext, Over, Handles, Beneath, Operations, Goes0, Goes1,
     Answers
<1>7. MainShape' /\ TimerShape' /\ OnlyMainNests'
  BY <1>2, <1>3, <1>4, <1>5 DEF MainShape, NextOfMain, TimerShape, OnlyMainNests, Becomes, Popped
<1>8. Tops' /\ Covers'
  BY <1>6, <1>7, TopsKnown, CoversKnown, PTL
<1>9. NestShape' /\ JoinsClosed' /\ InputGone' /\ ConnectsClosed' /\ HolderCloses'
  BY <1>1, <1>2, <1>3, <1>4, <1>5, <1>8 DEF NestShape, Nested, Alive, JoinsClosed, InputGone,
     Closing, ConnectsClosed, HolderCloses, Tops, Locks, Covers, Covered, Handles, Answers, Seen,
     Becomes, Popped
<1>10. FirstLife' /\ NoFaultFirst' /\ NoFaultPolled'
  BY <1>1, <1>2, <1>3, <1>4, <1>5 DEF FirstLife, AskSent, AskAnswered, BufferAsks, Simple,
     NoFaultFirst, Calm, Closing, Receiver, NoFaultPolled, InputWaits, Answers, Removed, Queues,
     Seen, Becomes, Popped
<1>11. MainCalm' /\ MainReconnects' /\ MainOpens'
  BY <1>1, <1>2, <1>3, <1>4, <1>5, <1>8 DEF ConnectsClosed, MainCalm, MainGoesOn, Second1, First1,
     Calm, Closing, AskSent, AskAnswered, BufferAsks, Simple, Alone, MainReconnects, MainOpens,
     Covers, Covered, Handles, Answers, Removed, Queues, Seen, Becomes, Popped
<1>12. SetupCalm' /\ OneAsks' /\ Coming' /\ ChallengeComing'
  BY <1>1, <1>2, <1>3, <1>4, <1>5, <1>8 DEF SetupCalm, SetsUp, Receiver, Nested, OneAsks, InputAsks,
     QueueAsks, BufferAsks, AskSent, AskAnswered, Coming, Nets, ChallengeComing, FirstAsked, Goes0,
     Goes1, Over, Beneath, Operations, HandlingNext, Covers, Covered, Handles, Answers, Removed,
     Queues, Seen, Becomes, Popped
<1>13. BothBusy' /\ TimerPolls' /\ TimerReopens' /\ TimerCalm'
  BY <1>1, <1>2, <1>3, <1>4, <1>5 DEF ConnectsClosed, BothBusy, Nets, Alone, TimerAsks, TimerPolls,
     Fired, AfterSetup, NoHarm, Reopens, Calm, Closing, First1, AskSent, AskAnswered, Simple,
     BufferAsks, Alive, TimerReopens, TimerCalm, TimerSetsUp, OldAsks, FirstAsked, Answers, Removed,
     Queues, Seen, Becomes, Popped
<1>14. StatusTold' /\ ConnectedTold' /\ MineWaits' /\ NothingAsked'
  BY <1>1, <1>2, <1>3, <1>4, <1>5, <1>8 DEF TimerPolls, TimerAsks, Alone, Fired, AfterSetup, NoHarm,
     Reopens, Nets, Calm, Closing, First1, AskSent, AskAnswered, Simple, BufferAsks, Alive,
     StatusTold, Told, ConnectedTold, MineWaits, NothingAsked, Covers, Covered, Handles, Answers,
     Removed, Queues, Seen, Becomes, Popped
<1> QED BY <1>6, <1>7, <1>9, <1>10, <1>11, <1>12, <1>13, <1>14

\* thread_input: sync_read is refused.
LEMMA SyncRefusedInput ==
  ASSUME Sound, Good, Live, Sound', Live', SyncRefused("input")
  PROVE  Good'
<1>1. /\ Tops /\ Covers /\ Unstuck /\ Locks /\ Queues /\ TypeOK
      /\ Unstuck' /\ Locks' /\ Queues' /\ TypeOK' /\ faults \in {0, 1} /\ faults' \in {0, 1}
  BY AllKnown
<1> USE DEF Good, Live
<1>2. /\ input # <<>> /\ Top(input) = "receiving" /\ main' = main /\ timer' = timer
      /\ open /\ faults = 0 /\ faults' = 1 /\ Goes2(input, input', "close", "close")
  BY Zenon, <1>1, InputGoes, AtTop, OneFault DEF SyncRefused, Done, Sound, input, Operations
<1>3. UNCHANGED <<secure, status, open, polling, told, emutex, buffer, toServer, toBot>>
  BY DEF SyncRefused, Same, SameLink, linkVars, SameEngine, engineVars, SameNet, netVars, SameWorld,
     worldVars
<1>4. /\ <<Top(input), Second(input)>> \in InputNext
      /\ Second(input) \in {"updated"}
      /\ "disconnect" \notin Below(input) /\ Below(input) \subseteq {"updated", "read"}
  <2>1. Follows(input, InputNext) /\ "disconnect" \notin Below(input)
    BY <1>1, <1>2 DEF Tops, OnlyMainNests
  <2>2. Second(input) \in {"updated"}
    BY <1>2, <2>1 DEF Follows, InputNext
  <2>3. "disconnect" \notin Below(input) /\ Below(input) \subseteq {"updated", "read"}
    BY <1>1, <1>2, <2>1, Zenon DEF Tops, Follows, Over, Beneath, Handles, Seen
  <2> QED BY <1>2, <2>1, <2>2, <2>3 DEF Follows
<1>5. /\ Seen(main) /\ Seen(timer) /\ Seen(input) /\ Seen(input')
      /\ open /\ faults = 0 /\ faults' = 1 /\ Becomes2(input, input', "close", "close")
  BY <1>1, <1>2 DEF Tops, Goes2
<1>6. InputShape'
  BY <1>2, <1>3, <1>4 DEF InputShape, InputNext, Over, Handles, Beneath, Operations, Goes2
<1>7. MainShape' /\ TimerShape' /\ OnlyMainNests'
  BY <1>2, <1>3, <1>4, <1>5 DEF MainShape, NextOfMain, TimerShape, OnlyMainNests, Becomes2
<1>8. Tops' /\ Covers'
  BY <1>6, <1>7, TopsKnown, CoversKnown, PTL
<1>9. NestShape' /\ JoinsClosed' /\ InputGone' /\ ConnectsClosed' /\ HolderCloses'
  BY <1>1, <1>2, <1>3, <1>4, <1>5, <1>8 DEF NestShape, Nested, Alive, JoinsClosed, InputGone,
     Closing, ConnectsClosed, HolderCloses, Tops, Locks, Seen, Becomes2
<1>10. FirstLife' /\ NoFaultFirst' /\ NoFaultPolled'
  BY <1>1, <1>2, <1>3, <1>4, <1>5 DEF FirstLife, AskSent, AskAnswered, BufferAsks, Simple,
     NoFaultFirst, Calm, Closing, Receiver, NoFaultPolled, InputWaits, Seen, Becomes2
<1>11. MainCalm' /\ MainReconnects' /\ MainOpens'
  BY <1>1, <1>2, <1>3, <1>4, <1>5 DEF ConnectsClosed, FirstLife, AskSent, AskAnswered, BufferAsks,
     Simple, NoFaultPolled, Calm, Closing, InputWaits, MainCalm, MainGoesOn, Second1, First1, Alone,
     MainReconnects, MainOpens, Seen, Becomes2
<1>12. SetupCalm' /\ OneAsks' /\ Coming' /\ ChallengeComing'
  BY <1>1, <1>2, <1>3, <1>4, <1>5 DEF NoFaultPolled, Calm, Closing, InputWaits, SetupCalm, SetsUp,
     Receiver, Nested, OneAsks, InputAsks, QueueAsks, BufferAsks, AskSent, AskAnswered, Coming,
     Nets, ChallengeComing, FirstAsked, Goes2, Over, Beneath, Operations, HandlingNext, Seen,
     Becomes2
<1>13. BothBusy' /\ TimerPolls' /\ TimerReopens' /\ TimerCalm'
  BY <1>1, <1>2, <1>3, <1>4, <1>5 DEF BothBusy, Nets, Alone, TimerAsks, TimerPolls, Fired,
     AfterSetup, NoHarm, Reopens, Calm, Closing, First1, AskSent, AskAnswered, Simple, BufferAsks,
     Alive, TimerReopens, TimerCalm, TimerSetsUp, OldAsks, FirstAsked, Seen, Becomes2
<1>14. StatusTold' /\ ConnectedTold' /\ MineWaits' /\ NothingAsked'
  BY <1>1, <1>2, <1>3, <1>4, <1>5 DEF StatusTold, Closing, Told, ConnectedTold, MineWaits,
     NothingAsked, Nets, Alone, Seen, Becomes2
<1> QED BY <1>6, <1>7, <1>9, <1>10, <1>11, <1>12, <1>13, <1>14

\* thread_input: handle_challenge sends the first command.
LEMMA ChallengeSendsInput ==
  ASSUME Sound, Good, Live, Sound', Live', ChallengeSends("input")
  PROVE  Good'
<1>1. /\ Tops /\ Covers /\ Unstuck /\ Locks /\ Queues /\ TypeOK
      /\ Unstuck' /\ Locks' /\ Queues' /\ TypeOK' /\ faults \in {0, 1} /\ faults' \in {0, 1}
  BY AllKnown
<1> USE DEF Good, Live
<1>2. /\ input # <<>> /\ Top(input) = "challenge" /\ main' = main /\ timer' = timer
      /\ OneLess(buffer, buffer') /\ emutex = "free" /\ Head(buffer).challenged /\ open
      /\ Added(toServer, toServer', Head(buffer).cmd, {"ask"})
      /\ \/ Len(buffer) > 1 /\ Goes1(input, input', "getchallenge")
         \/ ~(Len(buffer) > 1) /\ Goes0(input, input')
  <2>1. /\ input # <<>> /\ Top(input) = "challenge" /\ emutex = "free"
        /\ Head(buffer).challenged /\ OneLess(buffer, buffer')
    BY <1>1, AtTop, SentOff DEF ChallengeSends, Challenge, EngineFree, Threads, input
  <2>2. Added(toServer, toServer', Head(buffer).cmd, {"ask"})
    BY <1>1, <2>1, Sent DEF ChallengeSends, OneLess
  <2> QED BY Zenon, <1>1, <2>1, <2>2, InputGoes DEF ChallengeSends, Operations
<1>3. UNCHANGED <<secure, status, open, polling, told, emutex, toBot, faults>>
  BY DEF ChallengeSends, Challenge, Same, SameLink, linkVars, SameEngine, engineVars, SameNet,
     netVars, SameWorld, worldVars
<1>4. /\ <<Top(input), Second(input)>> \in InputNext
      /\ Second(input) \in {"read", "updated"}
      /\ "disconnect" \notin Below(input) /\ Below(input) \subseteq {"updated", "read"}
  <2>1. Follows(input, InputNext) /\ "disconnect" \notin Below(input)
    BY <1>1, <1>2 DEF Tops, OnlyMainNests
  <2>2. Second(input) \in {"read", "updated"}
    BY <1>2, <2>1 DEF Follows, InputNext
  <2>3. "disconnect" \notin Below(input) /\ Below(input) \subseteq {"updated", "read"}
    BY <1>1, <1>2, <2>1, Zenon DEF Tops, Follows, Over, Beneath, Handles, Seen
  <2> QED BY <1>2, <2>1, <2>2, <2>3 DEF Follows
<1>5. /\ Seen(main) /\ Seen(timer) /\ Seen(input) /\ Seen(input')
      /\ \/ Len(buffer) > 1 /\ Becomes(input, input', "getchallenge")
         \/ ~(Len(buffer) > 1) /\ Popped(input, input')
  BY <1>1, <1>2 DEF Tops, Goes0, Goes1
<1>6. InputShape'
  BY <1>2, <1>3, <1>4 DEF InputShape, InputNext, Over, Handles, Beneath, Operations, Goes0, Goes1
<1>7. MainShape' /\ TimerShape' /\ OnlyMainNests'
  BY <1>2, <1>3, <1>4, <1>5 DEF MainShape, NextOfMain, TimerShape, OnlyMainNests, Becomes, Popped
<1>8. Tops' /\ Covers'
  BY <1>6, <1>7, TopsKnown, CoversKnown, PTL
<1>9. NestShape' /\ JoinsClosed' /\ InputGone' /\ ConnectsClosed' /\ HolderCloses'
  BY <1>1, <1>2, <1>3, <1>4, <1>5, <1>8 DEF NestShape, Nested, Alive, JoinsClosed, InputGone,
     Closing, ConnectsClosed, HolderCloses, Tops, Locks, Covers, Covered, Handles, OneLess, Queues,
     Seen, Becomes, Popped
<1>10. FirstLife' /\ NoFaultFirst' /\ NoFaultPolled'
  BY <1>1, <1>2, <1>3, <1>4, <1>5 DEF FirstLife, AskSent, AskAnswered, BufferAsks, Simple,
     NoFaultFirst, Calm, Closing, Receiver, NoFaultPolled, InputWaits, Added, Queues, OneLess, Seen,
     Becomes, Popped
<1>11. MainCalm' /\ MainReconnects' /\ MainOpens'
  BY <1>1, <1>2, <1>3, <1>4, <1>5, <1>8 DEF ConnectsClosed, MainCalm, MainGoesOn, Second1, First1,
     Calm, Closing, AskSent, AskAnswered, BufferAsks, Simple, Alone, MainReconnects, MainOpens,
     Covers, Covered, Handles, Added, Queues, OneLess, Seen, Becomes, Popped
<1>12. SetupCalm' /\ OneAsks' /\ Coming' /\ ChallengeComing'
  BY <1>1, <1>2, <1>3, <1>4, <1>5, <1>8 DEF SetupCalm, SetsUp, Receiver, Nested, OneAsks, InputAsks,
     QueueAsks, BufferAsks, AskSent, AskAnswered, Coming, Nets, ChallengeComing, FirstAsked, Goes0,
     Goes1, Over, Beneath, Operations, HandlingNext, Covers, Covered, Handles, Added, Queues,
     OneLess, Seen, Becomes, Popped
<1>13. BothBusy' /\ TimerPolls' /\ TimerReopens' /\ TimerCalm'
  BY <1>1, <1>2, <1>3, <1>4, <1>5 DEF ConnectsClosed, BothBusy, Nets, Alone, TimerAsks, TimerPolls,
     Fired, AfterSetup, NoHarm, Reopens, Calm, Closing, First1, AskSent, AskAnswered, Simple,
     BufferAsks, Alive, TimerReopens, TimerCalm, TimerSetsUp, OldAsks, FirstAsked, Added, Queues,
     OneLess, Seen, Becomes, Popped
<1>14. StatusTold' /\ ConnectedTold' /\ MineWaits' /\ NothingAsked'
  BY <1>1, <1>2, <1>3, <1>4, <1>5, <1>8 DEF StatusTold, Closing, Told, ConnectedTold, MineWaits,
     NothingAsked, Nets, Alone, Covers, Covered, Handles, Added, Queues, OneLess, Seen, Becomes,
     Popped
<1> QED BY <1>6, <1>7, <1>9, <1>10, <1>11, <1>12, <1>13, <1>14

\* thread_input: handle_challenge fails to send the first command.
LEMMA ChallengeRefusedInput ==
  ASSUME Sound, Good, Live, Sound', Live', ChallengeRefused("input")
  PROVE  Good'
<1>1. /\ Tops /\ Covers /\ Unstuck /\ Locks /\ Queues /\ TypeOK
      /\ Unstuck' /\ Locks' /\ Queues' /\ TypeOK' /\ faults \in {0, 1} /\ faults' \in {0, 1}
  BY AllKnown
<1> USE DEF Good, Live
<1>2. /\ input # <<>> /\ Top(input) = "challenge" /\ main' = main /\ timer' = timer
      /\ OneLess(buffer, buffer') /\ emutex = "free" /\ Head(buffer).challenged
      /\ ((open /\ faults = 0 /\ faults' = 1) \/ (~open /\ faults' = faults))
      /\ \/ Len(buffer) > 1 /\ Goes2(input, input', "close", "getchallenge")
         \/ ~(Len(buffer) > 1) /\ Goes1(input, input', "close")
  <2>1. /\ input # <<>> /\ Top(input) = "challenge" /\ emutex = "free"
        /\ Head(buffer).challenged /\ OneLess(buffer, buffer')
    BY <1>1, AtTop, SentOff DEF ChallengeRefused, Challenge, EngineFree, Threads, input
  <2>2. (open /\ faults = 0 /\ faults' = 1) \/ (~open /\ faults' = faults)
    BY <1>1, OneFault DEF ChallengeRefused, SendFails, SameWorld, worldVars
  <2> QED BY Zenon, <1>1, <2>1, <2>2, InputGoes DEF ChallengeRefused, Operations
<1>3. UNCHANGED <<secure, status, open, polling, told, emutex, toServer, toBot>>
  BY DEF ChallengeRefused, Challenge, Same, SameLink, linkVars, SameEngine, engineVars, SameNet,
     netVars, SameWorld, worldVars
<1>4. /\ <<Top(input), Second(input)>> \in InputNext
      /\ Second(input) \in {"read", "updated"}
      /\ "disconnect" \notin Below(input) /\ Below(input) \subseteq {"updated", "read"}
  <2>1. Follows(input, InputNext) /\ "disconnect" \notin Below(input)
    BY <1>1, <1>2 DEF Tops, OnlyMainNests
  <2>2. Second(input) \in {"read", "updated"}
    BY <1>2, <2>1 DEF Follows, InputNext
  <2>3. "disconnect" \notin Below(input) /\ Below(input) \subseteq {"updated", "read"}
    BY <1>1, <1>2, <2>1, Zenon DEF Tops, Follows, Over, Beneath, Handles, Seen
  <2> QED BY <1>2, <2>1, <2>2, <2>3 DEF Follows
<1>5. /\ Seen(main) /\ Seen(timer) /\ Seen(input) /\ Seen(input')
      /\ \/ Len(buffer) > 1 /\ Becomes2(input, input', "close", "getchallenge")
         \/ ~(Len(buffer) > 1) /\ Becomes(input, input', "close")
  BY <1>1, <1>2 DEF Tops, Goes1, Goes2
<1>6. InputShape'
  BY <1>2, <1>3, <1>4 DEF InputShape, InputNext, Over, Handles, Beneath, Operations, Goes1, Goes2
<1>7. MainShape' /\ TimerShape' /\ OnlyMainNests'
  BY <1>2, <1>3, <1>4, <1>5 DEF MainShape, NextOfMain, TimerShape, OnlyMainNests, Becomes, Becomes2
<1>8. Tops' /\ Covers'
  BY <1>6, <1>7, TopsKnown, CoversKnown, PTL
<1>9. NestShape' /\ JoinsClosed' /\ InputGone' /\ ConnectsClosed' /\ HolderCloses'
  BY <1>1, <1>2, <1>3, <1>4, <1>5, <1>8 DEF NestShape, Nested, Alive, JoinsClosed, InputGone,
     Closing, ConnectsClosed, HolderCloses, Tops, Locks, OneLess, Queues, Seen, Becomes, Becomes2
<1>10. FirstLife' /\ NoFaultFirst' /\ NoFaultPolled'
  BY <1>1, <1>2, <1>3, <1>4, <1>5 DEF FirstLife, AskSent, AskAnswered, BufferAsks, Simple,
     NoFaultFirst, Calm, Closing, Receiver, NoFaultPolled, InputWaits, TimerPolls, TimerAsks, Alone,
     Fired, AfterSetup, NoHarm, Reopens, Nets, First1, Alive, Covers, Covered, OneLess, Queues,
     Seen, Becomes, Becomes2
<1>11. MainCalm' /\ MainReconnects' /\ MainOpens'
  BY <1>1, <1>2, <1>3, <1>4, <1>5 DEF FirstLife, AskSent, AskAnswered, BufferAsks, Simple,
     NoFaultPolled, Calm, Closing, InputWaits, MainCalm, MainGoesOn, Second1, First1, Alone,
     MainReconnects, MainOpens, OneLess, Queues, Seen, Becomes, Becomes2
<1>12. SetupCalm' /\ OneAsks' /\ Coming' /\ ChallengeComing'
  <2>1. SetupCalm' /\ Coming' /\ ChallengeComing'
    BY <1>1, <1>2, <1>3, <1>4, <1>5 DEF NoFaultPolled, Calm, Closing, InputWaits, SetupCalm,
       SetsUp, Receiver, Nested, QueueAsks, BufferAsks, AskSent, AskAnswered, Coming, Nets,
       ChallengeComing, FirstAsked, Goes1, Goes2, Over, Beneath, Operations, HandlingNext,
       OneLess, Queues, Seen, Becomes, Becomes2
  <2>2. OneAsks'
    BY <1>1, <1>2, <1>3, <1>5 DEF Receiver, Nested, OneAsks, InputAsks, QueueAsks, BufferAsks,
       AskSent, AskAnswered, Nets, OneLess, Queues, Seen, Becomes, Becomes2
  <2> QED BY <2>1, <2>2
<1>13. TimerPolls'
  <2>1. \/ ~TimerAsks /\ Top(timer) \notin {"close", "closed", "disconnect", "join", "release",
             "connect"}
        \/ ~open /\ ~Reopens
    <3>1. ~NoHarm
      BY <1>2, <1>5 DEF NoHarm, Seen
    <3>2. ~(open /\ faults = 1)
      BY <1>1, <1>2
    <3> QED BY <3>1, <3>2 DEF TimerPolls, Fired, AfterSetup
  <2> QED BY <1>1, <1>2, <1>3, <1>5, <2>1 DEF TimerPolls, TimerAsks, Alone, Fired, Reopens
<1>14. BothBusy' /\ TimerReopens' /\ TimerCalm'
  BY <1>1, <1>2, <1>3, <1>4, <1>5 DEF BothBusy, Nets, Alone, TimerAsks, TimerReopens, TimerCalm,
     TimerSetsUp, Simple, Calm, Closing, AskSent, AskAnswered, OldAsks, BufferAsks, FirstAsked,
     OneLess, Queues, Seen, Becomes, Becomes2
<1>15. StatusTold' /\ ConnectedTold' /\ MineWaits' /\ NothingAsked'
  BY <1>1, <1>2, <1>3, <1>4, <1>5 DEF StatusTold, Closing, Told, ConnectedTold, MineWaits,
     NothingAsked, Nets, Alone, OneLess, Queues, Seen, Becomes, Becomes2
<1> QED BY <1>6, <1>7, <1>9, <1>10, <1>11, <1>12, <1>13, <1>14, <1>15

\* thread_input: handle_challenge has nothing to send.
LEMMA ChallengeUnusedInput ==
  ASSUME Sound, Good, Live, Sound', Live', ChallengeUnused("input")
  PROVE  Good'
<1>1. /\ Tops /\ Covers /\ Unstuck /\ Locks /\ Queues /\ TypeOK
      /\ Unstuck' /\ Locks' /\ Queues' /\ TypeOK' /\ faults \in {0, 1} /\ faults' \in {0, 1}
  BY AllKnown
<1> USE DEF Good, Live
<1>2. /\ input # <<>> /\ Top(input) = "challenge" /\ main' = main /\ timer' = timer
      /\ emutex = "free"
      /\ \/ buffer = <<>> /\ Goes0(input, input')
         \/ buffer # <<>> /\ ~Head(buffer).challenged /\ Goes1(input, input', "getchallenge")
  BY Zenon, <1>1, InputGoes, AtTop DEF ChallengeUnused, EngineFree, Done, Sound, input, Operations
<1>3. UNCHANGED <<secure, status, open, polling, told, emutex, buffer, toServer, toBot, faults>>
  BY DEF ChallengeUnused, Same, SameLink, linkVars, SameEngine, engineVars, SameNet, netVars,
     SameWorld, worldVars
<1>4. /\ <<Top(input), Second(input)>> \in InputNext
      /\ Second(input) \in {"read", "updated"}
      /\ "disconnect" \notin Below(input) /\ Below(input) \subseteq {"updated", "read"}
  <2>1. Follows(input, InputNext) /\ "disconnect" \notin Below(input)
    BY <1>1, <1>2 DEF Tops, OnlyMainNests
  <2>2. Second(input) \in {"read", "updated"}
    BY <1>2, <2>1 DEF Follows, InputNext
  <2>3. "disconnect" \notin Below(input) /\ Below(input) \subseteq {"updated", "read"}
    BY <1>1, <1>2, <2>1, Zenon DEF Tops, Follows, Over, Beneath, Handles, Seen
  <2> QED BY <1>2, <2>1, <2>2, <2>3 DEF Follows
<1>5. /\ Seen(main) /\ Seen(timer) /\ Seen(input) /\ Seen(input')
      /\ \/ buffer = <<>> /\ Popped(input, input')
         \/ buffer # <<>> /\ ~Head(buffer).challenged /\ Becomes(input, input', "getchallenge")
  BY <1>1, <1>2 DEF Tops, Goes0, Goes1
<1>6. InputShape'
  BY <1>2, <1>3, <1>4 DEF InputShape, InputNext, Over, Handles, Beneath, Operations, Goes0, Goes1
<1>7. MainShape' /\ TimerShape' /\ OnlyMainNests'
  BY <1>2, <1>3, <1>4, <1>5 DEF MainShape, NextOfMain, TimerShape, OnlyMainNests, Becomes, Popped
<1>8. Tops' /\ Covers'
  BY <1>6, <1>7, TopsKnown, CoversKnown, PTL
<1>9. NestShape' /\ JoinsClosed' /\ InputGone' /\ ConnectsClosed' /\ HolderCloses'
  BY <1>1, <1>2, <1>3, <1>4, <1>5, <1>8 DEF NestShape, Nested, Alive, JoinsClosed, InputGone,
     Closing, ConnectsClosed, HolderCloses, Tops, Locks, Covers, Covered, Handles, Seen, Becomes,
     Popped
<1>10. FirstLife' /\ NoFaultFirst' /\ NoFaultPolled'
  BY <1>1, <1>2, <1>3, <1>4, <1>5 DEF FirstLife, AskSent, AskAnswered, BufferAsks, Simple,
     NoFaultFirst, Calm, Closing, Receiver, NoFaultPolled, InputWaits, Seen, Becomes, Popped
<1>11. MainCalm' /\ MainReconnects' /\ MainOpens'
  BY <1>1, <1>2, <1>3, <1>4, <1>5 DEF MainCalm, MainGoesOn, Second1, First1, Calm, Closing, AskSent,
     AskAnswered, BufferAsks, Simple, Alone, MainReconnects, MainOpens, Seen, Becomes, Popped
<1>12. SetupCalm' /\ OneAsks' /\ Coming' /\ ChallengeComing'
  BY <1>1, <1>2, <1>3, <1>4, <1>5, <1>8 DEF SetupCalm, SetsUp, Receiver, Nested, OneAsks, InputAsks,
     QueueAsks, BufferAsks, AskSent, AskAnswered, Coming, Nets, ChallengeComing, FirstAsked, Goes0,
     Goes1, Over, Beneath, Operations, HandlingNext, Covers, Covered, Handles, Seen, Becomes, Popped
<1>13. BothBusy' /\ TimerPolls' /\ TimerReopens' /\ TimerCalm'
  BY <1>1, <1>2, <1>3, <1>4, <1>5, <1>8 DEF BothBusy, Nets, Alone, TimerAsks, TimerPolls, Fired,
     AfterSetup, NoHarm, Reopens, Calm, Closing, First1, AskSent, AskAnswered, Simple, BufferAsks,
     Alive, TimerReopens, TimerCalm, TimerSetsUp, OldAsks, FirstAsked, Covers, Covered, Handles,
     Seen, Becomes, Popped
<1>14. StatusTold' /\ ConnectedTold' /\ MineWaits' /\ NothingAsked'
  BY <1>1, <1>2, <1>3, <1>4, <1>5, <1>8 DEF StatusTold, Closing, Told, ConnectedTold, MineWaits,
     NothingAsked, Nets, Alone, Covers, Covered, Handles, Seen, Becomes, Popped
<1> QED BY <1>6, <1>7, <1>9, <1>10, <1>11, <1>12, <1>13, <1>14

\* thread_input: handle_challenge gets a challenge that is too old.
LEMMA ChallengeLateInput ==
  ASSUME Sound, Good, Live, Sound', Live', ChallengeLate("input")
  PROVE  Good'
<1>1. /\ Tops /\ Covers /\ Unstuck /\ Locks /\ Queues /\ TypeOK
      /\ Unstuck' /\ Locks' /\ Queues' /\ TypeOK' /\ faults \in {0, 1} /\ faults' \in {0, 1}
  BY AllKnown
<1> USE DEF Good, Live
<1>2. /\ input # <<>> /\ Top(input) = "challenge" /\ main' = main /\ timer' = timer
      /\ SameCmds(buffer, buffer', FALSE)
      /\ emutex = "free" /\ Head(buffer).challenged /\ faults = 0 /\ faults' = 1 /\
           Goes1(input, input', "getchallenge")
  BY Zenon, <1>1, InputGoes, AtTop, OneFault, Challenged
  DEF ChallengeLate, EngineFree, Done, Sound, input,
     Operations
<1>3. UNCHANGED <<secure, status, open, polling, told, emutex, toServer, toBot>>
  BY DEF ChallengeLate, Same, SameLink, linkVars, SameEngine, engineVars, SameNet, netVars,
     SameWorld, worldVars
<1>4. /\ <<Top(input), Second(input)>> \in InputNext
      /\ Second(input) \in {"read", "updated"}
      /\ "disconnect" \notin Below(input) /\ Below(input) \subseteq {"updated", "read"}
  <2>1. Follows(input, InputNext) /\ "disconnect" \notin Below(input)
    BY <1>1, <1>2 DEF Tops, OnlyMainNests
  <2>2. Second(input) \in {"read", "updated"}
    BY <1>2, <2>1 DEF Follows, InputNext
  <2>3. "disconnect" \notin Below(input) /\ Below(input) \subseteq {"updated", "read"}
    BY <1>1, <1>2, <2>1, Zenon DEF Tops, Follows, Over, Beneath, Handles, Seen
  <2> QED BY <1>2, <2>1, <2>2, <2>3 DEF Follows
<1>5. /\ Seen(main) /\ Seen(timer) /\ Seen(input) /\ Seen(input')
      /\ emutex = "free" /\ Head(buffer).challenged /\ faults = 0 /\ faults' = 1 /\
           Becomes(input, input', "getchallenge")
  BY <1>1, <1>2 DEF Tops, Goes1
<1>6. InputShape'
  BY <1>2, <1>3, <1>4 DEF InputShape, InputNext, Over, Handles, Beneath, Operations, Goes1
<1>7. MainShape' /\ TimerShape' /\ OnlyMainNests'
  BY <1>2, <1>3, <1>4, <1>5 DEF MainShape, NextOfMain, TimerShape, OnlyMainNests, Becomes
<1>8. Tops' /\ Covers'
  BY <1>6, <1>7, TopsKnown, CoversKnown, PTL
<1>9. NestShape' /\ JoinsClosed' /\ InputGone' /\ ConnectsClosed' /\ HolderCloses'
  BY <1>1, <1>2, <1>3, <1>4, <1>5, <1>8 DEF NestShape, Nested, Alive, JoinsClosed, InputGone,
     Closing, ConnectsClosed, HolderCloses, Tops, Locks, SameCmds, Queues, Seen, Becomes
<1>10. FirstLife' /\ NoFaultFirst' /\ NoFaultPolled'
  BY <1>1, <1>2, <1>3, <1>4, <1>5 DEF FirstLife, AskSent, AskAnswered, BufferAsks, Simple,
     NoFaultFirst, Calm, Closing, Receiver, NoFaultPolled, InputWaits, SameCmds, Queues, Seen,
     Becomes
<1>11. MainCalm' /\ MainReconnects' /\ MainOpens'
  BY <1>1, <1>2, <1>3, <1>4, <1>5 DEF NoFaultPolled, Calm, Closing, InputWaits, MainCalm,
     MainGoesOn, Second1, First1, AskSent, AskAnswered, BufferAsks, Simple, Alone, MainReconnects,
     MainOpens, BothBusy, Nets, TimerAsks, SameCmds, Queues, Seen, Becomes
<1>12. SetupCalm' /\ OneAsks' /\ Coming' /\ ChallengeComing'
  BY <1>1, <1>2, <1>3, <1>4, <1>5 DEF SetupCalm, SetsUp, Receiver, Nested, OneAsks, InputAsks,
     QueueAsks, BufferAsks, AskSent, AskAnswered, Coming, Nets, ChallengeComing, FirstAsked, Goes1,
     Over, Beneath, Operations, HandlingNext, SameCmds, Queues, Seen, Becomes
<1>13. BothBusy' /\ TimerPolls' /\ TimerReopens' /\ TimerCalm'
  BY <1>1, <1>2, <1>3, <1>4, <1>5 DEF BothBusy, Nets, Alone, TimerAsks, TimerPolls, Fired,
     AfterSetup, NoHarm, Reopens, Calm, Closing, First1, AskSent, AskAnswered, Simple, BufferAsks,
     Alive, TimerReopens, TimerCalm, TimerSetsUp, OldAsks, FirstAsked, SameCmds, Queues, Seen,
     Becomes
<1>14. StatusTold' /\ ConnectedTold' /\ MineWaits' /\ NothingAsked'
  BY <1>1, <1>2, <1>3, <1>4, <1>5 DEF StatusTold, Closing, Told, ConnectedTold, MineWaits,
     NothingAsked, Nets, Alone, SameCmds, Queues, Seen, Becomes
<1> QED BY <1>6, <1>7, <1>9, <1>10, <1>11, <1>12, <1>13, <1>14

\* thread_input: handle_message is given log_dest_udp.
LEMMA HandleDestInput ==
  ASSUME Sound, Good, Live, Sound', Live', HandleDest("input")
  PROVE  Good'
<1>1. /\ Tops /\ Covers /\ Unstuck /\ Locks /\ Queues /\ TypeOK
      /\ Unstuck' /\ Locks' /\ Queues' /\ TypeOK' /\ faults \in {0, 1} /\ faults' \in {0, 1}
  BY AllKnown
<1> USE DEF Good, Live
<1>2. /\ input # <<>> /\ Top(input) \in {"mine", "others"} /\ main' = main /\ timer' = timer
      /\ \/ (Top(input) = "others" \/ ~open) /\ Goes1(input, input', "update")
         \/ Top(input) = "mine" /\ open /\ status # "CONNECTING" /\ Goes1(input, input', "connected")
         \/ Top(input) = "mine" /\ open /\ status = "CONNECTING" /\
              Goes2(input, input', "connected", "announce")
  BY Zenon, <1>1, InputGoes, AtTop DEF HandleDest, Done, Sound, input, Operations
<1>3. UNCHANGED <<secure, status, open, polling, told, emutex, buffer, toServer, toBot, faults>>
  BY DEF HandleDest, Same, SameLink, linkVars, SameEngine, engineVars, SameNet, netVars, SameWorld,
     worldVars
<1>4. /\ <<Top(input), Second(input)>> \in InputNext
      /\ \/ Top(input) = "mine" /\ Second(input) \in {"read", "updated"}
         \/ Top(input) = "others" /\ Second(input) \in {"read", "updated"}
      /\ "disconnect" \notin Below(input) /\ Below(input) \subseteq {"updated", "read"}
  <2>1. Follows(input, InputNext) /\ "disconnect" \notin Below(input)
    BY <1>1, <1>2 DEF Tops, OnlyMainNests
  <2>2. \/ Top(input) = "mine" /\ Second(input) \in {"read", "updated"}
        \/ Top(input) = "others" /\ Second(input) \in {"read", "updated"}
    BY <1>2, <2>1 DEF Follows, InputNext
  <2>3. "disconnect" \notin Below(input) /\ Below(input) \subseteq {"updated", "read"}
    BY <1>1, <1>2, <2>1, Zenon DEF Tops, Follows, Over, Beneath, Handles, Seen
  <2> QED BY <1>2, <2>1, <2>2, <2>3 DEF Follows
<1>5. /\ Seen(main) /\ Seen(timer) /\ Seen(input) /\ Seen(input')
      /\ \/ (Top(input) = "others" \/ ~open) /\ Becomes(input, input', "update")
         \/ Top(input) = "mine" /\ open /\ status # "CONNECTING" /\ Becomes(input, input', "connected")
         \/ Top(input) = "mine" /\ open /\ status = "CONNECTING" /\
              Becomes2(input, input', "connected", "announce")
  BY <1>1, <1>2 DEF Tops, Goes1, Goes2
<1>6. InputShape'
  BY <1>2, <1>3, <1>4 DEF InputShape, InputNext, Over, Handles, Beneath, Operations, Goes1, Goes2
<1>7. MainShape' /\ TimerShape' /\ OnlyMainNests'
  BY <1>2, <1>3, <1>4, <1>5 DEF MainShape, NextOfMain, TimerShape, OnlyMainNests, Becomes, Becomes2
<1>8. Tops' /\ Covers'
  BY <1>6, <1>7, TopsKnown, CoversKnown, PTL
<1>9. NestShape' /\ JoinsClosed' /\ InputGone' /\ ConnectsClosed' /\ HolderCloses'
  BY <1>1, <1>2, <1>3, <1>4, <1>5, <1>8 DEF NestShape, Nested, Alive, JoinsClosed, InputGone,
     Closing, ConnectsClosed, HolderCloses, Tops, Locks, Seen, Becomes, Becomes2
<1>10. FirstLife' /\ NoFaultFirst' /\ NoFaultPolled'
  BY <1>1, <1>2, <1>3, <1>4, <1>5 DEF FirstLife, AskSent, AskAnswered, BufferAsks, Simple,
     NoFaultFirst, Calm, Closing, Receiver, NoFaultPolled, InputWaits, Seen, Becomes, Becomes2
<1>11. MainCalm' /\ MainReconnects' /\ MainOpens'
  BY <1>1, <1>2, <1>3, <1>4, <1>5 DEF MainCalm, MainGoesOn, Second1, First1, Calm, Closing, AskSent,
     AskAnswered, BufferAsks, Simple, Alone, MainReconnects, MainOpens, Seen, Becomes, Becomes2
<1>12. SetupCalm' /\ OneAsks' /\ Coming' /\ ChallengeComing'
  BY <1>1, <1>2, <1>3, <1>4, <1>5 DEF SetupCalm, SetsUp, Receiver, Nested, OneAsks, InputAsks,
     QueueAsks, BufferAsks, AskSent, AskAnswered, Coming, Nets, ChallengeComing, FirstAsked, Goes1,
     Goes2, Over, Beneath, Operations, HandlingNext, Tops, Follows, Seen, Becomes, Becomes2
<1>13. BothBusy' /\ TimerPolls' /\ TimerReopens' /\ TimerCalm'
  BY <1>1, <1>2, <1>3, <1>4, <1>5 DEF ConnectsClosed, BothBusy, Nets, Alone, TimerAsks, TimerPolls,
     Fired, AfterSetup, NoHarm, Reopens, Calm, Closing, First1, AskSent, AskAnswered, Simple,
     BufferAsks, Alive, TimerReopens, TimerCalm, TimerSetsUp, OldAsks, FirstAsked, Seen, Becomes,
     Becomes2
<1>14. ConnectedTold'
  <2>1. status \in {"DISCONNECTED", "WAITING", "CONNECTING", "CHECKING", "CONNECTED"}
    BY <1>1 DEF TypeOK, Alive
  <2>2. Closing(timer) => ~open
    <3>1. ~NoHarm
      BY <1>2, <1>5 DEF NoHarm, Seen
    <3>2. Closing(timer) => Top(timer) \in {"close", "closed", "disconnect", "join"}
      BY <1>1, <1>5 DEF Closing, Covers, Covered, Seen
    <3>3. Top(timer) \in {"close", "closed", "disconnect", "join"} => ~TimerAsks
      BY DEF TimerAsks, Alone
    <3> QED BY <3>1, <3>2, <3>3 DEF TimerPolls, Fired, AfterSetup
  <2>3. (Closing(input) => Closing(input')) /\ (Told => Told')
    BY <1>2, <1>3, <1>5 DEF Closing, Told, Becomes, Becomes2, Seen
  <2>4. Top(input') = "connected" => open /\ (Closing(main) \/ Closing(input) \/ Told \/ Told')
    BY <1>2, <1>5, <2>1, <2>2 DEF StatusTold, MineWaits, Told, Becomes, Becomes2, Seen
  <2>5. Top(main) \in {"connected", "checking"} \/ Top(timer) \in {"connected", "checking"} =>
          ~open \/ Closing(main) \/ Closing(input) \/ Told
    BY DEF ConnectedTold
  <2>6. Top(input') \in {"update", "connected"}
    BY <1>2, <1>5 DEF Becomes, Becomes2, Seen
  <2> QED BY <1>2, <1>3, <2>3, <2>4, <2>5, <2>6 DEF ConnectedTold, Closing
<1>15. StatusTold' /\ MineWaits' /\ NothingAsked'
  BY <1>1, <1>2, <1>3, <1>4, <1>5 DEF StatusTold, Closing, Told, MineWaits, NothingAsked, Nets,
     Alone, Seen, Becomes, Becomes2
<1> QED BY <1>6, <1>7, <1>9, <1>10, <1>11, <1>12, <1>13, <1>14, <1>15

\* thread_input: handle_message sets the link CONNECTED.
LEMMA ConnectedInput ==
  ASSUME Sound, Good, Live, Sound', Live', Connected("input")
  PROVE  Good'
<1>1. /\ Tops /\ Covers /\ Unstuck /\ Locks /\ Queues /\ TypeOK
      /\ Unstuck' /\ Locks' /\ Queues' /\ TypeOK' /\ faults \in {0, 1} /\ faults' \in {0, 1}
  BY AllKnown
<1> USE DEF Good, Live
<1>2. /\ input # <<>> /\ Top(input) = "connected" /\ main' = main /\ timer' = timer
      /\ status' = "CONNECTED" /\ Goes0(input, input')
  BY Zenon, <1>1, InputGoes, AtTop DEF Connected, Done, Sound, input, Operations
<1>3. UNCHANGED <<secure, open, polling, told, emutex, buffer, toServer, toBot, faults>>
  BY DEF Connected, Same, SameLink, linkVars, SameEngine, engineVars, SameNet, netVars, SameWorld,
     worldVars
<1>4. /\ <<Top(input), Second(input)>> \in InputNext
      /\ Second(input) \in {"read", "updated", "announce"}
      /\ "disconnect" \notin Below(input) /\ Below(input) \subseteq {"updated", "read", "announce"}
  <2>1. Follows(input, InputNext) /\ "disconnect" \notin Below(input)
    BY <1>1, <1>2 DEF Tops, OnlyMainNests
  <2>2. Second(input) \in {"read", "updated", "announce"}
    BY <1>2, <2>1 DEF Follows, InputNext
  <2>3. "disconnect" \notin Below(input) /\ Below(input) \subseteq {"updated", "read", "announce"}
    BY <1>1, <1>2, <2>1, Zenon DEF Tops, Follows, Over, Beneath, Handles, Seen
  <2> QED BY <1>2, <2>1, <2>2, <2>3 DEF Follows
<1>5. /\ Seen(main) /\ Seen(timer) /\ Seen(input) /\ Seen(input')
      /\ status' = "CONNECTED" /\ Popped(input, input')
  BY <1>1, <1>2 DEF Tops, Goes0
<1>6. InputShape'
  BY <1>2, <1>3, <1>4 DEF InputShape, InputNext, Over, Handles, Beneath, Operations, Goes0
<1>7. MainShape' /\ TimerShape' /\ OnlyMainNests'
  BY <1>2, <1>3, <1>4, <1>5 DEF MainShape, NextOfMain, TimerShape, OnlyMainNests, Popped
<1>8. Tops' /\ Covers'
  BY <1>6, <1>7, TopsKnown, CoversKnown, PTL
<1>9. NestShape' /\ JoinsClosed' /\ InputGone' /\ ConnectsClosed' /\ HolderCloses'
  BY <1>1, <1>2, <1>3, <1>4, <1>5, <1>8 DEF NestShape, Nested, Alive, JoinsClosed, InputGone,
     Closing, ConnectsClosed, HolderCloses, Tops, Locks, Covers, Covered, Handles, Seen, Popped
<1>10. FirstLife' /\ NoFaultFirst' /\ NoFaultPolled'
  BY <1>1, <1>2, <1>3, <1>4, <1>5 DEF FirstLife, AskSent, AskAnswered, BufferAsks, Simple,
     NoFaultFirst, Calm, Closing, Receiver, NoFaultPolled, InputWaits, Seen, Popped
<1>11. MainCalm' /\ MainReconnects' /\ MainOpens'
  BY <1>1, <1>2, <1>3, <1>4, <1>5 DEF MainCalm, MainGoesOn, Second1, First1, Calm, Closing, AskSent,
     AskAnswered, BufferAsks, Simple, Alone, MainReconnects, MainOpens, Seen, Popped
<1>12. SetupCalm' /\ OneAsks' /\ Coming' /\ ChallengeComing'
  BY <1>1, <1>2, <1>3, <1>4, <1>5, <1>8 DEF SetupCalm, SetsUp, Receiver, Nested, OneAsks, InputAsks,
     QueueAsks, BufferAsks, AskSent, AskAnswered, Coming, Nets, ChallengeComing, FirstAsked, Goes0,
     Over, Beneath, Operations, HandlingNext, Covers, Covered, Handles, Seen, Popped
<1>13. BothBusy' /\ TimerPolls' /\ TimerReopens' /\ TimerCalm'
  BY <1>1, <1>2, <1>3, <1>4, <1>5 DEF BothBusy, Nets, Alone, TimerAsks, TimerPolls, Fired,
     AfterSetup, NoHarm, Reopens, Calm, Closing, First1, AskSent, AskAnswered, Simple, BufferAsks,
     Alive, TimerReopens, TimerCalm, TimerSetsUp, OldAsks, FirstAsked, Seen, Popped
<1>14. StatusTold' /\ ConnectedTold' /\ MineWaits' /\ NothingAsked'
  BY <1>1, <1>2, <1>3, <1>4, <1>5 DEF StatusTold, Closing, Told, ConnectedTold, MineWaits,
     NothingAsked, Nets, Alone, Seen, Popped
<1> QED BY <1>6, <1>7, <1>9, <1>10, <1>11, <1>12, <1>13, <1>14

\* thread_input: handle_message tells the bot.
LEMMA AnnounceInput ==
  ASSUME Sound, Good, Live, Sound', Live', Announce("input")
  PROVE  Good'
<1>1. /\ Tops /\ Covers /\ Unstuck /\ Locks /\ Queues /\ TypeOK
      /\ Unstuck' /\ Locks' /\ Queues' /\ TypeOK' /\ faults \in {0, 1} /\ faults' \in {0, 1}
  BY AllKnown
<1> USE DEF Good, Live
<1>2. /\ input # <<>> /\ Top(input) = "announce" /\ main' = main /\ timer' = timer
      /\ told' = "connected" /\ Goes0(input, input')
  BY Zenon, <1>1, InputGoes, AtTop DEF Announce, Done, Sound, input, Operations
<1>3. UNCHANGED <<secure, status, open, polling, emutex, buffer, toServer, toBot, faults>>
  BY DEF Announce, Same, SameLink, linkVars, SameEngine, engineVars, SameNet, netVars, SameWorld,
     worldVars
<1>4. /\ <<Top(input), Second(input)>> \in InputNext
      /\ Second(input) \in {"read", "updated"}
      /\ "disconnect" \notin Below(input) /\ Below(input) \subseteq {"updated", "read"}
  <2>1. Follows(input, InputNext) /\ "disconnect" \notin Below(input)
    BY <1>1, <1>2 DEF Tops, OnlyMainNests
  <2>2. Second(input) \in {"read", "updated"}
    BY <1>2, <2>1 DEF Follows, InputNext
  <2>3. "disconnect" \notin Below(input) /\ Below(input) \subseteq {"updated", "read"}
    BY <1>1, <1>2, <2>1, Zenon DEF Tops, Follows, Over, Beneath, Handles, Seen
  <2> QED BY <1>2, <2>1, <2>2, <2>3 DEF Follows
<1>5. /\ Seen(main) /\ Seen(timer) /\ Seen(input) /\ Seen(input')
      /\ told' = "connected" /\ Popped(input, input')
  BY <1>1, <1>2 DEF Tops, Goes0
<1>6. InputShape'
  BY <1>2, <1>3, <1>4 DEF InputShape, InputNext, Over, Handles, Beneath, Operations, Goes0
<1>7. MainShape' /\ TimerShape' /\ OnlyMainNests'
  BY <1>2, <1>3, <1>4, <1>5 DEF MainShape, NextOfMain, TimerShape, OnlyMainNests, Popped
<1>8. Tops' /\ Covers'
  BY <1>6, <1>7, TopsKnown, CoversKnown, PTL
<1>9. NestShape' /\ JoinsClosed' /\ InputGone' /\ ConnectsClosed' /\ HolderCloses'
  BY <1>1, <1>2, <1>3, <1>4, <1>5, <1>8 DEF NestShape, Nested, Alive, JoinsClosed, InputGone,
     Closing, ConnectsClosed, HolderCloses, Tops, Locks, Covers, Covered, Handles, Seen, Popped
<1>10. FirstLife' /\ NoFaultFirst' /\ NoFaultPolled'
  BY <1>1, <1>2, <1>3, <1>4, <1>5 DEF FirstLife, AskSent, AskAnswered, BufferAsks, Simple,
     NoFaultFirst, Calm, Closing, Receiver, NoFaultPolled, InputWaits, Seen, Popped
<1>11. MainCalm' /\ MainReconnects' /\ MainOpens'
  BY <1>1, <1>2, <1>3, <1>4, <1>5 DEF MainCalm, MainGoesOn, Second1, First1, Calm, Closing, AskSent,
     AskAnswered, BufferAsks, Simple, Alone, MainReconnects, MainOpens, Seen, Popped
<1>12. SetupCalm' /\ OneAsks' /\ Coming' /\ ChallengeComing'
  BY <1>1, <1>2, <1>3, <1>4, <1>5, <1>8 DEF SetupCalm, SetsUp, Receiver, Nested, OneAsks, InputAsks,
     QueueAsks, BufferAsks, AskSent, AskAnswered, Coming, Nets, ChallengeComing, FirstAsked, Goes0,
     Over, Beneath, Operations, HandlingNext, Covers, Covered, Handles, Seen, Popped
<1>13. BothBusy' /\ TimerPolls' /\ TimerReopens' /\ TimerCalm'
  BY <1>1, <1>2, <1>3, <1>4, <1>5, <1>8 DEF BothBusy, Nets, Alone, TimerAsks, TimerPolls, Fired,
     AfterSetup, NoHarm, Reopens, Calm, Closing, First1, AskSent, AskAnswered, Simple, BufferAsks,
     Alive, TimerReopens, TimerCalm, TimerSetsUp, OldAsks, FirstAsked, Covers, Covered, Handles,
     Seen, Popped
<1>14. StatusTold' /\ ConnectedTold' /\ MineWaits' /\ NothingAsked'
  BY <1>1, <1>2, <1>3, <1>4, <1>5, <1>8 DEF StatusTold, Closing, Told, ConnectedTold, MineWaits,
     NothingAsked, Nets, Alone, Covers, Covered, Handles, Seen, Popped
<1> QED BY <1>6, <1>7, <1>9, <1>10, <1>11, <1>12, <1>13, <1>14

\* thread_input: close_connection tells the bot.
LEMMA CloseInput ==
  ASSUME Sound, Good, Live, Sound', Live', Close("input")
  PROVE  Good'
<1>1. /\ Tops /\ Covers /\ Unstuck /\ Locks /\ Queues /\ TypeOK
      /\ Unstuck' /\ Locks' /\ Queues' /\ TypeOK' /\ faults \in {0, 1} /\ faults' \in {0, 1}
  BY AllKnown
<1> USE DEF Good, Live
<1>2. /\ input # <<>> /\ Top(input) = "close" /\ main' = main /\ timer' = timer
      /\ told' = (IF status \in {"CHECKING", "CONNECTED"} THEN "disconnected" ELSE told) /\
           Goes1(input, input', "closed")
  BY Zenon, <1>1, InputGoes, AtTop DEF Close, Done, Sound, input, Operations
<1>3. UNCHANGED <<secure, status, open, polling, emutex, buffer, toServer, toBot, faults>>
  BY DEF Close, Same, SameLink, linkVars, SameEngine, engineVars, SameNet, netVars, SameWorld,
     worldVars
<1>4. /\ <<Top(input), Second(input)>> \in InputNext
      /\ Second(input) \in {"end", "close", "getchallenge", "read", "release", "updated", "wait"}
      /\ "disconnect" \notin Below(input) /\ Below(input) \subseteq {"updated", "read", "close",
           "connect", "join", "getchallenge", "release", "wait"}
  <2>1. Follows(input, InputNext) /\ "disconnect" \notin Below(input)
    BY <1>1, <1>2 DEF Tops, OnlyMainNests
  <2>2. Second(input) \in {"end", "close", "getchallenge", "read", "release", "updated", "wait"}
    BY <1>2, <2>1 DEF Follows, InputNext
  <2>3. "disconnect" \notin Below(input) /\ Below(input) \subseteq {"updated", "read", "close",
          "connect", "join", "getchallenge", "release", "wait"}
    BY <1>1, <1>2, <2>1, Zenon DEF Tops, Follows, Over, Beneath, Handles, Seen
  <2> QED BY <1>2, <2>1, <2>2, <2>3 DEF Follows
<1>5. /\ Seen(main) /\ Seen(timer) /\ Seen(input) /\ Seen(input')
      /\ told' = (IF status \in {"CHECKING", "CONNECTED"} THEN "disconnected" ELSE told) /\
           Becomes(input, input', "closed")
  BY <1>1, <1>2 DEF Tops, Goes1
<1>6. InputShape'
  BY <1>2, <1>3, <1>4 DEF InputShape, InputNext, Over, Handles, Beneath, Operations, Goes1
<1>7. MainShape' /\ TimerShape' /\ OnlyMainNests'
  BY <1>2, <1>3, <1>4, <1>5 DEF MainShape, NextOfMain, TimerShape, OnlyMainNests, Becomes
<1>8. Tops' /\ Covers'
  BY <1>6, <1>7, TopsKnown, CoversKnown, PTL
<1>9. NestShape' /\ JoinsClosed' /\ InputGone' /\ ConnectsClosed' /\ HolderCloses'
  BY <1>1, <1>2, <1>3, <1>4, <1>5, <1>8 DEF NestShape, Nested, Alive, JoinsClosed, InputGone,
     Closing, ConnectsClosed, HolderCloses, Tops, Locks, Seen, Becomes
<1>10. FirstLife' /\ NoFaultFirst' /\ NoFaultPolled'
  BY <1>1, <1>2, <1>3, <1>4, <1>5 DEF FirstLife, AskSent, AskAnswered, BufferAsks, Simple,
     NoFaultFirst, Calm, Closing, Receiver, NoFaultPolled, InputWaits, Seen, Becomes
<1>11. MainCalm' /\ MainReconnects' /\ MainOpens'
  BY <1>1, <1>2, <1>3, <1>4, <1>5 DEF MainCalm, MainGoesOn, Second1, First1, Calm, Closing, AskSent,
     AskAnswered, BufferAsks, Simple, Alone, MainReconnects, MainOpens, Seen, Becomes
<1>12. SetupCalm' /\ OneAsks' /\ Coming' /\ ChallengeComing'
  BY <1>1, <1>2, <1>3, <1>4, <1>5 DEF SetupCalm, SetsUp, Receiver, Nested, OneAsks, InputAsks,
     QueueAsks, BufferAsks, AskSent, AskAnswered, Coming, Nets, ChallengeComing, FirstAsked, Goes1,
     Over, Beneath, Operations, HandlingNext, Tops, Follows, Seen, Becomes
<1>13. BothBusy' /\ TimerPolls' /\ TimerReopens' /\ TimerCalm'
  BY <1>1, <1>2, <1>3, <1>4, <1>5 DEF BothBusy, Nets, Alone, TimerAsks, TimerPolls, Fired,
     AfterSetup, NoHarm, Reopens, Calm, Closing, First1, AskSent, AskAnswered, Simple, BufferAsks,
     Alive, TimerReopens, TimerCalm, TimerSetsUp, OldAsks, FirstAsked, Seen, Becomes
<1>14. StatusTold' /\ ConnectedTold' /\ MineWaits' /\ NothingAsked'
  BY <1>1, <1>2, <1>3, <1>4, <1>5 DEF StatusTold, Closing, Told, ConnectedTold, MineWaits,
     NothingAsked, Nets, Alone, Seen, Becomes
<1> QED BY <1>6, <1>7, <1>9, <1>10, <1>11, <1>12, <1>13, <1>14

\* thread_input: close_connection sets the link DISCONNECTED.
LEMMA ClosedInput ==
  ASSUME Sound, Good, Live, Sound', Live', Closed("input")
  PROVE  Good'
<1>1. /\ Tops /\ Covers /\ Unstuck /\ Locks /\ Queues /\ TypeOK
      /\ Unstuck' /\ Locks' /\ Queues' /\ TypeOK' /\ faults \in {0, 1} /\ faults' \in {0, 1}
  BY AllKnown
<1> USE DEF Good, Live
<1>2. /\ input # <<>> /\ Top(input) = "closed" /\ main' = main /\ timer' = timer
      /\ status' = "DISCONNECTED"
      /\ \/ open /\ Goes2(input, input', "disconnect", "join")
         \/ ~open /\ Goes0(input, input')
  BY Zenon, <1>1, InputGoes, AtTop DEF Closed, Done, Sound, input, Operations
<1>3. UNCHANGED <<secure, open, polling, told, emutex, buffer, toServer, toBot, faults>>
  BY DEF Closed, Same, SameLink, linkVars, SameEngine, engineVars, SameNet, netVars, SameWorld,
     worldVars
<1>4. /\ <<Top(input), Second(input)>> \in InputNext
      /\ Second(input) \in {"end", "close", "getchallenge", "read", "release", "updated", "wait"}
      /\ "disconnect" \notin Below(input) /\ Below(input) \subseteq {"updated", "read", "close",
           "connect", "join", "getchallenge", "release", "wait"}
  <2>1. Follows(input, InputNext) /\ "disconnect" \notin Below(input)
    BY <1>1, <1>2 DEF Tops, OnlyMainNests
  <2>2. Second(input) \in {"end", "close", "getchallenge", "read", "release", "updated", "wait"}
    BY <1>2, <2>1 DEF Follows, InputNext
  <2>3. "disconnect" \notin Below(input) /\ Below(input) \subseteq {"updated", "read", "close",
          "connect", "join", "getchallenge", "release", "wait"}
    BY <1>1, <1>2, <2>1, Zenon DEF Tops, Follows, Over, Beneath, Handles, Seen
  <2> QED BY <1>2, <2>1, <2>2, <2>3 DEF Follows
<1>5. /\ Seen(main) /\ Seen(timer) /\ Seen(input) /\ Seen(input')
      /\ \/ open /\ Becomes2(input, input', "disconnect", "join")
         \/ ~open /\ Popped(input, input')
  BY <1>1, <1>2 DEF Tops, Goes0, Goes2
<1>6. InputShape'
  BY <1>1, <1>2, <1>3, <1>4, <1>5 DEF InputShape, InputNext, Over, Handles, Beneath, Operations,
     Goes0, Goes2, Unstuck, Leaves, Closes, Becomes2, Popped, Seen
<1>7. MainShape' /\ TimerShape' /\ OnlyMainNests'
  BY <1>2, <1>3, <1>4, <1>5 DEF MainShape, NextOfMain, TimerShape, OnlyMainNests, Becomes2, Popped
<1>8. Tops' /\ Covers'
  BY <1>6, <1>7, TopsKnown, CoversKnown, PTL
<1>9. NestShape' /\ JoinsClosed' /\ InputGone' /\ ConnectsClosed' /\ HolderCloses'
  BY <1>1, <1>2, <1>3, <1>4, <1>5, <1>8 DEF NestShape, Nested, Alive, JoinsClosed, InputGone,
     Closing, ConnectsClosed, HolderCloses, Tops, Locks, Seen, Becomes2, Popped
<1>10. FirstLife' /\ NoFaultFirst' /\ NoFaultPolled'
  BY <1>1, <1>2, <1>3, <1>4, <1>5 DEF FirstLife, AskSent, AskAnswered, BufferAsks, Simple,
     NoFaultFirst, Calm, Closing, Receiver, NoFaultPolled, InputWaits, Seen, Becomes2, Popped
<1>11. MainCalm' /\ MainReconnects' /\ MainOpens'
  BY <1>1, <1>2, <1>3, <1>4, <1>5 DEF MainCalm, MainGoesOn, Second1, First1, Calm, Closing, AskSent,
     AskAnswered, BufferAsks, Simple, Alone, MainReconnects, MainOpens, Tops, Follows, NextOfMain,
     MainNext, FirstNext, Seen, Becomes2, Popped
<1>12. SetupCalm' /\ OneAsks' /\ Coming' /\ ChallengeComing'
  BY <1>1, <1>2, <1>3, <1>4, <1>5 DEF SetupCalm, SetsUp, Receiver, Nested, OneAsks, InputAsks,
     QueueAsks, BufferAsks, AskSent, AskAnswered, Coming, Nets, ChallengeComing, FirstAsked, Goes0,
     Goes2, Over, Beneath, Operations, HandlingNext, Tops, Follows, Unstuck, Leaves, Closes, Seen,
     Becomes2, Popped
<1>13. BothBusy' /\ TimerPolls' /\ TimerReopens' /\ TimerCalm'
  BY <1>1, <1>2, <1>3, <1>4, <1>5, <1>8 DEF NoFaultFirst, Calm, Closing, Receiver, NoFaultPolled,
     InputWaits, BothBusy, Nets, Alone, TimerAsks, TimerPolls, Fired, AfterSetup, NoHarm, Reopens,
     First1, AskSent, AskAnswered, Simple, BufferAsks, Alive, TimerReopens, TimerCalm, TimerSetsUp,
     OldAsks, FirstAsked, Covers, Covered, Handles, Seen, Becomes2, Popped
<1>14. StatusTold' /\ ConnectedTold' /\ MineWaits' /\ NothingAsked'
  BY <1>1, <1>2, <1>3, <1>4, <1>5 DEF SetupCalm, SetsUp, Receiver, Nested, StatusTold, Closing,
     Told, ConnectedTold, MineWaits, NothingAsked, Nets, Alone, Tops, Follows, HandlingNext,
     NextOfMain, MainNext, FirstNext, Seen, Becomes2, Popped
<1> QED BY <1>6, <1>7, <1>9, <1>10, <1>11, <1>12, <1>13, <1>14

\* thread_input: UdpIo::disconnect closes the socket.
LEMMA IoCloseInput ==
  ASSUME Sound, Good, Live, Sound', Live', IoClose("input")
  PROVE  Good'
<1>1. /\ Tops /\ Covers /\ Unstuck /\ Locks /\ Queues /\ TypeOK
      /\ Unstuck' /\ Locks' /\ Queues' /\ TypeOK' /\ faults \in {0, 1} /\ faults' \in {0, 1}
  BY AllKnown
<1> USE DEF Good, Live
<1>2. /\ input # <<>> /\ Top(input) = "disconnect" /\ main' = main /\ timer' = timer
      /\ open' = FALSE /\ toBot' = <<>> /\ Goes0(input, input')
  BY Zenon, <1>1, InputGoes, AtTop DEF IoClose, Done, Sound, input, Operations
<1>3. UNCHANGED <<secure, status, polling, told, emutex, buffer, toServer, faults>>
  BY DEF IoClose, Same, SameLink, linkVars, SameEngine, engineVars, SameNet, netVars, SameWorld,
     worldVars
<1>4. /\ <<Top(input), Second(input)>> \in InputNext
      /\ Second(input) \in {"join"}
      /\ "disconnect" \notin Below(input) /\ Below(input) \subseteq {"updated", "read", "close",
           "connect", "join", "getchallenge", "release", "wait"}
  <2>1. Follows(input, InputNext) /\ "disconnect" \notin Below(input)
    BY <1>1, <1>2 DEF Tops, OnlyMainNests
  <2>2. Second(input) \in {"join"}
    BY <1>2, <2>1 DEF Follows, InputNext
  <2>3. "disconnect" \notin Below(input) /\ Below(input) \subseteq {"updated", "read", "close",
          "connect", "join", "getchallenge", "release", "wait"}
    BY <1>1, <1>2, <2>1, Zenon DEF Tops, Follows, Over, Beneath, Handles, Seen
  <2> QED BY <1>2, <2>1, <2>2, <2>3 DEF Follows
<1>5. /\ Seen(main) /\ Seen(timer) /\ Seen(input) /\ Seen(input')
      /\ open' = FALSE /\ toBot' = <<>> /\ Popped(input, input')
  BY <1>1, <1>2 DEF Tops, Goes0
<1>6. InputShape'
  BY <1>2, <1>3, <1>4 DEF InputShape, InputNext, Over, Handles, Beneath, Operations, Goes0
<1>7. MainShape' /\ TimerShape' /\ OnlyMainNests'
  BY <1>2, <1>3, <1>4, <1>5 DEF MainShape, NextOfMain, TimerShape, OnlyMainNests, Popped
<1>8. Tops' /\ Covers'
  BY <1>6, <1>7, TopsKnown, CoversKnown, PTL
<1>9. NestShape' /\ JoinsClosed' /\ InputGone' /\ ConnectsClosed' /\ HolderCloses'
  BY <1>1, <1>2, <1>3, <1>4, <1>5, <1>8 DEF NestShape, Nested, Alive, JoinsClosed, InputGone,
     Closing, ConnectsClosed, HolderCloses, Tops, Locks, Seen, Popped
<1>10. FirstLife' /\ NoFaultFirst' /\ NoFaultPolled'
  BY <1>1, <1>2, <1>3, <1>4, <1>5 DEF FirstLife, AskSent, AskAnswered, BufferAsks, Simple,
     NoFaultFirst, Calm, Closing, Receiver, NoFaultPolled, InputWaits, Queues, Seen, Popped
<1>11. MainCalm' /\ MainReconnects' /\ MainOpens'
  BY <1>1, <1>2, <1>3, <1>4, <1>5 DEF MainCalm, MainGoesOn, Second1, First1, Calm, Closing, AskSent,
     AskAnswered, BufferAsks, Simple, Alone, MainReconnects, MainOpens, Queues, Seen, Popped
<1>12. SetupCalm' /\ OneAsks' /\ Coming' /\ ChallengeComing'
  BY <1>1, <1>2, <1>3, <1>4, <1>5 DEF SetupCalm, SetsUp, Receiver, Nested, OneAsks, InputAsks,
     QueueAsks, BufferAsks, AskSent, AskAnswered, Coming, Nets, ChallengeComing, FirstAsked, Goes0,
     Over, Beneath, Operations, HandlingNext, Tops, Follows, Unstuck, Leaves, Closes, Queues, Seen,
     Popped
<1>13. BothBusy' /\ TimerPolls' /\ TimerReopens' /\ TimerCalm'
  BY <1>1, <1>2, <1>3, <1>4, <1>5, <1>8 DEF BothBusy, Nets, Alone, TimerAsks, TimerPolls, Fired,
     AfterSetup, NoHarm, Reopens, Calm, Closing, First1, AskSent, AskAnswered, Simple, BufferAsks,
     Alive, TimerReopens, TimerCalm, TimerSetsUp, OldAsks, FirstAsked, Covers, Covered, Handles,
     Queues, Seen, Popped
<1>14. StatusTold' /\ ConnectedTold' /\ MineWaits' /\ NothingAsked'
  BY <1>1, <1>2, <1>3, <1>4, <1>5 DEF StatusTold, Closing, Told, ConnectedTold, MineWaits,
     NothingAsked, Nets, Alone, Queues, Seen, Popped
<1> QED BY <1>6, <1>7, <1>9, <1>10, <1>11, <1>12, <1>13, <1>14

\* thread_input: Engine::clear.
LEMMA ClearInput ==
  ASSUME Sound, Good, Live, Sound', Live', Clear("input")
  PROVE  Good'
<1>1. /\ Tops /\ Covers /\ Unstuck /\ Locks /\ Queues /\ TypeOK
      /\ Unstuck' /\ Locks' /\ Queues' /\ TypeOK' /\ faults \in {0, 1} /\ faults' \in {0, 1}
  BY AllKnown
<1> USE DEF Good, Live
<1>2. /\ input # <<>> /\ Top(input) \in {"clear", "join"} /\ main' = main /\ timer' = timer
      /\ emutex = "free" /\ buffer' = <<>> /\ Goes0(input, input')
  <2>1. /\ input # <<>> /\ Top(input) \in {"clear", "join"} /\ emutex = "free" /\ buffer' = <<>>
    BY AtTop DEF Clear, EngineFree, Idle, input
  <2> QED BY <1>1, <2>1, InputGoes DEF Clear, Done
<1>3. UNCHANGED <<secure, status, open, polling, told, emutex, toServer, toBot, faults>>
  BY DEF Clear, Same, SameLink, linkVars, SameEngine, engineVars, SameNet, netVars, SameWorld,
     worldVars
<1>4. /\ <<Top(input), Second(input)>> \in InputNext
      /\ \/ Top(input) = "clear" /\ Second(input) \in {"read"}
         \/ Top(input) = "join" /\ Second(input) \in {"end", "close", "getchallenge", "read",
              "updated", "wait"}
      /\ "disconnect" \notin Below(input) /\ Below(input) \subseteq {"updated", "read", "close",
           "connect", "join", "getchallenge", "release", "wait"}
  <2>1. Follows(input, InputNext) /\ "disconnect" \notin Below(input)
    BY <1>1, <1>2 DEF Tops, OnlyMainNests
  <2>2. \/ Top(input) = "clear" /\ Second(input) \in {"read"}
        \/ Top(input) = "join" /\ Second(input) \in {"end", "close", "getchallenge", "read",
             "updated", "wait"}
    BY <1>2, <2>1 DEF Follows, InputNext
  <2>3. "disconnect" \notin Below(input) /\ Below(input) \subseteq {"updated", "read", "close",
          "connect", "join", "getchallenge", "release", "wait"}
    BY <1>1, <1>2, <2>1, Zenon DEF Tops, Follows, Over, Beneath, Handles, Seen
  <2> QED BY <1>2, <2>1, <2>2, <2>3 DEF Follows
<1>5. /\ Seen(main) /\ Seen(timer) /\ Seen(input) /\ Seen(input')
      /\ emutex = "free" /\ buffer' = <<>> /\ Popped(input, input')
  BY <1>1, <1>2 DEF Tops, Goes0
<1>6. InputShape'
  BY <1>2, <1>3, <1>4 DEF InputShape, InputNext, Over, Handles, Beneath, Operations, Goes0
<1>7. MainShape' /\ TimerShape' /\ OnlyMainNests'
  BY <1>2, <1>3, <1>4, <1>5 DEF MainShape, NextOfMain, TimerShape, OnlyMainNests, Popped
<1>8. Tops' /\ Covers'
  BY <1>6, <1>7, TopsKnown, CoversKnown, PTL
<1>9. NestShape' /\ JoinsClosed' /\ InputGone' /\ ConnectsClosed' /\ HolderCloses'
  BY <1>1, <1>2, <1>3, <1>4, <1>5, <1>8 DEF NestShape, Nested, Alive, JoinsClosed, InputGone,
     Closing, ConnectsClosed, HolderCloses, Tops, Locks, Covers, Covered, Handles, Queues, Seen,
     Popped
<1>10. FirstLife' /\ NoFaultFirst' /\ NoFaultPolled'
  BY <1>1, <1>2, <1>3, <1>4, <1>5 DEF FirstLife, AskSent, AskAnswered, BufferAsks, Simple,
     NoFaultFirst, Calm, Closing, Receiver, NoFaultPolled, InputWaits, Queues, Seen, Popped
<1>11. MainCalm' /\ MainReconnects' /\ MainOpens'
  BY <1>1, <1>2, <1>3, <1>4, <1>5 DEF MainCalm, MainGoesOn, Second1, First1, Calm, Closing, AskSent,
     AskAnswered, BufferAsks, Simple, Alone, MainReconnects, MainOpens, Queues, Seen, Popped
<1>12. SetupCalm' /\ OneAsks' /\ Coming' /\ ChallengeComing'
  BY <1>1, <1>2, <1>3, <1>4, <1>5, <1>8 DEF JoinsClosed, SetupCalm, SetsUp, Receiver, Nested,
     OneAsks, InputAsks, QueueAsks, BufferAsks, AskSent, AskAnswered, Coming, Nets, ChallengeComing,
     FirstAsked, Goes0, Over, Beneath, Operations, HandlingNext, Unstuck, Leaves, Closes, Covers,
     Covered, Handles, Queues, Seen, Popped
<1>13. BothBusy' /\ TimerPolls' /\ TimerReopens' /\ TimerCalm'
  BY <1>1, <1>2, <1>3, <1>4, <1>5, <1>8 DEF JoinsClosed, BothBusy, Nets, Alone, TimerAsks,
     TimerPolls, Fired, AfterSetup, NoHarm, Reopens, Calm, Closing, First1, AskSent, AskAnswered,
     Simple, BufferAsks, Alive, TimerReopens, TimerCalm, TimerSetsUp, OldAsks, FirstAsked, Covers,
     Covered, Handles, Queues, Seen, Popped
<1>14. StatusTold' /\ ConnectedTold' /\ MineWaits' /\ NothingAsked'
  BY <1>1, <1>2, <1>3, <1>4, <1>5, <1>8 DEF StatusTold, Closing, Told, ConnectedTold, MineWaits,
     NothingAsked, Nets, Alone, Covers, Covered, Handles, Queues, Seen, Popped
<1> QED BY <1>6, <1>7, <1>9, <1>10, <1>11, <1>12, <1>13, <1>14

\* thread_input reads a datagram.
LEMMA ReadDatagramInput ==
  ASSUME Sound, Good, Live, Sound', Live', ReadDatagram
  PROVE  Good'
<1>1. /\ Tops /\ Covers /\ Unstuck /\ Locks /\ Queues /\ TypeOK
      /\ Unstuck' /\ Locks' /\ Queues' /\ TypeOK' /\ faults \in {0, 1} /\ faults' \in {0, 1}
  BY AllKnown
<1> USE DEF Good, Live
<1>2. /\ input # <<>> /\ Top(input) = "read" /\ main' = main /\ timer' = timer
      /\ ~Nested
      /\ open /\ Removed(toBot, toBot', {"mine", "others"}) /\ Head(toBot) \in Answers
      /\ status' = IF status = "WAITING" THEN "CONNECTING" ELSE status
      /\ \/ Head(toBot) = "ack" /\ input' = input
         \/ Head(toBot) # "ack" /\ Adds(input, input', Head(toBot))
  <2>1. Receive("input", input) /\ ReadScheduled
    BY DEF ReadDatagram, input
  <2>2. input # <<>> /\ Top(input) = "read" /\ ~Nested
    BY <1>1, <2>1, Reading DEF Nested
  <2> QED BY <1>1, <2>1, <2>2, ReceivesOn DEF Receive, Threads, main, timer, input
<1>3. UNCHANGED <<secure, open, polling, told, emutex, buffer, toServer, faults>>
  BY DEF ReadDatagram, Receive, Same, SameLink, linkVars, SameEngine, engineVars, SameNet, netVars,
     SameWorld, worldVars
<1>4. /\ <<Top(input), Second(input)>> \in InputNext
      /\ Second(input) \in {"end"}
      /\ "disconnect" \notin Below(input) /\ Below(input) \subseteq {}
  <2>1. Follows(input, InputNext) /\ "disconnect" \notin Below(input)
    BY <1>1, <1>2 DEF Tops, OnlyMainNests
  <2>2. Second(input) \in {"end"}
    BY <1>2, <2>1 DEF Follows, InputNext
  <2>3. "disconnect" \notin Below(input) /\ Below(input) \subseteq {}
    BY <1>1, <1>2, <2>1, Zenon DEF Tops, Follows, Over, Beneath, Handles, Seen
  <2> QED BY <1>2, <2>1, <2>2, <2>3 DEF Follows
<1>5. /\ Seen(main) /\ Seen(timer) /\ Seen(input) /\ Seen(input')
      /\ \/ Head(toBot) = "ack" /\ input' = input
         \/ Head(toBot) # "ack" /\ Pushed(input, input', Head(toBot))
  BY <1>1, <1>2 DEF Tops, Adds
<1>6. InputShape'
  <2>1. Elems(input) = {"read"}
    BY <1>2, <1>4, <1>5 DEF Seen
  <2> QED BY <1>2, <1>3, <2>1 DEF InputShape, InputNext, Over, Handles, Beneath, Operations, Adds,
     Answers
<1>7. MainShape' /\ TimerShape' /\ OnlyMainNests'
  <2>1. Elems(input) = {"read"}
    BY <1>2, <1>4, <1>5 DEF Seen
  <2> QED BY <1>2, <1>3, <1>4, <1>5, <2>1 DEF MainShape, NextOfMain, TimerShape, OnlyMainNests,
     Pushed
<1>8. Tops' /\ Covers'
  BY <1>6, <1>7, TopsKnown, CoversKnown, PTL
<1>9. NestShape' /\ JoinsClosed' /\ InputGone' /\ ConnectsClosed' /\ HolderCloses'
  BY <1>1, <1>2, <1>3, <1>4, <1>5, <1>8 DEF NestShape, Nested, Alive, JoinsClosed, InputGone,
     Closing, ConnectsClosed, HolderCloses, Tops, Locks, Answers, Seen, Pushed
<1>10. FirstLife' /\ NoFaultFirst' /\ NoFaultPolled'
  BY <1>1, <1>2, <1>3, <1>4, <1>5 DEF FirstLife, AskSent, AskAnswered, BufferAsks, Simple,
     NoFaultFirst, Calm, Closing, Receiver, NoFaultPolled, InputWaits, Answers, Removed, Queues,
     Seen, Pushed
<1>11. MainCalm' /\ MainReconnects' /\ MainOpens'
  BY <1>1, <1>2, <1>3, <1>4, <1>5, <1>8 DEF ConnectsClosed, MainCalm, MainGoesOn, Second1, First1,
     Calm, Closing, AskSent, AskAnswered, BufferAsks, Simple, Alone, MainReconnects, MainOpens,
     Covers, Covered, Handles, Answers, Removed, Queues, Seen, Pushed
<1>12. SetupCalm' /\ OneAsks' /\ Coming' /\ ChallengeComing'
  BY <1>1, <1>2, <1>3, <1>4, <1>5 DEF SetupCalm, SetsUp, Receiver, Nested, OneAsks, InputAsks,
     QueueAsks, BufferAsks, AskSent, AskAnswered, Coming, Nets, ChallengeComing, FirstAsked, Adds,
     Over, Beneath, Operations, HandlingNext, Answers, Removed, Queues, Seen, Pushed
<1>13. BothBusy' /\ TimerPolls' /\ TimerReopens' /\ TimerCalm'
  BY <1>1, <1>2, <1>3, <1>4, <1>5 DEF ConnectsClosed, BothBusy, Nets, Alone, TimerAsks, TimerPolls,
     Fired, AfterSetup, NoHarm, Reopens, Calm, Closing, First1, AskSent, AskAnswered, Simple,
     BufferAsks, Alive, TimerReopens, TimerCalm, TimerSetsUp, OldAsks, FirstAsked, Answers, Removed,
     Queues, Seen, Pushed
<1>14. StatusTold' /\ ConnectedTold' /\ MineWaits' /\ NothingAsked'
  BY <1>1, <1>2, <1>3, <1>4, <1>5, <1>8 DEF TimerPolls, TimerAsks, Alone, Fired, AfterSetup, NoHarm,
     Reopens, Nets, Calm, Closing, First1, AskSent, AskAnswered, Simple, BufferAsks, Alive,
     StatusTold, Told, ConnectedTold, MineWaits, NothingAsked, Covers, Covered, Handles, Answers,
     Removed, Queues, Seen, Pushed
<1> QED BY <1>6, <1>7, <1>9, <1>10, <1>11, <1>12, <1>13, <1>14

\* thread_input is refused a datagram, and closes the link.
LEMMA ReadRefusedInput ==
  ASSUME Sound, Good, Live, Sound', Live', ReadRefused
  PROVE  Good'
<1>1. /\ Tops /\ Covers /\ Unstuck /\ Locks /\ Queues /\ TypeOK
      /\ Unstuck' /\ Locks' /\ Queues' /\ TypeOK' /\ faults \in {0, 1} /\ faults' \in {0, 1}
  BY AllKnown
<1> USE DEF Good, Live
<1>2. /\ input # <<>> /\ Top(input) = "read" /\ main' = main /\ timer' = timer
      /\ ~Nested
      /\ open /\ faults = 0 /\ faults' = 1 /\ Goes1(input, input', "close")
  <2>1. input # <<>> /\ Top(input) = "read" /\ input \in Seq(Operations)
    BY <1>1, AtTop DEF ReadRefused, ReadScheduled, TypeOK, Threads, input
  <2>2. Tail(input) = <<>>
    BY <1>1, <2>1, AloneTail DEF Tops
  <2>4. ~Nested
    BY <1>1, Reading DEF ReadRefused, Nested
  <2>3. Do("input", <<"close">>)
    BY <2>2, CloseAlone DEF ReadRefused, Do, input
  <2> QED BY Zenon, <1>1, <2>1, <2>3, <2>4, InputGoes, OneFault DEF ReadRefused, Operations
<1>3. UNCHANGED <<secure, status, open, polling, told, emutex, buffer, toServer, toBot>>
  BY DEF ReadRefused, Same, SameLink, linkVars, SameEngine, engineVars, SameNet, netVars, SameWorld,
     worldVars
<1>4. /\ <<Top(input), Second(input)>> \in InputNext
      /\ Second(input) \in {"end"}
      /\ "disconnect" \notin Below(input) /\ Below(input) \subseteq {}
  <2>1. Follows(input, InputNext) /\ "disconnect" \notin Below(input)
    BY <1>1, <1>2 DEF Tops, OnlyMainNests
  <2>2. Second(input) \in {"end"}
    BY <1>2, <2>1 DEF Follows, InputNext
  <2>3. "disconnect" \notin Below(input) /\ Below(input) \subseteq {}
    BY <1>1, <1>2, <2>1, Zenon DEF Tops, Follows, Over, Beneath, Handles, Seen
  <2> QED BY <1>2, <2>1, <2>2, <2>3 DEF Follows
<1>5. /\ Seen(main) /\ Seen(timer) /\ Seen(input) /\ Seen(input')
      /\ open /\ faults = 0 /\ faults' = 1 /\ Becomes(input, input', "close")
  BY <1>1, <1>2 DEF Tops, Goes1
<1>6. InputShape'
  BY <1>2, <1>3, <1>4 DEF InputShape, InputNext, Over, Handles, Beneath, Operations, Goes1
<1>7. MainShape' /\ TimerShape' /\ OnlyMainNests'
  BY <1>2, <1>3, <1>4, <1>5 DEF MainShape, NextOfMain, TimerShape, OnlyMainNests, Becomes
<1>8. Tops' /\ Covers'
  BY <1>6, <1>7, TopsKnown, CoversKnown, PTL
<1>9. NestShape' /\ JoinsClosed' /\ InputGone' /\ ConnectsClosed' /\ HolderCloses'
  BY <1>1, <1>2, <1>3, <1>4, <1>5, <1>8 DEF NestShape, Nested, Alive, JoinsClosed, InputGone,
     Closing, ConnectsClosed, HolderCloses, Tops, Locks, Seen, Becomes
<1>10. FirstLife' /\ NoFaultFirst' /\ NoFaultPolled'
  BY <1>1, <1>2, <1>3, <1>4, <1>5 DEF FirstLife, AskSent, AskAnswered, BufferAsks, Simple,
     NoFaultFirst, Calm, Closing, Receiver, NoFaultPolled, InputWaits, Seen, Becomes
<1>11. MainCalm' /\ MainReconnects' /\ MainOpens'
  BY <1>1, <1>2, <1>3, <1>4, <1>5 DEF ConnectsClosed, FirstLife, AskSent, AskAnswered, BufferAsks,
     Simple, NoFaultPolled, Calm, Closing, InputWaits, MainCalm, MainGoesOn, Second1, First1, Alone,
     MainReconnects, MainOpens, Seen, Becomes
<1>12. SetupCalm' /\ OneAsks' /\ Coming' /\ ChallengeComing'
  BY <1>1, <1>2, <1>3, <1>4, <1>5 DEF NoFaultPolled, Calm, Closing, InputWaits, SetupCalm, SetsUp,
     Receiver, Nested, OneAsks, InputAsks, QueueAsks, BufferAsks, AskSent, AskAnswered, Coming,
     Nets, ChallengeComing, FirstAsked, Goes1, Over, Beneath, Operations, HandlingNext, Seen,
     Becomes
<1>13. BothBusy' /\ TimerPolls' /\ TimerReopens' /\ TimerCalm'
  BY <1>1, <1>2, <1>3, <1>4, <1>5 DEF FirstLife, AskSent, AskAnswered, BufferAsks, Simple,
     NoFaultPolled, Calm, Closing, InputWaits, BothBusy, Nets, Alone, TimerAsks, TimerPolls, Fired,
     AfterSetup, NoHarm, Reopens, First1, Alive, TimerReopens, TimerCalm, TimerSetsUp, OldAsks,
     FirstAsked, Seen, Becomes
<1>14. StatusTold' /\ ConnectedTold' /\ MineWaits' /\ NothingAsked'
  BY <1>1, <1>2, <1>3, <1>4, <1>5 DEF StatusTold, Closing, Told, ConnectedTold, MineWaits,
     NothingAsked, Nets, Alone, Seen, Becomes
<1> QED BY <1>6, <1>7, <1>9, <1>10, <1>11, <1>12, <1>13, <1>14

\* The read of thread_input ends because the socket was closed.
LEMMA ReadCancelledInput ==
  ASSUME Sound, Good, Live, Sound', Live', ReadCancelled
  PROVE  Good'
<1>1. /\ Tops /\ Covers /\ Unstuck /\ Locks /\ Queues /\ TypeOK
      /\ Unstuck' /\ Locks' /\ Queues' /\ TypeOK' /\ faults \in {0, 1} /\ faults' \in {0, 1}
  BY AllKnown
<1> USE DEF Good, Live
<1>2. /\ input # <<>> /\ Top(input) = "read" /\ main' = main /\ timer' = timer
      /\ ~open
      /\ \/ Goes0(input, input')
         \/ Goes1(input, input', "close")
  <2>1. input # <<>> /\ Top(input) = "read" /\ input \in Seq(Operations)
    BY <1>1, AtTop DEF ReadCancelled, TypeOK, Threads, input
  <2>2. Tail(input) = <<>>
    BY <1>1, <2>1, AloneTail DEF Tops
  <2>3. Do("input", <<>>) \/ Do("input", <<"close">>)
    BY <2>2, CloseAlone DEF ReadCancelled, Do, input
  <2> QED BY Zenon, <1>1, <2>1, <2>3, InputGoes DEF ReadCancelled, Operations
<1>3. UNCHANGED <<secure, status, open, polling, told, emutex, buffer, toServer, toBot, faults>>
  BY DEF ReadCancelled, Same, SameLink, linkVars, SameEngine, engineVars, SameNet, netVars,
     SameWorld, worldVars
<1>4. /\ <<Top(input), Second(input)>> \in InputNext
      /\ Second(input) \in {"end"}
      /\ "disconnect" \notin Below(input) /\ Below(input) \subseteq {}
  <2>1. Follows(input, InputNext) /\ "disconnect" \notin Below(input)
    BY <1>1, <1>2 DEF Tops, OnlyMainNests
  <2>2. Second(input) \in {"end"}
    BY <1>2, <2>1 DEF Follows, InputNext
  <2>3. "disconnect" \notin Below(input) /\ Below(input) \subseteq {}
    BY <1>1, <1>2, <2>1, Zenon DEF Tops, Follows, Over, Beneath, Handles, Seen
  <2> QED BY <1>2, <2>1, <2>2, <2>3 DEF Follows
<1>5. /\ Seen(main) /\ Seen(timer) /\ Seen(input) /\ Seen(input')
      /\ \/ Popped(input, input')
         \/ Becomes(input, input', "close")
  BY <1>1, <1>2 DEF Tops, Goes0, Goes1
<1>6. InputShape'
  BY <1>2, <1>3, <1>4 DEF InputShape, InputNext, Over, Handles, Beneath, Operations, Goes0, Goes1
<1>7. MainShape' /\ TimerShape' /\ OnlyMainNests'
  BY <1>2, <1>3, <1>4, <1>5 DEF MainShape, NextOfMain, TimerShape, OnlyMainNests, Becomes, Popped
<1>8. Tops' /\ Covers'
  BY <1>6, <1>7, TopsKnown, CoversKnown, PTL
<1>9. NestShape' /\ JoinsClosed' /\ InputGone' /\ ConnectsClosed' /\ HolderCloses'
  BY <1>1, <1>2, <1>3, <1>4, <1>5, <1>8 DEF NestShape, Nested, Alive, JoinsClosed, InputGone,
     Closing, ConnectsClosed, HolderCloses, Tops, Locks, Seen, Becomes, Popped
<1>10. FirstLife' /\ NoFaultFirst' /\ NoFaultPolled'
  BY <1>1, <1>2, <1>3, <1>4, <1>5 DEF FirstLife, AskSent, AskAnswered, BufferAsks, Simple,
     NoFaultFirst, Calm, Closing, Receiver, NoFaultPolled, InputWaits, TimerReopens, Covers,
     Covered, Seen, Becomes, Popped
<1>11. MainCalm' /\ MainReconnects' /\ MainOpens'
  BY <1>1, <1>2, <1>3, <1>4, <1>5 DEF MainCalm, MainGoesOn, Second1, First1, Calm, Closing, AskSent,
     AskAnswered, BufferAsks, Simple, Alone, MainReconnects, MainOpens, Seen, Becomes, Popped
<1>12. SetupCalm' /\ OneAsks' /\ Coming' /\ ChallengeComing'
  BY <1>1, <1>2, <1>3, <1>4, <1>5 DEF SetupCalm, SetsUp, Receiver, Nested, OneAsks, InputAsks,
     QueueAsks, BufferAsks, AskSent, AskAnswered, Coming, Nets, ChallengeComing, FirstAsked, Goes0,
     Goes1, Over, Beneath, Operations, HandlingNext, Seen, Becomes, Popped
<1>13. BothBusy' /\ TimerPolls' /\ TimerReopens' /\ TimerCalm'
  BY <1>1, <1>2, <1>3, <1>4, <1>5 DEF BothBusy, Nets, Alone, TimerAsks, TimerPolls, Fired,
     AfterSetup, NoHarm, Reopens, Calm, Closing, First1, AskSent, AskAnswered, Simple, BufferAsks,
     Alive, TimerReopens, TimerCalm, TimerSetsUp, OldAsks, FirstAsked, Unstuck, Leaves, Closes,
     Seen, Becomes, Popped
<1>14. StatusTold' /\ ConnectedTold' /\ MineWaits' /\ NothingAsked'
  BY <1>1, <1>2, <1>3, <1>4, <1>5 DEF StatusTold, Closing, Told, ConnectedTold, MineWaits,
     NothingAsked, Nets, Alone, Seen, Becomes, Popped
<1> QED BY <1>6, <1>7, <1>9, <1>10, <1>11, <1>12, <1>13, <1>14

-----------------------------------------------------------------------------
(* The first connection: the server and the network *)

\* The server answers a command.
LEMMA ServerAnswering ==
  ASSUME Sound, Good, Live, Sound', Live', ServerAnswers
  PROVE  Good'
<1>1. /\ Tops /\ Covers /\ Unstuck /\ Locks /\ Queues /\ TypeOK
      /\ Unstuck' /\ Locks' /\ Queues' /\ TypeOK' /\ faults \in {0, 1} /\ faults' \in {0, 1}
  BY AllKnown
<1> USE DEF Good, Live
<1>2. main' = main /\ timer' = timer /\ input' = input
      /\ Removed(toServer, toServer', {"ask"})
      /\ \/ ~open /\ toBot' = toBot
         \/ open /\ Head(toServer) = "getchallenge" /\
              Added(toBot, toBot', "challenge", {"mine", "others"})
         \/ open /\ Head(toServer) = "ask" /\ Added(toBot, toBot', "mine", {"mine", "others"})
         \/ open /\ Head(toServer) = "ask" /\ Added(toBot, toBot', "others", {"mine", "others"})
         \/ open /\ Head(toServer) \notin {"ask", "getchallenge"} /\
              Added(toBot, toBot', "ack", {"mine", "others"})
  <2>1. Removed(toServer, toServer', {"ask"}) /\ Head(toServer) \in Commands \cup {"getchallenge"}
    BY <1>1, Arrived DEF ServerAnswers
  <2>2. PICK c : c = Answer(Head(toServer))
    OBVIOUS
  <2>3. /\ Head(toServer) = "getchallenge" => c = "challenge"
        /\ Head(toServer) = "ask" => c = "mine" \/ c = "others"
        /\ Head(toServer) \notin {"ask", "getchallenge"} => c = "ack"
    BY <2>2 DEF Answer
  <2>4. open => Added(toBot, toBot', c, {"mine", "others"})
    <3>1. c \in Answers
      BY <2>1, <2>3 DEF Answers, Commands
    <3> QED BY <1>1, <2>2, <3>1, Answered DEF ServerAnswers
  <2>5. main' = main /\ timer' = timer /\ input' = input /\ (~open => toBot' = toBot)
    BY DEF ServerAnswers, main, timer, input
  <2>6. CASE ~open
    BY <2>1, <2>5, <2>6
  <2>7. CASE open
    BY <2>1, <2>3, <2>4, <2>5, <2>7
  <2> QED BY <2>6, <2>7
<1>3. UNCHANGED <<secure, status, open, polling, told, emutex, buffer, faults>>
  BY DEF ServerAnswers, Fault, SameLink, linkVars, SameEngine, engineVars, SameWorld, worldVars
<1>4. Seen(main) /\ Seen(timer) /\ Seen(input)
  BY <1>1 DEF Tops
<1>5. MainShape' /\ TimerShape' /\ InputShape' /\ OnlyMainNests'
  BY <1>2, <1>3 DEF MainShape, NextOfMain, TimerShape, InputShape, OnlyMainNests
<1>6. Tops' /\ Covers'
  BY <1>5, <1>5, TopsKnown, CoversKnown, PTL
<1>7. NestShape' /\ JoinsClosed' /\ InputGone' /\ ConnectsClosed' /\ HolderCloses'
  BY <1>1, <1>2, <1>3, <1>4, <1>6 DEF NestShape, Nested, Alive, JoinsClosed, InputGone, Closing,
     ConnectsClosed, HolderCloses, Tops, Locks, Queues, Seen
<1>8. FirstLife' /\ NoFaultFirst' /\ NoFaultPolled'
  BY <1>1, <1>2, <1>3, <1>4 DEF FirstLife, AskSent, AskAnswered, BufferAsks, Simple, NoFaultFirst,
     Calm, Closing, Receiver, NoFaultPolled, InputWaits, Queues, Added, Removed, Answers, Seen
<1>9. MainCalm' /\ MainReconnects' /\ MainOpens'
  BY <1>1, <1>2, <1>3, <1>4 DEF MainCalm, MainGoesOn, Second1, First1, Calm, Closing, AskSent,
     AskAnswered, BufferAsks, Simple, Alone, MainReconnects, MainOpens, Queues, Added, Removed,
     Answers, Seen
<1>10. SetupCalm' /\ OneAsks' /\ Coming' /\ ChallengeComing'
  BY <1>1, <1>2, <1>3, <1>4 DEF SetupCalm, SetsUp, Receiver, Nested, OneAsks, InputAsks, QueueAsks,
     BufferAsks, AskSent, AskAnswered, Coming, Nets, ChallengeComing, FirstAsked, Unstuck, Leaves,
     Closes, Queues, Added, Removed, Answers, Seen
<1>11. BothBusy' /\ TimerPolls' /\ TimerReopens' /\ TimerCalm'
  BY <1>1, <1>2, <1>3, <1>4 DEF BothBusy, Nets, Alone, TimerAsks, TimerPolls, Fired, AfterSetup,
     NoHarm, Reopens, Calm, Closing, First1, AskSent, AskAnswered, Simple, BufferAsks, Alive,
     TimerReopens, TimerCalm, TimerSetsUp, OldAsks, FirstAsked, Queues, Added, Removed, Answers,
     Seen
<1>12. StatusTold' /\ ConnectedTold' /\ MineWaits' /\ NothingAsked'
  BY <1>1, <1>2, <1>3, <1>4 DEF StatusTold, Closing, Told, ConnectedTold, MineWaits, NothingAsked,
     Nets, Alone, Queues, Added, Removed, Answers, Seen
<1> QED BY <1>5, <1>5, <1>7, <1>8, <1>9, <1>10, <1>11, <1>12

\* A datagram to the server is lost.
LEMMA LoseServer ==
  ASSUME Sound, Good, Live, Sound', Live', Lose, toServer # <<>>, toServer' = Tail(toServer),
         toBot' = toBot
  PROVE  Good'
<1>1. /\ Tops /\ Covers /\ Unstuck /\ Locks /\ Queues /\ TypeOK
      /\ Unstuck' /\ Locks' /\ Queues' /\ TypeOK' /\ faults \in {0, 1} /\ faults' \in {0, 1}
  BY AllKnown
<1> USE DEF Good, Live
<1>2. main' = main /\ timer' = timer /\ input' = input
      /\ Removed(toServer, toServer', {"ask"})
      /\ faults = 0 /\ faults' = 1
      /\ toBot' = toBot
  BY <1>1, Arrived, OneFault DEF Lose, main, timer, input
<1>3. UNCHANGED <<secure, status, open, polling, told, emutex, buffer, toBot>>
  BY DEF Lose, Fault, SameLink, linkVars, SameEngine, engineVars, SameWorld, worldVars
<1>4. Seen(main) /\ Seen(timer) /\ Seen(input)
  BY <1>1 DEF Tops
<1>5. MainShape' /\ TimerShape' /\ InputShape' /\ OnlyMainNests'
  BY <1>2, <1>3 DEF MainShape, NextOfMain, TimerShape, InputShape, OnlyMainNests
<1>6. Tops' /\ Covers'
  BY <1>5, <1>5, TopsKnown, CoversKnown, PTL
<1>7. NestShape' /\ JoinsClosed' /\ InputGone' /\ ConnectsClosed' /\ HolderCloses'
  BY <1>1, <1>2, <1>3, <1>4, <1>6 DEF NestShape, Nested, Alive, JoinsClosed, InputGone, Closing,
     ConnectsClosed, HolderCloses, Tops, Locks, Queues, Seen
<1>8. FirstLife' /\ NoFaultFirst' /\ NoFaultPolled'
  BY <1>1, <1>2, <1>3, <1>4 DEF FirstLife, AskSent, AskAnswered, BufferAsks, Simple, NoFaultFirst,
     Calm, Closing, Receiver, NoFaultPolled, InputWaits, Queues, Removed, Seen
<1>9. MainCalm' /\ MainReconnects' /\ MainOpens'
  BY <1>1, <1>2, <1>3, <1>4 DEF NoFaultPolled, Calm, Closing, InputWaits, MainCalm, MainGoesOn,
     Second1, First1, AskSent, AskAnswered, BufferAsks, Simple, Alone, MainReconnects, MainOpens,
     BothBusy, Nets, TimerAsks, Queues, Removed, Seen
<1>10. ChallengeComing'
  <2>1. ~SetsUp
    <3>1. polling => Elems(main) \subseteq {"request", "checking", "ask", "getchallenge"}
      BY <1>2 DEF NoFaultPolled
    <3>2. Receiver => \E op \in {"update", "set", "wait", "sync", "receiving", "others", "mine"} :
                        op \in Elems(main)
      BY <1>4 DEF Receiver, Seen
    <3> QED BY <3>1, <3>2 DEF SetsUp
  <2> QED BY <1>2, <1>3, <2>1 DEF ChallengeComing, SetsUp, Receiver, Nested
<1>11. SetupCalm' /\ OneAsks' /\ Coming'
  BY <1>1, <1>2, <1>3, <1>4 DEF FirstLife, AskSent, AskAnswered, BufferAsks, Simple, NoFaultPolled,
     Calm, Closing, InputWaits, SetupCalm, SetsUp, Receiver, Nested, OneAsks, InputAsks, QueueAsks,
     Coming, Nets, Queues, Removed, Seen
<1>12. BothBusy' /\ TimerPolls' /\ TimerReopens' /\ TimerCalm'
  BY <1>1, <1>2, <1>3, <1>4 DEF BothBusy, Nets, Alone, TimerAsks, TimerPolls, Fired, AfterSetup,
     NoHarm, Reopens, Calm, Closing, First1, AskSent, AskAnswered, Simple, BufferAsks, Alive,
     TimerReopens, TimerCalm, TimerSetsUp, OldAsks, FirstAsked, Queues, Removed, Seen
<1>13. StatusTold' /\ ConnectedTold' /\ MineWaits' /\ NothingAsked'
  BY <1>1, <1>2, <1>3, <1>4 DEF StatusTold, Closing, Told, ConnectedTold, MineWaits, NothingAsked,
     Nets, Alone, Queues, Removed, Seen
<1> QED BY <1>5, <1>5, <1>7, <1>8, <1>9, <1>10, <1>11, <1>12, <1>13

\* A datagram to the bot is lost.
LEMMA LoseBot ==
  ASSUME Sound, Good, Live, Sound', Live', Lose, toBot # <<>>, toBot' = Tail(toBot),
         toServer' = toServer
  PROVE  Good'
<1>1. /\ Tops /\ Covers /\ Unstuck /\ Locks /\ Queues /\ TypeOK
      /\ Unstuck' /\ Locks' /\ Queues' /\ TypeOK' /\ faults \in {0, 1} /\ faults' \in {0, 1}
  BY AllKnown
<1> USE DEF Good, Live
<1>2. main' = main /\ timer' = timer /\ input' = input
      /\ Removed(toBot, toBot', {"mine", "others"})
      /\ faults = 0 /\ faults' = 1
      /\ toServer' = toServer
  BY <1>1, Received, OneFault DEF Lose, main, timer, input
<1>3. UNCHANGED <<secure, status, open, polling, told, emutex, buffer, toServer>>
  BY DEF Lose, Fault, SameLink, linkVars, SameEngine, engineVars, SameWorld, worldVars
<1>4. Seen(main) /\ Seen(timer) /\ Seen(input)
  BY <1>1 DEF Tops
<1>5. MainShape' /\ TimerShape' /\ InputShape' /\ OnlyMainNests'
  BY <1>2, <1>3 DEF MainShape, NextOfMain, TimerShape, InputShape, OnlyMainNests
<1>6. Tops' /\ Covers'
  BY <1>5, <1>5, TopsKnown, CoversKnown, PTL
<1>7. NestShape' /\ JoinsClosed' /\ InputGone' /\ ConnectsClosed' /\ HolderCloses'
  BY <1>1, <1>2, <1>3, <1>4, <1>6 DEF NestShape, Nested, Alive, JoinsClosed, InputGone, Closing,
     ConnectsClosed, HolderCloses, Tops, Locks, Queues, Seen
<1>8. FirstLife' /\ NoFaultFirst' /\ NoFaultPolled'
  BY <1>1, <1>2, <1>3, <1>4 DEF FirstLife, AskSent, AskAnswered, BufferAsks, Simple, NoFaultFirst,
     Calm, Closing, Receiver, NoFaultPolled, InputWaits, Queues, Removed, Seen
<1>9. MainCalm' /\ MainReconnects' /\ MainOpens'
  BY <1>1, <1>2, <1>3, <1>4 DEF NoFaultPolled, Calm, Closing, InputWaits, MainCalm, MainGoesOn,
     Second1, First1, AskSent, AskAnswered, BufferAsks, Simple, Alone, MainReconnects, MainOpens,
     BothBusy, Nets, TimerAsks, Queues, Removed, Seen
<1>10. ChallengeComing'
  <2>1. ~SetsUp
    <3>1. polling => Elems(main) \subseteq {"request", "checking", "ask", "getchallenge"}
      BY <1>2 DEF NoFaultPolled
    <3>2. Receiver => \E op \in {"update", "set", "wait", "sync", "receiving", "others", "mine"} :
                        op \in Elems(main)
      BY <1>4 DEF Receiver, Seen
    <3> QED BY <3>1, <3>2 DEF SetsUp
  <2> QED BY <1>2, <1>3, <2>1 DEF ChallengeComing, SetsUp, Receiver, Nested
<1>11. SetupCalm' /\ OneAsks' /\ Coming'
  BY <1>1, <1>2, <1>3, <1>4 DEF FirstLife, AskSent, AskAnswered, BufferAsks, Simple, NoFaultPolled,
     Calm, Closing, InputWaits, SetupCalm, SetsUp, Receiver, Nested, OneAsks, InputAsks, QueueAsks,
     Coming, Nets, Queues, Removed, Seen
<1>12. BothBusy' /\ TimerPolls' /\ TimerReopens' /\ TimerCalm'
  BY <1>1, <1>2, <1>3, <1>4 DEF BothBusy, Nets, Alone, TimerAsks, TimerPolls, Fired, AfterSetup,
     NoHarm, Reopens, Calm, Closing, First1, AskSent, AskAnswered, Simple, BufferAsks, Alive,
     TimerReopens, TimerCalm, TimerSetsUp, OldAsks, FirstAsked, Queues, Removed, Seen
<1>13. StatusTold' /\ ConnectedTold' /\ MineWaits' /\ NothingAsked'
  BY <1>1, <1>2, <1>3, <1>4 DEF StatusTold, Closing, Told, ConnectedTold, MineWaits, NothingAsked,
     Nets, Alone, Queues, Removed, Seen
<1> QED BY <1>5, <1>5, <1>7, <1>8, <1>9, <1>10, <1>11, <1>12, <1>13

-----------------------------------------------------------------------------
\* Good tells nothing of the server's log_dest_udp, nor of who has set it.
LEMMA Unchanged ==
  ASSUME Good,
         UNCHANGED <<secure, todo, status, open, polling, told, emutex, buffer, toServer, toBot,
           faults>>
  PROVE  Good'
<1>1. main' = main /\ timer' = timer /\ input' = input
  BY DEF main, timer, input
<1>2. /\ MainShape' /\ InputShape' /\ TimerShape' /\ OnlyMainNests' /\ NestShape'
      /\ JoinsClosed' /\ InputGone' /\ ConnectsClosed' /\ HolderCloses'
  BY <1>1 DEF Good, MainShape, NextOfMain, InputShape, TimerShape, OnlyMainNests, NestShape, Nested,
     JoinsClosed, InputGone, Closing, ConnectsClosed, HolderCloses
<1>3. FirstLife' /\ NoFaultFirst' /\ NoFaultPolled' /\ MainCalm' /\ MainReconnects' /\ MainOpens'
  BY <1>1 DEF Good, FirstLife, NoFaultFirst, NoFaultPolled, MainCalm, MainReconnects, MainOpens,
     MainGoesOn, Second1, First1, AskSent, AskAnswered, BufferAsks, Receiver, InputWaits, Calm,
     Closing
<1>4. SetupCalm' /\ OneAsks' /\ Coming' /\ ChallengeComing'
  BY <1>1 DEF Good, SetupCalm, OneAsks, Coming, ChallengeComing, SetsUp, Receiver, Nested,
     InputAsks, QueueAsks, AskSent, AskAnswered, BufferAsks, Nets, FirstAsked
<1>5. BothBusy' /\ TimerPolls' /\ TimerReopens' /\ TimerCalm'
  BY <1>1 DEF Good, BothBusy, TimerPolls, TimerReopens, TimerCalm, TimerAsks, TimerSetsUp, Nets,
     Fired, Reopens, NoHarm, AfterSetup, First1, Calm, Closing, AskSent, AskAnswered, BufferAsks,
     OldAsks, FirstAsked
<1>6. StatusTold' /\ ConnectedTold' /\ MineWaits' /\ NothingAsked'
  BY <1>1 DEF Good, StatusTold, ConnectedTold, MineWaits, NothingAsked, Closing, Told, Nets
<1> QED BY <1>2, <1>3, <1>4, <1>5, <1>6 DEF Good

\* What no thread does while main has connected the link once.
LEMMA NotLive ==
  ASSUME Sound, Good, Live, Sound', Live', NEW t \in Threads
  PROVE  ~OpenCrashes(t) /\ ~JoinCrashes(t) /\ ~OpenSocket("input") /\ ~IoPoll("input") /\ ~Bye
         /\ ~MainDisconnects /\ ~MainConnects
<1>1. Unstuck /\ Unstuck' /\ Tops
  BY AllKnown
<1>2. ~OpenCrashes(t) /\ ~JoinCrashes(t)
  BY <1>1 DEF OpenCrashes, JoinCrashes, Unstuck
<1>3. ~OpenSocket("input") /\ ~IoPoll("input")
  BY DEF OpenSocket, AsioInUse, Idle, At, IoPoll
<1>4. ~Bye
  <2>1. main # <<>> => Top(main) # "bye"
    <3>1. main # <<>> => main \in Failing \/ <<Top(main), Second(main)>> \in NextOfMain
      BY <1>1 DEF Tops, Follows
    <3>2. main \in Failing => Top(main) \in {"close", "closed"}
      BY <1>1 DEF Tops
    <3> QED BY <3>1, <3>2 DEF NextOfMain, MainNext, FirstNext
  <2> QED BY <2>1, AtTop DEF Bye, main
<1>5. calls = 1 /\ calls' = 1
  BY DEF Live
<1>6. ~MainDisconnects /\ ~MainConnects
  BY <1>5 DEF MainDisconnects, MainConnects, Call
<1> QED BY <1>2, <1>3, <1>4, <1>6

\* The steps of main.
LEMMA MainKeepsGood ==
  ASSUME Sound, Good, Live, Sound', Live',
         Step("main") \/ OpenFails("main") \/ SyncRefused("main") \/ ChallengeLate("main")
  PROVE  Good'
<1>1. "main" \in Threads
  BY DEF Threads
<1>2. CASE Challenge("main")
  BY <1>2, Challenges, ChallengeSendsMain, ChallengeRefusedMain
<1>3. CASE GetChallenge("main")
  BY <1>3, GetChallengeAsksMain, GetChallengeIdleMain
<1>4. CASE OpenFails("main") \/ SyncRefused("main") \/ ChallengeLate("main")
  BY <1>4, OpenFailsMain, SyncRefusedMain, ChallengeLateMain
<1>5. CASE \/ Connect("main") \/ OpenAlready("main") \/ OpenCrashes("main") \/ OpenSocket("main")
           \/ Update("main") \/ Wait("main") \/ Updated("main") \/ Request("main") \/ Checking("main")
  BY <1>1, <1>5, NotLive, ConnectMain, OpenAlreadyMain, OpenSocketMain, UpdateMain, WaitMain,
     UpdatedMain, RequestMain, CheckingMain
<1>6. CASE \/ CommandDropped("main") \/ CommandSent("main") \/ CommandScheduled("main")
           \/ CommandFails("main") \/ GetChallengeFails("main") \/ Release("main")
           \/ Sync("main") \/ SyncReceives("main")
  BY <1>6, CommandDroppedMain, CommandSentMain, CommandScheduledMain, CommandFailsMain,
     GetChallengeFailsMain, ReleaseMain, SyncMain, SyncReceivesMain
<1>7. CASE \/ ChallengeUnused("main") \/ HandleDest("main") \/ Connected("main") \/ Announce("main")
           \/ Close("main") \/ Closed("main") \/ IoPoll("main") \/ IoClose("main") \/ Clear("main")
           \/ JoinCrashes("main")
  BY <1>1, <1>7, NotLive, ChallengeUnusedMain, HandleDestMain, ConnectedMain, AnnounceMain,
     CloseMain, ClosedMain, IoPollMain, IoCloseMain, ClearMain
<1> QED BY <1>2, <1>3, <1>4, <1>5, <1>6, <1>7 DEF Step

\* The steps of the poll.
LEMMA TimerKeepsGood ==
  ASSUME Sound, Good, Live, Sound', Live',
         Step("timer") \/ OpenFails("timer") \/ SyncRefused("timer") \/ ChallengeLate("timer")
  PROVE  Good'
<1>1. "timer" \in Threads
  BY DEF Threads
<1>2. CASE Challenge("timer")
  BY <1>2, Challenges, ChallengeSendsTimer, ChallengeRefusedTimer
<1>3. CASE GetChallenge("timer")
  BY <1>3, GetChallengeAsksTimer, GetChallengeIdleTimer
<1>4. CASE OpenFails("timer") \/ SyncRefused("timer") \/ ChallengeLate("timer")
  BY <1>4, OpenFailsTimer, SyncRefusedTimer, ChallengeLateTimer
<1>5. CASE \/ Connect("timer") \/ OpenAlready("timer") \/ OpenCrashes("timer") \/ OpenSocket("timer")
           \/ Update("timer") \/ Wait("timer") \/ Updated("timer") \/ Request("timer") \/
                Checking("timer")
  BY <1>1, <1>5, NotLive, ConnectTimer, OpenAlreadyTimer, OpenSocketTimer, UpdateTimer, WaitTimer,
     UpdatedTimer, RequestTimer, CheckingTimer
<1>6. CASE \/ CommandDropped("timer") \/ CommandSent("timer") \/ CommandScheduled("timer")
           \/ CommandFails("timer") \/ GetChallengeFails("timer") \/ Release("timer")
           \/ Sync("timer") \/ SyncReceives("timer")
  BY <1>6, CommandDroppedTimer, CommandSentTimer, CommandScheduledTimer, CommandFailsTimer,
     GetChallengeFailsTimer, ReleaseTimer, SyncTimer, SyncReceivesTimer
<1>7. CASE \/ ChallengeUnused("timer") \/ HandleDest("timer") \/ Connected("timer") \/ Announce("timer")
           \/ Close("timer") \/ Closed("timer") \/ IoPoll("timer") \/ IoClose("timer") \/ Clear("timer")
           \/ JoinCrashes("timer")
  BY <1>1, <1>7, NotLive, ChallengeUnusedTimer, HandleDestTimer, ConnectedTimer, AnnounceTimer,
     CloseTimer, ClosedTimer, IoPollTimer, IoCloseTimer, ClearTimer
<1> QED BY <1>2, <1>3, <1>4, <1>5, <1>6, <1>7 DEF Step

\* The steps of thread_input.
LEMMA InputKeepsGood ==
  ASSUME Sound, Good, Live, Sound', Live',
         Step("input") \/ OpenFails("input") \/ SyncRefused("input") \/ ChallengeLate("input")
  PROVE  Good'
<1>1. "input" \in Threads
  BY DEF Threads
<1>2. CASE Challenge("input")
  BY <1>2, Challenges, ChallengeSendsInput, ChallengeRefusedInput
<1>3. CASE GetChallenge("input")
  BY <1>3, GetChallengeAsksInput, GetChallengeIdleInput
<1>4. CASE OpenFails("input") \/ SyncRefused("input") \/ ChallengeLate("input")
  BY <1>4, OpenFailsInput, SyncRefusedInput, ChallengeLateInput
<1>5. CASE \/ Connect("input") \/ OpenAlready("input") \/ OpenCrashes("input") \/ OpenSocket("input")
           \/ Update("input") \/ Wait("input") \/ Updated("input") \/ Request("input") \/
                Checking("input")
  BY <1>1, <1>5, NotLive, ConnectInput, OpenAlreadyInput, UpdateInput, WaitInput, UpdatedInput,
     RequestInput, CheckingInput
<1>6. CASE \/ CommandDropped("input") \/ CommandSent("input") \/ CommandScheduled("input")
           \/ CommandFails("input") \/ GetChallengeFails("input") \/ Release("input")
           \/ Sync("input") \/ SyncReceives("input")
  BY <1>6, CommandDroppedInput, CommandSentInput, CommandScheduledInput, CommandFailsInput,
     GetChallengeFailsInput, ReleaseInput, SyncInput, SyncReceivesInput
<1>7. CASE \/ ChallengeUnused("input") \/ HandleDest("input") \/ Connected("input") \/ Announce("input")
           \/ Close("input") \/ Closed("input") \/ IoPoll("input") \/ IoClose("input") \/ Clear("input")
           \/ JoinCrashes("input")
  BY <1>1, <1>7, NotLive, ChallengeUnusedInput, HandleDestInput, ConnectedInput, AnnounceInput,
     CloseInput, ClosedInput, IoCloseInput, ClearInput
<1> QED BY <1>2, <1>3, <1>4, <1>5, <1>6, <1>7 DEF Step

\* Every step of the first connection.
LEMMA StepKeepsGood ==
  ASSUME Sound, Good, Live, Sound', Live', [Next]_vars
  PROVE  Good'
<1>1. CASE UNCHANGED vars
  BY <1>1, Unchanged DEF vars, linkVars, engineVars, netVars, worldVars
<1>2. ASSUME NEW t \in Threads, Step(t) \/ OpenFails(t) \/ SyncRefused(t) \/ ChallengeLate(t)
      PROVE  Good'
  <2>1. t \in {"main", "timer", "input"}
    BY DEF Threads
  <2> QED BY <1>2, <2>1, MainKeepsGood, TimerKeepsGood, InputKeepsGood
<1>3. Threads = {"main", "timer", "input"}
  BY DEF Threads
<1>4. CASE Bye \/ MainConnects \/ MainDisconnects
  BY <1>3, <1>4, NotLive
<1>5. CASE ReadDatagram \/ ReadCancelled \/ ReadRefused \/ TimerFires \/ ServerAnswers
  BY <1>5, ReadDatagramInput, ReadCancelledInput, ReadRefusedInput, TimerFiring, ServerAnswering
<1>6. CASE Lose
  <2>1. \/ toServer # <<>> /\ toServer' = Tail(toServer) /\ toBot' = toBot
        \/ toBot # <<>> /\ toBot' = Tail(toBot) /\ toServer' = toServer
    BY <1>6 DEF Lose
  <2> QED BY <1>6, <2>1, LoseServer, LoseBot
<1>7. CASE DestTaken
  BY <1>7, Unchanged DEF DestTaken, SameLink, linkVars, SameEngine, engineVars
<1> QED BY <1>1, <1>2, <1>3, <1>4, <1>5, <1>6, <1>7 DEF Next, Main, Timer, Input

-----------------------------------------------------------------------------
(* Before main connects the link, and when it does *)

\* At first main has not connected the link ...
LEMMA InitNotYet == Init => NotYet
BY DEF Init, NotYet

\* ... and until it does nothing happens.
LEMMA NotYetStays ==
  ASSUME NotYet, calls = 0, [Next]_vars
  PROVE  UNCHANGED vars \/ MainConnects
<1>1. \A t \in Threads : Idle(t) /\ \A op : ~At(t, op)
  BY DEF NotYet, Idle, At
<1>2. {"main", "timer", "input"} = Threads
  BY DEF Threads
<1>3. \A t \in Threads : ~OpenFails(t) /\ ~SyncRefused(t) /\ ~ChallengeLate(t) /\ ~Step(t)
  BY <1>1 DEF OpenFails, SyncRefused, ChallengeLate, Step
<1>4. ~ReadDatagram /\ ~ReadCancelled /\ ~ReadRefused /\ ~Bye
  BY <1>1, <1>2 DEF ReadDatagram, ReadCancelled, ReadRefused, ReadScheduled, Bye
<1>5. ~TimerFires /\ ~ServerAnswers /\ ~Lose
  BY DEF NotYet, TimerFires, ServerAnswers, Lose
<1>6. ~MainDisconnects
  BY DEF MainDisconnects, Wanted
<1>7. ~DestTaken
  BY DEF NotYet, DestTaken
<1> QED BY <1>2, <1>3, <1>4, <1>5, <1>6, <1>7 DEF Next, Main, Timer, Input

\* Main calls connect(), and nothing else is going on.
LEMMA FirstCall ==
  ASSUME Sound, NotYet, calls = 0, MainConnects
  PROVE  Good' /\ calls' = 1
<1>0. calls' = 1
  BY DEF MainConnects, Call
<1>1. /\ todo' = [todo EXCEPT !["main"] = <<"connect">>] /\ todo \in [Threads -> Seq(Operations)]
      /\ todo["main"] = <<>> /\ todo["timer"] = <<>> /\ todo["input"] = <<>>
  BY DEF Sound, TypeOK, NotYet, MainConnects, Threads
<1>2. timer' = <<>> /\ input' = <<>> /\ main' = <<"connect">>
  BY <1>1 DEF Threads, main, timer, input
<1>3. /\ Top(main') = "connect" /\ Second(main') = "end" /\ Below(main') = {} /\
           Elems(main') = {"connect"}
      /\ Top(timer') = "end" /\ Second(timer') = "end" /\ Elems(timer') = {} /\ Below(timer') = {}
      /\ Top(input') = "end" /\ Second(input') = "end" /\ Elems(input') = {} /\ Below(input') = {}
  <2>1. main' # <<>> /\ Tail(main') = <<>> /\ Head(main') = "connect"
    BY <1>2
  <2>2. Elems(<<>>) = {} /\ Elems(main') = {"connect"}
    BY <1>2 DEF Elems
  <2> QED BY <1>2, <2>1, <2>2 DEF Top, Second, Rest, Below
<1>4. /\ status' = "DISCONNECTED" /\ ~open' /\ ~polling' /\ emutex' = "free" /\ faults' = 0
      /\ buffer' = <<>> /\ toServer' = <<>> /\ toBot' = <<>>
  BY DEF NotYet, MainConnects, Call, Same, SameLink, linkVars, SameEngine, engineVars, SameNet,
     netVars
<1>5. MainShape' /\ InputShape' /\ TimerShape' /\ OnlyMainNests' /\ NestShape'
  <2>1. Fits(main', FirstNext) /\ \A next : Fits(<<>>, next)
    <3>1. Len(main') = 1 /\ main'[1] = "connect" /\ Len(<<>>) = 0
      BY <1>2
    <3>2. <<"connect", "end">> \in FirstNext
      BY DEF FirstNext
    <3>3. \A i \in 1..1 : i = 1 /\ {main'[j] : j \in i+1..1} = {}
      OBVIOUS
    <3>4. Over("connect", {})
      BY DEF Over
    <3> QED BY <3>1, <3>2, <3>3, <3>4 DEF Fits
  <2>2. NextOfMain' = FirstNext
    BY <1>4 DEF NextOfMain, FirstNext, MainNext
  <2> QED BY <1>2, <1>3, <2>1, <2>2 DEF MainShape, InputShape, TimerShape, OnlyMainNests, NestShape,
     Nested
<1>6. JoinsClosed' /\ InputGone' /\ ConnectsClosed' /\ HolderCloses'
  BY <1>3, <1>4 DEF JoinsClosed, InputGone, ConnectsClosed, HolderCloses
<1>7. FirstLife' /\ NoFaultFirst' /\ NoFaultPolled' /\ MainCalm' /\ MainReconnects' /\ MainOpens'
  <2>1. ~AskSent' /\ ~AskAnswered' /\ ~BufferAsks'
    BY <1>4 DEF AskSent, AskAnswered, BufferAsks, Cmds, Elems
  <2> QED BY <1>2, <1>3, <1>4, <2>1 DEF FirstLife, NoFaultFirst, NoFaultPolled, MainCalm,
     MainReconnects, MainOpens, MainGoesOn, Simple
<1>8. SetupCalm' /\ OneAsks' /\ Coming' /\ ChallengeComing'
  BY <1>3, <1>4 DEF SetupCalm, OneAsks, Coming, ChallengeComing, SetsUp, Receiver
<1>9. BothBusy' /\ TimerPolls' /\ TimerReopens' /\ TimerCalm'
  BY <1>2, <1>3 DEF BothBusy, TimerPolls, TimerReopens, TimerCalm, TimerAsks, TimerSetsUp, Alone
<1>10. StatusTold' /\ ConnectedTold' /\ MineWaits' /\ NothingAsked'
  BY <1>3, <1>4 DEF StatusTold, ConnectedTold, MineWaits, NothingAsked
<1> QED BY <1>0, <1>5, <1>6, <1>7, <1>8, <1>9, <1>10 DEF Good

-----------------------------------------------------------------------------
\* A thread that is stuck has something to do, so the link is not quiet.
LEMMA QuietNotStuck ==
  ASSUME Sound, Quiet
  PROVE  ~Stuck /\ Elems(main) = {} /\ Elems(timer) = {} /\ Elems(input) = {"read"}
<1>1. /\ main = <<>> /\ timer = <<>> /\ Top(main) = "end" /\ Top(timer) = "end" /\ Top(input) = "read"
      /\ Elems(main) = {} /\ Elems(timer) = {}
  <2>1. main = <<>> /\ timer = <<>> /\ Top(input) = "read"
    BY AtTop DEF Quiet, Idle, main, timer, input
  <2> QED BY <2>1 DEF Top, Elems
<1>2. input \in Seq(Operations) /\ input # <<>> /\ Seen(input) /\ Seen(Rest(input)) /\ Below(input) = {}
  <2>1. input \in Seq(Operations) /\ input # <<>> /\ Well(input)
    BY <1>1 DEF Sound, TypeOK, Wells, Threads, input, Top
  <2>2. Seen(input) /\ Seen(Rest(input)) /\ Rest(input) \in Seq(Operations)
    BY <2>1, SeenAlways
  <2>3. ~(\E y \in Below(input) : y \in Operations)
    BY <1>1, <2>1, AboveTop DEF Well
  <2> QED BY <2>1, <2>2, <2>3 DEF Seen
<1>3. Elems(input) = {"read"}
  BY <1>1, <1>2 DEF Seen
<1>4. \A t \in Threads : Top(todo[t]) \in {"end", "read"} /\ "release" \notin Elems(todo[t])
  BY <1>1, <1>3 DEF Threads, main, timer, input
<1>5. ~crashed
  BY <1>4 DEF Sound, CrashedBusy
<1>6. \A t \in Threads : ~ReceivesClosed(t) /\ ~JoinsHolding(t)
  BY <1>4 DEF Sound, Mutex, ReceivesClosed, JoinsHolding, Above, Elems
<1>7. ~InputReconnects /\ ~InputOpens
  <2>1. ~Above(input, Closes, {"connect"})
    BY <1>3 DEF Above, Elems
  <2> QED BY <1>1, <1>3, <2>1 DEF InputReconnects, InputOpens
<1> QED BY <1>1, <1>3, <1>5, <1>6, <1>7 DEF Stuck

-----------------------------------------------------------------------------
\* The inductive invariant.
LinkInv == Sound /\ NotYet /\ (Live => Good)

\* Calls and faults are only counted up.
LEMMA CallsGrow ==
  ASSUME [Next]_vars
  PROVE  calls' \in {calls, calls + 1} /\ faults' \in {faults, faults + 1}
<1> DEFINE Counted == \/ UNCHANGED <<calls, taken, faults>>
                      \/ calls' = calls + 1 /\ faults' = faults
                      \/ faults' = faults + 1 /\ calls' = calls
                      \/ UNCHANGED <<calls, faults>>
<1>1. ASSUME NEW t \in Threads, Step(t) PROVE Counted
  <2>1. ASSUME \/ Connect(t) \/ OpenAlready(t) \/ OpenCrashes(t) \/ OpenSocket(t)
               \/ Update(t) \/ Wait(t) \/ Updated(t) \/ Request(t) \/ Checking(t)
               \/ CommandDropped(t) \/ CommandSent(t) \/ CommandScheduled(t)
        PROVE  Counted
    BY <2>1 DEF Connect, OpenAlready, OpenCrashes, OpenSocket, Update, Wait, Updated, Request,
       Checking, CommandDropped, CommandSent, CommandScheduled, SameWorld, worldVars
  <2>2. ASSUME CommandFails(t) \/ GetChallengeFails(t) \/ Challenge(t) PROVE Counted
    BY <2>2 DEF CommandFails, GetChallengeFails, Challenge, SendFails, Fault, SameWorld, worldVars
  <2>3. ASSUME \/ GetChallenge(t) \/ Release(t) \/ Sync(t) \/ SyncReceives(t)
               \/ ChallengeUnused(t) \/ HandleDest(t) \/ Connected(t) \/ Announce(t)
        PROVE  Counted
    BY <2>3 DEF GetChallenge, Release, Sync, SyncReceives, Receive, ChallengeUnused, HandleDest,
       Connected, Announce, SameWorld, worldVars
  <2>4. ASSUME Close(t) \/ Closed(t) \/ IoPoll(t) \/ IoClose(t) \/ Clear(t) \/ JoinCrashes(t)
        PROVE  Counted
    BY <2>4 DEF Close, Closed, IoPoll, Receive, IoClose, Clear, JoinCrashes, SameWorld, worldVars
  <2> QED BY <1>1, <2>1, <2>2, <2>3, <2>4 DEF Step
<1>2. ASSUME NEW t \in Threads, OpenFails(t) \/ SyncRefused(t) \/ ChallengeLate(t) PROVE Counted
  BY <1>2 DEF OpenFails, SyncRefused, ChallengeLate, Fault
<1>3. ASSUME \/ Bye \/ MainConnects \/ MainDisconnects \/ ReadDatagram \/ ReadCancelled \/ ReadRefused
             \/ TimerFires \/ ServerAnswers \/ Lose \/ DestTaken \/ UNCHANGED vars
      PROVE  Counted
  BY <1>3 DEF Bye, MainConnects, MainDisconnects, ReadDatagram, Receive, ReadCancelled, ReadRefused,
     TimerFires, ServerAnswers, Lose, DestTaken, vars, Call, Fault, SameWorld, worldVars
<1>4. {"main", "timer", "input"} = Threads
  BY DEF Threads
<1>5. Counted
  BY <1>1, <1>2, <1>3, <1>4 DEF Next, Main, Timer, Input
<1> QED BY <1>5

\* Counting up.
LEMMA Counts ==
  \A m, n \in Nat : /\ m # 0 /\ n \in {m, m + 1} => n # 0
                    /\ m # 0 /\ n = 1 /\ n \in {m, m + 1} => m = 1
                    /\ n <= 1 /\ n \in {m, m + 1} => m <= 1
OBVIOUS

\* No step breaks it: before main connects the link nothing happens, a link that is
\* stuck stays stuck, and the first connection stays as Good says.
LEMMA InvInductive ==
  ASSUME LinkInv, [Next]_vars
  PROVE  LinkInv'
<1>1. Sound' /\ (Stuck => Stuck')
  BY NextSound DEF LinkInv
<1>2. NotYet'
  <2>1. CASE calls = 0
    <3>1. CASE UNCHANGED vars
      BY <3>1 DEF LinkInv, NotYet, vars, linkVars, engineVars, netVars, worldVars
    <3>2. CASE MainConnects
      BY <2>1, <3>2, FirstCall DEF LinkInv, NotYet
    <3> QED BY <2>1, <3>1, <3>2, NotYetStays DEF LinkInv
  <2>2. CASE calls # 0
    <3>1. calls' # 0
      BY <1>1, <2>2, CallsGrow, Counts DEF LinkInv, Sound, TypeOK
    <3> QED BY <3>1 DEF NotYet
  <2> QED BY <2>1, <2>2
<1>3. ASSUME Live' PROVE Good'
  <2>1. CASE calls = 0
    <3>1. ~UNCHANGED vars
      BY <1>3, <2>1 DEF Live, vars, worldVars
    <3> QED BY <2>1, <3>1, NotYetStays, FirstCall DEF LinkInv
  <2>2. CASE calls # 0
    <3>1. Live
      BY <1>1, <1>3, <2>2, CallsGrow, Counts DEF LinkInv, Sound, TypeOK, Live
    <3> QED BY <1>1, <1>3, <3>1, StepKeepsGood DEF LinkInv
  <2> QED BY <2>1, <2>2
<1> QED BY <1>1, <1>2, <1>3 DEF LinkInv

\* The bot was told.
LEMMA InvTold == LinkInv => ToldConnected
<1> SUFFICES ASSUME LinkInv, FirstConnection, Quiet, open, status = "CONNECTED" PROVE told = "connected"
  BY DEF ToldConnected
<1>1. Live /\ Good
  BY QuietNotStuck DEF LinkInv, FirstConnection, Live
<1>2. Elems(main) = {} /\ Elems(timer) = {} /\ Elems(input) = {"read"}
  BY QuietNotStuck DEF LinkInv
<1> QED BY <1>1, <1>2 DEF Good, StatusTold, Told, Closing

\* Whatever main, the poll and thread_input do of the first connection, and whatever goes
\* wrong once, a link that is up and quiet is one the bot was told of, and not told the end
\* of.
THEOREM FirstConnectionTold == Spec => []ToldConnected
<1>1. Init => LinkInv
  <2>1. Init => ~Live
    BY DEF Init, Live
  <2> QED BY <2>1, InitSound, InitNotYet DEF LinkInv
<1>2. LinkInv /\ [Next]_vars => LinkInv'
  BY InvInductive
<1>3. LinkInv => ToldConnected
  BY InvTold
<1> QED BY <1>1, <1>2, <1>3, PTL DEF Spec
==============================================================================
