---------------------------- MODULE IrcLinkProofs ----------------------------
(***************************************************************************)
(* What an IRC link sends before it is welcomed, that it sends its login   *)
(* first, and what disconnect() leaves behind, for any number of sessions, *)
(* lines and commands.  Three questions, one after the other: where the    *)
(* threads can be at the same time, which session the commands on their    *)
(* way belong to, and how far the login of the session has come.           *)
(***************************************************************************)
EXTENDS IrcLink, SequenceTheorems, WellFoundedInduction, TLAPS

\* irc_in about to read a line, or handling one; and taking the link down.
Reading == {"next", "read", "lookup", "handle", "command", "check", "clear", "insert", "welcome"}
Tearing == {"quit", "close", "lock", "stop", "notify", "join_in", "crashed"}

Issuing == {"command", "check", "clear", "insert"}

\* main between the open socket and the threads; and in disconnect(), once it has locked.
Starting == {"login", "spawn"} \cup Issuing
Stopping == {"stop", "notify", "join_in", "join_out"}

Labels == {"idle", "done", "connect", "open", "join_out"} \cup Reading \cup Tearing \cup Starting

OutLabels == {"none", "start", "loop", "test", "gap", "asleep", "got", "hold", "done", "crashed"}

ThreadTypes ==
  /\ status \in {"DISCONNECTED", "WAITING", "CONNECTING", "CONNECTED"}
  /\ asio \in {"none", "closed", "open"} /\ welcomed \in BOOLEAN
  /\ at \in [Threads -> Labels] /\ after \in [{"main", "irc_in"} -> {"idle", "connect"}]
  /\ run \in BOOLEAN /\ out \in OutLabels

\* Where the threads can be together, and what they find there: irc_in reads and handles
\* lines while main does nothing or disconnects, and only under a socket that main alone
\* takes away; once main has stopped the queue nobody starts it again.
Places ==
  LET in == at["irc_in"]
      main == at["main"]
  IN  /\ in \in Reading \cup {"quit", "close"} =>
           /\ main \in {"idle", "connect", "quit", "close", "lock", "stop", "notify", "join_in"}
           /\ main \in {"idle", "connect", "quit"} => asio = "open"
      /\ ~TearingDown /\ main \in Starting =>
           asio = "open" /\ (main # "login" => status # "DISCONNECTED")
      /\ status = "CONNECTED" => welcomed /\ main # "open"
      /\ in \in Reading /\ main \in {"idle", "connect", "quit", "close"} => status # "DISCONNECTED"
      /\ in \in Reading /\ main \in {"lock", "stop", "notify", "join_in"} => asio = "none"
      /\ main = "join_out" => in = "idle"
      /\ main \in Stopping \ {"stop"} => asio = "none" /\ (out \in {"none", "done"} => ~run)
      /\ main \in Stopping => status = "DISCONNECTED" \/ (in \in {"next", "crashed"} /\ asio = "none")

ThreadsInv == ThreadTypes /\ Places

-----------------------------------------------------------------------------
(* Where the threads are *)

\* t goes from one label to another, and the other threads stay where they are.
Moves(t, from, to) ==
  /\ at[t] = from /\ at'[t] = to
  /\ \A u \in Threads \ {t} : at'[u] = at[u]
  /\ at' \in [Threads -> Labels]

LEMMA Going ==
  ASSUME ThreadTypes, NEW t \in Threads, NEW from, at[t] = from, NEW to \in Labels, Goto(t, to)
  PROVE  Moves(t, from, to)
BY DEF Moves, Goto, ThreadTypes

LEMMA LabelNames ==
  /\ {"idle", "done", "connect", "open", "join_out", "login", "spawn", "next", "read", "lookup",
      "handle", "command", "check", "clear", "insert", "welcome", "quit", "close", "lock", "stop",
      "notify", "join_in", "crashed"} = Labels
  /\ Threads = {"main", "irc_in", "client"}
BY DEF Labels, Reading, Tearing, Starting, Issuing, Threads

\* command() moves its thread, and may wake the output thread.
LEMMA CommandMoves ==
  ASSUME ThreadTypes, NEW t \in Threads, Command(t)
  PROVE  /\ \E from \in Issuing, to \in Issuing \cup {"spawn", "next", "idle"} :
              /\ Moves(t, from, to)
              /\ to \notin Issuing => to = [main |-> "spawn", irc_in |-> "next", client |-> "idle"][t]
         /\ UNCHANGED <<status, asio, session, wire, welcomed, run, after>>
         /\ out' = out \/ (out = "asleep" /\ out' = "test")
<1> DEFINE back == [main |-> "spawn", irc_in |-> "next", client |-> "idle"][t]
<1>1. back \in {"spawn", "next", "idle"}
  BY DEF Threads
<1>2. at[t] \in Issuing
  BY DEF Command, CommandTest, CommandCheck, CommandClear, CommandInsert, Issuing
<1>3. Issuing \cup {"spawn", "next", "idle"} \subseteq Labels
  BY DEF Issuing, Labels, Starting, Reading
<1>4. Resume(t) => \E to \in Issuing \cup {back} : Goto(t, to)
  BY DEF Resume, Issuing
<1>5. \E to \in Issuing \cup {back} : Goto(t, to)
  BY <1>4 DEF Command, CommandTest, CommandCheck, CommandClear, CommandInsert, Issuing
<1>6. PICK to \in Issuing \cup {back} : Goto(t, to)
  BY <1>5
<1>7. Moves(t, at[t], to)
  BY <1>1, <1>3, <1>6, Going
<1>8. /\ UNCHANGED <<status, asio, session, wire, welcomed, run, after>>
      /\ out' = out \/ (out = "asleep" /\ out' = "test")
  BY DEF Command, CommandTest, CommandCheck, CommandClear, CommandInsert, OutNotified,
         socketVars, inputVars, queueVars
<1> HIDE DEF back
<1>9. to \in Issuing \cup {"spawn", "next", "idle"} /\ (to \notin Issuing => to = back)
  BY <1>1, <1>6
<1> QED BY <1>2, <1>7, <1>8, <1>9 DEF back

LEMMA PlacesStart == Init => ThreadsInv
<1> SUFFICES ASSUME Init PROVE ThreadsInv
  OBVIOUS
<1>1. ThreadTypes
  BY LabelNames DEF Init, ThreadTypes, OutLabels
<1>2. Places
  BY LabelNames DEF Init, Places, Reading, Starting, Stopping, Issuing, TearingDown
<1> QED BY <1>1, <1>2 DEF ThreadsInv

\* disconnect() on either thread, but for the last join.
LEMMA DisconnectMoves ==
  ASSUME ThreadTypes, NEW t \in {"main", "irc_in"}
  PROVE  /\ Quit(t) =>
              /\ Moves(t, "quit", IF status = "CONNECTED" /\ asio = "none" THEN "crashed" ELSE "close")
              /\ UNCHANGED <<status, asio, welcomed, after, run, out>>
         /\ Close(t) =>
              /\ Moves(t, "close", "lock") /\ UNCHANGED <<status, welcomed, after, run, out>>
              /\ asio' = IF status # "DISCONNECTED" THEN "none" ELSE asio
         /\ Lock(t) =>
              /\ Moves(t, "lock", "stop") /\ UNCHANGED <<asio, welcomed, after, run, out>>
              /\ status' = "DISCONNECTED"
         /\ StopQueue(t) =>
              /\ Moves(t, "stop", "notify") /\ UNCHANGED <<status, welcomed, after, out>>
              /\ asio' = "none" /\ run' = FALSE
         /\ NotifyQueue(t) =>
              /\ Moves(t, "notify", "join_in") /\ UNCHANGED <<status, asio, welcomed, after, run>>
              /\ out' = OutNotified
         /\ JoinInput(t) =>
              /\ UNCHANGED <<status, asio, welcomed, after, run, out>>
              /\ \/ t = "irc_in" /\ Moves(t, "join_in", "crashed")
                 \/ /\ t = "main" /\ at["main"] = "join_in" /\ at["irc_in"] \in {"idle", "done"}
                    /\ at'["main"] = "join_out" /\ at'["irc_in"] = "idle"
                    /\ at'["client"] = at["client"] /\ at' \in [Threads -> Labels]
<1>1. t \in Threads
  BY DEF Threads
<1>2. Quit(t) => Moves(t, "quit", IF status = "CONNECTED" /\ asio = "none" THEN "crashed" ELSE "close")
  BY <1>1, Going, LabelNames DEF Quit
<1>3. Close(t) => Moves(t, "close", "lock")
  BY <1>1, Going, LabelNames DEF Close
<1>4. Lock(t) => Moves(t, "lock", "stop")
  BY <1>1, Going, LabelNames DEF Lock
<1>5. StopQueue(t) => Moves(t, "stop", "notify")
  BY <1>1, Going, LabelNames DEF StopQueue
<1>6. NotifyQueue(t) => Moves(t, "notify", "join_in")
  BY <1>1, Going, LabelNames DEF NotifyQueue
<1>7. JoinInput(t) /\ t = "irc_in" => Moves(t, "join_in", "crashed")
  BY <1>1, Going, LabelNames DEF JoinInput
<1>8. JoinInput(t) /\ t = "main" =>
        /\ at["main"] = "join_in" /\ at["irc_in"] \in {"idle", "done"}
        /\ at'["main"] = "join_out" /\ at'["irc_in"] = "idle"
        /\ at'["client"] = at["client"] /\ at' \in [Threads -> Labels]
  BY LabelNames DEF JoinInput, ThreadTypes
<1>9. /\ Quit(t) => UNCHANGED <<status, asio, welcomed, after, run, out>>
      /\ Close(t) => UNCHANGED <<status, welcomed, after, run, out>>
      /\ Lock(t) => UNCHANGED <<asio, welcomed, after, run, out>>
      /\ StopQueue(t) => UNCHANGED <<status, welcomed, after, out>>
      /\ NotifyQueue(t) => UNCHANGED <<status, asio, welcomed, after, run>>
      /\ JoinInput(t) => UNCHANGED <<status, asio, welcomed, after, run, out>>
  BY DEF Quit, Close, Lock, StopQueue, NotifyQueue, JoinInput, socketVars, inputVars, queueVars
<1>10. /\ Close(t) => asio' = IF status # "DISCONNECTED" THEN "none" ELSE asio
       /\ Lock(t) => status' = "DISCONNECTED"
       /\ StopQueue(t) => asio' = "none" /\ run' = FALSE
       /\ NotifyQueue(t) => out' = OutNotified
  BY DEF Close, Lock, StopQueue, NotifyQueue
<1> QED BY <1>2, <1>3, <1>4, <1>5, <1>6, <1>7, <1>8, <1>9, <1>10

\* The start and the end of what main does.
LEMMA MainMoves ==
  ASSUME ThreadTypes
  PROVE  /\ StartConnect => Moves("main", "idle", "connect")
         /\ StartDisconnect => Moves("main", "idle", "quit")
         /\ StartReconnect("main") => Moves("main", "idle", "quit")
         /\ JoinOutput => Moves("main", "join_out", after["main"]) /\ after["main"] \in {"idle", "connect"}
         /\ Connect => Moves("main", "connect", IF asio = "open" THEN "idle" ELSE "open")
         /\ OpenSocket => Moves("main", "open", "login")
         /\ OpenFails => Moves("main", "open", "quit")
         /\ Login => Moves("main", "login", "command")
         /\ Spawn => /\ at["main"] = "spawn" /\ at'["main"] = "idle"
                     /\ at'["irc_in"] = IF at["irc_in"] = "idle" THEN "next" ELSE at["irc_in"]
                     /\ at'["client"] = at["client"] /\ at' \in [Threads -> Labels]
<1>1. "main" \in Threads
  BY DEF Threads
<1>2. after["main"] \in {"idle", "connect"}
  BY DEF ThreadTypes
<1>3. StartConnect => Moves("main", "idle", "connect")
  BY <1>1, Going, LabelNames DEF StartConnect
<1>4. StartDisconnect => Moves("main", "idle", "quit")
  BY <1>1, Going, LabelNames DEF StartDisconnect
<1>5. StartReconnect("main") => Moves("main", "idle", "quit")
  BY <1>1, Going, LabelNames DEF StartReconnect
<1>6. JoinOutput => Moves("main", "join_out", after["main"])
  BY <1>1, <1>2, Going, LabelNames DEF JoinOutput
<1>7. Connect => Moves("main", "connect", IF asio = "open" THEN "idle" ELSE "open")
  BY <1>1, Going, LabelNames DEF Connect
<1>8. OpenSocket => Moves("main", "open", "login")
  BY <1>1, Going, LabelNames DEF OpenSocket
<1>9. OpenFails => Moves("main", "open", "quit")
  BY <1>1, Going, LabelNames DEF OpenFails
<1>10. Login => Moves("main", "login", "command")
  BY <1>1, Going, LabelNames DEF Login
<1>11. Spawn => /\ at["main"] = "spawn" /\ at'["main"] = "idle"
                /\ at'["irc_in"] = IF at["irc_in"] = "idle" THEN "next" ELSE at["irc_in"]
                /\ at'["client"] = at["client"] /\ at' \in [Threads -> Labels]
  BY LabelNames DEF Spawn, ThreadTypes
<1> QED BY <1>2, <1>3, <1>4, <1>5, <1>6, <1>7, <1>8, <1>9, <1>10, <1>11

\* What irc_in does with a line.
LEMMA InputMoves ==
  ASSUME ThreadTypes
  PROVE  /\ ScheduleRead => Moves("irc_in", "next", IF asio = "none" THEN "crashed" ELSE "read")
         /\ ReadEnds => Moves("irc_in", "read", "done")
         /\ \A kind : ReadLine(kind) => \E to \in {"handle", "lookup"} : Moves("irc_in", "read", to)
         /\ Lookup => \E to \in {"command", "quit", "handle"} : Moves("irc_in", "lookup", to)
         /\ HandleWelcome => Moves("irc_in", "handle", "welcome")
         /\ Welcomed => Moves("irc_in", "welcome", "next")
         /\ HandleFlush => \E to \in {"next", "command"} : Moves("irc_in", "handle", to)
         /\ HandleOther => Moves("irc_in", "handle", "next")
         /\ StartReconnect("irc_in") => Moves("irc_in", "handle", "quit")
<1>1. "irc_in" \in Threads
  BY DEF Threads
<1>2. ScheduleRead => Moves("irc_in", "next", IF asio = "none" THEN "crashed" ELSE "read")
  BY <1>1, Going, LabelNames DEF ScheduleRead
<1>3. ReadEnds => Moves("irc_in", "read", "done")
  BY <1>1, Going, LabelNames DEF ReadEnds
<1>4. ASSUME NEW kind, ReadLine(kind) PROVE \E to \in {"handle", "lookup"} : Moves("irc_in", "read", to)
  BY <1>1, <1>4, Going, LabelNames DEF ReadLine
<1>5. Lookup => \E to \in {"command", "quit", "handle"} : Moves("irc_in", "lookup", to)
  BY <1>1, Going, LabelNames DEF Lookup
<1>6. HandleWelcome => Moves("irc_in", "handle", "welcome")
  BY <1>1, Going, LabelNames DEF HandleWelcome
<1>7. Welcomed => Moves("irc_in", "welcome", "next")
  BY <1>1, Going, LabelNames DEF Welcomed
<1>8. HandleFlush => \E to \in {"next", "command"} : Moves("irc_in", "handle", to)
  BY <1>1, Going, LabelNames DEF HandleFlush
<1>9. HandleOther => Moves("irc_in", "handle", "next")
  BY <1>1, Going, LabelNames DEF HandleOther
<1>10. StartReconnect("irc_in") => Moves("irc_in", "handle", "quit")
  BY <1>1, Going, LabelNames DEF StartReconnect
<1> QED BY <1>2, <1>3, <1>4, <1>5, <1>6, <1>7, <1>8, <1>9, <1>10

LEMMA ClientAndOutputKeepThreads ==
  ASSUME ThreadsInv, Command("client") \/ Output \/ \E kind \in ClientKinds : ClientIssues(kind)
  PROVE  ThreadsInv'
<1>1. /\ at'["main"] = at["main"] /\ at'["irc_in"] = at["irc_in"] /\ at' \in [Threads -> Labels]
      /\ UNCHANGED <<status, asio, welcomed, after>>
  <2>1. CASE Command("client")
    BY <2>1, CommandMoves, LabelNames DEF Moves, ThreadsInv
  <2>2. CASE Output
    BY <2>2 DEF Output, OutStart, OutLoop, OutTest, OutSleep, OutGot, OutExpire, OutWrite,
       socketVars, threadVars, inputVars, ThreadsInv, ThreadTypes
  <2>3. CASE \E kind \in ClientKinds : ClientIssues(kind)
    BY <2>3, Going, LabelNames DEF ClientIssues, Moves, socketVars, inputVars, ThreadsInv
  <2> QED BY <2>1, <2>2, <2>3
<1>2. /\ run' \in BOOLEAN /\ out' \in OutLabels
      /\ (out \in {"none", "done"} => ~run) => (out' \in {"none", "done"} => ~run')
  <2>1. CASE Command("client")
    BY <2>1, CommandMoves, LabelNames DEF ThreadsInv, ThreadTypes, OutLabels
  <2>2. CASE Output
    <3>1. run' = run \/ (out = "start" /\ run' = TRUE /\ out' = "loop")
      BY <2>2 DEF Output, OutStart, OutLoop, OutTest, OutSleep, OutGot, OutExpire, OutWrite
    <3>2. OutTest => out = "test" /\ out' \in {"gap", "loop", "got"}
      BY DEF OutTest
    <3>3. ~OutTest => /\ out' \in OutLabels /\ out \notin {"none", "done"}
                      /\ out' \in {"none", "done"} => ~run'
      BY <2>2 DEF Output, OutStart, OutLoop, OutSleep, OutGot, OutExpire, OutWrite, OutLabels
    <3> QED BY <3>1, <3>2, <3>3 DEF ThreadsInv, ThreadTypes, OutLabels
  <2>3. CASE \E kind \in ClientKinds : ClientIssues(kind)
    BY <2>3 DEF ClientIssues, queueVars, ThreadsInv, ThreadTypes
  <2> QED BY <2>1, <2>2, <2>3
<1>3. ThreadTypes'
  BY <1>1, <1>2 DEF ThreadsInv, ThreadTypes
<1>4. Places'
  BY <1>1, <1>2 DEF ThreadsInv, Places, TearingDown
<1> QED BY <1>3, <1>4 DEF ThreadsInv

LEMMA MainKeepsThreads ==
  ASSUME ThreadsInv,
         StartConnect \/ StartDisconnect \/ StartReconnect("main") \/ Main
  PROVE  ThreadsInv'
<1> USE DEF ThreadsInv
<1>1. CASE StartConnect
  <2>1. Moves("main", "idle", "connect")
    BY <1>1, MainMoves
  <2>2. UNCHANGED <<status, asio, welcomed, after, run, out>>
    BY <1>1 DEF StartConnect, socketVars, inputVars, queueVars
  <2> QED BY <2>1, <2>2, LabelNames DEF Moves, ThreadTypes, Places, Reading, Starting, Stopping, Issuing,
          TearingDown
<1>2. CASE StartDisconnect \/ StartReconnect("main")
  <2>1. Moves("main", "idle", "quit")
    BY <1>2, MainMoves
  <2>2. UNCHANGED <<status, asio, welcomed, run, out>> 
        /\ after' \in [{"main", "irc_in"} -> {"idle", "connect"}]
    BY <1>2 DEF StartDisconnect, StartReconnect, socketVars, inputVars, queueVars, ThreadTypes
  <2> QED BY <2>1, <2>2, LabelNames DEF Moves, ThreadTypes, Places, Reading, Starting, Stopping, Issuing,
          TearingDown
<1>3. CASE Disconnect("main")
  <2>1. ThreadTypes'
    <3>1. /\ at' \in [Threads -> Labels] /\ UNCHANGED <<welcomed, after>>
          /\ status' \in {status, "DISCONNECTED"} /\ asio' \in {asio, "none"}
          /\ run' = run \/ run' = FALSE
          /\ out' = out \/ out' = OutNotified
      BY <1>3, DisconnectMoves DEF Disconnect, Moves
    <3>2. out' \in OutLabels /\ run' \in BOOLEAN
      BY <3>1 DEF ThreadTypes, OutNotified, OutLabels
    <3>3. /\ status' \in {"DISCONNECTED", "WAITING", "CONNECTING", "CONNECTED"}
          /\ asio' \in {"none", "closed", "open"}
      BY <3>1 DEF ThreadTypes
    <3> QED BY <3>1, <3>2, <3>3 DEF ThreadTypes
  <2> USE LabelNames DEF Moves, Places, Reading, Starting, Stopping, Issuing, TearingDown
  <2>2. CASE Quit("main")
    BY <2>1, <2>2, DisconnectMoves
  <2>3. CASE Close("main")
    BY <2>1, <2>3, DisconnectMoves
  <2>4. CASE Lock("main")
    BY <2>1, <2>4, DisconnectMoves
  <2>5. CASE StopQueue("main")
    BY <2>1, <2>5, DisconnectMoves
  <2>6. CASE NotifyQueue("main")
    BY <2>1, <2>6, DisconnectMoves DEF OutNotified
  <2>7. CASE JoinInput("main")
    BY <2>1, <2>7, DisconnectMoves
  <2> QED BY <1>3, <2>1, <2>2, <2>3, <2>4, <2>5, <2>6, <2>7 DEF Disconnect
<1>4. CASE JoinOutput
  <2>1. Moves("main", "join_out", after["main"]) /\ after["main"] \in {"idle", "connect"}
    BY <1>4, MainMoves
  <2>2. UNCHANGED <<status, asio, welcomed, run>> /\ out' = "none"
    BY <1>4 DEF JoinOutput, socketVars, inputVars
  <2>3. ThreadTypes'
    BY <1>4, <2>1, <2>2 DEF JoinOutput, Moves, ThreadTypes, OutLabels
  <2> QED BY <2>1, <2>2, <2>3, LabelNames DEF Moves, Places, Reading, Starting, Stopping, Issuing,
          TearingDown
<1>5. CASE Connect
  <2>1. Moves("main", "connect", IF asio = "open" THEN "idle" ELSE "open")
    BY <1>5, MainMoves
  <2>2. /\ UNCHANGED <<asio, welcomed, after, run, out>>
        /\ status' = IF asio = "open" THEN status ELSE "WAITING"
    BY <1>5 DEF Connect, inputVars, queueVars
  <2>3. ThreadTypes'
    BY <2>1, <2>2 DEF Moves, ThreadTypes
  <2> QED BY <2>1, <2>2, <2>3, LabelNames DEF Moves, Places, Reading, Starting, Stopping, Issuing,
          TearingDown
<1>6. CASE OpenSocket
  <2>1. Moves("main", "open", "login")
    BY <1>6, MainMoves
  <2>2. /\ UNCHANGED <<status, after, out>>
        /\ asio' = "open" /\ run' = TRUE /\ welcomed' = FALSE
    BY <1>6 DEF OpenSocket
  <2>3. ThreadTypes'
    BY <2>1, <2>2 DEF Moves, ThreadTypes
  <2> QED BY <2>1, <2>2, <2>3, LabelNames DEF Moves, Places, Reading, Starting, Stopping, Issuing,
          TearingDown
<1>7. CASE OpenFails
  <2>1. Moves("main", "open", "quit")
    BY <1>7, MainMoves
  <2>2. /\ UNCHANGED <<status, welcomed, out>> /\ asio' = "closed" /\ run' = TRUE
        /\ after' \in [{"main", "irc_in"} -> {"idle", "connect"}]
    BY <1>7 DEF OpenFails, inputVars, ThreadTypes
  <2>3. ThreadTypes'
    BY <2>1, <2>2 DEF Moves, ThreadTypes
  <2> QED BY <2>1, <2>2, <2>3, LabelNames DEF Moves, Places, Reading, Starting, Stopping, Issuing,
          TearingDown
<1>8. CASE Login
  <2>1. Moves("main", "login", "command")
    BY <1>8, MainMoves
  <2>2. UNCHANGED <<asio, welcomed, after, run, out>> /\ status' = "CONNECTING"
    BY <1>8 DEF Login, inputVars, queueVars
  <2>3. ThreadTypes'
    BY <2>1, <2>2 DEF Moves, ThreadTypes
  <2> QED BY <2>1, <2>2, <2>3, LabelNames DEF Moves, Places, Reading, Starting, Stopping, Issuing,
          TearingDown
<1>9. CASE Command("main")
  <2>1. /\ \E from \in Issuing, to \in Issuing \cup {"spawn"} : Moves("main", from, to)
        /\ UNCHANGED <<status, asio, welcomed, run, after>>
        /\ out' = out \/ (out = "asleep" /\ out' = "test")
    BY <1>9, CommandMoves, LabelNames
  <2>2. ThreadTypes'
    BY <2>1 DEF Moves, ThreadTypes, OutLabels
  <2> QED BY <2>1, <2>2, LabelNames DEF Moves, Places, Reading, Starting, Stopping, Issuing, TearingDown
<1>10. CASE Spawn
  <2>1. /\ at["main"] = "spawn" /\ at'["main"] = "idle"
        /\ at'["irc_in"] = IF at["irc_in"] = "idle" THEN "next" ELSE at["irc_in"]
        /\ at' \in [Threads -> Labels]
    BY <1>10, MainMoves
  <2>2. /\ UNCHANGED <<status, asio, welcomed, after>> /\ run' = TRUE
        /\ out' = IF out = "none" THEN "start" ELSE out
    BY <1>10 DEF Spawn, socketVars, inputVars
  <2>3. ThreadTypes'
    BY <2>1, <2>2 DEF ThreadTypes, OutLabels
  <2> QED BY <2>1, <2>2, <2>3, LabelNames DEF Places, Reading, Starting, Stopping, Issuing, TearingDown
<1> QED BY <1>1, <1>2, <1>3, <1>4, <1>5, <1>6, <1>7, <1>8, <1>9, <1>10 DEF Main

LEMMA InputKeepsThreads ==
  ASSUME ThreadsInv, Input \/ ReadEnds \/ \E kind \in Lines : ReadLine(kind)
  PROVE  ThreadsInv'
<1> USE DEF ThreadsInv
<1>1. CASE ScheduleRead \/ ReadEnds \/ Lookup \/ HandleWelcome \/ HandleFlush \/ HandleOther
           \/ StartReconnect("irc_in") \/ \E kind \in Lines : ReadLine(kind)
  <2>1. \E from \in Reading, to \in Reading \cup {"done", "quit", "crashed"} :
          Moves("irc_in", from, to)
    BY <1>1, InputMoves, LabelNames DEF Reading
  <2>2. UNCHANGED <<status, asio, welcomed, run, out>>
    BY <1>1 DEF ScheduleRead, ReadEnds, Lookup, HandleWelcome, HandleFlush, HandleOther,
       StartReconnect, ReadLine, socketVars, inputVars, queueVars
  <2>3. after' \in [{"main", "irc_in"} -> {"idle", "connect"}]
    BY <1>1 DEF ScheduleRead, ReadEnds, Lookup, HandleWelcome, HandleFlush, HandleOther,
       StartReconnect, ReadLine, ThreadTypes
  <2>4. at["irc_in"] = "next" => at'["irc_in"] = IF asio = "none" THEN "crashed" ELSE "read"
    BY <1>1, InputMoves DEF Moves
  <2>5. ThreadTypes'
    BY <2>1, <2>2, <2>3 DEF Moves, ThreadTypes
  <2>6. /\ at["irc_in"] \in Reading /\ at'["main"] = at["main"]
        /\ at'["irc_in"] \in Reading \cup {"done", "quit", "crashed"}
    BY <2>1, LabelNames DEF Moves
  <2>7. at["main"] \in {"idle", "connect", "quit", "close", "lock", "stop", "notify", "join_in"}
    BY <2>6 DEF Places
  <2>8. at["main"] \notin Starting \cup {"open", "join_out"}
    BY <2>7 DEF Starting, Issuing
  <2>9. CASE at'["irc_in"] \in Reading \cup {"quit"}
    <3>1. at["irc_in"] # "next" \/ asio # "none"
      BY <2>4, <2>9 DEF Reading
    <3> QED BY <2>2, <2>5, <2>6, <2>7, <2>8, <2>9, <3>1 DEF Places, Reading, Starting, Stopping, Issuing,
           TearingDown
  <2>10. CASE at'["irc_in"] \in {"done", "crashed"}
    BY <2>2, <2>4, <2>5, <2>6, <2>7, <2>8, <2>10 DEF Places, Reading, Starting, Stopping, Issuing, TearingDown
  <2> QED BY <2>6, <2>9, <2>10
<1>2. CASE Welcomed
  <2>1. Moves("irc_in", "welcome", "next")
    BY <1>2, InputMoves
  <2>2. UNCHANGED <<asio, after, run, out>> /\ status' = "CONNECTED" /\ welcomed' = TRUE
    BY <1>2 DEF Welcomed, queueVars
  <2>3. ThreadTypes'
    BY <2>1, <2>2 DEF Moves, ThreadTypes
  <2> QED BY <2>1, <2>2, <2>3, LabelNames DEF Moves, Places, Reading, Starting, Stopping, Issuing,
          TearingDown
<1>3. CASE Disconnect("irc_in")
  <2>1. ThreadTypes'
    <3>1. /\ at' \in [Threads -> Labels] /\ UNCHANGED <<welcomed, after>>
          /\ status' \in {status, "DISCONNECTED"} /\ asio' \in {asio, "none"}
          /\ run' = run \/ run' = FALSE
          /\ out' = out \/ out' = OutNotified
      BY <1>3, DisconnectMoves DEF Disconnect, Moves
    <3>2. out' \in OutLabels /\ run' \in BOOLEAN
      BY <3>1 DEF ThreadTypes, OutNotified, OutLabels
    <3>3. /\ status' \in {"DISCONNECTED", "WAITING", "CONNECTING", "CONNECTED"}
          /\ asio' \in {"none", "closed", "open"}
      BY <3>1 DEF ThreadTypes
    <3> QED BY <3>1, <3>2, <3>3 DEF ThreadTypes
  <2> USE LabelNames DEF Moves, Places, Reading, Starting, Stopping, Issuing, TearingDown
  <2>2. CASE Quit("irc_in")
    BY <2>1, <2>2, DisconnectMoves
  <2>3. CASE Close("irc_in")
    BY <2>1, <2>3, DisconnectMoves
  <2>4. CASE Lock("irc_in")
    BY <2>1, <2>4, DisconnectMoves
  <2>5. CASE StopQueue("irc_in")
    BY <2>1, <2>5, DisconnectMoves
  <2>6. CASE NotifyQueue("irc_in")
    BY <2>1, <2>6, DisconnectMoves DEF OutNotified
  <2>7. CASE JoinInput("irc_in")
    BY <2>1, <2>7, DisconnectMoves
  <2> QED BY <1>3, <2>1, <2>2, <2>3, <2>4, <2>5, <2>6, <2>7 DEF Disconnect
<1>4. CASE Command("irc_in")
  <2>1. /\ \E from \in Issuing, to \in Issuing \cup {"next"} : Moves("irc_in", from, to)
        /\ UNCHANGED <<status, asio, welcomed, run, after>>
        /\ out' = out \/ (out = "asleep" /\ out' = "test")
    BY <1>4, CommandMoves, LabelNames
  <2>2. ThreadTypes'
    BY <2>1 DEF Moves, ThreadTypes, OutLabels
  <2> QED BY <2>1, <2>2, LabelNames DEF Moves, Places, Reading, Starting, Stopping, Issuing, TearingDown
<1> QED BY <1>1, <1>2, <1>3, <1>4 DEF Input

LEMMA ThreadsStep == ThreadsInv /\ [Next]_vars => ThreadsInv'
<1> SUFFICES ASSUME ThreadsInv, [Next]_vars PROVE ThreadsInv'
  OBVIOUS
<1>1. CASE Next
  BY <1>1, ClientAndOutputKeepThreads, MainKeepsThreads, InputKeepsThreads DEF Next
<1>2. CASE UNCHANGED vars
  BY <1>2 DEF vars, socketVars, threadVars, inputVars, queueVars, ThreadsInv, ThreadTypes, Places, TearingDown
<1> QED BY <1>1, <1>2

\* disconnect() on main gives the mutex back only at its end, when Places says the rest.
\* DisconnectLeavesNothing (IrcLink): both threads joined, queue stopped, socket closed.
THEOREM NothingIsLeft == Spec => DisconnectLeavesNothing
<1>1. ASSUME ThreadsInv, [Next]_vars, mutex = "main", mutex' = "free"
      PROVE  /\ at'["irc_in"] = "idle" /\ out' = "none" /\ ~run'
             /\ asio' = "none" /\ status' = "DISCONNECTED"
  <2>1. JoinOutput
    BY <1>1 DEF Next, vars, threadVars, StartConnect, StartDisconnect, StartReconnect, Main, Input, Output,
       Command, CommandTest, CommandCheck, CommandClear, CommandInsert, Disconnect, Quit, Close, Lock,
       StopQueue, NotifyQueue, JoinInput, Connect, OpenSocket, OpenFails, Login, Spawn, ScheduleRead,
       ReadEnds, ReadLine, Lookup, HandleWelcome, Welcomed, HandleFlush, HandleOther, ClientIssues,
       OutStart, OutLoop, OutTest, OutSleep, OutGot, OutExpire, OutWrite
  <2>2. /\ at["main"] = "join_out" /\ out \in {"none", "done"} /\ out' = "none"
        /\ UNCHANGED <<status, asio, run>>
    BY <2>1 DEF JoinOutput, socketVars
  <2>3. at'["irc_in"] = at["irc_in"]
    BY <1>1, <2>1, MainMoves, LabelNames DEF Moves, ThreadsInv
  <2> QED BY <1>1, <2>2, <2>3 DEF ThreadsInv, Places, Stopping
<1>2. Spec => []ThreadsInv
  BY PlacesStart, ThreadsStep, PTL DEF Spec
<1>3. ThreadsInv /\ [Next]_vars =>
        [mutex = "main" /\ mutex' = "free" =>
           /\ at'["irc_in"] = "idle" /\ out' = "none" /\ ~run'
           /\ asio' = "none" /\ status' = "DISCONNECTED"]_vars
  BY <1>1
<1> QED BY <1>2, <1>3, PTL DEF Spec, DisconnectLeavesNothing

-----------------------------------------------------------------------------
(* Sequences of commands *)

Less == {p \in Nat \X Nat : p[1] < p[2]}

LEMMA LessIsWellFounded == IsWellFoundedOn(Less, Nat)
<1>1. IsWellFoundedOn(OpToRel(<, Nat), Nat)
  BY NatLessThanWellFounded
<1>2. OpToRel(<, Nat) = Less
  BY DEF OpToRel, Less
<1> QED BY <1>1, <1>2

\* A set of naturals has a least element.
LEMMA LeastOf == ASSUME NEW S \in SUBSET Nat, S # {} PROVE \E m \in S : \A k \in S : m <= k
<1>1. PICK m \in S : \A k \in S : ~(<<k, m>> \in Less)
  BY LessIsWellFounded, WFMin
<1>2. ASSUME NEW k \in S PROVE m <= k
  <2>1. m \in Nat /\ k \in Nat /\ <<k, m>> \in Nat \X Nat
    BY <1>1
  <2>2. ~(k < m)
    <3>1. <<k, m>> \notin Less
      BY <1>1
    <3> QED BY <2>1, <3>1 DEF Less
  <2> QED BY <2>1, <2>2
<1> QED BY <1>1, <1>2

\* Induction: a set of naturals with 0 and the successor of each of its members is Nat.
LEMMA AllOfNat == ASSUME NEW S \in SUBSET Nat, 0 \in S, \A n \in S : n + 1 \in S PROVE S = Nat
<1>1. SUFFICES ASSUME S # Nat PROVE FALSE
  OBVIOUS
<1>2. PICK m \in Nat \ S : \A k \in Nat \ S : m <= k
  BY <1>1, LeastOf
<1>3. m - 1 \in Nat /\ m - 1 \in S /\ m - 1 + 1 = m
  BY <1>2
<1> QED BY <1>2, <1>3

LEMMA InRange ==
  ASSUME NEW S, NEW s \in Seq(S)
  PROVE  /\ Len(s) \in Nat /\ DOMAIN s = 1..Len(s)
         /\ \A i \in 1..Len(s) : s[i] \in Range(s)
         /\ \A c \in Range(s) : c \in S /\ \E i \in 1..Len(s) : s[i] = c
<1>1. Len(s) \in Nat /\ DOMAIN s = 1..Len(s)
  BY LenProperties
<1>2. \A i \in 1..Len(s) : s[i] \in S
  BY ElementOfSeq
<1> QED BY <1>1, <1>2 DEF Range

LEMMA RangeOfAppend ==
  ASSUME NEW S, NEW s \in Seq(S), NEW e \in S
  PROVE  Append(s, e) \in Seq(S) /\ Range(Append(s, e)) = Range(s) \cup {e}
<1> DEFINE t == Append(s, e)
<1>1. /\ t \in Seq(S) /\ Len(t) = Len(s) + 1 /\ t[Len(s) + 1] = e
      /\ \A i \in 1..Len(s) : t[i] = s[i]
  BY AppendProperties
<1> HIDE DEF t
<1>2. /\ Len(s) \in Nat /\ \A i \in 1..Len(t) : i \in 1..Len(s) \/ i = Len(s) + 1
      /\ \A i \in 1..Len(s) : i \in 1..Len(t)
      /\ Len(s) + 1 \in 1..Len(t)
  BY <1>1, InRange
<1>3. \A c \in Range(t) : c \in Range(s) \cup {e}
  BY <1>1, <1>2, InRange
<1>4. \A c \in Range(s) \cup {e} : c \in Range(t)
  BY <1>1, <1>2, InRange
<1>5. Range(t) = Range(s) \cup {e}
  BY <1>3, <1>4
<1> QED BY <1>1, <1>5 DEF t

LEMMA RangeOfTail ==
  ASSUME NEW S, NEW s \in Seq(S), s # <<>>
  PROVE  /\ Head(s) \in S /\ Tail(s) \in Seq(S) /\ Len(Tail(s)) = Len(s) - 1 /\ Len(s) \in Nat \ {0}
         /\ Range(s) = {Head(s)} \cup Range(Tail(s)) /\ (Len(s) > 1 => Tail(s) # <<>>)
<1> DEFINE t == Tail(s)
<1>1. /\ Head(s) \in S /\ t \in Seq(S) /\ Len(t) = Len(s) - 1
      /\ \A i \in 1..Len(t) : t[i] = s[i + 1]
  BY HeadTailProperties
<1>2. Len(s) \in Nat \ {0} /\ Head(s) = s[1]
  BY EmptySeq
<1> HIDE DEF t
<1>3. /\ 1 \in 1..Len(s) /\ \A i \in 1..Len(t) : i + 1 \in 1..Len(s)
      /\ \A i \in 1..Len(s) : i = 1 \/ (i - 1 \in 1..Len(t) /\ (i - 1) + 1 = i)
  BY <1>1, <1>2
<1>s. /\ \A i \in 1..Len(s) : s[i] \in Range(s)
      /\ \A c \in Range(s) : \E i \in 1..Len(s) : s[i] = c
  BY InRange
<1>t. /\ \A i \in 1..Len(t) : t[i] \in Range(t)
      /\ \A c \in Range(t) : \E i \in 1..Len(t) : t[i] = c
  BY <1>1, InRange
<1>4. \A c \in Range(s) : c = Head(s) \/ c \in Range(t)
  <2> TAKE c \in Range(s)
  <2>1. PICK i \in 1..Len(s) : s[i] = c
    BY <1>s
  <2>2. CASE i - 1 \in 1..Len(t) /\ (i - 1) + 1 = i
    <3>1. t[i - 1] = c
      BY <1>1, <2>1, <2>2
    <3> QED BY <1>t, <2>2, <3>1
  <2> QED BY <1>2, <1>3, <2>1, <2>2
<1>5. Head(s) \in Range(s) /\ \A c \in Range(t) : c \in Range(s)
  <2>1. Head(s) \in Range(s)
    BY <1>2, <1>3, <1>s
  <2>2. ASSUME NEW c \in Range(t) PROVE c \in Range(s)
    <3>1. PICK i \in 1..Len(t) : t[i] = c
      BY <1>t
    <3> QED BY <1>1, <1>3, <1>s, <3>1
  <2> QED BY <2>1, <2>2
<1>6. Range(s) = {Head(s)} \cup Range(t)
  BY <1>4, <1>5
<1>7. Len(s) > 1 => t # <<>>
  <2>1. Len(<<>>) = 0
    BY EmptySeq
  <2>2. Len(s) > 1 => Len(t) # 0
    BY <1>1, <1>2
  <2> QED BY <2>1, <2>2
<1> QED BY <1>1, <1>2, <1>6, <1>7 DEF t

LEMMA RangeWithout ==
  ASSUME NEW S, NEW s \in Seq(S), NEW k \in 1..Len(s)
  PROVE  LET rest == SubSeq(s, 1, k - 1) \o SubSeq(s, k + 1, Len(s))
         IN  rest \in Seq(S) /\ Range(s) = Range(rest) \cup {s[k]}
<1> DEFINE n == Len(s)
           a == SubSeq(s, 1, k - 1)
           b == SubSeq(s, k + 1, n)
           rest == a \o b
<1>1. n \in Nat /\ k \in Nat /\ k >= 1 /\ k <= n /\ \A i \in 1..n : s[i] \in S
  BY InRange, ElementOfSeq
<1>2. a \in Seq(S) /\ Len(a) = k - 1 /\ \A i \in 1..(k - 1) : a[i] = s[i]
  <2>1. k - 1 \in Int /\ 1 \in Int /\ (\A i \in 1..(k - 1) : s[i] \in S)
        /\ (IF 1 <= k - 1 THEN (k - 1) - 1 + 1 ELSE 0) = k - 1
        /\ (k - 1) - 1 + 1 = k - 1 /\ \A i \in 1..(k - 1) : 1 + i - 1 = i
    BY <1>1
  <2> QED BY <2>1, SubSeqProperties
<1>3. b \in Seq(S) /\ Len(b) = n - k /\ \A i \in 1..(n - k) : b[i] = s[k + i]
  <2> DEFINE m == k + 1
  <2>1. m \in Int /\ n \in Int /\ \A i \in m..n : s[i] \in S
    BY <1>1
  <2>2. /\ (IF m <= n THEN n - m + 1 ELSE 0) = n - k /\ n - m + 1 = n - k
        /\ \A i \in 1..(n - k) : m + i - 1 = k + i
    BY <1>1
  <2> HIDE DEF m, n
  <2>3. /\ SubSeq(s, m, n) \in Seq(S) /\ Len(SubSeq(s, m, n)) = IF m <= n THEN n - m + 1 ELSE 0
        /\ \A i \in 1..(n - m + 1) : SubSeq(s, m, n)[i] = s[m + i - 1]
    BY <2>1, SubSeqProperties
  <2>4. b = SubSeq(s, m, n)
    BY DEF m
  <2> HIDE DEF b
  <2> QED BY <2>2, <2>3, <2>4
<1>4. /\ rest \in Seq(S) /\ Range(rest) = Range(a) \cup Range(b)
  <2> HIDE DEF a, b
  <2> QED BY <1>2, <1>3, ConcatProperties, RangeConcatenation
<1> HIDE DEF n, a, b, rest
<1>5. /\ \A i \in 1..(k - 1) : i \in 1..n
      /\ \A i \in 1..(n - k) : k + i \in 1..n
      /\ \A i \in 1..n : i = k \/ i \in 1..(k - 1) \/ (i - k \in 1..(n - k) /\ k + (i - k) = i)
  BY <1>1
<1>s. /\ \A i \in 1..n : s[i] \in Range(s)
      /\ \A c \in Range(s) : \E i \in 1..n : s[i] = c
  BY InRange DEF n
<1>a. /\ \A i \in 1..(k - 1) : a[i] \in Range(a)
      /\ \A c \in Range(a) : \E i \in 1..(k - 1) : a[i] = c
  BY <1>2, InRange
<1>b. /\ \A i \in 1..(n - k) : b[i] \in Range(b)
      /\ \A c \in Range(b) : \E i \in 1..(n - k) : b[i] = c
  BY <1>3, InRange
<1>6. \A c \in Range(s) : c \in Range(rest) \cup {s[k]}
  <2> TAKE c \in Range(s)
  <2>1. PICK i \in 1..n : s[i] = c
    BY <1>s
  <2>2. CASE i \in 1..(k - 1)
    BY <1>2, <1>4, <1>a, <2>1, <2>2
  <2>3. CASE i - k \in 1..(n - k) /\ k + (i - k) = i
    <3>1. b[i - k] = c
      BY <1>3, <2>1, <2>3
    <3> QED BY <1>4, <1>b, <2>3, <3>1
  <2> QED BY <1>5, <2>1, <2>2, <2>3
<1>7. \A c \in Range(rest) \cup {s[k]} : c \in Range(s)
  <2>1. s[k] \in Range(s)
    BY <1>1, <1>s
  <2>2. ASSUME NEW c \in Range(a) PROVE c \in Range(s)
    <3>1. PICK i \in 1..(k - 1) : a[i] = c
      BY <1>a
    <3>2. s[i] = c /\ i \in 1..n
      BY <1>2, <1>5, <3>1
    <3> QED BY <1>s, <3>2
  <2>3. ASSUME NEW c \in Range(b) PROVE c \in Range(s)
    <3>1. PICK i \in 1..(n - k) : b[i] = c
      BY <1>b
    <3>2. s[k + i] = c /\ k + i \in 1..n
      BY <1>3, <1>5, <3>1
    <3> QED BY <1>s, <3>2
  <2> QED BY <1>4, <2>1, <2>2, <2>3
<1>8. Range(s) = Range(rest) \cup {s[k]}
  BY <1>6, <1>7
<1> QED BY <1>4, <1>8 DEF rest, a, b, n

\* The commands of the login, and a sequence where those of the set D come after one of a kind.
LoginKinds == {"NICK", "USER"}

Has(s, kind) == \E c \in Range(s) : c.kind = kind

Behind(s, D, kind) == \A i \in 1..Len(s) : s[i] \in D => \E j \in 1..(i - 1) : s[j].kind = kind

LEMMA BehindInAppend ==
  ASSUME NEW s \in Seq(Commands), NEW D, NEW kind, Behind(s, D, kind),
         NEW c \in Commands, c \in D => Has(s, kind)
  PROVE  Behind(Append(s, c), D, kind)
<1> DEFINE t == Append(s, c)
<1>1. /\ Len(t) = Len(s) + 1 /\ t[Len(s) + 1] = c
      /\ \A i \in 1..Len(s) : t[i] = s[i]
  BY AppendProperties
<1>2. /\ Len(s) \in Nat /\ \A i \in 1..Len(t) : i \in 1..Len(s) \/ i = Len(s) + 1
      /\ \A i \in 1..Len(s) : \A j \in 1..(i - 1) : j \in 1..Len(s)
      /\ (Len(s) + 1) - 1 = Len(s)
  BY <1>1, InRange
<1> HIDE DEF t
<1>3. ASSUME NEW i \in 1..Len(t), t[i] \in D PROVE \E j \in 1..(i - 1) : t[j].kind = kind
  <2>1. CASE i \in 1..Len(s)
    <3>1. t[i] = s[i]
      BY <1>1, <2>1
    <3>2. PICK j \in 1..(i - 1) : s[j].kind = kind
      BY <1>3, <2>1, <3>1 DEF Behind
    <3>3. t[j] = s[j]
      BY <1>1, <1>2, <2>1, <3>2
    <3> QED BY <3>2, <3>3
  <2>2. CASE i = Len(s) + 1
    <3>1. Has(s, kind)
      BY <1>1, <1>3, <2>2
    <3>2. PICK j \in 1..Len(s) : s[j].kind = kind
      BY <3>1, InRange DEF Has
    <3>3. t[j].kind = kind /\ j \in 1..(i - 1)
      BY <1>1, <1>2, <2>2, <3>2
    <3> QED BY <3>3
  <2> QED BY <1>2, <2>1, <2>2
<1> QED BY <1>3 DEF Behind, t

\* The queue after its k-th command was taken.
LEMMA BehindWithout ==
  ASSUME NEW s \in Seq(Commands), NEW k \in 1..Len(s), NEW D, NEW kind,
         Behind(s, D, kind), s[k].kind # kind
  PROVE  Behind(SubSeq(s, 1, k - 1) \o SubSeq(s, k + 1, Len(s)), D, kind)
<1> DEFINE n == Len(s)
           a == SubSeq(s, 1, k - 1)
           b == SubSeq(s, k + 1, n)
           rest == a \o b
           old(i) == IF i < k THEN i ELSE i + 1
<1>1. n \in Nat /\ k \in Nat /\ k >= 1 /\ k <= n /\ \A i \in 1..n : s[i] \in Commands
  BY InRange, ElementOfSeq
<1>2. a \in Seq(Commands) /\ Len(a) = k - 1 /\ \A i \in 1..(k - 1) : a[i] = s[i]
  <2>1. k - 1 \in Int /\ 1 \in Int /\ (\A i \in 1..(k - 1) : s[i] \in Commands)
        /\ (IF 1 <= k - 1 THEN (k - 1) - 1 + 1 ELSE 0) = k - 1
        /\ (k - 1) - 1 + 1 = k - 1 /\ \A i \in 1..(k - 1) : 1 + i - 1 = i
    BY <1>1
  <2> QED BY <2>1, SubSeqProperties
<1>3. b \in Seq(Commands) /\ Len(b) = n - k /\ \A i \in 1..(n - k) : b[i] = s[k + i]
  <2> DEFINE m == k + 1
  <2>1. m \in Int /\ n \in Int /\ \A i \in m..n : s[i] \in Commands
    BY <1>1
  <2>2. /\ (IF m <= n THEN n - m + 1 ELSE 0) = n - k /\ n - m + 1 = n - k
        /\ \A i \in 1..(n - k) : m + i - 1 = k + i
    BY <1>1
  <2> HIDE DEF m, n
  <2>3. /\ SubSeq(s, m, n) \in Seq(Commands) /\ Len(SubSeq(s, m, n)) = IF m <= n THEN n - m + 1 ELSE 0
        /\ \A i \in 1..(n - m + 1) : SubSeq(s, m, n)[i] = s[m + i - 1]
    BY <2>1, SubSeqProperties
  <2>4. b = SubSeq(s, m, n)
    BY DEF m
  <2> HIDE DEF b
  <2> QED BY <2>2, <2>3, <2>4
<1>4. /\ Len(rest) = Len(a) + Len(b)
      /\ \A i \in 1..(Len(a) + Len(b)) : rest[i] = IF i <= Len(a) THEN a[i] ELSE b[i - Len(a)]
  <2> HIDE DEF a, b
  <2> QED BY <1>2, <1>3, ConcatProperties
<1> HIDE DEF a, b, rest
<1>5. Len(rest) = n - 1 /\ \A i \in 1..(n - 1) : rest[i] = s[old(i)]
  <2>1. Len(a) + Len(b) = n - 1
    BY <1>1, <1>2, <1>3 DEF n
  <2>2. ASSUME NEW i \in 1..(n - 1) PROVE rest[i] = s[old(i)]
    <3>1. CASE i < k
      <4>1. i \in 1..(k - 1) /\ i <= Len(a) /\ old(i) = i
        BY <1>1, <1>2, <3>1
      <4> QED BY <1>2, <1>4, <2>1, <4>1
    <3>2. CASE ~(i < k)
      <4>1. /\ i - (k - 1) \in 1..(n - k) /\ ~(i <= k - 1) /\ old(i) = i + 1
            /\ k + (i - (k - 1)) = i + 1
        BY <1>1, <3>2 DEF n
      <4>2. rest[i] = b[i - (k - 1)]
        BY <1>2, <1>4, <2>1, <4>1
      <4> QED BY <1>3, <4>1, <4>2
    <3> QED BY <3>1, <3>2
  <2> QED BY <1>4, <2>1, <2>2
<1>6. ASSUME NEW i \in 1..(n - 1), rest[i] \in D
      PROVE  \E j \in 1..(i - 1) : rest[j].kind = kind
  <2>1. old(i) \in 1..n /\ s[old(i)] \in D
    BY <1>1, <1>5, <1>6
  <2>2. PICK j \in 1..(old(i) - 1) : s[j].kind = kind
    BY <2>1 DEF Behind, n
  <2>3. j # k
    BY <2>2
  <2>4. \E l \in 1..(i - 1) : l \in 1..(n - 1) /\ old(l) = j
    <3>1. CASE j < k
      <4>1. j \in 1..(i - 1) /\ j \in 1..(n - 1) /\ old(j) = j
        BY <1>1, <2>2, <3>1
      <4> QED BY <4>1
    <3>2. CASE ~(j < k)
      <4>1. j - 1 \in 1..(i - 1) /\ j - 1 \in 1..(n - 1) /\ old(j - 1) = j
        BY <1>1, <2>2, <2>3, <3>2
      <4> QED BY <4>1
    <3> QED BY <3>1, <3>2
  <2> HIDE DEF old
  <2> QED BY <1>5, <2>2, <2>4
<1>7. Behind(rest, D, kind)
  BY <1>5, <1>6 DEF Behind
<1> QED BY <1>7 DEF rest, a, b, n

\* The command that is taken is urgent if any is, and of those the oldest.
LEMMA FirstIs ==
  ASSUME NEW q \in Seq(Commands), q # <<>>
  PROVE  /\ First(q) \in 1..Len(q)
         /\ ~Urgent(q[First(q)]) => \A c \in Range(q) : ~Urgent(c)
         /\ Urgent(q[First(q)]) => \A j \in 1..(First(q) - 1) : ~Urgent(q[j])
<1> DEFINE U == {i \in 1..Len(q) : Urgent(q[i])}
           Best(i) == \A j \in DOMAIN q : \/ Urgent(q[i]) /\ ~Urgent(q[j])
                                          \/ Urgent(q[i]) = Urgent(q[j]) /\ i <= j
<1>1. Len(q) \in Nat /\ Len(q) # 0 /\ DOMAIN q = 1..Len(q)
  BY InRange, EmptySeq
<1>2. \A i : Urgent(q[i]) \in BOOLEAN
  BY DEF Urgent
<1>3. \E i \in DOMAIN q : Best(i)
  <2>1. CASE U # {}
    <3>1. U \in SUBSET Nat
      BY <1>1
    <3>2. PICK m \in U : \A k \in U : m <= k
      BY <2>1, <3>1, LeastOf
    <3>3. ASSUME NEW j \in DOMAIN q
          PROVE  \/ Urgent(q[m]) /\ ~Urgent(q[j])
                 \/ Urgent(q[m]) = Urgent(q[j]) /\ m <= j
      <4>1. Urgent(q[m])
        BY <3>2
      <4>2. CASE Urgent(q[j])
        <5>1. j \in U
          BY <1>1, <4>2
        <5>2. m <= j
          BY <3>2, <5>1
        <5> QED BY <1>2, <4>1, <4>2, <5>2
      <4>3. CASE ~Urgent(q[j])
        BY <4>1, <4>3
      <4> QED BY <4>2, <4>3
    <3> QED BY <1>1, <3>2, <3>3
  <2>2. CASE U = {}
    <3>1. \A j \in DOMAIN q : ~Urgent(q[j])
      BY <1>1, <2>2
    <3>2. 1 \in DOMAIN q /\ \A j \in DOMAIN q : 1 <= j
      BY <1>1
    <3>3. ASSUME NEW j \in DOMAIN q PROVE Urgent(q[1]) = Urgent(q[j])
      BY <1>2, <3>1, <3>2
    <3> QED BY <3>2, <3>3
  <2> QED BY <2>1, <2>2
<1>4. First(q) = CHOOSE i \in DOMAIN q : Best(i)
  BY DEF First
<1>5. First(q) \in DOMAIN q /\ Best(First(q))
  <2> HIDE DEF Best
  <2> QED BY <1>3, <1>4
<1>6. ~Urgent(q[First(q)]) => \A j \in DOMAIN q : ~Urgent(q[j])
  BY <1>2, <1>5
<1>7. ASSUME Urgent(q[First(q)]), NEW j \in 1..(First(q) - 1) PROVE ~Urgent(q[j])
  <2>1. First(q) \in Nat /\ j \in DOMAIN q /\ ~(First(q) <= j)
    BY <1>1, <1>5
  <2> QED BY <1>2, <1>5, <1>7, <2>1
<1> QED BY <1>1, <1>5, <1>6, <1>7, InRange

\* What remove_if keeps, by induction over the queue.
Runs(q, g, m) ==
  g = [i \in 0..m |-> IF i = 0 THEN <<>>
                      ELSE IF Urgent(q[i]) THEN Append(g[i - 1], q[i]) ELSE g[i - 1]]

LEMMA RunsExist == ASSUME NEW q, NEW m \in Nat PROVE \E g : Runs(q, g, m)
<1> DEFINE S == {k \in Nat : \E g : Runs(q, g, k)}
<1>1. 0 \in S
  <2>1. Runs(q, [i \in 0..0 |-> <<>>], 0)
    BY DEF Runs
  <2> QED BY <2>1
<1>2. ASSUME NEW k \in S PROVE k + 1 \in S
  <2>1. PICK g : Runs(q, g, k)
    OBVIOUS
  <2> DEFINE next == IF Urgent(q[k + 1]) THEN Append(g[k], q[k + 1]) ELSE g[k]
             h == [i \in 0..(k + 1) |-> IF i = k + 1 THEN next ELSE g[i]]
  <2>2. \A i \in 0..k : h[i] = g[i]
    OBVIOUS
  <2>3. \A i \in 0..k : g[i] = IF i = 0 THEN <<>>
                               ELSE IF Urgent(q[i]) THEN Append(g[i - 1], q[i]) ELSE g[i - 1]
    BY <2>1 DEF Runs
  <2>4. \A i \in 0..(k + 1) :
          h[i] = IF i = 0 THEN <<>>
                 ELSE IF Urgent(q[i]) THEN Append(h[i - 1], q[i]) ELSE h[i - 1]
    <3> TAKE i \in 0..(k + 1)
    <3>1. CASE i = k + 1
      <4>1. h[k] = g[k] /\ i # 0 /\ i - 1 = k /\ h[i] = next
        BY <2>2, <3>1
      <4> QED BY <3>1, <4>1
    <3>2. CASE i # k + 1
      <4>1. i \in 0..k /\ (i # 0 => i - 1 \in 0..k)
        BY <3>2
      <4> HIDE DEF h
      <4> QED BY <2>2, <2>3, <4>1
    <3> QED BY <3>1, <3>2
  <2>5. h = [i \in 0..(k + 1) |-> h[i]]
    OBVIOUS
  <2> HIDE DEF h
  <2>6. Runs(q, h, k + 1)
    BY <2>4, <2>5 DEF Runs
  <2> QED BY <2>6
<1>3. S = Nat
  <2> HIDE DEF S
  <2>1. S \in SUBSET Nat
    BY DEF S
  <2> QED BY <1>1, <1>2, <2>1, AllOfNat
<1> QED BY <1>3

LEMMA KeptIs ==
  ASSUME NEW q \in Seq(Commands)
  PROVE  /\ KeptUrgent(q) \in Seq(Commands) /\ Range(KeptUrgent(q)) = {c \in Range(q) : Urgent(c)}
         /\ \A D, kind : kind \in LoginKinds /\ Behind(q, D, kind) => Behind(KeptUrgent(q), D, kind)
<1> DEFINE f == CHOOSE g : Runs(q, g, Len(q))
           To(m) == {c \in Range(q) : Urgent(c) /\ \E i \in 1..m : q[i] = c}
           InLine(g) == \A D, kind : kind \in LoginKinds /\ Behind(q, D, kind) => Behind(g, D, kind)
           S == {m \in Nat : m <= Len(q) => /\ f[m] \in Seq(Commands) /\ Range(f[m]) = To(m)
                                            /\ InLine(f[m])}
<1>1. Len(q) \in Nat
  BY InRange
<1>2. Runs(q, f, Len(q))
  BY <1>1, RunsExist
<1>3. KeptUrgent(q) = f[Len(q)]
  BY DEF KeptUrgent, Runs
<1>4. \A i \in 0..Len(q) : f[i] = IF i = 0 THEN <<>>
                                 ELSE IF Urgent(q[i]) THEN Append(f[i - 1], q[i]) ELSE f[i - 1]
  BY <1>2 DEF Runs
<1> HIDE DEF f
<1>5. 0 \in S
  <2>1. f[0] = <<>> /\ <<>> \in Seq(Commands)
    BY <1>1, <1>4, EmptySeq
  <2>2. Range(f[0]) = {}
    BY <2>1, InRange, EmptySeq DEF Range
  <2>3. To(0) = {}
    OBVIOUS
  <2>4. Len(f[0]) = 0 /\ InLine(f[0])
    BY <2>1, EmptySeq DEF Behind
  <2> HIDE DEF InLine
  <2> QED BY <2>1, <2>2, <2>3, <2>4
<1>6. ASSUME NEW m \in S PROVE m + 1 \in S
  <2>1. SUFFICES ASSUME m + 1 <= Len(q)
                 PROVE  f[m + 1] \in Seq(Commands) /\ Range(f[m + 1]) = To(m + 1) /\ InLine(f[m + 1])
    OBVIOUS
  <2>2. /\ m \in Nat /\ m + 1 \in 1..Len(q) /\ m + 1 \in 0..Len(q) /\ m + 1 # 0
        /\ (m + 1) - 1 = m /\ m <= Len(q)
        /\ \A i \in 1..(m + 1) : i = m + 1 \/ i \in 1..m
        /\ \A i \in 1..m : i \in 1..(m + 1)
        /\ m + 1 \in 1..(m + 1)
    BY <1>1, <2>1
  <2>3. f[m] \in Seq(Commands) /\ Range(f[m]) = To(m) /\ InLine(f[m])
    BY <2>2
  <2>4. f[m + 1] = IF Urgent(q[m + 1]) THEN Append(f[m], q[m + 1]) ELSE f[m]
    BY <1>4, <2>2
  <2>5. q[m + 1] \in Commands /\ q[m + 1] \in Range(q)
    BY <2>2, InRange
  <2> DEFINE c == q[m + 1]
  <2>6. CASE Urgent(c)
    <3>1. f[m + 1] \in Seq(Commands) /\ Range(f[m + 1]) = Range(f[m]) \cup {c}
      BY <2>3, <2>4, <2>5, <2>6, RangeOfAppend
    <3>2. To(m + 1) = To(m) \cup {c}
      BY <2>2, <2>5, <2>6
    <3>3. ASSUME NEW D, NEW kind, kind \in LoginKinds, Behind(q, D, kind)
          PROVE  Behind(f[m + 1], D, kind)
      <4>1. c \in D => Has(f[m], kind)
        <5>1. SUFFICES ASSUME c \in D PROVE Has(f[m], kind)
          OBVIOUS
        <5>2. PICK j \in 1..m : q[j].kind = kind
          BY <2>2, <3>3, <5>1 DEF Behind
        <5>3. q[j] \in Range(q) /\ Urgent(q[j])
          BY <2>2, <3>3, <5>2, InRange DEF Urgent, LoginKinds
        <5>4. q[j] \in Range(f[m])
          BY <2>3, <5>3
        <5> QED BY <5>2, <5>4 DEF Has
      <4>2. Behind(f[m], D, kind)
        BY <2>3, <3>3
      <4> HIDE DEF c
      <4> QED BY <2>3, <2>4, <2>5, <2>6, <4>1, <4>2, BehindInAppend DEF c
    <3> QED BY <2>3, <3>1, <3>2, <3>3
  <2>7. CASE ~Urgent(c)
    <3>1. To(m + 1) = To(m)
      BY <2>2, <2>7
    <3> QED BY <2>3, <2>4, <2>7, <3>1
  <2> QED BY <2>6, <2>7
<1>7. S = Nat
  <2> HIDE DEF S
  <2>1. S \in SUBSET Nat
    BY DEF S
  <2> QED BY <1>5, <1>6, <2>1, AllOfNat
<1>8. f[Len(q)] \in Seq(Commands) /\ Range(f[Len(q)]) = To(Len(q)) /\ InLine(f[Len(q)])
  <2>1. Len(q) \in S
    BY <1>1, <1>7
  <2>2. Len(q) <= Len(q)
    BY <1>1
  <2> QED BY <2>1, <2>2
<1>9. To(Len(q)) = {c \in Range(q) : Urgent(c)}
  BY InRange
<1> QED BY <1>3, <1>8, <1>9

-----------------------------------------------------------------------------
(* Whose the commands are *)

\* The output thread has a command in its hands.
Holding == {"got", "hold"}

CommandTypes ==
  /\ session \in 0..MaxSessions /\ issued \in 0..MaxCommands
  /\ wire \in Seq(Commands) /\ scheduled \in Seq(Commands) /\ queue \in Seq(Commands)
  /\ out \in Holding => held \in Commands
  /\ out \notin Holding => held = NoCmd
  /\ todo \in [Threads -> Seq(Commands)]
  /\ \A t \in Threads : at[t] \in Issuing => todo[t] # <<>>

\* A command is of a session that was; one of a session that is not welcomed is of those
\* sent at once, if it is past the test of command().
Old(c) == c.born <= session
Ours(c) == Old(c) /\ (~welcomed => c.born # session \/ Immediate(c))

Passed == {"check", "clear", "insert"}

CommandsAreOurs ==
  /\ \A c \in Range(scheduled) : Old(c)
  /\ \A t \in Threads : \A c \in Range(todo[t]) : Old(c)
  /\ \A t \in Threads : at[t] \in Passed => Ours(Head(todo[t]))
  /\ \A c \in Range(queue) : Ours(c)
  /\ \A c \in Range(wire) : Ours(c)
  /\ held # NoCmd => Ours(held)

CommandsInv == CommandTypes /\ CommandsAreOurs

\* The actions that only move threads, or take the first command out of a thread's hands.
LEMMA CommandKinds ==
  ASSUME NEW kind \in {"QUIT", "NICK", "USER", "PONG", "JOIN", "REJOIN", "PRIVMSG", "CLEARBUFFER"},
         NEW id \in 0..MaxCommands, session \in 0..MaxSessions
  PROVE  /\ Cmd(kind, id) \in Commands /\ Cmd(kind, id).kind = kind /\ Old(Cmd(kind, id))
         /\ welcomed \/ kind \in {"NICK", "USER", "PONG"} => Ours(Cmd(kind, id))
BY BoundsAssumption DEF Cmd, Commands, Old, Ours, Immediate

LEMMA NotNoCmd == NoCmd \notin Commands
BY DEF NoCmd, Commands

LEMMA CommandsStart == Init => CommandsInv
<1> SUFFICES ASSUME Init PROVE CommandsInv
  OBVIOUS
<1>1. session = 0 /\ session \in 0..MaxSessions /\ 0 \in 0..MaxCommands
  BY BoundsAssumption DEF Init
<1> DEFINE join == Cmd("JOIN", 0)
<1>2. join \in Commands /\ Old(join)
  BY <1>1, CommandKinds
<1>3. /\ scheduled = <<join>> /\ wire = <<>> /\ queue = <<>> /\ held = NoCmd
      /\ issued = 0 /\ todo = [t \in Threads |-> <<>>] /\ at = [t \in Threads |-> "idle"]
  BY DEF Init
<1> HIDE DEF join
<1>4. <<>> \in Seq(Commands) /\ Range(<<>>) = {}
  BY EmptySeq, InRange DEF Range
<1>5. scheduled \in Seq(Commands) /\ Range(scheduled) = {join}
  <2> DEFINE none == <<>>
  <2>1. none \in Seq(Commands)
    BY <1>4
  <2>2. scheduled = Append(none, join)
    BY <1>3
  <2>3. Range(none) = {}
    BY <1>4
  <2> HIDE DEF none
  <2> QED BY <1>2, <2>1, <2>2, <2>3, RangeOfAppend
<1>6. CommandTypes
  BY <1>1, <1>3, <1>4, <1>5 DEF Init, CommandTypes, Issuing, Holding
<1>7. CommandsAreOurs
  BY <1>2, <1>3, <1>4, <1>5 DEF CommandsAreOurs, Passed
<1> QED BY <1>6, <1>7 DEF CommandsInv

\* What was ours stays ours while the session stays the same, or a new one opens.
LEMMA OursStay ==
  ASSUME CommandTypes,
         \/ session' = session /\ (welcomed => welcomed')
         \/ session' = session + 1 /\ session' \in 0..MaxSessions
  PROVE  \A c \in Commands : (Old(c) => Old(c)') /\ (Ours(c) => Ours(c)')
<1> TAKE c \in Commands
<1>1. c.born \in Nat /\ session \in Nat
  BY BoundsAssumption DEF Commands, CommandTypes
<1>2. CASE session' = session /\ (welcomed => welcomed')
  BY <1>1, <1>2 DEF Old, Ours, Immediate
<1>3. CASE session' = session + 1
  BY <1>1, <1>3 DEF Old, Ours, Immediate
<1> QED BY <1>2, <1>3

\* Steps that pass no commands on.
LEMMA QuietKeepsCommands ==
  ASSUME CommandsInv, UNCHANGED <<session, issued, wire, scheduled, queue, held, todo>>,
         welcomed => welcomed',
         \A t \in Threads : at'[t] \in Issuing => at[t] \in Issuing,
         \A t \in Threads : at'[t] \in Passed => at[t] \in Passed,
         out' = out \/ (out \notin Holding /\ out' \notin Holding)
  PROVE  CommandsInv'
<1>1. CommandTypes'
  BY DEF CommandsInv, CommandTypes
<1>2. \A c \in Commands : (Old(c) => Old(c)') /\ (Ours(c) => Ours(c)')
  BY OursStay DEF CommandsInv
<1>3. /\ \A c \in Range(scheduled) \cup Range(queue) \cup Range(wire) : c \in Commands
      /\ \A t \in Threads : \A c \in Range(todo[t]) : c \in Commands
      /\ \A t \in Threads : at[t] \in Passed => Head(todo[t]) \in Commands
      /\ held # NoCmd => held \in Commands
  <2>1. \A t \in Threads : todo[t] \in Seq(Commands) /\ (at[t] \in Issuing => todo[t] # <<>>)
    BY DEF CommandsInv, CommandTypes
  <2>2. \A t \in Threads : at[t] \in Passed => Head(todo[t]) \in Commands
    BY <2>1, RangeOfTail DEF Passed, Issuing
  <2> QED BY <2>1, <2>2, InRange DEF CommandsInv, CommandTypes
<1>4. CommandsAreOurs'
  BY <1>2, <1>3 DEF CommandsInv, CommandsAreOurs
<1> QED BY <1>1, <1>4 DEF CommandsInv

\* command(): what is not sent at once waits until the session is welcomed.
LEMMA CommandKeepsCommands ==
  ASSUME ThreadsInv, CommandsInv, NEW t \in Threads, Command(t)
  PROVE  CommandsInv'
<1> DEFINE c == Head(todo[t])
<1>1. /\ todo[t] \in Seq(Commands) /\ todo[t] # <<>> /\ at[t] \in Issuing
      /\ \A u \in Threads : todo[u] \in Seq(Commands)
  BY DEF CommandsInv, CommandTypes, Command, CommandTest, CommandCheck, CommandClear, CommandInsert, Issuing
<1>2. /\ c \in Commands /\ Tail(todo[t]) \in Seq(Commands) /\ Len(todo[t]) \in Nat
      /\ Range(todo[t]) = {c} \cup Range(Tail(todo[t])) /\ (Len(todo[t]) > 1 => Tail(todo[t]) # <<>>)
  BY <1>1, RangeOfTail
<1>3. Old(c) /\ \A d \in Range(Tail(todo[t])) : Old(d)
  BY <1>2 DEF CommandsInv, CommandsAreOurs
<1> HIDE DEF c
<1>4. /\ UNCHANGED <<session, issued, welcomed, wire, held>>
      /\ \A d : (Old(d)' <=> Old(d)) /\ (Ours(d)' <=> Ours(d))
  BY DEF Command, CommandTest, CommandCheck, CommandClear, CommandInsert, socketVars, inputVars, queueVars,
     Old, Ours
<1>5. out' = out \/ (out \notin Holding /\ out' \notin Holding)
  BY DEF Holding, Command, CommandTest, CommandCheck, CommandClear, CommandInsert, queueVars, OutNotified
<1>6. \A u \in Threads \ {t} : at'[u] = at[u]
  BY CommandMoves DEF Moves, ThreadsInv
\* The step that takes the command out of the thread's hands.
<1>7. ASSUME Resume(t)
      PROVE  /\ todo' \in [Threads -> Seq(Commands)] /\ at'[t] \notin Passed
             /\ at'[t] \in Issuing => todo'[t] # <<>>
             /\ \A u \in Threads \ {t} : todo'[u] = todo[u]
             /\ \A d \in Range(todo'[t]) : Old(d)
  <2>1. todo'[t] = Tail(todo[t]) /\ \A u \in Threads \ {t} : todo'[u] = todo[u]
    BY <1>7 DEF Resume, CommandsInv, CommandTypes
  <2>2. todo' \in [Threads -> Seq(Commands)]
    BY <1>2, <1>7 DEF Resume, CommandsInv, CommandTypes
  <2>3. at'[t] = IF Len(todo[t]) > 1 THEN "command"
                 ELSE [main |-> "spawn", irc_in |-> "next", client |-> "idle"][t]
    BY <1>7 DEF Resume, Goto, ThreadsInv, ThreadTypes
  <2>4. at'[t] \in {"command", "spawn", "next", "idle"} /\ (at'[t] = "command" => Len(todo[t]) > 1)
    BY <2>3 DEF Threads
  <2> QED BY <1>2, <1>3, <2>1, <2>2, <2>4 DEF Passed, Issuing
<1>8. CASE CommandTest(t)
  <2>1. CASE status # "CONNECTED" /\ ~Immediate(c)
    <3>1. scheduled' = Append(scheduled, c) /\ Resume(t) /\ queue' = queue
      BY <1>8, <2>1 DEF CommandTest, queueVars, c
    <3>2. scheduled' \in Seq(Commands) /\ \A d \in Range(scheduled') : Old(d)
      BY <1>2, <1>3, <3>1, RangeOfAppend DEF CommandsInv, CommandTypes, CommandsAreOurs
    <3>3. CommandTypes'
      BY <1>4, <1>5, <1>6, <1>7, <3>1, <3>2 DEF CommandsInv, CommandTypes
    <3>4. CommandsAreOurs'
      BY <1>4, <1>6, <1>7, <3>1, <3>2 DEF CommandsInv, CommandsAreOurs
    <3> QED BY <3>3, <3>4 DEF CommandsInv
  <2>2. CASE status = "CONNECTED" \/ Immediate(c)
    <3>1. UNCHANGED <<todo, scheduled, queue>> /\ at[t] = "command"
      BY <1>8, <2>2 DEF CommandTest, queueVars, c
    <3>2. Ours(c)
      BY <1>3, <2>2 DEF ThreadsInv, Places, Ours
    <3>3. CommandTypes'
      BY <1>1, <1>4, <1>5, <1>6, <3>1 DEF CommandsInv, CommandTypes
    <3>4. CommandsAreOurs'
      BY <1>4, <1>6, <3>1, <3>2 DEF CommandsInv, CommandsAreOurs, c
    <3> QED BY <3>3, <3>4 DEF CommandsInv
  <2> QED BY <2>1, <2>2
<1>9. CASE CommandCheck(t) \/ CommandClear(t)
  <2>1. UNCHANGED <<todo, scheduled>> /\ at[t] \in Passed
    BY <1>9 DEF CommandCheck, CommandClear, Passed
  <2>2. queue' \in Seq(Commands) /\ \A d \in Range(queue') : d \in Range(queue)
    BY <1>9, KeptIs DEF CommandCheck, CommandClear, queueVars, CommandsInv, CommandTypes
  <2>3. CommandTypes'
    BY <1>1, <1>4, <1>5, <1>6, <2>1, <2>2 DEF CommandsInv, CommandTypes
  <2>4. CommandsAreOurs'
    BY <1>4, <1>6, <2>1, <2>2 DEF CommandsInv, CommandsAreOurs
  <2> QED BY <2>3, <2>4 DEF CommandsInv
<1>10. CASE CommandInsert(t)
  <2>1. UNCHANGED scheduled /\ at[t] \in Passed /\ Resume(t)
    BY <1>10 DEF CommandInsert, Passed
  <2>2. queue' \in Seq(Commands) /\ \A d \in Range(queue') : d \in Range(queue) \cup {c}
    <3>1. queue \in Seq(Commands)
      BY DEF CommandsInv, CommandTypes
    <3>2. /\ Append(queue, c) \in Seq(Commands)
          /\ Range(Append(queue, c)) = Range(queue) \cup {c}
      BY <1>2, <3>1, RangeOfAppend
    <3>3. queue' = queue \/ queue' = Append(queue, c)
      BY <1>10 DEF CommandInsert, c
    <3> QED BY <3>1, <3>2, <3>3
  <2>3. Ours(c)
    BY <2>1 DEF CommandsInv, CommandsAreOurs, c
  <2>4. CommandTypes'
    BY <1>4, <1>5, <1>6, <1>7, <2>1, <2>2 DEF CommandsInv, CommandTypes
  <2>5. CommandsAreOurs'
    BY <1>4, <1>6, <1>7, <2>1, <2>2, <2>3 DEF CommandsInv, CommandsAreOurs
  <2> QED BY <2>4, <2>5 DEF CommandsInv
<1> QED BY <1>8, <1>9, <1>10 DEF Command

\* Appending a command to what waits or to what was sent.
LEMMA ReconnectKeepsCommands ==
  ASSUME ThreadsInv, CommandsInv, NEW t \in {"main", "irc_in"}, StartReconnect(t)
  PROVE  CommandsInv'
<1>1. /\ UNCHANGED <<session, issued, welcomed, wire, queue, held, out, todo>>
      /\ scheduled' \in {scheduled, Append(scheduled, Cmd("REJOIN", 0))} /\ Goto(t, "quit")
  BY DEF StartReconnect, socketVars, inputVars, queueVars
<1>2. \A u \in Threads : at'[u] \in Issuing \cup Passed => at'[u] = at[u]
  BY <1>1, LabelNames DEF ThreadsInv, ThreadTypes, Goto, Issuing, Passed
<1>3. Cmd("REJOIN", 0) \in Commands /\ Old(Cmd("REJOIN", 0))
  BY BoundsAssumption, CommandKinds DEF CommandsInv, CommandTypes
<1> DEFINE c == Cmd("REJOIN", 0)
<1> HIDE DEF c
<1>4. Append(scheduled, c) \in Seq(Commands) /\ Range(Append(scheduled, c)) = Range(scheduled) \cup {c}
  BY <1>3, RangeOfAppend DEF c, CommandsInv, CommandTypes
<1>5. scheduled' \in Seq(Commands) /\ \A d \in Range(scheduled') : Old(d)
  BY <1>1, <1>3, <1>4 DEF c, CommandsInv, CommandTypes, CommandsAreOurs
<1>6. \A d : (Old(d)' <=> Old(d)) /\ (Ours(d)' <=> Ours(d))
  BY <1>1 DEF Old, Ours
<1>7. CommandTypes'
  BY <1>1, <1>2, <1>5 DEF CommandsInv, CommandTypes
<1>8. CommandsAreOurs'
  BY <1>1, <1>2, <1>5, <1>6 DEF CommandsInv, CommandsAreOurs
<1> QED BY <1>7, <1>8 DEF CommandsInv

LEMMA QuitKeepsCommands ==
  ASSUME ThreadsInv, CommandsInv, NEW t \in {"main", "irc_in"}, Quit(t)
  PROVE  CommandsInv'
<1> DEFINE c == Cmd("QUIT", 0)
<1>1. /\ UNCHANGED <<session, issued, welcomed, scheduled, queue, held, out, todo>>
      /\ wire' = wire \/ (status = "CONNECTED" /\ wire' = Append(wire, c))
  BY DEF Quit, inputVars, queueVars
<1>2. \A u \in Threads : at'[u] \in Issuing \cup Passed => at'[u] = at[u]
  BY LabelNames DEF Quit, ThreadsInv, ThreadTypes, Goto, Issuing, Passed
<1>3. c \in Commands /\ (status = "CONNECTED" => Ours(c))
  BY BoundsAssumption, CommandKinds DEF CommandsInv, CommandTypes, ThreadsInv, Places
<1> HIDE DEF c
<1>4. Append(wire, c) \in Seq(Commands) /\ Range(Append(wire, c)) = Range(wire) \cup {c}
  BY <1>3, RangeOfAppend DEF CommandsInv, CommandTypes
<1>5. wire' \in Seq(Commands) /\ \A d \in Range(wire') : Ours(d)
  BY <1>1, <1>3, <1>4 DEF CommandsInv, CommandTypes, CommandsAreOurs
<1>6. \A d : (Old(d)' <=> Old(d)) /\ (Ours(d)' <=> Ours(d))
  BY <1>1 DEF Old, Ours
<1>7. CommandTypes'
  BY <1>1, <1>2, <1>5 DEF CommandsInv, CommandTypes
<1>8. CommandsAreOurs'
  BY <1>1, <1>2, <1>5, <1>6 DEF CommandsInv, CommandsAreOurs
<1> QED BY <1>7, <1>8 DEF CommandsInv

LEMMA DisconnectKeepsCommands ==
  ASSUME ThreadsInv, CommandsInv, NEW t \in {"main", "irc_in"}, Disconnect(t)
  PROVE  CommandsInv'
<1>1. CASE Quit(t)
  BY <1>1, QuitKeepsCommands
<1>2. CASE Close(t) \/ Lock(t) \/ StopQueue(t) \/ NotifyQueue(t) \/ JoinInput(t)
  <2>1. UNCHANGED <<session, issued, wire, scheduled, queue, held, todo, welcomed>>
    BY <1>2 DEF Close, Lock, StopQueue, NotifyQueue, JoinInput, socketVars, inputVars, queueVars
  <2>2. out' = out \/ (out \notin Holding /\ out' \notin Holding)
    BY <1>2 DEF Holding, Close, Lock, StopQueue, NotifyQueue, JoinInput, queueVars, OutNotified
  <2>3. \A u \in Threads : at'[u] \in Issuing \cup Passed => at'[u] = at[u]
    <3>1. ThreadTypes /\ t \in Threads
      BY DEF ThreadsInv, Threads
    <3>2. CASE JoinInput(t) /\ t = "main"
      BY <3>1, <3>2, DisconnectMoves, LabelNames DEF Issuing, Passed
    <3>3. CASE ~(JoinInput(t) /\ t = "main")
      <4>1. \/ Moves(t, "close", "lock") \/ Moves(t, "lock", "stop") \/ Moves(t, "stop", "notify")
            \/ Moves(t, "notify", "join_in") \/ Moves(t, "join_in", "crashed")
        BY <1>2, <3>1, <3>3, DisconnectMoves
      <4> QED BY <4>1 DEF Moves, Issuing, Passed
    <3> QED BY <3>2, <3>3
  <2> QED BY <2>1, <2>2, <2>3, QuietKeepsCommands DEF Passed, Issuing
<1> QED BY <1>1, <1>2 DEF Disconnect

\* A new socket: what was ours is of an earlier session from now on.
LEMMA OpenKeepsCommands == ASSUME ThreadsInv, CommandsInv, OpenSocket PROVE CommandsInv'
<1>1. /\ UNCHANGED <<issued, scheduled, queue, held, out, todo>> /\ wire' = <<>>
      /\ session' = session + 1 /\ Goto("main", "login") /\ session < MaxSessions
  BY DEF OpenSocket
<1>2. session' \in 0..MaxSessions
  BY <1>1, BoundsAssumption DEF CommandsInv, CommandTypes
<1>3. \A c \in Commands : (Old(c) => Old(c)') /\ (Ours(c) => Ours(c)')
  BY <1>1, <1>2, OursStay DEF CommandsInv
<1>4. \A u \in Threads : at'[u] \in Issuing \cup Passed => at'[u] = at[u]
  BY <1>1, LabelNames DEF ThreadsInv, ThreadTypes, Goto, Issuing, Passed
<1>5. wire' \in Seq(Commands) /\ Range(wire') = {}
  BY <1>1, EmptySeq, InRange DEF Range
<1>6. /\ \A c \in Range(scheduled) \cup Range(queue) : c \in Commands
      /\ \A t \in Threads : \A c \in Range(todo[t]) : c \in Commands
      /\ \A t \in Threads : at[t] \in Passed => Head(todo[t]) \in Commands
      /\ held # NoCmd => held \in Commands
  <2>1. \A t \in Threads : todo[t] \in Seq(Commands) /\ (at[t] \in Issuing => todo[t] # <<>>)
    BY DEF CommandsInv, CommandTypes
  <2>2. \A t \in Threads : at[t] \in Passed => Head(todo[t]) \in Commands
    BY <2>1, RangeOfTail DEF Passed, Issuing
  <2> QED BY <2>1, <2>2, InRange DEF CommandsInv, CommandTypes
<1>7. CommandTypes'
  BY <1>1, <1>2, <1>4, <1>5 DEF CommandsInv, CommandTypes
<1>8. CommandsAreOurs'
  BY <1>1, <1>3, <1>4, <1>5, <1>6 DEF CommandsInv, CommandsAreOurs
<1> QED BY <1>7, <1>8 DEF CommandsInv

\* A thread is given commands of its own to issue.
LEMMA NewTodoKeepsCommands ==
  ASSUME ThreadsInv, CommandsInv, NEW t \in Threads, NEW s \in Seq(Commands),
         UNCHANGED <<session, wire, queue, held, out, welcomed>>, issued' \in 0..MaxCommands,
         scheduled' \in {scheduled, <<>>},
         todo' = [todo EXCEPT ![t] = s], \A c \in Range(s) : Old(c),
         \A u \in Threads \ {t} : at'[u] = at[u],
         at'[t] \notin Passed, at'[t] \in Issuing => s # <<>>
  PROVE  CommandsInv'
<1>1. \A d : (Old(d)' <=> Old(d)) /\ (Ours(d)' <=> Ours(d))
  BY DEF Old, Ours
<1>2. <<>> \in Seq(Commands) /\ Range(<<>>) = {}
  BY EmptySeq, InRange DEF Range
<1>3. scheduled' \in Seq(Commands) /\ \A d \in Range(scheduled') : Old(d)
  BY <1>2 DEF CommandsInv, CommandTypes, CommandsAreOurs
<1>4. todo' \in [Threads -> Seq(Commands)] /\ todo'[t] = s /\ \A u \in Threads \ {t} : todo'[u] = todo[u]
  BY DEF CommandsInv, CommandTypes
<1>5. CommandTypes'
  BY <1>3, <1>4 DEF CommandsInv, CommandTypes
<1>6. CommandsAreOurs'
  BY <1>1, <1>3, <1>4 DEF CommandsInv, CommandsAreOurs
<1> QED BY <1>5, <1>6 DEF CommandsInv

LEMMA MainKeepsCommands ==
  ASSUME ThreadsInv, CommandsInv,
         StartConnect \/ StartDisconnect \/ StartReconnect("main") \/ Main
  PROVE  CommandsInv'
<1>1. CASE StartConnect \/ StartDisconnect \/ JoinOutput \/ Connect \/ OpenFails \/ Spawn
  <2>1. UNCHANGED <<session, issued, wire, scheduled, queue, held, todo, welcomed>>
    BY <1>1 DEF StartConnect, StartDisconnect, JoinOutput, Connect, OpenFails, Spawn,
       socketVars, inputVars, queueVars
  <2>2. out' = out \/ (out \notin Holding /\ out' \notin Holding)
    BY <1>1 DEF Holding, StartConnect, StartDisconnect, JoinOutput, Connect, OpenFails, Spawn, queueVars
  <2>3. \A u \in Threads : at'[u] \in Issuing \cup Passed => at'[u] = at[u]
    <3>1. CASE Spawn
      BY <3>1, MainMoves, LabelNames DEF ThreadsInv, Issuing, Passed
    <3>2. CASE ~Spawn
      <4>1. \E from \in Labels, to \in {"idle", "connect", "open", "quit"} : Moves("main", from, to)
        BY <1>1, <3>2, MainMoves, LabelNames DEF ThreadsInv
      <4> QED BY <4>1 DEF Moves, Issuing, Passed
    <3> QED BY <3>1, <3>2
  <2> QED BY <2>1, <2>2, <2>3, QuietKeepsCommands DEF Passed, Issuing
<1>2. CASE StartReconnect("main")
  BY <1>2, ReconnectKeepsCommands
<1>3. CASE Disconnect("main")
  BY <1>3, DisconnectKeepsCommands
<1>4. CASE OpenSocket
  BY <1>4, OpenKeepsCommands
<1>5. CASE Command("main")
  BY <1>5, CommandKeepsCommands, LabelNames
<1>6. CASE Login
  <2> DEFINE n == Cmd("NICK", 0)
             u == Cmd("USER", 0)
  <2>1. n \in Commands /\ u \in Commands /\ Old(n) /\ Old(u)
    BY BoundsAssumption, CommandKinds DEF CommandsInv, CommandTypes
  <2>2. /\ UNCHANGED <<session, issued, wire, scheduled, queue, held, out, welcomed>>
        /\ todo' = [todo EXCEPT !["main"] = <<n, u>>]
    BY <1>6 DEF Login, inputVars, queueVars
  <2>3. Moves("main", "login", "command")
    BY <1>6, MainMoves DEF ThreadsInv
  <2> HIDE DEF n, u
  <2>4. /\ <<n, u>> \in Seq(Commands) /\ <<n, u>> # <<>>
        /\ \A c \in Range(<<n, u>>) : c = n \/ c = u
    <3>1. \A c \in Range(<<n, u>>) : c = n \/ c = u
      BY DEF Range
    <3> QED BY <2>1, <3>1
  <2> DEFINE s == <<n, u>>
  <2>5. s \in Seq(Commands) /\ s # <<>> /\ \A c \in Range(s) : Old(c)
    BY <2>1, <2>4
  <2> HIDE DEF s
  <2>6. "main" \in Threads /\ issued' \in 0..MaxCommands
    BY <2>2, LabelNames DEF CommandsInv, CommandTypes
  <2>7. /\ todo' = [todo EXCEPT !["main"] = s]
        /\ \A t \in Threads \ {"main"} : at'[t] = at[t]
        /\ at'["main"] \notin Passed
    BY <2>2, <2>3 DEF s, Moves, Passed
  <2> QED BY <2>2, <2>5, <2>6, <2>7, NewTodoKeepsCommands
<1> QED BY <1>1, <1>2, <1>3, <1>4, <1>5, <1>6 DEF Main

LEMMA InputKeepsCommands ==
  ASSUME ThreadsInv, CommandsInv, Input \/ ReadEnds \/ \E kind \in Lines : ReadLine(kind)
  PROVE  CommandsInv'
<1>0. "irc_in" \in Threads /\ ThreadTypes
  BY DEF Threads, ThreadsInv
<1>1. CASE ScheduleRead \/ ReadEnds \/ HandleWelcome \/ HandleOther \/ Welcomed
           \/ \E kind \in Lines : ReadLine(kind)
  <2>1. UNCHANGED <<session, issued, wire, scheduled, queue, held, todo, out>> /\ (welcomed => welcomed')
    BY <1>1 DEF ScheduleRead, ReadEnds, HandleWelcome, HandleOther, Welcomed, ReadLine,
       socketVars, inputVars, queueVars
  <2>2. \E from \in Labels, to \in {"crashed", "read", "done", "welcome", "next", "handle", "lookup"} :
          Moves("irc_in", from, to)
    BY <1>0, <1>1, InputMoves, LabelNames
  <2>3. \A u \in Threads : at'[u] \in Issuing \cup Passed => at'[u] = at[u]
    BY <2>2 DEF Moves, Issuing, Passed
  <2> QED BY <2>1, <2>3, QuietKeepsCommands DEF Passed, Issuing
<1>2. CASE StartReconnect("irc_in")
  BY <1>2, ReconnectKeepsCommands
<1>3. CASE Disconnect("irc_in")
  BY <1>3, DisconnectKeepsCommands
<1>4. CASE Command("irc_in")
  BY <1>0, <1>4, CommandKeepsCommands
<1>5. CASE Lookup
  <2>1. UNCHANGED <<session, issued, wire, scheduled, queue, held, out, welcomed>>
    BY <1>5 DEF Lookup, socketVars, inputVars, queueVars
  <2>2. CASE line = "PING"
    <3> DEFINE p == Cmd("PONG", 0)
               s == <<p>>
    <3>1. p \in Commands /\ Old(p)
      BY BoundsAssumption, CommandKinds DEF CommandsInv, CommandTypes
    <3>2. Goto("irc_in", "command") /\ todo' = [todo EXCEPT !["irc_in"] = s]
      BY <1>5, <2>2 DEF Lookup
    <3>3. /\ at'["irc_in"] = "command" /\ \A t \in Threads \ {"irc_in"} : at'[t] = at[t]
      BY <1>0, <3>2, LabelNames, Going DEF Moves
    <3> HIDE DEF p
    <3>4. s \in Seq(Commands) /\ s # <<>> /\ \A c \in Range(s) : Old(c)
      BY <3>1 DEF Range
    <3>5. issued' \in 0..MaxCommands
      BY <2>1 DEF CommandsInv, CommandTypes
    <3> HIDE DEF s
    <3> QED BY <1>0, <2>1, <3>2, <3>3, <3>4, <3>5, NewTodoKeepsCommands DEF Passed
  <2>3. CASE line # "PING"
    <3>1. \E to \in {"quit", "handle"} : Goto("irc_in", to)
      BY <1>5, <2>3 DEF Lookup
    <3>2. \A u \in Threads : at'[u] \in Issuing \cup Passed => at'[u] = at[u]
      BY <1>0, <3>1, LabelNames, Going DEF Moves, Issuing, Passed
    <3>3. todo' = todo
      BY <1>5, <2>3 DEF Lookup
    <3> QED BY <2>1, <3>2, <3>3, QuietKeepsCommands DEF Passed, Issuing
  <2> QED BY <2>2, <2>3
<1>6. CASE HandleFlush
  <2> DEFINE s == [i \in DOMAIN scheduled |-> [scheduled[i] EXCEPT !.born = session]]
  <2>1. /\ UNCHANGED <<session, issued, wire, queue, held, out, welcomed>> /\ scheduled' = <<>>
        /\ todo' = [todo EXCEPT !["irc_in"] = s]
        /\ Goto("irc_in", IF scheduled = <<>> THEN "next" ELSE "command")
    BY <1>6 DEF HandleFlush, socketVars, inputVars, queueVars
  <2>2. \A c \in Commands : /\ [c EXCEPT !.born = session] \in Commands
                            /\ [c EXCEPT !.born = session].born = session
    BY DEF Commands, CommandsInv, CommandTypes
  <2>3. /\ Len(scheduled) \in Nat /\ DOMAIN scheduled = 1..Len(scheduled)
        /\ \A i \in 1..Len(scheduled) : scheduled[i] \in Commands
        /\ scheduled # <<>> => Len(scheduled) # 0
    <3>1. scheduled \in Seq(Commands)
      BY DEF CommandsInv, CommandTypes
    <3> QED BY <3>1, LenProperties, ElementOfSeq, EmptySeq
  <2>4. s \in [1..Len(scheduled) -> Commands] /\ \A i \in 1..Len(scheduled) : s[i].born = session
    BY <2>2, <2>3
  <2>5. s \in Seq(Commands) /\ \A c \in Range(s) : Old(c)
    <3>1. session <= session
      BY BoundsAssumption DEF CommandsInv, CommandTypes
    <3> HIDE DEF s
    <3>2. s \in Seq(Commands)
      BY <2>3, <2>4, SeqDef
    <3>3. \A c \in Range(s) : c.born = session
      BY <2>4 DEF Range
    <3> QED BY <3>1, <3>2, <3>3 DEF Old
  <2>6. scheduled # <<>> => s # <<>>
    <3>1. DOMAIN <<>> = {} /\ (scheduled # <<>> => 1 \in 1..Len(scheduled))
      BY <2>3
    <3> HIDE DEF s
    <3> QED BY <2>4, <3>1
  <2>7. /\ at'["irc_in"] = IF scheduled = <<>> THEN "next" ELSE "command"
        /\ \A t \in Threads \ {"irc_in"} : at'[t] = at[t]
    BY <1>0, <2>1 DEF Goto, ThreadTypes
  <2>8. issued' \in 0..MaxCommands
    BY <2>1 DEF CommandsInv, CommandTypes
  <2> HIDE DEF s
  <2>9. at'["irc_in"] \notin Passed /\ (at'["irc_in"] \in Issuing => s # <<>>)
    BY <2>6, <2>7 DEF Passed, Issuing
  <2> QED BY <1>0, <2>1, <2>5, <2>7, <2>8, <2>9, NewTodoKeepsCommands
<1> QED BY <1>1, <1>2, <1>3, <1>4, <1>5, <1>6 DEF Input

\* What the output thread takes, drops and writes.
LEMMA OutputKeepsCommands ==
  ASSUME ThreadsInv, CommandsInv, Output
  PROVE  CommandsInv'
<1>1. /\ UNCHANGED <<session, issued, welcomed, scheduled, todo, at>>
      /\ \A d : (Old(d)' <=> Old(d)) /\ (Ours(d)' <=> Ours(d))
  BY DEF Output, OutStart, OutLoop, OutTest, OutSleep, OutGot, OutExpire, OutWrite,
     socketVars, threadVars, inputVars, Old, Ours
<1>2. CASE OutStart \/ OutLoop \/ OutSleep
  <2>1. UNCHANGED <<wire, queue, held>> /\ out \notin Holding /\ out' \notin Holding
    BY <1>2 DEF Holding, OutStart, OutLoop, OutSleep, socketVars
  <2> QED BY <1>1, <2>1, QuietKeepsCommands
<1>3. CASE OutGot \/ OutExpire
  <2>1. /\ UNCHANGED <<wire, queue>>
        /\ \/ held' = held /\ out \in Holding /\ out' \in Holding
           \/ held' = NoCmd /\ out' \notin Holding
    BY <1>3 DEF Holding, OutGot, OutExpire, socketVars
  <2>2. CommandTypes'
    BY <1>1, <2>1 DEF CommandsInv, CommandTypes
  <2>3. CommandsAreOurs'
    BY <1>1, <2>1 DEF CommandsInv, CommandsAreOurs
  <2> QED BY <2>2, <2>3 DEF CommandsInv
<1>4. CASE OutTest
  <2>1. wire' = wire
    BY <1>4 DEF OutTest, socketVars
  <2>2. CASE (queue = <<>> /\ run) \/ ~run
    <3>1. UNCHANGED <<queue, held>> /\ out \notin Holding /\ out' \notin Holding
      BY <1>4, <2>2 DEF OutTest, Holding
    <3> QED BY <1>1, <2>1, <3>1, QuietKeepsCommands
  <2>3. CASE ~((queue = <<>> /\ run) \/ ~run)
    <3> DEFINE i == First(queue)
               rest == SubSeq(queue, 1, i - 1) \o SubSeq(queue, i + 1, Len(queue))
    <3>1. queue # <<>> /\ held' = queue[i] /\ queue' = rest /\ out' \in Holding
      BY <1>4, <2>3 DEF OutTest, Holding
    <3>2. queue \in Seq(Commands)
      BY DEF CommandsInv, CommandTypes
    <3>3. i \in 1..Len(queue)
      BY <3>1, <3>2, FirstIs
    <3>4. rest \in Seq(Commands) /\ Range(queue) = Range(rest) \cup {queue[i]}
      BY <3>2, <3>3, RangeWithout
    <3>5. queue[i] \in Commands
      BY <3>2, <3>3, InRange
    <3> HIDE DEF i, rest
    <3>6. CommandTypes'
      BY <1>1, <2>1, <3>1, <3>4, <3>5 DEF CommandsInv, CommandTypes
    <3>7. CommandsAreOurs'
      BY <1>1, <2>1, <3>1, <3>4 DEF CommandsInv, CommandsAreOurs
    <3> QED BY <3>6, <3>7 DEF CommandsInv
  <2> QED BY <2>2, <2>3
<1>5. CASE OutWrite
  <2>1. /\ queue' = queue /\ held' = NoCmd /\ wire' \in {wire, Append(wire, held)}
        /\ out \in Holding /\ out' \notin Holding
    BY <1>5 DEF OutWrite, Holding
  <2>2. wire \in Seq(Commands) /\ held \in Commands
    BY <2>1 DEF CommandsInv, CommandTypes
  <2>3. Ours(held)
    BY <2>2, NotNoCmd DEF CommandsInv, CommandsAreOurs
  <2>4. Append(wire, held) \in Seq(Commands) /\ Range(Append(wire, held)) = Range(wire) \cup {held}
    BY <2>2, RangeOfAppend
  <2>5. wire' \in Seq(Commands) /\ \A c \in Range(wire') : Ours(c)
    BY <2>1, <2>2, <2>3, <2>4 DEF CommandsInv, CommandsAreOurs
  <2>6. CommandTypes'
    BY <1>1, <2>1, <2>5 DEF CommandsInv, CommandTypes
  <2>7. CommandsAreOurs'
    BY <1>1, <2>1, <2>5 DEF CommandsInv, CommandsAreOurs
  <2> QED BY <2>6, <2>7 DEF CommandsInv
<1> QED BY <1>2, <1>3, <1>4, <1>5 DEF Output

LEMMA ClientKeepsCommands ==
  ASSUME ThreadsInv, CommandsInv, NEW kind \in ClientKinds, ClientIssues(kind)
  PROVE  CommandsInv'
<1>1. issued + 1 \in 0..MaxCommands
  BY BoundsAssumption DEF ClientIssues, CommandsInv, CommandTypes
<1>2. "client" \in Threads /\ ThreadTypes
  BY DEF Threads, ThreadsInv
<1> DEFINE c == Cmd(kind, issued + 1)
           s == <<c>>
<1>3. c \in Commands /\ Old(c)
  BY <1>1, BoundsAssumption, CommandKinds DEF CommandsInv, CommandTypes
<1>4. /\ UNCHANGED <<session, wire, queue, held, out, welcomed, scheduled>>
      /\ issued' = issued + 1 /\ Goto("client", "command")
      /\ todo' = [todo EXCEPT !["client"] = s]
  BY DEF ClientIssues, socketVars, inputVars, queueVars
<1>5. at'["client"] = "command" /\ \A t \in Threads \ {"client"} : at'[t] = at[t]
  BY <1>2, <1>4, LabelNames, Going DEF Moves
<1> HIDE DEF c
<1>6. s \in Seq(Commands) /\ s # <<>> /\ \A d \in Range(s) : Old(d)
  BY <1>3 DEF Range
<1> HIDE DEF s
<1> QED BY <1>1, <1>2, <1>4, <1>5, <1>6, NewTodoKeepsCommands DEF Passed

LEMMA CommandsStep == ThreadsInv /\ CommandsInv /\ [Next]_vars => CommandsInv'
<1> SUFFICES ASSUME ThreadsInv, CommandsInv, [Next]_vars PROVE CommandsInv'
  OBVIOUS
<1>1. CASE Next
  BY <1>1, MainKeepsCommands, InputKeepsCommands, OutputKeepsCommands, ClientKeepsCommands,
     CommandKeepsCommands, LabelNames DEF Next
<1>2. CASE UNCHANGED vars
  <2>1. /\ UNCHANGED <<session, issued, wire, scheduled, queue, held, todo, welcomed>>
        /\ at' = at /\ out' = out
    BY <1>2 DEF vars, socketVars, threadVars, inputVars, queueVars
  <2> QED BY <2>1, QuietKeepsCommands
<1> QED BY <1>1, <1>2

\* Nothing made in a session, the registration and PONG excepted, is written to its socket
\* before the server has welcomed the bot: WelcomedFirst (IrcLink), of command() and login().
THEOREM NothingBeforeWelcome == Spec => []WelcomedFirst
<1>1. Spec => [](ThreadsInv /\ CommandsInv)
  BY PlacesStart, CommandsStart, ThreadsStep, CommandsStep, PTL DEF Spec
<1>2. CommandsInv => WelcomedFirst
  BY InRange DEF CommandsInv, CommandTypes, CommandsAreOurs, Ours, WelcomedFirst
<1> QED BY <1>1, <1>2, PTL

-----------------------------------------------------------------------------
(* How far the login has come *)

\* While irc_in does not take the link down: the output thread lives between Spawn and
\* disconnect(), and the queue of an open socket is not stopped.
OutputLives ==
  LET main == at["main"]
  IN  /\ asio # "open" /\ main \in {"idle", "connect"} => out = "none"
      /\ main \in Starting \cup {"open"} => out = "none"
      /\ main = "open" => asio # "open"
      /\ asio = "open" => run

\* What irc_in has begun to take down it takes down.
LEMMA TearingGoesOn == ASSUME ThreadsInv, [Next]_vars, TearingDown PROVE TearingDown'
<1>0. ThreadTypes /\ "irc_in" \in Threads /\ "main" \in Threads /\ at["irc_in"] \in Tearing
  BY DEF ThreadsInv, Threads, TearingDown, Tearing
<1>1. CASE UNCHANGED at
  BY <1>0, <1>1 DEF TearingDown, Tearing
<1>2. CASE \E t \in Threads \ {"irc_in"} : \E from, to : Moves(t, from, to)
  BY <1>0, <1>2 DEF TearingDown, Tearing, Moves
<1>3. CASE Disconnect("irc_in")
  <2>1. \E from \in Tearing, to \in Tearing : Moves("irc_in", from, to)
    BY <1>0, <1>3, DisconnectMoves DEF Disconnect, Tearing
  <2> QED BY <2>1 DEF TearingDown, Tearing, Moves
<1>4. CASE JoinInput("main") \/ Spawn
  <2>1. ~JoinInput("main")
    BY <1>0, DisconnectMoves DEF Tearing
  <2>2. Spawn => at'["irc_in"] = at["irc_in"]
    BY <1>0, MainMoves DEF Tearing
  <2> QED BY <1>0, <1>4, <2>1, <2>2 DEF TearingDown, Tearing
<1>5. ~(\E from \in Reading : \E to : Moves("irc_in", from, to))
  BY <1>0 DEF Moves, Reading, Tearing
<1>6. Next => \/ UNCHANGED at
              \/ \E t \in Threads \ {"irc_in"} : \E from, to : Moves(t, from, to)
              \/ Disconnect("irc_in") \/ JoinInput("main") \/ Spawn
              \/ \E from \in Reading : \E to : Moves("irc_in", from, to)
  <2>1. StartConnect \/ StartDisconnect \/ StartReconnect("main") \/ Main =>
          \/ JoinInput("main") \/ Spawn \/ \E from, to : Moves("main", from, to)
    BY <1>0, MainMoves, DisconnectMoves, CommandMoves DEF Main, Disconnect
  <2>2. Input \/ ReadEnds \/ (\E kind \in Lines : ReadLine(kind)) =>
          Disconnect("irc_in") \/ \E from \in Reading : \E to : Moves("irc_in", from, to)
    BY <1>0, InputMoves, CommandMoves DEF Input, Reading, Issuing
  <2>3. Output => UNCHANGED at
    BY DEF Output, OutStart, OutLoop, OutTest, OutSleep, OutGot, OutExpire, OutWrite, threadVars
  <2>4. Command("client") \/ (\E kind \in ClientKinds : ClientIssues(kind)) =>
          \E from, to : Moves("client", from, to)
    <3>1. "client" \in Threads
      BY DEF Threads
    <3>2. Command("client") => \E from, to : Moves("client", from, to)
      BY <1>0, <3>1, CommandMoves
    <3>3. ASSUME NEW kind, ClientIssues(kind) PROVE \E from, to : Moves("client", from, to)
      BY <1>0, <3>1, <3>3, Going, LabelNames DEF ClientIssues
    <3> QED BY <3>2, <3>3
  <2> QED BY <2>1, <2>2, <2>3, <2>4 DEF Next, Threads
<1>7. [Next]_vars => Next \/ UNCHANGED at
  BY DEF vars, threadVars
<1> QED BY <1>1, <1>2, <1>3, <1>4, <1>5, <1>6, <1>7

LEMMA OutputLivesStart == Init => OutputLives
BY DEF Init, OutputLives, Threads, Starting, Issuing

LEMMA OutputLivesStep ==
  ASSUME ThreadsInv, OutputLives, ~TearingDown, [Next]_vars
  PROVE  OutputLives'
<1>0. ThreadTypes /\ "irc_in" \in Threads /\ "main" \in Threads /\ "client" \in Threads
  BY DEF ThreadsInv, Threads
<1>1. CASE UNCHANGED vars
  BY <1>1 DEF vars, socketVars, threadVars, queueVars, OutputLives
<1>2. CASE Output
  <2>1. UNCHANGED <<asio, at>> /\ out # "none" /\ (run => run')
    BY <1>2 DEF Output, OutStart, OutLoop, OutTest, OutSleep, OutGot, OutExpire, OutWrite,
       socketVars, threadVars
  <2> QED BY <2>1 DEF OutputLives
<1>3. CASE (\E kind \in ClientKinds : ClientIssues(kind)) \/ Command("client") \/ Command("irc_in")
  <2>1. CASE \E kind \in ClientKinds : ClientIssues(kind)
    <3>1. at'["main"] = at["main"]
      BY <1>0, <2>1, Going, LabelNames DEF ClientIssues, Moves
    <3> QED BY <2>1, <3>1 DEF ClientIssues, socketVars, queueVars, OutputLives
  <2>2. CASE Command("client") \/ Command("irc_in")
    <3>1. /\ at'["main"] = at["main"] /\ UNCHANGED <<asio, run>>
          /\ out' = out \/ out = "asleep"
      BY <1>0, <2>2, CommandMoves, LabelNames DEF Moves
    <3> QED BY <3>1 DEF OutputLives
  <2> QED BY <1>3, <2>1, <2>2
<1>4. CASE ScheduleRead \/ ReadEnds \/ Lookup \/ HandleWelcome \/ Welcomed \/ HandleFlush \/ HandleOther
           \/ StartReconnect("irc_in") \/ \E kind \in Lines : ReadLine(kind)
  <2>1. at'["main"] = at["main"]
    BY <1>0, <1>4, InputMoves DEF Moves, Threads
  <2>2. UNCHANGED <<asio, run, out>>
    BY <1>4 DEF ScheduleRead, ReadEnds, Lookup, HandleWelcome, Welcomed, HandleFlush, HandleOther,
       StartReconnect, ReadLine, socketVars, queueVars
  <2> QED BY <2>1, <2>2 DEF OutputLives
<1>5. CASE Disconnect("irc_in")
  BY <1>0, <1>5, DisconnectMoves DEF Disconnect, TearingDown, Moves
<1>6. CASE StartConnect \/ StartDisconnect \/ StartReconnect("main")
  <2>1. UNCHANGED <<asio, run, out>> /\ at["main"] = "idle" /\ at'["main"] \in {"connect", "quit"}
    BY <1>0, <1>6, MainMoves DEF Moves, StartConnect, StartDisconnect, StartReconnect, socketVars, queueVars
  <2> QED BY <2>1 DEF OutputLives, Starting, Issuing
<1>7. CASE Disconnect("main")
  <2>1. at'["main"] \in Tearing \cup {"join_out"}
    BY <1>0, <1>7, DisconnectMoves DEF Disconnect, Moves, Tearing
  <2>2. asio' = "open" => asio = "open" /\ run' = run
    BY <1>0, <1>7, DisconnectMoves DEF Disconnect
  <2> QED BY <2>1, <2>2 DEF OutputLives, Tearing, Starting, Issuing
<1>8. CASE JoinOutput
  <2>1. UNCHANGED <<asio, run>> /\ out' = "none" /\ at'["main"] \in {"idle", "connect"}
    BY <1>0, <1>8, MainMoves DEF JoinOutput, Moves, socketVars
  <2> QED BY <2>1 DEF OutputLives, Starting, Issuing
<1>9. CASE Connect
  <2>1. UNCHANGED <<asio, run, out>> /\ at["main"] = "connect"
    BY <1>9 DEF Connect, queueVars
  <2>2. at'["main"] = IF asio = "open" THEN "idle" ELSE "open"
    BY <1>0, <1>9, MainMoves DEF Moves
  <2> QED BY <2>1, <2>2 DEF OutputLives, Starting, Issuing
<1>10. CASE OpenSocket \/ OpenFails
  <2>1. out' = out /\ run' = TRUE /\ at["main"] = "open" /\ at'["main"] \in {"login", "quit"}
    BY <1>0, <1>10, MainMoves DEF OpenSocket, OpenFails, Moves
  <2> QED BY <2>1 DEF OutputLives, Starting, Issuing
<1>11. CASE Login \/ Command("main")
  <2>1. /\ UNCHANGED <<asio, run>> /\ (out' = out \/ out = "asleep")
        /\ at["main"] \in Starting /\ at'["main"] \in Starting
    <3>1. CASE Login
      BY <1>0, <3>1, MainMoves DEF Login, Moves, queueVars, Starting, Issuing
    <3>2. CASE Command("main")
      BY <1>0, <3>2, CommandMoves, LabelNames DEF Moves, Starting
    <3> QED BY <1>11, <3>1, <3>2
  <2> QED BY <2>1, LabelNames DEF OutputLives, Starting, Issuing
<1>12. CASE Spawn
  <2>1. asio' = asio /\ run' = TRUE /\ at["main"] = "spawn" /\ at'["main"] = "idle"
    BY <1>0, <1>12, MainMoves DEF Spawn, socketVars
  <2>2. asio = "open"
    BY <2>1 DEF ThreadsInv, Places, Starting
  <2> QED BY <2>1, <2>2 DEF OutputLives, Starting, Issuing
<1> QED BY <1>1, <1>2, <1>3, <1>4, <1>5, <1>6, <1>7, <1>8, <1>9, <1>10, <1>11, <1>12
        DEF Next, Main, Input

\* What main still has to issue of the login, and what of it waits, is held or was sent.
LoginComes ==
  LET main == at["main"]
      left == todo["main"]
  IN  /\ main \in Issuing =>
           \/ Len(left) = 2 /\ Head(left).kind = "NICK" /\ Head(Tail(left)).kind = "USER"
           \/ Len(left) = 1 /\ Head(left).kind = "USER" /\ Has(queue, "NICK")
      /\ main = "spawn" => \A k \in LoginKinds : Has(queue, k)
      /\ asio = "open" /\ main \notin Starting =>
           \A k \in LoginKinds : Has(queue, k) \/ held.kind = k \/ Has(wire, k)
      /\ asio = "open" /\ held # NoCmd /\ ~Urgent(held) => \A k \in LoginKinds : Has(wire, k)

\* The queue changes only by getting more, or by losing what is not urgent.
KeepsLogin(s, r) == \A k \in LoginKinds : Has(s, k) => Has(r, k)

\* Steps of others than main and the output thread.
LEMMA OthersKeepLogin ==
  ASSUME LoginComes, UNCHANGED <<wire, held>>, asio' = "open" => asio = "open",
         at'["main"] = at["main"], at["main"] \in Issuing => todo'["main"] = todo["main"],
         KeepsLogin(queue, queue')
  PROVE  LoginComes'
BY DEF LoginComes, KeepsLogin, LoginKinds

LEMMA ClearKeepsLogin ==
  ASSUME CommandsInv
  PROVE  /\ KeepsLogin(queue, KeptUrgent(queue))
         /\ \A c \in Commands : KeepsLogin(queue, Append(queue, c)) /\ Has(Append(queue, c), c.kind)
<1>1. queue \in Seq(Commands)
  BY DEF CommandsInv, CommandTypes
<1>2. \A k \in LoginKinds : \A c : c.kind = k => Urgent(c)
  BY DEF LoginKinds, Urgent
<1>3. KeepsLogin(queue, KeptUrgent(queue))
  BY <1>1, <1>2, KeptIs DEF KeepsLogin, Has
<1>4. ASSUME NEW c \in Commands
      PROVE  KeepsLogin(queue, Append(queue, c)) /\ Has(Append(queue, c), c.kind)
  BY <1>1, RangeOfAppend DEF KeepsLogin, Has
<1> QED BY <1>3, <1>4

\* The queue of a command() on any thread.
LEMMA CommandKeepsQueue ==
  ASSUME ThreadsInv, CommandsInv, NEW t \in Threads, Command(t)
  PROVE  /\ KeepsLogin(queue, queue') /\ UNCHANGED <<wire, held, asio>>
         /\ \A u \in Threads \ {t} : todo'[u] = todo[u]
<1>1. todo[t] \in Seq(Commands) /\ todo[t] # <<>>
  BY DEF CommandsInv, CommandTypes, Command, CommandTest, CommandCheck, CommandClear, CommandInsert, Issuing
<1>2. Head(todo[t]) \in Commands
  BY <1>1, RangeOfTail
<1>3. queue' \in {queue, KeptUrgent(queue), Append(queue, Head(todo[t]))}
  BY DEF Command, CommandTest, CommandCheck, CommandClear, CommandInsert, queueVars
<1>4. KeepsLogin(queue, queue')
  BY <1>2, <1>3, ClearKeepsLogin DEF KeepsLogin
<1>5. UNCHANGED <<wire, held, asio>> /\ (Resume(t) \/ todo' = todo)
  BY DEF Command, CommandTest, CommandCheck, CommandClear, CommandInsert, queueVars, socketVars
<1>6. \A u \in Threads \ {t} : todo'[u] = todo[u]
  BY <1>5 DEF Resume, CommandsInv, CommandTypes
<1> QED BY <1>4, <1>5, <1>6

\* main issues the login: nothing of it is scheduled, dropped, or taken from the queue.
LEMMA MainIssuesLogin ==
  ASSUME ThreadsInv, CommandsInv, OutputLives, LoginComes, ~TearingDown, Command("main")
  PROVE  LoginComes'
<1> DEFINE left == todo["main"]
           c == Head(left)
<1>0. "main" \in Threads /\ ThreadTypes
  BY DEF Threads, ThreadsInv
<1>1. /\ KeepsLogin(queue, queue') /\ UNCHANGED <<wire, held, asio>>
      /\ at["main"] \in Issuing /\ at'["main"] \in Issuing \cup {"spawn"}
  BY <1>0, CommandKeepsQueue, CommandMoves, LabelNames DEF Moves
<1>2. at["main"] \in Starting /\ at'["main"] \in Starting
  BY <1>1 DEF Starting
<1>3. asio = "open" /\ run
  BY <1>2 DEF ThreadsInv, Places, OutputLives
<1>4. left \in Seq(Commands) /\ left # <<>>
  BY <1>0, <1>1 DEF CommandsInv, CommandTypes
<1>5. /\ c \in Commands /\ Tail(left) \in Seq(Commands) /\ Len(Tail(left)) = Len(left) - 1
      /\ Len(left) \in Nat \ {0}
  BY <1>4, RangeOfTail
<1>6. \/ Len(left) = 2 /\ c.kind = "NICK" /\ Head(Tail(left)).kind = "USER"
      \/ Len(left) = 1 /\ c.kind = "USER" /\ Has(queue, "NICK")
  BY <1>1 DEF LoginComes
<1>7. Immediate(c)
  BY <1>6 DEF Immediate
<1>8. \/ Resume("main") /\ queue' = Append(queue, c)
      \/ todo' = todo /\ \E l \in Issuing : Goto("main", l)
  BY <1>3, <1>7 DEF Command, CommandTest, CommandCheck, CommandClear, CommandInsert, Issuing
<1>9. CASE todo' = todo /\ \E l \in Issuing : Goto("main", l)
  <2>1. todo'["main"] = left /\ at'["main"] \in Issuing
    BY <1>0, <1>9 DEF Goto, ThreadTypes
  <2>2. at'["main"] # "spawn" /\ Has(queue, "NICK") => Has(queue', "NICK")
    BY <1>1, <2>1 DEF Issuing, KeepsLogin, LoginKinds
  <2> HIDE DEF c
  <2>3. Len(left) = 2 \/ Len(left) = 1
    BY <1>6
  <2>4. \/ Len(left) = 2 /\ Head(left).kind = "NICK" /\ Head(Tail(left)).kind = "USER"
        \/ Len(left) = 1 /\ Head(left).kind = "USER" /\ Has(queue', "NICK")
    BY <1>1, <1>6, <2>2, <2>1 DEF c, KeepsLogin, LoginKinds
  <2>5. at'["main"] # "spawn"
    BY <2>1 DEF Issuing
  <2>6. asio = "open" /\ held # NoCmd /\ ~Urgent(held) => \A k \in LoginKinds : Has(wire, k)
    BY DEF LoginComes
  <2>7. Urgent(held)' = Urgent(held)
    BY <1>1 DEF Urgent
  <2> HIDE DEF left
  <2> QED BY <1>1, <1>2, <2>1, <2>4, <2>5, <2>6, <2>7 DEF LoginComes
<1>10. CASE Resume("main") /\ queue' = Append(queue, c)
  <2>1. todo'["main"] = Tail(left)
    BY <1>10 DEF Resume, CommandsInv, CommandTypes, Threads
  <2>2. at'["main"] = IF Len(left) > 1 THEN "command" ELSE "spawn"
    BY <1>0, <1>10 DEF Resume, Goto, ThreadTypes
  <2>3. Has(queue', c.kind)
    BY <1>5, <1>10, ClearKeepsLogin
  <2> HIDE DEF c, left
  <2>4. CASE Len(left) = 2
    <3>1. at'["main"] = "command" /\ Len(Tail(left)) = 1 /\ c.kind = "NICK" /\ Head(Tail(left)).kind = "USER"
      BY <1>5, <1>6, <2>2, <2>4
    <3> QED BY <1>1, <1>2, <2>1, <2>3, <3>1 DEF LoginComes, Starting, Issuing
  <2>5. CASE Len(left) = 1
    <3>1. at'["main"] = "spawn" /\ c.kind = "USER" /\ Has(queue, "NICK")
      BY <1>6, <2>2, <2>5
    <3>2. Has(queue', "NICK") /\ Has(queue', "USER")
      BY <1>1, <2>3, <3>1 DEF KeepsLogin, LoginKinds
    <3> QED BY <1>1, <3>1, <3>2 DEF LoginComes, Starting, Issuing, LoginKinds
  <2> QED BY <1>6, <2>4, <2>5
<1> QED BY <1>8, <1>9, <1>10

\* Steps of main that are not about the login.
LEMMA MainKeepsLogin ==
  ASSUME LoginComes, held' = held, asio' = "open" => asio = "open",
         at["main"] \notin Starting, at'["main"] \notin Starting,
         KeepsLogin(queue, queue'), KeepsLogin(wire, wire')
  PROVE  LoginComes'
<1>1. at'["main"] \notin Issuing /\ at'["main"] # "spawn"
  BY DEF Starting
<1>2. Urgent(held)' = Urgent(held)
  BY DEF Urgent
<1> QED BY <1>1, <1>2 DEF LoginComes, KeepsLogin

LEMMA SameLogin == ASSUME NEW s PROVE KeepsLogin(s, s)
BY DEF KeepsLogin

\* QUIT goes to the socket at once.
LEMMA QuitKeepsLogin ==
  ASSUME CommandsInv, Quit("main")
  PROVE  KeepsLogin(wire, wire')
<1> DEFINE c == Cmd("QUIT", 0)
<1>1. c \in Commands /\ wire \in Seq(Commands)
  BY CommandKinds, BoundsAssumption DEF CommandsInv, CommandTypes
<1>2. wire' \in {wire, Append(wire, c)}
  BY DEF Quit
<1> HIDE DEF c
<1>3. Range(Append(wire, c)) = Range(wire) \cup {c}
  BY <1>1, RangeOfAppend
<1>4. KeepsLogin(wire, Append(wire, c))
  BY <1>3 DEF KeepsLogin, Has
<1> QED BY <1>2, <1>4, SameLogin

LEMMA MainLogin ==
  ASSUME ThreadsInv, CommandsInv, OutputLives, LoginComes, ~TearingDown,
         StartConnect \/ StartDisconnect \/ StartReconnect("main") \/ Main
  PROVE  LoginComes'
<1>0. ThreadTypes /\ "main" \in Threads
  BY DEF ThreadsInv, Threads
<1>1. CASE StartConnect \/ StartDisconnect \/ StartReconnect("main")
  <2>1. UNCHANGED <<asio, wire, held, queue>>
    BY <1>1 DEF StartConnect, StartDisconnect, StartReconnect, socketVars, queueVars
  <2>2. at["main"] = "idle" /\ at'["main"] \in {"connect", "quit"}
    BY <1>0, <1>1, MainMoves DEF Moves, StartConnect, StartDisconnect, StartReconnect
  <2>3. at["main"] \notin Starting /\ at'["main"] \notin Starting
    BY <2>2 DEF Starting, Issuing
  <2> QED BY <2>1, <2>3, MainKeepsLogin, SameLogin
<1>2. CASE Disconnect("main")
  <2>1. at["main"] \in Tearing /\ at'["main"] \in Tearing \cup {"join_out"}
    BY <1>0, <1>2, DisconnectMoves DEF Disconnect, Moves, Tearing
  <2>2. asio' = "open" => asio = "open"
    BY <1>0, <1>2, DisconnectMoves DEF Disconnect
  <2>3. held' = held /\ queue' = queue
    BY <1>2 DEF Disconnect, Quit, Close, Lock, StopQueue, NotifyQueue, JoinInput, queueVars
  <2>4. Quit("main") \/ wire' = wire
    BY <1>2 DEF Disconnect, Close, Lock, StopQueue, NotifyQueue, JoinInput, socketVars
  <2>5. KeepsLogin(wire, wire')
    BY <2>4, QuitKeepsLogin, SameLogin
  <2>6. at["main"] \notin Starting /\ at'["main"] \notin Starting
    BY <2>1 DEF Starting, Issuing, Tearing
  <2> QED BY <2>2, <2>3, <2>5, <2>6, MainKeepsLogin, SameLogin
<1>3. CASE JoinOutput \/ Connect \/ OpenFails
  <2>1. UNCHANGED <<wire, held, queue>> /\ (asio' = "open" => asio = "open")
    BY <1>3 DEF JoinOutput, Connect, OpenFails, socketVars, queueVars
  <2>2. at["main"] \in {"join_out", "connect", "open"} /\ at'["main"] \in {"idle", "connect", "open", "quit"}
    BY <1>0, <1>3, MainMoves DEF Moves, JoinOutput, Connect, OpenFails
  <2>3. at["main"] \notin Starting /\ at'["main"] \notin Starting
    BY <2>2 DEF Starting, Issuing
  <2> QED BY <2>1, <2>3, MainKeepsLogin, SameLogin
<1>4. CASE OpenSocket
  <2>1. at["main"] = "open" /\ at'["main"] = "login" /\ held' = held
    BY <1>0, <1>4, MainMoves DEF Moves, OpenSocket
  <2>2. held = NoCmd
    BY <2>1 DEF OutputLives, CommandsInv, CommandTypes, Holding
  <2> QED BY <2>1, <2>2 DEF LoginComes, Starting, Issuing, NoCmd
<1>5. CASE Login
  <2> DEFINE nick == Cmd("NICK", 0)
             user == Cmd("USER", 0)
             s == <<nick, user>>
  <2>1. nick.kind = "NICK" /\ user.kind = "USER"
    BY DEF Cmd
  <2>2. Len(s) = 2 /\ Head(s) = nick /\ Head(Tail(s)) = user
    OBVIOUS
  <2>3. at["main"] = "login" /\ at'["main"] = "command" /\ UNCHANGED <<asio, wire, held, queue>>
    BY <1>0, <1>5, MainMoves DEF Moves, Login, queueVars
  <2>4. todo'["main"] = s
    BY <1>5 DEF Login, CommandsInv, CommandTypes, Threads
  <2>5. Urgent(held)' = Urgent(held)
    BY <2>3 DEF Urgent
  <2> HIDE DEF s, nick, user
  <2> QED BY <2>1, <2>2, <2>3, <2>4, <2>5 DEF LoginComes, Starting, Issuing
<1>6. CASE Command("main")
  BY <1>6, MainIssuesLogin
<1>7. CASE Spawn
  <2>1. at["main"] = "spawn" /\ at'["main"] = "idle" /\ UNCHANGED <<asio, wire, held, queue>>
    BY <1>0, <1>7, MainMoves DEF Spawn, socketVars
  <2>2. Urgent(held)' = Urgent(held)
    BY <2>1 DEF Urgent
  <2> QED BY <2>1, <2>2 DEF LoginComes, Starting, Issuing
<1> QED BY <1>1, <1>2, <1>3, <1>4, <1>5, <1>6, <1>7 DEF Main

\* irc_in and the client leave the login alone.
LEMMA OtherThreadsLogin ==
  ASSUME ThreadsInv, CommandsInv, LoginComes, ~TearingDown,
         \/ Input \/ ReadEnds \/ \E kind \in Lines : ReadLine(kind)
         \/ Command("client") \/ \E kind \in ClientKinds : ClientIssues(kind)
  PROVE  LoginComes'
<1>0. ThreadTypes /\ "main" \in Threads /\ "irc_in" \in Threads /\ "client" \in Threads
      /\ "main" # "irc_in" /\ "main" # "client"
  BY DEF ThreadsInv, Threads
<1>1. CASE Command("irc_in") \/ Command("client")
  <2>1. at'["main"] = at["main"]
    BY <1>0, <1>1, CommandMoves DEF Moves
  <2>2. KeepsLogin(queue, queue') /\ UNCHANGED <<wire, held, asio>> /\ todo'["main"] = todo["main"]
    BY <1>0, <1>1, CommandKeepsQueue
  <2> QED BY <2>1, <2>2, OthersKeepLogin
<1>2. CASE \E kind \in ClientKinds : ClientIssues(kind)
  <2>1. at'["main"] = at["main"]
    BY <1>0, <1>2, Going, LabelNames DEF ClientIssues, Moves
  <2>2. UNCHANGED <<wire, held, asio, queue>> /\ todo'["main"] = todo["main"]
    BY <1>0, <1>2 DEF ClientIssues, socketVars, queueVars, CommandsInv, CommandTypes
  <2> QED BY <2>1, <2>2, OthersKeepLogin, SameLogin
<1>3. CASE ScheduleRead \/ ReadEnds \/ Lookup \/ HandleWelcome \/ Welcomed \/ HandleFlush \/ HandleOther
           \/ StartReconnect("irc_in") \/ \E kind \in Lines : ReadLine(kind)
  <2>1. at'["main"] = at["main"]
    BY <1>0, <1>3, InputMoves DEF Moves
  <2>2. UNCHANGED <<wire, held, asio, queue>>
    BY <1>3 DEF ScheduleRead, ReadEnds, Lookup, HandleWelcome, Welcomed, HandleFlush, HandleOther,
       StartReconnect, ReadLine, socketVars, queueVars
  <2>3. todo'["main"] = todo["main"]
    BY <1>0, <1>3 DEF ScheduleRead, ReadEnds, Lookup, HandleWelcome, Welcomed, HandleFlush, HandleOther,
       StartReconnect, ReadLine, CommandsInv, CommandTypes
  <2> QED BY <2>1, <2>2, <2>3, OthersKeepLogin, SameLogin
<1>4. ~Disconnect("irc_in")
  BY <1>0, DisconnectMoves DEF Disconnect, TearingDown, Moves
<1> QED BY <1>1, <1>2, <1>3, <1>4 DEF Input

\* The output thread takes what is urgent first: the login is on the wire, or in its hands,
\* before it has anything else.
LEMMA OutputLogin ==
  ASSUME ThreadsInv, CommandsInv, OutputLives, LoginComes, Output
  PROVE  LoginComes'
<1>0. UNCHANGED <<asio, at>> /\ out # "none"
  BY DEF Output, OutStart, OutLoop, OutTest, OutSleep, OutGot, OutExpire, OutWrite, socketVars, threadVars
<1>1. at["main"] \notin Starting
  BY <1>0 DEF OutputLives
<1>2. CASE asio # "open"
  BY <1>0, <1>1, <1>2 DEF LoginComes, Starting
<1>3. CASE asio = "open"
  <2>0. run
    BY <1>3 DEF OutputLives
  <2>1. \A k \in LoginKinds : Has(queue, k) \/ held.kind = k \/ Has(wire, k)
    BY <1>1, <1>3 DEF LoginComes
  <2>2. held # NoCmd /\ ~Urgent(held) => \A k \in LoginKinds : Has(wire, k)
    BY <1>3 DEF LoginComes
  <2>3. SUFFICES /\ \A k \in LoginKinds : Has(queue', k) \/ held'.kind = k \/ Has(wire', k)
                 /\ held' # NoCmd /\ ~Urgent(held') => \A k \in LoginKinds : Has(wire', k)
    BY <1>0, <1>1 DEF LoginComes, Starting
  <2>4. \A k \in LoginKinds : NoCmd.kind # k /\ \A c : c.kind = k => Urgent(c)
    BY DEF NoCmd, LoginKinds, Urgent
  <2>5. CASE OutStart \/ OutLoop \/ OutSleep \/ OutGot
    <3>1. UNCHANGED <<wire, held, queue>>
      BY <2>0, <2>5 DEF OutStart, OutLoop, OutSleep, OutGot, socketVars
    <3> QED BY <2>1, <2>2, <3>1
  <2>6. CASE OutTest
    <3>1. wire' = wire /\ held = NoCmd
      BY <2>6 DEF OutTest, socketVars, CommandsInv, CommandTypes, Holding
    <3>2. CASE queue = <<>>
      <4>1. UNCHANGED <<queue, held>>
        BY <2>0, <2>6, <3>2 DEF OutTest
      <4> QED BY <2>1, <2>2, <3>1, <4>1
    <3>3. CASE queue # <<>>
      <4> DEFINE i == First(queue)
                 rest == SubSeq(queue, 1, i - 1) \o SubSeq(queue, i + 1, Len(queue))
      <4>1. held' = queue[i] /\ queue' = rest
        BY <2>0, <2>6, <3>3 DEF OutTest
      <4>2. queue \in Seq(Commands)
        BY DEF CommandsInv, CommandTypes
      <4>3. i \in 1..Len(queue) /\ (~Urgent(queue[i]) => \A c \in Range(queue) : ~Urgent(c))
        BY <3>3, <4>2, FirstIs
      <4>4. Range(queue) = Range(rest) \cup {queue[i]}
        BY <4>2, <4>3, RangeWithout
      <4> HIDE DEF i, rest
      <4>5. \A k \in LoginKinds : Has(queue, k) => Has(rest, k) \/ queue[i].kind = k
        BY <4>4 DEF Has
      <4>6. \A k \in LoginKinds : Has(queue', k) \/ held'.kind = k \/ Has(wire', k)
        BY <2>1, <2>4, <3>1, <4>1, <4>5
      <4>7. ~Urgent(queue[i]) => \A k \in LoginKinds : ~Has(queue, k)
        BY <2>4, <4>3 DEF Has
      <4>8. ~Urgent(queue[i]) => \A k \in LoginKinds : Has(wire, k)
        BY <2>1, <2>4, <3>1, <4>7
      <4> QED BY <3>1, <4>1, <4>6, <4>8
    <3> QED BY <3>2, <3>3
  <2>7. CASE OutExpire
    <3>1. UNCHANGED <<wire, queue>> /\ held' = NoCmd /\ held.kind = "PONG"
      BY <2>7 DEF OutExpire, Expires, socketVars
    <3> QED BY <2>1, <3>1 DEF LoginKinds
  <2>8. CASE OutWrite
    <3>1. queue' = queue /\ held' = NoCmd /\ wire' = Append(wire, held) /\ out \in Holding
      BY <1>3, <2>8 DEF OutWrite, Holding
    <3>2. wire \in Seq(Commands) /\ held \in Commands
      BY <3>1 DEF CommandsInv, CommandTypes
    <3>3. Range(Append(wire, held)) = Range(wire) \cup {held}
      BY <3>2, RangeOfAppend
    <3>4. \A k \in LoginKinds : (held.kind = k \/ Has(wire, k)) => Has(Append(wire, held), k)
      BY <3>3 DEF Has
    <3> QED BY <2>1, <3>1, <3>4
  <2> QED BY <2>5, <2>6, <2>7, <2>8 DEF Output
<1> QED BY <1>2, <1>3

-----------------------------------------------------------------------------
(* The JOINs of the session *)

\* The urgent JOINs released in session n.
Joins(n) == {c \in Commands : c.kind = "JOIN" /\ c.born = n}

\* They are queued when the login is, and stay behind it.
JoinsWait ==
  LET main == at["main"]
  IN  /\ \A c \in Range(todo["client"]) : c.kind # "JOIN"
      /\ main \in Starting => \A c \in Range(queue) : c \notin Joins(session)
      /\ asio = "open" /\ main \notin Starting =>
           \A k \in LoginKinds : held.kind = k \/ Has(wire, k) \/ Behind(queue, Joins(session), k)
      /\ asio = "open" /\ held \in Joins(session) => \A k \in LoginKinds : Has(wire, k)

LEMMA JoinsWaitStart == Init => JoinsWait
<1> SUFFICES ASSUME Init PROVE JoinsWait
  OBVIOUS
<1>1. /\ todo["client"] = <<>> /\ queue = <<>> /\ asio = "none"
  BY DEF Init, Threads
<1>2. Range(<<>>) = {}
  BY EmptySeq, InRange DEF Range
<1> QED BY <1>1, <1>2 DEF JoinsWait

\* Steps that leave the queue and what is held alone, and do not begin a login.
LEMMA QuietKeepsJoins ==
  ASSUME JoinsWait, UNCHANGED <<session, queue, held>>, KeepsLogin(wire, wire'),
         asio' = "open" => asio = "open", todo'["client"] = todo["client"],
         at'["main"] \in Starting <=> at["main"] \in Starting
  PROVE  JoinsWait'
BY DEF JoinsWait, KeepsLogin

\* command(): what it puts into the queue comes last, and what it takes out is no login.
LEMMA CommandKeepsJoins ==
  ASSUME ThreadsInv, CommandsInv, LoginComes, JoinsWait, ~TearingDown, NEW t \in Threads, Command(t)
  PROVE  JoinsWait'
<1> DEFINE c == Head(todo[t])
<1>0. ThreadTypes /\ "main" \in Threads /\ "irc_in" \in Threads /\ "client" \in Threads
  BY DEF ThreadsInv, Threads
<1>1. todo[t] \in Seq(Commands) /\ todo[t] # <<>> /\ at[t] \in Issuing
  BY DEF CommandsInv, CommandTypes, Command, CommandTest, CommandCheck, CommandClear, CommandInsert, Issuing
<1>2. c \in Commands /\ Range(todo[t]) = {c} \cup Range(Tail(todo[t]))
  BY <1>1, RangeOfTail
<1>3. queue' \in {queue, KeptUrgent(queue), Append(queue, c)}
  BY DEF Command, CommandTest, CommandCheck, CommandClear, CommandInsert, queueVars
<1>4. UNCHANGED <<wire, held, asio, session>> /\ (todo' = todo \/ todo' = [todo EXCEPT ![t] = Tail(@)])
  BY DEF Command, CommandTest, CommandCheck, CommandClear, CommandInsert, Resume, queueVars, socketVars
<1>5. queue \in Seq(Commands) /\ todo \in [Threads -> Seq(Commands)]
  BY DEF CommandsInv, CommandTypes
<1>6. \A d \in Range(todo'["client"]) : d.kind # "JOIN"
  <2>1. \A d \in Range(todo["client"]) : d.kind # "JOIN"
    BY DEF JoinsWait
  <2>2. CASE todo' = todo \/ t # "client"
    BY <1>0, <1>4, <1>5, <2>1, <2>2
  <2>3. CASE todo' = [todo EXCEPT ![t] = Tail(@)] /\ t = "client"
    <3>1. todo'["client"] = Tail(todo["client"])
      BY <1>0, <1>5, <2>3
    <3>2. Range(Tail(todo["client"])) \subseteq Range(todo["client"])
      BY <1>2, <2>3
    <3> QED BY <2>1, <3>1, <3>2
  <2> QED BY <1>4, <2>2, <2>3
<1>7. at'["main"] \in Starting <=> at["main"] \in Starting
  <2>1. CASE t = "main"
    <3>1. at'["main"] \in Issuing \cup {"spawn"}
      BY <1>0, <2>1, CommandMoves DEF Moves
    <3> QED BY <1>1, <2>1, <3>1 DEF Starting
  <2>2. CASE t # "main"
    BY <1>0, <2>2, CommandMoves DEF Moves
  <2> QED BY <2>1, <2>2
<1>8. ASSUME at["main"] \in Starting PROVE \A d \in Range(queue') : d \notin Joins(session)
  <2>1. \A d \in Range(queue) : d \notin Joins(session)
    BY <1>8 DEF JoinsWait
  <2>2. c.kind # "JOIN"
    <3>1. CASE t = "main"
      BY <1>1, <3>1 DEF LoginComes
    <3>2. CASE t = "client"
      BY <1>2, <3>2 DEF JoinsWait
    <3>3. t # "irc_in"
      BY <1>1, <1>8 DEF ThreadsInv, Places, Reading, Starting, Issuing
    <3> QED BY <3>1, <3>2, <3>3 DEF Threads
  <2> HIDE DEF c
  <2>3. Range(KeptUrgent(queue)) \subseteq Range(queue)
    BY <1>5, KeptIs
  <2>4. Range(Append(queue, c)) = Range(queue) \cup {c}
    BY <1>2, <1>5, RangeOfAppend
  <2>5. c \notin Joins(session)
    BY <2>2 DEF Joins
  <2> QED BY <1>3, <2>1, <2>3, <2>4, <2>5
<1>9. ASSUME asio = "open", at["main"] \notin Starting, NEW k \in LoginKinds
      PROVE  held.kind = k \/ Has(wire, k) \/ Behind(queue', Joins(session), k)
  <2>1. SUFFICES ASSUME held.kind # k, ~Has(wire, k) PROVE Behind(queue', Joins(session), k)
    OBVIOUS
  <2>2. Behind(queue, Joins(session), k)
    BY <1>9, <2>1 DEF JoinsWait
  <2>3. Has(queue, k)
    BY <1>9, <2>1 DEF LoginComes
  <2>4. Behind(KeptUrgent(queue), Joins(session), k)
    BY <1>5, <2>2, KeptIs
  <2> HIDE DEF c
  <2>5. Behind(Append(queue, c), Joins(session), k)
    BY <1>2, <1>5, <2>2, <2>3, BehindInAppend
  <2> QED BY <1>3, <2>2, <2>4, <2>5
<1>10. asio = "open" /\ held \in Joins(session) => \A k \in LoginKinds : Has(wire, k)
  BY DEF JoinsWait
<1> QED BY <1>4, <1>6, <1>7, <1>8, <1>9, <1>10 DEF JoinsWait

LEMMA MainKeepsJoins ==
  ASSUME ThreadsInv, CommandsInv, OutputLives, LoginComes, JoinsWait, ~TearingDown,
         StartConnect \/ StartDisconnect \/ StartReconnect("main") \/ Main
  PROVE  JoinsWait'
<1>0. ThreadTypes /\ "main" \in Threads /\ "client" \in Threads
      /\ todo \in [Threads -> Seq(Commands)] /\ queue \in Seq(Commands)
  BY DEF ThreadsInv, Threads, CommandsInv, CommandTypes
<1>1. CASE StartConnect \/ StartDisconnect \/ StartReconnect("main")
  <2>1. UNCHANGED <<session, asio, wire, held, queue, todo>>
    BY <1>1 DEF StartConnect, StartDisconnect, StartReconnect, socketVars, queueVars
  <2>2. at["main"] = "idle" /\ at'["main"] \in {"connect", "quit"}
    BY <1>0, <1>1, MainMoves DEF Moves, StartConnect, StartDisconnect, StartReconnect
  <2>3. at["main"] \notin Starting /\ at'["main"] \notin Starting
    BY <2>2 DEF Starting, Issuing
  <2> QED BY <2>1, <2>3, QuietKeepsJoins, SameLogin
<1>2. CASE Disconnect("main")
  <2>1. at["main"] \in Tearing /\ at'["main"] \in Tearing \cup {"join_out"}
    BY <1>0, <1>2, DisconnectMoves DEF Disconnect, Moves, Tearing
  <2>2. asio' = "open" => asio = "open"
    BY <1>0, <1>2, DisconnectMoves DEF Disconnect
  <2>3. held' = held /\ queue' = queue /\ todo' = todo /\ session' = session
    BY <1>2 DEF Disconnect, Quit, Close, Lock, StopQueue, NotifyQueue, JoinInput, queueVars, socketVars
  <2>4. Quit("main") \/ wire' = wire
    BY <1>2 DEF Disconnect, Close, Lock, StopQueue, NotifyQueue, JoinInput, socketVars
  <2>5. KeepsLogin(wire, wire')
    BY <2>4, QuitKeepsLogin, SameLogin
  <2>6. at["main"] \notin Starting /\ at'["main"] \notin Starting
    BY <2>1 DEF Starting, Issuing, Tearing
  <2> QED BY <2>2, <2>3, <2>5, <2>6, QuietKeepsJoins
<1>3. CASE JoinOutput \/ Connect \/ OpenFails
  <2>1. UNCHANGED <<session, wire, held, queue, todo>> /\ (asio' = "open" => asio = "open")
    BY <1>3 DEF JoinOutput, Connect, OpenFails, socketVars, queueVars
  <2>2. at["main"] \in {"join_out", "connect", "open"} /\ at'["main"] \in {"idle", "connect", "open", "quit"}
    BY <1>0, <1>3, MainMoves DEF Moves, JoinOutput, Connect, OpenFails
  <2>3. at["main"] \notin Starting /\ at'["main"] \notin Starting
    BY <2>2 DEF Starting, Issuing
  <2> QED BY <2>1, <2>3, QuietKeepsJoins, SameLogin
<1>4. CASE OpenSocket
  <2>1. at["main"] = "open" /\ at'["main"] = "login" /\ UNCHANGED <<held, queue, todo>> /\ session' = session + 1
    BY <1>0, <1>4, MainMoves DEF Moves, OpenSocket
  <2>2. held = NoCmd
    BY <2>1 DEF OutputLives, CommandsInv, CommandTypes, Holding
  <2>3. ASSUME NEW c \in Range(queue) PROVE c \notin Joins(session')
    <3>1. c \in Commands /\ c.born <= session /\ session \in Nat
      BY <1>0, InRange, BoundsAssumption DEF CommandsInv, CommandTypes, CommandsAreOurs, Ours, Old
    <3>2. c.born \in Nat
      BY <3>1, BoundsAssumption DEF Commands
    <3>3. c.born # session + 1
      BY <3>1, <3>2
    <3> QED BY <2>1, <3>3 DEF Joins
  <2>4. held' \notin Joins(session')
    BY <2>1, <2>2, NotNoCmd DEF Joins
  <2>5. at'["main"] \in Starting
    BY <2>1 DEF Starting
  <2> QED BY <2>1, <2>3, <2>4, <2>5 DEF JoinsWait
<1>5. CASE Login
  <2>1. at["main"] = "login" /\ at'["main"] = "command" /\ UNCHANGED <<session, asio, wire, held, queue>>
    BY <1>0, <1>5, MainMoves DEF Moves, Login, queueVars
  <2>2. todo'["client"] = todo["client"]
    BY <1>0, <1>5 DEF Login
  <2>3. at["main"] \in Starting /\ at'["main"] \in Starting
    BY <2>1 DEF Starting, Issuing
  <2> QED BY <2>1, <2>2, <2>3, QuietKeepsJoins, SameLogin
<1>6. CASE Command("main")
  BY <1>0, <1>6, CommandKeepsJoins
<1>7. CASE Spawn
  <2>1. at["main"] = "spawn" /\ at'["main"] = "idle" /\ UNCHANGED <<session, asio, wire, held, queue, todo>>
    BY <1>0, <1>7, MainMoves DEF Spawn, socketVars
  <2>2. at["main"] \in Starting /\ at'["main"] \notin Starting
    BY <2>1 DEF Starting, Issuing
  <2>3. \A c \in Range(queue) : c \notin Joins(session)
    BY <2>2 DEF JoinsWait
  <2>4. \A k \in LoginKinds : Behind(queue, Joins(session), k)
    BY <1>0, <2>3, InRange DEF Behind
  <2> QED BY <2>1, <2>2, <2>4 DEF JoinsWait
<1> QED BY <1>1, <1>2, <1>3, <1>4, <1>5, <1>6, <1>7 DEF Main

LEMMA OtherThreadsJoins ==
  ASSUME ThreadsInv, CommandsInv, LoginComes, JoinsWait, ~TearingDown,
         \/ Input \/ ReadEnds \/ \E kind \in Lines : ReadLine(kind)
         \/ Command("client") \/ \E kind \in ClientKinds : ClientIssues(kind)
  PROVE  JoinsWait'
<1>0. ThreadTypes /\ "main" \in Threads /\ "irc_in" \in Threads /\ "client" \in Threads
      /\ "main" # "irc_in" /\ "main" # "client" /\ todo \in [Threads -> Seq(Commands)]
  BY DEF ThreadsInv, Threads, CommandsInv, CommandTypes
<1>1. CASE Command("irc_in") \/ Command("client")
  BY <1>0, <1>1, CommandKeepsJoins
<1>2. CASE \E kind \in ClientKinds : ClientIssues(kind)
  <2>1. PICK kind \in ClientKinds : ClientIssues(kind)
    BY <1>2
  <2> DEFINE c == Cmd(kind, issued + 1)
             new == <<c>>
  <2>2. at'["main"] = at["main"] /\ UNCHANGED <<session, wire, held, asio, queue>>
    BY <1>0, <2>1, Going, LabelNames DEF ClientIssues, Moves, socketVars, queueVars
  <2>3. todo'["client"] = new
    BY <1>0, <2>1 DEF ClientIssues
  <2>4. c.kind = kind /\ kind # "JOIN"
    BY BoundsAssumption DEF Cmd
  <2> HIDE DEF c
  <2>5. \A d \in Range(new) : d = c
    BY DEF Range
  <2> QED BY <2>2, <2>3, <2>4, <2>5 DEF JoinsWait
<1>3. CASE ScheduleRead \/ ReadEnds \/ Lookup \/ HandleWelcome \/ Welcomed \/ HandleFlush \/ HandleOther
           \/ StartReconnect("irc_in") \/ \E kind \in Lines : ReadLine(kind)
  <2>1. at'["main"] = at["main"]
    BY <1>0, <1>3, InputMoves DEF Moves
  <2>2. UNCHANGED <<session, wire, held, asio, queue>>
    BY <1>3 DEF ScheduleRead, ReadEnds, Lookup, HandleWelcome, Welcomed, HandleFlush, HandleOther,
       StartReconnect, ReadLine, socketVars, queueVars
  <2>3. todo'["client"] = todo["client"]
    BY <1>0, <1>3 DEF ScheduleRead, ReadEnds, Lookup, HandleWelcome, Welcomed, HandleFlush, HandleOther,
       StartReconnect, ReadLine
  <2> QED BY <2>1, <2>2, <2>3, QuietKeepsJoins, SameLogin
<1>4. ~Disconnect("irc_in")
  BY <1>0, DisconnectMoves DEF Disconnect, TearingDown, Moves
<1> QED BY <1>1, <1>2, <1>3, <1>4 DEF Input

\* The output thread takes the oldest of the urgent: the login before the JOINs behind it.
LEMMA OutputJoins ==
  ASSUME ThreadsInv, CommandsInv, OutputLives, JoinsWait, Output
  PROVE  JoinsWait'
<1>0. UNCHANGED <<session, asio, at, todo>> /\ out # "none"
  BY DEF Output, OutStart, OutLoop, OutTest, OutSleep, OutGot, OutExpire, OutWrite, socketVars, threadVars
<1>1. at["main"] \notin Starting
  BY <1>0 DEF OutputLives
<1>2. CASE asio # "open"
  BY <1>0, <1>1, <1>2 DEF JoinsWait
<1>3. CASE asio = "open"
  <2> DEFINE J == Joins(session)
  <2>0. run
    BY <1>3 DEF OutputLives
  <2>1. \A k \in LoginKinds : held.kind = k \/ Has(wire, k) \/ Behind(queue, J, k)
    BY <1>1, <1>3 DEF JoinsWait
  <2>2. held \in J => \A k \in LoginKinds : Has(wire, k)
    BY <1>3 DEF JoinsWait
  <2> HIDE DEF J
  <2>3. SUFFICES /\ \A k \in LoginKinds : held'.kind = k \/ Has(wire', k) \/ Behind(queue', J, k)
                 /\ held' \in J => \A k \in LoginKinds : Has(wire', k)
    BY <1>0, <1>1 DEF JoinsWait, J
  <2>4. /\ \A k \in LoginKinds : NoCmd.kind # k /\ \A c : c.kind = k => Urgent(c)
        /\ \A c \in J : Urgent(c) /\ c \in Commands /\ c.kind \notin LoginKinds
    BY DEF NoCmd, LoginKinds, Urgent, J, Joins
  <2>5. CASE OutStart \/ OutLoop \/ OutSleep \/ OutGot
    <3>1. UNCHANGED <<wire, held, queue>>
      BY <2>0, <2>5 DEF OutStart, OutLoop, OutSleep, OutGot, socketVars
    <3> QED BY <2>1, <2>2, <3>1
  <2>6. CASE OutTest
    <3>1. wire' = wire /\ held = NoCmd
      BY <2>6 DEF OutTest, socketVars, CommandsInv, CommandTypes, Holding
    <3>2. CASE queue = <<>>
      <4>1. UNCHANGED <<queue, held>>
        BY <2>0, <2>6, <3>2 DEF OutTest
      <4> QED BY <2>1, <2>2, <3>1, <4>1
    <3>3. CASE queue # <<>>
      <4> DEFINE i == First(queue)
                 rest == SubSeq(queue, 1, i - 1) \o SubSeq(queue, i + 1, Len(queue))
      <4>1. held' = queue[i] /\ queue' = rest
        BY <2>0, <2>6, <3>3 DEF OutTest
      <4>2. queue \in Seq(Commands)
        BY DEF CommandsInv, CommandTypes
      <4>3. i \in 1..Len(queue) /\ (Urgent(queue[i]) => \A j \in 1..(i - 1) : ~Urgent(queue[j]))
        BY <3>3, <4>2, FirstIs
      <4>4. \A k \in LoginKinds : Has(wire, k) \/ Behind(queue, J, k)
        BY <2>1, <2>4, <3>1
      <4>5. ASSUME NEW k \in LoginKinds, queue[i].kind # k, Behind(queue, J, k) PROVE Behind(rest, J, k)
        BY <4>2, <4>3, <4>5, BehindWithout
      <4> HIDE DEF i, rest
      <4>6. ASSUME queue[i] \in J, NEW k \in LoginKinds PROVE Has(wire, k)
        <5>1. SUFFICES ASSUME Behind(queue, J, k) PROVE FALSE
          BY <4>4
        <5>2. PICK j \in 1..(i - 1) : queue[j].kind = k
          BY <4>3, <4>6, <5>1 DEF Behind
        <5> QED BY <2>4, <4>3, <4>6, <5>2
      <4>7. \A k \in LoginKinds : held'.kind = k \/ Has(wire', k) \/ Behind(queue', J, k)
        BY <3>1, <4>1, <4>4, <4>5
      <4> QED BY <3>1, <4>1, <4>6, <4>7
    <3> QED BY <3>2, <3>3
  <2>7. CASE OutExpire
    <3>1. UNCHANGED <<wire, queue>> /\ held' = NoCmd /\ held.kind = "PONG"
      BY <2>7 DEF OutExpire, Expires, socketVars
    <3>2. held' \notin J
      BY <2>4, <3>1, NotNoCmd
    <3> QED BY <2>1, <3>1, <3>2 DEF LoginKinds
  <2>8. CASE OutWrite
    <3>1. queue' = queue /\ held' = NoCmd /\ wire' = Append(wire, held) /\ out \in Holding
      BY <1>3, <2>8 DEF OutWrite, Holding
    <3>2. wire \in Seq(Commands) /\ held \in Commands
      BY <3>1 DEF CommandsInv, CommandTypes
    <3>3. Range(Append(wire, held)) = Range(wire) \cup {held}
      BY <3>2, RangeOfAppend
    <3>4. \A k \in LoginKinds : (held.kind = k \/ Has(wire, k)) => Has(Append(wire, held), k)
      BY <3>3 DEF Has
    <3>5. held' \notin J
      BY <2>4, <3>1, NotNoCmd
    <3> QED BY <2>1, <3>1, <3>4, <3>5
  <2> QED BY <2>5, <2>6, <2>7, <2>8 DEF Output
<1> QED BY <1>2, <1>3

-----------------------------------------------------------------------------
(* The order on the wire *)

Followers(n) ==
  {c \in Commands : c.kind \notin {"QUIT", "NICK", "USER", "PONG"} /\ (Urgent(c) => c.born = n)}

InOrder(s, n) == \A k \in LoginKinds : Behind(s, Followers(n), k)

LEMMA OrderOfAppend ==
  ASSUME NEW s \in Seq(Commands), NEW n, InOrder(s, n), NEW c \in Commands,
         c \in Followers(n) => \A k \in LoginKinds : Has(s, k)
  PROVE  InOrder(Append(s, c), n)
BY BehindInAppend DEF InOrder

LEMMA OrderStep ==
  ASSUME ThreadsInv, CommandsInv, LoginComes, JoinsWait, InOrder(wire, session), [Next]_vars
  PROVE  InOrder(wire', session')
<1>0. wire \in Seq(Commands)
  BY DEF CommandsInv, CommandTypes
<1>s. session' = session \/ wire' = <<>>
  BY DEF Next, Output, StartConnect, StartDisconnect, StartReconnect, Main, Disconnect, Quit, Close,
     Lock, StopQueue, NotifyQueue, JoinInput, JoinOutput, Connect, OpenSocket, OpenFails, Login, Spawn,
     ReadEnds, ReadLine, Input, ScheduleRead, Lookup, HandleWelcome, Welcomed, HandleFlush,
     HandleOther, OutStart, OutLoop, OutTest, OutSleep, OutGot, OutExpire, OutWrite, ClientIssues,
     Command, CommandTest, CommandCheck, CommandClear, CommandInsert, socketVars, vars
<1>1. \/ wire' = wire
      \/ wire' = Append(wire, Cmd("QUIT", 0))
      \/ wire' = <<>>
      \/ OutWrite /\ asio = "open" /\ wire' = Append(wire, held)
  <2>1. StartConnect \/ StartDisconnect \/ StartReconnect("main") \/ Main =>
          wire' = wire \/ wire' = Append(wire, Cmd("QUIT", 0)) \/ wire' = <<>>
    BY DEF StartConnect, StartDisconnect, StartReconnect, Main, Disconnect, Quit, Close, Lock, StopQueue,
       NotifyQueue, JoinInput, JoinOutput, Connect, OpenSocket, OpenFails, Login, Spawn,
       Command, CommandTest, CommandCheck, CommandClear, CommandInsert, socketVars
  <2>2. Input \/ ReadEnds \/ (\E kind \in Lines : ReadLine(kind)) =>
          wire' = wire \/ wire' = Append(wire, Cmd("QUIT", 0))
    BY DEF ReadEnds, ReadLine, Input, ScheduleRead, Lookup, HandleWelcome, Welcomed, HandleFlush,
       HandleOther, StartReconnect, Disconnect, Quit, Close, Lock, StopQueue, NotifyQueue, JoinInput,
       Command, CommandTest, CommandCheck, CommandClear, CommandInsert, socketVars
  <2>3. Output => wire' = wire \/ (OutWrite /\ asio = "open" /\ wire' = Append(wire, held))
    BY DEF Output, OutStart, OutLoop, OutTest, OutSleep, OutGot, OutExpire, OutWrite, socketVars
  <2>4. (\E kind \in ClientKinds : ClientIssues(kind)) \/ Command("client") => wire' = wire
    BY DEF ClientIssues, Command, CommandTest, CommandCheck, CommandClear, CommandInsert, socketVars
  <2>5. UNCHANGED vars => wire' = wire
    BY DEF vars, socketVars
  <2> QED BY <2>1, <2>2, <2>3, <2>4, <2>5 DEF Next
<1>2. CASE wire' = <<>>
  BY <1>2, EmptySeq DEF InOrder, Behind
<1>3. CASE wire' # <<>> /\ wire' = Append(wire, Cmd("QUIT", 0))
  <2>1. Cmd("QUIT", 0) \in Commands /\ Cmd("QUIT", 0) \notin Followers(session)
    BY CommandKinds, BoundsAssumption DEF CommandsInv, CommandTypes, Followers
  <2> QED BY <1>0, <1>s, <1>3, <2>1, OrderOfAppend
<1>4. CASE wire' # <<>> /\ wire' = wire
  BY <1>s, <1>4
<1>5. CASE wire' # <<>> /\ OutWrite /\ asio = "open" /\ wire' = Append(wire, held)
  <2>1. held \in Commands
    BY <1>5 DEF OutWrite, CommandsInv, CommandTypes, Holding
  <2>2. ~Urgent(held) => \A k \in LoginKinds : Has(wire, k)
    BY <1>5, <2>1, NotNoCmd DEF LoginComes
  <2>3. held \in Joins(session) => \A k \in LoginKinds : Has(wire, k)
    BY <1>5 DEF JoinsWait
  <2>4. held \in Followers(session) => ~Urgent(held) \/ held \in Joins(session)
    BY DEF Followers, Joins, Urgent
  <2> QED BY <1>0, <1>s, <1>5, <2>1, <2>2, <2>3, <2>4, OrderOfAppend
<1> QED BY <1>1, <1>2, <1>3, <1>4, <1>5

\* The login, unless irc_in takes the link down.
LoginInv == ~TearingDown => OutputLives /\ LoginComes /\ JoinsWait /\ InOrder(wire, session)

LEMMA LoginStep == ThreadsInv /\ CommandsInv /\ LoginInv /\ [Next]_vars => LoginInv'
<1> SUFFICES ASSUME ThreadsInv, CommandsInv, LoginInv, [Next]_vars, ~TearingDown' PROVE
      (OutputLives /\ LoginComes /\ JoinsWait /\ InOrder(wire, session))'
  BY DEF LoginInv
<1>1. ~TearingDown
  BY TearingGoesOn
<1>2. OutputLives /\ LoginComes /\ JoinsWait /\ InOrder(wire, session)
  BY <1>1 DEF LoginInv
<1>3. OutputLives'
  BY <1>1, <1>2, OutputLivesStep
<1>4. LoginComes' /\ JoinsWait'
  <2>1. CASE Next
    <3>1. LoginComes'
      BY <1>1, <1>2, <2>1, MainLogin, OtherThreadsLogin, OutputLogin DEF Next
    <3>2. JoinsWait'
      BY <1>1, <1>2, <2>1, MainKeepsJoins, OtherThreadsJoins, OutputJoins DEF Next
    <3> QED BY <3>1, <3>2
  <2>2. CASE UNCHANGED vars
    <3>1. UNCHANGED <<at, todo, queue, held, wire, asio, session>>
      BY <2>2 DEF vars, socketVars, threadVars, queueVars
    <3> QED BY <1>2, <3>1, OthersKeepLogin, QuietKeepsJoins, SameLogin
  <2> QED BY <2>1, <2>2
<1>5. InOrder(wire', session')
  BY <1>2, OrderStep
<1> QED BY <1>3, <1>4, <1>5 DEF InOrder, Followers

LEMMA LoginStart == Init => LoginInv
<1> SUFFICES ASSUME Init PROVE OutputLives /\ LoginComes /\ JoinsWait /\ InOrder(wire, session)
  BY DEF LoginInv
<1>1. LoginComes
  BY DEF Init, LoginComes, Threads, Issuing
<1>2. InOrder(wire, session)
  BY EmptySeq DEF Init, InOrder, Behind
<1> QED BY <1>1, <1>2, OutputLivesStart, JoinsWaitStart

\* While irc_in is not taking the link down, NICK and USER are on the wire before anything
\* released in the session, its JOINs included, and before anything an earlier session left
\* in the queue but an urgent JOIN: LoginFirst (IrcLink), of login(), Buffer::insert,
\* process() and stop().
THEOREM LoginComesFirst == Spec => []LoginFirst
<1>1. Init => ThreadsInv /\ CommandsInv /\ LoginInv
  BY PlacesStart, CommandsStart, LoginStart
<1>2. ThreadsInv /\ CommandsInv /\ LoginInv /\ [Next]_vars => (ThreadsInv /\ CommandsInv /\ LoginInv)'
  BY ThreadsStep, CommandsStep, LoginStep
<1>3. CommandsInv /\ LoginInv => LoginFirst
  <2> SUFFICES ASSUME CommandsInv, LoginInv, ~TearingDown, NEW i \in DOMAIN wire,
                      FollowsLogin(wire[i]), NEW k \in {"NICK", "USER"}
               PROVE  \E j \in 1..(i - 1) : wire[j].kind = k
    BY DEF LoginFirst
  <2>1. wire \in Seq(Commands)
    BY DEF CommandsInv, CommandTypes
  <2>2. i \in 1..Len(wire) /\ wire[i] \in Followers(session)
    BY <2>1, InRange DEF Followers, FollowsLogin
  <2>3. Behind(wire, Followers(session), k)
    BY DEF LoginInv, InOrder, LoginKinds
  <2> QED BY <2>2, <2>3 DEF Behind
<1> QED BY <1>1, <1>2, <1>3, PTL DEF Spec
=============================================================================
