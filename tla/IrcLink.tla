------------------------------- MODULE IrcLink -------------------------------
(***************************************************************************)
(* The life of one IRC connection (modules/irc/network): the thread that   *)
(* connects, disconnects and reconnects it ("main"), the input thread      *)
(* running Buffer::run_input ("irc_in"), the output thread running         *)
(* Buffer::run_output, and any other thread that calls command(), such as  *)
(* the timer's ("client").  They share the recursive mutex of              *)
(* AuthConnection, the atomic status, the asio object with the socket, the *)
(* output queue and the list of scheduled commands.  disconnect() runs on  *)
(* main, and on irc_in when the server sends ERROR or 464; it holds the    *)
(* mutex while it joins threads.  Whatever only locks the mutex, works and *)
(* unlocks it is one step that needs the mutex free.                       *)
(***************************************************************************)
EXTENDS Naturals, Sequences

CONSTANTS
  MaxSessions,   \* bound: connection attempts that reach the socket
  MaxLines,      \* bound: lines received
  MaxCommands,   \* bound: commands the client issues
  ClientKinds,   \* the commands it issues, of PRIVMSG and CLEARBUFFER
  Lines          \* what the server may send, a subset of LineKinds

\* "other" is any line whose handler only locks and updates users; "464" stands
\* for 464, 465 and 466.
LineKinds == {"001", "002", "464", "PING", "ERROR", "other"}

ASSUME BoundsAssumption ==
  /\ {MaxSessions, MaxLines, MaxCommands} \subseteq Nat
  /\ ClientKinds \subseteq {"PRIVMSG", "CLEARBUFFER"}
  /\ Lines \subseteq LineKinds

VARIABLES
  status,       \* connection_status
  asio,         \* the Asio object: "none", or its socket is "closed" or "open"
  session,      \* how many times a socket was opened
  wire,         \* what was written to the socket of this session
  mutex,        \* the thread inside disconnect() holding it, or "free"
  at,           \* program counters of main, irc_in and client
  after,        \* what main or irc_in does when its disconnect() returns
  todo,         \* the commands each of them still has to call command() with
  line,         \* the line irc_in is handling, or "none"
  lines,        \* lines received so far
  welcomed,     \* 001 was handled in this session
  issued,       \* commands the client issued
  scheduled,    \* scheduled_commands
  queue,        \* the output queue, oldest first
  run,          \* its flag
  out,          \* program counter of the output thread
  held          \* the command the output thread popped, or NoCmd

socketVars == <<status, asio, session, wire>>
threadVars == <<mutex, at, after, todo>>
inputVars == <<line, lines, welcomed>>
queueVars == <<queue, run, out, held>>
vars == <<socketVars, threadVars, inputVars, issued, scheduled, queueVars>>

Threads == {"main", "irc_in", "client"}

\* born: the session during which the command was made.  JOIN is that of a configured
\* channel; the one reconnect() makes has no priority and is called REJOIN.
Commands ==
  [kind : {"QUIT", "NICK", "USER", "PONG", "JOIN", "REJOIN", "PRIVMSG", "CLEARBUFFER"},
   id : 0..MaxCommands, born : 0..MaxSessions]

Cmd(kind, id) == [kind |-> kind, id |-> id, born |-> session]
NoCmd == [kind |-> "none", id |-> 0, born |-> 0]

\* Login, PONG and the JOIN of a configured channel have priority 1024, the rest none.
Urgent(c) == c.kind \in {"NICK", "USER", "PONG", "JOIN"}

\* Those command() takes before the connection is CONNECTED (and PASS, which login() may
\* issue before the two, and MODE: neither is issued here).
Immediate(c) == c.kind \in {"NICK", "USER", "PONG"}

\* Those whose branch in command() locks the mutex.
Checked(c) == c.kind \in {"NICK", "JOIN", "REJOIN", "PRIVMSG"}

\* PONG is the only command here that is given a timeout.
Expires(c) == c.kind = "PONG"

\* Mutant: a queue that is not a priority queue.
FirstIsOldest(q) == 1

\* Command::operator<: higher priority first, then the older.
First(q) ==
  CHOOSE i \in DOMAIN q : \A j \in DOMAIN q :
    \/ Urgent(q[i]) /\ ~Urgent(q[j])
    \/ Urgent(q[i]) = Urgent(q[j]) /\ i <= j

\* Only the consumer keeps the queue's own mutex over two steps ("gap").
QueueFree == out # "gap"

\* The output thread after a notification of the queue's condition variable.
OutNotified == IF out = "asleep" THEN "test" ELSE out

Goto(t, label) == at' = [at EXCEPT ![t] = label]

\* The process is gone: std::terminate or a null dereference.
Crashed == out = "crashed" \/ \E t \in Threads : at[t] = "crashed"

\* A thread at one of these steps is about to lock the mutex.
WaitsForMutex(t) == at[t] \in {"lock", "lookup", "handle", "check"}

Init ==
  /\ status = "DISCONNECTED" /\ asio = "none" /\ session = 0 /\ wire = <<>>
  /\ mutex = "free"
  /\ at = [t \in Threads |-> "idle"]
  /\ after = [t \in {"main", "irc_in"} |-> "idle"]
  /\ todo = [t \in Threads |-> <<>>]
  /\ line = "none" /\ lines = 0 /\ welcomed = FALSE
  /\ issued = 0
  \* read_settings issued the JOIN of a configured channel before connecting
  /\ scheduled = <<Cmd("JOIN", 0)>>
  /\ queue = <<>> /\ run = TRUE
  /\ out = "none" /\ held = NoCmd

-----------------------------------------------------------------------------
(* command(), on whatever thread calls it *)

\* The next of the commands t has to issue, or what t does after the last one.
Resume(t) ==
  /\ todo' = [todo EXCEPT ![t] = Tail(@)]
  /\ Goto(t, IF Len(todo[t]) > 1 THEN "command"
             ELSE [main |-> "spawn", irc_in |-> "next", client |-> "idle"][t])

\* Mutant: `< CONNECTING`.
CommandTestOffByOne(t) ==
  /\ at[t] = "command"
  /\ LET c == Head(todo[t])
     IN  IF status \in {"DISCONNECTED", "WAITING"} /\ ~Immediate(c)
         THEN scheduled' = Append(scheduled, c) /\ Resume(t)
         ELSE /\ Goto(t, IF Checked(c) THEN "check"
                         ELSE IF c.kind = "CLEARBUFFER" THEN "clear" ELSE "insert")
              /\ UNCHANGED <<todo, scheduled>>
  /\ UNCHANGED <<socketVars, mutex, after, inputVars, issued, queueVars>>

\* `if ( connection_status <= CONNECTING && ...)`: scheduled, without the mutex
\* (the list is not protected; the loss of an element in such a race is not
\* modelled).
CommandTest(t) ==
  /\ at[t] = "command"
  /\ LET c == Head(todo[t])
     IN  IF status # "CONNECTED" /\ ~Immediate(c)
         THEN scheduled' = Append(scheduled, c) /\ Resume(t)
         ELSE /\ Goto(t, IF Checked(c) THEN "check"
                         ELSE IF c.kind = "CLEARBUFFER" THEN "clear" ELSE "insert")
              /\ UNCHANGED <<todo, scheduled>>
  /\ UNCHANGED <<socketVars, mutex, after, inputVars, issued, queueVars>>

\* The branches that compare with the nick or the channels, under the mutex.
CommandCheck(t) ==
  /\ at[t] = "check"
  /\ mutex = "free"
  /\ Goto(t, "insert")
  /\ UNCHANGED <<socketVars, mutex, after, todo, inputVars, issued, scheduled, queueVars>>

\* remove_if of the queue: what is urgent is put back, one command after the other.
KeptUrgent(q) ==
  LET kept[i \in 0..Len(q)] ==
        IF i = 0 THEN <<>>
        ELSE IF Urgent(q[i]) THEN Append(kept[i - 1], q[i]) ELSE kept[i - 1]
  IN  kept[Len(q)]

\* Buffer::clear: everything of its own priority or less leaves the queue.
CommandClear(t) ==
  /\ at[t] = "clear"
  /\ QueueFree
  /\ queue' = KeptUrgent(queue)
  /\ Goto(t, "insert")
  /\ UNCHANGED <<socketVars, mutex, after, todo, inputVars, issued, scheduled,
                 run, out, held>>

\* Mutant: push without notify_one.
CommandInsertSilent(t) ==
  /\ at[t] = "insert"
  /\ IF run THEN QueueFree /\ queue' = Append(queue, Head(todo[t])) ELSE UNCHANGED queue
  /\ Resume(t)
  /\ UNCHANGED <<socketVars, mutex, after, inputVars, issued, scheduled, run, out, held>>

\* Buffer::insert, which discards when the queue is stopped.
CommandInsert(t) ==
  /\ at[t] = "insert"
  /\ IF run
     THEN QueueFree /\ queue' = Append(queue, Head(todo[t])) /\ out' = OutNotified
     ELSE UNCHANGED <<queue, out>>
  /\ Resume(t)
  /\ UNCHANGED <<socketVars, mutex, after, inputVars, issued, scheduled, run, held>>

\* The client calls command().
ClientIssues(kind) ==
  /\ at["client"] = "idle"
  /\ issued < MaxCommands
  /\ issued' = issued + 1
  /\ todo' = [todo EXCEPT !["client"] = <<Cmd(kind, issued + 1)>>]
  /\ Goto("client", "command")
  /\ UNCHANGED <<socketVars, mutex, after, inputVars, scheduled, queueVars>>

-----------------------------------------------------------------------------
(* main: Connection::start, stop and reconnect; where irc_in runs the same  *)
(* function, t is the thread.                                               *)

StartConnect ==
  /\ at["main"] = "idle"
  /\ Goto("main", "connect")
  /\ UNCHANGED <<socketVars, mutex, after, todo, inputVars, issued, scheduled, queueVars>>

StartDisconnect ==
  /\ at["main"] = "idle"
  /\ Goto("main", "quit")
  /\ after' = [after EXCEPT !["main"] = "idle"]
  /\ UNCHANGED <<socketVars, mutex, todo, inputVars, issued, scheduled, queueVars>>

\* reconnect(): under the mutex, the JOIN of the channels the bot's user is in
\* (there can be one once CONNECTED), then disconnect() and connect().
StartReconnect(t) ==
  /\ \/ t = "main" /\ at[t] = "idle"
     \/ t = "irc_in" /\ at[t] = "handle" /\ line = "464"
  /\ mutex = "free"
  /\ \/ status = "CONNECTED" /\ scheduled' = Append(scheduled, Cmd("REJOIN", 0))
     \/ UNCHANGED scheduled
  /\ Goto(t, "quit")
  /\ after' = [after EXCEPT ![t] = "connect"]
  /\ UNCHANGED <<socketVars, mutex, todo, inputVars, issued, queueVars>>

\* if ( connection_status > CONNECTING ) buffer.write(QUIT): straight to the
\* socket, from this thread, whatever the output thread does.
Quit(t) ==
  /\ at[t] = "quit"
  /\ IF status = "CONNECTED"
     THEN /\ Goto(t, IF asio = "none" THEN "crashed" ELSE "close")
          /\ wire' = IF asio = "open" THEN Append(wire, Cmd("QUIT", 0)) ELSE wire
     ELSE Goto(t, "close") /\ UNCHANGED wire
  /\ UNCHANGED <<status, asio, session, mutex, after, todo, inputVars, issued,
                 scheduled, queueVars>>

\* if ( connection_status != DISCONNECTED ) buffer.disconnect();
Close(t) ==
  /\ at[t] = "close"
  /\ asio' = IF status # "DISCONNECTED" THEN "none" ELSE asio
  /\ Goto(t, "lock")
  /\ UNCHANGED <<status, session, wire, mutex, after, todo, inputVars, issued,
                 scheduled, queueVars>>

\* make_lock(mutex); status, nick, server, users reset.
Lock(t) ==
  /\ at[t] = "lock"
  /\ mutex = "free"
  /\ mutex' = t
  /\ status' = "DISCONNECTED"
  /\ Goto(t, "stop")
  /\ UNCHANGED <<asio, session, wire, after, todo, inputVars, issued, scheduled,
                 queueVars>>

\* buffer.stop(): disconnect() again, then stop() of the queue ...
StopQueue(t) ==
  /\ at[t] = "stop"
  /\ asio' = "none"
  /\ run' = FALSE
  /\ Goto(t, "notify")
  /\ UNCHANGED <<status, session, wire, mutex, after, todo, inputVars, issued,
                 scheduled, queue, out, held>>

NotifyQueue(t) ==
  /\ at[t] = "notify"
  /\ out' = OutNotified
  /\ Goto(t, "join_in")
  /\ UNCHANGED <<socketVars, mutex, after, todo, inputVars, issued, scheduled,
                 queue, run, held>>

\* Mutant: the input thread is left alone.
JoinInputSkipped(t) ==
  /\ at[t] = "join_in"
  /\ Goto(t, IF t = "irc_in" THEN "crashed" ELSE "join_out")
  /\ UNCHANGED <<socketVars, mutex, after, todo, inputVars, issued, scheduled, queueVars>>

\* ... and the joins, with the mutex held.  A thread that joins itself gets a
\* std::system_error nobody catches.
JoinInput(t) ==
  /\ at[t] = "join_in"
  /\ \/ t = "irc_in" /\ Goto(t, "crashed")
     \/ /\ t = "main" /\ at["irc_in"] \in {"idle", "done"}
        /\ at' = [at EXCEPT ![t] = "join_out", !["irc_in"] = "idle"]
  /\ UNCHANGED <<socketVars, mutex, after, todo, inputVars, issued, scheduled, queueVars>>

\* The last join; then disconnect() returns, and reconnect() goes on.
JoinOutput ==
  /\ at["main"] = "join_out"
  /\ out \in {"none", "done"}
  /\ out' = "none"
  /\ mutex' = "free"
  /\ Goto("main", after["main"])
  /\ after' = [after EXCEPT !["main"] = "idle"]
  /\ UNCHANGED <<socketVars, todo, inputVars, issued, scheduled, queue, run, held>>

\* connect(): nothing to do with an open socket.
Connect ==
  /\ at["main"] = "connect"
  /\ IF asio = "open"
     THEN Goto("main", "idle") /\ UNCHANGED status
     ELSE Goto("main", "open") /\ status' = "WAITING"
  /\ UNCHANGED <<asio, session, wire, mutex, after, todo, inputVars, issued,
                 scheduled, queueVars>>

\* Buffer::connect succeeds; connect() then locks the mutex (current_server).
OpenSocket ==
  /\ at["main"] = "open"
  /\ session < MaxSessions
  /\ session' = session + 1
  /\ asio' = "open"
  /\ run' = TRUE
  /\ wire' = <<>> /\ welcomed' = FALSE
  /\ Goto("main", "login")
  /\ UNCHANGED <<status, mutex, after, todo, line, lines, issued, scheduled, queue, out, held>>

\* It fails: irc.error_stop() disconnects.
OpenFails ==
  /\ at["main"] = "open"
  /\ asio' = "closed"
  /\ run' = TRUE
  /\ Goto("main", "quit")
  /\ after' = [after EXCEPT !["main"] = "idle"]
  /\ UNCHANGED <<status, session, wire, mutex, todo, inputVars, issued, scheduled,
                 queue, out, held>>

\* login(): NICK and USER go through command().
Login ==
  /\ at["main"] = "login"
  /\ mutex = "free"
  /\ status' = "CONNECTING"
  /\ todo' = [todo EXCEPT !["main"] = <<Cmd("NICK", 0), Cmd("USER", 0)>>]
  /\ Goto("main", "command")
  /\ UNCHANGED <<asio, session, wire, mutex, after, inputVars, issued, scheduled,
                 queueVars>>

\* Buffer::start(): the threads are created unless still joinable.
Spawn ==
  /\ at["main"] = "spawn"
  /\ run' = TRUE
  /\ out' = IF out = "none" THEN "start" ELSE out
  /\ at' = [at EXCEPT !["main"] = "idle",
                      !["irc_in"] = IF @ = "idle" THEN "next" ELSE @]
  /\ UNCHANGED <<socketVars, mutex, after, todo, inputVars, issued, scheduled,
                 queue, held>>

-----------------------------------------------------------------------------
(* irc_in *)

\* schedule_read dereferences asio.
ScheduleRead ==
  /\ at["irc_in"] = "next"
  /\ Goto("irc_in", IF asio = "none" THEN "crashed" ELSE "read")
  /\ line' = "none"
  /\ UNCHANGED <<socketVars, mutex, after, todo, lines, welcomed, issued, scheduled, queueVars>>

\* The read ends with an error: the socket was closed under it, or the server
\* hung up.  on_read_line returns and io_service.run() is out of work.
ReadEnds ==
  /\ at["irc_in"] = "read"
  /\ Goto("irc_in", "done")
  /\ UNCHANGED <<socketVars, mutex, after, todo, inputVars, issued, scheduled, queueVars>>

\* A line arrived.  handle_message looks its sender up, unless it is numeric.
ReadLine(kind) ==
  /\ at["irc_in"] = "read"
  /\ asio = "open"
  /\ lines < MaxLines
  /\ lines' = lines + 1
  /\ line' = kind
  /\ Goto("irc_in", IF kind \in {"001", "002", "464"} THEN "handle" ELSE "lookup")
  /\ UNCHANGED <<socketVars, mutex, after, todo, welcomed, issued, scheduled, queueVars>>

\* Then PING and ERROR are handled without the mutex.
Lookup ==
  /\ at["irc_in"] = "lookup"
  /\ mutex = "free"
  /\ CASE line = "PING" -> /\ Goto("irc_in", "command")
                           /\ todo' = [todo EXCEPT !["irc_in"] = <<Cmd("PONG", 0)>>]
                           /\ UNCHANGED after
       [] line = "ERROR" -> /\ Goto("irc_in", "quit")
                            /\ after' = [after EXCEPT !["irc_in"] = "idle"]
                            /\ UNCHANGED todo
       [] OTHER -> Goto("irc_in", "handle") /\ UNCHANGED <<after, todo>>
  /\ UNCHANGED <<socketVars, mutex, inputVars, issued, scheduled, queueVars>>

\* 001: the nick is set under the mutex, the status after it.
HandleWelcome ==
  /\ line = "001"
  /\ at["irc_in"] = "handle"
  /\ mutex = "free"
  /\ Goto("irc_in", "welcome")
  /\ UNCHANGED <<socketVars, mutex, after, todo, inputVars, issued, scheduled, queueVars>>

Welcomed ==
  /\ at["irc_in"] = "welcome"
  /\ status' = "CONNECTED"
  /\ welcomed' = TRUE
  /\ Goto("irc_in", "next")
  /\ UNCHANGED <<asio, session, wire, mutex, after, todo, line, lines, issued,
                 scheduled, queueVars>>

\* 002: scheduled_commands is swapped out under the mutex; then command() on
\* each of them, as a command of now (`c.timein = Clock::now()`).
HandleFlush ==
  /\ at["irc_in"] = "handle" /\ line = "002"
  /\ mutex = "free"
  /\ scheduled' = <<>>
  /\ todo' = [todo EXCEPT !["irc_in"] =
                [i \in DOMAIN scheduled |-> [scheduled[i] EXCEPT !.born = session]]]
  /\ Goto("irc_in", IF scheduled = <<>> THEN "next" ELSE "command")
  /\ UNCHANGED <<socketVars, mutex, after, inputVars, issued, queueVars>>

HandleOther ==
  /\ at["irc_in"] = "handle" /\ line = "other"
  /\ mutex = "free"
  /\ Goto("irc_in", "next")
  /\ UNCHANGED <<socketVars, mutex, after, todo, inputVars, issued, scheduled, queueVars>>

-----------------------------------------------------------------------------
(* The output thread: Buffer::run_output and process() *)

\* run_output begins with buffer.start().
OutStart ==
  /\ out = "start"
  /\ out' = "loop"
  /\ run' = TRUE
  /\ UNCHANGED <<socketVars, threadVars, inputVars, issued, scheduled, queue, held>>

\* Mutant: while (true) process();
OutLoopForever ==
  /\ out = "loop"
  /\ out' = "test"
  /\ UNCHANGED <<socketVars, threadVars, inputVars, issued, scheduled, queue, run, held>>

\* while (buffer.active()) process();
OutLoop ==
  /\ out = "loop"
  /\ out' = IF run THEN "test" ELSE "done"
  /\ UNCHANGED <<socketVars, threadVars, inputVars, issued, scheduled, queue, run, held>>

\* pop: wait while empty and running; give up when stopped; take the first.
OutTest ==
  /\ out = "test"
  /\ CASE queue = <<>> /\ run -> out' = "gap" /\ UNCHANGED <<queue, held>>
       [] ~run -> out' = "loop" /\ UNCHANGED <<queue, held>>
       [] OTHER -> LET i == First(queue)
                   IN  /\ held' = queue[i]
                       /\ queue' = SubSeq(queue, 1, i - 1) \o SubSeq(queue, i + 1, Len(queue))
                       /\ out' = "got"
  /\ UNCHANGED <<socketVars, threadVars, inputVars, issued, scheduled, run>>

OutSleep ==
  /\ out = "gap"
  /\ out' = "asleep"
  /\ UNCHANGED <<socketVars, threadVars, inputVars, issued, scheduled, queue, run, held>>

\* if ( !buffer.active() ) return; then the sleep of the flood timer.
OutGot ==
  /\ out = "got"
  /\ IF run THEN out' = "hold" /\ UNCHANGED held ELSE out' = "loop" /\ held' = NoCmd
  /\ UNCHANGED <<socketVars, threadVars, inputVars, issued, scheduled, queue, run>>

\* while ( cmd.timeout < now ): dropped, and the next one popped.
OutExpire ==
  /\ out = "hold" /\ Expires(held)
  /\ out' = "test"
  /\ held' = NoCmd
  /\ UNCHANGED <<socketVars, threadVars, inputVars, issued, scheduled, queue, run>>

\* write_line dereferences asio; a write error is only logged.
OutWrite ==
  /\ out = "hold"
  /\ out' = IF asio = "none" THEN "crashed" ELSE "loop"
  /\ wire' = IF asio = "open" THEN Append(wire, held) ELSE wire
  /\ held' = NoCmd
  /\ UNCHANGED <<status, asio, session, threadVars, inputVars, issued, scheduled,
                 queue, run>>

-----------------------------------------------------------------------------
Command(t) == CommandTest(t) \/ CommandCheck(t) \/ CommandClear(t) \/ CommandInsert(t)

Disconnect(t) ==
  Quit(t) \/ Close(t) \/ Lock(t) \/ StopQueue(t) \/ NotifyQueue(t) \/ JoinInput(t)

Main ==
  \/ Disconnect("main") \/ JoinOutput
  \/ Connect \/ OpenSocket \/ OpenFails \/ Login \/ Command("main") \/ Spawn

Input ==
  \/ ScheduleRead \/ Lookup
  \/ HandleWelcome \/ Welcomed \/ HandleFlush \/ HandleOther
  \/ StartReconnect("irc_in") \/ Disconnect("irc_in") \/ Command("irc_in")

Output == OutStart \/ OutLoop \/ OutTest \/ OutSleep \/ OutGot \/ OutExpire \/ OutWrite

Next ==
  /\ ~Crashed
  /\ \/ StartConnect \/ StartDisconnect \/ StartReconnect("main") \/ Main
     \/ (\E kind \in Lines : ReadLine(kind)) \/ ReadEnds \/ Input
     \/ Output
     \/ (\E kind \in ClientKinds : ClientIssues(kind)) \/ Command("client")

Spec == Init /\ [][Next]_vars

\* A thread inside a function of the program goes on; nobody has to start a
\* connection, issue a command or send a line, and the server need not hang up:
\* only the read of a closed socket is sure to end.
FairSpec ==
  /\ Spec
  /\ WF_vars(~Crashed /\ Main)
  /\ WF_vars(~Crashed /\ Input)
  /\ WF_vars(~Crashed /\ asio # "open" /\ ReadEnds)
  /\ WF_vars(~Crashed /\ Output)
  /\ WF_vars(~Crashed /\ Command("client"))

-----------------------------------------------------------------------------
\* A command made or released in this session, other than the login itself and PONG, is
\* not sent before the server has welcomed the bot (commands left over from an
\* earlier session may be: nothing clears the queue).
WelcomedFirst ==
  ~welcomed => \A i \in DOMAIN wire : wire[i].born = session => Immediate(wire[i])

\* Unless irc_in is tearing the link down under main's feet, NICK and USER are
\* sent before anything released in this session, JOIN included, and before what an
\* earlier session left in the queue, unless that is as urgent as they are: a JOIN of a
\* configured channel left over is older than the login and goes first.
TearingDown == at["irc_in"] \in {"quit", "close", "lock", "stop", "notify", "join_in", "crashed"}

FollowsLogin(c) ==
  c.kind \notin {"QUIT", "NICK", "USER", "PONG"} /\ (Urgent(c) => c.born = session)

LoginFirst ==
  ~TearingDown =>
    \A i \in DOMAIN wire :
      FollowsLogin(wire[i]) =>
        \A k \in {"NICK", "USER"} : \E j \in 1..(i - 1) : wire[j].kind = k

\* When disconnect() returns on main, both threads are gone, the queue is
\* stopped, the socket closed and the status DISCONNECTED, whatever lines and
\* commands were being handled when it began.
DisconnectLeavesNothing ==
  [][ mutex = "main" /\ mutex' = "free" =>
        /\ at'["irc_in"] = "idle" /\ out' = "none" /\ ~run'
        /\ asio' = "none" /\ status' = "DISCONNECTED" ]_vars

\* Commands do not stay in the queue of a running buffer.
QueueDrains == queue # <<>> ~> (queue = <<>> \/ ~run \/ Crashed)

\* disconnect() on main ends, or the process does, or it is stuck in one of
\* two ways only: irc_in waits for the mutex main holds while joining it, or
\* the output thread sleeps on the queue that was to be stopped.
Stuck ==
  \/ at["main"] = "join_in" /\ WaitsForMutex("irc_in")
  \/ at["main"] = "join_out" /\ out = "asleep"

DisconnectEnds == (at["main"] = "quit") ~> (at["main"] = "idle" \/ Stuck \/ Crashed)

-----------------------------------------------------------------------------
(* What the comments say, and the code does not do *)

\* src/network/connection.hpp:124, of stop(), that is disconnect(): "Disconnect
\* and stop all processing": called on main, it comes to an end.
DisconnectReturns == (at["main"] = "quit") ~> (at["main"] = "idle" \/ Crashed)
=============================================================================
