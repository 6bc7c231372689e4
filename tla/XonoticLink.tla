----------------------------- MODULE XonoticLink -----------------------------
(***************************************************************************)
(* The link to a Xonotic server over UDP (network/udp_io.hpp, and Engine,  *)
(* Darkplaces and XonoticConnection of modules/xonotic).  Three threads    *)
(* run its code: the one that connects and disconnects it ("main"), the    *)
(* poll of the status ("timer") and thread_input ("input"); any of them    *)
(* may read datagrams, write them, and close the link on an error.  What a *)
(* thread still has to do is a stack of operations, todo[t]: an operation  *)
(* is a step, and a call pushes what the called function does.  The        *)
(* operation named as a command sends it, one named as a datagram handles  *)
(* it.                                                                     *)
(*                                                                         *)
(* A test of status_ and the assignment right behind it are one step.      *)
(*                                                                         *)
(* The server is external: it answers each command, and another            *)
(* administrator may change its log_dest_udp, which the bot keeps set to   *)
(* its own address.  UDP loses datagrams and reports refused ones.  The    *)
(* commands whose answers do not concern the link are left out.            *)
(***************************************************************************)
EXTENDS Naturals, Sequences

CONSTANTS
  MaxTrouble,    \* bound on 2 * (calls + faults) + taken, for each value of rcon_secure
                 \* tried, of NO and CHALLENGE (TIME is as NO)
  MaxBuffer      \* bound: the poll does not fire with more commands waiting

ASSUME XonoticAssumption ==
  /\ DOMAIN MaxTrouble \subseteq {"NO", "CHALLENGE"}
  /\ MaxTrouble \in [DOMAIN MaxTrouble -> Nat]
  /\ MaxBuffer \in Nat

VARIABLES
  secure,     \* rcon_secure_
  todo,       \* what each thread has to do, innermost call first
  status,     \* status_
  open,       \* io.connected()
  polling,    \* status_polling is running
  emutex,     \* the thread that writes holding the mutex of Engine, or "free"
  buffer,     \* challenged_buffer
  told,       \* the last CONNECTED or DISCONNECTED message given to the bot
  toServer,   \* datagrams on their way to the server
  toBot,      \* and back, to the socket that is open
  dest,       \* log_dest_udp of the server: "none", "me" or "other"
  crashed,    \* an object was destroyed under a thread that uses it
  calls,      \* how often main has connected and disconnected the link, in turn
  taken,      \* how often another administrator has set log_dest_udp
  faults      \* names not resolved, and datagrams lost, refused or answered late

linkVars == <<secure, status, open, polling, told, crashed>>
engineVars == <<emutex, buffer>>
netVars == <<toServer, toBot, dest>>
worldVars == <<calls, taken, faults>>
vars == <<todo, linkVars, engineVars, netVars, worldVars>>

Threads == {"main", "timer", "input"}
Alive == {"CONNECTING", "CHECKING", "CONNECTED"}

\* "set" and "unset" log_dest_udp, and the question what it is.
Commands == {"set", "unset", "ask"}

At(t, op) == todo[t] # <<>> /\ Head(todo[t]) = op
Idle(t) == todo[t] = <<>>
\* The operation is replaced by the calls it makes.
Do(t, ops) == todo' = [todo EXCEPT ![t] = ops \o Tail(@)]
Done(t) == Do(t, <<>>)

\* What an operation leaves alone.
SameLink == UNCHANGED linkVars
SameEngine == UNCHANGED engineVars
SameNet == UNCHANGED netVars
SameWorld == UNCHANGED worldVars
Same == SameLink /\ SameEngine /\ SameNet

\* std::mutex is not recursive: a thread that holds it waits for itself.
EngineFree == emutex = "free"

Bounded == 2 * (calls' + faults') + taken' <= MaxTrouble[secure]
Call == calls' = calls + 1 /\ UNCHANGED <<taken, faults>> /\ Bounded
Fault == faults' = faults + 1 /\ UNCHANGED <<calls, taken>> /\ Bounded

Init ==
  /\ secure \in DOMAIN MaxTrouble
  /\ todo = [t \in Threads |-> <<>>]
  /\ status = "DISCONNECTED" /\ open = FALSE /\ polling = FALSE /\ told = "none"
  /\ emutex = "free" /\ buffer = <<>>
  /\ toServer = <<>> /\ toBot = <<>> /\ dest = "none"
  /\ crashed = FALSE
  /\ calls = 0 /\ taken = 0 /\ faults = 0

-----------------------------------------------------------------------------
(* Connecting: XonoticConnection::connect, Engine::connect, update_connection *)

Connect(t) ==
  /\ At(t, "connect")
  /\ IF open
     THEN Done(t) /\ UNCHANGED status
     ELSE status' = "WAITING" /\ Do(t, <<"open">>)
  /\ UNCHANGED <<secure, open, polling, told, crashed>>
  /\ SameEngine /\ SameNet /\ SameWorld

OpenAlready(t) ==
  /\ At(t, "open") /\ open
  /\ Done(t) /\ Same /\ SameWorld

\* io.connect replaces the Asio object, so no thread may be inside it: neither
\* thread_input in run(), which nobody has joined yet, nor a reader.
AsioInUse == ~Idle("input") \/ \E u \in Threads : At(u, "receiving")

OpenCrashes(t) ==
  /\ At(t, "open") /\ ~open /\ AsioInUse
  /\ crashed' = TRUE
  /\ UNCHANGED <<secure, todo, status, open, polling, told>>
  /\ SameEngine /\ SameNet /\ SameWorld

\* A new socket has a new port: what is under way to the old one is lost, and
\* its address in log_dest_udp is not the bot's any more.
OpenSocket(t) ==
  /\ At(t, "open") /\ ~open /\ ~AsioInUse
  /\ open' = TRUE
  /\ toServer' = <<>> /\ toBot' = <<>>
  /\ dest' = IF dest = "me" THEN "other" ELSE dest
  /\ todo' = [todo EXCEPT ![t] = <<"update">> \o Tail(@), !["input"] = <<"clear", "read">>]
  /\ UNCHANGED <<secure, status, polling, told, crashed>>
  /\ SameEngine /\ SameWorld

\* The name is not resolved: on_error, then on_failure.
OpenFails(t) ==
  /\ At(t, "open") /\ ~open /\ ~AsioInUse
  /\ Do(t, <<"close", "disconnect", "join">>)
  /\ Fault /\ Same

\* A thread that finds the link DISCONNECTED leaves it alone.
Update(t) ==
  /\ At(t, "update")
  /\ IF status = "DISCONNECTED"
     THEN Done(t) /\ UNCHANGED status
     ELSE status' = "WAITING" /\ Do(t, <<"set", "wait", "updated">>)
  /\ UNCHANGED <<secure, open, polling, told, crashed>>
  /\ SameEngine /\ SameNet /\ SameWorld

\* if ( status_ == WAITING ) sync_read();
Wait(t) ==
  /\ At(t, "wait")
  /\ Do(t, IF status = "WAITING" THEN <<"sync">> ELSE <<>>)
  /\ Same /\ SameWorld

\* The poll is started and, unless the commands failed, the status requested.
Updated(t) ==
  /\ At(t, "updated")
  /\ polling' = TRUE
  /\ Do(t, IF status \in Alive THEN <<"request">> ELSE <<>>)
  /\ UNCHANGED <<secure, status, open, told, crashed>>
  /\ SameEngine /\ SameNet /\ SameWorld

-----------------------------------------------------------------------------
(* The poll: request_status *)

\* Mutant: the link is closed and not opened again.
RequestOnce(t) ==
  /\ At(t, "request")
  /\ Do(t, CASE status = "CONNECTED" -> <<"checking", "ask">>
             [] status \in Alive \ {"CONNECTED"} -> <<"ask">>
             [] OTHER -> <<"close">>)
  /\ Same /\ SameWorld

\* What it does depends on the status read here.
Request(t) ==
  /\ At(t, "request")
  /\ Do(t, CASE status = "CONNECTED" -> <<"checking", "ask">>
             [] status \in Alive \ {"CONNECTED"} -> <<"ask">>
             [] OTHER -> <<"close", "connect">>)
  /\ Same /\ SameWorld

Checking(t) ==
  /\ At(t, "checking")
  /\ status' = "CHECKING"
  /\ Done(t)
  /\ UNCHANGED <<secure, open, polling, told, crashed>>
  /\ SameEngine /\ SameNet /\ SameWorld

-----------------------------------------------------------------------------
(* Sending: XonoticConnection::command, Darkplaces::rcon_command, UdpIo::write *)

Sending(t, cmd) == At(t, cmd) /\ cmd \in Commands /\ status # "DISCONNECTED"

CommandDropped(t) ==
  /\ \E cmd \in Commands : At(t, cmd)
  /\ status = "DISCONNECTED"
  /\ Done(t) /\ Same /\ SameWorld

CommandSent(t) ==
  /\ secure = "NO" /\ open
  /\ \E cmd \in Commands : Sending(t, cmd) /\ toServer' = Append(toServer, cmd)
  /\ Done(t)
  /\ SameLink /\ SameEngine /\ UNCHANGED <<toBot, dest>> /\ SameWorld

\* schedule_challenged_command, which goes on with request_challenge.
CommandScheduled(t) ==
  /\ secure = "CHALLENGE" /\ EngineFree
  /\ \E cmd \in Commands :
       Sending(t, cmd) /\ buffer' = Append(buffer, [cmd |-> cmd, challenged |-> FALSE])
  /\ Do(t, <<"getchallenge">>)
  /\ SameLink /\ UNCHANGED emutex /\ SameNet /\ SameWorld

\* request_challenge
NeedsChallenge == buffer # <<>> /\ ~Head(buffer).challenged

\* Mutant: the command just scheduled asks, not the first.
GetChallengeLast(t) ==
  /\ At(t, "getchallenge") /\ EngineFree
  /\ IF buffer # <<>> /\ ~buffer[Len(buffer)].challenged
     THEN /\ open
          /\ buffer' = [buffer EXCEPT ![Len(buffer)].challenged = TRUE]
          /\ toServer' = Append(toServer, "getchallenge")
     ELSE UNCHANGED <<buffer, toServer>>
  /\ Done(t)
  /\ SameLink /\ UNCHANGED emutex /\ UNCHANGED <<toBot, dest>> /\ SameWorld

GetChallenge(t) ==
  /\ At(t, "getchallenge") /\ EngineFree
  /\ IF NeedsChallenge
     THEN /\ open
          /\ buffer' = [buffer EXCEPT ![1].challenged = TRUE]
          /\ toServer' = Append(toServer, "getchallenge")
     ELSE UNCHANGED <<buffer, toServer>>
  /\ Done(t)
  /\ SameLink /\ UNCHANGED emutex /\ UNCHANGED <<toBot, dest>> /\ SameWorld

\* send() fails when the socket was closed, or when the server's machine has
\* refused an earlier datagram.
SendFails == IF open THEN Fault ELSE SameWorld

CommandFails(t) ==
  /\ secure = "NO"
  /\ \E cmd \in Commands : Sending(t, cmd)
  /\ SendFails
  /\ Do(t, <<"close">>)
  /\ Same

\* request_challenge writes, and on_error is called, with the mutex locked.
GetChallengeFails(t) ==
  /\ At(t, "getchallenge") /\ EngineFree /\ NeedsChallenge
  /\ SendFails
  /\ buffer' = [buffer EXCEPT ![1].challenged = TRUE]
  /\ emutex' = t
  /\ Do(t, <<"close", "release">>)
  /\ SameLink /\ SameNet

Release(t) ==
  /\ At(t, "release")
  /\ emutex' = "free"
  /\ Done(t)
  /\ SameLink /\ UNCHANGED buffer /\ SameNet /\ SameWorld

-----------------------------------------------------------------------------
(* Receiving: Engine::read, on_network_input, handle_challenge, handle_message *)

\* The next datagram is handled by t, which then goes on with ops.
Receive(t, ops) ==
  /\ open /\ toBot # <<>>
  /\ toBot' = Tail(toBot)
  /\ status' = IF status = "WAITING" THEN "CONNECTING" ELSE status
  /\ todo' = [todo EXCEPT ![t] = (IF Head(toBot) = "ack" THEN <<>> ELSE <<Head(toBot)>>) \o ops]
  /\ UNCHANGED <<secure, open, polling, told, crashed, toServer, dest>>
  /\ SameEngine /\ SameWorld

\* sync_read(): on an error on_error is called, and read() of the empty
\* datagram calls on_network_error again.
Sync(t) ==
  /\ At(t, "sync")
  /\ Do(t, IF open THEN <<"receiving">> ELSE <<"close", "close">>)
  /\ Same /\ SameWorld

SyncReceives(t) == At(t, "receiving") /\ Receive(t, Tail(todo[t]))

SyncRefused(t) ==
  /\ At(t, "receiving") /\ open
  /\ Do(t, <<"close", "close">>)
  /\ Fault /\ Same

\* The first command is sent with the challenge, and the next asks for another.
Challenge(t) ==
  /\ At(t, "challenge") /\ EngineFree
  /\ buffer # <<>> /\ Head(buffer).challenged
  /\ buffer' = Tail(buffer)
  /\ LET rest == IF Len(buffer) > 1 THEN <<"getchallenge">> ELSE <<>>
     IN  \/ /\ open /\ toServer' = Append(toServer, Head(buffer).cmd)
            /\ Do(t, rest) /\ SameWorld
         \/ /\ SendFails /\ UNCHANGED toServer
            /\ Do(t, <<"close">> \o rest)
  /\ SameLink /\ UNCHANGED <<emutex, toBot, dest>>

\* There is nothing to send, or the first has not asked yet.
ChallengeUnused(t) ==
  /\ At(t, "challenge") /\ EngineFree
  /\ buffer # <<>> => ~Head(buffer).challenged
  /\ Do(t, IF buffer = <<>> THEN <<>> ELSE <<"getchallenge">>)
  /\ Same /\ SameWorld

\* The challenge took longer than rcon_challenge_timeout.
ChallengeLate(t) ==
  /\ At(t, "challenge") /\ EngineFree
  /\ buffer # <<>> /\ Head(buffer).challenged
  /\ buffer' = [buffer EXCEPT ![1].challenged = FALSE]
  /\ Do(t, <<"getchallenge">>)
  /\ Fault
  /\ SameLink /\ UNCHANGED emutex /\ SameNet

\* Mutant: the bot is told when the link was CHECKING.
HandleDestWrong(t) ==
  /\ At(t, "mine") \/ At(t, "others")
  /\ Do(t, CASE At(t, "others") \/ ~open -> <<"update">>
             [] At(t, "mine") /\ open /\ status # "CHECKING" -> <<"connected">>
             [] OTHER -> <<"connected", "announce">>)
  /\ Same /\ SameWorld

\* log_dest_udp is the local endpoint, if the socket still has one: the link is
\* CONNECTED, and the bot is told if it was CONNECTING.  If not, it is set again.
HandleDest(t) ==
  /\ At(t, "mine") \/ At(t, "others")
  /\ Do(t, CASE At(t, "others") \/ ~open -> <<"update">>
             [] At(t, "mine") /\ open /\ status # "CONNECTING" -> <<"connected">>
             [] OTHER -> <<"connected", "announce">>)
  /\ Same /\ SameWorld

Connected(t) ==
  /\ At(t, "connected")
  /\ status' = "CONNECTED"
  /\ Done(t)
  /\ UNCHANGED <<secure, open, polling, told, crashed>>
  /\ SameEngine /\ SameNet /\ SameWorld

Announce(t) ==
  /\ At(t, "announce")
  /\ told' = "connected"
  /\ Done(t)
  /\ UNCHANGED <<secure, status, open, polling, crashed>>
  /\ SameEngine /\ SameNet /\ SameWorld

-----------------------------------------------------------------------------
(* Closing: close_connection, Engine::disconnect, UdpIo::disconnect *)

Close(t) ==
  /\ At(t, "close")
  /\ told' = IF status \in {"CHECKING", "CONNECTED"} THEN "disconnected" ELSE told
  /\ Do(t, <<"closed">>)
  /\ UNCHANGED <<secure, status, open, polling, crashed>>
  /\ SameEngine /\ SameNet /\ SameWorld

Closed(t) ==
  /\ At(t, "closed")
  /\ status' = "DISCONNECTED"
  /\ Do(t, IF open THEN <<"disconnect", "join">> ELSE <<>>)
  /\ UNCHANGED <<secure, open, polling, told, crashed>>
  /\ SameEngine /\ SameNet /\ SameWorld

\* thread_input waits in run() for the datagram it scheduled the read of, and
\* nobody else is handling it.
ReadScheduled ==
  /\ At("input", "read")
  /\ \A u \in {"main", "timer"} : \A i \in 2..Len(todo[u]) : todo[u][i] # "disconnect"

\* io_service.poll() runs the handler of a datagram that has arrived here.
IoPoll(t) ==
  /\ At(t, "disconnect") /\ t # "input"
  /\ ReadScheduled
  /\ Receive(t, todo[t])

IoClose(t) ==
  /\ At(t, "disconnect")
  /\ open' = FALSE
  /\ toBot' = <<>>
  /\ Done(t)
  /\ UNCHANGED <<secure, status, polling, told, crashed, toServer, dest>>
  /\ SameEngine /\ SameWorld

\* Engine::clear(), when thread_input was joined; also the first thing it does.
Clear(t) ==
  /\ At(t, "clear") \/ (At(t, "join") /\ (t = "input" \/ Idle("input")))
  /\ EngineFree
  /\ buffer' = <<>>
  /\ Done(t)
  /\ SameLink /\ UNCHANGED emutex /\ SameNet /\ SameWorld

\* Two threads join the same std::thread.
JoinCrashes(t) ==
  /\ At(t, "join") /\ t # "input" /\ ~Idle("input")
  /\ \E u \in {"main", "timer"} \ {t} : At(u, "join")
  /\ crashed' = TRUE
  /\ UNCHANGED <<secure, todo, status, open, polling, told>>
  /\ SameEngine /\ SameNet /\ SameWorld

-----------------------------------------------------------------------------
(* thread_input: UdpIo::run_input *)

ReadDatagram == ReadScheduled /\ Receive("input", todo["input"])

\* The read ends with an error and is not scheduled again: run() returns.
ReadRefused ==
  /\ ReadScheduled /\ open
  /\ todo' = [todo EXCEPT !["input"] = <<"close">>]
  /\ Fault /\ Same

\* The socket was closed: the handler gets the error unless run() is stopped first.
ReadCancelled ==
  /\ At("input", "read") /\ ~open
  /\ \E ops \in {<<>>, <<"close">>} : todo' = [todo EXCEPT !["input"] = ops]
  /\ Same /\ SameWorld

-----------------------------------------------------------------------------
(* main, and the timer (external) *)

Wanted == calls % 2 = 1

MainConnects ==
  /\ Idle("main")
  /\ ~Wanted /\ Call
  /\ todo' = [todo EXCEPT !["main"] = <<"connect">>]
  /\ Same

\* XonoticConnection::disconnect
MainDisconnects ==
  /\ Idle("main")
  /\ Wanted /\ Call
  /\ todo' = [todo EXCEPT !["main"] = <<"bye", "close">>]
  /\ Same

\* The timer's stop() waits for the function it is running; then
\* cleanup_connection(), which waits for a datagram if challenges are needed.
Bye ==
  /\ At("main", "bye") /\ Idle("timer")
  /\ polling' = FALSE
  /\ Do("main", CASE ~open -> <<>>
                  [] open /\ secure = "NO" -> <<"unset">>
                  [] open /\ secure = "CHALLENGE" -> <<"unset", "sync">>)
  /\ UNCHANGED <<secure, status, open, told, crashed>>
  /\ SameEngine /\ SameNet /\ SameWorld

-----------------------------------------------------------------------------
(* The server and the network (external) *)

Answer(cmd) ==
  CASE cmd = "getchallenge" -> "challenge"
    [] cmd = "ask" -> (IF dest = "me" THEN "mine" ELSE "others")
    [] OTHER -> "ack"

ServerAnswers ==
  /\ toServer # <<>>
  /\ toServer' = Tail(toServer)
  /\ dest' = CASE Head(toServer) = "set" -> (IF open THEN "me" ELSE "other")
               [] Head(toServer) = "unset" -> "none"
               [] OTHER -> dest
  /\ toBot' = IF open THEN Append(toBot, Answer(Head(toServer))) ELSE toBot
  /\ UNCHANGED todo /\ SameLink /\ SameEngine /\ SameWorld

DestTaken ==
  /\ taken' = taken + 1 /\ UNCHANGED <<calls, faults>> /\ Bounded
  /\ dest = "me" /\ dest' = "other"
  /\ UNCHANGED <<todo, toServer, toBot>> /\ SameLink /\ SameEngine

Lose ==
  /\ Fault
  /\ \/ toServer # <<>> /\ toServer' = Tail(toServer) /\ UNCHANGED toBot
     \/ toBot # <<>> /\ toBot' = Tail(toBot) /\ UNCHANGED toServer
  /\ UNCHANGED <<todo, dest>> /\ SameLink /\ SameEngine

-----------------------------------------------------------------------------
\* What a thread does next, whether or not something goes wrong.
Step(t) ==
  /\ ~Idle(t)
  /\ \/ Connect(t) \/ OpenAlready(t) \/ OpenCrashes(t) \/ OpenSocket(t)
     \/ Update(t) \/ Wait(t) \/ Updated(t) \/ Request(t) \/ Checking(t)
     \/ CommandDropped(t) \/ CommandSent(t) \/ CommandScheduled(t) \/ CommandFails(t)
     \/ GetChallenge(t) \/ GetChallengeFails(t) \/ Release(t)
     \/ Sync(t) \/ SyncReceives(t)
     \/ Challenge(t) \/ ChallengeUnused(t) \/ HandleDest(t) \/ Connected(t) \/ Announce(t)
     \/ Close(t) \/ Closed(t) \/ IoPoll(t) \/ IoClose(t) \/ Clear(t) \/ JoinCrashes(t)

Main == Step("main") \/ Bye
Input == Step("input") \/ ReadDatagram \/ ReadCancelled

\* A thread that waits: for the mutex, for thread_input to end, or for a datagram.
NeedsMutex(t) ==
  \/ \E op \in {"clear", "getchallenge", "challenge", "join"} : At(t, op)
  \/ secure = "CHALLENGE" /\ \E cmd \in Commands : Sending(t, cmd)
Waits(t) ==
  \/ Idle(t) \/ At(t, "bye")
  \/ NeedsMutex(t) /\ ~EngineFree
  \/ At(t, "join") /\ t # "input" /\ ~Idle("input")
  \/ At(t, "receiving") /\ ~(open /\ toBot # <<>>)
  \/ At(t, "read") /\ open /\ ~(ReadScheduled /\ toBot # <<>>)

\* status_delay is longer than anything that does not wait takes: the poll finds
\* the other threads waiting, and no datagram that will be answered.
InTime == toServer = <<>> /\ Waits("main") /\ Waits("input")

TimerFires ==
  /\ polling /\ Idle("timer") /\ ~At("main", "bye")
  /\ Len(buffer) <= MaxBuffer
  /\ InTime
  /\ todo' = [todo EXCEPT !["timer"] = <<"request">>]
  /\ Same /\ SameWorld

Timer == Step("timer") \/ TimerFires

Next ==
  /\ ~crashed
  /\ \/ Main \/ Timer \/ Input \/ ServerAnswers
     \/ MainConnects \/ MainDisconnects
     \/ (\E t \in Threads : OpenFails(t) \/ SyncRefused(t) \/ ChallengeLate(t))
     \/ ReadRefused \/ Lose \/ DestTaken

Spec == Init /\ [][Next]_vars

\* The threads go on, the poll fires and the server answers what reaches it;
\* main need not connect or disconnect, and nothing else need happen.
FairSpec ==
  /\ Spec
  /\ WF_vars(~crashed /\ Main) /\ WF_vars(~crashed /\ Timer) /\ WF_vars(~crashed /\ Input)
  /\ WF_vars(~crashed /\ ServerAnswers)

-----------------------------------------------------------------------------
\* What main does not interfere with, and no second fault makes two threads
\* reconnect at once.
FirstConnection == calls = 1 /\ faults <= 1

Quiet == Idle("main") /\ Idle("timer") /\ At("input", "read") /\ toServer = <<>> /\ toBot = <<>>

\* A link that is up, whoever set it up after whatever went wrong, is one the
\* bot was told of, and not told the end of (network::Message().connected(),
\* disconnected()).
ToldConnected ==
  FirstConnection /\ Quiet /\ open /\ status = "CONNECTED" => told = "connected"

\* Only the first of the commands waiting has asked for a challenge, so that the
\* challenge that comes is spent on the command that asked (challenged_buffer).
OneChallenge == \A i \in 2..Len(buffer) : ~buffer[i].challenged

\* The ways the link can stay down: a thread waits in sync_read() for a datagram
\* that does not come; the first command waits for a challenge that was lost, or
\* never asked for because the write failed; connect() failed before the poll
\* was started; the socket was replaced under a thread.
ReaderWaits == (\E t \in Threads : At(t, "receiving")) /\ toServer = <<>> /\ toBot = <<>>
ChallengeLost ==
  /\ buffer # <<>> /\ Head(buffer).challenged
  /\ toServer = <<>> /\ toBot = <<>> /\ \A t \in Threads : ~At(t, "challenge")
NeverPolled == ~polling /\ \A t \in Threads : Idle(t)
StaysDown == ReaderWaits \/ ChallengeLost \/ NeverPolled \/ crashed

\* Nothing else keeps the link down: whatever datagram is refused or lost, and
\* whoever takes log_dest_udp, it is CONNECTED again and again.
Settles == []<>(FirstConnection => status = "CONNECTED" \/ StaysDown)

\* xonotic-connection.hpp:236: "Closes the connection, allowing it to be re-opened
\* automatically": by the poll, once it is running.
Reopened ==
  (calls = 1 /\ polling /\ status = "DISCONNECTED") ~> (calls # 1 \/ status # "DISCONNECTED")
==============================================================================
