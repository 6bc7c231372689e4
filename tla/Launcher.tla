-------------------------------- MODULE Launcher --------------------------------
(***************************************************************************)
(* The bot run in the loop of its launcher, melanobot.sh.  The script and  *)
(* the bot share files: the action, which the script reads when the bot    *)
(* has ended and the commands of the posix module write, and the pipe the  *)
(* bot reads commands from (the Stdin connection).  melanobot_stop writes  *)
(* both from another process.                                              *)
(***************************************************************************)
EXTENDS BotLife

CONSTANT MaxLives   \* bound: processes the script starts

VARIABLES
  script,   \* where melanobot_run is
  action,   \* the content of the action file; "none" if there is no file
  read,     \* what the script has read from it
  pipe,     \* melanobot_stop's command is in the pipe
  stopper,  \* where melanobot_stop is
  lives,    \* processes started
  ordered     \* the last that was asked of the script for the end of the process

launcherVars == <<botVars, script, action, read, pipe, stopper, lives, ordered>>

LauncherInit ==
  /\ BotInit /\ script = "wait" /\ action \in {"none", "loop"} /\ read = "none"
  /\ pipe = FALSE /\ stopper = "idle" /\ lives = 1 /\ ordered = action

\* The commands of the bot: "quit" of AdminQuit, "restart" and "quit" of the posix module.
Asks(what) == action' = what /\ ordered' = what

AdminQuit == HandleQuit /\ UNCHANGED <<action, ordered, pipe>>
MelanobotShRestart ==
  /\ HandleQuit /\ UNCHANGED pipe
  /\ IF action # "loop" THEN Asks("restart") ELSE UNCHANGED <<action, ordered>>
MelanobotShQuit == HandleQuit /\ Asks("quit") /\ UNCHANGED pipe

\* The Stdin connection reads the command of melanobot_stop, and the bot handles it.
PipeQuit ==
  /\ pipe /\ pipe' = FALSE /\ stage = "run"
  /\ stop /\ Goes("finalize") /\ Asks("quit")
  /\ UNCHANGED <<service, handlers, pending, queued>>

Bot ==
  /\ \/ (Main \/ \E c \in Conns : Message(c)) /\ UNCHANGED <<action, ordered, pipe>>
     \/ AdminQuit \/ MelanobotShRestart \/ MelanobotShQuit \/ PipeQuit
  /\ UNCHANGED <<script, read, stopper, lives>>

\* What is in the pipe when no process has it open any more is lost.
ScriptReads ==
  /\ script = "wait" /\ stage = "down"
  /\ read' = action /\ pipe' = FALSE
  /\ script' = IF action \in {"restart", "quit"} THEN "remove"
               ELSE IF action = "loop" THEN "loop" ELSE "over"
  /\ UNCHANGED <<botVars, action, stopper, lives, ordered>>

\* Mutant: the file stays, and is read again after the next process.
ScriptKeeps ==
  /\ script = "remove"
  /\ script' = IF read = "restart" THEN "loop" ELSE "over"
  /\ UNCHANGED <<botVars, action, read, pipe, stopper, lives, ordered>>

ScriptRemoves ==
  /\ script = "remove" /\ action' = "none"
  /\ script' = IF read = "restart" THEN "loop" ELSE "over"
  /\ UNCHANGED <<botVars, read, pipe, stopper, lives, ordered>>

\* For the new process there is what is still in the file.
ScriptRuns ==
  /\ script = "loop" /\ lives < MaxLives
  /\ script' = "wait" /\ lives' = lives + 1
  /\ ordered' = (IF action = "quit" THEN "quit" ELSE IF ordered = "loop" THEN "loop" ELSE "none")
  /\ stage' = NewProcess.stage /\ conns' = NewProcess.conns /\ own' = NewProcess.own
  /\ service' = NewProcess.service /\ handlers' = NewProcess.handlers
  /\ active' = NewProcess.active /\ pending' = NewProcess.pending
  /\ queued' = NewProcess.queued /\ exitCode' = NewProcess.exitCode /\ result' = NewProcess.result
  /\ UNCHANGED <<action, read, pipe, stopper>>

\* melanobot_stop: the action, then the command, then (after a second) a look at the pid.
StopAction ==
  /\ stopper = "idle" /\ script # "over"
  /\ action' = "quit" /\ stopper' = "pipe"
  /\ ordered' = (IF script = "wait" THEN "quit" ELSE ordered)
  /\ UNCHANGED <<botVars, script, read, pipe, lives>>

\* Writing to the pipe waits until the bot has it open.
StopCommand ==
  /\ stopper = "pipe" /\ stage \in {"run", "finalize", "stop", "registry", "exit"}
  /\ pipe' = TRUE /\ stopper' = "look"
  /\ UNCHANGED <<botVars, script, action, read, lives, ordered>>

\* The script removes the pipe when it ends: what is written is a file of that name.
StopNoPipe ==
  /\ stopper = "pipe" /\ script = "over" /\ stopper' = "done"
  /\ UNCHANGED <<botVars, script, action, read, pipe, lives, ordered>>

\* A script that has not ended is killed (the script: the pid file holds its number).
StopLooks ==
  /\ stopper = "look" /\ stopper' = "done" /\ script' = "over"
  /\ UNCHANGED <<botVars, action, read, pipe, lives, ordered>>

LauncherNext ==
  \/ Bot \/ ScriptReads \/ ScriptRemoves \/ ScriptRuns
  \/ StopAction \/ StopCommand \/ StopNoPipe \/ StopLooks

LauncherSpec == LauncherInit /\ [][LauncherNext]_launcherVars

-----------------------------------------------------------------------------
\* The script starts another process exactly if "loop" is in force, or the last that was
\* asked while the one that ended ran was a restart; not for what was asked of an earlier
\* process.  An action that melanobot_stop writes while the script is between two processes
\* is one for the next, or (the script removes the action it has read) for none.
ScriptObeys ==
  /\ script = "loop" => ordered \in {"loop", "restart"}
  /\ script = "over" /\ stopper # "done" => ordered \in {"none", "quit"}

\* A process ends in the reverse of the order it began in, and is started again if asked.
EndsInOrder == NothingOutlives /\ ScriptObeys
=============================================================================
