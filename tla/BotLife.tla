-------------------------------- MODULE BotLife --------------------------------
(***************************************************************************)
(* One life of the bot process: what main() does in its thread (main.cpp), *)
(* the bot (melanobot.cpp), the registry of services (async_service.cpp)   *)
(* and the factory that builds the configuration (config_factory.cpp).     *)
(* The connections are threads of their own that queue messages, and the   *)
(* bot's own services (a web server, the polling of GitHub) use the ones   *)
(* of the registry; the handlers run in the main thread, and one of them   *)
(* may stop the bot.  A MelanobotError is caught on the way, any other     *)
(* exception by main().  The end of the process destroys the static        *)
(* objects: first the bot, then the registry, which the modules have       *)
(* created before.                                                         *)
(***************************************************************************)
EXTENDS Naturals, FiniteSets

CONSTANTS
  Conns,        \* the connections of the configuration
  Own,          \* the bot's own services of the configuration
  Services,     \* registered in ServiceRegistry
  MaxMessages   \* bound: messages the connections queue in one life

ASSUME BotAssumption == MaxMessages \in Nat

VARIABLES
  stage,     \* the call main() is in
  conns,     \* what has become of each connection
  own,       \* of each of the bot's own services
  service,   \* and of each service of the registry
  handlers,  \* the handlers: initialize() and finalize()
  active,    \* messages.active()
  pending,   \* queued messages
  queued,    \* messages queued in this life
  exitCode,  \* "exit_code" in the global settings
  result     \* the exit status of the process

botVars == <<stage, conns, own, service, handlers, active, pending, queued, exitCode, result>>

Stages == {"load", "services", "build", "start", "connect", "run", "finalize",
           "stop", "registry", "exit", "destroy", "down"}

\* A new process.
NewProcess ==
  [stage |-> "load", conns |-> [c \in Conns |-> "absent"], own |-> [o \in Own |-> "absent"],
   service |-> [s \in Services |-> "registered"], handlers |-> "new",
   active |-> TRUE, pending |-> 0, queued |-> 0, exitCode |-> 0, result |-> 0]

BotInit ==
  /\ stage = NewProcess.stage /\ conns = NewProcess.conns /\ own = NewProcess.own
  /\ service = NewProcess.service
  /\ handlers = NewProcess.handlers /\ active = NewProcess.active /\ pending = NewProcess.pending
  /\ queued = NewProcess.queued /\ exitCode = NewProcess.exitCode /\ result = NewProcess.result

-----------------------------------------------------------------------------
(* Before the loop                                                         *)

\* The catch clauses of main(), and that of run_bot(), which reads the exit code, and
\* sets nothing.
CaughtInMain == stage' = "destroy" /\ result' = 1 /\ UNCHANGED exitCode
CaughtInRunBot == stage' = "registry" /\ UNCHANGED <<exitCode, result>>
Goes(next) == stage' = next /\ UNCHANGED <<exitCode, result>>

\* initialize_global(): also a MelanobotError (there are no settings) is caught in main().
Load ==
  /\ stage = "load" /\ (Goes("services") \/ CaughtInMain)
  /\ UNCHANGED <<conns, own, service, handlers, active, pending, queued>>

\* initialize() and start() of the registry: a service that throws a MelanobotError is
\* left out.
StartServices ==
  /\ stage = "services" /\ (Goes("build") \/ CaughtInMain)
  /\ \E loaded \in SUBSET Services : \E started \in SUBSET loaded :
       service' = [s \in Services |-> IF s \in started THEN "started"
                                      ELSE IF s \in loaded THEN "loaded" ELSE "registered"]
  /\ UNCHANGED <<conns, own, handlers, active, pending, queued>>

Made(parts, made) == [p \in DOMAIN parts |-> IF p \in made THEN "created" ELSE parts[p]]

\* build(): a ConfigurationError leaves its item out.
Build ==
  /\ stage = "build" /\ (Goes("start") \/ CaughtInRunBot \/ CaughtInMain)
  /\ \E made \in SUBSET Conns : conns' = Made(conns, made)
  /\ \E made \in SUBSET Own : own' = Made(own, made)
  /\ UNCHANGED <<service, handlers, active, pending, queued>>

\* start() initializes the handlers, and a handler may throw: its storage is missing.
InitializeHandlers ==
  /\ stage = "start"
  /\ UNCHANGED <<conns, own, service, active, pending, queued>>
  /\ \/ /\ \A c \in Conns : conns[c] = "absent"
        /\ stage' = "registry" /\ exitCode' = 1
        /\ UNCHANGED <<handlers, result>>
     \/ /\ \E c \in Conns : conns[c] # "absent"
        /\ \/ handlers' = "initialized" /\ Goes("connect")
           \/ UNCHANGED handlers /\ (CaughtInRunBot \/ CaughtInMain)

\* Then it starts the connections, in the order of an unordered map, and the bot's own
\* services.  One that throws (there is no thread for it) is not started; what it throws
\* is not a MelanobotError.
Start(parts, p) == [parts EXCEPT ![p] = "started"]
AllStarted(parts) == \A p \in DOMAIN parts : parts[p] # "created"

StartConnection(c) ==
  /\ stage = "connect" /\ conns[c] = "created"
  /\ \/ conns' = Start(conns, c) /\ Goes(IF AllStarted(conns') /\ AllStarted(own) THEN "run" ELSE stage)
     \/ UNCHANGED conns /\ CaughtInMain
  /\ UNCHANGED <<own, service, handlers, active, pending, queued>>

StartOwn(o) ==
  /\ stage = "connect" /\ AllStarted(conns) /\ own[o] = "created"
  /\ \/ own' = Start(own, o) /\ Goes(IF AllStarted(own') THEN "run" ELSE stage)
     \/ UNCHANGED own /\ CaughtInMain
  /\ UNCHANGED <<conns, service, handlers, active, pending, queued>>

\* A connection queues a message.
Message(c) ==
  /\ conns[c] = "started" /\ active /\ queued < MaxMessages
  /\ pending' = pending + 1 /\ queued' = queued + 1
  /\ UNCHANGED <<stage, conns, own, service, handlers, active, exitCode, result>>

-----------------------------------------------------------------------------
(* The loop, and the end                                                   *)

\* Melanobot::stop(): the connections, then the bot's own services; the second call does
\* nothing.
Stopped(parts) == [p \in DOMAIN parts |-> IF parts[p] = "absent" THEN "absent" ELSE "stopped"]

stop ==
  /\ active' = FALSE
  /\ IF active THEN conns' = Stopped(conns) /\ own' = Stopped(own) ELSE UNCHANGED <<conns, own>>

\* Or one of them throws, and the rest is not stopped.
StopThrows ==
  /\ active /\ active' = FALSE
  /\ \/ \E ended \in SUBSET Conns :
          conns' = [c \in Conns |-> IF c \in ended THEN Stopped(conns)[c] ELSE conns[c]]
        /\ UNCHANGED own
     \/ conns' = Stopped(conns)
        /\ \E ended \in SUBSET Own :
             own' = [o \in Own |-> IF o \in ended THEN Stopped(own)[o] ELSE own[o]]

TakeMessage == stage = "run" /\ pending > 0 /\ pending' = pending - 1

\* run() handles a message: in the end the handlers return, ...
HandleMessage ==
  /\ TakeMessage
  /\ UNCHANGED <<stage, conns, own, service, handlers, active, queued, exitCode, result>>

\* ... or one of them has stopped the bot, and the loop with it ...
HandleQuit ==
  /\ TakeMessage /\ stop /\ Goes("finalize")
  /\ UNCHANGED <<service, handlers, queued>>

\* ... (ErrorAbort leaves an exit code, too) ...
HandleAbort ==
  /\ TakeMessage /\ stop /\ stage' = "finalize" /\ exitCode' = 1
  /\ UNCHANGED <<service, handlers, queued, result>>

\* Mutant: run() does not catch the MelanobotError of a handler, run_bot() does.
NotCaughtInRun ==
  /\ TakeMessage /\ CaughtInRunBot
  /\ UNCHANGED <<conns, own, service, handlers, active, queued>>

\* ... or has thrown a MelanobotError, which ends the loop ...
HandleError ==
  /\ TakeMessage /\ stage' = "stop" /\ exitCode' = 1
  /\ UNCHANGED <<conns, own, service, handlers, active, queued, result>>

\* ... or another exception, on its own or while it stopped the bot.
HandleException ==
  /\ TakeMessage /\ CaughtInMain
  /\ StopThrows \/ UNCHANGED <<conns, own, active>>
  /\ UNCHANGED <<service, handlers, queued>>

Finalize ==
  /\ stage = "finalize" /\ Goes("stop") /\ handlers' = "finalized"
  /\ UNCHANGED <<conns, own, service, active, pending, queued>>

StopBot ==
  /\ stage = "stop"
  /\ (stop /\ Goes("registry")) \/ (StopThrows /\ CaughtInMain)
  /\ UNCHANGED <<service, handlers, pending, queued>>

StopServices(ended) ==
  service' = [s \in Services |-> IF s \in ended /\ service[s] = "started" THEN "stopped" ELSE service[s]]

StopRegistry ==
  /\ stage = "registry"
  /\ \/ StopServices(Services) /\ Goes("exit")
     \/ (\E ended \in SUBSET Services : StopServices(ended)) /\ CaughtInMain
  /\ UNCHANGED <<conns, own, handlers, active, pending, queued>>

\* main() returns the exit code.
Exit ==
  /\ stage = "exit" /\ stage' = "destroy" /\ result' = exitCode
  /\ UNCHANGED <<conns, own, service, handlers, active, pending, queued, exitCode>>

\* ~Melanobot() stops the bot, and what it has not stopped is ended by the destructors of
\* its members; ~ServiceRegistry() stops the services.
Destroy ==
  /\ stage = "destroy" /\ Goes("down")
  /\ active' = FALSE /\ conns' = Stopped(conns) /\ own' = Stopped(own)
  /\ StopServices(Services)
  /\ UNCHANGED <<handlers, pending, queued>>

Main ==
  \/ Load \/ StartServices \/ Build \/ InitializeHandlers \/ HandleMessage \/ HandleAbort
  \/ HandleError \/ HandleException \/ Finalize \/ StopBot \/ StopRegistry \/ Exit \/ Destroy
  \/ \E c \in Conns : StartConnection(c)
  \/ \E o \in Own : StartOwn(o)

BotNext == Main \/ HandleQuit \/ \E c \in Conns : Message(c)
BotSpec == BotInit /\ [][BotNext]_botVars

-----------------------------------------------------------------------------
(* Properties                                                              *)

BotTypeOK ==
  /\ stage \in Stages /\ conns \in [Conns -> {"absent", "created", "started", "stopped"}]
  /\ own \in [Own -> {"absent", "created", "started", "stopped"}]
  /\ service \in [Services -> {"registered", "loaded", "started", "stopped"}]
  /\ handlers \in {"new", "initialized", "finalized"} /\ active \in BOOLEAN
  /\ pending \in 0..MaxMessages /\ queued \in 0..MaxMessages
  /\ exitCode \in {0, 1} /\ result \in {0, 1}

\* However main() ends, at the end of the process nothing runs; no connection, and none of
\* the bot's own services, has ever outlived a service of the registry, which it may use;
\* and the bot's own services run only when no connection waits for its start.
NothingOutlives ==
  LET running(parts) == \E p \in DOMAIN parts : parts[p] = "started" IN
    /\ stage = "down" => ~running(conns) /\ ~running(own) /\ ~running(service)
    /\ (\E s \in Services : service[s] = "stopped") => ~running(conns) /\ ~running(own)
    /\ running(own) => AllStarted(conns)
=============================================================================
