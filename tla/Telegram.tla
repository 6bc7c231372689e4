------------------------------- MODULE Telegram -------------------------------
(***************************************************************************)
(* The Telegram connection (telegram-connection.cpp).  Updates come either *)
(* from a poll the timer thread repeats, or are pushed to the web server;  *)
(* one thread handles them, the worker.  connect() and disconnect() are    *)
(* called by the bot; what they ask of Telegram is asked asynchronously,   *)
(* and its answer is handled by a callback in the thread of the HTTP       *)
(* client.  event_id is kept in the storage, and survives a crash.         *)
(*                                                                         *)
(* Telegram is external: it numbers the updates, repeats them until they   *)
(* are confirmed (by the offset of a later poll, or by the answer to the   *)
(* push), and one update at a time is pushed (webhook_max_connections is 1 *)
(* unless configured).  An update whose handling throws is in Bad: one     *)
(* whose message has no text, say.                                         *)
(***************************************************************************)
EXTENDS Naturals, Sequences

CONSTANTS
  MaxUpdates,    \* bound: updates that arrive
  Bad,           \* updates that process_event() throws for
  MaxTrouble     \* bound: calls of the bot, failed requests and crashes

ASSUME TelegramAssumption ==
  MaxUpdates \in Nat /\ Bad \subseteq 1..MaxUpdates /\ MaxTrouble \in Nat

VARIABLES
  webhook,    \* the configured mode, pushes or polls
  status,     \* connection_status
  ticking,    \* polling_timer is running
  eventId,    \* event_id
  saved,      \* event_id in the storage
  batch,      \* updates the worker has still to handle
  work,       \* what the worker does next
  offset,     \* of the poll that is being asked
  asked,      \* requests of connect() not answered yet
  answer,     \* what the callback of an answered one has still to do
  closing,    \* disconnect() has still to stop the timer
  hooked,     \* Telegram: the webhook is set
  arrived,    \* Telegram: the last update
  confirmed,  \* Telegram: updates below it are not repeated
  times,      \* how often each update was given to the bot
  trouble,    \* calls, failures and crashes so far
  crashed,    \* the bot has crashed
  reloaded    \* connect() has read event_id while a batch was handled

linkUpVars == <<status, ticking, asked, answer, closing>>
workVars == <<eventId, saved, batch, work, offset>>
netVars == <<hooked, arrived, confirmed>>
seenVars == <<times, trouble, crashed, reloaded>>
telegramVars == <<webhook, linkUpVars, workVars, netVars, seenVars>>

Updates == 1..MaxUpdates

TelegramInit ==
  /\ webhook \in BOOLEAN
  /\ status = "DISCONNECTED" /\ ticking = FALSE
  /\ asked = 0 /\ answer = "none" /\ closing = FALSE
  /\ eventId = 0 /\ saved = 0 /\ batch = <<>> /\ work = "idle" /\ offset = 0
  /\ hooked = FALSE /\ arrived = 0 /\ confirmed = 1
  /\ times = [u \in Updates |-> 0]
  /\ trouble = 0 /\ crashed = FALSE /\ reloaded = FALSE

\* A step the bound counts.
Trouble == trouble < MaxTrouble /\ trouble' = trouble + 1

\* Telegram receives the next update.
Arrive ==
  /\ arrived < MaxUpdates
  /\ arrived' = arrived + 1
  /\ UNCHANGED <<webhook, linkUpVars, workVars, hooked, confirmed, seenVars>>

-----------------------------------------------------------------------------
(* connect(), disconnect() and their callbacks                             *)

\* Mutant: the saved position is taken for that of the last update handled.
connectSkips ==
  /\ status' = "CONNECTING"
  /\ asked' = asked + 1
  /\ reloaded' = (reloaded \/ work \in {"handle", "count", "store"})
  /\ eventId' = saved + 1

connect ==
  /\ status' = "CONNECTING"
  /\ asked' = asked + 1
  /\ reloaded' = (reloaded \/ work \in {"handle", "count", "store"})
  /\ eventId' = saved

\* The bot connects, or an administrator has it reconnect: reconnect() is connect().
Connect ==
  /\ Trouble /\ connect /\ ~closing
  /\ UNCHANGED <<webhook, ticking, answer, closing, saved, batch, work,
                 offset, netVars, times, crashed>>

Disconnect ==
  /\ Trouble /\ ~closing
  /\ status' = "DISCONNECTED" /\ closing' = TRUE
  /\ UNCHANGED <<webhook, ticking, asked, answer, workVars, netVars, times,
                 crashed, reloaded>>

DisconnectStops ==
  /\ closing
  /\ ticking' = FALSE /\ closing' = FALSE /\ hooked' = FALSE
  /\ UNCHANGED <<webhook, status, asked, answer, workVars, arrived,
                 confirmed, seenVars>>

\* getMe, or setWebhook, has succeeded: on_success is still to be called.
Accepted ==
  /\ asked > 0 /\ answer = "none"
  /\ asked' = asked - 1 /\ status' = "CONNECTED" /\ answer' = "accepted"
  /\ hooked' = webhook
  /\ UNCHANGED <<webhook, ticking, closing, workVars, arrived,
                 confirmed, seenVars>>

\* The timer is started.  (The name of the bot, which the answer holds and which a
\* pushed connection asks for with one more getMe, is left out.)
OnSuccess ==
  /\ answer = "accepted"
  /\ ticking' = (ticking \/ ~webhook) /\ answer' = "none"
  /\ UNCHANGED <<webhook, status, asked, closing, workVars, netVars,
                 seenVars>>

\* It was refused, or there was a network error.
Refused ==
  /\ Trouble /\ asked > 0 /\ answer = "none"
  /\ asked' = asked - 1 /\ ticking' = FALSE /\ answer' = "refused"
  /\ UNCHANGED <<webhook, status, closing, workVars, netVars, times,
                 crashed, reloaded>>

OnError ==
  /\ answer = "refused"
  /\ status' = "DISCONNECTED" /\ answer' = "none"
  /\ UNCHANGED <<webhook, ticking, asked, closing, workVars, netVars,
                 seenVars>>

-----------------------------------------------------------------------------
(* poll() and receive_push()                                               *)

\* Nothing of the connection moves.
SameLink == UNCHANGED <<webhook, linkUpVars>>

PollUpdates ==
  /\ ticking /\ work = "idle"
  /\ offset' = eventId /\ work' = "asked"
  /\ SameLink /\ UNCHANGED <<eventId, saved, batch, netVars, seenVars>>

\* Telegram confirms what lies below the offset, and sends the rest.
Answered ==
  /\ work = "asked"
  /\ confirmed' = IF offset > confirmed THEN offset ELSE confirmed
  /\ batch' = [i \in 1..(arrived - confirmed' + 1) |-> confirmed' + i - 1]
  /\ work' = IF batch' = <<>> THEN "store" ELSE "handle"
  /\ SameLink /\ UNCHANGED <<eventId, saved, offset, hooked, arrived, seenVars>>

\* An error of the network, and poll() connects again; an error of Telegram, or an
\* answer that cannot be parsed, and it only returns.
PollFails ==
  /\ Trouble /\ work = "asked" /\ work' = "idle"
  /\ \/ connect
     \/ UNCHANGED <<status, asked, reloaded, eventId>>
  /\ UNCHANGED <<webhook, ticking, answer, closing, saved, batch, offset,
                 netVars, times, crashed>>

Pushed ==
  /\ hooked /\ work = "idle" /\ confirmed <= arrived
  /\ batch' = <<confirmed>> /\ work' = "handle"
  /\ SameLink /\ UNCHANGED <<eventId, saved, offset, netVars, seenVars>>

\* Mutant: the batch is over, and counted as a whole, when one of it throws.
HandleDropsBatch(u) ==
  IF u \in Bad
  THEN /\ eventId' = batch[Len(batch)] + 1 /\ batch' = <<>> /\ work' = "store"
       /\ UNCHANGED times
  ELSE /\ eventId' = u /\ times' = [times EXCEPT ![u] = @ + 1] /\ work' = "count"
       /\ UNCHANGED batch

\* process_event(): what it throws for is neither counted nor given to the bot,
\* and process_events() drops the rest of the batch.
Handle(u) ==
  /\ eventId' = u
  /\ IF u \in Bad
     THEN /\ batch' = <<>> /\ work' = "store"
          /\ UNCHANGED times
     ELSE /\ times' = [times EXCEPT ![u] = @ + 1]
          /\ work' = "count"
          /\ UNCHANGED batch

HandleFirst ==
  /\ work = "handle" /\ Handle(Head(batch))
  /\ SameLink /\ UNCHANGED <<saved, offset, netVars, trouble, crashed, reloaded>>

Count ==
  /\ work = "count"
  /\ eventId' = eventId + 1 /\ batch' = Tail(batch)
  /\ work' = IF batch' = <<>> THEN "store" ELSE "handle"
  /\ SameLink /\ UNCHANGED <<saved, offset, netVars, seenVars>>

\* The position is saved, and a push is answered, whatever came of it.
Store ==
  /\ work = "store"
  /\ saved' = eventId /\ work' = "idle"
  /\ confirmed' = IF webhook THEN confirmed + 1 ELSE confirmed
  /\ SameLink /\ UNCHANGED <<eventId, batch, offset, hooked, arrived, seenVars>>

\* The process ends and is started again.
Crash ==
  /\ Trouble /\ crashed' = TRUE
  /\ status' = "DISCONNECTED" /\ ticking' = FALSE
  /\ asked' = 0 /\ answer' = "none" /\ closing' = FALSE
  /\ eventId' = 0 /\ batch' = <<>> /\ work' = "idle" /\ offset' = 0
  /\ UNCHANGED <<webhook, saved, netVars, times, reloaded>>

BotCalls == Connect \/ Disconnect \/ DisconnectStops
Answer == Accepted \/ OnSuccess \/ Refused \/ OnError
Worker == PollUpdates \/ Answered \/ PollFails \/ Pushed \/ HandleFirst \/ Count \/ Store
TelegramNext == Arrive \/ BotCalls \/ Answer \/ Worker \/ Crash

TelegramSpec == TelegramInit /\ [][TelegramNext]_telegramVars

-----------------------------------------------------------------------------
TelegramTypeOK ==
  /\ {webhook, ticking, closing, hooked, crashed, reloaded} \subseteq BOOLEAN
  /\ status \in {"DISCONNECTED", "CONNECTING", "CONNECTED"}
  /\ answer \in {"none", "accepted", "refused"}
  /\ work \in {"idle", "asked", "handle", "count", "store"}
  /\ {eventId, saved, offset, arrived, confirmed} \subseteq 0..MaxUpdates + 1
  /\ batch \in Seq(Updates)
  /\ times \in [Updates -> Nat]
  /\ {asked, trouble} \subseteq 0..MaxTrouble

\* An update that Telegram will not repeat was given to the bot (unless handling it
\* throws), whatever failed and wherever the bot crashed: event_id moves past an
\* update only after the update was handled.  And one is given to it twice only after
\* a crash between handling and storing, or when connect() read event_id back in the
\* middle of a batch.
HandledOnce ==
  \A u \in Updates :
    /\ u < confirmed /\ u \notin Bad => times[u] > 0
    /\ times[u] > 1 => crashed \/ reloaded

\* An update waits for ever only while nobody listens, or behind one that throws:
\* that one is fetched, and thrown for, over again, until the bot is changed.
Stuck(u) == u \in Bad \/ (~webhook /\ \E b \in Bad : b < u)
Listening == IF webhook THEN hooked ELSE ticking
ComesThrough ==
  \A u \in Updates : (u <= arrived /\ ~Stuck(u)) ~> (times[u] > 0 \/ ~Listening)
===============================================================================
