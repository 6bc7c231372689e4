# Melanobot in TLA+

A specification of Melanobot, kept beside its code: the modules (`*.tla`), the
instances TLC checks (`MC*.tla` and their `*.cfg`; `MessageQueue`, `IrcLink` and
`Remind` are checked as they are) and proofs checked by TLAPS (`*Proofs.tla`).  `PROJECT.json` lists the runs, the mutants that show that
each property can fail, the source lines of every definition, the hazards and
the theorems.  Paths below are relative to the repository.

## 1. The system

The bot is one process, run again and again by a script.  `main` starts the
asynchronous services, builds handlers and connections from the configuration
file, runs the bot and stops the services.  Threads:

| thread | runs | talks to the others through |
| --- | --- | --- |
| main | `Melanobot::run`: pops a message, hands it to the handlers; connects, disconnects and reconnects on their behalf | the queue of messages; the connections' mutexes |
| irc_in | `Buffer::run_input`: reads lines, `handle_message` | the message queue, `command()`, the user list |
| irc_out | `Buffer::run_output`: pops commands, writes them at the pace of the flood timer | the output queue, the socket |
| timer | `TimerQueue::run`: executes due items: reminders, the polls of Telegram and GitHub | the heap, `Melanobot`'s connections, `command()` |
| Xonotic input, Xonotic poll | `UdpIo::run_input`: reads datagrams; `status_polling`: asks for the status, or connects again | the socket, the challenges, the status |
| HTTP client, HTTP server | callbacks of requests; pages, pushes of Telegram | the connections and handlers they belong to |
| `melanobot.sh`, `melanobot_stop` | the loop that starts the bot again; the command that ends it | files, a pipe |

| component | state | operations | what makes it correct |
| --- | --- | --- | --- |
| Concurrent queues (`src/concurrency`) | `run`, container, mutex, condition | push, pop, start, stop, remove_if | FIFO (or priority) order, no lost wake-up, stop ends a pop |
| IRC link (`modules/irc/network`) | status, socket, scheduled commands, output queue, two threads, nicks | connect, disconnect, reconnect, command, the lines of the server | nothing but the registration before the welcome, login first, a disconnected link leaves no thread and no socket, every step ends; a nick is found; lines are read as they were written |
| IRC users (`modules/irc/network`, `src/user`) | list of users with channels, own nick | JOIN, 353, PART, KICK, QUIT, NICK | nobody twice, no ghosts, the bot knows itself and the others |
| Timer queue, reminders (`modules/timer`) | heap, thread, Remind's list | push, remove, start, stop; accept, load, store | never early, never twice, never forgotten |
| File storage (`modules/file_storage`, `src/melanobot/cache_policy.hpp`) | tree, dirty flag, status, file | get, put, maybe_put, append, erase | a write reaches the file, a read does not undo a write |
| Bot and services (`src/main.cpp`, `src/melanobot`, `src/network/async_service.*`, `melanobot.sh`) | connections, handlers, services, the files of the script | start, run, stop, restart | everything started is stopped, in an order that nothing outlives what it uses |
| Authentication (`src/user`, `src/network/connection.*`) | users, groups, the stored lists | add, remove, restart | a restart keeps what was given and taken |
| Configuration, modules (`src/settings.cpp`, `config_factory.*`, `src/module`) | the tree of settings | merge, expand templates, build handlers, load modules | settings reach the handler they are for |
| Handlers, groups, bridges, help (`modules/core`, `src/melanobot/handler.*`) | tree of handlers, attached connections | handle, attach, detach, deliver | one handler answers, under the filters around it; no echo between channels |
| Xonotic, Unvanquished (`modules/xonotic`) | UDP socket, challenges, player list, match | connect, rcon, status, the lines of the log | commands leave in order, the list follows the server, scores and votes are those of the match |
| Telegram, GitHub | offset, ETag and time of the last poll | poll, push, dispatch | an update is handled, and once |
| Web (`modules/web`) | pages, receivers, kept titles | request, push; query a service | each request is answered, by the right page |
| Lists, fun, Markov chains | stored lists, graphs of words | add, remove, teach, listen, save | what was said to be kept is kept |
| Texts (`src/string`, the formatters) | | parse, write | what is written looks the same when read |

Hard to test here: the three threads of an IRC link under one recursive mutex
that `disconnect()` keeps while it joins; notifications given without the mutex
(queue stop, timer stop, timer edits); commands that outlive their session;
reminders that are in flight while the process stops, or half stored when it
is killed; a cached tree that is saved over, or reloaded under, its changes;
answers that arrive after their question is out of date (Q, the polls of a game,
pages of a wiki); what is written in two places (event id, ETag, membership) when
a crash comes between; and, in the parts without concurrency, inputs nobody
tried.  The list with its lines is in `PROJECT.json` (`hazards`).

## 2. Plan

| order | module | abstracts to / composed with | state |
| --- | --- | --- | --- |
| 1 | `StoppableChannel`, `MessageQueue` | the queue implements the channel | safety and refinement proved |
| 2 | `IrcLink` | uses the queue's protocol for its output | safety proved |
| 3 | `TimerQueue`, `Remind` | Remind EXTENDS the queue and the frame of `main` | safety proved |
| 4 | `FileStorage` | Remind relies on its default policy | safety proved |
| 5 | `IrcUsers`, `IrcNick` | what `IrcLink` abstracts as "other" lines; the nick | safety proved |
| 6 | `XonoticLink`, then `XonoticGame`, `Unvanquished` | the link; what it abstracts of the datagrams | safety proved |
| 7 | `Telegram`, `GitHubFeed` | at-least-once delivery | safety proved |
| 8 | `BotLife`, `Launcher` (which EXTENDS it), `Access`, `Titles` | the frame of everything | safety proved |
| 9 | the parts that are functions of their input (section 3) | one instance, `MCTexts` | checked |

Every invariant and every action property of the passing runs, those of `texts` excepted, is
a theorem; what `texts` states, and liveness, is left to TLC (section 5).

## 3. The modules

**StoppableChannel** is what a queue promises: a set of accepted messages
(`pool`), of which `Deliver` may hand over one whose sender has no older one in
it, and which refuses while it is not active.  `DeliveredInOrder`: the messages
of one producer are delivered in order and none twice.

**MessageQueue** is `ConcurrentContainer` over `std::queue` as written: the test
of `run` in `push` is a step of its own, the section under the mutex one step,
`pop` is cut wherever another thread can get in (`PopPoints`), `stop` stores and
then notifies, both without the mutex.  `run` may change at any time.  The
refinement `Channel` puts the linearization point of a push at its test and that
of a pop at its second test.

**IrcLink** has the program counters (`at`, `out`) of main, irc_in, any other
thread that issues commands ("client") and irc_out.  `disconnect()` is `Quit`,
`Close`, `Lock`, `StopQueue`, `NotifyQueue`, `JoinInput`, `JoinOutput`, on main
and, after ERROR or 464, on irc_in.  A dereference of a released socket and a
thread that joins itself are modelled by what they do: the process is gone
(`Crashed`).  A section that only locks the mutex, works and unlocks it is one
step.  Commands carry the session that made them (`born`), and are urgent (priority 1024) if
they are the login, PONG, or the JOIN of a configured channel (`Init`, `connection.cpp:83`);
the first of the queue is the oldest of the urgent ones, or the oldest.  Abstracted: the
texts and the flood timer (`IrcLines`), the settings; `scheduled_commands` is a
sequence, though the code shares the `std::list` without a lock; `KeptUrgent` is the
queue's `remove_if`.  Left out: 433
and 005 (`IrcNick`) and the queue of messages to main, which `MessageQueue` covers.

**IrcUsers** has the server's real membership (`members`, `me`) beside the bot's
list (`users`); the server sends a line for every change the bot can see, and
`seen` is the server's state as of the last line handled, so the properties
compare the list with what the bot has been told.  Each line is one step: all of
them are handled by one thread.  `lost` records that the bot missed a change of
its own nick: the handler of NICK does nothing when the sender is not in the list,
and the bot is not while it is in no channel.  `UsersAreUnique`, `KnowsItself` and
`NoGhosts` are claimed until that happens, `FollowsItsNick` says that nothing else makes it
happen.  (A bot that does not know its nick does not know that it is the one who left: the
others stay in its list as ghosts, and a user who takes the nick of a ghost is listed
twice.)  `EmptyChannel` is what becomes of the list when the bot leaves a channel.  `lower` is strtolower on channel names.  The run takes names in small
letters: JOIN stores a new user's channels as the server spells them and 353 in
lower case, so with capitals `NoGhosts` is false.  Left out: the hosts, and 433 (`IrcNick`).

**TimerQueue** is the heap and its thread; push, remove, start and stop all run on
main, whose place in them is `editor`.  The mutex matters between "nothing to do"
and sleeping (`gap`).  `timer_action` is read and written without a common lock in
the code; the model keeps its accesses sequentially consistent.  **Remind** extends
it with the handler, the storage and the frame of `main` over several lives:
`Boot`, `LoadNext`/`LoadEnd`, `Run`, `Quit` or `Throw` (an exception that skips
the stop of the services), `Destroy`, `StoreCount`, `StoreNext`, `Exit`, and
`Crash` anywhere.  The action of an item looks the connection up, delivers and
erases in three steps, so that a stop, a destruction or a crash can come between.

**FileStorage** has the tree in memory and on disk as functions from paths to
values, the cache policy and its status, and each operation as written, with
`maybe_load` before or without it and `maybe_save` after or without it.  Saving is
two steps, because opening the file truncates it; a load or a save may find that the file
cannot be opened, and a load then leaves an empty tree that counts as clean.  History, of
the calls alone, whatever loads and saves make of them: `expected` is what the calls should
have made of the tree, `unsaved` the paths `append` and `erase` changed without marking the
tree dirty, `early` the paths erased before this life has read its file a second time
(`Read::ONCE` reads on the first access after the start, again) or saved it, `kept` the
paths with a value that the policy is to keep.  `DefaultKeepsWrites`: under the default
policy memory is `expected` at every path, except that one of `early` may have come back
with that second load; and the file is `expected` but at `early` and `unsaved`.
`Durable`: under every policy `kept` paths are as expected in memory while the program
runs (`KeptInMemory`), on disk at once with `Write::DYNAMIC` and else at the end
(`KeptOnDisk`), over lives and crashes, and a file left half written is not taken for a
tree (`WholeWhileOpen`).  All of it speaks of files that can be opened (`failures = 0`).
A path that a policy does not keep (a put before the first load, under `Read::DYNAMIC`, or
one that a crash in a save took with the file) is not in `kept`: what becomes of it is the
code's to decide, and nothing is claimed.

**XonoticLink** runs the code of `XonoticConnection`, `Engine` and `UdpIo` on three
threads: main, the poll and thread_input.  Any of them reads, writes, closes and
reconnects, and calls nest (a datagram handled inside `sync_read` inside
`update_connection`), so the state of a thread is a stack of operations, `todo`: an
operation is one step that is replaced by the calls it makes.  `secure` is
`rcon_secure`; with challenges, commands wait in `buffer` and each is sent with a
challenge of its own.  The server and the network are external: they answer, lose and
refuse datagrams, and another administrator may take `log_dest_udp`.  Replacing the
Asio object under a thread, or joining a thread twice, ends the model (`crashed`).
A test of `status_` and the assignment right behind it are one step.  The poll fires
only when nothing else can go on: its period is a minute by default.  Left out: the
players and the match, and every command that is only about them.

### Beside the link: the parts of `MCServices`

`MCServices` runs them one at a time: `part` says which, the others stay as they are.
They share nothing but the storage and the queue of messages.

**Telegram**: the worker that polls or is pushed updates, and its three steps from an
update to the storage (`handle`, `count`, `store`), the callbacks of `setWebhook`, connect
and disconnect in any order, refused and lost answers, a crash anywhere.  `HandledOnce`:
no update is skipped, and none handled twice but after a crash, or when `connect()` read
the id back in the middle of a batch; `ComesThrough`: every update is handled while
somebody listens, unless it, or in the poll one before it, throws.

**GitHubFeed**: two memories of what is new, the ETag and the time of the last poll, kept
in the storage; answers lost, malformed or an error, polls that overlap, crashes; the
listeners are told one after the other, and each has its own count.  `ToldOnce`: each
listener tells of every event of its type that an answer held, once.  Besides crashes and
overlapping polls it takes out, event by event, what the code itself passes over
(`missable`) or repeats (`repeatable`), both without any fault, because the times GitHub
gives are whole seconds and are compared with the time of the poll: an event of the second
in which the bot started, one of the second of a poll that happened after its answer was
made, one beyond the limit, and one behind an "unchanged" that followed a malformed answer
are never told; one that happened while the answer that has it was on its way, in a later
second than the poll, is told again by the next.

**Access**: groups, inheritance, the users given and taken by the handlers, and a restart
that merges configuration and storage, handler by handler, before there is a connection
that could know who is logged in.  `AccessKept`: what was given stays given and what was
taken stays taken; the order of the handlers in the configuration matters (a parent
restored first takes its child's users for its own), and so does that nobody edits the
ignored users in the chat.

**BotLife** is one life of the process, from the services of the registry to the static
destructors: connections and the bot's own services (`own`, `melanobot.cpp:54-55`,
`:76-77`) are built, started and stopped, in that order, and any of the calls of `main` may
throw what is a MelanobotError or what is not, which decides how much of the rest is done.
**Launcher** extends it with the loop of the script, its file of actions and the pipe.
`EndsInOrder`: at the end nothing runs, and no connection and no service of the bot's own
has outlived a service of the registry (`NothingOutlives`); and the script starts another
process exactly if that was asked while the last one ran, or if it loops, and stops when it
was told to (`ScriptObeys`).  Left free is what becomes of an action that `melanobot_stop`
writes between two processes: the next obeys it, or the script removes it unread.

**XonoticGame** and **Unvanquished** have the server's players beside the bot's, over a
channel that keeps its order and loses packets: a poll repairs the picture
(`KnowsPlayers`, `KnowsThePlayers`).  `OnlyThose` is `remove_if` on the list of users.  **Titles** is the handler that reads a category of a
wiki page by page for several askers at once, with the `MultiCallback` that answers when
the last holder is gone (`AskedOnceTold`); a question without categories is answered at
once.

**IrcNick**: how the bot comes by its nick.  `login()` asks for `preferred_nick`; a refusal
(433) of the nick last tried asks for one with "_" behind it, cut by NICKLEN once 005 was
read; QUIT of the user who has the preferred nick asks for it again.  The server, which
refuses and cuts, other users and an administrator's command (never for an empty nick,
which `command()` calls ill-formed) are external; a nick is a name
and the number of "_" behind it, and `Longest` is how many the server takes.  `KnowsItsNick`:
when all lines are read the bot knows its nick, unless it changed while the bot was in no
channel, and the nick it goes back to is one it was told to have, never one of its own
making.  When the link is lost, `disconnect()` forgets the nick, not the commands: what the
output thread has not written of them is sent in the next session.  `NickSettles`: while the
link is not lost the bot is welcomed, and stops asking, but for `Storm` (the "_" is cut
off: the same nick is asked for and refused for ever) and `TooLong` (the server cuts the
nick before the bot knows the length, so the refusal names another nick than the one
tried, and the bot is never registered).  Letters in capitals and a KICK are left out.

### Functions of their input: the parts of `MCTexts`

Modules without variables: the code as operators, and for each an independent
statement of what it is for.  The first state of `MCTexts` chooses a kind of
input, the next one is an input of that kind.

| module | code | what is claimed |
| --- | --- | --- |
| `Config` | `settings.cpp`, `config_factory.cpp`, `load_module.cpp` | a handler has the settings of the groups and templates around it, the nearest first, also through templates of templates, by name or by "template"; a template's arguments are filled in wherever its values name them, and used up; only an item that gives its own type as a template is expanded for ever; the modules found are the newest whose dependencies can be met |
| `Dispatch` | `handler.cpp`, `group.cpp`, `melanobot.cpp` | the first handler that takes the message answers it, under all the filters around it; Multi reaches the ones it should and gives the message back unchanged |
| `Bridges` | `bridge.cpp` | between two bridges that hear each other and can be attached elsewhere, what is said on one side is told once on the other |
| `Help` | `misc.hpp` | nothing is shown that the sender may not use; all else is, unless names collide |
| `Formats` | `formatter.cpp`, `color.cpp`, the formatters of IRC, Xonotic, HTML, Telegram | what is written and read back shows the same characters in the nearest colour and flags; what is opened is closed; of Telegram's, nothing is said of texts with a `*` or `_` that is a char of its own (section 6) |
| `Language` | `ConfigParser`, `replacements.hpp` | `$(if)`, `$(for)`, filters and variables mean what is written, whether replaced at once or one after the other |
| `XonoticScores`, `XonoticHandlers` | `log.hpp`, `status.hpp`, `rcon.hpp`, `unvanquished.hpp` | a match whose lines all arrive is shown as it was, whatever was lost before; counts agree; a ban or kick by number or address is of that player, and by name ban and kick are of the same one, whoever it is (section 6); a vote's news has its result and the votes for and against (not abstentions and the minimum), votes are in the caller's name |
| `Pages`, `WebQueries` | `web/server`, `web/handler`, `fun-handlers.hpp` | a request ends at the page the way of first matches leads to, or an error page; pushes find their receiver, if no other has its name; a question to a service that answers is answered once, as the service answered; of one that cannot be reached, only that nothing is made up |
| `Fun`, `Markov`, `Lists` | `modules/fun`, `modules/lists` | Morse code and upside down text turn back, the calendar has no gap but the ones named, answers fit questions; what a chain has learned is in its file; lists and inventories add up; what was taught is told |
| `IrcHandlers` | `irc/handler` | the account known of a user is that user's, however late Q answers, unless the nick was taken by another meanwhile; joins and parts are in the channels asked for, unless they are several and unnamed (section 6); CTCP is answered as listed |
| `IrcLines` | `say()`, `command(PRIVMSG)`, `Buffer::write`, `write_line`, `parse_line`, `process`, PRIVMSG | what is said is one line within the limit and is heard as what it is; the flood timer is never more than its maximum ahead when a line is written, and no line waits longer than those before it cost |
| `GitHubNews` | `github-listeners.hpp`, `github-handlers.hpp` | events are told in their order, once, within the limit; the hub, when it is reached, answers what was asked |

`IrcLines` has the waiting of `Buffer::process` in whole seconds, with commands that come at
given times and expire.  That no line waits longer than the lines before it cost, and once the
penalty, is false when the penalty is beyond the maximum (every line then waits): the property
excepts that setting.

## 4. The runs

| run | result | what it shows |
| --- | --- | --- |
| `queue` | holds | pop never takes from an empty queue and the consumer never sleeps on messages (`IInv`, `NeverSleepsOnMessages`), the queue is the channel, accepted messages are taken, a consumer asleep is woken by stop |
| `irc_link` | holds | `WelcomedFirst`, `LoginFirst`, `DisconnectLeavesNothing` over two sessions |
| `irc_link_live` | holds | the output queue drains; `disconnect()` on main ends, crashes, or is stuck in exactly the two ways of `Stuck` |
| `irc_link_stop` | fails | "Disconnect and stop all processing" (`network/connection.hpp:124`): main joins irc_in with the mutex irc_in waits for |
| `irc_users` | holds | until the bot misses a change of its nick, the list has nobody twice, no ghosts, and the bot knows itself; it misses one only while it is in no channel |
| `irc_users_view` | fails | "a vector with the users in the given channel" (`network/connection.hpp:189`): JOIN of a known user is not recorded |
| `remind` | holds | `NeverEarly`, `DeliveredOnce`, `NoneForgotten`, `SleepsUntilFirst`, `DueIsExecuted`, `StopEnds` |
| `storage` | holds | `DefaultKeepsWrites`, `Durable` under all nine policies |
| `xonotic_link` | holds | `ToldConnected`, `OneChallenge`, and `Settles`: the link comes up again, or is down in one of the four ways of `StaysDown` |
| `xonotic_reopen` | fails | "allowing it to be re-opened automatically" (`xonotic-connection.hpp:236`): the poll waits for the mutex it holds |
| `services` | holds | `HandledOnce`, `ToldOnce`, `EndsInOrder`, `NamesAreKnown` (players of two games, the bot's nick), `AskedOnceTold`, `AllComesThrough` (Telegram's updates, the nick), `AccessKept` |
| `texts` | holds | the statements of the second table of section 3, grouped by what they are about |

Qualifications the code makes necessary are part of the properties: reminders are
delivered once, and none is forgotten, over lives that end by quitting
(`failures = 0`); a kill between two puts of `store_items` does leave a storage
the next start rejects (`phase = "broken"`), and a kill after a delivery delivers
again.  `LoginFirst` excepts the moments in which irc_in tears the link down
itself, and the JOIN of a configured channel that an earlier session left in the queue: it
is as urgent as the login, older, and so is sent to the new server before NICK and USER.
`WelcomedFirst` speaks of the commands of the present session:
commands of an earlier one stay in the queue, and are sent; besides the login and PONG the
code lets MODE and PASS through before the welcome (`connection.cpp:677`): PASS is part of
the login, when a password is configured, and MODE is for handlers of a connected bot;
the runs have neither.  `StopWakesSleeper` and
`StopEnds` speak of a consumer that sleeps when stop notifies: one that has tested `run`
and is not asleep yet misses the notification, which is given without the mutex (so of the
hazards of `container.hpp:106` and `timer-queue.cpp:76` that half is not covered), and
stays in pop, though `container.hpp:75` says "Waits until there are elements to get or
active() is false" and `timer-queue.hpp:78` "Stops the thread".  `ToldConnected` and
`Settles` speak of the first connection with at most one fault (`FirstConnection`):
after a second fault, or a second `connect()` that meets a poll the input thread
restarted during `disconnect()`, two threads reconnect at once, and the link can come
up untold or stay half open.  `NickSettles` and `ComesThrough` speak of links that stay
up.  `ToldOnce`, `DefaultKeepsWrites` and `Durable` name what they except (section 3).  Some
hazards no property covers, because the code goes wrong there and there is nothing it could
be held to; `PROJECT.json` says which and why (`note`).  `TaughtIsTold` compares the times of
changes as numbers, the code (`lists/handler/misc.hpp:117`) as texts, which a library
outside the repository formats to the second.  Without any one disjunct of `StaysDown` `Settles` is false,
and so is `NickSettles` without `Storm` or `TooLong`.

**Bounds.** Counters exist only to end the runs: `MaxPushes`, `MaxStops`,
`MaxSessions`, `MaxLines`, `MaxCommands`, `MaxEvents`, `MaxTime`, `MaxBoots`,
`MaxFailures`, `MaxCrashes`, `MaxValues`.  Two pushes of two producers and two
stops show every order of two messages against a restart.  Two sessions let
threads and commands of the first meet the second; two lines (the welcome, the flush of
what was scheduled) and one command of another thread reach the queue's handlers while main
disconnects, and leave the urgent JOIN of the first in the queue of the second; the other
lines (an error, a refused password, PING) are in `irc_link_live`, with one session.  Five changes on the server are a join of
two channels, a rename and two departures, more than any handler looks back on.
Two reminders and three instants have one due before, with and after another; two
lives have what one stored loaded by the other.  Two paths, two values and up to
two values under a path (interchangeable: the run uses their symmetry, and checks
invariants only) distinguish replacing, adding and erasing, and what one path's save
does to another's changes; one crash and one file that cannot be opened, on a load or a
save, come before, between and after them.

On the Xonotic link `MaxTrouble` counts the calls of main and the faults twice and the
changes of `log_dest_udp` once: 6 without challenges is a fault and two changes, two
faults, or three calls; 5 with them a fault and a change.

In `MCServices`: three updates, the second of which throws (one before and one behind it),
with three calls, refusals or crashes; two events in three seconds with one fault (an answer
lost, a crash), which is before, between or after them, and polls that overlap two at a
time and once (of what overlapped `ToldOnce` says nothing); two lives of the process with two
messages; two players with two entities that pass from one to the other, two polls and one
lost packet; three rounds of an Unvanquished poll with one mishap; four questions over
three categories, one of two pages and one empty, with one failure; four changes of nicks,
commands or lost links with one "_" that fits.  Each is the smallest at which the case
the property is about happens (two of what can be confused, one fault, one restart after it).

In `MCTexts` the bounds are its sets: texts of up to three elements or four characters,
sequences of up to three or four messages, two levels of handlers around two actions, two
categories of settings.  What the functions compare is next to each other or one level apart.

**Deadlock** is not checked where a program may stop, and the bounds stop the
models.  That something goes on is said by the liveness properties.

**Fairness.** `FairSpec` of each module is weak fairness of each thread inside a
function of the program: the operating system schedules runnable threads, and no
step of a thread is disabled for good by another's except through a mutex or a
join, which the models have.  Nobody is obliged to call push or stop, to issue a
command, to send a line, to ask for a reminder, to quit or to fail; a spurious
wake-up is never owed; the read of a closed socket ends, that of an open one need
not; the clock goes on.  The Xonotic server answers what reaches it, and the poll
fires while it runs; that a datagram arrives is not assumed.  In `MCServices`, Telegram's
worker goes on, its requests are answered (the HTTP client has a timeout, which is an
answer), a disconnect that has begun ends; an IRC server answers NICK, and irc_in reads.

## 5. The proofs

All for any values of the constants.  Each theorem follows from an inductive invariant,
and the proof that a step keeps it has a case for every action.

* `MessageQueueProofs`: `Invariance`, `TypeCorrect`, `NoMissedPush`, `Refinement`.  The
  invariant `IInv` (checked by `queue`) adds that a consumer past its second test finds a
  message (`PopFindsMessage`: only it takes messages out, and a woken consumer
  tests again) and that a producer's messages stand in the queue by number
  (`QueueInOrder`), from which the front of the queue is the oldest of its sender,
  which is what the channel's `Deliver` demands.  `ChannelDeliversInOrder`: a channel
  delivers in order, because what is in its pool is younger than what was delivered
  (`Younger`); so, by the refinement, does the queue (`QueueDeliversInOrder`).
* `IrcLinkProofs`, three questions one after the other.  `NothingIsLeft`: `Places` says
  which program counters main, irc_in and irc_out can have together and what they find
  there, above all that once main has stopped the queue nobody starts it again.
  `NothingBeforeWelcome`: `CommandsAreOurs` follows a command from the thread that issues
  it over the queue to the wire; one that is past the test of `command()` belongs to an
  earlier session, or the link is welcomed, or it is sent at once.  `LoginComesFirst`:
  while irc_in does not take the link down, the output thread lives exactly between
  `Spawn` and `disconnect()` (`OutputLives`), NICK and USER are still to be issued, wait,
  are held or were sent (`LoginComes`).  A command that is not urgent leaves the heap only
  when nothing urgent is in it; a JOIN of this session is as urgent as the login, so for it
  the order in which the queue, the command held and the wire got them is followed
  (`JoinsWait`, `InOrder`), through `First` (`FirstIs`) and `KeptUrgent` (`KeptIs`).
* `IrcUsersProofs`: `NobodyTwice`, `NobodyIsAGhost`, `KnowsWhereItIs`, `NickIsFollowed`.
  Each operation of the user manager is first described by what it does to the list as a
  set of entries; then what each line says of the server before and after it, so that the
  lines on their way lead from what the bot was told to what is (`LinesLead`); then the
  invariant `ListIsRight` compares the list with what the bot was told, the channel whose
  names come next excepted.  The hypothesis `LowerCaseNames` is that the server spells
  channels in small letters: JOIN keeps the spelling and 353 does not, and with capitals
  `NoGhosts` is false (section 3).
* `RemindProofs`.  `SleepsRight` and `DeliversOnTime`: a thread in `gap` holds the
  mutex, so its deadline is the first item's even while an edit is under way; one
  that sleeps may be one notification behind, exactly while `editor = "tick"`
  (`DeadlineIsFirst`).  Delivery happens inside an action, and actions are started
  only on items that were due; the clock does not go back (`ExecutingIsDue`).
  `NobodyIsToldTwice` and `NothingIsForgotten`: while every life ends by quitting each
  reminder is in one place of the timer (`Scheduled`: heap, action, or the push that waits
  for the mutex) and once on Remind's list (`Listed`), or in the part of the file that is
  still to be loaded (`Loadable`); main stops the thread before it stores (`StopsFirst`).
  That the number stored is the number of reminders is shown with a bijection between the
  list and the stored entries.
* `FileStorageProofs`: `DefaultPolicyKeepsWrites`, `WritesAreDurable`.  An operation works
  on a copy of the state, so the invariant is stated of such a copy `s`: its tree has what is
  to be kept, and by default all but what was erased early (`Remembers`); what is to be kept
  is on disk whenever the tree is going to be read from there, or is not going to be written
  (`KeptBelow`); a policy that writes at once leaves nothing dirty (`NothingWaits`); by
  default what is not on disk is of `early` or `unsaved` (`DefaultBelow`); a file that is
  torn was not read (`NotTorn`).  A load keeps these because it may come only where
  `KeptBelow` holds of the file, a save because it writes the whole tree.
* `XonoticLinkProofs`: `ChallengesOneByOne`.  That only the first command has asked is
  inductive with the type of the queue: commands are appended unasked, and only the
  first is marked or removed.
* `XonoticLinkProofs` and `XonoticToldProofs`: `FirstConnectionTold`, that a link which comes
  up in spite of one fault was announced.  The property looks at quiet states only, and any
  of the three threads may have got there by closing, reading or reconnecting between two
  steps of the others, so the invariant, `LinkInv`, has to say where each thread can be at
  any time:
  * `Sound`, of every state, and inductive by itself: the types (`LinkTypeCorrect`), what
    a stack looks like (`Wells`), that the mutex belongs to the one thread that has still
    to release it (`MutexIsOwned`), that somebody is about to ask for a challenge nobody
    asked for.  `NotYet`: before main connects, nothing happens.
  * `Stuck`: a thread reads a closed socket, joins while it holds the mutex that
    thread_input needs, thread_input reconnects, or an object was destroyed.  A link that
    is stuck stays stuck (`StuckForGood`) and is never quiet (`QuietNotStuck`), so the rest
    is about links that are not.
  * `Good`, of the first connection (one call of main, at most one fault): which operations
    lie below which on each stack (`MainShape`, `InputShape`, `TimerShape`); who may close
    and reconnect while the others do what (`MainReconnects`, `TimerReopens`,
    `JoinsClosed`, `InputGone`); how long main is alone (`FirstLife`) and what goes on when
    the poll fires (`TimerPolls`, `BothBusy`); that the question for `log_dest_udp` is in
    one place: a stack, the commands that wait, on its way, or answered (`OneAsks`,
    `Coming`, `ChallengeComing`); and what that comes to: a link that is CHECKING or
    CONNECTED was told of, or is about to be, or is being closed (`StatusTold`).
  * Each step of each thread has a lemma of its own that it keeps `Good` (`ConnectMain`,
    `IoCloseTimer`, `ReadDatagramInput` and so on; those of main are in the first module,
    the others in the second); from `MainKeepsGood` on they are put together.
* `ServicesProofs`, a section for each part of `MCServices`:
  * Telegram, `UpdatesHandledOnce`.  The property looks at what Telegram has confirmed, but
    a step moves one of the positions that come from it: the one in memory, the stored one,
    the offset of the poll, the batch.  Everything below each of them was handled
    (`PassedIsHandled`), nothing from the next one on was (`NewIsNew`), and they stand in
    order (`TheBatch`, `ReadBack`).
  * The process, `ProcessEndsInOrder`: before the connections are started and after the bot
    has stopped neither a connection nor a service of its own runs (`NoneRuns`), and a
    service of the registry is stopped only then (`OneLife`).  The script: what it has read
    is what was last asked of the process that ended, and it acts on it while no process
    runs, which takes no step (`ScriptInv`, `DownIsDown`).
  * GitHub, `EventsToldOnce`: while polls do not overlap, one thing is on its way, a request,
    an answer or its handling (`OnePoll`); of the events the code neither passes over
    (`Owed`) nor repeats (`Single`), an answer holds those before the time of its poll, and
    only those (`Holds`); each listener told none of the second kind twice (`OnceTold`), and
    has told of every one of the first that is older than the last poll, or is about to
    (`NoneLost`, `Reached`).
  * Titles, `AskersAreTold`: a question waits only for categories of its own that are being
    loaded (`Requested`), what is kept of a category is complete, unless it failed
    (`Loaded`), the question has the titles of what it no longer waits for (`Got`), and has
    replied exactly when it waits for nothing (`RepliesRight`).
  * The nick, `NickIsKnown`: of the lines on their way, the last that tells the bot a nick
    tells the one it has; if there is none, it knows it already (`LastTold`).
  * Unvanquished, `UnvPlayersAreKnown`: as long as nothing was lost since a question left,
    the question is on its way, or the last answer is (wholly, or the bot has read its
    beginning), or the picture is right and only chat follows (`Repaired`).
  * Xonotic, `PlayersOfGameAreKnown`.  A line that parts names a player and no entity, so
    the invariant needs to know where each player ever lived: it holds for some map from
    players to entities (`GameInvariance` quantifies it), which every join extends by one
    (`NewHome`).  For each entity the last line of the log on its way is true (`LogIsTrue`);
    a poll is in one of five stages, by which commands and lines are under way
    (`PollWaits` to `PollDone`); and for an entity no line is about, the user list has been
    emptied (`GoneIsGone`), filled (`HereIsHere`), and the answer does not say what the log
    behind it will not correct (`ListIsTrue`).
  * Groups, `AccessIsKept`: a managed group has its users in the storage, and in one
    without children the storage has nobody else (`AccessInv`); a restart is followed
    handler by handler.  Its hypotheses are two of the configuration's: `ChildrenFirst`,
    that the groups inheriting a group have their handlers before its own (otherwise the
    parent's stored list, which has the users of its children, is restored first, and its
    child's users become its own), and `IgnoredAreFixed`, that neither the ignored group nor
    one inheriting it is edited in the chat (a user who is ignored is not restored).
    The tree and the handlers of `services` are such a configuration.
  * `PartsOfSpec`: a behaviour of `MCServices` is one of every part, so what is proved of
    each holds of all side by side: `AllNamesAreKnown`, `ServicesTypeCorrect`.

Where the code goes through a sequence (`remove_if`, `EmptyChannel`, the handlers of a
start), the model has a recursive function over positions.  That such a function exists and
what it returns is proved, for each, by the least position at which it would not
(`LeastOf`, `AllOfNat`, from the library's theorem on well-founded relations).

Assumptions are the named ASSUMEs of the modules, which TLC evaluates in the runs: bounds
are natural numbers, what the constants name is of its kind (the ignored group has no
handler, the policies are those of the code, a category has a first page), Remind is an
owner of timer items, nobody asks for an empty nick, and the clock of GitHub's poll starts
at 1.

Only model-checked:

* liveness under fairness (`StopWakesSleeper`, `StopEnds`, `Settles`, `AllComesThrough` and
  the like): fairness is stated with ENABLED, which no prover here handles.  The guard of
  the poll (`InTime`) says when a thread of the link waits without ENABLED (`Waits`);
* the properties of `MCTexts`, whose modules recurse over texts and trees of settings:
  what a recursive operator computes for every input is an induction the prover cannot do.

## 6. What the code does that its texts do not say

Three disagreements are runs of their own (section 4).  Others met while modelling, which
the models have as the code has them:

* **IRC.** The server closing the connection ends irc_in but leaves the status;
  `scheduled_commands` is shared without a lock.  A message that begins with ":" and has no
  space loses the ":" (`buffer.cpp:117` marks only what has a space).  An ACTION without text
  is not matched by the expression for CTCP, whose sub-matches are read after the string they
  point into has been cleared (`connection.cpp:364`).  The first nick an administrator asks for
  after the login is not kept as preferred, because 001 does not end the attempt of the login.
  A nick that NICKLEN cuts back is asked for again for ever; one that the server cuts before
  005 is never replaced.  The JOIN command works out the channels it is not in and sends the
  list it was given.  A nick reused between the question to Q and its answer gets the other
  user's account; Q's NOTICE answers late.  AdminJoin without arguments and IrcKickRejoin, of
  a message in several channels, name them in one word with ", " between, of which the network
  takes the first.  The JOIN of a configured channel is as urgent as the login
  (`connection.cpp:83`): left in the queue by a lost session, it goes to the next server
  before NICK and USER.
* **Queues and timer.** The notification of a stop can be lost (section 4).
* **Xonotic.** In the results of votes the conditions for abstentions and the minimum are
  inverted (`log.hpp:254`, `:258`); XonoticBan's search by name ("find user with given name", `status.hpp:379`) takes the first
  player whose name does not contain it (`:386`); its "list", when no ban was ever reported, is
  an exception that ends the process (`:475` has no default); the own nick is
  lost when a vote is called within a second of another; ShowVoteLogin and ShowVoteDo show raw
  placeholders; the score handler reads "empty" twice and loses ":scores" lines; with bots the
  scores count them twice; UnvanquishedStatus calls all players active.
* **Telegram.** `connect()` that answers after `disconnect()` opens the link again; an update
  whose handling throws is fetched for ever.  The formatter writes a `*` or `_` that is a char
  of its own (as the rainbow makes them, `rainbow.cpp:40`) as `"\\" + c`, which is not the two
  characters but memory behind the literal; in strings they are escaped.
* **GitHub.** The ETag is stored before the events are told.  GitHubSearch reads `reply_invalid`
  from "reply"; GollumEvent's limit counts the pages of all events; prerelease and draft are
  looked for one level too deep; a hub that cannot be reached is passed over in silence, and
  malformed answers are taken for empty values.
* **Web.** `network_failure` of `web-api.hpp:49` stands behind a comma and is never called;
  MediaWiki, Norris and VideoInfo are silent when they fail; WhereIsGoogle gives the map before the
  address; the next page of a category is never asked for with its own mark
  (`web-api-concrete.hpp:630`), and an empty list is kept after an error.  A directory
  without error pages answers in plain text; StorageView edits whatever "editable" says;
  PushPage keeps its receiver between requests of several threads, and of two receivers of a
  name the end of one unregisters the other.
* **Configuration.** An item that gives its own type as a template, as `melanobot.sh:27` does
  (`type Template`), hands that type on to what it builds, which is the template again:
  `build_template` never returns ("\todo recursion check").  The item's name, `Template` or
  the template's, works.
* **Core.** A handler named like a property, or like another, hides it in the help.  A bridge
  with `dst_channel` ignores it for messages that have a channel; the test for ACTION in
  BridgeChat is unreachable.  StdinConnection closes its descriptor twice.
* **Fun and lists.** A list takes the same word twice; replies changed twice in one second are
  not noticed; two keys of Markov chains ("" and "markov") share a file, "Graph saved" is said
  of read-only graphs, and web threads use them without a lock; Insult's maximum is read from
  "min_adjectives"; "why" and "where" are unreachable; PonyCountDown counts times gone by;
  a PonyFace without image is silent; 29 February shows the 28th, and after 2100 days are off
  by one; Morse code loses spaces at the end, and takes a text of dots and dashes for code.

## 7. Not modelled

The Python scripts (`modules/script`) run in an interpreter outside the repository.  The
HTTP library, the option parser and Boost are external, too.  Logging, options of the
command line, the hashing of Xonotic's challenges, the looks of replies and of web pages,
short addresses, insults, slaps, rainbows and star dates are conversions or pure output;
`IrcIdentify`, `WhoisCheckMe` and `Defer` send one command each.  Stickers and inline handlers
of Telegram, the handler that makes list handlers from the configuration, `change_id` of the
users, reading lines from the standard input and the file formats of the storage
are left out; their components say "partly".  Data races on plain variables are not given
their undefined behaviour; those met are named in sections 3 and 6 and among the hazards.
