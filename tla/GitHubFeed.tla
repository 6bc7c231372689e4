------------------------------ MODULE GitHubFeed ------------------------------
(***************************************************************************)
(* The events of a GitHub repository (event_source.cpp, and the polling of *)
(* github-controller.cpp).  A timer asks for the events; the answer is     *)
(* handled by a callback of the HTTP client, one at a time, and tells the  *)
(* listeners of what is new.  What is new is decided twice: by the ETag of *)
(* the last answer, which GitHub compares, and by the time of the last     *)
(* poll, which the bot compares with the time of each event.  Both are     *)
(* kept in the storage.                                                    *)
(*                                                                         *)
(* GitHub is external: an ETag is the number of events there were, and an  *)
(* answer holds all of them.  Times are whole seconds.                     *)
(***************************************************************************)
EXTENDS Naturals, FiniteSets, Sequences, SequencesExt

CONSTANTS
  Listeners,     \* the event type each listener waits for, in their order
  Types,         \* types of events
  Limit,         \* events of one answer a listener tells of
  MaxEvents, MaxTime,   \* bounds
  MaxFaults      \* bound: answers that are errors or malformed, and crashes

ASSUME GitHubFeedAssumption ==
  /\ Listeners \in Seq(Types) /\ Listeners # <<>> /\ Limit \in Nat
  /\ {MaxEvents, MaxFaults} \subseteq Nat /\ MaxTime \in Nat \ {0}

VARIABLES
  events,       \* GitHub: the events so far, with the time they happened at
  now,          \* the time
  etag, lastPoll, currentPoll,   \* of EventSource
  savedTag, savedPoll,           \* "etag" and "last_poll" in the storage
  requests,     \* ETags of the requests on their way
  replies,      \* answers on their way
  handling,     \* the answer the callback handles, and how far it is
  announced,    \* how often each listener told of each event
  seen,         \* events in the answers that were dispatched
  faults, died, \* faults so far; the bot crashed
  overlapped,   \* a poll began before the last one was over
  missable,     \* events the code may pass over: of the second of a poll but after its
                \* answer was made, over the limit, or passed by an answer "unchanged"
  repeatable    \* events in an answer that happened in a second after its poll's

sourceVars == <<etag, lastPoll, currentPoll, savedTag, savedPoll>>
hubVars == <<events, now>>
wireVars == <<requests, replies, handling>>
tellVars == <<announced, seen, missable, repeatable>>
feedVars == <<sourceVars, hubVars, wireVars, tellVars, faults, died, overlapped>>

Ids == 1..MaxEvents
NoReply == [stage |-> "none"]

FeedInit ==
  /\ events = <<>> /\ now = 1
  /\ etag = 0 /\ lastPoll = now /\ currentPoll = 0 /\ savedTag = 0 /\ savedPoll = 0
  /\ requests = <<>> /\ replies = {} /\ handling = NoReply
  /\ announced = [l \in DOMAIN Listeners |-> [i \in Ids |-> 0]] /\ seen = 0
  /\ missable = {} /\ repeatable = {}
  /\ faults = 0 /\ died = FALSE /\ overlapped = FALSE

Happens(type) ==
  /\ Len(events) < MaxEvents
  /\ events' = Append(events, [type |-> type, at |-> now])
  /\ missable' = IF now = lastPoll \/ (now = currentPoll /\ (replies # {} \/ handling # NoReply))
                 THEN missable \cup {Len(events')} ELSE missable
  /\ repeatable' = IF requests # <<>> /\ now # currentPoll
                   THEN repeatable \cup {Len(events')} ELSE repeatable
  /\ UNCHANGED <<sourceVars, now, wireVars, announced, seen, faults, died, overlapped>>

Tick ==
  /\ now < MaxTime /\ now' = now + 1
  /\ UNCHANGED <<sourceVars, events, wireVars, tellVars, faults, died, overlapped>>

-----------------------------------------------------------------------------
(* poll_events() and its callback                                          *)

\* The time of the poll is kept in the source, not in the request.  Bound: polls overlap two
\* at a time, and once.
PollEvents ==
  /\ Len(requests) + Cardinality(replies) < 2
  /\ overlapped => requests = <<>> /\ replies = {} /\ handling = NoReply
  /\ requests' = Append(requests, etag) /\ currentPoll' = now
  /\ overlapped' = (overlapped \/ requests # <<>> \/ replies # {} \/ handling # NoReply)
  /\ UNCHANGED <<etag, lastPoll, savedTag, savedPoll, hubVars, replies, handling,
                 tellVars, faults, died>>

\* GitHub answers; what has not changed since the ETag is not sent again.
HubAnswers(body) ==
  /\ requests # <<>>
  /\ \/ body \in {"error", "malformed"} /\ faults < MaxFaults /\ faults' = faults + 1
     \/ body = "unchanged" /\ Head(requests) = Len(events) /\ UNCHANGED faults
     \/ body = "events" /\ Head(requests) # Len(events) /\ UNCHANGED faults
  /\ requests' = Tail(requests)
  /\ replies' = replies \cup {[stage |-> "sent", body |-> body, tag |-> Len(events)]}
  /\ UNCHANGED <<sourceVars, hubVars, handling, tellVars, died, overlapped>>

\* The callback takes an answer, and stores its ETag before it looks at the events;
\* an error has none.
StoreTag(reply) ==
  /\ handling = NoReply /\ replies' = replies \ {reply}
  /\ IF reply.body = "error" THEN UNCHANGED <<etag, savedTag>>
                             ELSE etag' = reply.tag /\ savedTag' = reply.tag
  /\ handling' = [reply EXCEPT !.stage = "dispatch"]
  /\ UNCHANGED <<lastPoll, currentPoll, savedPoll, hubVars, requests, tellVars,
                 faults, died, overlapped>>

\* The events of an answer that happened after the last poll.
Fresh == {i \in 1..handling.tag : events[i].at > lastPoll}

\* Mutant: the time of a poll is stored though its answer could not be parsed.
DispatchAnyway ==
  /\ handling.stage = "dispatch"
  /\ lastPoll' = currentPoll /\ savedPoll' = currentPoll
  /\ IF handling.body = "events"
     THEN handling' = [stage |-> "tell", fresh |-> Fresh, next |-> 1,
                       tag |-> handling.tag]
     ELSE handling' = NoReply
  /\ UNCHANGED <<etag, currentPoll, savedTag, hubVars, requests, replies, tellVars,
                 faults, died, overlapped>>

\* dispatch_events(): an error, or what cannot be parsed, changes nothing; otherwise
\* the time is stored, and the listeners are to be told of what is new.  Whether the
\* empty body of an answer "unchanged" can be parsed is up to a library: if it can,
\* the time moves past the events of an answer that was malformed.
Dispatch ==
  /\ handling.stage = "dispatch"
  /\ \/ /\ handling.body # "events"
        /\ handling' = NoReply /\ UNCHANGED <<lastPoll, savedPoll, missable>>
     \/ /\ handling.body \in {"events", "unchanged"}
        /\ lastPoll' = currentPoll /\ savedPoll' = currentPoll
        /\ IF handling.body = "events"
           THEN /\ handling' = [stage |-> "tell", fresh |-> Fresh, next |-> 1,
                                tag |-> handling.tag]
                /\ UNCHANGED missable
           ELSE handling' = NoReply /\ missable' = missable \cup (seen + 1)..handling.tag
  /\ UNCHANGED <<etag, currentPoll, savedTag, hubVars, requests, replies, announced, seen,
                 repeatable, faults, died, overlapped>>

\* handle_event() of the next listener: the first Limit events, the newest ones.
Told(type) ==
  LET wanted == {i \in handling.fresh : events[i].type = type}
  IN  {i \in wanted : Cardinality({j \in wanted : j > i}) < Limit}

Tell ==
  /\ handling.stage = "tell"
  /\ LET l == handling.next  type == Listeners[l] IN
       /\ announced' = [announced EXCEPT ![l] =
                          [i \in Ids |-> IF i \in Told(type) THEN @[i] + 1 ELSE @[i]]]
       /\ missable' = missable \cup ({i \in handling.fresh : events[i].type = type} \ Told(type))
  /\ IF handling.next < Len(Listeners)
     THEN handling' = [handling EXCEPT !.next = @ + 1] /\ UNCHANGED seen
     ELSE handling' = NoReply /\ seen' = IF handling.tag > seen THEN handling.tag ELSE seen
  /\ UNCHANGED <<sourceVars, hubVars, requests, replies, repeatable, faults, died, overlapped>>

\* The process ends and is started again: EventSource() reads the storage.
HubCrash ==
  /\ faults < MaxFaults /\ faults' = faults + 1 /\ died' = TRUE
  /\ etag' = savedTag /\ currentPoll' = 0
  /\ lastPoll' = IF savedPoll = 0 THEN now ELSE savedPoll
  /\ requests' = <<>> /\ replies' = {} /\ handling' = NoReply
  /\ UNCHANGED <<savedTag, savedPoll, hubVars, tellVars, overlapped>>

Callback == (\E reply \in replies : StoreTag(reply)) \/ Dispatch \/ Tell
FeedNext ==
  \/ \E type \in Types : Happens(type)
  \/ Tick
  \/ PollEvents
  \/ \E body \in {"events", "unchanged", "error", "malformed"} : HubAnswers(body)
  \/ Callback
  \/ HubCrash

FeedSpec == FeedInit /\ [][FeedNext]_feedVars

-----------------------------------------------------------------------------
FeedTypeOK ==
  /\ \A i \in DOMAIN events : events[i].type \in Types /\ events[i].at \in 1..now
  /\ {etag, savedTag, seen} \subseteq 0..Len(events)
  /\ {lastPoll, currentPoll, savedPoll} \subseteq 0..now /\ now <= MaxTime
  /\ requests \in Seq(0..Len(events)) /\ announced \in [DOMAIN Listeners -> [Ids -> Nat]]
  /\ missable \subseteq Ids /\ repeatable \subseteq Ids /\ faults \in 0..MaxFaults

\* While the bot does not crash and polls do not overlap, an event that an answer held
\* was told of by its listeners, also when the answers before were lost, malformed or
\* errors, unless it is one the code passes over: it happened in the second the bot
\* started, or in that of a poll after its answer was made (the times of the events are
\* whole seconds, and must be later than the poll's); or it was among more than Limit of
\* its type; or after a malformed answer an "unchanged" one moved the time past it.
\* And it is told of once, unless it happened while the answer it is in was on its way, in a
\* later second than its poll's.
ToldOnce ==
  /\ handling = NoReply /\ ~died /\ ~overlapped =>
       \A l \in DOMAIN Listeners, i \in (1..seen) \ missable :
         events[i].type = Listeners[l] => announced[l][i] > 0
  /\ ~overlapped =>
       \A l \in DOMAIN Listeners, i \in DOMAIN events \ repeatable : announced[l][i] <= 1
===============================================================================
