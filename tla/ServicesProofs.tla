---------------------------- MODULE ServicesProofs ----------------------------
(***************************************************************************)
(* What the parts of the bot beside the IRC link and the timer promise,    *)
(* for every value of their constants: the position in the stream of       *)
(* Telegram's updates, the life of the process, the events of a GitHub     *)
(* repository, the titles of a wiki, the bot's nick on IRC, the players of *)
(* game servers, and the users of a group over a restart.  One section for *)
(* each; they share a few facts about sequences, and the last section puts *)
(* them together as MCServices does.                                       *)
(*                                                                         *)
(* Telegram: the property looks at what Telegram has confirmed, but a step *)
(* moves only one of the positions it comes from: the one in memory, the   *)
(* stored one, the offset of the poll on its way, the batch.  The          *)
(* invariant says of each that what lies below it was handled              *)
(* (PassedIsHandled), and in what order they stand (TheBatch, ReadBack).   *)
(***************************************************************************)
EXTENDS MCServices, Integers, SequenceTheorems, FiniteSetTheorems, WellFoundedInduction, TLAPS

-----------------------------------------------------------------------------
(* The position in the stream of updates (Telegram)                        *)

\* The updates below a position were given to the bot, those that throw excepted; and
\* none from a position on was.
HandledBelow(n) == \A u \in Updates : u < n /\ u \notin Bad => times[u] > 0
NewFrom(n) == \A u \in Updates : u >= n => times[u] = 0

\* The first is kept by going back, the second by going on.
LEMMA PositionsMove ==
  ASSUME NEW m \in Nat, NEW n \in Nat, m <= n
  PROVE  /\ HandledBelow(n) => HandledBelow(m)
         /\ NewFrom(m) => NewFrom(n)
  BY DEF HandledBelow, NewFrom, Updates

\* The types, with the bounds that the counters keep.
TelegramTypes ==
  /\ webhook \in BOOLEAN /\ ticking \in BOOLEAN /\ closing \in BOOLEAN
  /\ hooked \in BOOLEAN /\ crashed \in BOOLEAN /\ reloaded \in BOOLEAN
  /\ status \in {"DISCONNECTED", "CONNECTING", "CONNECTED"}
  /\ answer \in {"none", "accepted", "refused"}
  /\ work \in {"idle", "asked", "handle", "count", "store"}
  /\ eventId \in Nat /\ saved \in Nat /\ offset \in Nat /\ confirmed \in Nat /\ arrived \in Nat
  /\ eventId <= MaxUpdates + 1 /\ saved <= MaxUpdates + 1 /\ offset <= MaxUpdates + 1
  /\ 1 <= confirmed /\ confirmed <= MaxUpdates + 1 /\ arrived <= MaxUpdates
  /\ times \in [Updates -> Nat]
  /\ asked \in Nat /\ trouble \in Nat /\ asked <= trouble /\ trouble <= MaxTrouble

\* Polls and pushes exclude each other.
OneSource ==
  /\ ticking \/ work = "asked" => ~webhook
  /\ hooked => webhook

\* The updates of a batch follow one another, and none is below the stored position.
Consecutive(b) == b # <<>> /\ \A i \in 1..Len(b) : b[i] = b[1] + i - 1

TheBatch ==
  /\ batch \in Seq(Updates)
  /\ work \in {"handle", "count"} =>
       /\ Consecutive(batch)
       /\ webhook => Len(batch) = 1 /\ batch[1] = confirmed
       /\ saved <= batch[1]
  /\ work = "count" => eventId <= batch[1]

\* event_id has been read from the storage before it is used.
ReadBack ==
  /\ webhook => saved <= confirmed
  /\ webhook /\ work = "store" => eventId <= confirmed + 1 /\ confirmed \in Updates
  /\ ~webhook /\ (asked > 0 \/ answer # "none" \/ ticking \/ work # "idle") => saved <= eventId
  /\ work = "asked" => saved <= offset

\* Every position that may come to be stored, sent or confirmed has only handled
\* updates below it.
PassedIsHandled ==
  /\ HandledBelow(eventId) /\ HandledBelow(saved) /\ HandledBelow(offset)
  /\ HandledBelow(confirmed)
  /\ work = "handle" => HandledBelow(batch[1])
  /\ work = "count" => HandledBelow(batch[1] + 1)
  /\ webhook /\ work = "store" => HandledBelow(confirmed + 1)

\* Until a crash, or connect() in the middle of a batch, nothing was handled twice, and
\* what is still to be handled never was.
NewIsNew ==
  ~crashed /\ ~reloaded =>
    /\ \A u \in Updates : times[u] <= 1
    /\ webhook =>
         /\ work \in {"idle", "handle"} => NewFrom(confirmed)
         /\ work \in {"count", "store"} => NewFrom(confirmed + 1)
    /\ ~webhook =>
         /\ work \in {"idle", "asked"} => eventId = saved /\ NewFrom(eventId)
         /\ work = "asked" => offset = eventId
         /\ work = "handle" => NewFrom(batch[1])
         /\ work = "count" => eventId = batch[1] /\ NewFrom(batch[1] + 1)
         /\ work = "store" => NewFrom(eventId)

TelegramInv == TelegramTypes /\ OneSource /\ TheBatch /\ ReadBack /\ PassedIsHandled /\ NewIsNew

\* What the bounds leave to count.
LEMMA RoomToCount ==
  ASSUME TelegramTypes
  PROVE  /\ asked > 0 => asked - 1 \in Nat /\ asked - 1 <= trouble /\ asked - 1 <= trouble + 1
         /\ trouble < MaxTrouble =>
              /\ trouble + 1 \in Nat /\ trouble + 1 <= MaxTrouble
              /\ asked <= trouble + 1 /\ asked + 1 \in Nat /\ asked + 1 <= trouble + 1
         /\ 0 <= MaxUpdates /\ 0 <= MaxUpdates + 1 /\ 1 <= MaxUpdates + 1 /\ 0 <= MaxTrouble
         /\ 0 <= trouble + 1
         /\ arrived < MaxUpdates => arrived + 1 \in Nat /\ arrived + 1 <= MaxUpdates
  BY TelegramAssumption DEF TelegramTypes

\* These types are those of the model.
LEMMA TypesImply == TelegramTypes /\ batch \in Seq(Updates) => TelegramTypeOK
  BY TelegramAssumption DEF TelegramTypes, TelegramTypeOK

\* What the bot calls and Telegram answers leaves the position alone, except connect().
LEMMA LinkKeeps ==
  ASSUME TelegramInv,
         Arrive \/ Disconnect \/ DisconnectStops \/ Accepted \/ OnSuccess \/ Refused \/ OnError
  PROVE  TelegramInv'
<1>1. UNCHANGED <<webhook, workVars, confirmed, times, crashed, reloaded>>
  BY DEF Arrive, Disconnect, DisconnectStops, Accepted, OnSuccess, Refused, OnError,
     linkUpVars, netVars, seenVars
<1>2. TelegramTypes'
  <2>1. CASE Accepted
    BY <1>1, <2>1, RoomToCount DEF Accepted, TelegramInv, TelegramTypes, workVars, seenVars
  <2>5. CASE Refused
    BY <1>1, <2>5, RoomToCount, ZenonT(40) DEF Refused, TelegramInv, TelegramTypes, Trouble, netVars, workVars
  <2>2. CASE Arrive
    BY <1>1, <2>2, RoomToCount
    DEF Arrive, TelegramInv, TelegramTypes, linkUpVars, workVars, seenVars
  <2>3. CASE Disconnect
    BY <1>1, <2>3, RoomToCount
    DEF Disconnect, TelegramInv, TelegramTypes, Trouble, netVars, workVars
  <2>4. CASE DisconnectStops
    BY <1>1, <2>4 DEF DisconnectStops, TelegramInv, TelegramTypes, netVars, workVars, seenVars
  <2>6. CASE OnSuccess
    BY <1>1, <2>6 DEF OnSuccess, TelegramInv, TelegramTypes, netVars, workVars, seenVars
  <2>7. CASE OnError
    BY <1>1, <2>7 DEF OnError, TelegramInv, TelegramTypes, netVars, workVars, seenVars
  <2> QED BY <2>1, <2>2, <2>3, <2>4, <2>5, <2>6, <2>7
<1>3. OneSource' /\ TheBatch' /\ ReadBack'
  BY <1>1 DEF Arrive, Disconnect, DisconnectStops, Accepted, OnSuccess, Refused, OnError,
     TelegramInv, TelegramTypes, OneSource, TheBatch, ReadBack, linkUpVars, netVars,
     workVars, seenVars
<1>4. PassedIsHandled' /\ NewIsNew'
  BY <1>1 DEF TelegramInv, PassedIsHandled, NewIsNew, HandledBelow, NewFrom, workVars
<1> QED BY <1>2, <1>3, <1>4 DEF TelegramInv

\* connect() goes back to the stored position, and notes when it does so in a batch.
LEMMA ConnectKeeps ==
  ASSUME TelegramInv, Trouble, connect, ticking' \in BOOLEAN,
         UNCHANGED <<webhook, ticking, answer, closing, saved, batch, offset, netVars, times,
                     crashed>>,
         work' = work \/ (work = "asked" /\ work' = "idle")
  PROVE  TelegramInv'
<1> USE DEF TelegramInv, TelegramTypes, Trouble, connect, netVars
<1>1. TelegramTypes'
  BY RoomToCount
<1>2. OneSource' /\ TheBatch' /\ ReadBack'
  BY TelegramAssumption DEF OneSource, TheBatch, ReadBack
<1>3. PassedIsHandled'
  BY DEF PassedIsHandled, HandledBelow
<1>4. NewIsNew'
  <2>1. CASE work \in {"idle", "asked"}
    <3>1. /\ ~reloaded' => ~reloaded
          /\ ~crashed /\ ~reloaded /\ ~webhook => eventId' = eventId
      BY <2>1 DEF NewIsNew
    <3>2. \A n : NewFrom(n)' = NewFrom(n)
      BY DEF NewFrom
    <3>3. work' \in {"idle", "asked"}
      BY <2>1
    <3>4. CASE ~crashed' /\ ~reloaded'
      <4>1. ~crashed /\ ~reloaded /\ times' = times /\ webhook' = webhook
            /\ offset' = offset /\ saved' = saved /\ confirmed' = confirmed
        BY <3>1, <3>4
      <4>2. /\ \A u \in Updates : times[u] <= 1
            /\ webhook => (work = "idle" => NewFrom(confirmed))
            /\ ~webhook => eventId = saved /\ NewFrom(eventId) /\ eventId' = eventId
            /\ ~webhook /\ work = "asked" => offset = eventId
        BY <2>1, <3>1, <4>1 DEF NewIsNew
      <4>3. webhook => work = "idle" /\ work' = "idle"
        BY <2>1 DEF OneSource
      <4>4. CASE webhook
        BY <3>2, <4>1, <4>2, <4>3, <4>4 DEF NewIsNew
      <4>5. CASE ~webhook
        BY <2>1, <3>2, <3>3, <4>1, <4>2, <4>5 DEF NewIsNew
      <4> QED BY <4>4, <4>5
    <3> QED BY <3>4 DEF NewIsNew
  <2>2. CASE work \in {"handle", "count", "store"}
    BY <2>2 DEF NewIsNew
  <2> QED BY <2>1, <2>2
<1> QED BY <1>1, <1>2, <1>3, <1>4

\* What begins and ends the work of the worker.
LEMMA WorkKeeps ==
  ASSUME TelegramInv, PollUpdates \/ Pushed \/ Store
  PROVE  TelegramInv'
<1> USE DEF TelegramInv, TelegramTypes, SameLink
<1>1. CASE PollUpdates
  <2>1. (TelegramTypes /\ OneSource /\ TheBatch /\ ReadBack)'
    BY <1>1 DEF PollUpdates, OneSource, TheBatch, ReadBack, linkUpVars, netVars, seenVars
  <2>2. PassedIsHandled' /\ NewIsNew'
    BY <1>1
    DEF PollUpdates, OneSource, PassedIsHandled, NewIsNew, HandledBelow, NewFrom, netVars,
        seenVars
  <2> QED BY <2>1, <2>2
<1>2. CASE Pushed
  <2>1. webhook /\ confirmed \in Updates /\ batch' = <<confirmed>> /\ work' = "handle"
    BY <1>2, TelegramAssumption DEF Pushed, OneSource, Updates
  <2>2. batch' \in Seq(Updates) /\ Consecutive(batch') /\ Len(batch') = 1 /\ batch'[1] = confirmed
    BY <2>1, TelegramAssumption DEF Consecutive, Updates
  <2>3. (TelegramTypes /\ OneSource /\ TheBatch /\ ReadBack)'
    BY <1>2, <2>1, <2>2 DEF Pushed, OneSource, TheBatch, ReadBack, linkUpVars, netVars, seenVars
  <2>4. PassedIsHandled' /\ NewIsNew'
    BY <1>2, <2>1, <2>2
    DEF Pushed, PassedIsHandled, NewIsNew, HandledBelow, NewFrom, netVars, seenVars
  <2> QED BY <2>3, <2>4
<1>3. CASE Store
  <2>1. (TelegramTypes /\ OneSource /\ TheBatch /\ ReadBack)'
    BY <1>3, TelegramAssumption
    DEF Store, OneSource, TheBatch, ReadBack, Updates, linkUpVars, seenVars
  <2>2. PassedIsHandled' /\ NewIsNew'
    BY <1>3 DEF Store, PassedIsHandled, NewIsNew, HandledBelow, NewFrom, seenVars
  <2> QED BY <2>1, <2>2
<1> QED BY <1>1, <1>2, <1>3

\* A crash keeps the stored position.
LEMMA CrashKeeps ==
  ASSUME TelegramInv, Crash
  PROVE  TelegramInv'
<1>1. TelegramTypes'
  <2>1. trouble' = trouble + 1 /\ trouble < MaxTrouble /\ times' = times
        /\ UNCHANGED <<webhook, saved, netVars, reloaded>>
    BY DEF Crash, Trouble
  <2>2. /\ status' = "DISCONNECTED" /\ ticking' = FALSE /\ closing' = FALSE /\ crashed' = TRUE
        /\ asked' = 0 /\ answer' = "none" /\ eventId' = 0 /\ work' = "idle" /\ offset' = 0
    BY DEF Crash
  <2> QED BY <2>1, <2>2, RoomToCount, TelegramAssumption DEF TelegramInv, TelegramTypes, netVars
<1>4. OneSource'
  BY DEF Crash, TelegramInv, OneSource, netVars
<1>2. TheBatch' /\ ReadBack'
  BY EmptySeq DEF Crash, TelegramInv, TheBatch, ReadBack, netVars
<1>3. PassedIsHandled' /\ NewIsNew'
  BY DEF Crash, TelegramInv, PassedIsHandled, NewIsNew, HandledBelow, Updates, netVars
<1> QED BY <1>1, <1>2, <1>3, <1>4 DEF TelegramInv

\* The updates of an answer.
Span(c, a) == [i \in 1..(a - c + 1) |-> c + i - 1]

\* They are a batch that begins with the first one asked for.
LEMMA SpanIsBatch ==
  ASSUME NEW c \in Nat, 1 <= c, NEW a \in Nat, a <= MaxUpdates
  PROVE  /\ Span(c, a) \in Seq(Updates)
         /\ Span(c, a) # <<>> => Span(c, a)[1] = c /\ Consecutive(Span(c, a))
<1> DEFINE n == a - c + 1
<1>1. CASE n > 0
  <2>1. n \in Nat /\ 1 \in 1..n /\ \A i \in 1..n : c + i - 1 \in Updates /\ c + 1 - 1 = c
    BY <1>1, TelegramAssumption DEF Updates
  <2> HIDE DEF n
  <2>2. Span(c, a) \in Seq(Updates) /\ Len(Span(c, a)) = n
    BY <2>1 DEF n, Span
  <2>3. Span(c, a)[1] = c /\ \A i \in 1..n : Span(c, a)[i] = c + i - 1
    BY <2>1 DEF n, Span
  <2> QED BY <2>2, <2>3 DEF Consecutive
<1>2. CASE ~(n > 0)
  <2>1. 1..n = {}
    BY <1>2
  <2>2. Span(c, a) = <<>>
    BY <2>1 DEF Span
  <2> QED BY <2>2
<1> QED BY <1>1, <1>2

\* An answer to a poll begins where its offset, or the last one, confirmed.
LEMMA AnsweredInv ==
  ASSUME TelegramInv, Answered
  PROVE  TelegramInv'
<1>1. /\ arrived \in Nat /\ arrived <= MaxUpdates
      /\ confirmed' \in Nat /\ 1 <= confirmed' /\ confirmed' <= MaxUpdates + 1
      /\ confirmed' >= confirmed /\ confirmed' >= offset
  BY DEF Answered, TelegramInv, TelegramTypes
<1>2. batch' = Span(confirmed', arrived)
  BY DEF Answered, Span
<1>3. /\ batch' \in Seq(Updates)
      /\ batch' # <<>> => batch'[1] = confirmed' /\ Consecutive(batch')
  BY <1>1, <1>2, SpanIsBatch
<1>4. work' = IF batch' = <<>> THEN "store" ELSE "handle"
  BY DEF Answered
<1>5. /\ UNCHANGED <<webhook, linkUpVars, eventId, saved, offset, hooked, arrived, seenVars>>
      /\ work = "asked" /\ confirmed' \in {offset, confirmed}
  BY DEF Answered, SameLink
<1>6. (TelegramTypes /\ OneSource /\ ReadBack)'
  BY <1>1, <1>4, <1>5 DEF TelegramInv, TelegramTypes, OneSource, ReadBack, linkUpVars, seenVars
<1>9. TheBatch'
  <2>1. ~webhook /\ saved <= offset /\ saved \in Nat /\ offset \in Nat
    BY <1>5 DEF TelegramInv, TelegramTypes, OneSource, ReadBack
  <2> QED BY <1>1, <1>3, <1>4, <1>5, <2>1 DEF TheBatch
<1>7. PassedIsHandled'
  BY <1>1, <1>3, <1>4, <1>5 DEF TelegramInv, OneSource, PassedIsHandled, HandledBelow, seenVars
<1>8. NewIsNew'
  <2>1. ~webhook /\ eventId \in Nat
    BY <1>5 DEF TelegramInv, TelegramTypes, OneSource
  <2>2. ~crashed /\ ~reloaded => NewFrom(eventId) /\ NewFrom(confirmed')
    BY <1>1, <1>5, <2>1, PositionsMove DEF TelegramInv, NewIsNew
  <2>3. \A n : NewFrom(n)' = NewFrom(n)
    BY <1>5 DEF NewFrom, seenVars
  <2> QED BY <1>3, <1>4, <1>5, <2>1, <2>2, <2>3 DEF TelegramInv, NewIsNew, seenVars
<1> QED BY <1>6, <1>7, <1>8, <1>9 DEF TelegramInv

\* What is left of a batch without its first update.
LEMMA FirstOfBatch ==
  ASSUME TelegramInv, work \in {"handle", "count"}
  PROVE  /\ Head(batch) = batch[1] /\ batch[1] \in Updates
         /\ Tail(batch) \in Seq(Updates) /\ Len(Tail(batch)) \in Nat
         /\ Tail(batch) # <<>> =>
              Tail(batch)[1] = batch[1] + 1 /\ Consecutive(Tail(batch)) /\ ~webhook
<1>1. /\ batch \in Seq(Updates) /\ batch # <<>> /\ Len(batch) \in Nat
      /\ \A i \in 1..Len(batch) : batch[i] = batch[1] + i - 1
      /\ webhook => Len(batch) = 1 /\ batch[1] = confirmed
  BY DEF TelegramInv, TheBatch, Consecutive
<1>2. Len(batch) > 0 /\ batch[1] \in Updates /\ Head(batch) = batch[1]
  BY <1>1
<1>3. /\ Tail(batch) \in Seq(Updates) /\ Len(Tail(batch)) = Len(batch) - 1
      /\ \A i \in 1..Len(Tail(batch)) : Tail(batch)[i] = batch[i + 1]
  BY <1>1, HeadTailProperties
<1>4. \A i \in 1..Len(Tail(batch)) : Tail(batch)[i] = batch[1] + i
  BY <1>1, <1>2, <1>3 DEF Updates
<1>5. ASSUME Tail(batch) # <<>>
      PROVE  Tail(batch)[1] = batch[1] + 1 /\ Consecutive(Tail(batch)) /\ ~webhook
  <2>1. Len(Tail(batch)) > 0
    BY <1>3, <1>5
  <2>2. webhook => Len(batch) = 1
    BY <1>1
  <2>3. Tail(batch)[1] = batch[1] + 1 /\ ~webhook
    BY <2>1, <2>2, <1>1, <1>3, <1>4
  <2>4. \A i \in 1..Len(Tail(batch)) : Tail(batch)[i] = Tail(batch)[1] + i - 1
    <3>1. \A b, i \in Nat : b + i = b + 1 + i - 1
      OBVIOUS
    <3>2. batch[1] \in Nat /\ \A i \in 1..Len(Tail(batch)) : i \in Nat
      BY <1>2, <1>3 DEF Updates
    <3> QED BY <2>3, <1>4, <3>1, <3>2
  <2> QED BY <1>5, <2>3, <2>4 DEF Consecutive
<1> QED BY <1>1, <1>2, <1>3, <1>4, <1>5

\* process_event() takes the position back to the update it handles.
LEMMA HandleFirstInv ==
  ASSUME TelegramInv, HandleFirst
  PROVE  TelegramInv'
<1> DEFINE u == batch[1]
<1>1. u \in Updates /\ u \in Nat /\ u <= MaxUpdates /\ work = "handle" /\ Handle(u)
  BY FirstOfBatch, TelegramAssumption DEF HandleFirst, Updates
<1>2. /\ UNCHANGED <<webhook, linkUpVars, saved, offset, netVars, trouble, crashed, reloaded>>
      /\ eventId' = u /\ times' \in [Updates -> Nat]
      /\ times' = IF u \in Bad THEN times ELSE [times EXCEPT ![u] = @ + 1]
      /\ u \in Bad => batch' = <<>> /\ work' = "store"
      /\ u \notin Bad => batch' = batch /\ work' = "count"
  BY <1>1 DEF HandleFirst, Handle, SameLink, TelegramInv, TelegramTypes
<1>3. webhook => u = confirmed
  BY <1>1 DEF TelegramInv, TheBatch
<1>4. TelegramTypes'
  BY <1>1, <1>2, TelegramAssumption DEF TelegramInv, TelegramTypes, linkUpVars, netVars
<1>8. OneSource' /\ TheBatch'
  <2>1. CASE u \in Bad
    BY <1>1, <1>2, <2>1, EmptySeq DEF TelegramInv, OneSource, TheBatch, linkUpVars, netVars
  <2>2. CASE u \notin Bad
    BY <1>1, <1>2, <2>2 DEF TelegramInv, OneSource, TheBatch, linkUpVars, netVars
  <2> QED BY <2>1, <2>2
<1>9. ReadBack'
  BY <1>1, <1>2, <1>3 DEF TelegramInv, TelegramTypes, TheBatch, ReadBack, linkUpVars, netVars
<1>5. \A v \in Updates : /\ times[v] \in Nat
                         /\ v # u => times'[v] = times[v]
                         /\ times'[u] = IF u \in Bad THEN times[u] ELSE times[u] + 1
  BY <1>1, <1>2 DEF TelegramInv, TelegramTypes
<1>6. PassedIsHandled'
  BY <1>1, <1>2, <1>3, <1>5 DEF TelegramInv, PassedIsHandled, HandledBelow, Updates, netVars
<1>7. NewIsNew'
  BY <1>1, <1>2, <1>3, <1>5 DEF TelegramInv, NewIsNew, NewFrom, Updates, netVars
<1> QED BY <1>4, <1>6, <1>7, <1>8, <1>9 DEF TelegramInv

\* The position moves past the update that was handled.
LEMMA CountInv ==
  ASSUME TelegramInv, Count
  PROVE  TelegramInv'
<1> DEFINE u == batch[1]
<1>1. /\ u \in Nat /\ u <= MaxUpdates /\ work = "count" /\ eventId' = eventId + 1
      /\ batch' \in Seq(Updates)
      /\ batch' # <<>> => work' = "handle" /\ batch'[1] = u + 1 /\ ~webhook /\ Consecutive(batch')
      /\ batch' = <<>> => work' = "store"
  BY FirstOfBatch, TelegramAssumption, SMTT(30) DEF Count, Updates
<1>2. UNCHANGED <<webhook, linkUpVars, saved, offset, netVars, seenVars>>
  BY DEF Count, SameLink
<1>3. /\ eventId \in Nat /\ saved \in Nat /\ saved <= u /\ eventId <= u
      /\ webhook => u = confirmed /\ confirmed \in Updates
      /\ ~webhook => saved <= eventId
  BY <1>1 DEF TelegramInv, TelegramTypes, TheBatch, ReadBack, Updates
<1>4. TelegramTypes'
  BY <1>1, <1>2, <1>3, TelegramAssumption
  DEF TelegramInv, TelegramTypes, TheBatch, linkUpVars, netVars, seenVars
<1>5. TheBatch'
  BY <1>1, <1>2, <1>3 DEF TheBatch
<1>6. OneSource' /\ ReadBack'
  BY <1>1, <1>2, <1>3 DEF TelegramInv, TelegramTypes, OneSource, ReadBack, linkUpVars, netVars
<1>7. PassedIsHandled'
  <2>1. HandledBelow(eventId + 1)
    BY <1>1, PositionsMove DEF TelegramInv, TelegramTypes, TheBatch, PassedIsHandled
  <2>2. \A n : HandledBelow(n)' = HandledBelow(n)
    BY <1>2 DEF HandledBelow, seenVars
  <2> QED BY <1>1, <1>2, <1>3, <2>1, <2>2 DEF TelegramInv, PassedIsHandled, netVars
<1>8. NewIsNew'
  <2>1. \A n : NewFrom(n)' = NewFrom(n)
    BY <1>2 DEF NewFrom, seenVars
  <2> QED BY <1>1, <1>2, <1>3, <2>1 DEF TelegramInv, NewIsNew, netVars, seenVars
<1> QED BY <1>4, <1>5, <1>6, <1>7, <1>8 DEF TelegramInv

\* Every step keeps the invariant; poll() that fails may connect again.
LEMMA TelegramStepInv ==
  ASSUME TelegramInv, [TelegramNext]_telegramVars
  PROVE  TelegramInv'
<1>1. CASE Connect
  BY <1>1, ConnectKeeps DEF Connect, TelegramInv, TelegramTypes
<1>2. CASE PollFails
  <2>1. CASE connect
    BY <1>2, <2>1, ConnectKeeps DEF PollFails, TelegramInv, TelegramTypes
  <2>2. CASE UNCHANGED <<status, asked, reloaded, eventId>>
    <3>1. (TelegramTypes /\ OneSource /\ TheBatch /\ ReadBack)'
      BY <1>2, <2>2, TelegramAssumption
      DEF PollFails, Trouble, TelegramInv, TelegramTypes, OneSource, TheBatch, ReadBack, netVars
    <3>2. PassedIsHandled' /\ NewIsNew'
      BY <1>2, <2>2
      DEF PollFails, TelegramInv, PassedIsHandled, NewIsNew, HandledBelow, NewFrom, OneSource,
          netVars
    <3> QED BY <3>1, <3>2 DEF TelegramInv
  <2> QED BY <1>2, <2>1, <2>2 DEF PollFails
<1>3. CASE UNCHANGED telegramVars
  BY <1>3 DEF telegramVars, linkUpVars, workVars, netVars, seenVars, TelegramInv, TelegramTypes,
     OneSource, TheBatch, ReadBack, PassedIsHandled, NewIsNew, HandledBelow, NewFrom
<1> QED BY <1>1, <1>2, <1>3, LinkKeeps, WorkKeeps, AnsweredInv, HandleFirstInv, CountInv, CrashKeeps
        DEF TelegramNext, BotCalls, Answer, Worker

\* It holds at first: nothing has arrived.
LEMMA TelegramInitInv == TelegramInit => TelegramInv
<1> SUFFICES ASSUME TelegramInit PROVE TelegramInv
  OBVIOUS
<1>1. TelegramTypes
  <2>1. /\ 0 <= MaxUpdates + 1 /\ 1 <= MaxUpdates + 1 /\ 0 <= MaxUpdates /\ 0 <= MaxTrouble
    BY TelegramAssumption
  <2>2. [u \in Updates |-> 0] \in [Updates -> Nat]
    OBVIOUS
  <2>3. /\ eventId = 0 /\ saved = 0 /\ offset = 0 /\ confirmed = 1 /\ arrived = 0
        /\ asked = 0 /\ trouble = 0 /\ times \in [Updates -> Nat]
    BY <2>2 DEF TelegramInit
  <2>4. /\ webhook \in BOOLEAN /\ ticking = FALSE /\ closing = FALSE
        /\ hooked = FALSE /\ crashed = FALSE /\ reloaded = FALSE
        /\ status = "DISCONNECTED" /\ answer = "none" /\ work = "idle"
    BY DEF TelegramInit
  <2>5. /\ eventId \in Nat /\ saved \in Nat /\ offset \in Nat
        /\ confirmed \in Nat /\ arrived \in Nat
        /\ eventId <= MaxUpdates + 1 /\ saved <= MaxUpdates + 1 /\ offset <= MaxUpdates + 1
        /\ 1 <= confirmed /\ confirmed <= MaxUpdates + 1 /\ arrived <= MaxUpdates
        /\ asked \in Nat /\ trouble \in Nat /\ asked <= trouble /\ trouble <= MaxTrouble
    BY <2>1, <2>3
  <2>6. /\ webhook \in BOOLEAN /\ ticking \in BOOLEAN /\ closing \in BOOLEAN
        /\ hooked \in BOOLEAN /\ crashed \in BOOLEAN /\ reloaded \in BOOLEAN
        /\ status \in {"DISCONNECTED", "CONNECTING", "CONNECTED"}
        /\ answer \in {"none", "accepted", "refused"}
        /\ work \in {"idle", "asked", "handle", "count", "store"}
    BY <2>4
  <2> QED BY <2>3, <2>5, <2>6 DEF TelegramTypes
<1>2. OneSource /\ TheBatch /\ ReadBack
  BY EmptySeq DEF TelegramInit, OneSource, TheBatch, ReadBack
<1>3. PassedIsHandled /\ NewIsNew
  BY DEF TelegramInit, PassedIsHandled, NewIsNew, HandledBelow, NewFrom, Updates
<1> QED BY <1>1, <1>2, <1>3 DEF TelegramInv

\* The invariant of the position in the stream of updates.
LEMMA PositionInvariance == TelegramSpec => []TelegramInv
  BY TelegramInitInv, TelegramStepInv, PTL DEF TelegramSpec

\* An update that Telegram will not repeat was given to the bot, unless it throws; and
\* twice only after a crash, or when connect() read the position in a batch: for any
\* number of updates, of failures and of crashes.
THEOREM UpdatesHandledOnce == TelegramSpec => []HandledOnce
<1>1. TelegramInv => HandledOnce
  BY DEF TelegramInv, TelegramTypes, PassedIsHandled, HandledBelow, NewIsNew, HandledOnce
<1> QED BY <1>1, PositionInvariance, PTL

\* The counters stay within the bounds of the model, and everything else has its type.
THEOREM TelegramTypeCorrect == TelegramSpec => []TelegramTypeOK
<1>1. TelegramInv => TelegramTypeOK
  BY TypesImply DEF TelegramInv, TheBatch
<1> QED BY <1>1, PositionInvariance, PTL


-----------------------------------------------------------------------------
(* The life of the process (BotLife), and its lives (Launcher)             *)

\* Before run_bot() has started a connection, and once it has stopped the bot, nothing that
\* it starts runs; the bot's own services run only when each connection was started.  Only a
\* process that leaves main() by an exception reaches the destructors with connections that
\* run, and then it has stopped no service of the registry.
Parts == {"absent", "created", "started", "stopped"}
NoneOf(parts) == \A p \in DOMAIN parts : parts[p] # "started"
NoneRuns == NoneOf(conns) /\ NoneOf(own)

OneLife ==
  /\ pending <= queued
  /\ stage \in {"load", "services", "build", "start", "connect", "run"} => active
  /\ stage \in {"load", "services", "build", "start", "registry", "exit", "down"} => NoneRuns
  /\ stage \in {"finalize", "stop"} => active \/ NoneRuns
  /\ ~NoneOf(own) => AllStarted(conns)
  /\ (\E s \in Services : service[s] = "stopped") =>
       stage \in {"exit", "destroy", "down"} /\ NoneRuns
  /\ stage = "down" => NoneOf(service)

LifeInv == BotTypeOK /\ OneLife

\* What stop() leaves of the connections, or of the bot's own services.
LEMMA StoppedParts ==
  ASSUME NEW S, NEW parts \in [S -> Parts]
  PROVE  /\ Stopped(parts) \in [S -> Parts] /\ NoneOf(Stopped(parts)) /\ AllStarted(Stopped(parts))
         /\ \A p \in S : parts[p] # "created" => Stopped(parts)[p] # "created"
  BY DEF Stopped, NoneOf, AllStarted, Parts

LEMMA PartsAre == ASSUME LifeInv PROVE conns \in [Conns -> Parts] /\ own \in [Own -> Parts]
  BY DEF LifeInv, BotTypeOK, Parts

\* stop() leaves nothing running that was not stopped before.
LEMMA StopLeavesNone ==
  ASSUME LifeInv, stop
  PROVE  /\ conns' \in [Conns -> Parts] /\ own' \in [Own -> Parts] /\ active' = FALSE
         /\ active \/ NoneRuns => NoneRuns'
         /\ ~NoneOf(own') => AllStarted(conns')
<1>1. conns \in [Conns -> Parts] /\ own \in [Own -> Parts]
  BY PartsAre
<1>2. ~NoneOf(own) => AllStarted(conns)
  BY DEF LifeInv, OneLife
<1>3. CASE active
  <2>1. conns' = Stopped(conns) /\ own' = Stopped(own) /\ active' = FALSE
    BY <1>3 DEF stop
  <2> QED BY <1>1, <2>1, StoppedParts DEF NoneRuns
<1>4. CASE ~active
  BY <1>1, <1>2, <1>4 DEF stop, NoneRuns
<1> QED BY <1>3, <1>4

\* When it throws, the bot's own services run only if no connection was stopped.
LEMMA StopThrowsLeaves ==
  ASSUME LifeInv, StopThrows
  PROVE  /\ conns' \in [Conns -> Parts] /\ own' \in [Own -> Parts] /\ active' = FALSE
         /\ ~NoneOf(own') => AllStarted(conns')
<1>1. conns \in [Conns -> Parts] /\ own \in [Own -> Parts]
  BY PartsAre
<1>2. ~NoneOf(own) => AllStarted(conns)
  BY DEF LifeInv, OneLife
<1>3. PICK halted \in [Conns -> Parts] : halted = Stopped(conns)
  BY <1>1, StoppedParts
<1>4. PICK ended \in [Own -> Parts] : ended = Stopped(own)
  BY <1>1, StoppedParts
<1>5. AllStarted(halted) /\ \A c \in Conns : conns[c] # "created" => halted[c] # "created"
  BY <1>1, <1>3, StoppedParts
<1>6. CASE /\ \E some \in SUBSET Conns : conns' = [c \in Conns |-> IF c \in some THEN halted[c] ELSE conns[c]]
           /\ own' = own
  <2>1. conns' \in [Conns -> Parts]
    BY <1>1, <1>6
  <2>2. AllStarted(conns) => AllStarted(conns')
    BY <1>1, <1>5, <1>6 DEF AllStarted
  <2> QED BY <1>1, <1>2, <1>6, <2>1, <2>2 DEF StopThrows
<1>7. CASE /\ conns' = halted
           /\ \E some \in SUBSET Own : own' = [o \in Own |-> IF o \in some THEN ended[o] ELSE own[o]]
  <2>1. own' \in [Own -> Parts]
    BY <1>1, <1>7
  <2> QED BY <1>5, <1>7, <2>1 DEF StopThrows
<1> QED BY <1>3, <1>4, <1>6, <1>7 DEF StopThrows

\* The registry stops the services that it has started.
LEMMA StopServicesTyped ==
  ASSUME LifeInv, NEW ended \in SUBSET Services, StopServices(ended)
  PROVE  /\ service' \in [Services -> {"registered", "loaded", "started", "stopped"}]
         /\ ended = Services => NoneOf(service')
  BY DEF LifeInv, BotTypeOK, StopServices, NoneOf

\* A new process has none, either.
LEMMA NewProcessInv ==
  ASSUME stage' = NewProcess.stage, conns' = NewProcess.conns, own' = NewProcess.own,
         service' = NewProcess.service,
         handlers' = NewProcess.handlers, active' = NewProcess.active,
         pending' = NewProcess.pending, queued' = NewProcess.queued,
         exitCode' = NewProcess.exitCode, result' = NewProcess.result
  PROVE  LifeInv'
  BY BotAssumption DEF NewProcess, LifeInv, OneLife, NoneRuns, NoneOf, AllStarted, BotTypeOK, Stages

\* The first process.
LEMMA BotInitInv == BotInit => LifeInv
  BY BotAssumption DEF BotInit, NewProcess, LifeInv, OneLife, NoneRuns, NoneOf, AllStarted, BotTypeOK, Stages

LEMMA MessageTaken ==
  ASSUME LifeInv, TakeMessage, queued' = queued
  PROVE  pending' \in 0..MaxMessages /\ pending' <= queued' /\ queued' \in 0..MaxMessages
  BY BotAssumption DEF LifeInv, OneLife, BotTypeOK, TakeMessage

\* Every step of one life.
LEMMA BotStepInv ==
  ASSUME LifeInv, BotNext \/ UNCHANGED botVars
  PROVE  LifeInv'
<1> USE BotAssumption DEF LifeInv, OneLife, BotTypeOK, Stages, CaughtInMain, CaughtInRunBot, Goes
<1>1. CASE Load
  BY <1>1 DEF Load, NoneRuns
<1>2. CASE StartServices
  BY <1>2 DEF StartServices, NoneRuns
<1>3. CASE Build
  <2>1. conns \in [Conns -> Parts] /\ own \in [Own -> Parts] /\ NoneRuns
    BY <1>3, PartsAre DEF Build
  <2>2. /\ conns' \in [Conns -> Parts] /\ own' \in [Own -> Parts] /\ NoneRuns'
    BY <1>3, <2>1 DEF Build, Made, NoneRuns, NoneOf, Parts
  <2> QED BY <1>3, <2>2 DEF Build, Parts, NoneRuns
<1>4. CASE InitializeHandlers
  BY <1>4 DEF InitializeHandlers, NoneRuns
<1>5. ASSUME NEW c \in Conns, StartConnection(c) PROVE LifeInv'
  <2>1. ~NoneOf(own) => AllStarted(conns)
    OBVIOUS
  <2>2. NoneOf(own)
    BY <1>5, <2>1 DEF StartConnection, AllStarted
  <2> QED BY <1>5, <2>2 DEF StartConnection, Start, NoneRuns
<1>6. ASSUME NEW o \in Own, StartOwn(o) PROVE LifeInv'
  BY <1>6 DEF StartOwn, Start, NoneRuns
<1>7. ASSUME NEW c \in Conns, Message(c) PROVE LifeInv'
  BY <1>7 DEF Message, NoneRuns
<1>8. CASE HandleMessage \/ HandleError
  BY <1>8, MessageTaken DEF HandleMessage, HandleError, TakeMessage, NoneRuns
<1>9. CASE HandleException
  <2>1. pending' \in 0..MaxMessages /\ pending' <= queued' /\ queued' \in 0..MaxMessages
    BY <1>9, MessageTaken DEF HandleException
  <2>2. /\ conns' \in [Conns -> Parts] /\ own' \in [Own -> Parts] /\ active' \in BOOLEAN
        /\ ~NoneOf(own') => AllStarted(conns')
    BY <1>9, StopThrowsLeaves, PartsAre DEF HandleException
  <2> QED BY <1>9, <2>1, <2>2 DEF HandleException, TakeMessage, Parts
<1>10. CASE HandleQuit \/ HandleAbort
  <2>1. pending' \in 0..MaxMessages /\ pending' <= queued' /\ queued' \in 0..MaxMessages
    BY <1>10, MessageTaken DEF HandleQuit, HandleAbort
  <2> QED BY <1>10, <2>1, StopLeavesNone DEF HandleQuit, HandleAbort, TakeMessage, Parts
<1>11. CASE Finalize
  BY <1>11 DEF Finalize, NoneRuns
<1>12. CASE StopBot
  BY <1>12, StopLeavesNone, StopThrowsLeaves DEF StopBot, Parts
<1>13. CASE StopRegistry
  BY <1>13, StopServicesTyped DEF StopRegistry, NoneRuns
<1>14. CASE Exit
  BY <1>14 DEF Exit, NoneRuns
<1>15. CASE Destroy
  BY <1>15, PartsAre, StoppedParts, StopServicesTyped DEF Destroy, NoneRuns, Parts
<1>16. CASE UNCHANGED botVars
  BY <1>16 DEF botVars, NoneRuns
<1> QED BY <1>1, <1>2, <1>3, <1>4, <1>5, <1>6, <1>7, <1>8, <1>9, <1>10, <1>11, <1>12, <1>13,
           <1>14, <1>15, <1>16 DEF BotNext, Main

\* What the file of the action holds, and what the script has read in it, is what was asked
\* last while the process ran; melanobot_stop may have written in it since.
ScriptInv ==
  /\ ordered \in {"none", "loop", "restart", "quit"}
  /\ script \in {"wait", "remove", "loop", "over"}
  /\ script \in {"remove", "loop"} \/ (script = "over" /\ stopper # "done") => stage = "down"
  /\ script = "wait" => action = ordered
  /\ script = "remove" => read = ordered /\ ordered \in {"restart", "quit"}
  /\ script = "loop" => \/ ordered = "loop" /\ action \in {"loop", "quit"}
                        \/ ordered = "restart" /\ action \in {"none", "quit"}
  /\ script = "over" /\ stopper # "done" => ordered \in {"none", "quit"}

\* A process that is down takes no step.
LEMMA DownIsDown == ASSUME LifeInv, Bot, stage = "down" PROVE FALSE
<1>1. \A c \in Conns : conns[c] # "started"
  BY PartsAre DEF LifeInv, OneLife, NoneRuns, NoneOf
<1>2. ~Main /\ ~HandleQuit /\ ~PipeQuit
  BY DEF Main, HandleQuit, PipeQuit, Load, StartServices, Build, InitializeHandlers, StartConnection,
     StartOwn, HandleMessage, HandleAbort, HandleError, HandleException, TakeMessage, Finalize, StopBot,
     StopRegistry, Exit, Destroy
<1>3. \A c \in Conns : ~Message(c)
  BY <1>1 DEF Message
<1> QED BY <1>2, <1>3 DEF Bot, AdminQuit, MelanobotShRestart, MelanobotShQuit

\* Every step of the script, of melanobot_stop and of the commands it sends.
LEMMA LauncherStepInv ==
  ASSUME LifeInv, ScriptInv, LauncherNext \/ UNCHANGED launcherVars
  PROVE  LifeInv' /\ ScriptInv'
<1>1. CASE Bot
  <2>1. ASSUME PipeQuit PROVE LifeInv'
    <3>1. stage = "run" /\ active /\ stage' = "finalize" /\ UNCHANGED <<service, handlers, pending, queued>>
          /\ UNCHANGED <<exitCode, result>>
      BY <2>1 DEF PipeQuit, LifeInv, OneLife, Goes
    <3> QED BY <2>1, <3>1, StopLeavesNone DEF PipeQuit, LifeInv, OneLife, BotTypeOK, Stages, Parts, NoneRuns
  <2>2. ASSUME BotNext PROVE LifeInv'
    BY <2>2, BotStepInv
  <2>3. LifeInv'
    BY <1>1, <2>1, <2>2 DEF Bot, BotNext, AdminQuit, MelanobotShRestart, MelanobotShQuit
  <2>4. UNCHANGED <<script, read, stopper>> /\ stage # "down"
    BY <1>1, DownIsDown DEF Bot
  <2>5. \/ UNCHANGED <<action, ordered>>
        \/ action' = "restart" /\ ordered' = "restart"
        \/ action' = "quit" /\ ordered' = "quit"
    BY <1>1 DEF Bot, AdminQuit, MelanobotShRestart, MelanobotShQuit, PipeQuit, Asks
  <2> QED BY <2>3, <2>4, <2>5 DEF ScriptInv
<1>2. CASE ScriptRuns
  BY <1>2, NewProcessInv DEF ScriptRuns, ScriptInv
<1>3. CASE ScriptReads \/ ScriptRemoves \/ StopAction \/ StopCommand \/ StopNoPipe \/ StopLooks
           \/ UNCHANGED launcherVars
  <2>1. UNCHANGED botVars
    BY <1>3 DEF ScriptReads, ScriptRemoves, StopAction, StopCommand, StopNoPipe, StopLooks,
       launcherVars
  <2>2. LifeInv' /\ stage' = stage
    BY <2>1, BotStepInv DEF botVars
  <2>3. CASE ScriptReads
    BY <2>2, <2>3 DEF ScriptReads, ScriptInv
  <2>4. CASE ScriptRemoves
    BY <2>2, <2>4 DEF ScriptRemoves, ScriptInv
  <2>5. CASE StopAction
    BY <2>2, <2>5 DEF StopAction, ScriptInv
  <2>6. CASE StopCommand \/ StopNoPipe \/ StopLooks \/ UNCHANGED launcherVars
    BY <2>2, <2>6 DEF StopCommand, StopNoPipe, StopLooks, launcherVars, ScriptInv
  <2> QED BY <1>3, <2>3, <2>4, <2>5, <2>6
<1> QED BY <1>1, <1>2, <1>3 DEF LauncherNext

\* In every process the script starts, whatever melanobot_stop does beside it.
LEMMA LivesInvariance == LauncherSpec => [](LifeInv /\ ScriptInv)
<1>1. LauncherInit => LifeInv /\ ScriptInv
  BY BotInitInv DEF LauncherInit, ScriptInv
<1>2. LifeInv /\ ScriptInv /\ [LauncherNext]_launcherVars => LifeInv' /\ ScriptInv'
  BY LauncherStepInv
<1> QED BY <1>1, <1>2, PTL DEF LauncherSpec

\* However often the script starts it again, and whatever exception main() catches, a process
\* ends with nothing running, and stops no service of the registry before the last connection
\* and the last of the bot's own services; and the script starts it again only if that was
\* asked while it ran, or if it loops.
THEOREM ProcessEndsInOrder == LauncherSpec => []EndsInOrder
<1>1. LifeInv /\ ScriptInv => EndsInOrder
  <2> SUFFICES ASSUME LifeInv, ScriptInv PROVE EndsInOrder
    OBVIOUS
  <2>1. DOMAIN conns = Conns /\ DOMAIN own = Own /\ DOMAIN service = Services
    BY DEF LifeInv, BotTypeOK
  <2>2. NothingOutlives
    BY <2>1 DEF LifeInv, OneLife, NoneRuns, NoneOf, NothingOutlives
  <2>3. ScriptObeys
    BY DEF ScriptInv, ScriptObeys
  <2> QED BY <2>2, <2>3 DEF EndsInOrder
<1> QED BY <1>1, LivesInvariance, PTL

\* Everything in the life of a process has its type.
THEOREM BotTypeCorrect == LauncherSpec => []BotTypeOK
<1>1. LifeInv => BotTypeOK
  BY DEF LifeInv
<1> QED BY <1>1, LivesInvariance, PTL

-----------------------------------------------------------------------------
(* The events of a repository (GitHubFeed)                                 *)

\* The events that must be told of, and those that must not be told of twice.
Owed == DOMAIN events \ missable
Single == DOMAIN events \ repeatable
At(i) == events[i].at

Bodies == {"events", "unchanged", "error", "malformed"}

\* Everything has its type; there are no answers of the future, and nothing is told before
\* it happens.
FeedTypes ==
  /\ events \in Seq([type : Types, at : Nat]) /\ Len(events) \in 0..MaxEvents
  /\ \A i \in DOMAIN events : At(i) <= now
  /\ {etag, savedTag, seen} \subseteq 0..Len(events)
  /\ {lastPoll, currentPoll} \subseteq 0..now /\ savedPoll \in {0, lastPoll}
  /\ now \in Nat \ {0} /\ faults \in 0..MaxFaults /\ missable \subseteq Ids
  /\ repeatable \subseteq Ids
  /\ died \in BOOLEAN /\ overlapped \in BOOLEAN
  /\ requests \in Seq(0..Len(events))
  /\ \A r \in replies : r \in [stage : {"sent"}, body : Bodies, tag : 0..Len(events)]
  /\ \/ handling = NoReply
     \/ handling \in [stage : {"dispatch"}, body : Bodies, tag : 0..Len(events)]
     \/ handling \in [stage : {"tell"}, fresh : SUBSET (1..Len(events)), next : DOMAIN Listeners,
                      tag : 0..Len(events)]
  /\ announced \in [DOMAIN Listeners -> [Ids -> Nat]]
  /\ \A l \in DOMAIN Listeners : \A i \in Ids \ DOMAIN events : announced[l][i] = 0

\* One thing is on its way: what an answer holds happened before the end of the poll's second,
\* and what it does not hold happened after it.
Holds(tag) ==
  /\ \A i \in Single : i <= tag => At(i) <= currentPoll
  /\ \A i \in Owed : At(i) <= currentPoll => i <= tag

OnePoll ==
  /\ requests # <<>> =>
       /\ Len(requests) = 1 /\ replies = {} /\ handling = NoReply
       /\ \A i \in Single : At(i) <= currentPoll
  /\ \A r \in replies : replies = {r} /\ handling = NoReply /\ Holds(r.tag)
  /\ handling # NoReply => Holds(handling.tag)
  /\ requests # <<>> \/ replies # {} \/ handling # NoReply => currentPoll >= lastPoll /\ currentPoll > 0
  /\ handling.stage = "tell" => lastPoll = currentPoll /\ handling.fresh \subseteq 1..handling.tag

\* Still to be told by this listener; told of by it, or to be told.
ToBeTold(l, i) == handling.stage = "tell" /\ i \in handling.fresh /\ l >= handling.next
Reached(l, i) == announced[l][i] > 0 \/ ToBeTold(l, i)

\* What was told happened before the last poll, and was told once.
OnceTold ==
  \A l \in DOMAIN Listeners, i \in Single :
    /\ announced[l][i] <= 1
    /\ announced[l][i] > 0 => At(i) <= lastPoll /\ ~ToBeTold(l, i)

\* Of the events of its type a listener was told of those in the answers so far, and of those
\* before the last poll and in the answer being told, or it will be.
NoneLost ==
  \A l \in DOMAIN Listeners, i \in Owed :
    events[i].type = Listeners[l] =>
      /\ i <= seen => announced[l][i] > 0
      /\ At(i) <= lastPoll => Reached(l, i)
      /\ handling.stage = "tell" /\ i <= handling.tag => Reached(l, i)

FeedInv ==
  /\ FeedTypes
  /\ ~overlapped => OnePoll /\ OnceTold
  /\ ~overlapped /\ ~died => NoneLost

LEMMA FeedStart == FeedInit => FeedInv
<1> SUFFICES ASSUME FeedInit PROVE FeedInv
  OBVIOUS
<1>1. events = <<>> /\ requests = <<>> /\ Len(events) = 0 /\ DOMAIN events = {}
  BY DEF FeedInit
<1>2. <<>> \in Seq([type : Types, at : Nat]) /\ <<>> \in Seq(0..0)
  BY EmptySeq
<1>3. MaxEvents \in Nat /\ MaxTime \in Nat /\ MaxFaults \in Nat
  BY GitHubFeedAssumption
<1>4. /\ replies = {} /\ handling = NoReply /\ missable = {} /\ repeatable = {} /\ now = 1 /\ lastPoll = 1
      /\ etag = 0 /\ currentPoll = 0 /\ savedTag = 0 /\ savedPoll = 0 /\ seen = 0 /\ faults = 0
      /\ died = FALSE /\ overlapped = FALSE /\ announced = [l \in DOMAIN Listeners |-> [i \in Ids |-> 0]]
  BY DEF FeedInit
<1>5. FeedTypes
  <2>1. requests \in Seq(0..Len(events)) /\ events \in Seq([type : Types, at : Nat])
    BY <1>1, <1>2
  <2>2. {etag, savedTag, seen} \subseteq 0..Len(events) /\ Len(events) \in 0..MaxEvents
    BY <1>1, <1>3, <1>4
  <2>3. {lastPoll, currentPoll} \subseteq 0..now /\ savedPoll \in {0, lastPoll} /\ now \in Nat \ {0}
    BY <1>4
  <2>4. faults \in 0..MaxFaults /\ missable \subseteq Ids /\ repeatable \subseteq Ids
    BY <1>3, <1>4
  <2>6. died \in BOOLEAN /\ overlapped \in BOOLEAN
    BY <1>4
  <2>5. /\ announced \in [DOMAIN Listeners -> [Ids -> Nat]]
        /\ \A l \in DOMAIN Listeners : \A i \in Ids \ DOMAIN events : announced[l][i] = 0
    BY <1>4
  <2> QED BY <1>1, <1>4, <2>1, <2>2, <2>3, <2>4, <2>5, <2>6 DEF FeedTypes
<1>6. OnePoll /\ OnceTold /\ NoneLost
  BY <1>1, <1>4 DEF OnePoll, OnceTold, NoneLost, Owed, Single, NoReply
<1> QED BY <1>5, <1>6 DEF FeedInv

LEMMA EventsAre ==
  ASSUME FeedTypes
  PROVE  /\ Len(events) \in Nat /\ DOMAIN events = 1..Len(events) /\ DOMAIN events \subseteq Ids
         /\ \A i \in DOMAIN events : At(i) \in Nat /\ events[i].type \in Types
         /\ {now, lastPoll, currentPoll, savedPoll, seen, etag, savedTag} \subseteq Nat
         /\ DOMAIN Listeners = 1..Len(Listeners) /\ Len(Listeners) \in Nat \ {0}
<1>1. Len(events) \in Nat /\ DOMAIN events = 1..Len(events) /\ MaxEvents \in Nat /\ Len(events) <= MaxEvents
  BY GitHubFeedAssumption DEF FeedTypes
<1>2. DOMAIN events \subseteq Ids
  BY <1>1 DEF Ids
<1>3. \A i \in DOMAIN events : events[i] \in [type : Types, at : Nat]
  BY ElementOfSeq, <1>1 DEF FeedTypes
<1>4. {now, lastPoll, currentPoll, savedPoll, seen, etag, savedTag} \subseteq Nat
  BY <1>1 DEF FeedTypes
<1>5. DOMAIN Listeners = 1..Len(Listeners) /\ Len(Listeners) \in Nat \ {0}
  BY GitHubFeedAssumption, EmptySeq, LenProperties
<1> QED BY <1>1, <1>2, <1>3, <1>4, <1>5 DEF At

\* Steps that tell nothing.
LEMMA ToldStays ==
  ASSUME UNCHANGED <<events, lastPoll, announced, seen, repeatable, missable>>,
         \A l, i : ToBeTold(l, i)' <=> ToBeTold(l, i),
         handling'.stage = "tell" => handling' = handling
  PROVE  (OnceTold => OnceTold') /\ (NoneLost => NoneLost')
<1>1. Owed' = Owed /\ Single' = Single /\ \A i : At(i)' = At(i)
  BY DEF Owed, Single, At
<1>2. OnceTold => OnceTold'
  BY <1>1 DEF OnceTold
<1>3. \A l, i : Reached(l, i)' <=> Reached(l, i)
  BY DEF Reached
<1>4. NoneLost => NoneLost'
  BY <1>1, <1>3 DEF NoneLost
<1> QED BY <1>2, <1>4

LEMMA TickInv == ASSUME FeedInv, Tick PROVE FeedInv'
<1>1. UNCHANGED <<events, etag, lastPoll, currentPoll, savedTag, savedPoll, requests, replies, handling,
                  announced, seen, missable, repeatable, faults, died, overlapped>>
      /\ now < MaxTime /\ now' = now + 1
  BY DEF Tick, sourceVars, wireVars, tellVars
<1>0. FeedTypes
  BY DEF FeedInv
<1>4. now' \in Nat \ {0} /\ {lastPoll, currentPoll} \subseteq 0..now' /\ \A k \in Nat : k <= now => k <= now'
  <2>1. now \in Nat \ {0} /\ lastPoll \in 0..now /\ currentPoll \in 0..now
    BY <1>0 DEF FeedTypes
  <2>2. now + 1 \in Nat \ {0} /\ lastPoll \in 0..(now + 1) /\ currentPoll \in 0..(now + 1)
        /\ \A k \in Nat : k <= now => k <= now + 1
    BY <2>1
  <2>3. now' = now + 1
    BY <1>1
  <2> QED BY <2>2, <2>3
<1>5. \A i \in DOMAIN events : At(i)' <= now'
  BY <1>0, <1>1, <1>4, EventsAre DEF FeedTypes, At
<1>2. FeedTypes'
  BY <1>0, <1>1, <1>4, <1>5 DEF FeedTypes
<1>3. OnePoll' = OnePoll /\ OnceTold' = OnceTold /\ NoneLost' = NoneLost
  BY <1>1 DEF OnePoll, OnceTold, NoneLost, Reached, Holds, Owed, Single, At, ToBeTold
<1> QED BY <1>1, <1>2, <1>3 DEF FeedInv

LEMMA PollInv == ASSUME FeedInv, PollEvents PROVE FeedInv'
<1>1. /\ UNCHANGED <<etag, lastPoll, savedTag, savedPoll, events, now, replies, handling, announced,
                      seen, missable, repeatable, faults, died>>
      /\ requests' = Append(requests, etag) /\ currentPoll' = now
      /\ overlapped' = (overlapped \/ requests # <<>> \/ replies # {} \/ handling # NoReply)
  BY DEF PollEvents, hubVars, tellVars
<1>0. FeedTypes
  BY DEF FeedInv
<1>2. etag \in 0..Len(events) /\ requests \in Seq(0..Len(events))
  BY <1>0 DEF FeedTypes
<1>3. requests' \in Seq(0..Len(events)) /\ requests' # <<>> /\ (requests = <<>> => Len(requests') = 1)
  <2> DEFINE n == 0..Len(events)
  <2>1. etag \in n /\ requests \in Seq(n)
    BY <1>2
  <2> HIDE DEF n
  <2>2. Append(requests, etag) \in Seq(n) /\ Len(Append(requests, etag)) = Len(requests) + 1
    BY <2>1, AppendProperties
  <2>3. Len(requests) \in Nat /\ (requests = <<>> => Len(requests) = 0)
    BY <2>1, EmptySeq, LenProperties
  <2>4. Len(Append(requests, etag)) # 0
    BY <2>2, <2>3
  <2>5. Append(requests, etag) # <<>>
    BY <2>4, EmptySeq
  <2> QED BY <1>1, <2>2, <2>3, <2>5 DEF n
<1>4. FeedTypes'
  <2>2. overlapped' \in BOOLEAN
    BY <1>1
  <2>3. currentPoll' \in 0..now
    BY <1>0, <1>1, EventsAre DEF FeedTypes
  <2> QED BY <1>0, <1>1, <1>3, <2>2, <2>3 DEF FeedTypes, At
<1>5. (OnceTold => OnceTold') /\ (NoneLost => NoneLost')
  BY <1>1, ToldStays DEF ToBeTold
<1>6. ~overlapped' => OnePoll'
  <2> SUFFICES ASSUME ~overlapped' PROVE OnePoll'
    OBVIOUS
  <2>1. requests = <<>> /\ replies = {} /\ handling = NoReply
    BY <1>1
  <2>2. \A i \in Single' : At(i)' <= currentPoll'
    <3>1. \A i \in Single' : i \in DOMAIN events /\ At(i)' = At(i)
      BY <1>1 DEF Single, At
    <3>2. \A i \in DOMAIN events : At(i) <= now
      BY <1>0 DEF FeedTypes
    <3> QED BY <1>1, <3>1, <3>2
  <2>3. currentPoll' >= lastPoll' /\ currentPoll' > 0
    BY <1>0, <1>1, EventsAre DEF FeedTypes
  <2> QED BY <1>1, <1>3, <2>1, <2>2, <2>3 DEF OnePoll, NoReply
<1> QED BY <1>1, <1>4, <1>5, <1>6 DEF FeedInv

LEMMA HubInv == ASSUME FeedInv, NEW body \in Bodies, HubAnswers(body) PROVE FeedInv'
<1>r. PICK r : r = [stage |-> "sent", body |-> body, tag |-> Len(events)]
  OBVIOUS
<1>1. /\ UNCHANGED <<etag, lastPoll, currentPoll, savedTag, savedPoll, events, now, handling, announced,
                      seen, missable, repeatable, died, overlapped>>
      /\ requests # <<>> /\ requests' = Tail(requests) /\ replies' = replies \cup {r}
  BY <1>r DEF HubAnswers, sourceVars, hubVars, tellVars
<1>0. FeedTypes
  BY DEF FeedInv
<1>2. faults' \in 0..MaxFaults
  <2>1. faults' = faults \/ (faults < MaxFaults /\ faults' = faults + 1)
    BY DEF HubAnswers
  <2>2. faults \in 0..MaxFaults /\ MaxFaults \in Nat
    BY <1>0, GitHubFeedAssumption DEF FeedTypes
  <2> QED BY <2>1, <2>2
<1>3. requests' \in Seq(0..Len(events)) /\ (Len(requests) = 1 => requests' = <<>>)
  <2> DEFINE n == 0..Len(events)
  <2>1. requests \in Seq(n) /\ requests # <<>>
    BY <1>0, <1>1 DEF FeedTypes
  <2> HIDE DEF n
  <2>2. Tail(requests) \in Seq(n) /\ Len(Tail(requests)) = Len(requests) - 1
    BY <2>1, HeadTailProperties
  <2>3. Len(requests) = 1 => Len(Tail(requests)) = 0
    BY <2>2
  <2>4. Len(requests) = 1 => Tail(requests) = <<>>
    BY <2>2, <2>3, EmptySeq
  <2> QED BY <1>1, <2>2, <2>4 DEF n
<1>4. r \in [stage : {"sent"}, body : Bodies, tag : 0..Len(events)] /\ r.tag = Len(events)
  BY <1>0, <1>r, EventsAre
<1>5. FeedTypes'
  BY <1>0, <1>1, <1>2, <1>3, <1>4 DEF FeedTypes, At
<1>6. (OnceTold => OnceTold') /\ (NoneLost => NoneLost')
  BY <1>1, ToldStays DEF ToBeTold
<1>7. OnePoll => OnePoll'
  <2> SUFFICES ASSUME OnePoll PROVE OnePoll'
    OBVIOUS
  <2>1. /\ Len(requests) = 1 /\ replies = {} /\ handling = NoReply
        /\ \A i \in Single : At(i) <= currentPoll
        /\ currentPoll >= lastPoll /\ currentPoll > 0
    BY <1>1 DEF OnePoll
  <2>2. Owed' = Owed /\ Single' = Single /\ \A i : At(i)' = At(i)
    BY <1>1 DEF Owed, Single, At
  <2>3. \A i \in Owed : i <= r.tag
    BY <1>0, <1>4, EventsAre DEF Owed
  <2>4. Holds(r.tag)'
    <3>1. currentPoll' = currentPoll
      BY <1>1
    <3> QED BY <2>1, <2>2, <2>3, <3>1 DEF Holds
  <2>5. replies' = {r} /\ requests' = <<>> /\ handling' = NoReply
    BY <1>1, <1>3, <2>1
  <2>6. currentPoll' = currentPoll /\ lastPoll' = lastPoll /\ handling'.stage # "tell"
    BY <1>1, <2>5 DEF NoReply
  <2> QED BY <2>1, <2>4, <2>5, <2>6 DEF OnePoll
<1> QED BY <1>1, <1>5, <1>6, <1>7 DEF FeedInv

LEMMA StoreTagInv == ASSUME FeedInv, NEW reply \in replies, StoreTag(reply) PROVE FeedInv'
<1>h. PICK h : h = [reply EXCEPT !.stage = "dispatch"]
  OBVIOUS
<1>1. /\ UNCHANGED <<lastPoll, currentPoll, savedPoll, events, now, requests, announced, seen, missable,
                      repeatable, faults, died, overlapped>>
      /\ handling = NoReply /\ replies' = replies \ {reply} /\ handling' = h
      /\ etag' \in {etag, reply.tag} /\ savedTag' \in {savedTag, reply.tag}
  BY <1>h DEF StoreTag, hubVars, tellVars
<1>0. FeedTypes
  BY DEF FeedInv
<1>2. reply \in [stage : {"sent"}, body : Bodies, tag : 0..Len(events)]
  BY <1>0 DEF FeedTypes
<1>3. /\ h \in [stage : {"dispatch"}, body : Bodies, tag : 0..Len(events)]
      /\ h.tag = reply.tag /\ h.stage = "dispatch"
  BY <1>2, <1>h
<1>4. {etag', savedTag'} \subseteq 0..Len(events)
  BY <1>0, <1>1, <1>2 DEF FeedTypes
<1>5. FeedTypes'
  BY <1>0, <1>1, <1>3, <1>4 DEF FeedTypes, At
<1>6. (OnceTold => OnceTold') /\ (NoneLost => NoneLost')
  <2>1. \A l, i : ToBeTold(l, i)' <=> ToBeTold(l, i)
    BY <1>1, <1>3 DEF ToBeTold, NoReply
  <2>2. handling'.stage # "tell"
    BY <1>1, <1>3
  <2> QED BY <1>1, <2>1, <2>2, ToldStays
<1>7. OnePoll => OnePoll'
  <2> SUFFICES ASSUME OnePoll PROVE OnePoll'
    OBVIOUS
  <2>1. replies = {reply} /\ Holds(reply.tag) /\ requests = <<>> /\ currentPoll >= lastPoll /\ currentPoll > 0
    BY DEF OnePoll
  <2>2. Holds(h.tag)'
    BY <1>1, <1>3, <2>1 DEF Holds, Owed, Single, At
  <2> QED BY <1>1, <1>3, <2>1, <2>2 DEF OnePoll
<1> QED BY <1>1, <1>5, <1>6, <1>7 DEF FeedInv

LEMMA HappensInv == ASSUME FeedInv, NEW type \in Types, Happens(type) PROVE FeedInv'
<1> DEFINE e == [type |-> type, at |-> now]
<1>n. PICK n : n = Len(events) + 1
  OBVIOUS
<1>0. FeedTypes
  BY DEF FeedInv
<1>1. /\ UNCHANGED <<etag, lastPoll, currentPoll, savedTag, savedPoll, now, requests, replies, handling,
                      announced, seen, faults, died, overlapped>>
      /\ Len(events) < MaxEvents /\ events' = Append(events, e)
  BY DEF Happens, sourceVars, wireVars
<1>2. Len(events) \in Nat /\ MaxEvents \in Nat /\ e \in [type : Types, at : Nat] /\ e.at = now
  BY <1>0, EventsAre, GitHubFeedAssumption
<1> HIDE DEF e
<1>3. /\ events' \in Seq([type : Types, at : Nat]) /\ Len(events') = n /\ events'[n] = e
      /\ \A i \in 1..Len(events) : events'[i] = events[i]
  <2>1. events \in Seq([type : Types, at : Nat])
    BY <1>0 DEF FeedTypes
  <2> QED BY <1>1, <1>2, <1>n, <2>1, AppendProperties
<1>4. /\ DOMAIN events' = DOMAIN events \cup {n} /\ n \notin DOMAIN events /\ n \in Ids
      /\ At(n)' = now /\ \A i \in DOMAIN events : At(i)' = At(i) /\ events'[i] = events[i]
      /\ n \in 0..MaxEvents /\ 0..Len(events) \subseteq 0..n /\ 1..Len(events) \subseteq 1..n
  <2>1. DOMAIN events' = 1..n /\ DOMAIN events = 1..Len(events)
    BY <1>0, <1>3, EventsAre
  <2>2. n \in 0..MaxEvents /\ 0..Len(events) \subseteq 0..n /\ 1..Len(events) \subseteq 1..n
        /\ 1..n = 1..Len(events) \cup {n} /\ n \notin 1..Len(events) /\ n \in 1..MaxEvents
    BY <1>1, <1>2, <1>n
  <2>3. At(n)' = now /\ \A i \in 1..Len(events) : At(i)' = At(i)
    BY <1>2, <1>3 DEF At
  <2> QED BY <1>3, <2>1, <2>2, <2>3 DEF Ids
<1>5. /\ missable' = IF now = lastPoll \/ (now = currentPoll /\ (replies # {} \/ handling # NoReply))
                     THEN missable \cup {n} ELSE missable
      /\ repeatable' = IF requests # <<>> /\ now # currentPoll THEN repeatable \cup {n} ELSE repeatable
  BY <1>3 DEF Happens
<1>6. /\ Owed' \subseteq Owed \cup {n} /\ Single' \subseteq Single \cup {n}
      /\ n \in Owed' => now # lastPoll /\ (replies # {} \/ handling # NoReply => now # currentPoll)
      /\ n \in Single' => requests = <<>> \/ now = currentPoll
  BY <1>4, <1>5 DEF Owed, Single
<1>7. now \in Nat /\ currentPoll \in Nat /\ lastPoll \in Nat /\ currentPoll <= now /\ lastPoll <= now
  BY <1>0, EventsAre DEF FeedTypes
<1>8. FeedTypes'
  <2>1. missable' \subseteq Ids /\ repeatable' \subseteq Ids
    BY <1>0, <1>4, <1>5 DEF FeedTypes
  <2>2. requests' \in Seq(0..Len(events'))
    <3>1. requests \in Seq(0..Len(events)) /\ 0..Len(events) \subseteq 0..Len(events')
      BY <1>0, <1>3, <1>4 DEF FeedTypes
    <3> QED BY <1>1, <3>1
  <2>3. \A r \in replies' : r \in [stage : {"sent"}, body : Bodies, tag : 0..Len(events')]
    BY <1>0, <1>1, <1>3, <1>4 DEF FeedTypes
  <2>4. \/ handling' = NoReply
        \/ handling' \in [stage : {"dispatch"}, body : Bodies, tag : 0..Len(events')]
        \/ handling' \in [stage : {"tell"}, fresh : SUBSET (1..Len(events')), next : DOMAIN Listeners,
                          tag : 0..Len(events')]
    BY <1>0, <1>1, <1>3, <1>4 DEF FeedTypes
  <2>5. {etag', savedTag', seen'} \subseteq 0..Len(events')
    BY <1>0, <1>1, <1>3, <1>4 DEF FeedTypes
  <2>6. \A l \in DOMAIN Listeners : \A i \in Ids \ DOMAIN events' : announced'[l][i] = 0
    BY <1>0, <1>1, <1>4 DEF FeedTypes
  <2>7. \A i \in DOMAIN events' : At(i)' <= now'
    <3>1. \A i \in DOMAIN events : At(i) <= now
      BY <1>0 DEF FeedTypes
    <3>2. now <= now /\ now' = now
      BY <1>1, <1>7
    <3> QED BY <1>4, <3>1, <3>2
  <2>8. Len(events') \in 0..MaxEvents
    BY <1>3, <1>4
  <2> QED BY <1>0, <1>1, <1>3, <2>1, <2>2, <2>3, <2>4, <2>5, <2>6, <2>7, <2>8 DEF FeedTypes
<1>9. \A i \in Owed \cup Single : i \in DOMAIN events /\ i # n /\ At(i)' = At(i) /\ events'[i] = events[i]
  BY <1>4 DEF Owed, Single
<1>10. n \in Nat /\ n > Len(events)
  BY <1>2, <1>n
<1>11. OnePoll => OnePoll'
  <2> SUFFICES ASSUME OnePoll PROVE OnePoll'
    OBVIOUS
  <2>1. ASSUME NEW tag \in 0..Len(events), Holds(tag), replies # {} \/ handling # NoReply PROVE Holds(tag)'
    <3>1. ~(n <= tag) /\ (n \in Owed' => ~(now <= currentPoll))
      BY <1>2, <1>6, <1>7, <1>10, <2>1
    <3>2. currentPoll' = currentPoll
      BY <1>1
    <3>3. \A i \in Single' : i <= tag => At(i)' <= currentPoll'
      BY <1>6, <1>9, <2>1, <3>1, <3>2 DEF Holds
    <3>4. \A i \in Owed' : At(i)' <= currentPoll' => i <= tag
      <4>1. \A i \in Owed : At(i)' <= currentPoll' => i <= tag
        BY <1>9, <2>1, <3>2 DEF Holds
      <4>2. n \in Owed' => ~(At(n)' <= currentPoll')
        BY <1>4, <3>1, <3>2
      <4> QED BY <1>6, <4>1, <4>2
    <3> QED BY <3>3, <3>4 DEF Holds
  <2>2. requests # <<>> => \A i \in Single' : At(i)' <= currentPoll'
    <3> SUFFICES ASSUME requests # <<>>, NEW i \in Single' PROVE At(i)' <= currentPoll'
      OBVIOUS
    <3>1. CASE i = n
      <4>1. now = currentPoll
        BY <1>6, <3>1
      <4>2. At(n)' = now /\ currentPoll' = currentPoll /\ now <= now
        BY <1>1, <1>4, <1>7
      <4> QED BY <3>1, <4>1, <4>2
    <3>2. CASE i # n
      <4>1. i \in Single
        BY <1>6, <3>2
      <4> QED BY <1>1, <1>9, <4>1 DEF OnePoll
    <3> QED BY <3>1, <3>2
  <2>3. \A r \in replies : r.tag \in 0..Len(events) /\ Holds(r.tag)
    BY <1>0 DEF FeedTypes, OnePoll
  <2>4. handling # NoReply => handling.tag \in 0..Len(events) /\ Holds(handling.tag)
    BY <1>0 DEF FeedTypes, OnePoll
  <2>5. (\A r \in replies : Holds(r.tag)') /\ (handling # NoReply => Holds(handling.tag)')
    BY <1>1, <2>1, <2>3, <2>4
  <2>6. handling' # NoReply => Holds(handling.tag)'
    BY <1>1, <2>5
  <2> QED BY <1>1, <2>2, <2>5, <2>6 DEF OnePoll
<1>12. \A l, i : (ToBeTold(l, i)' <=> ToBeTold(l, i)) /\ (Reached(l, i)' <=> Reached(l, i))
  BY <1>1 DEF ToBeTold, Reached
<1>13. OnceTold => OnceTold'
  <2>1. \A l \in DOMAIN Listeners : announced[l][n] = 0
    BY <1>0, <1>4 DEF FeedTypes
  <2> QED BY <1>1, <1>6, <1>9, <1>12, <2>1 DEF OnceTold
<1>14. NoneLost => NoneLost'
  <2>1. ~(n <= seen) /\ (n \in Owed' => ~(now <= lastPoll))
    BY <1>0, <1>2, <1>6, <1>7, <1>10 DEF FeedTypes
  <2>2. handling.stage = "tell" => ~(n <= handling.tag)
    <3>1. handling.stage = "tell" => handling.tag \in 0..Len(events)
      BY <1>0 DEF FeedTypes, NoReply
    <3> QED BY <1>2, <1>10, <3>1
  <2>3. UNCHANGED <<seen, lastPoll, announced, handling>>
    BY <1>1
  <2>4. n \in Owed' => ~(n <= seen') /\ ~(At(n)' <= lastPoll') /\ (handling'.stage = "tell" => ~(n <= handling'.tag))
    BY <1>4, <2>1, <2>2, <2>3
  <2> QED BY <1>6, <1>9, <1>12, <2>3, <2>4 DEF NoneLost
<1> QED BY <1>1, <1>8, <1>11, <1>13, <1>14 DEF FeedInv

\* The time of the last poll moves on: what happened between the two polls is in the answer,
\* so it is told, or was seen before.
LEMMA DispatchInv == ASSUME FeedInv, Dispatch PROVE FeedInv'
<1>0. FeedTypes /\ handling.stage = "dispatch"
  BY DEF FeedInv, Dispatch
<1>1. UNCHANGED <<etag, currentPoll, savedTag, events, now, requests, replies, announced, seen,
                  repeatable, faults, died, overlapped>>
  BY DEF Dispatch, hubVars
<1>2. handling # NoReply /\ handling \in [stage : {"dispatch"}, body : Bodies, tag : 0..Len(events)]
  BY <1>0 DEF FeedTypes, NoReply
<1>3. PICK tag \in 0..Len(events) : tag = handling.tag
  BY <1>2
<1>4. OnePoll => Holds(tag) /\ requests = <<>> /\ replies = {} /\ currentPoll >= lastPoll /\ currentPoll > 0
  BY <1>2, <1>3 DEF OnePoll
<1>5. \A l, i : ~ToBeTold(l, i)
  BY <1>0 DEF ToBeTold
<1>6. CASE handling' = NoReply /\ UNCHANGED <<lastPoll, savedPoll, missable>>
  <2>1. FeedTypes'
    BY <1>0, <1>1, <1>6 DEF FeedTypes, At
  <2>2. OnePoll => OnePoll'
    BY <1>1, <1>4, <1>6 DEF OnePoll, NoReply
  <2>3. handling'.stage # "tell" /\ \A l, i : ~ToBeTold(l, i)'
    BY <1>6 DEF ToBeTold, NoReply
  <2>4. (OnceTold => OnceTold') /\ (NoneLost => NoneLost')
    BY <1>1, <1>5, <1>6, <2>3, ToldStays
  <2> QED BY <1>1, <2>1, <2>2, <2>4 DEF FeedInv
<1>7. CASE /\ lastPoll' = currentPoll /\ savedPoll' = currentPoll
           /\ handling' = NoReply /\ missable' = missable \cup (seen + 1)..tag
  <2>1. seen \in Nat /\ tag \in Nat /\ tag <= Len(events) /\ DOMAIN events = 1..Len(events)
        /\ (seen + 1)..tag \subseteq Ids
    BY <1>0, EventsAre
  <2>2. FeedTypes'
    <3>1. missable' \subseteq Ids
      BY <1>0, <1>7, <2>1 DEF FeedTypes
    <3> QED BY <1>0, <1>1, <1>7, <3>1 DEF FeedTypes, At
  <2>3. /\ Owed' \subseteq Owed /\ Single' = Single /\ \A i : At(i)' = At(i)
        /\ \A i \in Owed' : i <= tag => i <= seen
    BY <1>1, <1>7, <2>1 DEF Owed, Single, At
  <2>4. OnePoll => OnePoll'
    BY <1>1, <1>4, <1>7 DEF OnePoll, NoReply
  <2>5. handling'.stage # "tell" /\ \A l, i : ~ToBeTold(l, i)'
    BY <1>7 DEF ToBeTold, NoReply
  <2>6. OnePoll => \A i \in Single : At(i) <= lastPoll => At(i) <= currentPoll
    <3>1. \A i \in Single : At(i) \in Nat /\ currentPoll \in Nat /\ lastPoll \in Nat
      BY <1>0, EventsAre DEF Single
    <3> QED BY <1>4, <3>1
  <2>7. OnePoll /\ OnceTold => OnceTold'
    BY <1>1, <1>7, <2>3, <2>5, <2>6 DEF OnceTold
  <2>8. OnePoll /\ NoneLost => NoneLost'
    <3> SUFFICES ASSUME OnePoll, NoneLost, NEW l \in DOMAIN Listeners, NEW i \in Owed',
                        events'[i].type = Listeners[l]
                 PROVE  /\ i <= seen' => announced'[l][i] > 0
                        /\ At(i)' <= lastPoll' => Reached(l, i)'
      BY <2>5 DEF NoneLost
    <3>1. i \in Owed /\ events[i].type = Listeners[l] /\ (i <= seen => announced[l][i] > 0)
      BY <1>1, <2>3 DEF NoneLost
    <3>2. At(i)' <= lastPoll' => i <= seen
      BY <1>4, <1>7, <2>3, <3>1 DEF Holds
    <3> QED BY <1>1, <3>1, <3>2 DEF Reached
  <2> QED BY <1>1, <2>2, <2>4, <2>7, <2>8 DEF FeedInv
<1>8. CASE /\ lastPoll' = currentPoll /\ savedPoll' = currentPoll /\ missable' = missable
           /\ handling' = [stage |-> "tell", fresh |-> Fresh, next |-> 1, tag |-> tag]
  <2>1. PICK fresh : fresh = Fresh
    OBVIOUS
  <2>2. fresh = {i \in 1..tag : At(i) > lastPoll}
    BY <1>3, <2>1 DEF Fresh, At
  <2>3. tag \in Nat /\ tag <= Len(events) /\ DOMAIN events = 1..Len(events) /\ fresh \subseteq 1..Len(events)
        /\ 1 \in DOMAIN Listeners /\ \A l \in DOMAIN Listeners : l >= 1
    BY <1>0, <2>2, EventsAre
  <2>4. /\ handling' = [stage |-> "tell", fresh |-> fresh, next |-> 1, tag |-> tag]
        /\ handling' \in [stage : {"tell"}, fresh : SUBSET (1..Len(events)), next : DOMAIN Listeners,
                          tag : 0..Len(events)]
    BY <1>8, <2>1, <2>3
  <2>5. FeedTypes'
    BY <1>0, <1>1, <1>8, <2>4 DEF FeedTypes, At
  <2>6. Owed' = Owed /\ Single' = Single /\ \A i : At(i)' = At(i)
    BY <1>1, <1>8 DEF Owed, Single, At
  <2>7. OnePoll => OnePoll'
    <3>1. Holds(tag) => Holds(tag)'
      BY <1>1, <2>6 DEF Holds
    <3>2. handling'.tag = tag
      BY <2>4
    <3>3. Holds(tag)' => Holds(handling.tag)'
      BY <3>2 DEF Holds
    <3>4. currentPoll' >= currentPoll'
      BY <1>0, <1>1, EventsAre
    <3>5. handling'.fresh \subseteq 1..handling'.tag
      BY <2>2, <2>4
    <3> QED BY <1>1, <1>4, <1>8, <3>1, <3>3, <3>4, <3>5 DEF OnePoll
  <2>8. \A l \in DOMAIN Listeners : \A i : ToBeTold(l, i)' <=> i \in fresh
    BY <2>3, <2>4 DEF ToBeTold
  <2>9. \A i \in DOMAIN events : At(i) \in Nat /\ currentPoll \in Nat /\ lastPoll \in Nat
    BY <1>0, EventsAre
  <2>10. OnePoll => \A i \in Single : At(i) <= lastPoll => At(i) <= currentPoll /\ i \notin fresh
    <3>1. \A i \in Single : i \in DOMAIN events
      BY DEF Single
    <3> QED BY <1>4, <2>2, <2>9, <3>1
  <2>11. OnePoll /\ OnceTold => OnceTold'
    BY <1>1, <1>8, <2>6, <2>8, <2>10 DEF OnceTold
  <2>12. OnePoll /\ NoneLost => NoneLost'
    <3> SUFFICES ASSUME OnePoll, NoneLost, NEW l \in DOMAIN Listeners, NEW i \in Owed,
                        events[i].type = Listeners[l]
                 PROVE  /\ i <= seen => announced[l][i] > 0
                        /\ At(i) <= currentPoll => Reached(l, i)'
                        /\ i <= tag => Reached(l, i)'
      <4>1. handling'.tag = tag /\ lastPoll' = currentPoll /\ UNCHANGED <<events, seen, announced>>
        BY <1>1, <1>8, <2>4
      <4> QED BY <2>6, <4>1 DEF NoneLost
    <3>1. (i <= seen => announced[l][i] > 0) /\ (At(i) <= lastPoll => Reached(l, i))
      BY DEF NoneLost
    <3>2. i \in DOMAIN events
      BY DEF Owed
    <3>3. i <= tag => At(i) <= lastPoll \/ i \in fresh
      BY <2>2, <2>3, <2>9, <3>2
    <3>4. At(i) <= lastPoll => announced'[l][i] > 0
      BY <1>1, <1>5, <3>1 DEF Reached
    <3>5. i <= tag => Reached(l, i)'
      BY <2>8, <3>3, <3>4 DEF Reached
    <3>6. At(i) <= currentPoll => i <= tag
      BY <1>4 DEF Holds
    <3> QED BY <3>1, <3>5, <3>6
  <2> QED BY <1>1, <2>5, <2>7, <2>11, <2>12 DEF FeedInv
<1> QED BY <1>3, <1>6, <1>7, <1>8 DEF Dispatch

\* Each listener tells of what is fresh and of its type, or excuses what is over its limit.
LEMMA TellInv == ASSUME FeedInv, Tell PROVE FeedInv'
<1>0. FeedTypes /\ handling.stage = "tell"
  BY DEF FeedInv, Tell
<1>1. UNCHANGED <<etag, lastPoll, currentPoll, savedTag, savedPoll, events, now, requests, replies,
                  repeatable, faults, died, overlapped>>
  BY DEF Tell, sourceVars, hubVars
<1>2. /\ handling # NoReply
      /\ handling \in [stage : {"tell"}, fresh : SUBSET (1..Len(events)), next : DOMAIN Listeners,
                       tag : 0..Len(events)]
  BY <1>0 DEF FeedTypes, NoReply
<1>3. PICK l \in DOMAIN Listeners, fresh \in SUBSET (1..Len(events)), tag \in 0..Len(events) :
        l = handling.next /\ fresh = handling.fresh /\ tag = handling.tag
  BY <1>2
<1>4. PICK its : its = {i \in fresh : events[i].type = Listeners[l]}
  OBVIOUS
<1>5. PICK said : said = Told(Listeners[l])
  OBVIOUS
<1>6. said \subseteq its /\ its \subseteq fresh /\ fresh \subseteq Ids /\ fresh \subseteq DOMAIN events
  BY <1>0, <1>3, <1>4, <1>5, EventsAre DEF Told
<1>7. /\ missable' = missable \cup (its \ said)
      /\ announced' = [announced EXCEPT ![l] = [i \in Ids |-> IF i \in said THEN @[i] + 1 ELSE @[i]]]
  BY <1>3, <1>4, <1>5 DEF Tell
<1>8. /\ announced' \in [DOMAIN Listeners -> [Ids -> Nat]]
      /\ \A k \in DOMAIN Listeners : \A i \in Ids :
           announced'[k][i] = IF k = l /\ i \in said THEN announced[k][i] + 1 ELSE announced[k][i]
  BY <1>0, <1>7 DEF FeedTypes
<1>9. Len(Listeners) \in Nat /\ DOMAIN Listeners = 1..Len(Listeners) /\ l \in Nat
  BY <1>0, EventsAre
<1>10. \/ handling' = [handling EXCEPT !.next = l + 1] /\ l + 1 \in DOMAIN Listeners /\ seen' = seen
       \/ handling' = NoReply /\ seen' = (IF tag > seen THEN tag ELSE seen) /\ l = Len(Listeners)
  BY <1>3, <1>9 DEF Tell
<1>11. /\ \A k \in DOMAIN Listeners : \A i : ToBeTold(k, i) <=> i \in fresh /\ k >= l
       /\ \A k \in DOMAIN Listeners : \A i : ToBeTold(k, i)' <=> i \in fresh /\ k > l
  <2>1. \A k \in DOMAIN Listeners : \A i : ToBeTold(k, i) <=> i \in fresh /\ k >= l
    BY <1>0, <1>3 DEF ToBeTold
  <2>2. CASE handling' = [handling EXCEPT !.next = l + 1]
    <3>1. handling'.stage = "tell" /\ handling'.fresh = fresh /\ handling'.next = l + 1
      BY <1>0, <1>2, <1>3, <2>2
    <3>2. \A k \in DOMAIN Listeners : k >= l + 1 <=> k > l
      BY <1>9
    <3> QED BY <2>1, <3>1, <3>2 DEF ToBeTold
  <2>3. CASE handling' = NoReply /\ l = Len(Listeners)
    <3>1. \A k \in DOMAIN Listeners : ~(k > l)
      BY <1>9, <2>3
    <3> QED BY <2>1, <2>3, <3>1 DEF ToBeTold, NoReply
  <2> QED BY <1>10, <2>2, <2>3
<1>12. Owed' = Owed \ (its \ said) /\ Single' = Single /\ \A i : At(i)' = At(i)
  BY <1>1, <1>7 DEF Owed, Single, At
<1>13. \A i \in Owed \cup Single : i \in Ids /\ At(i) \in Nat
  BY <1>0, EventsAre DEF Owed, Single
<1>14. FeedTypes'
  <2>1. missable' \subseteq Ids
    BY <1>0, <1>6, <1>7 DEF FeedTypes
  <2>2. {etag', savedTag', seen'} \subseteq 0..Len(events')
    BY <1>0, <1>1, <1>3, <1>10 DEF FeedTypes
  <2>3. \/ handling' = NoReply
        \/ handling' \in [stage : {"tell"}, fresh : SUBSET (1..Len(events)), next : DOMAIN Listeners,
                          tag : 0..Len(events)]
    BY <1>2, <1>10
  <2>4. \A k \in DOMAIN Listeners : \A i \in Ids \ DOMAIN events : announced'[k][i] = 0
    BY <1>0, <1>6, <1>8 DEF FeedTypes
  <2> QED BY <1>0, <1>1, <1>8, <2>1, <2>2, <2>3, <2>4 DEF FeedTypes, At
<1>15. ASSUME OnePoll PROVE OnePoll' /\ lastPoll = currentPoll /\ Holds(tag) /\ fresh \subseteq 1..tag
  <2>1. /\ requests = <<>> /\ replies = {} /\ Holds(tag) /\ lastPoll = currentPoll
        /\ currentPoll >= lastPoll /\ currentPoll > 0 /\ fresh \subseteq 1..tag
    BY <1>0, <1>2, <1>3, <1>15 DEF OnePoll
  <2>2. Holds(tag)'
    BY <1>1, <1>12, <2>1 DEF Holds
  <2>3. /\ handling' # NoReply => handling'.tag = tag
        /\ handling'.stage = "tell" => handling'.fresh = fresh /\ handling'.tag = tag
    BY <1>2, <1>3, <1>10 DEF NoReply
  <2>4. handling' # NoReply => Holds(handling.tag)'
    BY <2>2, <2>3 DEF Holds
  <2> QED BY <1>1, <2>1, <2>3, <2>4 DEF OnePoll
<1>16. ASSUME OnePoll PROVE \A i \in Single : (i <= tag => At(i) <= lastPoll)
  BY <1>15, <1>16 DEF Holds
<1>17. ASSUME OnePoll, OnceTold PROVE OnceTold'
  <2> SUFFICES ASSUME NEW k \in DOMAIN Listeners, NEW i \in Single
               PROVE  /\ announced'[k][i] <= 1
                      /\ announced'[k][i] > 0 => At(i)' <= lastPoll' /\ ~ToBeTold(k, i)'
    BY <1>12 DEF OnceTold
  <2>1. i \in Ids /\ announced[k][i] \in Nat /\ k \in Nat
    BY <1>0, <1>9, <1>13 DEF FeedTypes
  <2>2. announced[k][i] <= 1 /\ (announced[k][i] > 0 => At(i) <= lastPoll /\ ~(i \in fresh /\ k >= l))
    BY <1>11, <1>17, <2>1 DEF OnceTold
  <2>3. CASE k = l /\ i \in said
    <3>1. announced[k][i] = 0
      BY <1>6, <1>9, <2>1, <2>2, <2>3
    <3>2. announced'[k][i] = 1
      BY <1>8, <2>1, <2>3, <3>1
    <3>3. i <= tag
      BY <1>3, <1>6, <1>15, <1>17, <2>3
    <3>4. At(i)' <= lastPoll'
      BY <1>1, <1>12, <1>16, <1>17, <2>1, <3>3
    <3>5. ~(k > l)
      BY <1>9, <2>3
    <3> QED BY <1>11, <3>2, <3>4, <3>5
  <2>4. CASE ~(k = l /\ i \in said)
    <3>1. announced'[k][i] = announced[k][i]
      BY <1>8, <2>1, <2>4
    <3>2. k > l => k >= l
      BY <1>9, <2>1
    <3> QED BY <1>1, <1>11, <1>12, <2>1, <2>2, <3>1, <3>2
  <2> QED BY <2>3, <2>4
<1>18. ASSUME NoneLost PROVE NoneLost'
  <2> SUFFICES ASSUME NEW k \in DOMAIN Listeners, NEW i \in Owed', events'[i].type = Listeners[k]
               PROVE  /\ i <= seen' => announced'[k][i] > 0
                      /\ At(i)' <= lastPoll' => Reached(k, i)'
                      /\ handling'.stage = "tell" /\ i <= handling'.tag => Reached(k, i)'
    BY DEF NoneLost
  <2>1. /\ i \in Owed /\ i \notin its \ said /\ i \in Ids /\ announced[k][i] \in Nat /\ k \in Nat
        /\ events[i].type = Listeners[k]
    BY <1>0, <1>1, <1>9, <1>12, <1>13 DEF FeedTypes
  <2>2. /\ i <= seen => announced[k][i] > 0
        /\ At(i) <= lastPoll => Reached(k, i)
        /\ i <= tag => Reached(k, i)
    BY <1>0, <1>3, <1>18, <2>1 DEF NoneLost
  <2>3. announced[k][i] > 0 => announced'[k][i] > 0
    BY <1>8, <2>1
  <2>4. Reached(k, i) => Reached(k, i)'
    <3>1. CASE i \in fresh /\ k = l
      <4>1. i \in said
        BY <1>4, <2>1, <3>1
      <4> QED BY <1>8, <2>1, <3>1, <4>1 DEF Reached
    <3>2. CASE i \in fresh /\ k > l
      BY <1>11, <3>2 DEF Reached
    <3>3. k >= l => k = l \/ k > l
      BY <1>9, <2>1
    <3> QED BY <1>11, <2>3, <3>1, <3>2, <3>3 DEF Reached
  <2>5. handling' = NoReply => (Reached(k, i)' => announced'[k][i] > 0)
    BY DEF Reached, ToBeTold, NoReply
  <2>6. i <= seen' => i <= seen \/ (i <= tag /\ handling' = NoReply)
    BY <1>10
  <2>7. handling'.stage = "tell" => handling'.tag = tag
    BY <1>2, <1>3, <1>10 DEF NoReply
  <2>8. At(i)' = At(i) /\ lastPoll' = lastPoll
    BY <1>1, <1>12
  <2> QED BY <2>2, <2>3, <2>4, <2>5, <2>6, <2>7, <2>8
<1> QED BY <1>1, <1>14, <1>15, <1>17, <1>18 DEF FeedInv

\* Nothing is on its way after a restart, and the time of the poll is the stored one, or later.
LEMMA HubCrashInv == ASSUME FeedInv, HubCrash PROVE FeedInv'
<1>0. FeedTypes
  BY DEF FeedInv
<1>1. /\ UNCHANGED <<savedTag, savedPoll, events, now, announced, seen, missable, repeatable, overlapped>>
      /\ faults < MaxFaults /\ faults' = faults + 1 /\ died' = TRUE
      /\ etag' = savedTag /\ currentPoll' = 0 /\ requests' = <<>> /\ replies' = {} /\ handling' = NoReply
      /\ lastPoll' = IF savedPoll = 0 THEN now ELSE savedPoll
  BY DEF HubCrash, hubVars, tellVars
<1>2. \/ lastPoll' = lastPoll
      \/ lastPoll' = now /\ savedPoll = 0
  BY <1>0, <1>1 DEF FeedTypes
<1>3. now \in Nat /\ 0 \in 0..now /\ now \in 0..now
  BY <1>0, EventsAre
<1>4. FeedTypes'
  <2>1. faults' \in 0..MaxFaults
    <3>1. MaxFaults \in Nat /\ faults \in 0..MaxFaults
      BY <1>0, GitHubFeedAssumption DEF FeedTypes
    <3> QED BY <1>1, <3>1
  <2>2. requests' \in Seq(0..Len(events))
    BY <1>1, EmptySeq
  <2>3. {lastPoll', currentPoll'} \subseteq 0..now' /\ savedPoll' \in {0, lastPoll'}
    BY <1>0, <1>1, <1>2, <1>3 DEF FeedTypes
  <2>4. died' \in BOOLEAN
    BY <1>1
  <2> QED BY <1>0, <1>1, <2>1, <2>2, <2>3, <2>4 DEF FeedTypes, At
<1>5. OnePoll'
  BY <1>1 DEF OnePoll, NoReply
<1>6. OnceTold => OnceTold'
  <2>1. Single' = Single /\ \A i : At(i)' = At(i)
    BY <1>1 DEF Single, At
  <2>2. \A i \in Single : At(i) <= now
    BY <1>0 DEF Single, FeedTypes
  <2>3. \A l, i : ~ToBeTold(l, i)'
    BY <1>1 DEF ToBeTold, NoReply
  <2>4. \A i \in Single : At(i) <= lastPoll => At(i)' <= lastPoll'
    BY <1>2, <2>1, <2>2
  <2> QED BY <1>1, <2>1, <2>3, <2>4 DEF OnceTold
<1> QED BY <1>1, <1>4, <1>5, <1>6 DEF FeedInv

LEMMA FeedStep == FeedInv /\ [FeedNext]_feedVars => FeedInv'
<1> SUFFICES ASSUME FeedInv, [FeedNext]_feedVars PROVE FeedInv'
  OBVIOUS
<1>1. CASE FeedNext
  <2>1. \A body \in {"events", "unchanged", "error", "malformed"} : body \in Bodies
    BY DEF Bodies
  <2> QED BY <1>1, <2>1, HappensInv, TickInv, PollInv, HubInv, StoreTagInv, DispatchInv, TellInv, HubCrashInv
          DEF FeedNext, Callback
<1>2. CASE UNCHANGED feedVars
  BY <1>2 DEF feedVars, sourceVars, hubVars, wireVars, tellVars, FeedInv, FeedTypes, OnePoll, OnceTold,
      NoneLost, Reached, Holds, Owed, Single, At, ToBeTold
<1> QED BY <1>1, <1>2

\* Each listener tells of every event of its type that an answer held, unless the bot crashed,
\* polls overlapped, or the event is one the code passes over: of the second the bot started or
\* of that of a poll after its answer, over the limit, or behind an answer "unchanged" that
\* followed a malformed one.  It tells of it once, unless polls overlapped, or the event happened
\* while its answer was on its way in a later second than the poll's.  ToldOnce (GitHubFeed), of
\* EventSource::poll_events and dispatch_events.
THEOREM EventsToldOnce == FeedSpec => []ToldOnce
<1>1. FeedInv => ToldOnce
  <2> SUFFICES ASSUME FeedInv PROVE ToldOnce
    OBVIOUS
  <2>0. FeedTypes
    BY DEF FeedInv
  <2>1. ASSUME handling = NoReply, ~died, ~overlapped, NEW l \in DOMAIN Listeners, NEW i \in 1..seen,
               i \notin missable, events[i].type = Listeners[l]
        PROVE  announced[l][i] > 0
    <3>1. i \in Owed /\ i <= seen
      BY <2>0, <2>1, EventsAre DEF Owed, FeedTypes
    <3> QED BY <2>1, <3>1 DEF NoneLost, FeedInv
  <2>2. ASSUME NEW l \in DOMAIN Listeners, NEW i \in DOMAIN events \ repeatable, ~overlapped
        PROVE  announced[l][i] <= 1
    BY <2>2 DEF FeedInv, OnceTold, Single
  <2> QED BY <2>1, <2>2 DEF ToldOnce
<1> QED BY <1>1, FeedStart, FeedStep, PTL DEF FeedSpec

\* No event is of the time before the first, and the time is bounded.
FeedTimes == now <= MaxTime /\ \A i \in DOMAIN events : At(i) >= 1

LEMMA FeedTimesStep == ASSUME FeedTypes, FeedTimes, [FeedNext]_feedVars PROVE FeedTimes'
<1>1. now \in Nat \ {0} /\ MaxTime \in Nat
  BY GitHubFeedAssumption DEF FeedTypes
<1>2. CASE UNCHANGED <<events, now>>
  BY <1>2 DEF FeedTimes, At
<1>3. CASE Tick
  <2>1. now < MaxTime /\ now' = now + 1 /\ events' = events
    BY <1>3 DEF Tick
  <2> QED BY <1>1, <2>1 DEF FeedTimes, At
<1>4. ASSUME NEW type \in Types, Happens(type) PROVE FeedTimes'
  <2>1. PICK e : e = [type |-> type, at |-> now]
    OBVIOUS
  <2>2. events' = Append(events, e) /\ now' = now /\ e.at = now
    BY <1>4, <2>1 DEF Happens
  <2>3. events \in Seq([type : Types, at : Nat]) /\ e \in [type : Types, at : Nat]
    BY <1>1, <2>1 DEF FeedTypes
  <2>4. PICK n \in Nat : n = Len(events)
    BY <2>3, LenProperties
  <2>5. /\ DOMAIN events = 1..n /\ DOMAIN events' = 1..(n + 1) /\ events'[n + 1] = e
        /\ \A i \in 1..n : events'[i] = events[i]
    BY <2>2, <2>3, <2>4, AppendProperties, LenProperties
  <2>6. ASSUME NEW i \in 1..(n + 1) PROVE events'[i].at >= 1
    <3>1. CASE i = n + 1
      BY <1>1, <2>2, <2>5, <3>1
    <3>2. CASE i \in 1..n
      <4>1. events[i].at >= 1
        BY <2>5, <3>2 DEF FeedTimes, At
      <4> QED BY <2>5, <3>2, <4>1
    <3> QED BY <2>4, <3>1, <3>2
  <2> QED BY <2>2, <2>5, <2>6 DEF FeedTimes, At
<1> QED BY <1>2, <1>3, <1>4 DEF FeedNext, PollEvents, HubAnswers, Callback, StoreTag, Dispatch, Tell,
      HubCrash, hubVars, feedVars

\* What the bot remembers of the polls is never ahead of the events or of the clock:
\* FeedTypeOK, of every state.
THEOREM FeedTypeCorrect == FeedSpec => []FeedTypeOK
<1>1. FeedInit => FeedInv /\ FeedTimes
  <2>1. FeedInit => FeedTimes
    BY GitHubFeedAssumption DEF FeedInit, FeedTimes
  <2> QED BY <2>1, FeedStart
<1>2. FeedInv /\ FeedTimes /\ [FeedNext]_feedVars => FeedInv' /\ FeedTimes'
  BY FeedStep, FeedTimesStep DEF FeedInv
<1>3. FeedInv /\ FeedTimes => FeedTypeOK
  <2> SUFFICES ASSUME FeedTypes, FeedTimes PROVE FeedTypeOK
    BY DEF FeedInv
  <2>1. ASSUME NEW i \in DOMAIN events PROVE events[i].type \in Types /\ events[i].at \in 1..now
    <3>1. At(i) \in Nat /\ events[i].type \in Types /\ now \in Nat /\ At(i) <= now /\ At(i) >= 1
      BY EventsAre DEF FeedTypes, FeedTimes
    <3> QED BY <3>1 DEF At
  <2>2. {lastPoll, currentPoll, savedPoll} \subseteq 0..now
    BY DEF FeedTypes
  <2> QED BY <2>1, <2>2 DEF FeedTypes, FeedTimes, FeedTypeOK
<1> QED BY <1>1, <1>2, <1>3, PTL DEF FeedSpec

-----------------------------------------------------------------------------
(* The titles of a wiki (Titles)                                           *)

\* A question has a category being loaded for it; the titles there are for it in the wiki;
\* the categories it has yet to look up.
Waits(q) == \E c \in AllCategories : wanted[<<q, c>>] > 0
Asked(q) == UNION {Pages(c) : c \in Range(Questions[q])}
Pending(q) == IF q = asking.question THEN Range(asking.todo) ELSE {}

MultiCallbacks == [items : Seq(AllPages), reply : Seq(AllPages \cup {"not found"})]

\* Everything has its type; what is kept of a category is of its pages.
TitlesTypes ==
  /\ asking \in [question : 0..Len(Questions), todo : Seq(AllCategories)]
  /\ asking.question = 0 => asking.todo = <<>>
  /\ asking.question > 0 => Range(asking.todo) \subseteq Range(Questions[asking.question])
  /\ DOMAIN titles \subseteq AllCategories
  /\ \A c \in DOMAIN titles : titles[c] \in Seq(AllPages) /\ Range(titles[c]) \subseteq Pages(c)
  /\ callbacks \in [DOMAIN Questions -> MultiCallbacks]
  /\ wanted \in [TitleRequests -> 0..1]
  /\ failures \in 0..MaxFailures

\* Only a question that is being looked up, or was, waits, for a category of its own that
\* has an entry.
Requested ==
  \A q \in DOMAIN Questions, c \in AllCategories : wanted[<<q, c>>] > 0 =>
    c \in DOMAIN titles /\ c \in Range(Questions[q]) /\ q <= asking.question

\* A category there is an entry for is complete, unless somebody waits for it or it failed.
CategoryLoaded(c) ==
  \/ \E q \in DOMAIN Questions : wanted[<<q, c>>] > 0
  \/ Range(titles[c]) = Pages(c)
  \/ \A q \in DOMAIN Questions : c \in Range(Questions[q]) => q \in excused

Loaded == \A c \in DOMAIN titles : CategoryLoaded(c)

\* A question waits for each category it has looked up, or has all its titles.
Got(q) ==
  \A c \in Range(Questions[q]) \ Pending(q) :
    wanted[<<q, c>>] > 0 \/ Pages(c) \subseteq Range(callbacks[q].items)

\* It has replied when it is looked up and waits for nothing, and rightly.
NotFoundIsRight(q, r) == r = "not found" /\ q \notin excused => Asked(q) = {}

RepliesRight(q) ==
  LET reply == callbacks[q].reply
  IN  /\ reply = <<>> \/ \E r \in Asked(q) \cup {"not found"} : reply = <<r>> /\ NotFoundIsRight(q, r)
      /\ q # 1 => (reply = <<>> <=> ~Begun(q) \/ Waits(q))

TitlesRight(q) ==
  /\ Range(callbacks[q].items) \subseteq Asked(q)
  /\ q \notin excused /\ q <= asking.question => Got(q)
  /\ RepliesRight(q)

TitlesInv == TitlesTypes /\ Requested /\ Loaded /\ \A q \in DOMAIN Questions : TitlesRight(q)

\* What a sequence holds, its first element apart, and that of two together.
LEMMA RangeOfEmpty == ASSUME NEW S PROVE Range(<<>>) = {} /\ <<>> \in Seq(S)
BY EmptySeq DEF Range

LEMMA AppendToEmpty == ASSUME NEW x PROVE Append(<<>>, x) = <<x>>
OBVIOUS

LEMMA RangeOfOne == ASSUME NEW x PROVE Len(<<x>>) = 1 /\ Range(<<x>>) = {x}
<1>1. DOMAIN <<x>> = 1..1 /\ <<x>>[1] = x /\ Len(<<x>>) = 1
  OBVIOUS
<1>2. 1..1 = {1}
  OBVIOUS
<1> QED BY <1>1, <1>2 DEF Range

LEMMA RangeOfParts ==
  ASSUME NEW S, NEW s \in Seq(S), s # <<>>
  PROVE  /\ Head(s) \in S /\ Tail(s) \in Seq(S)
         /\ Range(s) = {Head(s)} \cup Range(Tail(s))
<1>1. Head(s) \in S /\ Tail(s) \in Seq(S) /\ Len(s) \in Nat /\ Len(s) > 0 /\ DOMAIN s = 1..Len(s)
  BY EmptySeq
<1>2. /\ Len(Tail(s)) = Len(s) - 1 /\ DOMAIN Tail(s) = 1..(Len(s) - 1)
      /\ \A i \in 1..(Len(s) - 1) : Tail(s)[i] = s[i + 1]
  BY <1>1
<1>3. ASSUME NEW x \in Range(s) PROVE x = Head(s) \/ x \in Range(Tail(s))
  <2>1. PICK i \in 1..Len(s) : x = s[i]
    BY <1>1, <1>3 DEF Range
  <2>2. CASE i = 1
    BY <2>1, <2>2, <1>1
  <2>3. CASE i # 1
    <3>1. i - 1 \in 1..(Len(s) - 1) /\ (i - 1) + 1 = i
      BY <2>1, <2>3, <1>1
    <3>2. Tail(s)[i - 1] = x
      BY <3>1, <1>2, <2>1
    <3> QED BY <3>1, <3>2, <1>2 DEF Range
  <2> QED BY <2>2, <2>3
<1>4. Head(s) \in Range(s)
  BY <1>1 DEF Range
<1>5. ASSUME NEW x \in Range(Tail(s)) PROVE x \in Range(s)
  <2>1. PICK i \in 1..(Len(s) - 1) : x = Tail(s)[i]
    BY <1>2, <1>5 DEF Range
  <2>2. i + 1 \in 1..Len(s) /\ s[i + 1] = x
    BY <2>1, <1>1, <1>2
  <2> QED BY <2>2, <1>1 DEF Range
<1> QED BY <1>1, <1>3, <1>4, <1>5

LEMMA RangeOfBoth ==
  ASSUME NEW S, NEW s \in Seq(S), NEW t \in Seq(S)
  PROVE  s \o t \in Seq(S) /\ Range(s \o t) = Range(s) \cup Range(t)
<1>1. /\ s \o t \in Seq(S) /\ Len(s) \in Nat /\ Len(t) \in Nat /\ Len(s \o t) = Len(s) + Len(t)
      /\ DOMAIN s = 1..Len(s) /\ DOMAIN t = 1..Len(t) /\ DOMAIN (s \o t) = 1..(Len(s) + Len(t))
  OBVIOUS
<1>2. \A i \in 1..(Len(s) + Len(t)) : (s \o t)[i] = IF i <= Len(s) THEN s[i] ELSE t[i - Len(s)]
  OBVIOUS
<1>3. ASSUME NEW x \in Range(s \o t) PROVE x \in Range(s) \cup Range(t)
  <2>1. PICK i \in 1..(Len(s) + Len(t)) : x = (s \o t)[i]
    BY <1>1, <1>3 DEF Range
  <2>2. CASE i <= Len(s)
    BY <2>1, <2>2, <1>1, <1>2 DEF Range
  <2>3. CASE ~(i <= Len(s))
    <3>1. i - Len(s) \in 1..Len(t) /\ x = t[i - Len(s)]
      BY <2>1, <2>3, <1>1, <1>2
    <3> QED BY <3>1, <1>1 DEF Range
  <2> QED BY <2>2, <2>3
<1>4. ASSUME NEW x \in Range(s) PROVE x \in Range(s \o t)
  <2>1. PICK i \in 1..Len(s) : x = s[i]
    BY <1>1, <1>4 DEF Range
  <2>2. i \in 1..(Len(s) + Len(t)) /\ (s \o t)[i] = x
    BY <2>1, <1>1, <1>2
  <2> QED BY <2>2, <1>1 DEF Range
<1>5. ASSUME NEW x \in Range(t) PROVE x \in Range(s \o t)
  <2>1. PICK i \in 1..Len(t) : x = t[i]
    BY <1>1, <1>5 DEF Range
  <2>2. i + Len(s) \in 1..(Len(s) + Len(t)) /\ ~(i + Len(s) <= Len(s)) /\ (i + Len(s)) - Len(s) = i
    BY <2>1, <1>1
  <2>3. (s \o t)[i + Len(s)] = x
    BY <2>1, <2>2, <1>2
  <2> QED BY <2>2, <2>3, <1>1 DEF Range
<1> QED BY <1>1, <1>3, <1>4, <1>5

LEMMA HowMany ==
  /\ Len(Questions) \in Nat
  /\ \A q : q \in DOMAIN Questions <=> q \in Nat /\ 1 <= q /\ q <= Len(Questions)
<1>1. Questions \in Seq(Seq(AllCategories))
  BY TitlesAssumption
<1>2. Len(Questions) \in Nat /\ DOMAIN Questions = 1..Len(Questions)
  BY <1>1
<1> QED BY <1>2

LEMMA QuestionsAre ==
  /\ \A q \in DOMAIN Questions : Questions[q] \in Seq(AllCategories)
  /\ \A c \in AllCategories : Wiki[c][1] \in Seq(AllPages) /\ Pages(c) \subseteq AllPages
  /\ "not found" \notin AllPages
<1>1. Questions \in Seq(Seq(AllCategories))
  BY TitlesAssumption
<1>2. ASSUME NEW c \in AllCategories PROVE Wiki[c][1] \in Seq(AllPages) /\ Pages(c) \subseteq AllPages
  BY TitlesAssumption DEF AllPages
<1>3. "not found" \notin AllPages
  BY TitlesAssumption
<1>4. ASSUME NEW q \in DOMAIN Questions PROVE Questions[q] \in Seq(AllCategories)
  BY <1>1, <1>4
<1> QED BY <1>2, <1>3, <1>4

LEMMA RangeIn == ASSUME NEW S, NEW s \in Seq(S) PROVE Range(s) \subseteq S
BY DEF Range

LEMMA AskedAre == ASSUME NEW q \in DOMAIN Questions PROVE Asked(q) \subseteq AllPages
<1>1. Questions[q] \in Seq(AllCategories)
  BY QuestionsAre
<1>2. Range(Questions[q]) \subseteq AllCategories
  BY <1>1, RangeIn
<1> QED BY <1>2, QuestionsAre DEF Asked

\* Update() gives the callback its items, and a reply if nobody holds it, unless it is
\* preload's.
LEMMA UpdateIs ==
  ASSUME callbacks \in [DOMAIN Questions -> MultiCallbacks], NEW q \in DOMAIN Questions,
         NEW items \in Seq(AllPages), NEW left, NEW main \in BOOLEAN,
         Update(q, items, left, main)
  PROVE  /\ callbacks' \in [DOMAIN Questions -> MultiCallbacks]
         /\ \A p \in DOMAIN Questions \ {q} : callbacks'[p] = callbacks[p]
         /\ callbacks'[q].items = items
         /\ (main \/ q = 1 \/ \E c \in AllCategories : left[<<q, c>>] > 0)
               => callbacks'[q].reply = callbacks[q].reply
         /\ ~(main \/ q = 1 \/ \E c \in AllCategories : left[<<q, c>>] > 0)
               => \E r \in Range(items) \cup {"not found"} :
                    /\ callbacks'[q].reply = Append(callbacks[q].reply, r)
                    /\ r = "not found" => items = <<>>
<1> DEFINE held == main \/ \E c \in AllCategories : left[<<q, c>>] > 0
           out == Released(q, items, left, main)
<1>0. callbacks[q].items \in Seq(AllPages) /\ callbacks[q].reply \in Seq(AllPages \cup {"not found"})
  BY DEF MultiCallbacks
<1>1. CASE held \/ q = 1
  <2>1. out = {}
    BY <1>1 DEF Released
  <2>2. callbacks' = [callbacks EXCEPT ![q].items = items]
    BY <2>1 DEF Update
  <2> QED BY <1>0, <1>1, <2>2 DEF MultiCallbacks
<1>2. CASE ~(held \/ q = 1)
  <2>1. out = IF items = <<>> THEN {"not found"} ELSE Range(items)
    BY <1>2 DEF Released
  <2>2. items # <<>> => items[1] \in Range(items)
    BY EmptySeq DEF Range
  <2>3. out # {}
    BY <2>1, <2>2
  <2>4. PICK r \in out :
          callbacks' = [callbacks EXCEPT ![q] = [items |-> items, reply |-> Append(@.reply, r)]]
    BY <2>3 DEF Update
  <2>5. Range(items) \subseteq AllPages
    BY DEF Range
  <2>6. r \in Range(items) \cup {"not found"} /\ (r = "not found" => items = <<>>)
    BY <2>1, <2>4, <2>5, QuestionsAre
  <2>7. Append(callbacks[q].reply, r) \in Seq(AllPages \cup {"not found"})
    <3>1. r \in AllPages \cup {"not found"}
      BY <2>5, <2>6
    <3> QED BY <1>0, <3>1, AppendProperties
  <2>8. callbacks'[q] = [items |-> items, reply |-> Append(callbacks[q].reply, r)]
    BY <2>4
  <2>9. callbacks' \in [DOMAIN Questions -> MultiCallbacks]
        /\ \A p \in DOMAIN Questions \ {q} : callbacks'[p] = callbacks[p]
    BY <2>4, <2>7 DEF MultiCallbacks
  <2>10. callbacks'[q].items = items /\ callbacks'[q].reply = Append(callbacks[q].reply, r)
    BY <2>8
  <2> QED BY <1>2, <2>6, <2>9, <2>10
<1> QED BY <1>1, <1>2

\* What an action has to do for one question, and leave alone for the others, for the
\* answers to be right after it.
OtherQuestions(q) ==
  \A p \in DOMAIN Questions \ {q} :
    /\ \A c \in AllCategories : wanted'[<<p, c>>] = wanted[<<p, c>>]
    /\ Begun(p)' <=> Begun(p)
    /\ Pending(p) \subseteq Pending(p)'
    /\ p <= asking'.question => p <= asking.question

LEMMA AnswersRight ==
  ASSUME TitlesInv, NEW q \in DOMAIN Questions, NEW items \in Seq(AllPages), NEW main \in BOOLEAN,
         Update(q, items, wanted', main), OtherQuestions(q), excused \subseteq excused',
         Range(items) \subseteq Asked(q),
         ~Begun(q) \/ Waits(q),
         main <=> ~Begun(q)',
         Begun(q)' => Pending(q)' = {},
         q \in excused' \/ \A c \in Range(Questions[q]) \ Pending(q)' :
                             wanted'[<<q, c>>] > 0 \/ Pages(c) \subseteq Range(items)
  PROVE  /\ callbacks' \in [DOMAIN Questions -> MultiCallbacks]
         /\ \A p \in DOMAIN Questions : TitlesRight(p)'
<1> DEFINE waits == \E c \in AllCategories : wanted'[<<q, c>>] > 0
<1>1. /\ callbacks' \in [DOMAIN Questions -> MultiCallbacks]
      /\ \A p \in DOMAIN Questions \ {q} : callbacks'[p] = callbacks[p]
      /\ callbacks'[q].items = items
      /\ main \/ q = 1 \/ waits => callbacks'[q].reply = callbacks[q].reply
      /\ ~(main \/ q = 1 \/ waits)
            => \E r \in Range(items) \cup {"not found"} :
                 /\ callbacks'[q].reply = Append(callbacks[q].reply, r)
                 /\ r = "not found" => items = <<>>
  BY UpdateIs DEF TitlesInv, TitlesTypes
<1>2. ASSUME NEW p \in DOMAIN Questions \ {q} PROVE TitlesRight(p)'
  <2>1. TitlesRight(p) /\ callbacks'[p] = callbacks[p]
    BY <1>1, <1>2 DEF TitlesInv
  <2>2. /\ \A c \in AllCategories : wanted'[<<p, c>>] = wanted[<<p, c>>]
        /\ Begun(p)' <=> Begun(p)
        /\ Pending(p) \subseteq Pending(p)'
        /\ p <= asking'.question => p <= asking.question
    BY <1>2 DEF OtherQuestions
  <2>3. Waits(p)' <=> Waits(p)
    BY <2>2 DEF Waits
  <2>4. Range(Questions[p]) \subseteq AllCategories
    BY <1>2, QuestionsAre, RangeIn
  <2>5. p \notin excused' /\ p <= asking'.question => Got(p)'
    BY <2>1, <2>2, <2>4 DEF TitlesRight, Got
  <2>6. RepliesRight(p)'
    BY <2>1, <2>2, <2>3 DEF TitlesRight, RepliesRight, NotFoundIsRight, Asked
  <2> QED BY <2>1, <2>5, <2>6 DEF TitlesRight, Asked
<1>3. TitlesRight(q)'
  <2>1. q \notin excused' => Got(q)'
    BY <1>1 DEF Got
  <2>2. TitlesRight(q) /\ (q # 1 => callbacks[q].reply = <<>>)
    BY DEF TitlesInv, TitlesRight, RepliesRight
  <2>3. waits <=> Waits(q)'
    BY DEF Waits
  <2>4. CASE q = 1
    <3>1. callbacks'[q].reply = callbacks[q].reply
      BY <1>1, <2>4
    <3>2. RepliesRight(q)'
      BY <2>2, <2>4, <3>1 DEF TitlesRight, RepliesRight, NotFoundIsRight, Asked
    <3> QED BY <1>1, <2>1, <3>2 DEF TitlesRight, Asked
  <2>5. CASE q # 1 /\ (main \/ waits)
    <3>1. callbacks'[q].reply = <<>>
      BY <1>1, <2>2, <2>5
    <3>2. ~Begun(q)' \/ Waits(q)'
      BY <2>3, <2>5
    <3>3. RepliesRight(q)'
      BY <3>1, <3>2 DEF RepliesRight
    <3> QED BY <1>1, <2>1, <3>3 DEF TitlesRight, Asked
  <2>6. CASE q # 1 /\ ~main /\ ~waits
    <3>1. PICK r \in Range(items) \cup {"not found"} :
            /\ callbacks'[q].reply = Append(callbacks[q].reply, r)
            /\ r = "not found" => items = <<>>
      BY <1>1, <2>6
    <3>2. callbacks'[q].reply = <<r>>
      <4>1. Append(<<>>, r) = <<r>>
        BY AppendToEmpty
      <4>2. callbacks[q].reply = <<>>
        BY <2>2, <2>6
      <4> QED BY <4>1, <4>2, <3>1
    <3>3. r \in Asked(q) \cup {"not found"}
      BY <3>1
    <3>4. ASSUME r = "not found", q \notin excused' PROVE Asked(q) = {}
      <4>1. Range(items) = {}
        BY <3>1, <3>4, RangeOfEmpty
      <4>2. Range(Questions[q]) \subseteq AllCategories
        BY QuestionsAre, RangeIn
      <4>3. \A c \in Range(Questions[q]) : Pages(c) \subseteq Range(items)
        BY <2>6, <3>4, <4>2
      <4> QED BY <4>1, <4>3 DEF Asked
    <3>5. Begun(q)' /\ ~Waits(q)'
      BY <2>3, <2>6
    <3>6. callbacks'[q].reply # <<>>
      <4>1. <<r>> # <<>>
        OBVIOUS
      <4> QED BY <4>1, <3>2
    <3>7. RepliesRight(q)'
      BY <3>2, <3>3, <3>4, <3>5, <3>6 DEF RepliesRight, NotFoundIsRight, Asked
    <3> QED BY <1>1, <2>1, <3>7 DEF TitlesRight, Asked
  <2> QED BY <2>4, <2>5, <2>6
<1> QED BY <1>1, <1>2, <1>3

LEMMA TitlesStart == TitlesInit => TitlesInv
<1> SUFFICES ASSUME TitlesInit PROVE TitlesInv
  OBVIOUS
<1> USE DEF TitlesInit
<1>1. <<>> \in Seq(AllPages) /\ <<>> \in Seq(AllPages \cup {"not found"}) /\ <<>> \in Seq(AllCategories)
      /\ Range(<<>>) = {} /\ DOMAIN <<>> = {}
  BY EmptySeq, RangeOfEmpty
<1>2. asking \in [question : 0..Len(Questions), todo : Seq(AllCategories)]
  BY <1>1, HowMany
<1>3. callbacks \in [DOMAIN Questions -> MultiCallbacks]
  BY <1>1 DEF MultiCallbacks
<1>4. TitlesTypes
  <2>1. wanted \in [TitleRequests -> 0..1]
    OBVIOUS
  <2>2. failures \in 0..MaxFailures
    <3>1. MaxFailures \in Nat
      BY TitlesAssumption
    <3> QED BY <3>1
  <2> QED BY <1>1, <1>2, <1>3, <2>1, <2>2 DEF TitlesTypes
<1>5. ASSUME NEW q \in DOMAIN Questions PROVE TitlesRight(q)
  <2>1. ~Begun(q) /\ ~(q <= asking.question)
    BY HowMany DEF Begun
  <2>2. RepliesRight(q)
    BY <2>1 DEF RepliesRight
  <2> QED BY <1>1, <2>1, <2>2 DEF TitlesRight
<1>6. Requested /\ Loaded
  BY <1>1 DEF Requested, Loaded, TitleRequests
<1> QED BY <1>4, <1>5, <1>6 DEF TitlesInv

\* What TitlesTypes says of the question main is at.
LEMMA AskingIs ==
  ASSUME TitlesTypes
  PROVE  /\ asking.question \in Nat /\ asking.question <= Len(Questions)
         /\ asking.todo \in Seq(AllCategories)
         /\ asking.todo # <<>> => asking.question \in DOMAIN Questions
BY HowMany DEF TitlesTypes

LEMMA AskForTitleInv == ASSUME TitlesInv, AskForTitle PROVE TitlesInv'
<1>0. TitlesTypes /\ Requested /\ Loaded
  BY DEF TitlesInv
<1>q. PICK q : q = asking.question + 1
  OBVIOUS
<1>1. /\ asking.todo = <<>> /\ asking.question < Len(Questions)
      /\ asking' = [question |-> q, todo |-> Questions[q]]
      /\ Update(q, <<>>, wanted, Questions[q] # <<>>)
      /\ UNCHANGED <<titles, wanted, failures, excused>>
  BY <1>q DEF AskForTitle
<1>2. q \in DOMAIN Questions /\ q \in Nat /\ q > 0 /\ Questions[q] \in Seq(AllCategories)
  <2>1. asking.question \in Nat /\ asking.question < Len(Questions)
    BY <1>0, <1>1, AskingIs
  <2>2. q \in DOMAIN Questions /\ q \in Nat /\ q > 0
    BY <2>1, <1>q, HowMany
  <2> QED BY <2>2, QuestionsAre
<1>3. asking'.question = q /\ asking'.todo = Questions[q]
  BY <1>1
<1>4. Begun(q)' <=> Questions[q] = <<>>
  BY <1>2, <1>3 DEF Begun
<1>5. ~Begun(q)
  BY <1>0, <1>q, <1>2, AskingIs DEF Begun
<1>6. Pending(q)' = Range(Questions[q]) /\ (Questions[q] = <<>> => Pending(q)' = {})
  BY <1>3, RangeOfEmpty DEF Pending
<1>7. OtherQuestions(q)
  <2> SUFFICES ASSUME NEW p \in DOMAIN Questions \ {q}
               PROVE /\ \A c \in AllCategories : wanted'[<<p, c>>] = wanted[<<p, c>>]
                     /\ Begun(p)' <=> Begun(p)
                     /\ Pending(p) \subseteq Pending(p)'
                     /\ p <= asking'.question => p <= asking.question
    BY DEF OtherQuestions
  <2>1. p \in Nat /\ (p < q <=> p <= asking.question) /\ (p <= q <=> p < q)
    BY <1>0, <1>q, <1>2, HowMany, AskingIs
  <2>2. Begun(p)' <=> Begun(p)
    BY <1>0, <1>1, <1>3, <2>1, AskingIs DEF Begun
  <2>3. Pending(p) = {}
    BY <1>1, RangeOfEmpty DEF Pending
  <2> QED BY <1>1, <1>3, <2>1, <2>2, <2>3
<1>8. Update(q, <<>>, wanted', Questions[q] # <<>>)
  BY <1>1
<1>9. <<>> \in Seq(AllPages) /\ Range(<<>>) = {}
  BY RangeOfEmpty
<1>10. /\ callbacks' \in [DOMAIN Questions -> MultiCallbacks]
       /\ \A p \in DOMAIN Questions : TitlesRight(p)'
  <2>1. excused \subseteq excused'
    BY <1>1
  <2>2. \A c \in Range(Questions[q]) \ Pending(q)' :
          wanted'[<<q, c>>] > 0 \/ Pages(c) \subseteq Range(<<>>)
    BY <1>6
  <2>3. (Questions[q] # <<>>) \in BOOLEAN /\ (Questions[q] # <<>> <=> ~Begun(q)')
    BY <1>4
  <2>4. Begun(q)' => Pending(q)' = {}
    BY <1>4, <1>6
  <2> QED BY <1>2, <1>5, <1>7, <1>8, <1>9, <2>1, <2>2, <2>3, <2>4, AnswersRight
<1>11. TitlesTypes'
  <2>1. asking' \in [question : 0..Len(Questions), todo : Seq(AllCategories)]
    BY <1>1, <1>2, HowMany
  <2>2. Range(asking'.todo) \subseteq Range(Questions[asking'.question]) /\ asking'.question # 0
    BY <1>2, <1>3
  <2> QED BY <1>0, <1>1, <1>10, <2>1, <2>2 DEF TitlesTypes
<1>12. Requested'
  <2> SUFFICES ASSUME NEW p \in DOMAIN Questions, NEW c \in AllCategories, wanted'[<<p, c>>] > 0
               PROVE c \in DOMAIN titles' /\ c \in Range(Questions[p]) /\ p <= asking'.question
    BY DEF Requested
  <2>1. c \in DOMAIN titles /\ c \in Range(Questions[p]) /\ p <= asking.question
    BY <1>0, <1>1 DEF Requested
  <2>2. p <= q
    BY <1>0, <1>q, <2>1, HowMany, AskingIs
  <2> QED BY <1>1, <1>3, <2>1, <2>2
<1>13. Loaded'
  BY <1>0, <1>1 DEF Loaded, CategoryLoaded
<1> QED BY <1>10, <1>11, <1>12, <1>13 DEF TitlesInv

\* What main looks up leaves the other questions alone.
LEMMA LookUpLeaves ==
  ASSUME TitlesTypes, NEW q, q = asking.question, asking.todo # <<>>,
         asking' = [asking EXCEPT !.todo = Tail(@)],
         NEW c \in AllCategories, wanted' = wanted \/ wanted' = [wanted EXCEPT ![<<q, c>>] = @ + 1]
  PROVE  OtherQuestions(q)
<1>1. asking'.question = q /\ q \in Nat
  BY AskingIs DEF TitlesTypes
<1> SUFFICES ASSUME NEW p \in DOMAIN Questions \ {q}
             PROVE /\ \A d \in AllCategories : wanted'[<<p, d>>] = wanted[<<p, d>>]
                   /\ Begun(p)' <=> Begun(p)
                   /\ Pending(p) \subseteq Pending(p)'
                   /\ p <= asking'.question => p <= asking.question
  BY DEF OtherQuestions
<1>2. \A d \in AllCategories : wanted'[<<p, d>>] = wanted[<<p, d>>]
  <2> TAKE d \in AllCategories
  <2>1. <<p, d>> # <<q, c>> /\ <<p, d>> \in TitleRequests
    BY DEF TitleRequests
  <2> QED BY <2>1 DEF TitlesTypes
<1>3. Begun(p)' <=> Begun(p)
  BY <1>1 DEF Begun
<1>4. Pending(p) = {}
  BY DEF Pending
<1> QED BY <1>1, <1>2, <1>3, <1>4

LEMMA load_categoryInv == ASSUME TitlesInv, load_category PROVE TitlesInv'
<1>0. TitlesTypes /\ Requested /\ Loaded /\ \A p \in DOMAIN Questions : TitlesRight(p)
  BY DEF TitlesInv
<1>q. PICK q : q = asking.question
  OBVIOUS
<1>c. PICK c : c = Head(asking.todo)
  OBVIOUS
<1>1. /\ asking.todo # <<>> /\ UNCHANGED failures
      /\ asking' = [asking EXCEPT !.todo = Tail(@)]
  BY DEF load_category
<1>2. q \in DOMAIN Questions /\ q \in Nat /\ q > 0 /\ asking.todo \in Seq(AllCategories)
  BY <1>0, <1>1, <1>q, AskingIs, HowMany
<1>3. /\ c \in AllCategories /\ Tail(asking.todo) \in Seq(AllCategories)
      /\ Range(asking.todo) = {c} \cup Range(Tail(asking.todo))
  BY <1>1, <1>2, <1>c, RangeOfParts
<1>4. c \in Range(Questions[q]) /\ Range(Tail(asking.todo)) \subseteq Range(Questions[q])
  BY <1>0, <1>2, <1>3, <1>q DEF TitlesTypes
<1>5. asking'.question = q /\ asking'.todo = Tail(asking.todo)
  BY <1>0, <1>1, <1>q DEF TitlesTypes
<1>6. ~Begun(q) /\ (Begun(q)' <=> Tail(asking.todo) = <<>>)
  BY <1>1, <1>2, <1>5, <1>q DEF Begun
<1>7. /\ Pending(q) = {c} \cup Range(Tail(asking.todo))
      /\ Pending(q)' = Range(Tail(asking.todo))
      /\ Begun(q)' => Pending(q)' = {}
  BY <1>3, <1>5, <1>6, <1>q, RangeOfEmpty DEF Pending
<1>8. PICK items : items = callbacks[q].items
  OBVIOUS
<1>9. items \in Seq(AllPages) /\ Range(items) \subseteq Asked(q)
  BY <1>0, <1>2, <1>8 DEF TitlesTypes, MultiCallbacks, TitlesRight
<1>10. q \in excused
       \/ \A d \in Range(Questions[q]) \ Pending(q) : wanted[<<q, d>>] > 0 \/ Pages(d) \subseteq Range(items)
  BY <1>0, <1>2, <1>8, <1>q DEF TitlesRight, Got
<1>11. asking' \in [question : 0..Len(Questions), todo : Seq(AllCategories)]
  BY <1>0, <1>1, <1>3 DEF TitlesTypes
<1>12. Range(asking'.todo) \subseteq Range(Questions[asking'.question]) /\ asking'.question # 0
  BY <1>2, <1>4, <1>5
<1>13. CASE c \in DOMAIN titles
  <2>1. /\ UNCHANGED <<titles, wanted>>
        /\ excused' = IF \E p \in DOMAIN Questions : wanted[<<p, c>>] > 0 THEN excused \cup {q} ELSE excused
        /\ Update(q, items \o titles[c], wanted, asking'.todo # <<>>)
    BY <1>13, <1>q, <1>c, <1>8 DEF load_category
  <2>2. titles[c] \in Seq(AllPages) /\ Range(titles[c]) \subseteq Pages(c) /\ Pages(c) \subseteq Asked(q)
    BY <1>0, <1>13, <1>4 DEF TitlesTypes, Asked
  <2>3. /\ items \o titles[c] \in Seq(AllPages)
        /\ Range(items \o titles[c]) = Range(items) \cup Range(titles[c])
    BY <1>9, <2>2, RangeOfBoth
  <2>4. excused \subseteq excused'
    BY <2>1
  <2>5. q \in excused' \/ Pages(c) \subseteq Range(titles[c])
    <3>1. CASE \E p \in DOMAIN Questions : wanted[<<p, c>>] > 0
      BY <3>1, <2>1
    <3>2. CASE ~\E p \in DOMAIN Questions : wanted[<<p, c>>] > 0
      BY <3>2, <1>0, <1>13, <1>2, <1>4, <2>4 DEF Loaded, CategoryLoaded
    <3> QED BY <3>1, <3>2
  <2>6. q \in excused'
        \/ \A d \in Range(Questions[q]) \ Pending(q)' :
             wanted'[<<q, d>>] > 0 \/ Pages(d) \subseteq Range(items \o titles[c])
    BY <1>7, <1>10, <2>1, <2>3, <2>4, <2>5
  <2>7. OtherQuestions(q)
    BY <1>0, <1>1, <1>3, <1>q, <2>1, LookUpLeaves
  <2>8. /\ callbacks' \in [DOMAIN Questions -> MultiCallbacks]
        /\ \A p \in DOMAIN Questions : TitlesRight(p)'
    <3>1. Update(q, items \o titles[c], wanted', asking'.todo # <<>>)
      BY <2>1
    <3>2. (asking'.todo # <<>>) \in BOOLEAN /\ (asking'.todo # <<>> <=> ~Begun(q)')
      BY <1>5, <1>6
    <3>3. Range(items \o titles[c]) \subseteq Asked(q)
      BY <1>9, <2>2, <2>3
    <3> QED BY <1>2, <1>6, <1>7, <2>3, <2>4, <2>6, <2>7, <3>1, <3>2, <3>3, AnswersRight
  <2>9. TitlesTypes'
    BY <1>0, <1>1, <1>11, <1>12, <2>1, <2>8 DEF TitlesTypes
  <2>10. Requested'
    BY <1>0, <1>5, <1>q, <2>1 DEF Requested
  <2>11. Loaded'
    BY <1>0, <2>1, <2>4 DEF Loaded, CategoryLoaded
  <2> QED BY <2>8, <2>9, <2>10, <2>11 DEF TitlesInv
<1>14. CASE c \notin DOMAIN titles
  <2>1. /\ titles' = WithCategory(c) /\ wanted' = [wanted EXCEPT ![<<q, c>>] = @ + 1] /\ UNCHANGED excused
        /\ Update(q, items, wanted', asking'.todo # <<>>)
    BY <1>14, <1>q, <1>c, <1>8 DEF load_category
  <2>2. /\ DOMAIN titles' = DOMAIN titles \cup {c}
        /\ titles'[c] = <<>> /\ \A d \in DOMAIN titles : titles'[d] = titles[d]
    BY <1>14, <2>1 DEF WithCategory
  <2>3. /\ wanted[<<q, c>>] = 0 /\ wanted'[<<q, c>>] = 1 /\ wanted' \in [TitleRequests -> 0..1]
        /\ \A r \in TitleRequests : wanted[r] > 0 => wanted'[r] > 0
        /\ \A r \in TitleRequests : wanted'[r] > 0 => r = <<q, c>> \/ wanted[r] > 0
    <3>1. <<q, c>> \in TitleRequests /\ wanted \in [TitleRequests -> 0..1]
      BY <1>0, <1>2, <1>3 DEF TitleRequests, TitlesTypes
    <3>2. wanted[<<q, c>>] = 0
      BY <3>1, <1>0, <1>14, <1>2, <1>3 DEF Requested
    <3> QED BY <3>1, <3>2, <2>1
  <2>4. q \in excused'
        \/ \A d \in Range(Questions[q]) \ Pending(q)' :
             wanted'[<<q, d>>] > 0 \/ Pages(d) \subseteq Range(items)
    <3>1. Range(Questions[q]) \subseteq AllCategories
      BY <1>2, QuestionsAre, RangeIn
    <3>2. \A d \in Range(Questions[q]) : <<q, d>> \in TitleRequests
      BY <1>2, <3>1 DEF TitleRequests
    <3> QED BY <1>7, <1>10, <2>1, <2>3, <3>2
  <2>5. OtherQuestions(q)
    BY <1>0, <1>1, <1>3, <1>q, <2>1, LookUpLeaves
  <2>6. /\ callbacks' \in [DOMAIN Questions -> MultiCallbacks]
        /\ \A p \in DOMAIN Questions : TitlesRight(p)'
    <3>1. (asking'.todo # <<>>) \in BOOLEAN /\ (asking'.todo # <<>> <=> ~Begun(q)')
      BY <1>5, <1>6
    <3>2. excused \subseteq excused'
      BY <2>1
    <3> QED BY <1>2, <1>6, <1>7, <1>9, <2>1, <2>4, <2>5, <3>1, <3>2, AnswersRight
  <2>7. TitlesTypes'
    <3>1. \A d \in DOMAIN titles' : titles'[d] \in Seq(AllPages) /\ Range(titles'[d]) \subseteq Pages(d)
      BY <1>0, <2>2, RangeOfEmpty DEF TitlesTypes
    <3>2. DOMAIN titles' \subseteq AllCategories
      BY <1>0, <1>3, <2>2 DEF TitlesTypes
    <3> QED BY <1>0, <1>1, <1>11, <1>12, <2>3, <2>6, <3>1, <3>2 DEF TitlesTypes
  <2>8. Requested'
    <3> SUFFICES ASSUME NEW p \in DOMAIN Questions, NEW d \in AllCategories, wanted'[<<p, d>>] > 0
                 PROVE d \in DOMAIN titles' /\ d \in Range(Questions[p]) /\ p <= asking'.question
      BY DEF Requested
    <3>1. CASE <<p, d>> = <<q, c>>
      BY <3>1, <1>2, <1>4, <1>5, <2>2
    <3>2. CASE <<p, d>> # <<q, c>>
      <4>1. <<p, d>> \in TitleRequests
        BY DEF TitleRequests
      <4>2. wanted[<<p, d>>] > 0
        BY <3>2, <4>1, <2>3
      <4> QED BY <4>2, <1>0, <1>5, <1>q, <2>2 DEF Requested
    <3> QED BY <3>1, <3>2
  <2>9. Loaded'
    <3> SUFFICES ASSUME NEW d \in DOMAIN titles' PROVE CategoryLoaded(d)'
      BY DEF Loaded
    <3>1. CASE d = c
      <4>1. wanted'[<<q, d>>] > 0
        BY <3>1, <2>3
      <4> QED BY <4>1, <1>2 DEF CategoryLoaded
    <3>2. CASE d # c
      <4>1. d \in DOMAIN titles /\ titles'[d] = titles[d] /\ d \in AllCategories /\ CategoryLoaded(d)
        BY <3>2, <1>0, <2>2 DEF Loaded, TitlesTypes
      <4>2. \A p \in DOMAIN Questions : <<p, d>> \in TitleRequests
        BY <4>1 DEF TitleRequests
      <4> QED BY <4>1, <4>2, <2>1, <2>3 DEF CategoryLoaded
    <3> QED BY <3>1, <3>2
  <2> QED BY <2>6, <2>7, <2>8, <2>9 DEF TitlesInv
<1> QED BY <1>13, <1>14

\* An answer of the wiki leaves the other questions alone.
LEMMA AnswerLeaves ==
  ASSUME TitlesTypes, NEW q \in DOMAIN Questions, NEW c \in AllCategories, UNCHANGED asking,
         wanted' = OneLess(<<q, c>>)
  PROVE  OtherQuestions(q)
<1> SUFFICES ASSUME NEW p \in DOMAIN Questions \ {q}
             PROVE /\ \A d \in AllCategories : wanted'[<<p, d>>] = wanted[<<p, d>>]
                   /\ Begun(p)' <=> Begun(p)
                   /\ Pending(p) \subseteq Pending(p)'
                   /\ p <= asking'.question => p <= asking.question
  BY DEF OtherQuestions
<1>1. \A d \in AllCategories : wanted'[<<p, d>>] = wanted[<<p, d>>]
  <2> TAKE d \in AllCategories
  <2>1. <<p, d>> # <<q, c>> /\ <<p, d>> \in TitleRequests
    BY DEF TitleRequests
  <2> QED BY <2>1 DEF TitlesTypes, OneLess
<1> QED BY <1>1 DEF Begun, Pending

\* The request that is answered, and its question; the others go on.
LEMMA OneRequest ==
  ASSUME TitlesInv, NEW r \in TitleRequests, wanted[r] > 0
  PROVE  \E q \in DOMAIN Questions, c \in AllCategories :
           /\ r = <<q, c>> /\ c \in DOMAIN titles /\ c \in Range(Questions[q])
           /\ q <= asking.question /\ Waits(q)
           /\ InLoop(q) \in BOOLEAN /\ (InLoop(q) <=> ~Begun(q))
           /\ Begun(q) => Pending(q) = {}
           /\ OneLess(r) \in [TitleRequests -> 0..1] /\ OneLess(r)[r] = 0
           /\ \A s \in TitleRequests \ {r} : OneLess(r)[s] = wanted[s]
<1>1. PICK q \in DOMAIN Questions, c \in AllCategories : r = <<q, c>>
  BY DEF TitleRequests
<1>2. c \in DOMAIN titles /\ c \in Range(Questions[q]) /\ q <= asking.question /\ Waits(q)
  BY <1>1 DEF TitlesInv, Requested, Waits
<1>3. InLoop(q) \in BOOLEAN /\ (InLoop(q) <=> ~Begun(q))
  BY <1>2, HowMany, AskingIs DEF TitlesInv, InLoop, Begun
<1>4. Begun(q) => Pending(q) = {}
  BY RangeOfEmpty, HowMany, AskingIs DEF TitlesInv, Begun, Pending
<1>5. /\ OneLess(r) \in [TitleRequests -> 0..1] /\ OneLess(r)[r] = 0
      /\ \A s \in TitleRequests \ {r} : OneLess(r)[s] = wanted[s]
  <2>1. wanted \in [TitleRequests -> 0..1] /\ wanted[r] = 1
    BY DEF TitlesInv, TitlesTypes
  <2> QED BY <2>1 DEF OneLess
<1> QED BY <1>1, <1>2, <1>3, <1>4, <1>5

LEMMA WikiAnswersInv == ASSUME TitlesInv, NEW r \in TitleRequests, WikiAnswers(r) PROVE TitlesInv'
<1>0. TitlesTypes /\ Requested /\ Loaded /\ \A p \in DOMAIN Questions : TitlesRight(p)
  BY DEF TitlesInv
<1>1. PICK q \in DOMAIN Questions, c \in AllCategories :
           /\ r = <<q, c>> /\ c \in DOMAIN titles /\ c \in Range(Questions[q])
           /\ q <= asking.question /\ Waits(q)
           /\ InLoop(q) \in BOOLEAN /\ (InLoop(q) <=> ~Begun(q))
           /\ Begun(q) => Pending(q) = {}
           /\ OneLess(r) \in [TitleRequests -> 0..1] /\ OneLess(r)[r] = 0
           /\ \A s \in TitleRequests \ {r} : OneLess(r)[s] = wanted[s]
  BY OneRequest DEF WikiAnswers
<1>2. PICK list : list = titles[c] \o Wiki[c][1]
  OBVIOUS
<1>3. /\ titles' = [titles EXCEPT ![c] = list] /\ UNCHANGED <<asking, failures, excused>>
      /\ \/ UNCHANGED <<wanted, callbacks>>
         \/ wanted' = OneLess(r) /\ Update(q, callbacks[q].items \o list, wanted', InLoop(q))
  BY <1>1, <1>2 DEF WikiAnswers
<1>4. list \in Seq(AllPages) /\ Range(list) = Pages(c)
  <2>1. titles[c] \in Seq(AllPages) /\ Range(titles[c]) \subseteq Pages(c)
    BY <1>0, <1>1 DEF TitlesTypes
  <2>2. Wiki[c][1] \in Seq(AllPages)
    BY QuestionsAre
  <2>3. list \in Seq(AllPages) /\ Range(list) = Range(titles[c]) \cup Range(Wiki[c][1])
    BY <2>1, <2>2, <1>2, RangeOfBoth
  <2> QED BY <2>1, <2>3 DEF Pages
<1>5. /\ DOMAIN titles' = DOMAIN titles
      /\ titles'[c] = list /\ \A d \in DOMAIN titles \ {c} : titles'[d] = titles[d]
  BY <1>1, <1>3
<1>6. /\ DOMAIN titles' \subseteq AllCategories
      /\ \A d \in DOMAIN titles' : titles'[d] \in Seq(AllPages) /\ Range(titles'[d]) \subseteq Pages(d)
  BY <1>0, <1>4, <1>5 DEF TitlesTypes
<1>7. CASE UNCHANGED <<wanted, callbacks>>
  <2>1. TitlesTypes'
    BY <1>0, <1>3, <1>6, <1>7 DEF TitlesTypes
  <2>2. Requested'
    BY <1>0, <1>3, <1>5, <1>7 DEF Requested
  <2>3. Loaded'
    BY <1>0, <1>3, <1>4, <1>5, <1>7 DEF Loaded, CategoryLoaded
  <2>4. ASSUME NEW p \in DOMAIN Questions PROVE TitlesRight(p)'
    BY <1>0, <1>3, <1>7, <2>4
    DEF TitlesRight, Got, RepliesRight, NotFoundIsRight, Asked, Pending, Begun, Waits
  <2> QED BY <2>1, <2>2, <2>3, <2>4 DEF TitlesInv
<1>8. CASE wanted' = OneLess(r) /\ Update(q, callbacks[q].items \o list, wanted', InLoop(q))
  <2>1. PICK items : items = callbacks[q].items
    OBVIOUS
  <2>2. items \in Seq(AllPages) /\ Range(items) \subseteq Asked(q)
    BY <1>0, <2>1 DEF TitlesTypes, MultiCallbacks, TitlesRight
  <2>3. items \o list \in Seq(AllPages) /\ Range(items \o list) = Range(items) \cup Pages(c)
    BY <2>2, <1>4, RangeOfBoth
  <2>4. Pages(c) \subseteq Asked(q)
    BY <1>1 DEF Asked
  <2>5. OtherQuestions(q)
    BY <1>0, <1>1, <1>3, <1>8, AnswerLeaves
  <2>6. (Begun(q)' <=> Begun(q)) /\ Pending(q)' = Pending(q)
    BY <1>3 DEF Begun, Pending
  <2>7. q \in excused' \/ \A d \in Range(Questions[q]) \ Pending(q)' :
                            wanted'[<<q, d>>] > 0 \/ Pages(d) \subseteq Range(items \o list)
    <3> SUFFICES ASSUME q \notin excused, NEW d \in Range(Questions[q]) \ Pending(q)
                 PROVE wanted'[<<q, d>>] > 0 \/ Pages(d) \subseteq Range(items \o list)
      BY <1>3, <2>6
    <3>1. wanted[<<q, d>>] > 0 \/ Pages(d) \subseteq Range(items)
      BY <1>0, <1>1, <2>1 DEF TitlesRight, Got
    <3>2. CASE d = c
      BY <3>2, <2>3
    <3>3. CASE d # c
      <4>1. d \in AllCategories
        BY QuestionsAre, RangeIn
      <4>2. <<q, d>> \in TitleRequests \ {r}
        BY <4>1, <3>3, <1>1 DEF TitleRequests
      <4> QED BY <4>2, <3>1, <2>3, <1>1, <1>8
    <3> QED BY <3>2, <3>3
  <2>8. /\ callbacks' \in [DOMAIN Questions -> MultiCallbacks]
        /\ \A p \in DOMAIN Questions : TitlesRight(p)'
    <3>1. Update(q, items \o list, wanted', InLoop(q)) /\ excused \subseteq excused'
      BY <1>3, <1>8, <2>1
    <3>2. Range(items \o list) \subseteq Asked(q)
      BY <2>2, <2>3, <2>4
    <3> QED BY <1>1, <2>3, <2>5, <2>6, <2>7, <3>1, <3>2, AnswersRight
  <2>9. TitlesTypes'
    BY <1>0, <1>1, <1>3, <1>6, <1>8, <2>8 DEF TitlesTypes
  <2>10. \A s \in TitleRequests : wanted'[s] > 0 => wanted[s] > 0
    BY <1>1, <1>8
  <2>11. Requested'
    <3> SUFFICES ASSUME NEW p \in DOMAIN Questions, NEW d \in AllCategories, wanted'[<<p, d>>] > 0
                 PROVE d \in DOMAIN titles' /\ d \in Range(Questions[p]) /\ p <= asking'.question
      BY DEF Requested
    <3>1. <<p, d>> \in TitleRequests
      BY DEF TitleRequests
    <3> QED BY <3>1, <2>10, <1>0, <1>3, <1>5 DEF Requested
  <2>12. Loaded'
    <3> SUFFICES ASSUME NEW d \in DOMAIN titles' PROVE CategoryLoaded(d)'
      BY DEF Loaded
    <3>1. CASE d = c
      BY <3>1, <1>4, <1>5 DEF CategoryLoaded
    <3>2. CASE d # c
      <4>1. d \in DOMAIN titles /\ titles'[d] = titles[d] /\ CategoryLoaded(d) /\ d \in AllCategories
        BY <3>2, <1>0, <1>5 DEF Loaded, TitlesTypes
      <4>2. \A p \in DOMAIN Questions : wanted'[<<p, d>>] = wanted[<<p, d>>]
        <5> TAKE p \in DOMAIN Questions
        <5>1. <<p, d>> \in TitleRequests \ {r}
          BY <4>1, <3>2, <1>1 DEF TitleRequests
        <5> QED BY <5>1, <1>1, <1>8
      <4> QED BY <4>1, <4>2, <1>3 DEF CategoryLoaded
    <3> QED BY <3>1, <3>2
  <2> QED BY <2>8, <2>9, <2>11, <2>12 DEF TitlesInv
<1> QED BY <1>3, <1>7, <1>8

LEMMA WikiFailsInv == ASSUME TitlesInv, NEW r \in TitleRequests, WikiFails(r) PROVE TitlesInv'
<1>0. TitlesTypes /\ Requested /\ Loaded /\ \A p \in DOMAIN Questions : TitlesRight(p)
  BY DEF TitlesInv
<1>1. PICK q \in DOMAIN Questions, c \in AllCategories :
           /\ r = <<q, c>> /\ c \in DOMAIN titles /\ c \in Range(Questions[q])
           /\ q <= asking.question /\ Waits(q)
           /\ InLoop(q) \in BOOLEAN /\ (InLoop(q) <=> ~Begun(q))
           /\ Begun(q) => Pending(q) = {}
           /\ OneLess(r) \in [TitleRequests -> 0..1] /\ OneLess(r)[r] = 0
           /\ \A s \in TitleRequests \ {r} : OneLess(r)[s] = wanted[s]
  BY OneRequest DEF WikiFails
<1>2. PICK items : items = callbacks[q].items
  OBVIOUS
<1>3. /\ wanted' = OneLess(r) /\ failures < MaxFailures /\ failures' = failures + 1
      /\ Update(q, items, wanted', InLoop(q))
      /\ excused' = {p \in DOMAIN Questions : c \in Range(Questions[p])} \cup excused
      /\ UNCHANGED <<titles, asking>>
  BY <1>1, <1>2 DEF WikiFails
<1>4. items \in Seq(AllPages) /\ Range(items) \subseteq Asked(q)
  BY <1>0, <1>2 DEF TitlesTypes, MultiCallbacks, TitlesRight
<1>5. q \in excused' /\ excused \subseteq excused'
  BY <1>1, <1>3
<1>6. OtherQuestions(q)
  BY <1>0, <1>1, <1>3, AnswerLeaves
<1>7. (Begun(q)' <=> Begun(q)) /\ Pending(q)' = Pending(q)
  BY <1>3 DEF Begun, Pending
<1>8. /\ callbacks' \in [DOMAIN Questions -> MultiCallbacks]
      /\ \A p \in DOMAIN Questions : TitlesRight(p)'
  BY <1>1, <1>3, <1>4, <1>5, <1>6, <1>7, AnswersRight
<1>9. TitlesTypes'
  <2>1. failures' \in 0..MaxFailures
    <3>1. MaxFailures \in Nat
      BY TitlesAssumption
    <3>2. failures \in 0..MaxFailures
      BY <1>0 DEF TitlesTypes
    <3> QED BY <3>1, <3>2, <1>3
  <2> QED BY <1>0, <1>1, <1>3, <1>8, <2>1 DEF TitlesTypes
<1>10. \A s \in TitleRequests : wanted'[s] > 0 => wanted[s] > 0
  BY <1>1, <1>3
<1>11. Requested'
  <2> SUFFICES ASSUME NEW p \in DOMAIN Questions, NEW d \in AllCategories, wanted'[<<p, d>>] > 0
               PROVE d \in DOMAIN titles' /\ d \in Range(Questions[p]) /\ p <= asking'.question
    BY DEF Requested
  <2>1. <<p, d>> \in TitleRequests
    BY DEF TitleRequests
  <2> QED BY <2>1, <1>10, <1>0, <1>3 DEF Requested
<1>12. Loaded'
  <2> SUFFICES ASSUME NEW d \in DOMAIN titles' PROVE CategoryLoaded(d)'
    BY DEF Loaded
  <2>1. CASE d = c
    BY <2>1, <1>3 DEF CategoryLoaded
  <2>2. CASE d # c
    <3>1. d \in DOMAIN titles /\ CategoryLoaded(d) /\ d \in AllCategories
      BY <1>0, <1>3 DEF Loaded, TitlesTypes
    <3>2. \A p \in DOMAIN Questions : wanted'[<<p, d>>] = wanted[<<p, d>>]
      <4> TAKE p \in DOMAIN Questions
      <4>1. <<p, d>> \in TitleRequests \ {r}
        BY <3>1, <2>2, <1>1 DEF TitleRequests
      <4> QED BY <4>1, <1>1, <1>3
    <3> QED BY <3>1, <3>2, <1>3, <1>5 DEF CategoryLoaded
  <2> QED BY <2>1, <2>2
<1> QED BY <1>8, <1>9, <1>11, <1>12 DEF TitlesInv

LEMMA TitlesStep == TitlesInv /\ [TitlesNext]_titlesVars => TitlesInv'
<1> SUFFICES ASSUME TitlesInv, [TitlesNext]_titlesVars PROVE TitlesInv'
  OBVIOUS
<1>1. CASE AskForTitle
  BY <1>1, AskForTitleInv
<1>2. CASE load_category
  BY <1>2, load_categoryInv
<1>3. ASSUME NEW r \in TitleRequests, WikiAnswers(r) PROVE TitlesInv'
  BY <1>3, WikiAnswersInv
<1>4. ASSUME NEW r \in TitleRequests, WikiFails(r) PROVE TitlesInv'
  BY <1>4, WikiFailsInv
<1>5. CASE UNCHANGED titlesVars
  BY <1>5 DEF titlesVars, TitlesInv, TitlesTypes, Requested, Loaded, CategoryLoaded, TitlesRight, Got,
     RepliesRight, NotFoundIsRight, Asked, Pending, Begun, Waits
<1> QED BY <1>1, <1>2, <1>3, <1>4, <1>5 DEF TitlesNext

\* What the invariant says of a question is what the property says of it.
LEMMA AnsweredRightly == TitlesInv => AskedOnceTold
<1> SUFFICES ASSUME TitlesInv, NEW q \in DOMAIN Questions \ {1}
             PROVE LET reply == callbacks[q].reply
                       waiting == \E c \in AllCategories : wanted[<<q, c>>] > 0
                       all == UNION {Pages(c) : c \in Range(Questions[q])}
                   IN  /\ Len(reply) = IF Begun(q) /\ ~waiting THEN 1 ELSE 0
                       /\ Range(reply) \subseteq all \cup {"not found"}
                       /\ reply = <<"not found">> /\ q \notin excused => all = {}
  BY DEF AskedOnceTold
<1>1. PICK reply : reply = callbacks[q].reply
  OBVIOUS
<1>2. /\ reply = <<>> \/ \E r \in Asked(q) \cup {"not found"} : reply = <<r>> /\ NotFoundIsRight(q, r)
      /\ reply = <<>> <=> ~Begun(q) \/ Waits(q)
  BY <1>1 DEF TitlesInv, TitlesRight, RepliesRight
<1>3. CASE reply = <<>>
  <2>1. Len(reply) = 0 /\ Range(reply) = {} /\ reply # <<"not found">>
    BY <1>3, RangeOfEmpty, EmptySeq
  <2> QED BY <1>1, <1>2, <1>3, <2>1 DEF Waits
<1>4. CASE reply # <<>>
  <2>1. PICK r \in Asked(q) \cup {"not found"} : reply = <<r>> /\ NotFoundIsRight(q, r)
    BY <1>2, <1>4
  <2>2. Len(reply) = 1 /\ Range(reply) = {r}
    BY <2>1, RangeOfOne
  <2>3. reply = <<"not found">> => r = "not found"
    BY <2>1
  <2> QED BY <1>1, <1>2, <1>4, <2>1, <2>2, <2>3 DEF Waits, Asked, NotFoundIsRight
<1> QED BY <1>3, <1>4

\* Who asks for a title is answered once, when nothing is being loaded for him any more, and
\* rightly.  AskedOnceTold (Titles), of load_category and MultiCallback.
THEOREM AskersAreTold == TitlesSpec => []AskedOnceTold
<1>1. TitlesInit => TitlesInv
  BY TitlesStart
<1>2. TitlesInv /\ [TitlesNext]_titlesVars => TitlesInv'
  BY TitlesStep
<1>3. TitlesInv => AskedOnceTold
  BY AnsweredRightly
<1> QED BY <1>1, <1>2, <1>3, PTL DEF TitlesSpec

\* Only categories somebody can ask for are kept, and no more requests fail than may:
\* TitlesTypeOK, of every state.
THEOREM TitlesTypeCorrect == TitlesSpec => []TitlesTypeOK
<1>1. TitlesInit => TitlesInv
  BY TitlesStart
<1>2. TitlesInv /\ [TitlesNext]_titlesVars => TitlesInv'
  BY TitlesStep
<1>3. TitlesInv => TitlesTypeOK
  <2> SUFFICES ASSUME TitlesTypes PROVE TitlesTypeOK
    BY DEF TitlesInv
  <2>1. asking.question \in 0..Len(Questions)
    BY DEF TitlesTypes
  <2> QED BY <2>1 DEF TitlesTypes, TitlesTypeOK
<1> QED BY <1>1, <1>2, <1>3, PTL DEF TitlesSpec

-----------------------------------------------------------------------------
(* The nick of the bot (IrcNick)                                           *)

\* A nick that can be asked for; and one that may be missing.
AskedNicks == [base : Bases, tail : Nat]
Nicks == AskedNicks \cup {NoNick}
NickLines == [what : {"001", "005", "433", "NICK", "JOIN", "QUIT"}, from : Nicks, to : Nicks]

\* Everything has its type; a refusal names a nick that was asked for, and the preferred
\* nick is nobody's second choice.
NickTypes ==
  /\ others \subseteq AskedNicks /\ {given, attempted, current} \subseteq Nicks
  /\ preferred \in AskedNicks /\ preferred.tail = 0
  /\ session \in {"DISCONNECTED", "CONNECTING", "CONNECTED"}
  /\ nicklen \in BOOLEAN /\ inList \in BOOLEAN /\ missed \in BOOLEAN
  /\ nickEvents \in 0..MaxNickEvents
  /\ asks \in Seq(AskedNicks) /\ answers \in Seq(NickLines)
  /\ \A i \in DOMAIN answers : answers[i].what = "433" => answers[i].to \in AskedNicks

\* The lines that tell the bot its nick.
TellsNick(line) == line.what \in {"001", "NICK"}

\* What the bot will take for its nick, when it has read the lines, is the one it has.
LastTold ==
  \/ (\A i \in DOMAIN answers : ~TellsNick(answers[i])) /\ current = given
  \/ \E i \in DOMAIN answers :
       /\ TellsNick(answers[i]) /\ answers[i].to = given
       /\ \A j \in DOMAIN answers : j > i => ~TellsNick(answers[j])

NickInv == NickTypes /\ (~missed => LastTold)

\* A line that is appended.
LEMMA LinesAppended ==
  ASSUME NickTypes, NEW ls \in Seq(NickLines), answers' = answers \o ls
  PROVE  /\ answers' \in Seq(NickLines)
         /\ DOMAIN answers = 1..Len(answers) /\ DOMAIN ls = 1..Len(ls)
         /\ Len(answers) \in Nat /\ Len(ls) \in Nat
         /\ DOMAIN answers' = 1..(Len(answers) + Len(ls))
         /\ \A i \in DOMAIN answers : answers'[i] = answers[i]
         /\ \A i \in DOMAIN ls : answers'[Len(answers) + i] = ls[i]
         /\ \A i \in DOMAIN answers' : i \notin DOMAIN answers => i - Len(answers) \in DOMAIN ls
<1>1. answers \in Seq(NickLines)
  BY DEF NickTypes
<1> QED BY <1>1, ConcatProperties

\* Lines that tell no nick and refuse none change nothing.
LEMMA LinesOfNoNick ==
  ASSUME NickTypes, LastTold, NEW ls \in Seq(NickLines), answers' = answers \o ls,
         \A i \in DOMAIN ls : ~TellsNick(ls[i]), UNCHANGED <<given, current>>
  PROVE  LastTold'
<1>1. /\ DOMAIN answers \subseteq DOMAIN answers' /\ \A i \in DOMAIN answers : answers'[i] = answers[i]
      /\ \A i \in DOMAIN answers' : i \in DOMAIN answers \/ ~TellsNick(answers'[i])
  <2>1. PICK n \in Nat, k \in Nat : n = Len(answers) /\ k = Len(ls)
    BY LinesAppended
  <2>2. DOMAIN answers = 1..n /\ DOMAIN answers' = 1..(n + k) /\ DOMAIN ls = 1..k
    BY <2>1, LinesAppended
  <2>3. ASSUME NEW i \in DOMAIN answers', i \notin DOMAIN answers PROVE ~TellsNick(answers'[i])
    <3>1. i - n \in DOMAIN ls /\ i = n + (i - n)
      BY <2>2, <2>3
    <3>2. answers'[n + (i - n)] = ls[i - n]
      BY <2>1, <3>1, LinesAppended
    <3> QED BY <3>1, <3>2
  <2> QED BY <2>2, <2>3, LinesAppended
<1>2. CASE (\A i \in DOMAIN answers : ~TellsNick(answers[i])) /\ current = given
  <2>1. \A i \in DOMAIN answers' : ~TellsNick(answers'[i])
    BY <1>1, <1>2
  <2> QED BY <1>2, <2>1 DEF LastTold
<1>3. CASE \E i \in DOMAIN answers :
             /\ TellsNick(answers[i]) /\ answers[i].to = given
             /\ \A j \in DOMAIN answers : j > i => ~TellsNick(answers[j])
  <2>1. PICK i \in DOMAIN answers :
          /\ TellsNick(answers[i]) /\ answers[i].to = given
          /\ \A j \in DOMAIN answers : j > i => ~TellsNick(answers[j])
    BY <1>3
  <2>2. i \in DOMAIN answers' /\ TellsNick(answers'[i]) /\ answers'[i].to = given'
    BY <1>1, <2>1
  <2>3. \A j \in DOMAIN answers' : j > i => ~TellsNick(answers'[j])
    BY <1>1, <2>1
  <2> QED BY <2>2, <2>3 DEF LastTold
<1> QED BY <1>2, <1>3 DEF LastTold

\* After AskNick of a nick with a tail of its own there may be an attempt, but only a nick
\* without a tail is preferred.
LEMMA AskNickIs ==
  ASSUME NickTypes, NEW n \in AskedNicks, AskNick(n), n.tail = 0 \/ attempted # NoNick
  PROVE  /\ preferred' \in AskedNicks /\ preferred'.tail = 0
         /\ attempted' \in Nicks /\ asks' \in Seq(AskedNicks)
<1>1. Longest \in Nat
  BY NickAssumption
<1>2. Cut(n) \in AskedNicks /\ (n.tail = 0 => Cut(n).tail = 0)
  BY <1>1 DEF Cut, AskedNicks
<1>3. PICK new \in AskedNicks : /\ new = IF nicklen THEN Cut(n) ELSE n
                                /\ n.tail = 0 => new.tail = 0
  BY <1>2
<1>4. CASE new = current
  <2>1. UNCHANGED <<preferred, attempted, asks>>
    BY <1>3, <1>4 DEF AskNick
  <2> QED BY <2>1 DEF NickTypes
<1>5. CASE new # current
  <2>1. preferred' = Prefer(new) /\ attempted' = new /\ asks' = Append(asks, new)
    BY <1>3, <1>5 DEF AskNick
  <2>2. asks' \in Seq(AskedNicks)
    BY <2>1, AppendProperties DEF NickTypes
  <2>3. preferred' \in AskedNicks /\ preferred'.tail = 0
    BY <1>3, <2>1 DEF Prefer, NickTypes
  <2> QED BY <2>1, <2>2, <2>3 DEF Nicks
<1> QED BY <1>4, <1>5

\* A line that is read: what remains, and what it told of.
LEMMA LineRead ==
  ASSUME NickTypes, NEW what, Read(what)
  PROVE  /\ answers' \in Seq(NickLines) /\ Head(answers) \in NickLines /\ Head(answers).what = what
         /\ what = "433" => Head(answers).to \in AskedNicks
         /\ \A i \in DOMAIN answers' : answers'[i].what = "433" => answers'[i].to \in AskedNicks
         /\ LastTold /\ ~TellsNick(Head(answers)) /\ current' = current => LastTold'
         /\ LastTold /\ TellsNick(Head(answers)) /\ current' = Head(answers).to => LastTold'
         /\ UNCHANGED <<others, given, nickEvents>>
<1>1. answers \in Seq(NickLines) /\ answers # <<>> /\ answers' = Tail(answers)
      /\ UNCHANGED <<others, given, nickEvents>> /\ Head(answers).what = what
  BY DEF Read, NickTypes
<1>2. PICK n \in Nat : n = Len(answers) /\ n > 0
  BY <1>1, EmptySeq, LenProperties
<1>3. /\ DOMAIN answers = 1..n /\ answers' \in Seq(NickLines) /\ DOMAIN answers' = 1..(n - 1)
      /\ \A i \in 1..(n - 1) : answers'[i] = answers[i + 1]
  BY <1>1, <1>2, HeadTailProperties, LenProperties
<1>4. Head(answers) = answers[1] /\ Head(answers) \in NickLines
  BY <1>1, HeadTailProperties
<1>5. what = "433" => Head(answers).to \in AskedNicks
  BY <1>1, <1>2, <1>3, <1>4 DEF NickTypes
<1>6. \A i \in DOMAIN answers' : answers'[i].what = "433" => answers'[i].to \in AskedNicks
  <2>1. \A i \in DOMAIN answers' : i + 1 \in DOMAIN answers /\ answers'[i] = answers[i + 1]
    BY <1>2, <1>3
  <2> QED BY <2>1 DEF NickTypes
<1>7. ASSUME LastTold, \/ ~TellsNick(Head(answers)) /\ current' = current
                       \/ TellsNick(Head(answers)) /\ current' = Head(answers).to
      PROVE  LastTold'
  <2>1. CASE (\A i \in DOMAIN answers : ~TellsNick(answers[i])) /\ current = given
    <3>1. ~TellsNick(Head(answers))
      BY <1>2, <1>3, <1>4, <2>1
    <3>2. \A i \in DOMAIN answers' : ~TellsNick(answers'[i])
      BY <1>2, <1>3, <2>1
    <3> QED BY <1>1, <1>7, <2>1, <3>1, <3>2 DEF LastTold
  <2>2. CASE \E i \in DOMAIN answers :
               /\ TellsNick(answers[i]) /\ answers[i].to = given
               /\ \A j \in DOMAIN answers : j > i => ~TellsNick(answers[j])
    <3>1. PICK i \in 1..n :
            /\ TellsNick(answers[i]) /\ answers[i].to = given
            /\ \A j \in 1..n : j > i => ~TellsNick(answers[j])
      BY <1>3, <2>2
    <3>2. \A j \in DOMAIN answers' : j > i - 1 => ~TellsNick(answers'[j])
      BY <1>2, <1>3, <3>1
    <3>3. CASE i = 1
      <4>1. \A j \in DOMAIN answers' : ~TellsNick(answers'[j])
        BY <1>3, <3>2, <3>3
      <4>2. current' = given'
        BY <1>1, <1>4, <1>7, <3>1, <3>3
      <4> QED BY <4>1, <4>2 DEF LastTold
    <3>4. CASE i # 1
      <4>1. PICK k \in 1..(n - 1) : k = i - 1
        BY <1>2, <3>1, <3>4
      <4>2. answers'[k] = answers[i]
        BY <1>3, <4>1
      <4>3. k \in DOMAIN answers' /\ TellsNick(answers'[k]) /\ answers'[k].to = given'
        BY <1>1, <1>3, <3>1, <4>1, <4>2
      <4>4. \A j \in DOMAIN answers' : j > k => ~TellsNick(answers'[j])
        BY <3>2, <4>1
      <4> QED BY <4>3, <4>4 DEF LastTold
    <3> QED BY <3>3, <3>4
  <2> QED BY <1>7, <2>1, <2>2 DEF LastTold
<1> QED BY <1>1, <1>3, <1>4, <1>5, <1>6, <1>7

\* At first there is no nick.
LEMMA NickFirst == ASSUME NickInit PROVE NickInv
<1>1. Longest \in Nat /\ MaxNickEvents \in Nat
  BY NickAssumption
<1>2. others \subseteq AskedNicks
  BY <1>1 DEF NickInit, AskedNicks, Nick, Bases
<1>3. preferred \in AskedNicks /\ preferred.tail = 0
  BY DEF NickInit, AskedNicks, Nick, Bases
<1>4. asks \in Seq(AskedNicks) /\ answers \in Seq(NickLines) /\ DOMAIN answers = {}
  BY EmptySeq DEF NickInit
<1>5. NickTypes
  <2>1. {given, attempted, current} \subseteq Nicks
    BY DEF NickInit, Nicks
  <2>2. nickEvents \in 0..MaxNickEvents
    BY <1>1 DEF NickInit
  <2>3. /\ nicklen \in BOOLEAN /\ inList \in BOOLEAN /\ missed \in BOOLEAN
        /\ session \in {"DISCONNECTED", "CONNECTING", "CONNECTED"}
    BY DEF NickInit
  <2> QED BY <1>2, <1>3, <1>4, <2>1, <2>2, <2>3 DEF NickTypes
<1>6. LastTold
  BY <1>4 DEF LastTold, NickInit
<1> QED BY <1>5, <1>6 DEF NickInv

\* No nick that is asked for is NoNick.
LEMMA NobodyAsksForNoNick == NoNick \notin AskedNicks
BY NickAssumption DEF NoNick, Nick, AskedNicks, Bases

LEMMA NickEventTypes == ASSUME NickTypes, NickEvent PROVE nickEvents' \in 0..MaxNickEvents
<1>1. MaxNickEvents \in Nat
  BY NickAssumption
<1>2. nickEvents \in 0..MaxNickEvents /\ nickEvents < MaxNickEvents /\ nickEvents' = nickEvents + 1
  BY DEF NickTypes, NickEvent
<1> QED BY <1>1, <1>2

LEMMA LogInInv == ASSUME NickInv, LogIn PROVE NickInv'
<1>1. NickTypes /\ preferred \in AskedNicks /\ preferred.tail = 0 /\ AskNick(preferred)
  BY DEF NickInv, NickTypes, LogIn
<1>2. /\ preferred' \in AskedNicks /\ preferred'.tail = 0
      /\ attempted' \in Nicks /\ asks' \in Seq(AskedNicks)
  BY <1>1, AskNickIs
<1> QED BY <1>1, <1>2 DEF NickInv, NickTypes, LogIn, LastTold, TellsNick

LEMMA AdminAsksInv == ASSUME NickInv, NEW base \in Wanted, AdminAsks(base) PROVE NickInv'
<1>1. NickTypes /\ Nick(base, 0) \in AskedNicks /\ Nick(base, 0).tail = 0 /\ AskNick(Nick(base, 0))
  BY DEF NickInv, AdminAsks, Nick, AskedNicks, Bases
<1>2. /\ preferred' \in AskedNicks /\ preferred'.tail = 0
      /\ attempted' \in Nicks /\ asks' \in Seq(AskedNicks)
  BY <1>1, AskNickIs
<1>3. nickEvents' \in 0..MaxNickEvents
  BY <1>1, NickEventTypes DEF AdminAsks
<1> QED BY <1>1, <1>2, <1>3 DEF NickInv, NickTypes, AdminAsks, LastTold, TellsNick

LEMMA LinkLostInv == ASSUME NickInv, LinkLost PROVE NickInv'
<1>1. nickEvents' \in 0..MaxNickEvents
  BY NickEventTypes DEF LinkLost, NickInv
<1>2. answers' \in Seq(NickLines) /\ DOMAIN answers' = {}
  BY EmptySeq DEF LinkLost
<1>3. asks' \in Seq(AskedNicks)
  <2>1. asks \in Seq(AskedNicks)
    BY DEF NickInv, NickTypes
  <2>2. PICK written \in 0..Len(asks) : asks' = SubSeq(asks, written + 1, Len(asks))
    BY DEF LinkLost
  <2>3. Len(asks) \in Nat /\ written + 1 \in 1..(Len(asks) + 1)
    BY <2>1, <2>2, LenProperties
  <2> QED BY <2>1, <2>2, <2>3, SubSeqProperties
<1> QED BY <1>1, <1>2, <1>3 DEF NickInv, NickTypes, LinkLost, LastTold, Nicks

\* The lines that ask for a nick, or do not, and tell none.
LEMMA NoNickTold ==
  ASSUME NickInv, NEW what \in {"005", "JOIN", "433", "QUIT"}, Read(what),
         nicklen' \in BOOLEAN, inList' \in BOOLEAN, UNCHANGED <<session, current, missed>>,
         preferred' \in AskedNicks, preferred'.tail = 0, attempted' \in Nicks, asks' \in Seq(AskedNicks)
  PROVE  NickInv'
<1>1. NickTypes
  BY DEF NickInv
<1>2. Head(answers).what = what
  BY <1>1, LineRead
<1>3. ~TellsNick(Head(answers))
  BY <1>2 DEF TellsNick
<1>4. ~missed' => LastTold'
  BY <1>1, <1>3, LineRead DEF NickInv
<1>5. /\ answers' \in Seq(NickLines) /\ UNCHANGED <<others, given, nickEvents>>
      /\ \A i \in DOMAIN answers' : answers'[i].what = "433" => answers'[i].to \in AskedNicks
  BY <1>1, LineRead
<1>6. NickTypes'
  BY <1>1, <1>5 DEF NickTypes
<1> QED BY <1>4, <1>6 DEF NickInv

LEMMA BotReadsInv == ASSUME NickInv, BotReads PROVE NickInv'
<1>0. NickTypes /\ preferred \in AskedNicks /\ preferred.tail = 0 /\ attempted \in Nicks
      /\ asks \in Seq(AskedNicks)
  BY DEF NickInv, NickTypes
<1>1. CASE Welcome
  <2>1. Read("001") /\ current' = Head(answers).to
    BY <1>1 DEF Welcome
  <2>2. Head(answers) \in NickLines /\ TellsNick(Head(answers))
    BY <1>0, <2>1, LineRead DEF TellsNick
  <2>3. ~missed' => LastTold'
    BY <1>0, <1>1, <2>1, <2>2, LineRead DEF NickInv, Welcome
  <2>4. current' \in Nicks
    BY <2>1, <2>2 DEF NickLines
  <2>5. /\ answers' \in Seq(NickLines) /\ UNCHANGED <<others, given, nickEvents>>
        /\ \A i \in DOMAIN answers' : answers'[i].what = "433" => answers'[i].to \in AskedNicks
    BY <1>0, <2>1, LineRead
  <2> QED BY <1>0, <1>1, <2>3, <2>4, <2>5 DEF Welcome, NoAsk, NickInv, NickTypes
<1>2. CASE Supported
  BY <1>0, <1>2, NoNickTold DEF Supported, NoAsk, NickTypes
<1>3. CASE Joined
  BY <1>0, <1>3, NoNickTold DEF Joined, NoAsk, NickTypes
<1>4. CASE NickRefused
  <2>1. Read("433")
    BY <1>4 DEF NickRefused
  <2>2. Head(answers).to \in AskedNicks
    BY <1>0, <2>1, LineRead
  <2>3. /\ preferred' \in AskedNicks /\ preferred'.tail = 0
        /\ attempted' \in Nicks /\ asks' \in Seq(AskedNicks)
    <3>1. CASE attempted = Head(answers).to
      <4>1. attempted \in AskedNicks /\ attempted # NoNick
        BY <2>2, <3>1, NobodyAsksForNoNick
      <4>2. Nick(attempted.base, attempted.tail + 1) \in AskedNicks
        BY <4>1 DEF AskedNicks, Nick
      <4>3. AskNick(Nick(attempted.base, attempted.tail + 1))
        BY <1>4, <3>1 DEF NickRefused
      <4> QED BY <1>0, <4>1, <4>2, <4>3, AskNickIs
    <3>2. CASE attempted # Head(answers).to
      BY <1>0, <1>4, <3>2 DEF NickRefused, NoAsk
    <3> QED BY <3>1, <3>2
  <2>4. nicklen' \in BOOLEAN /\ inList' \in BOOLEAN /\ UNCHANGED <<session, current, missed>>
    BY <1>0, <1>4 DEF NickRefused, NickTypes
  <2> QED BY <2>1, <2>3, <2>4, NoNickTold
<1>5. CASE Renamed
  <2>1. Read("NICK")
    BY <1>5 DEF Renamed
  <2>2. Head(answers) \in NickLines /\ TellsNick(Head(answers))
    BY <1>0, <2>1, LineRead DEF TellsNick
  <2>3. /\ answers' \in Seq(NickLines) /\ UNCHANGED <<others, given, nickEvents>>
        /\ \A i \in DOMAIN answers' : answers'[i].what = "433" => answers'[i].to \in AskedNicks
    BY <1>0, <2>1, LineRead
  <2>4. /\ missed' \in BOOLEAN /\ current' \in Nicks /\ attempted' \in Nicks
        /\ ~missed' => ~missed /\ current' = Head(answers).to
    <3>1. CASE inList /\ Head(answers).from = current
      BY <1>0, <1>5, <2>2, <3>1 DEF Renamed, NickLines, Nicks, NickTypes
    <3>2. CASE ~(inList /\ Head(answers).from = current)
      BY <1>0, <1>5, <3>2 DEF Renamed, NickTypes
    <3> QED BY <3>1, <3>2
  <2>5. ~missed' => LastTold'
    BY <1>0, <2>1, <2>2, <2>4, LineRead DEF NickInv
  <2> QED BY <1>0, <1>5, <2>3, <2>4, <2>5 DEF Renamed, NickInv, NickTypes
<1>6. CASE NickIsFree
  <2>1. Read("QUIT")
    BY <1>6 DEF NickIsFree
  <2>2. /\ preferred' \in AskedNicks /\ preferred'.tail = 0
        /\ attempted' \in Nicks /\ asks' \in Seq(AskedNicks)
    <3>1. CASE Head(answers).from = preferred
      BY <1>0, <1>6, <3>1, AskNickIs DEF NickIsFree
    <3>2. CASE Head(answers).from # preferred
      BY <1>0, <1>6, <3>2 DEF NickIsFree, NoAsk
    <3> QED BY <3>1, <3>2
  <2>3. nicklen' \in BOOLEAN /\ inList' \in BOOLEAN /\ UNCHANGED <<session, current, missed>>
    BY <1>0, <1>6 DEF NickIsFree, NickTypes
  <2> QED BY <2>1, <2>2, <2>3, NoNickTold
<1> QED BY <1>1, <1>2, <1>3, <1>4, <1>5, <1>6 DEF BotReads

\* The types after lines were appended.
LEMMA AppendedTypes ==
  ASSUME NickTypes, NEW ls \in Seq(NickLines), answers' = answers \o ls,
         \A i \in DOMAIN ls : ls[i].what = "433" => ls[i].to \in AskedNicks
  PROVE  \A i \in DOMAIN answers' : answers'[i].what = "433" => answers'[i].to \in AskedNicks
<1>1. PICK n \in Nat, k \in Nat : n = Len(answers) /\ k = Len(ls)
  BY LinesAppended
<1>2. DOMAIN answers = 1..n /\ DOMAIN answers' = 1..(n + k) /\ DOMAIN ls = 1..k
  BY <1>1, LinesAppended
<1>3. ASSUME NEW i \in DOMAIN answers', answers'[i].what = "433" PROVE answers'[i].to \in AskedNicks
  <2>1. CASE i \in DOMAIN answers
    BY <1>3, <2>1, LinesAppended DEF NickTypes
  <2>2. CASE i \notin DOMAIN answers
    <3>1. i - n \in DOMAIN ls /\ i = n + (i - n)
      BY <1>2, <2>2
    <3>2. answers'[n + (i - n)] = ls[i - n]
      BY <1>1, <3>1, LinesAppended
    <3> QED BY <1>3, <3>1, <3>2
  <2> QED BY <2>1, <2>2
<1> QED BY <1>3

\* What the server answers ends with the nick it gave, if it gave one.
LEMMA NickTold ==
  ASSUME NickTypes, NEW ls \in Seq(NickLines), answers' = answers \o ls,
         1 \in DOMAIN ls, TellsNick(ls[1]), ls[1].to = given',
         \A i \in DOMAIN ls : i > 1 => ~TellsNick(ls[i])
  PROVE  LastTold'
<1>1. PICK n \in Nat, k \in Nat : n = Len(answers) /\ k = Len(ls)
  BY LinesAppended
<1>2. DOMAIN answers = 1..n /\ DOMAIN answers' = 1..(n + k) /\ DOMAIN ls = 1..k
  BY <1>1, LinesAppended
<1>3. n + 1 \in DOMAIN answers' /\ answers'[n + 1] = ls[1]
  BY <1>1, <1>2, LinesAppended
<1>4. ASSUME NEW j \in DOMAIN answers', j > n + 1 PROVE ~TellsNick(answers'[j])
  <2>1. j - n \in DOMAIN ls /\ j - n > 1 /\ j = n + (j - n)
    BY <1>2, <1>4
  <2>2. answers'[n + (j - n)] = ls[j - n]
    BY <1>1, <2>1, LinesAppended
  <2> QED BY <2>1, <2>2
<1> QED BY <1>3, <1>4 DEF LastTold

LEMMA OneLine ==
  ASSUME NEW l \in NickLines
  PROVE  <<l>> \in Seq(NickLines) /\ DOMAIN <<l>> = {1} /\ <<l>>[1] = l
OBVIOUS

LEMMA TwoLines ==
  ASSUME NEW l \in NickLines, NEW m \in NickLines
  PROVE  <<l, m>> \in Seq(NickLines) /\ DOMAIN <<l, m>> = {1, 2} /\ <<l, m>>[1] = l /\ <<l, m>>[2] = m
OBVIOUS

LEMMA ServerAnswersInv == ASSUME NickInv, ServerAnswers PROVE NickInv'
<1>0. NickTypes /\ given \in Nicks /\ asks \in Seq(AskedNicks) /\ answers \in Seq(NickLines)
  BY DEF NickInv, NickTypes
<1>1. asks # <<>> /\ asks' = Tail(asks)
      /\ UNCHANGED <<others, session, preferred, attempted, current, nicklen, inList, nickEvents, missed>>
  BY DEF ServerAnswers
<1>2. Head(asks) \in AskedNicks /\ asks' \in Seq(AskedNicks)
  BY <1>0, <1>1, HeadTailProperties
<1>3. PICK n \in AskedNicks : n = Cut(Head(asks))
  <2>1. Longest \in Nat
    BY NickAssumption
  <2> QED BY <1>2, <2>1 DEF Cut, AskedNicks
<1>4. n \in Nicks /\ NoNick \in Nicks /\ n # NoNick
  BY NobodyAsksForNoNick DEF Nicks
<1>5. given' = IF n \in others THEN given ELSE n
  BY <1>3 DEF ServerAnswers
<1>6. PICK ls \in Seq(NickLines) :
        /\ answers' = answers \o ls
        /\ \A i \in DOMAIN ls : ls[i].what = "433" => ls[i].to \in AskedNicks
        /\ \/ (\A i \in DOMAIN ls : ~TellsNick(ls[i])) /\ given' = given
           \/ /\ 1 \in DOMAIN ls /\ TellsNick(ls[1]) /\ ls[1].to = given'
              /\ \A i \in DOMAIN ls : i > 1 => ~TellsNick(ls[i])
  <2>1. CASE n \in others
    <3>1. PICK l : l = NickLine("433", NoNick, n)
      OBVIOUS
    <3>2. l \in NickLines /\ ~TellsNick(l) /\ l.to = n
      BY <1>4, <3>1 DEF NickLine, NickLines, TellsNick
    <3>3. answers' = answers \o <<l>>
      BY <1>3, <2>1, <3>1 DEF ServerAnswers
    <3> QED BY <1>5, <2>1, <3>2, <3>3, OneLine
  <2>2. CASE n \notin others /\ given = NoNick
    <3>1. PICK l, m : l = NickLine("001", NoNick, n) /\ m = NickLine("005", NoNick, n)
      OBVIOUS
    <3>2. /\ l \in NickLines /\ TellsNick(l) /\ l.to = n /\ l.what # "433"
          /\ m \in NickLines /\ ~TellsNick(m) /\ m.what # "433"
      BY <1>4, <3>1 DEF NickLine, NickLines, TellsNick
    <3>3. answers' = answers \o <<NickLine("001", NoNick, n), NickLine("005", NoNick, n)>>
      BY <1>3, <1>4, <2>2 DEF ServerAnswers
    <3>4. answers' = answers \o <<l, m>>
      BY <3>1, <3>3
    <3>5. /\ <<l, m>> \in Seq(NickLines) /\ DOMAIN <<l, m>> = {1, 2}
          /\ <<l, m>>[1] = l /\ <<l, m>>[2] = m
      BY <3>2, TwoLines
    <3>6. /\ \A i \in {1, 2} : <<l, m>>[i].what # "433"
          /\ TellsNick(<<l, m>>[1]) /\ <<l, m>>[1].to = given'
          /\ \A i \in {1, 2} : i > 1 => ~TellsNick(<<l, m>>[i])
      BY <1>5, <2>2, <3>2, <3>5
    <3> QED BY <3>4, <3>5, <3>6
  <2>3. CASE n \notin others /\ given # NoNick /\ given = n
    <3>1. answers' = answers \o <<>>
      BY <1>3, <2>3 DEF ServerAnswers
    <3>2. <<>> \in Seq(NickLines) /\ DOMAIN <<>> = {}
      BY EmptySeq
    <3> QED BY <1>5, <2>3, <3>1, <3>2
  <2>4. CASE n \notin others /\ given # NoNick /\ given # n
    <3>1. PICK l : l = NickLine("NICK", given, n)
      OBVIOUS
    <3>2. l \in NickLines /\ TellsNick(l) /\ l.to = n /\ l.what # "433"
      BY <1>0, <1>4, <3>1 DEF NickLine, NickLines, TellsNick
    <3>3. answers' = answers \o <<l>>
      BY <1>3, <2>4, <3>1 DEF ServerAnswers
    <3>4. <<l>> \in Seq(NickLines) /\ DOMAIN <<l>> = {1} /\ <<l>>[1] = l
      BY <3>2, OneLine
    <3>5. /\ \A i \in {1} : <<l>>[i].what # "433"
          /\ TellsNick(<<l>>[1]) /\ <<l>>[1].to = given'
          /\ \A i \in {1} : i > 1 => ~TellsNick(<<l>>[i])
      BY <1>5, <2>4, <3>2, <3>4
    <3> QED BY <3>3, <3>4, <3>5
  <2> QED BY <2>1, <2>2, <2>3, <2>4
<1>7. answers' \in Seq(NickLines) /\ given' \in Nicks
      /\ \A i \in DOMAIN answers' : answers'[i].what = "433" => answers'[i].to \in AskedNicks
  BY <1>0, <1>4, <1>5, <1>6, LinesAppended, AppendedTypes
<1>8. ~missed' => LastTold'
  BY <1>0, <1>1, <1>6, LinesOfNoNick, NickTold DEF NickInv
<1> QED BY <1>0, <1>1, <1>2, <1>7, <1>8 DEF NickInv, NickTypes

\* A line that another actor causes.
LEMMA LineFromOthers ==
  ASSUME NickInv, NEW l \in NickLines, l.what \in {"JOIN", "QUIT"}, answers' = Append(answers, l),
         UNCHANGED <<given, current>>
  PROVE  /\ answers' \in Seq(NickLines) /\ (~missed => LastTold')
         /\ \A i \in DOMAIN answers' : answers'[i].what = "433" => answers'[i].to \in AskedNicks
<1>1. NickTypes /\ answers \in Seq(NickLines)
  BY DEF NickInv, NickTypes
<1>2. answers' = answers \o <<l>>
  BY <1>1, AppendIsConcat
<1>3. \A i \in DOMAIN <<l>> : ~TellsNick(<<l>>[i]) /\ <<l>>[i].what # "433"
  BY OneLine DEF TellsNick
<1> QED BY <1>1, <1>2, <1>3, OneLine, LinesAppended, LinesOfNoNick, AppendedTypes DEF NickInv

LEMMA BotJoinsInv == ASSUME NickInv, BotJoins PROVE NickInv'
<1>1. NickLine("JOIN", NoNick, NoNick) \in NickLines
  BY DEF NickLine, NickLines, Nicks
<1>2. answers' = Append(answers, NickLine("JOIN", NoNick, NoNick)) /\ UNCHANGED <<given, current>>
  BY DEF BotJoins
<1>3. NickLine("JOIN", NoNick, NoNick).what = "JOIN"
  BY DEF NickLine
<1>4. /\ answers' \in Seq(NickLines) /\ (~missed => LastTold')
      /\ \A i \in DOMAIN answers' : answers'[i].what = "433" => answers'[i].to \in AskedNicks
  BY <1>1, <1>2, <1>3, LineFromOthers
<1> QED BY <1>4 DEF NickInv, NickTypes, BotJoins

LEMMA OtherTakesInv == ASSUME NickInv, NEW n \in AskedNicks, OtherTakes(n) PROVE NickInv'
<1>1. nickEvents' \in 0..MaxNickEvents
  BY NickEventTypes DEF OtherTakes, NickInv
<1> QED BY <1>1 DEF NickInv, NickTypes, OtherTakes, LastTold, TellsNick

LEMMA OtherQuitsInv == ASSUME NickInv, NEW n \in AskedNicks, OtherQuits(n) PROVE NickInv'
<1>1. nickEvents' \in 0..MaxNickEvents
  BY NickEventTypes DEF OtherQuits, NickInv
<1>2. PICK l : l = NickLine("QUIT", n, NoNick)
  OBVIOUS
<1>3. l \in NickLines /\ l.what = "QUIT"
  BY <1>2 DEF NickLine, NickLines, Nicks
<1>4. answers' = answers \/ answers' = Append(answers, l)
  <2>1. CASE inList
    BY <1>2, <2>1 DEF OtherQuits
  <2>2. CASE ~inList
    BY <2>2 DEF OtherQuits
  <2> QED BY <2>1, <2>2
<1>5. UNCHANGED <<given, session, preferred, attempted, current, nicklen, inList, asks, missed>>
      /\ others' \subseteq others
  BY DEF OtherQuits
<1>6. /\ answers' \in Seq(NickLines) /\ (~missed => LastTold')
      /\ \A i \in DOMAIN answers' : answers'[i].what = "433" => answers'[i].to \in AskedNicks
  <2>1. CASE answers' = answers
    BY <1>5, <2>1 DEF NickInv, NickTypes, LastTold, TellsNick
  <2>2. CASE answers' = Append(answers, l)
    BY <1>3, <1>5, <2>2, LineFromOthers
  <2> QED BY <1>4, <2>1, <2>2
<1> QED BY <1>1, <1>5, <1>6 DEF NickInv, NickTypes

\* The invariant of the nick.
THEOREM NickInvariance == NickSpec => []NickInv
<1>1. NickInit => NickInv
  BY NickFirst
<1>2. NickInv /\ [NickNext]_nickVars => NickInv'
  <2>1. SUFFICES ASSUME NickInv, [NickNext]_nickVars PROVE NickInv'
    OBVIOUS
  <2>2. ASSUME NEW base \in Bases PROVE Nick(base, 0) \in AskedNicks
    BY DEF Nick, AskedNicks
  <2>3. CASE UNCHANGED nickVars
    BY <2>1, <2>3 DEF nickVars, NickInv, NickTypes, LastTold, TellsNick
  <2>4. CASE NickNext
    BY <2>1, <2>2, <2>4, LogInInv, LinkLostInv, BotReadsInv, ServerAnswersInv, BotJoinsInv,
       AdminAsksInv, OtherTakesInv, OtherQuitsInv DEF NickNext
  <2> QED BY <2>1, <2>3, <2>4
<1> QED BY <1>1, <1>2, PTL DEF NickSpec

\* When it has read all the lines, the bot knows its nick, however many nicks it was refused
\* or asked to take, unless the nick changed while it was in no channel; and it goes back to
\* a nick it was told to have.  KnowsItsNick (IrcNick), of 001, 433, NICK and command(NICK).
THEOREM NickIsKnown == NickSpec => []KnowsItsNick
<1>1. NickInv => KnowsItsNick
  <2>1. SUFFICES ASSUME NickInv PROVE KnowsItsNick
    OBVIOUS
  <2>2. answers = <<>> => DOMAIN answers = {}
    BY EmptySeq
  <2> QED BY <2>1, <2>2 DEF NickInv, NickTypes, LastTold, KnowsItsNick
<1> QED BY <1>1, NickInvariance, PTL

\* Every nick is one of the given names and a number of "_": NickTypeOK, of every state.
THEOREM NickTypeCorrect == NickSpec => []NickTypeOK
<1>1. NickInv => NickTypeOK
  <2>1. SUFFICES ASSUME NickInv PROVE NickTypeOK
    OBVIOUS
  <2>2. ASSUME NEW n \in Nicks PROVE n.base \in Bases \cup {""} /\ n.tail \in Nat
    <3>1. NoNick.base = "" /\ NoNick.tail \in Nat
      BY DEF NoNick, Nick
    <3>2. n \in AskedNicks => n.base \in Bases /\ n.tail \in Nat
      BY DEF AskedNicks
    <3>3. n = NoNick => n.base = "" /\ n.tail \in Nat
      BY <3>1
    <3>4. n \in AskedNicks \/ n = NoNick
      BY DEF Nicks
    <3> QED BY <3>2, <3>3, <3>4
  <2>3. others \cup {given, preferred, attempted, current} \subseteq Nicks
    BY <2>1 DEF NickInv, NickTypes, Nicks
  <2> QED BY <2>1, <2>2, <2>3 DEF NickInv, NickTypes, NickTypeOK
<1> QED BY <1>1, NickInvariance, PTL

-----------------------------------------------------------------------------
(* The players of an Unvanquished server (Unvanquished)                    *)

\* A finite set in some order.
LEMMA SetInOrder ==
  ASSUME NEW S, IsFiniteSet(S)
  PROVE  /\ Cardinality(S) \in Nat /\ SetToSeq(S) \in Seq(S) /\ Len(SetToSeq(S)) = Cardinality(S)
         /\ DOMAIN SetToSeq(S) = 1..Cardinality(S)
         /\ S = {SetToSeq(S)[i] : i \in 1..Cardinality(S)}
         /\ \A i, j \in 1..Cardinality(S) : SetToSeq(S)[i] = SetToSeq(S)[j] => i = j
<1>1. PICK n \in Nat : n = Cardinality(S) /\ ExistsBijection(1..n, S)
  BY FS_CardinalityType
<1>2. SetToSeq(S) = CHOOSE f \in [1..n -> S] : IsInjective(f)
  BY <1>1 DEF SetToSeq
<1>3. \E f \in [1..n -> S] : IsInjective(f)
  BY <1>1 DEF ExistsBijection, Bijection, Injection
<1>4. PICK f : f = SetToSeq(S)
  OBVIOUS
<1>5. f \in [1..n -> S] /\ IsInjective(f)
  BY <1>2, <1>3, <1>4
<1>6. f \in Surjection(1..n, S)
  <2>1. f \in Injection(1..n, S)
    BY <1>5 DEF Injection
  <2>2. Cardinality(1..n) = n
    BY <1>1, FS_Interval
  <2> QED BY <1>1, <2>1, <2>2, FS_Injection
<1>7. f \in Seq(S) /\ Len(f) = n
  BY <1>1, <1>5
<1>8. S = {f[i] : i \in 1..n}
  <2>1. \A t \in S : \E i \in 1..n : f[i] = t
    BY <1>6 DEF Surjection
  <2> QED BY <1>5, <2>1
<1> QED BY <1>1, <1>4, <1>5, <1>7, <1>8 DEF IsInjective

BotLines ==
  [type : {"rconInfoResponse", "begin", "end", "chat"}, what : {0}] \cup [type : {"player"}, what : Players]
    \cup [type : {"listing"}, what : Nat] \cup [type : {"map"}, what : STRING]
UnvCommands == {"rconinfo", "status", "listmaps"}

\* Everything has its type, and what is told of is who is there.
UnvTypes ==
  /\ playing \subseteq Players /\ IsFiniteSet(playing)
  /\ present \subseteq Players /\ unchecked \subseteq present /\ told = present
  /\ link \in {"DISCONNECTED", "CONNECTING", "CHECKING", "CONNECTED"}
  /\ polling \in BOOLEAN /\ sure \in BOOLEAN /\ mapsLeft \in Nat
  /\ toServer \in Seq(UnvCommands) /\ toBot \in Seq(BotLines)

\* The lines from b to e are the last answer; if b is 0, the bot has read its beginning.
Whats(b, e) == {toBot[i].what : i \in (b + 1)..(e - 1)}
LastAnswer(b, e) ==
  /\ b < e /\ toBot[e].type = "end" /\ (b > 0 => toBot[b].type = "begin")
  /\ \A i \in (b + 1)..(e - 1) : toBot[i].type = "player"
  /\ \A i \in DOMAIN toBot : i > e => toBot[i].type = "chat"
  /\ b > 0 => Whats(b, e) = listed
  /\ b = 0 => link = "CHECKING" /\ Whats(b, e) \cup (present \ unchecked) = listed

\* When nothing is lost the picture is right, or an answer will make it so, or a question
\* that is on its way.
Repaired ==
  \/ \E b \in 0..Len(toBot), e \in DOMAIN toBot : LastAnswer(b, e)
  \/ present = listed /\ \A i \in DOMAIN toBot : toBot[i].type = "chat"

WhileSure ==
  /\ link # "DISCONNECTED"
  /\ \A i \in DOMAIN toServer : toServer[i] = "status"
  /\ \A i \in DOMAIN toBot : toBot[i].type \in {"begin", "player", "end", "chat"}
  /\ toServer # <<>> \/ Repaired

UnvInv == UnvTypes /\ (sure => WhileSure)

LEMMA UnvFirst == ASSUME UnvInit PROVE UnvInv
<1>1. Garbage \subseteq Nat
  BY UnvanquishedAssumption
<1>2. toServer \in Seq(UnvCommands) /\ toBot \in Seq(BotLines)
  BY EmptySeq DEF UnvInit
<1>3. IsFiniteSet(playing)
  BY FS_EmptySet DEF UnvInit
<1> QED BY <1>1, <1>2, <1>3 DEF UnvInit, UnvInv, UnvTypes

\* Whether the picture is repaired depends on these.
LEMMA RepairedKept ==
  ASSUME UNCHANGED <<toServer, toBot, present, unchecked, listed>>, link' = "CHECKING" \/ link' = link
  PROVE  Repaired => Repaired'
BY DEF Repaired, LastAnswer, Whats

LEMMA SureKept ==
  ASSUME UnvInv, UNCHANGED <<toServer, toBot, present, unchecked, listed, link, sure>>
  PROVE  sure' => WhileSure'
BY DEF UnvInv, WhileSure, Repaired, LastAnswer, Whats

LEMMA PlaysInv == ASSUME UnvInv, NEW p \in Players, Plays(p) PROVE UnvInv'
<1>1. IsFiniteSet(playing') /\ playing' \subseteq Players
  <2>1. playing' = playing \ {p} \/ playing' = playing \cup {p}
    BY DEF Plays
  <2>2. IsFiniteSet(playing) /\ playing \subseteq Players
    BY DEF UnvInv, UnvTypes
  <2> QED BY <2>1, <2>2, FS_AddElement, FS_RemoveElement
<1>2. UNCHANGED <<listed, botSideVars, toServer, toBot, sure>>
  BY DEF Plays
<1>3. sure' => WhileSure'
  BY <1>2, SureKept DEF botSideVars
<1> QED BY <1>1, <1>2, <1>3 DEF UnvInv, UnvTypes, botSideVars

\* Lines that are appended.
LEMMA BotLinesAppended ==
  ASSUME toBot \in Seq(BotLines), NEW ls \in Seq(BotLines), toBot' = toBot \o ls
  PROVE  /\ toBot' \in Seq(BotLines)
         /\ DOMAIN toBot = 1..Len(toBot) /\ DOMAIN ls = 1..Len(ls)
         /\ Len(toBot) \in Nat /\ Len(ls) \in Nat
         /\ Len(toBot') = Len(toBot) + Len(ls) /\ DOMAIN toBot' = 1..(Len(toBot) + Len(ls))
         /\ \A i \in 1..Len(toBot) : toBot'[i] = toBot[i]
         /\ \A i \in 1..Len(ls) : toBot'[Len(toBot) + i] = ls[i]
BY ConcatProperties

LEMMA OneBotLine ==
  ASSUME NEW l \in BotLines
  PROVE  <<l>> \in Seq(BotLines) /\ Len(<<l>>) = 1 /\ <<l>>[1] = l
OBVIOUS

LEMMA ChatsInv == ASSUME UnvInv, Chats PROVE UnvInv'
<1>1. PICK l : l = Line("chat", 0)
  OBVIOUS
<1>2. l \in BotLines /\ l.type = "chat"
  BY <1>1 DEF Line, BotLines
<1>3. toBot' = Append(toBot, l) /\ UNCHANGED <<playing, listed, botSideVars, toServer, sure>>
  BY <1>1 DEF Chats
<1>4. toBot \in Seq(BotLines)
  BY DEF UnvInv, UnvTypes
<1>5. PICK n \in Nat : n = Len(toBot)
  BY <1>4, LenProperties
<1>6. /\ toBot' \in Seq(BotLines) /\ DOMAIN toBot = 1..n /\ DOMAIN toBot' = 1..(n + 1)
      /\ Len(toBot') = n + 1 /\ toBot'[n + 1] = l /\ \A i \in 1..n : toBot'[i] = toBot[i]
  BY <1>2, <1>3, <1>4, <1>5, AppendProperties
<1>7. Repaired => Repaired'
  <2>1. ASSUME NEW b \in 0..n, NEW e \in 1..n, LastAnswer(b, e) PROVE LastAnswer(b, e)'
    <3>1. \A i \in (b + 1)..(e - 1) : i \in 1..n /\ toBot'[i] = toBot[i]
      BY <1>5, <1>6, <2>1
    <3>2. Whats(b, e)' = Whats(b, e)
      BY <3>1 DEF Whats
    <3>3. b > 0 => toBot'[b] = toBot[b]
      BY <1>5, <1>6, <2>1
    <3>4. \A i \in DOMAIN toBot' : i > e => toBot'[i].type = "chat"
      BY <1>2, <1>5, <1>6, <2>1 DEF LastAnswer
    <3> QED BY <1>3, <1>6, <2>1, <3>1, <3>2, <3>3, <3>4 DEF LastAnswer, botSideVars
  <2>2. (\A i \in DOMAIN toBot : toBot[i].type = "chat") => \A i \in DOMAIN toBot' : toBot'[i].type = "chat"
    BY <1>2, <1>5, <1>6
  <2>3. 0..n \subseteq 0..(n + 1) /\ 1..n \subseteq 1..(n + 1)
    BY <1>5
  <2> QED BY <1>3, <1>5, <1>6, <2>1, <2>2, <2>3 DEF Repaired, botSideVars
<1>8. sure' => WhileSure'
  <2>1. WhileSure => \A i \in DOMAIN toBot' : toBot'[i].type \in {"begin", "player", "end", "chat"}
    BY <1>2, <1>5, <1>6 DEF WhileSure
  <2> QED BY <1>3, <1>7, <2>1 DEF WhileSure, UnvInv, botSideVars
<1> QED BY <1>3, <1>6, <1>8 DEF UnvInv, UnvTypes, botSideVars

\* The answer to "status": the players, each once, between the first and the last line.
LEMMA StatusIs ==
  ASSUME IsFiniteSet(playing), playing \subseteq Players
  PROVE  \E n \in Nat :
           /\ Reply("status") \in Seq(BotLines) /\ Len(Reply("status")) = n + 2
           /\ Reply("status")[1].type = "begin" /\ Reply("status")[n + 2].type = "end"
           /\ \A i \in 2..(n + 1) : Reply("status")[i].type = "player"
           /\ {Reply("status")[i].what : i \in 2..(n + 1)} = playing
<1>1. PICK n \in Nat : n = Cardinality(playing)
  BY SetInOrder
<1>h. PICK here : here = SetToSeq(playing)
  OBVIOUS
<1>2. here \in Seq(playing) /\ Len(here) = n /\ DOMAIN here = 1..n /\ playing = {here[i] : i \in 1..n}
  BY <1>1, <1>h, SetInOrder
<1>3. PICK p : p = [i \in 1..n |-> Line("player", here[i])]
  OBVIOUS
<1>4. p \in Seq(BotLines) /\ Len(p) = n
  <2>1. \A i \in 1..n : here[i] \in Players
    BY <1>2
  <2>2. \A i \in 1..n : Line("player", here[i]) \in BotLines
    BY <2>1 DEF Line, BotLines
  <2> QED BY <1>3, <2>2
<1>5. PICK first, last : first = Line("begin", 0) /\ last = Line("end", 0)
  OBVIOUS
<1>6. first \in BotLines /\ last \in BotLines /\ first.type = "begin" /\ last.type = "end"
  BY <1>5 DEF Line, BotLines
<1>7. PICK all : all = (<<first>> \o p) \o <<last>>
  OBVIOUS
<1>8. Reply("status") = all
  BY <1>h, <1>2, <1>3, <1>5, <1>7 DEF Reply
<1>9. PICK front : front = <<first>> \o p
  OBVIOUS
<1>10. <<first>> \in Seq(BotLines) /\ Len(<<first>>) = 1 /\ <<first>>[1] = first
       /\ <<last>> \in Seq(BotLines) /\ Len(<<last>>) = 1 /\ <<last>>[1] = last
  BY <1>6, OneBotLine
<1>11. /\ front \in Seq(BotLines) /\ Len(front) = n + 1
       /\ front[1] = first /\ \A i \in 2..(n + 1) : front[i] = p[i - 1]
  <2>1. /\ front \in Seq(BotLines) /\ Len(front) = 1 + n
        /\ \A i \in 1..(1 + n) : front[i] = IF i <= 1 THEN <<first>>[i] ELSE p[i - 1]
    BY <1>4, <1>9, <1>10, ConcatProperties
  <2> QED BY <1>1, <1>10, <2>1
<1>12. /\ all \in Seq(BotLines) /\ Len(all) = n + 2 /\ all[n + 2] = last
       /\ \A i \in 1..(n + 1) : all[i] = front[i]
  <2>1. /\ all \in Seq(BotLines) /\ Len(all) = (n + 1) + 1
        /\ \A i \in 1..((n + 1) + 1) : all[i] = IF i <= n + 1 THEN front[i] ELSE <<last>>[i - (n + 1)]
    BY <1>7, <1>9, <1>10, <1>11, ConcatProperties
  <2> QED BY <1>1, <1>10, <2>1
<1>13. \A i \in 2..(n + 1) : i - 1 \in 1..n /\ all[i] = Line("player", here[i - 1])
  <2>1. \A i \in 2..(n + 1) : i - 1 \in 1..n /\ all[i] = p[i - 1]
    BY <1>1, <1>11, <1>12
  <2> QED BY <1>3, <2>1
<1>14. \A i \in 2..(n + 1) : all[i].type = "player" /\ all[i].what = here[i - 1]
  <2>1. ASSUME NEW i \in 2..(n + 1) PROVE all[i].type = "player" /\ all[i].what = here[i - 1]
    <3>1. all[i] = Line("player", here[i - 1])
      BY <1>13, <2>1
    <3> QED BY <3>1 DEF Line
  <2> QED BY <2>1
<1>15. {all[i].what : i \in 2..(n + 1)} = playing
  <2>1. ASSUME NEW x \in playing PROVE \E i \in 2..(n + 1) : all[i].what = x
    <3>1. PICK j \in 1..n : here[j] = x
      BY <1>2
    <3>2. j + 1 \in 2..(n + 1) /\ (j + 1) - 1 = j
      BY <1>1
    <3> QED BY <1>14, <3>1, <3>2
  <2>2. \A i \in 2..(n + 1) : all[i].what \in playing
    BY <1>2, <1>13, <1>14
  <2> QED BY <2>1, <2>2
<1> QED BY <1>1, <1>6, <1>8, <1>11, <1>12, <1>14, <1>15

\* The other answers are lines, too.
LEMMA ReplyType ==
  ASSUME UnvTypes, NEW command \in UnvCommands
  PROVE  Reply(command) \in Seq(BotLines)
<1>1. CASE command = "status"
  BY <1>1, StatusIs DEF UnvTypes
<1>2. CASE command = "rconinfo"
  <2>1. Line("rconInfoResponse", 0) \in BotLines
    BY DEF Line, BotLines
  <2>2. Reply(command) = <<Line("rconInfoResponse", 0)>>
    BY <1>2 DEF Reply
  <2> QED BY <2>1, <2>2
<1>3. CASE command = "listmaps"
  <2>1. Maps \in Seq(STRING)
    BY UnvanquishedAssumption
  <2>2. Len(Maps) \in Nat /\ DOMAIN Maps = 1..Len(Maps) /\ \A i \in DOMAIN Maps : Maps[i] \in STRING
    BY <2>1
  <2>3. Line("listing", Len(Maps)) \in BotLines
    BY <2>2 DEF Line, BotLines
  <2>4. \A i \in DOMAIN Maps : Line("map", Maps[i]) \in BotLines
    BY <2>2 DEF Line, BotLines
  <2>5. [i \in DOMAIN Maps |-> Line("map", Maps[i])] \in Seq(BotLines)
    BY <2>2, <2>4
  <2>6. <<Line("listing", Len(Maps))>> \in Seq(BotLines)
    BY <2>3
  <2>7. Reply(command) = <<Line("listing", Len(Maps))>> \o [i \in DOMAIN Maps |-> Line("map", Maps[i])]
    BY <1>3 DEF Reply
  <2> QED BY <2>5, <2>6, <2>7, ConcatProperties
<1> QED BY <1>1, <1>2, <1>3 DEF UnvCommands

\* The command that is executed: the rest.
LEMMA CommandTaken ==
  ASSUME toServer \in Seq(UnvCommands), toServer # <<>>, toServer' = Tail(toServer)
  PROVE  /\ Head(toServer) \in UnvCommands /\ toServer' \in Seq(UnvCommands)
         /\ (\A i \in DOMAIN toServer : toServer[i] = "status") =>
              Head(toServer) = "status" /\ \A i \in DOMAIN toServer' : toServer'[i] = "status"
<1>1. PICK n \in Nat : n = Len(toServer) /\ n > 0
  BY EmptySeq, LenProperties
<1>2. /\ DOMAIN toServer = 1..n /\ toServer' \in Seq(UnvCommands) /\ DOMAIN toServer' = 1..(n - 1)
      /\ \A i \in 1..(n - 1) : toServer'[i] = toServer[i + 1]
      /\ Head(toServer) = toServer[1] /\ Head(toServer) \in UnvCommands
  BY <1>1, HeadTailProperties, LenProperties
<1>3. 1 \in 1..n /\ \A i \in 1..(n - 1) : i + 1 \in 1..n
  BY <1>1
<1> QED BY <1>2, <1>3

LEMMA ServerRepliesInv == ASSUME UnvInv, ServerReplies PROVE UnvInv'
<1>0. UnvTypes /\ toBot \in Seq(BotLines) /\ toServer \in Seq(UnvCommands)
  BY DEF UnvInv, UnvTypes
<1>1. /\ toServer # <<>> /\ toServer' = Tail(toServer) /\ toBot' = toBot \o Reply(Head(toServer))
      /\ listed' = (IF Head(toServer) = "status" THEN playing ELSE listed)
      /\ UNCHANGED <<playing, botSideVars, sure>>
  BY DEF ServerReplies
<1>2. Head(toServer) \in UnvCommands /\ toServer' \in Seq(UnvCommands)
  BY <1>0, <1>1, CommandTaken
<1>3. Reply(Head(toServer)) \in Seq(BotLines)
  BY <1>0, <1>2, ReplyType
<1>4. toBot' \in Seq(BotLines)
  BY <1>0, <1>1, <1>3, BotLinesAppended
<1>5. ASSUME WhileSure PROVE WhileSure'
  <2>1. Head(toServer) = "status" /\ \A i \in DOMAIN toServer' : toServer'[i] = "status"
    BY <1>0, <1>1, <1>5, CommandTaken DEF WhileSure
  <2>2. PICK n \in Nat, all \in Seq(BotLines) :
          /\ toBot' = toBot \o all /\ Len(all) = n + 2
          /\ all[1].type = "begin" /\ all[n + 2].type = "end"
          /\ \A i \in 2..(n + 1) : all[i].type = "player"
          /\ {all[i].what : i \in 2..(n + 1)} = listed'
    <3>1. listed' = playing /\ toBot' = toBot \o Reply("status")
      BY <1>1, <2>1
    <3> QED BY <1>0, <3>1, StatusIs DEF UnvTypes
  <2>3. PICK m \in Nat : m = Len(toBot)
    BY <1>0, LenProperties
  <2>4. /\ DOMAIN toBot = 1..m /\ DOMAIN toBot' = 1..(m + (n + 2)) /\ Len(toBot') = m + (n + 2)
        /\ \A i \in 1..m : toBot'[i] = toBot[i]
        /\ \A i \in 1..(n + 2) : toBot'[m + i] = all[i]
    BY <1>0, <2>2, <2>3, BotLinesAppended
  <2>5. PICK b \in Nat, e \in Nat : b = m + 1 /\ e = m + (n + 2)
    OBVIOUS
  <2>6. \A i \in (m + 1)..e : i - m \in 1..(n + 2) /\ toBot'[i] = all[i - m]
    <3>1. ASSUME NEW i \in (m + 1)..e PROVE i - m \in 1..(n + 2) /\ toBot'[i] = all[i - m]
      <4>1. i - m \in 1..(n + 2) /\ m + (i - m) = i
        BY <2>5
      <4> QED BY <2>4, <4>1
    <3> QED BY <3>1
  <2>7. b \in (m + 1)..e /\ e \in (m + 1)..e /\ b - m = 1 /\ e - m = n + 2 /\ b < e /\ b > 0
    BY <2>5
  <2>8. toBot'[b].type = "begin" /\ toBot'[e].type = "end"
    BY <2>2, <2>6, <2>7
  <2>9. \A i \in (b + 1)..(e - 1) : i \in (m + 1)..e /\ i - m \in 2..(n + 1) /\ toBot'[i] = all[i - m]
    BY <2>5, <2>6
  <2>10. Whats(b, e)' = listed'
    <3>1. ASSUME NEW j \in 2..(n + 1) PROVE \E i \in (b + 1)..(e - 1) : toBot'[i].what = all[j].what
      <4>1. m + j \in (b + 1)..(e - 1) /\ (m + j) - m = j
        BY <2>5
      <4> QED BY <2>9, <4>1
    <3>2. Whats(b, e)' = {all[j].what : j \in 2..(n + 1)}
      <4>1. Whats(b, e)' = {toBot'[i].what : i \in (b + 1)..(e - 1)}
        BY DEF Whats
      <4>2. \A i \in (b + 1)..(e - 1) : i - m \in 2..(n + 1) /\ toBot'[i].what = all[i - m].what
        BY <2>9
      <4>3. ASSUME NEW x \in Whats(b, e)' PROVE x \in {all[j].what : j \in 2..(n + 1)}
        BY <4>1, <4>2
      <4>4. ASSUME NEW j \in 2..(n + 1) PROVE all[j].what \in Whats(b, e)'
        <5>1. PICK i \in (b + 1)..(e - 1) : toBot'[i].what = all[j].what
          BY <3>1
        <5> QED BY <4>1, <5>1
      <4> QED BY <4>3, <4>4
    <3> QED BY <2>2, <3>2
  <2>11. \A i \in DOMAIN toBot' : ~(i > e)
    BY <2>4, <2>5
  <2>12. \A i \in (b + 1)..(e - 1) : toBot'[i].type = "player"
    BY <2>2, <2>9
  <2>13. LastAnswer(b, e)'
    BY <2>7, <2>8, <2>10, <2>11, <2>12 DEF LastAnswer
  <2>14. b \in 0..Len(toBot') /\ e \in DOMAIN toBot'
    BY <2>4, <2>5
  <2>15. Repaired'
    BY <2>13, <2>14 DEF Repaired
  <2>16. \A i \in DOMAIN toBot' : toBot'[i].type \in {"begin", "player", "end", "chat"}
    <3>1. ASSUME NEW i \in DOMAIN toBot' PROVE toBot'[i].type \in {"begin", "player", "end", "chat"}
      <4>1. CASE i \in 1..m
        BY <1>5, <2>4, <4>1 DEF WhileSure
      <4>2. CASE i \notin 1..m
        <5>1. i \in (m + 1)..e /\ (i = b \/ i = e \/ i \in (b + 1)..(e - 1))
          BY <2>4, <2>5, <4>2
        <5> QED BY <2>8, <2>12, <5>1
      <4> QED BY <4>1, <4>2
    <3> QED BY <3>1
  <2>17. link' # "DISCONNECTED"
    BY <1>1, <1>5 DEF WhileSure, botSideVars
  <2> QED BY <2>1, <2>15, <2>16, <2>17 DEF WhileSure
<1> QED BY <1>0, <1>1, <1>2, <1>4, <1>5 DEF UnvInv, UnvTypes, botSideVars

LEMMA ConnectedIs ==
  ASSUME Connected
  PROVE  /\ link = "DISCONNECTED" /\ link' = "CONNECTING" /\ toServer' \in Seq(UnvCommands)
         /\ present' = {} /\ unchecked' = {} /\ told' = {}
BY DEF Connected, UnvCommands

LEMMA ConnectUnvInv == ASSUME UnvInv, ConnectUnv PROVE UnvInv'
<1>1. UNCHANGED <<worldVars, polling, mapsKnown, mapsLeft, toBot, sure>> /\ Connected
  BY DEF ConnectUnv
<1>2. ~sure
  BY <1>1, ConnectedIs DEF UnvInv, WhileSure
<1> QED BY <1>1, <1>2, ConnectedIs DEF UnvInv, UnvTypes, worldVars

LEMMA PollStatusInv == ASSUME UnvInv, PollStatus PROVE UnvInv'
<1>1. UNCHANGED <<worldVars, polling, mapsKnown, mapsLeft, toBot>>
  BY DEF PollStatus
<1>2. CASE link = "DISCONNECTED"
  <2>1. Connected /\ UNCHANGED sure
    BY <1>2 DEF PollStatus
  <2>2. ~sure
    BY <2>1, ConnectedIs DEF UnvInv, WhileSure
  <2> QED BY <1>1, <2>1, <2>2, ConnectedIs DEF UnvInv, UnvTypes, worldVars
<1>3. CASE link # "DISCONNECTED"
  <2>1. /\ link' = "CHECKING" /\ toServer' = Append(toServer, "status")
        /\ sure' = (sure \/ (toServer = <<>> /\ toBot = <<>>)) /\ UNCHANGED <<present, unchecked, told>>
    BY <1>3 DEF PollStatus
  <2>2. toServer \in Seq(UnvCommands) /\ "status" \in UnvCommands
    BY DEF UnvInv, UnvTypes, UnvCommands
  <2>3. PICK n \in Nat : n = Len(toServer)
    BY <2>2, LenProperties
  <2>4. /\ toServer' \in Seq(UnvCommands) /\ DOMAIN toServer = 1..n /\ Len(toServer') = n + 1
        /\ DOMAIN toServer' = 1..(n + 1) /\ toServer'[n + 1] = "status"
        /\ \A i \in 1..n : toServer'[i] = toServer[i]
    BY <2>1, <2>2, <2>3, AppendProperties
  <2>5. toServer' # <<>>
    BY <2>3, <2>4, EmptySeq
  <2>6. ASSUME sure' PROVE WhileSure'
    <3>1. /\ \A i \in DOMAIN toServer : toServer[i] = "status"
          /\ \A i \in DOMAIN toBot : toBot[i].type \in {"begin", "player", "end", "chat"}
      <4>1. CASE sure
        BY <4>1 DEF UnvInv, WhileSure
      <4>2. CASE toServer = <<>> /\ toBot = <<>>
        <5>1. DOMAIN toServer = {} /\ DOMAIN toBot = {}
          BY <4>2, EmptySeq
        <5> QED BY <5>1
      <4> QED BY <2>1, <2>6, <4>1, <4>2
    <3>3. \A i \in DOMAIN toServer' : toServer'[i] = "status"
      BY <2>3, <2>4, <3>1
    <3> QED BY <1>1, <2>1, <2>5, <3>1, <3>3 DEF WhileSure
  <2>7. sure' \in BOOLEAN
    BY <2>1 DEF UnvInv, UnvTypes
  <2> QED BY <1>1, <2>1, <2>4, <2>6, <2>7 DEF UnvInv, UnvTypes, worldVars
<1> QED BY <1>2, <1>3

\* A line that is read or lost: the first, and the rest.
LEMMA BotLineTaken ==
  ASSUME toBot \in Seq(BotLines), toBot # <<>>, toBot' = Tail(toBot)
  PROVE  /\ Len(toBot) \in Nat /\ Len(toBot) > 0 /\ DOMAIN toBot = 1..Len(toBot)
         /\ Head(toBot) = toBot[1] /\ toBot[1] \in BotLines
         /\ toBot' \in Seq(BotLines) /\ Len(toBot') = Len(toBot) - 1 /\ DOMAIN toBot' = 1..(Len(toBot) - 1)
         /\ \A i \in 1..(Len(toBot) - 1) : i + 1 \in 1..Len(toBot) /\ toBot'[i] = toBot[i + 1]
<1>1. PICK n \in Nat : n = Len(toBot) /\ n > 0
  BY EmptySeq, LenProperties
<1>2. /\ DOMAIN toBot = 1..n /\ toBot' \in Seq(BotLines) /\ DOMAIN toBot' = 1..(n - 1)
      /\ Len(toBot') = n - 1 /\ \A i \in 1..(n - 1) : toBot'[i] = toBot[i + 1]
      /\ Head(toBot) = toBot[1] /\ Head(toBot) \in BotLines
  BY <1>1, HeadTailProperties, LenProperties
<1>3. \A i \in 1..(n - 1) : i + 1 \in 1..n
  BY <1>1
<1> QED BY <1>1, <1>2, <1>3

\* What a line that is read does, by its type.
LEMMA LineDoes ==
  ASSUME UnvTypes, ReceiveLine
  PROVE  LET line == toBot[1]
         IN  /\ present' \subseteq Players /\ unchecked' \subseteq present' /\ told' = present'
             /\ link' \in {"CHECKING", "CONNECTED", link} /\ link # "DISCONNECTED"
             /\ polling' \in BOOLEAN /\ mapsLeft' \in Nat /\ toServer' \in Seq(UnvCommands)
             /\ line.type # "rconInfoResponse" => toServer' = toServer
             /\ line.type = "chat" => UNCHANGED <<present, unchecked, link>>
             /\ line.type = "begin" => unchecked' = present' /\ link' = "CHECKING"
             /\ line.type = "player" /\ link = "CHECKING" =>
                  present' \ unchecked' = {line.what} \cup (present \ unchecked) /\ link' = "CHECKING"
             /\ line.type = "end" /\ link = "CHECKING" => present' = present \ unchecked
<1>0. /\ toBot \in Seq(BotLines) /\ toBot # <<>> /\ toBot' = Tail(toBot) /\ link # "DISCONNECTED"
      /\ toServer \in Seq(UnvCommands)
  BY DEF ReceiveLine, UnvTypes
<1>1. PICK line \in BotLines : line = toBot[1] /\ line = Head(toBot)
  BY <1>0, BotLineTaken
<1>2. RconInfo(line) \/ Begin(line) \/ Listed(line) \/ End(line) \/ Outside(line) \/ Ignored(line)
  BY <1>1 DEF ReceiveLine
<1>3. CASE RconInfo(line)
  <2>1. <<"listmaps", "status">> \in Seq(UnvCommands)
    BY DEF UnvCommands
  <2>2. toServer' \in Seq(UnvCommands)
    BY <1>0, <1>3, <2>1, ConcatProperties DEF RconInfo
  <2> QED BY <1>0, <1>1, <1>3, <2>2 DEF RconInfo, UnvTypes
<1>4. CASE Begin(line)
  BY <1>0, <1>1, <1>4 DEF Begin, UnvTypes
<1>5. CASE Listed(line)
  <2>1. line.what \in Players
    BY <1>5 DEF Listed, BotLines
  <2> QED BY <1>0, <1>1, <1>5, <2>1 DEF Listed, UnvTypes
<1>6. CASE End(line)
  BY <1>0, <1>1, <1>6 DEF End, UnvTypes
<1>7. CASE Outside(line)
  <2>1. mapsLeft' \in Nat
    <3>1. line.type = "listing" => line.what \in Nat
      BY DEF BotLines
    <3>2. mapsLeft \in Nat
      BY DEF UnvTypes
    <3>3. CASE mapsLeft > 0
      BY <1>7, <3>2, <3>3 DEF Outside
    <3>4. CASE ~(mapsLeft > 0)
      BY <1>7, <3>1, <3>2, <3>4 DEF Outside
    <3> QED BY <3>3, <3>4
  <2>2. UNCHANGED <<link, polling, present, unchecked, told, toServer>> /\ link # "CHECKING"
        /\ line.type # "begin"
    BY <1>7 DEF Outside
  <2> QED BY <1>0, <1>1, <2>1, <2>2 DEF UnvTypes
<1>8. CASE Ignored(line)
  BY <1>0, <1>1, <1>8 DEF Ignored, UnvTypes, botSideVars
<1> QED BY <1>2, <1>3, <1>4, <1>5, <1>6, <1>7, <1>8

LEMMA RepairGoesOn ==
  ASSUME UnvTypes, ReceiveLine, WhileSure, Repaired
  PROVE  Repaired'
<1>1. PICK n \in Nat : n = Len(toBot)
  BY LenProperties DEF UnvTypes
<1>2. /\ n > 0 /\ DOMAIN toBot = 1..n /\ DOMAIN toBot' = 1..(n - 1) /\ Len(toBot') = n - 1
      /\ \A i \in 1..(n - 1) : i + 1 \in 1..n /\ toBot'[i] = toBot[i + 1]
      /\ UNCHANGED listed
  BY <1>1, BotLineTaken DEF UnvTypes, ReceiveLine, worldVars
<1>3. CASE present = listed /\ \A i \in DOMAIN toBot : toBot[i].type = "chat"
  <2>1. toBot[1].type = "chat"
    BY <1>1, <1>2, <1>3
  <2>2. present' = present
    BY <2>1, LineDoes
  <2>3. \A i \in DOMAIN toBot' : toBot'[i].type = "chat"
    BY <1>2, <1>3
  <2> QED BY <1>2, <1>3, <2>2, <2>3 DEF Repaired
<1>4. ASSUME NEW b \in 0..n, NEW e \in 1..n, LastAnswer(b, e)
      PROVE  Repaired'
  <2>1. /\ b < e /\ toBot[e].type = "end" /\ (b > 0 => toBot[b].type = "begin")
        /\ \A i \in (b + 1)..(e - 1) : toBot[i].type = "player"
        /\ \A i \in 1..n : i > e => toBot[i].type = "chat"
        /\ b > 0 => Whats(b, e) = listed
        /\ b = 0 => link = "CHECKING" /\ Whats(b, e) \cup (present \ unchecked) = listed
    BY <1>2, <1>4 DEF LastAnswer
  <2>2. CASE b > 0
    <3>1. PICK c \in Nat, f \in Nat : c = b - 1 /\ f = e - 1
      BY <1>1, <2>1, <2>2
    <3>2. c < f /\ f \in 1..(n - 1) /\ c \in 0..(n - 1) /\ f + 1 = e /\ c + 1 = b
      BY <1>1, <2>1, <2>2, <3>1
    <3>3. toBot'[f].type = "end" /\ (c > 0 => toBot'[c].type = "begin")
      <4>1. toBot'[f] = toBot[e]
        BY <1>2, <3>2
      <4>2. c > 0 => c \in 1..(n - 1)
        BY <1>1, <3>2
      <4>3. c > 0 => toBot'[c] = toBot[b]
        BY <1>2, <3>2, <4>2
      <4> QED BY <2>1, <2>2, <4>1, <4>3
    <3>4. \A i \in (c + 1)..(f - 1) :
            i + 1 \in (b + 1)..(e - 1) /\ i \in 1..(n - 1) /\ toBot'[i] = toBot[i + 1]
      BY <1>1, <1>2, <3>2
    <3>5. \A i \in (c + 1)..(f - 1) : toBot'[i].type = "player"
      BY <2>1, <3>4
    <3>6. \A i \in DOMAIN toBot' : i > f => toBot'[i].type = "chat"
      BY <1>1, <1>2, <2>1, <3>2
    <3>7. Whats(c, f)' = listed'
      <4>1. \A i \in (b + 1)..(e - 1) : i - 1 \in (c + 1)..(f - 1) /\ (i - 1) + 1 = i
        BY <1>1, <3>2
      <4>2. Whats(c, f)' = Whats(b, e)
        <5>1. Whats(c, f)' = {toBot'[i].what : i \in (c + 1)..(f - 1)}
          BY DEF Whats
        <5>2. ASSUME NEW x \in Whats(c, f)' PROVE x \in Whats(b, e)
          BY <3>4, <5>1 DEF Whats
        <5>3. ASSUME NEW i \in (b + 1)..(e - 1) PROVE toBot[i].what \in Whats(c, f)'
          BY <3>4, <4>1, <5>1
        <5> QED BY <5>2, <5>3 DEF Whats
      <4> QED BY <1>2, <2>1, <2>2, <4>2
    <3>8. c = 0 => link' = "CHECKING" /\ present' \ unchecked' = {}
      <4>1. c = 0 => toBot[1].type = "begin"
        BY <2>1, <2>2, <3>2
      <4>2. toBot[1].type = "begin" => unchecked' = present' /\ link' = "CHECKING"
        BY LineDoes
      <4> QED BY <4>1, <4>2
    <3>9. LastAnswer(c, f)'
      BY <3>2, <3>3, <3>5, <3>6, <3>7, <3>8 DEF LastAnswer
    <3> QED BY <1>2, <3>2, <3>9 DEF Repaired
  <2>3. CASE b = 0 /\ e = 1
    <3>1. toBot[1].type = "end" /\ link = "CHECKING"
      BY <2>1, <2>3
    <3>2. present' = present \ unchecked
      BY <3>1, LineDoes
    <3>3. Whats(b, e) = {}
      BY <2>3 DEF Whats
    <3>4. \A i \in DOMAIN toBot' : toBot'[i].type = "chat"
      BY <1>1, <1>2, <2>1, <2>3
    <3> QED BY <1>2, <2>1, <2>3, <3>2, <3>3, <3>4 DEF Repaired
  <2>4. CASE b = 0 /\ e > 1
    <3>1. PICK f \in Nat : f = e - 1
      BY <1>1, <2>4
    <3>2. 0 < f /\ f \in 1..(n - 1) /\ 0 \in 0..(n - 1) /\ f + 1 = e
      BY <1>1, <2>4, <3>1
    <3>3. toBot'[f].type = "end"
      BY <1>2, <2>1, <3>2
    <3>4. \A i \in 1..(f - 1) : i + 1 \in 1..(e - 1) /\ i \in 1..(n - 1) /\ toBot'[i] = toBot[i + 1]
      BY <1>1, <1>2, <3>2
    <3>5. \A i \in 1..(f - 1) : toBot'[i].type = "player"
      BY <2>1, <2>4, <3>4
    <3>6. \A i \in DOMAIN toBot' : i > f => toBot'[i].type = "chat"
      BY <1>1, <1>2, <2>1, <3>2
    <3>7. toBot[1].type = "player" /\ link = "CHECKING"
      BY <1>1, <2>1, <2>4
    <3>8. present' \ unchecked' = {toBot[1].what} \cup (present \ unchecked) /\ link' = "CHECKING"
      BY <3>7, LineDoes
    <3>9. Whats(b, e) = Whats(0, f)' \cup {toBot[1].what}
      <4>1. /\ Whats(0, f)' = {toBot'[i].what : i \in 1..(f - 1)}
            /\ Whats(b, e) = {toBot[i].what : i \in 1..(e - 1)}
        BY <2>4 DEF Whats
      <4>2. \A i \in 1..(e - 1) : i = 1 \/ (i - 1 \in 1..(f - 1) /\ (i - 1) + 1 = i)
        BY <1>1, <3>2
      <4>3. ASSUME NEW x \in Whats(0, f)' PROVE x \in Whats(b, e)
        BY <3>4, <4>1
      <4>4. toBot[1].what \in Whats(b, e)
        BY <1>1, <2>4, <4>1
      <4>5. ASSUME NEW i \in 1..(e - 1) PROVE toBot[i].what \in Whats(0, f)' \cup {toBot[1].what}
        <5>1. CASE i = 1
          BY <5>1
        <5>2. CASE i # 1
          <6>1. i - 1 \in 1..(f - 1) /\ (i - 1) + 1 = i
            BY <4>2, <5>2
          <6>2. toBot'[i - 1] = toBot[i]
            BY <3>4, <6>1
          <6> QED BY <4>1, <6>1, <6>2
        <5> QED BY <5>1, <5>2
      <4> QED BY <4>1, <4>3, <4>4, <4>5
    <3>10. Whats(0, f)' \cup (present' \ unchecked') = listed'
      BY <1>2, <2>1, <2>4, <3>8, <3>9
    <3>11. LastAnswer(0, f)'
      BY <3>2, <3>3, <3>5, <3>6, <3>8, <3>10 DEF LastAnswer
    <3> QED BY <1>2, <3>2, <3>11 DEF Repaired
  <2>5. (b > 0) \/ (b = 0 /\ e = 1) \/ (b = 0 /\ e > 1)
    BY <1>1
  <2> QED BY <2>2, <2>3, <2>4, <2>5
<1> QED BY <1>1, <1>2, <1>3, <1>4 DEF Repaired

LEMMA ReceiveLineInv == ASSUME UnvInv, ReceiveLine PROVE UnvInv'
<1>0. UnvTypes /\ toBot \in Seq(BotLines)
  BY DEF UnvInv, UnvTypes
<1>1. UNCHANGED <<worldVars, sure>> /\ toBot # <<>> /\ toBot' = Tail(toBot)
  BY DEF ReceiveLine
<1>2. UnvTypes'
  BY <1>0, <1>1, LineDoes, BotLineTaken DEF UnvTypes, worldVars
<1>3. ASSUME WhileSure PROVE WhileSure'
  <2>1. toBot[1].type # "rconInfoResponse"
    <3>1. 1 \in DOMAIN toBot
      BY <1>0, <1>1, BotLineTaken
    <3> QED BY <1>3, <3>1 DEF WhileSure
  <2>2. toServer' = toServer
    BY <1>0, <2>1, LineDoes
  <2>3. link' # "DISCONNECTED"
    BY <1>0, LineDoes
  <2>4. \A i \in DOMAIN toBot' : toBot'[i].type \in {"begin", "player", "end", "chat"}
    BY <1>0, <1>1, <1>3, BotLineTaken DEF WhileSure
  <2>5. toServer # <<>> \/ Repaired'
    BY <1>0, <1>3, RepairGoesOn DEF WhileSure
  <2> QED BY <1>3, <2>2, <2>3, <2>4, <2>5 DEF WhileSure
<1> QED BY <1>1, <1>2, <1>3 DEF UnvInv

LEMMA MishapInv == ASSUME UnvInv, LineLost \/ CommandLost \/ LinkFails PROVE UnvInv'
<1>0. UnvTypes /\ toBot \in Seq(BotLines) /\ toServer \in Seq(UnvCommands)
  BY DEF UnvInv, UnvTypes
<1>1. sure' = FALSE
  BY DEF LineLost, CommandLost, LinkFails, Mishap
<1>2. CASE LineLost
  BY <1>0, <1>1, <1>2, BotLineTaken DEF LineLost, UnvInv, UnvTypes, worldVars, botSideVars
<1>3. CASE CommandLost
  BY <1>0, <1>1, <1>3, CommandTaken DEF CommandLost, UnvInv, UnvTypes, worldVars, botSideVars
<1>4. CASE LinkFails
  BY <1>0, <1>1, <1>4, EmptySeq DEF LinkFails, UnvInv, UnvTypes, worldVars
<1> QED BY <1>2, <1>3, <1>4

\* The invariant of the players.
THEOREM UnvInvariance == UnvSpec => []UnvInv
<1>1. UnvInit => UnvInv
  BY UnvFirst
<1>2. UnvInv /\ [UnvNext]_unvVars => UnvInv'
  <2>1. SUFFICES ASSUME UnvInv, [UnvNext]_unvVars PROVE UnvInv'
    OBVIOUS
  <2>2. CASE UNCHANGED unvVars
    BY <2>1, <2>2, SureKept DEF unvVars, worldVars, botSideVars, UnvInv, UnvTypes
  <2>3. CASE UnvNext
    BY <2>1, <2>3, PlaysInv, ChatsInv, ServerRepliesInv, ConnectUnvInv, PollStatusInv, ReceiveLineInv,
       MishapInv DEF UnvNext
  <2> QED BY <2>1, <2>2, <2>3
<1> QED BY <1>1, <1>2, PTL DEF UnvSpec

\* A poll that loses nothing repairs the picture of the players, whatever was lost before it
\* and whatever polls overlap.  KnowsThePlayers (Unvanquished), of on_receive() and
\* request_status().
THEOREM UnvPlayersAreKnown == UnvSpec => []KnowsThePlayers
<1>1. UnvInv => KnowsThePlayers
  <2>1. SUFFICES ASSUME UnvInv, sure, toServer = <<>>, toBot = <<>> PROVE present = listed /\ told = listed
    BY DEF KnowsThePlayers, Quiescent
  <2>2. Repaired /\ DOMAIN toBot = {}
    BY <2>1, EmptySeq DEF UnvInv, WhileSure
  <2> QED BY <2>1, <2>2 DEF UnvInv, UnvTypes, Repaired
<1> QED BY <1>1, UnvInvariance, PTL

\* Only players are shown as users, and only users wait to be checked: UnvTypeOK.
THEOREM UnvTypeCorrect == UnvSpec => []UnvTypeOK
<1>1. UnvInv => UnvTypeOK
  BY DEF UnvInv, UnvTypes, UnvTypeOK
<1> QED BY <1>1, UnvInvariance, PTL

-----------------------------------------------------------------------------
(* Induction over the naturals                                             *)

Less == {p \in Nat \X Nat : p[1] < p[2]}

LEMMA LessIsWellFounded == IsWellFoundedOn(Less, Nat)
<1>1. IsWellFoundedOn(OpToRel(<, Nat), Nat)
  BY NatLessThanWellFounded
<1>2. OpToRel(<, Nat) = Less
  BY DEF OpToRel, Less
<1> QED BY <1>1, <1>2

\* A set of naturals has a least element.
LEMMA LeastOf == ASSUME NEW S \in SUBSET Nat, S # {} PROVE \E m \in S : \A k \in S : m <= k
<1>1. PICK m \in S : \A k \in S : ~(<<k, m>> \in Less)
  BY LessIsWellFounded, WFMin
<1>2. ASSUME NEW k \in S PROVE m <= k
  <2>1. m \in Nat /\ k \in Nat /\ <<k, m>> \in Nat \X Nat
    BY <1>1
  <2>2. ~(k < m)
    <3>1. <<k, m>> \notin Less
      BY <1>1
    <3> QED BY <2>1, <3>1 DEF Less
  <2> QED BY <2>1, <2>2
<1> QED BY <1>1, <1>2

\* Induction: a set of naturals with 0 and the successor of each of its members is Nat.
LEMMA AllOfNat == ASSUME NEW S \in SUBSET Nat, 0 \in S, \A n \in S : n + 1 \in S PROVE S = Nat
<1>1. SUFFICES ASSUME S # Nat PROVE FALSE
  OBVIOUS
<1>2. PICK m \in Nat \ S : \A k \in Nat \ S : m <= k
  BY <1>1, LeastOf
<1>3. m - 1 \in Nat /\ m - 1 \in S /\ m - 1 + 1 = m
  BY <1>2
<1> QED BY <1>2, <1>3


-----------------------------------------------------------------------------
(* The players of a Xonotic server (XonoticGame)                           *)

GameUsers == [id : 0..MaxId, entity : Entities, shows : 1..MaxId, checked : BOOLEAN]

\* One entry an entity; and what a list holds.
OneEach(us) == \A i, j \in DOMAIN us : us[i].entity = us[j].entity => i = j
Held(us) == {us[i] : i \in DOMAIN us}

LEMMA OfList ==
  ASSUME NEW S, NEW us \in Seq(S)
  PROVE  Len(us) \in Nat /\ DOMAIN us = 1..Len(us) /\ (\A i \in 1..Len(us) : us[i] \in S)
         /\ Held(us) \subseteq S /\ Held(us) = ToSet(us)
<1>1. Len(us) \in Nat /\ DOMAIN us = 1..Len(us)
  BY LenProperties
<1>2. \A i \in 1..Len(us) : us[i] \in S
  BY <1>1, ElementOfSeq
<1> QED BY <1>1, <1>2 DEF Held, ToSet, Range

\* An entry behind the others.
LEMMA OneMore ==
  ASSUME NEW S, NEW us \in Seq(S), NEW u \in S
  PROVE  /\ Append(us, u) \in Seq(S) /\ Held(Append(us, u)) = Held(us) \cup {u}
         /\ OneEach(us) /\ (\A v \in Held(us) : v.entity # u.entity) => OneEach(Append(us, u))
<1>1. PICK n \in Nat : n = Len(us)
  BY OfList
<1>2. PICK vs : vs = Append(us, u)
  OBVIOUS
<1>3. /\ vs \in Seq(S) /\ DOMAIN us = 1..n /\ DOMAIN vs = 1..(n + 1) /\ vs[n + 1] = u
      /\ \A i \in 1..n : vs[i] = us[i]
  BY <1>1, <1>2, AppendProperties, LenProperties
<1>4. Held(vs) = Held(us) \cup {u}
  <2>1. \A i \in 1..(n + 1) : i = n + 1 \/ i \in 1..n
    BY <1>1
  <2>2. n + 1 \in 1..(n + 1) /\ \A i \in 1..n : i \in 1..(n + 1)
    BY <1>1
  <2>3. ASSUME NEW x \in Held(vs) PROVE x \in Held(us) \cup {u}
    BY <1>3, <2>1 DEF Held
  <2>4. ASSUME NEW x \in Held(us) PROVE x \in Held(vs)
    BY <1>3, <2>2 DEF Held
  <2>5. u \in Held(vs)
    BY <1>3, <2>2 DEF Held
  <2> QED BY <2>3, <2>4, <2>5
<1>5. ASSUME OneEach(us), \A v \in Held(us) : v.entity # u.entity PROVE OneEach(vs)
  <2>1. ASSUME NEW i \in 1..(n + 1), NEW j \in 1..(n + 1), vs[i].entity = vs[j].entity PROVE i = j
    <3>1. \A k \in 1..n : us[k] \in Held(us) /\ us[k].entity # u.entity
      BY <1>3, <1>5 DEF Held
    <3>2. (i = n + 1 \/ i \in 1..n) /\ (j = n + 1 \/ j \in 1..n)
      BY <1>1
    <3>3. CASE i = n + 1 /\ j \in 1..n
      BY <1>3, <2>1, <3>1, <3>3
    <3>4. CASE j = n + 1 /\ i \in 1..n
      BY <1>3, <2>1, <3>1, <3>4
    <3>5. CASE i \in 1..n /\ j \in 1..n
      BY <1>3, <1>5, <2>1, <3>5 DEF OneEach
    <3> QED BY <3>2, <3>3, <3>4, <3>5
  <2> QED BY <1>3, <2>1 DEF OneEach
<1> QED BY <1>2, <1>3, <1>4, <1>5

\* The users of a set, by induction over the list.
Runs(us, kept, g, m) ==
  g = [i \in 0..m |-> IF i = 0 THEN <<>>
                      ELSE IF us[i] \in kept THEN Append(g[i - 1], us[i]) ELSE g[i - 1]]

LEMMA RunsExist == ASSUME NEW us, NEW kept, NEW m \in Nat PROVE \E g : Runs(us, kept, g, m)
<1> DEFINE S == {k \in Nat : \E g : Runs(us, kept, g, k)}
<1>1. 0 \in S
  <2>1. Runs(us, kept, [i \in 0..0 |-> <<>>], 0)
    BY DEF Runs
  <2> QED BY <2>1
<1>2. ASSUME NEW k \in S PROVE k + 1 \in S
  <2>1. PICK g : Runs(us, kept, g, k)
    OBVIOUS
  <2> DEFINE next == IF us[k + 1] \in kept THEN Append(g[k], us[k + 1]) ELSE g[k]
             h == [i \in 0..(k + 1) |-> IF i = k + 1 THEN next ELSE g[i]]
  <2>2. \A i \in 0..k : h[i] = g[i]
    OBVIOUS
  <2>3. \A i \in 0..k : g[i] = IF i = 0 THEN <<>>
                               ELSE IF us[i] \in kept THEN Append(g[i - 1], us[i]) ELSE g[i - 1]
    BY <2>1 DEF Runs
  <2>4. \A i \in 0..(k + 1) :
          h[i] = IF i = 0 THEN <<>>
                 ELSE IF us[i] \in kept THEN Append(h[i - 1], us[i]) ELSE h[i - 1]
    <3> TAKE i \in 0..(k + 1)
    <3>1. CASE i = k + 1
      <4>1. h[k] = g[k] /\ i # 0 /\ i - 1 = k /\ h[i] = next
        BY <2>2, <3>1
      <4> QED BY <3>1, <4>1
    <3>2. CASE i # k + 1
      <4>1. i \in 0..k /\ (i # 0 => i - 1 \in 0..k)
        BY <3>2
      <4> HIDE DEF h
      <4> QED BY <2>2, <2>3, <4>1
    <3> QED BY <3>1, <3>2
  <2>5. h = [i \in 0..(k + 1) |-> h[i]]
    OBVIOUS
  <2> HIDE DEF h
  <2>6. Runs(us, kept, h, k + 1)
    BY <2>4, <2>5 DEF Runs
  <2> QED BY <2>6
<1>3. S = Nat
  <2> HIDE DEF S
  <2>1. S \in SUBSET Nat
    BY DEF S
  <2> QED BY <1>1, <1>2, <2>1, AllOfNat
<1> QED BY <1>3

\* What the server's handlers leave of the users.
LEMMA OnlyThoseIs ==
  ASSUME NEW kept, users \in Seq(GameUsers), OneEach(users)
  PROVE  /\ OnlyThose(kept) \in Seq(GameUsers) /\ OneEach(OnlyThose(kept))
         /\ Held(OnlyThose(kept)) = Held(users) \cap kept
<1>0. PICK us : us = users
  OBVIOUS
<1> DEFINE f == CHOOSE g : Runs(us, kept, g, Len(us))
           To(m) == {us[i] : i \in 1..m} \cap kept
           S == {m \in Nat : m <= Len(us) => f[m] \in Seq(GameUsers) /\ OneEach(f[m]) /\ Held(f[m]) = To(m)}
<1>1. Len(us) \in Nat /\ DOMAIN us = 1..Len(us) /\ \A i \in 1..Len(us) : us[i] \in GameUsers
  BY <1>0, OfList
<1>2. Runs(us, kept, f, Len(us))
  BY <1>1, RunsExist
<1>3. OnlyThose(kept) = f[Len(us)]
  BY <1>0 DEF OnlyThose, Runs
<1>4. \A i \in 0..Len(us) : f[i] = IF i = 0 THEN <<>>
                                 ELSE IF us[i] \in kept THEN Append(f[i - 1], us[i]) ELSE f[i - 1]
  BY <1>2 DEF Runs
<1> HIDE DEF f
<1>5. 0 \in S
  <2>1. f[0] = <<>> /\ <<>> \in Seq(GameUsers) /\ DOMAIN <<>> = {}
    BY <1>1, <1>4, EmptySeq
  <2>2. Held(f[0]) = {} /\ OneEach(f[0])
    BY <2>1 DEF Held, OneEach
  <2>3. To(0) = {}
    OBVIOUS
  <2> QED BY <2>1, <2>2, <2>3
<1>6. ASSUME NEW m \in S PROVE m + 1 \in S
  <2>1. SUFFICES ASSUME m + 1 <= Len(us)
                 PROVE  f[m + 1] \in Seq(GameUsers) /\ OneEach(f[m + 1]) /\ Held(f[m + 1]) = To(m + 1)
    OBVIOUS
  <2>2. /\ m \in Nat /\ m + 1 \in 1..Len(us) /\ m + 1 \in 0..Len(us) /\ m + 1 # 0
        /\ (m + 1) - 1 = m /\ m <= Len(us)
        /\ \A i \in 1..(m + 1) : i = m + 1 \/ i \in 1..m
        /\ \A i \in 1..m : i \in 1..(m + 1) /\ i # m + 1 /\ i \in 1..Len(us)
        /\ m + 1 \in 1..(m + 1)
    BY <1>1, <2>1
  <2>3. f[m] \in Seq(GameUsers) /\ OneEach(f[m]) /\ Held(f[m]) = To(m)
    BY <2>2
  <2>4. f[m + 1] = IF us[m + 1] \in kept THEN Append(f[m], us[m + 1]) ELSE f[m]
    BY <1>4, <2>2
  <2>5. PICK u \in GameUsers : u = us[m + 1]
    BY <1>1, <2>2
  <2>6. \A v \in To(m) : v.entity # u.entity
    BY <1>0, <1>1, <2>2, <2>5 DEF OneEach
  <2>7. To(m + 1) = IF u \in kept THEN To(m) \cup {u} ELSE To(m)
    BY <2>2, <2>5
  <2> HIDE DEF To
  <2>8. CASE u \in kept
    <3>1. f[m + 1] = Append(f[m], u)
      BY <2>4, <2>5, <2>8
    <3>2. PICK g \in Seq(GameUsers) : g = f[m]
      BY <2>3
    <3>3. OneEach(g) /\ Held(g) = To(m) /\ \A v \in Held(g) : v.entity # u.entity
      BY <2>3, <2>6, <3>2
    <3>4. /\ Append(g, u) \in Seq(GameUsers) /\ OneEach(Append(g, u))
          /\ Held(Append(g, u)) = Held(g) \cup {u}
      BY <3>3, OneMore
    <3> QED BY <2>7, <2>8, <3>1, <3>2, <3>3, <3>4
  <2>9. CASE u \notin kept
    BY <2>3, <2>4, <2>5, <2>7, <2>9
  <2> QED BY <2>8, <2>9
<1>7. S = Nat
  <2> HIDE DEF S
  <2>1. S \in SUBSET Nat
    BY DEF S
  <2> QED BY <1>5, <1>6, <2>1, AllOfNat
<1>8. f[Len(us)] \in Seq(GameUsers) /\ OneEach(f[Len(us)]) /\ Held(f[Len(us)]) = To(Len(us))
  <2>1. Len(us) \in S
    BY <1>1, <1>7
  <2> HIDE DEF To, f
  <2> QED BY <1>1, <2>1
<1>9. To(Len(us)) = Held(us) \cap kept
  BY <1>1 DEF Held
<1> HIDE DEF To, S
<1> QED BY <1>0, <1>3, <1>8, <1>9

\* All are marked as not seen yet.
LEMMA UncheckedAre ==
  ASSUME users \in Seq(GameUsers), OneEach(users),
         NEW us, us = [i \in DOMAIN users |-> [users[i] EXCEPT !.checked = FALSE]]
  PROVE  /\ us \in Seq(GameUsers) /\ OneEach(us)
         /\ \A v \in Held(us) : ~v.checked /\ \E u \in Held(users) : u.id = v.id /\ u.entity = v.entity
<1>1. PICK n \in Nat : n = Len(users)
  BY OfList
<1>2. DOMAIN users = 1..n /\ \A i \in 1..n : users[i] \in GameUsers
  BY <1>1, OfList
<1>3. ASSUME NEW i \in 1..n
      PROVE  /\ us[i] \in GameUsers /\ ~us[i].checked
             /\ us[i].entity = users[i].entity /\ us[i].id = users[i].id
  BY <1>2 DEF GameUsers
<1>4. us \in Seq(GameUsers) /\ DOMAIN us = 1..n
  BY <1>1, <1>2, <1>3
<1>5. OneEach(us)
  BY <1>2, <1>3, <1>4 DEF OneEach
<1>6. ASSUME NEW v \in Held(us)
      PROVE  ~v.checked /\ \E u \in Held(users) : u.id = v.id /\ u.entity = v.entity
  <2>1. PICK i \in 1..n : v = us[i]
    BY <1>4 DEF Held
  <2>2. users[i] \in Held(users)
    BY <1>2 DEF Held
  <2> QED BY <1>3, <2>1, <2>2
<1> QED BY <1>4, <1>5, <1>6

\* The user of the entity is updated, or a new one has no id.
LEMMA CheckUserIs ==
  ASSUME users \in Seq(GameUsers), OneEach(users),
         NEW line, line.entity \in Entities, line.id \in 1..MaxId
  PROVE  \E w \in GameUsers :
           /\ w.entity = line.entity /\ w.shows = line.id /\ w.checked
           /\ \/ \E u \in Held(users) : u.entity = w.entity /\ u.id = w.id
              \/ w.id = Nobody /\ \A u \in Held(users) : u.entity # w.entity
           /\ check_user(line) \in Seq(GameUsers) /\ OneEach(check_user(line))
           /\ Held(check_user(line)) = {u \in Held(users) : u.entity # line.entity} \cup {w}
<1>1. PICK n \in Nat : n = Len(users)
  BY OfList
<1>2. DOMAIN users = 1..n /\ \A i \in 1..n : users[i] \in GameUsers
  BY <1>1, OfList
<1> DEFINE I == {i \in 1..n : users[i].entity = line.entity}
           same == SelectInSeq(users, LAMBDA u : u.entity = line.entity)
<1>3. same = IF I # {} THEN Min(I) ELSE 0
  BY <1>1 DEF SelectInSeq
<1>4. check_user(line) = IF same > 0
                         THEN [users EXCEPT ![same].shows = line.id, ![same].checked = TRUE]
                         ELSE Append(users, [id |-> Nobody, entity |-> line.entity, shows |-> line.id,
                                             checked |-> TRUE])
  BY DEF check_user
<1> HIDE DEF same
<1>5. CASE I # {}
  <2>1. PICK k \in I : TRUE
    BY <1>5
  <2>2. \A i \in I : i = k
    BY <1>2, <2>1 DEF OneEach
  <2>3. Min(I) = k
    BY <2>1, <2>2 DEF Min
  <2>4. same = k /\ k \in 1..n /\ k > 0
    BY <1>3, <1>5, <2>1, <2>3
  <2>5. PICK us : us = [users EXCEPT ![k].shows = line.id, ![k].checked = TRUE]
    OBVIOUS
  <2>6. check_user(line) = us
    BY <1>4, <2>4, <2>5
  <2>7. PICK w : w = [users[k] EXCEPT !.shows = line.id, !.checked = TRUE]
    OBVIOUS
  <2>8. users[k] \in GameUsers /\ users[k].entity = line.entity
    BY <1>2, <2>1
  <2>9. w \in GameUsers /\ w.entity = line.entity /\ w.shows = line.id /\ w.checked /\ w.id = users[k].id
    BY <2>7, <2>8 DEF GameUsers
  <2>10. us = [i \in 1..n |-> IF i = k THEN w ELSE users[i]]
    BY <1>2, <2>4, <2>5, <2>7
  <2>11. us \in Seq(GameUsers) /\ DOMAIN us = 1..n
    BY <1>1, <1>2, <2>9, <2>10
  <2>12. \A i \in 1..n : us[i].entity = users[i].entity
    BY <2>8, <2>9, <2>10
  <2>13. OneEach(us)
    BY <1>2, <2>11, <2>12 DEF OneEach
  <2>14. Held(us) = {u \in Held(users) : u.entity # line.entity} \cup {w}
    <3>1. \A i \in 1..n : i # k => users[i].entity # line.entity
      BY <2>2
    <3>2. ASSUME NEW x \in Held(us) PROVE x \in {u \in Held(users) : u.entity # line.entity} \cup {w}
      BY <1>2, <2>10, <2>11, <3>1 DEF Held
    <3>3. ASSUME NEW x \in Held(users), x.entity # line.entity PROVE x \in Held(us)
      BY <1>2, <2>8, <2>10, <2>11, <3>3 DEF Held
    <3>4. w \in Held(us)
      BY <2>4, <2>10, <2>11 DEF Held
    <3> QED BY <3>2, <3>3, <3>4
  <2>15. users[k] \in Held(users)
    BY <1>2, <2>4 DEF Held
  <2> QED BY <2>6, <2>8, <2>9, <2>11, <2>13, <2>14, <2>15
<1>6. CASE I = {}
  <2>1. PICK w : w = [id |-> Nobody, entity |-> line.entity, shows |-> line.id, checked |-> TRUE]
    OBVIOUS
  <2>2. w \in GameUsers /\ w.entity = line.entity /\ w.shows = line.id /\ w.checked /\ w.id = Nobody
    <3>1. MaxId \in Nat /\ Nobody \in 0..MaxId
      BY XonoticGameAssumption DEF Nobody
    <3> QED BY <2>1, <3>1 DEF GameUsers
  <2>3. check_user(line) = Append(users, w)
    <3>1. ~(same > 0)
      BY <1>3, <1>6
    <3> QED BY <1>4, <2>1, <3>1
  <2>4. \A u \in Held(users) : u.entity # line.entity
    BY <1>2, <1>6 DEF Held
  <2>5. /\ Append(users, w) \in Seq(GameUsers) /\ OneEach(Append(users, w))
        /\ Held(Append(users, w)) = Held(users) \cup {w}
    BY <2>2, <2>4, OneMore
  <2> QED BY <2>2, <2>3, <2>4, <2>5
<1> QED BY <1>5, <1>6

GameLines ==
  [type : {"join", "player"}, id : 1..MaxId, entity : Entities]
    \cup [type : {"part"}, id : 1..MaxId] \cup [type : {"dest"}, mine : BOOLEAN]

\* A line of the log is about an entity: that of its player.  The log tells only of a join
\* which it is, so the invariant speaks of the homes of the players.
IsLog(l) == l.type \in {"join", "part"}
About(home, l, e) ==
  \/ l.type \in {"join", "player"} /\ l.entity = e
  \/ l.type = "part" /\ home[l.id] = e
NothingAbout(home, e) == \A i \in DOMAIN lines : ~About(home, lines[i], e)
IsLast(home, i, e) ==
  /\ IsLog(lines[i]) /\ About(home, lines[i], e)
  /\ \A j \in DOMAIN lines : j > i /\ IsLog(lines[j]) => ~About(home, lines[j], e)

Homes == [1..MaxId -> Entities \cup {Nobody}]
Occupied == {e \in Entities : players[e] # Nobody}

GameTypes ==
  /\ players \in [Entities -> 0..MaxId] /\ IsFiniteSet(Occupied)
  /\ joined \in 0..MaxId /\ logging \in BOOLEAN
  /\ unchecking \in BOOLEAN /\ clean \in BOOLEAN
  /\ phase \in {"DISCONNECTED", "CONNECTING", "CHECKING", "CONNECTED"}
  /\ users \in Seq(GameUsers) /\ lines \in Seq(GameLines)
  /\ commands \in Seq({"set", "status", "dest"})

\* A player is at home where they play, where the log has them join, and where the bot has
\* a user with their id.
HomesAreKnown(home) ==
  /\ \A e \in Entities : players[e] # Nobody => players[e] <= joined /\ home[players[e]] = e
  /\ \A i \in DOMAIN lines : IsLog(lines[i]) => lines[i].id <= joined
  /\ \A i \in DOMAIN lines : lines[i].type = "join" => home[lines[i].id] = lines[i].entity
  /\ \A u \in Held(users) : u.id # Nobody => u.id <= joined /\ home[u.id] = u.entity

\* The last line of the log about an entity is true; and whoever parts, or plays, after
\* somebody has joined has joined since.
LogIsTrue(home) ==
  /\ ~logging => \A i \in DOMAIN lines : ~IsLog(lines[i])
  /\ \A e \in Entities, i \in DOMAIN lines : IsLast(home, i, e) =>
        players[e] = IF lines[i].type = "join" THEN lines[i].id ELSE Nobody
  /\ \A i \in DOMAIN lines : lines[i].type = "join" /\ players[lines[i].entity] # Nobody =>
        \E k \in DOMAIN lines : k >= i /\ lines[k].type = "join" /\ lines[k].id = players[lines[i].entity]
  /\ \A i, j \in DOMAIN lines :
        i < j /\ lines[i].type = "join" /\ lines[j].type = "part" /\ home[lines[j].id] = lines[i].entity =>
          \E k \in DOMAIN lines : /\ i <= k /\ k < j
                                  /\ lines[k].type = "join" /\ lines[k].id = lines[j].id
  /\ \A j \in DOMAIN lines : lines[j].type = "part" =>
        /\ \A e \in Entities : players[e] # lines[j].id
        /\ \A i \in DOMAIN lines : i < j => ~(lines[i].type = "part" /\ lines[i].id = lines[j].id)

\* How far a poll has come: the users are still to be marked; it has been asked, its players
\* listed, its end told; it is over.
OnlyLog == \A i \in DOMAIN lines : IsLog(lines[i])
PollWaits == unchecking /\ commands = <<>> /\ OnlyLog /\ phase # "CONNECTED"
PollAsked ==
  /\ ~unchecking /\ commands \in {<<"status", "dest">>, <<"set", "status", "dest">>}
  /\ OnlyLog /\ phase # "CONNECTED"
PollListed ==
  /\ ~unchecking /\ commands = <<"dest">> /\ phase # "CONNECTED"
  /\ \A i \in DOMAIN lines : lines[i].type # "dest"
PollEnds ==
  /\ ~unchecking /\ commands = <<>> /\ phase # "CONNECTED"
  /\ \E d \in DOMAIN lines :
       /\ lines[d].type = "dest"
       /\ \A i \in DOMAIN lines : (i > d => IsLog(lines[i])) /\ (i < d => lines[i].type # "dest")
PollDone == ~unchecking /\ commands = <<>> /\ OnlyLog /\ \A u \in Held(users) : u.checked

\* Whoever parts has joined in the lines before, or is the only user of their entity that
\* counts, and will be when the answer has listed it.
ListedBefore(i, e) == \E j \in DOMAIN lines : j < i /\ lines[j].type = "player" /\ lines[j].entity = e
PartIsKnown(home, i) ==
  LET q == lines[i].id
  IN  \/ \E j \in DOMAIN lines : j < i /\ lines[j].type = "join" /\ lines[j].id = q
      \/ /\ \A u \in Held(users) : u.entity = home[q] /\ u.checked => u.id = q
         /\ ListedBefore(i, home[q]) => \E u \in Held(users) : u.id = q
PartsAreKnown(home) == \A i \in DOMAIN lines : lines[i].type = "part" => PartIsKnown(home, i)

\* When no line is about an entity: its user is not there, or the player is a user; and what
\* the answer lists is true until the log says otherwise.
GoneIsGone(home) ==
  \A e \in Entities : NothingAbout(home, e) /\ players[e] = Nobody =>
    \A u \in Held(users) : ~(u.entity = e /\ u.checked)
HereIsHere(home) ==
  \A e \in Entities : NothingAbout(home, e) /\ players[e] # Nobody =>
    \E u \in Held(users) : u.entity = e /\ u.shows = players[e] /\ u.checked
ListIsTrue(home) ==
  \A i \in DOMAIN lines : lines[i].type = "player" =>
    \/ players[lines[i].entity] = lines[i].id
    \/ \E j \in DOMAIN lines : j > i /\ IsLog(lines[j]) /\ About(home, lines[j], lines[i].entity)

PollIsRight(home) ==
  /\ phase # "DISCONNECTED"
  /\ PollWaits \/ PollAsked \/ PollListed \/ PollEnds \/ PollDone
  /\ ~unchecking => PartsAreKnown(home) /\ GoneIsGone(home)
  /\ PollListed \/ PollEnds \/ PollDone => HereIsHere(home) /\ ListIsTrue(home)

GameInv(home) ==
  GameTypes /\ OneEach(users) /\ HomesAreKnown(home) /\ LogIsTrue(home) /\ (clean => PollIsRight(home))

LEMMA LineKinds ==
  ASSUME NEW l \in GameLines
  PROVE  /\ l.type \in {"join", "part", "player", "dest"}
         /\ l.type # "dest" => l.id \in 1..MaxId /\ l.id \in Nat /\ l.id # Nobody
         /\ l.type \in {"join", "player"} => l.entity \in Entities
         /\ l.type = "dest" => l.mine \in BOOLEAN
BY XonoticGameAssumption DEF GameLines, Nobody

\* A line that is read or lost: the first, and the rest.
LEMMA GameLineTaken ==
  ASSUME lines \in Seq(GameLines), lines # <<>>, lines' = Tail(lines)
  PROVE  /\ lines' \in Seq(GameLines) /\ Head(lines) = lines[1] /\ lines[1] \in GameLines
         /\ 1 \in DOMAIN lines /\ (\A i \in DOMAIN lines : i \in Nat /\ i >= 1)
         /\ \A i \in DOMAIN lines' : i \in Nat /\ i >= 1 /\ i + 1 \in DOMAIN lines /\ lines'[i] = lines[i + 1]
         /\ \A i \in DOMAIN lines : i # 1 => i - 1 \in DOMAIN lines' /\ lines'[i - 1] = lines[i]
<1>1. PICK n \in Nat : n = Len(lines) /\ n > 0
  BY EmptySeq, LenProperties
<1>2. /\ DOMAIN lines = 1..n /\ lines' \in Seq(GameLines) /\ DOMAIN lines' = 1..(n - 1)
      /\ \A i \in 1..(n - 1) : lines'[i] = lines[i + 1]
      /\ Head(lines) = lines[1] /\ Head(lines) \in GameLines
  BY <1>1, HeadTailProperties, LenProperties
<1>3. \A i \in 1..(n - 1) : i \in Nat /\ i >= 1 /\ i + 1 \in 1..n
  BY <1>1
<1>4. \A i \in 1..n : i \in Nat /\ i >= 1 /\ (i # 1 => i - 1 \in 1..(n - 1) /\ (i - 1) + 1 = i)
  BY <1>1
<1>5. 1 \in 1..n
  BY <1>1
<1> QED BY <1>2, <1>3, <1>4, <1>5

\* Lines that are appended.
LEMMA GameLinesAppended ==
  ASSUME lines \in Seq(GameLines), NEW ls \in Seq(GameLines), lines' = lines \o ls
  PROVE  \E n \in Nat :
         /\ n = Len(lines) /\ DOMAIN lines = 1..n /\ lines' \in Seq(GameLines)
         /\ \A i \in DOMAIN lines : i \in DOMAIN lines' /\ lines'[i] = lines[i] /\ i \in Nat /\ i <= n
         /\ \A i \in DOMAIN lines' : /\ i \in Nat /\ i >= 1
                                     /\ i \notin DOMAIN lines => i > n /\ lines'[i] \in Held(ls)
         /\ \A x \in Held(ls) : \E i \in DOMAIN lines' : i > n /\ lines'[i] = x
<1>1. PICK n \in Nat, k \in Nat : n = Len(lines) /\ k = Len(ls)
  BY LenProperties
<1>2. /\ DOMAIN lines = 1..n /\ DOMAIN ls = 1..k /\ lines' \in Seq(GameLines) /\ DOMAIN lines' = 1..(n + k)
      /\ \A i \in 1..(n + k) : lines'[i] = IF i <= n THEN lines[i] ELSE ls[i - n]
  BY <1>1, ConcatProperties, LenProperties
<1>3. \A i \in 1..n : i \in 1..(n + k) /\ lines'[i] = lines[i] /\ i \in Nat /\ i <= n
  BY <1>1, <1>2
<1>4. ASSUME NEW i \in 1..(n + k), i \notin 1..n PROVE i > n /\ lines'[i] \in Held(ls)
  <2>1. i > n /\ i - n \in 1..k /\ ~(i <= n)
    BY <1>1, <1>4
  <2>2. lines'[i] = ls[i - n]
    BY <1>2, <2>1
  <2>3. ls[i - n] \in Held(ls)
    BY <1>2, <2>1 DEF Held
  <2> QED BY <2>1, <2>2, <2>3
<1>5. ASSUME NEW x \in Held(ls) PROVE \E i \in 1..(n + k) : i > n /\ lines'[i] = x
  <2>1. PICK j \in 1..k : ls[j] = x
    BY <1>2 DEF Held
  <2>2. n + j \in 1..(n + k) /\ n + j > n /\ (n + j) - n = j /\ ~(n + j <= n)
    BY <1>1
  <2> QED BY <1>2, <2>1, <2>2
<1>6. \A i \in 1..(n + k) : i \in Nat /\ i >= 1
  BY <1>1
<1>7. \A i \in DOMAIN lines' :
        i \in Nat /\ i >= 1 /\ (i \notin DOMAIN lines => i > n /\ lines'[i] \in Held(ls))
  BY <1>2, <1>4, <1>6
<1>8. /\ \A i \in DOMAIN lines : i \in DOMAIN lines' /\ lines'[i] = lines[i] /\ i \in Nat /\ i <= n
      /\ \A x \in Held(ls) : \E i \in DOMAIN lines' : i > n /\ lines'[i] = x
  BY <1>2, <1>3, <1>5
<1> QED BY <1>1, <1>2, <1>7, <1>8

LEMMA HeldOnce ==
  ASSUME NEW us, OneEach(us)
  PROVE  \A u, v \in Held(us) : u.entity = v.entity => u = v
BY DEF OneEach, Held

\* Whoever has not joined yet may be at home anywhere.
LEMMA NewHome ==
  ASSUME NEW home \in Homes, GameInv(home), joined < MaxId, NEW e \in Entities
  PROVE  \E new \in Homes : GameInv(new) /\ new[joined + 1] = e
<1>1. PICK p : p = joined + 1
  OBVIOUS
<1>2. GameTypes /\ joined \in Nat /\ MaxId \in Nat
  BY XonoticGameAssumption DEF GameInv, GameTypes
<1>3. p \in 1..MaxId /\ p > joined
  BY <1>1, <1>2
<1>4. PICK new : new = [home EXCEPT ![p] = e]
  OBVIOUS
<1>5. new \in Homes /\ new[p] = e /\ \A q \in 1..MaxId : q # p => new[q] = home[q]
  BY <1>3, <1>4 DEF Homes
<1>6. \A q \in 1..MaxId : q <= joined => new[q] = home[q]
  <2>1. \A q \in 1..MaxId : q <= joined => q # p
    BY <1>1, <1>2
  <2> QED BY <1>5, <2>1
<1>7. \A i \in DOMAIN lines : lines[i] \in GameLines
  BY <1>2, OfList DEF GameTypes
<1>8. \A i \in DOMAIN lines :
        IsLog(lines[i]) => lines[i].id \in 1..MaxId /\ new[lines[i].id] = home[lines[i].id]
  <2> TAKE i \in DOMAIN lines
  <2> HAVE IsLog(lines[i])
  <2>1. lines[i].id \in 1..MaxId
    BY <1>7, LineKinds DEF IsLog
  <2>2. lines[i].id <= joined
    BY DEF GameInv, HomesAreKnown
  <2> QED BY <1>6, <2>1, <2>2
<1>9. \A i \in DOMAIN lines : \A f \in Entities : About(new, lines[i], f) <=> About(home, lines[i], f)
  BY <1>8 DEF About, IsLog
<1>10. \A i \in DOMAIN lines : lines[i].type = "part" => new[lines[i].id] = home[lines[i].id]
  BY <1>8 DEF IsLog
<1>11. HomesAreKnown(new)
  <2>1. HomesAreKnown(home)
    BY DEF GameInv
  <2>2. ASSUME NEW f \in Entities, players[f] # Nobody PROVE players[f] <= joined /\ new[players[f]] = f
    <3>1. players[f] <= joined /\ home[players[f]] = f
      BY <2>1, <2>2 DEF HomesAreKnown
    <3>2. players[f] \in 0..MaxId /\ players[f] # 0
      BY <1>2, <2>2 DEF GameTypes, Nobody
    <3>3. players[f] \in 1..MaxId
      BY <1>2, <3>2
    <3> QED BY <1>6, <3>1, <3>3
  <2>3. ASSUME NEW i \in DOMAIN lines, lines[i].type = "join" PROVE new[lines[i].id] = lines[i].entity
    BY <1>8, <2>1, <2>3 DEF HomesAreKnown, IsLog
  <2>4. ASSUME NEW u \in Held(users), u.id # Nobody PROVE u.id <= joined /\ new[u.id] = u.entity
    <3>1. u.id <= joined /\ home[u.id] = u.entity
      BY <2>1, <2>4 DEF HomesAreKnown
    <3>2. u \in GameUsers
      BY <1>2, OfList DEF GameTypes
    <3>3. u.id \in 0..MaxId /\ u.id # 0
      BY <2>4, <3>2 DEF GameUsers, Nobody
    <3>4. u.id \in 1..MaxId
      BY <1>2, <3>3
    <3> QED BY <1>6, <3>1, <3>4
  <2> QED BY <2>1, <2>2, <2>3, <2>4 DEF HomesAreKnown
<1>12. LogIsTrue(new)
  <2>1. LogIsTrue(home)
    BY DEF GameInv
  <2>2. \A i \in DOMAIN lines : \A f \in Entities : IsLast(new, i, f) <=> IsLast(home, i, f)
    BY <1>9 DEF IsLast
  <2> QED BY <1>10, <2>1, <2>2 DEF LogIsTrue
<1>13. clean => PollIsRight(new)
  <2> HAVE clean
  <2>1. PollIsRight(home)
    BY DEF GameInv
  <2>2. PartsAreKnown(home) => PartsAreKnown(new)
    BY <1>10 DEF PartsAreKnown, PartIsKnown
  <2>3. \A f \in Entities : NothingAbout(new, f) <=> NothingAbout(home, f)
    BY <1>9 DEF NothingAbout
  <2>4. GoneIsGone(home) => GoneIsGone(new)
    BY <2>3 DEF GoneIsGone
  <2>5. HereIsHere(home) => HereIsHere(new)
    BY <2>3 DEF HereIsHere
  <2>6. ListIsTrue(home) => ListIsTrue(new)
    <3>1. \A i \in DOMAIN lines : lines[i].type = "player" => lines[i].entity \in Entities
      BY <1>7, LineKinds
    <3> QED BY <1>9, <3>1 DEF ListIsTrue
  <2> QED BY <2>1, <2>2, <2>4, <2>5, <2>6 DEF PollIsRight
<1> QED BY <1>1, <1>5, <1>11, <1>12, <1>13 DEF GameInv

\* What the log tells does not change when a line is taken from it,
LEMMA LogTaken ==
  ASSUME NEW home \in Homes, GameInv(home), lines # <<>>, lines' = Tail(lines), UNCHANGED serverVars
  PROVE  /\ LogIsTrue(home)'
         /\ \A i \in DOMAIN lines' : IsLog(lines'[i]) => lines'[i].id <= joined
         /\ \A i \in DOMAIN lines' : lines'[i].type = "join" => home[lines'[i].id] = lines'[i].entity
<1>1. lines \in Seq(GameLines)
  BY DEF GameInv, GameTypes
<1>2. /\ 1 \in DOMAIN lines /\ (\A i \in DOMAIN lines : i \in Nat /\ i >= 1)
      /\ \A i \in DOMAIN lines' : i \in Nat /\ i >= 1 /\ i + 1 \in DOMAIN lines /\ lines'[i] = lines[i + 1]
      /\ \A i \in DOMAIN lines : i # 1 => i - 1 \in DOMAIN lines' /\ lines'[i - 1] = lines[i]
  BY <1>1, GameLineTaken
<1>3. players' = players /\ joined' = joined /\ logging' = logging
  BY DEF serverVars
<1>4. LogIsTrue(home) /\ HomesAreKnown(home)
  BY DEF GameInv
<1>5. \A e \in Entities, i \in DOMAIN lines' : IsLast(home, i, e)' => IsLast(home, i + 1, e)
  <2> TAKE e \in Entities, i \in DOMAIN lines'
  <2> HAVE IsLast(home, i, e)'
  <2>1. IsLog(lines'[i]) /\ About(home, lines'[i], e)
    BY DEF IsLast
  <2>2. ASSUME NEW j \in DOMAIN lines, j > i + 1, IsLog(lines[j]) PROVE ~About(home, lines[j], e)
    <3>1. i \in Nat /\ j \in Nat
      BY <1>2
    <3>2. j # 1 /\ j - 1 > i
      BY <2>2, <3>1
    <3>3. j - 1 \in DOMAIN lines' /\ lines'[j - 1] = lines[j]
      BY <1>2, <3>2
    <3>4. \A k \in DOMAIN lines' : k > i /\ IsLog(lines'[k]) => ~About(home, lines'[k], e)
      BY DEF IsLast
    <3> QED BY <2>2, <3>2, <3>3, <3>4
  <2>3. lines'[i] = lines[i + 1]
    BY <1>2
  <2> QED BY <2>1, <2>2, <2>3 DEF IsLast
<1>6. ~logging' => \A i \in DOMAIN lines' : ~IsLog(lines'[i])
  BY <1>2, <1>3, <1>4 DEF LogIsTrue
<1>7. \A e \in Entities, i \in DOMAIN lines' : IsLast(home, i, e)' =>
        players'[e] = IF lines'[i].type = "join" THEN lines'[i].id ELSE Nobody
  BY <1>2, <1>3, <1>4, <1>5 DEF LogIsTrue
<1>8. ASSUME NEW i \in DOMAIN lines', lines'[i].type = "join", players'[lines'[i].entity] # Nobody
      PROVE  \E k \in DOMAIN lines' :
               k >= i /\ lines'[k].type = "join" /\ lines'[k].id = players'[lines'[i].entity]
  <2>1. i + 1 \in DOMAIN lines /\ lines'[i] = lines[i + 1] /\ i \in Nat /\ i >= 1
    BY <1>2
  <2>2. PICK k \in DOMAIN lines :
          k >= i + 1 /\ lines[k].type = "join" /\ lines[k].id = players[lines[i + 1].entity]
    BY <1>3, <1>4, <1>8, <2>1 DEF LogIsTrue
  <2>3. k # 1 /\ k - 1 >= i
    BY <1>2, <2>1, <2>2
  <2> QED BY <1>2, <1>3, <2>1, <2>2, <2>3
<1>9. ASSUME NEW i \in DOMAIN lines', NEW j \in DOMAIN lines',
             i < j, lines'[i].type = "join", lines'[j].type = "part", home[lines'[j].id] = lines'[i].entity
      PROVE  \E k \in DOMAIN lines' :
               i <= k /\ k < j /\ lines'[k].type = "join" /\ lines'[k].id = lines'[j].id
  <2>1. /\ i + 1 \in DOMAIN lines /\ lines'[i] = lines[i + 1] /\ i \in Nat /\ i >= 1
        /\ j + 1 \in DOMAIN lines /\ lines'[j] = lines[j + 1] /\ j \in Nat
    BY <1>2
  <2>2. i + 1 < j + 1
    BY <1>9, <2>1
  <2>3. PICK k \in DOMAIN lines :
          i + 1 <= k /\ k < j + 1 /\ lines[k].type = "join" /\ lines[k].id = lines[j + 1].id
    BY <1>4, <1>9, <2>1, <2>2 DEF LogIsTrue
  <2>4. k # 1 /\ k - 1 >= i /\ k - 1 < j
    BY <1>2, <2>1, <2>3
  <2> QED BY <1>2, <2>1, <2>3, <2>4
<1>10. ASSUME NEW j \in DOMAIN lines', lines'[j].type = "part"
       PROVE  /\ \A e \in Entities : players'[e] # lines'[j].id
              /\ \A i \in DOMAIN lines' : i < j => ~(lines'[i].type = "part" /\ lines'[i].id = lines'[j].id)
  <2>1. j + 1 \in DOMAIN lines /\ lines'[j] = lines[j + 1] /\ j \in Nat
    BY <1>2
  <2>2. \A e \in Entities : players'[e] # lines'[j].id
    BY <1>3, <1>4, <1>10, <2>1 DEF LogIsTrue
  <2>3. ASSUME NEW i \in DOMAIN lines', i < j PROVE ~(lines'[i].type = "part" /\ lines'[i].id = lines'[j].id)
    <3>1. i + 1 \in DOMAIN lines /\ lines'[i] = lines[i + 1] /\ i \in Nat
      BY <1>2
    <3>2. i + 1 < j + 1
      BY <2>1, <2>3, <3>1
    <3> QED BY <1>4, <1>10, <2>1, <3>1, <3>2 DEF LogIsTrue
  <2> QED BY <2>2, <2>3
<1>11. LogIsTrue(home)'
  BY <1>6, <1>7, <1>8, <1>9, <1>10 DEF LogIsTrue
<1>12. /\ \A i \in DOMAIN lines' : IsLog(lines'[i]) => lines'[i].id <= joined
       /\ \A i \in DOMAIN lines' : lines'[i].type = "join" => home[lines'[i].id] = lines'[i].entity
  BY <1>2, <1>4 DEF HomesAreKnown
<1> QED BY <1>11, <1>12

\* Or when an answer is appended;
LEMMA AnswersAppended ==
  ASSUME NEW home \in Homes, GameInv(home), UNCHANGED <<players, joined>>, logging => logging',
         \A i \in DOMAIN lines : i \in DOMAIN lines' /\ lines'[i] = lines[i],
         \A i \in DOMAIN lines' : i \notin DOMAIN lines => ~IsLog(lines'[i])
  PROVE  /\ LogIsTrue(home)'
         /\ \A i \in DOMAIN lines' : IsLog(lines'[i]) => lines'[i].id <= joined
         /\ \A i \in DOMAIN lines' : lines'[i].type = "join" => home[lines'[i].id] = lines'[i].entity
<1>2. \A i \in DOMAIN lines : i \in DOMAIN lines' /\ lines'[i] = lines[i]
  OBVIOUS
<1>3. players' = players /\ joined' = joined
  OBVIOUS
<1>4. LogIsTrue(home) /\ HomesAreKnown(home)
  BY DEF GameInv
<1>5. \A i \in DOMAIN lines' : IsLog(lines'[i]) => i \in DOMAIN lines /\ lines'[i] = lines[i]
  BY <1>2
<1>6. \A i \in DOMAIN lines' :
        lines'[i].type \in {"join", "part"} => i \in DOMAIN lines /\ lines'[i] = lines[i]
  BY <1>5 DEF IsLog
<1>7. \A e \in Entities, i \in DOMAIN lines' : IsLast(home, i, e)' => i \in DOMAIN lines /\ IsLast(home, i, e)
  BY <1>2, <1>5 DEF IsLast
<1>8. ~logging' => \A i \in DOMAIN lines' : ~IsLog(lines'[i])
  BY <1>4, <1>5 DEF LogIsTrue
<1>9. \A e \in Entities, i \in DOMAIN lines' : IsLast(home, i, e)' =>
        players'[e] = IF lines'[i].type = "join" THEN lines'[i].id ELSE Nobody
  BY <1>2, <1>3, <1>4, <1>7 DEF LogIsTrue
<1>10. ASSUME NEW i \in DOMAIN lines', lines'[i].type = "join", players'[lines'[i].entity] # Nobody
       PROVE  \E k \in DOMAIN lines' :
                k >= i /\ lines'[k].type = "join" /\ lines'[k].id = players'[lines'[i].entity]
  <2>1. i \in DOMAIN lines /\ lines'[i] = lines[i] /\ players[lines[i].entity] # Nobody
    BY <1>3, <1>6, <1>10
  <2>2. PICK k \in DOMAIN lines :
          k >= i /\ lines[k].type = "join" /\ lines[k].id = players[lines[i].entity]
    BY <1>4, <1>10, <2>1 DEF LogIsTrue
  <2>3. k \in DOMAIN lines' /\ lines'[k] = lines[k]
    BY <1>2
  <2> QED BY <1>3, <2>1, <2>2, <2>3
<1>11. ASSUME NEW i \in DOMAIN lines', NEW j \in DOMAIN lines',
              i < j, lines'[i].type = "join", lines'[j].type = "part", home[lines'[j].id] = lines'[i].entity
       PROVE  \E k \in DOMAIN lines' :
                i <= k /\ k < j /\ lines'[k].type = "join" /\ lines'[k].id = lines'[j].id
  <2>1. i \in DOMAIN lines /\ lines'[i] = lines[i] /\ j \in DOMAIN lines /\ lines'[j] = lines[j]
    BY <1>6, <1>11
  <2>2. PICK k \in DOMAIN lines : i <= k /\ k < j /\ lines[k].type = "join" /\ lines[k].id = lines[j].id
    BY <1>4, <1>11, <2>1 DEF LogIsTrue
  <2>3. k \in DOMAIN lines' /\ lines'[k] = lines[k]
    BY <1>2
  <2> QED BY <2>1, <2>2, <2>3
<1>12. ASSUME NEW j \in DOMAIN lines', lines'[j].type = "part"
       PROVE  /\ \A e \in Entities : players'[e] # lines'[j].id
              /\ \A i \in DOMAIN lines' : i < j => ~(lines'[i].type = "part" /\ lines'[i].id = lines'[j].id)
  BY <1>3, <1>4, <1>6, <1>12 DEF LogIsTrue
<1>13. LogIsTrue(home)'
  <2>1. \A i \in DOMAIN lines' : lines'[i].type = "join" /\ players'[lines'[i].entity] # Nobody =>
          \E k \in DOMAIN lines' :
            k >= i /\ lines'[k].type = "join" /\ lines'[k].id = players'[lines'[i].entity]
    BY <1>10
  <2>2. \A i, j \in DOMAIN lines' :
          i < j /\ lines'[i].type = "join" /\ lines'[j].type = "part"
                /\ home[lines'[j].id] = lines'[i].entity =>
            \E k \in DOMAIN lines' :
              i <= k /\ k < j /\ lines'[k].type = "join" /\ lines'[k].id = lines'[j].id
    BY <1>11
  <2> QED BY <1>8, <1>9, <1>12, <2>1, <2>2 DEF LogIsTrue
<1>14. /\ \A i \in DOMAIN lines' : IsLog(lines'[i]) => lines'[i].id <= joined
       /\ \A i \in DOMAIN lines' : lines'[i].type = "join" => home[lines'[i].id] = lines'[i].entity
  BY <1>4, <1>5, <1>6 DEF HomesAreKnown
<1> QED BY <1>13, <1>14

\* and no lines of the log tell nothing.
LEMMA NoLogIsTrue == ASSUME NEW home, \A i \in DOMAIN lines' : ~IsLog(lines'[i]) PROVE LogIsTrue(home)'
<1>1. \A i \in DOMAIN lines' : lines'[i].type # "join" /\ lines'[i].type # "part"
  BY DEF IsLog
<1> QED BY <1>1 DEF LogIsTrue, IsLast

LEMMA GameLineAppended ==
  ASSUME lines \in Seq(GameLines), NEW l \in GameLines, lines' = Append(lines, l)
  PROVE  \E m \in Nat :
         /\ m \in DOMAIN lines' /\ lines'[m] = l /\ m \notin DOMAIN lines /\ lines' \in Seq(GameLines)
         /\ \A i \in DOMAIN lines : i \in DOMAIN lines' /\ lines'[i] = lines[i] /\ i \in Nat /\ i < m
         /\ \A i \in DOMAIN lines' : i \in DOMAIN lines \/ i = m
<1>1. PICK n \in Nat : n = Len(lines)
  BY LenProperties
<1>2. /\ DOMAIN lines = 1..n /\ lines' \in Seq(GameLines) /\ DOMAIN lines' = 1..(n + 1)
      /\ lines'[n + 1] = l /\ \A i \in 1..n : lines'[i] = lines[i]
  BY <1>1, AppendProperties, LenProperties
<1>3. /\ n + 1 \in Nat /\ n + 1 \in 1..(n + 1) /\ n + 1 \notin 1..n
      /\ \A i \in 1..n : i \in 1..(n + 1) /\ i \in Nat /\ i < n + 1
      /\ \A i \in 1..(n + 1) : i \in 1..n \/ i = n + 1
  BY <1>1
<1> QED BY <1>2, <1>3

\* A line of the log about an entity is appended, which only its player changes with.
LEMMA LogLineAppended ==
  ASSUME NEW home \in Homes, GameTypes, NEW l \in GameLines, IsLog(l), NEW f \in Entities,
         \A e \in Entities : About(home, l, e) <=> e = f,
         \A e \in Entities : e # f => players'[e] = players[e],
         lines' = Append(lines, l), UNCHANGED <<users, commands, phase, unchecking>>
  PROVE  /\ (PollWaits => PollWaits') /\ (PollAsked => PollAsked') /\ (PollListed => PollListed')
         /\ (PollEnds => PollEnds') /\ (PollDone => PollDone')
         /\ GoneIsGone(home) => GoneIsGone(home)'
         /\ HereIsHere(home) => HereIsHere(home)'
         /\ ListIsTrue(home) => ListIsTrue(home)'
         /\ \A i \in DOMAIN lines : lines[i].type = "part" /\ PartIsKnown(home, i) => PartIsKnown(home, i)'
         /\ \E m \in Nat :
              /\ m \in DOMAIN lines' /\ lines'[m] = l /\ m \notin DOMAIN lines /\ lines' \in Seq(GameLines)
              /\ \A i \in DOMAIN lines : i \in DOMAIN lines' /\ lines'[i] = lines[i] /\ i \in Nat /\ i < m
              /\ \A i \in DOMAIN lines' : i \in DOMAIN lines \/ i = m
              /\ \A e \in Entities, i \in DOMAIN lines' : IsLast(home, i, e)' =>
                   IF e = f THEN i = m ELSE i \in DOMAIN lines /\ IsLast(home, i, e)
<1>1. lines \in Seq(GameLines) /\ users' = users /\ commands' = commands /\ phase' = phase
      /\ unchecking' = unchecking
  BY DEF GameTypes
<1>2. PICK m \in Nat :
        /\ m \in DOMAIN lines' /\ lines'[m] = l /\ m \notin DOMAIN lines /\ lines' \in Seq(GameLines)
        /\ \A i \in DOMAIN lines : i \in DOMAIN lines' /\ lines'[i] = lines[i] /\ i \in Nat /\ i < m
        /\ \A i \in DOMAIN lines' : i \in DOMAIN lines \/ i = m
  BY <1>1, GameLineAppended
<1>3. l.type # "dest" /\ l.type # "player"
  BY DEF IsLog
<1>4. OnlyLog => OnlyLog'
  BY <1>2 DEF OnlyLog
<1>5. /\ (PollWaits => PollWaits') /\ (PollAsked => PollAsked') /\ (PollDone => PollDone')
      /\ (PollListed => PollListed')
  BY <1>1, <1>2, <1>3, <1>4 DEF PollWaits, PollAsked, PollListed, PollDone
<1>6. PollEnds => PollEnds'
  <2> HAVE PollEnds
  <2>1. PICK d \in DOMAIN lines :
          /\ lines[d].type = "dest"
          /\ \A i \in DOMAIN lines : (i > d => IsLog(lines[i])) /\ (i < d => lines[i].type # "dest")
    BY DEF PollEnds
  <2>2. ~(m < d) /\ d \in DOMAIN lines' /\ lines'[d].type = "dest"
    BY <1>2, <2>1
  <2>3. \A i \in DOMAIN lines' : (i > d => IsLog(lines'[i])) /\ (i < d => lines'[i].type # "dest")
    BY <1>2, <2>1, <2>2
  <2> QED BY <1>1, <2>2, <2>3 DEF PollEnds
<1>7. ASSUME NEW e \in Entities, NothingAbout(home, e)'
      PROVE  NothingAbout(home, e) /\ players'[e] = players[e]
  <2>1. \A i \in DOMAIN lines' : ~About(home, lines'[i], e)
    BY <1>7 DEF NothingAbout
  <2>2. e # f
    BY <1>2, <2>1
  <2>3. NothingAbout(home, e)
    BY <1>2, <2>1 DEF NothingAbout
  <2> QED BY <2>2, <2>3
<1>8. GoneIsGone(home) => GoneIsGone(home)'
  BY <1>1, <1>7 DEF GoneIsGone
<1>9. HereIsHere(home) => HereIsHere(home)'
  BY <1>1, <1>7 DEF HereIsHere
<1>10. ListIsTrue(home) => ListIsTrue(home)'
  <2> HAVE ListIsTrue(home)
  <2>1. ASSUME NEW i \in DOMAIN lines', lines'[i].type = "player"
        PROVE  \/ players'[lines'[i].entity] = lines'[i].id
               \/ \E j \in DOMAIN lines' :
                    j > i /\ IsLog(lines'[j]) /\ About(home, lines'[j], lines'[i].entity)
    <3>1. i \in DOMAIN lines /\ lines'[i] = lines[i] /\ i \in Nat /\ m > i
      BY <1>2, <1>3, <2>1
    <3>2. lines[i].entity \in Entities
      <4>1. lines[i] \in GameLines
        BY <1>1, <3>1, OfList
      <4> QED BY <2>1, <3>1, <4>1, LineKinds
    <3>3. CASE lines[i].entity = f
      BY <1>2, <3>1, <3>3
    <3>4. CASE lines[i].entity # f
      BY <1>2, <2>1, <3>1, <3>2, <3>4 DEF ListIsTrue
    <3> QED BY <3>3, <3>4
  <2> QED BY <2>1 DEF ListIsTrue
<1>11. ASSUME NEW i \in DOMAIN lines, lines[i].type = "part", PartIsKnown(home, i)
       PROVE  PartIsKnown(home, i)'
  <2>1. lines'[i] = lines[i] /\ i \in DOMAIN lines' /\ i < m /\ i \in Nat
    BY <1>2
  <2>2. \A j \in DOMAIN lines' : j < i => j \in DOMAIN lines /\ lines'[j] = lines[j]
    BY <1>2, <2>1
  <2> QED BY <1>1, <1>2, <1>11, <2>1, <2>2 DEF PartIsKnown, ListedBefore
<1>12. ASSUME NEW e \in Entities, NEW i \in DOMAIN lines', IsLast(home, i, e)'
       PROVE  IF e = f THEN i = m ELSE i \in DOMAIN lines /\ IsLast(home, i, e)
  <2>1. /\ IsLog(lines'[i]) /\ About(home, lines'[i], e)
        /\ \A j \in DOMAIN lines' : j > i /\ IsLog(lines'[j]) => ~About(home, lines'[j], e)
    BY <1>12 DEF IsLast
  <2>2. CASE e = f
    <3>1. i \in DOMAIN lines => m > i
      BY <1>2
    <3> QED BY <1>2, <2>1, <2>2, <3>1
  <2>3. CASE e # f
    <3>1. i \in DOMAIN lines
      BY <1>2, <2>1, <2>3
    <3> QED BY <1>2, <2>1, <2>3, <3>1 DEF IsLast
  <2> QED BY <2>2, <2>3
<1> QED BY <1>2, <1>5, <1>6, <1>8, <1>9, <1>10, <1>11, <1>12

LEMMA GameFirst == ASSUME GameInit PROVE \E home \in Homes : GameInv(home)
<1>1. PICK home : home = [q \in 1..MaxId |-> Nobody]
  OBVIOUS
<1>2. home \in Homes
  BY <1>1 DEF Homes
<1>3. /\ users = <<>> /\ lines = <<>> /\ commands = <<>> /\ clean = FALSE /\ logging = FALSE
      /\ unchecking = FALSE /\ phase = "DISCONNECTED" /\ joined = 0
      /\ players = [e \in Entities |-> Nobody]
  BY DEF GameInit
<1>4. DOMAIN <<>> = {} /\ Held(<<>>) = {}
  BY DEF Held
<1>5. GameTypes
  <2>1. <<>> \in Seq(GameUsers) /\ <<>> \in Seq(GameLines) /\ <<>> \in Seq({"set", "status", "dest"})
    BY EmptySeq
  <2>2. Occupied = {}
    BY <1>3 DEF Occupied
  <2>3. IsFiniteSet(Occupied)
    BY <2>2, FS_EmptySet
  <2>4. 0 \in 0..MaxId /\ Nobody \in 0..MaxId
    BY XonoticGameAssumption DEF Nobody
  <2>5. players \in [Entities -> 0..MaxId]
    BY <1>3, <2>4
  <2> QED BY <1>3, <2>1, <2>3, <2>4, <2>5 DEF GameTypes
<1>6. OneEach(users) /\ HomesAreKnown(home) /\ LogIsTrue(home)
  BY <1>3, <1>4 DEF OneEach, HomesAreKnown, LogIsTrue
<1> QED BY <1>2, <1>3, <1>5, <1>6 DEF GameInv

LEMMA CommandsDiffer ==
  /\ <<>> # <<"dest">> /\ <<>> # <<"status", "dest">> /\ <<>> # <<"set", "status", "dest">>
  /\ <<"dest">> # <<"status", "dest">> /\ <<"dest">> # <<"set", "status", "dest">>
<1>1. /\ Len(<<>>) = 0 /\ Len(<<"dest">>) = 1 /\ Len(<<"status", "dest">>) = 2
      /\ Len(<<"set", "status", "dest">>) = 3
  OBVIOUS
<1> QED BY <1>1

\* What has been listed was asked for before.
LEMMA OnlyLater ==
  ASSUME UNCHANGED <<commands, unchecking>>, PollListed' \/ PollEnds' \/ PollDone'
  PROVE  ~PollWaits /\ ~PollAsked
<1>1. commands' = commands /\ unchecking' = unchecking
  OBVIOUS
<1>2. ~unchecking' /\ commands' \in {<<>>, <<"dest">>}
  BY DEF PollListed, PollEnds, PollDone
<1> QED BY <1>1, <1>2, CommandsDiffer DEF PollWaits, PollAsked

LEMMA PlayerJoinsInv ==
  ASSUME NEW home \in Homes, GameInv(home), NEW e \in Entities, PlayerJoins(e), home[joined + 1] = e
  PROVE  GameInv(home)'
<1>1. PICK p : p = joined + 1
  OBVIOUS
<1>2. GameTypes /\ HomesAreKnown(home) /\ LogIsTrue(home) /\ OneEach(users)
  BY DEF GameInv
<1>3. joined \in Nat /\ MaxId \in Nat
  BY <1>2, XonoticGameAssumption DEF GameTypes
<1>4. /\ players[e] = Nobody /\ joined < MaxId /\ joined' = p /\ players' = [players EXCEPT ![e] = p]
      /\ clean' = (clean /\ logging)
      /\ logging' = logging /\ users' = users /\ commands' = commands /\ phase' = phase
      /\ unchecking' = unchecking /\ UNCHANGED <<users, commands, phase, unchecking>>
  BY <1>1 DEF PlayerJoins, phaseVars
<1>5. PICK l : l = [type |-> "join", id |-> p, entity |-> e]
  OBVIOUS
<1>6. lines' = IF logging THEN Append(lines, l) ELSE lines
  BY <1>1, <1>4, <1>5 DEF PlayerJoins, Logged
<1>7. p \in 1..MaxId /\ p \in Nat /\ p > joined /\ p # Nobody /\ p \in 0..MaxId /\ joined <= p
  BY <1>1, <1>3, <1>4 DEF Nobody
<1>8. l \in GameLines /\ IsLog(l) /\ l.type = "join" /\ l.id = p /\ l.entity = e
  BY <1>5, <1>7 DEF GameLines, IsLog
<1>9. \A f \in Entities : About(home, l, f) <=> f = e
  BY <1>8 DEF About
<1>10. /\ players' \in [Entities -> 0..MaxId] /\ players'[e] = p
       /\ \A f \in Entities : f # e => players'[f] = players[f]
  BY <1>2, <1>4, <1>7 DEF GameTypes
<1>11. IsFiniteSet(Occupied')
  <2>1. Occupied' = Occupied \cup {e}
    BY <1>7, <1>10 DEF Occupied
  <2>2. IsFiniteSet(Occupied)
    BY <1>2 DEF GameTypes
  <2> QED BY <2>1, <2>2, FS_AddElement
<1>12. lines \in Seq(GameLines)
  BY <1>2 DEF GameTypes
<1>13. \A f \in Entities : players'[f] # Nobody => players'[f] <= joined' /\ home[players'[f]] = f
  <2> TAKE f \in Entities
  <2>1. CASE f = e
    BY <1>1, <1>4, <1>7, <1>10, <2>1
  <2>2. CASE f # e
    <3>1. players[f] \in Nat
      BY <1>2 DEF GameTypes
    <3> QED BY <1>2, <1>3, <1>4, <1>7, <1>10, <2>2, <3>1 DEF HomesAreKnown
  <2> QED BY <2>1, <2>2
<1>14. \A u \in Held(users') : u.id # Nobody => u.id <= joined' /\ home[u.id] = u.entity
  <2>1. \A u \in Held(users) : u.id \in Nat
    <3>1. \A u \in Held(users) : u \in GameUsers
      BY <1>2, OfList DEF GameTypes
    <3> QED BY <1>3, <3>1 DEF GameUsers
  <2>2. \A u \in Held(users) : u.id # Nobody => u.id <= joined /\ home[u.id] = u.entity
    BY <1>2 DEF HomesAreKnown
  <2>3. \A k \in Nat : k <= joined => k <= p
    BY <1>3, <1>7
  <2> QED BY <1>4, <2>1, <2>2, <2>3
<1>15. CASE ~logging
  <2>1. lines' = lines /\ clean' = FALSE
    BY <1>4, <1>6, <1>15
  <2>2. \A i \in DOMAIN lines' : ~IsLog(lines'[i])
    BY <1>2, <1>15, <2>1 DEF LogIsTrue
  <2>3. LogIsTrue(home)'
    BY <2>2, NoLogIsTrue
  <2>4. HomesAreKnown(home)'
    <3>1. \A i \in DOMAIN lines' : lines'[i].type # "join"
      BY <2>2 DEF IsLog
    <3> QED BY <1>13, <1>14, <2>2, <3>1 DEF HomesAreKnown
  <2>5. GameTypes'
    BY <1>2, <1>4, <1>7, <1>10, <1>11, <1>12, <2>1 DEF GameTypes
  <2> QED BY <1>2, <1>4, <2>1, <2>3, <2>4, <2>5 DEF GameInv
<1>16. CASE logging
  <2>1. lines' = Append(lines, l) /\ logging'
    BY <1>4, <1>6, <1>16
  <2>2. /\ (PollWaits => PollWaits') /\ (PollAsked => PollAsked') /\ (PollListed => PollListed')
        /\ (PollEnds => PollEnds') /\ (PollDone => PollDone')
        /\ GoneIsGone(home) => GoneIsGone(home)'
        /\ HereIsHere(home) => HereIsHere(home)'
        /\ ListIsTrue(home) => ListIsTrue(home)'
        /\ \A i \in DOMAIN lines : lines[i].type = "part" /\ PartIsKnown(home, i) => PartIsKnown(home, i)'
    BY <1>2, <1>4, <1>8, <1>9, <1>10, <2>1, LogLineAppended
  <2>3. PICK m \in Nat :
          /\ m \in DOMAIN lines' /\ lines'[m] = l /\ m \notin DOMAIN lines /\ lines' \in Seq(GameLines)
          /\ \A i \in DOMAIN lines : i \in DOMAIN lines' /\ lines'[i] = lines[i] /\ i \in Nat /\ i < m
          /\ \A i \in DOMAIN lines' : i \in DOMAIN lines \/ i = m
          /\ \A f \in Entities, i \in DOMAIN lines' : IsLast(home, i, f)' =>
               IF f = e THEN i = m ELSE i \in DOMAIN lines /\ IsLast(home, i, f)
    BY <1>2, <1>4, <1>8, <1>9, <1>10, <2>1, LogLineAppended
  <2>4. GameTypes'
    BY <1>2, <1>4, <1>7, <1>10, <1>11, <2>3 DEF GameTypes
  <2>5. \A i \in DOMAIN lines : lines[i] \in GameLines
    BY <1>12, OfList
  <2>6. HomesAreKnown(home)'
    <3>1. ASSUME NEW i \in DOMAIN lines', IsLog(lines'[i]) PROVE lines'[i].id <= joined'
      <4>1. CASE i = m
        BY <1>4, <1>7, <1>8, <2>3, <4>1
      <4>2. CASE i \in DOMAIN lines
        <5>1. lines[i].id \in Nat /\ lines[i].id <= joined
          BY <1>2, <2>3, <2>5, <3>1, <4>2, LineKinds DEF HomesAreKnown, IsLog
        <5> QED BY <1>3, <1>4, <1>7, <2>3, <4>2, <5>1
      <4> QED BY <2>3, <4>1, <4>2
    <3>2. ASSUME NEW i \in DOMAIN lines', lines'[i].type = "join" PROVE home[lines'[i].id] = lines'[i].entity
      BY <1>1, <1>2, <1>8, <2>3, <3>2 DEF HomesAreKnown
    <3> QED BY <1>13, <1>14, <3>1, <3>2 DEF HomesAreKnown
  <2>7. \A f \in Entities, i \in DOMAIN lines' : IsLast(home, i, f)' =>
          players'[f] = IF lines'[i].type = "join" THEN lines'[i].id ELSE Nobody
    <3> TAKE f \in Entities, i \in DOMAIN lines'
    <3> HAVE IsLast(home, i, f)'
    <3>1. CASE f = e
      BY <1>8, <1>10, <2>3, <3>1
    <3>2. CASE f # e
      <4>1. i \in DOMAIN lines /\ IsLast(home, i, f) /\ lines'[i] = lines[i]
        BY <2>3, <3>2
      <4> QED BY <1>2, <1>10, <3>2, <4>1 DEF LogIsTrue
    <3> QED BY <3>1, <3>2
  <2>8. \A i \in DOMAIN lines' : lines'[i].type = "join" /\ players'[lines'[i].entity] # Nobody =>
          \E k \in DOMAIN lines' :
            k >= i /\ lines'[k].type = "join" /\ lines'[k].id = players'[lines'[i].entity]
    <3> TAKE i \in DOMAIN lines'
    <3> HAVE lines'[i].type = "join" /\ players'[lines'[i].entity] # Nobody
    <3>1. CASE lines'[i].entity = e
      <4>1. m >= i
        BY <2>3
      <4> QED BY <1>8, <1>10, <2>3, <3>1, <4>1
    <3>2. CASE lines'[i].entity # e
      <4>1. i \in DOMAIN lines /\ lines'[i] = lines[i]
        BY <1>8, <2>3, <3>2
      <4>2. players'[lines[i].entity] = players[lines[i].entity]
        BY <1>10, <2>5, <3>2, <4>1, LineKinds
      <4>3. PICK k \in DOMAIN lines :
              k >= i /\ lines[k].type = "join" /\ lines[k].id = players[lines[i].entity]
        BY <1>2, <4>1, <4>2 DEF LogIsTrue
      <4>4. k \in DOMAIN lines' /\ lines'[k] = lines[k]
        BY <2>3
      <4> QED BY <4>1, <4>2, <4>3, <4>4
    <3> QED BY <3>1, <3>2
  <2>9. \A i, j \in DOMAIN lines' :
          i < j /\ lines'[i].type = "join" /\ lines'[j].type = "part"
                /\ home[lines'[j].id] = lines'[i].entity =>
            \E k \in DOMAIN lines' :
              i <= k /\ k < j /\ lines'[k].type = "join" /\ lines'[k].id = lines'[j].id
    <3> TAKE i, j \in DOMAIN lines'
    <3> HAVE i < j /\ lines'[i].type = "join" /\ lines'[j].type = "part"
                   /\ home[lines'[j].id] = lines'[i].entity
    <3>1. j \in DOMAIN lines /\ lines'[j] = lines[j] /\ j \in Nat /\ j < m
      BY <1>8, <2>3
    <3>2. i \in DOMAIN lines /\ lines'[i] = lines[i]
      BY <2>3, <3>1
    <3>3. PICK k \in DOMAIN lines : i <= k /\ k < j /\ lines[k].type = "join" /\ lines[k].id = lines[j].id
      BY <1>2, <3>1, <3>2 DEF LogIsTrue
    <3>4. k \in DOMAIN lines' /\ lines'[k] = lines[k]
      BY <2>3
    <3> QED BY <3>1, <3>3, <3>4
  <2>10. \A j \in DOMAIN lines' : lines'[j].type = "part" =>
           /\ \A f \in Entities : players'[f] # lines'[j].id
           /\ \A i \in DOMAIN lines' : i < j => ~(lines'[i].type = "part" /\ lines'[i].id = lines'[j].id)
    <3> TAKE j \in DOMAIN lines'
    <3> HAVE lines'[j].type = "part"
    <3>1. j \in DOMAIN lines /\ lines'[j] = lines[j] /\ lines[j].type = "part"
      BY <1>8, <2>3
    <3>2. lines[j].id <= joined /\ lines[j].id \in Nat
      BY <1>2, <2>5, <3>1, LineKinds DEF HomesAreKnown, IsLog
    <3>3. lines[j].id # p
      BY <1>3, <1>7, <3>2
    <3>4. \A f \in Entities : players'[f] # lines'[j].id
      BY <1>2, <1>10, <3>1, <3>3 DEF LogIsTrue
    <3>5. ASSUME NEW i \in DOMAIN lines', i < j, lines'[i].type = "part" PROVE lines'[i].id # lines'[j].id
      BY <1>2, <1>8, <2>3, <3>1, <3>5 DEF LogIsTrue
    <3> QED BY <3>4, <3>5
  <2>11. LogIsTrue(home)'
    BY <2>1, <2>7, <2>8, <2>9, <2>10 DEF LogIsTrue
  <2>12. ASSUME clean' PROVE PollIsRight(home)'
    <3>1. PollIsRight(home)
      BY <1>4, <2>12 DEF GameInv
    <3>2. PartsAreKnown(home) => PartsAreKnown(home)'
      BY <1>8, <2>2, <2>3 DEF PartsAreKnown
    <3>3. /\ phase' # "DISCONNECTED"
          /\ (PollWaits \/ PollAsked \/ PollListed \/ PollEnds \/ PollDone)'
          /\ ~unchecking' => PartsAreKnown(home)' /\ GoneIsGone(home)'
      BY <1>4, <2>2, <3>1, <3>2 DEF PollIsRight
    <3>4. PollListed' \/ PollEnds' \/ PollDone' => HereIsHere(home)' /\ ListIsTrue(home)'
      BY <1>4, <2>2, <3>1, OnlyLater DEF PollIsRight
    <3> QED BY <3>3, <3>4 DEF PollIsRight
  <2> QED BY <1>2, <1>4, <2>4, <2>6, <2>11, <2>12 DEF GameInv
<1> QED BY <1>15, <1>16

LEMMA PlayerPartsInv ==
  ASSUME NEW home \in Homes, GameInv(home), NEW e \in Entities, PlayerParts(e)
  PROVE  GameInv(home)'
<1>1. PICK p : p = players[e]
  OBVIOUS
<1>2. GameTypes /\ HomesAreKnown(home) /\ LogIsTrue(home) /\ OneEach(users)
  BY DEF GameInv
<1>3. joined \in Nat /\ MaxId \in Nat
  BY <1>2, XonoticGameAssumption DEF GameTypes
<1>4. /\ p # Nobody /\ joined' = joined /\ players' = [players EXCEPT ![e] = Nobody]
      /\ clean' = (clean /\ logging /\ BotKnows(p))
      /\ logging' = logging /\ users' = users /\ commands' = commands /\ phase' = phase
      /\ unchecking' = unchecking /\ UNCHANGED <<users, commands, phase, unchecking>>
  BY <1>1 DEF PlayerParts, phaseVars
<1>5. PICK l : l = [type |-> "part", id |-> p]
  OBVIOUS
<1>6. lines' = IF logging THEN Append(lines, l) ELSE lines
  BY <1>1, <1>4, <1>5 DEF PlayerParts, Logged
<1>7. p \in 1..MaxId /\ p <= joined /\ home[p] = e /\ Nobody \in 0..MaxId
  <2>1. p \in 0..MaxId
    BY <1>1, <1>2 DEF GameTypes
  <2> QED BY <1>1, <1>2, <1>3, <1>4, <2>1 DEF HomesAreKnown, Nobody
<1>8. l \in GameLines /\ IsLog(l) /\ l.type = "part" /\ l.id = p
  BY <1>5, <1>7 DEF GameLines, IsLog
<1>9. \A f \in Entities : About(home, l, f) <=> f = e
  BY <1>7, <1>8 DEF About
<1>10. /\ players' \in [Entities -> 0..MaxId] /\ players'[e] = Nobody
       /\ \A f \in Entities : f # e => players'[f] = players[f]
  BY <1>2, <1>4, <1>7 DEF GameTypes
<1>11. IsFiniteSet(Occupied')
  <2>1. Occupied' \subseteq Occupied
    BY <1>10 DEF Occupied
  <2>2. IsFiniteSet(Occupied)
    BY <1>2 DEF GameTypes
  <2> QED BY <2>1, <2>2, FS_Subset
<1>12. lines \in Seq(GameLines)
  BY <1>2 DEF GameTypes
<1>13. \A f \in Entities : players'[f] # Nobody => players'[f] <= joined' /\ home[players'[f]] = f
  BY <1>2, <1>4, <1>10 DEF HomesAreKnown
<1>14. \A u \in Held(users') : u.id # Nobody => u.id <= joined' /\ home[u.id] = u.entity
  BY <1>2, <1>4 DEF HomesAreKnown
<1>15. CASE ~logging
  <2>1. lines' = lines /\ clean' = FALSE
    BY <1>4, <1>6, <1>15
  <2>2. \A i \in DOMAIN lines' : ~IsLog(lines'[i])
    BY <1>2, <1>15, <2>1 DEF LogIsTrue
  <2>3. LogIsTrue(home)'
    BY <2>2, NoLogIsTrue
  <2>4. HomesAreKnown(home)'
    <3>1. \A i \in DOMAIN lines' : lines'[i].type # "join"
      BY <2>2 DEF IsLog
    <3> QED BY <1>13, <1>14, <2>2, <3>1 DEF HomesAreKnown
  <2>5. GameTypes'
    BY <1>2, <1>4, <1>10, <1>11, <1>12, <2>1 DEF GameTypes
  <2> QED BY <1>2, <1>4, <2>1, <2>3, <2>4, <2>5 DEF GameInv
<1>16. CASE logging
  <2>1. lines' = Append(lines, l) /\ logging'
    BY <1>4, <1>6, <1>16
  <2>2. /\ (PollWaits => PollWaits') /\ (PollAsked => PollAsked') /\ (PollListed => PollListed')
        /\ (PollEnds => PollEnds') /\ (PollDone => PollDone')
        /\ GoneIsGone(home) => GoneIsGone(home)'
        /\ HereIsHere(home) => HereIsHere(home)'
        /\ ListIsTrue(home) => ListIsTrue(home)'
        /\ \A i \in DOMAIN lines : lines[i].type = "part" /\ PartIsKnown(home, i) => PartIsKnown(home, i)'
    BY <1>2, <1>4, <1>8, <1>9, <1>10, <2>1, LogLineAppended
  <2>3. PICK m \in Nat :
          /\ m \in DOMAIN lines' /\ lines'[m] = l /\ m \notin DOMAIN lines /\ lines' \in Seq(GameLines)
          /\ \A i \in DOMAIN lines : i \in DOMAIN lines' /\ lines'[i] = lines[i] /\ i \in Nat /\ i < m
          /\ \A i \in DOMAIN lines' : i \in DOMAIN lines \/ i = m
          /\ \A f \in Entities, i \in DOMAIN lines' : IsLast(home, i, f)' =>
               IF f = e THEN i = m ELSE i \in DOMAIN lines /\ IsLast(home, i, f)
    BY <1>2, <1>4, <1>8, <1>9, <1>10, <2>1, LogLineAppended
  <2>4. GameTypes'
    BY <1>2, <1>4, <1>10, <1>11, <2>3 DEF GameTypes
  <2>5. \A i \in DOMAIN lines : lines[i] \in GameLines
    BY <1>12, OfList
  <2>6. HomesAreKnown(home)'
    <3>1. ASSUME NEW i \in DOMAIN lines', IsLog(lines'[i]) PROVE lines'[i].id <= joined'
      BY <1>2, <1>4, <1>7, <1>8, <2>3, <3>1 DEF HomesAreKnown
    <3>2. ASSUME NEW i \in DOMAIN lines', lines'[i].type = "join" PROVE home[lines'[i].id] = lines'[i].entity
      BY <1>2, <1>8, <2>3, <3>2 DEF HomesAreKnown
    <3> QED BY <1>13, <1>14, <3>1, <3>2 DEF HomesAreKnown
  <2>7. \A f \in Entities, i \in DOMAIN lines' : IsLast(home, i, f)' =>
          players'[f] = IF lines'[i].type = "join" THEN lines'[i].id ELSE Nobody
    <3> TAKE f \in Entities, i \in DOMAIN lines'
    <3> HAVE IsLast(home, i, f)'
    <3>1. CASE f = e
      BY <1>8, <1>10, <2>3, <3>1
    <3>2. CASE f # e
      <4>1. i \in DOMAIN lines /\ IsLast(home, i, f) /\ lines'[i] = lines[i]
        BY <2>3, <3>2
      <4> QED BY <1>2, <1>10, <3>2, <4>1 DEF LogIsTrue
    <3> QED BY <3>1, <3>2
  <2>8. \A i \in DOMAIN lines' : lines'[i].type = "join" /\ players'[lines'[i].entity] # Nobody =>
          \E k \in DOMAIN lines' :
            k >= i /\ lines'[k].type = "join" /\ lines'[k].id = players'[lines'[i].entity]
    <3> TAKE i \in DOMAIN lines'
    <3> HAVE lines'[i].type = "join" /\ players'[lines'[i].entity] # Nobody
    <3>1. i \in DOMAIN lines /\ lines'[i] = lines[i] /\ lines[i].entity # e
      BY <1>8, <1>10, <2>3
    <3>2. players'[lines[i].entity] = players[lines[i].entity]
      BY <1>10, <2>5, <3>1, LineKinds
    <3>3. PICK k \in DOMAIN lines :
            k >= i /\ lines[k].type = "join" /\ lines[k].id = players[lines[i].entity]
      BY <1>2, <3>1, <3>2 DEF LogIsTrue
    <3>4. k \in DOMAIN lines' /\ lines'[k] = lines[k]
      BY <2>3
    <3> QED BY <3>1, <3>2, <3>3, <3>4
  <2>9. \A i, j \in DOMAIN lines' :
          i < j /\ lines'[i].type = "join" /\ lines'[j].type = "part"
                /\ home[lines'[j].id] = lines'[i].entity =>
            \E k \in DOMAIN lines' :
              i <= k /\ k < j /\ lines'[k].type = "join" /\ lines'[k].id = lines'[j].id
    <3> TAKE i, j \in DOMAIN lines'
    <3> HAVE i < j /\ lines'[i].type = "join" /\ lines'[j].type = "part"
                   /\ home[lines'[j].id] = lines'[i].entity
    <3>1. i \in DOMAIN lines /\ lines'[i] = lines[i] /\ i \in Nat
      BY <1>8, <2>3
    <3>2. CASE j = m
      <4>1. lines[i].entity = e
        BY <1>7, <1>8, <2>3, <3>1, <3>2
      <4>2. PICK k \in DOMAIN lines : k >= i /\ lines[k].type = "join" /\ lines[k].id = p
        BY <1>1, <1>2, <1>4, <3>1, <4>1 DEF LogIsTrue
      <4>3. k \in DOMAIN lines' /\ lines'[k] = lines[k] /\ k < j /\ i <= k
        BY <2>3, <3>1, <3>2, <4>2
      <4> QED BY <1>8, <2>3, <3>2, <4>2, <4>3
    <3>3. CASE j \in DOMAIN lines
      <4>1. lines'[j] = lines[j]
        BY <2>3, <3>3
      <4>2. PICK k \in DOMAIN lines : i <= k /\ k < j /\ lines[k].type = "join" /\ lines[k].id = lines[j].id
        BY <1>2, <3>1, <3>3, <4>1 DEF LogIsTrue
      <4>3. k \in DOMAIN lines' /\ lines'[k] = lines[k]
        BY <2>3
      <4> QED BY <4>1, <4>2, <4>3
    <3> QED BY <2>3, <3>2, <3>3
  <2>10. \A j \in DOMAIN lines' : lines'[j].type = "part" =>
           /\ \A f \in Entities : players'[f] # lines'[j].id
           /\ \A i \in DOMAIN lines' : i < j => ~(lines'[i].type = "part" /\ lines'[i].id = lines'[j].id)
    <3> TAKE j \in DOMAIN lines'
    <3> HAVE lines'[j].type = "part"
    <3>1. CASE j = m
      <4>1. \A f \in Entities : players'[f] # p
        BY <1>2, <1>4, <1>7, <1>10 DEF HomesAreKnown
      <4>2. ASSUME NEW i \in DOMAIN lines', i < j, lines'[i].type = "part" PROVE lines'[i].id # p
        <5>1. i # m
          BY <2>3, <3>1, <4>2
        <5>2. i \in DOMAIN lines /\ lines'[i] = lines[i]
          BY <2>3, <5>1
        <5> QED BY <1>1, <1>2, <4>2, <5>2 DEF LogIsTrue
      <4> QED BY <1>8, <2>3, <3>1, <4>1, <4>2
    <3>2. CASE j \in DOMAIN lines
      <4>1. lines'[j] = lines[j] /\ lines[j].type = "part" /\ j \in Nat /\ j < m
        BY <2>3, <3>2
      <4>2. lines[j].id # Nobody
        BY <2>5, <3>2, <4>1, LineKinds
      <4>3. \A f \in Entities : players'[f] # lines'[j].id
        BY <1>2, <1>10, <3>2, <4>1, <4>2 DEF LogIsTrue
      <4>4. ASSUME NEW i \in DOMAIN lines', i < j, lines'[i].type = "part" PROVE lines'[i].id # lines'[j].id
        <5>1. i # m
          BY <4>1, <4>4
        <5>2. i \in DOMAIN lines /\ lines'[i] = lines[i]
          BY <2>3, <5>1
        <5> QED BY <1>2, <3>2, <4>1, <4>4, <5>2 DEF LogIsTrue
      <4> QED BY <4>3, <4>4
    <3> QED BY <2>3, <3>1, <3>2
  <2>11. LogIsTrue(home)'
    BY <2>1, <2>7, <2>8, <2>9, <2>10 DEF LogIsTrue
  <2>12. ASSUME clean' PROVE PollIsRight(home)'
    <3>1. PollIsRight(home) /\ BotKnows(p)
      BY <1>4, <2>12 DEF GameInv
    <3>2. PartIsKnown(home, m)'
      <4>1. CASE \E i \in DOMAIN lines : lines[i].type = "join" /\ lines[i].id = p
        <5>1. PICK k \in DOMAIN lines : lines[k].type = "join" /\ lines[k].id = p
          BY <4>1
        <5>2. k \in DOMAIN lines' /\ lines'[k] = lines[k] /\ k < m
          BY <2>3
        <5> QED BY <1>8, <2>3, <5>1, <5>2 DEF PartIsKnown
      <4>2. CASE \E i \in DOMAIN users : users[i].id = p
        <5>1. PICK u \in Held(users) : u.id = p
          BY <4>2 DEF Held
        <5>2. u.entity = e
          BY <1>2, <1>4, <1>7, <5>1 DEF HomesAreKnown
        <5>3. \A v \in Held(users) : v.entity = e => v = u
          BY <1>2, <5>2, HeldOnce
        <5>4. lines'[m].id = p /\ home[p] = e /\ users' = users
          BY <1>4, <1>7, <1>8, <2>3
        <5> QED BY <5>1, <5>3, <5>4 DEF PartIsKnown
      <4> QED BY <3>1, <4>1, <4>2 DEF BotKnows
    <3>3. PartsAreKnown(home) => PartsAreKnown(home)'
      <4> HAVE PartsAreKnown(home)
      <4>1. ASSUME NEW i \in DOMAIN lines', lines'[i].type = "part" PROVE PartIsKnown(home, i)'
        <5>1. i \in DOMAIN lines => PartIsKnown(home, i)'
          BY <2>2, <2>3, <4>1 DEF PartsAreKnown
        <5>2. i = m => PartIsKnown(home, i)'
          BY <3>2
        <5> QED BY <2>3, <5>1, <5>2
      <4> QED BY <4>1 DEF PartsAreKnown
    <3>4. /\ phase' # "DISCONNECTED"
          /\ (PollWaits \/ PollAsked \/ PollListed \/ PollEnds \/ PollDone)'
          /\ ~unchecking' => PartsAreKnown(home)' /\ GoneIsGone(home)'
      BY <1>4, <2>2, <3>1, <3>3 DEF PollIsRight
    <3>5. PollListed' \/ PollEnds' \/ PollDone' => HereIsHere(home)' /\ ListIsTrue(home)'
      BY <1>4, <2>2, <3>1, OnlyLater DEF PollIsRight
    <3> QED BY <3>4, <3>5 DEF PollIsRight
  <2> QED BY <1>2, <1>4, <2>4, <2>6, <2>11, <2>12 DEF GameInv
<1> QED BY <1>15, <1>16

\* What the answer to "status" lists.
Listing(here) ==
  [i \in DOMAIN here |-> [type |-> "player", id |-> players[here[i]], entity |-> here[i]]]

LEMMA StatusAnswer ==
  ASSUME GameTypes, NEW here, here = SetToSeq(Occupied), NEW ls, ls = Listing(here)
  PROVE  /\ ls \in Seq(GameLines)
         /\ \A x \in Held(ls) : x.type = "player" /\ x.entity \in Entities /\ players[x.entity] = x.id
         /\ \A e \in Occupied : \E x \in Held(ls) : x.type = "player" /\ x.entity = e
<1>0. IsFiniteSet(Occupied)
  BY DEF GameTypes
<1>1. PICK c \in Nat : c = Cardinality(Occupied)
  BY <1>0, SetInOrder
<1>2. DOMAIN here = 1..c /\ Occupied = {here[i] : i \in 1..c}
  BY <1>0, <1>1, SetInOrder
<1>3. ASSUME NEW i \in 1..c
      PROVE  /\ ls[i] = [type |-> "player", id |-> players[here[i]], entity |-> here[i]]
             /\ here[i] \in Entities /\ players[here[i]] \in 1..MaxId
  <2>1. here[i] \in Occupied
    BY <1>2
  <2>2. here[i] \in Entities /\ players[here[i]] # 0
    BY <2>1 DEF Occupied, Nobody
  <2>3. players[here[i]] \in 0..MaxId /\ MaxId \in Nat
    BY <2>2, XonoticGameAssumption DEF GameTypes
  <2> QED BY <1>2, <2>2, <2>3 DEF Listing
<1>4. ASSUME NEW i \in 1..c
      PROVE  /\ ls[i] \in GameLines /\ ls[i].type = "player" /\ ls[i].entity = here[i]
             /\ ls[i].entity \in Entities /\ players[ls[i].entity] = ls[i].id
  <2>1. PICK p \in 1..MaxId : p = players[here[i]]
    BY <1>3
  <2>2. PICK f \in Entities : f = here[i]
    BY <1>3
  <2>3. PICK l : l = [type |-> "player", id |-> p, entity |-> f]
    OBVIOUS
  <2>4. l \in GameLines /\ l.type = "player" /\ l.entity = f /\ l.id = p
    BY <2>3 DEF GameLines
  <2>5. ls[i] = l
    BY <1>3, <2>1, <2>2, <2>3
  <2> QED BY <1>3, <2>1, <2>2, <2>4, <2>5
<1>5. DOMAIN ls = 1..c /\ ls = [i \in 1..c |-> ls[i]]
  BY <1>2 DEF Listing
<1>6. ls \in Seq(GameLines)
  BY <1>1, <1>4, <1>5
<1>7. \A x \in Held(ls) : x.type = "player" /\ x.entity \in Entities /\ players[x.entity] = x.id
  BY <1>4, <1>5 DEF Held
<1>8. \A e \in Occupied : \E x \in Held(ls) : x.type = "player" /\ x.entity = e
  <2> TAKE e \in Occupied
  <2>1. PICK i \in 1..c : e = here[i]
    BY <1>2
  <2>2. ls[i] \in Held(ls)
    BY <1>5 DEF Held
  <2> QED BY <1>4, <2>1, <2>2
<1> QED BY <1>6, <1>7, <1>8

LEMMA PollCommands ==
  /\ Head(<<"set", "status", "dest">>) = "set" /\ Tail(<<"set", "status", "dest">>) = <<"status", "dest">>
  /\ Head(<<"status", "dest">>) = "status" /\ Tail(<<"status", "dest">>) = <<"dest">>
  /\ Head(<<"dest">>) = "dest" /\ Tail(<<"dest">>) = <<>>
OBVIOUS

LEMMA HeldByOne == ASSUME NEW x PROVE Held(<<x>>) = {x} /\ Held(<<>>) = {}
<1>1. DOMAIN <<x>> = {1} /\ <<x>>[1] = x /\ DOMAIN <<>> = {}
  OBVIOUS
<1> QED BY <1>1 DEF Held

\* Parts stay known when the users and the log do, and more answers come.
LEMMA PartsStayKnown ==
  ASSUME NEW home \in Homes, UNCHANGED users,
         \A i \in DOMAIN lines : i \in DOMAIN lines' /\ lines'[i] = lines[i],
         \A i \in DOMAIN lines' : i \notin DOMAIN lines =>
           ~IsLog(lines'[i]) /\ \A j \in DOMAIN lines : ~(i < j)
  PROVE  PartsAreKnown(home) => PartsAreKnown(home)'
<1> HAVE PartsAreKnown(home)
<1>1. users' = users
  OBVIOUS
<1>2. ASSUME NEW i \in DOMAIN lines', lines'[i].type = "part" PROVE PartIsKnown(home, i)'
  <2>1. i \in DOMAIN lines /\ lines'[i] = lines[i]
    BY <1>2 DEF IsLog
  <2>2. \A j \in DOMAIN lines' : j < i => j \in DOMAIN lines /\ lines'[j] = lines[j]
    BY <2>1
  <2>3. PartIsKnown(home, i)
    BY <1>2, <2>1 DEF PartsAreKnown
  <2>4. CASE \E j \in DOMAIN lines : j < i /\ lines[j].type = "join" /\ lines[j].id = lines[i].id
    BY <2>1, <2>4 DEF PartIsKnown
  <2>5. CASE ~\E j \in DOMAIN lines : j < i /\ lines[j].type = "join" /\ lines[j].id = lines[i].id
    BY <1>1, <2>1, <2>2, <2>3, <2>5 DEF PartIsKnown, ListedBefore
  <2> QED BY <2>4, <2>5
<1> QED BY <1>2 DEF PartsAreKnown

LEMMA ServerExecutesInv == ASSUME NEW home \in Homes, GameInv(home), ServerExecutes PROVE GameInv(home)'
<1>1. PICK h, here, ls :
        /\ h = Head(commands) /\ here = SetToSeq(Occupied)
        /\ ls = CASE h = "status" -> Listing(here)
                  [] h = "dest" -> <<[type |-> "dest", mine |-> logging]>>
                  [] OTHER -> <<>>
  OBVIOUS
<1>2. GameTypes /\ HomesAreKnown(home) /\ LogIsTrue(home) /\ OneEach(users)
  BY DEF GameInv
<1>3. lines' = lines \o ls
  BY <1>1 DEF ServerExecutes, Occupied, Listing
<1>4. /\ players' = players /\ joined' = joined /\ users' = users /\ phase' = phase
      /\ unchecking' = unchecking /\ clean' = clean /\ commands # <<>> /\ commands' = Tail(commands)
  BY DEF ServerExecutes, phaseVars
<1>5. logging' \in BOOLEAN /\ (logging => logging')
  BY <1>2 DEF ServerExecutes, GameTypes
<1>6. /\ commands' \in Seq({"set", "status", "dest"}) /\ h \in {"set", "status", "dest"}
  <2>1. commands \in Seq({"set", "status", "dest"})
    BY <1>2 DEF GameTypes
  <2> QED BY <1>1, <1>4, <2>1, HeadTailProperties
<1>7. CASE h = "status"
  <2>1. ls = Listing(here)
    BY <1>1, <1>7
  <2>2. /\ ls \in Seq(GameLines)
        /\ \A x \in Held(ls) : x.type = "player" /\ x.entity \in Entities /\ players[x.entity] = x.id
        /\ \A e \in Occupied : \E x \in Held(ls) : x.type = "player" /\ x.entity = e
    <3>1. here = SetToSeq(Occupied)
      BY <1>1
    <3> QED BY <1>2, <2>1, <3>1, StatusAnswer
  <2>3. \A x \in Held(ls) : ~IsLog(x)
    BY <2>2 DEF IsLog
  <2>4. PICK n \in Nat :
          /\ lines' \in Seq(GameLines)
          /\ \A i \in DOMAIN lines : i \in DOMAIN lines' /\ lines'[i] = lines[i] /\ i \in Nat /\ i <= n
          /\ \A i \in DOMAIN lines' : /\ i \in Nat /\ i >= 1
                                      /\ i \notin DOMAIN lines => i > n /\ lines'[i] \in Held(ls)
          /\ \A x \in Held(ls) : \E i \in DOMAIN lines' : i > n /\ lines'[i] = x
    <3>1. lines \in Seq(GameLines)
      BY <1>2 DEF GameTypes
    <3> QED BY <1>3, <2>2, <3>1, GameLinesAppended
  <2>5. /\ LogIsTrue(home)'
        /\ \A i \in DOMAIN lines' : IsLog(lines'[i]) => lines'[i].id <= joined
        /\ \A i \in DOMAIN lines' : lines'[i].type = "join" => home[lines'[i].id] = lines'[i].entity
    BY <1>4, <1>5, <2>3, <2>4, AnswersAppended
  <2>6. GameTypes'
    <3>1. Occupied' = Occupied
      BY <1>4 DEF Occupied
    <3> QED BY <1>2, <1>4, <1>5, <1>6, <2>4, <3>1 DEF GameTypes
  <2>7. HomesAreKnown(home)'
    BY <1>2, <1>4, <2>5 DEF HomesAreKnown
  <2>8. ASSUME clean' PROVE PollIsRight(home)'
    <3>1. PollIsRight(home)
      BY <1>4, <2>8 DEF GameInv
    <3>2. PollAsked /\ commands' = <<"dest">>
      BY <1>1, <1>4, <1>7, <3>1, PollCommands
         DEF PollIsRight, PollWaits, PollAsked, PollListed, PollEnds, PollDone
    <3>3. PollListed'
      <4>1. \A i \in DOMAIN lines' : lines'[i].type # "dest"
        BY <2>2, <2>4, <3>2 DEF PollAsked, OnlyLog, IsLog
      <4> QED BY <1>4, <3>2, <4>1 DEF PollListed, PollAsked
    <3>4. PartsAreKnown(home)'
      <4>1. UNCHANGED users
        BY <1>4
      <4>2. \A i \in DOMAIN lines' : i \notin DOMAIN lines =>
              ~IsLog(lines'[i]) /\ \A j \in DOMAIN lines : ~(i < j)
        BY <2>3, <2>4
      <4>3. PartsAreKnown(home)
        BY <3>1, <3>2 DEF PollIsRight, PollAsked
      <4> QED BY <2>4, <4>1, <4>2, <4>3, PartsStayKnown
    <3>5. ASSUME NEW e \in Entities, NothingAbout(home, e)'
          PROVE  NothingAbout(home, e) /\ players[e] = Nobody
      <4>1. \A i \in DOMAIN lines' : ~About(home, lines'[i], e)
        BY <3>5 DEF NothingAbout
      <4>2. NothingAbout(home, e)
        BY <2>4, <4>1 DEF NothingAbout
      <4>3. ASSUME e \in Occupied PROVE FALSE
        <5>1. PICK x \in Held(ls) : x.type = "player" /\ x.entity = e
          BY <2>2, <4>3
        <5>2. PICK i \in DOMAIN lines' : lines'[i] = x
          BY <2>4
        <5> QED BY <4>1, <5>1, <5>2 DEF About
      <4> QED BY <4>2, <4>3 DEF Occupied
    <3>6. GoneIsGone(home)'
      <4>1. GoneIsGone(home)
        BY <3>1, <3>2 DEF PollIsRight, PollAsked
      <4> QED BY <1>4, <3>5, <4>1 DEF GoneIsGone
    <3>7. HereIsHere(home)'
      BY <1>4, <3>5 DEF HereIsHere
    <3>8. ListIsTrue(home)'
      <4>1. ASSUME NEW i \in DOMAIN lines', lines'[i].type = "player"
            PROVE  players'[lines'[i].entity] = lines'[i].id
        <5>1. i \notin DOMAIN lines
          BY <2>4, <3>2, <4>1 DEF PollAsked, OnlyLog, IsLog
        <5> QED BY <1>4, <2>2, <2>4, <5>1
      <4> QED BY <4>1 DEF ListIsTrue
    <3>9. phase' # "DISCONNECTED"
      BY <1>4, <3>1 DEF PollIsRight
    <3> QED BY <3>3, <3>4, <3>6, <3>7, <3>8, <3>9 DEF PollIsRight
  <2> QED BY <1>2, <1>4, <2>5, <2>6, <2>7, <2>8 DEF GameInv
<1>8. CASE h = "dest"
  <2>1. PICK l : l = [type |-> "dest", mine |-> logging]
    OBVIOUS
  <2>2. ls = <<l>>
    BY <1>1, <1>8, <2>1
  <2>3. l \in GameLines /\ ~IsLog(l) /\ l.type = "dest"
    <3>1. logging \in BOOLEAN
      BY <1>2 DEF GameTypes
    <3> QED BY <2>1, <3>1 DEF GameLines, IsLog
  <2>4. PICK m \in Nat :
          /\ m \in DOMAIN lines' /\ lines'[m] = l /\ m \notin DOMAIN lines /\ lines' \in Seq(GameLines)
          /\ \A i \in DOMAIN lines : i \in DOMAIN lines' /\ lines'[i] = lines[i] /\ i \in Nat /\ i < m
          /\ \A i \in DOMAIN lines' : i \in DOMAIN lines \/ i = m
    <3>1. lines \in Seq(GameLines)
      BY <1>2 DEF GameTypes
    <3>2. lines' = Append(lines, l)
      BY <1>3, <2>2, <2>3, <3>1, AppendIsConcat
    <3> QED BY <2>3, <3>1, <3>2, GameLineAppended
  <2>5. /\ LogIsTrue(home)'
        /\ \A i \in DOMAIN lines' : IsLog(lines'[i]) => lines'[i].id <= joined
        /\ \A i \in DOMAIN lines' : lines'[i].type = "join" => home[lines'[i].id] = lines'[i].entity
    BY <1>4, <1>5, <2>3, <2>4, AnswersAppended
  <2>6. GameTypes'
    <3>1. Occupied' = Occupied
      BY <1>4 DEF Occupied
    <3> QED BY <1>2, <1>4, <1>5, <1>6, <2>4, <3>1 DEF GameTypes
  <2>7. HomesAreKnown(home)'
    BY <1>2, <1>4, <2>5 DEF HomesAreKnown
  <2>8. ASSUME clean' PROVE PollIsRight(home)'
    <3>1. PollIsRight(home)
      BY <1>4, <2>8 DEF GameInv
    <3>2. PollListed /\ commands' = <<>>
      BY <1>1, <1>4, <1>8, <3>1, PollCommands
         DEF PollIsRight, PollWaits, PollAsked, PollListed, PollEnds, PollDone
    <3>3. PollEnds'
      <4>1. \A i \in DOMAIN lines' : (i > m => IsLog(lines'[i])) /\ (i < m => lines'[i].type # "dest")
        BY <2>4, <3>2 DEF PollListed
      <4>2. lines'[m].type = "dest"
        BY <2>3, <2>4
      <4> QED BY <1>4, <2>4, <3>2, <4>1, <4>2 DEF PollEnds, PollListed
    <3>4. PartsAreKnown(home)'
      <4>1. UNCHANGED users
        BY <1>4
      <4>2. \A i \in DOMAIN lines' : i \notin DOMAIN lines =>
              ~IsLog(lines'[i]) /\ \A j \in DOMAIN lines : ~(i < j)
        BY <2>3, <2>4
      <4>3. PartsAreKnown(home)
        BY <3>1, <3>2 DEF PollIsRight, PollListed
      <4> QED BY <2>4, <4>1, <4>2, <4>3, PartsStayKnown
    <3>5. \A e \in Entities : NothingAbout(home, e)' => NothingAbout(home, e)
      BY <2>4 DEF NothingAbout
    <3>6. GoneIsGone(home)' /\ HereIsHere(home)'
      <4>1. GoneIsGone(home) /\ HereIsHere(home)
        BY <3>1, <3>2 DEF PollIsRight, PollListed
      <4> QED BY <1>4, <3>5, <4>1 DEF GoneIsGone, HereIsHere
    <3>7. ListIsTrue(home)'
      <4>1. ListIsTrue(home)
        BY <3>1, <3>2 DEF PollIsRight, PollListed
      <4> QED BY <1>4, <2>3, <2>4, <4>1 DEF ListIsTrue
    <3>8. phase' # "DISCONNECTED"
      BY <1>4, <3>1 DEF PollIsRight
    <3> QED BY <3>3, <3>4, <3>6, <3>7, <3>8 DEF PollIsRight
  <2> QED BY <1>2, <1>4, <2>5, <2>6, <2>7, <2>8 DEF GameInv
<1>9. CASE h = "set"
  <2>1. lines' = lines
    <3>1. lines \in Seq(GameLines)
      BY <1>2 DEF GameTypes
    <3>2. ls = <<>>
      BY <1>1, <1>9
    <3> QED BY <1>3, <3>1, <3>2, ConcatEmptySeq
  <2>2. /\ LogIsTrue(home)'
        /\ \A i \in DOMAIN lines' : IsLog(lines'[i]) => lines'[i].id <= joined
        /\ \A i \in DOMAIN lines' : lines'[i].type = "join" => home[lines'[i].id] = lines'[i].entity
    BY <1>4, <1>5, <2>1, AnswersAppended
  <2>3. GameTypes'
    <3>1. Occupied' = Occupied
      BY <1>4 DEF Occupied
    <3> QED BY <1>2, <1>4, <1>5, <1>6, <2>1, <3>1 DEF GameTypes
  <2>4. HomesAreKnown(home)'
    BY <1>2, <1>4, <2>2 DEF HomesAreKnown
  <2>5. ASSUME clean' PROVE PollIsRight(home)'
    <3>1. PollIsRight(home)
      BY <1>4, <2>5 DEF GameInv
    <3>2. PollAsked /\ commands' = <<"status", "dest">>
      BY <1>1, <1>4, <1>9, <3>1, PollCommands
         DEF PollIsRight, PollWaits, PollAsked, PollListed, PollEnds, PollDone
    <3>3. PollAsked'
      BY <1>4, <2>1, <3>2 DEF PollAsked, OnlyLog
    <3>4. PartsAreKnown(home)' /\ GoneIsGone(home)'
      <4>1. PartsAreKnown(home) /\ GoneIsGone(home)
        BY <3>1, <3>2 DEF PollIsRight, PollAsked
      <4> QED BY <1>4, <2>1, <4>1 DEF PartsAreKnown, PartIsKnown, ListedBefore, GoneIsGone, NothingAbout
    <3>5. ~(PollListed' \/ PollEnds' \/ PollDone')
      BY <3>2, CommandsDiffer DEF PollListed, PollEnds, PollDone
    <3>6. phase' # "DISCONNECTED"
      BY <1>4, <3>1 DEF PollIsRight
    <3> QED BY <3>3, <3>4, <3>5, <3>6 DEF PollIsRight
  <2> QED BY <1>2, <1>4, <2>2, <2>3, <2>4, <2>5 DEF GameInv
<1> QED BY <1>6, <1>7, <1>8, <1>9

\* What reading a line leaves as it was, whatever the bot makes of the line.
LEMMA ReadLeaves ==
  ASSUME NEW home \in Homes, GameInv(home), lines # <<>>, lines' = Tail(lines), UNCHANGED serverVars
  PROVE  /\ Head(lines) = lines[1] /\ lines[1] \in GameLines
         /\ OnlyLog => IsLog(lines[1]) /\ OnlyLog'
         /\ \A f \in Entities : NothingAbout(home, f)' =>
              IF About(home, lines[1], f) THEN IsLog(lines[1]) => IsLast(home, 1, f)
              ELSE NothingAbout(home, f)
         /\ ListIsTrue(home) => ListIsTrue(home)'
         /\ \A f \in Entities :
              ListIsTrue(home) /\ lines[1].type = "player" /\ lines[1].entity = f /\ NothingAbout(home, f)' =>
                players[f] = lines[1].id
<1>1. lines \in Seq(GameLines)
  BY DEF GameInv, GameTypes
<1>2. /\ Head(lines) = lines[1] /\ lines[1] \in GameLines
      /\ 1 \in DOMAIN lines /\ (\A i \in DOMAIN lines : i \in Nat /\ i >= 1)
      /\ \A i \in DOMAIN lines' : i \in Nat /\ i >= 1 /\ i + 1 \in DOMAIN lines /\ lines'[i] = lines[i + 1]
      /\ \A i \in DOMAIN lines : i # 1 => i - 1 \in DOMAIN lines' /\ lines'[i - 1] = lines[i]
  BY <1>1, GameLineTaken
<1>3. players' = players
  BY DEF serverVars
<1>4. OnlyLog => IsLog(lines[1]) /\ OnlyLog'
  BY <1>2 DEF OnlyLog
<1>5. ASSUME NEW f \in Entities, NothingAbout(home, f)'
      PROVE  \A i \in DOMAIN lines : i # 1 => ~About(home, lines[i], f)
  BY <1>2, <1>5 DEF NothingAbout
<1>6. \A f \in Entities : NothingAbout(home, f)' =>
        IF About(home, lines[1], f) THEN IsLog(lines[1]) => IsLast(home, 1, f) ELSE NothingAbout(home, f)
  <2> TAKE f \in Entities
  <2> HAVE NothingAbout(home, f)'
  <2>1. CASE About(home, lines[1], f)
    BY <1>5, <2>1 DEF IsLast
  <2>2. CASE ~About(home, lines[1], f)
    BY <1>5, <2>2 DEF NothingAbout
  <2> QED BY <2>1, <2>2
<1>7. ListIsTrue(home) => ListIsTrue(home)'
  <2> HAVE ListIsTrue(home)
  <2>1. ASSUME NEW i \in DOMAIN lines', lines'[i].type = "player",
               players[lines'[i].entity] # lines'[i].id
        PROVE  \E j \in DOMAIN lines' : j > i /\ IsLog(lines'[j]) /\ About(home, lines'[j], lines'[i].entity)
    <3>1. i \in Nat /\ i >= 1 /\ i + 1 \in DOMAIN lines /\ lines'[i] = lines[i + 1]
      BY <1>2
    <3>2. PICK j \in DOMAIN lines :
            j > i + 1 /\ IsLog(lines[j]) /\ About(home, lines[j], lines[i + 1].entity)
      BY <2>1, <3>1 DEF ListIsTrue
    <3>3. j # 1 /\ j - 1 > i
      BY <1>2, <3>1, <3>2
    <3> QED BY <1>2, <3>1, <3>2, <3>3
  <2> QED BY <1>3, <2>1 DEF ListIsTrue
<1>8. ASSUME NEW f \in Entities, ListIsTrue(home), lines[1].type = "player", lines[1].entity = f,
             NothingAbout(home, f)'
      PROVE  players[f] = lines[1].id
  <2>1. \A i \in DOMAIN lines : i > 1 => ~About(home, lines[i], f)
    BY <1>2, <1>5, <1>8
  <2> QED BY <1>2, <1>8, <2>1 DEF ListIsTrue
<1> QED BY <1>2, <1>4, <1>6, <1>7, <1>8

\* A line that does not end a poll leaves it where it is.
LEMMA StagesRead ==
  ASSUME NEW home \in Homes, GameInv(home), lines # <<>>, lines' = Tail(lines), UNCHANGED serverVars,
         lines[1].type # "dest", UNCHANGED <<commands, unchecking, phase>>
  PROVE  /\ (PollWaits => PollWaits') /\ (PollAsked => PollAsked')
         /\ (PollListed => PollListed') /\ (PollEnds => PollEnds')
<1>1. lines \in Seq(GameLines)
  BY DEF GameInv, GameTypes
<1>2. /\ (\A i \in DOMAIN lines : i \in Nat /\ i >= 1)
      /\ \A i \in DOMAIN lines' : i \in Nat /\ i >= 1 /\ i + 1 \in DOMAIN lines /\ lines'[i] = lines[i + 1]
      /\ \A i \in DOMAIN lines : i # 1 => i - 1 \in DOMAIN lines' /\ lines'[i - 1] = lines[i]
  BY <1>1, GameLineTaken
<1>3. commands' = commands /\ unchecking' = unchecking /\ phase' = phase
  OBVIOUS
<1>4. OnlyLog => OnlyLog'
  BY ReadLeaves
<1>5. (PollWaits => PollWaits') /\ (PollAsked => PollAsked')
  BY <1>3, <1>4 DEF PollWaits, PollAsked
<1>6. PollListed => PollListed'
  BY <1>2, <1>3 DEF PollListed
<1>7. ASSUME PollEnds PROVE PollEnds'
  <2>1. PICK d \in DOMAIN lines :
          /\ lines[d].type = "dest"
          /\ \A i \in DOMAIN lines : (i > d => IsLog(lines[i])) /\ (i < d => lines[i].type # "dest")
    BY <1>7 DEF PollEnds
  <2>2. d # 1 /\ d \in Nat /\ d - 1 \in DOMAIN lines' /\ lines'[d - 1] = lines[d]
    BY <1>2, <2>1
  <2>3. ASSUME NEW i \in DOMAIN lines'
        PROVE  (i > d - 1 => IsLog(lines'[i])) /\ (i < d - 1 => lines'[i].type # "dest")
    <3>1. i \in Nat /\ i + 1 \in DOMAIN lines /\ lines'[i] = lines[i + 1]
      BY <1>2
    <3>2. (i > d - 1 => i + 1 > d) /\ (i < d - 1 => i + 1 < d)
      BY <2>2, <3>1
    <3> QED BY <2>1, <3>1, <3>2
  <2> QED BY <1>3, <1>7, <2>1, <2>2, <2>3 DEF PollEnds
<1> QED BY <1>5, <1>6, <1>7

\* It is enough to see what becomes of the users, and of a poll that is clean.
LEMMA ReadInv ==
  ASSUME NEW home \in Homes, GameInv(home), lines # <<>>, lines' = Tail(lines),
         UNCHANGED <<serverVars, unchecking, clean>>,
         users' \in Seq(GameUsers), OneEach(users'),
         \A u \in Held(users') : u.id # Nobody => u.id <= joined /\ home[u.id] = u.entity,
         phase' \in {"DISCONNECTED", "CONNECTING", "CHECKING", "CONNECTED"},
         commands' \in Seq({"set", "status", "dest"}),
         clean => PollIsRight(home)'
  PROVE  GameInv(home)'
<1>1. /\ players' = players /\ joined' = joined /\ logging' = logging /\ unchecking' = unchecking
      /\ clean' = clean /\ UNCHANGED serverVars
  BY DEF serverVars
<1>2. GameTypes /\ HomesAreKnown(home)
  BY DEF GameInv
<1>3. /\ LogIsTrue(home)'
      /\ \A i \in DOMAIN lines' : IsLog(lines'[i]) => lines'[i].id <= joined
      /\ \A i \in DOMAIN lines' : lines'[i].type = "join" => home[lines'[i].id] = lines'[i].entity
  BY <1>1, LogTaken
<1>4. lines' \in Seq(GameLines)
  <2>1. lines \in Seq(GameLines)
    BY <1>2 DEF GameTypes
  <2> QED BY <2>1, GameLineTaken
<1>5. GameTypes'
  <2>1. Occupied' = Occupied
    BY <1>1 DEF Occupied
  <2> QED BY <1>1, <1>2, <1>4, <2>1 DEF GameTypes
<1>6. HomesAreKnown(home)'
  BY <1>1, <1>2, <1>3 DEF HomesAreKnown
<1> QED BY <1>1, <1>3, <1>5, <1>6 DEF GameInv

LEMMA KeptUsers ==
  ASSUME GameTypes, OneEach(users), NEW P, NEW us, us = OnlyThose({u \in ToSet(users) : u \in P})
  PROVE  /\ us \in Seq(GameUsers) /\ OneEach(us)
         /\ Held(us) = {u \in Held(users) : u \in P}
<1>1. users \in Seq(GameUsers)
  BY DEF GameTypes
<1>2. PICK kept : kept = {u \in ToSet(users) : u \in P}
  OBVIOUS
<1>3. us \in Seq(GameUsers) /\ OneEach(us) /\ Held(us) = Held(users) \cap kept
  BY <1>1, <1>2, OnlyThoseIs
<1>4. Held(users) = ToSet(users)
  BY <1>1, OfList
<1> QED BY <1>2, <1>3, <1>4

\* After a line that is not a join, whoever parts is known as before if the users allow it.
LEMMA PartRead ==
  ASSUME NEW home \in Homes, GameInv(home), lines # <<>>, lines' = Tail(lines), lines[1].type # "join",
         PartsAreKnown(home), NEW i \in DOMAIN lines', lines'[i].type = "part", NEW q, q = lines'[i].id
  PROVE  /\ q \in 1..MaxId /\ q # Nobody
         /\ i + 1 \in DOMAIN lines /\ lines'[i] = lines[i + 1] /\ 1 < i + 1
         /\ \/ PartIsKnown(home, i)'
            \/ /\ \A v \in Held(users) : v.entity = home[q] /\ v.checked => v.id = q
               /\ ListedBefore(i + 1, home[q]) => \E v \in Held(users) : v.id = q
<1>1. lines \in Seq(GameLines)
  BY DEF GameInv, GameTypes
<1>2. /\ \A j \in DOMAIN lines : j \in Nat /\ j >= 1
      /\ \A j \in DOMAIN lines' : j \in Nat /\ j >= 1 /\ j + 1 \in DOMAIN lines /\ lines'[j] = lines[j + 1]
      /\ \A j \in DOMAIN lines : j # 1 => j - 1 \in DOMAIN lines' /\ lines'[j - 1] = lines[j]
  BY <1>1, GameLineTaken
<1>3. i \in Nat /\ i >= 1 /\ i + 1 \in DOMAIN lines /\ lines'[i] = lines[i + 1] /\ 1 < i + 1
  BY <1>2
<1>4. q \in 1..MaxId /\ q # Nobody
  <2>1. lines[i + 1] \in GameLines
    BY <1>1, <1>3, OfList
  <2> QED BY <1>3, <2>1, LineKinds
<1>5. PartIsKnown(home, i + 1)
  BY <1>3 DEF PartsAreKnown
<1>6. CASE \E k \in DOMAIN lines : k < i + 1 /\ lines[k].type = "join" /\ lines[k].id = q
  <2>1. PICK k \in DOMAIN lines : k < i + 1 /\ lines[k].type = "join" /\ lines[k].id = q
    BY <1>6
  <2>2. k # 1
    BY <2>1
  <2>3. k - 1 \in DOMAIN lines' /\ lines'[k - 1] = lines[k] /\ k - 1 < i
    BY <1>2, <1>3, <2>1, <2>2
  <2>4. PartIsKnown(home, i)'
    BY <2>1, <2>3 DEF PartIsKnown
  <2> QED BY <1>3, <1>4, <2>4
<1>7. CASE ~\E k \in DOMAIN lines : k < i + 1 /\ lines[k].type = "join" /\ lines[k].id = q
  <2>1. /\ \A v \in Held(users) : v.entity = home[q] /\ v.checked => v.id = q
        /\ ListedBefore(i + 1, home[q]) => \E v \in Held(users) : v.id = q
    BY <1>3, <1>5, <1>7 DEF PartIsKnown
  <2> QED BY <1>3, <1>4, <2>1
<1> QED BY <1>6, <1>7

LEMMA PlayerBefore ==
  ASSUME lines \in Seq(GameLines), lines # <<>>, lines' = Tail(lines), NEW i \in DOMAIN lines', NEW f,
         ListedBefore(i, f)'
  PROVE  ListedBefore(i + 1, f)
<1>1. \A j \in DOMAIN lines' : j \in Nat /\ j + 1 \in DOMAIN lines /\ lines'[j] = lines[j + 1]
  BY GameLineTaken
<1>2. PICK j \in DOMAIN lines' : j < i /\ lines'[j].type = "player" /\ lines'[j].entity = f
  BY DEF ListedBefore
<1>3. j + 1 < i + 1
  BY <1>1, <1>2
<1> QED BY <1>1, <1>2, <1>3 DEF ListedBefore

\* Who joins takes the place of the users of the entity.
LEMMA ReadJoinInv ==
  ASSUME NEW home \in Homes, GameInv(home), lines # <<>>, lines' = Tail(lines),
         HandleJoin(Head(lines)), UNCHANGED <<serverVars, unchecking, clean>>
  PROVE  GameInv(home)'
<1>1. GameTypes /\ OneEach(users) /\ HomesAreKnown(home) /\ LogIsTrue(home)
  BY DEF GameInv
<1>2. lines \in Seq(GameLines) /\ users \in Seq(GameUsers)
  BY <1>1 DEF GameTypes
<1>3. /\ Head(lines) = lines[1] /\ lines[1] \in GameLines /\ 1 \in DOMAIN lines
      /\ \A i \in DOMAIN lines : i \in Nat /\ i >= 1
      /\ \A i \in DOMAIN lines' : i \in Nat /\ i >= 1 /\ i + 1 \in DOMAIN lines /\ lines'[i] = lines[i + 1]
      /\ \A i \in DOMAIN lines : i # 1 => i - 1 \in DOMAIN lines' /\ lines'[i - 1] = lines[i]
  BY <1>2, GameLineTaken
<1>4. PICK l \in GameLines : l = lines[1]
  BY <1>3
<1>5. /\ l.type = "join" /\ phase' = phase /\ commands' = commands
      /\ users' = Append(Others(l.entity),
                    [id |-> l.id, entity |-> l.entity, shows |-> l.id, checked |-> TRUE])
      /\ unchecking' = unchecking /\ clean' = clean /\ players' = players /\ UNCHANGED serverVars
      /\ UNCHANGED <<commands, unchecking, phase>>
  BY <1>3, <1>4 DEF HandleJoin, serverVars
<1>6. PICK p \in 1..MaxId, e \in Entities : p = l.id /\ e = l.entity
  BY <1>5, LineKinds
<1>7. PICK u : u = [id |-> p, entity |-> e, shows |-> p, checked |-> TRUE]
  OBVIOUS
<1>8. /\ u \in GameUsers /\ u.id = p /\ u.entity = e /\ u.shows = p /\ u.checked /\ p # Nobody
      /\ p \in 0..MaxId
  BY <1>7, XonoticGameAssumption DEF GameUsers, Nobody
<1>9. home[p] = e /\ p <= joined
  BY <1>1, <1>3, <1>4, <1>5, <1>6 DEF HomesAreKnown, IsLog
<1>10. /\ users' \in Seq(GameUsers) /\ OneEach(users')
       /\ Held(users') = {v \in Held(users) : v.entity # e} \cup {u}
  <2>1. PICK P : P = {v \in GameUsers : v.entity # e}
    OBVIOUS
  <2>2. PICK us : us = Others(e)
    OBVIOUS
  <2>3. ToSet(users) \subseteq GameUsers /\ Held(users) \subseteq GameUsers
    BY <1>2, OfList
  <2>4. {v \in ToSet(users) : v.entity # e} = {v \in ToSet(users) : v \in P}
    BY <2>1, <2>3
  <2>5. us = OnlyThose({v \in ToSet(users) : v \in P})
    BY <2>2, <2>4 DEF Others
  <2>6. us \in Seq(GameUsers) /\ OneEach(us) /\ Held(us) = {v \in Held(users) : v \in P}
    BY <1>1, <2>5, KeptUsers
  <2>7. Held(us) = {v \in Held(users) : v.entity # e}
    BY <2>1, <2>3, <2>6
  <2>8. users' = Append(us, u)
    BY <1>5, <1>6, <1>7, <2>2
  <2>9. \A v \in Held(us) : v.entity # u.entity
    BY <1>8, <2>7
  <2>10. /\ Append(us, u) \in Seq(GameUsers) /\ OneEach(Append(us, u))
         /\ Held(Append(us, u)) = Held(us) \cup {u}
    BY <1>8, <2>6, <2>9, OneMore
  <2> QED BY <2>7, <2>8, <2>10
<1>11. \A v \in Held(users') : v.id # Nobody => v.id <= joined /\ home[v.id] = v.entity
  BY <1>1, <1>8, <1>9, <1>10 DEF HomesAreKnown
<1>12. IsLog(lines[1]) /\ \A f \in Entities : About(home, lines[1], f) <=> f = e
  BY <1>4, <1>5, <1>6 DEF IsLog, About
<1>13. ASSUME clean PROVE PollIsRight(home)'
  <2>1. PollIsRight(home)
    BY <1>13 DEF GameInv
  <2>2. /\ (PollWaits => PollWaits') /\ (PollAsked => PollAsked')
        /\ (PollListed => PollListed') /\ (PollEnds => PollEnds')
    BY <1>4, <1>5, StagesRead
  <2>3. PollDone => PollDone'
    <3> HAVE PollDone
    <3>1. OnlyLog'
      BY <1>5, ReadLeaves DEF PollDone
    <3>2. \A v \in Held(users') : v.checked
      BY <1>8, <1>10 DEF PollDone
    <3>3. ~unchecking' /\ commands' = <<>>
      BY <1>5 DEF PollDone
    <3> QED BY <3>1, <3>2, <3>3 DEF PollDone
  <2>4. \A f \in Entities : NothingAbout(home, f)' => IF f = e THEN players[e] = p ELSE NothingAbout(home, f)
    <3> TAKE f \in Entities
    <3> HAVE NothingAbout(home, f)'
    <3>1. CASE f = e
      <4>1. IsLast(home, 1, e)
        BY <1>5, <1>12, <3>1, ReadLeaves
      <4> QED BY <1>1, <1>3, <1>4, <1>5, <1>6, <3>1, <4>1 DEF LogIsTrue
    <3>2. CASE f # e
      BY <1>5, <1>12, <3>2, ReadLeaves
    <3> QED BY <3>1, <3>2
  <2>5. PartsAreKnown(home) => PartsAreKnown(home)'
    <3> HAVE PartsAreKnown(home)
    <3>1. ASSUME NEW i \in DOMAIN lines', lines'[i].type = "part" PROVE PartIsKnown(home, i)'
      <4>1. i \in Nat /\ i >= 1 /\ i + 1 \in DOMAIN lines /\ lines'[i] = lines[i + 1]
        BY <1>3
      <4>2. PICK q : q = lines[i + 1].id
        OBVIOUS
      <4>3. q \in 1..MaxId /\ q # Nobody
        <5>1. lines[i + 1] \in GameLines
          BY <1>2, <4>1, OfList
        <5> QED BY <3>1, <4>1, <4>2, <5>1, LineKinds
      <4>4. CASE \E k \in DOMAIN lines : k < i + 1 /\ lines[k].type = "join" /\ lines[k].id = q
        <5>1. PICK k \in DOMAIN lines : k < i + 1 /\ lines[k].type = "join" /\ lines[k].id = q
          BY <4>4
        <5>2. CASE k = 1
          <6>1. q = p /\ home[q] = e
            BY <1>4, <1>6, <1>9, <5>1, <5>2
          <6>2. \A v \in Held(users') : v.entity = e => v.id = q
            BY <1>8, <1>10, <6>1
          <6>3. \E v \in Held(users') : v.id = q
            BY <1>8, <1>10, <6>1
          <6> QED BY <4>1, <4>2, <6>1, <6>2, <6>3 DEF PartIsKnown
        <5>3. CASE k # 1
          <6>1. k - 1 \in DOMAIN lines' /\ lines'[k - 1] = lines[k] /\ k - 1 < i
            BY <1>3, <4>1, <5>1, <5>3
          <6> QED BY <4>1, <4>2, <5>1, <6>1 DEF PartIsKnown
        <5> QED BY <5>2, <5>3
      <4>5. CASE ~\E k \in DOMAIN lines : k < i + 1 /\ lines[k].type = "join" /\ lines[k].id = q
        <5>1. PartIsKnown(home, i + 1)
          BY <3>1, <4>1 DEF PartsAreKnown
        <5>2. /\ \A v \in Held(users) : v.entity = home[q] /\ v.checked => v.id = q
              /\ ListedBefore(i + 1, home[q]) => \E v \in Held(users) : v.id = q
          BY <4>2, <4>5, <5>1 DEF PartIsKnown
        <5>3. home[q] # e
          <6>1. ASSUME home[q] = e PROVE FALSE
            <7>1. 1 < i + 1
              BY <4>1
            <7>2. /\ lines[1].type = "join" /\ lines[i + 1].type = "part"
                  /\ home[lines[i + 1].id] = lines[1].entity
              BY <1>4, <1>5, <1>6, <3>1, <4>1, <4>2, <6>1
            <7>3. \E k \in DOMAIN lines : /\ 1 <= k /\ k < i + 1
                                          /\ lines[k].type = "join" /\ lines[k].id = lines[i + 1].id
              BY <1>1, <1>3, <4>1, <7>1, <7>2 DEF LogIsTrue
            <7> QED BY <4>2, <4>5, <7>3
          <6> QED BY <6>1
        <5>4. \A v \in Held(users') : v.entity = home[q] /\ v.checked => v.id = q
          BY <1>8, <1>10, <5>2, <5>3
        <5>5. ListedBefore(i, home[q])' => \E v \in Held(users') : v.id = q
          <6> HAVE ListedBefore(i, home[q])'
          <6>1. ListedBefore(i + 1, home[q])
            BY <1>2, PlayerBefore
          <6>2. PICK v \in Held(users) : v.id = q
            BY <5>2, <6>1
          <6>3. v.entity = home[q]
            BY <1>1, <4>3, <6>2 DEF HomesAreKnown
          <6> QED BY <1>10, <5>3, <6>2, <6>3
        <5> QED BY <4>1, <4>2, <5>4, <5>5 DEF PartIsKnown
      <4> QED BY <4>4, <4>5
    <3> QED BY <3>1 DEF PartsAreKnown
  <2>6. GoneIsGone(home) => GoneIsGone(home)'
    <3> HAVE GoneIsGone(home)
    <3>1. ASSUME NEW f \in Entities, NothingAbout(home, f)', players[f] = Nobody, NEW v \in Held(users')
          PROVE  ~(v.entity = f /\ v.checked)
      <4>1. f # e /\ NothingAbout(home, f)
        BY <1>8, <2>4, <3>1
      <4> QED BY <1>8, <1>10, <3>1, <4>1 DEF GoneIsGone
    <3> QED BY <1>5, <3>1 DEF GoneIsGone
  <2>7. HereIsHere(home) => HereIsHere(home)'
    <3> HAVE HereIsHere(home)
    <3>1. ASSUME NEW f \in Entities, NothingAbout(home, f)', players[f] # Nobody
          PROVE  \E v \in Held(users') : v.entity = f /\ v.shows = players[f] /\ v.checked
      <4>1. CASE f = e
        BY <1>8, <1>10, <2>4, <3>1, <4>1
      <4>2. CASE f # e
        <5>1. PICK v \in Held(users) : v.entity = f /\ v.shows = players[f] /\ v.checked
          BY <2>4, <3>1, <4>2 DEF HereIsHere
        <5> QED BY <1>10, <4>2, <5>1
      <4> QED BY <4>1, <4>2
    <3> QED BY <1>5, <3>1 DEF HereIsHere
  <2>8. ListIsTrue(home) => ListIsTrue(home)'
    BY <1>5, ReadLeaves
  <2>9. PollListed' \/ PollEnds' \/ PollDone' => ~PollWaits /\ ~PollAsked
    BY <1>5, OnlyLater
  <2> QED BY <1>5, <2>1, <2>2, <2>3, <2>5, <2>6, <2>7, <2>8, <2>9 DEF PollIsRight
<1>14. /\ phase' \in {"DISCONNECTED", "CONNECTING", "CHECKING", "CONNECTED"}
       /\ commands' \in Seq({"set", "status", "dest"}) /\ UNCHANGED <<serverVars, unchecking, clean>>
  BY <1>1, <1>5 DEF GameTypes
<1> QED BY <1>10, <1>11, <1>13, <1>14, ReadInv

\* Who parts is nobody's user any more.
LEMMA ReadPartInv ==
  ASSUME NEW home \in Homes, GameInv(home), lines # <<>>, lines' = Tail(lines),
         HandlePart(Head(lines)), UNCHANGED <<serverVars, unchecking, clean>>
  PROVE  GameInv(home)'
<1>1. GameTypes /\ OneEach(users) /\ HomesAreKnown(home) /\ LogIsTrue(home)
  BY DEF GameInv
<1>2. lines \in Seq(GameLines) /\ users \in Seq(GameUsers)
  BY <1>1 DEF GameTypes
<1>3. Head(lines) = lines[1] /\ lines[1] \in GameLines /\ 1 \in DOMAIN lines
  BY <1>2, GameLineTaken
<1>4. PICK l \in GameLines : l = lines[1]
  BY <1>3
<1>5. /\ l.type = "part" /\ phase' = phase /\ commands' = commands
      /\ users' = OnlyThose({u \in ToSet(users) : u.id # l.id})
      /\ unchecking' = unchecking /\ clean' = clean /\ players' = players /\ UNCHANGED serverVars
      /\ UNCHANGED <<commands, unchecking, phase>>
  BY <1>3, <1>4 DEF HandlePart, serverVars
<1>6. PICK p \in 1..MaxId : p = l.id /\ p # Nobody
  BY <1>5, LineKinds
<1>7. /\ users' \in Seq(GameUsers) /\ OneEach(users')
      /\ Held(users') = {v \in Held(users) : v.id # p}
  <2>1. PICK P : P = {v \in GameUsers : v.id # p}
    OBVIOUS
  <2>2. ToSet(users) \subseteq GameUsers /\ Held(users) \subseteq GameUsers
    BY <1>2, OfList
  <2>3. {v \in ToSet(users) : v.id # p} = {v \in ToSet(users) : v \in P}
    BY <2>1, <2>2
  <2>4. users' = OnlyThose({v \in ToSet(users) : v \in P})
    BY <1>5, <1>6, <2>3
  <2>5. users' \in Seq(GameUsers) /\ OneEach(users') /\ Held(users') = {v \in Held(users) : v \in P}
    BY <1>1, <2>4, KeptUsers
  <2> QED BY <2>1, <2>2, <2>5
<1>8. \A v \in Held(users') : v.id # Nobody => v.id <= joined /\ home[v.id] = v.entity
  BY <1>1, <1>7 DEF HomesAreKnown
<1>9. IsLog(lines[1]) /\ \A f \in Entities : About(home, lines[1], f) <=> f = home[p]
  BY <1>4, <1>5, <1>6 DEF IsLog, About
<1>10. ASSUME clean PROVE PollIsRight(home)'
  <2>1. PollIsRight(home)
    BY <1>10 DEF GameInv
  <2>2. /\ (PollWaits => PollWaits') /\ (PollAsked => PollAsked')
        /\ (PollListed => PollListed') /\ (PollEnds => PollEnds')
    BY <1>4, <1>5, StagesRead
  <2>3. PollDone => PollDone'
    <3> HAVE PollDone
    <3>1. OnlyLog'
      BY <1>5, ReadLeaves DEF PollDone
    <3>2. \A v \in Held(users') : v.checked
      BY <1>7 DEF PollDone
    <3>3. ~unchecking' /\ commands' = <<>>
      BY <1>5 DEF PollDone
    <3> QED BY <3>1, <3>2, <3>3 DEF PollDone
  <2>4. \A f \in Entities : NothingAbout(home, f)' => IF f = home[p] THEN players[f] = Nobody
                                                      ELSE NothingAbout(home, f)
    <3> TAKE f \in Entities
    <3> HAVE NothingAbout(home, f)'
    <3>1. CASE f = home[p]
      <4>1. IsLast(home, 1, f)
        BY <1>5, <1>9, <3>1, ReadLeaves
      <4> QED BY <1>1, <1>3, <1>4, <1>5, <3>1, <4>1 DEF LogIsTrue
    <3>2. CASE f # home[p]
      BY <1>5, <1>9, <3>2, ReadLeaves
    <3> QED BY <3>1, <3>2
  <2>5. PartsAreKnown(home) => PartsAreKnown(home)'
    <3> HAVE PartsAreKnown(home)
    <3>1. ASSUME NEW i \in DOMAIN lines', lines'[i].type = "part" PROVE PartIsKnown(home, i)'
      <4>1. PICK q : q = lines'[i].id
        OBVIOUS
      <4>2. lines[1].type # "join"
        BY <1>4, <1>5
      <4>3. /\ q \in 1..MaxId /\ q # Nobody
            /\ i + 1 \in DOMAIN lines /\ lines'[i] = lines[i + 1] /\ 1 < i + 1
            /\ \/ PartIsKnown(home, i)'
               \/ /\ \A v \in Held(users) : v.entity = home[q] /\ v.checked => v.id = q
                  /\ ListedBefore(i + 1, home[q]) => \E v \in Held(users) : v.id = q
        BY <3>1, <4>1, <4>2, PartRead
      <4>4. q # p
        BY <1>1, <1>3, <1>4, <1>5, <1>6, <3>1, <4>1, <4>3 DEF LogIsTrue
      <4>5. ASSUME \A v \in Held(users) : v.entity = home[q] /\ v.checked => v.id = q,
                   ListedBefore(i + 1, home[q]) => \E v \in Held(users) : v.id = q
            PROVE  PartIsKnown(home, i)'
        <5>1. ListedBefore(i, home[q])' => \E v \in Held(users') : v.id = q
          <6>1. ListedBefore(i, home[q])' => ListedBefore(i + 1, home[q])
            BY <1>2, PlayerBefore
          <6> QED BY <1>7, <4>4, <4>5, <6>1
        <5>2. \A v \in Held(users') : v.entity = home[q] /\ v.checked => v.id = q
          BY <1>7, <4>5
        <5> QED BY <4>1, <5>1, <5>2 DEF PartIsKnown
      <4> QED BY <4>3, <4>5
    <3> QED BY <3>1 DEF PartsAreKnown
  <2>6. PartsAreKnown(home) => \A v \in Held(users') : ~(v.entity = home[p] /\ v.checked)
    <3> HAVE PartsAreKnown(home)
    <3>1. PartIsKnown(home, 1)
      BY <1>3, <1>4, <1>5 DEF PartsAreKnown
    <3>2. ~\E j \in DOMAIN lines : j < 1 /\ lines[j].type = "join" /\ lines[j].id = p
      <4>1. \A j \in DOMAIN lines : j \in Nat /\ j >= 1
        BY <1>2, GameLineTaken
      <4> QED BY <4>1
    <3>3. \A v \in Held(users) : v.entity = home[p] /\ v.checked => v.id = p
      BY <1>4, <1>6, <3>1, <3>2 DEF PartIsKnown
    <3> QED BY <1>7, <3>3
  <2>7. PartsAreKnown(home) /\ GoneIsGone(home) => GoneIsGone(home)'
    <3> HAVE PartsAreKnown(home) /\ GoneIsGone(home)
    <3>1. ASSUME NEW f \in Entities, NothingAbout(home, f)', players[f] = Nobody, NEW v \in Held(users')
          PROVE  ~(v.entity = f /\ v.checked)
      <4>1. CASE f = home[p]
        BY <2>6, <4>1
      <4>2. CASE f # home[p]
        BY <1>7, <2>4, <3>1, <4>2 DEF GoneIsGone
      <4> QED BY <4>1, <4>2
    <3> QED BY <1>5, <3>1 DEF GoneIsGone
  <2>8. HereIsHere(home) => HereIsHere(home)'
    <3> HAVE HereIsHere(home)
    <3>1. ASSUME NEW f \in Entities, NothingAbout(home, f)', players[f] # Nobody
          PROVE  \E v \in Held(users') : v.entity = f /\ v.shows = players[f] /\ v.checked
      <4>1. f # home[p] /\ NothingAbout(home, f)
        BY <2>4, <3>1
      <4>2. PICK v \in Held(users) : v.entity = f /\ v.shows = players[f] /\ v.checked
        BY <3>1, <4>1 DEF HereIsHere
      <4>3. v.id # p
        BY <1>1, <1>6, <4>1, <4>2 DEF HomesAreKnown
      <4> QED BY <1>7, <4>2, <4>3
    <3> QED BY <1>5, <3>1 DEF HereIsHere
  <2>9. ListIsTrue(home) => ListIsTrue(home)'
    BY <1>5, ReadLeaves
  <2>10. PollListed' \/ PollEnds' \/ PollDone' => ~PollWaits /\ ~PollAsked
    BY <1>5, OnlyLater
  <2> QED BY <1>5, <2>1, <2>2, <2>3, <2>5, <2>7, <2>8, <2>9, <2>10 DEF PollIsRight
<1>11. /\ phase' \in {"DISCONNECTED", "CONNECTING", "CHECKING", "CONNECTED"}
       /\ commands' \in Seq({"set", "status", "dest"}) /\ UNCHANGED <<serverVars, unchecking, clean>>
  BY <1>1, <1>5 DEF GameTypes
<1> QED BY <1>7, <1>8, <1>10, <1>11, ReadInv

\* A player of the answer is marked as seen, with the id that the user of the entity had.
LEMMA ReadPlayerInv ==
  ASSUME NEW home \in Homes, GameInv(home), lines # <<>>, lines' = Tail(lines), phase # "DISCONNECTED",
         HandlePlayer(Head(lines)), UNCHANGED <<serverVars, unchecking, clean>>
  PROVE  GameInv(home)'
<1>1. GameTypes /\ OneEach(users) /\ HomesAreKnown(home) /\ LogIsTrue(home)
  BY DEF GameInv
<1>2. lines \in Seq(GameLines) /\ users \in Seq(GameUsers)
  BY <1>1 DEF GameTypes
<1>3. Head(lines) = lines[1] /\ lines[1] \in GameLines /\ 1 \in DOMAIN lines
  BY <1>2, GameLineTaken
<1>4. PICK l \in GameLines : l = lines[1]
  BY <1>3
<1>5. /\ l.type = "player" /\ phase' = phase /\ commands' = commands
      /\ users' = IF phase \in {"CHECKING", "CONNECTING"} THEN check_user(l) ELSE users
      /\ unchecking' = unchecking /\ clean' = clean /\ players' = players /\ UNCHANGED serverVars
      /\ UNCHANGED <<commands, unchecking, phase>>
  BY <1>3, <1>4 DEF HandlePlayer, serverVars
<1>6. PICK p \in 1..MaxId, e \in Entities : p = l.id /\ e = l.entity /\ p # Nobody
  BY <1>5, LineKinds
<1>7. /\ phase' \in {"DISCONNECTED", "CONNECTING", "CHECKING", "CONNECTED"}
      /\ commands' \in Seq({"set", "status", "dest"}) /\ UNCHANGED <<serverVars, unchecking, clean>>
  BY <1>1, <1>5 DEF GameTypes
<1>8. ~IsLog(lines[1]) /\ \A f \in Entities : About(home, lines[1], f) <=> f = e
  BY <1>4, <1>5, <1>6 DEF IsLog, About
<1>9. clean => phase # "CONNECTED" /\ (PollListed \/ PollEnds) /\ PollIsRight(home)
  <2> HAVE clean
  <2>1. PollIsRight(home)
    BY DEF GameInv
  <2>2. ~OnlyLog
    BY <1>3, <1>8 DEF OnlyLog
  <2> QED BY <2>1, <2>2 DEF PollIsRight, PollWaits, PollAsked, PollListed, PollEnds, PollDone
<1>10. CASE phase \notin {"CHECKING", "CONNECTING"}
  <2>1. users' = users /\ ~clean
    BY <1>1, <1>5, <1>9, <1>10 DEF GameTypes
  <2>2. \A v \in Held(users') : v.id # Nobody => v.id <= joined /\ home[v.id] = v.entity
    BY <1>1, <2>1 DEF HomesAreKnown
  <2> QED BY <1>1, <1>2, <1>7, <2>1, <2>2, ReadInv
<1>11. CASE phase \in {"CHECKING", "CONNECTING"}
  <2>1. users' = check_user(l)
    BY <1>5, <1>11
  <2>2. PICK w \in GameUsers :
          /\ w.entity = e /\ w.shows = p /\ w.checked
          /\ \/ \E u \in Held(users) : u.entity = w.entity /\ u.id = w.id
             \/ w.id = Nobody /\ \A u \in Held(users) : u.entity # w.entity
          /\ users' \in Seq(GameUsers) /\ OneEach(users')
          /\ Held(users') = {u \in Held(users) : u.entity # e} \cup {w}
    BY <1>1, <1>2, <1>6, <2>1, CheckUserIs
  <2>3. \A v \in Held(users') : v.id # Nobody => v.id <= joined /\ home[v.id] = v.entity
    BY <1>1, <2>2 DEF HomesAreKnown
  <2>4. ASSUME clean PROVE PollIsRight(home)'
    <3>1. /\ PollIsRight(home) /\ (PollListed \/ PollEnds) /\ ~unchecking
          /\ PartsAreKnown(home) /\ GoneIsGone(home) /\ HereIsHere(home) /\ ListIsTrue(home)
      BY <1>9, <2>4 DEF PollIsRight, PollListed, PollEnds
    <3>2. PollListed' \/ PollEnds'
      BY <1>4, <1>5, <3>1, StagesRead
    <3>3. \A f \in Entities : NothingAbout(home, f)' => IF f = e THEN players[f] = p
                                                        ELSE NothingAbout(home, f)
      <4> TAKE f \in Entities
      <4> HAVE NothingAbout(home, f)'
      <4>1. CASE f = e
        <5>1. lines[1].type = "player" /\ lines[1].entity = f /\ lines[1].id = p
          BY <1>4, <1>5, <1>6, <4>1
        <5> QED BY <1>5, <3>1, <4>1, <5>1, ReadLeaves
      <4>2. CASE f # e
        BY <1>5, <1>8, <4>2, ReadLeaves
      <4> QED BY <4>1, <4>2
    <3>4. PartsAreKnown(home)'
      <4>1. ASSUME NEW i \in DOMAIN lines', lines'[i].type = "part" PROVE PartIsKnown(home, i)'
        <5>1. PICK q : q = lines'[i].id
          OBVIOUS
        <5>2. lines[1].type # "join"
          BY <1>4, <1>5
        <5>3. /\ q \in 1..MaxId /\ q # Nobody
              /\ i + 1 \in DOMAIN lines /\ lines'[i] = lines[i + 1] /\ 1 < i + 1
              /\ \/ PartIsKnown(home, i)'
                 \/ /\ \A v \in Held(users) : v.entity = home[q] /\ v.checked => v.id = q
                    /\ ListedBefore(i + 1, home[q]) => \E v \in Held(users) : v.id = q
          BY <3>1, <4>1, <5>1, <5>2, PartRead
        <5>4. ASSUME \A v \in Held(users) : v.entity = home[q] /\ v.checked => v.id = q,
                     ListedBefore(i + 1, home[q]) => \E v \in Held(users) : v.id = q
              PROVE  PartIsKnown(home, i)'
          <6>1. CASE home[q] = e
            <7>1. ListedBefore(i + 1, home[q])
              BY <1>3, <1>4, <1>5, <1>6, <5>3, <6>1 DEF ListedBefore
            <7>2. PICK v \in Held(users) : v.id = q
              BY <5>4, <7>1
            <7>3. v.entity = e
              BY <1>1, <5>3, <6>1, <7>2 DEF HomesAreKnown
            <7>4. \A u \in Held(users) : u.entity = e => u = v
              BY <1>1, <7>3, HeldOnce
            <7>5. w.id = q
              BY <2>2, <7>2, <7>3, <7>4
            <7>6. (\A u \in Held(users') : u.entity = e => u.id = q) /\ \E u \in Held(users') : u.id = q
              BY <2>2, <7>5
            <7> QED BY <5>1, <6>1, <7>6 DEF PartIsKnown
          <6>2. CASE home[q] # e
            <7>1. \A u \in Held(users') : u.entity = home[q] /\ u.checked => u.id = q
              BY <2>2, <5>4, <6>2
            <7>2. ASSUME ListedBefore(i, home[q])' PROVE \E u \in Held(users') : u.id = q
              <8>1. ListedBefore(i + 1, home[q])
                BY <1>2, <7>2, PlayerBefore
              <8>2. PICK v \in Held(users) : v.id = q
                BY <5>4, <8>1
              <8>3. v.entity = home[q]
                BY <1>1, <5>3, <8>2 DEF HomesAreKnown
              <8> QED BY <2>2, <6>2, <8>2, <8>3
            <7> QED BY <5>1, <7>1, <7>2 DEF PartIsKnown
          <6> QED BY <6>1, <6>2
        <5> QED BY <5>3, <5>4
      <4> QED BY <4>1 DEF PartsAreKnown
    <3>5. GoneIsGone(home)'
      <4>1. ASSUME NEW f \in Entities, NothingAbout(home, f)', players[f] = Nobody, NEW v \in Held(users')
            PROVE  ~(v.entity = f /\ v.checked)
        <5>1. f # e /\ NothingAbout(home, f)
          BY <1>6, <3>3, <4>1
        <5> QED BY <2>2, <3>1, <4>1, <5>1 DEF GoneIsGone
      <4> QED BY <1>5, <4>1 DEF GoneIsGone
    <3>6. HereIsHere(home)'
      <4>1. ASSUME NEW f \in Entities, NothingAbout(home, f)', players[f] # Nobody
            PROVE  \E v \in Held(users') : v.entity = f /\ v.shows = players[f] /\ v.checked
        <5>1. CASE f = e
          BY <2>2, <3>3, <4>1, <5>1
        <5>2. CASE f # e
          <6>1. PICK v \in Held(users) : v.entity = f /\ v.shows = players[f] /\ v.checked
            BY <3>1, <3>3, <4>1, <5>2 DEF HereIsHere
          <6> QED BY <2>2, <5>2, <6>1
        <5> QED BY <5>1, <5>2
      <4> QED BY <1>5, <4>1 DEF HereIsHere
    <3>7. ListIsTrue(home)'
      BY <1>5, <3>1, ReadLeaves
    <3> QED BY <1>5, <3>1, <3>2, <3>4, <3>5, <3>6, <3>7 DEF PollIsRight
  <2> QED BY <1>7, <2>2, <2>3, <2>4, ReadInv
<1> QED BY <1>10, <1>11

\* The commands of a poll, and what is sent before one when the log goes elsewhere.
LEMMA PollSent ==
  /\ Poll \in Seq({"set", "status", "dest"}) /\ <<"set">> \o Poll = <<"set", "status", "dest">>
  /\ \A cs \in Seq({"set", "status", "dest"}) :
       /\ cs \o Poll \in Seq({"set", "status", "dest"})
       /\ cs \o <<"set">> \o Poll \in Seq({"set", "status", "dest"})
  /\ <<>> \o Poll = <<"status", "dest">>
  /\ <<>> \o <<"set">> \o Poll = <<"set", "status", "dest">>
<1>1. Poll = <<"status", "dest">>
  BY DEF Poll
<1>2. /\ <<"status", "dest">> \in Seq({"set", "status", "dest"})
      /\ <<"set">> \in Seq({"set", "status", "dest"})
      /\ <<"set">> \o <<"status", "dest">> = <<"set", "status", "dest">>
  <2>1. <<"status", "dest">> \in Seq({"set", "status", "dest"})
    OBVIOUS
  <2>2. <<"set">> \in Seq({"set", "status", "dest"})
    OBVIOUS
  <2>3. <<"set">> \o <<"status", "dest">> = <<"set", "status", "dest">>
    <3>1. /\ Len(<<"set">>) = 1 /\ <<"set">>[1] = "set"
          /\ Len(<<"status", "dest">>) = 2
          /\ <<"status", "dest">>[1] = "status" /\ <<"status", "dest">>[2] = "dest"
      OBVIOUS
    <3>2. PICK s \in Seq({"set", "status", "dest"}), t \in Seq({"set", "status", "dest"}) :
            s = <<"set">> /\ t = <<"status", "dest">>
      BY <2>1, <2>2
    <3>3. Len(s) = 1 /\ s[1] = "set" /\ Len(t) = 2 /\ t[1] = "status" /\ t[2] = "dest"
      BY <3>1, <3>2
    <3>4. PICK r : r = s \o t
      OBVIOUS
    <3>5. /\ r \in Seq({"set", "status", "dest"}) /\ Len(r) = 3
          /\ r[1] = "set" /\ r[2] = "status" /\ r[3] = "dest"
      <4>1. /\ r \in Seq({"set", "status", "dest"}) /\ Len(r) = 1 + 2
            /\ \A i \in 1..(1 + 2) : r[i] = IF i <= 1 THEN s[i] ELSE t[i - 1]
        <5>1. PICK S : S = {"set", "status", "dest"}
          OBVIOUS
        <5>2. s \in Seq(S) /\ t \in Seq(S)
          BY <5>1
        <5>3. /\ s \o t \in Seq(S) /\ Len(s \o t) = Len(s) + Len(t)
              /\ \A i \in 1..(Len(s) + Len(t)) :
                   (s \o t)[i] = IF i <= Len(s) THEN s[i] ELSE t[i - Len(s)]
          BY <5>2, ConcatProperties
        <5> QED BY <3>3, <3>4, <5>1, <5>3
      <4>2. 1 \in 1..(1 + 2) /\ 2 \in 1..(1 + 2) /\ 3 \in 1..(1 + 2) /\ 2 - 1 = 1 /\ 3 - 1 = 2
        OBVIOUS
      <4> QED BY <3>3, <4>1, <4>2
    <3>6. r = <<"set", "status", "dest">>
      BY <3>5
    <3> QED BY <3>2, <3>4, <3>6
  <2> QED BY <2>1, <2>2, <2>3
<1>3. \A cs \in Seq({"set", "status", "dest"}) :
        cs \o Poll \in Seq({"set", "status", "dest"}) /\ cs \o <<"set">> \in Seq({"set", "status", "dest"})
  BY <1>1, <1>2, ConcatProperties
<1>4. <<>> \o Poll = Poll /\ <<>> \o <<"set">> = <<"set">>
  BY <1>1, <1>2, ConcatEmptySeq
<1> QED BY <1>1, <1>2, <1>3, <1>4

\* What the bot does to a poll of its own, without a line: a poll is asked for.
LEMMA PollAskedRight ==
  ASSUME NEW home, PollAsked', phase' # "DISCONNECTED", \A v \in Held(users') : ~v.checked
  PROVE  PollIsRight(home)'
<1>1. \A i \in DOMAIN lines' : lines'[i].type # "player"
  BY DEF PollAsked, OnlyLog, IsLog
<1>2. PartsAreKnown(home)'
  <2>1. ASSUME NEW i \in DOMAIN lines' PROVE PartIsKnown(home, i)'
    <3>1. ASSUME NEW e PROVE ~ListedBefore(i, e)'
      BY <1>1 DEF ListedBefore
    <3> QED BY <3>1 DEF PartIsKnown
  <2> QED BY <2>1 DEF PartsAreKnown
<1>3. GoneIsGone(home)'
  BY DEF GoneIsGone
<1>4. ~(PollListed' \/ PollEnds' \/ PollDone')
  BY CommandsDiffer DEF PollAsked, PollListed, PollEnds, PollDone
<1> QED BY <1>2, <1>3, <1>4 DEF PollIsRight

\* The answer that ends a poll, when the log goes to the bot.
LEMMA ReadEndInv ==
  ASSUME NEW home \in Homes, GameInv(home), lines # <<>>, lines' = Tail(lines), Head(lines).mine,
         phase # "DISCONNECTED", HandleDest(Head(lines)), UNCHANGED <<serverVars, unchecking, clean>>
  PROVE  GameInv(home)'
<1>1. GameTypes /\ OneEach(users) /\ HomesAreKnown(home)
  BY DEF GameInv
<1>2. lines \in Seq(GameLines) /\ users \in Seq(GameUsers)
  BY <1>1 DEF GameTypes
<1>3. /\ Head(lines) = lines[1] /\ lines[1] \in GameLines /\ 1 \in DOMAIN lines
      /\ \A i \in DOMAIN lines' : i \in Nat /\ i >= 1 /\ i + 1 \in DOMAIN lines /\ lines'[i] = lines[i + 1]
  BY <1>2, GameLineTaken
<1>4. /\ lines[1].type = "dest" /\ users' = check_user_end /\ phase' = "CONNECTED" /\ commands' = commands
      /\ unchecking' = unchecking /\ clean' = clean /\ players' = players /\ UNCHANGED serverVars
  BY <1>3 DEF HandleDest, serverVars
<1>5. /\ users' \in Seq(GameUsers) /\ OneEach(users')
      /\ Held(users') = {v \in Held(users) : v.checked}
  <2>1. PICK P : P = {v \in GameUsers : v.checked}
    OBVIOUS
  <2>2. ToSet(users) \subseteq GameUsers /\ Held(users) \subseteq GameUsers
    BY <1>2, OfList
  <2>3. {v \in ToSet(users) : v.checked} = {v \in ToSet(users) : v \in P}
    BY <2>1, <2>2
  <2>4. users' = OnlyThose({v \in ToSet(users) : v \in P})
    BY <1>4, <2>3 DEF check_user_end
  <2>5. users' \in Seq(GameUsers) /\ OneEach(users') /\ Held(users') = {v \in Held(users) : v \in P}
    BY <1>1, <2>4, KeptUsers
  <2> QED BY <2>1, <2>2, <2>5
<1>6. \A v \in Held(users') : v.id # Nobody => v.id <= joined /\ home[v.id] = v.entity
  BY <1>1, <1>5 DEF HomesAreKnown
<1>7. /\ phase' \in {"DISCONNECTED", "CONNECTING", "CHECKING", "CONNECTED"}
      /\ commands' \in Seq({"set", "status", "dest"}) /\ UNCHANGED <<serverVars, unchecking, clean>>
  BY <1>1, <1>4 DEF GameTypes
<1>8. ASSUME clean PROVE PollIsRight(home)'
  <2>1. PollIsRight(home) /\ ~OnlyLog
    BY <1>3, <1>4, <1>8 DEF GameInv, OnlyLog, IsLog
  <2>2. PollEnds
    BY <1>3, <1>4, <2>1 DEF PollIsRight, PollWaits, PollAsked, PollListed, PollDone
  <2>3. /\ PartsAreKnown(home) /\ GoneIsGone(home) /\ HereIsHere(home) /\ ListIsTrue(home)
        /\ ~unchecking /\ commands = <<>>
    BY <2>1, <2>2 DEF PollIsRight, PollEnds
  <2>4. OnlyLog'
    <3>1. PICK d \in DOMAIN lines :
            /\ lines[d].type = "dest"
            /\ \A i \in DOMAIN lines : (i > d => IsLog(lines[i])) /\ (i < d => lines[i].type # "dest")
      BY <2>2 DEF PollEnds
    <3>2. \A i \in DOMAIN lines : i \in Nat /\ i >= 1
      BY <1>2, GameLineTaken
    <3>3. d = 1
      BY <1>3, <1>4, <3>1, <3>2
    <3>4. \A i \in DOMAIN lines' : i + 1 > 1
      BY <1>3
    <3> QED BY <1>3, <3>1, <3>3, <3>4 DEF OnlyLog
  <2>5. PollDone'
    BY <1>4, <1>5, <2>3, <2>4 DEF PollDone
  <2>6. PartsAreKnown(home)'
    <3>1. ASSUME NEW i \in DOMAIN lines', lines'[i].type = "part" PROVE PartIsKnown(home, i)'
      <4>1. PICK q : q = lines'[i].id
        OBVIOUS
      <4>2. lines[1].type # "join"
        BY <1>4
      <4>3. \/ PartIsKnown(home, i)'
            \/ \A v \in Held(users) : v.entity = home[q] /\ v.checked => v.id = q
        BY <2>3, <3>1, <4>1, <4>2, PartRead
      <4>4. ~ListedBefore(i, home[q])'
        BY <2>4 DEF OnlyLog, IsLog, ListedBefore
      <4> QED BY <1>5, <4>1, <4>3, <4>4 DEF PartIsKnown
    <3> QED BY <3>1 DEF PartsAreKnown
  <2>7. \A f \in Entities : NothingAbout(home, f)' => NothingAbout(home, f)
    <3>1. \A f \in Entities : ~About(home, lines[1], f)
      BY <1>4 DEF About
    <3> QED BY <1>4, <3>1, ReadLeaves
  <2>8. GoneIsGone(home)'
    BY <1>4, <1>5, <2>3, <2>7 DEF GoneIsGone
  <2>9. HereIsHere(home)'
    <3>1. ASSUME NEW f \in Entities, NothingAbout(home, f)', players[f] # Nobody
          PROVE  \E v \in Held(users') : v.entity = f /\ v.shows = players[f] /\ v.checked
      BY <1>5, <2>3, <2>7, <3>1 DEF HereIsHere
    <3> QED BY <1>4, <3>1 DEF HereIsHere
  <2>10. ListIsTrue(home)'
    BY <1>4, <2>3, ReadLeaves
  <2> QED BY <1>4, <2>5, <2>6, <2>8, <2>9, <2>10 DEF PollIsRight
<1> QED BY <1>5, <1>6, <1>7, <1>8, ReadInv

\* And when it goes elsewhere: the poll begins anew.
LEMMA ReadElsewhereInv ==
  ASSUME NEW home \in Homes, GameInv(home), lines # <<>>, lines' = Tail(lines), ~Head(lines).mine,
         HandleDest(Head(lines)), UNCHANGED <<serverVars, unchecking, clean>>
  PROVE  GameInv(home)'
<1>1. GameTypes /\ OneEach(users) /\ HomesAreKnown(home)
  BY DEF GameInv
<1>2. lines \in Seq(GameLines) /\ users \in Seq(GameUsers)
  BY <1>1 DEF GameTypes
<1>3. /\ Head(lines) = lines[1] /\ lines[1] \in GameLines /\ 1 \in DOMAIN lines
      /\ \A i \in DOMAIN lines' : i \in Nat /\ i >= 1 /\ i + 1 \in DOMAIN lines /\ lines'[i] = lines[i + 1]
  BY <1>2, GameLineTaken
<1>4. /\ lines[1].type = "dest" /\ phase' = "CONNECTING"
      /\ users' = [i \in DOMAIN users |-> [users[i] EXCEPT !.checked = FALSE]]
      /\ commands' = commands \o <<"set">> \o Poll
      /\ unchecking' = unchecking /\ clean' = clean /\ players' = players /\ UNCHANGED serverVars
  BY <1>3 DEF HandleDest, serverVars
<1>5. /\ users' \in Seq(GameUsers) /\ OneEach(users')
      /\ \A v \in Held(users') :
           ~v.checked /\ \E u \in Held(users) : u.id = v.id /\ u.entity = v.entity
  BY <1>1, <1>2, <1>4, UncheckedAre
<1>6. \A v \in Held(users') : v.id # Nobody => v.id <= joined /\ home[v.id] = v.entity
  BY <1>1, <1>5 DEF HomesAreKnown
<1>7. /\ phase' \in {"DISCONNECTED", "CONNECTING", "CHECKING", "CONNECTED"}
      /\ commands' \in Seq({"set", "status", "dest"}) /\ UNCHANGED <<serverVars, unchecking, clean>>
  <2>1. commands \in Seq({"set", "status", "dest"})
    BY <1>1 DEF GameTypes
  <2> QED BY <1>4, <2>1, PollSent
<1>8. ASSUME clean PROVE PollIsRight(home)'
  <2>1. PollIsRight(home) /\ ~OnlyLog
    BY <1>3, <1>4, <1>8 DEF GameInv, OnlyLog, IsLog
  <2>2. PollEnds
    BY <1>3, <1>4, <2>1 DEF PollIsRight, PollWaits, PollAsked, PollListed, PollDone
  <2>3. ~unchecking /\ commands = <<>>
    BY <2>2 DEF PollEnds
  <2>4. OnlyLog'
    <3>1. PICK d \in DOMAIN lines :
            /\ lines[d].type = "dest"
            /\ \A i \in DOMAIN lines : (i > d => IsLog(lines[i])) /\ (i < d => lines[i].type # "dest")
      BY <2>2 DEF PollEnds
    <3>2. \A i \in DOMAIN lines : i \in Nat /\ i >= 1
      BY <1>2, GameLineTaken
    <3>3. d = 1
      BY <1>3, <1>4, <3>1, <3>2
    <3>4. \A i \in DOMAIN lines' : i + 1 > 1
      BY <1>3
    <3> QED BY <1>3, <3>1, <3>3, <3>4 DEF OnlyLog
  <2>5. PollAsked'
    BY <1>4, <2>3, <2>4, PollSent DEF PollAsked
  <2> QED BY <1>4, <1>5, <2>5, PollAskedRight
<1> QED BY <1>5, <1>6, <1>7, <1>8, ReadInv

LEMMA ReceiveInv == ASSUME NEW home \in Homes, GameInv(home), Receive PROVE GameInv(home)'
<1>1. /\ lines # <<>> /\ lines' = Tail(lines) /\ phase # "DISCONNECTED"
      /\ UNCHANGED <<serverVars, unchecking, clean>>
      /\ \/ HandleJoin(Head(lines)) \/ HandlePart(Head(lines))
         \/ HandlePlayer(Head(lines)) \/ HandleDest(Head(lines))
  BY DEF Receive
<1> QED BY <1>1, ReadJoinInv, ReadPartInv, ReadPlayerInv, ReadEndInv, ReadElsewhereInv

\* A poll begins: its users are still to be marked, and nothing is on its way but the log.
LEMMA RequestStatusInv == ASSUME NEW home \in Homes, GameInv(home), RequestStatus PROVE GameInv(home)'
<1>1. GameTypes /\ OneEach(users) /\ HomesAreKnown(home) /\ LogIsTrue(home)
  BY DEF GameInv
<1>2. /\ phase # "DISCONNECTED" /\ phase' = IF phase = "CONNECTED" THEN "CHECKING" ELSE phase
      /\ unchecking' = TRUE
      /\ clean' = (commands = <<>> /\ \A i \in DOMAIN lines : lines[i].type \in {"join", "part"})
      /\ players' = players /\ joined' = joined /\ logging' = logging
      /\ users' = users /\ commands' = commands /\ lines' = lines
  BY DEF RequestStatus, serverVars
<1>3. phase \in {"DISCONNECTED", "CONNECTING", "CHECKING", "CONNECTED"}
  BY <1>1 DEF GameTypes
<1>4. GameTypes'
  <2>1. Occupied' = Occupied
    BY <1>2 DEF Occupied
  <2>2. clean' \in BOOLEAN
    BY <1>2
  <2>3. phase' \in {"DISCONNECTED", "CONNECTING", "CHECKING", "CONNECTED"}
    BY <1>2, <1>3
  <2> QED BY <1>1, <1>2, <2>1, <2>2, <2>3 DEF GameTypes
<1>5. HomesAreKnown(home)' /\ LogIsTrue(home)'
  BY <1>1, <1>2 DEF HomesAreKnown, LogIsTrue, IsLast
<1>6. ASSUME clean' PROVE PollIsRight(home)'
  <2>1. PollWaits'
    BY <1>2, <1>6 DEF PollWaits, OnlyLog, IsLog
  <2> QED BY <1>2, <2>1 DEF PollIsRight, PollListed, PollEnds, PollDone
<1> QED BY <1>1, <1>2, <1>4, <1>5, <1>6 DEF GameInv

\* The users are marked, and the poll is asked for.
LEMMA CheckUserStartInv == ASSUME NEW home \in Homes, GameInv(home), CheckUserStart PROVE GameInv(home)'
<1>1. GameTypes /\ OneEach(users) /\ HomesAreKnown(home) /\ LogIsTrue(home)
  BY DEF GameInv
<1>2. /\ unchecking /\ unchecking' = FALSE
      /\ users' = [i \in DOMAIN users |-> [users[i] EXCEPT !.checked = FALSE]]
      /\ commands' = IF phase = "DISCONNECTED" THEN commands ELSE commands \o Poll
      /\ players' = players /\ joined' = joined /\ logging' = logging /\ clean' = clean
      /\ phase' = phase /\ lines' = lines
  BY DEF CheckUserStart, serverVars
<1>3. users \in Seq(GameUsers) /\ commands \in Seq({"set", "status", "dest"})
  BY <1>1 DEF GameTypes
<1>4. /\ users' \in Seq(GameUsers) /\ OneEach(users')
      /\ \A v \in Held(users') :
           ~v.checked /\ \E u \in Held(users) : u.id = v.id /\ u.entity = v.entity
  BY <1>1, <1>2, <1>3, UncheckedAre
<1>5. commands' \in Seq({"set", "status", "dest"})
  BY <1>2, <1>3, PollSent
<1>6. GameTypes'
  <2>1. Occupied' = Occupied
    BY <1>2 DEF Occupied
  <2> QED BY <1>1, <1>2, <1>4, <1>5, <2>1 DEF GameTypes
<1>7. HomesAreKnown(home)'
  <2>1. \A v \in Held(users') : v.id # Nobody => v.id <= joined' /\ home[v.id] = v.entity
    BY <1>1, <1>2, <1>4 DEF HomesAreKnown
  <2> QED BY <1>1, <1>2, <2>1 DEF HomesAreKnown
<1>8. LogIsTrue(home)'
  BY <1>1, <1>2 DEF LogIsTrue, IsLast
<1>9. ASSUME clean' PROVE PollIsRight(home)'
  <2>1. PollIsRight(home)
    BY <1>2, <1>9 DEF GameInv
  <2>2. PollWaits /\ phase # "DISCONNECTED"
    BY <1>2, <2>1 DEF PollIsRight, PollAsked, PollListed, PollEnds, PollDone
  <2>3. PollAsked'
    <3>1. commands' = <<"status", "dest">>
      BY <1>2, <2>2, PollSent DEF PollWaits
    <3>2. OnlyLog'
      BY <1>2, <2>2 DEF PollWaits, OnlyLog
    <3> QED BY <1>2, <2>2, <3>1, <3>2 DEF PollWaits, PollAsked
  <2> QED BY <1>2, <1>4, <2>2, <2>3, PollAskedRight
<1> QED BY <1>4, <1>6, <1>7, <1>8, <1>9 DEF GameInv

\* What breaks a poll leaves the log as it is, or without a line.
LEMMA BrokenInv ==
  ASSUME NEW home \in Homes, GameInv(home), ~clean', clean' \in BOOLEAN, UNCHANGED <<players, joined>>,
         unchecking' = unchecking, LogIsTrue(home)',
         phase' \in {"DISCONNECTED", "CONNECTING", "CHECKING", "CONNECTED"}, logging' \in BOOLEAN,
         users' = users \/ users' = <<>>, lines' \in Seq(GameLines),
         commands' \in Seq({"set", "status", "dest"}),
         \A i \in DOMAIN lines' : IsLog(lines'[i]) => lines'[i].id <= joined,
         \A i \in DOMAIN lines' : lines'[i].type = "join" => home[lines'[i].id] = lines'[i].entity
  PROVE  GameInv(home)'
<1>1. GameTypes /\ OneEach(users) /\ HomesAreKnown(home)
  BY DEF GameInv
<1>2. players' = players /\ joined' = joined
  OBVIOUS
<1>3. DOMAIN <<>> = {} /\ <<>> \in Seq(GameUsers)
  BY EmptySeq
<1>4. users' \in Seq(GameUsers) /\ OneEach(users') /\ Held(users') \subseteq Held(users)
  <2>1. users \in Seq(GameUsers)
    BY <1>1 DEF GameTypes
  <2>2. Held(<<>>) = {} /\ OneEach(<<>>)
    BY <1>3 DEF Held, OneEach
  <2> QED BY <1>1, <1>3, <2>1, <2>2
<1>5. GameTypes'
  <2>1. Occupied' = Occupied
    BY <1>2 DEF Occupied
  <2> QED BY <1>1, <1>2, <1>4, <2>1 DEF GameTypes
<1>6. HomesAreKnown(home)'
  BY <1>1, <1>2, <1>4 DEF HomesAreKnown
<1> QED BY <1>4, <1>5, <1>6 DEF GameInv

LEMMA ReconnectInv == ASSUME NEW home \in Homes, GameInv(home), Reconnect PROVE GameInv(home)'
<1>1. GameTypes /\ HomesAreKnown(home) /\ LogIsTrue(home)
  BY DEF GameInv
<1>2. /\ phase = "DISCONNECTED" /\ users' = <<>> /\ phase' = "CONNECTING" /\ commands' = <<"set">> \o Poll
      /\ players' = players /\ joined' = joined /\ logging' = logging /\ clean' = clean
      /\ unchecking' = unchecking /\ lines' = lines
  BY DEF Reconnect, serverVars
<1>3. clean \in BOOLEAN /\ ~clean
  BY <1>1, <1>2 DEF GameInv, GameTypes, PollIsRight
<1>4. commands' \in Seq({"set", "status", "dest"})
  <2>1. /\ <<>> \in Seq({"set", "status", "dest"}) /\ Poll \in Seq({"set", "status", "dest"})
        /\ <<>> \o <<"set">> \o Poll \in Seq({"set", "status", "dest"})
    BY EmptySeq, PollSent
  <2> QED BY <1>2, <2>1, PollSent
<1>5. LogIsTrue(home)'
  BY <1>1, <1>2 DEF LogIsTrue, IsLast
<1>6. /\ \A i \in DOMAIN lines' : IsLog(lines'[i]) => lines'[i].id <= joined
      /\ \A i \in DOMAIN lines' : lines'[i].type = "join" => home[lines'[i].id] = lines'[i].entity
  BY <1>1, <1>2 DEF HomesAreKnown
<1>7. lines' \in Seq(GameLines) /\ logging' \in BOOLEAN
  BY <1>1, <1>2 DEF GameTypes
<1> QED BY <1>2, <1>3, <1>4, <1>5, <1>6, <1>7, BrokenInv

LEMMA GameLossInv ==
  ASSUME NEW home \in Homes, GameInv(home), LoseLine \/ LoseCommand \/ NetworkError
  PROVE  GameInv(home)'
<1>1. GameTypes /\ HomesAreKnown(home) /\ LogIsTrue(home)
  BY DEF GameInv
<1>2. lines \in Seq(GameLines) /\ commands \in Seq({"set", "status", "dest"}) /\ logging \in BOOLEAN
  BY <1>1 DEF GameTypes
<1>3. phase \in {"DISCONNECTED", "CONNECTING", "CHECKING", "CONNECTED"}
  BY <1>1 DEF GameTypes
<1>4. CASE LoseLine
  <2>1. /\ lines # <<>> /\ lines' = Tail(lines) /\ UNCHANGED serverVars /\ clean' = FALSE
        /\ players' = players /\ joined' = joined /\ logging' = logging
        /\ phase' = phase /\ unchecking' = unchecking /\ users' = users /\ commands' = commands
    BY <1>4 DEF LoseLine, Loss, serverVars, phaseVars
  <2>2. lines' \in Seq(GameLines)
    BY <1>2, <2>1, GameLineTaken
  <2> QED BY <1>2, <1>3, <2>1, <2>2, LogTaken, BrokenInv
<1>5. CASE LoseCommand
  <2>1. /\ commands # <<>> /\ commands' = Tail(commands) /\ clean' = FALSE
        /\ players' = players /\ joined' = joined /\ logging' = logging
        /\ phase' = phase /\ unchecking' = unchecking /\ users' = users /\ lines' = lines
    BY <1>5 DEF LoseCommand, Loss, serverVars, phaseVars
  <2>2. commands' \in Seq({"set", "status", "dest"})
    BY <1>2, <2>1, HeadTailProperties
  <2>3. LogIsTrue(home)'
    BY <1>1, <2>1 DEF LogIsTrue, IsLast
  <2>4. /\ \A i \in DOMAIN lines' : IsLog(lines'[i]) => lines'[i].id <= joined
        /\ \A i \in DOMAIN lines' : lines'[i].type = "join" => home[lines'[i].id] = lines'[i].entity
    BY <1>1, <2>1 DEF HomesAreKnown
  <2> QED BY <1>2, <1>3, <2>1, <2>2, <2>3, <2>4, BrokenInv
<1>6. CASE NetworkError
  <2>1. /\ phase' = "DISCONNECTED" /\ logging' = FALSE /\ commands' = <<>> /\ lines' = <<>> /\ clean' = FALSE
        /\ players' = players /\ joined' = joined /\ unchecking' = unchecking /\ users' = users
    BY <1>6 DEF NetworkError, Loss
  <2>2. /\ <<>> \in Seq(GameLines) /\ <<>> \in Seq({"set", "status", "dest"}) /\ DOMAIN <<>> = {}
    BY EmptySeq
  <2>3. LogIsTrue(home)'
    BY <2>1, <2>2, NoLogIsTrue
  <2> QED BY <2>1, <2>2, <2>3, BrokenInv
<1> QED BY <1>4, <1>5, <1>6

GameVarsKept ==
  /\ players' = players /\ joined' = joined /\ logging' = logging /\ users' = users
  /\ phase' = phase /\ unchecking' = unchecking /\ commands' = commands /\ lines' = lines
  /\ clean' = clean

LEMMA GameInvStays == ASSUME NEW home \in Homes, GameInv(home), GameVarsKept PROVE GameInv(home)'
<1>1. GameTypes' /\ OneEach(users)' /\ HomesAreKnown(home)'
  BY DEF GameInv, GameVarsKept, GameTypes, Occupied, HomesAreKnown
<1>2. LogIsTrue(home)'
  BY DEF GameInv, GameVarsKept, LogIsTrue, IsLast
<1>3. ASSUME clean' PROVE PollIsRight(home)'
  <2>1. PollIsRight(home)
    BY <1>3 DEF GameInv, GameVarsKept
  <2>2. /\ PollWaits' = PollWaits /\ PollAsked' = PollAsked /\ PollListed' = PollListed
        /\ PollEnds' = PollEnds /\ PollDone' = PollDone
    BY DEF GameVarsKept, OnlyLog, PollWaits, PollAsked, PollListed, PollEnds, PollDone
  <2>3. PartsAreKnown(home) => PartsAreKnown(home)'
    BY DEF GameVarsKept, PartsAreKnown, PartIsKnown, ListedBefore
  <2>4. (GoneIsGone(home) => GoneIsGone(home)') /\ (HereIsHere(home) => HereIsHere(home)')
    BY DEF GameVarsKept, GoneIsGone, HereIsHere, NothingAbout
  <2>5. ListIsTrue(home) => ListIsTrue(home)'
    BY DEF GameVarsKept, ListIsTrue
  <2>6. phase' = phase /\ unchecking' = unchecking
    BY DEF GameVarsKept
  <2> QED BY <2>1, <2>2, <2>3, <2>4, <2>5, <2>6 DEF PollIsRight
<1> QED BY <1>1, <1>2, <1>3 DEF GameInv

\* There are homes for which the invariant holds: each join says where one more player lives.
THEOREM GameInvariance == GameSpec => [](\E home \in Homes : GameInv(home))
<1>1. GameInit => \E home \in Homes : GameInv(home)
  BY GameFirst
<1>2. (\E home \in Homes : GameInv(home)) /\ [GameNext]_gameVars => (\E home \in Homes : GameInv(home))'
  <2>1. SUFFICES ASSUME NEW home \in Homes, GameInv(home), [GameNext]_gameVars
                 PROVE  \E h \in Homes : GameInv(h)'
    BY DEF Homes
  <2>2. CASE UNCHANGED gameVars
    <3>1. GameVarsKept
      BY <2>2 DEF gameVars, serverVars, phaseVars, GameVarsKept
    <3> QED BY <2>1, <3>1, GameInvStays
  <2>3. ASSUME NEW e \in Entities, PlayerJoins(e) PROVE \E h \in Homes : GameInv(h)'
    <3>1. joined < MaxId
      BY <2>3 DEF PlayerJoins
    <3>2. PICK new \in Homes : GameInv(new) /\ new[joined + 1] = e
      BY <2>1, <3>1, NewHome
    <3>3. GameInv(new)'
      BY <2>3, <3>2, PlayerJoinsInv
    <3> QED BY <3>3
  <2>4. ASSUME NEW e \in Entities, PlayerParts(e) PROVE \E h \in Homes : GameInv(h)'
    <3>1. GameInv(home)'
      BY <2>1, <2>4, PlayerPartsInv
    <3> QED BY <3>1
  <2>5. ASSUME \/ ServerExecutes \/ Receive \/ RequestStatus \/ CheckUserStart \/ Reconnect
               \/ LoseLine \/ LoseCommand \/ NetworkError
        PROVE  \E h \in Homes : GameInv(h)'
    <3>1. GameInv(home)'
      BY <2>1, <2>5, ServerExecutesInv, ReceiveInv, RequestStatusInv, CheckUserStartInv, ReconnectInv,
         GameLossInv
    <3> QED BY <3>1
  <2> QED BY <2>1, <2>2, <2>3, <2>4, <2>5 DEF GameNext
<1> QED BY <1>1, <1>2, PTL DEF GameSpec

LEMMA NothingSaid ==
  ASSUME NEW home \in Homes, GameInv(home), clean, lines = <<>>, commands = <<>>, ~unchecking
  PROVE  /\ \A e \in Entities : players[e] = Nobody => \A u \in Held(users) : u.entity # e
         /\ \A e \in Entities : players[e] # Nobody =>
              \E u \in Held(users) : u.entity = e /\ u.shows = players[e]
<1>1. PollIsRight(home) /\ DOMAIN lines = {}
  BY DEF GameInv
<1>2. PollDone
  BY <1>1, CommandsDiffer DEF PollIsRight, PollWaits, PollAsked, PollListed, PollEnds
<1>3. GoneIsGone(home) /\ HereIsHere(home)
  BY <1>1, <1>2 DEF PollIsRight
<1>4. (\A u \in Held(users) : u.checked) /\ \A e \in Entities : NothingAbout(home, e)
  BY <1>1, <1>2 DEF PollDone, NothingAbout
<1> QED BY <1>3, <1>4 DEF GoneIsGone, HereIsHere

\* As many entities as entries.
LEMMA CountedOnce ==
  ASSUME NEW S, NEW us \in Seq(S), OneEach(us)
  PROVE  Len(us) = Cardinality({us[i].entity : i \in DOMAIN us})
<1>1. PICK n \in Nat : n = Len(us) /\ DOMAIN us = 1..n
  BY OfList
<1>2. PICK of : of = [i \in 1..n |-> us[i].entity]
  OBVIOUS
<1>3. PICK es : es = {us[i].entity : i \in DOMAIN us}
  OBVIOUS
<1>4. of \in [1..n -> es]
  BY <1>1, <1>2, <1>3
<1>5. \A i, j \in 1..n : of[i] = of[j] => i = j
  BY <1>1, <1>2 DEF OneEach
<1>6. \A e \in es : \E i \in 1..n : of[i] = e
  BY <1>1, <1>2, <1>3
<1>7. of \in Bijection(1..n, es)
  BY <1>4, <1>5, <1>6 DEF Bijection, Injection, IsInjective, Surjection
<1>8. Cardinality(es) = n
  BY <1>7, FS_CountingElements DEF ExistsBijection
<1> QED BY <1>1, <1>3, <1>8

\* After a poll that begins with no answer on its way, the users are the players, one each,
\* whatever was lost before, and stay so until something is lost again.  KnowsPlayers
\* (XonoticGame), of handle_message(), request_status() and the user manager.
THEOREM PlayersOfGameAreKnown == GameSpec => []KnowsPlayers
<1>1. (\E home \in Homes : GameInv(home)) => KnowsPlayers
  <2>1. SUFFICES ASSUME NEW home \in Homes, GameInv(home), clean, lines = <<>>, commands = <<>>, ~unchecking
                 PROVE  /\ {<<users[i].entity, users[i].shows>> : i \in DOMAIN users} =
                             {<<e, players[e]>> : e \in {f \in Entities : players[f] # Nobody}}
                        /\ Len(users) = Cardinality({users[i].entity : i \in DOMAIN users})
    BY DEF KnowsPlayers
  <2>2. users \in Seq(GameUsers) /\ OneEach(users)
    BY <2>1 DEF GameInv, GameTypes
  <2>3. \A u, v \in Held(users) : u.entity = v.entity => u = v
    BY <2>2, HeldOnce
  <2>4. \A i \in DOMAIN users : users[i] \in Held(users) /\ users[i].entity \in Entities
    <3>1. DOMAIN users = 1..Len(users) /\ \A i \in 1..Len(users) : users[i] \in GameUsers
      BY <2>2, OfList
    <3>2. \A u \in GameUsers : u.entity \in Entities
      BY DEF GameUsers
    <3> QED BY <3>1, <3>2 DEF Held
  <2>5. ASSUME NEW i \in DOMAIN users
        PROVE  players[users[i].entity] # Nobody /\ users[i].shows = players[users[i].entity]
    <3>1. players[users[i].entity] # Nobody
      BY <2>1, <2>4, NothingSaid
    <3>2. PICK u \in Held(users) : u.entity = users[i].entity /\ u.shows = players[users[i].entity]
      BY <2>1, <2>4, <3>1, NothingSaid
    <3> QED BY <2>3, <2>4, <3>1, <3>2
  <2>6. ASSUME NEW e \in Entities, players[e] # Nobody
        PROVE  \E i \in DOMAIN users : users[i].entity = e /\ users[i].shows = players[e]
    BY <2>1, <2>6, NothingSaid DEF Held
  <2>7. {<<users[i].entity, users[i].shows>> : i \in DOMAIN users} =
          {<<e, players[e]>> : e \in {f \in Entities : players[f] # Nobody}}
    BY <2>4, <2>5, <2>6
  <2>8. Len(users) = Cardinality({users[i].entity : i \in DOMAIN users})
    BY <2>2, CountedOnce
  <2> QED BY <2>7, <2>8
<1> QED BY <1>1, GameInvariance, PTL

\* Users have ids and entities, each shows the name of one player, and only the commands
\* of the bot are on their way: GameTypeOK, of every state.
THEOREM GameTypeCorrect == GameSpec => []GameTypeOK
<1>1. (\E home \in Homes : GameInv(home)) => GameTypeOK
  <2>1. SUFFICES ASSUME GameTypes PROVE GameTypeOK
    BY DEF GameInv
  <2>2. \A i \in DOMAIN users : users[i] \in GameUsers
    BY <2>1, OfList DEF GameTypes
  <2>3. Range(commands) \subseteq {"set", "status", "dest"}
    <3>1. commands \in Seq({"set", "status", "dest"})
      BY <2>1 DEF GameTypes
    <3>2. /\ DOMAIN commands = 1..Len(commands)
          /\ \A i \in 1..Len(commands) : commands[i] \in {"set", "status", "dest"}
      BY <3>1, OfList
    <3> QED BY <3>2 DEF Range
  <2> QED BY <2>1, <2>2, <2>3 DEF GameTypes, GameTypeOK, GameUsers
<1> QED BY <1>1, GameInvariance, PTL

-----------------------------------------------------------------------------
(* The groups of users of a connection (Access)                            *)

Lists == [Entries -> 0..Cardinality(Groups)]
Directs == [Groups -> SUBSET Entries]
Storages == [Groups -> Lists \cup {NoList}]

LEMMA ClosureIs ==
  ASSUME NEW g \in Groups
  PROVE  /\ Closure[g] \subseteq Groups /\ g \in Closure[g]
         /\ Inherits[g] = {} => Closure[g] = {g}
         /\ \A h \in Closure[g] : Closure[h] \subseteq Closure[g]
<1>1. Closure[g] = {h \in Groups : \A S \in SUBSET Groups :
                       g \in S /\ (\A k \in S : Inherits[k] \subseteq S) => h \in S}
  BY DEF Closure
<1>2. ASSUME Inherits[g] = {} PROVE Closure[g] = {g}
  <2>1. \A k \in {g} : Inherits[k] \subseteq {g}
    BY <1>2
  <2> QED BY <1>1, <2>1
<1>3. ASSUME NEW h \in Closure[g], NEW k \in Closure[h] PROVE k \in Closure[g]
  <2>1. /\ h \in Groups
        /\ Closure[h] = {f \in Groups : \A S \in SUBSET Groups :
                            h \in S /\ (\A l \in S : Inherits[l] \subseteq S) => f \in S}
    BY <1>1 DEF Closure
  <2>2. k \in Groups
    BY <2>1
  <2>3. ASSUME NEW S \in SUBSET Groups, g \in S, \A l \in S : Inherits[l] \subseteq S PROVE k \in S
    <3>1. h \in S
      BY <1>1, <2>3
    <3> QED BY <2>1, <2>3, <3>1
  <2> QED BY <1>1, <2>2, <2>3
<1> QED BY <1>1, <1>2, <1>3

\* How often a user is listed.
LEMMA CountOf ==
  ASSUME NEW d, NEW g \in Groups, NEW e \in Entries
  PROVE  /\ allUsers(d, g) \in Lists
         /\ allUsers(d, g)[e] \in 0..Cardinality(Groups)
         /\ allUsers(d, g)[e] > 0 <=> \E h \in Closure[g] : e \in d[h]
         /\ Inherits[g] = {} => allUsers(d, g)[e] <= 1
<1>1. ASSUME NEW f \in Entries
      PROVE  Cardinality({h \in Closure[g] : f \in d[h]}) \in 0..Cardinality(Groups)
  <2>1. {h \in Closure[g] : f \in d[h]} \subseteq Groups
    BY ClosureIs
  <2> QED BY <2>1, FS_Subset, FS_CardinalityType, AccessAssumption
<1>2. allUsers(d, g) \in Lists
  BY <1>1 DEF allUsers, Lists
<1>3. PICK H : H = {h \in Closure[g] : e \in d[h]}
  OBVIOUS
<1>4. H \subseteq Groups /\ IsFiniteSet(H) /\ allUsers(d, g)[e] = Cardinality(H)
  <2>1. H \subseteq Groups
    BY <1>3, ClosureIs
  <2> QED BY <1>3, <2>1, FS_Subset, AccessAssumption DEF allUsers
<1>5. Cardinality(H) \in Nat /\ (Cardinality(H) = 0 <=> H = {})
  BY <1>4, FS_CardinalityType, FS_EmptySet
<1>6. Cardinality(H) > 0 <=> H # {}
  BY <1>5
<1>7. ASSUME Inherits[g] = {} PROVE Cardinality(H) <= 1
  <2>1. H = {} \/ H = {g}
    BY <1>3, <1>7, ClosureIs
  <2> QED BY <1>5, <2>1, FS_Singleton
<1> QED BY <1>1, <1>2, <1>3, <1>4, <1>6, <1>7

\* What the handler of a group makes of it when the bot is started.
LEMMA InitializeIs ==
  ASSUME NEW d \in Directs, NEW s \in Storages, NEW g \in Groups
  PROVE  \E new \in Directs, list \in Storages :
           /\ initialize(d, s, g) = <<new, list>>
           /\ \A h \in Groups : h # g => new[h] = d[h] /\ list[h] = s[h]
           /\ list[g] \in Lists /\ (s[g] \in Lists => list = s)
           /\ s[g] = NoList => new = d /\ list[g] = allUsers(d, g)
           /\ s[g] # NoList => \A e \in Entries :
                (e \in new[g] <=>
                   /\ e \in d[g] \/ (s[g][e] > 0 /\ may_add(d, {}, e, g))
                   /\ ~(allUsers(d, g)[e] > s[g][e] /\ ~ignored(d, {}, e)))
<1>1. CASE s[g] = NoList
  <2>1. PICK list : list = [s EXCEPT ![g] = allUsers(d, g)]
    OBVIOUS
  <2>2. allUsers(d, g) \in Lists
    <3>1. CASE Entries = {}
      BY <3>1 DEF allUsers, Lists
    <3>2. CASE Entries # {}
      BY <3>2, CountOf
    <3> QED BY <3>1, <3>2
  <2>3. /\ list \in Storages /\ list[g] = allUsers(d, g) /\ list[g] \in Lists
        /\ \A h \in Groups : h # g => list[h] = s[h]
    BY <2>1, <2>2 DEF Storages
  <2>4. initialize(d, s, g) = <<d, list>>
    BY <1>1, <2>1 DEF initialize
  <2>5. ASSUME s[g] \in Lists PROVE list = s
    <3>1. Entries = {}
      <4>1. ASSUME NEW e \in Entries PROVE FALSE
        <5>1. NoList[e] = 0 - 1 /\ NoList[e] \in 0..Cardinality(Groups)
          BY <1>1, <2>5 DEF NoList, Lists
        <5> QED BY <5>1
      <4> QED BY <4>1
    <3>2. allUsers(d, g) = NoList
      BY <3>1 DEF allUsers, NoList
    <3> QED BY <1>1, <2>1, <3>2 DEF Storages
  <2> QED BY <1>1, <2>3, <2>4, <2>5
<1>2. CASE s[g] # NoList
  <2>1. PICK added : added = {e \in Entries : s[g][e] > 0 /\ may_add(d, {}, e, g)}
    OBVIOUS
  <2>2. PICK removed : removed = {e \in Entries : allUsers(d, g)[e] > s[g][e] /\ ~ignored(d, {}, e)}
    OBVIOUS
  <2>3. PICK new : new = [d EXCEPT ![g] = (@ \cup added) \ removed]
    OBVIOUS
  <2>4. initialize(d, s, g) = <<new, s>>
    BY <1>2, <2>1, <2>2, <2>3 DEF initialize
  <2>5. /\ new \in Directs /\ new[g] = (d[g] \cup added) \ removed
        /\ \A h \in Groups : h # g => new[h] = d[h]
    BY <2>1, <2>3 DEF Directs
  <2>6. s[g] \in Lists
    BY <1>2 DEF Storages
  <2> QED BY <1>2, <2>1, <2>2, <2>4, <2>5, <2>6
<1> QED BY <1>1, <1>2

\* The handlers of the groups one after the other, by induction over their list.
Starts(f, s, m) ==
  f = [i \in 0..m |-> IF i = 0 THEN <<Config, s>>
                      ELSE initialize(f[i - 1][1], f[i - 1][2], Managed[i])]

LEMMA StartsExist == ASSUME NEW s, NEW m \in Nat PROVE \E f : Starts(f, s, m)
<1> DEFINE S == {k \in Nat : \E f : Starts(f, s, k)}
<1>1. 0 \in S
  <2>1. Starts([i \in 0..0 |-> <<Config, s>>], s, 0)
    BY DEF Starts
  <2> QED BY <2>1
<1>2. ASSUME NEW k \in S PROVE k + 1 \in S
  <2>1. PICK f : Starts(f, s, k)
    OBVIOUS
  <2> DEFINE next == initialize(f[k][1], f[k][2], Managed[k + 1])
             h == [i \in 0..(k + 1) |-> IF i = k + 1 THEN next ELSE f[i]]
  <2>2. \A i \in 0..k : h[i] = f[i]
    OBVIOUS
  <2>3. \A i \in 0..k : f[i] = IF i = 0 THEN <<Config, s>>
                               ELSE initialize(f[i - 1][1], f[i - 1][2], Managed[i])
    BY <2>1 DEF Starts
  <2>4. \A i \in 0..(k + 1) :
          h[i] = IF i = 0 THEN <<Config, s>> ELSE initialize(h[i - 1][1], h[i - 1][2], Managed[i])
    <3> TAKE i \in 0..(k + 1)
    <3>1. CASE i = k + 1
      <4>1. h[k] = f[k] /\ i # 0 /\ i - 1 = k /\ h[i] = next
        BY <2>2, <3>1
      <4> QED BY <3>1, <4>1
    <3>2. CASE i # k + 1
      <4>1. i \in 0..k /\ (i # 0 => i - 1 \in 0..k)
        BY <3>2
      <4> HIDE DEF h
      <4> QED BY <2>2, <2>3, <4>1
    <3> QED BY <3>1, <3>2
  <2>5. h = [i \in 0..(k + 1) |-> h[i]]
    OBVIOUS
  <2> HIDE DEF h
  <2>6. Starts(h, s, k + 1)
    BY <2>4, <2>5 DEF Starts
  <2> QED BY <2>6
<1>3. S = Nat
  <2> HIDE DEF S
  <2>1. S \in SUBSET Nat
    BY DEF S
  <2> QED BY <1>1, <1>2, <2>1, AllOfNat
<1> QED BY <1>3

\* The users and the storage after each handler.
StartedBy(s, ds, ss) ==
  /\ ds \in [0..Len(Managed) -> Directs] /\ ss \in [0..Len(Managed) -> Storages]
  /\ ds[0] = Config /\ ss[0] = s
  /\ \A i \in 1..Len(Managed) : initialize(ds[i - 1], ss[i - 1], Managed[i]) = <<ds[i], ss[i]>>
  /\ started(s) = <<ds[Len(Managed)], ss[Len(Managed)]>>

LEMMA ManagedAre ==
  /\ Len(Managed) \in Nat /\ DOMAIN Managed = 1..Len(Managed)
  /\ \A i \in 1..Len(Managed) : Managed[i] \in Groups /\ Managed[i] \in ToSet(Managed)
  /\ \A g \in ToSet(Managed) : g \in Groups /\ \E i \in 1..Len(Managed) : Managed[i] = g
<1>1. Managed \in Seq(Groups)
  BY AccessAssumption
<1>2. Len(Managed) \in Nat /\ DOMAIN Managed = 1..Len(Managed)
  BY <1>1, LenProperties
<1>3. \A i \in 1..Len(Managed) : Managed[i] \in Groups
  BY <1>1, <1>2, ElementOfSeq
<1>4. ToSet(Managed) = {Managed[i] : i \in 1..Len(Managed)}
  BY <1>2 DEF ToSet
<1> QED BY <1>2, <1>3, <1>4

LEMMA StartedIs == ASSUME NEW s \in Storages PROVE \E ds, ss : StartedBy(s, ds, ss)
<1> DEFINE f == CHOOSE g : Starts(g, s, Len(Managed))
           Typed(x) == x = <<x[1], x[2]>> /\ x[1] \in Directs /\ x[2] \in Storages
           S == {m \in Nat : m <= Len(Managed) => Typed(f[m])}
<1>1. Starts(f, s, Len(Managed))
  BY ManagedAre, StartsExist
<1>2. started(s) = f[Len(Managed)]
  BY DEF started, Starts
<1>3. \A i \in 0..Len(Managed) : f[i] = IF i = 0 THEN <<Config, s>>
                                        ELSE initialize(f[i - 1][1], f[i - 1][2], Managed[i])
  BY <1>1 DEF Starts
<1> HIDE DEF f
<1>4. f[0] = <<Config, s>>
  BY <1>3, ManagedAre
<1>5. 0 \in S
  <2>1. Config \in Directs
    BY AccessAssumption DEF Directs
  <2> QED BY <1>4, <2>1
<1>6. ASSUME NEW m \in S PROVE m + 1 \in S
  <2>1. SUFFICES ASSUME m + 1 <= Len(Managed) PROVE Typed(f[m + 1])
    OBVIOUS
  <2>2. m \in Nat /\ m <= Len(Managed) /\ m + 1 \in 1..Len(Managed) /\ m + 1 \in 0..Len(Managed) /\ m + 1 # 0
        /\ (m + 1) - 1 = m
    BY <2>1, ManagedAre
  <2>3. f[m][1] \in Directs /\ f[m][2] \in Storages /\ Managed[m + 1] \in Groups
    BY <2>2, ManagedAre
  <2>4. f[m + 1] = initialize(f[m][1], f[m][2], Managed[m + 1])
    BY <1>3, <2>2
  <2>5. PICK new \in Directs, list \in Storages : f[m + 1] = <<new, list>>
    BY <2>3, <2>4, InitializeIs
  <2> QED BY <2>5
<1>7. S = Nat
  <2> HIDE DEF S
  <2>1. S \in SUBSET Nat
    BY DEF S
  <2> QED BY <1>5, <1>6, <2>1, AllOfNat
<1>8. \A i \in 0..Len(Managed) : Typed(f[i])
  <2> TAKE i \in 0..Len(Managed)
  <2>1. i \in S /\ i <= Len(Managed)
    BY <1>7, ManagedAre
  <2> HIDE DEF Typed
  <2> QED BY <2>1
<1>9. PICK ds : ds = [i \in 0..Len(Managed) |-> f[i][1]]
  OBVIOUS
<1>10. PICK ss : ss = [i \in 0..Len(Managed) |-> f[i][2]]
  OBVIOUS
<1>11. /\ ds \in [0..Len(Managed) -> Directs] /\ ss \in [0..Len(Managed) -> Storages]
       /\ \A i \in 0..Len(Managed) : f[i] = <<ds[i], ss[i]>>
  BY <1>8, <1>9, <1>10
<1>12. 0 \in 0..Len(Managed) /\ Len(Managed) \in 0..Len(Managed)
  BY ManagedAre
<1>13. ds[0] = Config /\ ss[0] = s
  BY <1>4, <1>9, <1>10, <1>12
<1>14. \A i \in 1..Len(Managed) : initialize(ds[i - 1], ss[i - 1], Managed[i]) = <<ds[i], ss[i]>>
  <2> TAKE i \in 1..Len(Managed)
  <2>1. i \in 0..Len(Managed) /\ i - 1 \in 0..Len(Managed) /\ i # 0
    BY ManagedAre
  <2>2. f[i - 1][1] = ds[i - 1] /\ f[i - 1][2] = ss[i - 1]
    BY <1>9, <1>10, <2>1
  <2> QED BY <1>3, <1>11, <2>1, <2>2
<1> QED BY <1>2, <1>11, <1>12, <1>13, <1>14 DEF StartedBy

\* One step of it.
LEMMA StartedStep ==
  ASSUME NEW s \in Storages, NEW ds, NEW ss, StartedBy(s, ds, ss), NEW i \in 1..Len(Managed)
  PROVE  LET g == Managed[i] d == ds[i - 1] IN
         /\ d \in Directs /\ ds[i] \in Directs /\ ss[i] \in Storages /\ g \in Groups
         /\ \A h \in Groups : h # g => ds[i][h] = d[h] /\ ss[i][h] = ss[i - 1][h]
         /\ ss[i][g] \in Lists /\ (ss[i - 1][g] \in Lists => ss[i] = ss[i - 1])
         /\ ss[i - 1][g] = NoList => ds[i] = d /\ ss[i][g] = allUsers(d, g)
         /\ ss[i - 1][g] # NoList => \A e \in Entries :
              (e \in ds[i][g] <=>
                 /\ e \in d[g] \/ (ss[i - 1][g][e] > 0 /\ may_add(d, {}, e, g))
                 /\ ~(allUsers(d, g)[e] > ss[i - 1][g][e] /\ ~ignored(d, {}, e)))
<1>1. /\ i \in 0..Len(Managed) /\ i - 1 \in 0..Len(Managed) /\ Managed[i] \in Groups
  BY ManagedAre
<1>2. /\ ds[i - 1] \in Directs /\ ss[i - 1] \in Storages /\ ds[i] \in Directs /\ ss[i] \in Storages
      /\ initialize(ds[i - 1], ss[i - 1], Managed[i]) = <<ds[i], ss[i]>>
  BY <1>1 DEF StartedBy
<1>3. PICK d \in Directs, t \in Storages, g \in Groups : d = ds[i - 1] /\ t = ss[i - 1] /\ g = Managed[i]
  BY <1>1, <1>2
<1>4. PICK new \in Directs, list \in Storages :
        /\ initialize(d, t, g) = <<new, list>>
        /\ \A h \in Groups : h # g => new[h] = d[h] /\ list[h] = t[h]
        /\ list[g] \in Lists /\ (t[g] \in Lists => list = t)
        /\ t[g] = NoList => new = d /\ list[g] = allUsers(d, g)
        /\ t[g] # NoList => \A e \in Entries :
             (e \in new[g] <=>
                /\ e \in d[g] \/ (t[g][e] > 0 /\ may_add(d, {}, e, g))
                /\ ~(allUsers(d, g)[e] > t[g][e] /\ ~ignored(d, {}, e)))
  BY InitializeIs
<1>5. <<new, list>> = <<ds[i], ss[i]>>
  BY <1>2, <1>3, <1>4
<1>6. new = ds[i] /\ list = ss[i]
  BY <1>5
<1> QED BY <1>2, <1>3, <1>4, <1>6

\* What a handler has done stays until the next of the same group; lists that are there stay.
LEMMA StartedSoFar ==
  ASSUME NEW s \in Storages, NEW ds, NEW ss, StartedBy(s, ds, ss), NEW m \in 0..Len(Managed)
  PROVE  /\ \A j \in 1..m : ss[m][Managed[j]] \in Lists
         /\ \A i \in 0..m, g \in Groups :
              (\A j \in (i + 1)..m : Managed[j] # g) => ds[m][g] = ds[i][g] /\ ss[m][g] = ss[i][g]
         /\ (\A g \in ToSet(Managed) : s[g] \in Lists) => ss[m] = s
<1> DEFINE HasList(k) == \A j \in 1..k : ss[k][Managed[j]] \in Lists
           Since(k) == \A i \in 0..k, g \in Groups :
                         (\A j \in (i + 1)..k : Managed[j] # g) =>
                           ds[k][g] = ds[i][g] /\ ss[k][g] = ss[i][g]
           Same(k) == (\A g \in ToSet(Managed) : s[g] \in Lists) => ss[k] = s
           S == {k \in Nat : k <= Len(Managed) => HasList(k) /\ Since(k) /\ Same(k)}
<1>1. 0 \in S
  <2>1. ss[0] = s
    BY DEF StartedBy
  <2>2. 1..0 = {} /\ 0..0 = {0}
    OBVIOUS
  <2> QED BY <2>1, <2>2
<1>2. ASSUME NEW k \in S PROVE k + 1 \in S
  <2>1. SUFFICES ASSUME k + 1 <= Len(Managed)
                 PROVE  HasList(k + 1) /\ Since(k + 1) /\ Same(k + 1)
    OBVIOUS
  <2>2. /\ k \in Nat /\ k <= Len(Managed) /\ k + 1 \in 1..Len(Managed) /\ (k + 1) - 1 = k
        /\ \A j \in 1..(k + 1) : j \in 1..k \/ j = k + 1
        /\ \A j \in 1..k : j \in 1..(k + 1) /\ j \in 1..Len(Managed)
        /\ \A i \in 0..(k + 1) : i \in 0..k \/ i = k + 1
    <3>1. PICK n \in Nat : n = Len(Managed)
      BY ManagedAre
    <3>2. k \in Nat /\ k + 1 <= n
      BY <2>1, <3>1
    <3> QED BY <3>1, <3>2
  <2>3. HasList(k) /\ Since(k) /\ Same(k)
    BY <2>2
  <2>4. PICK g : g = Managed[k + 1]
    OBVIOUS
  <2>5. /\ g \in Groups /\ g \in ToSet(Managed) /\ ss[k + 1][g] \in Lists
        /\ \A h \in Groups : h # g => ds[k + 1][h] = ds[k][h] /\ ss[k + 1][h] = ss[k][h]
        /\ ss[k][g] \in Lists => ss[k + 1] = ss[k]
    BY <2>2, <2>4, StartedStep, ManagedAre
  <2>6. HasList(k + 1)
    <3> TAKE j \in 1..(k + 1)
    <3>1. CASE Managed[j] = g
      BY <2>5, <3>1
    <3>2. CASE Managed[j] # g
      <4>1. j \in 1..k /\ Managed[j] \in Groups
        BY <2>2, <2>4, <3>2, ManagedAre
      <4> QED BY <2>3, <2>5, <3>2, <4>1
    <3> QED BY <3>1, <3>2
  <2>7. Since(k + 1)
    <3> TAKE i \in 0..(k + 1), h \in Groups
    <3>1. HAVE \A j \in (i + 1)..(k + 1) : Managed[j] # h
    <3>2. CASE i = k + 1
      BY <3>2
    <3>3. CASE i \in 0..k
      <4>1. k + 1 \in (i + 1)..(k + 1) /\ \A j \in (i + 1)..k : j \in (i + 1)..(k + 1)
        BY <2>2, <3>3
      <4>2. h # g /\ \A j \in (i + 1)..k : Managed[j] # h
        BY <2>4, <3>1, <4>1
      <4>3. ds[k][h] = ds[i][h] /\ ss[k][h] = ss[i][h]
        BY <2>3, <3>3, <4>2
      <4> QED BY <2>5, <4>2, <4>3
    <3> QED BY <2>2, <3>2, <3>3
  <2>8. Same(k + 1)
    BY <2>3, <2>5
  <2> HIDE DEF HasList, Since, Same
  <2> QED BY <2>6, <2>7, <2>8
<1>3. S = Nat
  <2> HIDE DEF S
  <2>1. S \in SUBSET Nat
    BY DEF S
  <2> QED BY <1>1, <1>2, <2>1, AllOfNat
<1>4. m \in S /\ m <= Len(Managed)
  BY <1>3, ManagedAre
<1> HIDE DEF HasList, Since, Same
<1>5. HasList(m) /\ Since(m) /\ Same(m)
  BY <1>4
<1> QED BY <1>5 DEF HasList, Since, Same

AccessTypes ==
  /\ direct \in Directs /\ known \subseteq People /\ stored \in Storages
  /\ \A g \in ToSet(Managed) : stored[g] \in Lists

LEMMA NothingStored == [g \in Groups |-> NoList] \in Storages
BY DEF Storages

LEMMA AccessFirstTypes == ASSUME AccessInit PROVE AccessTypes
<1>1. PICK s \in Storages : s = [g \in Groups |-> NoList]
  BY NothingStored
<1>2. PICK ds, ss : StartedBy(s, ds, ss)
  BY StartedIs
<1>3. Len(Managed) \in 0..Len(Managed)
  BY ManagedAre
<1>4. started(s) = <<ds[Len(Managed)], ss[Len(Managed)]>>
  BY <1>2 DEF StartedBy
<1>5. direct = ds[Len(Managed)] /\ stored = ss[Len(Managed)] /\ known = {}
  BY <1>1, <1>4 DEF AccessInit
<1>6. direct \in Directs /\ stored \in Storages
  BY <1>2, <1>3, <1>5 DEF StartedBy
<1>7. \A j \in 1..Len(Managed) : stored[Managed[j]] \in Lists
  BY <1>2, <1>3, <1>5, StartedSoFar
<1> QED BY <1>5, <1>6, <1>7, ManagedAre DEF AccessTypes

LEMMA RestartIs ==
  ASSUME AccessTypes, Restart
  PROVE  \E ds, ss : /\ StartedBy(stored, ds, ss) /\ known' = {} /\ stored' = stored
                     /\ direct' = ds[Len(Managed)] /\ direct' \in Directs
                     /\ \A i \in 0..Len(Managed) : ss[i] = stored
<1>1. stored \in Storages /\ \A g \in ToSet(Managed) : stored[g] \in Lists
  BY DEF AccessTypes
<1>2. PICK s \in Storages : s = stored
  BY <1>1
<1>3. PICK ds, ss : StartedBy(s, ds, ss)
  BY StartedIs
<1>4. \A i \in 0..Len(Managed) : ss[i] = s
  BY <1>1, <1>2, <1>3, StartedSoFar
<1>5. Len(Managed) \in 0..Len(Managed)
  BY ManagedAre
<1>6. started(stored) = <<ds[Len(Managed)], ss[Len(Managed)]>>
  BY <1>2, <1>3 DEF StartedBy
<1>7. direct' = ds[Len(Managed)] /\ stored' = ss[Len(Managed)] /\ known' = {}
  BY <1>6 DEF Restart
<1>8. direct' \in Directs
  BY <1>3, <1>5, <1>7 DEF StartedBy
<1> QED BY <1>2, <1>3, <1>4, <1>5, <1>7, <1>8

\* A command edits one managed group, and stores it.
LEMMA CommandIs ==
  ASSUME AccessTypes, NEW p \in People, Command(p)
  PROVE  \E g \in ToSet(Managed), new \in SUBSET Entries :
           /\ direct' = [direct EXCEPT ![g] = new] /\ known' = known
           /\ stored' = [stored EXCEPT ![g] = allUsers(direct', g)]
           /\ \A e \in Entries : ignored(direct, known, e) => (e \in new <=> e \in direct[g])
<1>1. direct \in [Groups -> SUBSET Entries] /\ ToSet(Managed) \subseteq Groups
  BY ManagedAre DEF AccessTypes, Directs
<1>2. known' = known
  BY DEF Command
<1>3. PICK g \in ToSet(Managed) : Clear(g) \/ \E e \in Entries : AddUser(e, g) \/ RemoveUser(e, g)
  BY DEF Command
<1>4. direct[g] \in SUBSET Entries
  BY <1>1
<1>5. CASE Clear(g)
  <2>1. PICK new : new = {e \in direct[g] : ignored(direct, known, e)}
    OBVIOUS
  <2>2. /\ direct' = [direct EXCEPT ![g] = new]
        /\ stored' = [stored EXCEPT ![g] = allUsers(direct', g)]
    BY <1>5, <2>1 DEF Clear, save_in_storage
  <2>3. /\ new \in SUBSET Entries
        /\ \A e \in Entries : ignored(direct, known, e) => (e \in new <=> e \in direct[g])
    BY <1>4, <2>1
  <2> QED BY <1>2, <2>2, <2>3
<1>6. CASE \E e \in Entries : AddUser(e, g)
  <2>1. PICK e \in Entries : AddUser(e, g)
    BY <1>6
  <2>2. PICK new : new = direct[g] \cup {e}
    OBVIOUS
  <2>3. /\ direct' = [direct EXCEPT ![g] = new]
        /\ stored' = [stored EXCEPT ![g] = allUsers(direct', g)]
    BY <2>1, <2>2 DEF AddUser, save_in_storage
  <2>4. ~ignored(direct, known, e)
    BY <2>1 DEF AddUser, may_add
  <2>5. /\ new \in SUBSET Entries
        /\ \A f \in Entries : ignored(direct, known, f) => (f \in new <=> f \in direct[g])
    BY <1>4, <2>2, <2>4
  <2> QED BY <1>2, <2>3, <2>5
<1>7. CASE \E e \in Entries : RemoveUser(e, g)
  <2>1. PICK e \in Entries : RemoveUser(e, g)
    BY <1>7
  <2>2. PICK new : new = direct[g] \ {e}
    OBVIOUS
  <2>3. /\ direct' = [direct EXCEPT ![g] = new]
        /\ stored' = [stored EXCEPT ![g] = allUsers(direct', g)]
    BY <2>1, <2>2 DEF RemoveUser, save_in_storage
  <2>4. ~ignored(direct, known, e)
    BY <2>1 DEF RemoveUser
  <2>5. /\ new \in SUBSET Entries
        /\ \A f \in Entries : ignored(direct, known, f) => (f \in new <=> f \in direct[g])
    BY <1>4, <2>2, <2>4
  <2> QED BY <1>2, <2>3, <2>5
<1> QED BY <1>3, <1>5, <1>6, <1>7

LEMMA AllUsersListed == ASSUME NEW d, NEW g \in Groups PROVE allUsers(d, g) \in Lists
<1>1. CASE Entries = {}
  BY <1>1 DEF allUsers, Lists
<1>2. CASE Entries # {}
  BY <1>2, CountOf
<1> QED BY <1>1, <1>2

LEMMA AccessTypesStep == ASSUME AccessTypes, [AccessNext]_accessVars PROVE AccessTypes'
<1>1. CASE UNCHANGED accessVars
  BY <1>1 DEF accessVars, AccessTypes
<1>2. CASE Restart
  <2>1. stored' = stored /\ direct' \in Directs /\ known' = {}
    BY <1>2, RestartIs
  <2> QED BY <2>1 DEF AccessTypes
<1>3. ASSUME NEW p \in People, Command(p) PROVE AccessTypes'
  <2>1. PICK g \in ToSet(Managed), new \in SUBSET Entries :
           /\ direct' = [direct EXCEPT ![g] = new] /\ known' = known
           /\ stored' = [stored EXCEPT ![g] = allUsers(direct', g)]
    BY <1>3, CommandIs
  <2>2. g \in Groups /\ allUsers(direct', g) \in Lists
    BY ManagedAre, AllUsersListed
  <2>3. direct' \in Directs
    BY <2>1, <2>2 DEF AccessTypes, Directs
  <2>4. stored' \in Storages /\ \A h \in ToSet(Managed) : stored'[h] \in Lists
    BY <2>1, <2>2, ManagedAre DEF AccessTypes, Storages
  <2> QED BY <2>1, <2>3, <2>4 DEF AccessTypes
<1>4. ASSUME NEW p \in People, Identified(p) \/ Gone(p) PROVE AccessTypes'
  BY <1>4 DEF Identified, Gone, AccessTypes
<1> QED BY <1>1, <1>2, <1>3, <1>4 DEF AccessNext

\* Groups have entries, and a stored list has no entry more often than there are groups:
\* AccessTypeOK, of every state.
THEOREM AccessTypeCorrect == AccessSpec => []AccessTypeOK
<1>1. AccessInit => AccessTypes
  BY AccessFirstTypes
<1>2. AccessTypes /\ [AccessNext]_accessVars => AccessTypes'
  BY AccessTypesStep
<1>3. AccessTypes => AccessTypeOK
  BY DEF AccessTypes, AccessTypeOK, Directs, Storages, Lists
<1> QED BY <1>1, <1>2, <1>3, PTL DEF AccessSpec

\* What AccessKept needs to be true: the groups that inherit a group have their handlers
\* before its own, and the ignored users are not edited in the chat.
ChildrenFirst == \A i, j \in DOMAIN Managed : Managed[j] \in Closure[Managed[i]] => j <= i
IgnoredAreFixed == Closure[Ignore] \cap ToSet(Managed) = {}
IgnoredAtStart(e) == ignored(Config, {}, e)

\* A managed group has its users in the storage; the list of one without children has
\* nobody else.  Users who are ignored from the start are where the configuration has them.
AccessInv ==
  /\ AccessTypes
  /\ \A g \in Groups : g \notin ToSet(Managed) => direct[g] = Config[g]
  /\ \A g \in ToSet(Managed), e \in Entries :
       /\ IgnoredAtStart(e) => (e \in direct[g] <=> e \in Config[g])
       /\ e \in direct[g] => stored[g][e] > 0
       /\ Inherits[g] = {} /\ stored[g][e] > 0 => e \in direct[g]

\* The ignored are the same whatever is edited; who is known may be ignored, too.
LEMMA IgnoredStay ==
  ASSUME NEW d, \A h \in Closure[Ignore] : d[h] = Config[h], NEW logged, NEW e \in Entries
  PROVE  /\ IgnoredAtStart(e) => ignored(d, logged, e)
         /\ ignored(d, {}, e) <=> IgnoredAtStart(e)
<1>1. ASSUME NEW as PROVE contains(d, as, Ignore) <=> contains(Config, as, Ignore)
  BY DEF contains
<1>2. attributes(e[1], {}) \subseteq attributes(e[1], logged)
  BY DEF attributes
<1>3. contains(Config, attributes(e[1], {}), Ignore) => contains(Config, attributes(e[1], logged), Ignore)
  BY <1>2 DEF contains
<1> QED BY <1>1, <1>3 DEF IgnoredAtStart, ignored, user_auth

\* Before a handler, its group and those without a handler are as configured, and the
\* children of its group as they will be.
LEMMA BeforeHandler ==
  ASSUME ChildrenFirst, NEW s \in Storages, NEW ds, NEW ss, StartedBy(s, ds, ss), NEW j \in 1..Len(Managed)
  PROVE  /\ \A h \in Groups : h \notin ToSet(Managed) => ds[j - 1][h] = Config[h]
         /\ ds[j - 1][Managed[j]] = Config[Managed[j]] /\ ss[j - 1][Managed[j]] = s[Managed[j]]
         /\ /\ ds[Len(Managed)][Managed[j]] = ds[j][Managed[j]]
            /\ ss[Len(Managed)][Managed[j]] = ss[j][Managed[j]]
         /\ \A h \in Closure[Managed[j]] : h # Managed[j] => ds[Len(Managed)][h] = ds[j - 1][h]
<1>1. PICK n \in Nat, k \in Nat : n = Len(Managed) /\ k = j - 1
  <2>1. PICK n \in Nat : n = Len(Managed)
    BY ManagedAre
  <2>2. j \in 1..n
    BY <2>1
  <2>3. j - 1 \in Nat
    BY <2>2
  <2> QED BY <2>1, <2>3
<1>2. /\ j \in 1..n /\ j \in 0..n /\ n \in 0..n /\ k \in 0..n /\ 0 \in 0..k /\ k + 1 = j
      /\ DOMAIN Managed = 1..n /\ \A i \in 1..n : Managed[i] \in Groups /\ Managed[i] \in ToSet(Managed)
      /\ \A i \in 1..k : i \in 1..n /\ ~(j <= i)
      /\ \A i \in (j + 1)..n : i \in 1..n /\ ~(i <= j)
      /\ \A i \in j..n : i \in 1..n /\ (i <= j => i = j)
  BY <1>1, ManagedAre
<1>3. PICK g \in Groups : g = Managed[j]
  BY <1>2
<1>4. \A i \in 1..n : Managed[i] \in Closure[g] => i <= j
  BY <1>2, <1>3 DEF ChildrenFirst
<1>5. \A i \in 1..n : g \in Closure[Managed[i]] => j <= i
  BY <1>2, <1>3 DEF ChildrenFirst
<1>6. g \in Closure[g] /\ Closure[g] \subseteq Groups /\ \A i \in 1..n : Managed[i] \in Closure[Managed[i]]
  BY <1>2, ClosureIs
<1>7. ds[0] = Config /\ ss[0] = s
  BY DEF StartedBy
<1> DEFINE Stays(i, m) ==
             \A h \in Groups :
               (\A q \in (i + 1)..m : Managed[q] # h) => ds[m][h] = ds[i][h] /\ ss[m][h] = ss[i][h]
<1>12. \A m \in 0..n : \A i \in 0..m : Stays(i, m)
  BY <1>1, StartedSoFar
<1>13. Stays(0, k) /\ Stays(j, n) /\ Stays(k, n)
  <2>1. k \in 0..n /\ n \in 0..n /\ 0 \in 0..k /\ j \in 0..n
    BY <1>2
  <2> HIDE DEF Stays
  <2> QED BY <1>12, <2>1
<1>8. ASSUME NEW h \in Groups, h \notin ToSet(Managed) PROVE ds[k][h] = Config[h]
  <2>1. \A i \in (0 + 1)..k : Managed[i] # h
    BY <1>2, <1>8
  <2> QED BY <1>7, <1>13, <2>1
<1>9. ds[k][g] = Config[g] /\ ss[k][g] = s[g]
  <2>1. \A i \in (0 + 1)..k : Managed[i] # g
    BY <1>2, <1>5, <1>6
  <2> QED BY <1>7, <1>13, <2>1
<1>10. ds[n][g] = ds[j][g] /\ ss[n][g] = ss[j][g]
  <2>1. \A i \in (j + 1)..n : Managed[i] # g
    BY <1>2, <1>4, <1>6
  <2> QED BY <1>13, <2>1
<1>11. ASSUME NEW h \in Closure[g], h # g PROVE ds[n][h] = ds[k][h]
  <2>1. \A i \in (k + 1)..n : Managed[i] # h
    BY <1>2, <1>3, <1>4, <1>11
  <2>2. h \in Groups
    BY <1>6
  <2> QED BY <1>13, <2>1, <2>2
<1> QED BY <1>1, <1>3, <1>8, <1>9, <1>10, <1>11

\* What a restart makes of a managed group.
LEMMA RestoredIs ==
  ASSUME ChildrenFirst, IgnoredAreFixed, AccessInv, Restart, NEW g \in ToSet(Managed), NEW e \in Entries
  PROVE  \E d \in Directs :
           /\ d[g] = Config[g] /\ \A h \in Closure[g] : h # g => d[h] = direct'[h]
           /\ e \in direct'[g] <=>
                /\ e \in Config[g]
                   \/ (stored[g][e] > 0 /\ ~IgnoredAtStart(e) /\ ~\E h \in Closure[g] : e \in d[h])
                /\ ~(allUsers(d, g)[e] > stored[g][e] /\ ~IgnoredAtStart(e))
<1>1. PICK ds, ss : /\ StartedBy(stored, ds, ss) /\ direct' = ds[Len(Managed)]
                    /\ \A i \in 0..Len(Managed) : ss[i] = stored
  BY RestartIs DEF AccessInv
<1>2. PICK s \in Storages : s = stored
  BY DEF AccessInv, AccessTypes
<1>3. PICK j \in 1..Len(Managed) : g = Managed[j]
  BY ManagedAre
<1>4. PICK d : d = ds[j - 1]
  OBVIOUS
<1>5. j - 1 \in 0..Len(Managed) /\ g \in Groups
  BY <1>3, ManagedAre
<1>6. /\ \A h \in Groups : h \notin ToSet(Managed) => d[h] = Config[h]
      /\ d[g] = Config[g] /\ direct'[g] = ds[j][g]
      /\ \A h \in Closure[g] : h # g => direct'[h] = d[h]
  BY <1>1, <1>2, <1>3, <1>4, BeforeHandler
<1>7. ss[j - 1] = stored /\ d \in Directs
  BY <1>1, <1>4, <1>5 DEF StartedBy
<1>8. stored[g] # NoList
  <2>1. stored[g] \in Lists
    BY DEF AccessInv, AccessTypes
  <2>2. stored[g][e] \in 0..Cardinality(Groups) /\ NoList[e] = 0 - 1
    BY <2>1 DEF Lists, NoList
  <2> QED BY <2>2
<1>9. e \in ds[j][g] <=>
        /\ e \in d[g] \/ (stored[g][e] > 0 /\ may_add(d, {}, e, g))
        /\ ~(allUsers(d, g)[e] > stored[g][e] /\ ~ignored(d, {}, e))
  BY <1>1, <1>2, <1>3, <1>4, <1>7, <1>8, StartedStep
<1>10. ignored(d, {}, e) <=> IgnoredAtStart(e)
  <2>1. \A h \in Closure[Ignore] : h \in Groups /\ h \notin ToSet(Managed)
    BY ClosureIs, AccessAssumption DEF IgnoredAreFixed
  <2> QED BY <1>6, <2>1, IgnoredStay
<1>11. contains(d, {e}, g) <=> \E h \in Closure[g] : e \in d[h]
  BY DEF contains
<1>12. may_add(d, {}, e, g) <=> ~IgnoredAtStart(e) /\ ~\E h \in Closure[g] : e \in d[h]
  BY <1>10, <1>11 DEF may_add
<1> QED BY <1>6, <1>7, <1>9, <1>10, <1>12

LEMMA GroupRestored ==
  ASSUME ChildrenFirst, IgnoredAreFixed, AccessInv, Restart, NEW g \in ToSet(Managed), NEW e \in Entries
  PROVE  /\ IgnoredAtStart(e) => (e \in direct'[g] <=> e \in Config[g])
         /\ e \in direct'[g] => stored[g][e] > 0
         /\ Inherits[g] = {} /\ stored[g][e] > 0 => e \in direct'[g]
         /\ e \in direct[g] => \E h \in Closure[g] : e \in direct'[h]
<1>1. PICK d \in Directs :
           /\ d[g] = Config[g] /\ \A h \in Closure[g] : h # g => d[h] = direct'[h]
           /\ e \in direct'[g] <=>
                /\ e \in Config[g]
                   \/ (stored[g][e] > 0 /\ ~IgnoredAtStart(e) /\ ~\E h \in Closure[g] : e \in d[h])
                /\ ~(allUsers(d, g)[e] > stored[g][e] /\ ~IgnoredAtStart(e))
  BY RestoredIs
<1>2. g \in Groups /\ g \in Closure[g] /\ (Inherits[g] = {} => Closure[g] = {g})
  BY ManagedAre, ClosureIs
<1>3. PICK n \in Nat, m \in Nat : n = allUsers(d, g)[e] /\ m = stored[g][e]
  <2>1. stored[g] \in Lists
    BY DEF AccessInv, AccessTypes
  <2>2. stored[g][e] \in 0..Cardinality(Groups) /\ allUsers(d, g)[e] \in 0..Cardinality(Groups)
    BY <1>2, <2>1, CountOf DEF Lists
  <2> QED BY <2>2
<1>4. (n > 0 <=> \E h \in Closure[g] : e \in d[h]) /\ (Inherits[g] = {} => n <= 1)
  BY <1>2, <1>3, CountOf
<1>5. /\ IgnoredAtStart(e) => (e \in direct[g] <=> e \in Config[g])
      /\ e \in direct[g] => m > 0
  BY <1>3 DEF AccessInv
<1>6. e \in direct'[g] <=>
        /\ e \in Config[g] \/ (m > 0 /\ ~IgnoredAtStart(e) /\ ~(n > 0))
        /\ ~(n > m /\ ~IgnoredAtStart(e))
  BY <1>1, <1>3, <1>4
<1>7. e \in Config[g] => n > 0
  BY <1>1, <1>2, <1>4
<1>8. IgnoredAtStart(e) => (e \in direct'[g] <=> e \in Config[g])
  BY <1>6
<1>9. e \in direct'[g] => m > 0
  BY <1>3, <1>5, <1>6, <1>7
<1>10. ASSUME Inherits[g] = {}, m > 0 PROVE e \in direct'[g]
  <2>1. n > 0 => e \in Config[g]
    BY <1>1, <1>2, <1>4, <1>10
  <2>2. IgnoredAtStart(e) => e \in Config[g]
    BY <1>5, <1>10, <1>3 DEF AccessInv
  <2>3. n <= 1
    BY <1>4, <1>10
  <2> QED BY <1>3, <1>6, <1>10, <2>1, <2>2, <2>3
<1>11. ASSUME e \in direct[g], m > 0 PROVE \E h \in Closure[g] : e \in direct'[h]
  <2>1. CASE \E h \in Closure[g] : h # g /\ e \in d[h]
    BY <1>1, <2>1
  <2>2. CASE ~\E h \in Closure[g] : h # g /\ e \in d[h]
    <3>1. n <= 1
      <4>1. {h \in Closure[g] : e \in d[h]} \subseteq {g}
        BY <2>2
      <4>2. {h \in Closure[g] : e \in d[h]} = {} \/ {h \in Closure[g] : e \in d[h]} = {g}
        BY <4>1
      <4>3. n = Cardinality({h \in Closure[g] : e \in d[h]})
        BY <1>3 DEF allUsers
      <4>4. Cardinality({}) = 0 /\ Cardinality({g}) = 1
        BY FS_EmptySet, FS_Singleton
      <4>5. n = 0 \/ n = 1
        BY <4>2, <4>3, <4>4
      <4> QED BY <4>5
    <3>2. ~(n > m)
      BY <1>3, <1>11, <3>1
    <3>3. n > 0 => e \in Config[g]
      BY <1>1, <1>4, <2>2
    <3>4. CASE e \in Config[g]
      BY <1>2, <1>6, <3>2, <3>4
    <3>5. CASE e \notin Config[g] /\ ~IgnoredAtStart(e)
      BY <1>2, <1>6, <1>11, <3>2, <3>3, <3>5
    <3>6. CASE e \notin Config[g] /\ IgnoredAtStart(e)
      BY <1>5, <1>11, <3>6
    <3> QED BY <3>4, <3>5, <3>6
  <2> QED BY <2>1, <2>2
<1> QED BY <1>3, <1>5, <1>8, <1>9, <1>10, <1>11

LEMMA AccessFirst == ASSUME ChildrenFirst, IgnoredAreFixed, AccessInit PROVE AccessInv
<1>1. PICK s \in Storages : s = [g \in Groups |-> NoList]
  BY NothingStored
<1>2. PICK ds, ss : StartedBy(s, ds, ss)
  BY StartedIs
<1>3. PICK n \in Nat : n = Len(Managed)
  BY ManagedAre
<1>4. direct = ds[n] /\ stored = ss[n]
  <2>1. started(s) = <<ds[n], ss[n]>>
    BY <1>2, <1>3 DEF StartedBy
  <2> QED BY <1>1, <2>1 DEF AccessInit
<1> DEFINE S == {m \in Nat : m <= n => ds[m] = Config}
<1>5. 0 \in S
  BY <1>2 DEF StartedBy
<1>6. ASSUME NEW m \in S PROVE m + 1 \in S
  <2>1. SUFFICES ASSUME m + 1 <= n PROVE ds[m + 1] = Config
    OBVIOUS
  <2>2. m \in Nat /\ m <= n /\ m + 1 \in 1..n /\ (m + 1) - 1 = m
    BY <2>1
  <2>3. ds[m] = Config
    BY <2>2
  <2>4. PICK j \in 1..Len(Managed) : j = m + 1 /\ j - 1 = m
    BY <1>3, <2>2
  <2>5. Managed[j] \in Groups /\ ss[j - 1][Managed[j]] = NoList
    BY <1>1, <1>2, ManagedAre, BeforeHandler
  <2>6. ds[j] = ds[j - 1]
    BY <1>2, <2>5, StartedStep
  <2> QED BY <2>3, <2>4, <2>6
<1>7. S = Nat
  <2> HIDE DEF S
  <2>1. S \in SUBSET Nat
    BY DEF S
  <2> QED BY <1>5, <1>6, <2>1, AllOfNat
<1>8. \A m \in 0..n : ds[m] = Config
  <2> TAKE m \in 0..n
  <2>1. m \in S /\ m <= n
    BY <1>7
  <2> QED BY <2>1
<1>9. direct = Config
  BY <1>4, <1>8
<1>10. ASSUME NEW g \in ToSet(Managed) PROVE g \in Groups /\ stored[g] = allUsers(Config, g)
  <2>1. PICK j \in 1..Len(Managed) : g = Managed[j]
    BY ManagedAre
  <2>2. g \in Groups /\ ss[j - 1][g] = NoList /\ ss[Len(Managed)][g] = ss[j][g]
    BY <1>1, <1>2, <2>1, ManagedAre, BeforeHandler
  <2>3. ss[j][g] = allUsers(ds[j - 1], g)
    BY <1>2, <2>1, <2>2, StartedStep
  <2>4. j - 1 \in 0..n
    BY <1>3
  <2> QED BY <1>3, <1>4, <1>8, <2>2, <2>3, <2>4
<1>11. ASSUME NEW g \in ToSet(Managed), NEW e \in Entries
       PROVE  /\ e \in direct[g] => stored[g][e] > 0
              /\ Inherits[g] = {} /\ stored[g][e] > 0 => e \in direct[g]
  BY <1>9, <1>10, CountOf, ClosureIs
<1> QED BY <1>9, <1>11, AccessFirstTypes DEF AccessInv

LEMMA AccessStep ==
  ASSUME ChildrenFirst, IgnoredAreFixed, AccessInv, [AccessNext]_accessVars PROVE AccessInv'
<1>1. AccessTypes'
  BY AccessTypesStep DEF AccessInv
<1>2. CASE UNCHANGED <<direct, stored>>
  BY <1>1, <1>2 DEF AccessInv
<1>3. CASE Restart
  <2>1. PICK ds, ss : /\ StartedBy(stored, ds, ss) /\ stored' = stored /\ direct' = ds[Len(Managed)]
    BY <1>3, RestartIs DEF AccessInv
  <2>2. ASSUME NEW g \in Groups, g \notin ToSet(Managed) PROVE direct'[g] = Config[g]
    <3>1. PICK s \in Storages : s = stored
      BY DEF AccessInv, AccessTypes
    <3>2. PICK n \in Nat : n = Len(Managed) /\ n \in 0..n /\ 0 \in 0..n
      <4>1. PICK n \in Nat : n = Len(Managed)
        BY ManagedAre
      <4> QED BY <4>1
    <3>3. \A i \in (0 + 1)..n : Managed[i] # g
      BY <2>2, <3>2, ManagedAre
    <3>4. \A i \in 0..n, h \in Groups : (\A j \in (i + 1)..n : Managed[j] # h) => ds[n][h] = ds[i][h]
      BY <2>1, <3>1, <3>2, StartedSoFar
    <3>5. ds[n][g] = ds[0][g]
      BY <3>2, <3>3, <3>4
    <3> QED BY <2>1, <3>2, <3>5 DEF StartedBy
  <2>3. ASSUME NEW g \in ToSet(Managed), NEW e \in Entries
        PROVE  /\ IgnoredAtStart(e) => (e \in direct'[g] <=> e \in Config[g])
               /\ e \in direct'[g] => stored[g][e] > 0
               /\ Inherits[g] = {} /\ stored[g][e] > 0 => e \in direct'[g]
    BY <1>3, GroupRestored
  <2> QED BY <1>1, <2>1, <2>2, <2>3 DEF AccessInv
<1>4. ASSUME NEW p \in People, Command(p) PROVE AccessInv'
  <2>1. PICK g \in ToSet(Managed), new \in SUBSET Entries :
          /\ direct' = [direct EXCEPT ![g] = new]
          /\ stored' = [stored EXCEPT ![g] = allUsers(direct', g)]
          /\ \A e \in Entries : ignored(direct, known, e) => (e \in new <=> e \in direct[g])
    BY <1>4, CommandIs DEF AccessInv
  <2>2. /\ g \in Groups /\ direct \in Directs /\ stored \in Storages
        /\ direct'[g] = new /\ stored'[g] = allUsers(direct', g)
        /\ \A h \in Groups : h # g => direct'[h] = direct[h] /\ stored'[h] = stored[h]
    BY <2>1, ManagedAre DEF AccessInv, AccessTypes, Directs, Storages
  <2>3. \A h \in Closure[Ignore] : direct[h] = Config[h]
    BY ClosureIs, AccessAssumption DEF IgnoredAreFixed, AccessInv
  <2>4. ASSUME NEW e \in Entries, IgnoredAtStart(e) PROVE e \in new <=> e \in Config[g]
    BY <2>1, <2>3, <2>4, IgnoredStay DEF AccessInv
  <2>5. ASSUME NEW e \in Entries
        PROVE  /\ e \in new => stored'[g][e] > 0
               /\ Inherits[g] = {} /\ stored'[g][e] > 0 => e \in new
    <3>1. g \in Closure[g] /\ (Inherits[g] = {} => Closure[g] = {g})
      BY <2>2, ClosureIs
    <3>2. PICK d : d = direct'
      OBVIOUS
    <3>3. allUsers(d, g)[e] > 0 <=> \E h \in Closure[g] : e \in d[h]
      BY <2>2, CountOf
    <3>4. stored'[g][e] > 0 <=> \E h \in Closure[g] : e \in d[h]
      BY <2>2, <3>2, <3>3
    <3> QED BY <2>2, <3>1, <3>2, <3>4
  <2>6. \A h \in Groups : h \notin ToSet(Managed) => direct'[h] = Config[h]
    BY <2>2 DEF AccessInv
  <2>7. ASSUME NEW h \in ToSet(Managed), NEW e \in Entries
        PROVE  /\ IgnoredAtStart(e) => (e \in direct'[h] <=> e \in Config[h])
               /\ e \in direct'[h] => stored'[h][e] > 0
               /\ Inherits[h] = {} /\ stored'[h][e] > 0 => e \in direct'[h]
    <3>1. CASE h = g
      BY <2>2, <2>4, <2>5, <3>1
    <3>2. CASE h # g
      <4>1. direct'[h] = direct[h] /\ stored'[h] = stored[h]
        BY <2>2, <3>2, ManagedAre
      <4> QED BY <4>1 DEF AccessInv
    <3> QED BY <3>1, <3>2
  <2> QED BY <1>1, <2>6, <2>7 DEF AccessInv
<1> QED BY <1>2, <1>3, <1>4 DEF AccessNext, Identified, Gone, accessVars

\* A restart takes no access away, and leaves a managed group without children as it was
\* edited: AccessKept (Access), of AdminGroup::initialize and save_in_storage.
THEOREM AccessIsKept == ChildrenFirst /\ IgnoredAreFixed => (AccessSpec => AccessKept)
<1> SUFFICES ASSUME ChildrenFirst /\ IgnoredAreFixed PROVE AccessSpec => AccessKept
  OBVIOUS
<1>1. AccessInit => AccessInv
  BY AccessFirst
<1>2. AccessInv /\ [AccessNext]_accessVars => AccessInv'
  BY AccessStep
<1>3. AccessInv /\ [AccessNext]_accessVars =>
        [Restart =>
           /\ \A g \in ToSet(Managed) : Inherits[g] = {} => direct'[g] = direct[g]
           /\ \A g \in Groups : \A e \in Entries :
                contains(direct, {e}, g) => contains(direct', {e}, g)]_accessVars
  <2> SUFFICES ASSUME AccessInv, [AccessNext]_accessVars, Restart
               PROVE  /\ \A g \in ToSet(Managed) : Inherits[g] = {} => direct'[g] = direct[g]
                      /\ \A g \in Groups : \A e \in Entries :
                           contains(direct, {e}, g) => contains(direct', {e}, g)
    OBVIOUS
  <2>1. direct \in Directs /\ direct' \in Directs
    BY AccessTypesStep DEF AccessInv, AccessTypes
  <2>2. ASSUME NEW g \in ToSet(Managed), Inherits[g] = {} PROVE direct'[g] = direct[g]
    <3>1. direct[g] \subseteq Entries /\ direct'[g] \subseteq Entries
      BY <2>1, ManagedAre DEF Directs
    <3>2. ASSUME NEW e \in Entries PROVE e \in direct'[g] <=> e \in direct[g]
      <4>1. (e \in direct'[g] => stored[g][e] > 0) /\ (stored[g][e] > 0 => e \in direct'[g])
        BY <2>2, GroupRestored
      <4>2. (e \in direct[g] => stored[g][e] > 0) /\ (stored[g][e] > 0 => e \in direct[g])
        BY <2>2 DEF AccessInv
      <4> QED BY <4>1, <4>2
    <3> QED BY <3>1, <3>2
  <2>3. ASSUME NEW g \in Groups, NEW e \in Entries, contains(direct, {e}, g)
        PROVE  contains(direct', {e}, g)
    <3>1. PICK h \in Closure[g] : e \in direct[h]
      BY <2>3 DEF contains
    <3>2. h \in Groups /\ h \in Closure[h] /\ Closure[h] \subseteq Closure[g]
      BY ClosureIs
    <3>3. \E k \in Closure[h] : e \in direct'[k]
      <4>1. CASE h \in ToSet(Managed)
        BY <3>1, <4>1, GroupRestored
      <4>2. CASE h \notin ToSet(Managed)
        <5>1. AccessInv'
          BY AccessStep
        <5>2. direct[h] = Config[h] /\ direct'[h] = Config[h]
          BY <3>2, <4>2, <5>1 DEF AccessInv
        <5> QED BY <3>1, <3>2, <5>2
      <4> QED BY <4>1, <4>2
    <3> QED BY <3>2, <3>3 DEF contains
  <2> QED BY <2>2, <2>3
<1> QED BY <1>1, <1>2, <1>3, PTL DEF AccessSpec, AccessKept

-----------------------------------------------------------------------------
(* The parts side by side (MCServices)                                     *)

\* A step of the whole is a step of one part, or of none.
LEMMA PartsOfSpec ==
  Spec => /\ TelegramSpec /\ FeedSpec /\ AccessSpec /\ LauncherSpec
          /\ GameSpec /\ UnvSpec /\ TitlesSpec /\ NickSpec
<1>1. Init => /\ TelegramInit /\ FeedInit /\ AccessInit /\ LauncherInit
              /\ GameInit /\ UnvInit /\ TitlesInit /\ NickInit
  BY DEF Init
<1>2. [Next]_<<part, telegramVars, feedVars, accessVars, launcherVars, gameVars, unvVars, titlesVars,
               nickVars>> =>
        /\ [TelegramNext]_telegramVars /\ [FeedNext]_feedVars /\ [AccessNext]_accessVars
        /\ [LauncherNext]_launcherVars /\ [GameNext]_gameVars /\ [UnvNext]_unvVars
        /\ [TitlesNext]_titlesVars /\ [NickNext]_nickVars
  BY DEF Next
<1> QED BY <1>1, <1>2, PTL DEF Spec, TelegramSpec, FeedSpec, AccessSpec, LauncherSpec, GameSpec, UnvSpec,
      TitlesSpec, NickSpec

\* Whatever was lost before, the bot knows the players of both games and its nick on IRC once
\* an exchange has come through.  NamesAreKnown (MCServices).
THEOREM AllNamesAreKnown == Spec => []NamesAreKnown
<1>1. KnowsPlayers /\ KnowsThePlayers /\ KnowsItsNick => NamesAreKnown
  BY DEF NamesAreKnown
<1> QED BY <1>1, PartsOfSpec, PlayersOfGameAreKnown, UnvPlayersAreKnown, NickIsKnown, PTL

\* Every part has its types, whatever the others do: ServicesTypeOK (MCServices).
THEOREM ServicesTypeCorrect == Spec => []ServicesTypeOK
<1>1. (/\ TelegramTypeOK /\ FeedTypeOK /\ AccessTypeOK /\ BotTypeOK
       /\ GameTypeOK /\ UnvTypeOK /\ TitlesTypeOK /\ NickTypeOK) => ServicesTypeOK
  BY DEF ServicesTypeOK
<1> QED BY <1>1, PartsOfSpec, TelegramTypeCorrect, FeedTypeCorrect, AccessTypeCorrect, BotTypeCorrect,
      GameTypeCorrect, UnvTypeCorrect, TitlesTypeCorrect, NickTypeCorrect, PTL
===============================================================================
