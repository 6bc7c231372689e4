------------------------------ MODULE XonoticGame ------------------------------
(***************************************************************************)
(* What the bot knows of the players of a Xonotic server                   *)
(* (xonotic-connection.cpp, user_manager.cpp).  The server logs who joins  *)
(* and who parts; the bot asks for its status from time to time, and drops *)
(* the users the answer does not list.  Log and answers are datagrams that *)
(* may be lost; commands are, too.  Both are kept in their order.  The     *)
(* link itself (challenges, threads, sockets) is in module XonoticLink.    *)
(*                                                                         *)
(* The server is external: it gives every player an id of their own and an *)
(* entity, which the next player may get.  Names, cvars, map and mutators  *)
(* are data nothing here depends on, and left out.                         *)
(***************************************************************************)
EXTENDS Naturals, FiniteSets, Sequences, SequencesExt

CONSTANTS
  Entities,   \* slots of the server
  MaxId,      \* bound: players that join
  MaxPolls,   \* bound: polls of the status
  MaxLosses   \* bound: lines and commands lost, and network errors

ASSUME XonoticGameAssumption == {MaxId, MaxPolls, MaxLosses} \subseteq Nat

VARIABLES
  players,    \* the server: the id of the player of each entity, or Nobody
  joined,     \* the last id
  logging,    \* log_dest_udp is the bot's address
  users,      \* user_manager: [id, entity, shows, checked]; "shows" is the player whose
              \* address and name the user has, id is Nobody for an empty local_id
  phase,      \* status_
  unchecking, \* request_status() has still to call check_user_start()
  commands,   \* on their way to the server
  lines,      \* on their way to the bot
  polls, losses,
  clean       \* since a poll began with no answer on its way, no line and no command was
              \* lost, no other poll overlapped it, and no player whose id the bot does not
              \* know has parted

serverVars == <<players, joined, logging>>
phaseVars == <<phase, unchecking>>
gameVars == <<serverVars, phaseVars, users, commands, lines, polls, losses, clean>>

Nobody == 0
Poll == <<"status", "dest">>

GameInit ==
  /\ players = [e \in Entities |-> Nobody] /\ joined = 0 /\ logging = FALSE
  /\ users = <<>> /\ phase = "DISCONNECTED" /\ unchecking = FALSE
  /\ commands = <<>> /\ lines = <<>>
  /\ polls = 0 /\ losses = 0 /\ clean = FALSE

-----------------------------------------------------------------------------
(* The server                                                              *)

Logged(line) == IF logging THEN Append(lines, line) ELSE lines

PlayerJoins(e) ==
  /\ players[e] = Nobody /\ joined < MaxId
  /\ joined' = joined + 1 /\ players' = [players EXCEPT ![e] = joined']
  /\ lines' = Logged([type |-> "join", id |-> joined', entity |-> e])
  /\ clean' = (clean /\ logging)
  /\ UNCHANGED <<logging, phaseVars, users, commands, polls, losses>>

BotKnows(p) ==
  \/ \E i \in DOMAIN users : users[i].id = p
  \/ \E i \in DOMAIN lines : lines[i].type = "join" /\ lines[i].id = p

PlayerParts(e) ==
  /\ players[e] # Nobody
  /\ players' = [players EXCEPT ![e] = Nobody]
  /\ lines' = Logged([type |-> "part", id |-> players[e]])
  /\ clean' = (clean /\ logging /\ BotKnows(players[e]))
  /\ UNCHANGED <<joined, logging, phaseVars, users, commands, polls, losses>>

ServerExecutes ==
  /\ commands # <<>> /\ commands' = Tail(commands)
  /\ logging' = (logging \/ Head(commands) = "set")
  /\ LET here == SetToSeq({e \in Entities : players[e] # Nobody})
         answer == CASE Head(commands) = "status" ->
                          [i \in DOMAIN here |->
                            [type |-> "player", id |-> players[here[i]], entity |-> here[i]]]
                     [] Head(commands) = "dest" -> <<[type |-> "dest", mine |-> logging]>>
                     [] OTHER -> <<>>
     IN  lines' = lines \o answer
  /\ UNCHANGED <<players, joined, phaseVars, users, polls, losses, clean>>

-----------------------------------------------------------------------------
(* handle_message()                                                        *)

\* The users of a set, in the order of the list.
OnlyThose(kept) ==
  LET left[i \in 0..Len(users)] ==
        IF i = 0 THEN <<>>
        ELSE IF users[i] \in kept THEN Append(left[i - 1], users[i]) ELSE left[i - 1]
  IN  left[Len(users)]

Others(e) == OnlyThose({u \in ToSet(users) : u.entity # e})

HandleJoin(line) ==
  /\ line.type = "join"
  /\ users' = Append(Others(line.entity),
                [id |-> line.id, entity |-> line.entity, shows |-> line.id, checked |-> TRUE])
  /\ UNCHANGED <<phase, commands>>

HandlePart(line) ==
  /\ line.type = "part"
  /\ users' = OnlyThose({u \in ToSet(users) : u.id # line.id})
  /\ UNCHANGED <<phase, commands>>

\* A user of that entity is updated; otherwise one without an id is added.
check_user(line) ==
  LET same == SelectInSeq(users, LAMBDA u : u.entity = line.entity) IN
  IF same > 0
  THEN [users EXCEPT ![same].shows = line.id, ![same].checked = TRUE]
  ELSE Append(users, [id |-> Nobody, entity |-> line.entity, shows |-> line.id,
                      checked |-> TRUE])

HandlePlayer(line) ==
  /\ line.type = "player"
  /\ users' = IF phase \in {"CHECKING", "CONNECTING"} THEN check_user(line) ELSE users
  /\ UNCHANGED <<phase, commands>>

\* Mutant: nobody is dropped.
check_user_endNever == users

check_user_end == OnlyThose({u \in ToSet(users) : u.checked})

\* The answer that ends a poll; when the log goes elsewhere, update_connection().
HandleDest(line) ==
  /\ line.type = "dest"
  /\ IF line.mine
     THEN users' = check_user_end /\ phase' = "CONNECTED" /\ UNCHANGED commands
     ELSE /\ phase' = "CONNECTING"
          /\ users' = [i \in DOMAIN users |-> [users[i] EXCEPT !.checked = FALSE]]
          /\ commands' = commands \o <<"set">> \o Poll

Receive ==
  /\ lines # <<>> /\ lines' = Tail(lines) /\ phase # "DISCONNECTED"
  /\ LET line == Head(lines) IN
       HandleJoin(line) \/ HandlePart(line) \/ HandlePlayer(line) \/ HandleDest(line)
  /\ UNCHANGED <<serverVars, unchecking, polls, losses, clean>>

-----------------------------------------------------------------------------
(* request_status(), in the timer thread                                   *)

MayPoll == polls < MaxPolls /\ ~unchecking /\ polls' = polls + 1

RequestStatus ==
  /\ MayPoll /\ phase # "DISCONNECTED"
  /\ phase' = IF phase = "CONNECTED" THEN "CHECKING" ELSE phase
  /\ unchecking' = TRUE
  /\ clean' = (commands = <<>> /\ \A i \in DOMAIN lines : lines[i].type \in {"join", "part"})
  /\ UNCHANGED <<serverVars, users, commands, lines, losses>>

\* check_user_start(), and the commands of polling_status.
CheckUserStart ==
  /\ unchecking /\ unchecking' = FALSE
  /\ users' = [i \in DOMAIN users |-> [users[i] EXCEPT !.checked = FALSE]]
  /\ commands' = IF phase = "DISCONNECTED" THEN commands ELSE commands \o Poll
  /\ UNCHANGED <<serverVars, phase, lines, polls, losses, clean>>

\* The link is down: connect(), and the server is told again where to log to.
Reconnect ==
  /\ MayPoll /\ phase = "DISCONNECTED"
  /\ users' = <<>> /\ phase' = "CONNECTING" /\ commands' = <<"set">> \o Poll
  /\ UNCHANGED <<serverVars, unchecking, lines, losses, clean>>

-----------------------------------------------------------------------------
Loss == losses < MaxLosses /\ losses' = losses + 1 /\ clean' = FALSE

LoseLine ==
  /\ Loss /\ lines # <<>> /\ lines' = Tail(lines)
  /\ UNCHANGED <<serverVars, phaseVars, users, commands, polls>>

LoseCommand ==
  /\ Loss /\ commands # <<>> /\ commands' = Tail(commands)
  /\ UNCHANGED <<serverVars, phaseVars, users, lines, polls>>

\* close_connection(): the users stay until the next connect(), and the server goes on
\* logging to an address nobody has any more.
NetworkError ==
  /\ Loss /\ phase # "DISCONNECTED" /\ phase' = "DISCONNECTED"
  /\ logging' = FALSE /\ commands' = <<>> /\ lines' = <<>>
  /\ UNCHANGED <<players, joined, unchecking, users, polls>>

GameNext ==
  \/ \E e \in Entities : PlayerJoins(e) \/ PlayerParts(e)
  \/ ServerExecutes \/ Receive
  \/ RequestStatus \/ CheckUserStart \/ Reconnect
  \/ LoseLine \/ LoseCommand \/ NetworkError

GameSpec == GameInit /\ [][GameNext]_gameVars

-----------------------------------------------------------------------------
GameTypeOK ==
  /\ players \in [Entities -> 0..MaxId] /\ joined \in 0..MaxId /\ logging \in BOOLEAN
  /\ \A i \in DOMAIN users : users[i] \in [id : 0..MaxId, entity : Entities,
                                           shows : 1..MaxId, checked : BOOLEAN]
  /\ phase \in {"DISCONNECTED", "CONNECTING", "CHECKING", "CONNECTED"}
  /\ Range(commands) \subseteq {"set", "status", "dest"} /\ {clean, unchecking} \subseteq BOOLEAN

\* A poll that begins when no answer is on its way repairs the bot's picture, whatever
\* was lost before: when its answer has been handled, the users are the players, one
\* each, and stay so through joins, parts and further polls, until something is lost.
\* (The answer of an earlier poll ends a later one: its lines are then ignored, and all
\* users dropped.)
KnowsPlayers ==
  clean /\ lines = <<>> /\ commands = <<>> /\ ~unchecking =>
    /\ {<<users[i].entity, users[i].shows>> : i \in DOMAIN users} =
         {<<e, players[e]>> : e \in {f \in Entities : players[f] # Nobody}}
    /\ Len(users) = Cardinality({users[i].entity : i \in DOMAIN users})
=============================================================================
