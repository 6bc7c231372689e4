------------------------------ MODULE MCServices ------------------------------
(***************************************************************************)
(* An instance for TLC of the parts of the bot that work beside the IRC    *)
(* link and the timer, share nothing but the storage and the queue of      *)
(* messages, and so are checked one at a time: an initial state chooses    *)
(* the part that runs, the others stay as they are at first.               *)
(***************************************************************************)
EXTENDS Telegram, GitHubFeed, Access, Launcher, XonoticGame, Unvanquished, Titles, IrcNick

VARIABLE part

TheListeners == <<"push">>
TheMaps == <<"a", "b">>

\* An owner, an administrator, and one who is banned; who is named by an account, too.
TheTree == [owner |-> {}, admin |-> {"owner"}, banned |-> {}]
TheEntries == {<<"o", "id">>, <<"a", "name">>, <<"t", "name">>, <<"a", "id">>}
TheConfig == [owner |-> {<<"o", "id">>}, admin |-> {<<"a", "name">>, <<"o", "id">>},
              banned |-> {<<"t", "name">>}]
TheManaged == <<"owner", "admin">>

\* A category of titles, one of two parts, and an empty one; the first question is preloaded,
\* and one is of no category.
TheQuestions == <<<<"x">>, <<"x", "y">>, <<>>, <<"y">>, <<"x", "z">>>>
TheWiki == "x" :> <<<<"a", "b">>>> @@ "y" :> <<<<"c">>, <<"d">>>> @@ "z" :> <<<<>>>>

\* What is not the part that runs has one initial state only.
Init ==
  /\ part \in {"telegram", "github", "access", "launcher", "xonotic", "unvanquished", "titles", "nick"}
  /\ TelegramInit /\ (part # "telegram" => webhook)
  /\ FeedInit
  /\ AccessInit
  /\ LauncherInit /\ (part # "launcher" => action = "none")
  /\ GameInit
  /\ UnvInit /\ (part # "unvanquished" => mapsLeft = 0)
  /\ TitlesInit
  /\ NickInit /\ (part # "nick" => others = {})

Next ==
  \/ /\ part = "telegram" /\ TelegramNext
     /\ UNCHANGED <<part, feedVars, accessVars, launcherVars, gameVars, unvVars, titlesVars, nickVars>>
  \/ /\ part = "github" /\ FeedNext
     /\ UNCHANGED <<part, telegramVars, accessVars, launcherVars, gameVars, unvVars, titlesVars, nickVars>>
  \/ /\ part = "access" /\ AccessNext
     /\ UNCHANGED <<part, telegramVars, feedVars, launcherVars, gameVars, unvVars, titlesVars, nickVars>>
  \/ /\ part = "launcher" /\ LauncherNext
     /\ UNCHANGED <<part, telegramVars, feedVars, accessVars, gameVars, unvVars, titlesVars, nickVars>>
  \/ /\ part = "xonotic" /\ GameNext
     /\ UNCHANGED <<part, telegramVars, feedVars, accessVars, launcherVars, unvVars, titlesVars, nickVars>>
  \/ /\ part = "unvanquished" /\ UnvNext
     /\ UNCHANGED <<part, telegramVars, feedVars, accessVars, launcherVars, gameVars, titlesVars, nickVars>>
  \/ /\ part = "titles" /\ TitlesNext
     /\ UNCHANGED <<part, telegramVars, feedVars, accessVars, launcherVars, gameVars, unvVars, nickVars>>
  \/ /\ part = "nick" /\ NickNext
     /\ UNCHANGED <<part, telegramVars, feedVars, accessVars, launcherVars, gameVars, unvVars, titlesVars>>

Spec ==
  Init /\ [][Next]_<<part, telegramVars, feedVars, accessVars, launcherVars, gameVars, unvVars,
                    titlesVars, nickVars>>

\* The poll, the callbacks of requests and a disconnect() that has begun go on; and so do
\* the thread that reads what an IRC server says, and the server.
FairSpec ==
  /\ Spec
  /\ WF_telegramVars(part = "telegram" /\ Worker)
  /\ WF_telegramVars(part = "telegram" /\ Answer)
  /\ WF_telegramVars(part = "telegram" /\ DisconnectStops)
  /\ WF_nickVars(part = "nick" /\ BotReads)
  /\ WF_nickVars(part = "nick" /\ ServerAnswers)

\* The type invariant of each part.
ServicesTypeOK ==
  /\ TelegramTypeOK /\ FeedTypeOK /\ AccessTypeOK /\ BotTypeOK
  /\ GameTypeOK /\ UnvTypeOK /\ TitlesTypeOK /\ NickTypeOK

\* What is known of the players of a game is what the server has last told, for both games;
\* and so is the bot's own nick on IRC.
NamesAreKnown == KnowsPlayers /\ KnowsThePlayers /\ KnowsItsNick

\* An update of Telegram is handled in the end, and so is the question for a nick.
AllComesThrough == ComesThrough /\ NickSettles
=============================================================================
