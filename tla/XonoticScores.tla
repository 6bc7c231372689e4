------------------------------ MODULE XonoticScores ------------------------------
(***************************************************************************)
(* The scores of a match, gathered from the lines the server logs when it  *)
(* ends (XonoticMatchScore, log.hpp).  The handler keeps what it has read  *)
(* between the lines, and between matches; it reads no line while nobody   *)
(* plays, and lines may be lost.                                           *)
(*                                                                         *)
(* A name is the number of the player; how the list looks is left out.     *)
(***************************************************************************)
EXTENDS Integers, FiniteSets, Sequences, SequencesExt, Functions

NO_TEAM == -1
SPECTATORS == -2

\* What the constructor reads: "empty" sets both.
Scorer(empty) ==
  [empty |-> empty = "true", show_spectators |-> empty # "false",
   player_scores |-> <<>>, team_scores |-> <<>>, sort_reverse |-> FALSE, gametype |-> "?",
   shown |-> <<>>]

Get(f, x, none) == IF x \in DOMAIN f THEN f[x] ELSE none
Put(f, x, y) == [z \in DOMAIN f \cup {x} |-> IF z = x THEN y ELSE f[z]]

-----------------------------------------------------------------------------
(* print_scores()                                                          *)

Sorted(players, reverse) ==
  SortSeq([i \in DOMAIN players |-> [player |-> players[i], at |-> i]],
          LAMBDA a, b : IF a.player.score = b.player.score THEN a.at < b.at
                        ELSE (a.player.score < b.player.score) = reverse)

\* The players of a team, spectators unsorted.  (A header has the score of the team.)
print_team(h, team) ==
  LET players == Get(h.player_scores, team, <<>>)
      order   == [i \in DOMAIN players |-> Sorted(players, h.sort_reverse)[i].player.name]
  IN  IF players = <<>> THEN <<>>
      ELSE <<IF team = SPECTATORS THEN [i \in DOMAIN players |-> players[i].name] ELSE order>>

Ascending(teams) == SetToSortSeq(teams, LAMBDA a, b : a < b)

\* Without scores of teams everybody is in no team.
teamless(h) ==
  LET teams == Ascending(DOMAIN h.player_scores \ {SPECTATORS})
  IN  IF DOMAIN h.team_scores # {} THEN h.player_scores
      ELSE Put([t \in DOMAIN h.player_scores \cap {SPECTATORS} |-> h.player_scores[t]], NO_TEAM,
               FlattenSeq([i \in DOMAIN teams |-> h.player_scores[teams[i]]]))

\* The first team of the map is taken to be that of the spectators.  (When there is none
\* the iterator is moved past the end.)
print_scores(h) ==
  LET g == [h EXCEPT !.player_scores = teamless(h)]
      teams == Ascending(DOMAIN g.player_scores)
  IN  IF ~h.show_spectators /\ Cardinality(DOMAIN h.player_scores) < 2 THEN <<>>
      ELSE IF teams = <<>> THEN <<"undefined">>
      ELSE FlattenSeq([i \in 1..Len(teams) - 1 |-> print_team(g, teams[i + 1])])
             \o (IF h.show_spectators THEN print_team(g, SPECTATORS) ELSE <<>>)

-----------------------------------------------------------------------------
(* on_handle()                                                             *)

handle_end(h) ==
  [h EXCEPT !.shown = IF h.player_scores = <<>> /\ h.team_scores = <<>> THEN @
                      ELSE @ \o print_scores(h),
            !.player_scores = <<>>, !.team_scores = <<>>, !.sort_reverse = FALSE]

handle_player(h, line) ==
  LET team == IF line.team = NO_TEAM /\ line.score = 0 /\ h.gametype = "lms"
              THEN SPECTATORS ELSE line.team
  IN  [h EXCEPT !.player_scores = Put(@, team, Append(Get(@, team, <<>>),
                                    [name |-> line.name, score |-> line.score]))]

\* Mutant: the scores of an earlier match are not removed.
handle_scoresKeeping(h, line) ==
  [h EXCEPT !.gametype = line.gametype, !.player_scores = Put(@, SPECTATORS, <<>>),
            !.sort_reverse = FALSE]

handle_scores(h, line) ==
  [h EXCEPT !.gametype = line.gametype, !.player_scores = Put(<<>>, SPECTATORS, <<>>),
            !.team_scores = <<>>, !.sort_reverse = FALSE]

on_handle(h, line) ==
  CASE line.type = "end" -> handle_end(h)
    [] line.type = "teamscores" -> [h EXCEPT !.team_scores = Put(@, line.team, line.score)]
    [] line.type = "player" -> handle_player(h, line)
    [] line.type = "scores" -> handle_scores(h, line)
    [] line.type = "labels" -> [h EXCEPT !.sort_reverse = line.lowest]

\* can_handle(): "humans" of a line is whether somebody plays.
can_handle(h, line) == h.empty \/ line.humans

handled(h, lines) ==
  FoldLeft(LAMBDA g, line : IF can_handle(g, line) THEN on_handle(g, line) ELSE g, h, lines)

-----------------------------------------------------------------------------
(* Properties                                                              *)

\* The lines of a match: its players, and the scores of its teams.
MatchLines(m) ==
  <<[type |-> "scores", gametype |-> m.gametype, humans |-> TRUE],
    [type |-> "labels", lowest |-> m.lowest, humans |-> TRUE]>>
  \o [i \in DOMAIN m.players |-> [type |-> "player", name |-> i, score |-> m.players[i].score,
                                  team |-> m.players[i].team, humans |-> TRUE]]
  \o [i \in DOMAIN m.teams |-> [type |-> "teamscores", team |-> m.teams[i], score |-> i,
                                humans |-> TRUE]]
  \o <<[type |-> "end", humans |-> TRUE]>>

Spectates(m, p) ==
  \/ m.players[p].team = SPECTATORS
  \/ m.players[p].team = NO_TEAM /\ m.players[p].score = 0 /\ m.gametype = "lms"

\* A match whose lines all arrive is shown as it was, whatever lines of the matches before
\* it were lost: each player once, with their own team if the match has teams, the best
\* first, and the spectators (if they are shown) last.
ShowsTheMatch(h, before, m) ==
  LET then  == handled(h, before)
      shown == SubSeq(handled(then, MatchLines(m)).shown, Len(then.shown) + 1,
                      Len(handled(then, MatchLines(m)).shown))
      playing == {p \in DOMAIN m.players : ~Spectates(m, p)}
      listed  == IF h.show_spectators THEN DOMAIN m.players ELSE playing
      groups  == DOMAIN shown
  IN  /\ \A p \in DOMAIN m.players : Cardinality({g \in groups : p \in Range(shown[g])})
                                       = IF p \in listed THEN 1 ELSE 0
      /\ \A g \in groups : LET names == shown[g] IN
           /\ IsInjective(names)
           /\ \A i, j \in DOMAIN names : i < j =>
                /\ Spectates(m, names[i]) = Spectates(m, names[j])
                /\ ~Spectates(m, names[i]) =>
                     LET p == m.players[names[i]]
                         q == m.players[names[j]]
                     IN  /\ m.teams # <<>> => p.team = q.team
                         /\ IF m.lowest THEN p.score <= q.score ELSE p.score >= q.score
           /\ Spectates(m, names[1]) => g = Len(shown)
      /\ m.teams = <<>> => Len(shown) <= 2
=============================================================================
