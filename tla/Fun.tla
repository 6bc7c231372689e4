----------------------------------- MODULE Fun -----------------------------------
(***************************************************************************)
(* The handlers of modules/fun that work on a text alone                   *)
(* (fun-handlers.cpp): Morse code, text upside down, answers to questions, *)
(* drawings of ponies and the Discordian calendar.  Only functions:        *)
(* MCTexts checks them.  A text is a sequence of characters.               *)
(***************************************************************************)
EXTENDS Integers, Sequences, FiniteSets, SequencesExt, TLC

-----------------------------------------------------------------------------
(* Morse                                                                   *)

\* Of the table, a letter, what looks like code, and what shares its code with others.
morse ==
  "a" :> <<".", "-">> @@ "e" :> <<".">> @@ "t" :> <<"-">> @@ " " :> <<>>
  @@ "(" :> <<"-", ".", "-", "-", ".">> @@ "[" :> <<"-", ".", "-", "-", ".">>
  @@ "." :> <<".", "-", ".", "-", ".", "-">> @@ "-" :> <<"-", ".", ".", ".", ".", "-">>

\* strtolower()
lower(c) == IF c = "A" THEN "a" ELSE c

\* regex_split() at single spaces, without the empty word after the last.
regex_split(text) ==
  LET words == FoldLeft(LAMBDA ws, c : IF c = " " THEN Append(ws, <<>>)
                                       ELSE [ws EXCEPT ![Len(ws)] = Append(@, c)], <<<<>>>>, text)
  IN  IF Last(words) = <<>> THEN Front(words) ELSE words

\* Words that are no code are left out; of characters with one code, any is taken.
from_morse(words) ==
  FoldLeft(LAMBDA texts, w :
      LET found == IF w = <<>> THEN {" "} ELSE {c \in DOMAIN morse : morse[c] = w}
      IN  IF found = {} THEN texts ELSE {t \o <<c>> : t \in texts, c \in found},
    {<<>>}, words)

\* The codes, with spaces between them; characters without a code are left out.
to_morse(text) ==
  LET codes == SelectSeq(text, LAMBDA c : lower(c) \in DOMAIN morse)
  IN  FlattenSeq([i \in DOMAIN codes |-> (IF i > 1 THEN <<" ">> ELSE <<>>) \o morse[lower(codes[i])]])

\* Morse::on_handle(): the results it may reply; <<>> is not sent.
Morse(text) ==
  IF text # <<>> /\ ToSet(text) \subseteq {".", "-", " "} THEN from_morse(regex_split(text))
  ELSE {to_morse(text)}

-----------------------------------------------------------------------------
(* ReverseText                                                             *)

\* Of the table, pairs that turn into one another, and a character that turns into none.
reverse_ascii == "b" :> "q" @@ "q" :> "b" @@ "(" :> ")" @@ ")" :> "(" @@ "x" :> "x" @@ "5" :> "2" @@ "2" :> "@"

ReverseText(text) ==
  FoldLeft(LAMBDA out, c : <<IF c \in DOMAIN reverse_ascii THEN reverse_ascii[c] ELSE c>> \o out, <<>>, text)

-----------------------------------------------------------------------------
(* AnswerQuestions                                                         *)

category_yesno == <<"yes", "maybe", "no">>
category_dunno == <<"dunno">>
category_when == <<"now", "never">>
category_when_did == <<"yesterday">>
category_when_will == <<"tomorrow">>

\* The n-th of the answers of all the categories.
RECURSIVE random_answer(_, _)
random_answer(categories, n) ==
  IF n >= Len(categories[1]) THEN random_answer(Tail(categories), n - Len(categories[1]))
  ELSE categories[1][n + 1]

\* The expression that finds the word of the question does not know "why" and "where".
answers(question) ==
  CASE question = "when" -> <<category_when>>
    [] question = "when did" -> <<category_when, category_when_did>>
    [] question = "when will" -> <<category_when, category_when_will>>
    [] question \in {"what", "how", "who"} -> <<category_dunno>>
    [] OTHER -> <<category_yesno, category_dunno>>

\* What may be answered: a user of the channel to who, if there are any.
AnswerQuestions(question, users, me) ==
  IF question = "who" /\ users # <<>>
  THEN {IF users[i] = me THEN "Not me!" ELSE users[i] : i \in DOMAIN users}
  ELSE LET size == FoldLeft(LAMBDA n, c : n + Len(c), 0, answers(question))
       IN  {random_answer(answers(question), n) : n \in 0..size - 1}

-----------------------------------------------------------------------------
(* RenderPony                                                              *)

\* The files it chooses from: those most like the query, as far as it has looked.
RECURSIVE best(_, _, _)
best(files, score, found) ==
  CASE files = <<>> -> found
    [] files # <<>> /\ Head(files).score > score -> best(Tail(files), Head(files).score, <<Head(files)>>)
    [] files # <<>> /\ Head(files).score = score -> best(Tail(files), score, Append(found, Head(files)))
    [] OTHER -> best(Tail(files), score, found)

\* What it may reply; without a query it has no score, and all files are as good.
RenderPony(files, query) ==
  LET found == IF query THEN best(files, 0 - 1, <<>>) ELSE files
  IN  IF found = <<>> THEN {"Didn't find anypony"}
      ELSE {IF found[i].opens THEN found[i].name ELSE "Didn't find anypony" : i \in DOMAIN found}

-----------------------------------------------------------------------------
(* Discord                                                                 *)

\* The day of a year (of its days from 0): of the week, of the season, and the season.
Discord(year, year_day) ==
  LET day == IF (year + 1166) % 4 = 2 /\ year_day >= 59 THEN year_day - 1 ELSE year_day
  IN  [name |-> day % 5, day |-> (day % 73) + 1, season |-> (day \div 73) % 5]

-----------------------------------------------------------------------------
(* Properties                                                              *)

\* A text comes back from Morse code, but for its capitals, what has no code, what shares
\* its code, and a space at its end; a text that looks like code is taken for code.
MorseReadsBack(text) ==
  LET code == to_morse(text)
      known == SelectSeq(text, LAMBDA c : lower(c) \in DOMAIN morse)
      n == IF known # <<>> /\ Last(known) = " " THEN Len(known) - 1 ELSE Len(known)
  IN  code # <<>> =>
        \A back \in Morse(code) :
          /\ Len(back) = n
          /\ \A i \in 1..n : morse[back[i]] = morse[lower(known[i])]

\* Text turned twice is as it was, where each character turns back.
TurnsBack(text) ==
  (\A i \in DOMAIN text : ReverseText(ReverseText(<<text[i]>>)) = <<text[i]>>) => ReverseText(ReverseText(text)) = text

\* A question is answered with an answer to such a question, and each can be given.
AnswersFit(question, users) ==
  LET all == AnswerQuestions(question, users, "bot")
  IN  IF question = "who" /\ users # <<>> THEN all \subseteq ToSet(users) \cup {"Not me!"} /\ "bot" \notin all
      ELSE all = ToSet(FlattenSeq(answers(question)))

\* No file in the directory is more like the query than the one drawn.
DrawsTheBest(files, query) ==
  \A r \in RenderPony(files, query) :
    \/ /\ r = "Didn't find anypony"
       /\ files = <<>> \/ \E i \in DOMAIN files : ~files[i].opens
    \/ \E i \in DOMAIN files : /\ files[i].name = r
                               /\ query => \A j \in DOMAIN files : files[j].score <= files[i].score

\* In a year of every kind up to 2100, a day follows the one before, but for the one that
\* is none of the calendar's.
DaysFollow(year) ==
  LET leap == year % 4 = 0
      number(d) == Discord(year, d).season * 73 + Discord(year, d).day
  IN  /\ number(0) = 1
      /\ \A d \in 1..(IF leap THEN 365 ELSE 364) :
           /\ number(d) = number(d - 1) + (IF leap /\ d = 59 THEN 0 ELSE 1)
           /\ Discord(year, d).name = (number(d) - 1) % 5
=============================================================================
