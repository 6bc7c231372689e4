---------------------------------- MODULE Titles ----------------------------------
(***************************************************************************)
(* The handler that names a random page of a category of a wiki            *)
(* (MediaWikiCategoryTitle of web/handler/web-api-concrete.hpp).  It keeps *)
(* the titles of each category it was asked for.  A question may be of     *)
(* several categories: those it has are copied, the others requested, and  *)
(* all share a MultiCallback, whose destructor replies when the last of    *)
(* those that hold it is gone.                                             *)
(*                                                                         *)
(* Main handles one message at a time; the answers of the wiki are handled *)
(* by the HTTP client, beside it.                                          *)
(***************************************************************************)
EXTENDS Naturals, Sequences, FiniteSets, SequencesExt

CONSTANTS
  Questions,    \* the categories of each question, in their order; the first is preload's
  Wiki,         \* the pages of titles of each category (external)
  MaxFailures,  \* bound: answers that are errors or malformed, or do not come
  MaxTitles     \* bound: titles of a category, which grow for ever

VARIABLES
  titles,       \* the categories there are titles for
  asking,       \* the question main is at, and the categories it has yet to look up
  callbacks,    \* the MultiCallback of each question: its items, and how it has replied
  wanted,       \* requests: how many there are for each question and category
  failures,
  excused       \* questions one of whose categories failed or was still being loaded

titlesVars == <<titles, asking, callbacks, wanted, failures, excused>>

AllCategories == DOMAIN Wiki
TitleRequests == (DOMAIN Questions) \X AllCategories

\* The titles an answer holds, which are those of the first part (see WikiAnswers).
Pages(c) == Range(Wiki[c][1])
AllPages == UNION {Pages(c) : c \in AllCategories}

\* No page has for its title what is said when there is none.
ASSUME TitlesAssumption ==
  /\ Questions \in Seq(Seq(AllCategories))
  /\ \A c \in AllCategories : Wiki[c] # <<>> /\ Wiki[c][1] \in Seq(AllPages)
  /\ "not found" \notin AllPages
  /\ MaxFailures \in Nat /\ MaxTitles \in Nat

TitlesInit ==
  /\ titles = <<>>
  /\ asking = [question |-> 0, todo |-> <<>>]
  /\ callbacks = [q \in DOMAIN Questions |-> [items |-> <<>>, reply |-> <<>>]]
  /\ wanted = [r \in TitleRequests |-> 0]
  /\ failures = 0 /\ excused = {}

\* ~MultiCallback(): the replies, when nobody holds the callback of the question any more.
Released(q, items, requests, main) ==
  LET held == main \/ \E c \in AllCategories : requests[<<q, c>>] > 0
  IN  CASE held \/ q = 1 -> {}
        [] ~held /\ q # 1 /\ items = <<>> -> {"not found"}
        [] OTHER -> Range(items)

\* The callback of a question after a step: it has replied if nobody holds it.
Update(q, items, requests, main) ==
  LET replies == Released(q, items, requests, main)
  IN  IF replies = {} THEN callbacks' = [callbacks EXCEPT ![q].items = items]
      ELSE \E r \in replies : callbacks' = [callbacks EXCEPT ![q] = [items |-> items, reply |-> Append(@.reply, r)]]

\* on_handle() and load_categories(): the next question, when main is done with the last; one
\* of no categories is answered at once.
AskForTitle ==
  /\ asking.todo = <<>> /\ asking.question < Len(Questions)
  /\ LET q == asking.question + 1 IN
     /\ asking' = [question |-> q, todo |-> Questions[q]]
     /\ Update(q, <<>>, wanted, Questions[q] # <<>>)
  /\ UNCHANGED <<titles, wanted, failures, excused>>

\* titles.insert(it, {category, {}})
WithCategory(c) == [d \in DOMAIN titles \cup {c} |-> IF d \in DOMAIN titles THEN titles[d] ELSE <<>>]

\* Mutant: the callback of a question that finds a category being loaded waits for nothing
\* and gets nothing.
load_categoryDropping ==
  /\ asking.todo # <<>>
  /\ LET q == asking.question c == Head(asking.todo) IN
     /\ asking' = [asking EXCEPT !.todo = Tail(@)]
     /\ titles' = WithCategory(c)
     /\ wanted' = IF c \in DOMAIN titles THEN wanted ELSE [wanted EXCEPT ![<<q, c>>] = @ + 1]
     /\ Update(q, callbacks[q].items, wanted', asking'.todo # <<>>)
     /\ UNCHANGED <<failures, excused>>

\* load_category(): a category that is there, be it without titles, is not asked for.
load_category ==
  /\ asking.todo # <<>>
  /\ LET q == asking.question c == Head(asking.todo) IN
     /\ asking' = [asking EXCEPT !.todo = Tail(@)]
     /\ IF c \in DOMAIN titles
        THEN /\ UNCHANGED <<titles, wanted>>
             /\ excused' = IF \E p \in DOMAIN Questions : wanted[<<p, c>>] > 0 THEN excused \cup {q} ELSE excused
             /\ Update(q, callbacks[q].items \o titles[c], wanted, asking'.todo # <<>>)
        ELSE /\ titles' = WithCategory(c)
             /\ wanted' = [wanted EXCEPT ![<<q, c>>] = @ + 1]
             /\ UNCHANGED excused
             /\ Update(q, callbacks[q].items, wanted', asking'.todo # <<>>)
     /\ UNCHANGED failures

InLoop(q) == asking.question = q /\ asking.todo # <<>>
OneLess(r) == [wanted EXCEPT ![r] = @ - 1]

\* request(): an answer with titles.  If there are more, it asks again for those it has had.
WikiAnswers(r) ==
  /\ wanted[r] > 0
  /\ LET q == r[1] c == r[2] list == titles[c] \o Wiki[c][1] IN
     /\ Len(list) <= MaxTitles
     /\ titles' = [titles EXCEPT ![c] = list]
     /\ IF Len(Wiki[c]) > 1
        THEN UNCHANGED <<wanted, callbacks>>
        ELSE wanted' = OneLess(r) /\ Update(q, callbacks[q].items \o list, wanted', InLoop(q))
  /\ UNCHANGED <<asking, failures, excused>>

\* An error, or no answer: the callback is let go, the category stays as it is.
WikiFails(r) ==
  /\ wanted[r] > 0 /\ failures < MaxFailures
  /\ wanted' = OneLess(r)
  /\ Update(r[1], callbacks[r[1]].items, wanted', InLoop(r[1]))
  /\ failures' = failures + 1
  /\ excused' = {q \in DOMAIN Questions : r[2] \in Range(Questions[q])} \cup excused
  /\ UNCHANGED <<titles, asking>>

TitlesNext == AskForTitle \/ load_category \/ \E r \in TitleRequests : WikiAnswers(r) \/ WikiFails(r)

TitlesSpec == TitlesInit /\ [][TitlesNext]_titlesVars

-----------------------------------------------------------------------------
TitlesTypeOK ==
  /\ DOMAIN titles \subseteq AllCategories
  /\ wanted \in [TitleRequests -> 0..1] /\ failures \in 0..MaxFailures
  /\ asking.question \in 0..Len(Questions)

Begun(q) == q < asking.question \/ (q = asking.question /\ asking.todo = <<>>)

\* Who asks is answered once, and only waits while one of his categories is being loaded for
\* him; with a title of one of them; and told that there are none only if there are, or one
\* could not be loaded, or was being loaded for another.
AskedOnceTold ==
  \A q \in DOMAIN Questions \ {1} :
    LET reply == callbacks[q].reply
        waiting == \E c \in AllCategories : wanted[<<q, c>>] > 0
        all == UNION {Pages(c) : c \in Range(Questions[q])}
    IN  /\ Len(reply) = IF Begun(q) /\ ~waiting THEN 1 ELSE 0
        /\ Range(reply) \subseteq all \cup {"not found"}
        /\ reply = <<"not found">> /\ q \notin excused => all = {}
=============================================================================
