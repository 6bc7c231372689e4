---------------------------- MODULE IrcUsersProofs ----------------------------
(***************************************************************************)
(* That the list of users never lists anybody twice, holds no ghosts, and  *)
(* has the bot in the channels it is in, for any nicknames and channels    *)
(* written in small letters, and any number of events and lines.  First    *)
(* what the operations of user_manager do to a list as a set of entries;   *)
(* then how the lines follow one another; then the invariant.              *)
(***************************************************************************)
EXTENDS IrcUsers, Integers, SequenceTheorems, FiniteSetTheorems, WellFoundedInduction, TLAPS

\* The server's own spelling of every channel is in small letters.  (A JOIN keeps the
\* spelling, a 353 does not: with other letters the entry of a channel that was left stays.)
LowerCaseNames == \A c \in Channels : lower[c] = c

User == [local_id : Nicks, channels : SUBSET Channels]

Snapshot == [members : [Channels -> SUBSET Nicks], me : Nicks]

Commands == {"JOIN", "353", "PART", "KICK", "QUIT", "NICK"}

LineType ==
  [command : Commands, from : Nicks, channels : SUBSET Channels, arg : Nicks \cup SUBSET Nicks,
   real : Snapshot]

-----------------------------------------------------------------------------
(* What the bot can see of the server *)

Vis(s, c) == IF s.me \in s.members[c] THEN s.members[c] ELSE {}

View(s) == [me |-> s.me, vis |-> [c \in Channels |-> Vis(s, c)]]

Now == [members |-> members, me |-> me]

\* A user, or the bot, has come into a channel; the names there; ...
Joined(v, l, w) ==
  /\ l.command = "JOIN"
  /\ \E c \in Channels :
       /\ l.channels = {c}
       /\ (l.from = v.me) = (v.vis[c] = {})
       /\ w.me = v.me /\ l.from \in w.vis[c]
       /\ \A d \in Channels : v.vis[d] \subseteq w.vis[d] /\ (d # c => w.vis[d] = v.vis[d])

Named(v, l, w) ==
  /\ l.command = "353"
  /\ w = v
  /\ \E c \in Channels : l.channels = {c} /\ l.arg = v.vis[c]

Left(v, l, w) ==
  /\ l.command \in {"PART", "KICK"}
  /\ l.arg = l.from
  /\ \E c \in Channels :
       /\ l.channels = {c}
       /\ w.me = v.me
       /\ \A d \in Channels :
            w.vis[d] = IF d # c THEN v.vis[d]
                       ELSE IF l.from = v.me THEN {} ELSE v.vis[d] \ {l.from}

Quitted(v, l, w) ==
  /\ l.command = "QUIT"
  /\ l.from # v.me
  /\ w.me = v.me
  /\ \A d \in Channels : w.vis[d] = v.vis[d] \ {l.from}

NickTaken(v, l, w) ==
  /\ l.command = "NICK"
  /\ l.arg \in Nicks
  /\ l.arg # v.me /\ \A d \in Channels : l.arg \notin v.vis[d]
  /\ w.me = IF l.from = v.me THEN l.arg ELSE v.me
  /\ \A d \in Channels :
       w.vis[d] = IF l.from \in v.vis[d] THEN (v.vis[d] \ {l.from}) \cup {l.arg} ELSE v.vis[d]

\* A line tells of the change from the view v to the view w.
Tells(v, l, w) ==
  Joined(v, l, w) \/ Named(v, l, w) \/ Left(v, l, w) \/ Quitted(v, l, w) \/ NickTaken(v, l, w)

\* What the bot had seen before the i-th of the lines, and will have seen after all.
Before(s, ls, i) == IF i = 1 THEN s ELSE ls[i - 1].real

Latest(s, ls) == IF ls = <<>> THEN s ELSE ls[Len(ls)].real

\* The lines lead from what the bot has seen to what is.
Chained(s, ls, now) ==
  /\ \A i \in DOMAIN ls : Tells(View(Before(s, ls, i)), ls[i], View(ls[i].real))
  /\ View(Latest(s, ls)) = View(now)

\* The names of a channel follow the JOIN of the bot at once.
NamesNext(ls, i) ==
  ls[i].command = "JOIN" /\ ls[i].from = ls[i].real.me =>
    /\ i + 1 \in DOMAIN ls
    /\ ls[i + 1].command = "353" /\ ls[i + 1].channels = ls[i].channels

NamesFollow(ls) == \A i \in DOMAIN ls : NamesNext(ls, i)

ServerTypes ==
  /\ members \in [Channels -> SUBSET Nicks]
  /\ me \in Nicks
  /\ seen \in Snapshot
  /\ lines \in Seq(LineType)
  /\ lost \in BOOLEAN

LinesLead == Chained(seen, lines, Now) /\ NamesFollow(lines)

-----------------------------------------------------------------------------
(* What the bot has in its list *)

Entries(us) == {us[i] : i \in DOMAIN us}

Distinct(us) == \A i, j \in DOMAIN us : us[i].local_id = us[j].local_id => i = j

\* Whoever has a channel in the list is seen in it.
NoneIsAGhost(es, v) ==
  \A u \in es : u.channels # {} /\ \A c \in u.channels : u.local_id \in v.vis[c]

\* The bot has in the list the channels it is in, but for one.
HasItself(es, v, pending) ==
  \A c \in Channels : v.vis[c] # {} /\ c \notin pending =>
    \E u \in es : u.local_id = v.me /\ c \in u.channels

\* The channel whose names are the next line.
Pending(ls) == IF ls # <<>> /\ Head(ls).command = "353" THEN Head(ls).channels ELSE {}

ListIsRight ==
  /\ users \in Seq(User) /\ Distinct(users)
  /\ current_nick = seen.me
  /\ NoneIsAGhost(Entries(users), View(seen))
  /\ HasItself(Entries(users), View(seen), Pending(lines))

IrcInv == ServerTypes /\ LinesLead /\ (~lost => ListIsRight)

-----------------------------------------------------------------------------
(* Natural numbers *)

Less == {p \in Nat \X Nat : p[1] < p[2]}

LEMMA LessIsWellFounded == IsWellFoundedOn(Less, Nat)
<1>1. IsWellFoundedOn(OpToRel(<, Nat), Nat)
  BY NatLessThanWellFounded
<1>2. OpToRel(<, Nat) = Less
  BY DEF OpToRel, Less
<1> QED BY <1>1, <1>2

\* A set of naturals has a least element.
LEMMA LeastOf == ASSUME NEW S \in SUBSET Nat, S # {} PROVE \E m \in S : \A k \in S : m <= k
<1>1. PICK m \in S : \A k \in S : ~(<<k, m>> \in Less)
  BY LessIsWellFounded, WFMin
<1>2. ASSUME NEW k \in S PROVE m <= k
  <2>1. m \in Nat /\ k \in Nat /\ <<k, m>> \in Nat \X Nat
    BY <1>1
  <2>2. ~(k < m)
    <3>1. <<k, m>> \notin Less
      BY <1>1
    <3> QED BY <2>1, <3>1 DEF Less
  <2> QED BY <2>1, <2>2
<1> QED BY <1>1, <1>2

\* Induction: a set of naturals with 0 and the successor of each of its members is Nat.
LEMMA AllOfNat == ASSUME NEW S \in SUBSET Nat, 0 \in S, \A n \in S : n + 1 \in S PROVE S = Nat
<1>1. SUFFICES ASSUME S # Nat PROVE FALSE
  OBVIOUS
<1>2. PICK m \in Nat \ S : \A k \in Nat \ S : m <= k
  BY <1>1, LeastOf
<1>3. m - 1 \in Nat /\ m - 1 \in S /\ m - 1 + 1 = m
  BY <1>2
<1> QED BY <1>2, <1>3

-----------------------------------------------------------------------------
(* Lists of users *)

\* The entries of a list are users.
LEMMA OfUsers ==
  ASSUME NEW us \in Seq(User)
  PROVE  /\ Len(us) \in Nat /\ DOMAIN us = 1..Len(us)
         /\ \A i \in DOMAIN us : us[i] \in User /\ us[i] \in Entries(us)
         /\ \A u \in Entries(us) : u \in User /\ \E i \in DOMAIN us : us[i] = u
<1>1. Len(us) \in Nat /\ DOMAIN us = 1..Len(us)
  BY LenProperties
<1>2. \A i \in DOMAIN us : us[i] \in User
  BY <1>1, ElementOfSeq
<1> QED BY <1>1, <1>2 DEF Entries

\* user() finds the first entry with the id.
LEMMA FirstOf ==
  ASSUME NEW us \in Seq(User), NEW id
  PROVE  /\ Known(us, id) <=> \E u \in Entries(us) : u.local_id = id
         /\ Known(us, id) => /\ IndexOf(us, id) \in DOMAIN us
                             /\ us[IndexOf(us, id)].local_id = id
<1> DEFINE I == {i \in 1..Len(us) : us[i].local_id = id}
<1>1. Len(us) \in Nat /\ DOMAIN us = 1..Len(us) /\ I \in SUBSET Nat
  BY OfUsers
<1>2. IndexOf(us, id) = IF I # {} THEN Min(I) ELSE 0
  BY DEF IndexOf, SelectInSeq
<1>3. I # {} => Min(I) \in I
  BY <1>1, LeastOf DEF Min
<1>4. I # {} <=> \E u \in Entries(us) : u.local_id = id
  BY <1>1 DEF Entries
<1>5. \A i \in I : i \in 1..Len(us) /\ us[i].local_id = id /\ i # 0
  BY <1>1
<1> HIDE DEF I
<1>6. Known(us, id) <=> I # {}
  BY <1>2, <1>3, <1>5 DEF Known
<1> QED BY <1>1, <1>2, <1>3, <1>4, <1>5, <1>6

\* In a list without doubles it is the only one.
LEMMA OnlyOf ==
  ASSUME NEW us \in Seq(User), Distinct(us), NEW id, Known(us, id)
  PROVE  \A u \in Entries(us) : u.local_id = id => u = us[IndexOf(us, id)]
BY FirstOf, OfUsers DEF Distinct

\* A new entry at the end.
LEMMA WithNew ==
  ASSUME NEW us \in Seq(User), Distinct(us), NEW u \in User,
         \A e \in Entries(us) : e.local_id # u.local_id
  PROVE  /\ Append(us, u) \in Seq(User) /\ Distinct(Append(us, u))
         /\ Entries(Append(us, u)) = Entries(us) \cup {u}
<1> DEFINE vs == Append(us, u)
<1>1. /\ vs \in Seq(User) /\ Len(vs) = Len(us) + 1 /\ vs[Len(us) + 1] = u
      /\ \A i \in 1..Len(us) : vs[i] = us[i]
  BY AppendProperties
<1>2. /\ Len(us) \in Nat /\ DOMAIN us = 1..Len(us) /\ DOMAIN vs = 1..(Len(us) + 1)
  BY <1>1, OfUsers
<1> HIDE DEF vs
<1>3. \A i \in DOMAIN vs : i = Len(us) + 1 \/ i \in DOMAIN us
  BY <1>2
<1>4. Entries(vs) = Entries(us) \cup {u}
  <2>1. \A i \in DOMAIN us : i \in DOMAIN vs
    BY <1>2
  <2>2. Len(us) + 1 \in DOMAIN vs
    BY <1>2
  <2>3. \A i \in DOMAIN us : vs[i] = us[i]
    BY <1>1, <1>2
  <2> QED BY <1>1, <1>3, <2>1, <2>2, <2>3 DEF Entries
<1>5. Distinct(vs)
  <2>1. \A i \in DOMAIN us : vs[i] = us[i] /\ vs[i] \in Entries(us)
    BY <1>1, <1>2, OfUsers
  <2> QED BY <1>1, <1>3, <2>1 DEF Distinct
<1> QED BY <1>1, <1>4, <1>5 DEF vs

\* Another entry in the place of one.
LEMMA WithOther ==
  ASSUME NEW us \in Seq(User), Distinct(us), NEW k \in DOMAIN us, NEW u \in User,
         \A e \in Entries(us) : e.local_id = u.local_id => e = us[k]
  PROVE  /\ [us EXCEPT ![k] = u] \in Seq(User) /\ Distinct([us EXCEPT ![k] = u])
         /\ Entries([us EXCEPT ![k] = u]) = (Entries(us) \ {us[k]}) \cup {u}
<1> DEFINE vs == [us EXCEPT ![k] = u]
<1>1. vs \in Seq(User) /\ DOMAIN vs = DOMAIN us
  BY OfUsers, ExceptSeq
<1>2. \A i \in DOMAIN us : vs[i] = IF i = k THEN u ELSE us[i]
  OBVIOUS
<1> HIDE DEF vs
<1>3. \A i \in DOMAIN us : us[i] = us[k] => i = k
  BY DEF Distinct
<1>4. Entries(vs) = (Entries(us) \ {us[k]}) \cup {u}
  BY <1>1, <1>2, <1>3 DEF Entries
<1>5. Distinct(vs)
  <2> SUFFICES ASSUME NEW i \in DOMAIN us, NEW j \in DOMAIN us, vs[i].local_id = vs[j].local_id
               PROVE  i = j
    BY <1>1 DEF Distinct
  <2>1. us[i] \in Entries(us) /\ us[j] \in Entries(us)
    BY OfUsers
  <2>2. CASE i # k /\ j # k
    BY <1>2, <2>2 DEF Distinct
  <2>3. CASE i = k \/ j = k
    BY <1>2, <1>3, <2>1, <2>3
  <2> QED BY <2>2, <2>3
<1> QED BY <1>1, <1>4, <1>5 DEF vs

\* One entry taken out.
LEMMA Without ==
  ASSUME NEW us \in Seq(User), Distinct(us), NEW k \in DOMAIN us
  PROVE  /\ RemoveAt(us, k) \in Seq(User) /\ Distinct(RemoveAt(us, k))
         /\ Entries(RemoveAt(us, k)) = Entries(us) \ {us[k]}
<1> DEFINE vs == RemoveAt(us, k)
           n == Len(us)
           old(i) == IF i < k THEN i ELSE i + 1
<1>1. n \in Nat /\ DOMAIN us = 1..n /\ k \in 1..n /\ \A i \in 1..n : us[i] \in User
  BY OfUsers
<1>2. /\ SubSeq(us, 1, k - 1) \in Seq(User) /\ Len(SubSeq(us, 1, k - 1)) = k - 1
      /\ \A i \in 1..(k - 1) : SubSeq(us, 1, k - 1)[i] = us[i]
  <2>1. \A i \in 1..(k - 1) : us[i] \in User
    BY <1>1
  <2>2. 1 \in Int /\ k - 1 \in Int /\ (1 <= k - 1 => (k - 1) - 1 + 1 = k - 1) /\ (~(1 <= k - 1) => k - 1 = 0)
    BY <1>1
  <2>3. /\ SubSeq(us, 1, k - 1) \in Seq(User)
        /\ Len(SubSeq(us, 1, k - 1)) = IF 1 <= k - 1 THEN (k - 1) - 1 + 1 ELSE 0
        /\ \A i \in 1..((k - 1) - 1 + 1) : SubSeq(us, 1, k - 1)[i] = us[1 + i - 1]
    BY <2>1, <2>2, SubSeqProperties
  <2>4. \A i \in 1..(k - 1) : i \in 1..((k - 1) - 1 + 1) /\ 1 + i - 1 = i
    BY <1>1
  <2> QED BY <2>2, <2>3, <2>4
<1>3. /\ SubSeq(us, k + 1, n) \in Seq(User) /\ Len(SubSeq(us, k + 1, n)) = n - k
      /\ \A i \in 1..(n - k) : SubSeq(us, k + 1, n)[i] = us[k + i]
  <2>1. \A i \in (k + 1)..n : us[i] \in User
    BY <1>1
  <2>2. k + 1 \in Int /\ n \in Int /\ (k + 1 <= n => n - (k + 1) + 1 = n - k) /\ (~(k + 1 <= n) => n - k = 0)
    BY <1>1
  <2>3. /\ SubSeq(us, k + 1, n) \in Seq(User)
        /\ Len(SubSeq(us, k + 1, n)) = IF k + 1 <= n THEN n - (k + 1) + 1 ELSE 0
        /\ \A i \in 1..(n - (k + 1) + 1) : SubSeq(us, k + 1, n)[i] = us[(k + 1) + i - 1]
    BY <2>1, <2>2, SubSeqProperties
  <2>4. \A i \in 1..(n - k) : i \in 1..(n - (k + 1) + 1) /\ (k + 1) + i - 1 = k + i
    BY <1>1
  <2> QED BY <2>2, <2>3, <2>4
<1>4. /\ vs \in Seq(User) /\ Len(vs) = n - 1 /\ DOMAIN vs = 1..(n - 1)
      /\ \A i \in 1..(n - 1) : vs[i] = IF i <= k - 1 THEN us[i] ELSE us[k + (i - (k - 1))]
  <2>1. /\ vs \in Seq(User) /\ Len(vs) = (k - 1) + (n - k)
        /\ \A i \in 1..((k - 1) + (n - k)) :
             vs[i] = IF i <= k - 1 THEN SubSeq(us, 1, k - 1)[i] ELSE SubSeq(us, k + 1, n)[i - (k - 1)]
    <3> DEFINE s == SubSeq(us, 1, k - 1)
               t == SubSeq(us, k + 1, n)
    <3>1. vs = s \o t
      BY DEF RemoveAt
    <3> HIDE DEF s, t, vs
    <3>2. s \in Seq(User) /\ t \in Seq(User) /\ Len(s) = k - 1 /\ Len(t) = n - k
      BY <1>2, <1>3 DEF s, t
    <3>3. /\ s \o t \in Seq(User) /\ Len(s \o t) = Len(s) + Len(t)
          /\ \A i \in 1..(Len(s) + Len(t)) : (s \o t)[i] = IF i <= Len(s) THEN s[i] ELSE t[i - Len(s)]
      BY <3>2, ConcatProperties
    <3>4. /\ vs \in Seq(User) /\ Len(vs) = (k - 1) + (n - k)
          /\ \A i \in 1..((k - 1) + (n - k)) : vs[i] = IF i <= k - 1 THEN s[i] ELSE t[i - (k - 1)]
      BY <3>1, <3>2, <3>3
    <3> QED BY <3>4 DEF s, t
  <2> HIDE DEF vs
  <2>2. (k - 1) + (n - k) = n - 1
    BY <1>1
  <2>3. \A i \in 1..(n - 1) : /\ i <= k - 1 => i \in 1..(k - 1)
                              /\ ~(i <= k - 1) => i - (k - 1) \in 1..(n - k)
    BY <1>1
  <2>4. DOMAIN vs = 1..(n - 1)
    BY <2>1, <2>2, LenProperties
  <2> QED BY <1>2, <1>3, <2>1, <2>2, <2>3, <2>4
<1> HIDE DEF vs
<1>5. \A i \in DOMAIN vs : old(i) \in DOMAIN us /\ old(i) # k /\ vs[i] = us[old(i)]
  <2> TAKE i \in DOMAIN vs
  <2>1. i \in 1..(n - 1) /\ (i <= k - 1 <=> i < k) /\ k + (i - (k - 1)) = i + 1
    BY <1>1, <1>4
  <2> QED BY <1>1, <1>4, <2>1
<1>6. \A j \in DOMAIN us : j # k => \E i \in DOMAIN vs : old(i) = j
  <2> TAKE j \in DOMAIN us
  <2>1. CASE j < k
    BY <1>1, <1>4, <2>1
  <2>2. CASE k < j
    <3>1. j - 1 \in 1..(n - 1) /\ ~(j - 1 < k) /\ j - 1 + 1 = j
      BY <1>1, <2>2
    <3> QED BY <1>4, <3>1
  <2> QED BY <1>1, <2>1, <2>2
<1>7. \A i, j \in DOMAIN vs : old(i) = old(j) => i = j
  BY <1>1, <1>4
<1> HIDE DEF old
<1>8. Distinct(vs)
  BY <1>5, <1>7 DEF Distinct
<1>9. Entries(vs) = Entries(us) \ {us[k]}
  <2>1. \A j \in DOMAIN us : us[j] = us[k] => j = k
    BY DEF Distinct
  <2>2. \A i \in DOMAIN vs : vs[i] \in Entries(us) \ {us[k]}
    BY <1>5, <2>1 DEF Entries
  <2>3. \A j \in DOMAIN us : us[j] # us[k] => us[j] \in Entries(vs)
    BY <1>5, <1>6 DEF Entries
  <2> QED BY <2>2, <2>3 DEF Entries
<1> QED BY <1>4, <1>8, <1>9 DEF vs

-----------------------------------------------------------------------------
(* What the operations of user_manager do to the entries *)

LEMMA EntryOf ==
  ASSUME NEW id \in Nicks, NEW cs \in SUBSET Channels
  PROVE  LET u == [local_id |-> id, channels |-> cs]
         IN  u \in User /\ u.local_id = id /\ u.channels = cs
BY DEF User

\* A list that is fine, with these entries.
ListOf(us, es) == us \in Seq(User) /\ Distinct(us) /\ Entries(us) = es

LEMMA AddedIs ==
  ASSUME NEW us \in Seq(User), Distinct(us), NEW id \in Nicks, ~Known(us, id),
         NEW cs \in SUBSET Channels
  PROVE  ListOf(add_user(us, id, cs), Entries(us) \cup {[local_id |-> id, channels |-> cs]})
<1> DEFINE u == [local_id |-> id, channels |-> cs]
<1>1. u \in User /\ u.local_id = id
  BY EntryOf
<1>2. \A e \in Entries(us) : e.local_id # u.local_id
  BY <1>1, FirstOf
<1>3. add_user(us, id, cs) = Append(us, u)
  BY DEF add_user
<1> HIDE DEF u
<1>4. ListOf(Append(us, u), Entries(us) \cup {u})
  BY <1>1, <1>2, WithNew DEF ListOf
<1> QED BY <1>3, <1>4 DEF u

LEMMA RemovedIs ==
  ASSUME NEW us \in Seq(User), Distinct(us), NEW id
  PROVE  ListOf(remove_user(us, id), {u \in Entries(us) : u.local_id # id})
<1>1. CASE Known(us, id)
  <2> DEFINE k == IndexOf(us, id)
  <2>1. k \in DOMAIN us /\ us[k].local_id = id /\ \A u \in Entries(us) : u.local_id = id => u = us[k]
    BY <1>1, FirstOf, OnlyOf
  <2>2. remove_user(us, id) = RemoveAt(us, k)
    BY <1>1 DEF remove_user
  <2> HIDE DEF k
  <2>3. ListOf(RemoveAt(us, k), Entries(us) \ {us[k]})
    BY <2>1, Without DEF ListOf
  <2>4. Entries(us) \ {us[k]} = {u \in Entries(us) : u.local_id # id}
    BY <2>1
  <2> QED BY <2>2, <2>3, <2>4
<1>2. CASE ~Known(us, id)
  <2>1. {u \in Entries(us) : u.local_id # id} = Entries(us)
    BY <1>2, FirstOf
  <2> QED BY <1>2, <2>1 DEF remove_user, ListOf
<1> QED BY <1>1, <1>2

\* Other channels for the one with the id.
LEMMA ChangedIs ==
  ASSUME NEW us \in Seq(User), Distinct(us), NEW id, Known(us, id), NEW new \in User,
         \A e \in Entries(us) : e.local_id = new.local_id => e.local_id = id
  PROVE  ListOf([us EXCEPT ![IndexOf(us, id)] = new], {u \in Entries(us) : u.local_id # id} \cup {new})
<1> DEFINE k == IndexOf(us, id)
<1>1. k \in DOMAIN us /\ us[k].local_id = id /\ \A u \in Entries(us) : u.local_id = id => u = us[k]
  BY FirstOf, OnlyOf
<1> HIDE DEF k
<1>2. ListOf([us EXCEPT ![k] = new], (Entries(us) \ {us[k]}) \cup {new})
  <2>1. \A e \in Entries(us) : e.local_id = new.local_id => e = us[k]
    BY <1>1
  <2>2. /\ [us EXCEPT ![k] = new] \in Seq(User) /\ Distinct([us EXCEPT ![k] = new])
        /\ Entries([us EXCEPT ![k] = new]) = (Entries(us) \ {us[k]}) \cup {new}
    BY <1>1, <2>1, WithOther
  <2> QED BY <2>2 DEF ListOf
<1>3. Entries(us) \ {us[k]} = {u \in Entries(us) : u.local_id # id}
  BY <1>1
<1> QED BY <1>2, <1>3 DEF k

\* An entry without some of its channels.
Rest(u, channels) == [local_id |-> u.local_id, channels |-> u.channels \ channels]

LEMMA RestIs ==
  ASSUME NEW u \in User, NEW cs
  PROVE  /\ Rest(u, cs) \in User /\ Rest(u, cs).local_id = u.local_id
         /\ Rest(u, cs).channels = u.channels \ cs
         /\ [u EXCEPT !.channels = @ \ cs] = Rest(u, cs)
BY DEF User, Rest

\* The entries when somebody else, or the bot, has left a channel.
DroppedOf(es, id, cs) ==
  {u \in es : u.local_id # id} \cup
  {Rest(u, cs) : u \in {e \in es : e.local_id = id /\ ~(e.channels \subseteq cs)}}

EmptiedOf(es, cs) == {Rest(u, cs) : u \in {e \in es : ~(e.channels \subseteq cs)}}

LEMMA DroppedIs ==
  ASSUME NEW us \in Seq(User), Distinct(us), NEW id, NEW cs
  PROVE  ListOf(DropChannels(us, id, cs), DroppedOf(Entries(us), id, cs))
<1> DEFINE es == {e \in Entries(us) : e.local_id = id /\ ~(e.channels \subseteq cs)}
<1>o. DroppedOf(Entries(us), id, cs) = {u \in Entries(us) : u.local_id # id} \cup {Rest(u, cs) : u \in es}
  BY DEF DroppedOf
<1>1. CASE ~Known(us, id)
  <2>1. \A u \in Entries(us) : u.local_id # id
    BY <1>1, FirstOf
  <2>2. es = {} /\ {u \in Entries(us) : u.local_id # id} = Entries(us)
    BY <2>1
  <2>3. DropChannels(us, id, cs) = us
    BY <1>1 DEF DropChannels
  <2> QED BY <1>o, <2>2, <2>3 DEF ListOf
<1>2. CASE Known(us, id)
  <2> DEFINE k == IndexOf(us, id)
  <2>1. /\ k \in DOMAIN us /\ us[k].local_id = id /\ us[k] \in Entries(us) /\ us[k] \in User
        /\ \A u \in Entries(us) : u.local_id = id => u = us[k]
    BY <1>2, FirstOf, OnlyOf, OfUsers
  <2>2. CASE us[k].channels \subseteq cs
    <3>1. es = {}
      BY <2>1, <2>2
    <3>2. DropChannels(us, id, cs) = remove_user(us, id)
      BY <1>2, <2>2 DEF DropChannels, ChannelsOf
    <3> QED BY <1>o, <3>1, <3>2, RemovedIs
  <2>3. CASE ~(us[k].channels \subseteq cs)
    <3>1. es = {us[k]}
      BY <2>1, <2>3
    <3>2. DropChannels(us, id, cs) = [us EXCEPT ![k].channels = @ \ cs]
      BY <1>2, <2>3 DEF DropChannels, ChannelsOf
    <3>3. [us EXCEPT ![k].channels = @ \ cs] = [us EXCEPT ![k] = Rest(us[k], cs)]
      BY <2>1, RestIs
    <3>4. Rest(us[k], cs) \in User /\ Rest(us[k], cs).local_id = id
      BY <2>1, RestIs
    <3>5. ListOf([us EXCEPT ![k] = Rest(us[k], cs)],
                 {u \in Entries(us) : u.local_id # id} \cup {Rest(us[k], cs)})
      BY <1>2, <3>4, ChangedIs
    <3> HIDE DEF k, es
    <3>6. {Rest(u, cs) : u \in es} = {Rest(us[k], cs)}
      BY <3>1
    <3> QED BY <1>o, <3>2, <3>3, <3>5, <3>6 DEF es
  <2> QED BY <2>2, <2>3
<1> QED BY <1>1, <1>2

-----------------------------------------------------------------------------
(* remove_from_channel of the bot itself, by induction over the list *)

\* One more entry.
Emptied(us, cs, before, n) ==
  LET rest == [us[n] EXCEPT !.channels = @ \ cs]
  IN  IF rest.channels = {} /\ us[n].channels # {}
      THEN remove_user(Append(before, rest), rest.local_id)
      ELSE Append(before, rest)

Runs(us, cs, g, m) == g = [n \in 0..m |-> IF n = 0 THEN <<>> ELSE Emptied(us, cs, g[n - 1], n)]

LEMMA RunsExist == ASSUME NEW us, NEW cs, NEW m \in Nat PROVE \E g : Runs(us, cs, g, m)
<1> DEFINE S == {k \in Nat : \E g : Runs(us, cs, g, k)}
<1>1. 0 \in S
  <2>1. Runs(us, cs, [n \in 0..0 |-> <<>>], 0)
    BY DEF Runs
  <2> QED BY <2>1
<1>2. ASSUME NEW k \in S PROVE k + 1 \in S
  <2>1. PICK g : Runs(us, cs, g, k)
    OBVIOUS
  <2> DEFINE h == [n \in 0..(k + 1) |-> IF n = k + 1 THEN Emptied(us, cs, g[k], k + 1) ELSE g[n]]
  <2>2. Runs(us, cs, h, k + 1)
    <3>1. \A n \in 0..k : h[n] = g[n]
      OBVIOUS
    <3>2. \A n \in 0..k : g[n] = IF n = 0 THEN <<>> ELSE Emptied(us, cs, g[n - 1], n)
      BY <2>1 DEF Runs
    <3>3. \A n \in 0..(k + 1) : h[n] = IF n = 0 THEN <<>> ELSE Emptied(us, cs, h[n - 1], n)
      <4> TAKE n \in 0..(k + 1)
      <4>1. CASE n = k + 1
        <5>1. h[k] = g[k] /\ n # 0 /\ n - 1 = k
          BY <3>1, <4>1
        <5> QED BY <4>1, <5>1
      <4>2. CASE n # k + 1
        <5>1. n \in 0..k /\ (n # 0 => n - 1 \in 0..k)
          BY <4>2
        <5> QED BY <3>1, <3>2, <5>1
      <4> QED BY <4>1, <4>2
    <3> HIDE DEF h
    <3>4. h = [n \in 0..(k + 1) |-> h[n]]
      BY DEF h
    <3> QED BY <3>3, <3>4 DEF Runs
  <2> HIDE DEF h
  <2> QED BY <2>2
<1>3. S = Nat
  <2> HIDE DEF S
  <2>1. S \in SUBSET Nat
    BY DEF S
  <2> QED BY <1>1, <1>2, <2>1, AllOfNat
<1> QED BY <1>3

LEMMA EmptyRuns ==
  ASSUME NEW us, NEW cs, Len(us) \in Nat
  PROVE  \E g : Runs(us, cs, g, Len(us)) /\ EmptyChannel(us, cs) = g[Len(us)]
<1> DEFINE f == CHOOSE g : Runs(us, cs, g, Len(us))
<1>1. Runs(us, cs, f, Len(us))
  BY RunsExist
<1>2. EmptyChannel(us, cs) = f[Len(us)]
  BY DEF EmptyChannel, Runs, Emptied
<1> QED BY <1>1, <1>2

\* The entries up to m that keep a channel, without the channels that are left.
KeptTo(us, cs, m) == {Rest(us[i], cs) : i \in {j \in 1..m : ~(us[j].channels \subseteq cs)}}

LEMMA EmptiedIs ==
  ASSUME NEW us \in Seq(User), Distinct(us), NEW cs, NEW n \in Nat, n + 1 \in DOMAIN us,
         us[n + 1].channels # {}, NEW before, ListOf(before, KeptTo(us, cs, n))
  PROVE  ListOf(Emptied(us, cs, before, n + 1), KeptTo(us, cs, n + 1))
<1> DEFINE k == n + 1
           r == Rest(us[k], cs)
<1>1. DOMAIN us = 1..Len(us) /\ Len(us) \in Nat /\ us[k] \in User
  BY OfUsers
<1>2. /\ [us[k] EXCEPT !.channels = @ \ cs] = r /\ r \in User /\ r.local_id = us[k].local_id
      /\ r.channels = us[k].channels \ cs
  BY <1>1, RestIs
<1>3. \A j \in 1..n : j \in DOMAIN us /\ j # k
  BY <1>1
<1>4. \A e \in KeptTo(us, cs, n) : e.local_id # r.local_id
  <2>1. \A j \in 1..n : Rest(us[j], cs).local_id = us[j].local_id
    BY DEF Rest
  <2>2. \A j \in 1..n : us[j].local_id # us[k].local_id
    BY <1>3 DEF Distinct
  <2> QED BY <1>2, <2>1, <2>2 DEF KeptTo
<1>5. ListOf(Append(before, r), KeptTo(us, cs, n) \cup {r})
  BY <1>2, <1>4, WithNew DEF ListOf
<1>6. \A j : j \in 1..k <=> j \in 1..n \/ j = k
  BY <1>1
<1>7. CASE us[k].channels \subseteq cs
  <2>1. Emptied(us, cs, before, k) = remove_user(Append(before, r), r.local_id)
    <3>1. r.channels = {}
      BY <1>2, <1>7
    <3> QED BY <1>2, <3>1 DEF Emptied
  <2>2. {u \in KeptTo(us, cs, n) \cup {r} : u.local_id # r.local_id} = KeptTo(us, cs, n)
    BY <1>4
  <2>3. KeptTo(us, cs, k) = KeptTo(us, cs, n)
    BY <1>6, <1>7 DEF KeptTo
  <2>4. ListOf(remove_user(Append(before, r), r.local_id),
               {u \in KeptTo(us, cs, n) \cup {r} : u.local_id # r.local_id})
    <3> DEFINE vs == Append(before, r)
    <3>1. vs \in Seq(User) /\ Distinct(vs) /\ Entries(vs) = KeptTo(us, cs, n) \cup {r}
      BY <1>5 DEF ListOf
    <3> HIDE DEF vs, r
    <3>2. ListOf(remove_user(vs, r.local_id), {u \in Entries(vs) : u.local_id # r.local_id})
      BY <3>1, RemovedIs
    <3> QED BY <3>1, <3>2 DEF vs
  <2> QED BY <2>1, <2>2, <2>3, <2>4
<1>8. CASE ~(us[k].channels \subseteq cs)
  <2>1. Emptied(us, cs, before, k) = Append(before, r)
    <3>1. r.channels # {}
      BY <1>2, <1>8
    <3> QED BY <1>2, <3>1 DEF Emptied
  <2>2. KeptTo(us, cs, k) = KeptTo(us, cs, n) \cup {r}
    BY <1>6, <1>8 DEF KeptTo
  <2> QED BY <1>5, <2>1, <2>2
<1> QED BY <1>7, <1>8

LEMMA EmptyIs ==
  ASSUME NEW us \in Seq(User), Distinct(us), NEW cs, \A u \in Entries(us) : u.channels # {}
  PROVE  ListOf(EmptyChannel(us, cs), EmptiedOf(Entries(us), cs))
<1>1. DOMAIN us = 1..Len(us) /\ Len(us) \in Nat /\ \A i \in DOMAIN us : us[i] \in Entries(us)
  BY OfUsers
<1>2. PICK g : Runs(us, cs, g, Len(us)) /\ EmptyChannel(us, cs) = g[Len(us)]
  BY <1>1, EmptyRuns
<1>3. \A n \in 0..Len(us) : g[n] = IF n = 0 THEN <<>> ELSE Emptied(us, cs, g[n - 1], n)
  BY <1>2 DEF Runs
<1> DEFINE S == {m \in Nat : m <= Len(us) => ListOf(g[m], KeptTo(us, cs, m))}
<1>4. 0 \in S
  <2>1. g[0] = <<>>
    BY <1>1, <1>3
  <2>2. <<>> \in Seq(User) /\ DOMAIN <<>> = {}
    BY EmptySeq
  <2>3. KeptTo(us, cs, 0) = {}
    BY DEF KeptTo
  <2>4. Distinct(<<>>) /\ Entries(<<>>) = {}
    BY <2>2 DEF Distinct, Entries
  <2> QED BY <2>1, <2>2, <2>3, <2>4 DEF ListOf
<1>5. ASSUME NEW m \in S PROVE m + 1 \in S
  <2>1. SUFFICES ASSUME m + 1 <= Len(us) PROVE ListOf(g[m + 1], KeptTo(us, cs, m + 1))
    OBVIOUS
  <2>2. /\ m \in Nat /\ m + 1 \in DOMAIN us /\ m + 1 \in 0..Len(us) /\ m + 1 # 0
        /\ (m + 1) - 1 = m /\ m <= Len(us)
    BY <1>1, <2>1
  <2>3. ListOf(g[m], KeptTo(us, cs, m))
    BY <2>2
  <2>4. g[m + 1] = Emptied(us, cs, g[m], m + 1)
    BY <1>3, <2>2
  <2>5. us[m + 1].channels # {}
    BY <1>1, <2>2
  <2> HIDE DEF S
  <2> QED BY <2>2, <2>3, <2>4, <2>5, EmptiedIs
<1>6. S = Nat
  <2> HIDE DEF S
  <2>1. S \in SUBSET Nat
    BY DEF S
  <2> QED BY <1>4, <1>5, <2>1, AllOfNat
<1>7. ListOf(g[Len(us)], KeptTo(us, cs, Len(us)))
  BY <1>1, <1>6
<1>8. KeptTo(us, cs, Len(us)) = EmptiedOf(Entries(us), cs)
  BY <1>1 DEF KeptTo, Entries, EmptiedOf
<1> QED BY <1>2, <1>7, <1>8

-----------------------------------------------------------------------------
(* The lists that one line makes of another *)

\* Two lists without a common user, one after the other.
LEMMA BothAre ==
  ASSUME NEW us \in Seq(User), Distinct(us), NEW ws \in Seq(User), Distinct(ws),
         \A u \in Entries(us), w \in Entries(ws) : u.local_id # w.local_id
  PROVE  ListOf(us \o ws, Entries(us) \cup Entries(ws))
<1> DEFINE vs == us \o ws
           m == Len(us)
           n == Len(ws)
<1>1. /\ m \in Nat /\ n \in Nat /\ DOMAIN us = 1..m /\ DOMAIN ws = 1..n
      /\ \A i \in 1..m : us[i] \in Entries(us)
      /\ \A i \in 1..n : ws[i] \in Entries(ws)
  BY OfUsers
<1>2. /\ vs \in Seq(User) /\ Len(vs) = m + n
      /\ \A i \in 1..(m + n) : vs[i] = IF i <= m THEN us[i] ELSE ws[i - m]
  BY ConcatProperties
<1> HIDE DEF vs
<1>3. DOMAIN vs = 1..(m + n)
  BY <1>2, LenProperties
<1>4. /\ \A i \in 1..m : i \in DOMAIN vs /\ vs[i] = us[i]
      /\ \A i \in 1..n : i + m \in DOMAIN vs /\ vs[i + m] = ws[i]
  <2>1. \A i \in 1..m : i \in 1..(m + n) /\ i <= m
    BY <1>1
  <2>2. \A i \in 1..n : i + m \in 1..(m + n) /\ ~(i + m <= m) /\ (i + m) - m = i
    BY <1>1
  <2> HIDE DEF m, n
  <2> QED BY <1>2, <1>3, <2>1, <2>2
<1>5. \A i \in DOMAIN vs : i \in 1..m \/ (i - m \in 1..n /\ i = (i - m) + m)
  BY <1>1, <1>3
<1> HIDE DEF m, n
<1>6. Entries(vs) = Entries(us) \cup Entries(ws)
  <2>1. \A i \in DOMAIN vs : vs[i] \in Entries(us) \cup Entries(ws)
    BY <1>1, <1>4, <1>5
  <2>2. \A i \in DOMAIN us : us[i] \in Entries(vs)
    BY <1>1, <1>4 DEF Entries
  <2>3. \A i \in DOMAIN ws : ws[i] \in Entries(vs)
    BY <1>1, <1>4 DEF Entries
  <2> QED BY <2>1, <2>2, <2>3 DEF Entries
<1>7. Distinct(vs)
  <2> SUFFICES ASSUME NEW i \in DOMAIN vs, NEW j \in DOMAIN vs, vs[i].local_id = vs[j].local_id
               PROVE  i = j
    BY DEF Distinct
  <2>1. CASE i \in 1..m /\ j \in 1..m
    BY <1>1, <1>4, <2>1 DEF Distinct
  <2>2. CASE i - m \in 1..n /\ i = (i - m) + m /\ j - m \in 1..n /\ j = (j - m) + m
    <3>1. vs[i] = ws[i - m] /\ vs[j] = ws[j - m]
      BY <1>4, <2>2
    <3>2. i - m = j - m
      BY <1>1, <2>2, <3>1 DEF Distinct
    <3> QED BY <2>2, <3>2
  <2>3. CASE i \in 1..m /\ j - m \in 1..n /\ j = (j - m) + m
    <3>1. vs[i] = us[i] /\ vs[j] = ws[j - m]
      BY <1>4, <2>3
    <3> QED BY <1>1, <2>3, <3>1
  <2>4. CASE j \in 1..m /\ i - m \in 1..n /\ i = (i - m) + m
    <3>1. vs[j] = us[j] /\ vs[i] = ws[i - m]
      BY <1>4, <2>4
    <3> QED BY <1>1, <2>4, <3>1
  <2> QED BY <1>5, <2>1, <2>2, <2>3, <2>4
<1> QED BY <1>2, <1>6, <1>7 DEF ListOf, vs

\* A finite set of users as a list.
LEMMA SetAsList ==
  ASSUME NEW S \in SUBSET User, IsFiniteSet(S),
         \A a, b \in S : a.local_id = b.local_id => a = b
  PROVE  ListOf(SetToSeq(S), S)
<1> DEFINE n == Cardinality(S)
           f == SetToSeq(S)
<1>1. n \in Nat /\ ExistsBijection(1..n, S)
  BY FS_CardinalityType
<1>2. \E g \in [1..n -> S] : IsInjective(g)
  BY <1>1 DEF ExistsBijection, Bijection, Injection
<1>3. f \in [1..n -> S] /\ IsInjective(f)
  BY <1>2 DEF SetToSeq
<1> HIDE DEF f
<1>4. \A s \in S : \E i \in 1..n : f[i] = s
  <2>1. IsFiniteSet(1..n) /\ Cardinality(1..n) = n
    <3>1. 1 \in Int /\ n \in Int /\ (1 > n => n = 0) /\ (~(1 > n) => n - 1 + 1 = n)
      BY <1>1
    <3>2. IsFiniteSet(1..n) /\ Cardinality(1..n) = IF 1 > n THEN 0 ELSE n - 1 + 1
      BY <3>1, FS_Interval
    <3> QED BY <3>1, <3>2
  <2>2. f \in Injection(1..n, S)
    BY <1>3 DEF Injection
  <2>3. f \in Surjection(1..n, S)
    BY <2>1, <2>2, FS_Injection
  <2> QED BY <2>3 DEF Surjection
<1> HIDE DEF n
<1>5. DOMAIN f = 1..n /\ f \in Seq(User)
  <2>1. \A i \in 1..n : f[i] \in User
    BY <1>3
  <2>2. [i \in 1..n |-> f[i]] \in [1..n -> User] /\ f = [i \in 1..n |-> f[i]]
    BY <1>3, <2>1
  <2> QED BY <1>1, <1>3, <2>2, SeqDef
<1>6. Entries(f) = S
  BY <1>3, <1>4, <1>5 DEF Entries
<1>7. Distinct(f)
  BY <1>3, <1>5 DEF Distinct, IsInjective
<1> QED BY <1>5, <1>6, <1>7 DEF ListOf, f

\* An entry with one more channel.
With(u, c) == [local_id |-> u.local_id, channels |-> u.channels \cup {c}]

Alone(n, c) == [local_id |-> n, channels |-> {c}]

LEMMA WithIs ==
  ASSUME NEW u \in User, NEW c
  PROVE  [u EXCEPT !.channels = @ \cup {c}] = With(u, c) /\ With(u, c).local_id = u.local_id
BY DEF User, With

\* The entries when the names of a channel are added.
NamedOf(es, names, c) ==
  {u \in es : u.local_id \notin names} \cup
  {With(u, c) : u \in {e \in es : e.local_id \in names}} \cup
  {Alone(n, c) : n \in {m \in names : \A e \in es : e.local_id # m}}

LEMMA NamesAddedAre ==
  ASSUME users \in Seq(User), Distinct(users), NEW names \in SUBSET Nicks, NEW c \in Channels,
         lower[c] = c
  PROVE  ListOf(AddNames(names, c), NamedOf(Entries(users), names, c))
<1> DEFINE old == [i \in DOMAIN users |->
                     IF users[i].local_id \in names
                     THEN [users[i] EXCEPT !.channels = @ \cup {lower[c]}] ELSE users[i]]
           new == {n \in names : ~Known(users, n)}
           S == {[local_id |-> n, channels |-> {lower[c]}] : n \in new}
           T == {Alone(n, c) : n \in {m \in names : \A e \in Entries(users) : e.local_id # m}}
           B == {u \in Entries(users) : u.local_id \notin names} \cup
                {With(u, c) : u \in {e \in Entries(users) : e.local_id \in names}}
<1>1. AddNames(names, c) = old \o SetToSeq(S)
  BY DEF AddNames
<1>2. S = T
  <2>1. new = {m \in names : \A e \in Entries(users) : e.local_id # m}
    BY FirstOf
  <2> HIDE DEF new
  <2> QED BY <2>1 DEF Alone
<1>3. T \in SUBSET User /\ \A a, b \in T : a.local_id = b.local_id => a = b
  <2>1. \A n \in names : Alone(n, c) \in User /\ Alone(n, c).local_id = n
    <3> TAKE n \in names
    <3>1. n \in Nicks /\ {c} \in SUBSET Channels
      OBVIOUS
    <3> QED BY <3>1 DEF Alone, User
  <2> QED BY <2>1
<1>4. IsFiniteSet(T)
  <2> DEFINE D == {m \in names : \A e \in Entries(users) : e.local_id # m}
             g == [n \in D |-> Alone(n, c)]
  <2>1. D \in SUBSET Nicks
    OBVIOUS
  <2>2. IsFiniteSet(D)
    BY <2>1, FS_Subset, NamesAssumption
  <2>3. g \in Surjection(D, T)
    BY DEF Surjection
  <2> HIDE DEF D, g, T
  <2> QED BY <2>2, <2>3, FS_Surjection
<1>5. ListOf(SetToSeq(T), T)
  BY <1>3, <1>4, SetAsList
<1>6. DOMAIN users = 1..Len(users) /\ Len(users) \in Nat /\ \A i \in DOMAIN users : users[i] \in User
  BY OfUsers
<1>7. \A i \in DOMAIN users :
        /\ old[i] = IF users[i].local_id \in names THEN With(users[i], c) ELSE users[i]
        /\ old[i] \in User /\ old[i].local_id = users[i].local_id
  <2> TAKE i \in DOMAIN users
  <2>1. users[i] \in User
    BY <1>6
  <2>2. [users[i] EXCEPT !.channels = @ \cup {lower[c]}] = With(users[i], c)
    <3>1. [users[i] EXCEPT !.channels = @ \cup {c}] = With(users[i], c)
      BY <2>1, WithIs
    <3>2. lower[c] = c
      OBVIOUS
    <3> QED BY <3>1, <3>2
  <2>3. With(users[i], c) \in User /\ With(users[i], c).local_id = users[i].local_id
    <3>1. users[i].channels \cup {c} \in SUBSET Channels /\ users[i].local_id \in Nicks
      BY <2>1 DEF User
    <3> QED BY <3>1 DEF User, With
  <2> QED BY <2>1, <2>2, <2>3
<1>8. DOMAIN old = DOMAIN users /\ old = [i \in DOMAIN users |-> old[i]]
  OBVIOUS
<1> HIDE DEF old, S, T
<1>9. old \in Seq(User)
  <2>1. [i \in 1..Len(users) |-> old[i]] \in [1..Len(users) -> User]
    BY <1>6, <1>7
  <2> QED BY <1>6, <1>8, <2>1, SeqDef
<1>10. Distinct(old)
  BY <1>7, <1>8 DEF Distinct
<1>11. Entries(old) = B
  <2>1. \A i \in DOMAIN users : old[i] \in B
    BY <1>7 DEF Entries
  <2>2. \A u \in B : \E i \in DOMAIN users : old[i] = u
    BY <1>7 DEF Entries
  <2> HIDE DEF B
  <2> QED BY <1>8, <2>1, <2>2 DEF Entries
<1>12. \A u \in B, w \in T : u.local_id # w.local_id
  <2>1. \A w \in T : \A e \in Entries(users) : e.local_id # w.local_id
    BY DEF T, Alone
  <2>2. \A u \in B : \E e \in Entries(users) : e.local_id = u.local_id
    BY DEF With
  <2> HIDE DEF B
  <2> QED BY <2>1, <2>2
<1> HIDE DEF B
<1>13. ListOf(old \o SetToSeq(T), B \cup T)
  BY <1>5, <1>9, <1>10, <1>11, <1>12, BothAre DEF ListOf
<1>14. B \cup T = NamedOf(Entries(users), names, c)
  BY DEF B, T, NamedOf
<1> QED BY <1>1, <1>2, <1>13, <1>14

\* The entries when a user joins a channel.
JoinedOf(es, id, c) == IF \E e \in es : e.local_id = id THEN es ELSE es \cup {Alone(id, c)}

LEMMA JoinedIs ==
  ASSUME LowerCaseNames, users \in Seq(User), Distinct(users), NEW id \in Nicks, NEW c \in Channels
  PROVE  ListOf(AddJoined(id, {c}), JoinedOf(Entries(users), id, c))
<1>1. CASE ~Known(users, id)
  <2>1. AddJoined(id, {c}) = add_user(users, id, {c})
    BY <1>1 DEF AddJoined
  <2>2. JoinedOf(Entries(users), id, c) = Entries(users) \cup {[local_id |-> id, channels |-> {c}]}
    BY <1>1, FirstOf DEF JoinedOf, Alone
  <2> QED BY <1>1, <2>1, <2>2, AddedIs
<1>2. CASE Known(users, id)
  <2> DEFINE k == IndexOf(users, id)
  <2>1. k \in DOMAIN users /\ users[k] \in User
    BY <1>2, FirstOf, OfUsers
  <2>2. Lowered(users[k].channels) = users[k].channels
    <3>1. \A d \in users[k].channels : lower[d] = d
      BY <2>1 DEF LowerCaseNames, User
    <3> QED BY <3>1 DEF Lowered
  <2>3. AddJoined(id, {c}) = [users EXCEPT ![k].channels = @ \cup Lowered(@)]
    BY <1>2 DEF AddJoined
  <2>4. [users EXCEPT ![k].channels = @ \cup Lowered(@)] = users
    <3>1. [users[k] EXCEPT !.channels = @ \cup Lowered(@)] = users[k]
      BY <2>1, <2>2 DEF User
    <3>2. [users EXCEPT ![k] = users[k]] = users
      BY <2>1, OfUsers, SeqDef
    <3> QED BY <3>1, <3>2
  <2>5. JoinedOf(Entries(users), id, c) = Entries(users)
    BY <1>2, FirstOf DEF JoinedOf
  <2> QED BY <2>3, <2>4, <2>5 DEF ListOf
<1> QED BY <1>1, <1>2

\* The entries when a user takes another nick.
Called(u, new) == [local_id |-> new, channels |-> u.channels]

RenamedOf(es, old, new) ==
  {u \in es : u.local_id # old} \cup {Called(u, new) : u \in {e \in es : e.local_id = old}}

LEMMA RenamedIs ==
  ASSUME users \in Seq(User), Distinct(users), NEW old \in Nicks, NEW new \in Nicks,
         \A e \in Entries(users) : e.local_id # new
  PROVE  ListOf(Renamed(old, new), RenamedOf(Entries(users), old, new))
<1>1. CASE ~Known(users, old)
  <2>1. \A e \in Entries(users) : e.local_id # old
    BY <1>1, FirstOf
  <2>2. RenamedOf(Entries(users), old, new) = Entries(users)
    BY <2>1 DEF RenamedOf
  <2> QED BY <1>1, <2>2 DEF Renamed, ListOf
<1>2. CASE Known(users, old)
  <2> DEFINE k == IndexOf(users, old)
             u == Called(users[k], new)
  <2>1. /\ k \in DOMAIN users /\ users[k] \in User /\ users[k].local_id = old
        /\ users[k] \in Entries(users)
        /\ \A e \in Entries(users) : e.local_id = old => e = users[k]
    BY <1>2, FirstOf, OnlyOf, OfUsers
  <2>2. u \in User /\ u.local_id = new
    BY <2>1 DEF User, Called
  <2>3. Renamed(old, new) = [users EXCEPT ![k] = u]
    <3>1. [users[k] EXCEPT !.local_id = new] = u
      BY <2>1 DEF User, Called
    <3>2. Renamed(old, new) = [users EXCEPT ![k].local_id = new]
      BY <1>2 DEF Renamed
    <3> QED BY <2>1, <3>1, <3>2
  <2> HIDE DEF u
  <2>4. ListOf([users EXCEPT ![k] = u], {e \in Entries(users) : e.local_id # old} \cup {u})
    BY <1>2, <2>2, ChangedIs
  <2>5. {Called(e, new) : e \in {d \in Entries(users) : d.local_id = old}} = {u}
    BY <2>1 DEF u
  <2> QED BY <2>3, <2>4, <2>5 DEF RenamedOf
<1> QED BY <1>1, <1>2

-----------------------------------------------------------------------------
(* Views and lines *)

LEMMA ViewIs ==
  ASSUME NEW s
  PROVE  View(s).me = s.me /\ \A d \in Channels : View(s).vis[d] = Vis(s, d)
BY DEF View

LEMMA SameView ==
  ASSUME NEW s, NEW t, s.me = t.me, \A d \in Channels : Vis(s, d) = Vis(t, d)
  PROVE  View(s) = View(t)
<1>1. [d \in Channels |-> Vis(s, d)] = [d \in Channels |-> Vis(t, d)]
  OBVIOUS
<1> QED BY <1>1 DEF View

\* One more line.
LEMMA OneMore ==
  ASSUME NEW ls \in Seq(LineType), NEW l \in LineType
  PROVE  LET ms == ls \o <<l>>
         IN  /\ ms \in Seq(LineType) /\ Len(ls) \in Nat /\ Len(ms) = Len(ls) + 1 /\ ms # <<>>
             /\ DOMAIN ls = 1..Len(ls) /\ DOMAIN ms = 1..(Len(ls) + 1)
             /\ ms[Len(ls) + 1] = l /\ \A i \in 1..Len(ls) : ms[i] = ls[i]
<1> DEFINE ms == ls \o <<l>>
<1>1. ms = Append(ls, l)
  BY AppendIsConcat
<1>2. /\ Append(ls, l) \in Seq(LineType) /\ Append(ls, l) # <<>>
      /\ Len(Append(ls, l)) = Len(ls) + 1
      /\ \A i \in 1..Len(ls) : Append(ls, l)[i] = ls[i]
      /\ Append(ls, l)[Len(ls) + 1] = l
  BY AppendProperties
<1>3. Len(ls) \in Nat /\ DOMAIN ls = 1..Len(ls) /\ DOMAIN Append(ls, l) = 1..Len(Append(ls, l))
  BY <1>2, LenProperties
<1> HIDE DEF ms
<1> QED BY <1>1, <1>2, <1>3 DEF ms

LEMMA ChainedOn ==
  ASSUME NEW s, NEW ls \in Seq(LineType), NEW l \in LineType, NEW now,
         Chained(s, ls, now), Tells(View(now), l, View(l.real))
  PROVE  Chained(s, ls \o <<l>>, l.real)
<1> DEFINE ms == ls \o <<l>>
           n == Len(ls)
<1>1. /\ ms \in Seq(LineType) /\ n \in Nat /\ Len(ms) = n + 1 /\ ms # <<>>
      /\ DOMAIN ls = 1..n /\ DOMAIN ms = 1..(n + 1)
      /\ ms[n + 1] = l /\ \A i \in 1..n : ms[i] = ls[i]
  BY OneMore
<1>2. n = 0 <=> ls = <<>>
  BY EmptySeq
<1> HIDE DEF ms, n
<1>3. \A i \in 1..n : Before(s, ms, i) = Before(s, ls, i)
  <2> TAKE i \in 1..n
  <2>1. i # 1 => i - 1 \in 1..n
    BY <1>1
  <2> QED BY <1>1, <2>1 DEF Before
<1>4. Before(s, ms, n + 1) = Latest(s, ls)
  <2>1. CASE n = 0
    BY <1>2, <2>1 DEF Before, Latest
  <2>2. CASE n # 0
    <3>1. n + 1 # 1 /\ (n + 1) - 1 = n /\ n \in 1..n
      BY <1>1, <2>2
    <3> QED BY <1>1, <1>2, <2>2, <3>1 DEF Before, Latest, n
  <2> QED BY <2>1, <2>2
<1>5. Latest(s, ms) = l.real
  BY <1>1 DEF Latest
<1>6. \A i \in DOMAIN ms : Tells(View(Before(s, ms, i)), ms[i], View(ms[i].real))
  <2> TAKE i \in DOMAIN ms
  <2>1. CASE i \in 1..n
    BY <1>1, <1>3, <2>1 DEF Chained
  <2>2. CASE i = n + 1
    BY <1>1, <1>4, <2>2 DEF Chained
  <2>3. i \in 1..n \/ i = n + 1
    BY <1>1
  <2> QED BY <2>1, <2>2, <2>3
<1> QED BY <1>5, <1>6 DEF Chained, ms

LEMMA FollowOn ==
  ASSUME NEW ls \in Seq(LineType), NEW l \in LineType, NamesFollow(ls),
         l.command = "JOIN" => l.from # l.real.me
  PROVE  NamesFollow(ls \o <<l>>)
<1> DEFINE ms == ls \o <<l>>
           n == Len(ls)
<1>1. /\ n \in Nat /\ DOMAIN ls = 1..n /\ DOMAIN ms = 1..(n + 1)
      /\ ms[n + 1] = l /\ \A i \in 1..n : ms[i] = ls[i]
  BY OneMore
<1> HIDE DEF ms, n
<1>2. \A i \in 1..n : NamesNext(ms, i)
  <2> TAKE i \in 1..n
  <2>1. i \in DOMAIN ls /\ (i + 1 \in DOMAIN ls => i + 1 \in 1..n /\ i + 1 \in DOMAIN ms)
    BY <1>1
  <2> QED BY <1>1, <2>1 DEF NamesFollow, NamesNext
<1>3. NamesNext(ms, n + 1)
  BY <1>1 DEF NamesNext
<1>4. \A i \in DOMAIN ms : i \in 1..n \/ i = n + 1
  BY <1>1
<1> QED BY <1>2, <1>3, <1>4 DEF NamesFollow, ms

LEMMA FollowTwo ==
  ASSUME NEW ls \in Seq(LineType), NEW l \in LineType, NEW m \in LineType, NamesFollow(ls),
         m.command = "353", m.channels = l.channels
  PROVE  NamesFollow((ls \o <<l>>) \o <<m>>)
<1> DEFINE ms == ls \o <<l>>
           ks == ms \o <<m>>
           n == Len(ls)
<1>1. /\ ms \in Seq(LineType) /\ Len(ms) = n + 1
      /\ n \in Nat /\ DOMAIN ls = 1..n /\ ms[n + 1] = l /\ \A i \in 1..n : ms[i] = ls[i]
  BY OneMore
<1> HIDE DEF ms
<1>2. /\ DOMAIN ks = 1..(Len(ms) + 1)
      /\ ks[Len(ms) + 1] = m /\ \A i \in 1..Len(ms) : ks[i] = ms[i]
  BY <1>1, OneMore
<1> HIDE DEF ks, n
<1>3. /\ \A i \in 1..n : ks[i] = ls[i] /\ i \in DOMAIN ks
      /\ ks[n + 1] = l /\ ks[(n + 1) + 1] = m /\ (n + 1) + 1 \in DOMAIN ks
      /\ \A i \in DOMAIN ks : i \in 1..n \/ i = n + 1 \/ i = (n + 1) + 1
  <2>1. \A i \in 1..n : i \in 1..(n + 1)
    BY <1>1
  <2>2. n + 1 \in 1..(n + 1) /\ (n + 1) + 1 \in 1..((n + 1) + 1) /\ \A i \in 1..n : i \in 1..((n + 1) + 1)
    BY <1>1
  <2>3. \A i \in 1..((n + 1) + 1) : i \in 1..n \/ i = n + 1 \/ i = (n + 1) + 1
    BY <1>1
  <2> QED BY <1>1, <1>2, <2>1, <2>2, <2>3
<1>4. \A i \in 1..n : NamesNext(ks, i)
  <2> TAKE i \in 1..n
  <2>1. i \in DOMAIN ls /\ (i + 1 \in DOMAIN ls => i + 1 \in 1..n)
    BY <1>1
  <2> QED BY <1>1, <1>3, <2>1 DEF NamesFollow, NamesNext
<1>5. NamesNext(ks, n + 1)
  BY <1>3 DEF NamesNext
<1>6. NamesNext(ks, (n + 1) + 1)
  BY <1>3 DEF NamesNext
<1> QED BY <1>3, <1>4, <1>5, <1>6 DEF NamesFollow, ks, ms

\* One line less.
LEMMA OneLess ==
  ASSUME NEW ls \in Seq(LineType), ls # <<>>
  PROVE  /\ Tail(ls) \in Seq(LineType) /\ Head(ls) \in LineType /\ Head(ls) = ls[1]
         /\ Len(ls) \in Nat \ {0} /\ DOMAIN ls = 1..Len(ls) /\ DOMAIN Tail(ls) = 1..(Len(ls) - 1)
         /\ Len(Tail(ls)) = Len(ls) - 1
         /\ \A i \in 1..(Len(ls) - 1) : Tail(ls)[i] = ls[i + 1]
<1>1. /\ Head(ls) \in LineType /\ Tail(ls) \in Seq(LineType) /\ Len(Tail(ls)) = Len(ls) - 1
      /\ \A i \in 1..Len(Tail(ls)) : Tail(ls)[i] = ls[i + 1]
  BY HeadTailProperties
<1>2. Len(ls) \in Nat \ {0} /\ DOMAIN ls = 1..Len(ls) /\ DOMAIN Tail(ls) = 1..Len(Tail(ls))
  BY <1>1, EmptySeq, LenProperties
<1> QED BY <1>1, <1>2

LEMMA ChainedOff ==
  ASSUME NEW s, NEW ls \in Seq(LineType), ls # <<>>, NEW now, Chained(s, ls, now)
  PROVE  /\ Tells(View(s), Head(ls), View(Head(ls).real))
         /\ Chained(Head(ls).real, Tail(ls), now)
<1> DEFINE ts == Tail(ls)
           n == Len(ls)
           r == Head(ls).real
<1>1. /\ ts \in Seq(LineType) /\ Head(ls) = ls[1] /\ n \in Nat \ {0} /\ DOMAIN ls = 1..n
      /\ DOMAIN ts = 1..(n - 1) /\ Len(ts) = n - 1 /\ \A i \in 1..(n - 1) : ts[i] = ls[i + 1]
  BY OneLess
<1>2. ts = <<>> <=> n - 1 = 0
  BY <1>1, EmptySeq
<1>3. Tells(View(s), Head(ls), View(r))
  <2>1. 1 \in DOMAIN ls /\ Before(s, ls, 1) = s
    BY <1>1 DEF Before
  <2>2. Tells(View(Before(s, ls, 1)), ls[1], View(ls[1].real))
    BY <2>1 DEF Chained
  <2> QED BY <1>1, <2>1, <2>2
<1>r. r = ls[1].real
  BY <1>1
<1> HIDE DEF ts, n, r
<1>4. \A i \in DOMAIN ts : Before(r, ts, i) = Before(s, ls, i + 1)
  <2> TAKE i \in DOMAIN ts
  <2>1. i + 1 # 1 /\ (i + 1) - 1 = i /\ (i # 1 => i - 1 \in 1..(n - 1) /\ (i - 1) + 1 = i)
    BY <1>1
  <2>2. Before(s, ls, i + 1) = ls[i].real
    BY <2>1 DEF Before
  <2>3. CASE i = 1
    BY <1>r, <2>2, <2>3 DEF Before
  <2>4. CASE i # 1
    BY <1>1, <2>1, <2>2, <2>4 DEF Before
  <2> QED BY <2>3, <2>4
<1>5. \A i \in DOMAIN ts : Tells(View(Before(r, ts, i)), ts[i], View(ts[i].real))
  <2> TAKE i \in DOMAIN ts
  <2>1. i + 1 \in DOMAIN ls /\ ts[i] = ls[i + 1]
    BY <1>1
  <2> QED BY <1>4, <2>1 DEF Chained
<1>6. Latest(r, ts) = Latest(s, ls)
  <2>1. CASE n - 1 = 0
    <3>1. n = 1
      BY <1>1, <2>1
    <3> QED BY <1>r, <1>2, <2>1, <3>1 DEF Latest, n
  <2>2. CASE n - 1 # 0
    <3>1. n - 1 \in 1..(n - 1) /\ (n - 1) + 1 = n
      BY <1>1, <2>2
    <3>2. ts[Len(ts)] = ls[n]
      BY <1>1, <3>1
    <3> QED BY <1>2, <2>2, <3>2 DEF Latest, n
  <2> QED BY <2>1, <2>2
<1>7. Chained(r, ts, now)
  BY <1>5, <1>6 DEF Chained
<1> QED BY <1>3, <1>7 DEF r, ts

LEMMA FollowOff ==
  ASSUME NEW ls \in Seq(LineType), ls # <<>>, NamesFollow(ls)
  PROVE  /\ NamesFollow(Tail(ls))
         /\ Head(ls).command = "JOIN" /\ Head(ls).from = Head(ls).real.me =>
              Pending(Tail(ls)) = Head(ls).channels
<1> DEFINE ts == Tail(ls)
           n == Len(ls)
<1>1. /\ ts \in Seq(LineType) /\ Head(ls) = ls[1] /\ n \in Nat \ {0} /\ DOMAIN ls = 1..n
      /\ DOMAIN ts = 1..(n - 1) /\ Len(ts) = n - 1 /\ \A i \in 1..(n - 1) : ts[i] = ls[i + 1]
  BY OneLess
<1> HIDE DEF ts, n
<1>2. NamesFollow(ts)
  <2> SUFFICES ASSUME NEW i \in DOMAIN ts PROVE NamesNext(ts, i)
    BY DEF NamesFollow
  <2>1. i + 1 \in DOMAIN ls /\ ts[i] = ls[i + 1]
    BY <1>1
  <2>2. (i + 1) + 1 \in DOMAIN ls => i + 1 \in DOMAIN ts /\ ts[i + 1] = ls[(i + 1) + 1]
    BY <1>1
  <2>3. NamesNext(ls, i + 1)
    BY <2>1 DEF NamesFollow
  <2> QED BY <2>1, <2>2, <2>3 DEF NamesNext
<1>3. ASSUME Head(ls).command = "JOIN", Head(ls).from = Head(ls).real.me
      PROVE  Pending(ts) = Head(ls).channels
  <2>1. 1 \in DOMAIN ls
    BY <1>1
  <2>2. 1 + 1 \in DOMAIN ls /\ ls[1 + 1].command = "353" /\ ls[1 + 1].channels = ls[1].channels
    BY <1>1, <1>3, <2>1 DEF NamesFollow, NamesNext
  <2>3. 1 \in 1..(n - 1)
    BY <1>1, <2>2
  <2>4. ts[1] = ls[1 + 1] /\ ts # <<>>
    BY <1>1, <2>3
  <2>5. Head(ts) = ts[1]
    BY <1>1, <2>4, OneLess
  <2> QED BY <1>1, <2>2, <2>4, <2>5 DEF Pending
<1> QED BY <1>2, <1>3 DEF ts

-----------------------------------------------------------------------------
(* What the server does *)

Typed == members' \in [Channels -> SUBSET Nicks] /\ me' \in Nicks

\* The server sends a line that tells of its change, or the two lines of the bot's JOIN,
\* or nothing when the bot sees no change.
SendsNothing == lines' = lines /\ View(Real) = View(Now)

SendsOne(l) ==
  /\ l \in LineType /\ l.real = Real /\ lines' = lines \o <<l>>
  /\ Tells(View(Now), l, View(Real))
  /\ l.command = "JOIN" => l.from # me'

SendsNames(l, m) ==
  /\ l \in LineType /\ l.real = Real /\ m \in LineType /\ m.real = Real
  /\ lines' = (lines \o <<l>>) \o <<m>>
  /\ Tells(View(Now), l, View(Real)) /\ Tells(View(Real), m, View(Real))
  /\ m.command = "353" /\ m.channels = l.channels

Told == SendsNothing \/ (\E l : SendsOne(l)) \/ (\E l, m : SendsNames(l, m))

LEMMA PendingOn ==
  ASSUME NEW ls \in Seq(LineType), NEW l \in LineType
  PROVE  Pending(ls) \subseteq Pending(ls \o <<l>>)
<1>1. CASE ls = <<>>
  BY <1>1 DEF Pending
<1>2. CASE ls # <<>>
  <2>1. Len(ls) \in Nat \ {0}
    BY <1>2, EmptySeq
  <2>2. (ls \o <<l>>)[1] = ls[1] /\ ls \o <<l>> # <<>> /\ ls \o <<l>> \in Seq(LineType)
    BY <2>1, OneMore
  <2>3. Head(ls \o <<l>>) = Head(ls)
    BY <1>2, <2>2, OneLess
  <2> QED BY <1>2, <2>2, <2>3 DEF Pending
<1> QED BY <1>1, <1>2

LEMMA NowIsReal == Now' = Real
BY DEF Now, Real

LEMMA ToldLeads ==
  ASSUME ServerTypes, LinesLead, Told, Typed, UNCHANGED <<users, current_nick, history>>
  PROVE  ServerTypes' /\ LinesLead' /\ (ListIsRight => ListIsRight') /\ lost' = lost
<1>1. /\ seen' = seen /\ lost' = lost /\ users' = users /\ current_nick' = current_nick
      /\ lines \in Seq(LineType) /\ Chained(seen, lines, Now) /\ NamesFollow(lines)
  BY DEF history, ServerTypes, LinesLead
<1> DEFINE Lead == /\ lines' \in Seq(LineType) /\ Chained(seen, lines', Real) /\ NamesFollow(lines')
                   /\ Pending(lines) \subseteq Pending(lines')
<1>2. Lead
  <2>1. CASE SendsNothing
    BY <1>1, <2>1 DEF SendsNothing, Chained
  <2>2. ASSUME NEW l, SendsOne(l) PROVE Lead
    <3>1. /\ l \in LineType /\ l.real = Real /\ lines' = lines \o <<l>>
          /\ Tells(View(Now), l, View(l.real)) /\ (l.command = "JOIN" => l.from # l.real.me)
      BY <2>2 DEF SendsOne, Real
    <3>2. lines \o <<l>> \in Seq(LineType)
      BY <1>1, <3>1, OneMore
    <3>3. Chained(seen, lines \o <<l>>, l.real)
      BY <1>1, <3>1, ChainedOn
    <3>4. NamesFollow(lines \o <<l>>)
      BY <1>1, <3>1, FollowOn
    <3>5. Pending(lines) \subseteq Pending(lines \o <<l>>)
      BY <1>1, <3>1, PendingOn
    <3> QED BY <3>1, <3>2, <3>3, <3>4, <3>5
  <2>3. ASSUME NEW l, NEW m, SendsNames(l, m) PROVE Lead
    <3> DEFINE ms == lines \o <<l>>
    <3>1. /\ l \in LineType /\ l.real = Real /\ m \in LineType /\ m.real = Real
          /\ lines' = ms \o <<m>>
          /\ Tells(View(Now), l, View(l.real)) /\ Tells(View(l.real), m, View(m.real))
          /\ m.command = "353" /\ m.channels = l.channels
      BY <2>3 DEF SendsNames
    <3>2. ms \in Seq(LineType)
      BY <1>1, <3>1, OneMore
    <3>3. Chained(seen, ms, l.real)
      BY <1>1, <3>1, ChainedOn
    <3>4. NamesFollow(ms \o <<m>>)
      BY <1>1, <3>1, FollowTwo
    <3>5. Pending(lines) \subseteq Pending(ms)
      BY <1>1, <3>1, PendingOn
    <3> HIDE DEF ms
    <3>6. ms \o <<m>> \in Seq(LineType)
      BY <3>1, <3>2, OneMore
    <3>7. Chained(seen, ms \o <<m>>, m.real)
      BY <3>1, <3>2, <3>3, ChainedOn
    <3>8. Pending(ms) \subseteq Pending(ms \o <<m>>)
      BY <3>1, <3>2, PendingOn
    <3> QED BY <3>1, <3>4, <3>5, <3>6, <3>7, <3>8
  <2> QED BY <2>1, <2>2, <2>3 DEF Told
<1>3. LinesLead'
  BY <1>1, <1>2, NowIsReal DEF LinesLead
<1>4. ServerTypes'
  BY <1>1, <1>2 DEF ServerTypes, Typed
<1>5. ASSUME ListIsRight PROVE ListIsRight'
  <2>1. HasItself(Entries(users), View(seen), Pending(lines'))
    BY <1>2, <1>5 DEF ListIsRight, HasItself
  <2> QED BY <1>1, <1>5, <2>1 DEF ListIsRight
<1> QED BY <1>1, <1>3, <1>4, <1>5

\* A line and its parts.
LEMMA LineIs ==
  ASSUME Typed, NEW command \in Commands, NEW from \in Nicks, NEW cs \in SUBSET Channels,
         NEW arg \in Nicks \cup SUBSET Nicks
  PROVE  LET l == Line(command, from, cs, arg)
         IN  /\ l \in LineType /\ l.command = command /\ l.from = from /\ l.channels = cs
             /\ l.arg = arg /\ l.real = Real
<1>1. Real \in Snapshot
  BY DEF Typed, Real, Snapshot
<1> QED BY <1>1 DEF Line, LineType

\* What is seen in each channel, now and after the step.
LEMMA Views ==
  /\ View(Now).me = me /\ View(Real).me = me'
  /\ \A d \in Channels :
       /\ View(Now).vis[d] = IF me \in members[d] THEN members[d] ELSE {}
       /\ View(Real).vis[d] = IF me' \in members'[d] THEN members'[d] ELSE {}
<1>1. Now.me = me /\ Now.members = members /\ Real.me = me' /\ Real.members = members'
  BY DEF Now, Real
<1> QED BY <1>1, ViewIs DEF Vis

LEMMA Nothing ==
  ASSUME me' = me,
         \A d \in Channels :
           (IF me \in members[d] THEN members[d] ELSE {}) = (IF me' \in members'[d] THEN members'[d] ELSE {})
  PROVE  View(Real) = View(Now)
<1>1. Now.me = me /\ Now.members = members /\ Real.me = me' /\ Real.members = members'
  BY DEF Now, Real
<1> QED BY <1>1, SameView DEF Vis

LEMMA SentIs ==
  ASSUME lines \in Seq(LineType)
  PROVE  /\ lines \o <<>> = lines
         /\ \A l, m \in LineType : lines \o <<l, m>> = (lines \o <<l>>) \o <<m>>
<1>1. ASSUME NEW l \in LineType, NEW m \in LineType
      PROVE  lines \o <<l, m>> = (lines \o <<l>>) \o <<m>>
  <2>1. <<l>> \in Seq(LineType) /\ <<m>> \in Seq(LineType)
    OBVIOUS
  <2>2. <<l>> \o <<m>> = <<l, m>>
    <3>1. <<l, m>> \in Seq(LineType) /\ Len(<<l, m>>) = 2 /\ <<l, m>>[1] = l /\ <<l, m>>[2] = m
      OBVIOUS
    <3>2. /\ <<l>> \o <<m>> \in Seq(LineType) /\ Len(<<l>> \o <<m>>) = 2
          /\ (<<l>> \o <<m>>)[1] = l /\ (<<l>> \o <<m>>)[2] = m
      BY <2>1, ConcatProperties
    <3>3. \A i \in 1..2 : i = 1 \/ i = 2
      OBVIOUS
    <3> QED BY <3>1, <3>2, <3>3, SeqEqual
  <2>3. (lines \o <<l>>) \o <<m>> = lines \o (<<l>> \o <<m>>)
    BY <2>1, ConcatAssociative
  <2> QED BY <2>2, <2>3
<1> QED BY <1>1, ConcatEmptySeq

LEMMA JoinsTold ==
  ASSUME ServerTypes, NEW n \in Nicks, NEW c \in Channels, UserJoins(n, c)
  PROVE  Told /\ Typed
<1>1. /\ n # me /\ n \notin members[c] /\ members' = [members EXCEPT ![c] = @ \cup {n}] /\ me' = me
      /\ lines' = lines \o IF me \in members[c] THEN <<Line("JOIN", n, {c}, n)>> ELSE <<>>
  BY DEF UserJoins, Send
<1>2. Typed
  BY <1>1 DEF Typed, ServerTypes
<1>3. lines \in Seq(LineType) /\ members \in [Channels -> SUBSET Nicks]
  BY DEF ServerTypes
<1>4. \A d \in Channels : members'[d] = IF d = c THEN members[c] \cup {n} ELSE members[d]
  BY <1>1, <1>3
<1>5. CASE me \in members[c]
  <2> DEFINE l == Line("JOIN", n, {c}, n)
  <2>1. /\ l \in LineType /\ l.command = "JOIN" /\ l.from = n /\ l.channels = {c}
        /\ l.arg = n /\ l.real = Real
    <3>1. {c} \in SUBSET Channels /\ n \in Nicks \cup SUBSET Nicks /\ "JOIN" \in Commands
      BY DEF Commands
    <3> QED BY <1>2, <3>1, LineIs
  <2>2. lines' = lines \o <<l>>
    BY <1>1, <1>5
  <2> HIDE DEF l
  <2>3. Joined(View(Now), l, View(Real))
    <3>1. (l.from = View(Now).me) = (View(Now).vis[c] = {})
      BY <1>1, <1>5, <2>1, Views
    <3>2. View(Real).me = View(Now).me /\ l.from \in View(Real).vis[c]
      BY <1>1, <1>4, <1>5, <2>1, Views
    <3>3. \A d \in Channels : /\ View(Now).vis[d] \subseteq View(Real).vis[d]
                              /\ d # c => View(Real).vis[d] = View(Now).vis[d]
      BY <1>1, <1>4, Views
    <3> QED BY <2>1, <3>1, <3>2, <3>3 DEF Joined
  <2>4. SendsOne(l)
    BY <1>1, <2>1, <2>2, <2>3 DEF SendsOne, Tells
  <2> QED BY <1>2, <2>4 DEF Told
<1>6. CASE me \notin members[c]
  <2>1. View(Real) = View(Now)
    BY <1>1, <1>4, <1>6, Nothing
  <2>2. lines' = lines
    BY <1>1, <1>3, <1>6, SentIs
  <2> QED BY <1>2, <2>1, <2>2 DEF Told, SendsNothing
<1> QED BY <1>5, <1>6

LEMMA LeavesTold ==
  ASSUME ServerTypes, NEW n \in Nicks, NEW c \in Channels, NEW command \in {"PART", "KICK"},
         Leaves(n, c, command)
  PROVE  Told /\ Typed
<1>1. /\ n \in members[c] /\ members' = [members EXCEPT ![c] = @ \ {n}] /\ me' = me
      /\ lines' = lines \o IF me \in members[c] THEN <<Line(command, n, {c}, n)>> ELSE <<>>
  BY DEF Leaves, Send
<1>2. Typed
  BY <1>1 DEF Typed, ServerTypes
<1>3. lines \in Seq(LineType) /\ members \in [Channels -> SUBSET Nicks]
  BY DEF ServerTypes
<1>4. \A d \in Channels : members'[d] = IF d = c THEN members[c] \ {n} ELSE members[d]
  BY <1>1, <1>3
<1>5. CASE me \in members[c]
  <2> DEFINE l == Line(command, n, {c}, n)
  <2>1. /\ l \in LineType /\ l.command = command /\ l.from = n /\ l.channels = {c}
        /\ l.arg = n /\ l.real = Real
    <3>1. {c} \in SUBSET Channels /\ n \in Nicks \cup SUBSET Nicks
      OBVIOUS
    <3>3. command \in Commands
      BY DEF Commands
    <3> QED BY <1>2, <3>1, <3>3, LineIs
  <2>2. lines' = lines \o <<l>>
    BY <1>1, <1>5
  <2> HIDE DEF l
  <2>3. Left(View(Now), l, View(Real))
    <3>1. \A d \in Channels :
            View(Real).vis[d] = IF d # c THEN View(Now).vis[d]
                                ELSE IF n = View(Now).me THEN {} ELSE View(Now).vis[d] \ {n}
      <4> TAKE d \in Channels
      <4>1. CASE d # c
        BY <1>1, <1>4, <4>1, Views
      <4>2. CASE d = c /\ n = me
        BY <1>1, <1>4, <4>2, Views
      <4>3. CASE d = c /\ n # me
        <5>1. members'[d] = members[d] \ {n} /\ me \in members[d] /\ me \in members'[d]
          BY <1>4, <1>5, <4>3
        <5> QED BY <1>1, <4>3, <5>1, Views
      <4> QED BY <4>1, <4>2, <4>3
    <3>2. View(Real).me = View(Now).me /\ View(Now).me = me
      BY <1>1, Views
    <3> QED BY <2>1, <3>1, <3>2 DEF Left
  <2>4. SendsOne(l)
    BY <2>1, <2>2, <2>3 DEF SendsOne, Tells
  <2> QED BY <1>2, <2>4 DEF Told
<1>6. CASE me \notin members[c]
  <2>1. View(Real) = View(Now)
    BY <1>1, <1>4, <1>6, Nothing
  <2>2. lines' = lines
    BY <1>1, <1>3, <1>6, SentIs
  <2> QED BY <1>2, <2>1, <2>2 DEF Told, SendsNothing
<1> QED BY <1>5, <1>6

LEMMA QuitsTold ==
  ASSUME ServerTypes, NEW n \in Nicks, UserQuits(n)
  PROVE  Told /\ Typed
<1>1. /\ n # me /\ members' = [c \in Channels |-> members[c] \ {n}] /\ me' = me
      /\ lines' = lines \o IF Shares(n) THEN <<Line("QUIT", n, {}, n)>> ELSE <<>>
  BY DEF UserQuits, Send
<1>2. Typed
  BY <1>1 DEF Typed, ServerTypes
<1>3. lines \in Seq(LineType)
  BY DEF ServerTypes
<1>4. \A d \in Channels : members'[d] = members[d] \ {n}
  BY <1>1
<1>5. CASE Shares(n)
  <2> DEFINE l == Line("QUIT", n, {}, n)
  <2>1. /\ l \in LineType /\ l.command = "QUIT" /\ l.from = n /\ l.real = Real
    <3>1. {} \in SUBSET Channels /\ n \in Nicks \cup SUBSET Nicks /\ "QUIT" \in Commands
      BY DEF Commands
    <3> QED BY <1>2, <3>1, LineIs
  <2>2. lines' = lines \o <<l>>
    BY <1>1, <1>5
  <2> HIDE DEF l
  <2>3. Quitted(View(Now), l, View(Real))
    BY <1>1, <1>4, <2>1, Views DEF Quitted
  <2>4. SendsOne(l)
    BY <2>1, <2>2, <2>3 DEF SendsOne, Tells
  <2> QED BY <1>2, <2>4 DEF Told
<1>6. CASE ~Shares(n)
  <2>1. \A d \in Channels : me \in members[d] => n \notin members[d]
    BY <1>6 DEF Shares
  <2>2. View(Real) = View(Now)
    BY <1>1, <1>4, <2>1, Nothing
  <2>3. lines' = lines
    BY <1>1, <1>3, <1>6, SentIs
  <2> QED BY <1>2, <2>2, <2>3 DEF Told, SendsNothing
<1> QED BY <1>5, <1>6

LEMMA RenamesTold ==
  ASSUME ServerTypes, NEW n \in Nicks, NEW m \in Nicks, Renames(n, m)
  PROVE  Told /\ Typed
<1>1. /\ m \notin Present /\ me' = (IF n = me THEN m ELSE me)
      /\ members' = [c \in Channels |-> IF n \in members[c] THEN (members[c] \ {n}) \cup {m} ELSE members[c]]
      /\ lines' = lines \o IF Shares(n) \/ n = me THEN <<Line("NICK", n, {}, m)>> ELSE <<>>
  BY DEF Renames, Send
<1>2. members \in [Channels -> SUBSET Nicks] /\ me \in Nicks /\ lines \in Seq(LineType)
  BY DEF ServerTypes
<1>3. Typed
  BY <1>1, <1>2 DEF Typed
<1>4. \A d \in Channels : members'[d] = IF n \in members[d] THEN (members[d] \ {n}) \cup {m} ELSE members[d]
  BY <1>1
<1>5. m # me /\ \A d \in Channels : m \notin members[d]
  <2>1. ASSUME NEW d \in Channels, m \in members[d] PROVE m \in Present
    BY <2>1 DEF Present
  <2>2. me \in Present
    BY DEF Present
  <2> QED BY <1>1, <2>1, <2>2
<1>6. CASE Shares(n) \/ n = me
  <2> DEFINE l == Line("NICK", n, {}, m)
  <2>1. /\ l \in LineType /\ l.command = "NICK" /\ l.from = n /\ l.arg = m /\ l.real = Real
    <3>1. {} \in SUBSET Channels /\ m \in Nicks \cup SUBSET Nicks /\ "NICK" \in Commands
      BY DEF Commands
    <3> QED BY <1>3, <3>1, LineIs
  <2>2. lines' = lines \o <<l>>
    BY <1>1, <1>6
  <2> HIDE DEF l
  <2>3. NickTaken(View(Now), l, View(Real))
    <3>1. \A d \in Channels : m \notin View(Now).vis[d]
      BY <1>5, Views
    <3>2. \A d \in Channels :
            View(Real).vis[d] = IF n \in View(Now).vis[d] THEN (View(Now).vis[d] \ {n}) \cup {m}
                                ELSE View(Now).vis[d]
      <4> TAKE d \in Channels
      <4>1. CASE n = me
        BY <1>1, <1>4, <1>5, <4>1, Views
      <4>2. CASE n # me
        BY <1>1, <1>4, <1>5, <4>2, Views
      <4> QED BY <4>1, <4>2
    <3> QED BY <1>1, <1>5, <2>1, <3>1, <3>2, Views DEF NickTaken
  <2>4. SendsOne(l)
    BY <2>1, <2>2, <2>3 DEF SendsOne, Tells
  <2> QED BY <1>3, <2>4 DEF Told
<1>7. CASE ~(Shares(n) \/ n = me)
  <2>1. \A d \in Channels : me \in members[d] => n \notin members[d]
    BY <1>7 DEF Shares
  <2>2. View(Real) = View(Now)
    BY <1>1, <1>4, <1>5, <1>7, <2>1, Nothing
  <2>3. lines' = lines
    BY <1>1, <1>2, <1>7, SentIs
  <2> QED BY <1>3, <2>2, <2>3 DEF Told, SendsNothing
<1> QED BY <1>6, <1>7

LEMMA AdmitsTold ==
  ASSUME ServerTypes, NEW c \in Channels, AdmitBot(c)
  PROVE  Told /\ Typed
<1>1. /\ members' = [members EXCEPT ![c] = @ \cup {me}] /\ me' = me
      /\ lines' = lines \o IF me \in members[c] THEN <<>>
                           ELSE <<Line("JOIN", me, {c}, me), Line("353", me, {c}, members'[c])>>
  BY DEF AdmitBot, Send
<1>2. members \in [Channels -> SUBSET Nicks] /\ me \in Nicks /\ lines \in Seq(LineType)
  BY DEF ServerTypes
<1>3. Typed
  BY <1>1, <1>2 DEF Typed
<1>4. \A d \in Channels : members'[d] = IF d = c THEN members[c] \cup {me} ELSE members[d]
  BY <1>1, <1>2
<1>5. CASE me \notin members[c]
  <2> DEFINE l == Line("JOIN", me, {c}, me)
             m == Line("353", me, {c}, members'[c])
  <2>1. /\ l \in LineType /\ l.command = "JOIN" /\ l.from = me /\ l.channels = {c} /\ l.real = Real
    <3>1. {c} \in SUBSET Channels /\ me \in Nicks \cup SUBSET Nicks /\ "JOIN" \in Commands
      BY <1>2 DEF Commands
    <3> QED BY <1>2, <1>3, <3>1, LineIs
  <2>2. /\ m \in LineType /\ m.command = "353" /\ m.channels = {c} /\ m.arg = members'[c] /\ m.real = Real
    <3>1. members'[c] \in Nicks \cup SUBSET Nicks /\ {c} \in SUBSET Channels /\ "353" \in Commands
      BY <1>3 DEF Typed, Commands
    <3> QED BY <1>2, <1>3, <3>1, LineIs
  <2>3. lines' = lines \o <<l, m>>
    BY <1>1, <1>5
  <2> HIDE DEF l, m
  <2>4. lines' = (lines \o <<l>>) \o <<m>>
    BY <1>2, <2>1, <2>2, <2>3, SentIs
  <2>5. Joined(View(Now), l, View(Real))
    <3>1. (l.from = View(Now).me) = (View(Now).vis[c] = {})
      BY <1>1, <1>5, <2>1, Views
    <3>2. View(Real).me = View(Now).me /\ l.from \in View(Real).vis[c]
      BY <1>1, <1>4, <1>5, <2>1, Views
    <3>3. \A d \in Channels : /\ View(Now).vis[d] \subseteq View(Real).vis[d]
                              /\ d # c => View(Real).vis[d] = View(Now).vis[d]
      BY <1>1, <1>4, <1>5, Views
    <3> QED BY <2>1, <3>1, <3>2, <3>3 DEF Joined
  <2>6. Named(View(Real), m, View(Real))
    <3>1. View(Real).vis[c] = members'[c]
      <4>1. me' \in members'[c]
        BY <1>1, <1>4
      <4> QED BY <4>1, Views
    <3> QED BY <2>2, <3>1 DEF Named
  <2>7. SendsNames(l, m)
    BY <2>1, <2>2, <2>4, <2>5, <2>6 DEF SendsNames, Tells
  <2> QED BY <1>3, <2>7 DEF Told
<1>6. CASE me \in members[c]
  <2>1. View(Real) = View(Now)
    BY <1>1, <1>4, <1>6, Nothing
  <2>2. lines' = lines
    BY <1>1, <1>2, <1>6, SentIs
  <2> QED BY <1>3, <2>1, <2>2 DEF Told, SendsNothing
<1> QED BY <1>5, <1>6

-----------------------------------------------------------------------------
(* What the bot does with a line *)

\* The entries are right for a view, but for the bot itself in the pending channels.
Right(es, v, pending) == NoneIsAGhost(es, v) /\ HasItself(es, v, pending)

LEMMA JoinKeepsRight ==
  ASSUME NEW es \in SUBSET User, NEW v, NEW w, NEW l, NEW pending, NEW c \in Channels,
         Right(es, v, {}), Joined(v, l, w), l.channels = {c}, l.from = w.me => c \in pending
  PROVE  Right(JoinedOf(es, l.from, c), w, pending)
<1> DEFINE js == JoinedOf(es, l.from, c)
<1>1. /\ w.me = v.me /\ l.from \in w.vis[c] /\ (l.from = v.me) = (v.vis[c] = {})
      /\ \A d \in Channels : v.vis[d] \subseteq w.vis[d] /\ (d # c => w.vis[d] = v.vis[d])
  BY DEF Joined
<1>2. js = es \/ js = es \cup {Alone(l.from, c)}
  BY DEF JoinedOf
<1>3. Alone(l.from, c).local_id = l.from /\ Alone(l.from, c).channels = {c}
  BY DEF Alone
<1> HIDE DEF js
<1>4. NoneIsAGhost(js, w)
  <2>1. \A u \in es : u.channels # {} /\ \A d \in u.channels : d \in Channels /\ u.local_id \in v.vis[d]
    BY DEF Right, NoneIsAGhost, User
  <2>2. \A u \in es : u.channels # {} /\ \A d \in u.channels : u.local_id \in w.vis[d]
    BY <1>1, <2>1
  <2> QED BY <1>1, <1>2, <1>3, <2>2 DEF NoneIsAGhost
<1>5. HasItself(js, w, pending)
  <2> SUFFICES ASSUME NEW d \in Channels, w.vis[d] # {}, d \notin pending
               PROVE  \E u \in js : u.local_id = w.me /\ d \in u.channels
    BY DEF HasItself
  <2>1. v.vis[d] # {}
    BY <1>1
  <2>2. PICK u \in es : u.local_id = v.me /\ d \in u.channels
    BY <2>1 DEF Right, HasItself
  <2> QED BY <1>1, <1>2, <2>2
<1> QED BY <1>4, <1>5 DEF Right, js

LEMMA NamesKeepRight ==
  ASSUME NEW es \in SUBSET User, NEW v, NEW pending, NEW c \in Channels,
         Right(es, v, {c}), \A d \in Channels : v.vis[d] # {} => v.me \in v.vis[d]
  PROVE  Right(NamedOf(es, v.vis[c], c), v, pending)
<1> DEFINE names == v.vis[c]
           ns == NamedOf(es, names, c)
           A == {u \in es : u.local_id \notin names}
           B == {With(u, c) : u \in {e \in es : e.local_id \in names}}
           C == {Alone(n, c) : n \in {m \in names : \A e \in es : e.local_id # m}}
<1>1. ns = (A \cup B) \cup C
  BY DEF NamedOf
<1>2. \A u \in es : u.channels # {} /\ \A d \in u.channels : u.local_id \in v.vis[d]
  BY DEF Right, NoneIsAGhost
<1>3. NoneIsAGhost(ns, v)
  <2>1. \A u \in A : u.channels # {} /\ \A d \in u.channels : u.local_id \in v.vis[d]
    BY <1>2
  <2>2. \A u \in B : u.channels # {} /\ \A d \in u.channels : u.local_id \in v.vis[d]
    <3> SUFFICES ASSUME NEW e \in es, e.local_id \in names
                 PROVE  /\ With(e, c).channels # {}
                        /\ \A d \in With(e, c).channels : With(e, c).local_id \in v.vis[d]
      OBVIOUS
    <3>1. With(e, c).local_id = e.local_id /\ With(e, c).channels = e.channels \cup {c}
      BY DEF With
    <3> QED BY <1>2, <3>1
  <2>3. \A u \in C : u.channels # {} /\ \A d \in u.channels : u.local_id \in v.vis[d]
    <3> SUFFICES ASSUME NEW n \in names
                 PROVE  /\ Alone(n, c).channels # {}
                        /\ \A d \in Alone(n, c).channels : Alone(n, c).local_id \in v.vis[d]
      OBVIOUS
    <3>1. Alone(n, c).local_id = n /\ Alone(n, c).channels = {c}
      BY DEF Alone
    <3> QED BY <3>1
  <2> HIDE DEF ns, A, B, C
  <2> QED BY <1>1, <2>1, <2>2, <2>3 DEF NoneIsAGhost
<1>4. HasItself(ns, v, pending)
  <2> SUFFICES ASSUME NEW d \in Channels, v.vis[d] # {}
               PROVE  \E u \in ns : u.local_id = v.me /\ d \in u.channels
    BY DEF HasItself
  <2>1. v.me \in v.vis[d]
    OBVIOUS
  <2>2. ASSUME NEW e \in es, e.local_id = v.me, d \in e.channels \cup {c},
               d \in e.channels \/ v.me \in names
        PROVE  \E u \in ns : u.local_id = v.me /\ d \in u.channels
    <3>1. With(e, c).local_id = e.local_id /\ With(e, c).channels = e.channels \cup {c}
      BY DEF With
    <3>2. CASE v.me \in names
      <4>1. With(e, c) \in B
        BY <2>2, <3>2
      <4> QED BY <1>1, <2>2, <3>1, <4>1
    <3>3. CASE v.me \notin names
      <4>1. e \in A
        BY <2>2, <3>3
      <4> QED BY <1>1, <2>2, <3>3, <4>1
    <3> QED BY <3>2, <3>3
  <2>3. CASE d # c
    <3>1. PICK e \in es : e.local_id = v.me /\ d \in e.channels
      BY <2>3 DEF Right, HasItself
    <3> QED BY <2>2, <3>1
  <2>4. CASE d = c /\ \E e \in es : e.local_id = v.me
    BY <2>1, <2>2, <2>4
  <2>5. CASE d = c /\ \A e \in es : e.local_id # v.me
    <3>1. Alone(v.me, c) \in C
      BY <2>1, <2>5
    <3>2. Alone(v.me, c).local_id = v.me /\ Alone(v.me, c).channels = {c}
      BY DEF Alone
    <3> QED BY <1>1, <2>5, <3>1, <3>2
  <2> QED BY <2>3, <2>4, <2>5
<1> QED BY <1>3, <1>4 DEF Right

LEMMA LeavingKeepsRight ==
  ASSUME NEW es \in SUBSET User, NEW v, NEW w, NEW l, NEW pending, NEW c \in Channels,
         Right(es, v, {}), Left(v, l, w), l.channels = {c}
  PROVE  /\ l.from # v.me => Right(DroppedOf(es, l.from, {c}), w, pending)
         /\ l.from = v.me => Right(EmptiedOf(es, {c}), w, pending)
<1>1. /\ w.me = v.me
      /\ \A d \in Channels : w.vis[d] = IF d # c THEN v.vis[d]
                                        ELSE IF l.from = v.me THEN {} ELSE v.vis[d] \ {l.from}
  BY DEF Left
<1>2. /\ \A u \in es : u.channels # {} /\ \A d \in u.channels : d \in Channels /\ u.local_id \in v.vis[d]
      /\ \A d \in Channels : v.vis[d] # {} => \E u \in es : u.local_id = v.me /\ d \in u.channels
  BY DEF Right, NoneIsAGhost, HasItself, User
<1>3. \A u : Rest(u, {c}).local_id = u.local_id /\ Rest(u, {c}).channels = u.channels \ {c}
  BY DEF Rest
<1>4. ASSUME l.from # v.me PROVE Right(DroppedOf(es, l.from, {c}), w, pending)
  <2> DEFINE A == {u \in es : u.local_id # l.from}
             B == {Rest(u, {c}) : u \in {e \in es : e.local_id = l.from /\ ~(e.channels \subseteq {c})}}
  <2>1. \A u \in A : u.channels # {} /\ \A d \in u.channels : u.local_id \in w.vis[d]
    BY <1>1, <1>2, <1>4
  <2>2. \A u \in B : u.channels # {} /\ \A d \in u.channels : u.local_id \in w.vis[d]
    <3> SUFFICES ASSUME NEW e \in es, ~(e.channels \subseteq {c})
                 PROVE  /\ Rest(e, {c}).channels # {}
                        /\ \A d \in Rest(e, {c}).channels : Rest(e, {c}).local_id \in w.vis[d]
      OBVIOUS
    <3> QED BY <1>1, <1>2, <1>3, ZenonT(40)
  <2>3. \A d \in Channels : w.vis[d] # {} => \E u \in A : u.local_id = w.me /\ d \in u.channels
    <3> TAKE d \in Channels
    <3>1. w.vis[d] # {} => v.vis[d] # {}
      BY <1>1
    <3> QED BY <1>1, <1>2, <1>4, <3>1
  <2> HIDE DEF A, B
  <2>4. Right(A \cup B, w, pending)
    BY <2>1, <2>2, <2>3 DEF Right, NoneIsAGhost, HasItself
  <2> QED BY <2>4 DEF A, B, DroppedOf
<1>5. ASSUME l.from = v.me PROVE Right(EmptiedOf(es, {c}), w, pending)
  <2> DEFINE B == {Rest(u, {c}) : u \in {e \in es : ~(e.channels \subseteq {c})}}
  <2>1. \A u \in B : u.channels # {} /\ \A d \in u.channels : u.local_id \in w.vis[d]
    <3> SUFFICES ASSUME NEW e \in es, ~(e.channels \subseteq {c})
                 PROVE  /\ Rest(e, {c}).channels # {}
                        /\ \A d \in Rest(e, {c}).channels : Rest(e, {c}).local_id \in w.vis[d]
      OBVIOUS
    <3> QED BY <1>1, <1>2, <1>3, ZenonT(40)
  <2>2. \A d \in Channels : w.vis[d] # {} => \E u \in B : u.local_id = w.me /\ d \in u.channels
    <3> SUFFICES ASSUME NEW d \in Channels, w.vis[d] # {}
                 PROVE  \E u \in B : u.local_id = w.me /\ d \in u.channels
      OBVIOUS
    <3>1. d # c /\ v.vis[d] # {}
      BY <1>1, <1>5
    <3>2. PICK e \in es : e.local_id = v.me /\ d \in e.channels
      BY <1>2, <3>1
    <3>3. Rest(e, {c}) \in B
      BY <3>1, <3>2
    <3> QED BY <1>1, <1>3, <3>1, <3>2, <3>3, ZenonT(40)
  <2> HIDE DEF B
  <2>3. Right(B, w, pending)
    BY <2>1, <2>2 DEF Right, NoneIsAGhost, HasItself
  <2> QED BY <2>3 DEF B, EmptiedOf
<1> QED BY <1>4, <1>5

LEMMA QuitKeepsRight ==
  ASSUME NEW es \in SUBSET User, NEW v, NEW w, NEW l, NEW pending,
         Right(es, v, {}), Quitted(v, l, w)
  PROVE  Right({u \in es : u.local_id # l.from}, w, pending)
<1> DEFINE A == {u \in es : u.local_id # l.from}
<1>1. l.from # v.me /\ w.me = v.me /\ \A d \in Channels : w.vis[d] = v.vis[d] \ {l.from}
  BY DEF Quitted
<1>2. /\ \A u \in es : u.channels # {} /\ \A d \in u.channels : d \in Channels /\ u.local_id \in v.vis[d]
      /\ \A d \in Channels : v.vis[d] # {} => \E u \in es : u.local_id = v.me /\ d \in u.channels
  BY DEF Right, NoneIsAGhost, HasItself, User
<1>3. \A u \in A : u.channels # {} /\ \A d \in u.channels : u.local_id \in w.vis[d]
  BY <1>1, <1>2
<1>4. \A d \in Channels : w.vis[d] # {} => \E u \in A : u.local_id = w.me /\ d \in u.channels
  <2> TAKE d \in Channels
  <2>1. w.vis[d] # {} => v.vis[d] # {}
    BY <1>1
  <2> QED BY <1>1, <1>2, <2>1
<1> HIDE DEF A
<1>5. Right(A, w, pending)
  BY <1>3, <1>4 DEF Right, NoneIsAGhost, HasItself
<1> QED BY <1>5 DEF A

LEMMA NickKeepsRight ==
  ASSUME NEW es \in SUBSET User, NEW v, NEW w, NEW l, NEW pending,
         Right(es, v, {}), NickTaken(v, l, w)
  PROVE  /\ \A u \in es : u.local_id # l.arg
         /\ Right(RenamedOf(es, l.from, l.arg), w, pending)
<1> DEFINE A == {u \in es : u.local_id # l.from}
           B == {Called(u, l.arg) : u \in {e \in es : e.local_id = l.from}}
<1>1. /\ \A d \in Channels : l.arg \notin v.vis[d]
      /\ w.me = IF l.from = v.me THEN l.arg ELSE v.me
      /\ \A d \in Channels :
           w.vis[d] = IF l.from \in v.vis[d] THEN (v.vis[d] \ {l.from}) \cup {l.arg} ELSE v.vis[d]
  BY DEF NickTaken
<1>2. /\ \A u \in es : u.channels # {} /\ \A d \in u.channels : d \in Channels /\ u.local_id \in v.vis[d]
      /\ \A d \in Channels : v.vis[d] # {} => \E u \in es : u.local_id = v.me /\ d \in u.channels
  BY DEF Right, NoneIsAGhost, HasItself, User
<1>3. \A u : Called(u, l.arg).local_id = l.arg /\ Called(u, l.arg).channels = u.channels
  BY DEF Called
<1>4. \A u \in es : u.local_id # l.arg
  BY <1>1, <1>2
<1>5. \A u \in A : u.channels # {} /\ \A d \in u.channels : u.local_id \in w.vis[d]
  BY <1>1, <1>2
<1>6. \A u \in B : u.channels # {} /\ \A d \in u.channels : u.local_id \in w.vis[d]
  <2> SUFFICES ASSUME NEW e \in es, e.local_id = l.from
               PROVE  /\ Called(e, l.arg).channels # {}
                      /\ \A d \in Called(e, l.arg).channels : Called(e, l.arg).local_id \in w.vis[d]
    OBVIOUS
  <2>1. e.channels # {} /\ \A d \in e.channels : d \in Channels /\ l.from \in v.vis[d]
    BY <1>2
  <2> QED BY <1>1, <1>3, <2>1, ZenonT(40)
<1>7. \A d \in Channels : w.vis[d] # {} => \E u \in A \cup B : u.local_id = w.me /\ d \in u.channels
  <2> SUFFICES ASSUME NEW d \in Channels, w.vis[d] # {}
               PROVE  \E u \in A \cup B : u.local_id = w.me /\ d \in u.channels
    OBVIOUS
  <2>1. v.vis[d] # {}
    BY <1>1
  <2>2. PICK e \in es : e.local_id = v.me /\ d \in e.channels
    BY <1>2, <2>1
  <2>3. CASE l.from = v.me
    <3>1. Called(e, l.arg) \in B
      BY <2>2, <2>3
    <3> QED BY <1>1, <1>3, <2>2, <2>3, <3>1
  <2>4. CASE l.from # v.me
    <3>1. e \in A
      BY <2>2, <2>4
    <3> QED BY <1>1, <2>2, <2>4, <3>1
  <2> QED BY <2>3, <2>4
<1> HIDE DEF A, B
<1>8. Right(A \cup B, w, pending)
  BY <1>5, <1>6, <1>7 DEF Right, NoneIsAGhost, HasItself
<1> QED BY <1>4, <1>8 DEF A, B, RenamedOf

-----------------------------------------------------------------------------
(* The invariant *)

LEMMA Received ==
  ASSUME ServerTypes, LinesLead, NEW command, Receive(command), lost' \in BOOLEAN
  PROVE  /\ ServerTypes' /\ LinesLead'
         /\ Head(lines) \in LineType /\ Head(lines).command = command
         /\ View(seen').me = seen'.me /\ View(seen).me = seen.me
         /\ Tells(View(seen), Head(lines), View(seen'))
         /\ Pending(lines) = IF command = "353" THEN Head(lines).channels ELSE {}
         /\ command = "JOIN" /\ Head(lines).from = seen'.me => Pending(lines') = Head(lines).channels
<1>1. /\ lines # <<>> /\ Head(lines).command = command /\ lines' = Tail(lines)
      /\ seen' = Head(lines).real /\ members' = members /\ me' = me
  BY DEF Receive, serverVars
<1>2. lines \in Seq(LineType) /\ Chained(seen, lines, Now) /\ NamesFollow(lines)
  BY DEF ServerTypes, LinesLead
<1>3. Tail(lines) \in Seq(LineType) /\ Head(lines) \in LineType
  BY <1>1, <1>2, OneLess
<1>4. Tells(View(seen), Head(lines), View(Head(lines).real)) /\ Chained(Head(lines).real, Tail(lines), Now)
  BY <1>1, <1>2, ChainedOff
<1>5. /\ NamesFollow(Tail(lines))
      /\ Head(lines).command = "JOIN" /\ Head(lines).from = Head(lines).real.me =>
           Pending(Tail(lines)) = Head(lines).channels
  BY <1>1, <1>2, FollowOff
<1>6. Now' = Now
  BY <1>1 DEF Now
<1>7. LinesLead'
  BY <1>1, <1>4, <1>5, <1>6 DEF LinesLead
<1>8. ServerTypes'
  <2>1. Head(lines).real \in Snapshot
    BY <1>3 DEF LineType
  <2> QED BY <1>1, <1>3, <2>1 DEF ServerTypes
<1>9. Pending(lines) = IF command = "353" THEN Head(lines).channels ELSE {}
  BY <1>1 DEF Pending
<1>10. View(seen').me = seen'.me /\ View(seen).me = seen.me
  BY ViewIs
<1> QED BY <1>1, <1>3, <1>4, <1>5, <1>7, <1>8, <1>9, <1>10

LEMMA RightIs ==
  /\ ListIsRight =>
       /\ users \in Seq(User) /\ Distinct(users) /\ current_nick = seen.me
       /\ Entries(users) \in SUBSET User
       /\ Right(Entries(users), View(seen), Pending(lines))
  /\ \A es : ListOf(users', es) /\ current_nick' = seen'.me /\ Right(es, View(seen'), Pending(lines')) =>
       ListIsRight'
<1>1. ListIsRight => Entries(users) \in SUBSET User
  BY OfUsers DEF ListIsRight
<1> QED BY <1>1 DEF ListIsRight, Right, ListOf

LEMMA TellsIs ==
  ASSUME NEW v, NEW l, NEW w, Tells(v, l, w)
  PROVE  /\ l.command = "JOIN" => Joined(v, l, w)
         /\ l.command = "353" => Named(v, l, w)
         /\ l.command \in {"PART", "KICK"} => Left(v, l, w)
         /\ l.command = "QUIT" => Quitted(v, l, w)
         /\ l.command = "NICK" => NickTaken(v, l, w)
BY DEF Tells, Joined, Named, Left, Quitted, NickTaken

LEMMA JoinHandled ==
  ASSUME LowerCaseNames, ServerTypes, LinesLead, lost \in BOOLEAN, HandleJoin
  PROVE  ServerTypes' /\ LinesLead' /\ (ListIsRight => ListIsRight') /\ lost' = lost
<1> DEFINE l == Head(lines)
<1>1. /\ Receive("JOIN") /\ users' = AddJoined(l.from, l.channels)
      /\ current_nick' = current_nick /\ lost' = lost
  BY DEF HandleJoin
<1>2. /\ ServerTypes' /\ LinesLead' /\ l \in LineType /\ l.command = "JOIN"
      /\ View(seen').me = seen'.me /\ View(seen).me = seen.me /\ Tells(View(seen), l, View(seen'))
      /\ Pending(lines) = {} /\ (l.from = seen'.me => Pending(lines') = l.channels)
  BY <1>1, Received
<1> HIDE DEF l
<1>3. Joined(View(seen), l, View(seen'))
  BY <1>2, TellsIs
<1>4. ASSUME ListIsRight PROVE ListIsRight'
  <2>1. PICK c \in Channels : l.channels = {c}
    BY <1>3 DEF Joined
  <2>2. View(seen').me = View(seen).me
    BY <1>3 DEF Joined
  <2>3. /\ users \in Seq(User) /\ Distinct(users) /\ current_nick = seen.me
        /\ Entries(users) \in SUBSET User /\ Right(Entries(users), View(seen), {})
    BY <1>2, <1>4, RightIs
  <2>4. l.from \in Nicks
    BY <1>2 DEF LineType
  <2>5. ListOf(AddJoined(l.from, {c}), JoinedOf(Entries(users), l.from, c))
    BY <2>3, <2>4, JoinedIs
  <2>6. l.from = View(seen').me => c \in Pending(lines')
    BY <1>2, <2>1
  <2>7. Right(JoinedOf(Entries(users), l.from, c), View(seen'), Pending(lines'))
    BY <1>3, <2>1, <2>3, <2>6, JoinKeepsRight
  <2> QED BY <1>1, <1>2, <2>1, <2>2, <2>3, <2>5, <2>7, RightIs
<1> QED BY <1>1, <1>2, <1>4

LEMMA NamesHandled ==
  ASSUME LowerCaseNames, ServerTypes, LinesLead, lost \in BOOLEAN, HandleNames
  PROVE  ServerTypes' /\ LinesLead' /\ (ListIsRight => ListIsRight') /\ lost' = lost
<1> DEFINE l == Head(lines)
<1>1. /\ Receive("353") /\ users' = AddNames(l.arg, CHOOSE c \in l.channels : TRUE)
      /\ current_nick' = current_nick /\ lost' = lost
  BY DEF HandleNames
<1>2. /\ ServerTypes' /\ LinesLead' /\ l \in LineType /\ l.command = "353"
      /\ View(seen').me = seen'.me /\ View(seen).me = seen.me /\ Tells(View(seen), l, View(seen'))
      /\ Pending(lines) = l.channels
  BY <1>1, Received
<1> HIDE DEF l
<1>3. Named(View(seen), l, View(seen'))
  BY <1>2, TellsIs
<1>4. ASSUME ListIsRight PROVE ListIsRight'
  <2>1. PICK c \in Channels : l.channels = {c} /\ l.arg = View(seen).vis[c]
    BY <1>3 DEF Named
  <2>2. View(seen') = View(seen)
    BY <1>3 DEF Named
  <2>3. /\ users \in Seq(User) /\ Distinct(users) /\ current_nick = seen.me
        /\ Entries(users) \in SUBSET User /\ Right(Entries(users), View(seen), {c})
    BY <1>2, <1>4, <2>1, RightIs
  <2>4. \A d \in Channels : /\ View(seen).vis[d] \in SUBSET Nicks
                            /\ View(seen).vis[d] # {} => View(seen).me \in View(seen).vis[d]
    <3>1. seen.members \in [Channels -> SUBSET Nicks]
      BY DEF ServerTypes, Snapshot
    <3> QED BY <3>1, ViewIs DEF Vis
  <2>5. (CHOOSE d \in l.channels : TRUE) = c /\ lower[c] = c
    BY <2>1 DEF LowerCaseNames
  <2>6. ListOf(AddNames(l.arg, c), NamedOf(Entries(users), l.arg, c))
    BY <2>1, <2>3, <2>4, <2>5, NamesAddedAre
  <2>7. Right(NamedOf(Entries(users), View(seen).vis[c], c), View(seen), Pending(lines'))
    BY <2>3, <2>4, NamesKeepRight
  <2> QED BY <1>1, <1>2, <2>1, <2>2, <2>3, <2>5, <2>6, <2>7, RightIs
<1> QED BY <1>1, <1>2, <1>4

LEMMA LeavingHandled ==
  ASSUME ServerTypes, LinesLead, lost \in BOOLEAN, HandlePart \/ HandleKick
  PROVE  ServerTypes' /\ LinesLead' /\ (ListIsRight => ListIsRight') /\ lost' = lost
<1> DEFINE l == Head(lines)
<1>1. PICK command \in {"PART", "KICK"} :
        /\ Receive(command)
        /\ users' = RemoveFromChannel(l.from, l.channels) \/ users' = RemoveFromChannel(l.arg, l.channels)
        /\ current_nick' = current_nick /\ lost' = lost
  BY DEF HandlePart, HandleKick
<1>2. /\ ServerTypes' /\ LinesLead' /\ l \in LineType /\ l.command = command
      /\ View(seen').me = seen'.me /\ View(seen).me = seen.me /\ Tells(View(seen), l, View(seen'))
      /\ Pending(lines) = {}
  BY <1>1, Received
<1> HIDE DEF l
<1>3. Left(View(seen), l, View(seen'))
  BY <1>2, TellsIs
<1>4. ASSUME ListIsRight PROVE ListIsRight'
  <2>1. PICK c \in Channels : l.channels = {c}
    BY <1>3 DEF Left
  <2>2. View(seen').me = View(seen).me /\ l.arg = l.from
    BY <1>3 DEF Left
  <2>3. /\ users \in Seq(User) /\ Distinct(users) /\ current_nick = seen.me
        /\ Entries(users) \in SUBSET User /\ Right(Entries(users), View(seen), {})
    BY <1>2, <1>4, RightIs
  <2>4. users' = RemoveFromChannel(l.from, {c})
    BY <1>1, <2>1, <2>2
  <2>5. /\ l.from # View(seen).me =>
             Right(DroppedOf(Entries(users), l.from, {c}), View(seen'), Pending(lines'))
        /\ l.from = View(seen).me => Right(EmptiedOf(Entries(users), {c}), View(seen'), Pending(lines'))
    BY <1>3, <2>1, <2>3, LeavingKeepsRight
  <2>6. CASE l.from = current_nick
    <3>1. \A u \in Entries(users) : u.channels # {}
      BY <2>3 DEF Right, NoneIsAGhost
    <3>2. ListOf(EmptyChannel(users, {c}), EmptiedOf(Entries(users), {c}))
      BY <2>3, <3>1, EmptyIs
    <3>3. users' = EmptyChannel(users, {c})
      BY <2>4, <2>6 DEF RemoveFromChannel
    <3> QED BY <1>1, <1>2, <2>2, <2>3, <2>5, <2>6, <3>2, <3>3, RightIs
  <2>7. CASE l.from # current_nick
    <3>1. ListOf(DropChannels(users, l.from, {c}), DroppedOf(Entries(users), l.from, {c}))
      BY <2>3, DroppedIs
    <3>2. users' = DropChannels(users, l.from, {c})
      BY <2>4, <2>7 DEF RemoveFromChannel
    <3> QED BY <1>1, <1>2, <2>2, <2>3, <2>5, <2>7, <3>1, <3>2, RightIs
  <2> QED BY <2>6, <2>7
<1> QED BY <1>1, <1>2, <1>4

LEMMA QuitHandled ==
  ASSUME ServerTypes, LinesLead, lost \in BOOLEAN, HandleQuit
  PROVE  ServerTypes' /\ LinesLead' /\ (ListIsRight => ListIsRight') /\ lost' = lost
<1> DEFINE l == Head(lines)
<1>1. /\ Receive("QUIT") /\ users' = remove_user(users, l.from)
      /\ current_nick' = current_nick /\ lost' = lost
  BY DEF HandleQuit
<1>2. /\ ServerTypes' /\ LinesLead' /\ l \in LineType /\ l.command = "QUIT"
      /\ View(seen').me = seen'.me /\ View(seen).me = seen.me /\ Tells(View(seen), l, View(seen'))
      /\ Pending(lines) = {}
  BY <1>1, Received
<1> HIDE DEF l
<1>3. Quitted(View(seen), l, View(seen'))
  BY <1>2, TellsIs
<1>4. ASSUME ListIsRight PROVE ListIsRight'
  <2>1. View(seen').me = View(seen).me
    BY <1>3 DEF Quitted
  <2>2. /\ users \in Seq(User) /\ Distinct(users) /\ current_nick = seen.me
        /\ Entries(users) \in SUBSET User /\ Right(Entries(users), View(seen), {})
    BY <1>2, <1>4, RightIs
  <2>3. ListOf(users', {u \in Entries(users) : u.local_id # l.from})
    BY <1>1, <2>2, RemovedIs
  <2>4. Right({u \in Entries(users) : u.local_id # l.from}, View(seen'), Pending(lines'))
    BY <1>3, <2>2, QuitKeepsRight
  <2> QED BY <1>1, <1>2, <2>1, <2>2, <2>3, <2>4, RightIs
<1> QED BY <1>1, <1>2, <1>4

\* The one step after which the bot may have lost its nick: it is in no channel then.
LEMMA NickHandled ==
  ASSUME ServerTypes, LinesLead, lost \in BOOLEAN, HandleNick
  PROVE  /\ ServerTypes' /\ LinesLead' /\ (lost => lost')
         /\ ListIsRight /\ ~lost' => ListIsRight'
         /\ ListIsRight /\ lost' /\ ~lost => \A c \in Channels : seen.me \notin seen.members[c]
<1> DEFINE l == Head(lines)
<1>1. /\ Receive("NICK") /\ users' = Renamed(l.from, l.arg)
      /\ current_nick' = IF Known(users, l.from) /\ l.from = current_nick THEN l.arg ELSE current_nick
      /\ lost' = (lost \/ current_nick' # seen'.me)
  BY DEF HandleNick
<1>2. lost' \in BOOLEAN
  BY <1>1
<1>3. /\ ServerTypes' /\ LinesLead' /\ l \in LineType /\ l.command = "NICK"
      /\ View(seen').me = seen'.me /\ View(seen).me = seen.me /\ Tells(View(seen), l, View(seen'))
      /\ Pending(lines) = {}
  BY <1>1, <1>2, Received
<1> HIDE DEF l
<1>4. NickTaken(View(seen), l, View(seen'))
  BY <1>3, TellsIs
<1>5. ASSUME ListIsRight, ~lost' PROVE ListIsRight'
  <2>1. /\ users \in Seq(User) /\ Distinct(users)
        /\ Entries(users) \in SUBSET User /\ Right(Entries(users), View(seen), {})
    BY <1>3, <1>5, RightIs
  <2>2. l.from \in Nicks /\ l.arg \in Nicks
    BY <1>3, <1>4 DEF LineType, NickTaken
  <2>3. /\ \A u \in Entries(users) : u.local_id # l.arg
        /\ Right(RenamedOf(Entries(users), l.from, l.arg), View(seen'), Pending(lines'))
    BY <1>4, <2>1, NickKeepsRight
  <2>4. ListOf(users', RenamedOf(Entries(users), l.from, l.arg))
    BY <1>1, <2>1, <2>2, <2>3, RenamedIs
  <2>5. current_nick' = seen'.me
    BY <1>1, <1>5
  <2> QED BY <2>3, <2>4, <2>5, RightIs
<1>6. ASSUME ListIsRight, lost', ~lost, NEW c \in Channels, seen.me \in seen.members[c] PROVE FALSE
  <2>1. /\ users \in Seq(User) /\ current_nick = seen.me /\ Right(Entries(users), View(seen), {})
    BY <1>3, <1>6, RightIs
  <2>2. View(seen).vis[c] # {}
    BY <1>6, ViewIs DEF Vis
  <2>3. \E u \in Entries(users) : u.local_id = seen.me
    BY <1>3, <2>1, <2>2 DEF Right, HasItself
  <2>4. Known(users, seen.me)
    BY <2>1, <2>3, FirstOf
  <2>5. seen'.me = IF l.from = seen.me THEN l.arg ELSE seen.me
    BY <1>3, <1>4 DEF NickTaken
  <2>6. current_nick' = seen'.me
    <3>1. CASE l.from = seen.me
      BY <1>1, <2>1, <2>4, <2>5, <3>1
    <3>2. CASE l.from # seen.me
      BY <1>1, <2>1, <2>5, <3>2
    <3> QED BY <3>1, <3>2
  <2> QED BY <1>1, <1>6, <2>6
<1> QED BY <1>1, <1>3, <1>5, <1>6

LEMMA ReconnectStartsAnew ==
  ASSUME ServerTypes, Reconnect
  PROVE  ServerTypes' /\ LinesLead' /\ ListIsRight' /\ lost' = FALSE
<1>1. PICK n \in Nicks : n \notin Present \ {me} /\ me' = n /\ current_nick' = n
  BY DEF Reconnect
<1>2. /\ users' = <<>> /\ lines' = <<>> /\ members' = [c \in Channels |-> members[c] \ {me}]
      /\ seen' = Real /\ lost' = FALSE
  BY DEF Reconnect
<1>3. members \in [Channels -> SUBSET Nicks]
  BY DEF ServerTypes
<1>4. members' \in [Channels -> SUBSET Nicks] /\ seen' \in Snapshot /\ seen'.me = me'
  BY <1>1, <1>2, <1>3 DEF Real, Snapshot
<1>5. <<>> \in Seq(LineType) /\ <<>> \in Seq(User) /\ DOMAIN <<>> = {}
  BY EmptySeq
<1>6. ServerTypes'
  BY <1>1, <1>2, <1>4, <1>5 DEF ServerTypes
<1>7. LinesLead'
  <2>1. Chained(Real, <<>>, Real)
    BY <1>5 DEF Chained, Latest
  <2>2. NamesFollow(<<>>)
    BY <1>5 DEF NamesFollow
  <2> QED BY <1>2, <2>1, <2>2, NowIsReal DEF LinesLead
<1>8. \A d \in Channels : View(Real).vis[d] = {}
  <2> TAKE d \in Channels
  <2>1. n # me => n \notin members[d]
    <3>1. n # me => n \notin Present
      BY <1>1
    <3>2. n \in members[d] => n \in Present
      BY DEF Present
    <3> QED BY <3>1, <3>2
  <2>2. me' \notin members'[d]
    BY <1>1, <1>2, <2>1
  <2> QED BY <2>2, Views
<1>9. ListIsRight'
  <2>1. ListOf(<<>>, {})
    BY <1>5 DEF ListOf, Distinct, Entries
  <2>2. Right({}, View(seen'), Pending(lines'))
    BY <1>2, <1>8 DEF Right, NoneIsAGhost, HasItself
  <2> QED BY <1>1, <1>2, <1>4, <2>1, <2>2, RightIs
<1> QED BY <1>2, <1>6, <1>7, <1>9

LEMMA IrcStart == Init => IrcInv
<1> SUFFICES ASSUME Init PROVE IrcInv
  OBVIOUS
<1>1. /\ members \in [Channels -> SUBSET (Nicks \ {Preferred})] /\ me = Preferred
      /\ lines = <<>> /\ users = <<>> /\ current_nick = me
      /\ seen = [members |-> members, me |-> me] /\ lost = FALSE
  BY DEF Init
<1>2. members \in [Channels -> SUBSET Nicks] /\ me \in Nicks
  BY <1>1, NamesAssumption
<1>3. <<>> \in Seq(LineType) /\ <<>> \in Seq(User) /\ DOMAIN <<>> = {}
  BY EmptySeq
<1>4. ServerTypes
  BY <1>1, <1>2, <1>3 DEF ServerTypes, Snapshot
<1>5. LinesLead
  <2>1. seen = Now
    BY <1>1 DEF Now
  <2>2. Chained(seen, <<>>, seen)
    BY <1>3 DEF Chained, Latest
  <2>3. NamesFollow(<<>>)
    BY <1>3 DEF NamesFollow
  <2> QED BY <1>1, <2>1, <2>2, <2>3 DEF LinesLead
<1>6. ListIsRight
  <2>1. \A d \in Channels : View(seen).vis[d] = {}
    <3>1. \A d \in Channels : seen.me \notin seen.members[d]
      BY <1>1
    <3> QED BY <3>1, ViewIs DEF Vis
  <2>2. Distinct(<<>>) /\ Entries(<<>>) = {}
    BY <1>3 DEF Distinct, Entries
  <2> QED BY <1>1, <1>3, <2>1, <2>2 DEF ListIsRight, NoneIsAGhost, HasItself
<1> QED BY <1>4, <1>5, <1>6 DEF IrcInv

\* What a step does to the invariant, and when it loses the nick.
LEMMA IrcStep ==
  ASSUME LowerCaseNames, IrcInv, [Next]_vars
  PROVE  /\ IrcInv'
         /\ lost' /\ ~lost => \A c \in Channels : seen.me \notin seen.members[c]
<1>1. ServerTypes /\ LinesLead /\ lost \in BOOLEAN /\ (~lost => ListIsRight)
  BY DEF IrcInv, ServerTypes
<1> DEFINE Kept == ServerTypes' /\ LinesLead' /\ (ListIsRight => ListIsRight') /\ lost' = lost
<1>2. Kept => IrcInv' /\ ~(lost' /\ ~lost)
  BY <1>1 DEF IrcInv
<1>3. Told /\ Typed /\ UNCHANGED <<users, current_nick, history>> => Kept
  BY <1>1, ToldLeads
<1> HIDE DEF Kept
<1>4. ASSUME NEW n \in Nicks, NEW c \in Channels, UserJoins(n, c) PROVE Kept
  <2>1. UNCHANGED <<users, current_nick, history>>
    BY <1>4 DEF UserJoins, botVars
  <2> QED BY <1>1, <1>3, <1>4, <2>1, JoinsTold
<1>5. ASSUME NEW n \in Nicks, NEW c \in Channels, NEW command \in {"PART", "KICK"}, Leaves(n, c, command)
      PROVE  Kept
  <2>1. UNCHANGED <<users, current_nick, history>>
    BY <1>5 DEF Leaves, botVars
  <2> QED BY <1>1, <1>3, <1>5, <2>1, LeavesTold
<1>6. ASSUME NEW n \in Nicks, UserQuits(n) PROVE Kept
  <2>1. UNCHANGED <<users, current_nick, history>>
    BY <1>6 DEF UserQuits, botVars
  <2> QED BY <1>1, <1>3, <1>6, <2>1, QuitsTold
<1>7. ASSUME NEW n \in Nicks, NEW m \in Nicks, Renames(n, m) PROVE Kept
  <2>1. UNCHANGED <<users, current_nick, history>>
    BY <1>7 DEF Renames, botVars
  <2> QED BY <1>1, <1>3, <1>7, <2>1, RenamesTold
<1>8. ASSUME NEW c \in Channels, CommandJoin(c) \/ Rejoin(c) PROVE Kept
  <2>1. AdmitBot(c) /\ UNCHANGED <<users, current_nick, history>>
    BY <1>8 DEF CommandJoin, Rejoin, botVars
  <2> QED BY <1>1, <1>3, <2>1, AdmitsTold
<1>9. ASSUME NEW c \in Channels, CommandPart(c) PROVE Kept
  <2>1. me \in Nicks /\ Leaves(me, c, "PART")
    BY <1>1, <1>9 DEF CommandPart, ServerTypes
  <2> QED BY <1>5, <2>1
<1>10. ASSUME HandleJoin \/ HandleNames \/ HandlePart \/ HandleKick \/ HandleQuit PROVE Kept
  BY <1>1, <1>10, JoinHandled, NamesHandled, LeavingHandled, QuitHandled DEF Kept
<1>11. ASSUME HandleNick
       PROVE  IrcInv' /\ (lost' /\ ~lost => \A c \in Channels : seen.me \notin seen.members[c])
  <2>1. /\ ServerTypes' /\ LinesLead' /\ (lost => lost')
        /\ ListIsRight /\ ~lost' => ListIsRight'
        /\ ListIsRight /\ lost' /\ ~lost => \A c \in Channels : seen.me \notin seen.members[c]
    BY <1>1, <1>11, NickHandled
  <2> QED BY <1>1, <2>1 DEF IrcInv
<1>12. ASSUME Reconnect PROVE IrcInv' /\ ~lost'
  BY <1>1, <1>12, ReconnectStartsAnew DEF IrcInv
<1>13. ASSUME UNCHANGED vars PROVE Kept
  BY <1>1, <1>13 DEF Kept, vars, serverVars, botVars, history, ServerTypes, LinesLead, ListIsRight, Now
<1>14. CASE Next
  BY <1>2, <1>4, <1>5, <1>6, <1>7, <1>8, <1>9, <1>10, <1>11, <1>12, <1>14 DEF Next, Handle
<1> QED BY <1>2, <1>13, <1>14

LEMMA IrcInvariance == LowerCaseNames => (Spec => []IrcInv)
<1>1. LowerCaseNames /\ IrcInv /\ [Next]_vars => IrcInv'
  BY IrcStep
<1>2. ASSUME LowerCaseNames PROVE Spec => []IrcInv
  <2>1. IrcInv /\ [Next]_vars => IrcInv'
    BY <1>1, <1>2
  <2> QED BY <2>1, IrcStart, PTL DEF Spec
<1> QED BY <1>2

-----------------------------------------------------------------------------
(* The theorems *)

\* Nobody is in the list twice.
THEOREM NobodyTwice == LowerCaseNames => (Spec => []UsersAreUnique)
<1>1. IrcInv => UsersAreUnique
  BY DEF IrcInv, ListIsRight, Distinct, UsersAreUnique
<1> QED BY <1>1, IrcInvariance, PTL

\* Whoever is in the list with a channel is in that channel, and so is the bot.
THEOREM NobodyIsAGhost == LowerCaseNames => (Spec => []NoGhosts)
<1>1. ASSUME LowerCaseNames, IrcInv PROVE NoGhosts
  <2> SUFFICES ASSUME ~lost, NEW i \in DOMAIN users
               PROVE  /\ users[i].channels # {}
                      /\ \A c \in Channels :
                           lower[c] \in users[i].channels =>
                             users[i].local_id \in seen.members[c] /\ seen.me \in seen.members[c]
    BY DEF NoGhosts
  <2>1. NoneIsAGhost(Entries(users), View(seen)) /\ users[i] \in Entries(users)
    BY <1>1 DEF IrcInv, ListIsRight, Entries
  <2>2. \A c \in Channels : lower[c] = c /\ View(seen).vis[c] = Vis(seen, c)
    BY <1>1, ViewIs DEF LowerCaseNames
  <2> QED BY <2>1, <2>2 DEF NoneIsAGhost, Vis
<1>2. ASSUME LowerCaseNames PROVE Spec => []NoGhosts
  <2>1. IrcInv => NoGhosts
    BY <1>1, <1>2
  <2>2. Spec => []IrcInv
    BY <1>2, IrcInvariance
  <2> QED BY <2>1, <2>2, PTL
<1> QED BY <1>2

\* The bot knows which channels it is in, once their names have come.
THEOREM KnowsWhereItIs == LowerCaseNames => (Spec => []KnowsItself)
<1>1. ASSUME LowerCaseNames, IrcInv PROVE KnowsItself
  <2> SUFFICES ASSUME ~lost
               PROVE  /\ current_nick = seen.me
                      /\ \A c \in Channels : ~NamesPending(c) =>
                           (seen.me \in seen.members[c]) =
                             (Known(users, current_nick) /\ lower[c] \in ChannelsOf(users, current_nick))
    BY DEF KnowsItself
  <2>1. /\ users \in Seq(User) /\ Distinct(users) /\ current_nick = seen.me
        /\ NoneIsAGhost(Entries(users), View(seen)) /\ HasItself(Entries(users), View(seen), Pending(lines))
        /\ lines \in Seq(LineType)
    BY <1>1 DEF IrcInv, ListIsRight, ServerTypes
  <2>2. ASSUME NEW c \in Channels, ~NamesPending(c)
        PROVE  (seen.me \in seen.members[c]) =
                 (Known(users, current_nick) /\ lower[c] \in ChannelsOf(users, current_nick))
    <3>1. lower[c] = c /\ View(seen).vis[c] = Vis(seen, c) /\ View(seen).me = seen.me
      BY <1>1, ViewIs DEF LowerCaseNames
    <3>2. c \notin Pending(lines)
      <4>1. CASE lines = <<>>
        BY <4>1 DEF Pending
      <4>2. CASE lines # <<>>
        <5>1. Head(lines) = lines[1] /\ 1 \in DOMAIN lines
          BY <2>1, <4>2, OneLess
        <5> QED BY <2>2, <5>1 DEF Pending, NamesPending
      <4> QED BY <4>1, <4>2
    <3>3. ASSUME seen.me \in seen.members[c]
          PROVE  Known(users, current_nick) /\ lower[c] \in ChannelsOf(users, current_nick)
      <4>1. View(seen).vis[c] # {}
        BY <3>1, <3>3 DEF Vis
      <4>2. PICK u \in Entries(users) : u.local_id = current_nick /\ c \in u.channels
        BY <2>1, <3>1, <3>2, <4>1 DEF HasItself
      <4>3. Known(users, current_nick)
        BY <2>1, <4>2, FirstOf
      <4>4. u = users[IndexOf(users, current_nick)]
        BY <2>1, <4>2, <4>3, OnlyOf
      <4> QED BY <3>1, <4>2, <4>3, <4>4 DEF ChannelsOf
    <3>4. ASSUME Known(users, current_nick), lower[c] \in ChannelsOf(users, current_nick)
          PROVE  seen.me \in seen.members[c]
      <4> DEFINE u == users[IndexOf(users, current_nick)]
      <4>1. u \in Entries(users) /\ u.local_id = current_nick
        BY <2>1, <3>4, FirstOf, OfUsers
      <4>2. c \in u.channels
        BY <3>1, <3>4 DEF ChannelsOf
      <4> HIDE DEF u
      <4>3. u.local_id \in Vis(seen, c)
        BY <2>1, <3>1, <4>1, <4>2 DEF NoneIsAGhost
      <4> QED BY <4>3 DEF Vis
    <3> QED BY <3>3, <3>4 DEF Known
  <2> QED BY <2>1, <2>2
<1>2. ASSUME LowerCaseNames PROVE Spec => []KnowsItself
  <2>1. IrcInv => KnowsItself
    BY <1>1, <1>2
  <2>2. Spec => []IrcInv
    BY <1>2, IrcInvariance
  <2> QED BY <2>1, <2>2, PTL
<1> QED BY <1>2

\* The bot misses a change of its nick only when it is in no channel.
THEOREM NickIsFollowed == LowerCaseNames => (Spec => FollowsItsNick)
<1>1. ASSUME LowerCaseNames PROVE Spec => FollowsItsNick
  <2>1. IrcInv /\ [Next]_vars =>
          [lost' /\ ~lost => \A c \in Channels : seen.me \notin seen.members[c]]_vars
    BY <1>1, IrcStep
  <2>2. Spec => []IrcInv
    BY <1>1, IrcInvariance
  <2> QED BY <2>1, <2>2, PTL DEF Spec, FollowsItsNick
<1> QED BY <1>1
=============================================================================
