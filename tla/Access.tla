-------------------------------- MODULE Access --------------------------------
(***************************************************************************)
(* The groups of users of a connection: the authorization system           *)
(* (auth_system.hpp, user_group.cpp), the functions of AuthConnection that *)
(* use it (connection.cpp), and the AdminGroup handlers with which users   *)
(* edit the groups in the chat (admin.hpp, group.cpp).  The strings that   *)
(* name users are those of IRC: a nick, or "!" and the name of an account. *)
(* A restart reads the configuration again and merges the storage into it. *)
(***************************************************************************)
EXTENDS Naturals, Sequences, FiniteSets, SequencesExt

CONSTANTS
  People, Groups,
  Entries,      \* what strings name: nicks, and accounts
  Inherits,     \* [Groups -> SUBSET Groups], a tree: the children of a group
  Config,       \* [Groups -> SUBSET Entries]: "users" in the configuration
  Managed,      \* the groups with an AdminGroup, in the order of the handlers
  Ignore, Edit  \* the groups named so in their settings

ASSUME AccessAssumption ==
  /\ IsFiniteSet(Groups)
  /\ Entries \subseteq People \X {"name", "id"}
  /\ Inherits \in [Groups -> SUBSET Groups] /\ Config \in [Groups -> SUBSET Entries]
  /\ Managed \in Seq(Groups) /\ {Ignore, Edit} \subseteq Groups /\ Ignore \notin ToSet(Managed)

VARIABLES
  direct,   \* the users of each group
  stored,   \* how often the list in the storage has each entry; NoList if none
  known     \* people known to be logged in to their account

accessVars == <<direct, stored, known>>

NoList == [e \in Entries |-> 0 - 1]

-----------------------------------------------------------------------------
(* UserGroup and AuthSystem                                                *)

\* A group and those that inherit it, which are in every set that has the group and the
\* children of its members (the note in user_group.hpp: a tree).
Closure ==
  [g \in Groups |->
     {h \in Groups : \A S \in SUBSET Groups :
                      g \in S /\ (\A k \in S : Inherits[k] \subseteq S) => h \in S}]

\* in_group(): an entry of the group matches the attributes "as" of the user.
contains(d, as, g) == \E h \in Closure[g] : as \cap d[h] # {}

\* all_users(): a user of several groups is listed several times.
allUsers(d, g) == [e \in Entries |-> Cardinality({h \in Closure[g] : e \in d[h]})]

\* The attributes entries are matched against, when those in "logged" are known to be
\* logged in.
attributes(p, logged) == {<<p, "name">>} \cup IF p \in logged THEN {<<p, "id">>} ELSE {}

\* user_auth(): a nick the connection knows is that user, another string what it says.
user_auth(d, logged, e, g) ==
  contains(d, IF e[2] = "name" THEN attributes(e[1], logged) ELSE {e}, g)

-----------------------------------------------------------------------------
(* AdminGroup                                                              *)

ignored(d, logged, e) == user_auth(d, logged, e, Ignore)

\* add() and add_to_group(): who has the access already is not added.
may_add(d, logged, e, g) == ~ignored(d, logged, e) /\ ~contains(d, {e}, g)

\* initialize() of the AdminGroup of g, with users d and storage s: the stored list is
\* added, then what the configuration has more often than the storage is removed.  There
\* is no connection yet, and nobody known.
initialize(d, s, g) ==
  IF s[g] = NoList THEN <<d, [s EXCEPT ![g] = allUsers(d, g)]>>
  ELSE LET added   == {e \in Entries : s[g][e] > 0 /\ may_add(d, {}, e, g)}
           removed == {e \in Entries : allUsers(d, g)[e] > s[g][e] /\ ~ignored(d, {}, e)}
       IN  <<[d EXCEPT ![g] = (@ \cup added) \ removed], s>>

\* The bot is started: the configuration, then the handlers in their order.
started(s) ==
  LET after[i \in 0..Len(Managed)] ==
        IF i = 0 THEN <<Config, s>> ELSE initialize(after[i - 1][1], after[i - 1][2], Managed[i])
  IN  after[Len(Managed)]

AccessInit ==
  LET x == started([g \in Groups |-> NoList])
  IN  direct = x[1] /\ stored = x[2] /\ known = {}

\* Mutant: the list is written before the change.
saveEarly(d, g) == direct' = d /\ stored' = [stored EXCEPT ![g] = allUsers(direct, g)]

save_in_storage(d, g) == direct' = d /\ stored' = [stored EXCEPT ![g] = allUsers(d, g)]

AddUser(e, g) ==
  may_add(direct, known, e, g) /\ save_in_storage([direct EXCEPT ![g] = @ \cup {e}], g)

RemoveUser(e, g) ==
  /\ e \in direct[g] /\ ~ignored(direct, known, e)
  /\ save_in_storage([direct EXCEPT ![g] = @ \ {e}], g)

Clear(g) == save_in_storage([direct EXCEPT ![g] = {e \in @ : ignored(direct, known, e)}], g)

\* AbstractList::on_handle(): without the authorization to edit, one sees the list.
Command(p) ==
  /\ contains(direct, attributes(p, known), Edit)
  /\ \E g \in ToSet(Managed) : Clear(g) \/ \E e \in Entries : AddUser(e, g) \/ RemoveUser(e, g)
  /\ UNCHANGED known

\* An answer of the server about a user's account; the user is gone.
Identified(p) == p \notin known /\ known' = known \cup {p} /\ UNCHANGED <<direct, stored>>
Gone(p) == p \in known /\ known' = known \ {p} /\ UNCHANGED <<direct, stored>>

Restart ==
  /\ LET x == started(stored) IN direct' = x[1] /\ stored' = x[2]
  /\ known' = {}

AccessNext == Restart \/ \E p \in People : Command(p) \/ Identified(p) \/ Gone(p)
AccessSpec == AccessInit /\ [][AccessNext]_accessVars

-----------------------------------------------------------------------------
(* Properties                                                              *)

AccessTypeOK ==
  /\ direct \in [Groups -> SUBSET Entries] /\ known \subseteq People
  /\ \A g \in Groups : stored[g] = NoList \/ stored[g] \in [Entries -> 0..Cardinality(Groups)]

\* A restart leaves a managed group without children as it was edited, and it takes no
\* access away, when the handler of a child is before that of the group above it and the
\* ignored users are not edited in the chat: who has lost it has been removed.
AccessKept ==
  [][Restart =>
       /\ \A g \in ToSet(Managed) : Inherits[g] = {} => direct'[g] = direct[g]
       /\ \A g \in Groups : \A e \in Entries :
            contains(direct, {e}, g) => contains(direct', {e}, g)]_accessVars
=============================================================================
