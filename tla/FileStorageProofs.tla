--------------------------- MODULE FileStorageProofs ---------------------------
(***************************************************************************)
(* What the file storage promises under every policy, for any paths and    *)
(* values, and any number of crashes and failures.  An operation works on  *)
(* a state of its own (NotLoaded, then what maybe_load and the change make *)
(* of it), so the invariant is stated of such a state, and holds between   *)
(* operations of the one in memory.                                        *)
(***************************************************************************)
EXTENDS FileStorage, SequenceTheorems, TLAPS

\* What an operation works on.
States ==
  [data : Trees, status : INITIALIZING..FINISHED, dirty : BOOLEAN,
   failures : 0..MaxFailures, expected : Trees,
   unsaved : SUBSET Keys, early : SUBSET Keys, kept : SUBSET Keys]

\* The policy the storage is built with, while every file could be opened.
IsDefault(s) == read_ = "ONCE" /\ write_ = "DYNAMIC" /\ s.failures = 0

\* The tree has what is to be kept, and by default all that the calls have made but
\* what was erased before the load.
Remembers(s) ==
  /\ s \in States
  /\ s.failures = 0 => \A k \in s.kept : s.data[k] = s.expected[k]
  /\ IsDefault(s) =>
       \A k \in Keys : s.data[k] = s.expected[k] \/ (k \in s.early /\ s.status >= LOADED)

\* What is to be kept is on disk, when the tree is to be read from there or is not
\* going to be written.
KeptBelow(s) ==
  (s.failures = 0 /\ (should_read(s.status) \/ (write_ # "DISCARD" /\ ~s.dirty))) =>
    \A k \in s.kept : file[k] = s.expected[k]

\* A policy that writes at once leaves nothing dirty.
NothingWaits(s) == write_ = "DYNAMIC" /\ s.failures = 0 => ~s.dirty

\* By default what is not on disk was changed without marking the tree, and until the
\* load only by erasing it.
DefaultBelow(s) ==
  IsDefault(s) => /\ \A k \in Keys \ (s.early \cup s.unsaved) : file[k] = s.expected[k]
                  /\ s.status = INITIALIZED => s.unsaved \subseteq s.early

\* A file that does not parse was not read.
NotTorn(s) == file = Partial /\ s.failures = 0 => read_ # "ONCE" /\ s.status # LOADED

\* How the file and the tree stand to each other between operations.
Settled(s) == KeptBelow(s) /\ NothingWaits(s) /\ DefaultBelow(s) /\ NotTorn(s)

Running == phase \in {"open", "saving", "closing"}

\* Before an operation.
StorageInv ==
  /\ TypeOK
  /\ Running => Remembers(NotLoaded)
  /\ phase \in {"open", "closing"} => Settled(NotLoaded)
  /\ phase = "open" => status_ \in {INITIALIZED, LOADED}
  /\ phase = "closing" => status_ = FINISHED
  /\ phase = "saving" => ~dirty_ /\ unsaved = {} /\ status_ \in {LOADED, FINISHED}
  /\ phase = "closed" /\ write_ # "DISCARD" /\ failures = 0 =>
       \A k \in kept : file[k] = expected[k]

-----------------------------------------------------------------------------
(* The policies                                                            *)

\* What the policy says; one of three of each kind.
LEMMA Policies ==
  ASSUME TypeOK
  PROVE  /\ read_ \in {"ONCE", "LAZY", "DYNAMIC"} /\ write_ \in {"ONCE", "DYNAMIC", "DISCARD"}
         /\ \A status : /\ read_ = "ONCE" => should_read(status) = (status <= INITIALIZED)
                        /\ read_ = "LAZY" => should_read(status) = (status = INITIALIZED)
                        /\ read_ = "DYNAMIC" => should_read(status) = (status >= INITIALIZED)
         /\ \A dirty, status :
              /\ write_ = "ONCE" => should_write(dirty, status) = (dirty /\ status = FINISHED)
              /\ write_ = "DYNAMIC" => should_write(dirty, status) = dirty
              /\ write_ = "DISCARD" => should_write(dirty, status) = FALSE
<1>1. read_ \in {"ONCE", "LAZY", "DYNAMIC"} /\ write_ \in {"ONCE", "DYNAMIC", "DISCARD"}
  BY StorageAssumption DEF TypeOK
<1>2. \A status : /\ read_ = "ONCE" => should_read(status) = (status <= INITIALIZED)
                  /\ read_ = "LAZY" => should_read(status) = (status = INITIALIZED)
                  /\ read_ = "DYNAMIC" => should_read(status) = (status >= INITIALIZED)
  BY DEF should_read
<1>3. \A dirty, status :
         /\ write_ = "ONCE" => should_write(dirty, status) = (dirty /\ status = FINISHED)
         /\ write_ = "DYNAMIC" => should_write(dirty, status) = dirty
         /\ write_ = "DISCARD" => should_write(dirty, status) = FALSE
  BY DEF should_write
<1> QED BY <1>1, <1>2, <1>3

\* ONCE loads only before the storage was read again; the end of the program makes no
\* policy read that did not.
LEMMA Reads ==
  ASSUME TypeOK
  PROVE  /\ read_ = "ONCE" => should_read(INITIALIZING) /\ ~should_read(LOADED)
         /\ should_read(INITIALIZED)
         /\ read_ # "DYNAMIC" => \A status \in {LOADED, FINISHED} : ~should_read(status)
         /\ should_read(FINISHED) => should_read(LOADED)
<1>1. read_ \in {"ONCE", "LAZY", "DYNAMIC"}
  BY Policies
<1>2. read_ = "ONCE" => /\ should_read(INITIALIZING) /\ should_read(INITIALIZED)
                        /\ ~should_read(LOADED) /\ ~should_read(FINISHED)
  BY DEF should_read, INITIALIZING, INITIALIZED, LOADED, FINISHED
<1>3. read_ = "LAZY" => /\ should_read(INITIALIZED)
                        /\ ~should_read(LOADED) /\ ~should_read(FINISHED)
  BY DEF should_read, INITIALIZED, LOADED, FINISHED
<1>4. read_ = "DYNAMIC" => should_read(INITIALIZED) /\ should_read(LOADED)
  BY DEF should_read, INITIALIZED, LOADED
<1> HIDE DEF should_read, INITIALIZING, INITIALIZED, LOADED, FINISHED
<1> QED BY <1>1, <1>2, <1>3, <1>4

\* A tree on disk is not Partial: it has a path.
LEMMA TreesAreWhole == Partial \notin Trees
<1> SUFFICES ASSUME <<>> \in [Keys -> Seq(Values)] PROVE FALSE
  BY DEF Partial, Trees
<1>1. Keys = DOMAIN <<>>
  OBVIOUS
<1>2. DOMAIN <<>> = {}
  OBVIOUS
<1> QED BY <1>1, <1>2, StorageAssumption

\* No path holds anything.
LEMMA EmptyIsTree == Empty \in Trees
  BY EmptySeq DEF Empty, Trees

-----------------------------------------------------------------------------
(* What maybe_load leaves                                                  *)

\* The fields of the states of a load.
LEMMA LoadFields ==
  ASSUME TypeOK, NEW tree \in Trees, NEW n \in 0..MaxFailures
  PROVE  LET s == Cleared(tree, n)
         IN  /\ s \in States /\ s.data = tree /\ s.status = CleanStatus(status_) /\ ~s.dirty
             /\ s.failures = n /\ s.expected = expected /\ s.unsaved = {} /\ s.early = early
             /\ s.kept = kept
<1>1. CleanStatus(status_) \in INITIALIZING..FINISHED
  BY DEF TypeOK, CleanStatus, INITIALIZING, LOADED, FINISHED
<1> QED BY <1>1 DEF Cleared, States, TypeOK

\* A load finds in the file what is to be kept, and by default all but what was erased.
LEMMA LoadedKeeps ==
  ASSUME StorageInv, phase = "open", should_read(status_), file # Partial
  PROVE  Remembers(Loaded) /\ Settled(Loaded) /\ Loaded.status = LOADED
<1>1. /\ TypeOK /\ Remembers(NotLoaded) /\ Settled(NotLoaded)
      /\ status_ \in {INITIALIZED, LOADED} /\ file \in Trees /\ failures \in 0..MaxFailures
  BY DEF StorageInv, Running, TypeOK
<1>3. /\ Loaded \in States /\ Loaded.data = file /\ Loaded.status = CleanStatus(status_)
      /\ ~Loaded.dirty /\ Loaded.failures = failures /\ Loaded.expected = expected
      /\ Loaded.unsaved = {} /\ Loaded.early = early /\ Loaded.kept = kept
  BY <1>1, LoadFields DEF Loaded
<1>4. Loaded.status = LOADED
  BY <1>1, <1>3 DEF CleanStatus, INITIALIZED, LOADED
<1>5. failures = 0 => \A k \in kept : file[k] = expected[k]
  BY <1>1 DEF Settled, KeptBelow, NotLoaded
<1>6. ASSUME IsDefault(Loaded) PROVE \A k \in Keys \ early : file[k] = expected[k]
  <2>1. IsDefault(NotLoaded)
    BY <1>3, <1>6 DEF IsDefault, NotLoaded
  <2>2. status_ = INITIALIZED
    BY <1>1, <2>1, Reads DEF IsDefault
  <2> QED BY <1>1, <2>1, <2>2 DEF Settled, DefaultBelow, NotLoaded
<1>7. Remembers(Loaded)
  <2>1. LOADED >= LOADED
    BY DEF LOADED
  <2> QED BY <1>3, <1>4, <1>5, <1>6, <2>1 DEF Remembers
<1>8. Settled(Loaded)
  <2>1. LOADED # INITIALIZED
    BY DEF LOADED, INITIALIZED
  <2> QED BY <1>3, <1>4, <1>5, <1>6, <2>1
          DEF Settled, KeptBelow, NothingWaits, DefaultBelow, NotTorn
<1> QED BY <1>4, <1>7, <1>8

\* Of a tree that could not be read nothing is said.
LEMMA NotOpenedKeeps ==
  ASSUME StorageInv, phase = "open", failures < MaxFailures
  PROVE  Remembers(NotOpened) /\ Settled(NotOpened) /\ NotOpened.status = LOADED
<1>1. /\ TypeOK /\ status_ \in {INITIALIZED, LOADED} /\ failures + 1 \in 0..MaxFailures
      /\ failures + 1 # 0
  BY StorageAssumption DEF StorageInv, TypeOK
<1>3. /\ NotOpened \in States /\ NotOpened.status = CleanStatus(status_)
      /\ NotOpened.failures = failures + 1
  BY <1>1, EmptyIsTree, LoadFields DEF NotOpened
<1>4. NotOpened.failures # 0 /\ NotOpened.status = LOADED
  BY <1>1, <1>3 DEF CleanStatus, INITIALIZED, LOADED
<1> QED BY <1>3, <1>4
        DEF Remembers, IsDefault, Settled, KeptBelow, NothingWaits, DefaultBelow, NotTorn

\* What a call begins with, and what maybe_load leaves of it.
LEMMA CallBegins ==
  ASSUME StorageInv, phase = "open"
  PROVE  /\ Remembers(NotLoaded) /\ Settled(NotLoaded)
         /\ NotLoaded.status \in {INITIALIZED, LOADED}
         /\ \A s \in AfterMaybeLoad : Remembers(s) /\ Settled(s) /\ s.status = LOADED
<1>1. /\ Remembers(NotLoaded) /\ Settled(NotLoaded) /\ NotLoaded.status \in {INITIALIZED, LOADED}
      /\ NotLoaded.status = status_ /\ TypeOK
  BY DEF StorageInv, Running, NotLoaded
<1>2. \A s \in AfterMaybeLoad :
        \/ s = NotLoaded /\ ~should_read(status_)
        \/ s = Loaded /\ should_read(status_) /\ file # Partial
        \/ s = NotOpened /\ failures < MaxFailures
  BY DEF AfterMaybeLoad
<1>3. ~should_read(status_) => status_ = LOADED
  BY <1>1, Reads
<1> QED BY <1>1, <1>2, <1>3, LoadedKeeps, NotOpenedKeeps

-----------------------------------------------------------------------------
(* The change an operation makes                                           *)

\* Only one path changes.
Alters(t, s, k) ==
  /\ t \in States /\ t.status = s.status /\ t.failures = s.failures
  /\ \A j \in Keys \ {k} : /\ t.data[j] = s.data[j] /\ t.expected[j] = s.expected[j]
                           /\ (j \in t.early) = (j \in s.early)
                           /\ (j \in t.unsaved) = (j \in s.unsaved)
                           /\ (j \in t.kept) = (j \in s.kept)

\* The state is as good as that path.
LEMMA AlteredIsRemembered ==
  ASSUME NEW s, Remembers(s), NEW k \in Keys, NEW t, Alters(t, s, k),
         t.failures = 0 /\ k \in t.kept => t.data[k] = t.expected[k],
         IsDefault(t) => t.data[k] = t.expected[k] \/ (k \in t.early /\ t.status >= LOADED)
  PROVE  Remembers(t)
<1>1. t \in States /\ t.kept \subseteq Keys /\ t.status = s.status /\ t.failures = s.failures
  BY DEF Alters, States
<1>2. ASSUME t.failures = 0, NEW j \in t.kept PROVE t.data[j] = t.expected[j]
  BY <1>1, <1>2 DEF Alters, Remembers
<1>3. ASSUME IsDefault(t), NEW j \in Keys
      PROVE  t.data[j] = t.expected[j] \/ (j \in t.early /\ t.status >= LOADED)
  <2>1. CASE j = k
    BY <1>3, <2>1
  <2>2. CASE j # k
    <3>1. IsDefault(s)
      BY <1>1, <1>3 DEF IsDefault
    <3>2. s.data[j] = s.expected[j] \/ (j \in s.early /\ s.status >= LOADED)
      BY <3>1 DEF Remembers
    <3>3. t.data[j] = s.data[j] /\ t.expected[j] = s.expected[j] /\ (j \in t.early) = (j \in s.early)
      BY <2>2 DEF Alters
    <3> QED BY <1>1, <3>2, <3>3
  <2> QED BY <2>1, <2>2
<1> QED BY <1>1, <1>2, <1>3 DEF Remembers

\* A path changed without marking the tree is one that may differ from the file.
LEMMA UnmarkedIsSettled ==
  ASSUME NEW s, Settled(s), NEW k \in Keys, NEW t, Alters(t, s, k), t.dirty = s.dirty,
         k \in t.unsaved, k \notin t.kept, t.status = INITIALIZED => k \in t.early
  PROVE  Settled(t)
<1>1. /\ t \in States /\ t.kept \subseteq Keys /\ t.unsaved \subseteq Keys
      /\ t.status = s.status /\ t.failures = s.failures
  BY DEF Alters, States
<1>2. \A j \in t.kept : j \in s.kept /\ t.expected[j] = s.expected[j]
  BY <1>1 DEF Alters
<1>3. KeptBelow(t)
  BY <1>1, <1>2 DEF Settled, KeptBelow
<1>4. ASSUME IsDefault(t), NEW j \in Keys \ (t.early \cup t.unsaved)
      PROVE  file[j] = t.expected[j]
  <2>1. j # k
    BY <1>4
  <2>2. IsDefault(s) /\ j \in Keys \ (s.early \cup s.unsaved) /\ t.expected[j] = s.expected[j]
    BY <1>1, <1>4, <2>1 DEF IsDefault, Alters
  <2> QED BY <2>2 DEF Settled, DefaultBelow
<1>5. ASSUME IsDefault(t), t.status = INITIALIZED PROVE t.unsaved \subseteq t.early
  <2>1. IsDefault(s) /\ s.status = INITIALIZED
    BY <1>1, <1>5 DEF IsDefault
  <2>2. s.unsaved \subseteq s.early
    BY <2>1 DEF Settled, DefaultBelow
  <2> QED BY <1>1, <1>5, <2>2 DEF Alters
<1>6. NothingWaits(t) /\ NotTorn(t)
  BY <1>1 DEF Settled, NothingWaits, NotTorn
<1> QED BY <1>3, <1>4, <1>5, <1>6 DEF Settled, DefaultBelow

\* A path changed under a policy that writes later, unless it is to be read again.
LEMMA MarkedIsSettled ==
  ASSUME NEW s, Settled(s), NEW k \in Keys, NEW t, Alters(t, s, k), t.dirty,
         write_ # "DYNAMIC", should_read(t.status) => k \notin t.kept
  PROVE  Settled(t)
<1>1. /\ t \in States /\ t.kept \subseteq Keys /\ t.status = s.status /\ t.failures = s.failures
  BY DEF Alters, States
<1>2. ASSUME t.failures = 0, should_read(t.status), NEW j \in t.kept PROVE file[j] = t.expected[j]
  <2>1. j \in s.kept /\ t.expected[j] = s.expected[j]
    BY <1>1, <1>2 DEF Alters
  <2> QED BY <1>1, <1>2, <2>1 DEF Settled, KeptBelow
<1>3. KeptBelow(t)
  BY <1>2 DEF KeptBelow
<1>4. NothingWaits(t) /\ DefaultBelow(t) /\ NotTorn(t)
  BY <1>1 DEF Settled, NothingWaits, DefaultBelow, IsDefault, NotTorn
<1> QED BY <1>3, <1>4 DEF Settled

\* A change of a path as the operations make it.
IsAltered(t, s, k, old, new, dirty, U, E, K) ==
  /\ t \in States /\ t.status = s.status /\ t.failures = s.failures /\ t.dirty = dirty
  /\ t.data = [s.data EXCEPT ![k] = old] /\ t.expected = [s.expected EXCEPT ![k] = new]
  /\ t.unsaved = U /\ t.early = E /\ t.kept = K

\* Two sets agree on the other paths.
SameBut(k, A, B) == \A j \in Keys \ {k} : (j \in A) = (j \in B)

\* It changes that path.
LEMMA AlteredFields ==
  ASSUME NEW s \in States, NEW k \in Keys, NEW old, NEW new, NEW dirty,
         NEW U, NEW E, NEW K, SameBut(k, U, s.unsaved), SameBut(k, E, s.early),
         SameBut(k, K, s.kept), NEW t, IsAltered(t, s, k, old, new, dirty, U, E, K)
  PROVE  /\ Alters(t, s, k)
         /\ t.data[k] = old /\ t.expected[k] = new /\ t.dirty = dirty
         /\ t.unsaved = U /\ t.early = E /\ t.kept = K
<1>1. s.data \in Trees /\ s.expected \in Trees
  BY DEF States
<1>2. /\ t.data = [s.data EXCEPT ![k] = old] /\ t.expected = [s.expected EXCEPT ![k] = new]
      /\ t.dirty = dirty /\ t.unsaved = U /\ t.early = E /\ t.kept = K
      /\ t.status = s.status /\ t.failures = s.failures /\ t \in States
  BY DEF IsAltered
<1>3. t.data[k] = old /\ t.expected[k] = new
  BY <1>1, <1>2 DEF Trees
<1>4. ASSUME NEW j \in Keys \ {k}
      PROVE  /\ t.data[j] = s.data[j] /\ t.expected[j] = s.expected[j]
             /\ (j \in E) = (j \in s.early) /\ (j \in U) = (j \in s.unsaved)
             /\ (j \in K) = (j \in s.kept)
  BY <1>1, <1>2 DEF Trees, SameBut
<1> QED BY <1>2, <1>3, <1>4 DEF Alters

\* A path set, or extended.
LEMMA SetIsAltered ==
  ASSUME NEW s \in States, NEW k \in Keys, NEW values \in Seq(Values)
  PROVE  IsAltered(Set(s, k, values), s, k, values, values, s.dirty, s.unsaved, s.early \ {k},
                   s.kept)
  BY DEF Set, IsAltered, States, Trees

LEMMA ExtendedIsAltered ==
  ASSUME NEW s \in States, NEW k \in Keys, NEW v \in Values
  PROVE  IsAltered(Extended(s, k, v), s, k, Append(s.data[k], v), Append(s.expected[k], v),
                   s.dirty, s.unsaved, s.early, s.kept)
<1>1. s.data[k] \in Seq(Values) /\ s.expected[k] \in Seq(Values)
  BY DEF States, Trees
<1>2. Append(s.data[k], v) \in Seq(Values) /\ Append(s.expected[k], v) \in Seq(Values)
  BY <1>1
<1> DEFINE old == Append(s.data[k], v)
           new == Append(s.expected[k], v)
<1>3. Extended(s, k, v) = [s EXCEPT !.data = [s.data EXCEPT ![k] = old],
                                    !.expected = [s.expected EXCEPT ![k] = new]]
  BY DEF Extended, States, Trees
<1>4. old \in Seq(Values) /\ new \in Seq(Values)
  BY <1>2
<1> HIDE DEF old, new
<1>5. [s.data EXCEPT ![k] = old] \in Trees /\ [s.expected EXCEPT ![k] = new] \in Trees
  BY <1>4 DEF States, Trees
<1>6. IsAltered([s EXCEPT !.data = [s.data EXCEPT ![k] = old],
                          !.expected = [s.expected EXCEPT ![k] = new]],
                s, k, old, new, s.dirty, s.unsaved, s.early, s.kept)
  BY <1>5 DEF IsAltered, States
<1> QED BY <1>3, <1>6 DEF old, new

\* Then marked dirty, and kept or not.
LEMMA MarkedIsAltered ==
  ASSUME NEW s, NEW k \in Keys, NEW old, NEW new, NEW dirty, NEW U, NEW E, NEW K, NEW u,
         IsAltered(u, s, k, old, new, dirty, U, E, K), NEW K2, K2 \subseteq Keys
  PROVE  IsAltered([u EXCEPT !.dirty = TRUE, !.kept = K2], s, k, old, new, TRUE, U, E, K2)
<1>1. u \in States
  BY DEF IsAltered
<1> QED BY <1>1 DEF IsAltered, States

\* Or not marked, and not kept.
LEMMA UnmarkedIsAltered ==
  ASSUME NEW s, NEW k \in Keys, NEW old, NEW new, NEW dirty, NEW U, NEW E, NEW K, NEW u,
         IsAltered(u, s, k, old, new, dirty, U, E, K)
  PROVE  IsAltered(Unmarked(u, k), s, k, old, new, dirty, U \cup {k}, E, K \ {k})
<1>1. u \in States
  BY DEF IsAltered
<1> QED BY <1>1 DEF IsAltered, States, Unmarked

\* What a path holds may grow.
LEMMA Grows ==
  ASSUME NEW s \in States, NEW k \in Keys, NEW v \in Values
  PROVE  Append(s.data[k], v) \in Seq(Values) /\ Append(s.expected[k], v) \in Seq(Values)
<1>1. s.data[k] \in Seq(Values) /\ s.expected[k] \in Seq(Values)
  BY DEF States, Trees
<1> QED BY <1>1

\* What put makes is remembered, and is written or settled.
LEMMA PutKeeps ==
  ASSUME TypeOK, NEW s, Remembers(s), Settled(s), s.status \in {INITIALIZED, LOADED},
         NEW k \in Keys, NEW v \in Values,
         NEW t \in {PutValue(s, k, <<v>>), Under(s, k, v)}
  PROVE  /\ Remembers(t) /\ t.status = s.status
         /\ should_write(t.dirty, t.status) \/ Settled(t)
<1>1. s \in States /\ <<v>> \in Seq(Values)
  BY DEF Remembers
<1>2. PICK old \in Seq(Values), new \in Seq(Values), E \in {s.early, s.early \ {k}},
           K \in {s.kept, s.kept \ {k}, s.kept \cup {k}} :
        /\ IsAltered(t, s, k, old, new, TRUE, s.unsaved, E, K)
        /\ ~PutStays(s) => K = s.kept \ {k}
        /\ \/ old = new
           \/ /\ E = s.early /\ K \subseteq s.kept
              /\ s.data[k] = s.expected[k] => old = new
  <2>1. CASE t = PutValue(s, k, <<v>>)
    <3> DEFINE u == Set(s, k, <<v>>)
               K == IF PutStays(s) THEN u.kept \cup {k} ELSE u.kept \ {k}
    <3>1. IsAltered(u, s, k, <<v>>, <<v>>, s.dirty, s.unsaved, s.early \ {k}, s.kept)
      BY <1>1, SetIsAltered
    <3>2. u.kept = s.kept /\ s.kept \subseteq Keys
      BY <1>1, <3>1 DEF IsAltered, States
    <3>3. t = [u EXCEPT !.dirty = TRUE, !.kept = K]
      BY <2>1 DEF PutValue
    <3>4. /\ K \in {s.kept, s.kept \ {k}, s.kept \cup {k}} /\ K \subseteq Keys
          /\ ~PutStays(s) => K = s.kept \ {k}
      BY <3>2
    <3> HIDE DEF K, u
    <3>5. IsAltered(t, s, k, <<v>>, <<v>>, TRUE, s.unsaved, s.early \ {k}, K)
      BY <3>1, <3>3, <3>4, MarkedIsAltered
    <3> QED BY <1>1, <3>4, <3>5
  <2>2. CASE t = Under(s, k, v)
    <3> DEFINE u == Extended(s, k, v)
               K == IF PutStays(s) THEN u.kept ELSE u.kept \ {k}
               old == Append(s.data[k], v)
               new == Append(s.expected[k], v)
    <3>1. IsAltered(u, s, k, old, new, s.dirty, s.unsaved, s.early, s.kept)
      BY <1>1, ExtendedIsAltered
    <3>2. u.kept = s.kept /\ s.kept \subseteq Keys
      BY <1>1, <3>1 DEF IsAltered, States
    <3>3. t = [u EXCEPT !.dirty = TRUE, !.kept = K]
      BY <2>2 DEF Under
    <3>4. /\ K \in {s.kept, s.kept \ {k}, s.kept \cup {k}} /\ (~PutStays(s) => K = s.kept \ {k})
          /\ K \subseteq s.kept /\ K \subseteq Keys
      BY <3>2
    <3>5. old \in Seq(Values) /\ new \in Seq(Values) /\ (s.data[k] = s.expected[k] => old = new)
      BY <1>1, Grows
    <3> HIDE DEF K, u, old, new
    <3>6. IsAltered(t, s, k, old, new, TRUE, s.unsaved, s.early, K)
      BY <3>1, <3>3, <3>4, MarkedIsAltered
    <3> QED BY <3>4, <3>5, <3>6
  <2> QED BY <2>1, <2>2
<1>3. /\ Alters(t, s, k) /\ t.data[k] = old /\ t.expected[k] = new /\ t.dirty
      /\ t.early = E /\ t.kept = K
  <2>1. SameBut(k, s.unsaved, s.unsaved) /\ SameBut(k, E, s.early) /\ SameBut(k, K, s.kept)
    BY DEF SameBut
  <2> DEFINE marked == TRUE
  <2>2. IsAltered(t, s, k, old, new, marked, s.unsaved, E, K)
    BY <1>2
  <2> HIDE DEF marked
  <2>3. /\ Alters(t, s, k) /\ t.data[k] = old /\ t.expected[k] = new /\ t.dirty = marked
        /\ t.early = E /\ t.kept = K
    BY <1>1, <2>1, <2>2, AlteredFields
  <2> QED BY <2>3 DEF marked
<1>4. t.status = s.status /\ t.failures = s.failures
  BY <1>3 DEF Alters
<1>5. t.failures = 0 /\ k \in t.kept => t.data[k] = t.expected[k]
  BY <1>2, <1>3, <1>4 DEF Remembers
<1>6. IsDefault(t) => t.data[k] = t.expected[k] \/ (k \in t.early /\ t.status >= LOADED)
  BY <1>2, <1>3, <1>4 DEF Remembers, IsDefault
<1>7. Remembers(t)
  BY <1>3, <1>5, <1>6, AlteredIsRemembered
<1>8. write_ = "DYNAMIC" => should_write(t.dirty, t.status)
  BY <1>3, Policies
<1>9. should_read(t.status) /\ write_ # "DYNAMIC" => k \notin t.kept
  <2> SUFFICES ASSUME should_read(t.status), write_ # "DYNAMIC" PROVE ~PutStays(s)
    BY <1>2, <1>3
  <2>1. CASE read_ = "DYNAMIC"
    BY <2>1 DEF PutStays
  <2>2. CASE read_ # "DYNAMIC"
    <3>1. s.status = INITIALIZED
      BY <1>4, <2>2, Reads
    <3> QED BY <3>1 DEF PutStays, INITIALIZED, LOADED
  <2> QED BY <2>1, <2>2
<1>10. write_ # "DYNAMIC" => Settled(t)
  BY <1>3, <1>9, MarkedIsSettled
<1> QED BY <1>4, <1>7, <1>8, <1>10

\* What append and erase make is remembered and settled.
LEMMA AppendKeeps ==
  ASSUME NEW s, Remembers(s), Settled(s), s.status = LOADED, NEW k \in Keys, NEW v \in Values
  PROVE  LET t == Unmarked(Extended(s, k, v), k)
         IN  Remembers(t) /\ Settled(t) /\ t.status = s.status
<1> DEFINE old == Append(s.data[k], v)
           new == Append(s.expected[k], v)
           t == Unmarked(Extended(s, k, v), k)
<1>1. s \in States
  BY DEF Remembers
<1>2. IsAltered(t, s, k, old, new, s.dirty, s.unsaved \cup {k}, s.early, s.kept \ {k})
  BY <1>1, ExtendedIsAltered, UnmarkedIsAltered
<1>3. old \in Seq(Values) /\ new \in Seq(Values) /\ (s.data[k] = s.expected[k] => old = new)
  BY <1>1, Grows
<1> HIDE DEF t, old, new
<1>4. /\ Alters(t, s, k) /\ t.data[k] = old /\ t.expected[k] = new /\ t.dirty = s.dirty
      /\ t.unsaved = s.unsaved \cup {k} /\ t.early = s.early /\ t.kept = s.kept \ {k}
  <2>1. /\ SameBut(k, s.unsaved \cup {k}, s.unsaved) /\ SameBut(k, s.early, s.early)
        /\ SameBut(k, s.kept \ {k}, s.kept)
    BY DEF SameBut
  <2> QED BY <1>1, <1>2, <2>1, AlteredFields
<1>5. t.status = s.status /\ t.failures = s.failures
  BY <1>4 DEF Alters
<1>6. IsDefault(t) => t.data[k] = t.expected[k] \/ (k \in t.early /\ t.status >= LOADED)
  BY <1>3, <1>4, <1>5 DEF Remembers, IsDefault
<1>7. Remembers(t)
  BY <1>4, <1>6, AlteredIsRemembered
<1>8. LOADED # INITIALIZED
  BY DEF LOADED, INITIALIZED
<1>9. Settled(t)
  BY <1>4, <1>5, <1>8, UnmarkedIsSettled
<1> QED BY <1>5, <1>7, <1>9 DEF t

LEMMA EraseKeeps ==
  ASSUME NEW s, Remembers(s), Settled(s), s.status \in {INITIALIZED, LOADED}, NEW k \in Keys
  PROVE  LET t == Erased(s, k)
         IN  Remembers(t) /\ Settled(t) /\ t.status = s.status
<1> DEFINE t == Erased(s, k)
           E == IF s.status < LOADED THEN (s.early \ {k}) \cup {k} ELSE s.early \ {k}
<1>1. s \in States /\ <<>> \in Seq(Values)
  BY EmptySeq DEF Remembers
<1>2. IsAltered(t, s, k, <<>>, <<>>, s.dirty, s.unsaved \cup {k}, E, s.kept \ {k})
  <2> DEFINE u == Unmarked(Set(s, k, <<>>), k)
  <2>1. IsAltered(u, s, k, <<>>, <<>>, s.dirty, s.unsaved \cup {k}, s.early \ {k}, s.kept \ {k})
    BY <1>1, SetIsAltered, UnmarkedIsAltered
  <2>2. t = [u EXCEPT !.early = IF s.status < LOADED THEN u.early \cup {k} ELSE u.early]
    BY DEF Erased
  <2> HIDE DEF u
  <2>3. u \in States /\ u.early = s.early \ {k} /\ s.early \subseteq Keys
    BY <1>1, <2>1 DEF IsAltered, States
  <2>4. t = [u EXCEPT !.early = E] /\ E \subseteq Keys
    BY <2>2, <2>3
  <2> HIDE DEF t, E
  <2> QED BY <2>1, <2>3, <2>4 DEF IsAltered, States
<1>3. E \in {s.early, s.early \ {k}, s.early \cup {k}, (s.early \ {k}) \cup {k}}
  OBVIOUS
<1>4. s.status = INITIALIZED => k \in E
  BY DEF INITIALIZED, LOADED
<1> HIDE DEF t, E
<1>5. /\ Alters(t, s, k) /\ t.data[k] = <<>> /\ t.expected[k] = <<>> /\ t.dirty = s.dirty
      /\ t.unsaved = s.unsaved \cup {k} /\ t.early = E /\ t.kept = s.kept \ {k}
  <2>1. /\ SameBut(k, s.unsaved \cup {k}, s.unsaved) /\ SameBut(k, E, s.early)
        /\ SameBut(k, s.kept \ {k}, s.kept)
    BY <1>3 DEF SameBut
  <2> QED BY <1>1, <1>2, <2>1, AlteredFields
<1>6. t.status = s.status /\ t.failures = s.failures
  BY <1>5 DEF Alters
<1>7. Remembers(t)
  BY <1>5, AlteredIsRemembered
<1>8. Settled(t)
  BY <1>4, <1>5, <1>6, UnmarkedIsSettled
<1> QED BY <1>6, <1>7, <1>8 DEF t

-----------------------------------------------------------------------------
(* The ends of an operation                                                *)

\* An operation that leaves the file alone.
LEMMA QuietKeeps ==
  ASSUME StorageInv, phase = "open", NEW s, Remembers(s), Settled(s),
         s.status \in {INITIALIZED, LOADED}, Quiet(s), UNCHANGED phase
  PROVE  StorageInv'
<1>1. /\ data' = s.data /\ status_' = s.status /\ dirty_' = s.dirty /\ failures' = s.failures
      /\ expected' = s.expected /\ unsaved' = s.unsaved /\ early' = s.early /\ kept' = s.kept
      /\ UNCHANGED <<file, crashes, read_, write_, phase>>
  BY DEF Quiet
<1>2. TypeOK'
  BY <1>1 DEF StorageInv, TypeOK, Remembers, States
<1>3. NotLoaded' = s
  BY <1>1 DEF NotLoaded, Remembers, States
<1>4. should_read(s.status)' = should_read(s.status)
  BY <1>1 DEF should_read
<1>5. Remembers(NotLoaded)' /\ Settled(NotLoaded)'
  BY <1>1, <1>3, <1>4
  DEF Remembers, IsDefault, Settled, KeptBelow, NothingWaits, DefaultBelow, NotTorn
<1> QED BY <1>1, <1>2, <1>5 DEF StorageInv

\* One that saves: the tree is written, or the file cannot be opened, or the policy
\* has nothing to write.
LEMMA MaybeSaveKeeps ==
  ASSUME StorageInv, NEW s, Remembers(s), should_write(s.dirty, s.status) \/ Settled(s),
         NEW rest, \/ phase = "open" /\ rest = "open" /\ s.status \in {INITIALIZED, LOADED}
                   \/ phase = "closing" /\ rest = "closed" /\ s.status = FINISHED,
         MaybeSave(s, rest)
  PROVE  StorageInv'
<1>1. /\ s \in States /\ TypeOK /\ s.failures \in 0..MaxFailures
      /\ s.data \in Trees /\ s.expected \in Trees /\ s.kept \subseteq Keys
  BY DEF StorageInv, Remembers, States
<1>2. CASE /\ should_write(s.dirty, s.status)
           /\ phase' = "saving" /\ file' = Partial
           /\ data' = Saved(s).data /\ status_' = Saved(s).status /\ dirty_' = Saved(s).dirty
           /\ failures' = Saved(s).failures /\ expected' = Saved(s).expected
           /\ unsaved' = Saved(s).unsaved /\ early' = Saved(s).early /\ kept' = Saved(s).kept
           /\ UNCHANGED <<crashes, read_, write_>>
  <2> DEFINE E == IF s.status < LOADED THEN {} ELSE s.early
             t == Saved(s)
  <2>1. CleanStatus(s.status) \in {LOADED, FINISHED} /\ (s.status < LOADED => s.status = INITIALIZED)
    BY <1>1 DEF States, CleanStatus, INITIALIZING, INITIALIZED, LOADED, FINISHED
  <2>2. E \subseteq Keys /\ {} \subseteq Keys
        /\ CleanStatus(s.status) \in INITIALIZING..FINISHED
    BY <1>1, <2>1 DEF States, INITIALIZING, LOADED, FINISHED
  <2>3. t = [s EXCEPT !.dirty = FALSE, !.status = CleanStatus(s.status), !.unsaved = {},
                      !.early = E]
    BY <1>1 DEF Saved, States
  <2> HIDE DEF t, E
  <2>4. /\ t \in States /\ t.data = s.data /\ t.failures = s.failures /\ t.expected = s.expected
        /\ t.dirty = FALSE /\ t.unsaved = {} /\ t.kept = s.kept /\ t.early = E
        /\ t.status = CleanStatus(s.status)
    BY <1>1, <2>2, <2>3 DEF States
  <2>5. ASSUME IsDefault(t), NEW k \in Keys
        PROVE  t.data[k] = t.expected[k] \/ (k \in t.early /\ t.status >= LOADED)
    <3>1. s.data[k] = s.expected[k] \/ (k \in s.early /\ s.status >= LOADED)
      BY <2>4, <2>5 DEF IsDefault, Remembers
    <3>2. CASE s.status < LOADED
      <4>1. ~(s.status >= LOADED)
        BY <1>1, <3>2 DEF States, INITIALIZING, LOADED, FINISHED
      <4> QED BY <2>4, <3>1, <4>1
    <3>3. CASE ~(s.status < LOADED)
      <4>1. CleanStatus(s.status) = s.status
        BY <3>3 DEF CleanStatus
      <4> QED BY <2>4, <3>1, <3>3, <4>1 DEF E
    <3> QED BY <3>2, <3>3
  <2>6. Remembers(t)
    BY <2>4, <2>5 DEF Remembers
  <2>7. NotLoaded' = t
    BY <1>2, <2>4 DEF NotLoaded, States, t
  <2>8. TypeOK'
    BY <1>1, <1>2, <2>4 DEF TypeOK, States, t
  <2>9. Remembers(NotLoaded)'
    BY <1>2, <2>6, <2>7 DEF Remembers, IsDefault
  <2>10. ~dirty_' /\ unsaved' = {} /\ status_' \in {LOADED, FINISHED}
    BY <1>2, <2>1, <2>4 DEF t
  <2> QED BY <1>2, <2>8, <2>9, <2>10 DEF StorageInv
<1>3. CASE Quiet([s EXCEPT !.failures = @ + 1]) /\ phase' = rest /\ s.failures < MaxFailures
  <2> DEFINE t == [s EXCEPT !.failures = s.failures + 1]
  <2>1. s.failures + 1 \in 0..MaxFailures /\ s.failures + 1 # 0
    BY <1>1, <1>3, StorageAssumption
  <2>2. t \in States /\ t.failures # 0 /\ t.status = s.status
    BY <1>1, <2>1 DEF States
  <2>3. Quiet(t)
    BY <1>1, <1>3 DEF States
  <2> HIDE DEF t
  <2>4. /\ data' = t.data /\ status_' = t.status /\ dirty_' = t.dirty /\ failures' = t.failures
        /\ expected' = t.expected /\ unsaved' = t.unsaved /\ early' = t.early /\ kept' = t.kept
        /\ UNCHANGED <<file, crashes, read_, write_>>
    BY <2>3 DEF Quiet
  <2>5. NotLoaded' = t
    BY <2>2, <2>4 DEF NotLoaded, States
  <2>6. TypeOK'
    BY <1>1, <1>3, <2>2, <2>4 DEF TypeOK, States
  <2>7. Remembers(NotLoaded)' /\ Settled(NotLoaded)'
    BY <2>2, <2>4, <2>5
    DEF Remembers, IsDefault, Settled, KeptBelow, NothingWaits, DefaultBelow, NotTorn
  <2> QED BY <1>3, <2>2, <2>4, <2>6, <2>7 DEF StorageInv, INITIALIZED, LOADED, FINISHED
<1>4. CASE Quiet(s) /\ phase' = rest /\ ~should_write(s.dirty, s.status)
  <2>1. /\ data' = s.data /\ status_' = s.status /\ dirty_' = s.dirty /\ failures' = s.failures
        /\ expected' = s.expected /\ unsaved' = s.unsaved /\ early' = s.early /\ kept' = s.kept
        /\ UNCHANGED <<file, crashes, read_, write_>>
    BY <1>4 DEF Quiet
  <2>2. NotLoaded' = s
    BY <1>1, <2>1 DEF NotLoaded, States
  <2>3. TypeOK'
    BY <1>1, <1>4, <2>1 DEF TypeOK, States
  <2>4. should_read(s.status)' = should_read(s.status) /\ Settled(s)
    BY <1>4, <2>1 DEF should_read
  <2>5. Remembers(NotLoaded)' /\ Settled(NotLoaded)'
    BY <2>1, <2>2, <2>4
    DEF Remembers, IsDefault, Settled, KeptBelow, NothingWaits, DefaultBelow, NotTorn
  <2>6. ASSUME rest = "closed", write_' # "DISCARD", failures' = 0
        PROVE  \A k \in kept' : file'[k] = expected'[k]
    <3>1. s.status = FINISHED /\ s.failures = 0 /\ write_ # "DISCARD"
      BY <2>1, <2>6
    <3>2. ~s.dirty
      BY <1>1, <1>4, <3>1, Policies
    <3> QED BY <2>1, <2>4, <3>1, <3>2 DEF Settled, KeptBelow
  <2> QED BY <1>4, <2>1, <2>3, <2>5, <2>6 DEF StorageInv, INITIALIZED, LOADED, FINISHED
<1> QED BY <1>2, <1>3, <1>4 DEF MaybeSave

-----------------------------------------------------------------------------
(* The steps                                                               *)

\* A new life of the storage begins with what is in the file.
LEMMA OpenInv ==
  ASSUME StorageInv, Open
  PROVE  StorageInv'
<1> DEFINE believed == [k \in Keys |->
      IF (k \in kept /\ write_ # "DISCARD") \/ file = Partial THEN expected[k] ELSE file[k]]
<1>1. /\ phase = "closed" /\ phase' = "open" /\ status_' = INITIALIZED /\ dirty_' = FALSE
      /\ expected' = believed /\ unsaved' = {} /\ early' = {}
      /\ kept' = IF read_ = "ONCE" THEN Keys ELSE {}
      /\ UNCHANGED <<read_, write_, file, crashes>>
      /\ ~(should_read(INITIALIZING) /\ file = Partial)
      /\ \/ data' = (IF should_read(INITIALIZING) THEN file ELSE Empty) /\ failures' = failures
         \/ failures < MaxFailures /\ data' = Empty /\ failures' = failures + 1
  BY DEF Open
<1>2. /\ TypeOK /\ expected \in Trees /\ file \in Trees \cup {Partial} /\ failures \in 0..MaxFailures
  BY DEF StorageInv, TypeOK
<1>3. believed \in Trees
  BY <1>2 DEF Trees
<1>4. ASSUME failures = 0, file # Partial PROVE believed = file
  <2>1. ASSUME NEW k \in Keys PROVE believed[k] = file[k]
    <3>1. k \in kept /\ write_ # "DISCARD" => expected[k] = file[k]
      BY <1>1, <1>4 DEF StorageInv
    <3> QED BY <1>4, <3>1
  <2>2. file \in Trees
    BY <1>2, <1>4
  <2> QED BY <1>3, <2>1, <2>2 DEF Trees
<1> HIDE DEF believed
<1>5. read_ = "ONCE" => should_read(INITIALIZING) /\ file # Partial
  BY <1>1, <1>2, Reads
<1>6. failures' \in 0..MaxFailures /\ (failures' = 0 => failures = 0)
  BY <1>1, <1>2, StorageAssumption
<1>7. data' \in Trees
  BY <1>1, <1>2, EmptyIsTree
<1>8. INITIALIZED \in INITIALIZING..FINISHED /\ INITIALIZED # LOADED
  BY DEF INITIALIZING, INITIALIZED, LOADED, FINISHED
<1>9. TypeOK'
  BY <1>1, <1>2, <1>3, <1>6, <1>7, <1>8 DEF TypeOK
<1>10. failures' = 0 /\ read_ = "ONCE" => data' = file /\ expected' = file
  <2> SUFFICES ASSUME failures' = 0, read_ = "ONCE" PROVE data' = file /\ expected' = file
    OBVIOUS
  <2>1. failures + 1 # 0
    BY <1>2
  <2> QED BY <1>1, <1>4, <1>5, <1>6, <2>1
<1>11. NotLoaded' = [data |-> data', status |-> INITIALIZED, dirty |-> FALSE,
                     failures |-> failures', expected |-> expected', unsaved |-> {},
                     early |-> {}, kept |-> kept']
  BY <1>1 DEF NotLoaded
<1>12. Remembers(NotLoaded)'
  BY <1>1, <1>9, <1>10, <1>11 DEF Remembers, IsDefault, States, TypeOK
<1>13. Settled(NotLoaded)'
  BY <1>1, <1>5, <1>8, <1>10, <1>11
  DEF Settled, KeptBelow, NothingWaits, DefaultBelow, IsDefault, NotTorn
<1> QED BY <1>1, <1>9, <1>12, <1>13 DEF StorageInv, Running

\* The program ends when it meets a file that does not parse.
LEMMA OpenFailsInv ==
  ASSUME StorageInv, OpenFails
  PROVE  StorageInv'
<1>1. /\ phase' = "failed"
      /\ UNCHANGED <<read_, write_, status_, dirty_, data, file, crashes, failures, expected,
                     unsaved, early, kept>>
  BY DEF OpenFails, policyVars, historyVars
<1> QED BY <1>1 DEF StorageInv, Running, TypeOK

\* The calls of a program.
LEMMA CallInv ==
  ASSUME StorageInv, NEW k \in Keys, NEW v \in Values,
         Put(k, v) \/ PutUnder(k, v) \/ MaybePut(k, v) \/ AppendTo(k, v)
  PROVE  StorageInv'
<1>1. TypeOK /\ phase = "open"
  BY DEF StorageInv, Put, PutUnder, MaybePut, AppendTo
<1>2. ASSUME NEW s, Remembers(s), Settled(s), s.status \in {INITIALIZED, LOADED},
             NEW t \in {PutValue(s, k, <<v>>), Under(s, k, v)}, MaybeSave(t, "open")
      PROVE  StorageInv'
  <2>1. /\ Remembers(t) /\ t.status \in {INITIALIZED, LOADED}
        /\ should_write(t.dirty, t.status) \/ Settled(t)
    BY <1>1, <1>2, PutKeeps
  <2> QED BY <1>1, <1>2, <2>1, MaybeSaveKeeps
<1>3. CASE Put(k, v)
  BY <1>1, <1>2, <1>3, CallBegins DEF Put
<1>4. CASE PutUnder(k, v)
  BY <1>1, <1>2, <1>4, CallBegins DEF PutUnder
<1>5. CASE MaybePut(k, v)
  <2>1. PICK s \in AfterMaybeLoad : \/ Quiet(s) /\ UNCHANGED phase
                                    \/ MaybeSave(PutValue(s, k, <<v>>), "open")
    BY <1>5 DEF MaybePut
  <2>2. Remembers(s) /\ Settled(s) /\ s.status \in {INITIALIZED, LOADED}
    BY <1>1, CallBegins
  <2> QED BY <1>1, <1>2, <2>1, <2>2, QuietKeeps
<1>6. CASE AppendTo(k, v)
  <2>1. PICK s \in AfterMaybeLoad : Quiet(Unmarked(Extended(s, k, v), k))
    BY <1>6 DEF AppendTo
  <2> DEFINE t == Unmarked(Extended(s, k, v), k)
  <2>2. Remembers(t) /\ Settled(t) /\ t.status = LOADED
    BY <1>1, CallBegins, AppendKeeps
  <2>3. Quiet(t) /\ UNCHANGED phase
    BY <1>6, <2>1 DEF AppendTo
  <2> HIDE DEF t
  <2> QED BY <1>1, <2>2, <2>3, QuietKeeps
<1> QED BY <1>3, <1>4, <1>5, <1>6

\* Those without a value.
LEMMA GetOrEraseInv ==
  ASSUME StorageInv, Get \/ \E k \in Keys : Erase(k)
  PROVE  StorageInv'
<1>1. CASE Get
  <2>1. phase = "open" /\ UNCHANGED phase /\ \E s \in AfterMaybeLoad : Quiet(s)
    BY <1>1 DEF Get
  <2> QED BY <2>1, CallBegins, QuietKeeps
<1>2. ASSUME NEW k \in Keys, Erase(k) PROVE StorageInv'
  <2> DEFINE t == Erased(NotLoaded, k)
  <2>1. /\ phase = "open"
        /\ MaybeSave(t, "open") \/ (Quiet(t) /\ UNCHANGED phase)
    BY <1>2 DEF Erase
  <2>2. Remembers(t) /\ Settled(t) /\ t.status \in {INITIALIZED, LOADED}
    BY <2>1, CallBegins, EraseKeeps
  <2> HIDE DEF t
  <2> QED BY <2>1, <2>2, QuietKeeps, MaybeSaveKeeps
<1> QED BY <1>1, <1>2

\* The destructor.
LEMMA CloseInv ==
  ASSUME StorageInv, Close
  PROVE  StorageInv'
<1>1. /\ phase = "open" /\ phase' = "closing" /\ status_' = FINISHED
      /\ UNCHANGED <<read_, write_, dirty_, data, file, crashes, failures, expected, unsaved,
                     early, kept>>
  BY DEF Close, historyVars
<1>2. /\ TypeOK /\ Remembers(NotLoaded) /\ Settled(NotLoaded) /\ status_ \in {INITIALIZED, LOADED}
  BY <1>1 DEF StorageInv, Running
<1>3. FINISHED \in INITIALIZING..FINISHED /\ FINISHED >= LOADED /\ FINISHED # LOADED
      /\ FINISHED # INITIALIZED
  BY DEF INITIALIZING, INITIALIZED, LOADED, FINISHED
<1>4. TypeOK'
  BY <1>1, <1>2, <1>3 DEF TypeOK
<1>5. NotLoaded' = [data |-> data, status |-> FINISHED, dirty |-> dirty_, failures |-> failures,
                    expected |-> expected, unsaved |-> unsaved, early |-> early, kept |-> kept]
  BY <1>1 DEF NotLoaded
<1>6. Remembers(NotLoaded)'
  <2>1. NotLoaded' \in States
    BY <1>2, <1>3, <1>5 DEF States, TypeOK
  <2> QED BY <1>1, <1>2, <1>3, <1>5, <2>1 DEF Remembers, IsDefault, NotLoaded, States
<1>7. Settled(NotLoaded)'
  <2>1. should_read(FINISHED) => should_read(status_)
    BY <1>2, Reads
  <2>2. should_read(FINISHED)' = should_read(FINISHED)
    BY <1>1 DEF should_read
  <2> QED BY <1>1, <1>2, <1>3, <1>5, <2>1, <2>2
          DEF Settled, KeptBelow, NothingWaits, DefaultBelow, IsDefault, NotTorn, NotLoaded
<1> QED BY <1>1, <1>4, <1>6, <1>7 DEF StorageInv, Running

\* Then it saves.
LEMMA CloseSaveInv ==
  ASSUME StorageInv, CloseSave
  PROVE  StorageInv'
<1>1. /\ phase = "closing" /\ MaybeSave(NotLoaded, "closed") /\ Remembers(NotLoaded)
      /\ Settled(NotLoaded) /\ NotLoaded.status = FINISHED
  BY DEF CloseSave, StorageInv, Running, NotLoaded
<1> QED BY <1>1, MaybeSaveKeeps

\* The end of a save.
LEMMA SaveEndInv ==
  ASSUME StorageInv, SaveEnd
  PROVE  StorageInv'
<1>1. /\ phase = "saving" /\ file' = data /\ phase' = IF status_ = FINISHED THEN "closed" ELSE "open"
      /\ UNCHANGED <<read_, write_, status_, dirty_, data, crashes, failures, expected, unsaved,
                     early, kept>>
  BY DEF SaveEnd, policyVars, historyVars
<1>2. /\ TypeOK /\ Remembers(NotLoaded) /\ ~dirty_ /\ unsaved = {} /\ data \in Trees
      /\ status_ \in {LOADED, FINISHED}
  BY <1>1 DEF StorageInv, Running, TypeOK
<1>3. TypeOK' /\ file' # Partial
  BY <1>1, <1>2, TreesAreWhole DEF TypeOK
<1>4. NotLoaded' = NotLoaded
  BY <1>1 DEF NotLoaded
<1>5. Remembers(NotLoaded)'
  BY <1>1, <1>2, <1>4 DEF Remembers, IsDefault
<1>6. Settled(NotLoaded)'
  <2>1. failures = 0 => \A k \in kept : data[k] = expected[k]
    BY <1>2 DEF Remembers, NotLoaded
  <2>2. ASSUME IsDefault(NotLoaded), NEW k \in Keys \ early PROVE data[k] = expected[k]
    BY <1>2, <2>2 DEF Remembers, NotLoaded
  <2> QED BY <1>1, <1>2, <1>3, <1>4, <2>1, <2>2
          DEF Settled, KeptBelow, NothingWaits, DefaultBelow, IsDefault, NotTorn, NotLoaded
<1>7. failures = 0 => \A k \in kept : file'[k] = expected[k]
  BY <1>1, <1>2 DEF Remembers, NotLoaded
<1> QED BY <1>1, <1>2, <1>3, <1>5, <1>6, <1>7 DEF StorageInv

\* A crash: what a save was writing is lost, and what was never written.
LEMMA CrashInv ==
  ASSUME StorageInv, Crash
  PROVE  StorageInv'
<1>1. /\ phase \in {"open", "saving", "closing"} /\ phase' = "closed"
      /\ crashes < MaxCrashes /\ crashes' = crashes + 1
      /\ kept' = IF phase = "saving" \/ write_ = "ONCE" THEN {} ELSE kept
      /\ phase # "saving" => file' = file
      /\ file' \in {Partial, Empty, file}
      /\ UNCHANGED <<read_, write_, status_, dirty_, data, failures, expected, unsaved, early>>
  BY DEF Crash, policyVars
<1>2. TypeOK
  BY DEF StorageInv
<1>3. crashes' \in 0..MaxCrashes /\ kept' \subseteq Keys /\ file' \in Trees \cup {Partial}
  BY <1>1, <1>2, EmptyIsTree, StorageAssumption DEF TypeOK
<1>4. TypeOK'
  BY <1>1, <1>2, <1>3 DEF TypeOK
<1>5. ASSUME write_ # "DISCARD", failures = 0, NEW k \in kept' PROVE file'[k] = expected[k]
  <2>1. phase \in {"open", "closing"} /\ write_ = "DYNAMIC" /\ k \in kept /\ file' = file
    BY <1>1, <1>2, <1>5, Policies
  <2>2. ~dirty_
    BY <1>5, <2>1 DEF StorageInv, Settled, NothingWaits, NotLoaded
  <2> QED BY <1>5, <2>1, <2>2 DEF StorageInv, Settled, KeptBelow, NotLoaded
<1> QED BY <1>1, <1>4, <1>5 DEF StorageInv, Running

\* Nothing is open at first.
LEMMA StorageInitInv == Init => StorageInv
<1> SUFFICES ASSUME Init PROVE StorageInv
  OBVIOUS
<1>1. /\ phase = "closed" /\ read_ \in ReadPolicies /\ write_ \in WritePolicies
      /\ status_ = 0 /\ dirty_ = FALSE /\ data = Empty /\ crashes = 0 /\ failures = 0
      /\ expected = file /\ unsaved = {} /\ early = {} /\ kept = {}
  BY DEF Init, INITIALIZING
<1>2. file \in Trees
  <2>1. PICK v \in Values : file = [k \in Keys |-> <<v>>]
    BY DEF Init
  <2>2. <<v>> \in Seq(Values)
    OBVIOUS
  <2> QED BY <2>1, <2>2 DEF Trees
<1>3. 0 \in 0..MaxCrashes /\ 0 \in 0..MaxFailures /\ 0 \in INITIALIZING..FINISHED
  BY StorageAssumption DEF INITIALIZING, FINISHED
<1>4. TypeOK
  BY <1>1, <1>2, <1>3, EmptyIsTree DEF TypeOK
<1> QED BY <1>1, <1>4 DEF StorageInv, Running

\* Every step.
LEMMA StorageStepInv ==
  ASSUME StorageInv, [Next]_vars
  PROVE  StorageInv'
<1>1. CASE UNCHANGED vars
  <2>1. UNCHANGED <<phase, read_, write_, status_, dirty_, data, file, crashes, failures,
                    expected, unsaved, early, kept>>
    BY <1>1 DEF vars, policyVars, historyVars
  <2>2. NotLoaded' = NotLoaded /\ should_read(NotLoaded.status)' = should_read(NotLoaded.status)
    BY <2>1 DEF NotLoaded, should_read
  <2>3. Remembers(NotLoaded)' = Remembers(NotLoaded) /\ Settled(NotLoaded)' = Settled(NotLoaded)
    BY <2>1, <2>2
    DEF Remembers, IsDefault, Settled, KeptBelow, NothingWaits, DefaultBelow, NotTorn
  <2> QED BY <2>1, <2>3 DEF StorageInv, Running, TypeOK
<1> QED BY <1>1, OpenInv, OpenFailsInv, CallInv, GetOrEraseInv, CloseInv, SaveEndInv, CrashInv,
           CloseSaveInv DEF Next

\* The invariant of the storage.
LEMMA StorageInvariance == Spec => []StorageInv
  BY StorageInitInv, StorageStepInv, PTL DEF Spec

\* Every variable has its type.
THEOREM StorageTypeCorrect == Spec => []TypeOK
<1>1. StorageInv => TypeOK
  BY DEF StorageInv
<1> QED BY <1>1, StorageInvariance, PTL

\* With the policy the storage is built with, and a file that can be opened, a running
\* program has in memory what its calls have made, but for what was erased before the
\* load and not saved, which it may have again; and all on disk but what append and
\* erase have changed since.
THEOREM DefaultPolicyKeepsWrites == Spec => []DefaultKeepsWrites
<1>1. StorageInv => DefaultKeepsWrites
  BY DEF StorageInv, Running, Remembers, Settled, DefaultBelow, IsDefault, NotLoaded,
     DefaultKeepsWrites
<1> QED BY <1>1, StorageInvariance, PTL

\* Under every policy no load and no save undoes a put of a policy that writes at once
\* or that came after the first load, over lives and crashes; and no file that does not
\* parse is taken for a tree.
THEOREM WritesAreDurable == Spec => []Durable
<1> SUFFICES StorageInv => Durable
  BY StorageInvariance, PTL
<1> SUFFICES ASSUME StorageInv PROVE Durable
  OBVIOUS
<1>1. WholeWhileOpen
  BY DEF StorageInv, Settled, NotTorn, NotLoaded, WholeWhileOpen
<1>2. KeptInMemory
  BY DEF StorageInv, Running, Remembers, NotLoaded, KeptInMemory
<1>3. KeptOnDisk
  <2>1. CASE phase \in {"open", "closing"} /\ write_ = "DYNAMIC" /\ failures = 0
    <3>1. Settled(NotLoaded) /\ ~NotLoaded.dirty
      BY <2>1 DEF StorageInv, Settled, NothingWaits, NotLoaded
    <3> QED BY <2>1, <3>1 DEF Settled, KeptBelow, NotLoaded, KeptOnDisk
  <2>2. CASE ~(phase \in {"open", "closing"} /\ write_ = "DYNAMIC" /\ failures = 0)
    BY <2>2 DEF StorageInv, KeptOnDisk
  <2> QED BY <2>1, <2>2
<1> QED BY <1>1, <1>2, <1>3 DEF Durable
===============================================================================
