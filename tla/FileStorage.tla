------------------------------ MODULE FileStorage ------------------------------
(***************************************************************************)
(* The file storage (modules/file_storage/file_storage.cpp) and the cache  *)
(* policy that decides when it reads and writes its file                   *)
(* (src/melanobot/cache_policy.hpp).  A tree is abstracted to a function   *)
(* from the paths in use to the sequence of values under them, empty when  *)
(* the path is absent.  Saving truncates the file before it writes it.     *)
(***************************************************************************)
EXTENDS Naturals, Sequences

CONSTANTS
  Keys, Values,
  ReadPolicies, WritePolicies,  \* those the configuration may choose
  MaxValues,    \* bound: values under a path
  MaxCrashes,   \* bound: crashes
  MaxFailures   \* bound: loads and saves that cannot open the file

ASSUME StorageAssumption ==
  /\ ReadPolicies \subseteq {"ONCE", "LAZY", "DYNAMIC"}
  /\ WritePolicies \subseteq {"ONCE", "DYNAMIC", "DISCARD"}
  /\ Keys # {}
  /\ {MaxValues, MaxCrashes, MaxFailures} \subseteq Nat

VARIABLES
  phase,         \* closed, open, saving (the file is truncated), closing or failed
  read_, write_, \* the policy
  status_,       \* CachePolicy::Status
  dirty_,
  data,          \* the tree in memory
  file,          \* the tree on disk, or Partial
  crashes, failures,
  \* history, of the calls that were made:
  expected,      \* the tree they should have made of what was in the file
  unsaved,       \* paths changed without marking the tree dirty since it was read or saved
  early,         \* paths erased before this life read its file again or saved it
  kept           \* paths with a value in the file or put there, which the policy is to keep

policyVars == <<read_, write_, status_, dirty_>>
historyVars == <<expected, unsaved, early, kept>>
vars == <<phase, policyVars, data, file, crashes, failures, historyVars>>

Trees == [Keys -> Seq(Values)]
Empty == [k \in Keys |-> <<>>]
\* A file that does not parse: no function on Keys.
Partial == <<>>

\* Status in the order of its enumerators.
INITIALIZING == 0
INITIALIZED == 1
LOADED == 2
FINISHED == 3

should_read(status) ==
  CASE read_ = "ONCE" -> status <= INITIALIZED
    [] read_ = "LAZY" -> status = INITIALIZED
    [] read_ = "DYNAMIC" -> status >= INITIALIZED

\* Mutant: DYNAMIC falls through to the test of ONCE.
should_write_fallthrough(dirty, status) ==
  write_ # "DISCARD" /\ dirty /\ status = FINISHED

should_write(dirty, status) ==
  CASE write_ = "ONCE" -> dirty /\ status = FINISHED
    [] write_ = "DYNAMIC" -> dirty
    [] write_ = "DISCARD" -> FALSE

\* mark_clean, from a given status.
CleanStatus(status) == IF status < LOADED THEN LOADED ELSE status

Init ==
  /\ phase = "closed"
  /\ read_ \in ReadPolicies /\ write_ \in WritePolicies
  /\ status_ = INITIALIZING /\ dirty_ = FALSE
  /\ data = Empty
  /\ file \in {[k \in Keys |-> <<v>>] : v \in Values}
  /\ crashes = 0 /\ failures = 0
  /\ expected = file /\ unsaved = {} /\ early = {} /\ kept = {}

-----------------------------------------------------------------------------
(* What an operation works on: the tree, the status and the history, first as *)
(* they are and then as maybe_load leaves them.  A load forgets nothing of    *)
(* what the calls made, whatever it drops.                                    *)

NotLoaded == [data |-> data, status |-> status_, dirty |-> dirty_, failures |-> failures,
              expected |-> expected, unsaved |-> unsaved, early |-> early, kept |-> kept]

\* load: the tree is cleared and marked clean before the file is opened.
Cleared(tree, n) ==
  [data |-> tree, status |-> CleanStatus(status_), dirty |-> FALSE, failures |-> n,
   expected |-> expected, unsaved |-> {}, early |-> early, kept |-> kept]

Loaded == Cleared(file, failures)

\* The tree stays as empty and as clean when the file cannot be opened.
NotOpened == Cleared(Empty, failures + 1)

AfterMaybeLoad ==
  IF should_read(status_)
  THEN {s \in {Loaded} : file # Partial} \cup {s \in {NotOpened} : failures < MaxFailures}
  ELSE {NotLoaded}

\* The end of an operation that leaves the tree in state s and the file alone.
Quiet(s) ==
  /\ data' = s.data /\ status_' = s.status /\ dirty_' = s.dirty /\ failures' = s.failures
  /\ expected' = s.expected /\ unsaved' = s.unsaved /\ early' = s.early /\ kept' = s.kept
  /\ UNCHANGED <<file, crashes, read_, write_>>

\* What was erased before the first save is saved with it.
Saved(s) ==
  [s EXCEPT !.dirty = FALSE, !.status = CleanStatus(@), !.unsaved = {},
            !.early = IF s.status < LOADED THEN {} ELSE @]

\* The end of one that calls maybe_save, in a phase `rest`.  A save opens the
\* file, which truncates it, and marks the tree clean before it writes; or it
\* cannot open the file.
MaybeSave(s, rest) ==
  \/ /\ should_write(s.dirty, s.status)
     /\ phase' = "saving" /\ file' = Partial
     /\ LET t == Saved(s)
        IN  /\ data' = t.data /\ status_' = t.status /\ dirty_' = t.dirty
            /\ failures' = t.failures /\ expected' = t.expected
            /\ unsaved' = t.unsaved /\ early' = t.early /\ kept' = t.kept
     /\ UNCHANGED <<crashes, read_, write_>>
  \/ /\ should_write(s.dirty, s.status)
     /\ s.failures < MaxFailures
     /\ phase' = rest
     /\ Quiet([s EXCEPT !.failures = @ + 1])
  \/ /\ ~should_write(s.dirty, s.status)
     /\ phase' = rest
     /\ Quiet(s)

Set(s, k, values) ==
  [s EXCEPT !.data[k] = values, !.expected[k] = values, !.early = @ \ {k}]

Extended(s, k, v) == [s EXCEPT !.data[k] = Append(@, v), !.expected[k] = Append(@, v)]

\* A put that is saved at once, or that no load comes after.
PutStays(s) == write_ = "DYNAMIC" \/ (read_ # "DYNAMIC" /\ s.status >= LOADED)

\* put of a value, a sequence or a map.
PutValue(s, k, values) ==
  [Set(s, k, values) EXCEPT !.dirty = TRUE,
                            !.kept = IF PutStays(s) THEN @ \cup {k} ELSE @ \ {k}]

\* append and erase mark nothing dirty.
Unmarked(s, k) == [s EXCEPT !.unsaved = @ \cup {k}, !.kept = @ \ {k}]

HasRoom(s, k) == Len(s.data[k]) < MaxValues /\ Len(s.expected[k]) < MaxValues

-----------------------------------------------------------------------------
\* The constructor: mark_initializing, maybe_load, mark_initialized.
Open ==
  /\ phase = "closed"
  /\ ~(should_read(INITIALIZING) /\ file = Partial)
  /\ phase' = "open"
  /\ \/ /\ data' = IF should_read(INITIALIZING) THEN file ELSE Empty
        /\ UNCHANGED failures
     \/ /\ should_read(INITIALIZING)
        /\ failures < MaxFailures
        /\ data' = Empty
        /\ failures' = failures + 1
  /\ status_' = INITIALIZED
  /\ dirty_' = FALSE
  /\ expected' = [k \in Keys |->
       IF (k \in kept /\ write_ # "DISCARD") \/ file = Partial THEN expected[k] ELSE file[k]]
  /\ unsaved' = {} /\ early' = {}
  /\ kept' = IF read_ = "ONCE" THEN Keys ELSE {}
  /\ UNCHANGED <<read_, write_, file, crashes>>

\* A file that does not parse is an exception of the constructor or of the first
\* call that loads, and ends the program.
OpenFails ==
  /\ file = Partial
  /\ \/ phase = "closed" /\ should_read(INITIALIZING)
     \/ phase = "open" /\ should_read(status_)
  /\ phase' = "failed"
  /\ UNCHANGED <<policyVars, data, file, crashes, failures, historyVars>>

\* get_* and maybe_get_*.
Get ==
  /\ phase = "open"
  /\ \E s \in AfterMaybeLoad : Quiet(s)
  /\ UNCHANGED phase

\* put of a value, a sequence or a map: no load before it.
Put(k, v) ==
  /\ phase = "open"
  /\ MaybeSave(PutValue(NotLoaded, k, <<v>>), "open")

\* Mutant: the new value is not marked dirty.
UnderClean(s, k, v) ==
  [Extended(s, k, v) EXCEPT !.kept = IF PutStays(s) THEN @ ELSE @ \ {k}]

\* Under a path: the value is put after those there.
Under(s, k, v) ==
  [Extended(s, k, v) EXCEPT !.dirty = TRUE, !.kept = IF PutStays(s) THEN @ ELSE @ \ {k}]

\* put of a key under a path.
PutUnder(k, v) ==
  /\ phase = "open"
  /\ HasRoom(NotLoaded, k)
  /\ MaybeSave(Under(NotLoaded, k, v), "open")

\* maybe_put: put unless the path is there.
MaybePut(k, v) ==
  /\ phase = "open"
  /\ \E s \in AfterMaybeLoad :
       \/ s.data[k] # <<>> /\ Quiet(s) /\ UNCHANGED phase
       \/ s.data[k] = <<>> /\ MaybeSave(PutValue(s, k, <<v>>), "open")

\* append: neither marked dirty nor saved.
AppendTo(k, v) ==
  /\ phase = "open"
  /\ \E s \in AfterMaybeLoad : HasRoom(s, k) /\ Quiet(Unmarked(Extended(s, k, v), k))
  /\ UNCHANGED phase

\* What is erased before the first load or save is early.
Erased(s, k) ==
  LET t == Unmarked(Set(s, k, <<>>), k)
  IN  [t EXCEPT !.early = IF s.status < LOADED THEN @ \cup {k} ELSE @]

\* erase: no load before it; maybe_save when something was erased.
Erase(k) ==
  /\ phase = "open"
  /\ \/ data[k] # <<>> /\ MaybeSave(Erased(NotLoaded, k), "open")
     \/ data[k] = <<>> /\ Quiet(Erased(NotLoaded, k)) /\ UNCHANGED phase

\* The destructor: mark_finalizing ...
Close ==
  /\ phase = "open"
  /\ phase' = "closing"
  /\ status_' = FINISHED
  /\ UNCHANGED <<read_, write_, dirty_, data, file, crashes, failures, historyVars>>

\* ... and maybe_save.
CloseSave ==
  /\ phase = "closing"
  /\ MaybeSave(NotLoaded, "closed")

\* The file is written.
SaveEnd ==
  /\ phase = "saving"
  /\ file' = data
  /\ phase' = IF status_ = FINISHED THEN "closed" ELSE "open"
  /\ UNCHANGED <<policyVars, data, crashes, failures, historyVars>>

\* In the middle of a save it leaves a file that does not parse, or an empty one.
Crash ==
  /\ phase \in {"open", "saving", "closing"}
  /\ crashes < MaxCrashes
  /\ crashes' = crashes + 1
  /\ phase' = "closed"
  /\ IF phase = "saving" THEN file' \in {Partial, Empty} ELSE UNCHANGED file
  /\ kept' = IF phase = "saving" \/ write_ = "ONCE" THEN {} ELSE kept
  /\ UNCHANGED <<policyVars, data, failures, expected, unsaved, early>>

-----------------------------------------------------------------------------
Next ==
  \/ Open \/ OpenFails \/ Get
  \/ \E k \in Keys, v \in Values :
       Put(k, v) \/ PutUnder(k, v) \/ MaybePut(k, v) \/ AppendTo(k, v)
  \/ \E k \in Keys : Erase(k)
  \/ Close \/ CloseSave \/ SaveEnd
  \/ Crash

Spec == Init /\ [][Next]_vars

-----------------------------------------------------------------------------
TypeOK ==
  /\ phase \in {"closed", "open", "saving", "closing", "failed"}
  /\ read_ \in ReadPolicies /\ write_ \in WritePolicies
  /\ status_ \in INITIALIZING..FINISHED /\ dirty_ \in BOOLEAN
  /\ data \in Trees /\ file \in Trees \cup {Partial}
  /\ crashes \in 0..MaxCrashes /\ failures \in 0..MaxFailures
  /\ expected \in Trees
  /\ unsaved \subseteq Keys /\ early \subseteq Keys /\ kept \subseteq Keys

\* With the policy the storage is built with (read once, write dynamically) and
\* a file that can be opened, a running program has in memory what its calls have
\* made: the second load that ONCE allows brings nothing back but what was erased
\* before it, while nothing was saved.  What is not on disk is what append and
\* erase have changed since the last load or save.
DefaultKeepsWrites ==
  (read_ = "ONCE" /\ write_ = "DYNAMIC" /\ failures = 0 /\ phase = "open") =>
    /\ \A k \in Keys : data[k] = expected[k] \/ (k \in early /\ status_ >= LOADED)
    /\ \A k \in Keys \ (early \cup unsaved) : file[k] = expected[k]

\* A file that does not parse, which a crash in a save leaves, is not open, but under a
\* policy that has not read it.
WholeWhileOpen ==
  (phase \in {"open", "closing"} /\ file = Partial /\ failures = 0) =>
    read_ # "ONCE" /\ status_ # LOADED

\* What is to be kept is in memory while the program runs, ...
KeptInMemory ==
  (phase \in {"open", "saving", "closing"} /\ failures = 0) =>
    \A k \in kept : data[k] = expected[k]

\* ... on disk with Write::DYNAMIC, and under every policy but DISCARD at the end: over
\* lives and crashes, as `expected` goes on for what is kept.
KeptOnDisk ==
  (/\ \/ phase \in {"open", "closing"} /\ write_ = "DYNAMIC"
      \/ phase = "closed" /\ write_ # "DISCARD"
   /\ failures = 0) =>
    \A k \in kept : file[k] = expected[k]

\* Under every policy no load and no save undoes a put: that of a policy that writes
\* at once, or one that comes after the first load.
Durable == WholeWhileOpen /\ KeptInMemory /\ KeptOnDisk
=============================================================================
