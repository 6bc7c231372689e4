---------------------------------- MODULE Markov ----------------------------------
(***************************************************************************)
(* The handlers and web pages that talk like those they have listened to   *)
(* (modules/fun/markov.hpp).  The graphs of words are kept in wrappers,    *)
(* one for each key, that are read from files when first used and written  *)
(* when the process ends, if they are not read only; handlers get their    *)
(* wrapper when the bot is configured.  A graph is the set of the texts it *)
(* knows.  Only functions: MCTexts checks them.                            *)
(***************************************************************************)
EXTENDS Naturals, Sequences, FiniteSets, SequencesExt

\* A handler as it is configured: "read_only" is "unset" or what is written.
Handler(kind, key, read_only) == [kind |-> kind, key |-> key, read_only |-> read_only]

\* set_key() and file_name(): keys that share a file.
file_name(key) == IF key = "" THEN "markov" ELSE key

\* get_generator() of a key: the wrapper, which reads its file when it is made.
get_generator(wrappers, key, files) ==
  [k \in DOMAIN wrappers \cup {key} |->
     IF k \in DOMAIN wrappers THEN wrappers[k]
     ELSE [read_only |-> TRUE, knows |-> IF file_name(key) \in DOMAIN files THEN files[file_name(key)] ELSE {}]]

read_settings(wrappers, h) ==
  IF h.read_only = "unset" THEN wrappers ELSE [wrappers EXCEPT ![h.key].read_only = (h.read_only = "true")]

\* The constructors of MarkovListener, MarkovTextGenerator, MarkovSave, and of MarkovStatus
\* and the chains of MultiMarkov.
MarkovListener(wrappers, h, files) ==
  [read_settings(get_generator(wrappers, h.key, files), h) EXCEPT ![h.key].read_only = FALSE]
MarkovTextGenerator(wrappers, h, files) == read_settings(get_generator(wrappers, h.key, files), h)
MarkovSave(wrappers, h, files) == [get_generator(wrappers, h.key, files) EXCEPT ![h.key].read_only = FALSE]
MarkovStatus(wrappers, h, files) == get_generator(wrappers, h.key, files)

Configured(handlers, files) ==
  FoldLeft(LAMBDA w, h : CASE h.kind = "listener" -> MarkovListener(w, h, files)
                           [] h.kind = "generator" -> MarkovTextGenerator(w, h, files)
                           [] h.kind = "save" -> MarkovSave(w, h, files)
                           [] h.kind = "status" -> MarkovStatus(w, h, files), <<>>, handlers)

\* MarkovListener::on_handle()
learn(wrappers, key, text) == [wrappers EXCEPT ![key].knows = @ \cup {text}]

\* save(): into the file of the key.
save(files, wrapper, key) ==
  IF wrapper.read_only THEN files
  ELSE [f \in DOMAIN files \cup {file_name(key)} |-> IF f = file_name(key) THEN wrapper.knows ELSE files[f]]

\* MarkovSave::on_handle(): the files, and what is replied whatever became of them.
on_save(files, wrappers, key) == [files |-> save(files, wrappers[key], key), reply |-> "Graph saved"]

\* The wrappers are destroyed in any order; "order" has their keys.
destroy(files, wrappers, order) == FoldLeft(LAMBDA f, k : save(f, wrappers[k], k), files, order)

-----------------------------------------------------------------------------
(* MultiMarkov: chains by the names they are asked for                     *)

\* Chain: its name, and what is written under it, a sequence of <<name, use>>.
inputs(chain) ==
  IF chain.names = <<>> THEN {chain.name} ELSE {n[1] : n \in {m \in ToSet(chain.names) : m[2] \in {"", "input"}}}
outputs(chain) == {n[1] : n \in {m \in ToSet(chain.names) : m[2] \in {"", "output"}}}

\* "generators": the last chain with a name has it.
generators(chains) ==
  [n \in UNION {inputs(chains[i]) : i \in DOMAIN chains} |->
     chains[CHOOSE i \in DOMAIN chains : /\ n \in inputs(chains[i])
                                         /\ \A j \in i + 1..Len(chains) : n \notin inputs(chains[j])]]

\* generate(): who speaks, as one of the names written for the output; nobody if the name
\* is not known.  Any name will do for none; if there are none at all what it does is
\* undefined.
generate(chains, name) ==
  LET named == generators(chains)
      who == IF name = "" THEN DOMAIN named ELSE {name} \cap DOMAIN named
  IN  UNION {LET chain == named[n] IN
             {<<chain.name, p>> : p \in IF outputs(chain) = {} THEN {""} ELSE outputs(chain)} : n \in who}
Undefined(chains, name) == name = "" /\ DOMAIN generators(chains) = {}

\* MultiMarkovTextGenerator::on_handle() declines what it does not know, MultiMarkovPlainPage
\* is not found then, and MultiMarkovHtmlPage shows an empty output.
MultiMarkovTextGenerator(chains, name) ==
  IF generate(chains, name) = {} THEN {[handled |-> FALSE]} ELSE {[handled |-> TRUE, by |-> s] : s \in generate(chains, name)}
MultiMarkovPlainPage(chains, path, query) ==
  LET character == IF path = <<>> THEN query ELSE path[1]
  IN  IF generate(chains, character) = {} THEN {[status |-> 404]}
      ELSE {[status |-> 200, by |-> s] : s \in generate(chains, character)}
MultiMarkovHtmlPage(chains, query, submit) ==
  IF submit /\ generate(chains, query) # {} THEN {[status |-> 200, by |-> s] : s \in generate(chains, query)}
  ELSE {[status |-> 200]}

-----------------------------------------------------------------------------
(* Properties                                                              *)

\* What a listener has learned is in its file after the process has ended, with all that was
\* there, in whichever order the wrappers go, and after "save markov" has said so: unless a
\* handler configured later makes the key read only, or the file has two keys.
LearnedIsKept(handlers, files, text) ==
  LET wrappers == Configured(handlers, files)
      Ok(i) == /\ \A j \in i + 1..Len(handlers) :
                    handlers[j].key = handlers[i].key /\ handlers[j].kind = "generator" => handlers[j].read_only # "true"
               /\ \A k \in DOMAIN wrappers : file_name(k) = file_name(handlers[i].key) => k = handlers[i].key
      Kept(after, key) ==
        /\ text \in after[file_name(key)]
        /\ file_name(key) \in DOMAIN files => files[file_name(key)] \subseteq after[file_name(key)]
  IN  \A i \in DOMAIN handlers :
        handlers[i].kind = "listener" /\ Ok(i) =>
          LET learned == learn(wrappers, handlers[i].key, text)
          IN  /\ Kept(on_save(files, learned, handlers[i].key).files, handlers[i].key)
              /\ \A order \in {s \in [1..Cardinality(DOMAIN learned) -> DOMAIN learned] : \A a, b \in DOMAIN s : s[a] = s[b] => a = b} :
                   Kept(destroy(files, learned, order), handlers[i].key)

\* Who is asked for speaks, under one of his own names; who is not known never does, and the
\* chat command leaves the message to others then.
SpeaksAsAsked(chains, name) ==
  LET known == {i \in DOMAIN chains : name \in inputs(chains[i])}
  IN  ~Undefined(chains, name) =>
        /\ \A s \in generate(chains, name) :
             \E i \in DOMAIN chains : /\ s[1] = chains[i].name /\ (name = "" \/ i \in known)
                                      /\ s[2] \in outputs(chains[i]) \cup {""}
        /\ name # "" => ([handled |-> FALSE] \in MultiMarkovTextGenerator(chains, name) <=> known = {})
        /\ name # "" => ([status |-> 404] \in MultiMarkovPlainPage(chains, <<name>>, "") <=> known = {})
        /\ MultiMarkovHtmlPage(chains, name, FALSE) = {[status |-> 200]}
=============================================================================
