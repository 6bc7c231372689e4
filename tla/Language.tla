-------------------------------- MODULE Language --------------------------------
(***************************************************************************)
(* The language of the replies in the configuration: ConfigParser          *)
(* (src/string/formatter.cpp) reads a text with variables, filters,        *)
(* conditions and loops, and the elements it makes (replacements.hpp) are  *)
(* given their values by replace() and then written.  Only functions:      *)
(* MCTexts checks them.                                                    *)
(*                                                                         *)
(* A source is a sequence of atoms: words (with the space, the bracket     *)
(* and the quote as words of their own), $name and the $( with the name    *)
(* after it.  In it, words that are arguments are kept apart by spaces.    *)
(***************************************************************************)
EXTENDS Integers, Sequences, FiniteSets, SequencesExt

Word(w) == [tok |-> "word", val |-> w]
Dollar(name) == [tok |-> "var", val |-> name]
Open(name) == [tok |-> "open", val |-> name]

(* The elements of a formatted string *)
Text(w) == [kind |-> "text", value |-> w]
Placeholder(name, value) == [kind |-> "var", name |-> name, value |-> value]
FilterCall(name, args) == [kind |-> "call", name |-> name, args |-> args]
IfStatement(c, t, f) == [kind |-> "if", cond |-> c, yes |-> t, no |-> f]
ForStatement(name, source, body) == [kind |-> "for", name |-> name, source |-> source, body |-> body]
ListItem(s) == [kind |-> "item", contents |-> s]
Style(name) == [kind |-> "style", name |-> name]

Styles == {"-", "-b", "red", "1"}
Keywords == {"if", "else", "endif", "for", "endfor"}

-----------------------------------------------------------------------------
(* The parser: the token ahead, and the place after it.  "Hang" is a loop  *)
(* of the code that does not end.                                          *)

At(type, val, pos) == [type |-> type, val |-> val, pos |-> pos]
Ended(p) == p.type \in {"Invalid", "Hang"}

\* The place after the spaces.
Skipped(src, pos) ==
  LET words == {i \in pos..Len(src) : src[i] # Word(" ")}
  IN  IF words = {} THEN Len(src) + 1 ELSE CHOOSE i \in words : \A j \in words : i <= j

\* lex_token(), with lex_dollar() and lex_param().
lex(src, at, mode) ==
  LET pos == IF mode = "Argument" THEN Skipped(src, at) ELSE at
      a == src[pos]
      quotes == {i \in pos+1..Len(src) : src[i] = a}
      close == IF quotes = {} THEN Len(src) + 1 ELSE CHOOSE i \in quotes : \A j \in quotes : i <= j
  IN  CASE pos > Len(src) -> At("Invalid", <<>>, pos)
        [] pos <= Len(src) /\ a.tok = "var" -> At("Variable", a.val, pos + 1)
        [] pos <= Len(src) /\ a.tok = "open" ->
             At(IF a.val \in Keywords THEN a.val ELSE "FunctionBegin", a.val, pos + 1)
        [] pos <= Len(src) /\ a = Word(")") -> At("FunctionEnd", ")", pos + 1)
        [] pos <= Len(src) /\ mode = "Argument" /\ a = Word("\"") ->
             At("QuotedArgument", SubSeq(src, pos + 1, close - 1), close + 1)
        [] OTHER -> At(IF mode = "Argument" THEN "Argument" ELSE "SimpleChar", a.val, pos + 1)

RECURSIVE skip_function(_, _, _)
skip_function(src, p, mode) ==
  IF p.type = "FunctionEnd" \/ Ended(p)
  THEN IF p.type = "Hang" THEN p
       ELSE lex(src, IF mode = "Argument" THEN Skipped(src, p.pos) ELSE p.pos, mode)
  ELSE skip_function(src, lex(src, p.pos, mode), mode)

\* What a function of the parser appended, and where it got to.
Parsed(out, p) == [out |-> out, p |-> p]

\* The functions call one another by their names.
RECURSIVE sub(_, _, _, _)

IsArgument(p) == p.type \in {"Argument", "QuotedArgument", "Variable", "FunctionBegin"}

parse_argument(src, p) ==
  CASE p.type = "Argument" -> Parsed(<<Text(p.val)>>, lex(src, p.pos, "Argument"))
    [] p.type = "QuotedArgument" -> Parsed(<<ListItem(sub("string", p.val, lex(p.val, 1, "String"), {}).out)>>, lex(src, p.pos, "Argument"))
    [] p.type = "Variable" -> Parsed(<<Placeholder(p.val, <<>>)>>, lex(src, p.pos, "Argument"))
    [] p.type = "FunctionBegin" -> sub("call", src, p, "Argument")
    [] OTHER -> Parsed(<<>>, p)

\* parse_argument() while it finds one: the arguments, each a string.
parse_arguments(src, p) ==
  IF ~IsArgument(p) THEN Parsed(<<>>, p)
  ELSE LET one == parse_argument(src, p)
           rest == sub("arguments", src, one.p, {})
       IN  Parsed(<<one.out>> \o rest.out, rest.p)

parse_function_call(src, p, mode) ==
  LET args == sub("arguments", src, lex(src, p.pos, "Argument"), {})
  IN  IF p.val \in Styles THEN Parsed(<<Style(p.val)>>, skip_function(src, p, mode))
      ELSE Parsed(IF args.p.type = "FunctionEnd" THEN <<FilterCall(p.val, args.out)>> ELSE <<>>,
                  skip_function(src, args.p, mode))

\* An end that does not match is dropped, with what follows it.
parse_string(src, p, ends) ==
  LET then(r) == LET rest == sub("string", src, r.p, ends) IN Parsed(r.out \o rest.out, rest.p)
  IN  CASE Ended(p) \/ p.type \in ends -> Parsed(<<>>, p)
        [] p.type = "Variable" -> then(Parsed(<<Placeholder(p.val, <<>>)>>, lex(src, p.pos, "String")))
        [] p.type = "FunctionBegin" -> then(sub("call", src, p, "String"))
        [] p.type \in {"SimpleChar", "FunctionEnd"} -> then(Parsed(<<Text(p.val)>>, lex(src, p.pos, "String")))
        [] p.type \in {"else", "endif", "endfor"} \ ends -> Parsed(<<>>, lex(src, p.pos, "String"))
        [] p.type = "if" -> then(sub("if", src, lex(src, p.pos, "Argument"), {}))
        [] p.type = "for" -> then(sub("for", src, lex(src, p.pos, "Argument"), {}))
        [] OTHER -> then(Parsed(<<Text(p.val)>>, lex(src, p.pos, "String")))

\* The strings of an else, to the endif: a second else stops each at once, for ever.
parse_else(src, p) ==
  IF p.type = "endif" \/ Ended(p) THEN Parsed(<<>>, p)
  ELSE IF p.type = "else" THEN Parsed(<<>>, At("Hang", <<>>, p.pos))
  ELSE LET one == sub("string", src, p, {"endif", "else"})
           rest == sub("else", src, one.p, {})
       IN  Parsed(one.out \o rest.out, rest.p)

parse_if(src, p) ==
  LET cond == sub("argument", src, p, {})
      yes == sub("string", src, skip_function(src, cond.p, "String"), {"endif", "else"})
      after == lex(src, yes.p.pos, "Argument")
      no == IF yes.p.type # "else" THEN Parsed(<<>>, skip_function(src, yes.p, "String"))
            ELSE IF after.type = "Argument" /\ after.val = "if"
            THEN sub("if", src, lex(src, after.pos, "Argument"), {})
            ELSE LET r == sub("else", src, skip_function(src, after, "String"), {})
                 IN  Parsed(r.out, skip_function(src, r.p, "String"))
  IN  Parsed(<<IfStatement(cond.out, yes.out, no.out)>>, no.p)

\* A loop without a variable is left out, and looked through for its end, for ever if it
\* has none.
parse_for(src, p) ==
  LET args == sub("arguments", src, lex(src, p.pos, "Argument"), {})
      body == sub("string", src, skip_function(src, args.p, "String"), {"endfor"})
      ends == {i \in p.pos..Len(src) : src[i] = Open("endfor")}
      end == CHOOSE i \in ends : \A j \in ends : i <= j
  IN  CASE p.type = "Argument" ->
             Parsed(<<ForStatement(p.val, FlattenSeq(args.out), body.out)>>,
                    skip_function(src, body.p, "String"))
        [] p.type # "Argument" /\ ends = {} -> Parsed(<<>>, At("Hang", <<>>, Len(src) + 1))
        [] OTHER -> Parsed(<<>>, skip_function(src, At("endfor", <<>>, end + 1), "String"))

sub(f, src, p, x) ==
  CASE f = "argument" -> parse_argument(src, p)
    [] f = "arguments" -> parse_arguments(src, p)
    [] f = "call" -> parse_function_call(src, p, x)
    [] f = "string" -> parse_string(src, p, x)
    [] f = "else" -> parse_else(src, p)
    [] f = "if" -> parse_if(src, p)
    [] f = "for" -> parse_for(src, p)

parse(src) == sub("string", src, lex(src, 1, "String"), {}).out

-----------------------------------------------------------------------------
(* The elements: their values, and what they write                         *)

RECURSIVE replace(_, _), encode(_), expanded(_), replaceThrough(_, _)

\* Mutant: what stands for a variable is looked through for variables, too.
replaceThrough(s, f) ==
  [i \in DOMAIN s |->
     LET e == s[i] IN
     CASE e.kind = "var" -> [e EXCEPT !.value = replaceThrough(IF e.name \in DOMAIN f THEN f[e.name] ELSE @, f)]
       [] e.kind = "call" -> [e EXCEPT !.args = [k \in DOMAIN @ |-> replaceThrough(@[k], f)]]
       [] e.kind = "if" -> IfStatement(replaceThrough(e.cond, f), replaceThrough(e.yes, f), replaceThrough(e.no, f))
       [] e.kind = "for" -> ForStatement(e.name, replaceThrough(e.source, f), replaceThrough(e.body, f))
       [] e.kind = "item" -> ListItem(replaceThrough(e.contents, f))
       [] OTHER -> e]

\* replace(): "f" has the variables that are given a value; what they are given is not
\* looked at.
replace(s, f) ==
  [i \in DOMAIN s |->
     LET e == s[i] IN
     CASE e.kind = "var" -> IF e.name \in DOMAIN f THEN [e EXCEPT !.value = f[e.name]] ELSE e
       [] e.kind = "call" -> [e EXCEPT !.args = [k \in DOMAIN @ |-> replace(@[k], f)]]
       [] e.kind = "if" -> IfStatement(replace(e.cond, f), replace(e.yes, f), replace(e.no, f))
       [] e.kind = "for" -> ForStatement(e.name, replace(e.source, f), replace(e.body, f))
       [] e.kind = "item" -> ListItem(replace(e.contents, f))
       [] OTHER -> e]

\* apply_filter(), of the filters of Formatter::Registry "ifeq": one that is not known
\* gives its first argument.
apply_filter(name, args) ==
  IF name # "ifeq" THEN IF args = <<>> THEN <<>> ELSE args[1]
  ELSE CASE Len(args) < 3 -> <<>>
         [] Len(args) >= 3 /\ encode(args[1]) = encode(args[2]) -> args[3]
         [] OTHER -> IF Len(args) > 3 THEN args[4] ELSE <<>>

\* A number other than zero, or anything else that is there.
is_true(words) ==
  IF ToSet(words) \subseteq {"0", "1", " "} THEN "1" \in ToSet(words) ELSE TRUE

expanded(s) ==
  FoldLeft(LAMBDA out, e :
      out \o (CASE e.kind = "var" -> expanded(e.value)
                [] e.kind = "call" -> expanded(apply_filter(e.name, e.args))
                [] OTHER -> <<e>>), <<>>, s)

\* ForStatement::replace_item()
RECURSIVE replace_item(_, _)
replace_item(loop, e) ==
  CASE e.kind = "item" /\ Len(e.contents) = 1 -> replace_item(loop, e.contents[1])
    [] e.kind = "item" /\ Len(e.contents) # 1 -> replace(loop.body, [x \in {loop.name} |-> e.contents])
    [] OTHER -> replace(loop.body, [x \in {loop.name} |-> <<e>>])

\* encode() and the to_string() of the elements: the words.
encode(s) ==
  FoldLeft(LAMBDA out, e :
      out \o (CASE e.kind = "text" -> <<e.value>>
                [] e.kind = "var" -> encode(e.value)
                [] e.kind = "call" -> encode(apply_filter(e.name, e.args))
                [] e.kind = "if" -> encode(IF is_true(encode(e.cond)) THEN e.yes ELSE e.no)
                [] e.kind = "for" -> LET items == expanded(e.source)
                                         each == [i \in DOMAIN items |-> encode(replace_item(e, items[i]))]
                                     IN  FlattenSeq(each)
                [] e.kind = "item" -> encode(e.contents)
                [] OTHER -> <<>>), <<>>, s)

-----------------------------------------------------------------------------
(* Properties                                                              *)

\* How the elements of a string are written in the configuration: as arguments, or in a text.
RECURSIVE Written(_), WrittenArgument(_), WrittenIf(_)
WrittenArgument(e) ==
  IF e.kind = "item" THEN <<Word("\"")>> \o Written(e.contents) \o <<Word("\"")>> ELSE Written(<<e>>)
Arguments(s) == FoldLeft(LAMBDA out, e : out \o <<Word(" ")>> \o WrittenArgument(e), <<>>, s)
\* From the condition to the endif; an if in an else is written as else if.
WrittenIf(e) ==
  Arguments(e.cond) \o <<Word(")")>> \o Written(e.yes)
  \o (CASE e.no = <<>> -> <<Open("endif"), Word(")")>>
        [] e.no # <<>> /\ Len(e.no) = 1 /\ e.no[1].kind = "if" ->
             <<Open("else"), Word(" "), Word("if")>> \o WrittenIf(e.no[1])
        [] OTHER -> <<Open("else"), Word(")")>> \o Written(e.no) \o <<Open("endif"), Word(")")>>)
Written(s) ==
  FoldLeft(LAMBDA out, e :
      out \o (CASE e.kind = "text" -> <<Word(e.value)>>
                [] e.kind = "var" -> <<Dollar(e.name)>>
                [] e.kind = "style" -> <<Open(e.name), Word(")")>>
                [] e.kind = "call" -> <<Open(e.name)>> \o Arguments(FlattenSeq(e.args)) \o <<Word(")")>>
                [] e.kind = "if" -> <<Open("if")>> \o WrittenIf(e)
                [] e.kind = "for" -> <<Open("for"), Word(" "), Word(e.name)>> \o Arguments(e.source)
                                     \o <<Word(")")>> \o Written(e.body) \o <<Open("endfor"), Word(")")>>),
    <<>>, s)

\* Reference: what a string means where the variables have the values of "env" (strings
\* without variables), and the items of the source of a loop.
RECURSIVE Meaning(_, _), Items(_, _), Value(_, _)
Value(s, env) ==
  FoldLeft(LAMBDA out, e :
      out \o (CASE e.kind = "var" -> IF e.name \in DOMAIN env THEN expanded(env[e.name]) ELSE <<>>
                [] e.kind = "item" -> <<ListItem(Value(e.contents, env))>>
                [] e.kind = "text" -> <<e>>
                [] e.kind = "call" -> Value(apply_filter(e.name, [i \in DOMAIN e.args |-> Value(e.args[i], env)]), env)
                [] OTHER -> LET words == Meaning(<<e>>, env) IN [i \in DOMAIN words |-> Text(words[i])]),
    <<>>, s)
Items(s, env) ==
  LET all == Value(s, env)
  IN  [i \in DOMAIN all |-> IF all[i].kind = "item" THEN all[i].contents ELSE <<all[i]>>]
Bind(env, name, value) == [x \in DOMAIN env \cup {name} |-> IF x = name THEN value ELSE env[x]]
Meaning(s, env) ==
  FoldLeft(LAMBDA out, e :
      out \o (CASE e.kind = "if" -> Meaning(IF is_true(Meaning(e.cond, env)) THEN e.yes ELSE e.no, env)
                [] e.kind = "for" -> LET items == Items(e.source, env)
                                     IN  FlattenSeq([i \in DOMAIN items |->
                                                       Meaning(e.body, Bind(env, e.name, items[i]))])
                [] e.kind = "style" -> <<>>
                [] OTHER -> encode(Value(<<e>>, env))),
    <<>>, s)

Says(read, env, words) ==
  /\ encode(replace(read, env)) = words
  /\ \A x \in DOMAIN env :
       encode(replace(replace(read, [y \in {x} |-> env[x]]), [y \in DOMAIN env \ {x} |-> env[y]])) = words

\* A reply written in the configuration is read as it is meant: with the variables replaced,
\* all at once or one before the others, the text written is the one the reply says, each
\* loop with its own variable, whatever the same name stands for outside it.
RepliesAsWritten(s, env) == parse(Written(s)) = s /\ Says(parse(Written(s)), env, Meaning(s, env))
=============================================================================
