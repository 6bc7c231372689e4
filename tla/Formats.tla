--------------------------------- MODULE Formats ---------------------------------
(***************************************************************************)
(* How a text with colours and flags is written for a protocol and read    *)
(* back: the formatters of src/string/formatter.cpp (ANSI and the language *)
(* of the configuration), IRC, Xonotic, the web pages and Telegram, over   *)
(* the colours of src/string/color.cpp.  Only functions: MCTexts checks    *)
(* them.  A text is a sequence of elements; a written text a sequence of   *)
(* characters (one-letter strings, and names for the control codes).       *)
(***************************************************************************)
EXTENDS Integers, Sequences, FiniteSets, SequencesExt

Element(kind, value) == [kind |-> kind, value |-> value]
Char(c) == Element("char", c)
\* An element that is a char, as the rainbow makes them; the others stand in a string.
Letter(c) == Element("letter", c)
Color(c) == Element("color", c)
Flags(f) == Element("flags", f)
Clear == Element("clear", {})

\* All formats but Telegram's write a letter as a string of one.
InStrings(s) == [i \in DOMAIN s |-> IF s[i].kind = "letter" THEN Char(s[i].value) ELSE s[i]]

-----------------------------------------------------------------------------
(* Colours: the three components, or none                                  *)

nocolor == <<>>

\* color::white and the others, by their 4 bits.
from_4bit(n) ==
  CASE n = 7 -> <<12, 12, 12>>
    [] n = 8 -> <<8, 8, 8>>
    [] OTHER -> LET on == IF n > 8 THEN 15 ELSE 8
                    bit(i) == IF (n \div i) % 2 = 1 THEN on ELSE 0
                IN  <<bit(1), bit(2), bit(4)>>

\* Color12::to_4bit(): the hue (here times delta) in sixths of the circle, and bright.
to_4bit(c) ==
  LET r == c[1]  g == c[2]  b == c[3]
      most == CHOOSE x \in ToSet(c) : \A y \in ToSet(c) : y <= x
      least == CHOOSE x \in ToSet(c) : \A y \in ToSet(c) : x <= y
      delta == most - least
      turn == IF r = most THEN g - b
              ELSE IF g = most THEN b - r + 2 * delta ELSE r - g + 4 * delta
      hue == IF turn < 0 THEN turn + 6 * delta ELSE turn
      below(n) == 2 * hue <= n * delta
      plain == IF below(1) THEN 1 ELSE IF below(3) THEN 3 ELSE IF below(5) THEN 2
               ELSE IF below(7) THEN 6 ELSE IF below(9) THEN 4 ELSE IF below(11) THEN 5 ELSE 1
  IN  IF delta = 0
      THEN IF most > 12 THEN 15 ELSE IF most > 8 THEN 7 ELSE IF most > 4 THEN 8 ELSE 0
      ELSE (IF 10 * delta >= 3 * most THEN plain ELSE IF most > 7 THEN 7 ELSE 0)
           + (IF most > 9 THEN 8 ELSE 0)

\* The digits of component_to_hex().
hex == <<"0", "1", "2", "3", "4", "5", "6", "7", "8", "9", "a", "b", "c", "d", "e", "f">>
Digits == {hex[i] : i \in 1..10}
Number(d) == (CHOOSE i \in 1..16 : hex[i] = d) - 1
from_hex(s) == [i \in DOMAIN s |-> Number(s[i])]
to_hex(c) == [i \in DOMAIN c |-> hex[c[i] + 1]]

\* What the colours of one digit are, in Xonotic and in the configuration (there with 8
\* and 9 through from_4bit); written only for those that have a name there.
digit_color == [xonotic |-> <<<<0,0,0>>, <<15,0,0>>, <<0,15,0>>, <<15,15,0>>, <<0,0,15>>,
                              <<0,15,15>>, <<15,0,15>>, <<15,15,15>>, <<8,8,8>>, <<12,12,12>>>>,
                config |-> [i \in 1..10 |-> IF i < 9 THEN from_4bit(8 + i - 1)
                                            ELSE IF i = 9 THEN from_4bit(8) ELSE from_4bit(9)]]
digits_written == [xonotic |-> digit_color.xonotic,
                   config |-> [i \in 1..8 |-> IF i = 1 THEN <<0, 0, 0>> ELSE from_4bit(8 + i - 1)]]

\* One digit if the format has it for this colour, or x and the hexadecimal digits.
color_code(format, c) ==
  LET table == digits_written[format]
      places == {i \in DOMAIN table : table[i] = c}
  IN  IF places # {} THEN <<hex[CHOOSE i \in places : TRUE]>> ELSE <<"x">> \o to_hex(c)

-----------------------------------------------------------------------------
(* Xonotic: ^ and a digit, or ^x and three; ^^ is a ^                      *)

xonotic_to_string(e) ==
  CASE e.kind = "char" -> IF e.value = "^" THEN <<"^", "^">> ELSE <<e.value>>
    [] e.kind = "color" /\ e.value # nocolor -> <<"^">> \o color_code("xonotic", e.value)
    [] e.kind = "flags" -> <<>>
    [] OTHER -> <<"^", "7">>

RECURSIVE xonotic_decode(_)
xonotic_decode(s) ==
  LET has(n) == Len(s) >= n
  IN  CASE s = <<>> -> <<>>
        [] has(2) /\ s[1] = "^" /\ s[2] = "^" ->
             <<Char("^")>> \o xonotic_decode(SubSeq(s, 3, Len(s)))
        [] has(2) /\ s[1] = "^" /\ s[2] \in Digits ->
             <<Color(digit_color.xonotic[Number(s[2]) + 1])>> \o xonotic_decode(SubSeq(s, 3, Len(s)))
        [] has(5) /\ s[1] = "^" /\ s[2] = "x" /\ \A i \in 3..5 : s[i] \in ToSet(hex) ->
             <<Color(from_hex(SubSeq(s, 3, 5)))>> \o xonotic_decode(SubSeq(s, 6, Len(s)))
        [] OTHER -> <<Char(s[1])>> \o xonotic_decode(Tail(s))

-----------------------------------------------------------------------------
(* IRC: toggles, and \3 with one or two digits                             *)

\* The numbers the 4-bit colours have on IRC, and the colours by their number (both from 0).
irc_number == <<1, 5, 3, 7, 2, 6, 10, 15, 14, 4, 9, 8, 12, 13, 11, 0>>
irc_color == [i \in 1..16 |-> from_4bit(<<15, 0, 4, 2, 9, 1, 5, 3, 11, 10, 6, 14, 12, 13, 8, 7>>[i])]

\* Mutant: the number of a colour is written with as few digits as it has.
irc_short(e) ==
  CASE e.kind = "char" -> <<e.value>>
    [] e.kind = "color" /\ e.value # nocolor ->
         LET n == irc_number[to_4bit(e.value) + 1]
         IN  IF n < 10 THEN <<"\\3", hex[n + 1]>> ELSE <<"\\3", hex[2], hex[n - 9]>>
    [] e.kind = "flags" /\ e.value # {} ->
         SelectSeq(<<"bold", "underline", "italic">>, LAMBDA f : f \in e.value)
    [] OTHER -> <<"\\f">>

irc_to_string(e) ==
  CASE e.kind = "char" -> <<e.value>>
    [] e.kind = "color" /\ e.value # nocolor ->
         LET n == irc_number[to_4bit(e.value) + 1]
         IN  <<"\\3", hex[(n \div 10) + 1], hex[(n % 10) + 1]>>
    [] e.kind = "flags" /\ e.value # {} ->
         SelectSeq(<<"bold", "underline", "italic">>, LAMBDA f : f \in e.value)
    [] OTHER -> <<"\\f">>

\* The length of the longest prefix of digits, at most two.
number_length(s) ==
  IF s = <<>> \/ s[1] \notin Digits THEN 0
  ELSE IF Len(s) = 1 \/ s[2] \notin Digits THEN 1 ELSE 2

\* FormatterIrc::decode(): the flags wait for the next character or colour; a background
\* (a comma and digits) is dropped.
RECURSIVE irc_decode(_, _)
irc_decode(s, flags) ==
  LET pushed == IF flags = {} THEN <<>> ELSE <<Flags(flags)>>
      n == number_length(Tail(s))
      after == SubSeq(s, 2 + n, Len(s))
      behind == IF n > 0 /\ after # <<>> /\ after[1] = "," THEN number_length(Tail(after)) ELSE 0
      rest == IF behind = 0 THEN after ELSE SubSeq(after, 2 + behind, Len(after))
      number == IF n = 1 THEN Number(s[2]) ELSE 10 * Number(s[2]) + Number(s[3])
  IN  CASE s = <<>> -> pushed
        [] s # <<>> /\ s[1] \in {"bold", "underline", "italic"} -> irc_decode(Tail(s), flags \cup {s[1]})
        [] s # <<>> /\ s[1] = "\\f" -> <<Clear>> \o irc_decode(Tail(s), {})
        [] s # <<>> /\ s[1] = "\\3" ->
             pushed \o <<Color(IF n > 0 /\ number < 16 THEN irc_color[number + 1] ELSE nocolor)>>
                    \o irc_decode(rest, {})
        [] OTHER -> pushed \o <<Char(s[1])>> \o irc_decode(Tail(s), {})

-----------------------------------------------------------------------------
(* ANSI: escapes with a list of codes, here elements of their own          *)

ansi_to_string(e) ==
  LET code(f, on, off) == IF f \in e.value THEN on ELSE off
      n == to_4bit(e.value)
  IN  CASE e.kind = "char" -> <<e>>
        [] e.kind = "color" /\ e.value = nocolor -> <<Element("escape", <<39>>)>>
        [] e.kind = "color" /\ e.value # nocolor ->
             <<Element("escape", <<IF n >= 8 THEN 90 + n - 8 ELSE 30 + n>>)>>
        [] e.kind = "flags" -> <<Element("escape", <<code("bold", 1, 22), code("underline", 4, 24),
                                                     code("italic", 3, 23)>>)>>
        [] e.kind = "clear" -> <<Element("escape", <<0>>)>>

\* The codes of one escape: the flags start from none and are set at its end, bold alone
\* makes a colour bright instead.
ansi_escape(codes) ==
  LET flag(i) == IF i \in {1, 22} THEN "bold" ELSE IF i \in {3, 23} THEN "italic" ELSE "underline"
      st == FoldLeft(LAMBDA x, i :
              CASE i = 0 -> [x EXCEPT !.out = Append(@, Clear)]
                [] i \in {1, 3, 4} -> [x EXCEPT !.flags = @ \cup {flag(i)}, !.use = TRUE]
                [] i \in {22, 23, 24} -> [x EXCEPT !.flags = @ \ {flag(i)}, !.use = TRUE]
                [] i = 39 -> [x EXCEPT !.out = Append(@, Color(nocolor))]
                [] i \in 30..37 /\ x.flags = {"bold"} ->
                     [out |-> Append(x.out, Color(from_4bit(8 + i - 30))), flags |-> {}, use |-> FALSE]
                [] i \in 30..37 /\ x.flags # {"bold"} ->
                     [x EXCEPT !.out = Append(@, Color(from_4bit(i - 30)))]
                [] i \in 90..97 -> [x EXCEPT !.out = Append(@, Color(from_4bit(8 + i - 90)))]
                [] OTHER -> x,
            [out |-> <<>>, flags |-> {}, use |-> FALSE], codes)
  IN  st.out \o (IF st.use THEN <<Flags(st.flags)>> ELSE <<>>)

ansi_decode(s) ==
  FoldLeft(LAMBDA out, e : out \o (IF e.kind = "char" THEN <<e>> ELSE ansi_escape(e.value)), <<>>, s)

-----------------------------------------------------------------------------
(* The configuration: $( and a code, $$ is a $ (Language has the rest)     *)

config_to_string(e) ==
  CASE e.kind = "char" -> IF e.value = "$" THEN <<"$", "$">> ELSE <<e.value>>
    [] e.kind = "color" /\ e.value = nocolor -> <<"$(", "nocolor", ")">>
    [] e.kind = "color" /\ e.value # nocolor -> <<"$(">> \o color_code("config", e.value) \o <<")">>
    [] e.kind = "flags" -> <<"$(", "-">> \o SelectSeq(<<"bold", "underline", "italic">>, LAMBDA f : f \in e.value)
                           \o <<")">>
    [] e.kind = "clear" -> <<"$(", "-", ")">>

\* What parse_function_call() makes of a name that is no filter.
style(name) ==
  CASE name = <<"-">> -> Clear
    [] name[1] = "-" /\ Len(name) > 1 -> Flags(ToSet(Tail(name)))
    [] name = <<"nocolor">> -> Color(nocolor)
    [] name[1] \in Digits /\ Len(name) = 1 -> Color(digit_color.config[Number(name[1]) + 1])
    [] name[1] = "x" -> Color(from_hex(Tail(name)))

RECURSIVE config_decode(_)
config_decode(s) ==
  CASE s = <<>> -> <<>>
    [] s # <<>> /\ s[1] = "$(" ->
         LET end == CHOOSE i \in DOMAIN s : s[i] = ")" /\ \A j \in 1..i-1 : s[j] # ")"
         IN  <<style(SubSeq(s, 2, end - 1))>> \o config_decode(SubSeq(s, end + 1, Len(s)))
    [] Len(s) > 1 /\ s[1] = "$" /\ s[2] = "$" -> <<Char("$")>> \o config_decode(SubSeq(s, 3, Len(s)))
    [] OTHER -> <<Char(s[1])>> \o config_decode(Tail(s))

-----------------------------------------------------------------------------
(* Web pages: a span for each change, closed by a reset and at the end     *)

close_spans(n) == [i \in 1..n |-> "</span>"]

\* encode() with FormatterHtml and its SpanContext.
html_encode(s) ==
  LET st == FoldLeft(LAMBDA x, e :
              CASE e.kind = "char" ->
                     [x EXCEPT !.out = Append(@, IF e.value = "<" THEN "&lt;" ELSE e.value)]
                [] e.kind \in {"color", "flags"} -> [spans |-> x.spans + 1, out |-> Append(x.out, "<span>")]
                [] e.kind = "clear" -> [spans |-> 0, out |-> x.out \o close_spans(x.spans)],
            [spans |-> 0, out |-> <<>>], s)
  IN  st.out \o close_spans(st.spans)

\* Tags are skipped.
html_decode(s) ==
  LET kept == SelectSeq(s, LAMBDA c : c \notin {"<span>", "</span>"})
  IN  [i \in DOMAIN kept |-> Char(kept[i])]

-----------------------------------------------------------------------------
(* Telegram: * around what is bold, _ around what is italic                *)

\* The marks that turn "now" into "wanted", in the order they are written.
marks(now, wanted) ==
  (IF ("bold" \in now) = ("bold" \in wanted) THEN <<>> ELSE <<"*">>)
  \o (IF ("italic" \in now) = ("italic" \in wanted) THEN <<>> ELSE <<"_">>)

\* encode() with FormatterMarkDown and its TagContext.  For a letter it returns "\\" + c, which
\* is an address, 42 or 95 bytes behind that of a string of one: "beyond" is what is there.
markdown_encode(s, beyond) ==
  LET st == FoldLeft(LAMBDA x, e :
              CASE e.kind = "char" ->
                     [x EXCEPT !.out = @ \o (IF e.value \in {"*", "_"} THEN <<"\\", e.value>> ELSE <<e.value>>)]
                [] e.kind = "letter" ->
                     [x EXCEPT !.out = @ \o (IF e.value \in {"*", "_"} THEN beyond ELSE <<e.value>>)]
                [] e.kind = "color" -> x
                [] e.kind = "flags" -> [on |-> e.value, out |-> x.out \o marks(x.on, e.value)]
                [] e.kind = "clear" -> [on |-> {}, out |-> x.out \o Reverse(marks(x.on, {}))],
            [on |-> {}, out |-> <<>>], s)
  IN  st.out \o Reverse(marks(st.on, {}))

\* Each mark toggles its flag.
markdown_decode(s) ==
  FoldLeft(LAMBDA x, c :
      LET flag == CASE c = "*" -> {"bold"} [] c = "_" -> {"italic"} [] OTHER -> {}
          flags == (x.flags \ flag) \cup (flag \ x.flags)
      IN  [flags |-> flags, out |-> Append(x.out, IF flag = {} THEN Char(c) ELSE Flags(flags))],
    [flags |-> {}, out |-> <<>>], s).out

-----------------------------------------------------------------------------
(* Properties                                                              *)

to_string(format, e) ==
  CASE format = "xonotic" -> xonotic_to_string(e)
    [] format = "irc" -> irc_to_string(e)
    [] format = "ansi" -> ansi_to_string(e)
    [] format = "config" -> config_to_string(e)

\* encode(): one element after the other, and for those with tags the end.
encode(format, s, beyond) ==
  CASE format = "html" -> html_encode(InStrings(s))
    [] format = "telegram-md" -> markdown_encode(s, beyond)
    [] OTHER -> FoldLeft(LAMBDA out, e : out \o to_string(format, e), <<>>, InStrings(s))

decode(format, s) ==
  CASE format = "xonotic" -> xonotic_decode(s)
    [] format = "irc" -> irc_decode(s, {})
    [] format = "ansi" -> ansi_decode(s)
    [] format = "config" -> config_decode(s)
    [] format = "html" -> html_decode(s)
    [] format = "telegram-md" -> markdown_decode(s)

\* Each character of a text with the colour and the flags it has.
Shown(s) ==
  FoldLeft(LAMBDA x, e :
      CASE e.kind = "char" -> [x EXCEPT !.out = Append(@, [c |-> e.value, color |-> x.color, flags |-> x.flags])]
        [] e.kind = "color" -> [x EXCEPT !.color = e.value]
        [] e.kind = "flags" -> [x EXCEPT !.flags = e.value]
        [] e.kind = "clear" -> [x EXCEPT !.color = nocolor, !.flags = {}],
    [color |-> nocolor, flags |-> {}, out |-> <<>>], s).out

\* What a format has no way to write: IRC has no end of a flag alone, and takes a comma
\* and a digit after a colour for its background; a $(-) resets the colour, too, and so
\* does the end of a colour on IRC; $(0) is read as gray; Telegram's \ is not read back,
\* and nothing that is escaped in a page.
Expressible(format, s) ==
  LET before(i) == UNION {s[j].value : j \in {k \in 1..i-1 : s[k].kind = "flags"
                                              /\ \A l \in k..i-1 : s[l].kind # "clear"}}
  IN  \A i \in DOMAIN s :
        CASE format = "irc" ->
               /\ s[i].kind = "flags" => s[i].value # {} /\ before(i) \subseteq s[i].value
               /\ s[i] # Color(nocolor)
               /\ s[i].kind = "char" /\ s[i].value = "," => i = 1 \/ s[i - 1].kind # "color"
          [] format = "config" -> s[i] # Flags({}) /\ s[i] # Color(<<0, 0, 0>>)
          [] format \in {"html", "telegram-md"} ->
               s[i].kind = "char" => s[i].value \notin {"*", "_", "<"}
          [] OTHER -> TRUE

\* What is left of a colour and of flags in a format.
Nearest(format, c) ==
  CASE format \in {"irc", "ansi"} -> IF c = nocolor THEN nocolor ELSE from_4bit(to_4bit(c))
    [] format = "config" -> c
    [] OTHER -> nocolor
Kept(format, f) ==
  CASE format \in {"xonotic", "html"} -> {}
    [] format = "telegram-md" -> f \ {"underline"}
    [] OTHER -> f

Agree(format, before, after) ==
  /\ Len(before) = Len(after)
  /\ \A i \in DOMAIN before :
       /\ after[i].c = before[i].c
       /\ after[i].flags = Kept(format, before[i].flags)
       /\ IF format = "xonotic"
          THEN \/ after[i].color = before[i].color
               \/ before[i].color = nocolor /\ after[i].color \in {nocolor, <<15, 15, 15>>}
          ELSE after[i].color = Nearest(format, before[i].color)

\* A text that is written for a protocol and read back shows the same characters, none of
\* them taken for a part of a code, in the nearest colour and the flags the protocol has
\* (in Xonotic what has no colour, or had one that was reset, is white).
LooksTheSame(format, s, beyond) ==
  Expressible(format, InStrings(s)) =>
    Agree(format, Shown(InStrings(s)), Shown(decode(format, encode(format, s, beyond))))

SpansClosed(html) ==
  LET open(n) == Len(SelectSeq(SubSeq(html, 1, n), LAMBDA c : c = "<span>"))
                 - Len(SelectSeq(SubSeq(html, 1, n), LAMBDA c : c = "</span>"))
  IN  open(Len(html)) = 0 /\ \A n \in 0..Len(html) : open(n) >= 0
MarksPaired(text) ==
  \A c \in {"*", "_"} :
    Cardinality({i \in DOMAIN text : text[i] = c /\ (i = 1 \/ text[i - 1] # "\\")}) % 2 = 0

\* A page closes every span it opens and none before it is opened; and a message for Telegram
\* every mark, unless a * or _ stands alone in it as a letter: what is sent for that is unknown.
ClosesWhatItOpens(format, s, beyond) ==
  /\ format = "html" => SpansClosed(html_encode(InStrings(s)))
  /\ format = "telegram-md" /\ (\A e \in ToSet(s) : e \notin {Letter("*"), Letter("_")}) =>
       MarksPaired(markdown_encode(s, beyond))
=============================================================================
