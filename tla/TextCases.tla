----------------------------- MODULE TextCases -----------------------------
(***************************************************************************)
(* Documents, command lines and configuration files for modules JsonStream *)
(* and Settings, each with what it means.                                  *)
(***************************************************************************)
EXTENDS Naturals, Sequences

T(t) == <<t, <<>>>>
Str(s) == <<"Q">> \o s \o <<"Q">>
True == <<"t", "r", "u", "e">>
False == <<"f", "a", "l", "s", "e">>

(* Documents of every kind of value, and some that are not correct.        *)
Doc(text, tokens) == [text |-> text, tokens |-> <<T("START_DOCUMENT")>> \o tokens]
SomeDocs == {
  Doc(<<"{">> \o Str(<<"a">>) \o <<":", "[", "-", "0", ".", "5", "e", "2", "]", "}">>,
      <<T("START_OBJECT"), <<"NAME", <<"a">>>>, T("START_ARRAY"), <<"NUMBER", <<"-", "0", ".", "5", "e", "2">>>>, T("END_ARRAY"), T("END_OBJECT"), T("END_DOCUMENT")>>),
  Doc(<<"[">> \o Str(<<"x", "BS", "n">>) \o <<",", "t", "r", "u", "e", "SP", "]">>,
      <<T("START_ARRAY"), <<"STRING", <<"x", "BS", "n">>>>, T("TRUE"), T("END_ARRAY"), T("END_DOCUMENT")>>),
  Doc(<<"[", "n", "u", "l", "l", ",", "1", "2", "]">>,
      <<T("START_ARRAY"), T("NULL"), <<"NUMBER", <<"1", "2">>>>, T("END_ARRAY"), T("END_DOCUMENT")>>),
  Doc(<<"[", "{", "}", ",", "f", "a", "l", "s", "e", "]">>,
      <<T("START_ARRAY"), T("START_OBJECT"), T("END_OBJECT"), T("FALSE"), T("END_ARRAY"), T("END_DOCUMENT")>>),
  Doc(<<"{">> \o Str(<<>>) \o <<":", "[", "{">> \o Str(<<"k">>) \o <<":", "1", "}", "]", ",", "}">>,
      <<T("START_OBJECT"), T("NAME"), T("START_ARRAY"), T("START_OBJECT"), <<"NAME", <<"k">>>>, <<"NUMBER", <<"1">>>>,
        T("END_OBJECT"), T("END_ARRAY"), T("INVALID")>>),
  Doc(Str(<<"BS", "u", "0", "a", "0", "1">>), <<<<"STRING", <<"BS", "u", "0", "a", "0", "1">>>>, T("END_DOCUMENT")>>)}
  \cup {[text |-> <<"[">> \o t, tokens |-> <<T("START_DOCUMENT"), T("START_ARRAY"), T("INVALID")>>] :
      t \in {<<"0", "1">>, <<"-", ".">>, Str(<<"CTL">>), <<"t", "r", "u", "k">>, <<"Q", "BS", "k">>, <<"1", "e", "]">>, <<",">>, <<"1", ".", "5", ".">>}}

(* Parts of a command line: options in all forms, arguments that are no    *)
(* options, mistakes, and what may only come last.                         *)
Frag(args, opts, extras, bad) == [args |-> args, opts |-> opts, extras |-> extras, bad |-> bad]
Few == {
  Frag(<<<<"-", "v", "d">>>>, <<<<<<"verbose">>, <<>>>>, <<<<"daemon">>, <<>>>>>>, <<>>, FALSE),
  Frag(<<<<"-", "v", "p">>, <<"3">>>>, <<<<<<"verbose">>, <<>>>>, <<<<"port">>, <<"3">>>>>>, <<>>, FALSE),
  Frag(<<<<"-", "-", "affinity">>, True>>, <<<<<<"affinity">>, True>>>>, <<>>, FALSE),
  Frag(<<>>, <<>>, <<>>, FALSE)}
Some == Few \cup {
  Frag(<<<<"-", "p", "1", "2">>>>, <<<<<<"port">>, <<"1", "2">>>>>>, <<>>, FALSE),
  Frag(<<<<"-", "-", "port", "=", "2">>>>, <<<<<<"port">>, <<"2">>>>>>, <<>>, FALSE),
  Frag(<<<<"-", "-", "daemon">>>>, <<<<<<"daemon">>, True>>>>, <<>>, FALSE)}
Odd == {
  Frag(<<<<"x">>, <<"-">>>>, <<>>, <<<<"x">>, <<"-">>>>, FALSE),
  Frag(<<<<"y">>>>, <<>>, <<<<"y">>>>, FALSE), Frag(<<<<"-", "h">>>>, <<>>, <<>>, FALSE),
  Frag(<<<<"-", "q">>>>, <<>>, <<>>, TRUE), Frag(<<<<"-", "-", "q", "=", "1">>>>, <<>>, <<>>, TRUE),
  Frag(<<<<"-", "-", "=", "1">>>>, <<>>, <<>>, TRUE), Frag(<<<<"-", "-", "daemon", "=", "1">>>>, <<>>, <<>>, TRUE)}
Ends == {
  Frag(<<<<"-", "-">>, <<"-", "v">>, <<"z">>>>, <<>>, <<<<"-", "v">>, <<"z">>>>, FALSE),
  Frag(<<<<"-", "-">>>>, <<>>, <<>>, FALSE),
  Frag(<<<<"-", "p">>>>, <<>>, <<>>, TRUE), Frag(<<<<"-", "-", "port">>>>, <<>>, <<>>, TRUE)}
Join(a, b) == Frag(a.args \o b.args, a.opts \o b.opts, a.extras \o b.extras, a.bad \/ b.bad)
Lines == {Join(a, b) : a \in Some \cup Odd, b \in Some \cup Odd \cup Ends}
   \cup {Join(a, Join(b, c)) : a, b \in Odd, c \in Ends}

(* Files, whether there is one, and whether its strings have no escapes.   *)
File(text, pairs, invalid, plain) ==
  [exists |-> TRUE, text |-> text, pairs |-> pairs, invalid |-> invalid, plain |-> plain]
None == [exists |-> FALSE, text |-> <<>>, pairs |-> <<>>, invalid |-> FALSE, plain |-> TRUE]
Files == {None,
  File(<<"{">> \o Str(<<"port">>) \o <<":", "9", "SP", ",">> \o Str(<<"affinity">>) \o <<":">> \o Str(<<"n", "o">>) \o <<"}">>,
       <<<<<<"port">>, <<"9">>>>, <<<<"affinity">>, <<"n", "o">>>>>>, FALSE, TRUE),
  File(<<"{">> \o Str(<<"u">>) \o <<":", "[", "{", "}", ",", "1", "]", ",">> \o Str(<<"verbose">>) \o <<":">> \o True \o <<"}">>,
       <<<<<<"verbose">>, True>>>>, FALSE, TRUE),
  File(<<"{">> \o Str(<<"daemon">>) \o <<":">> \o False \o <<",">> \o Str(<<"port">>) \o <<":", "1", ",">> \o Str(<<"port">>) \o <<":", "2", "}">>,
       <<<<<<"port">>, <<"1">>>>>>, FALSE, TRUE),
  File(<<"{">> \o Str(<<"daemon">>) \o <<":", "1", "}">>, <<>>, TRUE, TRUE),
  File(<<"{">> \o Str(<<"port">>) \o <<":", "n", "u", "l", "l", "}">>, <<>>, TRUE, TRUE),
  File(<<"[", "]">>, <<>>, TRUE, TRUE), File(<<>>, <<>>, TRUE, TRUE), File(<<"{", "}">>, <<>>, FALSE, TRUE),
  File(<<"{">> \o Str(<<"port">>), <<>>, TRUE, TRUE),
  File(<<"{">> \o Str(<<"port">>) \o <<":">> \o Str(<<"BS", "n">>) \o <<",">> \o Str(<<"port">>) \o <<":", "1", "}">>, <<>>, FALSE, FALSE),
  File(<<"{">> \o Str(<<"BS", "n">>) \o <<":", "1", "}">>, <<>>, FALSE, FALSE)}
Numerals == UNION {[1 .. n -> {"0", "x", "2", "6", "1"}] : n \in 1 .. 3} \cup {<<"0", "x", "1", "a">>, <<"9", "9", "9", "9">>}
Bools == {True, False, <<"y", "e", "s">>, <<"o", "n">>, <<"n", "o">>, <<"o", "f", "f">>,
  <<"o">>, <<"t">>, <<"-", "1", "3">>, <<"-", "1", "4">>, <<"1", "2">>, <<"1", "3">>, <<"0">>, <<"n", "o", "t">>, <<"x">>, <<"0", "x", "1">>}
Numeric == {Frag(<<<<"-", "-", "port", "=">> \o v>>, <<<<<<"port">>, v>>>>, <<>>, FALSE) : v \in Numerals \cup {<<>>}}
   \cup {Frag(<<<<"-", "-", "affinity", "=">> \o v>>, <<<<<<"affinity">>, v>>>>, <<>>, FALSE) : v \in Bools}
Both(l, f) == [args |-> l.args, opts |-> l.opts, extras |-> l.extras, bad |-> l.bad,
  exists |-> f.exists, text |-> f.text, pairs |-> f.pairs, invalid |-> f.invalid, plain |-> f.plain]
SomeInputs == {Both(l, None) : l \in Lines \cup Numeric} \cup {Both(l, f) : l \in Few, f \in Files}

Opt(name, flag, param) == [name |-> <<name>>, flag |-> flag, param |-> param]
SomeInfo == {Opt("help", "h", "COMMAND"), Opt("verbose", "v", "VERBOSE"), Opt("daemon", "d", "TRIVIAL"),
  Opt("affinity", "", "REQUIRED"), Opt("port", "p", "REQUIRED")}
=============================================================================
