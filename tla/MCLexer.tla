------------------------------ MODULE MCLexer ------------------------------
(* Lines for TLC: every indentation up to two levels, rounded ones too,    *)
(* lines of spaces, comments alone and after code, blanks after the last   *)
(* word, and every way two and three operator words can follow each other. *)
EXTENDS Lexer

MCWord == {"name", "is", "not", "in", "comment", "incorrect"}

MCSentences ==
  {<<>>, <<"comment">>, <<"name">>, <<"name", "comment">>, <<"is", "is", "name">>,
   <<"is", "not", "in">>, <<"not", "in", "is">>, <<"is", "not", "not", "name">>}

EndsInBlanks(spaces) ==
  [spaces : spaces, words : {<<"name">>, <<"not", "in", "is">>}, blank : {TRUE}]

MCLine == [spaces : {0, 3, 4, 8}, words : MCSentences, blank : {FALSE}] \union EndsInBlanks({0, 4, 8})

\* Lines of code only: no line hides a DESINDENT.
MCCode == [spaces : {0, 4, 8}, words : {<<"name">>}, blank : BOOLEAN]
=============================================================================
