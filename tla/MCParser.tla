------------------------------ MODULE MCParser ------------------------------
(* Lines for TLC: every clause with and without what it needs, simple      *)
(* statements, comments and empty lines, on three levels.                  *)
EXTENDS Parser

MCWord ==
  Compound \union {"elif", "else", "except", "finally", "case", "name", "pass", "return",
                   "import", "as", ",", ";", "@", ":", "incorrect", "doc", "comment",
                   "is", "not", "in"}

L(s, ws) == [spaces : s, words : ws, blank : {FALSE}]
EndsInBlanks(s, ws) == [spaces : s, words : ws, blank : {TRUE}]

\* An outer statement, its block, and what may be nested in it.
MCLine ==
  L({0}, {<<>>, <<"name">>, <<"import", "name", "comment">>, <<"import", "name", "as", "name", ":">>,
          <<"@", "name", "comment">>, <<"comment">>,
          <<"name", ":", "name">>, <<"if", "name", ":">>, <<"if", "name">>,
          <<"elif", "name", ":">>, <<"else", ":">>, <<"try", ":">>, <<"except", ":">>, <<"finally", ":">>,
          <<"async", "def", "name", ":">>, <<"class", "name", ":", "comment">>,
          <<"match", "name", ":">>, <<"@", ":">>, <<"return", ":">>})
  \union
  L({4}, {<<"name">>, <<"name", ";">>, <<"doc">>, <<"pass", ";", "name", ";", "comment">>,
          <<"import", "name", "as", "name", ",", "name", "as", "name", "comment">>,
          <<"for", "name", ":">>, <<"else", ":">>, <<"case", "name", ":">>})
  \union
  EndsInBlanks({4}, {<<"return">>})
  \union
  L({8}, {<<"name">>, <<"comment">>, <<"pass", "name">>, <<"incorrect">>})

Both == {"body", "repl"}
Prompt == {"repl"}
=============================================================================
