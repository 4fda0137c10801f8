------------------------------- MODULE Parser -------------------------------
(***************************************************************************)
(* lython::Parser (src/parser/parser.cpp, parser.h): how statements and    *)
(* their blocks are read from the tokens of the Lexer.                     *)
(*                                                                         *)
(* The parser is a recursive descent; `stack` holds its activations:       *)
(*   body  parse_body, with what `out` holds so far;                       *)
(*   one   parse_one and the parse_statement it calls;                     *)
(*   stmt  one of the parse_<statement> functions, with the tokens it      *)
(*         still expects (`todo`) and the clause it is in;                 *)
(*   repl  the read loop of cli/commands/repl.cpp, which calls parse_one   *)
(*         itself.                                                         *)
(* An exception unwinds to the innermost parse_one, which skips to the     *)
(* newline and returns an InvalidStatement.                                *)
(*                                                                         *)
(* Expressions, patterns, arguments, targets and dotted names are one      *)
(* word, "name".  async_mode, _context and `previous` are left out: they   *)
(* do not decide which tokens a statement takes.                           *)
(***************************************************************************)
EXTENDS Integers, Sequences, SequencesExt

CONSTANTS Word, Line, MaxLines, LYTHON_INDENT,   \* as in Lexer
          Callers   \* parse_to_module ("body") or the read loop ("repl")

ASSUME CallersAssumption == Callers \subseteq {"body", "repl"}

\* What can go on with an expression is in its word: operators, an inner if, a
\* tuple's commas and the `as` of a with or an except.
ASSUME ExpressionAssumption ==
  \A l \in Line : \A i \in DOMAIN l.words :
    /\ l.words[i] \notin {"is", "not", "in"}
    /\ l.words[i] \in {"if", "@"} => i = 1 \/ l.words[i - 1] = ";"
    /\ l.words[i] \in {"as", ","} => \E j \in 1 .. i - 1 : l.words[j] = "import"

VARIABLES line, cindent, oindent, buffer, token, depth, behind, clean

Lex == INSTANCE Lexer

ASSUME LexerAssumptions ==
  Lex!WordAssumption /\ Lex!LineAssumption /\ Lex!MaxLinesAssumption /\ Lex!IndentAssumption

lexerVars == <<line, cindent, oindent, buffer, token, depth, behind, clean>>

VARIABLES
  stack,          \* the activations, innermost last
  pending,        \* _pending_comments.size()
  errors,         \* errors.size()
  current_error,  \* index of the error being handled
  is_empty_line   \* the token left behind ended or opened a line

vars == <<lexerVars, stack, pending, errors, current_error, is_empty_line>>

-----------------------------------------------------------------------------
(* Activations                                                             *)

Body(indent) == [fn |-> "body", indent |-> indent, filled |-> FALSE, bare |-> FALSE]
One(interactive) ==
  [fn |-> "one", stage |-> "start", level |-> 0, row |-> 0,
   oneLine |-> TRUE, bare |-> FALSE, joined |-> FALSE, interactive |-> interactive]
Stmt(kind, todo) ==
  [fn |-> "stmt", kind |-> kind, clause |-> kind, todo |-> todo,
   level |-> token.level, bare |-> FALSE]

Top == Last(stack)
In(fn) == stack # <<>> /\ token # Lex!NoToken /\ Top.fn = fn
At(stage) == In("one") /\ Top.stage = stage
Call(f) == Append(stack, f)
Become(f) == Append(Front(stack), f)
ToStage(stage) == Become([Top EXCEPT !.stage = stage])

\* the list a statement goes to gets one more
Filled(s, bare) ==
  [s EXCEPT ![Len(s)].filled = TRUE, ![Len(s)].bare = @ \/ bare]
\* an Inline is not an expression, and is_one_line is true of it
Accepted == Filled(Front(stack), Top.bare /\ ~Top.joined)
IsOneLine(f) == f.oneLine \/ f.joined

\* Parser::next_token
EndsLine(kind) == kind \in {"newline", "desindent", "indent"}
Eat == Lex!NextToken /\ is_empty_line' = EndsLine(token.kind)

Stay == UNCHANGED <<lexerVars, is_empty_line>>
NoError == UNCHANGED <<errors, current_error>>
Calm == UNCHANGED pending /\ NoError

-----------------------------------------------------------------------------
(* Errors                                                                  *)

InnerOne(ones) == CHOOSE i \in ones : \A j \in ones : i >= j

\* clear_errors leaves current_error behind: then the assertion of
\* parser_kwerror fails, and the process ends
IndexHolds == current_error + 1 = errors
Stop == [fn |-> "stopped", caller |-> stack[1].fn]

\* parser_kwerror and the throw that follows; only parse_to_module catches
\* what no parse_one does
Throw ==
  /\ current_error' = current_error + 1
  /\ \/ /\ IndexHolds
        /\ errors' = errors + 1
        /\ LET ones == {i \in DOMAIN stack : stack[i].fn = "one"}
           IN stack' = IF ones = {} THEN <<>>
                       ELSE [SubSeq(stack, 1, InnerOne(ones))
                               EXCEPT ![InnerOne(ones)].stage = "recover"]
     \/ /\ ~IndexHolds
        /\ stack' = <<Stop>>
        /\ UNCHANGED errors
  /\ Stay
  /\ UNCHANGED pending

EndsRecovery(kind) == kind \in {"newline", "eof"}

\* error_recovery, then the InvalidStatement
Recover ==
  /\ At("recover")
  /\ IF EndsRecovery(token.kind)
       THEN Stay /\ stack' = Filled(Front(stack), FALSE)
       ELSE Eat /\ UNCHANGED stack
  /\ Calm

-----------------------------------------------------------------------------
(* parse_body                                                              *)

KeepAll == pending   \* fault: the comments at the end of the file stay pending
FlushAtEof == IF Len(stack) = 1 /\ token.kind = "eof" THEN 0 ELSE pending

EndOfBody(kind) == kind \in {"desindent", "eof"}

ParseBody ==
  /\ In("body")
  /\ \/ /\ ~EndOfBody(token.kind)
        /\ stack' = Call(One(FALSE))
        /\ Stay /\ Calm
     \/ EndOfBody(token.kind) /\ ~Top.filled /\ Throw
     \/ /\ EndOfBody(token.kind) /\ Top.filled
        /\ Eat
        /\ pending' = FlushAtEof
        /\ stack' = IF Len(stack) = 1 THEN <<>>
                    ELSE [Front(stack) EXCEPT ![Len(stack) - 1].bare = Top.bare]
        /\ NoError

\* repl(): clear_errors, eat dangling desindents, parse_one(&mod, 0, true);
\* at eof the console waits.  errors is emptied, current_error is not.
ReadLoop ==
  /\ In("repl") /\ token.kind # "eof"
  /\ IF token.kind = "desindent"
       THEN Lex!NextToken /\ UNCHANGED <<is_empty_line, stack>>
       ELSE Stay /\ stack' = Call(One(TRUE))
  /\ errors' = 0
  /\ UNCHANGED <<pending, current_error>>

-----------------------------------------------------------------------------
(* parse_one, up to the statement                                          *)

SkipLayout(kind) == kind \in {"newline", "desindent"}   \* fault: skips the end of the block
Skipped(kind) == kind = "newline"

SkipNewline == At("start") /\ Skipped(token.kind) /\ Eat /\ Calm /\ UNCHANGED stack

NoStatement ==
  /\ At("start") /\ EndOfBody(token.kind)
  /\ stack' = Front(stack)
  /\ Stay /\ Calm

Unexpected == At("start") /\ token.kind = "incorrect" /\ Throw

\* parse_comment_stmt; the recursive parse_one is never interactive
ReadComment ==
  \/ /\ At("start") /\ token.kind = "comment"
     /\ stack' = ToStage("comment")
     /\ Eat /\ Calm
  \/ /\ At("comment") /\ token.kind \in {"newline", "eof"}
     /\ stack' = Become([Top EXCEPT !.stage = "start", !.interactive = FALSE])
     /\ pending' = pending + 1
     /\ Eat /\ NoError

IsOther(kind) == kind \notin {"newline", "desindent", "eof", "incorrect", "comment"}

HasPending == pending > 0

EmitPending ==
  /\ At("start") /\ IsOther(token.kind) /\ HasPending
  /\ pending' = pending - 1
  /\ stack' = Accepted
  /\ Stay /\ NoError

BeginStatement ==
  /\ At("start") /\ IsOther(token.kind) /\ pending = 0
  /\ stack' = Become([Top EXCEPT !.stage = "decorators", !.level = token.level,
                                 !.row = token.row])
  /\ Stay /\ Calm

-----------------------------------------------------------------------------
(* parse_statement: decorators, one or more primary statements, and what   *)
(* parse_one does once it has returned.                                    *)

Decorators ==
  \/ /\ At("decorators") /\ token.kind = "@" /\ Eat /\ stack' = ToStage("decorator")
     /\ Calm
  \/ /\ At("decorator") /\ token.kind = "name" /\ Eat /\ stack' = ToStage("decorated")
     /\ Calm
  \/ At("decorator") /\ token.kind # "name" /\ Throw
  \/ At("decorated") /\ token.kind = "comment" /\ Eat /\ UNCHANGED stack /\ Calm
  \/ /\ At("decorated") /\ token.kind # "comment"
     /\ IF token.kind = "newline" THEN Eat ELSE Stay
     /\ stack' = ToStage("decorators")
     /\ Calm
  \/ /\ At("decorators") /\ token.kind # "@"
     /\ stack' = ToStage("primary")
     /\ Stay /\ Calm

\* what every clause with a block expects after its keyword
Block == <<":", "newline", "newlines", "indent", "body">>

Header(keyword) ==
  CASE keyword \in {"try", "else", "finally"} -> Block
    [] keyword = "async" -> <<"any", "name">> \o Block
    [] OTHER -> <<"name">> \o Block

Compound == {"def", "async", "class", "if", "while", "for", "with", "match", "try"}
Simple == {"return", "import", "annassign"}

EndsRow == {"newline", "eof"}

AfterPrimary == Become([Top EXCEPT !.stage = "after", !.bare = FALSE])

Primary ==
  /\ At("primary")
  /\ \/ /\ token.kind \in {"name", "pass"}
        /\ stack' = Become([Top EXCEPT !.stage = "after", !.bare = token.kind = "name"])
        /\ Eat /\ Calm
     \/ /\ token.kind = "return"
        /\ stack' = Append(AfterPrimary, Stmt("return", <<"value">>))
        /\ Eat /\ Calm
     \/ /\ token.kind = "comment"    \* it ends the line of a decorator
        /\ stack' = ToStage("commented")
        /\ Eat /\ Calm
     \/ /\ token.kind = "import"
        /\ stack' = Append(AfterPrimary, Stmt("import", <<"packages">>))
        /\ Eat /\ Calm
     \/ /\ token.kind \in Compound
        /\ stack' = Append(AfterPrimary, Stmt(token.kind, Header(token.kind)))
        /\ Eat /\ Calm
     \/ token.kind \notin Compound \union {"name", "pass", "return", "comment", "import"} /\ Throw

\* parse_comment_stmt as a statement: an Expr, which a class body may have
EndComment ==
  /\ At("commented")
  /\ \/ /\ token.kind \in EndsRow
        /\ stack' = AfterPrimary
        /\ Eat /\ Calm
     \/ token.kind \notin EndsRow /\ Throw

\* parse_annassign
Annotates == Top.bare /\ token.kind = ":"

Annotated ==
  /\ At("after") /\ Annotates
  /\ stack' = Append(AfterPrimary, Stmt("annassign", <<"name">>))
  /\ Eat /\ Calm

\* is_tok_statement_ender
EndsSimple(kind) == kind \in {"newline", "eof", "comment"}

\* two statements or more, joined with ';', make an Inline; a single one stays
Inlined ==
  \/ /\ At("after") /\ token.kind = ";"
     /\ stack' = ToStage("inline")
     /\ Eat /\ Calm
  \/ /\ At("inline")
     /\ stack' = IF EndsSimple(token.kind) THEN ToStage("after")
                 ELSE Become([Top EXCEPT !.stage = "primary", !.joined = TRUE])
     /\ Stay /\ Calm

Attaches == IsOneLine(Top) /\ ~Top.interactive /\ token.kind = "comment"

AttachComment ==
  /\ At("after") /\ Attaches
  /\ Eat /\ Calm /\ UNCHANGED stack

EndStatement ==
  /\ At("after") /\ token.kind # ";" /\ ~Attaches /\ ~Annotates
  /\ \/ /\ is_empty_line \/ Top.interactive
        /\ stack' = Accepted
        /\ Stay /\ Calm
     \/ /\ ~is_empty_line /\ ~Top.interactive /\ token.kind \in {"newline", "eof"}
        /\ stack' = Accepted
        /\ Eat /\ Calm
     \/ /\ ~is_empty_line /\ ~Top.interactive /\ token.kind \notin {"newline", "eof"}
        /\ Throw

-----------------------------------------------------------------------------
(* The functions of the statements: first what they expect ...             *)

Todo == Head(Top.todo)
Drop(n) == Become([Top EXCEPT !.todo = SubSeq(@, n + 1, Len(@))])
Expecting(what) == In("stmt") /\ Top.todo # <<>> /\ Todo = what

\* an `except` may have no type
NoType == Top.clause = "except" /\ token.kind = ":"

ExpectToken ==
  /\ In("stmt") /\ Top.todo # <<>> /\ Todo \in {"name", ":", "any", "indent"}
  /\ \/ /\ token.kind = Todo \/ Todo = "any"
        /\ stack' = Drop(1)
        /\ Eat /\ Calm
     \/ /\ Todo = "name" /\ NoType
        /\ stack' = Drop(2)
        /\ Eat /\ Calm
     \/ token.kind # Todo /\ Todo # "any" /\ ~(Todo = "name" /\ NoType) /\ Throw

\* add_inline_comment and expect_newline
ExpectNewline ==
  \/ /\ Expecting("newline") /\ token.kind \in {"comment", "newline"}
     /\ stack' = IF token.kind = "comment" THEN stack ELSE Drop(1)
     /\ Eat /\ Calm
  \/ Expecting("newline") /\ token.kind \notin {"comment", "newline"} /\ Throw
  \/ /\ Expecting("newlines")
     /\ IF token.kind = "newline" THEN Eat /\ UNCHANGED stack ELSE Stay /\ stack' = Drop(1)
     /\ Calm

\* where the statements of the enclosing list are indented
Surrounding == stack[Len(stack) - 2].indent

OpenBody ==
  /\ Expecting("body")
  /\ \/ /\ Top.clause \in {"def", "async", "class"} /\ token.kind = "doc"
        /\ stack' = Become([Top EXCEPT !.todo = <<"newline", "newlines", "documented">>])
        /\ Eat
     \/ /\ Top.clause = "match"    \* parse_match_case reads its block
        /\ stack' = Drop(1)
        /\ Stay
     \/ /\ Top.clause # "match" /\ ~(Top.clause \in {"def", "async", "class"} /\ token.kind = "doc")
        /\ stack' = Append(Drop(1), Body(Surrounding + IF Top.clause = "case" THEN 2 ELSE 1))
        /\ Stay
  /\ Calm

\* the body after a docstring
OpenDocumentedBody ==
  /\ Expecting("documented")
  /\ stack' = Append(Drop(1), Body(Surrounding + 1))
  /\ Stay /\ Calm

\* parse_alias and parse_module_path: what follows `what` when the token is of
\* this kind.  A path ends at import, as, newline or eof, at nothing else.
AfterInImport(what, kind) ==
  CASE what = "packages" /\ ~EndsSimple(kind) -> "path"
    [] what = "path" /\ kind = "name" -> "path"
    [] what = "path" /\ kind \in {"import", "as", "newline", "eof"} -> "alias"
    [] what = "alias" -> IF kind = "as" THEN "asname" ELSE "comma"
    [] what = "asname" /\ kind = "name" -> "comma"
    [] what = "comma" -> IF kind = "," THEN "another" ELSE "end"
    [] what = "another" /\ kind = "name" -> "path"
    [] OTHER -> "error"

EatsInImport(what, kind) ==
  <<what, kind>> \in {<<"path", "name">>, <<"alias", "as">>, <<"asname", "name">>, <<"comma", ",">>}

ImportParts == {"packages", "path", "alias", "asname", "comma", "another"}

ReadImport ==
  /\ In("stmt") /\ Top.todo # <<>> /\ Todo \in ImportParts
  /\ LET next == AfterInImport(Todo, token.kind)
     IN \/ next = "error" /\ Throw
        \/ /\ next # "error"
           /\ stack' = Become([Top EXCEPT !.todo = <<next>>])
           /\ IF EatsInImport(Todo, token.kind) THEN Eat ELSE Stay
           /\ Calm

\* parse_import and parse_return take the end of their line themselves
EndOfImport ==
  \/ /\ Expecting("end") /\ token.kind \in {"comment", "newline", "eof"}
     /\ stack' = IF token.kind = "comment" THEN stack ELSE Drop(1)
     /\ Eat /\ Calm
  \/ Expecting("end") /\ token.kind \notin {"comment", "newline", "eof"} /\ Throw

ReturnValue ==
  \/ /\ Expecting("value") /\ token.kind \in {"name", "newline", "eof", "comment"}
     /\ stack' = Drop(1)
     /\ IF token.kind = "comment" THEN Stay ELSE Eat
     /\ Calm
  \/ Expecting("value") /\ token.kind \notin {"name", "newline", "eof", "comment"} /\ Throw

-----------------------------------------------------------------------------
(* ... then how they go on once a body has been read.                      *)

Follow(f) ==
  CASE f.clause \in {"if", "elif"} -> {"elif", "else"}
    [] f.clause \in {"while", "for"} -> {"else"}
    [] f.clause = "try" -> {"except"}
    [] f.clause = "except" -> {"except", "else", "finally"}
    [] f.clause = "else" /\ f.kind = "try" -> {"finally"}
    [] f.clause \in {"match", "case"} -> {"case"}
    [] OTHER -> {}

\* a list of cases ends with its block
EndsCases(f) ==
  f.kind = "match" /\ (token.kind = "desindent" \/ (f.clause = "case" /\ token.kind = "eof"))

Refused(f) ==
  \/ f.clause = "try"
  \/ f.clause \in {"match", "case"} /\ ~EndsCases(f)
  \/ f.kind = "class" /\ f.bare    \* an expression in the body of a class

GoOn ==
  /\ In("stmt") /\ Top.todo = <<>>
  /\ \/ /\ token.kind \in Follow(Top)
        /\ stack' = Become([Top EXCEPT !.clause = token.kind, !.todo = Header(token.kind),
                                       !.level = token.level])
        /\ Eat /\ Calm
     \/ token.kind \notin Follow(Top) /\ Refused(Top) /\ Throw
     \/ /\ token.kind \notin Follow(Top) /\ ~Refused(Top)
        /\ stack' = [Front(stack) EXCEPT ![Len(stack) - 1].oneLine = Top.kind \in Simple]
        /\ IF EndsCases(Top) THEN Eat ELSE Stay
        /\ Calm

-----------------------------------------------------------------------------
(* The whole parser                                                        *)

Init ==
  /\ Lex!Init
  /\ \E caller \in Callers : stack = <<[Body(0) EXCEPT !.fn = caller]>>
  /\ pending = 0
  /\ errors = 0
  /\ current_error = -1
  /\ is_empty_line = TRUE

\* token() fetches the first token
FirstToken ==
  /\ token = Lex!NoToken
  /\ Lex!NextToken
  /\ Calm /\ UNCHANGED <<stack, is_empty_line>>

ParseOne ==
  \/ SkipNewline \/ NoStatement \/ Unexpected \/ ReadComment \/ EmitPending \/ BeginStatement
  \/ Decorators \/ Primary \/ EndComment \/ Annotated \/ Inlined \/ AttachComment \/ EndStatement
  \/ Recover

ParseStatement ==
  \/ ExpectToken \/ ExpectNewline \/ OpenBody \/ OpenDocumentedBody
  \/ ReadImport \/ EndOfImport \/ ReturnValue \/ GoOn

\* the caller of the parser has nothing more to read
Returned == stack = <<>> \/ (In("repl") /\ token.kind = "eof")
Stopped == stack # <<>> /\ stack[1].fn = "stopped"
Finished == (Returned \/ Stopped) /\ UNCHANGED vars

Next == FirstToken \/ ParseBody \/ ReadLoop \/ ParseOne \/ ParseStatement \/ Finished

\* The parser is one thread that runs on.
Spec == Init /\ [][Next]_vars /\ WF_vars(Next)

-----------------------------------------------------------------------------
(* Properties                                                              *)

ListFrame == [fn : {"body", "repl"}, indent : Nat, filled : BOOLEAN, bare : BOOLEAN]
OneFrame ==
  [fn : {"one"}, stage : {"start", "comment", "decorators", "decorator", "decorated", "primary",
                          "commented", "after", "inline", "recover"},
   level : Nat, row : 0 .. MaxLines, oneLine : BOOLEAN, bare : BOOLEAN, joined : BOOLEAN,
   interactive : BOOLEAN]
StmtFrame ==
  [fn : {"stmt"}, kind : Compound \union Simple,
   clause : Compound \union Simple \union {"elif", "else", "except", "finally", "case"},
   todo : Seq({"any", "name", ":", "newline", "newlines", "indent", "body", "documented",
               "value", "end"} \union ImportParts),
   level : Nat, bare : BOOLEAN]
StopFrame == [fn : {"stopped"}, caller : {"body", "repl"}]
Frame == ListFrame \union OneFrame \union StmtFrame \union StopFrame

\* The shape of every variable, and of the stack: a parse_one runs under a list,
\* a statement under its parse_one.
TypeOK ==
  /\ stack \in Seq(Frame)
  /\ \A i \in DOMAIN stack :
       LET below == stack[i - 1].fn
       IN CASE stack[i].fn = "one" -> i > 1 /\ below \in {"body", "repl"}
            [] stack[i].fn = "stmt" -> i > 1 /\ below = "one"
            [] stack[i].fn = "stopped" -> Len(stack) = 1
            [] OTHER -> i = 1 \/ below = "stmt"
  /\ pending \in Nat
  /\ errors \in Nat
  /\ current_error \in Nat \union {-1}
  /\ is_empty_line \in BOOLEAN

FromFile == stack # <<>> /\ stack[1].fn = "body"

\* In a file without a syntax error a statement goes to the list of statements
\* that has its indentation: blocks end where the lines say, through every
\* clause, comment and empty line (parse_body, the parse_<statement>s).
StatementInItsBlock ==
  (errors = 0 /\ clean /\ FromFile) =>
    \A i \in DOMAIN stack :
      (stack[i].fn = "one" /\ stack[i].stage \in {"after", "inline"})
        => stack[i].level = stack[i - 1].indent

\* In a file without a syntax error an elif, else, except or finally continues
\* the statement of its own indentation, a case its match.
ClauseMatchesStatement ==
  (errors = 0 /\ clean /\ FromFile) =>
    \A i \in DOMAIN stack :
      (stack[i].fn = "stmt")
        => stack[i].level = stack[i - 1].level + IF stack[i].clause = "case" THEN 1 ELSE 0

\* A parse that reports no error has read the whole file and has placed every
\* comment, whatever its indentation: parse_to_module never stops silently.
SilentMeansComplete ==
  (stack = <<>> /\ errors = 0) => token.kind = "eof" /\ pending = 0


\* "Only one error at a time can happen" (parser_kwerror): its assertion holds.
OnlyOneError == ~Stopped
=============================================================================
