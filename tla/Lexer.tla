------------------------------- MODULE Lexer -------------------------------
(***************************************************************************)
(* lython::Lexer (src/lexer/lexer.cpp, lexer.h) over a buffer: how lines   *)
(* become tokens, INDENT and DESINDENT included.                           *)
(*                                                                         *)
(* A line is its number of leading spaces, its words, and whether blanks   *)
(* follow the last one.  A word stands for everything one scan of          *)
(* next_token reads (an identifier, a number, a string, a symbol); the     *)
(* words is, not and in are told apart because next_token looks one token  *)
(* ahead to combine them.  Every line ends in a newline but the last,      *)
(* which ends in eof.  The lines are chosen one at a time, so the model    *)
(* reads every file of at most MaxLines lines.  A token carries its row,   *)
(* as Token::line() does, and, as a ghost, the levels of indentation of    *)
(* its line.                                                               *)
(*                                                                         *)
(* The character mode used inside f-strings (set_mode) is left out.        *)
(***************************************************************************)
EXTENDS Integers, Sequences, SequencesExt

CONSTANTS
  Word,           \* what next_token tells apart
  Line,           \* the lines a file is made of: [spaces, words, blank]
  MaxLines,       \* bound on the lines of a file
  LYTHON_INDENT   \* spaces in one level of indentation

Layout == {"newline", "eof", "indent", "desindent"}
Combined == {"is not", "not in"}

\* "incorrect" is tok_incorrect
ASSUME WordAssumption == {"is", "not", "in", "comment", "incorrect"} \subseteq Word
                         /\ Word \cap (Layout \union Combined) = {}
ASSUME LineAssumption ==
  /\ Line \subseteq [spaces : Nat, words : Seq(Word), blank : BOOLEAN]
  \* a comment goes to the end of its line, and so do the blanks after it
  /\ \A l \in Line : \A i \in 1 .. Len(l.words) - 1 : l.words[i] # "comment"
  /\ \A l \in Line : l.blank => l.words # <<>> /\ Last(l.words) # "comment"
ASSUME MaxLinesAssumption == MaxLines \in Nat \ {0}
ASSUME IndentAssumption == LYTHON_INDENT \in Nat \ {0}

Kind == Word \union Layout \union Combined

\* A chunk of one to LYTHON_INDENT spaces counts as one level.
Levels(spaces) == (spaces + LYTHON_INDENT - 1) \div LYTHON_INDENT

VARIABLES
  line,       \* what the reader has left of the current line
  cindent,    \* _cindent: indentation read on this line
  oindent,    \* _oindent: indentation of the block the last code line is in
  buffer,     \* _buffer: tokens read ahead, the next one at the end
  token,      \* _token
  depth,      \* ghost: INDENTs minus DESINDENTs delivered, -1 for any debt
  behind,     \* ghost: words read and not delivered yet
  clean       \* ghost: no line of spaces has hidden a DESINDENT and no line of
              \* an indented block has ended in blanks so far

scanner == <<line, cindent, oindent, clean>>
lexerVars == <<scanner, buffer, token, depth, behind>>

NoToken == [kind |-> "none", level |-> 0, row |-> 0]
Token == [kind : Kind, level : Nat, row : Nat]

\* Blanks at the end of the file are read as one more word, an incorrect one.
WithBlanks(l, final) == IF final /\ l.blank THEN Append(l.words, "incorrect") ELSE l.words

Read(l, final, row) ==
  [spaces |-> l.spaces,
   words  |-> Append(WithBlanks(l, final), IF final THEN "eof" ELSE "newline"),
   blank  |-> l.blank,
   level  |-> Levels(l.spaces),
   row    |-> row]

OnThisLine(kind) == [kind |-> kind, level |-> line.level, row |-> line.row]

Init ==
  /\ \E l \in Line, final \in BOOLEAN :
       /\ (MaxLines = 1) => final
       /\ line = Read(l, final, 1)
  /\ cindent = 0
  /\ oindent = 0
  /\ buffer = <<>>
  /\ token = NoToken
  /\ depth = 0
  /\ behind = <<>>
  /\ clean = TRUE

-----------------------------------------------------------------------------
(* The lookahead on is and not: the token that follows is combined with    *)
(* them or goes to the buffer.  A nested lookahead has filled the buffer   *)
(* before, so the token nearest to the operator ends up last.              *)

\* Any end of a line: its last word looks at nothing.
Phrase == {w \in Seq(Kind) : w # <<>> /\ Last(w) \notin {"is", "not"}}

QueueFirst(pushed, kind) == <<kind>> \o pushed   \* fault: pushed to the wrong end
PushBack(pushed, kind) == Append(pushed, kind)

Combine(word, next) ==
  CASE word = "is" /\ next.kind = "not" -> [next EXCEPT !.kind = "is not"]
    [] word = "not" /\ next.kind = "in" -> [next EXCEPT !.kind = "not in"]
    [] OTHER -> [next EXCEPT !.kind = word, !.pushed = PushBack(@, next.kind)]

Alone(w) ==
  [kind |-> Head(w), pushed |-> <<>>, left |-> IF Head(w) = "eof" THEN w ELSE Tail(w)]

Lookahead[w \in Phrase] ==
  IF Head(w) \in {"is", "not"} THEN Combine(Head(w), Lookahead[Tail(w)]) ELSE Alone(w)

-----------------------------------------------------------------------------
(* One scan.  Chunks of leading spaces are read until one is deeper than   *)
(* the current block (INDENT); the others are silent.  Then a line of code *)
(* that is shallower gives one DESINDENT per call.                         *)

\* _cindent when every leading space has been read
Reached == cindent + LYTHON_INDENT * Levels(line.spaces)

Opens == line.spaces > 0 /\ Reached > oindent

IsCode(w) == w \notin {"newline", "eof", "comment"}

Closes == ~Opens /\ Reached < oindent /\ IsCode(Head(line.words))

Scanned == Lookahead[line.words]

KindRead ==
  IF Opens THEN "indent" ELSE IF Closes THEN "desindent" ELSE Scanned.kind

PushedBack ==
  IF Opens \/ Closes THEN <<>>
  ELSE [i \in DOMAIN Scanned.pushed |-> OnThisLine(Scanned.pushed[i])]

\* the deepest indentation reached by this line or open before it
Deepest == IF cindent > oindent THEN cindent ELSE oindent

ToTheEnd(c) == Reached              \* fault: one INDENT however deep the line
DeeperThan(c) == c + LYTHON_INDENT

Indent ==
  /\ Opens
  /\ cindent' = DeeperThan(Deepest)
  /\ LET eaten == cindent' - cindent
     IN line' = [line EXCEPT !.spaces = IF @ > eaten THEN @ - eaten ELSE 0]
  /\ UNCHANGED <<oindent, clean>>

KeepOpen == oindent   \* fault: the block stays open
CloseAll == Reached      \* fault: one DESINDENT however many blocks end
CloseOne == oindent - LYTHON_INDENT

Desindent ==
  /\ Closes
  /\ cindent' = Reached
  /\ line' = [line EXCEPT !.spaces = 0]
  /\ oindent' = CloseOne
  /\ UNCHANGED clean

\* _cindent once the word at the head of the line is known: a comment takes
\* the indentation of the block it is in
Settled ==
  IF Head(line.words) = "comment" /\ Reached < oindent THEN oindent ELSE Reached

AlwaysReset(c) == c   \* fault: an empty line closes every block silently
AtNewline(c) == IF c # 0 THEN c ELSE oindent

\* The indentation of the next line is counted from 0, unless blanks hid the
\* newline from the test that resets _cindent.
NewLine ==
  IF line.blank
    THEN /\ cindent' = Settled
         /\ UNCHANGED oindent
         /\ clean' = (clean /\ Settled = 0)
    ELSE /\ cindent' = 0
         /\ oindent' = AtNewline(Settled)
         /\ clean' = (clean /\ (Settled # 0 => Settled >= oindent))

ReadWord ==
  /\ ~Opens /\ ~Closes
  /\ IF Scanned.left # <<>>
       THEN /\ line' = [line EXCEPT !.spaces = 0, !.words = Scanned.left]
            /\ cindent' = Settled
            /\ UNCHANGED <<oindent, clean>>
       ELSE \* the newline was read: the next line begins
            /\ \E l \in Line, final \in BOOLEAN :
                 /\ (line.row + 1 = MaxLines) => final
                 /\ line' = Read(l, final, line.row + 1)
            /\ NewLine

Scan == Indent \/ Desindent \/ ReadWord

-----------------------------------------------------------------------------
(* next_token and peek_token.                                              *)

\* The words of the file a token stands for; eof can be read again and again.
Spelling(kind) ==
  CASE kind = "is not" -> <<"is", "not">>
    [] kind = "not in" -> <<"not", "in">>
    [] kind \in {"indent", "desindent", "eof"} -> <<>>
    [] OTHER -> <<kind>>

\* The words of tokens of these kinds, the last one delivered first.
Spelled[kinds \in Seq(Kind)] ==
  IF kinds = <<>> THEN <<>> ELSE Spelling(Last(kinds)) \o Spelled[Front(kinds)]

Kinds(tokens) == [i \in DOMAIN tokens |-> tokens[i].kind]

WordsRead ==
  IF Opens \/ Closes THEN <<>>
  ELSE SubSeq(line.words, 1, Len(line.words) - Len(Scanned.left))

Deliver(t, read) ==
  /\ token' = t
  /\ depth' = CASE t.kind = "indent" -> depth + 1
                [] t.kind = "desindent" -> IF depth >= 0 THEN depth - 1 ELSE depth
                [] OTHER -> depth
  /\ LET pending == behind \o read
     IN behind' = SubSeq(pending, Len(Spelling(t.kind)) + 1, Len(pending))

NextToken ==
  \/ /\ buffer # <<>>
     /\ buffer' = Front(buffer)
     /\ Deliver(Last(buffer), <<>>)
     /\ UNCHANGED scanner
  \/ /\ buffer = <<>>
     /\ buffer' = PushedBack
     /\ Deliver(OnThisLine(KindRead), WordsRead)
     /\ Scan

\* peek_token keeps _token; with tokens in the buffer it changes nothing.
\* The parser peeks only from a current token.
PeekToken ==
  /\ token # NoToken
  /\ buffer = <<>>
  /\ buffer' = Append(PushedBack, OnThisLine(KindRead))
  /\ behind' = behind \o WordsRead
  /\ Scan
  /\ UNCHANGED <<token, depth>>

Next == NextToken \/ PeekToken

\* The caller reads on until it sees eof.
Spec == Init /\ [][Next]_lexerVars /\ WF_lexerVars(NextToken)

-----------------------------------------------------------------------------
(* Properties                                                              *)

\* The shape of every variable; indentations are whole levels.
TypeOK ==
  /\ line \in [spaces : Nat, words : Seq(Kind) \ {<<>>}, blank : BOOLEAN, level : Nat,
               row : 1 .. MaxLines]
  /\ cindent \in Nat /\ cindent % LYTHON_INDENT = 0
  /\ oindent \in Nat /\ oindent % LYTHON_INDENT = 0
  /\ buffer \in Seq(Token)
  /\ token \in Token \union {NoToken}
  /\ depth \in Nat \union {-1}
  /\ behind \in Seq(Kind)
  /\ clean \in BOOLEAN

\* When a token of code is delivered, the blocks opened and not closed so far
\* are as many as its line has levels of indentation: next_token emits each
\* INDENT and DESINDENT once, whatever comments, empty lines, lookaheads and
\* peeks come in between, as long as no line of spaces has hidden a DESINDENT
\* and no line of an indented block has ended in blanks.
IndentMatchesLine ==
  (clean /\ token # NoToken /\ IsCode(token.kind)
     /\ token.kind \notin {"indent", "desindent"}) => depth = token.level

\* No file closes a block a line of code is still in, and no block is closed
\* twice: hidden DESINDENTs and blanks at the end of lines leave too many
\* blocks, never too few.
NeverTooShallow ==
  (token # NoToken /\ IsCode(token.kind)
     /\ token.kind \notin {"indent", "desindent"}) => depth >= token.level

\* Tokens are delivered in the order of the file, none lost and none twice:
\* the words read and not delivered are those of the buffer, last one first.
TokensInOrder == behind = Spelled[Kinds(buffer)]

\* next_token reaches the end of every file: no indentation makes it produce
\* layout tokens for ever.
EndsInEof == <>(token.kind = "eof")

\* A line as deep as the block it is in opens no block: "if current indent is
\* the same do nothing" (next_token).
SameIndentDoesNothing == token.kind = "indent" => depth <= token.level
=============================================================================
