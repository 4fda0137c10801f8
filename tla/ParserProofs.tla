---------------------------- MODULE ParserProofs ----------------------------
(* Theorems about Parser, for every file and every read loop, whatever the *)
(* lines.  What the parser relies on of the Lexer is proved in             *)
(* LexerProofs.                                                            *)
EXTENDS Parser, SequenceTheorems, TLAPS

LP == INSTANCE LexerProofs

-----------------------------------------------------------------------------
(* The Lexer of the parser is the Lexer of LexerProofs                     *)

LEMMA LexerAssumed ==
  LP!WordAssumption /\ LP!LineAssumption /\ LP!MaxLinesAssumption /\ LP!IndentAssumption
BY LexerAssumptions
   DEF LP!WordAssumption, LP!LineAssumption, LP!MaxLinesAssumption, LP!IndentAssumption,
       LP!Layout, LP!Combined, LP!Last,
       Lex!WordAssumption, Lex!LineAssumption, Lex!MaxLinesAssumption, Lex!IndentAssumption,
       Lex!Layout, Lex!Combined, Lex!Last

LEMMA SameLookahead == LP!Lookahead = Lex!Lookahead
BY DEF LP!Lookahead, LP!Alone, LP!Phrase, LP!Kind, LP!Combine, LP!PushBack, LP!Layout,
       LP!Combined, LP!Last,
       Lex!Lookahead, Lex!Alone, Lex!Phrase, Lex!Kind, Lex!Combine, Lex!PushBack, Lex!Layout,
       Lex!Combined, Lex!Last

LEMMA SameScanned == LP!Scanned = Lex!Scanned
BY SameLookahead DEF LP!Scanned, Lex!Scanned

LEMMA SameOpens == (LP!Opens <=> Lex!Opens) /\ LP!Reached = Lex!Reached
BY DEF LP!Opens, LP!Reached, LP!Levels, Lex!Opens, Lex!Reached, Lex!Levels

LEMMA SameCloses == LP!Closes <=> Lex!Closes
BY SameOpens DEF LP!Closes, LP!IsCode, Lex!Closes, Lex!IsCode

LEMMA SameOnThisLine == \A k : LP!OnThisLine(k) = Lex!OnThisLine(k)
BY DEF LP!OnThisLine, Lex!OnThisLine

LEMMA SameKindRead == LP!KindRead = Lex!KindRead
BY SameOpens, SameCloses, SameScanned DEF LP!KindRead, Lex!KindRead

LEMMA SamePushedBack == LP!PushedBack = Lex!PushedBack
BY SameOpens, SameCloses, SameScanned, SameOnThisLine DEF LP!PushedBack, Lex!PushedBack

LEMMA SameWordsRead == LP!WordsRead = Lex!WordsRead
BY SameOpens, SameCloses, SameScanned DEF LP!WordsRead, Lex!WordsRead

LEMMA SameIndent == LP!Indent <=> Lex!Indent
BY SameOpens DEF LP!Indent, LP!DeeperThan, LP!Deepest, Lex!Indent, Lex!DeeperThan, Lex!Deepest

LEMMA SameDesindent == LP!Desindent <=> Lex!Desindent
BY SameOpens, SameCloses DEF LP!Desindent, LP!CloseOne, Lex!Desindent, Lex!CloseOne

LEMMA SameRead == \A l, final, row : LP!Read(l, final, row) = Lex!Read(l, final, row)
BY DEF LP!Read, LP!WithBlanks, LP!Levels, Lex!Read, Lex!WithBlanks, Lex!Levels

LEMMA SameReadWord == LP!ReadWord <=> Lex!ReadWord
<1>1. LP!Settled = Lex!Settled
  BY SameOpens DEF LP!Settled, Lex!Settled
<1>2. LP!NewLine <=> Lex!NewLine
  BY <1>1, SameOpens DEF LP!NewLine, LP!AtNewline, Lex!NewLine, Lex!AtNewline
<1> QED
  BY <1>1, <1>2, SameOpens, SameCloses, SameScanned, SameRead DEF LP!ReadWord, Lex!ReadWord

LEMMA SameDeliver == \A t, words : LP!Deliver(t, words) <=> Lex!Deliver(t, words)
BY DEF LP!Deliver, LP!Spelling, Lex!Deliver, Lex!Spelling

LEMMA SameNextToken == LP!NextToken <=> Lex!NextToken
<1>1. LP!Scan <=> Lex!Scan
  BY SameIndent, SameDesindent, SameReadWord DEF LP!Scan, Lex!Scan
<1>2. LP!Deliver(LP!OnThisLine(LP!KindRead), LP!WordsRead)
        <=> Lex!Deliver(Lex!OnThisLine(Lex!KindRead), Lex!WordsRead)
  BY SameDeliver, SameOnThisLine, SameKindRead, SameWordsRead
<1>3. LP!Deliver(LP!Last(buffer), <<>>) <=> Lex!Deliver(Lex!Last(buffer), <<>>)
  BY SameDeliver DEF LP!Last, Lex!Last
<1>4. LP!Front(buffer) = Lex!Front(buffer)
  BY DEF LP!Front, Lex!Front
<1> QED
  BY <1>1, <1>2, <1>3, <1>4, SamePushedBack
     DEF LP!NextToken, LP!scanner, Lex!NextToken, Lex!scanner

LEMMA SameInit == LP!Init <=> Lex!Init
BY SameRead DEF LP!Init, LP!NoToken, Lex!Init, Lex!NoToken

-----------------------------------------------------------------------------
(* What the parser relies on                                               *)

LexInv == LP!FullInv

Layouts == {"indent", "desindent"}

\* The blocks the parser has entered: depth without the token it looks at.
Eaten ==
  IF token.kind = "indent" THEN depth - 1
  ELSE IF token.kind = "desindent" THEN depth + 1 ELSE depth

LEMMA LexInit == Lex!Init => LexInv
BY SameInit, LexerAssumed, LP!InitFullInv DEF LexInv

LEMMA LexStays == LexInv /\ UNCHANGED lexerVars => LexInv'
BY LexerAssumed, LP!NextFullInv DEF LexInv, lexerVars, LP!lexerVars, LP!scanner

LEMMA LexStep ==
  ASSUME LexInv, Lex!NextToken
  PROVE  /\ LexInv'
         /\ token' # Lex!NoToken /\ token'.row \in 1 .. MaxLines /\ token'.level \in Nat
         /\ Eaten' = depth /\ depth \in Nat
         /\ token.kind = "eof" => token'.kind = "eof"
         /\ token # Lex!NoToken /\ token.kind \notin {"newline", "eof", "indent", "desindent"}
              => token'.kind \notin Layouts
         /\ clean' => clean
         /\ clean' \in BOOLEAN
<1>1. LP!FullInv /\ LP!NextToken
  BY SameNextToken DEF LexInv
<1>2. /\ LP!FullInv'
      /\ token' \in LP!Token /\ token' # LP!NoToken /\ token'.row \in 1 .. MaxLines
      /\ depth \in Nat /\ depth' \in Nat
      /\ depth' = CASE token'.kind = "indent" -> depth + 1
                    [] token'.kind = "desindent" -> depth - 1
                    [] OTHER -> depth
      /\ token.kind = "eof" => token'.kind = "eof"
      /\ token # LP!NoToken /\ token.kind \notin LP!Layout
           => token'.kind \notin {"indent", "desindent"}
      /\ clean' => clean
  BY <1>1, LexerAssumed, LP!NextTokenStep
<1>3. LP!NoToken = Lex!NoToken /\ LP!Layout = {"newline", "eof", "indent", "desindent"}
  BY DEF LP!NoToken, Lex!NoToken, LP!Layout
<1>4. token'.level \in Nat
  BY <1>2 DEF LP!Token
<1>5. Eaten' = depth
  BY <1>2 DEF Eaten
<1>6. clean' \in BOOLEAN
  BY <1>2 DEF LP!FullInv, LP!IInv, LP!TypeOK
<1> QED
  BY <1>2, <1>3, <1>4, <1>5, <1>6 DEF LexInv, Layouts

LEMMA LexFacts ==
  ASSUME LexInv
  PROVE  /\ depth \in Nat /\ Eaten \in Int /\ clean \in BOOLEAN
         /\ token.kind = "desindent" => Eaten > 0
         /\ token # Lex!NoToken => token.row \in 1 .. MaxLines /\ token.level \in Nat
         /\ clean /\ token # Lex!NoToken
              /\ token.kind \notin {"newline", "eof", "comment", "indent", "desindent"}
              => token.level = Eaten
<1>1. LP!NoToken = Lex!NoToken
  BY DEF LP!NoToken, Lex!NoToken
<1>2. /\ token \in LP!Token \union {LP!NoToken} /\ depth \in Nat /\ clean \in BOOLEAN
      /\ token = LP!NoToken \/ token.row \in 1 .. MaxLines
      /\ clean /\ token # LP!NoToken /\ LP!IsCode(token.kind)
           /\ token.kind \notin {"indent", "desindent"} => depth = token.level
  BY LexerAssumed, LP!TokenFacts DEF LexInv
<1>3. token # Lex!NoToken => token.level \in Nat
  BY <1>1, <1>2 DEF LP!Token
<1>4. Eaten \in Int /\ (token.kind = "desindent" => Eaten > 0)
      /\ (token.kind \notin {"indent", "desindent"} => Eaten = depth)
  BY <1>2 DEF Eaten
<1>5. token.kind \notin {"newline", "eof", "comment"} <=> LP!IsCode(token.kind)
  BY DEF LP!IsCode
<1> QED
  BY <1>1, <1>2, <1>3, <1>4, <1>5

-----------------------------------------------------------------------------
(* The inductive invariant                                                 *)

\* Which activation runs under which.
Under(s, i) ==
  CASE s[i].fn = "one" -> i > 1 /\ s[i - 1].fn \in {"body", "repl"}
    [] s[i].fn = "stmt" -> i > 1 /\ s[i - 1].fn = "one"
    [] s[i].fn = "body" -> i = 1 \/ s[i - 1].fn = "stmt"
    [] OTHER -> i = 1    \* the read loop, or a parse that has stopped
Framed(s) == s \in Seq(Frame) /\ \A i \in 1 .. Len(s) : Under(s, i)

\* What a clause still expects is the end of the longest header, or of what
\* comes after a docstring.
Expected == {"any", "name", ":", "newline", "newlines", "indent", "body", "documented",
             "value", "end"} \union ImportParts
Plan == <<"any", "name", ":", "newline", "newlines", "indent", "body">>
Rest(j) == SubSeq(Plan, j, 7)
DocPlan == <<"newline", "newlines", "documented">>
DocRest(j) == SubSeq(DocPlan, j, 3)

Documented(f) == f.clause \in {"def", "async", "class"} /\ \E j \in 1 .. 3 : f.todo = DocRest(j)

\* An import looks for one part at a time, and last for the end of its line.
OnePart(todo) == \E part \in ImportParts \union {"end"} : todo = <<part>>

TodoOK(f) ==
  /\ f.kind = "return" => f.clause = "return" /\ f.todo \in {<<"value">>, <<>>}
  /\ f.kind = "annassign" => f.clause = "annassign" /\ f.todo \in {<<"name">>, <<>>}
  /\ f.kind = "import" => f.clause = "import" /\ (f.todo = <<>> \/ OnePart(f.todo))
  /\ f.kind \in Compound =>
       /\ f.clause \notin Simple
       /\ f.clause \in {"match", "case"} <=> f.kind = "match"
       /\ (\E j \in 1 .. 8 : f.todo = Rest(j)) \/ Documented(f)

\* A case is one level deeper than its match.
CaseLevel(f) == IF f.clause = "case" THEN 1 ELSE 0

\* The INDENT of the block of this clause has been read, its DESINDENT not yet.
Entered(f) ==
  IF f.kind \in Compound
       /\ (f.todo = Rest(7) \/ (f.clause = "match" /\ f.todo = <<>>)
             \/ (f.todo # <<>> /\ Last(f.todo) = "documented"))
    THEN 1 ELSE 0

\* Without an error so far, how an activation stands to those under it; the
\* levels count where no line of spaces hid a DESINDENT and no blanks a newline (c).
GoodAt(s, i, c) ==
  /\ s[i].fn = "one" =>
       /\ s[i].stage # "recover"
       /\ c /\ s[i].stage \in {"decorator", "decorated", "commented", "after", "inline"}
            => s[i].level = s[i - 1].indent
  /\ s[i].fn = "stmt" =>
       /\ s[i - 1].stage = "after"
       /\ TodoOK(s[i])
       /\ c => s[i].level = s[i - 1].level + CaseLevel(s[i])
  /\ s[i].fn = "body" =>
       IF i = 1 THEN s[i].indent = 0
       ELSE /\ s[i - 1].todo = <<>> /\ s[i - 1].clause # "match"
            /\ s[i].indent = s[i - 3].indent + 1 + CaseLevel(s[i - 1])
Good(s, c) == \A i \in 1 .. Len(s) : GoodAt(s, i, c)

\* How many blocks enclose what the innermost activation reads next.
Inside(s) ==
  CASE Last(s).fn = "one" -> s[Len(s) - 1].indent
    [] Last(s).fn = "stmt" ->
         s[Len(s) - 2].indent + CaseLevel(Last(s)) + Entered(Last(s))
    [] OTHER -> Last(s).indent

\* What the innermost activation has seen of the token.
Seen(s, c, t) ==
  /\ Last(s).fn = "one" /\ Last(s).stage \in {"decorators", "primary"} /\ c
       => Last(s).level = s[Len(s) - 1].indent \/ t.kind = "indent"
  /\ Last(s).fn = "stmt" /\ Last(s).todo = Rest(1)
       => t # Lex!NoToken /\ t.kind \notin Layouts

Placed(s) ==
  /\ Good(s, clean)
  /\ Seen(s, clean, token)
  /\ token.kind = "eof" \/ Eaten = Inside(s)

Counts ==
  /\ pending \in Nat
  /\ errors \in Nat
  /\ current_error \in Nat \union {-1}
  /\ is_empty_line \in BOOLEAN
InPlace == errors = 0 /\ FromFile => Placed(stack)
Complete == stack = <<>> /\ errors = 0 => token.kind = "eof" /\ pending = 0


\* While a file is read no error is forgotten, and so the index is right; the
\* assertion fails at the prompt only.
Numbered ==
  stack # <<>> =>
    /\ stack[1].fn = "body" => IndexHolds
    /\ stack[1].fn = "stopped" => stack[1].caller = "repl"

PInv == Framed(stack) /\ Counts /\ InPlace /\ Complete /\ Numbered

\* The inductive invariant of Parser.
FullInv == LexInv /\ PInv

-----------------------------------------------------------------------------
(* Stacks                                                                  *)

\* t is s cut after k activations, the last of them replaced with f.
Cut(s, t, k, f) ==
  /\ t \in Seq(Frame) /\ Len(t) = k /\ t[k] = f
  /\ \A i \in 1 .. k - 1 : t[i] = s[i]

\* The same, and f has called g.
Grown(s, t, k, f, g) ==
  /\ t \in Seq(Frame) /\ Len(t) = k + 1 /\ t[k] = f /\ t[k + 1] = g
  /\ \A i \in 1 .. k - 1 : t[i] = s[i]

LEMMA FrontFacts ==
  ASSUME NEW s \in Seq(Frame), s # <<>>
  PROVE  /\ Len(s) \in Nat \ {0} /\ Front(s) \in Seq(Frame) /\ Len(Front(s)) = Len(s) - 1
         /\ \A i \in 1 .. Len(s) - 1 : Front(s)[i] = s[i]
         /\ Last(s) = s[Len(s)]
<1>1. Len(s) \in Nat \ {0} /\ \A i \in 1 .. Len(s) : s[i] \in Frame
  BY EmptySeq, LenProperties, ElementOfSeq
<1>2. \A i \in 1 .. Len(s) - 1 : s[i] \in Frame
  BY <1>1
<1>3. \A n \in Nat \ {0} :
        /\ n - 1 \in Int /\ (IF 1 <= n - 1 THEN n - 1 - 1 + 1 ELSE 0) = n - 1
        /\ \A i \in 1 .. n - 1 : i \in 1 .. n - 1 - 1 + 1 /\ 1 + i - 1 = i
  OBVIOUS
<1>4. /\ SubSeq(s, 1, Len(s) - 1) \in Seq(Frame)
      /\ Len(SubSeq(s, 1, Len(s) - 1)) = IF 1 <= Len(s) - 1 THEN Len(s) - 1 - 1 + 1 ELSE 0
      /\ \A i \in 1 .. Len(s) - 1 - 1 + 1 : SubSeq(s, 1, Len(s) - 1)[i] = s[1 + i - 1]
  BY <1>1, <1>2, <1>3, SubSeqProperties
<1> QED
  BY <1>1, <1>3, <1>4 DEF Front, Last

LEMMA BecomeIs ==
  ASSUME NEW s \in Seq(Frame), s # <<>>, NEW f \in Frame
  PROVE  Cut(s, Append(Front(s), f), Len(s), f)
<1> DEFINE n == Len(s)
           u == Front(s)
<1>1. /\ n \in Nat \ {0} /\ u \in Seq(Frame) /\ Len(u) = n - 1
      /\ \A i \in 1 .. n - 1 : u[i] = s[i]
  BY FrontFacts
<1>2. /\ Append(u, f) \in Seq(Frame) /\ Len(Append(u, f)) = Len(u) + 1
      /\ \A i \in 1 .. Len(u) : Append(u, f)[i] = u[i]
      /\ Append(u, f)[Len(u) + 1] = f
  BY <1>1, AppendProperties
<1> QED
  BY <1>1, <1>2 DEF Cut

LEMMA CallIs ==
  ASSUME NEW s \in Seq(Frame), NEW t \in Seq(Frame), NEW k \in Nat \ {0}, NEW f \in Frame,
         Cut(s, t, k, f), NEW g \in Frame
  PROVE  Grown(s, Append(t, g), k, f, g)
<1>1. /\ Append(t, g) \in Seq(Frame) /\ Len(Append(t, g)) = Len(t) + 1
      /\ \A i \in 1 .. Len(t) : Append(t, g)[i] = t[i]
      /\ Append(t, g)[Len(t) + 1] = g
  BY AppendProperties
<1> QED
  BY <1>1 DEF Cut, Grown

LEMMA ReturnIs ==
  ASSUME NEW s \in Seq(Frame), Len(s) > 1, NEW f \in Frame
  PROVE  /\ Cut(s, [Front(s) EXCEPT ![Len(s) - 1] = f], Len(s) - 1, f)
         /\ Front(s)[Len(s) - 1] = s[Len(s) - 1]
         /\ Cut(s, Front(s), Len(s) - 1, s[Len(s) - 1])
<1> DEFINE n == Len(s)
           u == Front(s)
<1>0. s # <<>>
  BY EmptySeq
<1>1. /\ n \in Nat \ {0} /\ u \in Seq(Frame) /\ Len(u) = n - 1
      /\ \A i \in 1 .. n - 1 : u[i] = s[i]
  BY <1>0, FrontFacts
<1>2. n - 1 \in 1 .. Len(u)
  BY <1>1
<1>3. /\ [u EXCEPT ![n - 1] = f] \in Seq(Frame)
      /\ Len([u EXCEPT ![n - 1] = f]) = Len(u)
      /\ \A j \in 1 .. Len(u) : [u EXCEPT ![n - 1] = f][j] = IF j = n - 1 THEN f ELSE u[j]
  BY <1>1, <1>2, ExceptSeq
<1> QED
  BY <1>1, <1>2, <1>3 DEF Cut

LEMMA SameIs ==
  ASSUME NEW s \in Seq(Frame), s # <<>>
  PROVE  Cut(s, s, Len(s), s[Len(s)])
BY FrontFacts DEF Cut

\* The frames under an activation are those its kind needs.
LEMMA FrameKinds ==
  /\ \A f \in Frame : f.fn = "one" => f \in OneFrame
  /\ \A f \in Frame : f.fn = "stmt" => f \in StmtFrame
  /\ \A f \in Frame : f.fn \in {"body", "repl"} => f \in ListFrame
  /\ \A f \in Frame : f.fn = "stopped" => f \in StopFrame
  /\ \A f \in Frame : f.fn \in {"one", "stmt", "body", "repl", "stopped"}
  /\ OneFrame \subseteq Frame /\ StmtFrame \subseteq Frame /\ ListFrame \subseteq Frame
  /\ StopFrame \subseteq Frame
BY DEF Frame, OneFrame, StmtFrame, ListFrame, StopFrame

LEMMA Below ==
  ASSUME NEW s, Framed(s), NEW i \in 1 .. Len(s)
  PROVE  /\ s[i] \in Frame
         /\ s[i].fn = "one" => i > 1 /\ s[i] \in OneFrame /\ s[i - 1] \in ListFrame
         /\ s[i].fn = "stmt" => /\ i > 2 /\ s[i] \in StmtFrame /\ s[i - 1] \in OneFrame
                                /\ s[i - 1].fn = "one" /\ s[i - 2] \in ListFrame
         /\ s[i].fn = "body" => /\ s[i] \in ListFrame
                                /\ i = 1 \/ /\ i > 3 /\ s[i - 1] \in StmtFrame
                                            /\ s[i - 1].fn = "stmt" /\ s[i - 2] \in OneFrame
                                            /\ s[i - 2].fn = "one" /\ s[i - 3] \in ListFrame
         /\ s[i].fn = "repl" => i = 1 /\ s[i] \in ListFrame
<1>1. s \in Seq(Frame) /\ \A j \in 1 .. Len(s) : Under(s, j)
  BY DEF Framed
<1>2. Len(s) \in Nat /\ \A j \in 1 .. Len(s) : s[j] \in Frame
  BY <1>1, LenProperties, ElementOfSeq
<1>3. \A j \in 1 .. Len(s) : s[j].fn = "one" => j - 1 \in 1 .. Len(s) /\ s[j - 1].fn \in {"body", "repl"}
  BY <1>1, <1>2 DEF Under
<1>4. \A j \in 1 .. Len(s) : s[j].fn = "stmt" => j - 1 \in 1 .. Len(s) /\ s[j - 1].fn = "one"
  BY <1>1, <1>2 DEF Under
<1>5. \A j \in 1 .. Len(s) : s[j].fn = "body" => j = 1 \/ (j - 1 \in 1 .. Len(s) /\ s[j - 1].fn = "stmt")
  BY <1>1, <1>2 DEF Under
<1>6. s[i].fn = "repl" => i = 1
  BY <1>1 DEF Under
<1>7. \A j \in Int : (j - 1) - 1 = j - 2 /\ (j - 2) - 1 = j - 3
  OBVIOUS
<1>8. ASSUME s[i].fn = "stmt"
      PROVE  /\ i > 2 /\ s[i - 1].fn = "one" /\ i - 1 \in 1 .. Len(s)
             /\ i - 2 \in 1 .. Len(s) /\ s[i - 2].fn \in {"body", "repl"}
  BY <1>2, <1>3, <1>4, <1>7, <1>8
<1>9. ASSUME s[i].fn = "body", i # 1
      PROVE  /\ i > 3 /\ i - 1 \in 1 .. Len(s) /\ s[i - 1].fn = "stmt"
             /\ i - 2 \in 1 .. Len(s) /\ s[i - 2].fn = "one"
             /\ i - 3 \in 1 .. Len(s) /\ s[i - 3].fn \in {"body", "repl"}
  BY <1>2, <1>3, <1>4, <1>5, <1>7, <1>9
<1> QED
  BY <1>2, <1>3, <1>6, <1>8, <1>9, FrameKinds

\* Under whatever has not stopped there is a file or the read loop.
LEMMA FirstIsCaller ==
  ASSUME NEW s, Framed(s), NEW k \in 1 .. Len(s), s[k].fn # "stopped"
  PROVE  s[1].fn \in {"body", "repl"}
<1>1. s \in Seq(Frame) /\ (\A j \in 1 .. Len(s) : Under(s, j)) /\ Len(s) \in Nat
  BY LenProperties DEF Framed
<1>2. s[1] \in Frame /\ Under(s, 1) /\ 1 \in 1 .. Len(s)
  BY <1>1, ElementOfSeq
<1>3. s[1].fn \in {"body", "repl", "stopped"}
  BY <1>2, FrameKinds DEF Under
<1>4. CASE k = 1
  BY <1>3, <1>4
<1>5. CASE k # 1
  <2>1. 2 \in 1 .. Len(s) /\ 2 - 1 = 1 /\ 2 # 1
    BY <1>1, <1>5
  <2>2. Under(s, 2)
    BY <2>1, <1>1
  <2>3. s[1].fn # "stopped"
    BY <2>1, <2>2 DEF Under
  <2> QED
    BY <2>3, <1>3
<1> QED
  BY <1>4, <1>5

\* A stack that keeps the activations under k is framed when those from k on are.
LEMMA CutFramed ==
  ASSUME NEW s, Framed(s), NEW t, NEW k \in 1 .. Len(s), NEW f, Cut(s, t, k, f),
         f.fn = s[k].fn
  PROVE  Framed(t) /\ t # <<>> /\ t[1].fn = s[1].fn /\ Last(t) = f
<1>1. s \in Seq(Frame) /\ \A j \in 1 .. Len(s) : Under(s, j)
  BY DEF Framed
<1>2. Len(s) \in Nat
  BY <1>1, LenProperties
<1>3. t \in Seq(Frame) /\ Len(t) = k /\ t[k] = f /\ \A i \in 1 .. k - 1 : t[i] = s[i]
  BY DEF Cut
<1>4. \A i \in 1 .. k : t[i].fn = s[i].fn
  BY <1>2, <1>3
<1>5. ASSUME NEW i \in 1 .. k PROVE Under(t, i)
  <2>1. Under(s, i) /\ i \in Int
    BY <1>1, <1>2
  <2>2. t[i].fn = s[i].fn /\ (i > 1 => t[i - 1].fn = s[i - 1].fn)
    BY <1>4, <1>2
  <2> QED
    BY <2>1, <2>2 DEF Under
<1>6. t # <<>>
  BY <1>2, <1>3, EmptySeq
<1>7. t[1].fn = s[1].fn
  BY <1>2, <1>4
<1> QED
  BY <1>3, <1>5, <1>6, <1>7 DEF Framed, Last

LEMMA GrownFramed ==
  ASSUME NEW s, Framed(s), NEW t, NEW k \in 1 .. Len(s), NEW f, NEW g, Grown(s, t, k, f, g),
         f.fn = s[k].fn, Under(t, k + 1)
  PROVE  Framed(t) /\ t # <<>> /\ t[1].fn = s[1].fn /\ Last(t) = g
<1>1. s \in Seq(Frame) /\ \A j \in 1 .. Len(s) : Under(s, j)
  BY DEF Framed
<1>2. Len(s) \in Nat
  BY <1>1, LenProperties
<1>3. t \in Seq(Frame) /\ Len(t) = k + 1 /\ t[k] = f /\ t[k + 1] = g
      /\ \A i \in 1 .. k - 1 : t[i] = s[i]
  BY DEF Grown
<1>4. \A i \in 1 .. k : t[i].fn = s[i].fn
  BY <1>2, <1>3
<1>5. ASSUME NEW i \in 1 .. k PROVE Under(t, i)
  <2>1. Under(s, i) /\ i \in Int
    BY <1>1, <1>2
  <2>2. t[i].fn = s[i].fn /\ (i > 1 => t[i - 1].fn = s[i - 1].fn)
    BY <1>4, <1>2
  <2> QED
    BY <2>1, <2>2 DEF Under
<1>6. t # <<>>
  BY <1>2, <1>3, EmptySeq
<1>7. t[1].fn = s[1].fn
  BY <1>2, <1>4
<1>8. \A i \in 1 .. k + 1 : i \in 1 .. k \/ i = k + 1
  BY <1>2
<1> QED
  BY <1>3, <1>5, <1>6, <1>7, <1>8 DEF Framed, Last

\* What holds of an activation depends on it and on the three under it only.
LEMMA GoodBelow ==
  ASSUME NEW s, Framed(s), NEW t, NEW i \in 1 .. Len(s),
         \A j \in 1 .. i : t[j] = s[j],
         NEW c \in BOOLEAN, NEW d \in BOOLEAN, d => c, GoodAt(s, i, c)
  PROVE  GoodAt(t, i, d)
<1>1. Len(s) \in Nat /\ t[i] = s[i] /\ i \in Int
  BY LenProperties DEF Framed
<1>2. s[i].fn = "one" => t[i - 1] = s[i - 1]
  BY <1>1, Below
<1>3. s[i].fn = "stmt" => t[i - 1] = s[i - 1]
  BY <1>1, Below
<1>4. s[i].fn = "body" /\ i # 1 => t[i - 1] = s[i - 1] /\ t[i - 3] = s[i - 3]
  <2>1. s[i].fn = "body" /\ i # 1 => i > 3
    BY Below
  <2> QED
    BY <1>1, <2>1
<1> QED
  BY <1>1, <1>2, <1>3, <1>4 DEF GoodAt

LEMMA CutGood ==
  ASSUME NEW s, Framed(s), NEW t, NEW k \in 1 .. Len(s), NEW f, Cut(s, t, k, f),
         NEW c \in BOOLEAN, NEW d \in BOOLEAN, d => c, Good(s, c), GoodAt(t, k, d)
  PROVE  Good(t, d)
<1>1. Len(s) \in Nat /\ Len(t) = k /\ \A i \in 1 .. k - 1 : t[i] = s[i]
  BY LenProperties DEF Framed, Cut
<1>2. \A i \in 1 .. k - 1 : i \in 1 .. Len(s) /\ \A j \in 1 .. i : t[j] = s[j]
  BY <1>1
<1>3. \A i \in 1 .. k - 1 : GoodAt(t, i, d)
  BY <1>2, GoodBelow DEF Good
<1>4. \A i \in 1 .. k : i \in 1 .. k - 1 \/ i = k
  BY <1>1
<1> QED
  BY <1>1, <1>3, <1>4 DEF Good

LEMMA GrownGood ==
  ASSUME NEW s, Framed(s), NEW t, NEW k \in 1 .. Len(s), NEW f, NEW g, Grown(s, t, k, f, g),
         NEW c \in BOOLEAN, NEW d \in BOOLEAN, d => c, Good(s, c),
         GoodAt(t, k, d), GoodAt(t, k + 1, d)
  PROVE  Good(t, d)
<1>1. Len(s) \in Nat /\ Len(t) = k + 1 /\ \A i \in 1 .. k - 1 : t[i] = s[i]
  BY LenProperties DEF Framed, Grown
<1>2. \A i \in 1 .. k - 1 : i \in 1 .. Len(s) /\ \A j \in 1 .. i : t[j] = s[j]
  BY <1>1
<1>3. \A i \in 1 .. k - 1 : GoodAt(t, i, d)
  BY <1>2, GoodBelow DEF Good
<1>4. \A i \in 1 .. k + 1 : i \in 1 .. k - 1 \/ i = k \/ i = k + 1
  BY <1>1
<1> QED
  BY <1>1, <1>3, <1>4 DEF Good

-----------------------------------------------------------------------------
(* Steps                                                                   *)

\* next_token, and no token.
LEMMA EatFacts ==
  ASSUME LexInv, token # Lex!NoToken, Eat
  PROVE  /\ LexInv' /\ is_empty_line' \in BOOLEAN /\ token' # Lex!NoToken
         /\ (clean' => clean) /\ clean \in BOOLEAN /\ clean' \in BOOLEAN
         /\ token.kind = "eof" => token'.kind = "eof"
         /\ token.kind \notin {"newline", "eof", "indent", "desindent"}
              => token'.kind \notin Layouts
         /\ token.kind \notin Layouts => Eaten' = Eaten
         /\ token.kind = "indent" => Eaten' = Eaten + 1
         /\ token.kind = "desindent" => Eaten' = Eaten - 1
<1>1. Lex!NextToken /\ is_empty_line' \in BOOLEAN
  BY DEF Eat, EndsLine
<1>2. /\ LexInv' /\ (clean' => clean) /\ Eaten' = depth /\ depth \in Nat
      /\ token' # Lex!NoToken /\ clean' \in BOOLEAN
      /\ token.kind = "eof" => token'.kind = "eof"
      /\ token # Lex!NoToken /\ token.kind \notin {"newline", "eof", "indent", "desindent"}
           => token'.kind \notin Layouts
  BY <1>1, LexStep
<1>3. clean \in BOOLEAN
  BY LexFacts
<1>5. /\ token.kind \notin Layouts => depth = Eaten
      /\ token.kind = "indent" => depth = Eaten + 1
      /\ token.kind = "desindent" => depth = Eaten - 1
  BY <1>2 DEF Eaten, Layouts
<1> QED
  BY <1>1, <1>2, <1>3, <1>5

LEMMA StayFacts ==
  ASSUME FullInv, Stay
  PROVE  /\ LexInv' /\ is_empty_line' = is_empty_line /\ is_empty_line' \in BOOLEAN
         /\ clean' = clean /\ clean \in BOOLEAN /\ clean' \in BOOLEAN
         /\ token' = token /\ Eaten' = Eaten
<1>1. UNCHANGED lexerVars /\ is_empty_line' = is_empty_line /\ is_empty_line \in BOOLEAN
  BY DEF Stay, FullInv, PInv, Counts
<1>2. LexInv'
  BY <1>1, LexStays DEF FullInv
<1>3. clean \in BOOLEAN
  BY LexFacts DEF FullInv
<1> QED
  BY <1>1, <1>2, <1>3 DEF lexerVars, Eaten

\* A step that returns to the k-th activation, or stays in it.
LEMMA CutStep ==
  ASSUME FullInv, NEW k \in 1 .. Len(stack), NEW f, Cut(stack, stack', k, f),
         f.fn = stack[k].fn,
         f.fn # "stopped", FromFile /\ IndexHolds => IndexHolds',
         LexInv', clean \in BOOLEAN, clean' \in BOOLEAN, clean' => clean, Counts',
         errors' = 0 /\ FromFile => errors = 0,
         errors' = 0 /\ FromFile /\ Placed(stack) =>
           /\ GoodAt(stack', k, clean')
           /\ Seen(stack', clean', token')
           /\ token'.kind = "eof" \/ Eaten' = Inside(stack')
  PROVE  FullInv'
<1>1. Framed(stack) /\ InPlace
  BY DEF FullInv, PInv
<1>2. Framed(stack') /\ stack' # <<>> /\ stack'[1].fn = stack[1].fn
  BY <1>1, CutFramed
<1>3. stack # <<>>
  <2> SUFFICES ASSUME stack = <<>> PROVE FALSE
    OBVIOUS
  <2> QED
    BY EmptySeq
<1>4. FromFile' => FromFile
  BY <1>2, <1>3 DEF FromFile
<1>5. ASSUME errors' = 0, FromFile'
      PROVE  Placed(stack)'
  <2>1. FromFile /\ errors = 0
    BY <1>4, <1>5
  <2>2. Placed(stack)
    BY <1>1, <2>1 DEF InPlace
  <2>3. Good(stack, clean)
    BY <2>2 DEF Placed
  <2>4. /\ GoodAt(stack', k, clean') /\ Seen(stack', clean', token')
        /\ token'.kind = "eof" \/ Eaten' = Inside(stack')
    BY <1>5, <2>1, <2>2
  <2>5. Good(stack', clean')
    BY <1>1, <2>3, <2>4, CutGood
  <2> QED
    BY <2>4, <2>5 DEF Placed
<1>6. InPlace'
  BY <1>5 DEF InPlace
<1>7. Complete'
  BY <1>2 DEF Complete
<1>8. Numbered'
  <2>1. stack[1].fn # "stopped"
    BY <1>1, FirstIsCaller
  <2>2. FromFile => IndexHolds
    BY DEF FullInv, PInv, Numbered, FromFile
  <2> QED
    BY <2>1, <2>2, <1>2, <1>3 DEF Numbered, FromFile
<1> QED
  BY <1>2, <1>6, <1>7, <1>8 DEF FullInv, PInv

\* A step that calls from the k-th activation.
LEMMA GrowStep ==
  ASSUME FullInv, NEW k \in 1 .. Len(stack), NEW f, NEW g, Grown(stack, stack', k, f, g),
         f.fn = stack[k].fn, Under(stack', k + 1),
         f.fn # "stopped", FromFile /\ IndexHolds => IndexHolds',
         LexInv', clean \in BOOLEAN, clean' \in BOOLEAN, clean' => clean, Counts',
         errors' = 0 /\ FromFile => errors = 0,
         errors' = 0 /\ FromFile /\ Placed(stack) =>
           /\ GoodAt(stack', k, clean') /\ GoodAt(stack', k + 1, clean')
           /\ Seen(stack', clean', token')
           /\ token'.kind = "eof" \/ Eaten' = Inside(stack')
  PROVE  FullInv'
<1>1. Framed(stack) /\ InPlace
  BY DEF FullInv, PInv
<1>2. Framed(stack') /\ stack' # <<>> /\ stack'[1].fn = stack[1].fn
  BY <1>1, GrownFramed
<1>3. stack # <<>>
  <2> SUFFICES ASSUME stack = <<>> PROVE FALSE
    OBVIOUS
  <2> QED
    BY EmptySeq
<1>4. FromFile' => FromFile
  BY <1>2, <1>3 DEF FromFile
<1>5. ASSUME errors' = 0, FromFile'
      PROVE  Placed(stack)'
  <2>1. FromFile /\ errors = 0
    BY <1>4, <1>5
  <2>2. Placed(stack)
    BY <1>1, <2>1 DEF InPlace
  <2>3. Good(stack, clean)
    BY <2>2 DEF Placed
  <2>4. /\ GoodAt(stack', k, clean') /\ GoodAt(stack', k + 1, clean')
        /\ Seen(stack', clean', token')
        /\ token'.kind = "eof" \/ Eaten' = Inside(stack')
    BY <1>5, <2>1, <2>2
  <2>5. Good(stack', clean')
    BY <1>1, <2>3, <2>4, GrownGood
  <2> QED
    BY <2>4, <2>5 DEF Placed
<1>6. InPlace'
  BY <1>5 DEF InPlace
<1>7. Complete'
  BY <1>2 DEF Complete
<1>8. Numbered'
  <2>1. stack[1].fn # "stopped"
    BY <1>1, FirstIsCaller
  <2>2. FromFile => IndexHolds
    BY DEF FullInv, PInv, Numbered, FromFile
  <2> QED
    BY <2>1, <2>2, <1>2, <1>3 DEF Numbered, FromFile
<1> QED
  BY <1>2, <1>6, <1>7, <1>8 DEF FullInv, PInv

LEMMA TopFacts ==
  ASSUME FullInv, stack # <<>>
  PROVE  /\ Len(stack) \in Nat \ {0} /\ Len(stack) \in 1 .. Len(stack)
         /\ Top = stack[Len(stack)] /\ Top \in Frame /\ stack \in Seq(Frame)
         /\ Framed(stack) /\ Counts /\ LexInv /\ InPlace
<1>1. Framed(stack) /\ Counts /\ LexInv /\ InPlace
  BY DEF FullInv, PInv
<1>2. stack \in Seq(Frame)
  BY <1>1 DEF Framed
<1>3. Len(stack) \in Nat \ {0} /\ Top = stack[Len(stack)]
  BY <1>2, FrontFacts DEF Top
<1>4. \A n \in Nat \ {0} : n \in 1 .. n
  OBVIOUS
<1>5. Top \in Frame
  BY <1>1, <1>3, <1>4, Below
<1> QED
  BY <1>1, <1>2, <1>3, <1>4, <1>5

LEMMA OneTop ==
  ASSUME FullInv, In("one")
  PROVE  /\ stack # <<>> /\ Len(stack) > 1 /\ Top \in OneFrame /\ Top \in Frame /\ Top.fn = "one"
         /\ token # Lex!NoToken
         /\ stack[Len(stack) - 1] \in ListFrame /\ stack[Len(stack) - 1] \in Frame
         /\ stack[Len(stack) - 1].fn \in {"body", "repl"}
<1>1. stack # <<>> /\ token # Lex!NoToken /\ Top.fn = "one"
  BY DEF In
<1>2. Framed(stack) /\ Len(stack) \in 1 .. Len(stack) /\ Top = stack[Len(stack)] /\ Top \in Frame
  BY <1>1, TopFacts
<1>3. Len(stack) > 1 /\ Top \in OneFrame /\ stack[Len(stack) - 1] \in ListFrame
  BY <1>1, <1>2, Below
<1> QED
  BY <1>1, <1>2, <1>3, FrameKinds DEF ListFrame

LEMMA StmtTop ==
  ASSUME FullInv, In("stmt")
  PROVE  /\ stack # <<>> /\ Len(stack) > 2 /\ Top \in StmtFrame /\ Top \in Frame /\ Top.fn = "stmt"
         /\ token # Lex!NoToken
         /\ stack[Len(stack) - 1] \in OneFrame /\ stack[Len(stack) - 1] \in Frame
         /\ stack[Len(stack) - 1].fn = "one"
         /\ stack[Len(stack) - 2] \in ListFrame
<1>1. stack # <<>> /\ token # Lex!NoToken /\ Top.fn = "stmt"
  BY DEF In
<1>2. Framed(stack) /\ Len(stack) \in 1 .. Len(stack) /\ Top = stack[Len(stack)] /\ Top \in Frame
  BY <1>1, TopFacts
<1>3. /\ Len(stack) > 2 /\ Top \in StmtFrame /\ stack[Len(stack) - 1] \in OneFrame
      /\ stack[Len(stack) - 1].fn = "one" /\ stack[Len(stack) - 2] \in ListFrame
  BY <1>1, <1>2, Below
<1> QED
  BY <1>1, <1>2, <1>3, FrameKinds

LEMMA NoErrorCounts ==
  ASSUME Counts, NoError, pending' \in Nat, is_empty_line' \in BOOLEAN
  PROVE  Counts' /\ errors' = errors /\ (IndexHolds => IndexHolds')
BY DEF Counts, NoError, IndexHolds

\* What a step does with the token.
LEMMA MoveFacts ==
  ASSUME FullInv, token # Lex!NoToken, Eat \/ Stay
  PROVE  /\ LexInv' /\ is_empty_line' \in BOOLEAN
         /\ (clean' => clean) /\ clean \in BOOLEAN /\ clean' \in BOOLEAN
         /\ token.kind = "eof" => token'.kind = "eof"
         /\ Stay \/ token.kind \notin Layouts => Eaten' = Eaten
<1>1. LexInv
  BY DEF FullInv
<1> QED
  BY <1>1, EatFacts, StayFacts

\* parse_one goes on, or waits for the statement it has called.
LEMMA OneStays ==
  ASSUME FullInv, In("one"), NEW f \in OneFrame,
         stack' = Become(f) \/ (f = Top /\ UNCHANGED stack),
         pending' \in Nat, NoError, Eat \/ Stay,
         errors = 0 /\ FromFile /\ Placed(stack) =>
           /\ Stay \/ token.kind \notin Layouts
           /\ f.stage # "recover"
           /\ clean' /\ f.stage \in {"decorator", "decorated", "commented", "after", "inline"}
                => f.level = stack[Len(stack) - 1].indent
           /\ clean' /\ f.stage \in {"decorators", "primary"}
                => f.level = stack[Len(stack) - 1].indent \/ token'.kind = "indent"
  PROVE  FullInv'
<1> DEFINE n == Len(stack)
<1>1. /\ stack # <<>> /\ n > 1 /\ Top.fn = "one" /\ token # Lex!NoToken
      /\ stack[n - 1] \in ListFrame
  BY OneTop
<1>2. /\ n \in Nat \ {0} /\ n \in 1 .. n /\ Top = stack[n] /\ stack \in Seq(Frame)
      /\ Counts /\ InPlace
  BY <1>1, TopFacts
<1>3. f \in Frame /\ f.fn = "one"
  BY DEF Frame, OneFrame
<1>4. Cut(stack, stack', n, f)
  <2>1. CASE stack' = Become(f)
    BY <2>1, <1>1, <1>2, <1>3, BecomeIs DEF Become
  <2>2. CASE f = Top /\ UNCHANGED stack
    BY <2>2, <1>1, <1>2, SameIs
  <2> QED
    BY <2>1, <2>2
<1>5. /\ LexInv' /\ is_empty_line' \in BOOLEAN
      /\ (clean' => clean) /\ clean \in BOOLEAN /\ clean' \in BOOLEAN
      /\ token.kind = "eof" => token'.kind = "eof"
      /\ Stay \/ token.kind \notin Layouts => Eaten' = Eaten
  BY <1>1, MoveFacts
<1>6. Counts' /\ errors' = errors /\ (IndexHolds => IndexHolds')
  BY <1>2, <1>5, NoErrorCounts
<1>7. f.fn = stack[n].fn
  BY <1>1, <1>2, <1>3
<1>8. stack' \in Seq(Frame) /\ Len(stack') = n /\ stack'[n] = f /\ stack'[n - 1] = stack[n - 1]
  <2>1. n - 1 \in 1 .. n - 1
    BY <1>1, <1>2
  <2> QED
    BY <1>4, <2>1 DEF Cut
<1>9. ASSUME errors' = 0, FromFile, Placed(stack)
      PROVE  /\ GoodAt(stack', n, clean')
             /\ Seen(stack', clean', token')
             /\ token'.kind = "eof" \/ Eaten' = Inside(stack')
  <2>1. /\ Stay \/ token.kind \notin Layouts
        /\ f.stage # "recover"
        /\ clean' /\ f.stage \in {"decorator", "decorated", "commented", "after", "inline"}
             => f.level = stack[n - 1].indent
        /\ clean' /\ f.stage \in {"decorators", "primary"}
             => f.level = stack[n - 1].indent \/ token'.kind = "indent"
    BY <1>6, <1>9
  <2>2. GoodAt(stack', n, clean')
    BY <2>1, <1>3, <1>8 DEF GoodAt
  <2>3. Last(stack') = f
    BY <1>8 DEF Last
  <2>4. Seen(stack', clean', token')
    BY <2>1, <2>3, <1>3, <1>8 DEF Seen
  <2>5. Inside(stack) = stack[n - 1].indent /\ Inside(stack') = stack[n - 1].indent
    BY <2>3, <1>1, <1>3, <1>8 DEF Inside, Top
  <2>6. token.kind = "eof" \/ Eaten = Inside(stack)
    BY <1>9 DEF Placed
  <2> QED
    BY <2>1, <2>2, <2>4, <2>5, <2>6, <1>5
<1>10. errors' = 0 /\ FromFile => errors = 0
  BY <1>6
<1> QED
  BY <1>2, <1>3, <1>4, <1>5, <1>6, <1>7, <1>9, <1>10, CutStep

LEMMA FilledIs ==
  ASSUME NEW s \in Seq(Frame), Len(s) > 1, NEW bare \in BOOLEAN, s[Len(s) - 1] \in ListFrame
  PROVE  \E f \in ListFrame :
           /\ Cut(s, Filled(Front(s), bare), Len(s) - 1, f)
           /\ f.fn = s[Len(s) - 1].fn /\ f.indent = s[Len(s) - 1].indent
<1> DEFINE n == Len(s)
           e == s[n - 1]
           f == [e EXCEPT !.filled = TRUE, !.bare = @ \/ bare]
<1>1. f \in ListFrame /\ f.fn = e.fn /\ f.indent = e.indent
  BY DEF ListFrame
<1>2. Len(Front(s)) = n - 1 /\ n - 1 \in 1 .. n - 1 /\ Front(s) \in Seq(Frame)
  BY FrontFacts, EmptySeq
<1>3. f \in Frame
  BY <1>1 DEF Frame
<1>4. Cut(s, [Front(s) EXCEPT ![n - 1] = f], n - 1, f) /\ Front(s)[n - 1] = e
  BY <1>3, ReturnIs
<1>5. DOMAIN Front(s) = 1 .. n - 1
  BY <1>2, LenProperties
<1>6. Filled(Front(s), bare) = [Front(s) EXCEPT ![n - 1] = f]
  BY <1>1, <1>2, <1>4, <1>5 DEF Filled
<1> QED
  BY <1>1, <1>4, <1>6

\* parse_one returns to the list it was called for.
LEMMA OneReturns ==
  ASSUME FullInv, In("one"),
         stack' = Front(stack) \/ \E bare \in BOOLEAN : stack' = Filled(Front(stack), bare),
         pending' \in Nat, NoError, Eat \/ Stay,
         errors = 0 /\ FromFile /\ Placed(stack) => Stay \/ token.kind \notin Layouts
  PROVE  FullInv'
<1> DEFINE n == Len(stack)
<1>1. /\ stack # <<>> /\ n > 1 /\ Top.fn = "one" /\ token # Lex!NoToken
      /\ stack[n - 1] \in ListFrame /\ stack[n - 1] \in Frame
      /\ stack[n - 1].fn \in {"body", "repl"}
  BY OneTop
<1>2. /\ n \in Nat \ {0} /\ Top = stack[n] /\ stack \in Seq(Frame) /\ Framed(stack)
      /\ Counts /\ InPlace
  BY <1>1, TopFacts
<1>3. PICK f \in ListFrame : /\ Cut(stack, stack', n - 1, f)
                             /\ f.fn = stack[n - 1].fn /\ f.indent = stack[n - 1].indent
  <2>1. CASE stack' = Front(stack)
    BY <2>1, <1>1, <1>2, ReturnIs
  <2>2. ASSUME NEW bare \in BOOLEAN, stack' = Filled(Front(stack), bare)
        PROVE \E f \in ListFrame : /\ Cut(stack, stack', n - 1, f)
                                   /\ f.fn = stack[n - 1].fn /\ f.indent = stack[n - 1].indent
    BY <2>2, <1>1, <1>2, FilledIs
  <2> QED
    BY <2>1, <2>2
<1>4. n - 1 \in 1 .. n /\ n - 1 \in Nat
  BY <1>1, <1>2
<1>5. /\ LexInv' /\ is_empty_line' \in BOOLEAN
      /\ (clean' => clean) /\ clean \in BOOLEAN /\ clean' \in BOOLEAN
      /\ token.kind = "eof" => token'.kind = "eof"
      /\ Stay \/ token.kind \notin Layouts => Eaten' = Eaten
  BY <1>1, MoveFacts
<1>6. Counts' /\ errors' = errors /\ (IndexHolds => IndexHolds')
  BY <1>2, <1>5, NoErrorCounts
<1>7. /\ Len(stack') = n - 1 /\ stack'[n - 1] = f
      /\ \A i \in 1 .. n - 2 : stack'[i] = stack[i]
  BY <1>2, <1>3 DEF Cut
<1>8. ASSUME errors' = 0, FromFile, Placed(stack)
      PROVE  /\ GoodAt(stack', n - 1, clean')
             /\ Seen(stack', clean', token')
             /\ token'.kind = "eof" \/ Eaten' = Inside(stack')
  <2>1. Stay \/ token.kind \notin Layouts
    BY <1>6, <1>8
  <2>2. GoodAt(stack, n - 1, clean)
    BY <1>4, <1>8 DEF Placed, Good
  <2>3. stack[n - 1].fn = "body" /\ n - 1 # 1
          => stack'[n - 2] = stack[n - 2] /\ stack'[n - 4] = stack[n - 4]
    <3>1. stack[n - 1].fn = "body" /\ n - 1 # 1 => n - 1 > 3
      BY <1>2, <1>4, Below
    <3> QED
      BY <3>1, <1>2, <1>7
  <2>4. GoodAt(stack', n - 1, clean')
    <3>1. (n - 1) - 1 = n - 2 /\ (n - 1) - 3 = n - 4
      BY <1>2
    <3> QED
      BY <3>1, <2>2, <2>3, <1>1, <1>3, <1>7 DEF GoodAt
  <2>5. Last(stack') = f
    BY <1>7 DEF Last
  <2>6. Seen(stack', clean', token')
    BY <2>5, <1>1, <1>3 DEF Seen
  <2>7. Inside(stack) = stack[n - 1].indent /\ Inside(stack') = stack[n - 1].indent
    BY <2>5, <1>1, <1>3 DEF Inside, Top
  <2>8. token.kind = "eof" \/ Eaten = Inside(stack)
    BY <1>8 DEF Placed
  <2> QED
    BY <2>1, <2>4, <2>6, <2>7, <2>8, <1>5
<1>9. errors' = 0 /\ FromFile => errors = 0
  BY <1>6
<1> QED
  BY <1>1, <1>3, <1>4, <1>5, <1>6, <1>8, <1>9, CutStep

\* An error: the innermost parse_one recovers, or nothing is left, or the
\* session ends at the assertion.
LEMMA ThrowKeeps ==
  ASSUME FullInv, Throw, In("one") \/ In("stmt") \/ In("body")
  PROVE  FullInv'
<1> DEFINE ones == {i \in DOMAIN stack : stack[i].fn = "one"}
           k == InnerOne(ones)
           f == [stack[k] EXCEPT !.stage = "recover"]
<1>1. Framed(stack) /\ Counts /\ InPlace /\ Numbered /\ stack \in Seq(Frame)
  BY DEF FullInv, PInv, Framed
<1>2. /\ LexInv' /\ is_empty_line' \in BOOLEAN
      /\ clean' = clean /\ clean \in BOOLEAN /\ clean' \in BOOLEAN
  BY StayFacts DEF Throw
<1>3. Counts'
  BY <1>1, <1>2 DEF Throw, Counts
<1>4. Len(stack) \in Nat /\ DOMAIN stack = 1 .. Len(stack)
  BY <1>1, LenProperties
<1>7. stack # <<>> /\ stack[1].fn \in {"body", "repl"}
  <2>1. stack # <<>> /\ Top.fn # "stopped"
    BY DEF In
  <2>2. Top = stack[Len(stack)] /\ Len(stack) \in 1 .. Len(stack)
    BY <2>1, TopFacts
  <2> QED
    BY <2>1, <2>2, <1>1, FirstIsCaller
<1>8. CASE ~IndexHolds
  <2>1. stack' = <<Stop>> /\ Stop.fn = "stopped" /\ Stop.caller = stack[1].fn
    BY <1>8 DEF Throw, Stop
  <2>2. Stop \in Frame
    BY <1>7 DEF Stop, StopFrame, Frame
  <2> HIDE DEF Stop
  <2>3. /\ stack' \in Seq(Frame) /\ Len(stack') = 1 /\ stack'[1] = Stop /\ stack' # <<>>
    BY <2>1, <2>2
  <2>4. \A i \in 1 .. 1 : i = 1
    OBVIOUS
  <2>5. Framed(stack')
    BY <2>1, <2>3, <2>4 DEF Framed, Under
  <2>6. Numbered'
    <3>1. stack[1].fn = "repl"
      BY <1>1, <1>7, <1>8 DEF Numbered
    <3> QED
      BY <3>1, <2>1, <2>3 DEF Numbered
  <2>7. InPlace' /\ Complete'
    BY <2>1, <2>3 DEF InPlace, FromFile, Complete
  <2> QED
    BY <1>2, <1>3, <2>5, <2>6, <2>7 DEF FullInv, PInv
<1>9. IndexHolds => errors' # 0 /\ IndexHolds'
  <2>1. errors \in Nat /\ current_error \in Int
    BY <1>1 DEF Counts
  <2>2. IndexHolds => errors' = errors + 1 /\ current_error' = current_error + 1
    BY DEF Throw
  <2> QED
    BY <2>1, <2>2 DEF IndexHolds
<1>5. CASE IndexHolds /\ ones = {}
  <2>1. stack' = <<>>
    BY <1>5 DEF Throw
  <2>2. <<>> \in Seq(Frame) /\ Len(<<>>) = 0
    BY EmptySeq
  <2>3. \A i \in 1 .. 0 : Under(<<>>, i)
    OBVIOUS
  <2>4. Framed(stack')
    BY <2>1, <2>2, <2>3 DEF Framed
  <2> QED
    BY <1>2, <1>3, <1>5, <1>9, <2>1, <2>4 DEF FullInv, PInv, InPlace, Complete, Numbered
<1>6. CASE IndexHolds /\ ones # {}
  <2>1. k \in ones
    <3>1. \E i \in ones : \A j \in ones : i >= j
      <4> DEFINE S == {Len(stack) - j : j \in ones}
      <4>1. ones \subseteq 1 .. Len(stack)
        BY <1>4
      <4>2. S \in SUBSET Nat /\ S # {}
        BY <4>1, <1>4, <1>6
      <4> HIDE DEF S
      <4>3. PICK m \in S : \A p \in S : m <= p
        BY <4>2, LexerAssumed, LP!Least
      <4> USE DEF S
      <4>4. PICK i \in ones : m = Len(stack) - i
        BY <4>3
      <4>5. ASSUME NEW j \in ones PROVE i >= j
        <5>1. Len(stack) - i <= Len(stack) - j
          BY <4>3, <4>4
        <5> QED
          BY <5>1, <4>1, <1>4
      <4> QED
        BY <4>5
    <3> QED
      BY <3>1 DEF InnerOne
  <2>2. k \in 1 .. Len(stack) /\ stack[k].fn = "one"
    BY <2>1, <1>4
  <2> HIDE DEF k
  <2>3. stack[k] \in OneFrame
    BY <1>1, <2>2, Below
  <2>4. f \in OneFrame /\ f \in Frame /\ f.fn = stack[k].fn
    BY <2>3 DEF OneFrame, Frame
  <2>5. /\ SubSeq(stack, 1, k) \in Seq(Frame) /\ Len(SubSeq(stack, 1, k)) = k
        /\ \A i \in 1 .. k : SubSeq(stack, 1, k)[i] = stack[i]
    <3>1. \A i \in 1 .. k : stack[i] \in Frame
      BY <1>1, <1>4, <2>2, ElementOfSeq
    <3>2. \A n \in Nat \ {0} : /\ n \in Int /\ (IF 1 <= n THEN n - 1 + 1 ELSE 0) = n
                               /\ \A i \in 1 .. n : i \in 1 .. n - 1 + 1 /\ 1 + i - 1 = i
      OBVIOUS
    <3>3. k \in Nat \ {0}
      BY <2>2, <1>4
    <3> QED
      BY <3>1, <3>2, <3>3, SubSeqProperties
  <2>6. stack' = [SubSeq(stack, 1, k) EXCEPT ![k].stage = "recover"]
    BY <1>6 DEF Throw, k
  <2>7. k \in 1 .. Len(SubSeq(stack, 1, k)) /\ SubSeq(stack, 1, k)[k] = stack[k]
    BY <2>2, <2>5, <1>4
  <2>8. DOMAIN SubSeq(stack, 1, k) = 1 .. k
    BY <2>5, LenProperties
  <2>9. stack' = [SubSeq(stack, 1, k) EXCEPT ![k] = f]
    BY <2>6, <2>7, <2>8
  <2> DEFINE u == SubSeq(stack, 1, k)
  <2> HIDE DEF f, u
  <2>10. /\ stack' \in Seq(Frame) /\ Len(stack') = Len(u)
         /\ \A j \in 1 .. Len(u) : stack'[j] = IF j = k THEN f ELSE u[j]
    <3>1. stack' = [u EXCEPT ![k] = f]
      BY <2>9 DEF u
    <3>2. k \in 1 .. Len(u) /\ u \in Seq(Frame)
      BY <2>5, <2>7 DEF u
    <3> QED
      BY <3>1, <3>2, <2>4, ExceptSeq
  <2>11. /\ stack' \in Seq(Frame) /\ Len(stack') = k
         /\ \A j \in 1 .. k : stack'[j] = IF j = k THEN f ELSE stack[j]
    BY <2>10, <2>5 DEF u
  <2>12. Cut(stack, stack', k, f)
    BY <2>11, <2>2, <1>4 DEF Cut
  <2> QED
    BY <1>2, <1>3, <1>6, <1>9, <2>2, <2>4, <2>12, CutStep
<1> QED
  BY <1>5, <1>6, <1>8

-----------------------------------------------------------------------------
(* parse_one                                                               *)

\* The facts an action of parse_one starts from.
LEMMA OneFacts ==
  ASSUME FullInv, In("one")
  PROVE  /\ Top \in OneFrame /\ Top.fn = "one" /\ token # Lex!NoToken
         /\ pending \in Nat /\ is_empty_line \in BOOLEAN /\ LexInv
         /\ token.row \in 1 .. MaxLines /\ token.level \in Nat
         /\ errors = 0 /\ FromFile /\ Placed(stack) =>
              /\ Top.stage # "recover"
              /\ clean /\ Top.stage \in {"decorator", "decorated", "commented", "after", "inline"}
                   => Top.level = stack[Len(stack) - 1].indent
              /\ clean /\ Top.stage \in {"decorators", "primary"}
                   => Top.level = stack[Len(stack) - 1].indent \/ token.kind = "indent"
              /\ token.kind = "eof" \/ Eaten = stack[Len(stack) - 1].indent
         /\ Stay => clean' = clean /\ token' = token
         /\ Eat \/ Stay => (clean' => clean) /\ clean \in BOOLEAN
<1>1. Top \in OneFrame /\ Top.fn = "one" /\ token # Lex!NoToken /\ stack # <<>>
  BY OneTop
<1>2. Counts /\ LexInv /\ Top = stack[Len(stack)] /\ Len(stack) \in 1 .. Len(stack)
  BY <1>1, TopFacts
<1>3. pending \in Nat /\ is_empty_line \in BOOLEAN
  BY <1>2 DEF Counts
<1>4. token.row \in 1 .. MaxLines /\ token.level \in Nat
  BY <1>1, <1>2, LexFacts
<1>5. ASSUME Placed(stack)
      PROVE  /\ Top.stage # "recover"
             /\ clean /\ Top.stage \in {"decorator", "decorated", "commented", "after", "inline"}
                  => Top.level = stack[Len(stack) - 1].indent
             /\ clean /\ Top.stage \in {"decorators", "primary"}
                  => Top.level = stack[Len(stack) - 1].indent \/ token.kind = "indent"
             /\ token.kind = "eof" \/ Eaten = stack[Len(stack) - 1].indent
  <2>1. GoodAt(stack, Len(stack), clean)
    BY <1>2, <1>5 DEF Placed, Good
  <2>2. Seen(stack, clean, token) /\ (token.kind = "eof" \/ Eaten = Inside(stack))
    BY <1>5 DEF Placed
  <2>3. Inside(stack) = stack[Len(stack) - 1].indent
    BY <1>1 DEF Inside, Top
  <2> QED
    BY <1>1, <1>2, <2>1, <2>2, <2>3 DEF GoodAt, Seen, Top
<1>6. Stay => clean' = clean /\ token' = token
  BY DEF Stay, lexerVars
<1>7. Eat \/ Stay => (clean' => clean) /\ clean \in BOOLEAN
  BY <1>1, MoveFacts
<1> QED
  BY <1>1, <1>2, <1>3, <1>4, <1>5, <1>6, <1>7

LEMMA SkipNewlineKeeps ==
  ASSUME FullInv, SkipNewline
  PROVE  FullInv'
<1>1. In("one") /\ Top.stage = "start" /\ token.kind = "newline" /\ Eat /\ NoError
      /\ UNCHANGED <<pending, stack>>
  BY DEF SkipNewline, At, Skipped, Calm
<1>2. Top \in OneFrame /\ pending' \in Nat
  BY <1>1, OneFacts
<1>3. token.kind \notin Layouts
  BY <1>1 DEF Layouts
<1> QED
  BY <1>1, <1>2, <1>3, OneStays

LEMMA NoStatementKeeps ==
  ASSUME FullInv, NoStatement
  PROVE  FullInv'
<1>1. In("one") /\ stack' = Front(stack) /\ Stay /\ NoError /\ UNCHANGED pending
  BY DEF NoStatement, At, Calm
<1>2. pending' \in Nat
  BY <1>1, OneFacts
<1> QED
  BY <1>1, <1>2, OneReturns

LEMMA ReadCommentKeeps ==
  ASSUME FullInv, ReadComment
  PROVE  FullInv'
<1>1. In("one") /\ Eat /\ NoError
  BY DEF ReadComment, At, Calm
<1>2. Top \in OneFrame /\ pending \in Nat
  BY <1>1, OneFacts
<1>3. CASE /\ token.kind = "comment" /\ stack' = ToStage("comment") /\ UNCHANGED pending
  <2> DEFINE f == [Top EXCEPT !.stage = "comment"]
  <2>1. f \in OneFrame /\ f.stage = "comment"
    BY <1>2 DEF OneFrame
  <2>2. stack' = Become(f) /\ pending' \in Nat /\ token.kind \notin Layouts
    BY <1>2, <1>3 DEF ToStage, Layouts
  <2> QED
    BY <1>1, <2>1, <2>2, OneStays
<1>4. CASE /\ token.kind \in {"newline", "eof"} /\ pending' = pending + 1
           /\ stack' = Become([Top EXCEPT !.stage = "start", !.interactive = FALSE])
  <2> DEFINE f == [Top EXCEPT !.stage = "start", !.interactive = FALSE]
  <2>1. f \in OneFrame /\ f.stage = "start"
    BY <1>2 DEF OneFrame
  <2>2. stack' = Become(f) /\ pending' \in Nat /\ token.kind \notin Layouts
    BY <1>2, <1>4 DEF Layouts
  <2> QED
    BY <1>1, <2>1, <2>2, OneStays
<1> QED
  BY <1>3, <1>4 DEF ReadComment, Calm

LEMMA EmitPendingKeeps ==
  ASSUME FullInv, EmitPending
  PROVE  FullInv'
<1>1. In("one") /\ stack' = Filled(Front(stack), Top.bare /\ ~Top.joined) /\ Stay /\ NoError
      /\ pending > 0 /\ pending' = pending - 1
  BY DEF EmitPending, At, Accepted, HasPending
<1>2. Top \in OneFrame /\ pending \in Nat
  BY <1>1, OneFacts
<1>3. pending' \in Nat /\ (Top.bare /\ ~Top.joined) \in BOOLEAN
  BY <1>1, <1>2
<1> QED
  BY <1>1, <1>3, OneReturns

LEMMA BeginStatementKeeps ==
  ASSUME FullInv, BeginStatement
  PROVE  FullInv'
<1> DEFINE f == [Top EXCEPT !.stage = "decorators", !.level = token.level, !.row = token.row]
<1>1. In("one") /\ IsOther(token.kind) /\ stack' = Become(f) /\ Stay /\ NoError
      /\ UNCHANGED pending
  BY DEF BeginStatement, At, Calm
<1>2. /\ Top \in OneFrame /\ pending \in Nat /\ token # Lex!NoToken /\ LexInv
      /\ token.row \in 1 .. MaxLines /\ token.level \in Nat
      /\ clean' = clean /\ token' = token
  BY <1>1, OneFacts
<1>3. MaxLines \in Nat
  BY LexerAssumed DEF LP!MaxLinesAssumption
<1>4. token.row \in 0 .. MaxLines
  BY <1>2, <1>3
<1>5. f \in OneFrame /\ f.stage = "decorators" /\ f.level = token.level
  BY <1>2, <1>4 DEF OneFrame
<1>6. ASSUME errors = 0, FromFile, Placed(stack), clean
      PROVE  token.level = stack[Len(stack) - 1].indent \/ token.kind = "indent"
  <2>1. Eaten = stack[Len(stack) - 1].indent
    BY <1>1, <1>6, OneFacts DEF IsOther
  <2>2. token.kind \notin {"newline", "eof", "comment", "desindent"}
    BY <1>1 DEF IsOther
  <2>3. token.kind # "indent" => token.level = Eaten
    BY <1>2, <1>6, <2>2, LexFacts
  <2> QED
    BY <2>1, <2>3
<1> QED
  BY <1>1, <1>2, <1>5, <1>6, OneStays

-----------------------------------------------------------------------------
(* What a clause expects                                                   *)

LEMMA PlanFacts ==
  /\ Plan \in Seq(Expected) /\ Len(Plan) = 7
  /\ DocPlan \in Seq(Expected) /\ Len(DocPlan) = 3
BY DEF Plan, DocPlan, Expected

LEMMA RestFacts ==
  ASSUME NEW j \in 1 .. 8
  PROVE  /\ Rest(j) \in Seq(Expected) /\ Len(Rest(j)) = 8 - j
         /\ \A i \in 1 .. 8 - j : Rest(j)[i] = Plan[j + i - 1]
<1>1. \A i \in j .. 7 : Plan[i] \in Expected
  <2>1. \A i \in 1 .. Len(Plan) : Plan[i] \in Expected
    BY PlanFacts, ElementOfSeq
  <2> QED
    BY <2>1, PlanFacts
<1>2. j \in Int /\ 7 \in Int /\ (IF j <= 7 THEN 7 - j + 1 ELSE 0) = 8 - j /\ 7 - j + 1 = 8 - j
  OBVIOUS
<1> QED
  BY <1>1, <1>2, SubSeqProperties DEF Rest

LEMMA DocRestFacts ==
  ASSUME NEW j \in 1 .. 4
  PROVE  /\ DocRest(j) \in Seq(Expected) /\ Len(DocRest(j)) = 4 - j
         /\ \A i \in 1 .. 4 - j : DocRest(j)[i] = DocPlan[j + i - 1]
<1>1. \A i \in j .. 3 : DocPlan[i] \in Expected
  <2>1. \A i \in 1 .. Len(DocPlan) : DocPlan[i] \in Expected
    BY PlanFacts, ElementOfSeq
  <2> QED
    BY <2>1, PlanFacts
<1>2. j \in Int /\ 3 \in Int /\ (IF j <= 3 THEN 3 - j + 1 ELSE 0) = 4 - j /\ 3 - j + 1 = 4 - j
  OBVIOUS
<1> QED
  BY <1>1, <1>2, SubSeqProperties DEF DocRest

\* Dropping what was found leaves the end of the plan.
LEMMA RestDrop ==
  ASSUME NEW j \in 1 .. 7, NEW n \in 1 .. 2, j + n <= 8
  PROVE  /\ SubSeq(Rest(j), n + 1, Len(Rest(j))) = Rest(j + n)
         /\ Rest(j) # <<>> /\ Head(Rest(j)) = Plan[j] /\ Last(Rest(j)) = "body"
<1> DEFINE u == Rest(j)
           v == Rest(j + n)
           w == SubSeq(u, n + 1, Len(u))
<1>1. j \in 1 .. 8 /\ j + n \in 1 .. 8
  OBVIOUS
<1>2. /\ u \in Seq(Expected) /\ Len(u) = 8 - j
      /\ \A i \in 1 .. 8 - j : u[i] = Plan[j + i - 1]
  BY <1>1, RestFacts
<1>3. /\ v \in Seq(Expected) /\ Len(v) = 8 - (j + n)
      /\ \A i \in 1 .. 8 - (j + n) : v[i] = Plan[(j + n) + i - 1]
  BY <1>1, RestFacts
<1> HIDE DEF u, v
<1>4. \A i \in n + 1 .. Len(u) : u[i] \in Expected
  BY <1>2, ElementOfSeq
<1>5. /\ n + 1 \in Int /\ Len(u) \in Int
      /\ (IF n + 1 <= Len(u) THEN Len(u) - (n + 1) + 1 ELSE 0) = 8 - (j + n)
      /\ Len(u) - (n + 1) + 1 = 8 - (j + n)
  BY <1>2
<1>6. /\ w \in Seq(Expected) /\ Len(w) = 8 - (j + n)
      /\ \A i \in 1 .. 8 - (j + n) : w[i] = u[(n + 1) + i - 1]
  BY <1>4, <1>5, SubSeqProperties
<1> HIDE DEF w
<1>7. \A i \in 1 .. Len(w) : w[i] = v[i]
  BY <1>2, <1>3, <1>6
<1>8. w = v
  BY <1>3, <1>6, <1>7, SeqEqual
<1>9. u # <<>> /\ u[1] = Plan[j] /\ u[Len(u)] = Plan[7]
  BY <1>2, EmptySeq
<1> QED
  BY <1>2, <1>8, <1>9 DEF u, v, w, Last, Plan

LEMMA DocRestDrop ==
  ASSUME NEW j \in 1 .. 3
  PROVE  /\ SubSeq(DocRest(j), 1 + 1, Len(DocRest(j))) = DocRest(j + 1)
         /\ DocRest(j) # <<>> /\ Head(DocRest(j)) = DocPlan[j] /\ Last(DocRest(j)) = "documented"
<1> DEFINE u == DocRest(j)
           v == DocRest(j + 1)
           w == SubSeq(u, 1 + 1, Len(u))
<1>1. j \in 1 .. 4 /\ j + 1 \in 1 .. 4
  OBVIOUS
<1>2. /\ u \in Seq(Expected) /\ Len(u) = 4 - j
      /\ \A i \in 1 .. 4 - j : u[i] = DocPlan[j + i - 1]
  BY <1>1, DocRestFacts
<1>3. /\ v \in Seq(Expected) /\ Len(v) = 4 - (j + 1)
      /\ \A i \in 1 .. 4 - (j + 1) : v[i] = DocPlan[(j + 1) + i - 1]
  BY <1>1, DocRestFacts
<1> HIDE DEF u, v
<1>4. \A i \in 1 + 1 .. Len(u) : u[i] \in Expected
  BY <1>2, ElementOfSeq
<1>5. /\ 1 + 1 \in Int /\ Len(u) \in Int
      /\ (IF 1 + 1 <= Len(u) THEN Len(u) - (1 + 1) + 1 ELSE 0) = 4 - (j + 1)
      /\ Len(u) - (1 + 1) + 1 = 4 - (j + 1)
  BY <1>2
<1>6. /\ w \in Seq(Expected) /\ Len(w) = 4 - (j + 1)
      /\ \A i \in 1 .. 4 - (j + 1) : w[i] = u[(1 + 1) + i - 1]
  BY <1>4, <1>5, SubSeqProperties
<1> HIDE DEF w
<1>7. \A i \in 1 .. Len(w) : w[i] = v[i]
  BY <1>2, <1>3, <1>6
<1>8. w = v
  BY <1>3, <1>6, <1>7, SeqEqual
<1>9. u # <<>> /\ u[1] = DocPlan[j] /\ u[Len(u)] = DocPlan[3]
  BY <1>2, EmptySeq
<1> QED
  BY <1>2, <1>8, <1>9 DEF u, v, w, Last, DocPlan

LEMMA Ends ==
  /\ Rest(8) = <<>> /\ DocRest(4) = <<>>
  /\ \A i \in 1 .. 8 : \A j \in 1 .. 8 : Rest(i) = Rest(j) => i = j
  /\ \A i \in 1 .. 7 : Rest(i) # <<>> /\ Last(Rest(i)) = "body"
  /\ \A i \in 1 .. 3 : \A j \in 1 .. 8 : DocRest(i) # Rest(j)
  /\ \A i \in 1 .. 3 : DocRest(i) # <<>> /\ Last(DocRest(i)) = "documented"
<1>1. Rest(8) = <<>>
  BY SubSeqEmpty DEF Rest
<1>2. DocRest(4) = <<>>
  BY SubSeqEmpty DEF DocRest
<1>3. \A i \in 1 .. 8 : Len(Rest(i)) = 8 - i
  BY RestFacts
<1>4. \A i \in 1 .. 7 : Rest(i) # <<>> /\ Last(Rest(i)) = "body"
  <2>1. \A i \in 1 .. 7 : i + 1 <= 8 /\ 1 \in 1 .. 2
    OBVIOUS
  <2> QED
    BY <2>1, RestDrop
<1>5. \A i \in 1 .. 3 : DocRest(i) # <<>> /\ Last(DocRest(i)) = "documented"
  BY DocRestDrop
<1>6. \A j \in 1 .. 8 : j = 8 \/ j \in 1 .. 7
  OBVIOUS
<1>7. \A i \in 1 .. 3 : \A j \in 1 .. 8 : DocRest(i) # Rest(j)
  BY <1>1, <1>4, <1>5, <1>6
<1> QED
  BY <1>1, <1>2, <1>3, <1>4, <1>5, <1>7

LEMMA Headers ==
  /\ Block = Rest(3)
  /\ \A keyword : keyword \in {"try", "else", "finally"} => Header(keyword) = Rest(3)
  /\ Header("async") = Rest(1)
  /\ \A keyword : keyword \notin {"try", "else", "finally", "async"} => Header(keyword) = Rest(2)
<1>0. /\ Rest(1) \in Seq(Expected) /\ Len(Rest(1)) = 7 /\ \A i \in 1 .. 7 : Rest(1)[i] = Plan[i]
      /\ Rest(2) \in Seq(Expected) /\ Len(Rest(2)) = 6 /\ \A i \in 1 .. 6 : Rest(2)[i] = Plan[i + 1]
      /\ Rest(3) \in Seq(Expected) /\ Len(Rest(3)) = 5 /\ \A i \in 1 .. 5 : Rest(3)[i] = Plan[i + 2]
  <2>1. \A j \in 1 .. 8 : /\ Rest(j) \in Seq(Expected) /\ Len(Rest(j)) = 8 - j
                          /\ \A i \in 1 .. 8 - j : Rest(j)[i] = Plan[j + i - 1]
    BY RestFacts
  <2>2. 1 \in 1 .. 8 /\ 8 - 1 = 7 /\ \A i \in 1 .. 7 : 1 + i - 1 = i
    OBVIOUS
  <2>3. 2 \in 1 .. 8 /\ 8 - 2 = 6 /\ \A i \in 1 .. 6 : 2 + i - 1 = i + 1
    OBVIOUS
  <2>4. 3 \in 1 .. 8 /\ 8 - 3 = 5 /\ \A i \in 1 .. 5 : 3 + i - 1 = i + 2
    OBVIOUS
  <2>5. Rest(1) \in Seq(Expected) /\ Len(Rest(1)) = 7 /\ \A i \in 1 .. 7 : Rest(1)[i] = Plan[i]
    <3>1. /\ Rest(1) \in Seq(Expected) /\ Len(Rest(1)) = 8 - 1
          /\ \A i \in 1 .. 8 - 1 : Rest(1)[i] = Plan[1 + i - 1]
      BY <2>1, <2>2
    <3>2. \A i \in 1 .. 7 : Rest(1)[i] = Plan[1 + i - 1]
      BY <3>1, <2>2
    <3> QED
      BY <3>1, <3>2, <2>2
  <2>6. Rest(2) \in Seq(Expected) /\ Len(Rest(2)) = 6 /\ \A i \in 1 .. 6 : Rest(2)[i] = Plan[i + 1]
    <3>1. /\ Rest(2) \in Seq(Expected) /\ Len(Rest(2)) = 8 - 2
          /\ \A i \in 1 .. 8 - 2 : Rest(2)[i] = Plan[2 + i - 1]
      BY <2>1, <2>3
    <3>2. \A i \in 1 .. 6 : Rest(2)[i] = Plan[2 + i - 1]
      BY <3>1, <2>3
    <3> QED
      BY <3>1, <3>2, <2>3
  <2>7. Rest(3) \in Seq(Expected) /\ Len(Rest(3)) = 5 /\ \A i \in 1 .. 5 : Rest(3)[i] = Plan[i + 2]
    <3>1. /\ Rest(3) \in Seq(Expected) /\ Len(Rest(3)) = 8 - 3
          /\ \A i \in 1 .. 8 - 3 : Rest(3)[i] = Plan[3 + i - 1]
      BY <2>1, <2>4
    <3>2. \A i \in 1 .. 5 : Rest(3)[i] = Plan[3 + i - 1]
      BY <3>1, <2>4
    <3> QED
      BY <3>1, <3>2, <2>4
  <2> QED
    BY <2>5, <2>6, <2>7
<1>1. Block \in Seq(Expected) /\ Len(Block) = 5
  BY DEF Block, Expected
<1>2. \A i \in 1 .. 5 : Block[i] = Plan[i + 2]
  BY DEF Block, Plan
<1> HIDE DEF Block
<1>3. Block = Rest(3)
  <2>1. Len(Block) = Len(Rest(3)) /\ \A i \in 1 .. Len(Block) : Block[i] = Rest(3)[i]
    BY <1>0, <1>1, <1>2
  <2> QED
    BY <1>0, <1>1, <2>1, SeqEqual
<1>4. <<"any", "name">> \o Block = Rest(1)
  <2> DEFINE a == <<"any", "name">>
             c == a \o Block
  <2>1. a \in Seq(Expected) /\ Len(a) = 2 /\ a[1] = Plan[1] /\ a[2] = Plan[2]
    BY DEF Expected, Plan
  <2> HIDE DEF a
  <2>2. /\ c \in Seq(Expected) /\ Len(c) = Len(a) + Len(Block)
        /\ \A i \in 1 .. Len(a) + Len(Block) :
             c[i] = IF i <= Len(a) THEN a[i] ELSE Block[i - Len(a)]
    BY <2>1, <1>1, ConcatProperties
  <2> HIDE DEF c
  <2>3. Len(c) = 7 /\ \A i \in 1 .. 7 : c[i] = IF i <= 2 THEN a[i] ELSE Block[i - 2]
    BY <2>1, <2>2, <1>1
  <2>4. ASSUME NEW i \in 1 .. 7 PROVE c[i] = Plan[i]
    <3>1. CASE i <= 2
      <4>1. i = 1 \/ i = 2
        BY <3>1
      <4> QED
        BY <3>1, <4>1, <2>1, <2>3
    <3>2. CASE i > 2
      <4>1. i - 2 \in 1 .. 5 /\ (i - 2) + 2 = i /\ ~(i <= 2)
        BY <3>2
      <4> QED
        BY <4>1, <2>3, <1>2
    <3> QED
      BY <3>1, <3>2
  <2>5. c = Rest(1)
    <3>1. Len(c) = Len(Rest(1)) /\ \A i \in 1 .. Len(c) : c[i] = Rest(1)[i]
      BY <2>3, <2>4, <1>0
    <3> QED
      BY <3>1, <2>2, <1>0, SeqEqual
  <2> QED
    BY <2>5 DEF a, c
<1>5. <<"name">> \o Block = Rest(2)
  <2> DEFINE a == <<"name">>
             c == a \o Block
  <2>1. a \in Seq(Expected) /\ Len(a) = 1 /\ a[1] = Plan[2]
    BY DEF Expected, Plan
  <2> HIDE DEF a
  <2>2. /\ c \in Seq(Expected) /\ Len(c) = Len(a) + Len(Block)
        /\ \A i \in 1 .. Len(a) + Len(Block) :
             c[i] = IF i <= Len(a) THEN a[i] ELSE Block[i - Len(a)]
    BY <2>1, <1>1, ConcatProperties
  <2> HIDE DEF c
  <2>3. Len(c) = 6 /\ \A i \in 1 .. 6 : c[i] = IF i <= 1 THEN a[i] ELSE Block[i - 1]
    BY <2>1, <2>2, <1>1
  <2>4. ASSUME NEW i \in 1 .. 6 PROVE c[i] = Plan[i + 1]
    <3>1. CASE i = 1
      BY <3>1, <2>1, <2>3
    <3>2. CASE i > 1
      <4>1. i - 1 \in 1 .. 5 /\ (i - 1) + 2 = i + 1 /\ ~(i <= 1)
        BY <3>2
      <4> QED
        BY <4>1, <2>3, <1>2
    <3> QED
      BY <3>1, <3>2
  <2>5. c = Rest(2)
    <3>1. Len(c) = Len(Rest(2)) /\ \A i \in 1 .. Len(c) : c[i] = Rest(2)[i]
      BY <2>3, <2>4, <1>0
    <3> QED
      BY <3>1, <2>2, <1>0, SeqEqual
  <2> QED
    BY <2>5 DEF a, c
<1> QED
  BY <1>3, <1>4, <1>5 DEF Header

-----------------------------------------------------------------------------
(* parse_statement                                                         *)

LEMMA DecoratorsKeeps ==
  ASSUME FullInv, Decorators
  PROVE  FullInv'
<1>1. In("one")
  BY DEF Decorators, At
<1>2. /\ Top \in OneFrame /\ pending \in Nat
      /\ errors = 0 /\ FromFile /\ Placed(stack) =>
           /\ clean /\ Top.stage \in {"decorator", "decorated", "commented", "after", "inline"}
                => Top.level = stack[Len(stack) - 1].indent
           /\ clean /\ Top.stage \in {"decorators", "primary"}
                => Top.level = stack[Len(stack) - 1].indent \/ token.kind = "indent"
      /\ Stay => clean' = clean /\ token' = token
      /\ Eat \/ Stay => (clean' => clean)
  BY <1>1, OneFacts
<1>3. \A stage \in {"decorator", "decorated", "decorators", "primary"} :
        LET f == [Top EXCEPT !.stage = stage]
        IN f \in OneFrame /\ f.stage = stage /\ f.level = Top.level
  BY <1>2 DEF OneFrame
<1>4. CASE At("decorators") /\ token.kind = "@" /\ Eat /\ stack' = ToStage("decorator") /\ Calm
  <2> DEFINE f == [Top EXCEPT !.stage = "decorator"]
  <2>1. f \in OneFrame /\ f.stage = "decorator" /\ f.level = Top.level
    BY <1>3
  <2>2. stack' = Become(f) /\ pending' \in Nat /\ NoError /\ token.kind \notin Layouts
        /\ Top.stage = "decorators"
    BY <1>2, <1>4 DEF ToStage, Calm, Layouts, At
  <2> HIDE DEF f
  <2> QED
    BY <1>1, <1>2, <1>4, <2>1, <2>2, OneStays
<1>5. CASE At("decorator") /\ token.kind = "name" /\ Eat /\ stack' = ToStage("decorated") /\ Calm
  <2> DEFINE f == [Top EXCEPT !.stage = "decorated"]
  <2>1. f \in OneFrame /\ f.stage = "decorated" /\ f.level = Top.level
    BY <1>3
  <2>2. stack' = Become(f) /\ pending' \in Nat /\ NoError /\ token.kind \notin Layouts
        /\ Top.stage = "decorator"
    BY <1>2, <1>5 DEF ToStage, Calm, Layouts, At
  <2> HIDE DEF f
  <2> QED
    BY <1>1, <1>2, <1>5, <2>1, <2>2, OneStays
<1>6. CASE Throw
  BY <1>1, <1>6, ThrowKeeps
<1>7. CASE At("decorated") /\ token.kind = "comment" /\ Eat /\ UNCHANGED stack /\ Calm
  <2>1. pending' \in Nat /\ NoError /\ token.kind \notin Layouts /\ Top.stage = "decorated"
    BY <1>2, <1>7 DEF Calm, Layouts, At
  <2> QED
    BY <1>1, <1>2, <1>7, <2>1, OneStays
<1>8. CASE /\ At("decorated") /\ token.kind # "comment"
           /\ IF token.kind = "newline" THEN Eat ELSE Stay
           /\ stack' = ToStage("decorators") /\ Calm
  <2> DEFINE f == [Top EXCEPT !.stage = "decorators"]
  <2>1. f \in OneFrame /\ f.stage = "decorators" /\ f.level = Top.level
    BY <1>3
  <2>2. /\ stack' = Become(f) /\ pending' \in Nat /\ NoError /\ Top.stage = "decorated"
        /\ (Eat \/ Stay) /\ (Stay \/ token.kind \notin Layouts)
    BY <1>2, <1>8 DEF ToStage, Calm, Layouts, At
  <2> HIDE DEF f
  <2> QED
    BY <1>1, <1>2, <1>8, <2>1, <2>2, OneStays
<1>9. CASE /\ At("decorators") /\ token.kind # "@"
           /\ stack' = ToStage("primary") /\ Stay /\ Calm
  <2> DEFINE f == [Top EXCEPT !.stage = "primary"]
  <2>1. f \in OneFrame /\ f.stage = "primary" /\ f.level = Top.level
    BY <1>3
  <2>2. stack' = Become(f) /\ pending' \in Nat /\ NoError /\ Top.stage = "decorators"
    BY <1>2, <1>9 DEF ToStage, Calm, At
  <2> HIDE DEF f
  <2> QED
    BY <1>1, <1>2, <1>9, <2>1, <2>2, OneStays
<1> QED
  BY <1>4, <1>5, <1>6, <1>7, <1>8, <1>9 DEF Decorators

\* A list of one part is something to expect.
LEMMA PartIsTodo == \A part \in Expected : <<part>> \in Seq(Expected)
OBVIOUS

\* parse_statement calls the function of a statement.
LEMMA OneCalls ==
  ASSUME FullInv, At("primary") \/ At("after"), NEW g \in StmtFrame,
         stack' = Append(AfterPrimary, g),
         Eat, Calm, token.kind \notin {"newline", "eof", "comment", "indent", "desindent"},
         g.level = token.level, TodoOK(g), CaseLevel(g) = 0, Entered(g) = 0
  PROVE  FullInv'
<1> DEFINE n == Len(stack)
           f == [Top EXCEPT !.stage = "after", !.bare = FALSE]
<1>1. In("one") /\ Top.stage \in {"primary", "after"}
  BY DEF At
<1>2. /\ stack # <<>> /\ n > 1 /\ Top \in OneFrame /\ Top.fn = "one" /\ token # Lex!NoToken
      /\ n \in Nat \ {0} /\ n \in 1 .. n /\ Top = stack[n] /\ stack \in Seq(Frame)
      /\ Counts /\ LexInv /\ pending \in Nat
  BY <1>1, OneTop, OneFacts, TopFacts
<1>3. f \in OneFrame /\ f \in Frame /\ f.fn = "one" /\ f.stage = "after" /\ f.level = Top.level
  BY <1>2 DEF OneFrame, Frame
<1>4. g \in Frame /\ g.fn = "stmt"
  BY DEF Frame, StmtFrame
<1> DEFINE u == Become(f)
<1>5. stack' = Append(u, g)
  BY DEF AfterPrimary
<1>6. Cut(stack, u, n, f)
  BY <1>2, <1>3, BecomeIs DEF Become
<1>7. u \in Seq(Frame)
  BY <1>6 DEF Cut
<1> HIDE DEF f, u
<1>8. Grown(stack, stack', n, f, g)
  BY <1>2, <1>3, <1>4, <1>5, <1>6, <1>7, CallIs
<1>9. /\ LexInv' /\ is_empty_line' \in BOOLEAN /\ token' # Lex!NoToken
      /\ (clean' => clean) /\ clean \in BOOLEAN /\ clean' \in BOOLEAN
      /\ token.kind \notin {"newline", "eof", "indent", "desindent"} => token'.kind \notin Layouts
      /\ token.kind \notin Layouts => Eaten' = Eaten
  BY <1>2, EatFacts
<1>10. Counts' /\ errors' = errors /\ (IndexHolds => IndexHolds')
  <2>1. NoError /\ pending' \in Nat
    BY <1>2 DEF Calm
  <2> QED
    BY <2>1, <1>2, <1>9, NoErrorCounts
<1>11. /\ Len(stack') = n + 1 /\ stack'[n] = f /\ stack'[n + 1] = g
       /\ stack'[n - 1] = stack[n - 1]
  <2>1. n - 1 \in 1 .. n - 1
    BY <1>2
  <2> QED
    BY <1>8, <2>1 DEF Grown
<1>12. (n + 1) - 1 = n /\ (n + 1) - 2 = n - 1 /\ n + 1 > 1
  BY <1>2
<1>13. Under(stack', n + 1)
  BY <1>3, <1>4, <1>11, <1>12 DEF Under
<1>14. f.fn = stack[n].fn
  BY <1>2, <1>3
<1>15. ASSUME errors' = 0, FromFile, Placed(stack)
       PROVE  /\ GoodAt(stack', n, clean') /\ GoodAt(stack', n + 1, clean')
              /\ Seen(stack', clean', token')
              /\ token'.kind = "eof" \/ Eaten' = Inside(stack')
  <2>1. /\ clean => Top.level = stack[n - 1].indent \/ token.kind = "indent"
        /\ token.kind = "eof" \/ Eaten = stack[n - 1].indent
    BY <1>1, <1>10, <1>15, OneFacts
  <2>2. Eaten = stack[n - 1].indent /\ Eaten' = Eaten /\ token'.kind \notin Layouts
    BY <2>1, <1>9 DEF Layouts
  <2>3. clean' => Top.level = stack[n - 1].indent
    BY <2>1, <1>9
  <2>4. clean' => token.level = Eaten
    BY <1>2, <1>9, LexFacts
  <2>5. GoodAt(stack', n, clean')
    BY <2>3, <1>3, <1>11 DEF GoodAt
  <2>6. clean' => g.level = f.level + CaseLevel(g)
    <3>1. g.level \in Nat
      BY DEF StmtFrame
    <3> QED
      BY <3>1, <2>2, <2>3, <2>4, <1>3
  <2>7. GoodAt(stack', n + 1, clean')
    BY <2>6, <1>3, <1>4, <1>11, <1>12 DEF GoodAt
  <2>8. Last(stack') = g
    BY <1>11 DEF Last
  <2>9. Seen(stack', clean', token')
    BY <2>2, <2>8, <1>4, <1>9 DEF Seen
  <2>10. Inside(stack') = stack[n - 1].indent + 0 + 0
    BY <2>8, <1>4, <1>11, <1>12 DEF Inside
  <2>11. Inside(stack') = stack[n - 1].indent
    <3>1. stack[n - 1].indent \in Nat
      BY <1>1, OneTop DEF ListFrame
    <3> QED
      BY <3>1, <2>10
  <2> QED
    BY <2>2, <2>5, <2>7, <2>9, <2>11
<1>16. errors' = 0 /\ FromFile => errors = 0
  BY <1>10
<1> QED
  BY <1>2, <1>8, <1>9, <1>10, <1>13, <1>14, <1>15, <1>16, GrowStep

LEMMA PrimaryKeeps ==
  ASSUME FullInv, Primary
  PROVE  FullInv'
<1>1. At("primary") /\ In("one") /\ Top.stage = "primary"
  BY DEF Primary, At
<1>2. /\ Top \in OneFrame /\ pending \in Nat /\ token.level \in Nat
      /\ errors = 0 /\ FromFile /\ Placed(stack) =>
           /\ clean /\ Top.stage \in {"decorators", "primary"}
                => Top.level = stack[Len(stack) - 1].indent \/ token.kind = "indent"
      /\ Eat \/ Stay => (clean' => clean)
  BY <1>1, OneFacts
<1>3. CASE /\ token.kind \in {"name", "pass"}
           /\ stack' = Become([Top EXCEPT !.stage = "after", !.bare = token.kind = "name"])
           /\ Eat /\ Calm
  <2> DEFINE f == [Top EXCEPT !.stage = "after", !.bare = token.kind = "name"]
  <2>1. f \in OneFrame /\ f.stage = "after" /\ f.level = Top.level
    BY <1>2 DEF OneFrame
  <2>2. /\ stack' = Become(f) /\ pending' \in Nat /\ NoError
        /\ token.kind \notin Layouts /\ token.kind # "indent"
    BY <1>2, <1>3 DEF Calm, Layouts
  <2> HIDE DEF f
  <2> QED
    BY <1>1, <1>2, <1>3, <2>1, <2>2, OneStays
<1>4. CASE /\ token.kind = "return"
           /\ stack' = Append(AfterPrimary, Stmt("return", <<"value">>)) /\ Eat /\ Calm
  <2> DEFINE g == Stmt("return", <<"value">>)
  <2>1. g \in StmtFrame /\ g.kind = "return" /\ g.clause = "return" /\ g.level = token.level
        /\ g.todo = <<"value">>
    BY <1>2, PartIsTodo DEF Stmt, StmtFrame, Simple, Expected
  <2> HIDE DEF g
  <2>2. TodoOK(g) /\ CaseLevel(g) = 0 /\ Entered(g) = 0
    BY <2>1 DEF TodoOK, OnePart, ImportParts, CaseLevel, Entered, Compound
  <2>3. token.kind \notin {"newline", "eof", "comment", "indent", "desindent"}
    BY <1>4
  <2>4. stack' = Append(AfterPrimary, g)
    BY <1>4 DEF g
  <2> QED
    BY <1>1, <1>4, <2>1, <2>2, <2>3, <2>4, OneCalls
<1>5. CASE /\ token.kind = "import"
           /\ stack' = Append(AfterPrimary, Stmt("import", <<"packages">>)) /\ Eat /\ Calm
  <2> DEFINE g == Stmt("import", <<"packages">>)
  <2>1. g \in StmtFrame /\ g.kind = "import" /\ g.clause = "import" /\ g.level = token.level
        /\ g.todo = <<"packages">>
    BY <1>2, PartIsTodo DEF Stmt, StmtFrame, Simple, ImportParts, Expected
  <2> HIDE DEF g
  <2>2. TodoOK(g) /\ CaseLevel(g) = 0 /\ Entered(g) = 0
    BY <2>1 DEF TodoOK, OnePart, ImportParts, CaseLevel, Entered, Compound
  <2>3. token.kind \notin {"newline", "eof", "comment", "indent", "desindent"}
    BY <1>5
  <2>4. stack' = Append(AfterPrimary, g)
    BY <1>5 DEF g
  <2> QED
    BY <1>1, <1>5, <2>1, <2>2, <2>3, <2>4, OneCalls
<1>6. CASE /\ token.kind \in Compound
           /\ stack' = Append(AfterPrimary, Stmt(token.kind, Header(token.kind)))
           /\ Eat /\ Calm
  <2> DEFINE g == Stmt(token.kind, Header(token.kind))
  <2>1. \E j \in 1 .. 3 : Header(token.kind) = Rest(j)
    BY Headers
  <2>2. PICK j \in 1 .. 3 : Header(token.kind) = Rest(j)
    BY <2>1
  <2>3. Rest(j) \in Seq(Expected) /\ Rest(j) # Rest(7) /\ Rest(j) # <<>> /\ Last(Rest(j)) = "body"
    <3>1. j \in 1 .. 8 /\ j \in 1 .. 7 /\ 7 \in 1 .. 8 /\ j # 7
      OBVIOUS
    <3> QED
      BY <3>1, RestFacts, Ends
  <2>4. g \in StmtFrame /\ g.kind = token.kind /\ g.clause = token.kind /\ g.level = token.level
        /\ g.todo = Rest(j)
    BY <1>2, <1>6, <2>2, <2>3 DEF Stmt, StmtFrame, Expected
  <2> HIDE DEF g
  <2>5. token.kind \notin Simple /\ token.kind \notin {"case", "newline", "eof", "comment", "indent", "desindent"}
    BY <1>6 DEF Compound, Simple
  <2>6. TodoOK(g)
    <3>1. j \in 1 .. 8
      OBVIOUS
    <3> QED
      BY <3>1, <2>4, <2>5 DEF TodoOK, Simple
  <2>7. CaseLevel(g) = 0 /\ Entered(g) = 0
    BY <2>3, <2>4, <2>5 DEF CaseLevel, Entered
  <2>8. stack' = Append(AfterPrimary, g)
    BY <1>6 DEF g
  <2> QED
    BY <1>1, <1>6, <2>4, <2>5, <2>6, <2>7, <2>8, OneCalls
<1>7. CASE Throw
  BY <1>1, <1>7, ThrowKeeps
<1>8. CASE token.kind = "comment" /\ stack' = ToStage("commented") /\ Eat /\ Calm
  <2> DEFINE f == [Top EXCEPT !.stage = "commented"]
  <2>1. f \in OneFrame /\ f.stage = "commented" /\ f.level = Top.level
    BY <1>2 DEF OneFrame
  <2>2. /\ stack' = Become(f) /\ pending' \in Nat /\ NoError
        /\ token.kind \notin Layouts /\ token.kind # "indent"
    BY <1>2, <1>8 DEF ToStage, Calm, Layouts
  <2> HIDE DEF f
  <2> QED
    BY <1>1, <1>2, <1>8, <2>1, <2>2, OneStays
<1> QED
  BY <1>3, <1>4, <1>5, <1>6, <1>7, <1>8 DEF Primary

LEMMA EndCommentKeeps ==
  ASSUME FullInv, EndComment
  PROVE  FullInv'
<1>1. In("one") /\ Top.stage = "commented"
  BY DEF EndComment, At
<1>2. /\ Top \in OneFrame /\ pending \in Nat
      /\ errors = 0 /\ FromFile /\ Placed(stack) =>
           /\ clean /\ Top.stage \in {"decorator", "decorated", "commented", "after", "inline"}
                => Top.level = stack[Len(stack) - 1].indent
      /\ Eat \/ Stay => (clean' => clean)
  BY <1>1, OneFacts
<1>3. CASE token.kind \in EndsRow /\ stack' = AfterPrimary /\ Eat /\ Calm
  <2> DEFINE f == [Top EXCEPT !.stage = "after", !.bare = FALSE]
  <2>1. f \in OneFrame /\ f.stage = "after" /\ f.level = Top.level
    BY <1>2 DEF OneFrame
  <2>2. stack' = Become(f) /\ pending' \in Nat /\ NoError /\ token.kind \notin Layouts
    BY <1>2, <1>3 DEF AfterPrimary, Calm, Layouts, EndsRow
  <2> HIDE DEF f
  <2> QED
    BY <1>1, <1>2, <1>3, <2>1, <2>2, OneStays
<1>4. CASE Throw
  BY <1>1, <1>4, ThrowKeeps
<1> QED
  BY <1>3, <1>4 DEF EndComment

LEMMA AnnotatedKeeps ==
  ASSUME FullInv, Annotated
  PROVE  FullInv'
<1> DEFINE g == Stmt("annassign", <<"name">>)
<1>1. /\ At("after") /\ In("one") /\ Eat /\ Calm /\ stack' = Append(AfterPrimary, g)
      /\ token.kind = ":"
  BY DEF Annotated, Annotates, At
<1>2. token.level \in Nat
  BY <1>1, OneFacts
<1>3. g \in StmtFrame /\ g.kind = "annassign" /\ g.clause = "annassign" /\ g.level = token.level
      /\ g.todo = <<"name">>
  BY <1>2, PartIsTodo DEF Stmt, StmtFrame, Simple, Expected
<1> HIDE DEF g
<1>4. TodoOK(g) /\ CaseLevel(g) = 0 /\ Entered(g) = 0
  BY <1>3 DEF TodoOK, CaseLevel, Entered, Compound
<1> QED
  BY <1>1, <1>3, <1>4, OneCalls

LEMMA InlinedKeeps ==
  ASSUME FullInv, Inlined
  PROVE  FullInv'
<1>1. In("one")
  BY DEF Inlined, At
<1>2. /\ Top \in OneFrame /\ pending \in Nat
      /\ errors = 0 /\ FromFile /\ Placed(stack) =>
           /\ clean /\ Top.stage \in {"decorator", "decorated", "commented", "after", "inline"}
                => Top.level = stack[Len(stack) - 1].indent
      /\ Stay => clean' = clean /\ token' = token
      /\ Eat \/ Stay => (clean' => clean)
  BY <1>1, OneFacts
<1>3. CASE At("after") /\ token.kind = ";" /\ stack' = ToStage("inline") /\ Eat /\ Calm
  <2> DEFINE f == [Top EXCEPT !.stage = "inline"]
  <2>1. f \in OneFrame /\ f.stage = "inline" /\ f.level = Top.level
    BY <1>2 DEF OneFrame
  <2>2. stack' = Become(f) /\ pending' \in Nat /\ NoError /\ token.kind \notin Layouts
        /\ Top.stage = "after"
    BY <1>2, <1>3 DEF ToStage, Calm, Layouts, At
  <2> HIDE DEF f
  <2> QED
    BY <1>1, <1>2, <1>3, <2>1, <2>2, OneStays
<1>4. CASE /\ At("inline")
           /\ stack' = IF EndsSimple(token.kind) THEN ToStage("after")
                       ELSE Become([Top EXCEPT !.stage = "primary", !.joined = TRUE])
           /\ Stay /\ Calm
  <2>1. PICK f \in OneFrame : /\ f.stage \in {"after", "primary"} /\ f.level = Top.level
                              /\ stack' = Become(f)
    <3> DEFINE a == [Top EXCEPT !.stage = "after"]
               b == [Top EXCEPT !.stage = "primary", !.joined = TRUE]
    <3>1. /\ a \in OneFrame /\ a.stage = "after" /\ a.level = Top.level
          /\ b \in OneFrame /\ b.stage = "primary" /\ b.level = Top.level
      BY <1>2 DEF OneFrame
    <3>2. stack' = Become(a) \/ stack' = Become(b)
      BY <1>4 DEF ToStage
    <3> HIDE DEF a, b
    <3> QED
      BY <3>1, <3>2
  <2>2. pending' \in Nat /\ NoError /\ Top.stage = "inline"
    BY <1>2, <1>4 DEF Calm, At
  <2> QED
    BY <1>1, <1>2, <1>4, <2>1, <2>2, OneStays
<1> QED
  BY <1>3, <1>4 DEF Inlined

LEMMA AttachCommentKeeps ==
  ASSUME FullInv, AttachComment
  PROVE  FullInv'
<1>1. In("one") /\ Top.stage = "after" /\ token.kind = "comment" /\ Eat /\ NoError
      /\ UNCHANGED <<pending, stack>>
  BY DEF AttachComment, Attaches, At, Calm
<1>2. /\ Top \in OneFrame /\ pending' \in Nat
      /\ errors = 0 /\ FromFile /\ Placed(stack) =>
           /\ clean /\ Top.stage \in {"decorator", "decorated", "commented", "after", "inline"}
                => Top.level = stack[Len(stack) - 1].indent
      /\ Eat \/ Stay => (clean' => clean)
  BY <1>1, OneFacts
<1>3. token.kind \notin Layouts
  BY <1>1 DEF Layouts
<1> QED
  BY <1>1, <1>2, <1>3, OneStays

LEMMA EndStatementKeeps ==
  ASSUME FullInv, EndStatement
  PROVE  FullInv'
<1>1. In("one")
  BY DEF EndStatement, At
<1>2. Top \in OneFrame /\ pending \in Nat
  BY <1>1, OneFacts
<1>3. (Top.bare /\ ~Top.joined) \in BOOLEAN
  OBVIOUS
<1>4. CASE stack' = Accepted /\ Stay /\ Calm
  <2>1. stack' = Filled(Front(stack), Top.bare /\ ~Top.joined) /\ NoError /\ pending' \in Nat
    BY <1>2, <1>4 DEF Accepted, Calm
  <2> QED
    BY <1>1, <1>3, <1>4, <2>1, OneReturns
<1>5. CASE token.kind \in {"newline", "eof"} /\ stack' = Accepted /\ Eat /\ Calm
  <2>1. stack' = Filled(Front(stack), Top.bare /\ ~Top.joined) /\ NoError /\ pending' \in Nat
        /\ token.kind \notin Layouts
    BY <1>2, <1>5 DEF Accepted, Calm, Layouts
  <2> QED
    BY <1>1, <1>3, <1>5, <2>1, OneReturns
<1>6. CASE Throw
  BY <1>1, <1>6, ThrowKeeps
<1> QED
  BY <1>4, <1>5, <1>6 DEF EndStatement

LEMMA RecoverKeeps ==
  ASSUME FullInv, Recover
  PROVE  FullInv'
<1>1. In("one") /\ Top.stage = "recover" /\ NoError /\ UNCHANGED pending
  BY DEF Recover, At, Calm
<1>2. /\ Top \in OneFrame /\ pending' \in Nat
      /\ errors = 0 /\ FromFile /\ Placed(stack) => Top.stage # "recover"
  BY <1>1, OneFacts
<1>3. CASE Stay /\ stack' = Filled(Front(stack), FALSE)
  BY <1>1, <1>2, <1>3, OneReturns
<1>4. CASE Eat /\ UNCHANGED stack
  BY <1>1, <1>2, <1>4, OneStays
<1> QED
  BY <1>3, <1>4 DEF Recover

LEMMA UnexpectedKeeps ==
  ASSUME FullInv, Unexpected
  PROVE  FullInv'
BY ThrowKeeps DEF Unexpected, At

\* Every step of parse_one.
LEMMA ParseOneKeeps ==
  ASSUME FullInv, ParseOne
  PROVE  FullInv'
BY SkipNewlineKeeps, NoStatementKeeps, UnexpectedKeeps, ReadCommentKeeps, EmitPendingKeeps,
   BeginStatementKeeps, DecoratorsKeeps, PrimaryKeeps, EndCommentKeeps, AnnotatedKeeps,
   InlinedKeeps, AttachCommentKeeps, EndStatementKeeps, RecoverKeeps DEF ParseOne

-----------------------------------------------------------------------------
(* The functions of the statements                                         *)

\* What a clause may expect next, and what dropping it leaves.
LEMMA Dropped ==
  ASSUME NEW f \in StmtFrame, TodoOK(f), f.todo # <<>>,
         NEW g, g = [f EXCEPT !.todo = SubSeq(@, 1 + 1, Len(@))]
  PROVE  /\ TodoOK(g) /\ g.todo # Rest(1) /\ CaseLevel(g) = CaseLevel(f)
         /\ Head(f.todo) # "any" => f.todo # Rest(1)
         /\ Head(f.todo) = "indent" => Entered(f) = 0 /\ Entered(g) = 1
         /\ Head(f.todo) = "body" =>
              /\ f.kind \in Compound /\ g.todo = <<>> /\ Entered(f) = 1
              /\ Entered(g) = IF f.clause = "match" THEN 1 ELSE 0
         /\ Head(f.todo) = "documented" =>
              /\ f.kind \in Compound /\ g.todo = <<>> /\ Entered(f) = 1 /\ Entered(g) = 0
              /\ f.clause \in {"def", "async", "class"}
         /\ Head(f.todo) \notin {"indent", "body", "documented"} => Entered(g) = Entered(f)
<1>1. /\ f.kind \in Compound \union Simple
      /\ g.kind = f.kind /\ g.clause = f.clause /\ g.todo = SubSeq(f.todo, 1 + 1, Len(f.todo))
  BY DEF StmtFrame
<1>2. CaseLevel(g) = CaseLevel(f)
  BY <1>1 DEF CaseLevel
<1>3. /\ Rest(8) = <<>> /\ DocRest(4) = <<>>
      /\ \A i \in 1 .. 8 : \A j \in 1 .. 8 : Rest(i) = Rest(j) => i = j
      /\ \A i \in 1 .. 7 : Rest(i) # <<>> /\ Last(Rest(i)) = "body"
      /\ \A i \in 1 .. 3 : \A j \in 1 .. 8 : DocRest(i) # Rest(j)
      /\ \A i \in 1 .. 3 : DocRest(i) # <<>> /\ Last(DocRest(i)) = "documented"
  BY Ends
<1>4. Head(f.todo) # "any" => f.todo # Rest(1)
  <2>1. 1 \in 1 .. 7 /\ 1 \in 1 .. 2 /\ 1 + 1 <= 8
    OBVIOUS
  <2>2. Head(Rest(1)) = Plan[1]
    BY <2>1, RestDrop
  <2> QED
    BY <2>2 DEF Plan
<1>5. CASE f.kind \in Compound /\ \E j \in 1 .. 8 : f.todo = Rest(j)
  <2>1. PICK j \in 1 .. 8 : f.todo = Rest(j)
    BY <1>5
  <2>2. j \in 1 .. 7 /\ j + 1 \in 1 .. 8 /\ j + 1 <= 8 /\ 1 \in 1 .. 2 /\ j + 1 # 1
    <3>1. j # 8
      BY <2>1, <1>3
    <3> QED
      BY <3>1
  <2>3. g.todo = Rest(j + 1) /\ Head(f.todo) = Plan[j]
    BY <2>1, <2>2, <1>1, RestDrop
  <2>4. TodoOK(g)
    <3>1. f.clause \notin Simple /\ (f.clause \in {"match", "case"} <=> f.kind = "match")
          /\ f.kind \notin Simple
      BY <1>5 DEF TodoOK, Compound, Simple
    <3> QED
      BY <3>1, <2>2, <2>3, <1>1 DEF TodoOK, Simple
  <2>5. Rest(j + 1) # Rest(1) /\ (Rest(j) = Rest(7) <=> j = 7) /\ (Rest(j + 1) = Rest(7) <=> j = 6)
        /\ (Rest(j + 1) = <<>> <=> j = 7)
    <3>1. 1 \in 1 .. 8 /\ 7 \in 1 .. 8 /\ 8 \in 1 .. 8 /\ (j + 1 = 7 <=> j = 6)
          /\ (j + 1 = 8 <=> j = 7)
      BY <2>2
    <3> QED
      BY <3>1, <2>2, <1>3
  <2>6. Entered(f) = IF j = 7 THEN 1 ELSE 0
    BY <2>1, <2>2, <2>5, <1>3, <1>5 DEF Entered
  <2>7. Entered(g) = IF j = 6 \/ (j = 7 /\ f.clause = "match") THEN 1 ELSE 0
    <3>1. g.todo # <<>> => Last(g.todo) = "body"
      <4>1. j # 7 => j + 1 \in 1 .. 7
        BY <2>2
      <4> QED
        BY <4>1, <2>3, <2>5, <1>3
    <3> QED
      BY <3>1, <2>2, <2>3, <2>5, <1>1, <1>5 DEF Entered
  <2>8. j \in {1, 2, 3, 4, 5, 6, 7}
    BY <2>2
  <2>9. /\ Head(f.todo) = "indent" <=> j = 6
        /\ Head(f.todo) = "body" <=> j = 7
        /\ Head(f.todo) # "documented"
    BY <2>3, <2>8 DEF Plan
  <2>10. j = 7 => g.todo = <<>>
    BY <2>3, <2>5
  <2> QED
    BY <2>3, <2>4, <2>5, <2>6, <2>7, <2>9, <2>10, <1>2, <1>4, <1>5
<1>6. CASE f.kind \in Compound /\ Documented(f)
  <2>1. PICK j \in 1 .. 3 : f.todo = DocRest(j)
    BY <1>6 DEF Documented
  <2>2. f.clause \in {"def", "async", "class"}
    BY <1>6 DEF Documented
  <2>3. g.todo = DocRest(j + 1) /\ Head(f.todo) = DocPlan[j]
    BY <2>1, <1>1, DocRestDrop
  <2>4. j \in {1, 2, 3}
    OBVIOUS
  <2>5. j # 3 => j + 1 \in 1 .. 3
    BY <2>4
  <2>6. j = 3 => g.todo = <<>>
    BY <2>3, <1>3
  <2>7. TodoOK(g)
    <3>1. f.clause \notin Simple /\ (f.clause \in {"match", "case"} <=> f.kind = "match")
          /\ f.kind \notin Simple
      BY <1>6 DEF TodoOK, Compound, Simple
    <3>2. (\E i \in 1 .. 8 : g.todo = Rest(i)) \/ Documented(g)
      <4>1. CASE j = 3
        <5>1. 8 \in 1 .. 8
          OBVIOUS
        <5> QED
          BY <5>1, <4>1, <2>6, <1>3
      <4>2. CASE j # 3
        BY <4>2, <2>2, <2>3, <2>5, <1>1 DEF Documented
      <4> QED
        BY <4>1, <4>2
    <3> QED
      BY <3>1, <3>2, <1>1 DEF TodoOK, Simple
  <2>8. g.todo # Rest(1)
    <3>1. 1 \in 1 .. 8 /\ 1 \in 1 .. 7
      OBVIOUS
    <3> QED
      BY <3>1, <2>3, <2>5, <2>6, <1>3
  <2>9. Entered(f) = 1
    BY <2>1, <1>3, <1>6 DEF Entered
  <2>10. j # 3 => Entered(g) = 1
    BY <2>3, <2>5, <1>1, <1>3, <1>6 DEF Entered
  <2>11. j = 3 => Entered(g) = 0
    <3>1. 7 \in 1 .. 7
      OBVIOUS
    <3> QED
      BY <3>1, <2>2, <2>6, <1>1, <1>3 DEF Entered
  <2>12. /\ Head(f.todo) \notin {"indent", "body"}
         /\ Head(f.todo) = "documented" <=> j = 3
    BY <2>3, <2>4 DEF DocPlan
  <2> QED
    BY <2>2, <2>6, <2>7, <2>8, <2>9, <2>10, <2>11, <2>12, <1>2, <1>4, <1>6
<1>7. CASE f.kind = "return"
  <2>1. f.clause = "return" /\ f.todo = <<"value">>
    BY <1>7 DEF TodoOK
  <2>2. g.todo = <<>>
    BY <2>1, <1>1
  <2>3. TodoOK(g)
    BY <2>1, <2>2, <1>1, <1>7 DEF TodoOK, Compound
  <2>4. g.todo # Rest(1)
    <3>1. 1 \in 1 .. 7
      OBVIOUS
    <3> QED
      BY <3>1, <2>2, <1>3
  <2>5. Entered(f) = 0 /\ Entered(g) = 0
    BY <1>1, <1>7 DEF Entered, Compound
  <2>6. Head(f.todo) = "value"
    BY <2>1
  <2> QED
    BY <2>3, <2>4, <2>5, <2>6, <1>2, <1>4
<1>8. CASE f.kind \in {"import", "annassign"}
  <2>1. PICK part \in ImportParts \union {"end", "name"} : f.todo = <<part>>
    BY <1>8 DEF TodoOK, OnePart
  <2>2. g.todo = <<>>
    BY <2>1, <1>1
  <2>3. TodoOK(g)
    BY <2>2, <1>1, <1>8 DEF TodoOK, Compound
  <2>4. g.todo # Rest(1)
    <3>1. 1 \in 1 .. 7
      OBVIOUS
    <3> QED
      BY <3>1, <2>2, <1>3
  <2>5. Entered(f) = 0 /\ Entered(g) = 0
    BY <1>1, <1>8 DEF Entered, Compound
  <2>6. Head(f.todo) \in ImportParts \union {"end", "name"}
    BY <2>1
  <2> QED
    BY <2>3, <2>4, <2>5, <2>6, <1>2, <1>4 DEF ImportParts
<1> QED
  BY <1>1, <1>5, <1>6, <1>7, <1>8 DEF TodoOK, Simple

\* The facts an action of a statement starts from.
LEMMA StmtFacts ==
  ASSUME FullInv, In("stmt")
  PROVE  /\ Top \in StmtFrame /\ Top.fn = "stmt" /\ token # Lex!NoToken
         /\ pending \in Nat /\ LexInv /\ token.level \in Nat
         /\ stack[Len(stack) - 2].indent \in Nat
         /\ errors = 0 /\ FromFile /\ Placed(stack) =>
              /\ TodoOK(Top)
              /\ stack[Len(stack) - 1].stage = "after"
              /\ clean => /\ Top.level = stack[Len(stack) - 1].level + CaseLevel(Top)
                          /\ stack[Len(stack) - 1].level = stack[Len(stack) - 2].indent
              /\ Top.todo = Rest(1) => token.kind \notin Layouts
              /\ token.kind = "eof"
                   \/ Eaten = stack[Len(stack) - 2].indent + CaseLevel(Top) + Entered(Top)
         /\ Eat \/ Stay => (clean' => clean) /\ clean \in BOOLEAN
<1> DEFINE n == Len(stack)
<1>1. /\ Top \in StmtFrame /\ Top.fn = "stmt" /\ token # Lex!NoToken /\ stack # <<>>
      /\ n > 2 /\ stack[n - 1].fn = "one" /\ stack[n - 2] \in ListFrame
  BY StmtTop
<1>2. /\ Counts /\ LexInv /\ Top = stack[n] /\ n \in 1 .. n /\ n \in Nat
  BY <1>1, TopFacts
<1>3. pending \in Nat
  BY <1>2 DEF Counts
<1>4. token.level \in Nat
  BY <1>1, <1>2, LexFacts
<1>5. stack[n - 2].indent \in Nat
  BY <1>1 DEF ListFrame
<1>6. ASSUME Placed(stack)
      PROVE  /\ TodoOK(Top)
             /\ stack[n - 1].stage = "after"
             /\ clean => /\ Top.level = stack[n - 1].level + CaseLevel(Top)
                         /\ stack[n - 1].level = stack[n - 2].indent
             /\ Top.todo = Rest(1) => token.kind \notin Layouts
             /\ token.kind = "eof"
                  \/ Eaten = stack[n - 2].indent + CaseLevel(Top) + Entered(Top)
  <2>1. n - 1 \in 1 .. n /\ (n - 1) - 1 = n - 2
    BY <1>1, <1>2
  <2>2. GoodAt(stack, n, clean) /\ GoodAt(stack, n - 1, clean)
    BY <2>1, <1>2, <1>6 DEF Placed, Good
  <2>3. Seen(stack, clean, token) /\ (token.kind = "eof" \/ Eaten = Inside(stack))
    BY <1>6 DEF Placed
  <2>4. TodoOK(Top) /\ stack[n - 1].stage = "after"
        /\ (clean => Top.level = stack[n - 1].level + CaseLevel(Top))
    BY <2>2, <1>1, <1>2 DEF GoodAt
  <2>5. clean => stack[n - 1].level = stack[n - 2].indent
    BY <2>1, <2>2, <2>4, <1>1 DEF GoodAt
  <2>6. Inside(stack) = stack[n - 2].indent + CaseLevel(Top) + Entered(Top)
    BY <1>1 DEF Inside, Top
  <2>7. Top.todo = Rest(1) => token.kind \notin Layouts
    BY <2>3, <1>1 DEF Seen, Top
  <2> QED
    BY <2>3, <2>4, <2>5, <2>6, <2>7
<1>7. Eat \/ Stay => (clean' => clean) /\ clean \in BOOLEAN
  BY <1>1, MoveFacts
<1> QED
  BY <1>1, <1>2, <1>3, <1>4, <1>5, <1>6, <1>7

\* The function of a statement goes on.
LEMMA StmtStays ==
  ASSUME FullInv, In("stmt"), NEW f \in StmtFrame,
         stack' = Become(f) \/ (f = Top /\ UNCHANGED stack),
         pending' \in Nat, NoError, Eat \/ Stay,
         errors = 0 /\ FromFile /\ Placed(stack) =>
           /\ TodoOK(f) /\ f.todo # Rest(1)
           /\ clean' => f.level = stack[Len(stack) - 1].level + CaseLevel(f)
           /\ token'.kind = "eof"
                \/ Eaten' = stack[Len(stack) - 2].indent + CaseLevel(f) + Entered(f)
  PROVE  FullInv'
<1> DEFINE n == Len(stack)
<1>1. /\ stack # <<>> /\ n > 2 /\ Top.fn = "stmt" /\ token # Lex!NoToken
      /\ stack[n - 1].fn = "one"
  BY StmtTop
<1>2. /\ n \in Nat \ {0} /\ n \in 1 .. n /\ Top = stack[n] /\ stack \in Seq(Frame)
      /\ Counts /\ InPlace
  BY <1>1, TopFacts
<1>3. f \in Frame /\ f.fn = "stmt"
  BY DEF Frame, StmtFrame
<1>4. Cut(stack, stack', n, f)
  <2>1. CASE stack' = Become(f)
    BY <2>1, <1>1, <1>2, <1>3, BecomeIs DEF Become
  <2>2. CASE f = Top /\ UNCHANGED stack
    BY <2>2, <1>1, <1>2, SameIs
  <2> QED
    BY <2>1, <2>2
<1>5. /\ LexInv' /\ is_empty_line' \in BOOLEAN
      /\ (clean' => clean) /\ clean \in BOOLEAN /\ clean' \in BOOLEAN
  BY <1>1, MoveFacts
<1>6. Counts' /\ errors' = errors /\ (IndexHolds => IndexHolds')
  BY <1>2, <1>5, NoErrorCounts
<1>7. f.fn = stack[n].fn
  BY <1>1, <1>2, <1>3
<1>8. /\ Len(stack') = n /\ stack'[n] = f
      /\ stack'[n - 1] = stack[n - 1] /\ stack'[n - 2] = stack[n - 2]
  <2>1. n - 1 \in 1 .. n - 1 /\ n - 2 \in 1 .. n - 1
    BY <1>1, <1>2
  <2> QED
    BY <1>4, <2>1 DEF Cut
<1>9. ASSUME errors' = 0, FromFile, Placed(stack)
      PROVE  /\ GoodAt(stack', n, clean')
             /\ Seen(stack', clean', token')
             /\ token'.kind = "eof" \/ Eaten' = Inside(stack')
  <2>1. /\ TodoOK(f) /\ f.todo # Rest(1)
        /\ clean' => f.level = stack[n - 1].level + CaseLevel(f)
        /\ token'.kind = "eof" \/ Eaten' = stack[n - 2].indent + CaseLevel(f) + Entered(f)
    BY <1>6, <1>9
  <2>2. stack[n - 1].stage = "after"
    BY <1>6, <1>9, StmtFacts
  <2>3. GoodAt(stack', n, clean')
    BY <2>1, <2>2, <1>3, <1>8 DEF GoodAt
  <2>4. Last(stack') = f
    BY <1>8 DEF Last
  <2>5. Seen(stack', clean', token')
    BY <2>1, <2>4, <1>3 DEF Seen
  <2>6. Inside(stack') = stack[n - 2].indent + CaseLevel(f) + Entered(f)
    BY <2>4, <1>3, <1>8 DEF Inside
  <2> QED
    BY <2>1, <2>3, <2>5, <2>6
<1>10. errors' = 0 /\ FromFile => errors = 0
  BY <1>6
<1> QED
  BY <1>2, <1>3, <1>4, <1>5, <1>6, <1>7, <1>9, <1>10, CutStep

\* What is left when the first n things expected have been found.
Less(n) == [Top EXCEPT !.todo = SubSeq(@, n + 1, Len(@))]

LEMMA LessIs ==
  ASSUME FullInv, In("stmt"), NEW n \in 1 .. 2
  PROVE  /\ Less(n) \in StmtFrame /\ Drop(n) = Become(Less(n))
         /\ Less(n).level = Top.level /\ Less(n).clause = Top.clause /\ Less(n).kind = Top.kind
         /\ Less(n).todo = SubSeq(Top.todo, n + 1, Len(Top.todo))
<1>1. Top \in StmtFrame
  BY StmtTop
<1>2. Top.todo \in Seq(Expected)
  BY <1>1 DEF StmtFrame, Expected
<1> DEFINE w == SubSeq(Top.todo, n + 1, Len(Top.todo))
<1>3. w \in Seq(Expected)
  <2>1. Len(Top.todo) \in Nat /\ \A i \in 1 .. Len(Top.todo) : Top.todo[i] \in Expected
    BY <1>2, LenProperties, ElementOfSeq
  <2>2. \A i \in n + 1 .. Len(Top.todo) : Top.todo[i] \in Expected
    BY <2>1
  <2>3. n + 1 \in Int /\ Len(Top.todo) \in Int
    BY <2>1
  <2> QED
    BY <2>2, <2>3, SubSeqProperties
<1> HIDE DEF w
<1>4. Less(n) = [Top EXCEPT !.todo = w]
  BY DEF Less, w
<1>5. /\ Less(n) \in StmtFrame /\ Less(n).todo = w
      /\ Less(n).level = Top.level /\ Less(n).clause = Top.clause /\ Less(n).kind = Top.kind
  BY <1>1, <1>3, <1>4 DEF StmtFrame, Expected
<1>6. Drop(n) = Become(Less(n))
  BY DEF Drop, Less
<1> QED
  BY <1>5, <1>6 DEF w

\* A statement finds what it expects, or looks past a comment or a newline.
LEMMA FindsKeeps ==
  ASSUME FullInv, In("stmt"), Top.todo # <<>>, Calm, Eat \/ Stay,
         stack' = Drop(1) \/ (UNCHANGED stack /\ Todo # "any"),
         Todo \notin {"indent", "body", "documented"},
         errors = 0 /\ FromFile /\ Placed(stack) => Stay \/ token.kind \notin Layouts
  PROVE  FullInv'
<1> DEFINE g == Less(1)
<1>1. 1 \in 1 .. 2
  OBVIOUS
<1>2. /\ g \in StmtFrame /\ Drop(1) = Become(g) /\ g.level = Top.level
  BY <1>1, LessIs
<1>3. g = [Top EXCEPT !.todo = SubSeq(@, 1 + 1, Len(@))]
  BY DEF Less
<1> HIDE DEF g
<1>4. /\ Top \in StmtFrame /\ pending' \in Nat /\ NoError /\ token # Lex!NoToken
      /\ Eat \/ Stay => (clean' => clean)
  BY StmtFacts DEF Calm
<1>5. ASSUME errors = 0, FromFile, Placed(stack)
      PROVE  /\ TodoOK(g) /\ g.todo # Rest(1) /\ TodoOK(Top) /\ (Todo # "any" => Top.todo # Rest(1))
             /\ clean' => /\ g.level = stack[Len(stack) - 1].level + CaseLevel(g)
                          /\ Top.level = stack[Len(stack) - 1].level + CaseLevel(Top)
             /\ token'.kind = "eof"
                  \/ /\ Eaten' = stack[Len(stack) - 2].indent + CaseLevel(g) + Entered(g)
                     /\ Eaten' = stack[Len(stack) - 2].indent + CaseLevel(Top) + Entered(Top)
  <2>1. /\ TodoOK(Top)
        /\ clean => Top.level = stack[Len(stack) - 1].level + CaseLevel(Top)
        /\ token.kind = "eof"
             \/ Eaten = stack[Len(stack) - 2].indent + CaseLevel(Top) + Entered(Top)
    BY <1>5, StmtFacts
  <2>2. /\ TodoOK(g) /\ g.todo # Rest(1) /\ CaseLevel(g) = CaseLevel(Top)
        /\ Head(Top.todo) # "any" => Top.todo # Rest(1)
        /\ Head(Top.todo) \notin {"indent", "body", "documented"} => Entered(g) = Entered(Top)
    BY <2>1, <1>3, <1>4, Dropped
  <2>3. Stay \/ token.kind \notin Layouts
    BY <1>5
  <2>4. Eaten' = Eaten /\ (token.kind = "eof" => token'.kind = "eof")
    BY <2>3, <1>4, MoveFacts
  <2> QED
    BY <2>1, <2>2, <2>4, <1>2, <1>4 DEF Todo
<1>6. CASE stack' = Drop(1)
  BY <1>2, <1>4, <1>5, <1>6, StmtStays
<1>7. CASE UNCHANGED stack /\ Todo # "any"
  BY <1>4, <1>5, <1>7, StmtStays
<1> QED
  BY <1>6, <1>7

LEMMA ExpectNewlineKeeps ==
  ASSUME FullInv, ExpectNewline
  PROVE  FullInv'
<1>1. In("stmt") /\ Top.todo # <<>> /\ Todo \in {"newline", "newlines"}
  BY DEF ExpectNewline, Expecting
<1>2. CASE Throw
  BY <1>1, <1>2, ThrowKeeps
<1>3. CASE ~Throw
  <2>1. /\ Calm /\ (Eat \/ Stay)
        /\ stack' = Drop(1) \/ UNCHANGED stack
        /\ Stay \/ token.kind \notin Layouts
    BY <1>3 DEF ExpectNewline, Layouts
  <2>2. Todo \notin {"indent", "body", "documented"} /\ Todo # "any"
    BY <1>1
  <2>3. stack' = Drop(1) \/ (UNCHANGED stack /\ Todo # "any")
    BY <2>1, <2>2
  <2> QED
    BY <1>1, <2>1, <2>2, <2>3, FindsKeeps
<1> QED
  BY <1>2, <1>3

LEMMA ReadImportKeeps ==
  ASSUME FullInv, ReadImport
  PROVE  FullInv'
<1> DEFINE next == AfterInImport(Todo, token.kind)
           f == [Top EXCEPT !.todo = <<next>>]
<1>1. In("stmt") /\ Top.todo # <<>> /\ Todo \in ImportParts
  BY DEF ReadImport
<1>2. CASE Throw
  BY <1>1, <1>2, ThrowKeeps
<1>3. CASE /\ next # "error" /\ stack' = Become(f) /\ Calm
           /\ IF EatsInImport(Todo, token.kind) THEN Eat ELSE Stay
  <2>1. /\ Top \in StmtFrame /\ pending' \in Nat /\ NoError /\ token # Lex!NoToken
        /\ Eat \/ Stay => (clean' => clean)
    BY <1>1, <1>3, StmtFacts DEF Calm
  <2>2. next \in ImportParts \union {"end"}
    BY <1>3 DEF AfterInImport, ImportParts
  <2> HIDE DEF next
  <2>3. /\ f \in StmtFrame /\ f.todo = <<next>> /\ f.level = Top.level /\ f.clause = Top.clause
        /\ f.kind = Top.kind
    <3>1. <<next>> \in Seq(Expected)
      BY <2>2, PartIsTodo DEF Expected
    <3> QED
      BY <3>1, <2>1 DEF StmtFrame, Expected
  <2> HIDE DEF f
  <2>4. (Eat \/ Stay) /\ (Stay \/ token.kind \notin Layouts)
    BY <1>3 DEF EatsInImport, Layouts
  <2>5. ASSUME errors = 0, FromFile, Placed(stack)
        PROVE  /\ TodoOK(f) /\ f.todo # Rest(1)
               /\ clean' => f.level = stack[Len(stack) - 1].level + CaseLevel(f)
               /\ token'.kind = "eof"
                    \/ Eaten' = stack[Len(stack) - 2].indent + CaseLevel(f) + Entered(f)
    <3>1. /\ TodoOK(Top)
          /\ clean => Top.level = stack[Len(stack) - 1].level + CaseLevel(Top)
          /\ token.kind = "eof"
               \/ Eaten = stack[Len(stack) - 2].indent + CaseLevel(Top) + Entered(Top)
      BY <2>5, <1>1, StmtFacts
    <3>2. Top.kind = "import"
      <4>1. Head(Top.todo) \in ImportParts
        BY <1>1 DEF Todo
      <4>2. ~\E j \in 1 .. 8 : Top.todo = Rest(j)
        <5> SUFFICES ASSUME NEW j \in 1 .. 8, Top.todo = Rest(j) PROVE FALSE
          OBVIOUS
        <5>1. j \in 1 .. 7 /\ 1 \in 1 .. 2 /\ j + 1 <= 8
          <6>1. j # 8
            BY <1>1, Ends
          <6> QED
            BY <6>1
        <5>2. Head(Top.todo) = Plan[j]
          BY <5>1, RestDrop
        <5>3. j \in {1, 2, 3, 4, 5, 6, 7}
          BY <5>1
        <5> QED
          BY <4>1, <5>2, <5>3 DEF Plan, ImportParts
      <4>3. ~Documented(Top)
        <5> SUFFICES ASSUME NEW j \in 1 .. 3, Top.todo = DocRest(j) PROVE FALSE
          BY DEF Documented
        <5>1. Head(Top.todo) = DocPlan[j] /\ j \in {1, 2, 3}
          BY DocRestDrop
        <5> QED
          BY <4>1, <5>1 DEF DocPlan, ImportParts
      <4>4. Top.todo \notin {<<"value">>, <<"name">>}
        BY <4>1 DEF ImportParts
      <4> QED
        BY <4>2, <4>3, <4>4, <3>1, <2>1, <1>1 DEF TodoOK, StmtFrame, Simple
    <3>3. TodoOK(f)
      BY <3>1, <3>2, <2>2, <2>3 DEF TodoOK, OnePart, Compound
    <3>4. CaseLevel(f) = CaseLevel(Top) /\ Entered(f) = 0 /\ Entered(Top) = 0
      BY <3>2, <2>3 DEF CaseLevel, Entered, Compound
    <3>5. f.todo # Rest(1)
      <4>1. 1 \in 1 .. 7 /\ 1 \in 1 .. 2 /\ 1 + 1 <= 8
        OBVIOUS
      <4>2. Head(Rest(1)) = Plan[1]
        BY <4>1, RestDrop
      <4>3. Head(f.todo) = next
        BY <2>3
      <4> QED
        BY <4>2, <4>3, <2>2 DEF Plan, ImportParts
    <3>6. Eaten' = Eaten /\ (token.kind = "eof" => token'.kind = "eof")
      BY <2>1, <2>4, MoveFacts
    <3> QED
      BY <3>1, <3>3, <3>4, <3>5, <3>6, <2>1, <2>3, <2>4
  <2> QED
    BY <1>1, <1>3, <2>1, <2>3, <2>4, <2>5, StmtStays
<1> QED
  BY <1>2, <1>3 DEF ReadImport

LEMMA EndOfImportKeeps ==
  ASSUME FullInv, EndOfImport
  PROVE  FullInv'
<1>1. In("stmt") /\ Top.todo # <<>> /\ Todo = "end"
  BY DEF EndOfImport, Expecting
<1>2. CASE Throw
  BY <1>1, <1>2, ThrowKeeps
<1>3. CASE ~Throw
  <2>1. /\ Calm /\ Eat
        /\ stack' = Drop(1) \/ UNCHANGED stack
        /\ token.kind \notin Layouts
    BY <1>3 DEF EndOfImport, Layouts
  <2> QED
    BY <1>1, <2>1, FindsKeeps
<1> QED
  BY <1>2, <1>3

LEMMA ReturnValueKeeps ==
  ASSUME FullInv, ReturnValue
  PROVE  FullInv'
<1>1. In("stmt") /\ Top.todo # <<>> /\ Todo = "value"
  BY DEF ReturnValue, Expecting
<1>2. CASE Throw
  BY <1>1, <1>2, ThrowKeeps
<1>3. CASE ~Throw
  <2>1. /\ Calm /\ (Eat \/ Stay) /\ stack' = Drop(1) /\ token.kind \notin Layouts
    BY <1>3 DEF ReturnValue, Layouts
  <2>2. Todo \notin {"indent", "body", "documented"}
    BY <1>1
  <2>3. stack' = Drop(1) \/ (UNCHANGED stack /\ Todo # "any")
    BY <2>1
  <2> QED
    BY <1>1, <2>1, <2>2, <2>3, FindsKeeps
<1> QED
  BY <1>2, <1>3

LEMMA ExpectTokenKeeps ==
  ASSUME FullInv, ExpectToken
  PROVE  FullInv'
<1>1. In("stmt") /\ Top.todo # <<>> /\ Todo \in {"name", ":", "any", "indent"}
  BY DEF ExpectToken
<1>2. CASE Throw
  BY <1>1, <1>2, ThrowKeeps
<1>3. CASE token.kind = Todo /\ Todo # "indent" /\ stack' = Drop(1) /\ Eat /\ Calm
  <2>1. token.kind \notin Layouts /\ Todo \notin {"indent", "body", "documented"}
    BY <1>1, <1>3 DEF Layouts
  <2> QED
    BY <1>1, <1>3, <2>1, FindsKeeps
<1>4. CASE Todo = "any" /\ stack' = Drop(1) /\ Eat /\ Calm
  <2>1. Todo \notin {"indent", "body", "documented"}
    BY <1>4
  <2>2. ASSUME errors = 0, FromFile, Placed(stack)
        PROVE  token.kind \notin Layouts
    <3>1. TodoOK(Top) /\ (Top.todo = Rest(1) => token.kind \notin Layouts) /\ Top \in StmtFrame
      BY <1>1, <2>2, StmtFacts
    <3>2. Top.todo = Rest(1)
      <4>1. Head(Top.todo) = "any"
        BY <1>4 DEF Todo
      <4>2. CASE \E j \in 1 .. 8 : Top.todo = Rest(j)
        <5>1. PICK j \in 1 .. 8 : Top.todo = Rest(j)
          BY <4>2
        <5>2. j \in 1 .. 7
          <6>1. j # 8
            BY <5>1, <1>1, Ends
          <6> QED
            BY <6>1
        <5>3. 1 \in 1 .. 2 /\ j + 1 <= 8
          BY <5>2
        <5>4. Head(Top.todo) = Plan[j]
          BY <5>1, <5>2, <5>3, RestDrop
        <5>5. j \in {1, 2, 3, 4, 5, 6, 7}
          BY <5>2
        <5>6. j = 1
          BY <4>1, <5>4, <5>5 DEF Plan
        <5> QED
          BY <5>1, <5>6
      <4>3. CASE Documented(Top)
        <5>1. PICK j \in 1 .. 3 : Top.todo = DocRest(j)
          BY <4>3 DEF Documented
        <5>2. Head(Top.todo) = DocPlan[j]
          BY <5>1, DocRestDrop
        <5>3. j \in {1, 2, 3}
          OBVIOUS
        <5> QED
          BY <4>1, <5>2, <5>3 DEF DocPlan
      <4>4. CASE Top.todo \in {<<"value">>, <<"name">>} \/ OnePart(Top.todo)
        BY <4>1, <4>4 DEF OnePart, ImportParts
      <4> QED
        BY <3>1, <4>2, <4>3, <4>4, <1>1 DEF TodoOK, StmtFrame, Simple
    <3> QED
      BY <3>1, <3>2
  <2> QED
    BY <1>1, <1>4, <2>1, <2>2, FindsKeeps
<1>5. CASE Todo = "name" /\ NoType /\ stack' = Drop(2) /\ Eat /\ Calm
  <2> DEFINE g == Less(2)
  <2>1. 2 \in 1 .. 2
    OBVIOUS
  <2>2. /\ g \in StmtFrame /\ Drop(2) = Become(g) /\ g.level = Top.level
        /\ g.clause = Top.clause /\ g.kind = Top.kind
        /\ g.todo = SubSeq(Top.todo, 2 + 1, Len(Top.todo))
    BY <1>1, <2>1, LessIs
  <2> HIDE DEF g
  <2>3. /\ Top \in StmtFrame /\ pending' \in Nat /\ NoError /\ token # Lex!NoToken
        /\ Eat \/ Stay => (clean' => clean)
    BY <1>1, <1>5, StmtFacts DEF Calm
  <2>4. Top.clause = "except" /\ token.kind \notin Layouts
    BY <1>5 DEF NoType, Layouts
  <2>5. ASSUME errors = 0, FromFile, Placed(stack)
        PROVE  /\ TodoOK(g) /\ g.todo # Rest(1)
               /\ clean' => g.level = stack[Len(stack) - 1].level + CaseLevel(g)
               /\ token'.kind = "eof"
                    \/ Eaten' = stack[Len(stack) - 2].indent + CaseLevel(g) + Entered(g)
    <3>1. /\ TodoOK(Top)
          /\ clean => Top.level = stack[Len(stack) - 1].level + CaseLevel(Top)
          /\ token.kind = "eof"
               \/ Eaten = stack[Len(stack) - 2].indent + CaseLevel(Top) + Entered(Top)
      BY <2>5, <1>1, StmtFacts
    <3>2. /\ Top.kind \in Compound /\ Top.clause \notin Simple /\ Top.kind # "match"
          /\ (\E j \in 1 .. 8 : Top.todo = Rest(j))
          /\ Top.kind \notin Simple
      BY <3>1, <2>3, <2>4 DEF TodoOK, StmtFrame, Documented, Compound, Simple
    <3>3. PICK j \in 1 .. 8 : Top.todo = Rest(j)
      BY <3>2
    <3>4. j \in 1 .. 7
      <4>1. j # 8
        BY <3>3, <1>1, Ends
      <4> QED
        BY <4>1
    <3>5. Head(Top.todo) = Plan[j]
      <4>1. 1 \in 1 .. 2 /\ j + 1 <= 8
        BY <3>4
      <4> QED
        BY <4>1, <3>3, <3>4, RestDrop
    <3>6. j = 2
      <4>1. j \in {1, 2, 3, 4, 5, 6, 7}
        BY <3>4
      <4> QED
        BY <4>1, <3>5, <1>5 DEF Plan, Todo
    <3>7. g.todo = Rest(4)
      <4>1. 2 \in 1 .. 7 /\ 2 \in 1 .. 2 /\ 2 + 2 <= 8 /\ 2 + 2 = 4
        OBVIOUS
      <4>2. SubSeq(Rest(2), 2 + 1, Len(Rest(2))) = Rest(2 + 2)
        BY <4>1, RestDrop
      <4> QED
        BY <4>1, <4>2, <3>3, <3>6, <2>2
    <3>8. /\ Rest(4) # Rest(1) /\ Rest(4) # Rest(7) /\ Rest(2) # Rest(7)
          /\ Rest(4) # <<>> /\ Last(Rest(4)) = "body" /\ Rest(2) # <<>> /\ Last(Rest(2)) = "body"
      <4>1. /\ 1 \in 1 .. 8 /\ 2 \in 1 .. 8 /\ 4 \in 1 .. 8 /\ 7 \in 1 .. 8
            /\ 4 \in 1 .. 7 /\ 2 \in 1 .. 7 /\ 4 # 1 /\ 4 # 7 /\ 2 # 7
        OBVIOUS
      <4> QED
        BY <4>1, Ends
    <3>9. TodoOK(g)
      <4>1. 4 \in 1 .. 8
        OBVIOUS
      <4> QED
        BY <4>1, <3>2, <3>7, <2>2, <2>4 DEF TodoOK, Simple
    <3>10. CaseLevel(g) = CaseLevel(Top) /\ Entered(g) = 0 /\ Entered(Top) = 0
      BY <3>3, <3>6, <3>7, <3>8, <2>2, <2>4 DEF CaseLevel, Entered
    <3>11. Eaten' = Eaten /\ (token.kind = "eof" => token'.kind = "eof")
      BY <2>3, <2>4, <1>5, MoveFacts
    <3> QED
      BY <3>1, <3>7, <3>8, <3>9, <3>10, <3>11, <2>2, <2>3, <1>5
  <2> QED
    BY <1>1, <1>5, <2>2, <2>3, <2>5, StmtStays
<1>6. CASE token.kind = Todo /\ Todo = "indent" /\ stack' = Drop(1) /\ Eat /\ Calm
  <2> DEFINE g == Less(1)
  <2>1. 1 \in 1 .. 2
    OBVIOUS
  <2>2. /\ g \in StmtFrame /\ Drop(1) = Become(g) /\ g.level = Top.level
    BY <1>1, <2>1, LessIs
  <2>3. g = [Top EXCEPT !.todo = SubSeq(@, 1 + 1, Len(@))]
    BY DEF Less
  <2> HIDE DEF g
  <2>4. /\ Top \in StmtFrame /\ pending' \in Nat /\ NoError /\ token # Lex!NoToken /\ LexInv
        /\ stack[Len(stack) - 2].indent \in Nat
        /\ Eat \/ Stay => (clean' => clean)
    BY <1>1, <1>6, StmtFacts DEF Calm
  <2>5. ASSUME errors = 0, FromFile, Placed(stack)
        PROVE  /\ TodoOK(g) /\ g.todo # Rest(1)
               /\ clean' => g.level = stack[Len(stack) - 1].level + CaseLevel(g)
               /\ token'.kind = "eof"
                    \/ Eaten' = stack[Len(stack) - 2].indent + CaseLevel(g) + Entered(g)
    <3>1. /\ TodoOK(Top)
          /\ clean => Top.level = stack[Len(stack) - 1].level + CaseLevel(Top)
          /\ Eaten = stack[Len(stack) - 2].indent + CaseLevel(Top) + Entered(Top)
      BY <2>5, <1>1, <1>6, StmtFacts
    <3>2. /\ TodoOK(g) /\ g.todo # Rest(1) /\ CaseLevel(g) = CaseLevel(Top)
          /\ Entered(Top) = 0 /\ Entered(g) = 1
      BY <3>1, <2>3, <2>4, <1>1, <1>6, Dropped DEF Todo
    <3>3. Eaten' = Eaten + 1
      BY <2>4, <1>6, EatFacts
    <3>4. CaseLevel(Top) \in Nat
      BY DEF CaseLevel
    <3>5. Eaten' = stack[Len(stack) - 2].indent + CaseLevel(g) + Entered(g)
      BY <3>1, <3>2, <3>3, <3>4, <2>4
    <3> QED
      BY <3>1, <3>2, <3>5, <2>2, <2>4, <1>6
  <2> QED
    BY <1>1, <1>6, <2>2, <2>4, <2>5, StmtStays
<1> QED
  BY <1>1, <1>2, <1>3, <1>4, <1>5, <1>6 DEF ExpectToken

\* A statement calls parse_body for its block.
LEMMA StmtCalls ==
  ASSUME FullInv, In("stmt"), NEW f \in StmtFrame, NEW deeper \in Nat,
         stack' = Append(Become(f), Body(Surrounding + deeper)), Stay, Calm,
         errors = 0 /\ FromFile /\ Placed(stack) =>
           /\ TodoOK(f) /\ f.todo = <<>> /\ f.clause # "match" /\ f.level = Top.level
           /\ CaseLevel(f) = CaseLevel(Top) /\ Entered(Top) = 1 /\ deeper = 1 + CaseLevel(f)
  PROVE  FullInv'
<1> DEFINE n == Len(stack)
           g == Body(Surrounding + deeper)
           u == Become(f)
<1>1. /\ stack # <<>> /\ n > 2 /\ Top.fn = "stmt" /\ token # Lex!NoToken
      /\ stack[n - 1].fn = "one"
  BY StmtTop
<1>2. /\ n \in Nat \ {0} /\ n \in 1 .. n /\ Top = stack[n] /\ stack \in Seq(Frame)
      /\ Counts /\ InPlace
  BY <1>1, TopFacts
<1>3. f \in Frame /\ f.fn = "stmt"
  BY DEF Frame, StmtFrame
<1>4. Surrounding = stack[n - 2].indent /\ Surrounding \in Nat /\ pending \in Nat
  BY StmtFacts DEF Surrounding
<1>5. g \in ListFrame /\ g \in Frame /\ g.fn = "body" /\ g.indent = Surrounding + deeper
  BY <1>4 DEF Body, ListFrame, Frame
<1>6. Cut(stack, u, n, f)
  BY <1>1, <1>2, <1>3, BecomeIs DEF Become
<1>7. u \in Seq(Frame)
  BY <1>6 DEF Cut
<1>8. stack' = Append(u, g)
  OBVIOUS
<1> HIDE DEF g, u
<1>9. Grown(stack, stack', n, f, g)
  BY <1>2, <1>3, <1>5, <1>6, <1>7, <1>8, CallIs
<1>10. /\ LexInv' /\ is_empty_line' \in BOOLEAN
       /\ clean' = clean /\ clean \in BOOLEAN /\ clean' \in BOOLEAN
       /\ token' = token /\ Eaten' = Eaten
  BY StayFacts
<1>11. Counts' /\ errors' = errors /\ (IndexHolds => IndexHolds')
  <2>1. NoError /\ pending' \in Nat
    BY <1>4 DEF Calm
  <2> QED
    BY <2>1, <1>2, <1>10, NoErrorCounts
<1>12. /\ Len(stack') = n + 1 /\ stack'[n] = f /\ stack'[n + 1] = g
       /\ stack'[n - 1] = stack[n - 1] /\ stack'[n - 2] = stack[n - 2]
  <2>1. n - 1 \in 1 .. n - 1 /\ n - 2 \in 1 .. n - 1
    BY <1>1, <1>2
  <2> QED
    BY <1>9, <2>1 DEF Grown
<1>13. (n + 1) - 1 = n /\ (n + 1) - 3 = n - 2 /\ n + 1 > 1 /\ n + 1 # 1
  BY <1>2
<1>14. Under(stack', n + 1)
  BY <1>3, <1>5, <1>12, <1>13 DEF Under
<1>15. f.fn = stack[n].fn
  BY <1>1, <1>2, <1>3
<1>16. ASSUME errors' = 0, FromFile, Placed(stack)
       PROVE  /\ GoodAt(stack', n, clean') /\ GoodAt(stack', n + 1, clean')
              /\ Seen(stack', clean', token')
              /\ token'.kind = "eof" \/ Eaten' = Inside(stack')
  <2>1. /\ TodoOK(f) /\ f.todo = <<>> /\ f.clause # "match" /\ f.level = Top.level
        /\ CaseLevel(f) = CaseLevel(Top) /\ Entered(Top) = 1 /\ deeper = 1 + CaseLevel(f)
    BY <1>11, <1>16
  <2>2. /\ stack[n - 1].stage = "after"
        /\ clean => Top.level = stack[n - 1].level + CaseLevel(Top)
        /\ token.kind = "eof" \/ Eaten = stack[n - 2].indent + CaseLevel(Top) + Entered(Top)
    BY <1>11, <1>16, StmtFacts
  <2>3. GoodAt(stack', n, clean')
    BY <2>1, <2>2, <1>3, <1>10, <1>12 DEF GoodAt
  <2>4. CaseLevel(f) \in Nat
    BY DEF CaseLevel
  <2>5. g.indent = stack[n - 2].indent + 1 + CaseLevel(f)
    <3>1. \A a \in Nat : \A b \in Nat : a + (1 + b) = a + 1 + b
      OBVIOUS
    <3>2. Surrounding + (1 + CaseLevel(f)) = Surrounding + 1 + CaseLevel(f)
      BY <3>1, <2>4, <1>4
    <3>3. g.indent = Surrounding + (1 + CaseLevel(f))
      BY <2>1, <1>5
    <3> QED
      BY <3>2, <3>3, <1>4
  <2>6. GoodAt(stack', n + 1, clean')
    BY <2>1, <2>5, <1>5, <1>12, <1>13 DEF GoodAt
  <2>7. Last(stack') = g
    BY <1>12 DEF Last
  <2>8. Seen(stack', clean', token')
    BY <2>7, <1>5 DEF Seen
  <2>9. Inside(stack') = g.indent
    BY <2>7, <1>5 DEF Inside
  <2>10. stack[n - 2].indent + CaseLevel(Top) + Entered(Top) = g.indent
    BY <2>1, <2>4, <2>5, <1>4
  <2> QED
    BY <2>2, <2>3, <2>6, <2>8, <2>9, <2>10, <1>10
<1>17. errors' = 0 /\ FromFile => errors = 0
  BY <1>11
<1> QED
  BY <1>2, <1>3, <1>9, <1>10, <1>11, <1>14, <1>15, <1>16, <1>17, GrowStep

LEMMA OpenBodyKeeps ==
  ASSUME FullInv, OpenBody
  PROVE  FullInv'
<1>1. In("stmt") /\ Top.todo # <<>> /\ Head(Top.todo) = "body" /\ Calm
  BY DEF OpenBody, Expecting, Todo
<1>2. 1 \in 1 .. 2
  OBVIOUS
<1> DEFINE g == Less(1)
<1>3. /\ g \in StmtFrame /\ Drop(1) = Become(g) /\ g.level = Top.level /\ g.clause = Top.clause
      /\ g.kind = Top.kind
  BY <1>1, <1>2, LessIs
<1>4. g = [Top EXCEPT !.todo = SubSeq(@, 1 + 1, Len(@))]
  BY DEF Less
<1> HIDE DEF g
<1>5. /\ Top \in StmtFrame /\ pending' \in Nat /\ NoError /\ token # Lex!NoToken
      /\ Eat \/ Stay => (clean' => clean)
  BY <1>1, StmtFacts DEF Calm
<1>6. ASSUME errors = 0, FromFile, Placed(stack)
      PROVE  /\ TodoOK(Top)
             /\ clean => Top.level = stack[Len(stack) - 1].level + CaseLevel(Top)
             /\ token.kind = "eof"
                  \/ Eaten = stack[Len(stack) - 2].indent + CaseLevel(Top) + Entered(Top)
             /\ TodoOK(g) /\ g.todo # Rest(1) /\ CaseLevel(g) = CaseLevel(Top)
             /\ Top.kind \in Compound /\ g.todo = <<>> /\ Entered(Top) = 1
             /\ Entered(g) = IF Top.clause = "match" THEN 1 ELSE 0
  <2>1. /\ TodoOK(Top)
        /\ clean => Top.level = stack[Len(stack) - 1].level + CaseLevel(Top)
        /\ token.kind = "eof"
             \/ Eaten = stack[Len(stack) - 2].indent + CaseLevel(Top) + Entered(Top)
    BY <1>1, <1>6, StmtFacts
  <2> QED
    BY <2>1, <1>1, <1>4, <1>5, Dropped
<1>7. CASE /\ Top.clause \in {"def", "async", "class"} /\ token.kind = "doc"
           /\ stack' = Become([Top EXCEPT !.todo = <<"newline", "newlines", "documented">>])
           /\ Eat
  <2> DEFINE f == [Top EXCEPT !.todo = DocPlan]
  <2>1. f \in StmtFrame /\ f.todo = DocPlan /\ f.level = Top.level /\ f.clause = Top.clause
        /\ f.kind = Top.kind
    <3>1. DocPlan \in Seq(Expected)
      BY PlanFacts
    <3> QED
      BY <3>1, <1>5 DEF StmtFrame, Expected
  <2>2. stack' = Become(f)
    BY <1>7 DEF DocPlan
  <2> HIDE DEF f
  <2>3. DocPlan = DocRest(1)
    BY PlanFacts, SubSeqFull DEF DocRest
  <2>4. f.todo = DocRest(1) /\ 1 \in 1 .. 3
    BY <2>1, <2>3
  <2>5. DocRest(1) # <<>> /\ Last(DocRest(1)) = "documented" /\ DocRest(1) # Rest(1)
    <3>1. 1 \in 1 .. 3 /\ 1 \in 1 .. 8
      OBVIOUS
    <3> QED
      BY <3>1, Ends
  <2>6. ASSUME errors = 0, FromFile, Placed(stack)
        PROVE  /\ TodoOK(f) /\ f.todo # Rest(1)
               /\ clean' => f.level = stack[Len(stack) - 1].level + CaseLevel(f)
               /\ token'.kind = "eof"
                    \/ Eaten' = stack[Len(stack) - 2].indent + CaseLevel(f) + Entered(f)
    <3>1. CaseLevel(f) = CaseLevel(Top) /\ Entered(f) = 1
      BY <2>1, <2>4, <2>5, <2>6, <1>6 DEF CaseLevel, Entered
    <3>2. TodoOK(f)
      <4>1. Documented(f)
        BY <2>1, <2>4, <1>7 DEF Documented
      <4>2. Top.kind \in Compound /\ Top.kind \notin Simple /\ TodoOK(Top)
        BY <1>6, <2>6 DEF Compound, Simple
      <4> QED
        BY <4>1, <4>2, <2>1 DEF TodoOK, Simple
    <3>3. token.kind \notin Layouts /\ token.kind # "eof"
      BY <1>7 DEF Layouts
    <3>4. Eaten' = Eaten
      BY <3>3, <1>5, <1>7, MoveFacts
    <3> QED
      BY <3>1, <3>2, <3>3, <3>4, <2>1, <2>4, <2>5, <2>6, <1>5, <1>6, <1>7
  <2> QED
    BY <1>1, <1>5, <1>7, <2>1, <2>2, <2>6, StmtStays
<1>8. CASE Top.clause = "match" /\ stack' = Drop(1) /\ Stay
  <2>1. token' = token /\ Eaten' = Eaten
    BY <1>8, StayFacts
  <2>2. ASSUME errors = 0, FromFile, Placed(stack)
        PROVE  /\ TodoOK(g) /\ g.todo # Rest(1)
               /\ clean' => g.level = stack[Len(stack) - 1].level + CaseLevel(g)
               /\ token'.kind = "eof"
                    \/ Eaten' = stack[Len(stack) - 2].indent + CaseLevel(g) + Entered(g)
    BY <2>1, <2>2, <1>3, <1>5, <1>6, <1>8
  <2> QED
    BY <1>1, <1>3, <1>5, <1>8, <2>2, StmtStays
<1>9. CASE /\ Top.clause # "match"
           /\ stack' = Append(Drop(1), Body(Surrounding + IF Top.clause = "case" THEN 2 ELSE 1))
           /\ Stay
  <2> DEFINE deeper == IF Top.clause = "case" THEN 2 ELSE 1
  <2>1. deeper \in Nat /\ deeper = 1 + CaseLevel(Top)
    BY DEF CaseLevel
  <2>2. stack' = Append(Become(g), Body(Surrounding + deeper))
    BY <1>3, <1>9
  <2> HIDE DEF deeper
  <2>3. ASSUME errors = 0, FromFile, Placed(stack)
        PROVE  /\ TodoOK(g) /\ g.todo = <<>> /\ g.clause # "match" /\ g.level = Top.level
               /\ CaseLevel(g) = CaseLevel(Top) /\ Entered(Top) = 1 /\ deeper = 1 + CaseLevel(g)
    BY <2>1, <2>3, <1>3, <1>6, <1>9
  <2> QED
    BY <1>1, <1>3, <1>9, <2>1, <2>2, <2>3, StmtCalls
<1> QED
  BY <1>7, <1>8, <1>9 DEF OpenBody

LEMMA OpenDocumentedBodyKeeps ==
  ASSUME FullInv, OpenDocumentedBody
  PROVE  FullInv'
<1>1. /\ In("stmt") /\ Top.todo # <<>> /\ Head(Top.todo) = "documented" /\ Calm /\ Stay
      /\ stack' = Append(Drop(1), Body(Surrounding + 1))
  BY DEF OpenDocumentedBody, Expecting, Todo
<1>2. 1 \in 1 .. 2 /\ 1 \in Nat
  OBVIOUS
<1> DEFINE g == Less(1)
<1>3. /\ g \in StmtFrame /\ Drop(1) = Become(g) /\ g.level = Top.level /\ g.clause = Top.clause
  BY <1>1, <1>2, LessIs
<1>4. g = [Top EXCEPT !.todo = SubSeq(@, 1 + 1, Len(@))]
  BY DEF Less
<1> HIDE DEF g
<1>5. Top \in StmtFrame
  BY <1>1, StmtFacts
<1>6. ASSUME errors = 0, FromFile, Placed(stack)
      PROVE  /\ TodoOK(g) /\ g.todo = <<>> /\ g.clause # "match" /\ g.level = Top.level
             /\ CaseLevel(g) = CaseLevel(Top) /\ Entered(Top) = 1 /\ 1 = 1 + CaseLevel(g)
  <2>1. TodoOK(Top)
    BY <1>1, <1>6, StmtFacts
  <2>2. /\ TodoOK(g) /\ CaseLevel(g) = CaseLevel(Top) /\ g.todo = <<>> /\ Entered(Top) = 1
        /\ Top.clause \in {"def", "async", "class"}
    BY <2>1, <1>1, <1>4, <1>5, Dropped
  <2>3. CaseLevel(g) = 0 /\ g.clause # "match"
    BY <2>2, <1>3 DEF CaseLevel
  <2>4. 1 = 1 + 0
    OBVIOUS
  <2> QED
    BY <2>2, <2>3, <2>4, <1>3
<1>7. stack' = Append(Become(g), Body(Surrounding + 1))
  BY <1>1, <1>3
<1> QED
  BY <1>1, <1>2, <1>3, <1>6, <1>7, StmtCalls

\* With nothing left to expect, a match has entered its block and no other
\* clause is in one.
LEMMA NothingExpected ==
  ASSUME NEW f \in StmtFrame, TodoOK(f), f.todo = <<>>
  PROVE  /\ f.clause = "match" => CaseLevel(f) = 0 /\ Entered(f) = 1
         /\ f.clause = "case" => CaseLevel(f) = 1 /\ Entered(f) = 0
         /\ f.clause \notin {"match", "case"} => CaseLevel(f) = 0 /\ Entered(f) = 0
         /\ f.clause \in {"match", "case"} <=> f.kind = "match"
         /\ f.clause \notin Simple <=> f.kind \in Compound
<1>1. f.kind \in Compound \union Simple
  BY DEF StmtFrame
<1>2. <<>> # Rest(7)
  <2>1. 7 \in 1 .. 7
    OBVIOUS
  <2> QED
    BY <2>1, Ends
<1>3. f.clause \in {"match", "case"} <=> f.kind = "match"
  BY <1>1 DEF TodoOK, Simple
<1>4. f.clause \notin Simple <=> f.kind \in Compound
  BY <1>1 DEF TodoOK, Compound, Simple
<1>5. f.kind = "match" => f.kind \in Compound
  BY DEF Compound
<1>6. Entered(f) = IF f.clause = "match" THEN 1 ELSE 0
  BY <1>2, <1>3, <1>5 DEF Entered
<1> QED
  BY <1>3, <1>4, <1>6 DEF CaseLevel

LEMMA FollowIs ==
  ASSUME NEW f \in StmtFrame, NEW kind, kind \in Follow(f)
  PROVE  /\ kind \in {"elif", "else", "except", "finally", "case"}
         /\ kind = "case" <=> f.clause \in {"match", "case"}
         /\ f.clause \notin Simple
BY DEF Follow, Simple

\* The statement goes on with its next clause.
LEMMA NextClause ==
  ASSUME FullInv, In("stmt"), Top.todo = <<>>, token.kind \in Follow(Top),
         stack' = Become([Top EXCEPT !.clause = token.kind, !.todo = Header(token.kind),
                                     !.level = token.level]),
         Eat, Calm
  PROVE  FullInv'
<1> DEFINE n == Len(stack)
           f == [Top EXCEPT !.clause = token.kind, !.todo = Header(token.kind), !.level = token.level]
<1>1. /\ Top \in StmtFrame /\ pending' \in Nat /\ NoError /\ token # Lex!NoToken /\ LexInv
      /\ token.level \in Nat /\ stack[n - 2].indent \in Nat
      /\ Eat \/ Stay => (clean' => clean)
  BY StmtFacts DEF Calm
<1>2. /\ token.kind \in {"elif", "else", "except", "finally", "case"}
      /\ token.kind = "case" <=> Top.clause \in {"match", "case"}
      /\ Top.clause \notin Simple
  BY <1>1, FollowIs
<1>3. PICK j \in 2 .. 3 : Header(token.kind) = Rest(j)
  BY <1>2, Headers
<1>4. /\ Rest(j) \in Seq(Expected) /\ Rest(j) # Rest(1) /\ Rest(j) # Rest(7)
      /\ Rest(j) # <<>> /\ Last(Rest(j)) = "body"
  <2>1. /\ j \in 1 .. 8 /\ j \in 1 .. 7 /\ 1 \in 1 .. 8 /\ 7 \in 1 .. 8 /\ j # 1 /\ j # 7
    OBVIOUS
  <2> QED
    BY <2>1, Ends, RestFacts
<1>5. /\ f \in StmtFrame /\ f.clause = token.kind /\ f.todo = Rest(j) /\ f.level = token.level
      /\ f.kind = Top.kind
  BY <1>1, <1>2, <1>3, <1>4 DEF StmtFrame, Expected
<1>6. stack' = Become(f)
  OBVIOUS
<1> HIDE DEF f
<1>7. token.kind \notin Layouts /\ token.kind \notin {"newline", "eof", "comment", "indent", "desindent"}
  BY <1>2 DEF Layouts
<1>8. ASSUME errors = 0, FromFile, Placed(stack)
      PROVE  /\ TodoOK(f) /\ f.todo # Rest(1)
             /\ clean' => f.level = stack[n - 1].level + CaseLevel(f)
             /\ token'.kind = "eof"
                  \/ Eaten' = stack[n - 2].indent + CaseLevel(f) + Entered(f)
  <2>1. /\ TodoOK(Top)
        /\ clean => stack[n - 1].level = stack[n - 2].indent
        /\ Eaten = stack[n - 2].indent + CaseLevel(Top) + Entered(Top)
    BY <1>7, <1>8, StmtFacts
  <2>2. /\ Top.clause = "match" => CaseLevel(Top) = 0 /\ Entered(Top) = 1
        /\ Top.clause = "case" => CaseLevel(Top) = 1 /\ Entered(Top) = 0
        /\ Top.clause \notin {"match", "case"} => CaseLevel(Top) = 0 /\ Entered(Top) = 0
        /\ Top.clause \in {"match", "case"} <=> Top.kind = "match"
        /\ Top.clause \notin Simple <=> Top.kind \in Compound
    BY <2>1, <1>1, NothingExpected
  <2>3. Entered(f) = 0
    BY <1>2, <1>4, <1>5 DEF Entered
  <2>4. CaseLevel(f) = IF Top.clause \in {"match", "case"} THEN 1 ELSE 0
    BY <1>2, <1>5 DEF CaseLevel
  <2>5. Eaten = stack[n - 2].indent + CaseLevel(f)
    BY <2>1, <2>2, <2>4, <1>1
  <2>6. TodoOK(f)
    <3>1. f.kind \in Compound /\ f.kind \notin Simple
      BY <2>2, <1>2, <1>5 DEF Compound, Simple
    <3>2. f.clause \notin Simple /\ (f.clause \in {"match", "case"} <=> f.kind = "match")
      BY <2>2, <1>2, <1>5 DEF Simple
    <3>3. j \in 1 .. 8
      OBVIOUS
    <3> QED
      BY <3>1, <3>2, <3>3, <1>5 DEF TodoOK, Simple
  <2>7. clean' => f.level = stack[n - 1].level + CaseLevel(f)
    <3>1. clean => token.level = Eaten
      BY <1>1, <1>7, LexFacts
    <3> QED
      BY <3>1, <2>1, <2>5, <1>1, <1>5
  <2>8. Eaten' = stack[n - 2].indent + CaseLevel(f) + Entered(f)
    <3>1. Eaten' = Eaten
      BY <1>1, <1>7, MoveFacts
    <3>2. CaseLevel(f) \in Nat
      BY DEF CaseLevel
    <3> QED
      BY <3>1, <3>2, <2>3, <2>5, <1>1
  <2> QED
    BY <2>6, <2>7, <2>8, <1>4, <1>5
<1> QED
  BY <1>1, <1>5, <1>6, <1>8, StmtStays

\* The statement returns to its parse_one.
LEMMA StmtReturns ==
  ASSUME FullInv, In("stmt"), Top.todo = <<>>, ~Refused(Top), NEW oneLine \in BOOLEAN,
         stack' = [Front(stack) EXCEPT ![Len(stack) - 1].oneLine = oneLine],
         IF EndsCases(Top) THEN Eat ELSE Stay, Calm
  PROVE  FullInv'
<1> DEFINE n == Len(stack)
           e == stack[n - 1]
           f == [e EXCEPT !.oneLine = oneLine]
<1>1. /\ stack # <<>> /\ n > 2 /\ Top.fn = "stmt" /\ Top \in StmtFrame /\ token # Lex!NoToken
      /\ e \in OneFrame /\ e.fn = "one" /\ stack[n - 2] \in ListFrame
  BY StmtTop
<1>2. /\ n \in Nat \ {0} /\ n \in 1 .. n /\ Top = stack[n] /\ stack \in Seq(Frame)
      /\ Counts /\ LexInv /\ pending \in Nat /\ stack[n - 2].indent \in Nat
  BY <1>1, TopFacts, StmtFacts
<1>3. /\ f \in OneFrame /\ f \in Frame /\ f.fn = "one" /\ f.stage = e.stage /\ f.level = e.level
  BY <1>1 DEF OneFrame, Frame
<1>4. Cut(stack, stack', n - 1, f)
  <2>1. Len(Front(stack)) = n - 1 /\ Front(stack) \in Seq(Frame)
    BY <1>1, <1>2, FrontFacts
  <2>2. DOMAIN Front(stack) = 1 .. n - 1 /\ n - 1 \in 1 .. n - 1
    BY <2>1, <1>1, <1>2, LenProperties
  <2>3. Cut(stack, [Front(stack) EXCEPT ![n - 1] = f], n - 1, f) /\ Front(stack)[n - 1] = e
    <3> HIDE DEF f
    <3>1. n > 1
      BY <1>1, <1>2
    <3> QED
      BY <3>1, <1>2, <1>3, ReturnIs
  <2>4. stack' = [Front(stack) EXCEPT ![n - 1] = f]
    BY <2>2, <2>3
  <2> QED
    BY <2>3, <2>4
<1> HIDE DEF f
<1>5. n - 1 \in 1 .. n /\ (n - 1) - 1 = n - 2
  BY <1>1, <1>2
<1>6. /\ LexInv' /\ is_empty_line' \in BOOLEAN
      /\ (clean' => clean) /\ clean \in BOOLEAN /\ clean' \in BOOLEAN
      /\ token.kind = "eof" => token'.kind = "eof"
      /\ Stay => Eaten' = Eaten
  BY <1>1, MoveFacts
<1>7. Counts' /\ errors' = errors /\ (IndexHolds => IndexHolds')
  <2>1. NoError /\ pending' \in Nat
    BY <1>2 DEF Calm
  <2> QED
    BY <2>1, <1>2, <1>6, NoErrorCounts
<1>8. /\ Len(stack') = n - 1 /\ stack'[n - 1] = f /\ stack'[n - 2] = stack[n - 2]
  <2>1. n - 2 \in 1 .. (n - 1) - 1
    BY <1>1, <1>2
  <2> QED
    BY <1>4, <2>1 DEF Cut
<1>9. ASSUME errors' = 0, FromFile, Placed(stack)
      PROVE  /\ GoodAt(stack', n - 1, clean')
             /\ Seen(stack', clean', token')
             /\ token'.kind = "eof" \/ Eaten' = Inside(stack')
  <2>1. /\ TodoOK(Top) /\ e.stage = "after"
        /\ clean => e.level = stack[n - 2].indent
        /\ token.kind = "eof" \/ Eaten = stack[n - 2].indent + CaseLevel(Top) + Entered(Top)
    BY <1>7, <1>9, StmtFacts
  <2>2. /\ Top.clause = "match" => CaseLevel(Top) = 0 /\ Entered(Top) = 1
        /\ Top.clause = "case" => CaseLevel(Top) = 1 /\ Entered(Top) = 0
        /\ Top.clause \notin {"match", "case"} => CaseLevel(Top) = 0 /\ Entered(Top) = 0
        /\ Top.clause \in {"match", "case"} <=> Top.kind = "match"
    BY <2>1, <1>1, NothingExpected
  <2>3. GoodAt(stack', n - 1, clean')
    BY <2>1, <1>3, <1>5, <1>6, <1>8 DEF GoodAt
  <2>4. Last(stack') = f
    BY <1>8 DEF Last
  <2>5. Seen(stack', clean', token')
    BY <2>1, <2>4, <1>3 DEF Seen
  <2>6. Inside(stack') = stack[n - 2].indent
    BY <2>4, <1>3, <1>5, <1>8 DEF Inside
  <2>7. CASE EndsCases(Top) /\ token.kind = "desindent"
    <3>1. Eat /\ Eaten' = Eaten - 1
      BY <2>7, <1>1, <1>2, EatFacts
    <3>2. CaseLevel(Top) + Entered(Top) = 1
      BY <2>2, <2>7 DEF EndsCases
    <3>3. CaseLevel(Top) \in Nat /\ Entered(Top) \in Nat
      BY DEF CaseLevel, Entered
    <3>4. token.kind # "eof"
      BY <2>7
    <3>5. \A a \in Nat : \A b \in Nat : \A c \in Nat : b + c = 1 => (a + b + c) - 1 = a
      OBVIOUS
    <3>6. (stack[n - 2].indent + CaseLevel(Top) + Entered(Top)) - 1 = stack[n - 2].indent
      BY <3>2, <3>3, <3>5, <1>2
    <3>7. Eaten = stack[n - 2].indent + CaseLevel(Top) + Entered(Top)
      BY <3>4, <2>1
    <3>8. Eaten' = stack[n - 2].indent
      BY <3>1, <3>6, <3>7
    <3> QED
      BY <3>8, <2>3, <2>5, <2>6
  <2>8. CASE token.kind = "eof"
    BY <2>8, <2>3, <2>5, <1>6
  <2>9. CASE ~EndsCases(Top) /\ token.kind # "eof"
    <3>1. CaseLevel(Top) = 0 /\ Entered(Top) = 0
      BY <2>2, <2>9 DEF Refused
    <3>2. Eaten' = Eaten
      BY <2>9, <1>6
    <3>3. \A a \in Nat : a + 0 + 0 = a
      OBVIOUS
    <3>4. Eaten' = stack[n - 2].indent
      BY <3>1, <3>2, <3>3, <2>1, <2>9, <1>2
    <3> QED
      BY <3>4, <2>3, <2>5, <2>6
  <2> QED
    BY <2>7, <2>8, <2>9 DEF EndsCases
<1>10. errors' = 0 /\ FromFile => errors = 0
  BY <1>7
<1>11. f.fn = stack[n - 1].fn
  BY <1>1, <1>3
<1> QED
  BY <1>3, <1>4, <1>5, <1>6, <1>7, <1>9, <1>10, <1>11, CutStep

LEMMA GoOnKeeps ==
  ASSUME FullInv, GoOn
  PROVE  FullInv'
<1>1. In("stmt") /\ Top.todo = <<>>
  BY DEF GoOn
<1>2. CASE /\ token.kind \in Follow(Top)
           /\ stack' = Become([Top EXCEPT !.clause = token.kind, !.todo = Header(token.kind),
                                          !.level = token.level])
           /\ Eat /\ Calm
  BY <1>1, <1>2, NextClause
<1>3. CASE Throw
  BY <1>1, <1>3, ThrowKeeps
<1>4. CASE /\ token.kind \notin Follow(Top) /\ ~Refused(Top)
           /\ stack' = [Front(stack) EXCEPT ![Len(stack) - 1].oneLine = Top.kind \in Simple]
           /\ IF EndsCases(Top) THEN Eat ELSE Stay
           /\ Calm
  <2> DEFINE oneLine == Top.kind \in Simple
  <2>1. oneLine \in BOOLEAN
    OBVIOUS
  <2>2. stack' = [Front(stack) EXCEPT ![Len(stack) - 1].oneLine = oneLine]
    BY <1>4
  <2> HIDE DEF oneLine
  <2> QED
    BY <1>1, <1>4, <2>1, <2>2, StmtReturns
<1> QED
  BY <1>2, <1>3, <1>4 DEF GoOn

\* Every step of the functions of the statements.
LEMMA ParseStatementKeeps ==
  ASSUME FullInv, ParseStatement
  PROVE  FullInv'
BY ExpectTokenKeeps, ExpectNewlineKeeps, OpenBodyKeeps, OpenDocumentedBodyKeeps,
   ReadImportKeeps, EndOfImportKeeps, ReturnValueKeeps, GoOnKeeps DEF ParseStatement

-----------------------------------------------------------------------------
(* parse_body, the read loop and the whole parser                          *)

\* A list of statements calls parse_one.
LEMMA ListCalls ==
  ASSUME FullInv, stack # <<>>, Top.fn \in {"body", "repl"}, NEW interactive \in BOOLEAN,
         stack' = Call(One(interactive)), Stay, UNCHANGED pending,
         errors' \in Nat, current_error' \in Nat \union {-1},
         errors' = 0 /\ FromFile => errors = 0, FromFile /\ IndexHolds => IndexHolds'
  PROVE  FullInv'
<1> DEFINE n == Len(stack)
           g == One(interactive)
<1>1. /\ n \in Nat \ {0} /\ n \in 1 .. n /\ Top = stack[n] /\ stack \in Seq(Frame) /\ Top \in Frame
      /\ Counts /\ InPlace /\ Framed(stack)
  BY TopFacts
<1>2. /\ g \in Frame /\ g.fn = "one" /\ g.stage = "start"
  <2>1. 0 \in 0 .. MaxLines
    BY LexerAssumed DEF LP!MaxLinesAssumption
  <2> QED
    BY <2>1 DEF One, OneFrame, Frame
<1>3. Cut(stack, stack, n, Top)
  BY <1>1, SameIs
<1>4. stack' = Append(stack, g)
  BY DEF Call
<1> HIDE DEF g
<1>5. Grown(stack, stack', n, Top, g)
  BY <1>1, <1>2, <1>3, <1>4, CallIs
<1>6. /\ LexInv' /\ is_empty_line' \in BOOLEAN
      /\ clean' = clean /\ clean \in BOOLEAN /\ clean' \in BOOLEAN
      /\ token' = token /\ Eaten' = Eaten
  BY StayFacts
<1>7. Counts'
  BY <1>1, <1>6 DEF Counts
<1>8. /\ Len(stack') = n + 1 /\ stack'[n] = Top /\ stack'[n + 1] = g
      /\ \A i \in 1 .. n : stack'[i] = stack[i]
  BY <1>1, <1>5 DEF Grown
<1>9. (n + 1) - 1 = n /\ n + 1 > 1
  BY <1>1
<1>10. Under(stack', n + 1)
  BY <1>2, <1>8, <1>9 DEF Under
<1>11. Top.fn = stack[n].fn
  BY <1>1
<1>12. ASSUME errors' = 0, FromFile, Placed(stack)
       PROVE  /\ GoodAt(stack', n, clean') /\ GoodAt(stack', n + 1, clean')
              /\ Seen(stack', clean', token')
              /\ token'.kind = "eof" \/ Eaten' = Inside(stack')
  <2>1. GoodAt(stack, n, clean)
    BY <1>1, <1>12 DEF Placed, Good
  <2>2. GoodAt(stack', n, clean')
    BY <2>1, <1>1, <1>6, <1>8, GoodBelow
  <2>3. GoodAt(stack', n + 1, clean')
    BY <1>2, <1>8 DEF GoodAt
  <2>4. Last(stack') = g
    BY <1>8 DEF Last
  <2>5. Seen(stack', clean', token')
    BY <2>4, <1>2 DEF Seen
  <2>6. Inside(stack') = Top.indent
    BY <2>4, <1>2, <1>8, <1>9 DEF Inside
  <2>7. Inside(stack) = Top.indent
    BY DEF Inside, Top
  <2>8. token.kind = "eof" \/ Eaten = Inside(stack)
    BY <1>12 DEF Placed
  <2> QED
    BY <2>2, <2>3, <2>5, <2>6, <2>7, <2>8, <1>6
<1> QED
  BY <1>1, <1>5, <1>6, <1>7, <1>10, <1>11, <1>12, GrowStep

\* A body returns to its statement.
LEMMA BodyReturns ==
  ASSUME FullInv, In("body"), Len(stack) # 1, EndOfBody(token.kind), Eat,
         stack' = [Front(stack) EXCEPT ![Len(stack) - 1].bare = Top.bare],
         pending' \in Nat, NoError
  PROVE  FullInv'
<1> DEFINE n == Len(stack)
           e == stack[n - 1]
           f == [e EXCEPT !.bare = Top.bare]
<1>1. stack # <<>> /\ token # Lex!NoToken /\ Top.fn = "body"
  BY DEF In
<1>2. /\ n \in Nat \ {0} /\ n \in 1 .. n /\ Top = stack[n] /\ stack \in Seq(Frame)
      /\ Counts /\ LexInv /\ Framed(stack)
  BY <1>1, TopFacts
<1>3. /\ Top \in ListFrame /\ n > 3 /\ e \in StmtFrame /\ e.fn = "stmt"
      /\ stack[n - 2] \in OneFrame /\ stack[n - 3] \in ListFrame
  BY <1>1, <1>2, Below
<1>4. /\ f \in StmtFrame /\ f \in Frame /\ f.fn = "stmt" /\ f.todo = e.todo /\ f.level = e.level
      /\ f.clause = e.clause /\ f.kind = e.kind
  BY <1>3 DEF StmtFrame, ListFrame, Frame
<1>5. Cut(stack, stack', n - 1, f)
  <2>1. Len(Front(stack)) = n - 1 /\ Front(stack) \in Seq(Frame)
    BY <1>1, <1>2, FrontFacts
  <2>2. DOMAIN Front(stack) = 1 .. n - 1 /\ n - 1 \in 1 .. n - 1
    BY <2>1, <1>2, <1>3, LenProperties
  <2>3. Cut(stack, [Front(stack) EXCEPT ![n - 1] = f], n - 1, f) /\ Front(stack)[n - 1] = e
    <3> HIDE DEF f
    <3>1. n > 1
      BY <1>2, <1>3
    <3> QED
      BY <3>1, <1>2, <1>4, ReturnIs
  <2>4. stack' = [Front(stack) EXCEPT ![n - 1] = f]
    BY <2>2, <2>3
  <2> QED
    BY <2>3, <2>4
<1> HIDE DEF f
<1>6. n - 1 \in 1 .. n /\ (n - 1) - 1 = n - 2 /\ (n - 1) - 2 = n - 3 /\ n # 1
  BY <1>2, <1>3
<1>7. /\ LexInv' /\ is_empty_line' \in BOOLEAN
      /\ (clean' => clean) /\ clean \in BOOLEAN /\ clean' \in BOOLEAN
      /\ token.kind = "eof" => token'.kind = "eof"
      /\ token.kind = "desindent" => Eaten' = Eaten - 1
  BY <1>1, <1>2, EatFacts
<1>8. Counts' /\ errors' = errors /\ (IndexHolds => IndexHolds')
  BY <1>2, <1>7, NoErrorCounts
<1>9. /\ Len(stack') = n - 1 /\ stack'[n - 1] = f /\ stack'[n - 2] = stack[n - 2]
      /\ stack'[n - 3] = stack[n - 3]
  <2>1. n - 2 \in 1 .. (n - 1) - 1 /\ n - 3 \in 1 .. (n - 1) - 1
    BY <1>2, <1>3
  <2> QED
    BY <1>5, <2>1 DEF Cut
<1>10. ASSUME errors' = 0, FromFile, Placed(stack)
       PROVE  /\ GoodAt(stack', n - 1, clean')
              /\ Seen(stack', clean', token')
              /\ token'.kind = "eof" \/ Eaten' = Inside(stack')
  <2>1. GoodAt(stack, n, clean) /\ GoodAt(stack, n - 1, clean)
    BY <1>2, <1>6, <1>10 DEF Placed, Good
  <2>2. /\ e.todo = <<>> /\ e.clause # "match"
        /\ Top.indent = stack[n - 3].indent + 1 + CaseLevel(e)
    BY <2>1, <1>1, <1>2, <1>6 DEF GoodAt
  <2>3. /\ stack[n - 2].stage = "after" /\ TodoOK(e)
        /\ clean => e.level = stack[n - 2].level + CaseLevel(e)
    BY <2>1, <1>3, <1>6 DEF GoodAt
  <2>4. TodoOK(f) /\ CaseLevel(f) = CaseLevel(e)
    <3>1. Documented(f) <=> Documented(e)
      BY <1>4 DEF Documented
    <3> QED
      BY <3>1, <2>3, <1>4 DEF TodoOK, CaseLevel
  <2>5. GoodAt(stack', n - 1, clean')
    BY <2>3, <2>4, <1>4, <1>6, <1>7, <1>9 DEF GoodAt
  <2>6. Last(stack') = f
    BY <1>9 DEF Last
  <2>7. <<>> # Rest(1) /\ <<>> # Rest(7)
    <3>1. 1 \in 1 .. 7 /\ 7 \in 1 .. 7
      OBVIOUS
    <3> QED
      BY <3>1, Ends
  <2>8. Seen(stack', clean', token')
    BY <2>2, <2>6, <2>7, <1>4 DEF Seen
  <2>9. Entered(f) = 0
    BY <2>2, <2>7, <1>4 DEF Entered
  <2>10. Inside(stack') = stack[n - 3].indent + CaseLevel(e) + 0
    BY <2>4, <2>6, <2>9, <1>4, <1>6, <1>9 DEF Inside
  <2>11. token.kind = "eof" \/ Eaten = Top.indent
    BY <1>1, <1>10 DEF Placed, Inside, Top
  <2>12. (stack[n - 3].indent + 1 + CaseLevel(e)) - 1 = stack[n - 3].indent + CaseLevel(e) + 0
    <3>1. stack[n - 3].indent \in Nat /\ CaseLevel(e) \in Nat
      BY <1>3 DEF ListFrame, CaseLevel
    <3>2. \A a \in Nat : \A b \in Nat : (a + 1 + b) - 1 = a + b + 0
      OBVIOUS
    <3> QED
      BY <3>1, <3>2
  <2>13. CASE token.kind = "eof"
    BY <2>13, <2>5, <2>8, <1>7
  <2>14. CASE token.kind = "desindent"
    <3>1. Eaten' = Inside(stack')
      BY <2>2, <2>10, <2>11, <2>12, <2>14, <1>7
    <3> QED
      BY <3>1, <2>5, <2>8
  <2> QED
    BY <2>13, <2>14 DEF EndOfBody
<1>11. errors' = 0 /\ FromFile => errors = 0
  BY <1>8
<1>12. f.fn = stack[n - 1].fn
  BY <1>3, <1>4
<1> QED
  BY <1>4, <1>5, <1>6, <1>7, <1>8, <1>10, <1>11, <1>12, CutStep

\* The body of the file returns: nothing but eof can end it.
LEMMA FileReturns ==
  ASSUME FullInv, In("body"), Len(stack) = 1, EndOfBody(token.kind), Eat,
         stack' = <<>>, pending' = FlushAtEof, NoError
  PROVE  FullInv'
<1>1. stack # <<>> /\ token # Lex!NoToken /\ Top.fn = "body"
  BY DEF In
<1>2. /\ Top = stack[1] /\ Counts /\ LexInv /\ InPlace /\ Framed(stack)
  BY <1>1, TopFacts
<1>3. /\ LexInv' /\ is_empty_line' \in BOOLEAN
      /\ token.kind = "eof" => token'.kind = "eof"
  BY <1>1, <1>2, EatFacts
<1>4. Counts' /\ errors' = errors /\ (IndexHolds => IndexHolds')
  <2>1. pending' \in Nat
    BY <1>2 DEF Counts, FlushAtEof
  <2> QED
    BY <2>1, <1>2, <1>3, NoErrorCounts
<1>5. Framed(stack')
  <2>1. <<>> \in Seq(Frame) /\ Len(<<>>) = 0
    BY EmptySeq
  <2>2. \A i \in 1 .. 0 : Under(<<>>, i)
    OBVIOUS
  <2> QED
    BY <2>1, <2>2 DEF Framed
<1>6. ASSUME errors = 0 PROVE token.kind = "eof"
  <2>1. Placed(stack)
    BY <1>1, <1>2, <1>6 DEF InPlace, FromFile
  <2>2. GoodAt(stack, 1, clean)
    BY <2>1 DEF Placed, Good
  <2>3. Top.indent = 0
    BY <2>2, <1>1, <1>2 DEF GoodAt
  <2>4. token.kind = "eof" \/ Eaten = 0
    BY <2>1, <2>3, <1>1 DEF Placed, Inside, Top
  <2>5. token.kind = "desindent" => Eaten > 0 /\ Eaten \in Int
    BY <1>2, LexFacts
  <2>6. \A a \in Int : a > 0 => a # 0
    OBVIOUS
  <2> QED
    BY <2>4, <2>5, <2>6 DEF EndOfBody
<1>7. InPlace'
  BY DEF InPlace, FromFile
<1>8. Complete'
  BY <1>3, <1>4, <1>6 DEF Complete, FlushAtEof
<1>9. Numbered'
  BY DEF Numbered
<1> QED
  BY <1>3, <1>4, <1>5, <1>7, <1>8, <1>9 DEF FullInv, PInv

LEMMA ParseBodyKeeps ==
  ASSUME FullInv, ParseBody
  PROVE  FullInv'
<1>1. In("body") /\ stack # <<>> /\ Top.fn = "body"
  BY DEF ParseBody, In
<1>2. Counts
  BY DEF FullInv, PInv
<1>3. CASE stack' = Call(One(FALSE)) /\ Stay /\ Calm
  <2>1. /\ UNCHANGED pending /\ errors' \in Nat /\ current_error' \in Nat \union {-1}
        /\ errors' = errors
    BY <1>2, <1>3 DEF Calm, NoError, Counts
  <2>3. IndexHolds => IndexHolds'
    BY <1>3 DEF Calm, NoError, IndexHolds
  <2>2. Top.fn \in {"body", "repl"} /\ FALSE \in BOOLEAN
    BY <1>1
  <2> QED
    BY <1>1, <1>3, <2>1, <2>2, <2>3, ListCalls
<1>4. CASE Throw
  BY <1>1, <1>4, ThrowKeeps
<1>5. CASE /\ EndOfBody(token.kind) /\ Eat /\ pending' = FlushAtEof
           /\ stack' = IF Len(stack) = 1 THEN <<>>
                       ELSE [Front(stack) EXCEPT ![Len(stack) - 1].bare = Top.bare]
           /\ NoError
  <2>1. CASE Len(stack) = 1
    BY <2>1, <1>1, <1>5, FileReturns
  <2>2. CASE Len(stack) # 1
    <3>1. pending' \in Nat
      BY <1>2, <1>5 DEF FlushAtEof, Counts
    <3> QED
      BY <3>1, <2>2, <1>1, <1>5, BodyReturns
  <2> QED
    BY <2>1, <2>2
<1> QED
  BY <1>3, <1>4, <1>5 DEF ParseBody

LEMMA ReadLoopKeeps ==
  ASSUME FullInv, ReadLoop
  PROVE  FullInv'
<1> DEFINE n == Len(stack)
<1>1. In("repl") /\ stack # <<>> /\ Top.fn = "repl" /\ token # Lex!NoToken
  BY DEF ReadLoop, In
<1>2. /\ n \in Nat \ {0} /\ n \in 1 .. n /\ Top = stack[n] /\ stack \in Seq(Frame)
      /\ Counts /\ LexInv /\ Framed(stack)
  BY <1>1, TopFacts
<1>3. n = 1
  BY <1>1, <1>2, Below
<1>4. ~FromFile
  BY <1>1, <1>2, <1>3 DEF FromFile
<1>5. /\ errors' = 0 /\ errors' \in Nat /\ pending' = pending /\ pending' \in Nat
      /\ current_error' \in Nat \union {-1}
  BY <1>2 DEF ReadLoop, Counts
<1>6. CASE Lex!NextToken /\ UNCHANGED <<is_empty_line, stack>>
  <2>1. /\ LexInv' /\ (clean' => clean) /\ clean' \in BOOLEAN /\ clean \in BOOLEAN
    BY <1>2, <1>6, LexStep, LexFacts
  <2>2. Counts'
    BY <1>2, <1>5, <1>6 DEF Counts
  <2>3. Cut(stack, stack', n, Top)
    BY <1>1, <1>2, <1>6, SameIs
  <2>4. Top.fn = stack[n].fn
    BY <1>2
  <2> QED
    BY <2>1, <2>2, <2>3, <2>4, <1>1, <1>2, <1>4, CutStep
<1>7. CASE Stay /\ stack' = Call(One(TRUE))
  <2>1. Top.fn \in {"body", "repl"} /\ TRUE \in BOOLEAN
    BY <1>1
  <2> QED
    BY <2>1, <1>1, <1>4, <1>5, <1>7, ListCalls
<1> QED
  BY <1>6, <1>7 DEF ReadLoop

LEMMA FirstTokenKeeps ==
  ASSUME FullInv, FirstToken
  PROVE  FullInv'
<1> DEFINE n == Len(stack)
<1>1. token = Lex!NoToken /\ Lex!NextToken /\ Calm /\ UNCHANGED <<stack, is_empty_line>>
  BY DEF FirstToken
<1>2. /\ Framed(stack) /\ Counts /\ LexInv /\ Complete
  BY DEF FullInv, PInv
<1>3. /\ LexInv' /\ (clean' => clean) /\ clean' \in BOOLEAN /\ clean \in BOOLEAN
      /\ Eaten' = depth
  BY <1>1, <1>2, LexStep, LexFacts
<1>4. Counts' /\ errors' = errors /\ (IndexHolds => IndexHolds')
  BY <1>1, <1>2 DEF Calm, NoError, Counts, IndexHolds
<1>5. token.kind = "none"
  BY <1>1 DEF Lex!NoToken
<1>6. Eaten' = Eaten
  BY <1>3, <1>5 DEF Eaten
<1>7. CASE stack = <<>>
  <2>1. errors # 0
    BY <1>2, <1>5, <1>7 DEF Complete
  <2>2. Framed(stack') /\ InPlace' /\ Complete'
    BY <2>1, <1>1, <1>2, <1>4 DEF InPlace, Complete
  <2>3. Numbered'
    BY <1>1, <1>7 DEF Numbered
  <2> QED
    BY <2>2, <2>3, <1>3, <1>4 DEF FullInv, PInv
<1>9. CASE stack # <<>> /\ Top.fn = "stopped"
  <2>1. Top = stack[n] /\ n \in 1 .. n
    BY <1>9, TopFacts
  <2>2. n = 1
    BY <2>1, <1>2, <1>9 DEF Framed, Under
  <2>3. Framed(stack') /\ InPlace' /\ Complete'
    BY <2>1, <2>2, <1>1, <1>2, <1>9 DEF InPlace, FromFile, Complete
  <2>4. Numbered'
    BY <2>1, <2>2, <1>1, <1>9 DEF FullInv, PInv, Numbered
  <2> QED
    BY <2>3, <2>4, <1>3, <1>4 DEF FullInv, PInv
<1>8. CASE stack # <<>> /\ Top.fn # "stopped"
  <2>1. n \in 1 .. n /\ stack \in Seq(Frame) /\ Top = stack[n]
    BY <1>8, TopFacts
  <2>2. Cut(stack, stack', n, Top)
    BY <2>1, <1>1, <1>8, SameIs
  <2>3. ASSUME errors' = 0, FromFile, Placed(stack)
        PROVE  /\ GoodAt(stack', n, clean')
               /\ Seen(stack', clean', token')
               /\ token'.kind = "eof" \/ Eaten' = Inside(stack')
    <3>1. GoodAt(stack, n, clean) /\ Seen(stack, clean, token) /\ Eaten = Inside(stack)
      BY <2>1, <2>3, <1>5 DEF Placed, Good
    <3>2. GoodAt(stack', n, clean')
      BY <3>1, <2>1, <1>1, <1>2, <1>3, GoodBelow
    <3>3. Seen(stack', clean', token')
      BY <3>1, <1>1, <1>3, <1>5 DEF Seen
    <3>4. Eaten' = Inside(stack')
      BY <3>1, <1>1, <1>6
    <3> QED
      BY <3>2, <3>3, <3>4
  <2>4. errors' = 0 /\ FromFile => errors = 0
    BY <1>4
  <2>5. Top.fn = stack[n].fn
    BY <2>1
  <2> QED
    BY <2>1, <2>2, <2>3, <2>4, <2>5, <1>3, <1>4, <1>8, CutStep
<1> QED
  BY <1>7, <1>8, <1>9

LEMMA NothingKeeps ==
  ASSUME FullInv, UNCHANGED vars
  PROVE  FullInv'
<1>1. UNCHANGED lexerVars /\ UNCHANGED <<stack, pending, errors, current_error, is_empty_line>>
  BY DEF vars
<1>2. LexInv'
  BY <1>1, LexStays DEF FullInv
<1>3. clean' = clean /\ token' = token /\ depth' = depth
  BY <1>1 DEF lexerVars
<1>4. Framed(stack) /\ Counts /\ InPlace /\ Complete /\ Numbered
  BY DEF FullInv, PInv
<1>5. Counts' /\ Complete' /\ Framed(stack') /\ Numbered'
  BY <1>1, <1>3, <1>4 DEF Counts, Complete, Numbered, IndexHolds
<1>6. InPlace'
  BY <1>1, <1>3, <1>4 DEF InPlace, FromFile, Placed, Eaten
<1> QED
  BY <1>2, <1>5, <1>6 DEF FullInv, PInv

-----------------------------------------------------------------------------
(* Theorems                                                                *)

LEMMA InitFullInv == Init => FullInv
<1> SUFFICES ASSUME Init PROVE FullInv
  OBVIOUS
<1>1. LexInv
  BY LexInit DEF Init
<1>2. PICK caller \in Callers : stack = <<[Body(0) EXCEPT !.fn = caller]>>
  BY DEF Init
<1> DEFINE f == [Body(0) EXCEPT !.fn = caller]
<1>3. f \in ListFrame /\ f.fn = caller /\ f.indent = 0 /\ f.fn \in {"body", "repl"}
  BY CallersAssumption DEF Body, ListFrame
<1>4. f \in Frame
  BY <1>3 DEF Frame
<1>5. stack = <<f>>
  BY <1>2
<1> HIDE DEF f
<1>6. /\ stack \in Seq(Frame) /\ Len(stack) = 1 /\ stack[1] = f /\ stack # <<>> /\ Last(stack) = f
  BY <1>4, <1>5 DEF Last
<1>7. \A i \in 1 .. 1 : i = 1
  OBVIOUS
<1>8. Framed(stack)
  BY <1>3, <1>6, <1>7 DEF Framed, Under
<1>9. token = Lex!NoToken /\ depth = 0
  BY DEF Init, Lex!Init
<1>10. Eaten = 0
  BY <1>9 DEF Eaten, Lex!NoToken
<1>11. Placed(stack)
  <2>1. Good(stack, clean)
    BY <1>3, <1>6, <1>7 DEF Good, GoodAt
  <2>2. Seen(stack, clean, token)
    BY <1>3, <1>6 DEF Seen
  <2>3. Inside(stack) = 0
    BY <1>3, <1>6 DEF Inside
  <2> QED
    BY <2>1, <2>2, <2>3, <1>10 DEF Placed
<1>12. Counts
  BY DEF Init, Counts
<1>13. InPlace /\ Complete
  BY <1>6, <1>11 DEF InPlace, Complete
<1>14. Numbered
  <2>1. IndexHolds
    BY DEF Init, IndexHolds
  <2> QED
    BY <2>1, <1>3, <1>6 DEF Numbered
<1> QED
  BY <1>1, <1>8, <1>12, <1>13, <1>14 DEF FullInv, PInv

LEMMA NextFullInv == FullInv /\ [Next]_vars => FullInv'
<1> SUFFICES ASSUME FullInv, [Next]_vars PROVE FullInv'
  OBVIOUS
<1>1. CASE FirstToken
  BY <1>1, FirstTokenKeeps
<1>2. CASE ParseBody
  BY <1>2, ParseBodyKeeps
<1>3. CASE ReadLoop
  BY <1>3, ReadLoopKeeps
<1>4. CASE ParseOne
  BY <1>4, ParseOneKeeps
<1>5. CASE ParseStatement
  BY <1>5, ParseStatementKeeps
<1>6. CASE UNCHANGED vars
  BY <1>6, NothingKeeps
<1> QED
  BY <1>1, <1>2, <1>3, <1>4, <1>5, <1>6 DEF Next, Finished

\* The inductive invariant holds in every parse, of a file or at the prompt.
THEOREM Invariance == Spec => []FullInv
<1>1. FullInv /\ [Next]_vars => FullInv'
  BY NextFullInv
<1> QED
  BY <1>1, InitFullInv, PTL DEF Spec

\* Every activation has its shape and runs under one that calls it.
THEOREM TypeCorrect == Spec => []TypeOK
<1>1. FullInv => TypeOK
  <2> SUFFICES ASSUME FullInv PROVE TypeOK
    OBVIOUS
  <2>1. Framed(stack) /\ Counts
    BY DEF FullInv, PInv
  <2>2. stack \in Seq(Frame) /\ DOMAIN stack = 1 .. Len(stack) /\ \A i \in 1 .. Len(stack) : Under(stack, i)
    BY <2>1, LenProperties DEF Framed
  <2>3. \A i \in DOMAIN stack : stack[i] \in Frame
    BY <2>2, ElementOfSeq
  <2>4. ASSUME NEW i \in DOMAIN stack
        PROVE  LET below == stack[i - 1].fn
               IN CASE stack[i].fn = "one" -> i > 1 /\ below \in {"body", "repl"}
                    [] stack[i].fn = "stmt" -> i > 1 /\ below = "one"
                    [] stack[i].fn = "stopped" -> Len(stack) = 1
                    [] OTHER -> i = 1 \/ below = "stmt"
    <3>1. Under(stack, i) /\ stack[i].fn \in {"one", "stmt", "body", "repl", "stopped"}
      BY <2>2, <2>3, <2>4, FrameKinds
    <3>2. ASSUME stack[i].fn = "stopped" PROVE Len(stack) = 1
      <4>1. i = 1 /\ Len(stack) \in Nat \ {0}
        BY <3>1, <3>2, <2>2, <2>4, LenProperties DEF Under
      <4>2. \A n \in Nat \ {0} : n # 1 => 2 \in 1 .. n /\ 2 - 1 = 1 /\ 2 # 1
        OBVIOUS
      <4>3. Len(stack) # 1 => Under(stack, 2)
        BY <4>2, <2>2
      <4> QED
        BY <3>2, <4>1, <4>2, <4>3 DEF Under
    <3> QED
      BY <3>1, <3>2 DEF Under
  <2> QED
    BY <2>1, <2>2, <2>4 DEF TypeOK, Counts
<1> QED
  BY <1>1, Invariance, PTL

\* In a file without a syntax error a statement goes to the list of statements
\* that has its indentation, whatever its lines are (parse_body, the
\* parse_<statement>s).
THEOREM InItsBlock == Spec => []StatementInItsBlock
<1>1. FullInv => StatementInItsBlock
  <2> SUFFICES ASSUME FullInv, errors = 0, clean, FromFile, NEW i \in DOMAIN stack,
                      stack[i].fn = "one", stack[i].stage \in {"after", "inline"}
               PROVE  stack[i].level = stack[i - 1].indent
    BY DEF StatementInItsBlock
  <2>1. Placed(stack) /\ i \in 1 .. Len(stack)
    BY LenProperties DEF FullInv, PInv, InPlace, Framed
  <2>2. GoodAt(stack, i, clean)
    BY <2>1 DEF Placed, Good
  <2> QED
    BY <2>2 DEF GoodAt
<1> QED
  BY <1>1, Invariance, PTL

\* In a file without a syntax error an elif, else, except or finally continues
\* the statement of its own indentation, a case its match.
THEOREM ClauseInItsStatement == Spec => []ClauseMatchesStatement
<1>1. FullInv => ClauseMatchesStatement
  <2> SUFFICES ASSUME FullInv, errors = 0, clean, FromFile, NEW i \in DOMAIN stack,
                      stack[i].fn = "stmt"
               PROVE  stack[i].level = stack[i - 1].level + IF stack[i].clause = "case" THEN 1 ELSE 0
    BY DEF ClauseMatchesStatement
  <2>1. Placed(stack) /\ i \in 1 .. Len(stack)
    BY LenProperties DEF FullInv, PInv, InPlace, Framed
  <2>2. GoodAt(stack, i, clean)
    BY <2>1 DEF Placed, Good
  <2> QED
    BY <2>2 DEF GoodAt, CaseLevel
<1> QED
  BY <1>1, Invariance, PTL

\* A parse that reports no error has read the whole file and has placed every
\* comment: parse_to_module never stops silently.
THEOREM CompleteWhenSilent == Spec => []SilentMeansComplete
<1>1. FullInv => SilentMeansComplete
  BY DEF FullInv, PInv, Complete, SilentMeansComplete
<1> QED
  BY <1>1, Invariance, PTL

\* While a file shows no syntax error, the INDENTs read and not closed are
\* those of the blocks the activations are in, up to the end of the file:
\* parse_body and parse_match eat each DESINDENT once and leave those of
\* others alone, even where a line of spaces has hidden one or blanks an end of line.
THEOREM BlocksAreEntered == Spec => [](errors = 0 /\ FromFile /\ token.kind # "eof" => Eaten = Inside(stack))
<1>1. FullInv => (errors = 0 /\ FromFile /\ token.kind # "eof" => Eaten = Inside(stack))
  BY DEF FullInv, PInv, InPlace, Placed
<1> QED
  BY <1>1, Invariance, PTL

\* Whatever the errors of a file, parser_kwerror's assertion that there is one
\* at a time holds while it is read; only a session of the read loop, which
\* forgets its errors, can end there.
THEOREM OneErrorInFiles == Spec => [](Stopped => stack[1].caller = "repl")
<1>1. FullInv => (Stopped => stack[1].caller = "repl")
  BY DEF FullInv, PInv, Numbered, Stopped
<1> QED
  BY <1>1, Invariance, PTL

\* A file with a syntax error keeps it: only the read loop clears errors.
THEOREM ErrorsStay == Spec => [][FromFile => errors' >= errors]_vars
<1>1. FullInv /\ [Next]_vars => [FromFile => errors' >= errors]_vars
  <2> SUFFICES ASSUME FullInv, [Next]_vars, FromFile PROVE errors' >= errors
    OBVIOUS
  <2>1. errors \in Nat /\ Framed(stack) /\ stack # <<>> /\ stack[1].fn = "body"
    BY DEF FullInv, PInv, Counts, FromFile
  <2>2. CASE errors' = errors
    BY <2>1, <2>2
  <2>3. CASE errors' = errors + 1
    BY <2>1, <2>3
  <2>4. ~ReadLoop
    <3> SUFFICES ASSUME ReadLoop PROVE FALSE
      OBVIOUS
    <3>1. Top.fn = "repl"
      BY DEF ReadLoop, In
    <3>2. Len(stack) \in 1 .. Len(stack) /\ Top = stack[Len(stack)]
      BY <2>1, TopFacts
    <3>3. Len(stack) = 1
      BY <2>1, <3>1, <3>2, Below
    <3> QED
      BY <2>1, <3>1, <3>2, <3>3
  <2>5. FirstToken \/ Finished \/ UNCHANGED vars => errors' = errors
    BY DEF FirstToken, Calm, NoError, Finished, vars
  <2>6. ParseBody => errors' = errors \/ errors' = errors + 1
    BY DEF ParseBody, Calm, NoError, Throw
  <2>7. ParseOne => errors' = errors \/ errors' = errors + 1
    BY DEF ParseOne, SkipNewline, NoStatement, Unexpected, ReadComment, EmitPending,
           BeginStatement, Decorators, Primary, EndComment, Annotated, Inlined, AttachComment,
           EndStatement, Recover, Calm, NoError, Throw
  <2>8. ParseStatement => errors' = errors \/ errors' = errors + 1
    BY DEF ParseStatement, ExpectToken, ExpectNewline, OpenBody, OpenDocumentedBody,
           ReadImport, EndOfImport, ReturnValue, GoOn, Calm, NoError, Throw
  <2> QED
    BY <2>2, <2>3, <2>4, <2>5, <2>6, <2>7, <2>8 DEF Next
<1> QED
  BY <1>1, Invariance, PTL DEF Spec

=============================================================================
