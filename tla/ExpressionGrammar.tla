-------------------------- MODULE ExpressionGrammar --------------------------
(***************************************************************************)
(* The sentences that lython::Parser should take as an expression, as a    *)
(* grammar: what Python takes of these tokens, without what this parser    *)
(* refuses on principle (a list, a set or a dictionary of one element, an  *)
(* empty one, a comma at the end of one) and with what it takes beyond     *)
(* Python (key : value in any bracket, `a + b += c`, a bracket before the  *)
(* targets of a comprehension, a slice in the brackets of a subscript).    *)
(*                                                                         *)
(* X(w, i, j, c): the words i to j - 1 of w are an X, in the context c     *)
(* ("Slice" in a subscript, "Comprehension" behind `for`, else "None").    *)
(***************************************************************************)
EXTENDS Integers, Sequences

Brackets == {"(", "[", "{"}

Closing(b) == CASE b = "(" -> ")" [] b = "[" -> "]" [] b = "{" -> "}"

Is(w, i, j, t) == i < j /\ w[i] = t

\* The context in round brackets, or in those of a literal.
Within(c) == IF c = "Comprehension" THEN "None" ELSE c

RECURSIVE Expr(_, _, _, _)

\* X , X ... , X
RECURSIVE List(_, _, _, _)
List(w, i, j, c) ==
  \/ Expr(w, i, j, c)
  \/ \E m \in i + 1..j - 2 : Expr(w, i, m, c) /\ w[m] = "," /\ List(w, m + 1, j, c)

Pair(w, i, j, c) ==
  \E m \in i + 1..j - 2 : Expr(w, i, m, c) /\ w[m] = ":" /\ Expr(w, m + 1, j, c)

RECURSIVE Pairs(_, _, _, _)
Pairs(w, i, j, c) ==
  \/ Pair(w, i, j, c)
  \/ \E m \in i + 1..j - 2 : Pair(w, i, m, c) /\ w[m] = "," /\ Pairs(w, m + 1, j, c)

RECURSIVE Args(_, _, _, _, _)
Args(w, i, j, c, keywords) ==
  LET named == i + 1 < j /\ w[i] = "a" /\ w[i + 1] = "="
      Arg(m) == IF named THEN Expr(w, i + 2, m, c) ELSE ~keywords /\ Expr(w, i, m, c)
  IN  \/ i = j
      \/ Arg(j)
      \/ \E m \in i + 1..j - 1 :
           Arg(m) /\ w[m] = "," /\ Args(w, m + 1, j, c, keywords \/ named)

RECURSIVE Generator(_, _, _, _)
RECURSIVE Primary(_, _, _, _)

RECURSIVE Target(_, _, _, _)
Target(w, i, j, c) ==
  \/ Primary(w, i, j, c)
  \/ \E m \in i + 1..j - 2 : Primary(w, i, m, c) /\ w[m] = "," /\ Target(w, m + 1, j, c)

RECURSIVE Ifs(_, _, _)
Ifs(w, i, j) ==
  \/ i = j
  \/ Generator(w, i, j, "Comprehension")
  \/ Is(w, i, j, "if") /\ \E m \in i + 2..j : Expr(w, i + 1, m, "Comprehension") /\ Ifs(w, m, j)

Generator(w, i, j, c) ==
  /\ Is(w, i, j, "for")
  /\ LET first == IF Is(w, i + 1, j, "(") THEN i + 2 ELSE i + 1
     IN  \E m \in first + 1..j - 2 : \E n \in m + 2..j :
           /\ Target(w, first, m, "Comprehension")
           /\ w[m] = "in"
           /\ Expr(w, m + 1, n, "Comprehension")
           /\ Ifs(w, n, j)

\* What may stand between brackets.
Inside(w, i, j, open, c) ==
  \/ open = "(" /\ Expr(w, i, j, c)
  \/ List(w, i, j, c) /\ ~Expr(w, i, j, c)
  \/ Pairs(w, i, j, c) /\ ~Pair(w, i, j, c)
  \/ \E m \in i + 1..j - 1 : (Expr(w, i, m, c) \/ Pair(w, i, m, c)) /\ Generator(w, m, j, c)

Primary(w, i, j, c) ==
  \/ j = i + 1 /\ w[i] = "a"
  \/ /\ i + 1 < j /\ w[i] \in Brackets /\ w[j - 1] = Closing(w[i])
     /\ Inside(w, i + 1, j - 1, w[i], Within(c))

RECURSIVE AugTail(_, _, _, _)
AugTail(w, i, j, c) ==
  \/ i = j
  \/ Is(w, i, j, "+=") /\ \E m \in i + 2..j : Expr(w, i + 1, m, c) /\ AugTail(w, m, j, c)

RECURSIVE Rest(_, _, _, _)
Rest(w, i, j, c) ==
  \/ i = j
  \/ /\ i < j /\ w[i] \in {"+", "*", "<", "and", "in"}
     /\ \E m \in i + 2..j : Expr(w, i + 1, m, c) /\ AugTail(w, m, j, c)
  \/ Is(w, i, j, ":=") /\ Expr(w, i + 1, j, c)
  \/ Is(w, i, j, ":") /\ c = "Slice" /\ Expr(w, i + 1, j, c)
  \/ /\ Is(w, i, j, "if") /\ c # "Comprehension"
     /\ \E m \in i + 2..j - 2 : Expr(w, i + 1, m, c) /\ w[m] = "else" /\ Expr(w, m + 1, j, c)
  \/ Is(w, i, j, ".") /\ Is(w, i + 1, j, "a") /\ Rest(w, i + 2, j, c)
  \/ /\ Is(w, i, j, "(")
     /\ \E m \in i + 1..j - 1 :
          w[m] = ")" /\ Args(w, i + 1, m, Within(c), FALSE) /\ Rest(w, m + 1, j, c)
  \/ /\ Is(w, i, j, "[")
     /\ \E m \in i + 2..j - 1 :
          w[m] = "]" /\ List(w, i + 1, m, "Slice") /\ Rest(w, m + 1, j, c)

Expr(w, i, j, c) ==
  /\ i < j
  /\ \/ w[i] \in {"+", "*", "not"} /\ Expr(w, i + 1, j, c)
     \/ \E m \in i + 1..j : Primary(w, i, m, c) /\ Rest(w, m, j, c)

Sentence(w) == List(w, 1, Len(w) + 1, "None")
=============================================================================
