----------------------------- MODULE Calculator -----------------------------
(***************************************************************************)
(* evalExpression of internal/service/common_tools.go: a parser by          *)
(* recursive descent that computes while it reads.  The input is a          *)
(* sequence of tokens, the characters of a number being one; spaces, which  *)
(* the parser skips before every token, are left out, so two numbers in a   *)
(* row stand for numbers with a space between.  A value is a fraction, with *)
(* no rounding.                                                             *)
(*                                                                          *)
(* The parser remembers nothing but its position, and every call is made    *)
(* further on, so the calls are tabulated by position, from the end.        *)
(***************************************************************************)
EXTENDS Integers, Sequences

Numeral(n) == [is |-> "number", n |-> n]
Symbol(c)  == [is |-> c, n |-> 0]

Fraction(n, d) == [n |-> n, d |-> d]

Same(x, y) == x.n * y.d = y.n * x.d

Minus(x)      == Fraction(-x.n, x.d)
Plus(x, y)    == Fraction(x.n * y.d + y.n * x.d, x.d * y.d)
Times(x, y)   == Fraction(x.n * y.n, x.d * y.d)
Over(x, y)    == IF y.n > 0 THEN Fraction(x.n * y.d, x.d * y.n)
                            ELSE Fraction(-(x.n * y.d), -(x.d * y.n))

\* math.Mod: the remainder of a division that rounds towards zero.
Mod(x, y) ==
  LET q == Over(x, y)
      whole == IF q.n >= 0 THEN q.n \div q.d ELSE -((-q.n) \div q.d)
  IN  Plus(x, Minus(Times(Fraction(whole, 1), y)))

Apply(op, x, y) ==
  CASE op = "+" -> Plus(x, y)
    [] op = "-" -> Plus(x, Minus(y))
    [] op = "*" -> Times(x, y)
    [] op = "/" -> Over(x, y)
    [] op = "%" -> Mod(x, y)

TermOps       == {"*", "/", "%"}
ExpressionOps == {"+", "-"}

\* What is computed is defined unless something is divided by zero.
Applies(op, y) == ~ (op \in {"/", "%"} /\ y.n = 0)

\* A parse: the value read and the next position, or an error.
Read(v, at) == [ok |-> TRUE, v |-> v, at |-> at]
Failed == [ok |-> FALSE, v |-> Fraction(0, 1), at |-> 0]

TokenAt(s, at) == IF at <= Len(s) THEN s[at].is ELSE "end"

ParseNumber(s, at) ==
  IF TokenAt(s, at) = "number" THEN Read(Fraction(s[at].n, 1), at + 1) ELSE Failed

\* later holds the parses at the positions behind this one.
ParseFactor(s, at, later) ==
  LET factor     == later[at + 1].factor
      expression == later[at + 1].expression
  IN  CASE TokenAt(s, at) = "+" -> factor
        [] TokenAt(s, at) = "-" -> IF factor.ok THEN Read(Minus(factor.v), factor.at) ELSE Failed
        [] TokenAt(s, at) = "(" ->
             IF expression.ok /\ TokenAt(s, expression.at) = ")"
               THEN Read(expression.v, expression.at + 1) ELSE Failed
        [] OTHER -> ParseNumber(s, at)

\* One turn of the loop of parseTerm or of parseExpression, after which left is
\* what was read so far: an operator and its right operand, or nothing more.
Turn(s, ops, left, operands) ==
  LET op    == TokenAt(s, left.at)
      right == operands[left.at + 1]
  IN  IF ~left.ok \/ op \notin ops THEN left
      ELSE IF right.ok /\ Applies(op, right.v)
        THEN Read(Apply(op, left.v, right.v), right.at)
        ELSE Failed

\* A turn that goes on reads two tokens, so the loop has fewer turns than the
\* text has tokens; the turns after its end change nothing.
Turns(s, ops, first, operands) ==
  LET turn[i \in 0 .. Len(s)] == IF i = 0 THEN first ELSE Turn(s, ops, turn[i - 1], operands)
  IN  turn

\* Bug: one operator of a term instead of all.
ParseOperatorsOnce(s, ops, first, operands) == Turn(s, ops, first, operands)

ParseOperators(s, ops, first, operands) == Turns(s, ops, first, operands)[Len(s)]

ParseAt(s, at, later) ==
  LET factor == ParseFactor(s, at, later)
      term   == ParseOperators(s, TermOps, factor, [q \in DOMAIN later |-> later[q].factor])
  IN  [factor |-> factor, term |-> term,
       expression |-> ParseOperators(s, ExpressionOps, term,
                                     [q \in DOMAIN later |-> later[q].term])]

ParsesFrom(s) ==
  LET from[at \in 1 .. Len(s) + 2] ==
        IF at = Len(s) + 2 THEN [q \in {} |-> Failed]
        ELSE LET later == from[at + 1]
                 here  == ParseAt(s, at, later)
             IN  [q \in at .. Len(s) + 1 |-> IF q = at THEN here ELSE later[q]]
  IN  from

EvalExpression(s) ==
  LET e == ParsesFrom(s)[1][1].expression
  IN  IF e.ok /\ e.at = Len(s) + 1 THEN e ELSE Failed
-----------------------------------------------------------------------------
(* The reference: the grammar
     expression ::= term | expression (+ | -) term
     term       ::= factor | term ( * | / | % ) factor
     factor     ::= number | (+ | -) factor | ( expression )
   read bottom up: of each part of the text, from a position to just before
   another, what it derives and with which values.                           *)

Span(from, to, v) == [from |-> from, to |-> to, v |-> v]

\* A sign before a factor, and brackets around an expression.
Signed(s, factors) ==
  {Span(x.from - 1, x.to, IF s[x.from - 1].is = "-" THEN Minus(x.v) ELSE x.v) :
     x \in {y \in factors : y.from > 1 /\ s[y.from - 1].is \in {"+", "-"}}}

Bracketed(s, expressions) ==
  {Span(x.from - 1, x.to + 1, x.v) :
     x \in {y \in expressions : /\ y.from > 1 /\ s[y.from - 1].is = "("
                                /\ y.to <= Len(s) /\ s[y.to].is = ")"}}

\* Two neighbours with an operator between them.
Combined(s, ops, lefts, rights) ==
  UNION {{Span(x.from, y.to, Apply(s[x.to].is, x.v, y.v)) :
            y \in {z \in rights : z.from = x.to + 1 /\ Applies(s[x.to].is, z.v)}} :
           x \in {z \in lefts : z.to <= Len(s) /\ s[z.to].is \in ops}}

Derive(s, chart) ==
  LET factors == {Span(i, i + 1, Fraction(s[i].n, 1)) : i \in {j \in 1 .. Len(s) : s[j].is = "number"}}
                   \cup Signed(s, chart.factor) \cup Bracketed(s, chart.expression)
      terms   == factors \cup Combined(s, TermOps, chart.term, factors)
  IN  [factor |-> factors, term |-> terms,
       expression |-> terms \cup Combined(s, ExpressionOps, chart.expression, terms)]

\* A part of n tokens is derived after n turns.
Charts(s) ==
  LET chart[n \in 0 .. Len(s)] ==
        IF n = 0 THEN [factor |-> {}, term |-> {}, expression |-> {}]
        ELSE Derive(s, chart[n - 1])
  IN  chart

Values(s) == {x.v : x \in {y \in Charts(s)[Len(s)].expression : y.from = 1 /\ y.to = Len(s) + 1}}

\* The parser accepts what the grammar derives and gives it its value.
AgreesWithGrammar(s) ==
  LET e == EvalExpression(s)
  IN  IF e.ok THEN Values(s) # {} /\ \A v \in Values(s) : Same(v, e.v) ELSE Values(s) = {}
=============================================================================
