---------------------------- MODULE FilterParser ----------------------------
(***************************************************************************)
(* The parser of list filters (internal/requestparams/rsql.go).  An input  *)
(* is a sequence of tokens: "p" is the name of an allowed field with a     *)
(* comparison ("status=="), "l" one with a list operator ("status=in="),   *)
(* "x" an unsupported field or operator, "v" other text (escaped           *)
(* characters included), "_" white space, and the four delimiters.         *)
(***************************************************************************)
EXTENDS Integers, Sequences, SequencesExt

CONSTANTS
  MaxTokens,  \* length of the arbitrary inputs
  MaxLeaves   \* predicates of the expressions that are printed and parsed back

Tokens == {"p", "l", "x", "v", "_", "(", ")", ";", ","}
Delimiters == {";", ",", ")"}

Error == [pos |-> 0, node |-> <<>>]
Result(pos, node) == [pos |-> pos, node |-> node]

(* Token at pos; "" at the end (peekRune). *)
Peek(in, pos) == IF pos <= Len(in) THEN in[pos] ELSE ""

RECURSIVE skipWhitespace(_, _)
skipWhitespace(in, pos) ==
  IF Peek(in, pos) = "_" THEN skipWhitespace(in, pos + 1) ELSE pos

(* A value runs to the next delimiter, opening parentheses included. *)
parseValue(in, pos0) ==
  LET pos == skipWhitespace(in, pos0)
      ends == {e \in pos .. Len(in) : in[e] \in Delimiters} \union {Len(in) + 1}
      end == CHOOSE e \in ends : \A f \in ends : e <= f
  IN  IF end <= pos THEN Error ELSE Result(end, SubSeq(in, pos, end - 1))

(* The values of a list after its opening parenthesis. *)
RECURSIVE listValues(_, _, _)
listValues(in, pos, values) ==
  LET value == parseValue(in, pos)
      after == skipWhitespace(in, value.pos)
      more  == Append(values, value.node)
  IN  CASE pos > Len(in)                  -> Error
        [] Peek(in, pos) = ")"            -> Result(pos + 1, values)
        [] value.pos = 0                  -> Error
        [] Peek(in, after) = ","          -> listValues(in, skipWhitespace(in, after + 1), more)
        [] Peek(in, after) = ")"          -> Result(after + 1, more)
        [] OTHER                          -> Error

parseListValue(in, pos0) ==
  LET pos == skipWhitespace(in, pos0)
  IN  IF Peek(in, pos) # "(" THEN Error
      ELSE listValues(in, skipWhitespace(in, pos + 1), <<>>)

Leaf(op, values) == [op |-> op, values |-> values]
Node(op, left, right) == [op |-> op, children |-> <<left, right>>]

parsePredicate(in, pos) ==
  CASE Peek(in, pos) = "p" ->
         LET v == parseValue(in, pos + 1)
         IN  IF v.pos = 0 THEN Error ELSE Result(v.pos, Leaf("p", <<v.node>>))
    [] Peek(in, pos) = "l" ->
         LET v == parseListValue(in, pos + 1)
         IN  IF v.pos = 0 THEN Error ELSE Result(v.pos, Leaf("l", v.node))
    [] OTHER -> Error

RECURSIVE parseOr(_, _), parsePrimary(_, _), andRest(_, _), orRest(_, _)

parsePrimary(in, pos0) ==
  LET pos   == skipWhitespace(in, pos0)
      inner == parseOr(in, pos + 1)
      close == skipWhitespace(in, inner.pos)
  IN  IF Peek(in, pos) # "(" THEN parsePredicate(in, pos)
      ELSE IF inner.pos = 0 \/ Peek(in, close) # ")" THEN Error
      ELSE Result(close + 1, inner.node)

(* Further operands joined by ";", to the left. *)
andRest(in, left) ==
  LET right == parsePrimary(in, left.pos + 1)
  IN  IF left.pos = 0 \/ Peek(in, left.pos) # ";" THEN left
      ELSE IF right.pos = 0 THEN Error
      ELSE andRest(in, Result(right.pos, Node("and", left.node, right.node)))

parseAnd(in, pos) == andRest(in, parsePrimary(in, pos))

(* Further operands joined by ",", to the left. *)
orRest_NoPrecedence(in, left) ==
  LET right == parsePrimary(in, left.pos + 1)
  IN  IF left.pos = 0 \/ Peek(in, left.pos) # "," THEN left
      ELSE IF right.pos = 0 THEN Error
      ELSE andRest(in, orRest(in, Result(right.pos, Node("or", left.node, right.node))))

orRest(in, left) ==
  LET right == parseAnd(in, left.pos + 1)
  IN  IF left.pos = 0 \/ Peek(in, left.pos) # "," THEN left
      ELSE IF right.pos = 0 THEN Error
      ELSE orRest(in, Result(right.pos, Node("or", left.node, right.node)))

parseOr(in, pos) == orRest(in, parseAnd(in, pos))

(* The input without white space at its ends. *)
TrimSpace(in) ==
  LET text == {i \in DOMAIN in : in[i] # "_"}
  IN  IF text = {} THEN <<>>
      ELSE SubSeq(in, CHOOSE i \in text : \A j \in text : i <= j,
                      CHOOSE i \in text : \A j \in text : i >= j)

ParseRSQL(in) ==
  LET trimmed == TrimSpace(in)
  IN  IF trimmed = <<>> THEN Error ELSE parseOr(trimmed, 1)

-----------------------------------------------------------------------------
(* Expressions and their texts: what a client that follows the grammar     *)
(* sends.                                                                  *)

RECURSIVE Trees(_)
Trees(n) ==
  IF n = 1 THEN {Leaf("p", <<<<"v">>>>), Leaf("l", <<<<"v">>, <<"v">>>>)}
  ELSE {Node(op, l, r) : op \in {"and", "or"}, l \in UNION {Trees(k) : k \in 1 .. n - 1},
                         r \in UNION {Trees(k) : k \in 1 .. n - 1}}

Parens(text) == <<"(">> \o text \o <<")">>

RECURSIVE Text(_)
Text(t) ==
  CASE t.op = "p" -> <<"p", "v">>
    [] t.op = "l" -> <<"l", "(", "v", ",", "v", ")">>
    [] t.op = "and" ->
         LET l == t.children[1]
             r == t.children[2]
         IN  (IF l.op = "or" THEN Parens(Text(l)) ELSE Text(l)) \o <<";">>
               \o (IF r.op \in {"or", "and"} THEN Parens(Text(r)) ELSE Text(r))
    [] t.op = "or" ->
         LET r == t.children[2]
         IN  Text(t.children[1]) \o <<",">> \o (IF r.op = "or" THEN Parens(Text(r)) ELSE Text(r))

VARIABLES
  expr,   \* the expression the client means; <<>> for an arbitrary input
  input,  \* the tokens it sends
  parsed \* <<>> before, <<the parser's result>> after

filterVars == <<expr, input, parsed>>

FilterTypeOK ==
  /\ Range(input) \subseteq Tokens
  /\ parsed # <<>> => parsed[1].pos \in 0 .. Len(input) + 1

FilterInit ==
  /\ \/ expr \in UNION {{<<t>> : t \in Trees(n)} : n \in 1 .. MaxLeaves} /\ input = Text(expr[1])
     \/ expr = <<>> /\ input \in UNION {[1 .. n -> Tokens] : n \in 0 .. MaxTokens}
  /\ parsed = <<>>

FilterNext ==
  /\ parsed = <<>>
  /\ parsed' = <<ParseRSQL(input)>>
  /\ UNCHANGED <<expr, input>>

FilterSpec == FilterInit /\ [][FilterNext]_filterVars

-----------------------------------------------------------------------------
(* Every expression written by the grammar is parsed to itself: ";" binds  *)
(* tighter than ",", both associate to the left, and parentheses override  *)
(* both.                                                                   *)
FilterRoundTrip ==
  expr # <<>> /\ parsed # <<>> => parsed[1] = Result(Len(input) + 1, expr[1])

(* What an accepted filter leaves unread: the parser does not check that   *)
(* it stopped at the end, but it never stops before a connective, so a     *)
(* condition is left out of the query only behind a parenthesis: one that  *)
(* closes nothing, or a closing one followed by no connective.             *)
UnreadFollowsParenthesis ==
  parsed # <<>> =>
    LET in  == TrimSpace(input)
        pos == parsed[1].pos
    IN  pos \in 1 .. Len(in) =>
          /\ in[pos] \notin {";", ","}
          /\ in[pos] = ")" \/ in[pos - 1] = ")"
=============================================================================
