----------------------------- MODULE Conditions -----------------------------
(***************************************************************************)
(* The condition language of detection rules: the recursive-descent parser *)
(* and the evaluation of what it returns (minisoc/detections/engine.py,    *)
(* _ConditionParser, the nodes, parse_condition), and, at the end, the     *)
(* grammar the source states for it, read without a parser.                *)
(*                                                                         *)
(* A condition is its tokens and what follows a "|".  A call of the parser *)
(* is a level of the grammar and the position it starts at; it returns a   *)
(* node and the position after it, or the name of the exception raised.    *)
(* The kids of a node are the calls that returned them.                    *)
(***************************************************************************)
EXTENDS Integers, Sequences, FiniteSets

CONSTANT Globs   \* pattern "prefix*" -> the selection names it covers

ASSUME GlobsAssumption == \A pattern \in DOMAIN Globs : pattern \in Globs[pattern]

Parsed(node, next) == [err |-> "none", node |-> node, next |-> next]
Raises(err) == [err |-> err, node |-> <<>>, next |-> 0]
Failed(parse) == parse.err # "none"

\* No token is the empty string: it stands for the end of the tokens.
Peek(toks, i) == IF i <= Len(toks) THEN toks[i] ELSE ""

\* The level the operands of an operator are parsed at, and the loop over them.
Below == [or |-> "and", and |-> "not"]
Loop == [or |-> "or loop", and |-> "and loop"]

\* _parse_quantifier: the pattern is taken without looking whether there is one.
ParseQuantifier(toks, i) ==
  IF Peek(toks, i + 1) # "of" THEN Raises("ValueError")
  ELSE IF i + 2 > Len(toks) THEN Raises("IndexError")
  ELSE Parsed([op |-> toks[i], pattern |-> toks[i + 2]], i + 3)

\* The operand at i, and those the loop finds after it.
ParseOperands(parse, op, i) ==
  LET call == <<Below[op], i>>
      operand == parse[call]
      others == parse[<<Loop[op], operand.next>>]
  IN IF Failed(operand) THEN operand
     ELSE IF Failed(others) THEN others
     ELSE Parsed(<<call>> \o others.node, others.next)

\* MUTANT of ParseRest: one operator per level, the rest is left for the caller.
ParseRestOnce(parse, op, toks, i) ==
  LET call == <<Below[op], i + 1>> IN
  IF Peek(toks, i) # op THEN Parsed(<<>>, i)
  ELSE IF Failed(parse[call]) THEN parse[call]
  ELSE Parsed(<<call>>, parse[call].next)

\* The loop over "or" (_parse_or), over "and" (_parse_and).
ParseRest(parse, op, toks, i) ==
  IF Peek(toks, i) = op THEN ParseOperands(parse, op, i + 1) ELSE Parsed(<<>>, i)

\* _parse_or, _parse_and; a node of one kid stands for the kid.
ParseChain(parse, op, i) ==
  LET operands == ParseOperands(parse, op, i) IN
  IF Failed(operands) THEN operands
  ELSE Parsed([op |-> op, kids |-> operands.node], operands.next)

\* _parse_atom: any other token is an identifier, a keyword or a ")" too.
ParseAtom(parse, toks, i) ==
  LET inner == parse[<<"or", i + 1>>] IN
  CASE i > Len(toks) -> Raises("ValueError")
    [] Peek(toks, i) = "(" ->
         IF Failed(inner) THEN inner
         ELSE IF Peek(toks, inner.next) # ")" THEN Raises("ValueError")
         ELSE Parsed(inner.node, inner.next + 1)
    [] Peek(toks, i) \in {"1", "all"} -> ParseQuantifier(toks, i)
    [] OTHER -> Parsed([op |-> "ident", name |-> toks[i]], i + 1)

\* _parse_not
ParseNot(parse, toks, i) ==
  LET kid == parse[<<"not", i + 1>>] IN
  IF Peek(toks, i) # "not" THEN ParseAtom(parse, toks, i)
  ELSE IF Failed(kid) THEN kid
  ELSE Parsed([op |-> "not", kids |-> <<<<"not", i + 1>>>>], kid.next)

\* What a call returns, when parse says what the calls it makes return.
Returns(parse, toks, call) ==
  CASE call[1] \in {"or", "and"} -> ParseChain(parse, call[1], call[2])
    [] call[1] = "or loop" -> ParseRest(parse, "or", toks, call[2])
    [] call[1] = "and loop" -> ParseRest(parse, "and", toks, call[2])
    [] OTHER -> ParseNot(parse, toks, call[2])

Levels == {"or", "and", "not"}

Calls(toks) ==
  LET parse[call \in (Levels \union {"or loop", "and loop"}) \X (1..(Len(toks) + 1))] ==
        Returns(parse, toks, call)
  IN parse

\* _ConditionParser.parse: no token may be left.
ParseSearch(toks) ==
  LET parse == Calls(toks)[<<"or", 1>>] IN
  CASE parse.err = "IndexError" -> "IndexError"
    [] parse.err = "none" /\ parse.next > Len(toks) -> "none"
    [] OTHER -> "ValueError"

\* parse_condition, by the exception it raises; what follows the "|" is parsed
\* first, and pipe is "bad" when Aggregation.parse refuses it.
ParseCondition(condition) ==
  IF condition.pipe = "bad" THEN "ValueError" ELSE ParseSearch(condition.search)

-----------------------------------------------------------------------------
(* Evaluation.  results maps every selection of the rule to whether it     *)
(* matches the event.                                                      *)

Covered(pattern, names) ==
  IF pattern = "them" THEN names
  ELSE names \intersect IF pattern \in DOMAIN Globs THEN Globs[pattern] ELSE {pattern}

\* Over no selection at all, neither quantifier holds.
Quantified(quant, pattern, results) ==
  LET names == Covered(pattern, DOMAIN results) IN
  /\ names # {}
  /\ IF quant = "all" THEN \A n \in names : results[n] ELSE \E n \in names : results[n]

Known(name, results) == name \in DOMAIN results /\ results[name]

\* What a node comes to, from what its kids do.
Eval(node, value, results) ==
  CASE node.op = "ident" -> Known(node.name, results)
    [] node.op = "not" -> ~value[node.kids[1]]
    [] node.op = "and" -> \A k \in DOMAIN node.kids : value[node.kids[k]]
    [] node.op = "or" -> \E k \in DOMAIN node.kids : value[node.kids[k]]
    [] OTHER -> Quantified(node.op, node.pattern, results)

\* Whether the condition holds, once it has been parsed.
Holds(condition, results) ==
  LET parse == Calls(condition.search)
      nodes == {call \in DOMAIN parse : call[1] \in Levels /\ ~Failed(parse[call])}
      value[call \in nodes] == Eval(parse[call].node, value, results)
  IN value[<<"or", 1>>]

-----------------------------------------------------------------------------
(* The grammar of the comment in the source (engine.py 131-139).  An IDENT *)
(* is any token where an operand stands that begins no other operand.      *)

\* Some of the selections a pattern names hold, and for "all" no other is named.
Some(quant, pattern, results) ==
  LET names == IF pattern = "them" THEN DOMAIN results
               ELSE {n \in DOMAIN results :
                       n = pattern \/ (pattern \in DOMAIN Globs /\ n \in Globs[pattern])}
      hits == {n \in names : results[n]}
  IN hits # {} /\ (quant = "all" => hits = names)

\* Two operands of an operator, and the values of the tokens i to j read as such.
Join(op, x, y) == IF op = "and" THEN x /\ y ELSE x \/ y
Joined(reading, toks, op, i, j) ==
  {v \in BOOLEAN : \E k \in (i + 1)..(j - 1) :
     toks[k] = op /\ \E x \in reading[<<op, i, k - 1>>], y \in reading[<<Below[op], k + 1, j>>] : v = Join(op, x, y)}

\* The values of the tokens i to j when reading says what shorter spans can mean:
\* none when the grammar does not derive them from the nonterminal nt.
ReadingsOf(reading, toks, results, nt, i, j) ==
  IF i > j THEN {}
  ELSE IF nt # "not" THEN reading[<<Below[nt], i, j>>] \union Joined(reading, toks, nt, i, j)
  ELSE CASE toks[i] = "not" -> {~x : x \in reading[<<"not", i + 1, j>>]}
         [] toks[i] = "(" -> IF toks[j] = ")" THEN reading[<<"or", i + 1, j - 1>>] ELSE {}
         [] toks[i] \in {"1", "all"} ->
              IF j = i + 2 /\ toks[i + 1] = "of" THEN {Some(toks[i], toks[j], results)} ELSE {}
         [] OTHER -> IF i = j THEN {Known(toks[i], results)} ELSE {}

\* What the condition means for these results; {} when it means nothing.
Meaning(condition, results) ==
  LET toks == condition.search
      reading[span \in Levels \X (1..(Len(toks) + 1)) \X (0..Len(toks))] ==
        ReadingsOf(reading, toks, results, span[1], span[2], span[3])
  IN IF condition.pipe = "bad" THEN {} ELSE reading[<<"or", 1, Len(toks)>>]

=============================================================================
