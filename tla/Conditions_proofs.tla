-------------------------- MODULE Conditions_proofs --------------------------
(***************************************************************************)
(* The parser of conditions, for every list of tokens: what it accepts and *)
(* what it makes of it are what the grammar says (ParserIsGrammar).        *)
(***************************************************************************)
EXTENDS Conditions, Inductions

-----------------------------------------------------------------------------
(* The calls of the parser. *)

\* The calls of the parser over n tokens, and an order of them: a call rests on
\* later positions, or on the same position and a level below.
Ops == {"or", "and"}
Loops == {"or loop", "and loop"}
Kinds == Levels \union Loops
CallsOver(n) == Kinds \X (1..(n + 1))
Height(level) == IF level = "or" THEN 2 ELSE IF level = "and" THEN 1 ELSE 0
Rank(n, call) == 3 * (n + 1 - call[2]) + Height(call[1])

\* Nodes whose kids are calls that have been parsed and rank below r.
Parents(parse, n, r, kids) ==
  /\ kids \in Seq(Levels \X (1..(n + 1)))
  /\ \A k \in 1..Len(kids) : ~Failed(parse[kids[k]]) /\ Rank(n, kids[k]) < r
IsNode(parse, n, r, node) ==
  \/ node.op \in Ops /\ Parents(parse, n, r, node.kids)
  \/ node.op = "not" /\ Len(node.kids) = 1 /\ Parents(parse, n, r, node.kids)
  \/ node.op \in {"ident", "1", "all"}

\* What a call may return: a position it moves on to, and a node of calls below it.
Fits(parse, n, call, return) ==
  /\ return.err = "none" => return.next \in Int /\ return.next <= n + 1
  /\ return.err = "none" /\ call[1] \in Levels =>
       /\ return.next > call[2]
       /\ IsNode(parse, n, Rank(n, call), return.node)
  /\ return.err = "none" /\ call[1] \notin Levels =>
       /\ return.next >= call[2]
       /\ Parents(parse, n, Rank(n, call), return.node)

\* The kinds of calls.
LEMMA KindsAre ==
  /\ \A kind \in Kinds : kind \in Ops \/ kind \in Loops \/ kind = "not"
  /\ \A op \in Ops : op \in Kinds /\ op \in Levels /\ Below[op] \in Levels /\ Loop[op] \in Loops
                     /\ Below[op] \in Kinds /\ Loop[op] \in Kinds
  /\ \A loop \in Loops : loop \in Kinds /\ loop \notin Levels /\ loop \notin Ops
  /\ \A level \in Levels : level \in Kinds /\ (level \in Ops \/ level = "not")
  /\ "not" \in Kinds /\ "not" \in Levels /\ "or" \in Ops /\ "and" \in Ops
<1>1. /\ Below["or"] = "and" /\ Below["and"] = "not"
      /\ Loop["or"] = "or loop" /\ Loop["and"] = "and loop"
  BY DEF Below, Loop
<1>2. \A op \in Ops : /\ op \in Kinds /\ op \in Levels /\ Below[op] \in Levels /\ Loop[op] \in Loops
                      /\ Below[op] \in Kinds /\ Loop[op] \in Kinds
  BY <1>1 DEF Ops, Levels, Loops, Kinds
<1> QED
  BY <1>2 DEF Ops, Levels, Loops, Kinds

\* Three heights at a position.
LEMMA HeightOf ==
  /\ \A level : Height(level) \in Int /\ 0 <= Height(level) /\ Height(level) <= 2
  /\ Height("or") = 2 /\ Height("and") = 1
  /\ \A level \in {"not", "or loop", "and loop"} : Height(level) = 0
<1>1. \A level : Height(level) \in Int /\ 0 <= Height(level) /\ Height(level) <= 2
  BY DEF Height
<1>2. Height("or") = 2 /\ Height("and") = 1
  BY DEF Height
<1>3. Height("not") = 0 /\ Height("or loop") = 0 /\ Height("and loop") = 0
  BY DEF Height
<1> QED
  BY <1>1, <1>2, <1>3

\* Calls that rank below others.
LEMMA RankOf ==
  ASSUME NEW n \in Nat, NEW call \in CallsOver(n)
  PROVE  /\ call[2] \in 1..(n + 1) /\ call = <<call[1], call[2]>>
         /\ call[1] \in Kinds
         /\ Rank(n, call) \in Nat /\ Rank(n, call) <= 3 * n + 2
<1>1. /\ call[2] \in 1..(n + 1) /\ call = <<call[1], call[2]>>
      /\ call[1] \in Kinds
  <2> DEFINE B == 1..(n + 1)
  <2>1. call \in Kinds \X B
    BY DEF CallsOver
  <2> HIDE DEF B
  <2>2. PICK kind \in Kinds, i \in B : call = <<kind, i>>
    BY <2>1
  <2>3. call[1] = kind /\ call[2] = i
    BY <2>2
  <2> QED
    BY <2>2, <2>3 DEF B
<1> DEFINE h == Height(call[1])
           i == call[2]
<1>2. h \in Int /\ 0 <= h /\ h <= 2
  BY HeightOf
<1>3. Rank(n, call) = 3 * (n + 1 - i) + h
  BY DEF Rank
<1>4. i \in 1..(n + 1)
  BY <1>1
<1> HIDE DEF h, i
<1>5. Rank(n, call) \in Nat /\ Rank(n, call) <= 3 * n + 2
  BY <1>2, <1>3, <1>4
<1> QED
  BY <1>1, <1>5

\* A later position ranks below.
LEMMA RankLater ==
  ASSUME NEW n \in Nat, NEW i \in Int, NEW j \in Int, i < j, NEW low, NEW high
  PROVE  Rank(n, <<low, j>>) < Rank(n, <<high, i>>)
<1> DEFINE l == Height(low)
           h == Height(high)
<1>1. l \in Int /\ l <= 2 /\ h \in Int /\ 0 <= h
  BY HeightOf
<1>2. Rank(n, <<low, j>>) = 3 * (n + 1 - j) + l /\ Rank(n, <<high, i>>) = 3 * (n + 1 - i) + h
  BY DEF Rank
<1> HIDE DEF l, h
<1> QED
  BY <1>1, <1>2

\* At one position a lower level ranks below a higher one.
LEMMA RankAt ==
  ASSUME NEW n \in Nat, NEW i \in Int
  PROVE  \A low, high : Height(low) < Height(high) => Rank(n, <<low, i>>) < Rank(n, <<high, i>>)
<1> SUFFICES ASSUME NEW low, NEW high, Height(low) < Height(high)
             PROVE  Rank(n, <<low, i>>) < Rank(n, <<high, i>>)
  OBVIOUS
<1> DEFINE b == 3 * (n + 1 - i)
           l == Height(low)
           h == Height(high)
<1>1. Rank(n, <<low, i>>) = b + l /\ Rank(n, <<high, i>>) = b + h
  BY DEF Rank
<1>2. l \in Int /\ h \in Int
  BY HeightOf
<1>3. b \in Int
  OBVIOUS
<1>4. l < h
  OBVIOUS
<1> HIDE DEF b, l, h
<1> QED
  BY <1>1, <1>2, <1>3, <1>4

\* So do the operands of an operator, and the loop over them.
LEMMA RankBelow ==
  ASSUME NEW n \in Nat, NEW i \in Int, NEW op \in Ops
  PROVE  /\ Rank(n, <<Below[op], i>>) < Rank(n, <<op, i>>)
         /\ Rank(n, <<Loop[op], i>>) < Rank(n, <<op, i>>)
<1>1. Below["or"] = "and" /\ Loop["or"] = "or loop" /\ Below["and"] = "not" /\ Loop["and"] = "and loop"
  BY DEF Below, Loop
<1>3. /\ Height("or") = 2 /\ Height("and") = 1
      /\ Height("not") = 0 /\ Height("or loop") = 0 /\ Height("and loop") = 0
  BY HeightOf
<1>4. \A a, b : \A x, y \in Int : Height(a) = x /\ Height(b) = y /\ x < y => Rank(n, <<a, i>>) < Rank(n, <<b, i>>)
  BY RankAt
<1>5. 0 \in Int /\ 1 \in Int /\ 2 \in Int /\ 0 < 1 /\ 0 < 2 /\ 1 < 2
  OBVIOUS
<1>6. /\ Rank(n, <<"and", i>>) < Rank(n, <<"or", i>>)
      /\ Rank(n, <<"or loop", i>>) < Rank(n, <<"or", i>>)
      /\ Rank(n, <<"not", i>>) < Rank(n, <<"and", i>>)
      /\ Rank(n, <<"and loop", i>>) < Rank(n, <<"and", i>>)
  BY <1>3, <1>4, <1>5, Zenon
<1>7. CASE op = "or"
  BY <1>1, <1>6, <1>7, Zenon
<1>8. CASE op = "and"
  BY <1>1, <1>6, <1>8, Zenon
<1> QED
  BY <1>7, <1>8 DEF Ops

\* The calls there are.
LEMMA CallsAre ==
  ASSUME NEW n \in Nat, NEW i \in 1..(n + 1)
  PROVE  \A kind \in Kinds : <<kind, i>> \in CallsOver(n)
BY DEF CallsOver

\* The levels are calls too.
LEMMA LevelsAre ==
  ASSUME NEW n \in Nat, NEW kid \in Levels \X (1..(n + 1))
  PROVE  kid \in CallsOver(n) /\ Rank(n, kid) \in Int
<1> DEFINE B == 1..(n + 1)
<1>1. kid \in Levels \X B
  OBVIOUS
<1> HIDE DEF B
<1>2. kid \in CallsOver(n)
  <2>1. PICK l \in Levels, i \in B : kid = <<l, i>>
    BY <1>1
  <2>2. l \in Kinds
    BY KindsAre
  <2> QED
    BY <2>1, <2>2 DEF CallsOver, B
<1>3. Rank(n, kid) \in Nat
  BY <1>2, RankOf
<1> QED
  BY <1>2, <1>3

\* Kids may be put in front of others, and rank below whatever is higher.
LEMMA ParentsMore ==
  ASSUME NEW parse, NEW n \in Nat, NEW r \in Int, NEW low \in Int, low <= r,
         NEW kids, Parents(parse, n, low, kids)
  PROVE  /\ Parents(parse, n, r, kids)
         /\ \A call \in Levels \X (1..(n + 1)) : ~Failed(parse[call]) /\ Rank(n, call) < r =>
              /\ Parents(parse, n, r, <<call>> \o kids)
              /\ Len(<<call>> \o kids) = Len(kids) + 1
              /\ (<<call>> \o kids)[1] = call
              /\ \A k \in 1..Len(kids) : (<<call>> \o kids)[k + 1] = kids[k]
<1> DEFINE L == Levels \X (1..(n + 1))
<1>1. kids \in Seq(L) /\ \A k \in 1..Len(kids) : ~Failed(parse[kids[k]]) /\ Rank(n, kids[k]) < low
  BY DEF Parents
<1>2. \A kid \in L : Rank(n, kid) \in Int
  BY LevelsAre
<1> HIDE DEF L
<1>3. \A k \in 1..Len(kids) : ~Failed(parse[kids[k]]) /\ Rank(n, kids[k]) < r
  <2> SUFFICES ASSUME NEW k \in 1..Len(kids) PROVE ~Failed(parse[kids[k]]) /\ Rank(n, kids[k]) < r
    OBVIOUS
  <2>1. kids[k] \in L
    BY <1>1
  <2>2. Rank(n, kids[k]) \in Int
    BY <1>2, <2>1
  <2>3. Rank(n, kids[k]) < low
    BY <1>1
  <2>4. Rank(n, kids[k]) < r
    BY <2>2, <2>3
  <2> QED
    BY <1>1, <2>4
<1>4. Parents(parse, n, r, kids)
  BY <1>1, <1>3 DEF Parents, L
<1>5. ASSUME NEW call \in L, ~Failed(parse[call]), Rank(n, call) < r
      PROVE  /\ Parents(parse, n, r, <<call>> \o kids)
             /\ Len(<<call>> \o kids) = Len(kids) + 1
             /\ (<<call>> \o kids)[1] = call
             /\ \A k \in 1..Len(kids) : (<<call>> \o kids)[k + 1] = kids[k]
  <2> DEFINE s == <<call>> \o kids
  <2>1. /\ s \in Seq(L) /\ Len(s) = Len(kids) + 1 /\ s[1] = call
        /\ \A k \in 1..Len(kids) : s[k + 1] = kids[k]
        /\ \A k \in 1..(Len(kids) + 1) : k # 1 => k - 1 \in 1..Len(kids) /\ s[k] = kids[k - 1]
    BY <1>1
  <2> HIDE DEF s
  <2>2. \A k \in 1..Len(s) : ~Failed(parse[s[k]]) /\ Rank(n, s[k]) < r
    BY <1>3, <1>5, <2>1
  <2>3. Parents(parse, n, r, s)
    BY <2>1, <2>2 DEF Parents, L
  <2> QED
    BY <2>1, <2>3 DEF s
<1> QED
  BY <1>4, <1>5 DEF L

\* Two answers agree on what is below r, and it fits.
Agree(f, g, n, r) ==
  \A d \in CallsOver(n) : Rank(n, d) < r => f[d] = g[d] /\ Fits(f, n, d, f[d])

\* What the operands of an operator return rests on calls that rank below r.
LEMMA OperandsOf ==
  ASSUME NEW n \in Nat, NEW r \in Int, NEW f, NEW g, Agree(f, g, n, r),
         NEW op \in Ops, NEW i \in 1..(n + 1), Rank(n, <<Below[op], i>>) < r
  PROVE  /\ ParseOperands(f, op, i) = ParseOperands(g, op, i)
         /\ ParseOperands(f, op, i).err = "none" =>
              /\ ParseOperands(f, op, i).next \in (i + 1)..(n + 1)
              /\ Parents(f, n, r, ParseOperands(f, op, i).node)
<1> DEFINE call == <<Below[op], i>>
           x == f[call]
           loop == <<Loop[op], x.next>>
           y == f[loop]
<1>1. Below[op] \in Levels /\ Loop[op] \notin Levels /\ Loop[op] \in Kinds
  BY KindsAre
<1>2. call \in Levels \X (1..(n + 1)) /\ call[1] = Below[op] /\ call[2] = i
  BY <1>1
<1>3. call \in CallsOver(n)
  BY <1>2, LevelsAre
<1>4. f[call] = g[call] /\ Fits(f, n, call, x)
  BY <1>3 DEF Agree
<1>5. CASE Failed(x)
  <2>1. ParseOperands(f, op, i) = x /\ ParseOperands(g, op, i) = x
    BY <1>4, <1>5 DEF ParseOperands
  <2> QED
    BY <1>5, <2>1 DEF Failed
<1>6. CASE ~Failed(x)
  <2>1. x.next \in Int /\ x.next > i /\ x.next <= n + 1
    BY <1>1, <1>2, <1>4, <1>6 DEF Fits, Failed
  <2>2. loop \in CallsOver(n) /\ loop[1] = Loop[op] /\ loop[2] = x.next
    <3> DEFINE j == x.next
               level == Loop[op]
    <3>1. j \in 1..(n + 1)
      BY <2>1
    <3>2. level \in Kinds
      BY <1>1
    <3> HIDE DEF j, level
    <3>3. <<level, j>> \in CallsOver(n)
      BY <3>1, <3>2, CallsAre
    <3> QED
      BY <3>3 DEF j, level
  <2>3. Rank(n, loop) < Rank(n, call)
    BY <2>1, RankLater
  <2>4. Rank(n, loop) \in Int /\ Rank(n, call) \in Int
    <3>1. Rank(n, loop) \in Nat
      BY <2>2, RankOf
    <3>2. Rank(n, call) \in Nat
      BY <1>3, RankOf
    <3> QED
      BY <3>1, <3>2
  <2>5. Rank(n, loop) < r
    BY <2>3, <2>4
  <2>6. f[loop] = g[loop] /\ Fits(f, n, loop, y)
    BY <2>2, <2>5 DEF Agree
  <2>7. CASE Failed(y)
    <3>1. ParseOperands(f, op, i) = y /\ ParseOperands(g, op, i) = y
      BY <1>4, <1>6, <2>6, <2>7 DEF ParseOperands
    <3> QED
      BY <2>7, <3>1 DEF Failed
  <2>8. CASE ~Failed(y)
    <3> DEFINE O == Parsed(<<call>> \o y.node, y.next)
    <3>1. ParseOperands(f, op, i) = O /\ ParseOperands(g, op, i) = O
      BY <1>4, <1>6, <2>6, <2>8 DEF ParseOperands
    <3>2. y.next \in Int /\ y.next >= x.next /\ y.next <= n + 1 /\ Parents(f, n, Rank(n, loop), y.node)
      BY <1>1, <2>2, <2>6, <2>8 DEF Fits, Failed
    <3>3. O.next = y.next /\ O.node = <<call>> \o y.node
      BY DEF Parsed
    <3>4. Parents(f, n, r, <<call>> \o y.node)
      <4> DEFINE low == Rank(n, loop)
      <4>1. low \in Int /\ low <= r /\ Parents(f, n, low, y.node)
        BY <2>4, <2>5, <3>2
      <4>2. ~Failed(f[call]) /\ Rank(n, call) < r
        BY <1>6
      <4> HIDE DEF low, call
      <4> QED
        BY <1>2, <4>1, <4>2, ParentsMore
    <3>5. O.next \in (i + 1)..(n + 1)
      <4> DEFINE a == x.next
                 b == y.next
      <4>1. a \in Int /\ a > i /\ b \in Int /\ b >= a /\ b <= n + 1
        BY <2>1, <3>2
      <4> HIDE DEF a, b
      <4>2. b \in (i + 1)..(n + 1)
        BY <4>1
      <4> QED
        BY <3>3, <4>2 DEF b
    <3> HIDE DEF O
    <3> QED
      BY <3>1, <3>3, <3>4, <3>5
  <2> QED
    BY <2>7, <2>8
<1> QED
  BY <1>5, <1>6

\* Calls at later positions are below.
LEMMA LaterCalls ==
  ASSUME NEW n \in Nat, NEW i \in 1..(n + 1), NEW j \in Int, j > i, j <= n + 1,
         NEW kind \in Kinds, NEW high
  PROVE  <<kind, j>> \in CallsOver(n) /\ Rank(n, <<kind, j>>) < Rank(n, <<high, i>>)
<1>1. j \in 1..(n + 1)
  OBVIOUS
<1>2. <<kind, j>> \in CallsOver(n)
  BY <1>1, CallsAre
<1>3. i \in Int /\ i < j
  OBVIOUS
<1>4. Rank(n, <<kind, j>>) < Rank(n, <<high, i>>)
  BY <1>3, RankLater
<1> QED
  BY <1>2, <1>4

\* A token that is not empty is there.
LEMMA PeekIs ==
  ASSUME NEW toks, NEW n \in Nat, Len(toks) = n, NEW i \in Int
  PROVE  /\ i > n => Peek(toks, i) = ""
         /\ i <= n => Peek(toks, i) = toks[i]
         /\ Peek(toks, i) # "" => i <= n
<1>1. i > n => ~(i <= Len(toks))
  OBVIOUS
<1>2. i <= n => Peek(toks, i) = toks[i]
  BY Zenon DEF Peek
<1>3. i > n => Peek(toks, i) = ""
  BY <1>1, Zenon DEF Peek
<1>4. i <= n \/ i > n
  OBVIOUS
<1> QED
  BY <1>2, <1>3, <1>4

\* What _parse_atom returns, token by token.
LEMMA AtomMissing ==
  ASSUME NEW toks, NEW n \in Nat, Len(toks) = n, NEW i \in Int, i > n
  PROVE  \A parse : ParseAtom(parse, toks, i) = Raises("ValueError")
<1>1. i > Len(toks) /\ Peek(toks, i) = ""
  BY PeekIs
<1> QED
  BY <1>1 DEF ParseAtom

\* A "(" returns what stands before its ")".
LEMMA AtomParen ==
  ASSUME NEW toks, NEW n \in Nat, Len(toks) = n, NEW i \in Int, i <= n, toks[i] = "("
  PROVE  \A parse : ParseAtom(parse, toks, i) =
           IF Failed(parse[<<"or", i + 1>>]) THEN parse[<<"or", i + 1>>]
           ELSE IF Peek(toks, parse[<<"or", i + 1>>].next) # ")" THEN Raises("ValueError")
           ELSE Parsed(parse[<<"or", i + 1>>].node, parse[<<"or", i + 1>>].next + 1)
<1>1. ~(i > Len(toks)) /\ Peek(toks, i) = "("
  BY PeekIs
<1> QED
  BY <1>1 DEF ParseAtom

\* A quantifier is read on its own.
LEMMA AtomQuantifier ==
  ASSUME NEW toks, NEW n \in Nat, Len(toks) = n, NEW i \in Int, i <= n, toks[i] = "1" \/ toks[i] = "all"
  PROVE  \A parse : ParseAtom(parse, toks, i) = ParseQuantifier(toks, i)
<1>1. ~(i > Len(toks)) /\ Peek(toks, i) = toks[i]
  BY PeekIs
<1> QED
  BY <1>1 DEF ParseAtom

\* Any other token is an identifier.
LEMMA AtomIdent ==
  ASSUME NEW toks, NEW n \in Nat, Len(toks) = n, NEW i \in Int, i <= n,
         toks[i] # "(", toks[i] # "1", toks[i] # "all"
  PROVE  \A parse : ParseAtom(parse, toks, i) = Parsed([op |-> "ident", name |-> toks[i]], i + 1)
<1>0. Peek(toks, i) = toks[i]
  BY PeekIs
<1>1. ~(i > Len(toks)) /\ Peek(toks, i) = toks[i]
  BY <1>0
<1> QED
  BY <1>1 DEF ParseAtom

\* What _parse_or and _parse_and return.
LEMMA ChainReturns ==
  ASSUME NEW n \in Nat, NEW i \in 1..(n + 1), NEW op \in Ops, NEW f, NEW g,
         Agree(f, g, n, Rank(n, <<op, i>>))
  PROVE  /\ ParseChain(f, op, i) = ParseChain(g, op, i)
         /\ Fits(f, n, <<op, i>>, ParseChain(f, op, i))
<1> DEFINE r == Rank(n, <<op, i>>)
           O == ParseOperands(f, op, i)
           call == <<op, i>>
<1>1. r \in Int
  <2>1. call \in CallsOver(n)
    <3>1. op \in Kinds
      BY KindsAre
    <3> QED
      BY <3>1, CallsAre
  <2>2. r \in Nat
    BY <2>1, RankOf
  <2> HIDE DEF r
  <2> QED
    BY <2>2
<1>2. Rank(n, <<Below[op], i>>) < r
  <2>1. i \in Int
    OBVIOUS
  <2> QED
    BY <2>1, RankBelow
<1> HIDE DEF r
<1>3. Agree(f, g, n, r)
  BY DEF r
<1>4. /\ ParseOperands(f, op, i) = ParseOperands(g, op, i)
      /\ O.err = "none" => O.next \in (i + 1)..(n + 1) /\ Parents(f, n, r, O.node)
  BY <1>1, <1>2, <1>3, OperandsOf
<1>5. ParseChain(f, op, i) = ParseChain(g, op, i)
  BY <1>4, Zenon DEF ParseChain
<1>6. CASE Failed(O)
  <2>1. ParseChain(f, op, i) = O
    BY <1>6, Zenon DEF ParseChain
  <2>2. O.err # "none"
    BY <1>6 DEF Failed
  <2> HIDE DEF O
  <2>3. Fits(f, n, call, O)
    BY <2>2, Zenon DEF Fits
  <2> QED
    BY <1>5, <2>1, <2>3
<1>7. CASE ~Failed(O)
  <2> DEFINE node == [op |-> op, kids |-> O.node]
             return == Parsed(node, O.next)
  <2>1. ParseChain(f, op, i) = return
    BY <1>7, Zenon DEF ParseChain
  <2>2. return.next = O.next /\ return.node = node
    BY DEF Parsed
  <2>3. node.op = op /\ node.kids = O.node
    OBVIOUS
  <2>4. O.next \in (i + 1)..(n + 1) /\ Parents(f, n, r, O.node)
    BY <1>4, <1>7 DEF Failed
  <2>5. call[1] = op /\ call[2] = i /\ op \in Levels
    BY KindsAre
  <2> HIDE DEF node, O
  <2>6. IsNode(f, n, r, node)
    BY <2>3, <2>4 DEF IsNode, Ops
  <2>7. return.next \in Int /\ return.next > i /\ return.next <= n + 1
    BY <2>2, <2>4
  <2> HIDE DEF return, call
  <2>8. Fits(f, n, call, return)
    BY <2>2, <2>5, <2>6, <2>7 DEF Fits, r, call
  <2> QED
    BY <1>5, <2>1, <2>8 DEF call
<1> QED
  BY <1>6, <1>7

\* What the loops return.
LEMMA RestReturns ==
  ASSUME NEW n \in Nat, NEW i \in 1..(n + 1), NEW op \in Ops, NEW f, NEW g, NEW toks, Len(toks) = n,
         NEW loop \in Loops, Agree(f, g, n, Rank(n, <<loop, i>>))
  PROVE  /\ ParseRest(f, op, toks, i) = ParseRest(g, op, toks, i)
         /\ Fits(f, n, <<loop, i>>, ParseRest(f, op, toks, i))
<1> DEFINE r == Rank(n, <<loop, i>>)
           call == <<loop, i>>
           O == ParseOperands(f, op, i + 1)
<1>1. r \in Int
  <2>1. call \in CallsOver(n)
    <3>1. loop \in Kinds
      BY KindsAre
    <3> QED
      BY <3>1, CallsAre
  <2>2. r \in Nat
    BY <2>1, RankOf
  <2> HIDE DEF r
  <2> QED
    BY <2>2
<1>2. call[1] = loop /\ call[2] = i /\ loop \notin Levels
  BY KindsAre
<1> HIDE DEF r, call
<1>3. Agree(f, g, n, r)
  BY DEF r
<1>4. CASE Peek(toks, i) # op
  <2> DEFINE return == Parsed(<<>>, i)
  <2>1. ParseRest(f, op, toks, i) = return /\ ParseRest(g, op, toks, i) = return
    BY <1>4, Zenon DEF ParseRest
  <2>2. return.next = i /\ return.node = <<>>
    BY DEF Parsed
  <2>3. Parents(f, n, r, <<>>)
    BY DEF Parents
  <2>4. i \in Int /\ i >= i /\ i <= n + 1
    OBVIOUS
  <2> HIDE DEF return
  <2>5. Fits(f, n, call, return)
    BY <1>2, <2>2, <2>3, <2>4 DEF Fits, r, call
  <2> QED
    BY <2>1, <2>5 DEF call
<1>5. CASE Peek(toks, i) = op
  <2>1. i <= n
    <3>1. Peek(toks, i) # ""
      BY <1>5 DEF Ops
    <3>2. i \in Int
      OBVIOUS
    <3> QED
      BY <3>1, <3>2, PeekIs, Zenon
  <2> DEFINE j == i + 1
  <2>2. j \in Int /\ j > i /\ j <= n + 1 /\ j \in 1..(n + 1)
    BY <2>1
  <2>3. ParseRest(f, op, toks, i) = O /\ ParseRest(g, op, toks, i) = ParseOperands(g, op, i + 1)
    BY <1>5, Zenon DEF ParseRest
  <2> HIDE DEF j
  <2>4. Rank(n, <<Below[op], j>>) < r
    <3> DEFINE level == Below[op]
    <3>1. level \in Kinds
      BY KindsAre
    <3> HIDE DEF level
    <3>2. Rank(n, <<level, j>>) < Rank(n, <<loop, i>>)
      BY <2>2, <3>1, LaterCalls
    <3> QED
      BY <3>2 DEF level, r, call
  <2> DEFINE P == ParseOperands(f, op, j)
  <2>5. /\ P = ParseOperands(g, op, j)
        /\ P.err = "none" => P.next \in (j + 1)..(n + 1) /\ Parents(f, n, r, P.node)
    BY <1>1, <1>3, <2>2, <2>4, OperandsOf
  <2>6. O = P
    BY DEF j
  <2> HIDE DEF O, P
  <2>7. P.err = "none" => P.next \in Int /\ P.next >= i /\ P.next <= n + 1 /\ Parents(f, n, r, P.node)
    BY <2>2, <2>5
  <2>8. Fits(f, n, call, P)
    BY <1>2, <2>7 DEF Fits, r, call
  <2> QED
    BY <2>3, <2>5, <2>6, <2>8 DEF j, call
<1> QED
  BY <1>4, <1>5

\* A node that rests on what is lower rests on what is higher.
LEMMA NodeMore ==
  ASSUME NEW parse, NEW n \in Nat, NEW r \in Int, NEW low \in Int, low <= r,
         NEW node, IsNode(parse, n, low, node)
  PROVE  IsNode(parse, n, r, node)
<1>1. Parents(parse, n, low, node.kids) => Parents(parse, n, r, node.kids)
  BY ParentsMore
<1> QED
  BY <1>1 DEF IsNode

\* An answer of a level fits when its position and its node do.
LEMMA FitsLevel ==
  ASSUME NEW n, NEW i, NEW level \in Levels, NEW f, NEW node, NEW next \in Int, next > i, next <= n + 1,
         IsNode(f, n, Rank(n, <<level, i>>), node)
  PROVE  Fits(f, n, <<level, i>>, Parsed(node, next))
<1> DEFINE call == <<level, i>>
           return == Parsed(node, next)
<1>1. return.next = next /\ return.node = node
  BY DEF Parsed
<1>2. call[1] = level /\ call[2] = i /\ IsNode(f, n, Rank(n, call), node)
  OBVIOUS
<1>3. level \in Levels
  OBVIOUS
<1> HIDE DEF call, return
<1>4. return.next \in Int /\ return.next <= n + 1 /\ return.next > call[2]
      /\ IsNode(f, n, Rank(n, call), return.node) /\ call[1] \in Levels
  BY <1>1, <1>2, <1>3
<1>5. Fits(f, n, call, return)
  BY <1>4, Zenon DEF Fits
<1> QED
  BY <1>5 DEF call, return

\* An exception fits.
LEMMA FitsFailed ==
  ASSUME NEW n, NEW call, NEW f, NEW return, return.err # "none"
  PROVE  Fits(f, n, call, return)
BY DEF Fits

\* What _parse_not returns.
LEMMA NotReturns ==
  ASSUME NEW n \in Nat, NEW i \in 1..(n + 1), NEW f, NEW g, NEW toks, Len(toks) = n,
         Agree(f, g, n, Rank(n, <<"not", i>>))
  PROVE  /\ ParseNot(f, toks, i) = ParseNot(g, toks, i)
         /\ Fits(f, n, <<"not", i>>, ParseNot(f, toks, i))
<1> DEFINE r == Rank(n, <<"not", i>>)
           j == i + 1
           kid == <<"not", j>>
           inner == <<"or", j>>
<1>1. r \in Int
  <2>1. <<"not", i>> \in CallsOver(n)
    BY KindsAre, CallsAre
  <2>2. r \in Nat
    BY <2>1, RankOf
  <2> HIDE DEF r
  <2> QED
    BY <2>2
<1>2. ASSUME i <= n, NEW level \in Levels
      PROVE  /\ <<level, j>> \in CallsOver(n) /\ Rank(n, <<level, j>>) < r
             /\ Rank(n, <<level, j>>) \in Int
             /\ f[<<level, j>>] = g[<<level, j>>] /\ Fits(f, n, <<level, j>>, f[<<level, j>>])
             /\ f[<<level, j>>].err = "none" =>
                  /\ f[<<level, j>>].next \in (j + 1)..(n + 1)
                  /\ IsNode(f, n, Rank(n, <<level, j>>), f[<<level, j>>].node)
  <2> DEFINE call == <<level, j>>
             x == f[call]
  <2>1. j \in Int /\ j > i /\ j <= n + 1
    BY <1>2
  <2>2. level \in Kinds
    BY KindsAre
  <2> HIDE DEF j
  <2>3. call \in CallsOver(n) /\ Rank(n, call) < r
    BY <2>1, <2>2, LaterCalls
  <2>4. f[call] = g[call] /\ Fits(f, n, call, x)
    BY <2>3 DEF Agree
  <2>5. Rank(n, call) \in Int
    <3>1. Rank(n, call) \in Nat
      BY <2>3, RankOf
    <3> QED
      BY <3>1
  <2>6. call[1] = level /\ call[2] = j
    OBVIOUS
  <2> HIDE DEF call, x
  <2>7. x.err = "none" => x.next \in (j + 1)..(n + 1) /\ IsNode(f, n, Rank(n, call), x.node)
    <3> SUFFICES ASSUME x.err = "none"
                 PROVE  x.next \in (j + 1)..(n + 1) /\ IsNode(f, n, Rank(n, call), x.node)
      OBVIOUS
    <3>1. /\ x.next \in Int /\ x.next > j /\ x.next <= n + 1
          /\ IsNode(f, n, Rank(n, call), x.node)
      BY <2>4, <2>6 DEF Fits
    <3>2. x.next \in (j + 1)..(n + 1)
      BY <2>1, <3>1
    <3> QED
      BY <3>1, <3>2
  <2> QED
    BY <2>3, <2>4, <2>5, <2>7 DEF call, x
<1> HIDE DEF r
<1>3. CASE Peek(toks, i) = "not"
  <2>1. i <= n
    <3>1. Peek(toks, i) # "" /\ i \in Int
      BY <1>3
    <3> QED
      BY <3>1, PeekIs, Zenon
  <2> DEFINE x == f[kid]
  <2>2. /\ kid \in CallsOver(n) /\ Rank(n, kid) < r /\ f[kid] = g[kid] /\ Fits(f, n, kid, x)
        /\ x.err = "none" => x.next \in (j + 1)..(n + 1)
    BY <1>2, <2>1, KindsAre
  <2>3. CASE Failed(x)
    <3>1. ParseNot(f, toks, i) = x /\ ParseNot(g, toks, i) = x
      BY <1>3, <2>2, <2>3, Zenon DEF ParseNot
    <3>2. x.err # "none"
      BY <2>3 DEF Failed
    <3> HIDE DEF x
    <3>3. Fits(f, n, <<"not", i>>, x)
      BY <3>2, FitsFailed
    <3> QED
      BY <3>1, <3>3
  <2>4. CASE ~Failed(x)
    <3> DEFINE node == [op |-> "not", kids |-> <<kid>>]
               next == x.next
    <3>1. ParseNot(f, toks, i) = Parsed(node, next) /\ ParseNot(g, toks, i) = Parsed(node, next)
      BY <1>3, <2>2, <2>4, Zenon DEF ParseNot
    <3>2. next \in (j + 1)..(n + 1)
      BY <2>2, <2>4 DEF Failed
    <3>3. Parents(f, n, r, <<kid>>) /\ Len(<<kid>>) = 1
      <4>1. kid \in Levels \X (1..(n + 1))
        <5>1. j \in 1..(n + 1)
          BY <2>1
        <5> HIDE DEF j
        <5> QED
          BY <5>1, KindsAre
      <4>2. ~Failed(f[kid]) /\ Rank(n, kid) < r
        BY <2>2, <2>4
      <4> HIDE DEF kid
      <4> QED
        BY <4>1, <4>2 DEF Parents
    <3>4. node.op = "not" /\ node.kids = <<kid>>
      OBVIOUS
    <3> HIDE DEF node
    <3>5. IsNode(f, n, r, node)
      BY <3>3, <3>4 DEF IsNode
    <3>6. next \in Int /\ next > i /\ next <= n + 1
      <4> HIDE DEF next
      <4> QED
        BY <3>2
    <3> HIDE DEF next
    <3>7. Fits(f, n, <<"not", i>>, Parsed(node, next))
      BY <3>5, <3>6, KindsAre, FitsLevel DEF r
    <3> QED
      BY <3>1, <3>7
  <2> QED
    BY <2>3, <2>4
<1>4. CASE Peek(toks, i) # "not"
  <2> DEFINE F == ParseAtom(f, toks, i)
             G == ParseAtom(g, toks, i)
  <2>1. ParseNot(f, toks, i) = F /\ ParseNot(g, toks, i) = G
    BY <1>4, Zenon DEF ParseNot
  <2>2. CASE i > n
    <3>1. i \in Int
      OBVIOUS
    <3>2. F = Raises("ValueError") /\ G = Raises("ValueError")
      BY <2>2, <3>1, AtomMissing
    <3>3. F.err # "none"
      BY <3>2 DEF Raises
    <3> HIDE DEF F
    <3>4. Fits(f, n, <<"not", i>>, F)
      BY <3>3, FitsFailed
    <3> QED
      BY <2>1, <3>2, <3>4
  <2>3. CASE i <= n /\ toks[i] = "("
    <3> DEFINE x == f[inner]
               next == x.next
    <3>1. i \in Int
      OBVIOUS
    <3>2. \A parse : ParseAtom(parse, toks, i) =
            IF Failed(parse[inner]) THEN parse[inner]
            ELSE IF Peek(toks, parse[inner].next) # ")" THEN Raises("ValueError")
            ELSE Parsed(parse[inner].node, parse[inner].next + 1)
      BY <2>3, <3>1, AtomParen, Zenon
    <3>3. /\ f[inner] = g[inner] /\ Fits(f, n, inner, x)
          /\ Rank(n, inner) \in Int /\ Rank(n, inner) < r
          /\ x.err = "none" => x.next \in (j + 1)..(n + 1) /\ IsNode(f, n, Rank(n, inner), x.node)
      BY <1>2, <2>3, KindsAre
    <3>4. F = IF Failed(x) THEN x
              ELSE IF Peek(toks, next) # ")" THEN Raises("ValueError")
              ELSE Parsed(x.node, next + 1)
      BY <3>2
    <3>5. F = G
      BY <3>2, <3>3
    <3> HIDE DEF F, G
    <3>6. CASE Failed(x)
      <4>1. F.err # "none"
        BY <3>4, <3>6 DEF Failed
      <4> QED
        BY <2>1, <3>5, <4>1, FitsFailed
    <3>7. CASE ~Failed(x) /\ Peek(toks, next) # ")"
      <4>1. F = Raises("ValueError")
        BY <3>4, <3>7
      <4>2. F.err # "none"
        BY <4>1 DEF Raises
      <4> QED
        BY <2>1, <3>5, <4>2, FitsFailed
    <3>8. CASE ~Failed(x) /\ Peek(toks, next) = ")"
      <4> DEFINE node == x.node
                 after == next + 1
      <4>1. F = Parsed(node, after)
        BY <3>4, <3>8
      <4>2. next \in (j + 1)..(n + 1) /\ IsNode(f, n, Rank(n, inner), node)
        BY <3>3, <3>8 DEF Failed
      <4>3. next <= n
        <5>1. Peek(toks, next) # "" /\ next \in Int
          BY <3>8, <4>2
        <5> HIDE DEF next
        <5> QED
          BY <5>1, PeekIs
      <4>4. after \in Int /\ after > i /\ after <= n + 1
        <5> HIDE DEF next
        <5> QED
          BY <4>2, <4>3
      <4> DEFINE low == Rank(n, inner)
      <4>5. low \in Int /\ low <= r /\ IsNode(f, n, low, node)
        BY <1>1, <3>3, <4>2
      <4> HIDE DEF low, node, after
      <4>6. IsNode(f, n, r, node)
        BY <1>1, <4>5, NodeMore
      <4>7. Fits(f, n, <<"not", i>>, Parsed(node, after))
        BY <4>4, <4>6, KindsAre, FitsLevel DEF r
      <4> QED
        BY <2>1, <3>5, <4>1, <4>7
    <3> QED
      BY <3>6, <3>7, <3>8
  <2>4. CASE i <= n /\ (toks[i] = "1" \/ toks[i] = "all")
    <3>1. i \in Int
      OBVIOUS
    <3> DEFINE Q == ParseQuantifier(toks, i)
    <3>0. ASSUME NEW parse PROVE ParseAtom(parse, toks, i) = ParseQuantifier(toks, i)
      BY <2>4, <3>1, AtomQuantifier
    <3>2. F = Q /\ G = Q
      BY <3>0
    <3>3. CASE Peek(toks, i + 1) = "of" /\ i + 2 <= n
      <4> DEFINE node == [op |-> toks[i], pattern |-> toks[i + 2]]
                 after == i + 3
      <4>1. Q = Parsed(node, after)
        BY <3>3 DEF ParseQuantifier
      <4>2. node.op \in {"1", "all"}
        BY <2>4
      <4>3. after \in Int /\ after > i /\ after <= n + 1
        BY <3>3
      <4> HIDE DEF node, after
      <4>4. IsNode(f, n, r, node)
        BY <4>2 DEF IsNode
      <4>5. Fits(f, n, <<"not", i>>, Parsed(node, after))
        BY <4>3, <4>4, KindsAre, FitsLevel DEF r
      <4> QED
        BY <2>1, <3>2, <4>1, <4>5
    <3>4. CASE ~(Peek(toks, i + 1) = "of" /\ i + 2 <= n)
      <4>1. Q = Raises("ValueError") \/ Q = Raises("IndexError")
        BY <3>4 DEF ParseQuantifier
      <4>2. Q.err # "none"
        BY <4>1 DEF Raises
      <4> HIDE DEF Q
      <4> QED
        BY <2>1, <3>2, <4>2, FitsFailed
    <3> QED
      BY <3>3, <3>4
  <2>5. CASE i <= n /\ toks[i] # "(" /\ toks[i] # "1" /\ toks[i] # "all"
    <3>1. i \in Int
      OBVIOUS
    <3> DEFINE node == [op |-> "ident", name |-> toks[i]]
    <3>0. ASSUME NEW parse PROVE ParseAtom(parse, toks, i) = Parsed(node, j)
      BY <2>5, <3>1, AtomIdent
    <3>2. F = Parsed(node, j) /\ G = Parsed(node, j)
      BY <3>0
    <3>3. node.op = "ident"
      OBVIOUS
    <3>4. j \in Int /\ j > i /\ j <= n + 1
      BY <2>5
    <3> HIDE DEF node, j
    <3>5. IsNode(f, n, r, node)
      BY <3>3 DEF IsNode
    <3>6. Fits(f, n, <<"not", i>>, Parsed(node, j))
      BY <3>4, <3>5, KindsAre, FitsLevel DEF r
    <3> QED
      BY <2>1, <3>2, <3>6
  <2>6. i <= n \/ i > n
    OBVIOUS
  <2> QED
    BY <2>2, <2>3, <2>4, <2>5, <2>6
<1> QED
  BY <1>3, <1>4

\* What holds of a number when it holds of all smaller ones holds of every number.
LEMMA Descent ==
  ASSUME NEW T, \A k \in Nat : (\A j \in Nat : j < k => j \in T) => k \in T
  PROVE  \A k \in Nat : k \in T
<1> DEFINE U == {k \in Nat : k \notin T}
<1> SUFFICES ASSUME U # {} PROVE FALSE
  OBVIOUS
<1>1. U \in SUBSET Nat
  OBVIOUS
<1>2. PICK x \in U : \A y \in U : x <= y
  <2> HIDE DEF U
  <2> QED
    BY <1>1, LeastElement
<1>3. \A j \in Nat : j < x => j \in T
  BY <1>2
<1> QED
  BY <1>2, <1>3

\* What a call returns, kind by kind.
LEMMA ReturnsIs ==
  ASSUME NEW parse, NEW toks, NEW i
  PROVE  /\ \A op \in Ops : /\ Returns(parse, toks, <<op, i>>) = ParseChain(parse, op, i)
                            /\ Returns(parse, toks, <<Loop[op], i>>) = ParseRest(parse, op, toks, i)
         /\ Returns(parse, toks, <<"not", i>>) = ParseNot(parse, toks, i)
<1>1. Loop["or"] = "or loop" /\ Loop["and"] = "and loop"
  BY DEF Loop
<1>2. /\ Returns(parse, toks, <<"or", i>>) = ParseChain(parse, "or", i)
      /\ Returns(parse, toks, <<"and", i>>) = ParseChain(parse, "and", i)
  BY DEF Returns
<1>3. Returns(parse, toks, <<"or loop", i>>) = ParseRest(parse, "or", toks, i)
  BY DEF Returns
<1>4. Returns(parse, toks, <<"and loop", i>>) = ParseRest(parse, "and", toks, i)
  BY DEF Returns
<1>5. Returns(parse, toks, <<"not", i>>) = ParseNot(parse, toks, i)
  BY DEF Returns
<1>6. ASSUME NEW op \in Ops
      PROVE  /\ Returns(parse, toks, <<op, i>>) = ParseChain(parse, op, i)
             /\ Returns(parse, toks, <<Loop[op], i>>) = ParseRest(parse, op, toks, i)
  <2>1. op = "or" \/ op = "and"
    BY DEF Ops
  <2> QED
    BY <2>1, <1>1, <1>2, <1>3, <1>4, Zenon
<1> QED
  BY <1>5, <1>6

\* Every loop is one of an operator.
LEMMA LoopsAre == \A loop \in Loops : \E op \in Ops : loop = Loop[op]
<1>1. Loop["or"] = "or loop" /\ Loop["and"] = "and loop"
  BY DEF Loop
<1> QED
  BY <1>1 DEF Loops, Ops

\* What a call returns rests on calls that rank below it, and fits.
LEMMA ReturnsFit ==
  ASSUME NEW n \in Nat, NEW toks, Len(toks) = n, NEW call \in CallsOver(n), NEW f, NEW g,
         Agree(f, g, n, Rank(n, call))
  PROVE  /\ Returns(f, toks, call) = Returns(g, toks, call)
         /\ Fits(f, n, call, Returns(f, toks, call))
<1>1. PICK kind \in Kinds, i \in 1..(n + 1) : call = <<kind, i>>
  <2>1. call[2] \in 1..(n + 1) /\ call = <<call[1], call[2]>> /\ call[1] \in Kinds
    BY RankOf
  <2> QED
    BY <2>1, Zenon
<1>2. kind \in Ops \/ kind \in Loops \/ kind = "not"
  BY KindsAre
<1>3. CASE kind \in Ops
  <2>1. /\ ParseChain(f, kind, i) = ParseChain(g, kind, i)
        /\ Fits(f, n, <<kind, i>>, ParseChain(f, kind, i))
    BY <1>1, <1>3, ChainReturns
  <2>2. \A p : Returns(p, toks, <<kind, i>>) = ParseChain(p, kind, i)
    BY <1>3, ReturnsIs
  <2> QED
    BY <1>1, <2>1, <2>2, Zenon
<1>4. CASE kind \in Loops
  <2>1. PICK op \in Ops : kind = Loop[op]
    BY <1>4, LoopsAre
  <2>2. /\ ParseRest(f, op, toks, i) = ParseRest(g, op, toks, i)
        /\ Fits(f, n, <<kind, i>>, ParseRest(f, op, toks, i))
    BY <1>1, <1>4, RestReturns
  <2>3. \A p : Returns(p, toks, <<Loop[op], i>>) = ParseRest(p, op, toks, i)
    BY ReturnsIs
  <2> QED
    BY <1>1, <2>1, <2>2, <2>3, Zenon
<1>5. CASE kind = "not"
  <2>1. /\ ParseNot(f, toks, i) = ParseNot(g, toks, i)
        /\ Fits(f, n, <<"not", i>>, ParseNot(f, toks, i))
    BY <1>1, <1>5, NotReturns
  <2>2. \A p : Returns(p, toks, <<"not", i>>) = ParseNot(p, toks, i)
    BY ReturnsIs
  <2> QED
    BY <1>1, <1>5, <2>1, <2>2, Zenon
<1> QED
  BY <1>2, <1>3, <1>4, <1>5

\* What fits one answer fits another that is the same below the call.
LEMMA FitsSame ==
  ASSUME NEW n \in Nat, NEW call \in CallsOver(n), NEW f, NEW g, NEW return,
         \A d \in CallsOver(n) : Rank(n, d) < Rank(n, call) => f[d] = g[d],
         Fits(f, n, call, return)
  PROVE  Fits(g, n, call, return)
<1> DEFINE r == Rank(n, call)
<1>1. ASSUME NEW kids, Parents(f, n, r, kids) PROVE Parents(g, n, r, kids)
  <2> DEFINE L == Levels \X (1..(n + 1))
  <2>1. kids \in Seq(L) /\ \A k \in 1..Len(kids) : ~Failed(f[kids[k]]) /\ Rank(n, kids[k]) < r
    BY <1>1 DEF Parents
  <2>2. \A kid \in L : kid \in CallsOver(n)
    BY LevelsAre
  <2> HIDE DEF L, r
  <2>3. \A k \in 1..Len(kids) : kids[k] \in L
    BY <2>1
  <2>4. \A k \in 1..Len(kids) : f[kids[k]] = g[kids[k]]
    BY <2>1, <2>2, <2>3 DEF r
  <2>5. \A k \in 1..Len(kids) : ~Failed(g[kids[k]]) /\ Rank(n, kids[k]) < r
    BY <2>1, <2>4
  <2> QED
    BY <2>1, <2>5 DEF Parents, L
<1>2. ASSUME NEW node, IsNode(f, n, r, node) PROVE IsNode(g, n, r, node)
  <2>1. Parents(f, n, r, node.kids) => Parents(g, n, r, node.kids)
    BY <1>1
  <2> QED
    BY <1>2, <2>1, Zenon DEF IsNode
<1> QED
  BY <1>1, <1>2, Zenon DEF Fits

\* f answers every call that ranks below k.
Answers(f, toks, n, k) ==
  /\ f = [call \in CallsOver(n) |-> f[call]]
  /\ \A call \in CallsOver(n) :
       Rank(n, call) < k => f[call] = Returns(f, toks, call) /\ Fits(f, n, call, f[call])

\* Answers to the calls below k give the answers to those that rank k.
LEMMA AnswersGrow ==
  ASSUME NEW n \in Nat, NEW toks, Len(toks) = n, NEW k \in Nat, NEW f, Answers(f, toks, n, k)
  PROVE  \E g : Answers(g, toks, n, k + 1)
<1> DEFINE g == [call \in CallsOver(n) |-> IF Rank(n, call) = k THEN Returns(f, toks, call) ELSE f[call]]
<1>1. ASSUME NEW call \in CallsOver(n), Rank(n, call) < k + 1
      PROVE  g[call] = Returns(g, toks, call) /\ Fits(g, n, call, g[call])
  <2>1. \A d \in CallsOver(n) : Rank(n, d) \in Nat
    BY RankOf
  <2>2. ASSUME NEW d \in CallsOver(n), Rank(n, d) < Rank(n, call)
        PROVE  f[d] = g[d] /\ Fits(f, n, d, f[d])
    <3>1. Rank(n, d) < k /\ Rank(n, d) # k
      BY <1>1, <2>1, <2>2
    <3> QED
      BY <3>1 DEF Answers
  <2>3. g[call] = Returns(f, toks, call)
    <3>1. Rank(n, call) < k \/ Rank(n, call) = k
      BY <1>1, <2>1
    <3>2. CASE Rank(n, call) = k
      BY <3>2
    <3>3. CASE Rank(n, call) < k
      <4>1. Rank(n, call) # k
        BY <2>1, <3>3
      <4>2. g[call] = f[call]
        BY <4>1
      <4> QED
        BY <3>3, <4>2 DEF Answers
    <3> QED
      BY <3>1, <3>2, <3>3
  <2> HIDE DEF g
  <2>4. Agree(f, g, n, Rank(n, call))
    BY <2>2 DEF Agree
  <2>5. /\ Returns(f, toks, call) = Returns(g, toks, call)
        /\ Fits(f, n, call, Returns(f, toks, call))
    BY <2>4, ReturnsFit
  <2>6. Fits(g, n, call, g[call])
    BY <2>2, <2>3, <2>5, FitsSame
  <2> QED
    BY <2>3, <2>5, <2>6
<1>2. g = [call \in CallsOver(n) |-> g[call]]
  OBVIOUS
<1> HIDE DEF g
<1>3. Answers(g, toks, n, k + 1)
  BY <1>1, <1>2 DEF Answers
<1> QED
  BY <1>3

\* Every call has an answer, the one that the calls it makes lead to.
LEMMA CallsReturn ==
  ASSUME NEW n \in Nat, NEW toks, Len(toks) = n
  PROVE  /\ DOMAIN Calls(toks) = CallsOver(n)
         /\ \A call \in CallsOver(n) :
              /\ Calls(toks)[call] = Returns(Calls(toks), toks, call)
              /\ Fits(Calls(toks), n, call, Calls(toks)[call])
<1> DEFINE P == Calls(toks)
           m == 3 * n + 3
           Q == {k \in Nat : \E f : Answers(f, toks, n, k)}
           C == CallsOver(n)
<1>1. \A call \in C : Rank(n, call) \in Nat /\ Rank(n, call) < m
  <2> SUFFICES ASSUME NEW call \in C PROVE Rank(n, call) \in Nat /\ Rank(n, call) < m
    OBVIOUS
  <2>1. Rank(n, call) \in Nat /\ Rank(n, call) <= 3 * n + 2
    BY RankOf
  <2> HIDE DEF C
  <2> QED
    BY <2>1
<1>2. \E f : Answers(f, toks, n, m)
  <2>1. 0 \in Q
    <3> DEFINE f == [call \in C |-> 0]
    <3>1. f = [call \in C |-> f[call]]
      OBVIOUS
    <3>2. \A call \in C : ~(Rank(n, call) < 0)
      BY <1>1
    <3> HIDE DEF f
    <3>3. Answers(f, toks, n, 0)
      BY <3>1, <3>2 DEF Answers
    <3> QED
      BY <3>3
  <2>2. ASSUME NEW k \in 1..m, k - 1 \in Q PROVE k \in Q
    <3>1. PICK f : Answers(f, toks, n, k - 1)
      BY <2>2
    <3>2. k - 1 \in Nat /\ (k - 1) + 1 = k /\ k \in Nat
      BY <2>2
    <3>3. \E g : Answers(g, toks, n, (k - 1) + 1)
      BY <3>1, <3>2, AnswersGrow
    <3> QED
      BY <3>2, <3>3
  <2>3. m \in Nat /\ m \in 0..m
    OBVIOUS
  <2> HIDE DEF Q, m
  <2>4. m \in Q
    BY <2>1, <2>2, <2>3, UpTo
  <2> QED
    BY <2>4 DEF Q
<1>3. PICK f : Answers(f, toks, n, m)
  BY <1>2
<1> HIDE DEF m
<1>4. f = [call \in C |-> Returns(f, toks, call)]
  <2>1. \A call \in C : f[call] = Returns(f, toks, call)
    BY <1>1, <1>3 DEF Answers
  <2>2. f = [call \in C |-> f[call]]
    BY <1>3 DEF Answers
  <2> HIDE DEF C
  <2> QED
    BY <2>1, <2>2
<1>5. P = [call \in C |-> Returns(P, toks, call)]
  <2>1. C = (Levels \union {"or loop", "and loop"}) \X (1..(Len(toks) + 1))
    BY DEF CallsOver, Kinds, Loops
  <2>2. P = CHOOSE p : p = [call \in C |-> Returns(p, toks, call)]
    BY <2>1 DEF Calls
  <2> HIDE DEF C, P
  <2> QED
    BY <1>4, <2>2
<1> HIDE DEF P, C
<1>6. DOMAIN P = C /\ \A call \in C : P[call] = Returns(P, toks, call)
  BY <1>5
<1> DEFINE T == {k \in Nat : \A call \in C : Rank(n, call) = k => Fits(P, n, call, P[call])}
<1>7. ASSUME NEW k \in Nat, \A j \in Nat : j < k => j \in T PROVE k \in T
  <2> SUFFICES ASSUME NEW call \in C, Rank(n, call) = k PROVE Fits(P, n, call, P[call])
    OBVIOUS
  <2>1. \A d \in C : Rank(n, d) < Rank(n, call) => P[d] = P[d] /\ Fits(P, n, d, P[d])
    BY <1>1, <1>7
  <2>2. Agree(P, P, n, Rank(n, call))
    BY <2>1 DEF Agree, C
  <2>3. Fits(P, n, call, Returns(P, toks, call))
    BY <2>2, ReturnsFit DEF C
  <2> QED
    BY <1>6, <2>3
<1> HIDE DEF T
<1>8. \A k \in Nat : k \in T
  BY <1>7, Descent
<1>9. \A call \in C : Fits(P, n, call, P[call])
  BY <1>1, <1>8 DEF T
<1> QED
  BY <1>6, <1>9 DEF P, C

-----------------------------------------------------------------------------
(* What the nodes come to. *)

\* A step from functions to functions whose value rests on what ranks below.
IsRecursion(D, S, rank, m, step) ==
  /\ S # {} /\ rank \in [D -> Nat] /\ m \in Nat /\ \A c \in D : rank[c] < m
  /\ step \in [[D -> S] -> [D -> S]]
  /\ \A f, g \in [D -> S] : \A c \in D :
       (\A d \in D : rank[d] < rank[c] => f[d] = g[d]) => step[f][c] = step[g][c]

\* It has a solution.
LEMMA Recursion ==
  ASSUME NEW D, NEW S, NEW rank, NEW m, NEW step, IsRecursion(D, S, rank, m, step)
  PROVE  \E f \in [D -> S] : f = step[f]
<1> USE DEF IsRecursion
<1> DEFINE F == [D -> S]
           Q == {k \in Nat : \E f \in F : \A c \in D : rank[c] < k => f[c] = step[f][c]}
<1>1. 0 \in Q
  <2>0. PICK s \in S : TRUE
    OBVIOUS
  <2>1. [c \in D |-> s] \in F
    OBVIOUS
  <2>2. \A c \in D : ~(rank[c] < 0)
    OBVIOUS
  <2> HIDE DEF F
  <2> QED
    BY <2>1, <2>2
<1>2. ASSUME NEW k \in 1..m, k - 1 \in Q PROVE k \in Q
  <2>1. PICK f \in F : \A c \in D : rank[c] < k - 1 => f[c] = step[f][c]
    BY <1>2
  <2> DEFINE g == step[f]
  <2>2. g \in F
    BY <2>1
  <2>3. ASSUME NEW c \in D, rank[c] < k PROVE g[c] = step[g][c]
    <3>1. ASSUME NEW d \in D, rank[d] < rank[c] PROVE f[d] = g[d]
      <4>1. rank[d] \in Nat /\ rank[c] \in Nat /\ k \in Nat
        OBVIOUS
      <4>2. rank[d] < k - 1
        BY <2>3, <3>1, <4>1
      <4> QED
        BY <2>1, <4>2
    <3> HIDE DEF g
    <3>2. step[f][c] = step[g][c]
      BY <2>1, <2>2, <3>1
    <3> QED
      BY <3>2 DEF g
  <2> HIDE DEF g, F
  <2>4. k \in Nat
    OBVIOUS
  <2> QED
    BY <2>2, <2>3, <2>4
<1>3. m \in 0..m
  OBVIOUS
<1> HIDE DEF Q
<1>4. m \in Q
  BY <1>1, <1>2, <1>3, UpTo
<1>5. PICK f \in F : \A c \in D : rank[c] < m => f[c] = step[f][c]
  BY <1>4 DEF Q
<1>6. f = step[f]
  <2>1. step[f] \in F
    BY <1>5
  <2>2. \A c \in D : f[c] = step[f][c]
    BY <1>5
  <2> QED
    BY <1>5, <2>1, <2>2
<1> QED
  BY <1>5, <1>6

\* The calls that returned a node.
Nodes(parse, n) == {call \in CallsOver(n) : call[1] \in Levels /\ ~Failed(parse[call])}

\* What a node comes to is a truth value and rests on what its kids come to.
LEMMA EvalRests ==
  ASSUME NEW parse, NEW n \in Nat, NEW r \in Int, NEW node, IsNode(parse, n, r, node),
         NEW results, NEW v, NEW w,
         \A d \in Nodes(parse, n) : Rank(n, d) < r => v[d] = w[d]
  PROVE  /\ Eval(node, v, results) \in BOOLEAN
         /\ Eval(node, v, results) = Eval(node, w, results)
<1>1. ASSUME Parents(parse, n, r, node.kids)
      PROVE  \A k \in DOMAIN node.kids : v[node.kids[k]] = w[node.kids[k]]
  <2> DEFINE L == Levels \X (1..(n + 1))
             kids == node.kids
  <2>1. kids \in Seq(L) /\ \A k \in 1..Len(kids) : ~Failed(parse[kids[k]]) /\ Rank(n, kids[k]) < r
    BY <1>1 DEF Parents
  <2>2. \A kid \in L : kid \in CallsOver(n) /\ kid[1] \in Levels
    BY LevelsAre
  <2> HIDE DEF L, kids
  <2>3. \A k \in DOMAIN kids : k \in 1..Len(kids) /\ kids[k] \in L
    BY <2>1
  <2>4. \A k \in DOMAIN kids : kids[k] \in Nodes(parse, n) /\ Rank(n, kids[k]) < r
    BY <2>1, <2>2, <2>3 DEF Nodes
  <2>5. \A k \in DOMAIN kids : v[kids[k]] = w[kids[k]]
    BY <2>4
  <2> QED
    BY <2>5 DEF kids
<1>2. CASE node.op = "or" /\ Parents(parse, n, r, node.kids)
  <2>1. \A k \in DOMAIN node.kids : v[node.kids[k]] = w[node.kids[k]]
    BY <1>1, <1>2
  <2>2. \A x : Eval(node, x, results) = \E k \in DOMAIN node.kids : x[node.kids[k]]
    BY <1>2 DEF Eval
  <2> QED
    BY <2>1, <2>2
<1>3. CASE node.op = "and" /\ Parents(parse, n, r, node.kids)
  <2>1. \A k \in DOMAIN node.kids : v[node.kids[k]] = w[node.kids[k]]
    BY <1>1, <1>3
  <2>2. \A x : Eval(node, x, results) = \A k \in DOMAIN node.kids : x[node.kids[k]]
    BY <1>3 DEF Eval
  <2> QED
    BY <2>1, <2>2
<1>4. CASE node.op = "not" /\ Len(node.kids) = 1 /\ Parents(parse, n, r, node.kids)
  <2>1. 1 \in DOMAIN node.kids
    BY <1>4 DEF Parents
  <2>2. v[node.kids[1]] = w[node.kids[1]]
    BY <1>1, <1>4, <2>1
  <2>3. \A x : Eval(node, x, results) = ~x[node.kids[1]]
    BY <1>4 DEF Eval
  <2> QED
    BY <2>2, <2>3
<1>5. CASE node.op = "ident"
  <2>1. \A x : Eval(node, x, results) = Known(node.name, results)
    BY <1>5 DEF Eval
  <2>2. Known(node.name, results) \in BOOLEAN
    BY DEF Known
  <2> QED
    BY <2>1, <2>2
<1>6. CASE node.op \in {"1", "all"}
  <2>1. \A x : Eval(node, x, results) = Quantified(node.op, node.pattern, results)
    BY <1>6 DEF Eval
  <2>2. Quantified(node.op, node.pattern, results) \in BOOLEAN
    BY DEF Quantified
  <2> QED
    BY <2>1, <2>2
<1> QED
  BY <1>2, <1>3, <1>4, <1>5, <1>6 DEF IsNode, Ops

\* What the nodes of a parse come to, as Holds has it.
Values(parse, n, results) ==
  CHOOSE v : v = [call \in Nodes(parse, n) |-> Eval(parse[call].node, v, results)]

\* What the calls of a list of tokens return, without the definition.
Solves(parse, toks, n) ==
  /\ DOMAIN parse = CallsOver(n)
  /\ \A call \in CallsOver(n) : parse[call] = Returns(parse, toks, call) /\ Fits(parse, n, call, parse[call])

\* A node that was returned is one, and moves on.
LEMMA NodesAre ==
  ASSUME NEW n \in Nat, NEW toks, NEW parse, Solves(parse, toks, n), NEW call \in Nodes(parse, n)
  PROVE  /\ call \in CallsOver(n) /\ call[1] \in Levels /\ ~Failed(parse[call])
         /\ parse[call].next \in Int /\ parse[call].next > call[2] /\ parse[call].next <= n + 1
         /\ IsNode(parse, n, Rank(n, call), parse[call].node)
<1>1. call \in CallsOver(n) /\ call[1] \in Levels /\ ~Failed(parse[call])
  BY DEF Nodes
<1>2. Fits(parse, n, call, parse[call])
  BY <1>1 DEF Solves
<1>3. parse[call].err = "none"
  BY <1>1 DEF Failed
<1>4. /\ parse[call].next \in Int /\ parse[call].next > call[2] /\ parse[call].next <= n + 1
      /\ IsNode(parse, n, Rank(n, call), parse[call].node)
  BY <1>1, <1>2, <1>3, Zenon DEF Fits
<1> QED
  BY <1>1, <1>4

\* Every node comes to a truth value, from what its kids come to.
LEMMA ValuesAre ==
  ASSUME NEW n \in Nat, NEW toks, NEW parse, Solves(parse, toks, n), NEW results
  PROVE  /\ DOMAIN Values(parse, n, results) = Nodes(parse, n)
         /\ \A call \in Nodes(parse, n) :
              /\ Values(parse, n, results)[call] = Eval(parse[call].node, Values(parse, n, results), results)
              /\ Values(parse, n, results)[call] \in BOOLEAN
<1> DEFINE D == Nodes(parse, n)
           B == BOOLEAN
           F == [D -> B]
           E(v, call) == Eval(parse[call].node, v, results)
           step == [v \in F |-> [call \in D |-> E(v, call)]]
           rank == [call \in D |-> Rank(n, call)]
           m == 3 * n + 3
           V == Values(parse, n, results)
<1>1. ASSUME NEW call \in D
      PROVE  Rank(n, call) \in Nat /\ Rank(n, call) < m
  <2>1. call \in CallsOver(n)
    BY DEF Nodes
  <2>2. Rank(n, call) \in Nat /\ Rank(n, call) <= 3 * n + 2
    BY <2>1, RankOf
  <2> HIDE DEF D
  <2> QED
    BY <2>2
<1>2. \A v, w : \A call \in D :
        (\A d \in D : Rank(n, d) < Rank(n, call) => v[d] = w[d])
          => E(v, call) \in BOOLEAN /\ E(v, call) = E(w, call)
  <2> SUFFICES ASSUME NEW v, NEW w, NEW call \in D,
                      \A d \in D : Rank(n, d) < Rank(n, call) => v[d] = w[d]
               PROVE  E(v, call) \in BOOLEAN /\ E(v, call) = E(w, call)
    OBVIOUS
  <2> DEFINE node == parse[call].node
             r == Rank(n, call)
  <2>1. IsNode(parse, n, r, node)
    BY NodesAre
  <2>2. r \in Int
    BY <1>1
  <2>3. \A d \in Nodes(parse, n) : Rank(n, d) < r => v[d] = w[d]
    OBVIOUS
  <2> HIDE DEF r, node
  <2>4. Eval(node, v, results) \in BOOLEAN /\ Eval(node, v, results) = Eval(node, w, results)
    BY <2>1, <2>2, <2>3, EvalRests
  <2> QED
    BY <2>4 DEF node
<1> HIDE DEF E, m
<1>3. m \in Nat
  BY DEF m
<1>4. \A v : \A call \in D : E(v, call) \in BOOLEAN
  BY <1>2
<1>5. \E v \in F : v = step[v]
  <2>1. step \in [F -> F]
    BY <1>4
  <2>2. rank \in [D -> Nat] /\ \A call \in D : rank[call] < m
    BY <1>1
  <2>3. \A v, w \in F : \A call \in D :
          (\A d \in D : rank[d] < rank[call] => v[d] = w[d]) => step[v][call] = step[w][call]
    <3> SUFFICES ASSUME NEW v \in F, NEW w \in F, NEW call \in D,
                        \A d \in D : rank[d] < rank[call] => v[d] = w[d]
                 PROVE  step[v][call] = step[w][call]
      OBVIOUS
    <3>1. E(v, call) = E(w, call)
      BY <1>2
    <3> QED
      BY <3>1
  <2>4. FALSE \in B
    OBVIOUS
  <2> HIDE DEF step, rank, D, B
  <2>5. IsRecursion(D, B, rank, m, step)
    BY <1>3, <2>1, <2>2, <2>3, <2>4 DEF IsRecursion
  <2> HIDE DEF F
  <2>6. \E v \in [D -> B] : v = step[v]
    BY <2>5, Recursion
  <2> QED
    BY <2>6 DEF F
<1>6. \E v : v = [call \in D |-> E(v, call)]
  BY <1>5
<1>7. V = [call \in D |-> E(V, call)]
  <2>1. V = CHOOSE v : v = [call \in D |-> E(v, call)]
    BY DEF Values, E
  <2> HIDE DEF V, D
  <2> QED
    BY <1>6, <2>1
<1> HIDE DEF V, D
<1>8. DOMAIN V = D /\ \A call \in D : V[call] = E(V, call)
  BY <1>7
<1> QED
  BY <1>4, <1>8 DEF V, D, E

\* Holds is what the first call comes to.
LEMMA HoldsIs ==
  ASSUME NEW condition, NEW n \in Nat, Len(condition.search) = n, NEW results
  PROVE  /\ Solves(Calls(condition.search), condition.search, n)
         /\ Holds(condition, results) = Values(Calls(condition.search), n, results)[<<"or", 1>>]
<1>1. Solves(Calls(condition.search), condition.search, n)
  BY CallsReturn DEF Solves
<1>2. {call \in DOMAIN Calls(condition.search) : call[1] \in Levels /\ ~Failed(Calls(condition.search)[call])}
        = Nodes(Calls(condition.search), n)
  BY <1>1 DEF Solves, Nodes
<1> QED
  BY <1>1, <1>2 DEF Holds, Values

-----------------------------------------------------------------------------
(* What spans of tokens can mean. *)

\* The spans of n tokens, and an order of them: a reading rests on shorter spans,
\* or on the same one at a level below.
Spans(n) == Levels \X (1..(n + 1)) \X (0..n)
SpanRank(span) == IF span[2] > span[3] THEN 0 ELSE 3 * (span[3] - span[2] + 1) + Height(span[1])

\* Spans are those of a level from one position to another.
LEMMA SpansAre ==
  ASSUME NEW n \in Nat
  PROVE  /\ \A span \in Spans(n) : /\ span = <<span[1], span[2], span[3]>>
                                   /\ span[1] \in Levels /\ span[2] \in 1..(n + 1) /\ span[3] \in 0..n
         /\ \A level \in Levels, i \in 1..(n + 1), j \in 0..n : <<level, i, j>> \in Spans(n)
<1> DEFINE A == 1..(n + 1)
           B == 0..n
<1> HIDE DEF A, B
<1>1. \A span \in Levels \X A \X B : /\ span = <<span[1], span[2], span[3]>>
                                     /\ span[1] \in Levels /\ span[2] \in A /\ span[3] \in B
  OBVIOUS
<1>2. \A level \in Levels, i \in A, j \in B : <<level, i, j>> \in Levels \X A \X B
  OBVIOUS
<1> QED
  BY <1>1, <1>2 DEF A, B, Spans

\* The rank of a span.
LEMMA SpanRankIs ==
  ASSUME NEW level, NEW i \in Int, NEW j \in Int
  PROVE  /\ i > j => SpanRank(<<level, i, j>>) = 0
         /\ i <= j => SpanRank(<<level, i, j>>) = 3 * (j - i + 1) + Height(level)
         /\ SpanRank(<<level, i, j>>) \in Nat
<1>1. SpanRank(<<level, i, j>>) = IF i > j THEN 0 ELSE 3 * (j - i + 1) + Height(level)
  BY DEF SpanRank
<1> DEFINE h == Height(level)
           r == SpanRank(<<level, i, j>>)
<1>2. h \in Int /\ 0 <= h
  BY HeightOf
<1>3. r = IF i > j THEN 0 ELSE 3 * (j - i + 1) + h
  BY <1>1
<1> HIDE DEF h, r
<1>4. (i > j => r = 0) /\ (i <= j => r = 3 * (j - i + 1) + h) /\ r \in Nat
  BY <1>2, <1>3
<1> QED
  BY <1>4 DEF h, r

\* Shorter spans rank below.
LEMMA ShorterSpans ==
  ASSUME NEW i \in Int, NEW j \in Int, i <= j, NEW k \in Int, NEW l \in Int, i <= k, l <= j, i < k \/ l < j,
         NEW low, NEW high
  PROVE  SpanRank(<<low, k, l>>) < SpanRank(<<high, i, j>>)
<1> DEFINE a == SpanRank(<<low, k, l>>)
           b == SpanRank(<<high, i, j>>)
           g == Height(low)
           h == Height(high)
<1>1. g \in Int /\ g <= 2 /\ h \in Int /\ 0 <= h
  BY HeightOf
<1>2. b = 3 * (j - i + 1) + h
  BY SpanRankIs
<1>3. (k > l => a = 0) /\ (k <= l => a = 3 * (l - k + 1) + g)
  BY SpanRankIs
<1> HIDE DEF a, b, g, h
<1>4. CASE k > l
  BY <1>1, <1>2, <1>3, <1>4 DEF a, b
<1>5. CASE k <= l
  <2>1. (l - k) + 1 <= j - i
    OBVIOUS
  <2>2. a < b
    BY <1>1, <1>2, <1>3, <1>5, <2>1
  <2> QED
    BY <2>2 DEF a, b
<1> QED
  BY <1>4, <1>5

\* So do lower levels of the same span.
LEMMA LowerSpans ==
  ASSUME NEW i \in Int, NEW j \in Int, i <= j, NEW op \in Ops
  PROVE  SpanRank(<<Below[op], i, j>>) < SpanRank(<<op, i, j>>)
<1> DEFINE a == SpanRank(<<Below[op], i, j>>)
           b == SpanRank(<<op, i, j>>)
           g == Height(Below[op])
           h == Height(op)
<1>1. g \in Int /\ h \in Int /\ g < h
  <2>1. Below["or"] = "and" /\ Below["and"] = "not" /\ (op = "or" \/ op = "and")
    BY DEF Below, Ops
  <2>2. Height("or") = 2 /\ Height("and") = 1 /\ Height("not") = 0
    BY HeightOf
  <2>3. CASE op = "or"
    BY <2>1, <2>2, <2>3
  <2>4. CASE op = "and"
    BY <2>1, <2>2, <2>4
  <2> QED
    BY <2>1, <2>3, <2>4
<1>2. a = 3 * (j - i + 1) + g /\ b = 3 * (j - i + 1) + h
  BY SpanRankIs
<1> HIDE DEF a, b, g, h
<1>3. a < b
  BY <1>1, <1>2
<1> QED
  BY <1>3 DEF a, b

\* What a span can mean, by what it starts with.
LEMMA ReadsNone ==
  ASSUME NEW i, NEW j, i > j
  PROVE  \A f, toks, results, level : ReadingsOf(f, toks, results, level, i, j) = {}
BY DEF ReadingsOf

\* An operand of the next level, or two joined by the operator.
LEMMA ReadsOperands ==
  ASSUME NEW i, NEW j, ~(i > j), NEW op \in Ops
  PROVE  \A f, toks, results :
           ReadingsOf(f, toks, results, op, i, j) = f[<<Below[op], i, j>>] \union Joined(f, toks, op, i, j)
<1>1. op # "not"
  BY DEF Ops
<1> QED
  BY <1>1 DEF ReadingsOf

\* After a "not", the negations of the rest.
LEMMA ReadsNot ==
  ASSUME NEW i, NEW j, ~(i > j), NEW toks, toks[i] = "not"
  PROVE  \A f, results : ReadingsOf(f, toks, results, "not", i, j) = {~x : x \in f[<<"not", i + 1, j>>]}
BY DEF ReadingsOf

\* In parentheses, what stands between them.
LEMMA ReadsParen ==
  ASSUME NEW i, NEW j, ~(i > j), NEW toks, toks[i] = "("
  PROVE  \A f, results :
           ReadingsOf(f, toks, results, "not", i, j) = IF toks[j] = ")" THEN f[<<"or", i + 1, j - 1>>] ELSE {}
BY DEF ReadingsOf

\* A quantifier is three tokens.
LEMMA ReadsQuantifier ==
  ASSUME NEW i, NEW j, ~(i > j), NEW toks, toks[i] = "1" \/ toks[i] = "all"
  PROVE  \A f, results :
           ReadingsOf(f, toks, results, "not", i, j) =
             IF j = i + 2 /\ toks[i + 1] = "of" THEN {Some(toks[i], toks[j], results)} ELSE {}
BY DEF ReadingsOf

\* An identifier is one token.
LEMMA ReadsIdent ==
  ASSUME NEW i, NEW j, ~(i > j), NEW toks,
         toks[i] # "not", toks[i] # "(", toks[i] # "1", toks[i] # "all"
  PROVE  \A f, results :
           ReadingsOf(f, toks, results, "not", i, j) = IF i = j THEN {Known(toks[i], results)} ELSE {}
BY DEF ReadingsOf

\* What a span can mean rests on spans that rank below it; it is a truth value.
LEMMA ReadsRest ==
  ASSUME NEW n \in Nat, NEW toks, NEW results, NEW f, NEW g,
         NEW level \in Levels, NEW i \in 1..(n + 1), NEW j \in 0..n,
         \A d \in Spans(n) : SpanRank(d) < SpanRank(<<level, i, j>>) => f[d] = g[d] /\ f[d] \subseteq BOOLEAN
  PROVE  /\ ReadingsOf(f, toks, results, level, i, j) = ReadingsOf(g, toks, results, level, i, j)
         /\ ReadingsOf(f, toks, results, level, i, j) \subseteq BOOLEAN
<1> DEFINE F == ReadingsOf(f, toks, results, level, i, j)
           G == ReadingsOf(g, toks, results, level, i, j)
<1>1. CASE i > j
  <2>1. F = {} /\ G = {}
    BY <1>1, ReadsNone
  <2> QED
    BY <2>1
<1>2. ASSUME ~(i > j)
      PROVE  i \in Int /\ j \in Int /\ i <= j
  BY <1>2
<1>3. ASSUME ~(i > j), NEW low \in Levels, NEW k \in Int, NEW l \in Int, i <= k, l <= j, i < k \/ l < j,
             k <= n + 1, 0 <= l
      PROVE  f[<<low, k, l>>] = g[<<low, k, l>>] /\ f[<<low, k, l>>] \subseteq BOOLEAN
  <2>1. SpanRank(<<low, k, l>>) < SpanRank(<<level, i, j>>)
    BY <1>2, <1>3, ShorterSpans
  <2>2. k \in 1..(n + 1) /\ l \in 0..n
    BY <1>2, <1>3
  <2>3. <<low, k, l>> \in Spans(n)
    BY <2>2, SpansAre
  <2> QED
    BY <2>1, <2>3
<1>4. CASE ~(i > j) /\ level \in Ops
  <2>1. F = f[<<Below[level], i, j>>] \union Joined(f, toks, level, i, j)
    BY <1>4, ReadsOperands
  <2>2. G = g[<<Below[level], i, j>>] \union Joined(g, toks, level, i, j)
    BY <1>4, ReadsOperands
  <2>3. f[<<Below[level], i, j>>] = g[<<Below[level], i, j>>] /\ f[<<Below[level], i, j>>] \subseteq BOOLEAN
    <3>1. Below[level] \in Levels
      BY <1>4, KindsAre
    <3>2. <<Below[level], i, j>> \in Spans(n)
      BY <3>1, SpansAre
    <3>3. SpanRank(<<Below[level], i, j>>) < SpanRank(<<level, i, j>>)
      BY <1>2, <1>4, LowerSpans
    <3> QED
      BY <3>2, <3>3
  <2>4. ASSUME NEW k \in (i + 1)..(j - 1)
        PROVE  /\ f[<<level, i, k - 1>>] = g[<<level, i, k - 1>>]
               /\ f[<<Below[level], k + 1, j>>] = g[<<Below[level], k + 1, j>>]
    <3>1. i \in Int /\ j \in Int /\ 1 <= i /\ j <= n
      OBVIOUS
    <3>2. /\ k - 1 \in Int /\ i <= i /\ k - 1 <= j /\ k - 1 < j /\ i <= n + 1 /\ 0 <= k - 1
          /\ k + 1 \in Int /\ i <= k + 1 /\ i < k + 1 /\ j <= j /\ k + 1 <= n + 1 /\ 0 <= j
      BY <3>1
    <3>3. Below[level] \in Levels
      BY <1>4, KindsAre
    <3>4. f[<<level, i, k - 1>>] = g[<<level, i, k - 1>>]
      BY <1>3, <1>4, <3>1, <3>2
    <3>5. f[<<Below[level], k + 1, j>>] = g[<<Below[level], k + 1, j>>]
      BY <1>3, <1>4, <3>1, <3>2, <3>3
    <3> QED
      BY <3>4, <3>5
  <2>5. Joined(f, toks, level, i, j) = Joined(g, toks, level, i, j)
    BY <2>4 DEF Joined
  <2>6. Joined(f, toks, level, i, j) \subseteq BOOLEAN
    BY DEF Joined
  <2> HIDE DEF F, G
  <2>7. F = G /\ F \subseteq BOOLEAN
    BY <2>1, <2>2, <2>3, <2>5, <2>6
  <2> QED
    BY <2>7 DEF F, G
<1>5. CASE ~(i > j) /\ level = "not"
  <2>1. CASE toks[i] = "not"
    <3>1. F = {~x : x \in f[<<"not", i + 1, j>>]} /\ G = {~x : x \in g[<<"not", i + 1, j>>]}
      BY <1>5, <2>1, ReadsNot
    <3>2. i + 1 \in Int /\ j \in Int /\ i <= i + 1 /\ j <= j /\ i < i + 1 /\ i + 1 <= n + 1 /\ 0 <= j
      BY <1>5
    <3>3. "not" \in Levels
      BY KindsAre
    <3>4. f[<<"not", i + 1, j>>] = g[<<"not", i + 1, j>>]
      BY <1>3, <1>5, <3>2, <3>3
    <3>5. {~x : x \in f[<<"not", i + 1, j>>]} \subseteq BOOLEAN
      OBVIOUS
    <3> QED
      BY <3>1, <3>4, <3>5
  <2>2. CASE toks[i] = "("
    <3>1. /\ F = IF toks[j] = ")" THEN f[<<"or", i + 1, j - 1>>] ELSE {}
          /\ G = IF toks[j] = ")" THEN g[<<"or", i + 1, j - 1>>] ELSE {}
      BY <1>5, <2>2, ReadsParen
    <3>2. /\ i + 1 \in Int /\ j - 1 \in Int /\ i <= i + 1 /\ j - 1 <= j /\ i < i + 1
          /\ i + 1 <= n + 1 /\ 0 <= j - 1
      BY <1>5
    <3>3. "or" \in Levels
      BY KindsAre
    <3>4. f[<<"or", i + 1, j - 1>>] = g[<<"or", i + 1, j - 1>>] /\ f[<<"or", i + 1, j - 1>>] \subseteq BOOLEAN
      BY <1>3, <1>5, <3>2, <3>3
    <3> QED
      BY <3>1, <3>4
  <2>3. CASE toks[i] = "1" \/ toks[i] = "all"
    <3> DEFINE S == Some(toks[i], toks[j], results)
    <3>1. /\ F = IF j = i + 2 /\ toks[i + 1] = "of" THEN {S} ELSE {}
          /\ G = IF j = i + 2 /\ toks[i + 1] = "of" THEN {S} ELSE {}
      BY <1>5, <2>3, ReadsQuantifier
    <3>2. S \in BOOLEAN
      BY DEF Some
    <3> HIDE DEF S
    <3> QED
      BY <3>1, <3>2
  <2>4. CASE toks[i] # "not" /\ toks[i] # "(" /\ toks[i] # "1" /\ toks[i] # "all"
    <3> DEFINE S == Known(toks[i], results)
    <3>1. /\ F = IF i = j THEN {S} ELSE {}
          /\ G = IF i = j THEN {S} ELSE {}
      BY <1>5, <2>4, ReadsIdent
    <3>2. S \in BOOLEAN
      BY DEF Known
    <3> HIDE DEF S
    <3> QED
      BY <3>1, <3>2
  <2> QED
    BY <2>1, <2>2, <2>3, <2>4
<1> QED
  BY <1>1, <1>4, <1>5, KindsAre

\* What every span of the tokens can mean, as Meaning has it.
Readings(toks, n, results) ==
  CHOOSE reading : reading = [span \in Spans(n) |-> ReadingsOf(reading, toks, results, span[1], span[2], span[3])]

\* There are such readings, and they are truth values.
LEMMA ReadingsAre ==
  ASSUME NEW n \in Nat, NEW toks, NEW results
  PROVE  \A level \in Levels, i \in 1..(n + 1), j \in 0..n :
           /\ Readings(toks, n, results)[<<level, i, j>>]
                = ReadingsOf(Readings(toks, n, results), toks, results, level, i, j)
           /\ Readings(toks, n, results)[<<level, i, j>>] \subseteq BOOLEAN
<1> DEFINE D == Spans(n)
           B == SUBSET BOOLEAN
           F == [D -> B]
           E(f, span) == ReadingsOf(f, toks, results, span[1], span[2], span[3])
           step == [f \in F |-> [span \in D |-> E(f, span)]]
           rank == [span \in D |-> SpanRank(span)]
           m == 3 * n + 3
           R == Readings(toks, n, results)
<1>1. ASSUME NEW span \in D
      PROVE  SpanRank(span) \in Nat /\ SpanRank(span) < m
  <2>1. PICK level \in Levels, i \in 1..(n + 1), j \in 0..n : span = <<level, i, j>>
    BY SpansAre
  <2> DEFINE r == SpanRank(<<level, i, j>>)
             h == Height(level)
  <2>2. i \in Int /\ j \in Int
    OBVIOUS
  <2>3. (i > j => r = 0) /\ (i <= j => r = 3 * (j - i + 1) + h) /\ r \in Nat
    BY <2>2, SpanRankIs
  <2>4. h \in Int /\ h <= 2
    BY HeightOf
  <2> HIDE DEF r, h
  <2>5. r \in Nat /\ r < 3 * n + 3
    BY <2>3, <2>4
  <2> QED
    BY <2>1, <2>5 DEF r
<1>2. \A f, g : \A span \in D :
        (\A d \in D : SpanRank(d) < SpanRank(span) => f[d] = g[d] /\ f[d] \subseteq BOOLEAN)
          => E(f, span) = E(g, span) /\ E(f, span) \subseteq BOOLEAN
  <2> SUFFICES ASSUME NEW f, NEW g, NEW span \in D,
                      \A d \in D : SpanRank(d) < SpanRank(span) => f[d] = g[d] /\ f[d] \subseteq BOOLEAN
               PROVE  E(f, span) = E(g, span) /\ E(f, span) \subseteq BOOLEAN
    OBVIOUS
  <2>1. PICK level \in Levels, i \in 1..(n + 1), j \in 0..n : span = <<level, i, j>>
    BY SpansAre
  <2>2. span[1] = level /\ span[2] = i /\ span[3] = j
    BY <2>1
  <2>3. /\ ReadingsOf(f, toks, results, level, i, j) = ReadingsOf(g, toks, results, level, i, j)
        /\ ReadingsOf(f, toks, results, level, i, j) \subseteq BOOLEAN
    BY <2>1, ReadsRest
  <2> QED
    BY <2>2, <2>3
<1> HIDE DEF E, m
<1>3. m \in Nat
  BY DEF m
<1>4. \A f \in F : \A span \in D : f[span] \subseteq BOOLEAN
  OBVIOUS
<1>5. \E f \in F : f = step[f]
  <2>1. step \in [F -> F]
    BY <1>2, <1>4
  <2>2. rank \in [D -> Nat] /\ \A span \in D : rank[span] < m
    BY <1>1
  <2>3. \A f, g \in F : \A span \in D :
          (\A d \in D : rank[d] < rank[span] => f[d] = g[d]) => step[f][span] = step[g][span]
    <3> SUFFICES ASSUME NEW f \in F, NEW g \in F, NEW span \in D,
                        \A d \in D : rank[d] < rank[span] => f[d] = g[d]
                 PROVE  step[f][span] = step[g][span]
      OBVIOUS
    <3>1. E(f, span) = E(g, span)
      BY <1>2, <1>4
    <3> QED
      BY <3>1
  <2>4. B # {}
    OBVIOUS
  <2> HIDE DEF step, rank, D, B
  <2>5. IsRecursion(D, B, rank, m, step)
    BY <1>3, <2>1, <2>2, <2>3, <2>4 DEF IsRecursion
  <2> HIDE DEF F
  <2>6. \E f \in [D -> B] : f = step[f]
    BY <2>5, Recursion
  <2> QED
    BY <2>6 DEF F
<1>6. \E f : f = [span \in D |-> E(f, span)]
  BY <1>5
<1>7. R = [span \in D |-> E(R, span)]
  <2>1. R = CHOOSE f : f = [span \in D |-> E(f, span)]
    BY DEF Readings, E
  <2> HIDE DEF R, D
  <2> QED
    BY <1>6, <2>1
<1> HIDE DEF R, D
<1>8. \A span \in D : R[span] = E(R, span)
  BY <1>7
<1> DEFINE T == {k \in Nat : \A span \in D : SpanRank(span) = k => R[span] \subseteq BOOLEAN}
<1>9. ASSUME NEW k \in Nat, \A j \in Nat : j < k => j \in T PROVE k \in T
  <2> SUFFICES ASSUME NEW span \in D, SpanRank(span) = k PROVE R[span] \subseteq BOOLEAN
    OBVIOUS
  <2>1. \A d \in D : SpanRank(d) < SpanRank(span) => R[d] = R[d] /\ R[d] \subseteq BOOLEAN
    BY <1>1, <1>9
  <2>2. E(R, span) \subseteq BOOLEAN
    BY <1>2, <2>1
  <2> QED
    BY <1>8, <2>2
<1> HIDE DEF T
<1>10. \A k \in Nat : k \in T
  BY <1>9, Descent
<1>11. \A span \in D : R[span] \subseteq BOOLEAN
  BY <1>1, <1>10 DEF T
<1> SUFFICES ASSUME NEW level \in Levels, NEW i \in 1..(n + 1), NEW j \in 0..n
             PROVE  /\ R[<<level, i, j>>] = ReadingsOf(R, toks, results, level, i, j)
                    /\ R[<<level, i, j>>] \subseteq BOOLEAN
  BY DEF R
<1>12. <<level, i, j>> \in D
  BY SpansAre DEF D
<1>13. E(R, <<level, i, j>>) = ReadingsOf(R, toks, results, level, i, j)
  BY DEF E
<1> QED
  BY <1>8, <1>11, <1>12, <1>13

\* The meaning of a condition is a reading of all its tokens.
LEMMA MeaningIs ==
  ASSUME NEW condition, NEW n \in Nat, Len(condition.search) = n, NEW results
  PROVE  Meaning(condition, results) =
           IF condition.pipe = "bad" THEN {} ELSE Readings(condition.search, n, results)[<<"or", 1, n>>]
BY DEF Meaning, Readings, Spans

-----------------------------------------------------------------------------
(* The parser and the grammar. *)

\* A parse of the tokens, what its nodes come to, and what the spans can mean.
Setting(toks, n, results, parse, V, R) ==
  /\ n \in Nat /\ Len(toks) = n /\ \A name \in DOMAIN results : results[name] \in BOOLEAN
  /\ Solves(parse, toks, n)
  /\ \A call \in Nodes(parse, n) : V[call] = Eval(parse[call].node, V, results) /\ V[call] \in BOOLEAN
  /\ \A level \in Levels, i \in 1..(n + 1), j \in 0..n :
       /\ R[<<level, i, j>>] = ReadingsOf(R, toks, results, level, i, j)
       /\ R[<<level, i, j>>] \subseteq BOOLEAN

\* What a list of kids comes to under an operator.
Comes(V, op, kids) ==
  IF op = "and" THEN \A k \in DOMAIN kids : V[kids[k]] ELSE \E k \in DOMAIN kids : V[kids[k]]

\* Two values joined under an operator; without kids nothing changes.
LEMMA JoinOf ==
  ASSUME NEW V, NEW op
  PROVE  /\ \A x \in BOOLEAN : Join(op, x, Comes(V, op, <<>>)) = x
         /\ \A x, y, z \in BOOLEAN : Join(op, Join(op, x, y), z) = Join(op, x, Join(op, y, z))
         /\ \A x, y \in BOOLEAN : Join(op, x, y) \in BOOLEAN
         /\ \A kids : Comes(V, op, kids) \in BOOLEAN
<1>1. \A x \in BOOLEAN : Join(op, x, Comes(V, op, <<>>)) = x
  <2>1. DOMAIN <<>> = {}
    OBVIOUS
  <2> QED
    BY <2>1 DEF Join, Comes
<1>2. \A x, y, z \in BOOLEAN : Join(op, Join(op, x, y), z) = Join(op, x, Join(op, y, z))
  BY DEF Join
<1>3. /\ \A x, y \in BOOLEAN : Join(op, x, y) \in BOOLEAN
      /\ \A kids : Comes(V, op, kids) \in BOOLEAN
  BY DEF Join, Comes
<1> QED
  BY <1>1, <1>2, <1>3

\* One kid more is joined with what the others come to.
LEMMA ComesMore ==
  ASSUME NEW V, NEW op, NEW S, NEW kids \in Seq(S), NEW kid \in S, V[kid] \in BOOLEAN
  PROVE  Comes(V, op, <<kid>> \o kids) = Join(op, V[kid], Comes(V, op, kids))
<1> DEFINE s == <<kid>> \o kids
<1>1. /\ s[1] = kid /\ 1 \in DOMAIN s
      /\ \A k \in DOMAIN kids : k + 1 \in DOMAIN s /\ s[k + 1] = kids[k]
      /\ \A k \in DOMAIN s : k = 1 \/ (k - 1 \in DOMAIN kids /\ s[k] = kids[k - 1])
  OBVIOUS
<1> HIDE DEF s
<1>2. (\A k \in DOMAIN s : V[s[k]]) <=> V[kid] /\ \A k \in DOMAIN kids : V[kids[k]]
  BY <1>1
<1>3. (\E k \in DOMAIN s : V[s[k]]) <=> V[kid] \/ \E k \in DOMAIN kids : V[kids[k]]
  BY <1>1
<1>4. Comes(V, op, s) = Join(op, V[kid], Comes(V, op, kids))
  BY <1>2, <1>3 DEF Comes, Join
<1> QED
  BY <1>4 DEF s

-----------------------------------------------------------------------------
(* What each call returns, in a setting. *)

\* What the calls at a position return.
LEMMA CallAt ==
  ASSUME NEW n, NEW toks, NEW results, NEW parse, NEW V, NEW R, Setting(toks, n, results, parse, V, R),
         NEW i \in 1..(n + 1), NEW kind \in Kinds
  PROVE  parse[<<kind, i>>] = Returns(parse, toks, <<kind, i>>)
<1>1. n \in Nat
  BY DEF Setting
<1>2. \A call \in CallsOver(n) : parse[call] = Returns(parse, toks, call)
  BY DEF Setting, Solves
<1> QED
  BY <1>1, <1>2, CallsAre

\* The call of an operator: the operand and the loop after it.
LEMMA OpAt ==
  ASSUME NEW n, NEW toks, NEW results, NEW parse, NEW V, NEW R, Setting(toks, n, results, parse, V, R),
         NEW i \in 1..(n + 1), NEW op \in Ops
  PROVE  parse[<<op, i>>] = ParseChain(parse, op, i)
<1>1. op \in Kinds
  BY KindsAre
<1>2. parse[<<op, i>>] = Returns(parse, toks, <<op, i>>)
  BY <1>1, CallAt
<1>3. Returns(parse, toks, <<op, i>>) = ParseChain(parse, op, i)
  BY ReturnsIs
<1> QED
  BY <1>2, <1>3

\* The call of a loop: it goes on where its operator stands.
LEMMA LoopAt ==
  ASSUME NEW n, NEW toks, NEW results, NEW parse, NEW V, NEW R, Setting(toks, n, results, parse, V, R),
         NEW i \in 1..(n + 1), NEW op \in Ops
  PROVE  parse[<<Loop[op], i>>] = ParseRest(parse, op, toks, i)
<1>1. Loop[op] \in Kinds
  BY KindsAre
<1>2. parse[<<Loop[op], i>>] = Returns(parse, toks, <<Loop[op], i>>)
  BY <1>1, CallAt
<1>3. Returns(parse, toks, <<Loop[op], i>>) = ParseRest(parse, op, toks, i)
  BY ReturnsIs
<1> QED
  BY <1>2, <1>3

\* The call of _parse_not.
LEMMA NotAt ==
  ASSUME NEW n, NEW toks, NEW results, NEW parse, NEW V, NEW R, Setting(toks, n, results, parse, V, R),
         NEW i \in 1..(n + 1)
  PROVE  parse[<<"not", i>>] = ParseNot(parse, toks, i)
<1>1. "not" \in Kinds
  BY KindsAre
<1>2. parse[<<"not", i>>] = Returns(parse, toks, <<"not", i>>)
  BY <1>1, CallAt
<1>3. Returns(parse, toks, <<"not", i>>) = ParseNot(parse, toks, i)
  BY ReturnsIs
<1> QED
  BY <1>2, <1>3

\* Where a call that returns ends.
LEMMA EndsAt ==
  ASSUME NEW n, NEW toks, NEW results, NEW parse, NEW V, NEW R, Setting(toks, n, results, parse, V, R),
         NEW i \in 1..(n + 1), NEW kind \in Kinds, ~Failed(parse[<<kind, i>>])
  PROVE  /\ parse[<<kind, i>>].next \in 1..(n + 1)
         /\ parse[<<kind, i>>].next >= i
         /\ kind \in Levels => parse[<<kind, i>>].next > i /\ <<kind, i>> \in Nodes(parse, n)
         /\ kind \notin Levels => parse[<<kind, i>>].node \in Seq(Levels \X (1..(n + 1)))
<1> DEFINE call == <<kind, i>>
<1>1. n \in Nat
  BY DEF Setting
<1>2. call \in CallsOver(n) /\ call[1] = kind /\ call[2] = i
  BY <1>1, CallsAre
<1>3. Fits(parse, n, call, parse[call])
  BY <1>2 DEF Setting, Solves
<1>4. parse[call].err = "none"
  BY DEF Failed
<1> DEFINE x == parse[call]
<1>5. x.next \in Int /\ x.next <= n + 1
  BY <1>3, <1>4 DEF Fits
<1>6. kind \in Levels => x.next > i
  BY <1>2, <1>3, <1>4 DEF Fits
<1>7. kind \notin Levels => x.next >= i /\ Parents(parse, n, Rank(n, call), x.node)
  BY <1>2, <1>3, <1>4 DEF Fits
<1>8. kind \in Levels => call \in Nodes(parse, n)
  BY <1>2 DEF Nodes
<1>9. kind \notin Levels => x.node \in Seq(Levels \X (1..(n + 1)))
  BY <1>7 DEF Parents
<1> DEFINE j == x.next
<1>10. j \in Int /\ j <= n + 1 /\ (kind \in Levels => j > i) /\ (kind \notin Levels => j >= i)
  BY <1>5, <1>6, <1>7
<1> HIDE DEF j
<1>11. j >= i
  BY <1>10
<1>12. j \in 1..(n + 1)
  BY <1>10, <1>11, <1>1
<1> QED
  BY <1>6, <1>8, <1>9, <1>11, <1>12 DEF j

\* What a node of an operator comes to.
LEMMA ChainNode ==
  ASSUME NEW n, NEW toks, NEW results, NEW parse, NEW V, NEW R, Setting(toks, n, results, parse, V, R),
         NEW i \in 1..(n + 1), NEW op \in Ops
  PROVE  /\ Failed(parse[<<op, i>>]) <=> Failed(ParseOperands(parse, op, i))
         /\ ~Failed(parse[<<op, i>>]) =>
              /\ parse[<<op, i>>].next = ParseOperands(parse, op, i).next
              /\ V[<<op, i>>] = Comes(V, op, ParseOperands(parse, op, i).node)
              /\ V[<<op, i>>] \in BOOLEAN
<1> DEFINE call == <<op, i>>
           O == ParseOperands(parse, op, i)
           node == [op |-> op, kids |-> O.node]
<1>1. parse[call] = ParseChain(parse, op, i)
  BY OpAt
<1>2. parse[call] = IF Failed(O) THEN O ELSE Parsed(node, O.next)
  BY <1>1, Zenon DEF ParseChain
<1>3. Failed(parse[call]) <=> Failed(O)
  BY <1>2 DEF Failed, Parsed
<1>4. ASSUME ~Failed(parse[call])
      PROVE  parse[call].next = O.next /\ V[call] = Comes(V, op, O.node) /\ V[call] \in BOOLEAN
  <2>1. parse[call] = Parsed(node, O.next)
    BY <1>2, <1>3, <1>4
  <2>2. parse[call].next = O.next /\ parse[call].node = node
    BY <2>1 DEF Parsed
  <2>3. op \in Kinds /\ op \in Levels
    BY KindsAre
  <2>4. call \in Nodes(parse, n)
    BY <1>4, <2>3, EndsAt
  <2>5. V[call] = Eval(node, V, results) /\ V[call] \in BOOLEAN
    BY <2>2, <2>4 DEF Setting
  <2>6. node.op = op /\ node.kids = O.node
    OBVIOUS
  <2> HIDE DEF node
  <2>7. Eval(node, V, results) = Comes(V, op, node.kids)
    <3>1. CASE op = "and"
      <4>1. node.op = "and"
        BY <2>6, <3>1
      <4> QED
        BY <3>1, <4>1 DEF Eval, Comes
    <3>2. CASE op = "or"
      <4>1. node.op = "or"
        BY <2>6, <3>2
      <4> QED
        BY <3>2, <4>1 DEF Eval, Comes
    <3> QED
      BY <3>1, <3>2 DEF Ops
  <2> QED
    BY <2>2, <2>5, <2>6, <2>7
<1> QED
  BY <1>3, <1>4

\* The operand of an operator, and what the loop after it found.
LEMMA OperandsNode ==
  ASSUME NEW n, NEW toks, NEW results, NEW parse, NEW V, NEW R, Setting(toks, n, results, parse, V, R),
         NEW i \in 1..(n + 1), NEW op \in Ops
  PROVE  /\ ~Failed(ParseOperands(parse, op, i)) =>
              /\ ~Failed(parse[<<Below[op], i>>])
              /\ ~Failed(parse[<<Loop[op], parse[<<Below[op], i>>].next>>])
         /\ /\ ~Failed(parse[<<Below[op], i>>])
            /\ ~Failed(parse[<<Loop[op], parse[<<Below[op], i>>].next>>])
            => /\ ~Failed(ParseOperands(parse, op, i))
               /\ ParseOperands(parse, op, i).next = parse[<<Loop[op], parse[<<Below[op], i>>].next>>].next
               /\ Comes(V, op, ParseOperands(parse, op, i).node)
                    = Join(op, V[<<Below[op], i>>], Comes(V, op, parse[<<Loop[op], parse[<<Below[op], i>>].next>>].node))
               /\ V[<<Below[op], i>>] \in BOOLEAN
<1> DEFINE call == <<Below[op], i>>
           x == parse[call]
           y == parse[<<Loop[op], x.next>>]
           O == ParseOperands(parse, op, i)
<1>1. O = IF Failed(x) THEN x ELSE IF Failed(y) THEN y ELSE Parsed(<<call>> \o y.node, y.next)
  BY Zenon DEF ParseOperands
<1>2. ~Failed(O) => ~Failed(x) /\ ~Failed(y)
  <2> HIDE DEF O, x, y, call
  <2> QED
    BY <1>1
<1>3. ASSUME ~Failed(x), ~Failed(y)
      PROVE  /\ ~Failed(O) /\ O.next = y.next
             /\ Comes(V, op, O.node) = Join(op, V[call], Comes(V, op, y.node))
             /\ V[call] \in BOOLEAN
  <2>1. O = Parsed(<<call>> \o y.node, y.next)
    <3> HIDE DEF O, x, y, call
    <3> QED
      BY <1>1, <1>3
  <2>2. ~Failed(O) /\ O.next = y.next /\ O.node = <<call>> \o y.node
    <3> HIDE DEF O, x, y, call
    <3> QED
      BY <2>1 DEF Parsed, Failed
  <2>3. Below[op] \in Kinds /\ Below[op] \in Levels /\ Loop[op] \in Kinds /\ Loop[op] \notin Levels
    BY KindsAre
  <2>4. x.next \in 1..(n + 1) /\ call \in Nodes(parse, n)
    BY <1>3, <2>3, EndsAt
  <2>5. y.node \in Seq(Levels \X (1..(n + 1)))
    BY <1>3, <2>3, <2>4, EndsAt
  <2>6. V[call] \in BOOLEAN
    BY <2>4 DEF Setting
  <2>7. call \in Levels \X (1..(n + 1))
    BY <2>3
  <2>8. Comes(V, op, <<call>> \o y.node) = Join(op, V[call], Comes(V, op, y.node))
    <3> DEFINE S == Levels \X (1..(n + 1))
               kids == y.node
    <3>1. kids \in Seq(S) /\ call \in S
      BY <2>5, <2>7
    <3> HIDE DEF call, kids, S
    <3>2. Comes(V, op, <<call>> \o kids) = Join(op, V[call], Comes(V, op, kids))
      BY <2>6, <3>1, ComesMore
    <3> QED
      BY <3>2 DEF call, kids
  <2> QED
    BY <2>2, <2>6, <2>8
<1> QED
  BY <1>2, <1>3

\* The loop: it stops, or goes on after the operator.
LEMMA LoopNode ==
  ASSUME NEW n, NEW toks, NEW results, NEW parse, NEW V, NEW R, Setting(toks, n, results, parse, V, R),
         NEW p \in 1..(n + 1), NEW op \in Ops
  PROVE  /\ Peek(toks, p) # op =>
              /\ ~Failed(parse[<<Loop[op], p>>])
              /\ parse[<<Loop[op], p>>].next = p
              /\ parse[<<Loop[op], p>>].node = <<>>
         /\ Peek(toks, p) = op =>
              /\ p <= n /\ toks[p] = op
              /\ parse[<<Loop[op], p>>] = ParseOperands(parse, op, p + 1)
<1>1. parse[<<Loop[op], p>>] = ParseRest(parse, op, toks, p)
  BY LoopAt
<1>2. ASSUME Peek(toks, p) # op
      PROVE  /\ ~Failed(parse[<<Loop[op], p>>])
             /\ parse[<<Loop[op], p>>].next = p
             /\ parse[<<Loop[op], p>>].node = <<>>
  <2>1. parse[<<Loop[op], p>>] = Parsed(<<>>, p)
    BY <1>1, <1>2, Zenon DEF ParseRest
  <2> QED
    BY <2>1 DEF Parsed, Failed
<1>3. ASSUME Peek(toks, p) = op
      PROVE  /\ p <= n /\ toks[p] = op
             /\ parse[<<Loop[op], p>>] = ParseOperands(parse, op, p + 1)
  <2>1. parse[<<Loop[op], p>>] = ParseOperands(parse, op, p + 1)
    BY <1>1, <1>3, Zenon DEF ParseRest
  <2>2. n \in Nat /\ Len(toks) = n
    BY DEF Setting
  <2>3. op # ""
    BY DEF Ops
  <2>4. p \in Int
    OBVIOUS
  <2>5. /\ p > n => Peek(toks, p) = ""
        /\ p <= n => Peek(toks, p) = toks[p]
    BY <2>2, <2>4, PeekIs
  <2>6. p <= n \/ p > n
    BY <2>2
  <2> QED
    BY <1>3, <2>1, <2>3, <2>5, <2>6
<1> QED
  BY <1>2, <1>3

\* What a "not", and each kind of atom, comes to.
LEMMA NotNode ==
  ASSUME NEW n, NEW toks, NEW results, NEW parse, NEW V, NEW R, Setting(toks, n, results, parse, V, R),
         NEW i \in 1..(n + 1), ~Failed(parse[<<"not", i>>])
  PROVE  /\ V[<<"not", i>>] = Eval(parse[<<"not", i>>].node, V, results)
         /\ V[<<"not", i>>] \in BOOLEAN
<1>1. "not" \in Kinds /\ "not" \in Levels
  BY KindsAre
<1>2. <<"not", i>> \in Nodes(parse, n)
  BY <1>1, EndsAt
<1> QED
  BY <1>2 DEF Setting

\* There is no atom after the last token.
LEMMA NotMissing ==
  ASSUME NEW n, NEW toks, NEW results, NEW parse, NEW V, NEW R, Setting(toks, n, results, parse, V, R),
         NEW i \in 1..(n + 1), i > n
  PROVE  Failed(parse[<<"not", i>>])
<1>1. n \in Nat /\ Len(toks) = n
  BY DEF Setting
<1>2. i \in Int
  OBVIOUS
<1>3. Peek(toks, i) = ""
  BY <1>1, <1>2, PeekIs
<1>4. parse[<<"not", i>>] = ParseNot(parse, toks, i)
  BY NotAt
<1>5. ParseNot(parse, toks, i) = ParseAtom(parse, toks, i)
  BY <1>3 DEF ParseNot
<1>6. ParseAtom(parse, toks, i) = Raises("ValueError")
  BY <1>1, <1>2, AtomMissing
<1> QED
  BY <1>4, <1>5, <1>6 DEF Raises, Failed

\* A token that is not "not" begins an atom.
LEMMA AtomAt ==
  ASSUME NEW n, NEW toks, NEW results, NEW parse, NEW V, NEW R, Setting(toks, n, results, parse, V, R),
         NEW i \in 1..n, toks[i] # "not"
  PROVE  /\ parse[<<"not", i>>] = ParseAtom(parse, toks, i)
         /\ n \in Nat /\ Len(toks) = n /\ i \in Int /\ i <= n
<1>1. n \in Nat /\ Len(toks) = n
  BY DEF Setting
<1>2. i \in Int /\ i <= n /\ i \in 1..(n + 1)
  BY <1>1
<1>3. Peek(toks, i) = toks[i]
  BY <1>1, <1>2, PeekIs
<1>4. parse[<<"not", i>>] = ParseNot(parse, toks, i)
  BY <1>2, NotAt
<1>5. ParseNot(parse, toks, i) = ParseAtom(parse, toks, i)
  BY <1>3 DEF ParseNot
<1> QED
  BY <1>1, <1>2, <1>4, <1>5

\* A "not" negates what follows it.
LEMMA NotNot ==
  ASSUME NEW n, NEW toks, NEW results, NEW parse, NEW V, NEW R, Setting(toks, n, results, parse, V, R),
         NEW i \in 1..n, toks[i] = "not"
  PROVE  /\ Failed(parse[<<"not", i>>]) <=> Failed(parse[<<"not", i + 1>>])
         /\ ~Failed(parse[<<"not", i>>]) =>
              /\ parse[<<"not", i>>].next = parse[<<"not", i + 1>>].next
              /\ V[<<"not", i>>] = ~V[<<"not", i + 1>>]
<1> DEFINE kid == parse[<<"not", i + 1>>]
           node == [op |-> "not", kids |-> <<<<"not", i + 1>>>>]
           x == parse[<<"not", i>>]
<1>1. n \in Nat /\ Len(toks) = n
  BY DEF Setting
<1>2. i \in Int /\ i <= n /\ i \in 1..(n + 1)
  BY <1>1
<1>3. Peek(toks, i) = "not"
  BY <1>1, <1>2, PeekIs
<1>4. x = ParseNot(parse, toks, i)
  BY <1>2, NotAt
<1>5. x = IF Failed(kid) THEN kid ELSE Parsed(node, kid.next)
  BY <1>3, <1>4, Zenon DEF ParseNot
<1>6. Failed(x) <=> Failed(kid)
  <2> HIDE DEF x, kid, node
  <2> QED
    BY <1>5 DEF Parsed, Failed
<1>7. ASSUME ~Failed(x)
      PROVE  x.next = kid.next /\ V[<<"not", i>>] = ~V[<<"not", i + 1>>]
  <2>1. x.next = kid.next /\ x.node = node
    <3> HIDE DEF x, kid, node
    <3> QED
      BY <1>5, <1>6, <1>7 DEF Parsed
  <2>2. V[<<"not", i>>] = Eval(node, V, results)
    BY <1>2, <1>7, <2>1, NotNode
  <2>3. node.op = "not" /\ node.kids[1] = <<"not", i + 1>>
    OBVIOUS
  <2> HIDE DEF node
  <2>4. Eval(node, V, results) = ~V[<<"not", i + 1>>]
    BY <2>3 DEF Eval
  <2> QED
    BY <2>1, <2>2, <2>4
<1> QED
  BY <1>6, <1>7

\* Parentheses come to what is in them.
LEMMA NotParen ==
  ASSUME NEW n, NEW toks, NEW results, NEW parse, NEW V, NEW R, Setting(toks, n, results, parse, V, R),
         NEW i \in 1..n, toks[i] = "("
  PROVE  /\ ~Failed(parse[<<"not", i>>]) <=>
              ~Failed(parse[<<"or", i + 1>>]) /\ Peek(toks, parse[<<"or", i + 1>>].next) = ")"
         /\ ~Failed(parse[<<"not", i>>]) =>
              /\ parse[<<"not", i>>].next = parse[<<"or", i + 1>>].next + 1
              /\ V[<<"not", i>>] = V[<<"or", i + 1>>]
<1> DEFINE inner == parse[<<"or", i + 1>>]
           x == parse[<<"not", i>>]
<1>1. toks[i] # "not"
  OBVIOUS
<1>2. x = ParseAtom(parse, toks, i) /\ n \in Nat /\ Len(toks) = n /\ i \in Int /\ i <= n
  BY <1>1, AtomAt
<1>3. x = IF Failed(inner) THEN inner
          ELSE IF Peek(toks, inner.next) # ")" THEN Raises("ValueError")
          ELSE Parsed(inner.node, inner.next + 1)
  BY <1>2, AtomParen
<1> HIDE DEF x, inner
<1>4. ~Failed(x) <=> ~Failed(inner) /\ Peek(toks, inner.next) = ")"
  <2>1. Failed(Raises("ValueError"))
    BY DEF Raises, Failed
  <2>2. ~Failed(Parsed(inner.node, inner.next + 1))
    BY DEF Parsed, Failed
  <2> QED
    BY <1>3, <2>1, <2>2
<1>5. ASSUME ~Failed(x)
      PROVE  x.next = inner.next + 1 /\ V[<<"not", i>>] = V[<<"or", i + 1>>]
  <2>1. x = Parsed(inner.node, inner.next + 1)
    BY <1>3, <1>4, <1>5
  <2>2. x.next = inner.next + 1 /\ x.node = inner.node
    BY <2>1 DEF Parsed
  <2>3. i \in 1..(n + 1) /\ i + 1 \in 1..(n + 1)
    BY <1>2
  <2>4. V[<<"not", i>>] = Eval(x.node, V, results)
    BY <1>5, <2>3, NotNode DEF x
  <2>5. "or" \in Kinds /\ "or" \in Levels
    BY KindsAre
  <2>6. <<"or", i + 1>> \in Nodes(parse, n)
    BY <1>4, <1>5, <2>3, <2>5, EndsAt DEF inner
  <2>7. V[<<"or", i + 1>>] = Eval(inner.node, V, results)
    BY <2>6 DEF Setting, inner
  <2> QED
    BY <2>2, <2>4, <2>7
<1> QED
  BY <1>4, <1>5 DEF x, inner

\* A quantifier comes to what it says of the selections.
LEMMA NotQuantifier ==
  ASSUME NEW n, NEW toks, NEW results, NEW parse, NEW V, NEW R, Setting(toks, n, results, parse, V, R),
         NEW i \in 1..n, toks[i] = "1" \/ toks[i] = "all"
  PROVE  /\ ~Failed(parse[<<"not", i>>]) <=> i + 2 <= n /\ toks[i + 1] = "of"
         /\ ~Failed(parse[<<"not", i>>]) =>
              /\ parse[<<"not", i>>].next = i + 3
              /\ V[<<"not", i>>] = Quantified(toks[i], toks[i + 2], results)
<1> DEFINE node == [op |-> toks[i], pattern |-> toks[i + 2]]
           x == parse[<<"not", i>>]
<1>1. toks[i] # "not"
  OBVIOUS
<1>2. x = ParseAtom(parse, toks, i) /\ n \in Nat /\ Len(toks) = n /\ i \in Int /\ i <= n
  BY <1>1, AtomAt
<1>3. x = ParseQuantifier(toks, i)
  BY <1>2, AtomQuantifier
<1>4. x = IF Peek(toks, i + 1) # "of" THEN Raises("ValueError")
          ELSE IF i + 2 > Len(toks) THEN Raises("IndexError")
          ELSE Parsed(node, i + 3)
  BY <1>3, Zenon DEF ParseQuantifier
<1>5. Peek(toks, i + 1) = "of" /\ ~(i + 2 > Len(toks)) <=> i + 2 <= n /\ toks[i + 1] = "of"
  <2>1. i + 1 \in Int
    BY <1>2
  <2>2. i + 1 <= n => Peek(toks, i + 1) = toks[i + 1]
    BY <1>2, <2>1, PeekIs
  <2>3. ~(i + 2 > Len(toks)) <=> i + 2 <= n
    BY <1>2
  <2>4. i + 2 <= n => i + 1 <= n
    BY <1>2
  <2> QED
    BY <2>2, <2>3, <2>4
<1> HIDE DEF x, node
<1>6. ~Failed(x) <=> Peek(toks, i + 1) = "of" /\ ~(i + 2 > Len(toks))
  <2>1. Failed(Raises("ValueError")) /\ Failed(Raises("IndexError"))
    BY DEF Raises, Failed
  <2>2. ~Failed(Parsed(node, i + 3))
    BY DEF Parsed, Failed
  <2> QED
    BY <1>4, <2>1, <2>2
<1>7. ASSUME ~Failed(x)
      PROVE  x.next = i + 3 /\ V[<<"not", i>>] = Quantified(toks[i], toks[i + 2], results)
  <2>1. x = Parsed(node, i + 3)
    BY <1>4, <1>6, <1>7
  <2>2. x.next = i + 3 /\ x.node = node
    BY <2>1 DEF Parsed
  <2>3. i \in 1..(n + 1)
    BY <1>2
  <2>4. V[<<"not", i>>] = Eval(node, V, results)
    BY <1>7, <2>2, <2>3, NotNode DEF x
  <2>5. node.op = toks[i] /\ node.pattern = toks[i + 2]
    BY DEF node
  <2>6. node.op # "ident" /\ node.op # "not" /\ node.op # "and" /\ node.op # "or"
    BY <2>5
  <2>7. Eval(node, V, results) = Quantified(node.op, node.pattern, results)
    BY <2>6 DEF Eval
  <2> QED
    BY <2>2, <2>4, <2>5, <2>7
<1> QED
  BY <1>5, <1>6, <1>7 DEF x

\* An identifier comes to whether its selection holds.
LEMMA NotIdent ==
  ASSUME NEW n, NEW toks, NEW results, NEW parse, NEW V, NEW R, Setting(toks, n, results, parse, V, R),
         NEW i \in 1..n, toks[i] # "not", toks[i] # "(", toks[i] # "1", toks[i] # "all"
  PROVE  /\ ~Failed(parse[<<"not", i>>])
         /\ parse[<<"not", i>>].next = i + 1
         /\ V[<<"not", i>>] = Known(toks[i], results)
<1> DEFINE node == [op |-> "ident", name |-> toks[i]]
           x == parse[<<"not", i>>]
<1>1. x = ParseAtom(parse, toks, i) /\ n \in Nat /\ Len(toks) = n /\ i \in Int /\ i <= n
  BY AtomAt
<1>2. x = Parsed(node, i + 1)
  BY <1>1, AtomIdent
<1>3. node.op = "ident" /\ node.name = toks[i]
  OBVIOUS
<1> HIDE DEF x, node
<1>4. ~Failed(x) /\ x.next = i + 1 /\ x.node = node
  BY <1>2 DEF Parsed, Failed
<1>5. i \in 1..(n + 1)
  BY <1>1
<1>6. V[<<"not", i>>] = Eval(node, V, results)
  BY <1>4, <1>5, NotNode DEF x
<1>7. Eval(node, V, results) = Known(toks[i], results)
  BY <1>3 DEF Eval
<1> QED
  BY <1>4, <1>6, <1>7 DEF x

\* The quantifier holds of exactly what it says.
LEMMA QuantifiedIs ==
  ASSUME NEW results, \A name \in DOMAIN results : results[name] \in BOOLEAN, NEW quant, NEW pattern
  PROVE  Quantified(quant, pattern, results) = Some(quant, pattern, results)
<1> DEFINE D == DOMAIN results
           glob == IF pattern \in DOMAIN Globs THEN Globs[pattern] ELSE {pattern}
           names == IF pattern = "them" THEN D
                    ELSE {n \in D : n = pattern \/ (pattern \in DOMAIN Globs /\ n \in Globs[pattern])}
           hits == {n \in names : results[n]}
<1>1. Covered(pattern, D) = names
  <2>1. Covered(pattern, D) = IF pattern = "them" THEN D ELSE D \intersect glob
    BY Zenon DEF Covered
  <2>2. D \intersect glob = {n \in D : n = pattern \/ (pattern \in DOMAIN Globs /\ n \in Globs[pattern])}
    <3>1. CASE pattern \in DOMAIN Globs
      BY <3>1, GlobsAssumption
    <3>2. CASE pattern \notin DOMAIN Globs
      BY <3>2
    <3> QED
      BY <3>1, <3>2
  <2> QED
    BY <2>1, <2>2
<1>2. Quantified(quant, pattern, results)
        = (names # {} /\ IF quant = "all" THEN \A n \in names : results[n] ELSE \E n \in names : results[n])
  BY <1>1, Zenon DEF Quantified
<1>3. Some(quant, pattern, results) = (hits # {} /\ (quant = "all" => hits = names))
  BY Zenon DEF Some
<1> HIDE DEF names
<1>4. CASE quant = "all"
  BY <1>2, <1>3, <1>4
<1>5. CASE quant # "all"
  BY <1>2, <1>3, <1>5
<1> QED
  BY <1>4, <1>5

\* The readings of a span.
LEMMA ReadsAs ==
  ASSUME NEW n, NEW toks, NEW results, NEW parse, NEW V, NEW R, Setting(toks, n, results, parse, V, R),
         NEW level \in Levels, NEW i \in 1..(n + 1), NEW j \in 0..n
  PROVE  /\ R[<<level, i, j>>] = ReadingsOf(R, toks, results, level, i, j)
         /\ R[<<level, i, j>>] \subseteq BOOLEAN
BY DEF Setting

\* The readings of a level with an operator.
LEMMA ReadsChain ==
  ASSUME NEW n, NEW toks, NEW results, NEW parse, NEW V, NEW R, Setting(toks, n, results, parse, V, R),
         NEW op \in Ops, NEW i \in 1..n, NEW j \in i..n
  PROVE  R[<<op, i, j>>] = R[<<Below[op], i, j>>] \union Joined(R, toks, op, i, j)
<1>1. n \in Nat
  BY DEF Setting
<1>2. i \in 1..(n + 1) /\ j \in 0..n /\ ~(i > j)
  BY <1>1
<1>3. op \in Levels
  BY KindsAre
<1>4. R[<<op, i, j>>] = ReadingsOf(R, toks, results, op, i, j)
  BY <1>2, <1>3, ReadsAs
<1> QED
  BY <1>2, <1>4, ReadsOperands

\* Two operands read around an operator are read as one.
LEMMA ReadsJoined ==
  ASSUME NEW n, NEW toks, NEW results, NEW parse, NEW V, NEW R, Setting(toks, n, results, parse, V, R),
         NEW op \in Ops, NEW i \in 1..n, NEW j \in i..n, NEW p \in (i + 1)..(j - 1), toks[p] = op,
         NEW x \in R[<<op, i, p - 1>>], NEW y \in R[<<Below[op], p + 1, j>>]
  PROVE  Join(op, x, y) \in R[<<op, i, j>>]
<1>1. R[<<op, i, j>>] = R[<<Below[op], i, j>>] \union Joined(R, toks, op, i, j)
  BY ReadsChain
<1>2. n \in Nat
  BY DEF Setting
<1>3. i \in 1..(n + 1) /\ p - 1 \in 0..n /\ p + 1 \in 1..(n + 1) /\ j \in 0..n
  BY <1>2
<1>4. op \in Levels /\ Below[op] \in Levels
  BY KindsAre
<1>5. x \in BOOLEAN
  <2>1. R[<<op, i, p - 1>>] \subseteq BOOLEAN
    BY <1>3, <1>4, ReadsAs
  <2> QED
    BY <2>1
<1>6. y \in BOOLEAN
  <2>1. R[<<Below[op], p + 1, j>>] \subseteq BOOLEAN
    BY <1>3, <1>4, ReadsAs
  <2> QED
    BY <2>1
<1> DEFINE z == Join(op, x, y)
<1>7. z \in BOOLEAN
  BY <1>5, <1>6, JoinOf
<1> HIDE DEF z
<1>8. z \in Joined(R, toks, op, i, j)
  BY <1>7 DEF Joined, z
<1> QED
  BY <1>1, <1>8 DEF z

-----------------------------------------------------------------------------
(* What the parser accepts. *)

\* What a call of a level parsed is a reading of the tokens it consumed; what a
\* loop found may be joined to a reading of the tokens before it.
LevelSound(parse, V, R, level, i) ==
  ~Failed(parse[<<level, i>>]) => V[<<level, i>>] \in R[<<level, i, parse[<<level, i>>].next - 1>>]
LoopSound(parse, V, R, op, i) ==
  ~Failed(parse[<<Loop[op], i>>]) =>
    \A h \in 1..(i - 1) : \A u \in R[<<op, h, i - 1>>] :
      Join(op, u, Comes(V, op, parse[<<Loop[op], i>>].node)) \in R[<<op, h, parse[<<Loop[op], i>>].next - 1>>]

\* An operator and its operands are read as they were parsed, if the operands are.
LEMMA ChainSound ==
  ASSUME NEW n, NEW toks, NEW results, NEW parse, NEW V, NEW R, Setting(toks, n, results, parse, V, R),
         NEW op \in Ops, NEW i \in 1..(n + 1), LevelSound(parse, V, R, Below[op], i),
         \A p \in (i + 1)..(n + 1) : LoopSound(parse, V, R, op, p)
  PROVE  LevelSound(parse, V, R, op, i)
<1> DEFINE c == <<Below[op], i>>
           p == parse[c].next
           l == <<Loop[op], p>>
           O == ParseOperands(parse, op, i)
           u == V[c]
           w == Comes(V, op, parse[l].node)
           e == parse[l].next
<1> SUFFICES ASSUME ~Failed(parse[<<op, i>>])
             PROVE  V[<<op, i>>] \in R[<<op, i, parse[<<op, i>>].next - 1>>]
  BY DEF LevelSound
<1>1. /\ ~Failed(O) /\ parse[<<op, i>>].next = O.next
      /\ V[<<op, i>>] = Comes(V, op, O.node)
  BY ChainNode
<1>2. ~Failed(parse[c]) /\ ~Failed(parse[l])
  BY <1>1, OperandsNode
<1>3. O.next = e /\ Comes(V, op, O.node) = Join(op, u, w)
  BY <1>2, OperandsNode
<1>4. Below[op] \in Kinds /\ Below[op] \in Levels
  BY KindsAre
<1>5. p \in 1..(n + 1) /\ p > i
  BY <1>2, <1>4, EndsAt
<1>6. n \in Nat
  BY DEF Setting
<1>7. u \in R[<<Below[op], i, p - 1>>]
  BY <1>2 DEF LevelSound
<1>8. LoopSound(parse, V, R, op, p)
  <2> HIDE DEF p
  <2>1. p \in (i + 1)..(n + 1)
    BY <1>5
  <2> QED
    BY <2>1
<1>9. i \in 1..(p - 1) /\ i \in 1..n /\ p - 1 \in i..n
  <2> HIDE DEF p
  <2> QED
    BY <1>5, <1>6
<1>10. u \in R[<<op, i, p - 1>>]
  BY <1>7, <1>9, ReadsChain
<1>11. Join(op, u, w) \in R[<<op, i, e - 1>>]
  BY <1>2, <1>8, <1>9, <1>10 DEF LoopSound
<1> QED
  BY <1>1, <1>3, <1>11

\* So is what a loop found.
LEMMA LoopsSound ==
  ASSUME NEW n, NEW toks, NEW results, NEW parse, NEW V, NEW R, Setting(toks, n, results, parse, V, R),
         NEW op \in Ops, NEW i \in 1..(n + 1),
         \A p \in (i + 1)..(n + 1) : LevelSound(parse, V, R, Below[op], p) /\ LoopSound(parse, V, R, op, p)
  PROVE  LoopSound(parse, V, R, op, i)
<1> DEFINE L == parse[<<Loop[op], i>>]
           c == <<Below[op], i + 1>>
           p == parse[c].next
           l == <<Loop[op], p>>
           O == ParseOperands(parse, op, i + 1)
           y == V[c]
           w == Comes(V, op, parse[l].node)
           e == parse[l].next
<1> SUFFICES ASSUME ~Failed(L), NEW h \in 1..(i - 1), NEW u \in R[<<op, h, i - 1>>]
             PROVE  Join(op, u, Comes(V, op, L.node)) \in R[<<op, h, L.next - 1>>]
  BY DEF LoopSound
<1>1. n \in Nat
  BY DEF Setting
<1>2. u \in BOOLEAN
  <2>1. op \in Levels
    BY KindsAre
  <2>2. h \in 1..(n + 1) /\ i - 1 \in 0..n
    BY <1>1
  <2>3. R[<<op, h, i - 1>>] \subseteq BOOLEAN
    BY <2>1, <2>2, ReadsAs
  <2> QED
    BY <2>3
<1>3. CASE Peek(toks, i) # op
  <2>1. L.next = i /\ L.node = <<>>
    BY <1>3, LoopNode
  <2>2. Join(op, u, Comes(V, op, <<>>)) = u
    BY <1>2, JoinOf
  <2> QED
    BY <2>1, <2>2
<1>4. CASE Peek(toks, i) = op
  <2>1. i <= n /\ toks[i] = op /\ L = O
    BY <1>4, LoopNode
  <2>2. i + 1 \in 1..(n + 1) /\ i + 1 \in (i + 1)..(n + 1)
    BY <1>1, <2>1
  <2>3. ~Failed(O)
    BY <2>1
  <2>4. ~Failed(parse[c]) /\ ~Failed(parse[l])
    BY <2>2, <2>3, OperandsNode
  <2>5. O.next = e /\ Comes(V, op, O.node) = Join(op, y, w) /\ y \in BOOLEAN
    BY <2>2, <2>4, OperandsNode
  <2>6. Below[op] \in Kinds /\ Below[op] \in Levels
    BY KindsAre
  <2>7. p \in 1..(n + 1) /\ p > i + 1
    BY <2>2, <2>4, <2>6, EndsAt
  <2>8. y \in R[<<Below[op], i + 1, p - 1>>]
    BY <2>2, <2>4 DEF LevelSound
  <2>9. /\ p \in (i + 1)..(n + 1) /\ h \in 1..(p - 1) /\ h \in 1..n /\ p - 1 \in h..n
        /\ i \in (h + 1)..((p - 1) - 1)
    <3> HIDE DEF p
    <3> QED
      BY <1>1, <2>1, <2>7
  <2> DEFINE z == Join(op, u, y)
  <2>10. z \in R[<<op, h, p - 1>>]
    <3> DEFINE j == p - 1
    <3>1. j \in h..n /\ i \in (h + 1)..(j - 1) /\ h \in 1..n /\ y \in R[<<Below[op], i + 1, j>>]
      BY <2>8, <2>9
    <3> HIDE DEF j, p, y
    <3>2. Join(op, u, y) \in R[<<op, h, j>>]
      BY <2>1, <3>1, ReadsJoined
    <3> QED
      BY <3>2 DEF j
  <2>11. LoopSound(parse, V, R, op, p)
    BY <2>9
  <2>12. Join(op, z, w) \in R[<<op, h, e - 1>>]
    <3> HIDE DEF z
    <3> QED
      BY <2>4, <2>9, <2>10, <2>11 DEF LoopSound
  <2>13. w \in BOOLEAN
    BY JoinOf
  <2>14. Join(op, z, w) = Join(op, u, Join(op, y, w))
    <3> HIDE DEF w, y
    <3> QED
      BY <1>2, <2>5, <2>13 DEF Join
  <2> QED
    BY <2>1, <2>5, <2>12, <2>14
<1> QED
  BY <1>3, <1>4

\* So is a negation or an atom.
LEMMA NotSound ==
  ASSUME NEW n, NEW toks, NEW results, NEW parse, NEW V, NEW R, Setting(toks, n, results, parse, V, R),
         NEW i \in 1..(n + 1),
         \A p \in (i + 1)..(n + 1) : LevelSound(parse, V, R, "not", p) /\ LevelSound(parse, V, R, "or", p)
  PROVE  LevelSound(parse, V, R, "not", i)
<1> DEFINE x == parse[<<"not", i>>]
           v == V[<<"not", i>>]
           j == x.next - 1
<1> SUFFICES ASSUME ~Failed(x) PROVE v \in R[<<"not", i, j>>]
  BY DEF LevelSound
<1>1. n \in Nat /\ Len(toks) = n /\ \A name \in DOMAIN results : results[name] \in BOOLEAN
  BY DEF Setting
<1>2. i \in 1..n
  <2>1. ~(i > n)
    BY NotMissing
  <2> QED
    BY <1>1, <2>1
<1>3. "not" \in Kinds /\ "not" \in Levels /\ "or" \in Kinds /\ "or" \in Levels
  BY KindsAre
<1>4. x.next \in 1..(n + 1) /\ x.next > i
  BY <1>3, EndsAt
<1>5. j \in 0..n /\ ~(i > j) /\ j + 1 = x.next
  <2> HIDE DEF x
  <2> QED
    BY <1>1, <1>4
<1>6. R[<<"not", i, j>>] = ReadingsOf(R, toks, results, "not", i, j)
  <2> HIDE DEF j
  <2> QED
    BY <1>3, <1>5, ReadsAs
<1>7. i + 1 \in (i + 1)..(n + 1) /\ i + 1 \in 1..(n + 1)
  BY <1>1, <1>2
<1>8. CASE toks[i] = "not"
  <2> DEFINE kid == parse[<<"not", i + 1>>]
             b == V[<<"not", i + 1>>]
  <2>1. ~Failed(kid)
    BY <1>2, <1>8, NotNot
  <2>2. x.next = kid.next /\ v = ~b
    BY <1>2, <1>8, NotNot
  <2>3. b \in R[<<"not", i + 1, kid.next - 1>>]
    BY <1>7, <2>1 DEF LevelSound
  <2>4. R[<<"not", i, j>>] = {~y : y \in R[<<"not", i + 1, j>>]}
    <3> HIDE DEF j
    <3> QED
      BY <1>5, <1>6, <1>8, ReadsNot
  <2>5. b \in R[<<"not", i + 1, j>>]
    BY <2>2, <2>3
  <2> HIDE DEF b, j
  <2> QED
    BY <2>2, <2>4, <2>5
<1>9. CASE toks[i] = "("
  <2> DEFINE inner == parse[<<"or", i + 1>>]
             m == inner.next
  <2>1. ~Failed(inner) /\ Peek(toks, m) = ")"
    BY <1>2, <1>9, NotParen
  <2>2. x.next = m + 1 /\ v = V[<<"or", i + 1>>]
    BY <1>2, <1>9, NotParen
  <2>3. V[<<"or", i + 1>>] \in R[<<"or", i + 1, m - 1>>]
    BY <1>7, <2>1 DEF LevelSound
  <2>4. m \in 1..(n + 1)
    BY <1>3, <1>7, <2>1, EndsAt
  <2>5. j = m
    <3> HIDE DEF m, x
    <3> QED
      BY <2>2, <2>4
  <2>6. toks[m] = ")"
    <3> HIDE DEF m
    <3>1. m \in Int /\ Peek(toks, m) # ""
      BY <2>1, <2>4
    <3>2. m <= n
      BY <1>1, <3>1, PeekIs
    <3>3. Peek(toks, m) = toks[m]
      BY <1>1, <3>1, <3>2, PeekIs
    <3> QED
      BY <2>1, <3>3
  <2>7. R[<<"not", i, j>>] = IF toks[j] = ")" THEN R[<<"or", i + 1, j - 1>>] ELSE {}
    <3> HIDE DEF j
    <3> QED
      <4>1. ~(i > j) /\ toks[i] = "("
        BY <1>5, <1>9
      <4>2. \A f, r : ReadingsOf(f, toks, r, "not", i, j)
                       = IF toks[j] = ")" THEN f[<<"or", i + 1, j - 1>>] ELSE {}
        BY <4>1, ReadsParen, Zenon
      <4> QED
        BY <1>6, <4>2
  <2> HIDE DEF j, m, v
  <2> QED
    BY <2>2, <2>3, <2>5, <2>6, <2>7
<1>10. CASE toks[i] = "1" \/ toks[i] = "all"
  <2>1. toks[i + 1] = "of" /\ x.next = i + 3 /\ v = Quantified(toks[i], toks[i + 2], results)
    BY <1>2, <1>10, NotQuantifier
  <2>2. j = i + 2
    <3> HIDE DEF x
    <3> QED
      BY <2>1
  <2>3. R[<<"not", i, j>>] =
          IF j = i + 2 /\ toks[i + 1] = "of" THEN {Some(toks[i], toks[j], results)} ELSE {}
    <3> HIDE DEF j
    <3> QED
      BY <1>5, <1>6, <1>10, ReadsQuantifier
  <2>4. v = Some(toks[i], toks[i + 2], results)
    BY <1>1, <2>1, QuantifiedIs
  <2> HIDE DEF j, v
  <2> QED
    BY <2>1, <2>2, <2>3, <2>4
<1>11. CASE toks[i] # "not" /\ toks[i] # "(" /\ toks[i] # "1" /\ toks[i] # "all"
  <2>1. x.next = i + 1 /\ v = Known(toks[i], results)
    BY <1>2, <1>11, NotIdent
  <2>2. j = i
    <3> HIDE DEF x
    <3> QED
      BY <2>1
  <2>3. R[<<"not", i, j>>] = IF i = j THEN {Known(toks[i], results)} ELSE {}
    <3> HIDE DEF j
    <3> QED
      <4>1. ~(i > j) /\ toks[i] # "not" /\ toks[i] # "(" /\ toks[i] # "1" /\ toks[i] # "all"
        BY <1>5, <1>11
      <4>2. \A f, r : ReadingsOf(f, toks, r, "not", i, j) = IF i = j THEN {Known(toks[i], r)} ELSE {}
        BY <4>1, ReadsIdent, Zenon
      <4> QED
        BY <1>6, <4>2
  <2> HIDE DEF j, v
  <2> QED
    BY <2>1, <2>2, <2>3
<1> QED
  BY <1>8, <1>9, <1>10, <1>11

\* What the parser accepts, the grammar reads the same way.
LEMMA Soundness ==
  ASSUME NEW n, NEW toks, NEW results, NEW parse, NEW V, NEW R, Setting(toks, n, results, parse, V, R)
  PROVE  \A level \in Levels, i \in 1..(n + 1) : LevelSound(parse, V, R, level, i)
<1> DEFINE Good(i) == /\ \A level \in Levels : LevelSound(parse, V, R, level, i)
                      /\ \A op \in Ops : LoopSound(parse, V, R, op, i)
           T == {k \in Nat : \A i \in 1..(n + 1) : (n + 1) - i = k => Good(i)}
<1>1. n \in Nat
  BY DEF Setting
<1>2. ASSUME NEW i \in 1..(n + 1), \A p \in (i + 1)..(n + 1) : Good(p) PROVE Good(i)
  <2>1. "not" \in Levels /\ "or" \in Levels /\ "and" \in Ops /\ "or" \in Ops
    BY KindsAre
  <2>2. LevelSound(parse, V, R, "not", i)
    BY <1>2, <2>1, NotSound
  <2>3. \A op \in Ops : LoopSound(parse, V, R, op, i)
    <3> SUFFICES ASSUME NEW op \in Ops PROVE LoopSound(parse, V, R, op, i)
      OBVIOUS
    <3>1. Below[op] \in Levels
      BY KindsAre
    <3> QED
      BY <1>2, <3>1, LoopsSound
  <2>4. \A op \in Ops : LevelSound(parse, V, R, Below[op], i) => LevelSound(parse, V, R, op, i)
    BY <1>2, ChainSound
  <2>5. Below["and"] = "not" /\ Below["or"] = "and"
    BY DEF Below
  <2>6. LevelSound(parse, V, R, "and", i)
    BY <2>1, <2>2, <2>4, <2>5, Zenon
  <2>7. LevelSound(parse, V, R, "or", i)
    BY <2>1, <2>4, <2>5, <2>6, Zenon
  <2>8. \A level \in Levels : LevelSound(parse, V, R, level, i)
    BY <2>2, <2>6, <2>7 DEF Levels
  <2> QED
    BY <2>3, <2>8
<1> HIDE DEF Good
<1>3. ASSUME NEW k \in Nat, \A j \in Nat : j < k => j \in T PROVE k \in T
  <2> SUFFICES ASSUME NEW i \in 1..(n + 1), (n + 1) - i = k PROVE Good(i)
    OBVIOUS
  <2>1. ASSUME NEW p \in (i + 1)..(n + 1) PROVE Good(p)
    <3> DEFINE d == (n + 1) - p
    <3>1. d \in Nat /\ d < k /\ p \in 1..(n + 1)
      BY <1>1
    <3>2. d \in T
      BY <1>3, <3>1
    <3> QED
      BY <3>1, <3>2
  <2> QED
    BY <1>2, <2>1
<1> HIDE DEF T
<1>4. \A k \in Nat : k \in T
  BY <1>3, Descent
<1>5. ASSUME NEW i \in 1..(n + 1) PROVE Good(i)
  <2>1. (n + 1) - i \in Nat
    BY <1>1
  <2> QED
    BY <1>4, <2>1 DEF T
<1> QED
  BY <1>5 DEF Good

-----------------------------------------------------------------------------
(* What the grammar reads. *)

\* The tokens a level leaves to its caller.
Stops(level, token) == (level # "not" => token # "and") /\ (level = "or" => token # "or")

\* A reading of the tokens i to j is what the call at i returns when the next
\* token is not its own; and the operands are parsed on from any that are read.
LevelComplete(toks, parse, V, R, level, i, j) ==
  Stops(level, Peek(toks, j + 1)) => \A v \in R[<<level, i, j>>] :
    ~Failed(parse[<<level, i>>]) /\ parse[<<level, i>>].next = j + 1 /\ V[<<level, i>>] = v
OpComplete(toks, parse, V, R, op, i, j) ==
  Stops(Below[op], Peek(toks, j + 1)) /\ ~Failed(parse[<<Loop[op], j + 1>>]) => \A v \in R[<<op, i, j>>] :
    /\ ~Failed(ParseOperands(parse, op, i))
    /\ ParseOperands(parse, op, i).next = parse[<<Loop[op], j + 1>>].next
    /\ Comes(V, op, ParseOperands(parse, op, i).node) = Join(op, v, Comes(V, op, parse[<<Loop[op], j + 1>>].node))

\* Tokens that stop an operator stop its operands.
LEMMA StopsOf ==
  /\ \A op \in Ops : \A token : Stops(op, token) => Stops(Below[op], token) /\ token # op
  /\ \A op \in Ops : Stops(Below[op], op)
  /\ \A token : Stops("not", token)
  /\ \A level : Stops(level, ")") /\ Stops(level, "")
<1>1. Below["and"] = "not" /\ Below["or"] = "and"
  BY DEF Below
<1>2. \A token : Stops("not", token)
  BY DEF Stops
<1>3. \A level : Stops(level, ")") /\ Stops(level, "")
  BY DEF Stops
<1>4. /\ Stops("and", "or")
      /\ \A token : Stops("or", token) => Stops("and", token) /\ token # "or"
      /\ \A token : Stops("and", token) => token # "and"
  BY DEF Stops
<1>5. ASSUME NEW op \in Ops
      PROVE  (\A token : Stops(op, token) => Stops(Below[op], token) /\ token # op) /\ Stops(Below[op], op)
  <2>1. CASE op = "or"
    BY <1>1, <1>4, <2>1, Zenon
  <2>2. CASE op = "and"
    BY <1>1, <1>2, <1>4, <2>2, Zenon
  <2> QED
    BY <2>1, <2>2 DEF Ops
<1> QED
  BY <1>2, <1>3, <1>5

\* What is read as one operand is parsed as an operator of one operand.
LEMMA ChainComplete ==
  ASSUME NEW n, NEW toks, NEW results, NEW parse, NEW V, NEW R, Setting(toks, n, results, parse, V, R),
         NEW op \in Ops, NEW i \in 1..n, NEW j \in i..n, OpComplete(toks, parse, V, R, op, i, j)
  PROVE  LevelComplete(toks, parse, V, R, op, i, j)
<1> SUFFICES ASSUME Stops(op, Peek(toks, j + 1)), NEW v \in R[<<op, i, j>>]
             PROVE  /\ ~Failed(parse[<<op, i>>]) /\ parse[<<op, i>>].next = j + 1
                    /\ V[<<op, i>>] = v
  BY DEF LevelComplete
<1> DEFINE O == ParseOperands(parse, op, i)
           L == parse[<<Loop[op], j + 1>>]
<1>1. n \in Nat
  BY DEF Setting
<1>2. i \in 1..(n + 1) /\ j \in 0..n /\ j + 1 \in 1..(n + 1)
  BY <1>1
<1>3. Stops(Below[op], Peek(toks, j + 1)) /\ Peek(toks, j + 1) # op
  BY StopsOf
<1>4. ~Failed(L) /\ L.next = j + 1 /\ L.node = <<>>
  BY <1>2, <1>3, LoopNode
<1>5. ~Failed(O) /\ O.next = L.next /\ Comes(V, op, O.node) = Join(op, v, Comes(V, op, L.node))
  BY <1>3, <1>4 DEF OpComplete
<1>6. v \in BOOLEAN
  <2>1. op \in Levels
    BY KindsAre
  <2>2. R[<<op, i, j>>] \subseteq BOOLEAN
    BY <1>2, <2>1, ReadsAs
  <2> QED
    BY <2>2
<1>7. Join(op, v, Comes(V, op, <<>>)) = v
  BY <1>6, JoinOf
<1>8. ~Failed(parse[<<op, i>>])
  BY <1>2, <1>5, ChainNode
<1>9. parse[<<op, i>>].next = O.next /\ V[<<op, i>>] = Comes(V, op, O.node)
  BY <1>2, <1>8, ChainNode
<1> QED
  BY <1>4, <1>5, <1>7, <1>8, <1>9

\* What is read as two operands joined is parsed on from the first.
LEMMA OperandsComplete ==
  ASSUME NEW n, NEW toks, NEW results, NEW parse, NEW V, NEW R, Setting(toks, n, results, parse, V, R),
         NEW op \in Ops, NEW i \in 1..n, NEW j \in i..n,
         LevelComplete(toks, parse, V, R, Below[op], i, j),
         \A k \in (i + 1)..(j - 1) : /\ OpComplete(toks, parse, V, R, op, i, k - 1)
                                     /\ LevelComplete(toks, parse, V, R, Below[op], k + 1, j)
  PROVE  OpComplete(toks, parse, V, R, op, i, j)
<1> DEFINE L == parse[<<Loop[op], j + 1>>]
           O == ParseOperands(parse, op, i)
           w == Comes(V, op, L.node)
<1> SUFFICES ASSUME Stops(Below[op], Peek(toks, j + 1)), ~Failed(L), NEW v \in R[<<op, i, j>>]
             PROVE  ~Failed(O) /\ O.next = L.next /\ Comes(V, op, O.node) = Join(op, v, w)
  BY DEF OpComplete
<1>1. n \in Nat /\ Len(toks) = n
  BY DEF Setting
<1>2. i \in 1..(n + 1) /\ j \in 0..n
  BY <1>1
<1>3. R[<<op, i, j>>] = R[<<Below[op], i, j>>] \union Joined(R, toks, op, i, j)
  BY ReadsChain
<1>4. CASE v \in R[<<Below[op], i, j>>]
  <2> DEFINE c == <<Below[op], i>>
  <2>1. ~Failed(parse[c]) /\ parse[c].next = j + 1 /\ V[c] = v
    BY <1>4 DEF LevelComplete
  <2>2. ~Failed(parse[<<Loop[op], parse[c].next>>])
    BY <2>1
  <2>3. /\ ~Failed(O) /\ O.next = parse[<<Loop[op], parse[c].next>>].next
        /\ Comes(V, op, O.node) = Join(op, V[c], Comes(V, op, parse[<<Loop[op], parse[c].next>>].node))
    BY <1>2, <2>1, <2>2, OperandsNode
  <2> QED
    BY <2>1, <2>3
<1>5. CASE v \in Joined(R, toks, op, i, j)
  <2>1. PICK k \in (i + 1)..(j - 1) : toks[k] = op /\
          \E x \in R[<<op, i, k - 1>>], y \in R[<<Below[op], k + 1, j>>] : v = Join(op, x, y)
    BY <1>5 DEF Joined
  <2>2. PICK x \in R[<<op, i, k - 1>>], y \in R[<<Below[op], k + 1, j>>] : v = Join(op, x, y)
    BY <2>1
  <2> DEFINE c == <<Below[op], k + 1>>
             M == parse[<<Loop[op], k>>]
             N == ParseOperands(parse, op, k + 1)
  <2>3. /\ k \in 1..(n + 1) /\ k \in Int /\ k <= n /\ k + 1 \in 1..(n + 1) /\ (k - 1) + 1 = k
        /\ k - 1 \in 0..n
    BY <1>1
  <2>4. x \in BOOLEAN /\ y \in BOOLEAN
    <3>1. op \in Levels /\ Below[op] \in Levels
      BY KindsAre
    <3>2. R[<<op, i, k - 1>>] \subseteq BOOLEAN
      BY <1>2, <2>3, <3>1, ReadsAs
    <3>3. R[<<Below[op], k + 1, j>>] \subseteq BOOLEAN
      BY <1>2, <2>3, <3>1, ReadsAs
    <3> QED
      BY <3>2, <3>3
  <2>5. ~Failed(parse[c]) /\ parse[c].next = j + 1 /\ V[c] = y
    BY DEF LevelComplete
  <2>6. ~Failed(parse[<<Loop[op], parse[c].next>>])
    BY <2>5
  <2>7. /\ ~Failed(N) /\ N.next = parse[<<Loop[op], parse[c].next>>].next
        /\ Comes(V, op, N.node) = Join(op, V[c], Comes(V, op, parse[<<Loop[op], parse[c].next>>].node))
    BY <2>3, <2>5, <2>6, OperandsNode
  <2>8. Peek(toks, k) = op
    BY <1>1, <2>1, <2>3, PeekIs
  <2>9. k <= n /\ toks[k] = op /\ M = N
    BY <2>3, <2>8, LoopNode
  <2>10. ~Failed(M) /\ M.next = L.next /\ Comes(V, op, M.node) = Join(op, y, w)
    BY <2>5, <2>7, <2>9
  <2>11. Stops(Below[op], Peek(toks, (k - 1) + 1)) /\ ~Failed(parse[<<Loop[op], (k - 1) + 1>>])
    BY <2>3, <2>8, <2>10, StopsOf
  <2>12. /\ ~Failed(O)
         /\ O.next = parse[<<Loop[op], (k - 1) + 1>>].next
         /\ Comes(V, op, O.node) = Join(op, x, Comes(V, op, parse[<<Loop[op], (k - 1) + 1>>].node))
    <3>1. OpComplete(toks, parse, V, R, op, i, k - 1)
      OBVIOUS
    <3> QED
      BY <2>11, <3>1 DEF OpComplete
  <2>13. O.next = M.next /\ Comes(V, op, O.node) = Join(op, x, Comes(V, op, M.node))
    BY <2>3, <2>12
  <2>14. w \in BOOLEAN
    BY JoinOf
  <2>15. Join(op, x, Join(op, y, w)) = Join(op, v, w)
    <3> HIDE DEF w
    <3> QED
      BY <2>2, <2>4, <2>14 DEF Join
  <2> QED
    BY <2>10, <2>12, <2>13, <2>15
<1> QED
  BY <1>3, <1>4, <1>5

\* A negation or an atom is parsed as it is read.
LEMMA NotComplete ==
  ASSUME NEW n, NEW toks, NEW results, NEW parse, NEW V, NEW R, Setting(toks, n, results, parse, V, R),
         NEW i \in 1..n, NEW j \in i..n,
         i < j => LevelComplete(toks, parse, V, R, "not", i + 1, j),
         i < j /\ i + 1 <= j - 1 => LevelComplete(toks, parse, V, R, "or", i + 1, j - 1)
  PROVE  LevelComplete(toks, parse, V, R, "not", i, j)
<1> DEFINE x == parse[<<"not", i>>]
<1> SUFFICES ASSUME NEW v \in R[<<"not", i, j>>]
             PROVE  ~Failed(x) /\ x.next = j + 1 /\ V[<<"not", i>>] = v
  BY DEF LevelComplete
<1>1. n \in Nat /\ Len(toks) = n /\ \A name \in DOMAIN results : results[name] \in BOOLEAN
  BY DEF Setting
<1>2. i \in 1..(n + 1) /\ j \in 0..n /\ ~(i > j) /\ i \in Int /\ j \in Int /\ i <= j
  BY <1>1
<1>3. "not" \in Levels /\ "or" \in Levels
  BY KindsAre
<1>4. R[<<"not", i, j>>] = ReadingsOf(R, toks, results, "not", i, j)
  BY <1>2, <1>3, ReadsAs
<1>5. \A level \in Levels, k \in 1..(n + 1), l \in 0..n : k > l => R[<<level, k, l>>] = {}
  <2> SUFFICES ASSUME NEW level \in Levels, NEW k \in 1..(n + 1), NEW l \in 0..n, k > l
               PROVE  R[<<level, k, l>>] = {}
    OBVIOUS
  <2>1. R[<<level, k, l>>] = ReadingsOf(R, toks, results, level, k, l)
    BY ReadsAs
  <2> QED
    BY <2>1, ReadsNone
<1>6. CASE toks[i] = "not"
  <2> DEFINE kid == parse[<<"not", i + 1>>]
  <2>1. R[<<"not", i, j>>] = {~y : y \in R[<<"not", i + 1, j>>]}
    BY <1>2, <1>4, <1>6, ReadsNot
  <2>2. PICK y \in R[<<"not", i + 1, j>>] : v = ~y
    BY <2>1
  <2>3. i < j
    <3> SUFFICES ASSUME i + 1 > j PROVE FALSE
      BY <1>2
    <3>1. i + 1 \in 1..(n + 1)
      BY <1>1
    <3>2. R[<<"not", i + 1, j>>] = {}
      BY <1>2, <1>3, <1>5, <3>1
    <3> QED
      BY <3>2
  <2>4. ~Failed(kid) /\ kid.next = j + 1 /\ V[<<"not", i + 1>>] = y
    BY <2>3, StopsOf DEF LevelComplete
  <2>5. ~Failed(x)
    BY <1>6, <2>4, NotNot
  <2>6. x.next = kid.next /\ V[<<"not", i>>] = ~V[<<"not", i + 1>>]
    BY <1>6, <2>5, NotNot
  <2> QED
    BY <2>2, <2>4, <2>5, <2>6
<1>7. CASE toks[i] = "("
  <2> DEFINE inner == parse[<<"or", i + 1>>]
  <2>1. \A f, r : ReadingsOf(f, toks, r, "not", i, j)
                  = IF toks[j] = ")" THEN f[<<"or", i + 1, j - 1>>] ELSE {}
    BY <1>2, <1>7, ReadsParen, Zenon
  <2>2. toks[j] = ")" /\ v \in R[<<"or", i + 1, j - 1>>]
    BY <1>4, <2>1
  <2>3. i < j /\ i + 1 <= j - 1
    <3> SUFFICES ASSUME i + 1 > j - 1 PROVE FALSE
      BY <1>2
    <3>1. i + 1 \in 1..(n + 1) /\ j - 1 \in 0..n
      BY <1>1
    <3>2. R[<<"or", i + 1, j - 1>>] = {}
      BY <1>3, <1>5, <3>1
    <3> QED
      BY <2>2, <3>2
  <2>4. (j - 1) + 1 = j
    BY <1>2
  <2>5. Peek(toks, j) = ")"
    <3>1. j <= n
      OBVIOUS
    <3>2. Peek(toks, j) = toks[j]
      BY <1>1, <1>2, <3>1, PeekIs
    <3> QED
      BY <2>2, <3>2
  <2>6. LevelComplete(toks, parse, V, R, "or", i + 1, j - 1)
    BY <2>3
  <2>7. Stops("or", Peek(toks, (j - 1) + 1))
    BY <2>4, <2>5, StopsOf
  <2>8. ~Failed(inner) /\ inner.next = (j - 1) + 1 /\ V[<<"or", i + 1>>] = v
    BY <2>2, <2>6, <2>7 DEF LevelComplete
  <2>9. ~Failed(x)
    BY <1>7, <2>4, <2>5, <2>8, NotParen
  <2>10. x.next = inner.next + 1 /\ V[<<"not", i>>] = V[<<"or", i + 1>>]
    BY <1>7, <2>9, NotParen
  <2> QED
    BY <2>4, <2>8, <2>9, <2>10
<1>8. CASE toks[i] = "1" \/ toks[i] = "all"
  <2>1. R[<<"not", i, j>>] =
          IF j = i + 2 /\ toks[i + 1] = "of" THEN {Some(toks[i], toks[j], results)} ELSE {}
    BY <1>2, <1>4, <1>8, ReadsQuantifier
  <2>2. j = i + 2 /\ toks[i + 1] = "of" /\ v = Some(toks[i], toks[j], results)
    BY <2>1
  <2>3. i + 2 <= n
    BY <2>2
  <2>4. ~Failed(x)
    BY <1>8, <2>2, <2>3, NotQuantifier
  <2>5. x.next = i + 3 /\ V[<<"not", i>>] = Quantified(toks[i], toks[i + 2], results)
    BY <1>8, <2>4, NotQuantifier
  <2>6. i + 3 = j + 1
    BY <1>2, <2>2
  <2>7. V[<<"not", i>>] = v
    BY <1>1, <2>2, <2>5, QuantifiedIs
  <2> QED
    BY <2>4, <2>5, <2>6, <2>7
<1>9. CASE toks[i] # "not" /\ toks[i] # "(" /\ toks[i] # "1" /\ toks[i] # "all"
  <2>1. \A f, r : ReadingsOf(f, toks, r, "not", i, j) = IF i = j THEN {Known(toks[i], r)} ELSE {}
    BY <1>2, <1>9, ReadsIdent, Zenon
  <2>2. i = j /\ v = Known(toks[i], results)
    BY <1>4, <2>1
  <2>3. ~Failed(x)
    BY <1>9, NotIdent
  <2>4. x.next = i + 1
    BY <1>9, NotIdent
  <2>5. V[<<"not", i>>] = Known(toks[i], results)
    BY <1>9, NotIdent
  <2> QED
    BY <2>2, <2>3, <2>4, <2>5
<1> QED
  BY <1>6, <1>7, <1>8, <1>9

\* What the grammar reads, the parser returns when the next token is not part of it.
LEMMA Completeness ==
  ASSUME NEW n, NEW toks, NEW results, NEW parse, NEW V, NEW R, Setting(toks, n, results, parse, V, R)
  PROVE  \A level \in Levels, i \in 1..n, j \in 1..n : i <= j => LevelComplete(toks, parse, V, R, level, i, j)
<1> DEFINE Good(i, j) == /\ \A level \in Levels : LevelComplete(toks, parse, V, R, level, i, j)
                         /\ \A op \in Ops : OpComplete(toks, parse, V, R, op, i, j)
           T == {d \in Nat : \A i \in 1..n : \A j \in 1..n : j - i = d => Good(i, j)}
<1>1. n \in Nat
  BY DEF Setting
<1>2. ASSUME NEW i \in 1..n, NEW j \in 1..n, i <= j,
             \A k, l \in 1..n : k <= l /\ l - k < j - i => Good(k, l)
      PROVE  Good(i, j)
  <2>1. "not" \in Levels /\ "or" \in Levels /\ "and" \in Ops /\ "or" \in Ops
    BY KindsAre
  <2>2. j \in i..n
    BY <1>1, <1>2
  <2>3. i < j => Good(i + 1, j)
    <3> SUFFICES ASSUME i < j PROVE Good(i + 1, j)
      OBVIOUS
    <3>1. i + 1 \in 1..n /\ i + 1 <= j /\ j - (i + 1) < j - i
      BY <1>1
    <3> HIDE DEF Good
    <3> QED
      BY <1>2, <3>1
  <2>4. i < j /\ i + 1 <= j - 1 => Good(i + 1, j - 1)
    <3> SUFFICES ASSUME i < j, i + 1 <= j - 1 PROVE Good(i + 1, j - 1)
      OBVIOUS
    <3>1. i + 1 \in 1..n /\ j - 1 \in 1..n /\ (j - 1) - (i + 1) < j - i
      BY <1>1
    <3> HIDE DEF Good
    <3> QED
      BY <1>2, <3>1
  <2>5. LevelComplete(toks, parse, V, R, "not", i, j)
    BY <2>1, <2>2, <2>3, <2>4, NotComplete
  <2>6. ASSUME NEW k \in (i + 1)..(j - 1) PROVE Good(i, k - 1) /\ Good(k + 1, j)
    <3>1. k - 1 \in 1..n /\ i <= k - 1 /\ (k - 1) - i < j - i
      BY <1>1
    <3>2. k + 1 \in 1..n /\ k + 1 <= j /\ j - (k + 1) < j - i
      BY <1>1
    <3> HIDE DEF Good
    <3>3. Good(i, k - 1)
      BY <1>2, <3>1
    <3>4. Good(k + 1, j)
      BY <1>2, <3>2
    <3> QED
      BY <3>3, <3>4
  <2>7. ASSUME NEW op \in Ops, LevelComplete(toks, parse, V, R, Below[op], i, j)
        PROVE  OpComplete(toks, parse, V, R, op, i, j) /\ LevelComplete(toks, parse, V, R, op, i, j)
    <3>1. Below[op] \in Levels
      BY KindsAre
    <3>2. \A k \in (i + 1)..(j - 1) : /\ OpComplete(toks, parse, V, R, op, i, k - 1)
                                      /\ LevelComplete(toks, parse, V, R, Below[op], k + 1, j)
      BY <2>6, <3>1
    <3>3. OpComplete(toks, parse, V, R, op, i, j)
      BY <2>2, <2>7, <3>2, OperandsComplete
    <3>4. LevelComplete(toks, parse, V, R, op, i, j)
      BY <2>2, <3>3, ChainComplete
    <3> QED
      BY <3>3, <3>4
  <2>8. Below["and"] = "not" /\ Below["or"] = "and"
    BY DEF Below
  <2>9. OpComplete(toks, parse, V, R, "and", i, j) /\ LevelComplete(toks, parse, V, R, "and", i, j)
    BY <2>1, <2>5, <2>7, <2>8
  <2>10. OpComplete(toks, parse, V, R, "or", i, j) /\ LevelComplete(toks, parse, V, R, "or", i, j)
    BY <2>1, <2>7, <2>8, <2>9
  <2>11. \A level \in Levels : LevelComplete(toks, parse, V, R, level, i, j)
    BY <2>5, <2>9, <2>10 DEF Levels
  <2>12. \A op \in Ops : OpComplete(toks, parse, V, R, op, i, j)
    BY <2>9, <2>10 DEF Ops
  <2> QED
    BY <2>11, <2>12
<1> HIDE DEF Good
<1>3. ASSUME NEW d \in Nat, \A e \in Nat : e < d => e \in T PROVE d \in T
  <2> SUFFICES ASSUME NEW i \in 1..n, NEW j \in 1..n, j - i = d PROVE Good(i, j)
    OBVIOUS
  <2>1. ASSUME NEW k \in 1..n, NEW l \in 1..n, k <= l, l - k < j - i PROVE Good(k, l)
    <3> DEFINE e == l - k
    <3>1. e \in Nat /\ e < d
      BY <1>1, <2>1
    <3>2. e \in T
      BY <1>3, <3>1
    <3> QED
      BY <3>1, <3>2
  <2>2. i <= j
    BY <1>1
  <2> QED
    BY <1>2, <2>1, <2>2
<1> HIDE DEF T
<1>4. \A d \in Nat : d \in T
  BY <1>3, Descent
<1>5. ASSUME NEW i \in 1..n, NEW j \in 1..n, i <= j PROVE Good(i, j)
  <2>1. j - i \in Nat
    BY <1>1, <1>5
  <2> QED
    BY <1>4, <2>1 DEF T
<1> QED
  BY <1>5 DEF Good

\* A parser that accepts a condition finds the one meaning the grammar gives it;
\* one it refuses has none.
THEOREM ParserIsGrammar ==
  ASSUME NEW condition, NEW results, Len(condition.search) \in Nat,
         \A name \in DOMAIN results : results[name] \in BOOLEAN
  PROVE  /\ Meaning(condition, results) =
              IF ParseCondition(condition) = "none" THEN {Holds(condition, results)} ELSE {}
         /\ Meaning(condition, results) \subseteq BOOLEAN
<1> DEFINE toks == condition.search
           n == Len(toks)
           P == Calls(toks)
           W == Values(P, n, results)
           G == Readings(toks, n, results)
           x == P[<<"or", 1>>]
           m == G[<<"or", 1, n>>]
<1>1. n \in Nat
  OBVIOUS
<1>2. Solves(P, toks, n)
  BY HoldsIs
<1>3. Holds(condition, results) = W[<<"or", 1>>]
  BY HoldsIs
<1>4. Setting(toks, n, results, P, W, G)
  <2>1. \A call \in Nodes(P, n) : W[call] = Eval(P[call].node, W, results) /\ W[call] \in BOOLEAN
    BY <1>2, ValuesAre
  <2>2. \A level \in Levels, i \in 1..(n + 1), j \in 0..n :
          /\ G[<<level, i, j>>] = ReadingsOf(G, toks, results, level, i, j)
          /\ G[<<level, i, j>>] \subseteq BOOLEAN
    BY ReadingsAre
  <2> HIDE DEF P, W, G
  <2> QED
    BY <1>2, <2>1, <2>2 DEF Setting
<1>5. Meaning(condition, results) = IF condition.pipe = "bad" THEN {} ELSE m
  BY MeaningIs
<1>6. ParseSearch(toks) = "none" <=> ~Failed(x) /\ x.next > n
  BY Zenon DEF ParseSearch, Failed
<1>7. "or" \in Levels /\ "or" \in Kinds
  BY KindsAre
<1>13. m \subseteq BOOLEAN
  <2>1. 1 \in 1..(n + 1) /\ n \in 0..n
    BY <1>1
  <2>2. \A level \in Levels, i \in 1..(n + 1), j \in 0..n : G[<<level, i, j>>] \subseteq BOOLEAN
    BY ReadingsAre
  <2> HIDE DEF G, n
  <2> QED
    BY <1>7, <2>1, <2>2
<1> HIDE DEF P, W, G
<1>8. ASSUME ~Failed(x), x.next > n
      PROVE  W[<<"or", 1>>] \in m /\ n # 0
  <2>1. 1 \in 1..(n + 1)
    BY <1>1
  <2>2. x.next \in 1..(n + 1) /\ x.next > 1
    BY <1>4, <1>7, <1>8, <2>1, EndsAt
  <2>3. x.next - 1 = n /\ n # 0
    <3> DEFINE p == x.next
    <3>1. p \in 1..(n + 1) /\ p > 1 /\ p > n
      BY <1>8, <2>2
    <3> HIDE DEF p, n
    <3>2. p - 1 = n /\ n # 0
      BY <1>1, <3>1
    <3> QED
      BY <3>2 DEF p
  <2>4. LevelSound(P, W, G, "or", 1)
    BY <1>4, <1>7, <2>1, Soundness
  <2> QED
    BY <1>8, <2>3, <2>4 DEF LevelSound
<1>9. ASSUME NEW v \in m
      PROVE  ~Failed(x) /\ x.next > n /\ W[<<"or", 1>>] = v
  <2>1. n # 0
    <3> SUFFICES ASSUME n = 0 PROVE FALSE
      OBVIOUS
    <3>1. 1 \in 1..(n + 1) /\ n \in 0..n /\ 1 > n
      BY <1>1
    <3>2. m = ReadingsOf(G, toks, results, "or", 1, n)
      BY <1>4, <1>7, <3>1, ReadsAs
    <3>3. m = {}
      BY <3>1, <3>2, ReadsNone
    <3> QED
      BY <3>3
  <2>2. 1 \in 1..n /\ n \in 1..n /\ 1 <= n
    BY <1>1, <2>1
  <2>3. LevelComplete(toks, P, W, G, "or", 1, n)
    BY <1>4, <1>7, <2>2, Completeness
  <2>4. Peek(toks, n + 1) = ""
    <3>1. n + 1 \in Int /\ n + 1 > n
      BY <1>1
    <3> HIDE DEF toks
    <3> QED
      BY <1>1, <3>1, PeekIs
  <2>5. ~Failed(x) /\ x.next = n + 1 /\ W[<<"or", 1>>] = v
    BY <2>3, <2>4, StopsOf DEF LevelComplete
  <2> QED
    BY <1>1, <2>5
<1> DEFINE good == ~Failed(x) /\ x.next > n
<1>10. good => W[<<"or", 1>>] \in m
  BY <1>8
<1>11. \A v \in m : good /\ v = W[<<"or", 1>>]
  BY <1>9
<1>12. ParseCondition(condition) = "none" <=> condition.pipe # "bad" /\ good
  BY <1>6 DEF ParseCondition
<1> HIDE DEF good, m
<1> QED
  BY <1>3, <1>5, <1>10, <1>11, <1>12, <1>13

=============================================================================
