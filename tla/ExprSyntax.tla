---------------------------- MODULE ExprSyntax ----------------------------
(***************************************************************************)
(* Expressions from text to tree and back: the recursive descent of        *)
(* pkg/sql/parser (parseExpression down to parsePrimaryExpression) and the *)
(* SQL() methods of pkg/sql/ast that print a tree again.                   *)
(*                                                                         *)
(* A token is its kind; one kind stands for the operators of a level.  An  *)
(* operand "x" stands for every primary that brings its own brackets       *)
(* (literal, column, function call, CASE, CAST, subquery).  The only state *)
(* is the text, which grows by one token per step; parser and printer are  *)
(* functions of it.                                                        *)
(***************************************************************************)
EXTENDS Naturals, Sequences, FiniteSets

CONSTANT MaxTokens      \* bound on the length of a text

ASSUME MaxTokensAssumption == MaxTokens \in Nat

VARIABLE text

-----------------------------------------------------------------------------
(* Trees: an operator and its operands.  A leaf carries the number of its  *)
(* operand, counted from the left; printing keeps that order.              *)

Leaf(n) == [op |-> "x", leaf |-> n, args |-> <<>>]
Node(op, args) == [op |-> op, leaf |-> 0, args |-> args]

KindAt(ts, i) == IF i \in 1..Len(ts) THEN ts[i] ELSE "EOF"

\* What a parse function hands back: the tree, and the position it stopped at.
Parsed(tree, next) == [ok |-> TRUE, tree |-> tree, next |-> next]
Failed == [ok |-> FALSE, tree |-> Leaf(0), next |-> 0]

-----------------------------------------------------------------------------
(* The parser.                                                             *)

\* The levels of left-associative binary operators, loosest first.  Level 3,
\* comparison, is not a chain; level 8 is the primary expression.
Comparing == 3
Primary == 8

Operators == <<{"OR"}, {"AND"}, {}, {"||"}, {"-"}, {"*"}, {"->"}>>

\* The operators that NOT may precede (peekToken in parseComparisonExpression).
Negatable == {"LIKE", "BETWEEN"}

RECURSIVE Parse(_, _, _), Chain(_, _, _)

\* Mutant: a chain recurses on the right, and so associates to the right.
ChainToTheRight(ts, level, left) ==
    IF ~left.ok \/ KindAt(ts, left.next) \notin Operators[level] THEN left
    ELSE LET right == Parse(ts, level, left.next + 1)
         IN  IF right.ok
             THEN Parsed(Node(ts[left.next], <<left.tree, right.tree>>), right.next)
             ELSE Failed

\* The loop of one level: operators of the level, operands of the next.
Chain(ts, level, left) ==
    IF ~left.ok \/ KindAt(ts, left.next) \notin Operators[level] THEN left
    ELSE LET right == Parse(ts, level + 1, left.next + 1)
         IN  IF right.ok
             THEN Chain(ts, level,
                        Parsed(Node(ts[left.next], <<left.tree, right.tree>>), right.next))
             ELSE Failed

\* expr [NOT] LIKE primary
ParseLike(ts, left, not, i) ==
    LET pattern == Parse(ts, Primary, i + 1)
    IN  IF pattern.ok
        THEN Parsed(Node(IF not THEN "NOT LIKE" ELSE "LIKE", <<left, pattern.tree>>), pattern.next)
        ELSE Failed

\* expr [NOT] BETWEEN concat AND concat
ParseBetween(ts, left, not, i) ==
    LET lower == Parse(ts, Comparing + 1, i + 1)
        upper == Parse(ts, Comparing + 1, lower.next + 1)
    IN  IF lower.ok /\ KindAt(ts, lower.next) = "AND" /\ upper.ok
        THEN Parsed(Node(IF not THEN "NOT BETWEEN" ELSE "BETWEEN",
                         <<left, lower.tree, upper.tree>>), upper.next)
        ELSE Failed

\* expr IS [NOT] NULL; the node's operator is "IS NULL" with a Not flag.
ParseNullTest(ts, left, i) ==
    LET not == KindAt(ts, i + 1) = "NOT"
        null == IF not THEN i + 2 ELSE i + 1
    IN  IF KindAt(ts, null) = "NULL"
        THEN Parsed(Node(IF not THEN "IS NOT NULL" ELSE "IS NULL", <<left>>), null + 1)
        ELSE Failed

\* left = primary: the right side is a primary expression, not a sum.
ParseEqual(ts, left, i) ==
    LET right == Parse(ts, Primary, i + 1)
    IN  IF right.ok THEN Parsed(Node("=", <<left, right.tree>>), right.next) ELSE Failed

\* parseComparisonExpression; at most one comparison follows its left operand.
Comparison(ts, start) ==
    LET left == Parse(ts, Comparing + 1, start)
        not == KindAt(ts, left.next) = "NOT" /\ KindAt(ts, left.next + 1) \in Negatable
        i == IF not THEN left.next + 1 ELSE left.next
    IN  CASE ~left.ok -> Failed
          [] left.ok /\ KindAt(ts, i) = "BETWEEN" -> ParseBetween(ts, left.tree, not, i)
          [] left.ok /\ KindAt(ts, i) = "LIKE" -> ParseLike(ts, left.tree, not, i)
          [] left.ok /\ KindAt(ts, i) = "IS" -> ParseNullTest(ts, left.tree, i)
          [] left.ok /\ KindAt(ts, i) = "=" -> ParseEqual(ts, left.tree, i)
          [] OTHER -> left

\* Wraps the tree of a prefix operator.
Prefixed(op, operand) ==
    IF operand.ok THEN Parsed(Node(op, <<operand.tree>>), operand.next) ELSE Failed

\* NOT negates a whole comparison.
NotOperand(ts, i) == Prefixed("NOT", Parse(ts, Comparing, i))

\* Mutant: the parentheses take no OR.
ParenthesisedAnd(ts, i) ==
    LET inner == Parse(ts, 2, i)
    IN  IF inner.ok /\ KindAt(ts, inner.next) = ")"
        THEN Parsed(inner.tree, inner.next + 1)
        ELSE Failed

\* ( expression ): the parentheses leave no trace in the tree.
ParenthesisedExpression(ts, i) ==
    LET inner == Parse(ts, 1, i)
    IN  IF inner.ok /\ KindAt(ts, inner.next) = ")"
        THEN Parsed(inner.tree, inner.next + 1)
        ELSE Failed

\* parsePrimaryExpression
ParsePrimary(ts, i) ==
    CASE KindAt(ts, i) = "x" ->
            Parsed(Leaf(Cardinality({j \in 1..i : ts[j] = "x"})), i + 1)
      [] KindAt(ts, i) = "-" -> Prefixed("minus", Parse(ts, Primary, i + 1))
      [] KindAt(ts, i) = "NOT" -> NotOperand(ts, i + 1)
      [] KindAt(ts, i) = "(" -> ParenthesisedExpression(ts, i + 1)
      [] OTHER -> Failed

Parse(ts, level, i) ==
    CASE level = Comparing -> Comparison(ts, i)
      [] level = Primary -> ParsePrimary(ts, i)
      [] OTHER -> Chain(ts, level, Parse(ts, level + 1, i))

ParseText(ts) == Parse(ts, 1, 1)

\* The whole text is one expression; the statement parser rejects what is left.
Accepted(ts) == ParseText(ts).ok /\ ParseText(ts).next = Len(ts) + 1
Tree(ts) == ParseText(ts).tree

-----------------------------------------------------------------------------
(* The printer.                                                            *)

RECURSIVE SQL(_)

\* Mutant: the bounds of BETWEEN are printed in the order they are released.
SQLBetweenSwapped(a, not) ==
    SQL(a[1]) \o not \o <<"BETWEEN">> \o SQL(a[3]) \o <<"AND">> \o SQL(a[2])

SQLBetween(a, not) ==
    SQL(a[1]) \o not \o <<"BETWEEN">> \o SQL(a[2]) \o <<"AND">> \o SQL(a[3])

\* A prefix minus is glued to its operand, and two of them begin a comment.
SQLMinus(inner) == IF Head(inner) = "-" THEN <<"--">> \o Tail(inner) ELSE <<"-">> \o inner

\* The SQL() methods: infix, without parentheses; the Not flag of a null test
\* is not looked at.
SQL(t) ==
    CASE t.op = "x" -> <<"x">>
      [] t.op = "NOT" -> <<"NOT">> \o SQL(t.args[1])
      [] t.op = "minus" -> SQLMinus(SQL(t.args[1]))
      [] t.op \in {"IS NULL", "IS NOT NULL"} -> SQL(t.args[1]) \o <<"IS", "NULL">>
      [] t.op = "BETWEEN" -> SQLBetween(t.args, <<>>)
      [] t.op = "NOT BETWEEN" -> SQLBetween(t.args, <<"NOT">>)
      [] t.op = "NOT LIKE" -> SQL(t.args[1]) \o <<"NOT", "LIKE">> \o SQL(t.args[2])
      [] OTHER -> SQL(t.args[1]) \o <<t.op>> \o SQL(t.args[2])

\* The tokenizer reads no further than the comment.
Lex(ts) ==
    LET comments == {i \in 1..Len(ts) : ts[i] = "--"}
    IN  IF comments = {} THEN ts
        ELSE SubSeq(ts, 1, (CHOOSE i \in comments : \A j \in comments : i <= j) - 1)

Printed(ts) == Lex(SQL(Tree(ts)))
-----------------------------------------------------------------------------
(* Texts.  Only token orders that could become an expression are written;  *)
(* the others are rejected at the token that breaks them.                  *)

Kinds == {"x", "OR", "AND", "NOT", "=", "LIKE", "BETWEEN", "IS", "NULL",
          "||", "-", "*", "->", "(", ")"}

EndsOperand(k) == k \in {"x", ")", "NULL"}

Count(ts, k) == Cardinality({i \in 1..Len(ts) : ts[i] = k})

Continuations(ts) ==
    LET last == KindAt(ts, Len(ts))
        before == KindAt(ts, Len(ts) - 1)
    IN  CASE last = "IS" -> {"NOT", "NULL"}
          [] last = "NOT" /\ before = "IS" -> {"NULL"}
          [] last = "NOT" /\ EndsOperand(before) -> Negatable
          [] EndsOperand(last) ->
                {"OR", "AND", "NOT", "=", "LIKE", "BETWEEN", "IS", "||", "-", "*", "->"}
                    \cup (IF Count(ts, "(") > Count(ts, ")") THEN {")"} ELSE {})
          [] OTHER -> {"x", "NOT", "-", "("}

Init == text = <<>>

Write(k) ==
    /\ Len(text) < MaxTokens
    /\ k \in Continuations(text)
    /\ text' = Append(text, k)

Next == \E k \in Kinds : Write(k)

Spec == Init /\ [][Next]_text

-----------------------------------------------------------------------------
(* A reference for the tree a text denotes: cut it at its loosest operator *)
(* outside parentheses, at the last one of that operator.                  *)

Top(ts) ==
    {i \in 1..Len(ts) :
        /\ ts[i] \notin {"(", ")"}
        /\ Cardinality({j \in 1..i : ts[j] = "("}) = Cardinality({j \in 1..i : ts[j] = ")"})}

\* The AND of a BETWEEN is not a conjunction.
BoundAnd(ts) ==
    {i \in Top(ts) : ts[i] = "AND" /\ \E b \in Top(ts) :
        /\ b < i /\ ts[b] = "BETWEEN"
        /\ \A j \in Top(ts) : b < j /\ j < i => ts[j] # "AND"}

At(ts, k) == {i \in Top(ts) : ts[i] = k}
Minus(ts) == {i \in At(ts, "-") : EndsOperand(KindAt(ts, i - 1))}
Last(S) == CHOOSE i \in S : \A j \in S : j <= i
Before(ts, i) == SubSeq(ts, 1, i - 1)
After(ts, i) == SubSeq(ts, i + 1, Len(ts))

Tests == {"=", "LIKE", "BETWEEN", "IS"}

RECURSIVE Denoted(_, _)

\* The tree of ts, whose first operand has number n + 1.
Denoted(ts, n) ==
    LET from(i) == n + Count(SubSeq(ts, 1, i), "x")
        cut(S) == Node(ts[Last(S)],
                       <<Denoted(Before(ts, Last(S)), n), Denoted(After(ts, Last(S)), from(Last(S)))>>)
        conjunctions == At(ts, "AND") \ BoundAnd(ts)
        tests == UNION {At(ts, k) : k \in Tests}
        test == Last(tests)
        not == KindAt(ts, test - 1) = "NOT"
        subject == Denoted(Before(ts, IF not THEN test - 1 ELSE test), n)
        and == Last(BoundAnd(ts))
    IN  CASE At(ts, "OR") # {} -> cut(At(ts, "OR"))
          [] At(ts, "OR") = {} /\ conjunctions # {} -> cut(conjunctions)
          [] OTHER ->
        CASE ts[1] = "NOT" -> Node("NOT", <<Denoted(Tail(ts), n)>>)
          [] tests # {} /\ ts[test] = "IS" ->
                Node(IF ts[test + 1] = "NOT" THEN "IS NOT NULL" ELSE "IS NULL", <<subject>>)
          [] tests # {} /\ ts[test] = "BETWEEN" ->
                Node(IF not THEN "NOT BETWEEN" ELSE "BETWEEN",
                     <<subject, Denoted(SubSeq(ts, test + 1, and - 1), from(test)),
                       Denoted(After(ts, and), from(and))>>)
          [] tests # {} /\ ts[test] \in {"=", "LIKE"} ->
                Node(IF not THEN "NOT LIKE" ELSE ts[test],
                     <<subject, Denoted(After(ts, test), from(test))>>)
          [] OTHER ->
        CASE At(ts, "||") # {} -> cut(At(ts, "||"))
          [] At(ts, "||") = {} /\ Minus(ts) # {} -> cut(Minus(ts))
          [] OTHER ->
        CASE At(ts, "*") # {} -> cut(At(ts, "*"))
          [] At(ts, "*") = {} /\ At(ts, "->") # {} -> cut(At(ts, "->"))
          [] OTHER ->
        CASE ts[1] = "-" -> Node("minus", <<Denoted(Tail(ts), n)>>)
          [] ts[1] = "(" -> Denoted(SubSeq(ts, 2, Len(ts) - 1), n)
          [] OTHER -> Leaf(n + 1)

PrefixNots(ts) ==
    {i \in 1..Len(ts) : ts[i] = "NOT" /\ ~EndsOperand(KindAt(ts, i - 1)) /\ KindAt(ts, i - 1) # "IS"}

\* Every prefix NOT begins an operand of AND or OR, where SQL has it, and no
\* operator follows the comparison it negates.  (The parser reads NOT x = y * z
\* as (NOT x = y) * z, because NOT is one of its primary expressions.)
NotsInPlace(ts) ==
    /\ \A i \in PrefixNots(ts) :
          \/ KindAt(ts, i - 1) \in {"EOF", "OR", "(", "NOT"}
          \/ KindAt(ts, i - 1) = "AND" /\ Count(ts, "BETWEEN") = 0
    /\ PrefixNots(ts) # {} =>
          \A i, j \in 1..Len(ts) : i < j /\ ts[i] \in Tests =>
              ts[j] \notin Tests \cup (IF ts[i] = "BETWEEN" THEN {} ELSE {"||", "-", "*", "->"})

RECURSIVE Parenthesised(_)

\* A tree written with parentheses around every operator.
Parenthesised(t) ==
    LET a == [i \in DOMAIN t.args |-> Parenthesised(t.args[i])]
        body ==
            CASE t.op = "NOT" -> <<"NOT">> \o a[1]
              [] t.op = "minus" -> <<"-">> \o a[1]
              [] t.op = "IS NULL" -> a[1] \o <<"IS", "NULL">>
              [] t.op = "IS NOT NULL" -> a[1] \o <<"IS", "NOT", "NULL">>
              [] t.op = "NOT LIKE" -> a[1] \o <<"NOT", "LIKE">> \o a[2]
              [] t.op = "BETWEEN" -> a[1] \o <<"BETWEEN">> \o a[2] \o <<"AND">> \o a[3]
              [] t.op = "NOT BETWEEN" -> a[1] \o <<"NOT", "BETWEEN">> \o a[2] \o <<"AND">> \o a[3]
              [] OTHER -> a[1] \o <<t.op>> \o a[2]
    IN  IF t.op = "x" THEN <<"x">> ELSE <<"(">> \o body \o <<")">>

-----------------------------------------------------------------------------
(* Properties.                                                             *)

\* Precedence and associativity: an accepted text gets the tree its operators
\* denote, and the AND of a BETWEEN, a NOT and a glued minus take exactly the
\* operands they should (expressions.go:34-267, expressions_operators.go:32).
PrecedenceIsTheReference ==
    Accepted(text) /\ NotsInPlace(text) => Tree(text) = Denoted(text, 0)

\* Parentheses settle everything: written with parentheses around every
\* operator, a tree the parser can build is parsed as that tree
\* (expressions_literal.go:283-340).
ParenthesesPinTheTree ==
    Accepted(text) =>
        LET full == Parenthesised(Tree(text))
        IN  Accepted(full) /\ Tree(full) = Tree(text)

\* A text that needs none of what the printer leaves out.
Plain(ts) ==
    /\ Count(ts, "(") = 0
    /\ \A i \in 1..Len(ts) : ts[i] = "IS" => KindAt(ts, i + 1) # "NOT"
    /\ \A i \in 1..Len(ts) :
          ts[i] = "-" /\ KindAt(ts, i + 1) = "-" => EndsOperand(KindAt(ts, i - 1))

\* A text without parentheses, null tests under NOT or doubled signs comes
\* back from SQL() token for token (sql.go:157-290).
PlainTextComesBack ==
    Accepted(text) /\ Plain(text) => SQL(Tree(text)) = text
=============================================================================
