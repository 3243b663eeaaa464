-------------------------- MODULE ExpressionRules --------------------------
(***************************************************************************)
(* The parse functions of an operand: what expressions_literal.go,         *)
(* expressions_complex.go and window.go read where an expression may       *)
(* start.  The operators between operands are the subject of ExprSyntax.   *)
(***************************************************************************)
EXTENDS SelectRules

parseSubquery ==
    Choose(<<On(<<"WITH">>, Rule("parseWithStatement")),
             Case(<<"SELECT">>, Rule("parseSelectWithSetOperations"))>>)

\* An argument list may end in a comma before ORDER BY; the separator of
\* GROUP_CONCAT is one more argument.
functionArguments ==
    LET argument == Node("Arg", Choose(<<Case(<<"x", "=>">>, Node("NamedArgument", Seq2(<<Flag("x"), Expr>>))),
                                         Case(<<"*">>, Flag("*")),
                                         Else(Expr)>>))
    IN  Choose(<<On(<<"ORDER">>, Nothing),
                 Else(Seq2(<<argument,
                     Choose(<<Case(<<",">>, Rule("functionArguments")),
                              Case(<<"SEPARATOR">>, Node("Arg", Expr)),
                              Else(Before({")", "ORDER"}))>>)>>))>>)

parseFunctionCall(d) ==
    LET order == If(<<"ORDER">>, Seq2(<<Word("BY"), Node("OrderBy", List(orderByEntry))>>))
        arguments == Choose(<<On(<<")">>, Nothing), Else(Rule("functionArguments"))>>)
        parametric == If(<<"(">>, Seq2(<<Rename("Arg", "Parameter"),
                          Choose(<<Case(<<")">>, Nothing),
                                   Else(Seq2(<<List(Node("Arg", Expr)), Word(")")>>))>>)>>))
        within == Seq2(<<Words(<<"GROUP", "(", "ORDER", "BY">>),
                        Node("WithinGroup", List(orderByEntry)), Word(")")>>)
    IN  Seq2(<<Ident, Word("("), Mark(<<"DISTINCT">>, "DISTINCT"), arguments, order,
              If(<<"SEPARATOR">>, Node("Arg", Expr)), Word(")"),
              IF d = "clickhouse" THEN parametric ELSE Nothing,
              Choose(<<Case(<<"IGNORE", "NULLS">>, Flag("IgnoreNulls")),
                       Case(<<"RESPECT", "NULLS">>, Flag("RespectNulls")),
                       Else(Nothing)>>),
              If(<<"WITHIN">>, within),
              If(<<"FILTER">>, Parens(Seq2(<<Word("WHERE"), Node("Filter", Expr)>>))),
              If(<<"OVER">>, Node("Over", parseWindowSpec)),
              Struct("FunctionCall", <<"x", "DISTINCT", "Parameter", "Arg", "OrderBy", "IgnoreNulls",
                                       "RespectNulls", "WithinGroup", "Filter", "Over">>)>>)

parseCaseExpression ==
    LET when == Node("When", Seq2(<<Expr, Word("THEN"), Expr>>))
    IN  Node("CaseExpression",
            Seq2(<<Choose(<<On(<<"WHEN">>, Nothing), Else(Node("Value", Expr))>>),
                  Word("WHEN"), when, Repeat(<<Case(<<"WHEN">>, when)>>),
                  If(<<"ELSE">>, Node("Else", Expr)), Word("END")>>))

\* The parameters of a type are numbers or names, as in DECIMAL(10,2).
parseCastLike(label) ==
    LET parameter  == Take({"n", "x"})
        parameters == Choose(<<Case(<<"(", ")">>, Nothing),
                               On(<<"(">>, Parens(Node("TypeParameters", List(parameter)))),
                               Else(Nothing)>>)
    IN  Node(label, Parens(Seq2(<<Expr, Word("AS"), Ident, parameters>>)))

\* The value is a string, and so are a number and its unit, which is any token.
parseIntervalExpression ==
    Node("Interval", Choose(<<On(<<"s">>, Take({"s"})),
                              Case(<<"n">>, Seq2(<<Flag("s"), Drop(TakeAny)>>))>>))

bracketList ==
    Seq2(<<Word("["), Choose(<<Case(<<"]">>, Nothing), Else(Seq2(<<List(Node("Arg", Expr)), Word("]")>>))>>)>>)

\* A subquery must be a plain SELECT: a set operation is refused.
parseArrayConstructor ==
    Node("Array", Choose(<<On(<<"[">>, bracketList),
        Else(Parens(Node("Subquery", OnlyKid("Select", parseSubquery))))>>))

parseBracketArrayLiteral == Node("Array", bracketList)

parseExtractExpression ==
    Node("Extract", Parens(Seq2(<<Take({"YEAR"}), Word("FROM"), Expr>>)))

parseGroupingFunction == Node("GroupingFunction", Parens(List(Expr)))

parseParenthesized == Parens(Collapse("Tuple", List(Expr)))

parsePrimaryExpression(d) ==
    Choose(<<Case(<<"-">>, Node("Minus", Rule("parseExpression"))),
             Case(<<"CASE">>, parseCaseExpression),
             Case(<<"CAST">>, parseCastLike("Cast")),
             On(<<"TRY_CAST", "(">>, Seq2(<<Word("TRY_CAST"), parseCastLike("TryCast")>>)),
             Case(<<"INTERVAL">>, parseIntervalExpression),
             Case(<<"ARRAY">>, parseArrayConstructor)>>
           \o (IF d = "clickhouse" THEN <<On(<<"[">>, parseBracketArrayLiteral)>> ELSE <<>>)
           \o <<On(<<"EXTRACT", "(">>, Seq2(<<Word("EXTRACT"), parseExtractExpression>>)),
                On(<<"GROUPING", "(">>, Seq2(<<Word("GROUPING"), parseGroupingFunction>>)),
                On(<<"x", "(">>, Rule("parseFunctionCall")),
                On(<<"x">>, Ident),
                On(<<"n">>, Number),
                On(<<"s">>, Take({"s"})),
                On(<<"(", "SELECT">>, Parens(Node("Subquery", parseSubquery))),
                On(<<"(", "WITH">>, Parens(Node("Subquery", parseSubquery))),
                On(<<"(">>, parseParenthesized),
                Case(<<"EXISTS">>, Parens(Node("Exists", parseSubquery))),
                Case(<<"NOT", "EXISTS">>, Parens(Node("NotExists", parseSubquery)))>>)
=============================================================================
