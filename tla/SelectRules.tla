---------------------------- MODULE SelectRules ----------------------------
(***************************************************************************)
(* The parse functions of queries: cte.go, select.go, select_clauses.go,   *)
(* select_set_ops.go, grouping.go and the window specifications of         *)
(* window.go, one definition for each function, named after it.  d is the  *)
(* dialect of the parser.                                                  *)
(*                                                                         *)
(* parseExpression stands here for an operand; its operators are the       *)
(* subject of ExprSyntax.                                                  *)
(***************************************************************************)
EXTENDS TableRules

-----------------------------------------------------------------------------
(* WITH.                                                                   *)

parseCommonTableExpr(d) ==
    LET cte == Seq2(<<Ident,
                     If(<<"(">>, Seq2(<<Node("Columns", List(Ident)), Word(")")>>)),
                     Word("AS"),
                     Choose(<<Case(<<"NOT">>, Seq2(<<Word("MATERIALIZED"), Flag("NotMaterialized")>>)),
                              Case(<<"MATERIALIZED">>, Flag("Materialized")),
                              Else(Nothing)>>),
                     Parens(Node("Statement",
                         Choose(<<Case(<<"SELECT">>, Rule("parseSelectWithSetOperations")),
                                  Else(Rule("parseStatement"))>>)))>>)
        scalar == Seq2(<<Node("ScalarExpr", Expr), Word("AS"), Ident>>)
    IN  Node("CTE", IF d = "clickhouse" THEN Choose(<<On(<<"x">>, cte), Else(scalar)>>) ELSE cte)

parseMainStatementAfterWith ==
    Choose(<<Case(<<"SELECT">>, Rule("parseSelectWithSetOperations")),
             Case(<<"INSERT">>, Rule("parseInsertStatement")),
             Case(<<"UPDATE">>, Rule("parseUpdateStatement")),
             Case(<<"DELETE">>, Rule("parseDeleteStatement"))>>)

\* Mutant: the WITH clause and the statement are left side by side.
parseWithStatementApart(d) ==
    Seq2(<<Word("WITH"),
          Node("With", Seq2(<<Mark(<<"RECURSIVE">>, "RECURSIVE"), List(parseCommonTableExpr(d))>>)),
          parseMainStatementAfterWith>>)

parseWithStatement(d) ==
    Seq2(<<Word("WITH"),
          Node("With", Seq2(<<Mark(<<"RECURSIVE">>, "RECURSIVE"), List(parseCommonTableExpr(d))>>)),
          parseMainStatementAfterWith,
          AttachWith>>)

-----------------------------------------------------------------------------
(* Set operations.                                                         *)

setOperators(d) == <<"UNION", "EXCEPT", "INTERSECT">> \o IF isMinusSetOp(d) THEN <<"MINUS">> ELSE <<>>

\* The statement so far becomes the left side, so a chain leans to the left.
setOperation(op) ==
    Seq2(<<Name(<<"Left">>), Flag(IF op = "MINUS" THEN "EXCEPT" ELSE op), Mark(<<"ALL">>, "ALL"),
          Word("SELECT"), Node("Right", Rule("parseSelectStatement")), Wrap("SetOperation")>>)

parseSelectWithSetOperations(d) ==
    Seq2(<<Rule("parseSelectStatement"),
          Repeat([i \in DOMAIN setOperators(d) |->
                     Case(<<setOperators(d)[i]>>, setOperation(setOperators(d)[i]))])>>)

-----------------------------------------------------------------------------
(* SELECT, clause by clause.                                               *)

parseDistinctModifier ==
    Choose(<<Case(<<"DISTINCT">>,
                  Seq2(<<Flag("DISTINCT"),
                        If(<<"ON">>, Parens(Node("DistinctOnColumns", List(Expr))))>>)),
             Case(<<"ALL">>, Nothing),
             Else(Nothing)>>)

parseTopClause(d) ==
    IF d # "sqlserver" THEN Nothing
    ELSE If(<<"TOP">>,
            Node("Top", Seq2(<<Choose(<<Case(<<"(">>, Seq2(<<Expr, Word(")")>>)), Else(Expr)>>),
                              Mark(<<"PERCENT">>, "PERCENT"),
                              Mark(<<"WITH", "TIES">>, "WithTies")>>)))

\* An alias without AS is only read behind an expression that is no column.
columnAlias == Choose(<<Case(<<"AS">>, Node("Alias", Ident)),
                        Else(UnlessName(IfOn(<<"x">>, Node("Alias", Ident))))>>)

parseSelectColumnList ==
    Node("Columns", List(Choose(<<Case(<<"*">>, Flag("*")),
                                  Else(Collapse("Aliased", Seq2(<<Expr, columnAlias>>)))>>)))

\* The cases of parseJoinType: the words read, and the type they give.
joinTypes(d) ==
    <<[on |-> <<"LEFT", "OUTER">>, type |-> "LEFT"],   [on |-> <<"LEFT">>,  type |-> "LEFT"],
      [on |-> <<"RIGHT", "OUTER">>, type |-> "RIGHT"], [on |-> <<"RIGHT">>, type |-> "RIGHT"],
      [on |-> <<"FULL", "OUTER">>, type |-> "FULL"],   [on |-> <<"FULL">>,  type |-> "FULL"],
      [on |-> <<"INNER">>, type |-> "INNER"]>>
    \o IF d = "sqlserver"
       THEN <<[on |-> <<"CROSS", "APPLY">>, type |-> "CrossApply"],
              [on |-> <<"OUTER", "APPLY">>, type |-> "OuterApply"],
              [on |-> <<"CROSS">>, type |-> "CROSS"]>>
       ELSE <<[on |-> <<"CROSS">>, type |-> "CROSS"]>>

parseJoinCondition ==
    Choose(<<Case(<<"ON">>, Node("On", Expr)),
             Case(<<"USING">>, Node("On", Parens(Collapse("ListExpression", List(Ident)))))>>)

withoutCondition == {"CROSS", "CrossApply", "OuterApply"}

joinTail(type, d) ==
    Seq2(<<Flag(type),
          IF type \in {"CrossApply", "OuterApply"} THEN Nothing ELSE Word("JOIN"),
          parseJoinedTableRef(d),
          IF type \in withoutCondition THEN Nothing ELSE parseJoinCondition>>)

naturalJoin(d) ==
    Seq2(<<Flag("NATURAL"),
          Choose([i \in DOMAIN joinTypes(d) |-> Case(joinTypes(d)[i].on, Flag(joinTypes(d)[i].type))]
                 \o <<Else(Nothing)>>),
          Word("JOIN"), parseJoinedTableRef(d)>>)

\* GLOBAL, ANY and ALL of ClickHouse are read and not kept.
parseJoinType(d) ==
    Seq2(<<IF d # "clickhouse" THEN Nothing
          ELSE Seq2(<<Optional(<<"GLOBAL">>),
                     Choose(<<Case(<<"ANY">>, Nothing), Case(<<"ALL">>, Nothing), Else(Nothing)>>)>>),
          Node("Join",
            Choose(<<Case(<<"NATURAL">>, naturalJoin(d)), On(<<"JOIN">>, joinTail("INNER", d))>>
                   \o [i \in DOMAIN joinTypes(d) |->
                          Case(joinTypes(d)[i].on, joinTail(joinTypes(d)[i].type, d))]))>>)

isJoinKeyword(d) ==
    <<"JOIN", "INNER", "LEFT", "RIGHT", "FULL", "CROSS", "NATURAL">>
    \o (IF d = "sqlserver" THEN <<"OUTER">> ELSE <<>>)
    \o (IF d = "clickhouse" THEN <<"GLOBAL", "ANY", "ALL">> ELSE <<>>)

\* LEFT ARRAY JOIN of ClickHouse is not a join.
parseJoinClauses(d) ==
    LET start == isJoinKeyword(d)
    IN  Repeat((IF d = "clickhouse" THEN <<On(<<"LEFT", "ARRAY">>, Stop)>> ELSE <<>>)
               \o [i \in DOMAIN start |-> On(<<start[i]>>, parseJoinType(d))])

parseFromClause(d) ==
    Choose(<<Case(<<"FROM">>,
                  Seq2(<<Node("From", Seq2(<<
                            parseFromTableReference(d, IfIn({"clickhouse"}, d, Mark(<<"FINAL">>, "FINAL"))),
                            Repeat(<<Case(<<",">>, parseFromTableReference(d, Nothing))>>)>>)),
                        parseJoinClauses(d)>>)),
             Else(Before({")"} \cup ToSet(setOperators(d))))>>)

parseArrayJoinClause ==
    LET element == Node("Element", Seq2(<<Expr, tableAlias>>))
        tail(left) == Node("ArrayJoin", Seq2(<<left, Word("JOIN"), List(element)>>))
    IN  Choose(<<Case(<<"LEFT", "ARRAY">>, tail(Flag("LEFT"))),
                 Case(<<"ARRAY">>, tail(Nothing)),
                 Else(Nothing)>>)

parseSampleClause ==
    LET fraction(over) == Seq2(<<Number, If(<<"/">>, Node(over, Number))>>)
    IN  If(<<"SAMPLE">>, Node("Sample", Seq2(<<fraction("Over"),
                If(<<"OFFSET">>, Node("SampleOffset", fraction("Over")))>>)))

parsePrewhereClause == If(<<"PREWHERE">>, Node("Prewhere", Expr))

parseWhereClause == If(<<"WHERE">>, Node("Where", Expr))

parseGroupingExpressionList == Parens(List(Expr))

parseRollup == Node("Rollup", parseGroupingExpressionList)

parseCube == Node("Cube", parseGroupingExpressionList)

\* A set is a list in brackets, which may be empty, or one expression.
parseGroupingSets ==
    LET set == Node("Set", Choose(<<Case(<<"(", ")">>, Nothing),
                                    On(<<"(">>, Parens(List(Expr))),
                                    Else(Expr)>>))
    IN  Node("GroupingSets", Parens(List(set)))

parseGroupByClause ==
    If(<<"GROUP">>,
       Seq2(<<Word("BY"),
             Node("GroupBy",
                 Seq2(<<List(Choose(<<Case(<<"ROLLUP">>, parseRollup),
                                     Case(<<"CUBE">>, parseCube),
                                     Case(<<"GROUPING", "SETS">>, parseGroupingSets),
                                     Else(Expr)>>)),
                       Choose(<<Case(<<"WITH", "ROLLUP">>, Wrap("Rollup")),
                                Case(<<"WITH", "CUBE">>, Wrap("Cube")),
                                Case(<<"WITH", "TOTALS">>, Nothing),
                                Else(Nothing)>>)>>))>>))

parseHavingClause == If(<<"HAVING">>, Node("Having", Expr))

parseQualify(d) == IF d \in {"snowflake", "bigquery"} THEN If(<<"QUALIFY">>, Node("Qualify", Expr)) ELSE Nothing

parseConnectByCondition ==
    LET side == Choose(<<Case(<<"PRIOR">>, Node("Prior", Ident)), Else(Expr)>>)
    IN  Seq2(<<side, If(<<"=">>, Seq2(<<Flag("="), side>>))>>)

hierarchicalQuery(d) ==
    IF d \notin {"mariadb", "oracle"} THEN Nothing
    ELSE Seq2(<<If(<<"START">>, Seq2(<<Word("WITH"), Node("StartWith", Expr)>>)),
               If(<<"CONNECT">>,
                  Seq2(<<Word("BY"),
                        Node("ConnectBy", Seq2(<<Mark(<<"NOCYCLE">>, "NOCYCLE"),
                                                parseConnectByCondition>>))>>))>>)

-----------------------------------------------------------------------------
(* Windows and order.                                                      *)

\* Mutant: FIRST and LAST are swapped.
parseNullsClauseSwapped ==
    If(<<"NULLS">>, Choose(<<Case(<<"FIRST">>, Flag("NullsLast")), Case(<<"LAST">>, Flag("NullsFirst"))>>))

parseNullsClause ==
    If(<<"NULLS">>, Choose(<<Case(<<"FIRST">>, Flag("NullsFirst")), Case(<<"LAST">>, Flag("NullsLast"))>>))

\* ASC is the default and leaves no trace.
orderByEntry ==
    Node("OrderByEntry", Seq2(<<Expr,
        Choose(<<Case(<<"ASC">>, Nothing), Case(<<"DESC">>, Flag("DESC")), Else(Nothing)>>),
        parseNullsClause>>))

parseFrameBound ==
    Node("Bound",
        Choose(<<Case(<<"UNBOUNDED", "PRECEDING">>, Flag("UnboundedPreceding")),
                 Case(<<"UNBOUNDED", "FOLLOWING">>, Flag("UnboundedFollowing")),
                 Case(<<"CURRENT", "ROW">>, Flag("CurrentRow")),
                 Else(Seq2(<<Expr, AnyOf(<<"PRECEDING", "FOLLOWING">>)>>))>>))

parseWindowFrame ==
    Choose(<<Case(<<"BETWEEN">>, Seq2(<<Node("Start", parseFrameBound), Word("AND"),
                                       Node("End", parseFrameBound)>>)),
             Else(Node("Start", parseFrameBound))>>)

windowBody ==
    Parens(Seq2(<<If(<<"PARTITION">>, Seq2(<<Word("BY"), Node("PartitionBy", List(Expr))>>)),
                 If(<<"ORDER">>, Seq2(<<Word("BY"), Node("OrderBy", List(orderByEntry))>>)),
                 Choose([i \in 1..3 |->
                     LET unit == <<"ROWS", "RANGE", "GROUPS">>[i]
                     IN  Case(<<unit>>, Node("Frame", Seq2(<<Flag(unit), parseWindowFrame>>)))]
                     \o <<Else(Nothing)>>)>>))

parseWindowSpec == Node("WindowSpec", Choose(<<On(<<"x">>, Node("WindowName", Ident)), Else(windowBody)>>))

\* The name of the clause replaces the name a bare reference had.
windowClause ==
    If(<<"WINDOW">>,
       Node("Windows", List(Node("Window",
           Seq2(<<Node("Name", Ident), Word("AS"),
                 Choose(<<On(<<"x">>, Drop(Ident)), Else(windowBody)>>)>>)))))

parseOrderByClause(d) ==
    LET argument(w) == Case(<<w>>, Drop(Expr))
        fill == If(<<"WITH", "FILL">>, Repeat(<<argument("FROM"), argument("TO"), argument("STEP")>>))
    IN  If(<<"ORDER">>,
           Seq2(<<Word("BY"), Node("OrderBy",
               List(Seq2(<<orderByEntry, IF d = "clickhouse" THEN fill ELSE Nothing>>)))>>))

-----------------------------------------------------------------------------
(* Limits and locks.                                                       *)

countFirst(d) == d \in {"mysql", "mariadb", "clickhouse"}

\* LIMIT n, m of MySQL is OFFSET n LIMIT m.
parseLimitOffsetClause(d) ==
    LET rows == Choose(<<Case(<<"ROW">>, Nothing), Case(<<"ROWS">>, Nothing), Else(Nothing)>>)
        pair == Case(<<",">>, Seq2(<<Number, Name(<<"Offset", "Limit">>)>>))
    IN  Seq2(<<IF d \in {"sqlserver", "oracle"} THEN Nothing
              ELSE If(<<"LIMIT">>, Seq2(<<Number,
                       Choose((IF countFirst(d) THEN <<pair>> ELSE <<>>)
                              \o <<Else(Name(<<"Limit">>))>>)>>)),
              If(<<"OFFSET">>, Seq2(<<Set("Offset", Number), rows>>))>>)

limitBy(d) == IF d = "clickhouse" THEN If(<<"BY">>, Drop(List(Expr))) ELSE Nothing

\* Only WITH TIES is kept: ONLY is the default.
parseFetchClause ==
    If(<<"FETCH">>,
       Node("Fetch", Seq2(<<AnyOf(<<"FIRST", "NEXT">>), Number, Mark(<<"PERCENT">>, "PERCENT"),
           Choose(<<Case(<<"ROW">>, Nothing), Case(<<"ROWS">>, Nothing), Else(Nothing)>>),
           Choose(<<Case(<<"ONLY">>, Nothing), Case(<<"WITH">>, Seq2(<<Word("TIES"), Flag("WithTies")>>)),
                    Else(Nothing)>>)>>)))

parseForClause ==
    If(<<"FOR">>,
       Node("For", Seq2(<<
           Choose(<<Case(<<"UPDATE">>, Flag("UPDATE")),
                    Case(<<"SHARE">>, Flag("SHARE")),
                    Case(<<"NO">>, Seq2(<<Words(<<"KEY", "UPDATE">>), Flag("NoKeyUpdate")>>)),
                    Case(<<"KEY">>, Seq2(<<Word("SHARE"), Flag("KeyShare")>>))>>),
           If(<<"OF">>, Node("Of", List(Ident))),
           Choose(<<Case(<<"NOWAIT">>, Flag("NOWAIT")),
                    Case(<<"SKIP">>, Seq2(<<Word("LOCKED"), Flag("SkipLocked")>>)),
                    Else(Nothing)>>)>>)))

selectFields == <<"DISTINCT", "DistinctOnColumns", "Top", "Columns", "From", "Join", "ArrayJoin", "Sample", "Prewhere",
                  "Where", "GroupBy", "Having", "Qualify", "StartWith", "ConnectBy", "Windows", "OrderBy", "Limit",
                  "Offset", "Fetch", "For">>

parseSelectStatement(d) ==
    LET clickhouse(f) == IF d = "clickhouse" THEN f ELSE Nothing
    IN  Record("Select", selectFields, Seq2(<<
            parseDistinctModifier, parseTopClause(d), parseSelectColumnList, parseFromClause(d),
            clickhouse(parseArrayJoinClause), clickhouse(parseSampleClause),
            clickhouse(parsePrewhereClause), parseWhereClause, parseGroupByClause,
            parseHavingClause, parseQualify(d), hierarchicalQuery(d), windowClause,
            parseOrderByClause(d), parseLimitOffsetClause(d), limitBy(d),
            parseFetchClause, parseForClause>>))
=============================================================================
