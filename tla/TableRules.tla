---------------------------- MODULE TableRules ----------------------------
(***************************************************************************)
(* The parse functions of a table reference: select_subquery.go, pivot.go, *)
(* match_recognize.go and the temporal clause of mariadb.go.  d is the     *)
(* dialect of the parser.  "x" is no word that begins a clause: such a     *)
(* word is never read as an alias here.                                    *)
(***************************************************************************)
EXTENDS SqlForms

Expr == Rule("parseExpression")

isMinusSetOp(d) == d \in {"snowflake", "oracle"}

pivotDialects == {"sqlserver", "oracle", "snowflake"}

supportsTableFunction(d) == d \in {"snowflake", "bigquery", "postgresql"}

-----------------------------------------------------------------------------
(* Clauses of a table.                                                     *)

\* The first word is read, WITH as well as SELECT, and what follows is taken
\* for the columns of a SELECT.
derivedTable ==
    Node("Derived", Parens(Seq2(<<Choose(<<Case(<<"SELECT">>, Nothing), Case(<<"WITH">>, Nothing)>>),
                                 Rule("parseSelectStatement")>>)))

parseTableHints ==
    Seq2(<<Word("WITH"), Word("("),
          Node("TableHints", Repeat(<<Case(<<"NOLOCK">>, Seq2(<<Flag("NOLOCK"), Optional(<<",">>)>>))>>)),
          Word(")")>>)

parseForSystemTimeClause ==
    LET range(word, between) ==
            Case(<<word>>, Seq2(<<Flag(word), Node("Start", Expr), Word(between), Node("End", Expr)>>))
    IN  Seq2(<<Words(<<"FOR", "SYSTEM_TIME">>), Node("ForSystemTime",
            Choose(<<Case(<<"AS">>, Seq2(<<Word("OF"), Flag("AsOf"), Expr>>)),
                     range("BETWEEN", "AND"), range("FROM", "TO"),
                     Case(<<"ALL">>, Flag("ALL"))>>))>>)

\* Read and not kept: the word alone is enough.
sampleClause(d) ==
    LET method == FirstOf([i \in 1..4 |-> Case(<<(<<"BERNOULLI", "SYSTEM", "BLOCK", "ROW">>)[i]>>, Nothing)])
        sample == Seq2(<<method, IfOn(<<"(">>, SkipBlock)>>)
        rows   == IF d = "clickhouse" THEN <<On(<<"SAMPLE", "n">>, Nothing)>> ELSE <<>>
    IN  FirstOf(rows \o <<Case(<<"SAMPLE">>, sample), Case(<<"TABLESAMPLE">>, sample)>>)

parseOneTimeTravelClause(kind) ==
    LET argument == Node("Named", Seq2(<<TakeOther({",", "(", ")"}), Word("=>"),
                             Choose(<<Case(<<"DEFAULT">>, Flag("DEFAULT")), Else(Expr)>>)>>))
    IN  On(<<kind, "(">>, Seq2(<<Word(kind), Node("TimeTravel", Seq2(<<Flag(kind), Parens(List(argument))>>))>>))

parseSnowflakeTimeTravel ==
    Repeat(<<parseOneTimeTravelClause("AT"), parseOneTimeTravelClause("BEFORE"),
             parseOneTimeTravelClause("CHANGES")>>)

-----------------------------------------------------------------------------
(* PIVOT, UNPIVOT and MATCH_RECOGNIZE.                                     *)

\* The values of IN need no comma between them, and AS no name.
inList(values) ==
    LET entry(w) == On(<<w>>, Seq2(<<Node("InValue", Seq2(<<Take(ToSet(values)),
                        If(<<"AS">>, IfOn(<<"x">>, Node("As", Ident)))>>)), Optional(<<",">>)>>))
        entries == [i \in DOMAIN values |-> entry(values[i])]
    IN  Parens(Seq2(<<Choose(entries), Repeat(entries)>>))

parsePivotClause ==
    Node("Pivot", Parens(Seq2(<<Expr, Word("FOR"), Node("Column", Ident), Word("IN"),
                               inList(<<"x", "n">>)>>)))

parseUnpivotClause ==
    Node("Unpivot", Parens(Seq2(<<Node("ValueColumn", Ident), Word("FOR"), Node("Column", Ident), Word("IN"),
                                 inList(<<"x">>)>>)))

\* The alias replaces the one before the clause.
parsePivotAlias == FirstOf(<<Case(<<"AS">>, IfOn(<<"x">>, Set("Alias", Ident))),
                             On(<<"x">>, Set("Alias", Ident))>>)

\* Every part is optional; the rows of a match are three tokens, whichever.
parseMatchRecognize ==
    LET order == Node("OrderByEntry", Seq2(<<Expr,
                     FirstOf(<<Case(<<"ASC">>, Nothing), Case(<<"DESC">>, Flag("DESC"))>>)>>))
        measure == Node("Measure", Seq2(<<Expr, If(<<"AS">>, Field("As", TakeAny))>>))
        rows(word, label) == Case(<<word>>, Seq2(<<Flag(label), Drop(Seq2(<<TakeAny, TakeAny, TakeAny>>))>>))
        definition == Choose(<<On(<<")">>, Nothing),
                               Else(Node("Definition", Seq2(<<TakeOther({")"}), Word("AS"), Expr>>)))>>)
    IN  Node("MatchRecognize", Parens(Seq2(<<
            If(<<"PARTITION">>, Seq2(<<Optional(<<"BY">>), Node("PartitionBy", List(Expr))>>)),
            If(<<"ORDER">>, Seq2(<<Optional(<<"BY">>), Node("OrderBy", List(order))>>)),
            If(<<"MEASURES">>, Node("Measures", List(measure))),
            FirstOf(<<rows("ONE", "OneRowPerMatch"), rows("ALL", "AllRowsPerMatch")>>),
            If(<<"AFTER">>, Seq2(<<Flag("AfterMatch"), Skip({"PATTERN", "DEFINE", ")"})>>)),
            If(<<"PATTERN">>, Node("Pattern", Rule("balancedBlock"))),
            If(<<"DEFINE">>, Node("Define", List(definition)))>>)))

-----------------------------------------------------------------------------
(* A table of FROM and a table of JOIN.                                    *)

tableAlias == FirstOf(<<Case(<<"AS">>, Node("Alias", Ident)), On(<<"x">>, Node("Alias", Ident))>>)

\* What may follow the name or the subquery, in a FROM list and after JOIN.
tableSuffix(d) ==
    LET pivot(word, clause) == If(<<word>>, Seq2(<<clause, parsePivotAlias>>))
    IN  Seq2(<<tableAlias,
              IfIn({"mariadb"}, d, IfOn(<<"FOR", "SYSTEM_TIME">>, parseForSystemTimeClause)),
              IfIn({"sqlserver"}, d, IfOn(<<"WITH", "(">>, parseTableHints)),
              IfIn(pivotDialects, d, Seq2(<<pivot("PIVOT", parsePivotClause),
                                           pivot("UNPIVOT", parseUnpivotClause)>>))>>)

tableFields == <<"LATERAL", "x", "Derived", "TableFunc", "TimeTravel", "Alias", "ForSystemTime", "TableHints",
                 "Pivot", "Unpivot", "MatchRecognize", "FINAL">>

\* modifier is what parseFromClause reads of the table in addition.
parseFromTableReference(d, modifier) ==
    LET function == IF supportsTableFunction(d)
                    THEN <<On(<<"x", "(">>, Seq2(<<Flag("x"), Node("TableFunc", Rule("parseFunctionCall"))>>))>>
                    ELSE <<>>
        named(f) == Seq2(<<f, sampleClause(d), IfIn({"snowflake"}, d, parseSnowflakeTimeTravel)>>)
        match    == If(<<"MATCH_RECOGNIZE">>, Seq2(<<parseMatchRecognize, Optional(<<"AS">>),
                                                    IfOn(<<"x">>, Set("Alias", Ident))>>))
    IN  Record("Table", tableFields, Seq2(<<Mark(<<"LATERAL">>, "LATERAL"),
            Choose(<<On(<<"(">>, derivedTable)>> \o [i \in DOMAIN function |-> On(function[i].on, named(function[i].f))]
                   \o <<Else(named(Ident))>>),
            tableSuffix(d),
            IfIn({"oracle", "snowflake"}, d, match),
            modifier>>))

parseJoinedTableRef(d) ==
    Record("Table", tableFields, Seq2(<<Mark(<<"LATERAL">>, "LATERAL"),
        Choose(<<On(<<"(">>, derivedTable), Else(Ident)>>), tableSuffix(d)>>))
=============================================================================
