---------------------------- MODULE SqlPrinters ----------------------------
(***************************************************************************)
(* What turns a tree back into text.  There are three printers: "sql", the *)
(* SQL() methods of pkg/sql/ast/sql.go; "format", pkg/formatter/render.go, *)
(* which leaves most expressions to SQL(); and "cli", the formatter of the *)
(* gosqlx command in cmd/gosqlx/cmd/sql_formatter.go.                      *)
(*                                                                         *)
(* A printer is a function from the label of a node to the items it writes *)
(* for it, in order.  A kid that no item names is not printed.             *)
(***************************************************************************)
EXTENDS UtilityRules

-----------------------------------------------------------------------------
(* Items.                                                                  *)

Item(k, of, ws) == [k |-> k, of |-> of, pre |-> ws, sep |-> <<>>, post |-> <<>>, by |-> "", but |-> ""]

Put(ws)         == Item("put", {}, ws)
When(label, ws) == Item("when", {label}, ws)                       \* if the field is set
\* The content of a field between two texts, with a separator in it.
Part(label, pre, sep, post) == [Item("part", {label}, pre) EXCEPT !.sep = sep, !.post = post]
Nodes(labels, sep)  == [Item("nodes", labels, <<>>) EXCEPT !.sep = sep]    \* kids of these labels
Others(labels, sep) == [Item("others", labels, <<>>) EXCEPT !.sep = sep]   \* all the other kids
By(p, item)         == [item EXCEPT !.by = p]                      \* written by that printer
ButNot(label, item) == [item EXCEPT !.but = label]                 \* not if that field is set

Unless(label, ws)  == ButNot(label, Put(ws))
Clause(label, pre) == Part(label, pre, <<>>, <<>>)
Flagged(label)     == When(label, <<label>>)
ListOf(label, pre) == Part(label, pre, <<",">>, <<>>)
InParens(label, pre) == Part(label, pre \o <<"(">>, <<",">>, <<")">>)
All                == Others({}, <<>>)
Leaves(ws)         == <<Put(ws)>>

BySql(items) == [i \in DOMAIN items |-> By("sql", items[i])]

-----------------------------------------------------------------------------
(* Writing.                                                                *)

Joined(texts, sep) ==
    FlattenSeq([i \in DOMAIN texts |-> (IF i = 1 THEN <<>> ELSE sep) \o texts[i]])

Has(t, label) == \E i \in DOMAIN t.kids : t.kids[i].label = label

RECURSIVE Write(_, _, _)

\* The text of t by printer p.  A label without a rule is left to SQL() by the
\* formatter of the library, and is what it holds for the others.
Write(printers, p, t) ==
    LET writer(item) == IF item.by = "" THEN p ELSE item.by
        texts(item, kids) == [i \in DOMAIN kids |-> Write(printers, writer(item), kids[i])]
        chosen(item) == SelectSeq(t.kids, LAMBDA u : (u.label \in item.of) # (item.k = "others"))
        content(item) ==
            CASE item.k \in {"put", "when"} -> item.pre
              [] item.k = "part" -> FlattenSeq([i \in DOMAIN chosen(item) |->
                     item.pre \o Joined(texts(item, chosen(item)[i].kids), item.sep) \o item.post])
              [] OTHER -> Joined(texts(item, chosen(item)), item.sep)
        text(item) == IF Has(t, item.but) \/ (item.k = "when" /\ chosen(item) = <<>>) THEN <<>> ELSE content(item)
        all(items) == FlattenSeq([i \in DOMAIN items |-> text(items[i])])
    IN  IF t.label \in DOMAIN printers[p] THEN all(printers[p][t.label])
        ELSE IF p = "format" THEN Write(printers, "sql", t)
        ELSE IF t.kids = <<>> THEN <<t.label>>
        ELSE all(<<All>>)

-----------------------------------------------------------------------------
(* SQL(): expressions, SELECT and what belongs to it.                      *)

selectHead == <<Nodes({"With"}, <<>>), Put(<<"SELECT">>), Flagged("DISTINCT")>>

windowSpecSQL == <<ListOf("PartitionBy", <<"PARTITION", "BY">>), ListOf("OrderBy", <<"ORDER", "BY">>),
                   Nodes({"Frame"}, <<>>)>>

functionHead == <<Nodes({"x"}, <<>>), Put(<<"(">>), Flagged("DISTINCT"), Nodes({"Arg"}, <<",">>),
                  ListOf("OrderBy", <<"ORDER", "BY">>), Put(<<")">>)>>

\* The literals of flags that are not the words they print.
sqlFlags ==
    [NullsFirst |-> Leaves(<<"NULLS", "FIRST">>), NullsLast |-> Leaves(<<"NULLS", "LAST">>),
     UnboundedPreceding |-> Leaves(<<"UNBOUNDED", "PRECEDING">>),
     UnboundedFollowing |-> Leaves(<<"UNBOUNDED", "FOLLOWING">>),
     CurrentRow |-> Leaves(<<"CURRENT", "ROW">>),
     CrossApply |-> Leaves(<<"CROSS", "APPLY">>), OuterApply |-> Leaves(<<"OUTER", "APPLY">>),
     NoKeyUpdate |-> Leaves(<<"NO", "KEY", "UPDATE">>), KeyShare |-> Leaves(<<"KEY", "SHARE">>),
     SetNull |-> Leaves(<<"SET", "NULL">>), SetDefault |-> Leaves(<<"SET", "DEFAULT">>),
     NoAction |-> Leaves(<<"NO", "ACTION">>), NotNull |-> Leaves(<<"NOT", "NULL">>),
     PrimaryKey |-> Leaves(<<"PRIMARY", "KEY">>), QueryTree |-> Leaves(<<"QUERY", "TREE">>),
     RowStart |-> Leaves(<<"GENERATED", "ALWAYS", "AS", "ROW", "START">>),
     RowEnd |-> Leaves(<<"GENERATED", "ALWAYS", "AS", "ROW", "END">>),
     MaterializedView |-> Leaves(<<"MATERIALIZED", "VIEW">>)]

sqlExpressions ==
    [Aliased |-> <<Others({"Alias"}, <<>>), Clause("Alias", <<"AS">>)>>,
     Minus |-> <<Put(<<"-">>), All>>,
     Cast |-> <<Put(<<"CAST", "(">>), Others({"TypeParameters"}, <<"AS">>), InParens("TypeParameters", <<>>),
                Put(<<")">>)>>,
     TryCast |-> <<Put(<<"CAST", "(">>), Others({"TypeParameters"}, <<"AS">>), InParens("TypeParameters", <<>>),
                   Put(<<")">>)>>,
     CaseExpression |-> <<Put(<<"CASE">>), Clause("Value", <<>>), Part("When", <<"WHEN">>, <<"THEN">>, <<>>),
                          Clause("Else", <<"ELSE">>), Put(<<"END">>)>>,
     Exists |-> <<Put(<<"EXISTS", "(">>), All, Put(<<")">>)>>,
     NotExists |-> <<Put(<<"NOT", "EXISTS", "(">>), All, Put(<<")">>)>>,
     Subquery |-> <<Put(<<"(">>), All, Put(<<")">>)>>]

sqlFunctions ==
    [FunctionCall |-> functionHead \o
         <<Part("WithinGroup", <<"WITHIN", "GROUP", "(", "ORDER", "BY">>, <<",">>, <<")">>),
           Part("Filter", <<"FILTER", "(", "WHERE">>, <<>>, <<")">>), Part("Over", <<"OVER", "(">>, <<>>, <<")">>)>>,
     NamedArgument |-> <<Nodes({"x"}, <<>>)>>,
     Extract |-> <<Put(<<"EXTRACT", "(">>), Others({}, <<"FROM">>), Put(<<")">>)>>]

sqlLists ==
    [Interval |-> <<Put(<<"INTERVAL">>), All>>,
     ListExpression |-> <<Others({}, <<",">>)>>,
     Tuple |-> <<Put(<<"(">>), Others({}, <<",">>), Put(<<")">>)>>,
     Array |-> <<Put(<<"ARRAY">>), Part("Subquery", <<"(">>, <<>>, <<")">>),
                 Unless("Subquery", <<"[">>), Nodes({"Arg"}, <<",">>), Unless("Subquery", <<"]">>)>>,
     Rollup |-> <<Put(<<"ROLLUP", "(">>), Others({}, <<",">>), Put(<<")">>)>>,
     Cube |-> <<Put(<<"CUBE", "(">>), Others({}, <<",">>), Put(<<")">>)>>,
     GroupingSets |-> <<Put(<<"GROUPING", "SETS", "(">>), Nodes({"Set"}, <<",">>), Put(<<")">>)>>,
     Set |-> <<Put(<<"(">>), Others({}, <<",">>), Put(<<")">>)>>,
     GroupingFunction |-> <<Put(<<"GROUPING", "(">>), Others({}, <<",">>), Put(<<")">>)>>]

sqlHierarchy == [Prior |-> <<Put(<<"PRIOR">>), All>>]

\* A derived table, a CTE and a WITH clause go through their own writers.
sqlSelect ==
    [Select |-> selectHead \o
        <<InParens("DistinctOnColumns", <<"ON">>), ListOf("Columns", <<>>), ListOf("From", <<"FROM">>),
          Nodes({"Join"}, <<>>), Nodes({"ArrayJoin"}, <<>>), Clause("Prewhere", <<"PREWHERE">>),
          Clause("Where", <<"WHERE">>), ListOf("GroupBy", <<"GROUP", "BY">>), Clause("Having", <<"HAVING">>),
          Clause("StartWith", <<"START", "WITH">>), Clause("ConnectBy", <<"CONNECT", "BY">>),
          ListOf("Windows", <<"WINDOW">>), ListOf("OrderBy", <<"ORDER", "BY">>), Clause("Limit", <<"LIMIT">>),
          Clause("Offset", <<"OFFSET">>), Nodes({"Fetch"}, <<>>), Nodes({"For"}, <<>>)>>,
     ArrayJoin |-> <<Flagged("LEFT"), Put(<<"ARRAY", "JOIN">>), Nodes({"Element"}, <<",">>)>>,
     Element |-> <<Others({"Alias"}, <<>>), Clause("Alias", <<"AS">>)>>]

sqlSets ==
    [With |-> <<Put(<<"WITH">>), Flagged("RECURSIVE"), Nodes({"CTE"}, <<",">>)>>,
     SetOperation |-> <<Clause("Left", <<>>), Others({"Left", "Right"}, <<>>), Clause("Right", <<>>)>>]

sqlCte ==
    [CTE |-> <<Part("ScalarExpr", <<>>, <<>>, <<"AS">>), Nodes({"x"}, <<>>), InParens("Columns", <<>>),
               Unless("ScalarExpr", <<"AS">>), When("Materialized", <<"MATERIALIZED">>),
               When("NotMaterialized", <<"NOT", "MATERIALIZED">>), InParens("Statement", <<>>)>>]

sqlSources ==
    [Table |-> <<Flagged("LATERAL"), Nodes({"x"}, <<>>), InParens("Derived", <<>>), Clause("Alias", <<>>),
                 Flagged("FINAL"), Nodes({"ForSystemTime"}, <<>>)>>,
     Join |-> <<Others({"Table", "On"}, <<>>), Put(<<"JOIN">>), Nodes({"Table"}, <<>>), Clause("On", <<"ON">>)>>,
     WindowSpec |-> <<Clause("WindowName", <<>>)>> \o windowSpecSQL,
     Window |-> <<Clause("Name", <<>>), Put(<<"AS", "(">>), Clause("Name", <<>>)>> \o windowSpecSQL \o <<Put(<<")">>)>>,
     Frame |-> <<Others({"Start", "End"}, <<>>), When("End", <<"BETWEEN">>), Clause("Start", <<>>),
                 Clause("End", <<"AND">>)>>,
     Bound |-> <<Nodes({"UnboundedPreceding", "UnboundedFollowing", "CurrentRow", "PRECEDING", "FOLLOWING"}, <<>>)>>,
     Fetch |-> <<Put(<<"FETCH">>), Others({"PERCENT", "WithTies"}, <<>>), Flagged("PERCENT"), Put(<<"ROWS">>),
                 When("WithTies", <<"WITH", "TIES">>), Unless("WithTies", <<"ONLY">>)>>,
     For |-> <<Put(<<"FOR">>), Nodes({"UPDATE", "SHARE", "NoKeyUpdate", "KeyShare"}, <<>>), ListOf("Of", <<"OF">>),
               Flagged("NOWAIT"), When("SkipLocked", <<"SKIP", "LOCKED">>)>>]

sqlHistory ==
    [ForSystemTime |-> <<Put(<<"FOR", "SYSTEM_TIME">>), When("AsOf", <<"AS", "OF">>),
                         Others({"AsOf", "Start", "End"}, <<>>), Clause("Start", <<>>),
                         When("BETWEEN", <<"AND">>), When("FROM", <<"TO">>), Clause("End", <<>>)>>]

-----------------------------------------------------------------------------
(* SQL(): the other statements.                                            *)

sqlRows == [Row |-> <<Put(<<"(">>), Others({}, <<",">>), Put(<<")">>)>>,
            Assignment |-> <<Others({}, <<"=">>)>>, SetClause |-> <<Others({}, <<"=">>)>>]

mergeWhen(words) ==
    <<Put(<<"WHEN">> \o words), Clause("And", <<"AND">>), Put(<<"THEN">>), Others({"And"}, <<>>)>>

mergeRules ==
    [Merge |-> <<Put(<<"MERGE", "INTO">>), Clause("MergeTarget", <<>>), Clause("MergeSource", <<"USING">>),
                 Clause("On", <<"ON">>), Nodes({"Matched", "NotMatched", "NotMatchedBySource"}, <<>>)>>,
     Matched |-> mergeWhen(<<"MATCHED">>), NotMatched |-> mergeWhen(<<"NOT", "MATCHED">>),
     NotMatchedBySource |-> mergeWhen(<<"NOT", "MATCHED", "BY", "SOURCE">>),
     MergeUpdate |-> <<Put(<<"UPDATE", "SET">>), Others({}, <<",">>)>>,
     MergeInsert |-> <<Put(<<"INSERT">>), ButNot("DefaultValues", InParens("Columns", <<>>)), When("DefaultValues", <<"DEFAULT", "VALUES">>),
                       InParens("Values", <<"VALUES">>)>>]

insertHead == <<Put(<<"INSERT", "INTO">>), Nodes({"x"}, <<>>), InParens("Columns", <<>>)>>

returning == ListOf("Returning", <<"RETURNING">>)

sqlDml ==
    [Insert |-> <<Nodes({"With"}, <<>>)>> \o insertHead \o
                <<Clause("Query", <<>>), ListOf("Values", <<"VALUES">>), Nodes({"OnConflict"}, <<>>), returning>>,
     Update |-> <<Nodes({"With"}, <<>>), Put(<<"UPDATE">>), Nodes({"x"}, <<>>), Clause("Alias", <<>>),
                  ListOf("Assignments", <<"SET">>), Clause("Where", <<"WHERE">>), returning>>,
     Delete |-> <<Nodes({"With"}, <<>>), Put(<<"DELETE", "FROM">>), Nodes({"x"}, <<>>), Clause("Alias", <<>>),
                  Clause("Where", <<"WHERE">>), returning>>]

sqlConflict ==
    [OnConflict |-> <<Put(<<"ON", "CONFLICT">>), InParens("Target", <<>>), Clause("Constraint", <<"ON", "CONSTRAINT">>),
                      When("DoNothing", <<"DO", "NOTHING">>), ListOf("DoUpdate", <<"DO", "UPDATE", "SET">>),
                      Clause("Where", <<"WHERE">>)>>]

tableHead == <<Put(<<"CREATE">>), Flagged("TEMPORARY"), Put(<<"TABLE">>),
               When("IfNotExists", <<"IF", "NOT", "EXISTS">>), Nodes({"x"}, <<>>)>>

indexHead == <<Put(<<"CREATE">>), When("Unique", <<"UNIQUE">>), Put(<<"INDEX">>),
               When("IfNotExists", <<"IF", "NOT", "EXISTS">>), Clause("Name", <<>>), Clause("Table", <<"ON">>)>>

viewHead == <<Put(<<"CREATE">>), When("OrReplace", <<"OR", "REPLACE">>), Flagged("TEMPORARY"), Put(<<"VIEW">>),
              When("IfNotExists", <<"IF", "NOT", "EXISTS">>), Nodes({"x"}, <<>>), InParens("Columns", <<>>),
              Clause("Query", <<"AS">>)>>

materializedViewHead ==
    <<Put(<<"CREATE", "MATERIALIZED", "VIEW">>), When("IfNotExists", <<"IF", "NOT", "EXISTS">>), Nodes({"x"}, <<>>),
      InParens("Columns", <<>>)>>

withDataSQL == <<When("WithData", <<"WITH", "DATA">>), When("WithNoData", <<"WITH", "NO", "DATA">>)>>

sqlTables ==
    [CreateTable |-> tableHead \o <<Put(<<"(">>), Nodes({"Column", "Constraint"}, <<",">>), Put(<<")">>),
                                    Clause("PartitionBy", <<"PARTITION", "BY">>), Nodes({"Option"}, <<>>)>>,
     CreateIndex |-> indexHead \o <<Clause("Using", <<"USING">>), Put(<<"(">>), Nodes({"IndexColumn"}, <<",">>),
                                    Put(<<")">>), Clause("Where", <<"WHERE">>)>>,
     IndexColumn |-> <<Others({"NullsLast"}, <<>>)>>,
     Drop |-> <<Put(<<"DROP">>), Nodes({"MaterializedView", "VIEW", "TABLE", "INDEX"}, <<>>),
                When("IfExists", <<"IF", "EXISTS">>), Nodes({"x"}, <<",">>), Nodes({"CASCADE", "RESTRICT"}, <<>>)>>,
     Truncate |-> <<Put(<<"TRUNCATE", "TABLE">>), Nodes({"x"}, <<",">>),
                    When("RestartIdentity", <<"RESTART", "IDENTITY">>),
                    When("ContinueIdentity", <<"CONTINUE", "IDENTITY">>), Nodes({"CASCADE", "RESTRICT"}, <<>>)>>]

sqlColumns ==
    [PartitionBy |-> <<All>>,
     Columns |-> <<Put(<<"(">>), Others({}, <<",">>), Put(<<")">>)>>,
     Option |-> <<Others({"x", "TypeArgs"}, <<>>), Put(<<"=">>), Nodes({"x", "TypeArgs"}, <<>>)>>,
     TypeArgs |-> <<Put(<<"(">>), All, Put(<<")">>)>>,
     Column |-> <<Others({"Codec"}, <<>>)>>,
     Default |-> <<Put(<<"DEFAULT">>), All>>,
     Check |-> <<Put(<<"CHECK", "(">>), All, Put(<<")">>)>>,
     Constraint |-> <<Clause("Name", <<"CONSTRAINT">>), When("PrimaryKey", <<"PRIMARY", "KEY">>),
                      When("ForeignKey", <<"FOREIGN", "KEY">>), Flagged("UNIQUE"), InParens("Columns", <<>>),
                      Nodes({"References", "Check"}, <<>>)>>,
     References |-> <<Put(<<"REFERENCES">>), Nodes({"x"}, <<>>), InParens("Columns", <<>>),
                      Clause("OnDelete", <<"ON", "DELETE">>), Clause("OnUpdate", <<"ON", "UPDATE">>)>>]

sqlViews ==
    [CreateView |-> viewHead \o <<When("CheckOption", <<"WITH", "CHECK", "OPTION">>),
                                  When("CascadedCheckOption", <<"WITH", "CASCADED", "CHECK", "OPTION">>),
                                  When("LocalCheckOption", <<"WITH", "LOCAL", "CHECK", "OPTION">>)>>,
     CreateMaterializedView |-> materializedViewHead \o <<Clause("Query", <<"AS">>)>> \o withDataSQL,
     Refresh |-> <<Put(<<"REFRESH", "MATERIALIZED", "VIEW">>), Flagged("CONCURRENTLY"), Nodes({"x"}, <<>>)>> \o withDataSQL]

\* Without a method of their own ALTER and the sequences are one word.
sqlUtility ==
    [Alter |-> Leaves(<<"ALTER">>), CreateSequence |-> Leaves(<<"CREATE">>), AlterSequence |-> Leaves(<<"ALTER">>),
     DropSequence |-> Leaves(<<"DROP">>),
     Show |-> <<Put(<<"SHOW">>), When("CreateTable", <<"CREATE", "TABLE">>), When("Create", <<"CREATE">>),
                Others({"CreateTable", "Create", "ObjectName", "From"}, <<>>), Clause("ObjectName", <<>>),
                Clause("From", <<"FROM">>)>>,
     Replace |-> <<Put(<<"REPLACE", "INTO">>), Nodes({"x"}, <<>>), InParens("Columns", <<>>),
                   ListOf("Values", <<"VALUES">>)>>,
     Describe |-> <<Put(<<"DESCRIBE">>), All>>,
     Explain |-> <<Put(<<"EXPLAIN">>), Clause("Mode", <<>>), When("Analyze", <<"ANALYZE">>),
                   Clause("Format", <<"FORMAT", "=">>), Clause("Statement", <<>>)>>,
     Pragma |-> <<Put(<<"PRAGMA">>), Nodes({"x"}, <<>>), InParens("Arg", <<>>), Clause("Value", <<"=">>)>>]

sqlPrinter ==
    sqlFlags @@ sqlExpressions @@ sqlFunctions @@ sqlLists @@ sqlHierarchy @@ sqlSelect @@ sqlSets @@ sqlCte @@ sqlSources @@ sqlHistory
    @@ sqlRows @@ mergeRules @@ sqlDml @@ sqlConflict @@ sqlTables @@ sqlColumns @@ sqlViews @@ sqlUtility

-----------------------------------------------------------------------------
(* The formatter of the library.  The AS in front of the alias of a PIVOT  *)
(* is left out: the alias is read with it and without it.                  *)

formatSelect ==
    [Select |-> selectHead \o
        <<By("sql", InParens("DistinctOnColumns", <<"ON">>)), Nodes({"Top"}, <<>>),
          By("sql", ListOf("Columns", <<>>)), ListOf("From", <<"FROM">>), Nodes({"Join"}, <<>>),
          Nodes({"Sample"}, <<>>), Clause("Where", <<"WHERE">>), By("sql", ListOf("GroupBy", <<"GROUP", "BY">>)),
          Clause("Having", <<"HAVING">>), By("sql", ListOf("Windows", <<"WINDOW">>)),
          By("sql", ListOf("OrderBy", <<"ORDER", "BY">>)), Clause("Limit", <<"LIMIT">>),
          Clause("Offset", <<"OFFSET">>), Nodes({"Fetch"}, <<>>), Nodes({"For"}, <<>>)>>,
     Top |-> <<Put(<<"TOP">>), Others({"PERCENT", "WithTies"}, <<>>), Flagged("PERCENT"),
               When("WithTies", <<"WITH", "TIES">>)>>]

formatSources ==
    [Sample |-> <<Put(<<"SAMPLE">>), All>>,
     Over |-> <<Put(<<"/">>), All>>,
     SampleOffset |-> <<Put(<<"OFFSET">>), All>>,
     Table |-> <<Flagged("LATERAL"), Nodes({"x"}, <<>>), By("sql", InParens("Derived", <<>>)),
                 Nodes({"Pivot"}, <<>>), Nodes({"Unpivot"}, <<>>), Clause("Alias", <<>>)>>,
     Pivot |-> <<Put(<<"PIVOT", "(">>), By("sql", Others({"Column", "InValue"}, <<>>)), Clause("Column", <<"FOR">>),
                 Put(<<"IN", "(">>), Nodes({"InValue"}, <<",">>), Put(<<")", ")">>)>>,
     Unpivot |-> <<Put(<<"UNPIVOT", "(">>), Clause("ValueColumn", <<>>), Clause("Column", <<"FOR">>),
                   Put(<<"IN", "(">>), Nodes({"InValue"}, <<",">>), Put(<<")", ")">>)>>,
     InValue |-> <<Others({"As"}, <<>>), Clause("As", <<"AS">>)>>,
     Join |-> BySql(<<Others({"Table", "On"}, <<>>), Put(<<"JOIN">>)>>)
              \o <<Nodes({"Table"}, <<>>), By("sql", Clause("On", <<"ON">>))>>]

formatExpressions ==
    [CaseExpression |-> sqlExpressions.CaseExpression,
     Exists |-> sqlExpressions.Exists,
     Subquery |-> sqlExpressions.Subquery,
     With |-> sqlSets.With,
     CTE |-> <<Nodes({"x"}, <<>>), InParens("Columns", <<>>), Put(<<"AS">>), Put(<<"(">>), Clause("Statement", <<>>),
               Put(<<")">>)>>]

formatSetOperation == [SetOperation |-> sqlSets.SetOperation]

formatLocks == [Fetch |-> sqlSources.Fetch, For |-> sqlSources.For]

formatConflict == [OnConflict |-> BySql(sqlConflict.OnConflict)]

formatDml ==
    [Insert |-> <<Nodes({"With"}, <<>>)>> \o insertHead \o
                <<Clause("Query", <<>>), By("sql", ListOf("Values", <<"VALUES">>)), Nodes({"OnConflict"}, <<>>),
                  By("sql", returning)>>,
     Update |-> <<Nodes({"With"}, <<>>), Put(<<"UPDATE">>), Nodes({"x"}, <<>>), Clause("Alias", <<>>),
                  By("sql", ListOf("Assignments", <<"SET">>)), Clause("Where", <<"WHERE">>), By("sql", returning)>>,
     Delete |-> <<Nodes({"With"}, <<>>), Put(<<"DELETE", "FROM">>), Nodes({"x"}, <<>>), Clause("Alias", <<>>),
                  Clause("Where", <<"WHERE">>), By("sql", returning)>>]

formatMerge == [Merge |-> BySql(mergeRules.Merge)]

sequenceOptionsSQL ==
    <<Clause("StartWith", <<"START", "WITH">>), Clause("IncrementBy", <<"INCREMENT", "BY">>),
      Clause("MINVALUE", <<"MINVALUE">>), Clause("MAXVALUE", <<"MAXVALUE">>), Clause("CACHE", <<"CACHE">>),
      Flagged("NOCACHE"), Flagged("CYCLE"), Flagged("NOCYCLE"), Clause("RestartWith", <<"RESTART", "WITH">>),
      ButNot("RestartWith", Flagged("RESTART"))>>

formatTable == [CreateTable |-> BySql(sqlTables.CreateTable)]

formatColumns ==
    [Column |-> sqlColumns.Column, Default |-> BySql(sqlColumns.Default), Check |-> BySql(sqlColumns.Check),
     Constraint |-> BySql(sqlColumns.Constraint), References |-> sqlColumns.References]

\* The option of a view is written without the WITH in front of it, and a
\* statement of Snowflake as a comment.
formatViews ==
    [CreateIndex |-> indexHead \o <<Clause("Using", <<"USING">>), Put(<<"(">>), Nodes({"IndexColumn"}, <<",">>),
                                    Put(<<")">>), Clause("Where", <<"WHERE">>)>>,
     IndexColumn |-> <<All>>,
     CreateView |-> viewHead \o <<When("CheckOption", <<"CHECK", "OPTION">>),
                                  When("CascadedCheckOption", <<"CASCADED", "CHECK", "OPTION">>),
                                  When("LocalCheckOption", <<"LOCAL", "CHECK", "OPTION">>)>>,
     CreateMaterializedView |-> materializedViewHead \o
                                <<Clause("Tablespace", <<"TABLESPACE">>), Clause("Query", <<"AS">>)>> \o withDataSQL]

formatDdl ==
    [CreateSequence |-> <<Put(<<"CREATE">>), When("OrReplace", <<"OR", "REPLACE">>), Put(<<"SEQUENCE">>),
                          When("IfNotExists", <<"IF", "NOT", "EXISTS">>), Nodes({"x"}, <<>>)>> \o sequenceOptionsSQL,
     AlterSequence |-> <<Put(<<"ALTER", "SEQUENCE">>), When("IfExists", <<"IF", "EXISTS">>), Nodes({"x"}, <<>>)>>
                       \o sequenceOptionsSQL,
     DropSequence |-> <<Put(<<"DROP", "SEQUENCE">>), When("IfExists", <<"IF", "EXISTS">>), Nodes({"x"}, <<>>)>>,
     Unsupported |-> <<>>]

formatRemovals == [Refresh |-> sqlViews.Refresh, Drop |-> sqlTables.Drop, Truncate |-> sqlTables.Truncate]

formatPrinter ==
    formatSelect @@ formatSources @@ formatExpressions @@ formatSetOperation @@ formatLocks @@ formatConflict @@ formatDml
    @@ formatMerge @@ formatTable @@ formatColumns @@ formatViews @@ formatRemovals @@ formatDdl

-----------------------------------------------------------------------------
(* The formatter of the command.  An expression it has no case for is one  *)
(* word, which may pass for a name; a statement it has no case for makes   *)
(* it report an error.                                                     *)

cliExpressions ==
    [Exists |-> <<Put(<<"EXISTS", "(">>), Nodes({"Select"}, <<>>), Put(<<")">>)>>,
     NotExists |-> <<Put(<<"NOT", "EXISTS", "(">>), Nodes({"Select"}, <<>>), Put(<<")">>)>>,
     Subquery |-> <<Put(<<"(">>), Nodes({"Select"}, <<>>), Put(<<")">>)>>,
     CaseExpression |-> sqlExpressions.CaseExpression, Minus |-> sqlExpressions.Minus, Aliased |-> sqlExpressions.Aliased,
     Cast |-> Leaves(<<"CAST">>), TryCast |-> Leaves(<<"TRY_CAST">>), Extract |-> Leaves(<<"EXTRACT">>),
     Interval |-> Leaves(<<"INTERVAL">>), Array |-> Leaves(<<"ARRAY">>), Rollup |-> Leaves(<<"ROLLUP">>),
     Cube |-> Leaves(<<"CUBE">>), GroupingSets |-> Leaves(<<"GROUPING", "SETS">>),
     GroupingFunction |-> Leaves(<<"GROUPING">>), Tuple |-> Leaves(<<"x">>), ListExpression |-> Leaves(<<"x">>)]

cliFunctions ==
    [FunctionCall |-> functionHead \o <<Part("Filter", <<"FILTER", "(", "WHERE">>, <<>>, <<")">>),
                                       Part("Over", <<"OVER", "(">>, <<>>, <<")">>)>>]

cliWindows ==
    [WindowSpec |-> windowSpecSQL,
     Frame |-> <<Others({"Start", "End"}, <<>>), Put(<<"BETWEEN">>), Clause("Start", <<>>), Clause("End", <<"AND">>)>>]

\* The query of an INSERT that is a set operation is left to the library.
cliQueries ==
    [Select |-> selectHead \o
        <<ListOf("Columns", <<>>), ListOf("From", <<"FROM">>), Nodes({"Join"}, <<>>), Clause("Where", <<"WHERE">>),
          ListOf("GroupBy", <<"GROUP", "BY">>), Clause("Having", <<"HAVING">>), ListOf("OrderBy", <<"ORDER", "BY">>),
          Clause("Limit", <<"LIMIT">>), Clause("Offset", <<"OFFSET">>)>>,
     Query |-> <<Nodes({"Select"}, <<>>), By("format", Nodes({"SetOperation"}, <<>>))>>]

cliWith ==
    [With |-> sqlSets.With,
     CTE |-> <<Nodes({"x"}, <<>>), InParens("Columns", <<>>), Put(<<"AS", "(">>), Clause("Statement", <<>>),
               Put(<<")">>)>>,
     Join |-> sqlSources.Join]

cliTables ==
    [Table |-> <<Flagged("LATERAL"), Nodes({"x"}, <<>>), InParens("Derived", <<>>), Clause("Alias", <<"AS">>)>>,
     Assignment |-> sqlRows.Assignment]

\* Mutant: a deletion loses its condition.
cliChangesUnconditional ==
    [Insert |-> insertHead \o <<ListOf("Values", <<"VALUES">>), Nodes({"Query"}, <<>>)>>,
     Update |-> <<Put(<<"UPDATE">>), Nodes({"x"}, <<>>), Clause("Alias", <<>>), ListOf("Assignments", <<"SET">>),
                  Clause("Where", <<"WHERE">>)>>,
     Delete |-> <<Put(<<"DELETE", "FROM">>), Nodes({"x"}, <<>>), Clause("Alias", <<>>)>>]

cliChanges ==
    [Insert |-> insertHead \o <<ListOf("Values", <<"VALUES">>), Nodes({"Query"}, <<>>)>>,
     Update |-> <<Put(<<"UPDATE">>), Nodes({"x"}, <<>>), Clause("Alias", <<>>), ListOf("Assignments", <<"SET">>),
                  Clause("Where", <<"WHERE">>)>>,
     Delete |-> <<Put(<<"DELETE", "FROM">>), Nodes({"x"}, <<>>), Clause("Alias", <<>>), Clause("Where", <<"WHERE">>)>>]

cliDefinitions ==
    [CreateTable |-> tableHead \o <<Put(<<"(">>), Nodes({"Column"}, <<",">>), Put(<<")">>)>>,
     CreateIndex |-> indexHead \o <<Put(<<"(">>), Nodes({"IndexColumn"}, <<",">>), Put(<<")">>)>>]

cliColumns ==
    [Column |-> sqlColumns.Column, Default |-> sqlColumns.Default, Check |-> sqlColumns.Check,
     References |-> sqlColumns.References]

cliViews ==
    [Drop |-> sqlTables.Drop, CreateView |-> viewHead,
     CreateMaterializedView |-> materializedViewHead \o <<Clause("Query", <<"AS">>)>> \o withDataSQL,
     Refresh |-> sqlViews.Refresh]

cliMerge == mergeRules

\* Of a new column only name and type, of a new constraint the name.
cliAlter ==
    [Alter |-> <<Put(<<"ALTER">>), Nodes({"TABLE", "ROLE", "POLICY", "CONNECTOR", "x"}, <<>>),
                 Nodes({"AddColumn", "DropColumn", "AddConstraint", "DropConstraint", "RenameColumn", "RenameTable",
                        "AlterColumn"}, <<>>)>>,
     AddColumn |-> <<Put(<<"ADD">>), By("cliAdded", All)>>, DropColumn |-> Leaves(<<"DROP">>),
     AddConstraint |-> <<Put(<<"ADD", "CONSTRAINT">>), By("cliAdded", All)>>,
     DropConstraint |-> <<Put(<<"DROP", "CONSTRAINT">>), Nodes({"x"}, <<>>)>>,
     RenameColumn |-> <<Put(<<"RENAME", "COLUMN", "TO">>), Clause("To", <<>>)>>,
     RenameTable |-> Leaves(<<"...">>), AlterColumn |-> Leaves(<<"...">>)]

cliErrors == [label \in {"Replace", "Truncate", "CreateSequence", "AlterSequence", "DropSequence", "Show", "Describe",
                         "Explain", "Pragma", "Unsupported"} |-> Leaves(<<"error">>)]

cliPrinter ==
    cliExpressions @@ cliFunctions @@ cliWindows @@ cliQueries @@ cliWith @@ cliTables @@ cliChanges @@ cliDefinitions
    @@ cliColumns @@ cliViews @@ cliMerge @@ cliAlter @@ cliErrors @@ sqlPrinter

Printers == [sql |-> sqlPrinter, format |-> formatPrinter, cli |-> cliPrinter,
             cliAdded |-> [Column |-> <<Clause("Name", <<>>), Clause("Type", <<>>)>>,
                           Constraint |-> <<Clause("Name", <<>>)>>]]
=============================================================================
