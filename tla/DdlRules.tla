----------------------------- MODULE DdlRules -----------------------------
(***************************************************************************)
(* The parse functions of CREATE, DROP, TRUNCATE and REFRESH: ddl.go,      *)
(* ddl_columns.go, ddl_index.go, ddl_view.go and the sequences and periods *)
(* of mariadb.go.  The first word is read by the caller.                   *)
(***************************************************************************)
EXTENDS DmlRules

Query == Rule("parseSelectWithSetOperations")

ifNotExists == If(<<"IF">>, Seq2(<<Words(<<"NOT", "EXISTS">>), Flag("IfNotExists")>>))
ifExists    == If(<<"IF">>, Seq2(<<Word("EXISTS"), Flag("IfExists")>>))

cascadeOrRestrict == FirstOf(<<Case(<<"CASCADE">>, Flag("CASCADE")), Case(<<"RESTRICT">>, Flag("RESTRICT"))>>)

\* A block of brackets, token by token.
balancedBlock ==
    Seq2(<<Word("("), Repeat(<<On(<<")">>, Stop), On(<<"(">>, Seq2(<<Flag("("), Rule("balancedBlock"), Flag(")")>>)),
                              Else(TakeOther({"(", ")"}))>>), Word(")")>>)

parseTypeArgsString == Node("TypeArgs", Rule("balancedBlock"))

-----------------------------------------------------------------------------
(* Columns and constraints.                                                *)

parseColumnName == TakeOther({",", "(", ")", ";", "."})

parseConstraintColumnList(label) == Node(label, Parens(List(Ident)))

\* SET or NO without the word that belongs to it sets no action.
parseReferentialAction(field) ==
    LET set(ws, action) == Case(ws, Set(field, Flag(action)))
    IN  Choose(<<set(<<"CASCADE">>, "CASCADE"), set(<<"RESTRICT">>, "RESTRICT"),
                 set(<<"SET", "NULL">>, "SetNull"), set(<<"SET", "DEFAULT">>, "SetDefault"),
                 set(<<"NO", "ACTION">>, "NoAction"),
                 Case(<<"SET">>, Erase(field)), Case(<<"NO">>, Erase(field)), Else(Erase(field))>>)

\* ON before another word is read, and ends the list.
parseReferentialActions ==
    Seq2(<<Repeat(<<Case(<<"ON", "DELETE">>, parseReferentialAction("OnDelete")),
                    Case(<<"ON", "UPDATE">>, parseReferentialAction("OnUpdate"))>>),
          Optional(<<"ON">>)>>)

references ==
    Record("References", <<"x", "Columns", "OnDelete", "OnUpdate">>,
        Seq2(<<Ident, IfOn(<<"(">>, parseConstraintColumnList("Columns")), parseReferentialActions>>))

check == Node("Check", Parens(Expr))

columnConstraints ==
    <<Case(<<"PRIMARY">>, Seq2(<<Word("KEY"), Flag("PrimaryKey")>>)),
      Case(<<"NOT">>, Seq2(<<Word("NULL"), Flag("NotNull")>>)),
      Case(<<"NULL">>, Flag("NULL")),
      Case(<<"UNIQUE">>, Flag("UNIQUE")),
      Case(<<"DEFAULT">>, Node("Default", Expr)),
      Case(<<"CHECK">>, check),
      Case(<<"REFERENCES">>, references),
      Case(<<"AUTO_INCREMENT">>, Flag("AUTO_INCREMENT")),
      Case(<<"GENERATED">>, Seq2(<<Optional(<<"ALWAYS">>), Words(<<"AS", "ROW">>),
          Choose(<<Case(<<"START">>, Flag("RowStart")), Case(<<"END">>, Flag("RowEnd"))>>)>>))>>

parseColumnConstraint == Repeat(columnConstraints)

parseColumnDef(d) ==
    LET codec == Node("Codec", Rule("balancedBlock"))
    IN  Node("Column", Seq2(<<Node("Name", parseColumnName), Node("Type", parseColumnName),
            IfOn(<<"(">>, parseTypeArgsString),
            IfIn({"clickhouse"}, d, Repeat(<<On(<<"CODEC", "(">>, Seq2(<<Word("CODEC"), codec>>))>>)),
            parseColumnConstraint>>))

parseTableConstraint ==
    LET key(label) == Seq2(<<Word("KEY"), Flag(label), parseConstraintColumnList("Columns")>>)
    IN  Node("Constraint",
            Seq2(<<Optional(<<"CONSTRAINT">>), IfOn(<<"x">>, Node("Name", Ident)),
                  Choose(<<Case(<<"PRIMARY">>, key("PrimaryKey")),
                           Case(<<"FOREIGN">>, Seq2(<<key("ForeignKey"), Word("REFERENCES"), references>>)),
                           Case(<<"UNIQUE">>, Seq2(<<Flag("UNIQUE"), parseConstraintColumnList("Columns")>>)),
                           Case(<<"CHECK">>, check)>>)>>))

parsePeriodDefinition ==
    Node("Period", Seq2(<<Words(<<"PERIOD", "FOR">>), parseColumnName,
                         Parens(Seq2(<<Ident, Word(","), Ident>>))>>))

-----------------------------------------------------------------------------
(* CREATE TABLE.                                                           *)

parsePartitionByClause ==
    Seq2(<<AnyOf(<<"RANGE", "LIST", "HASH">>), parseConstraintColumnList("Columns")>>)

parsePartitionDefinition ==
    LET bound == FirstOf(<<Case(<<"(", "MAXVALUE">>, Seq2(<<Flag("MAXVALUE"), Word(")")>>)),
                           On(<<"(">>, Parens(Expr)),
                           Case(<<"MAXVALUE">>, Flag("MAXVALUE"))>>)
    IN  Node("PartitionDefinition", Seq2(<<Word("PARTITION"), Ident, Word("VALUES"),
            FirstOf(<<Case(<<"LESS">>, Seq2(<<Word("THAN"), Node("LessThan", bound)>>)),
                      Case(<<"IN">>, Node("In", Parens(List(Expr)))),
                      Case(<<"FROM">>, Seq2(<<Node("From", Parens(Expr)), Word("TO"),
                                             Node("To", Parens(Expr))>>))>>),
            If(<<"TABLESPACE">>, Node("Tablespace", Ident))>>))

skipClickHouseClauseExpr ==
    Drop(Choose(<<On(<<"(">>, Rule("balancedBlock")),
                  Else(Skip({"ORDER", "PRIMARY", "PARTITION", "SAMPLE", "SETTINGS", "TTL"}))>>))

clickHouseClauses ==
    LET clause(word, by) == Case(<<word>>, Seq2(<<Optional(<<by>>), skipClickHouseClauseExpr>>))
    IN  Repeat(<<clause("ORDER", "BY"), clause("PARTITION", "BY"), clause("PRIMARY", "KEY"),
                 clause("SAMPLE", "BY"), Case(<<"TTL">>, skipClickHouseClauseExpr),
                 Case(<<"SETTINGS">>, Skip({"ORDER", "PARTITION", "PRIMARY", "SAMPLE", "TTL"}))>>)

tableOptions ==
    LET option(word) == Case(<<word>>, Node("Option", Seq2(<<Flag(word), Optional(<<"=">>),
                            IfOn(<<"x">>, Ident), IfOn(<<"(">>, parseTypeArgsString)>>)))
    IN  Repeat(<<option("ENGINE"), option("CHARSET"), option("COLLATE"), option("COMMENT")>>)

tableElements(d) ==
    LET constraint(word) == On(<<word>>, parseTableConstraint)
        period == IF d = "mariadb" THEN <<On(<<"PERIOD">>, parsePeriodDefinition)>> ELSE <<>>
    IN  Parens(List(Choose(period \o
            <<constraint("PRIMARY"), constraint("FOREIGN"), constraint("UNIQUE"), constraint("CHECK"),
              constraint("CONSTRAINT"), Else(parseColumnDef(d))>>)))

\* The query of CREATE TABLE AS is read and not kept.
parseCreateTable(d) ==
    LET source == IF d = "clickhouse" THEN <<Case(<<"x">>, Skip({}))>> ELSE <<>>
        query  == Case(<<"AS">>, Choose(<<Case(<<"SELECT">>, Drop(Query)),
                                          Case(<<"WITH">>, Drop(Query))>> \o source))
        partitions == IfOn(<<"(">>, Parens(List(parsePartitionDefinition)))
        table  == Seq2(<<tableElements(d),
            IfIn({"mariadb"}, d, If(<<"WITH", "SYSTEM">>, Seq2(<<Word("VERSIONING"), Flag("Versioning")>>))),
            If(<<"PARTITION">>, Seq2(<<Word("BY"), Node("PartitionBy", parsePartitionByClause), partitions>>)),
            tableOptions,
            IfIn({"clickhouse"}, d, clickHouseClauses),
            If(<<"CLUSTER">>, Seq2(<<Optional(<<"BY">>), IfOn(<<"(">>, skipClickHouseClauseExpr)>>)),
            If(<<"WITHOUT">>, Seq2(<<Word("ROWID"), Flag("WithoutRowID")>>))>>)
    IN  Seq2(<<ifNotExists, Ident, Optional(<<"COPY", "GRANTS">>), Choose(<<query, Else(table)>>),
              Struct("CreateTable", <<"TEMPORARY", "IfNotExists", "x", "Column", "Constraint", "Period",
                                      "Versioning", "PartitionBy", "PartitionDefinition", "Option",
                                      "WithoutRowID">>)>>)

-----------------------------------------------------------------------------
(* CREATE INDEX, VIEW and MATERIALIZED VIEW.                               *)

\* NULLS FIRST is read and not kept.
parseCreateIndex(unique) ==
    LET column == Node("IndexColumn", Seq2(<<Ident,
                      FirstOf(<<Case(<<"ASC">>, Flag("ASC")), Case(<<"DESC">>, Flag("DESC"))>>),
                      FirstOf(<<Case(<<"NULLS", "LAST">>, Flag("NullsLast")),
                                Case(<<"NULLS", "FIRST">>, Nothing), Case(<<"NULLS">>, Nothing)>>)>>))
    IN  Seq2(<<ifNotExists, Node("Name", Ident), Word("ON"), Node("Table", Ident),
              If(<<"USING">>, Node("Using", Ident)),
              Parens(List(column)), If(<<"WHERE">>, Node("Where", Expr)),
              unique, Struct("CreateIndex", <<"Unique", "IfNotExists", "Name", "Table", "Using",
                                              "IndexColumn", "Where">>)>>)

\* Only a complete option is kept; WITH and what follows it of an incomplete
\* one is read all the same.
withCheckOption ==
    LET option(prefix, label) ==
            <<Case(prefix \o <<"CHECK", "OPTION">>, Flag(label)),
              Case(prefix \o <<"CHECK">>, Nothing), Case(prefix, Nothing)>>
    IN  FirstOf(option(<<"WITH", "CASCADED">>, "CascadedCheckOption")
                \o option(<<"WITH", "LOCAL">>, "LocalCheckOption")
                \o option(<<"WITH">>, "CheckOption"))

parseCreateView ==
    Seq2(<<ifNotExists, Ident, columnNames("Columns"), Words(<<"AS", "SELECT">>), Node("Query", Query),
          withCheckOption,
          Struct("CreateView", <<"OrReplace", "TEMPORARY", "IfNotExists", "x", "Columns", "Query",
                                 "CheckOption", "CascadedCheckOption", "LocalCheckOption">>)>>)

withData ==
    If(<<"WITH">>, FirstOf(<<Case(<<"NO">>, Seq2(<<Word("DATA"), Flag("WithNoData")>>)),
                             Case(<<"DATA">>, Flag("WithData"))>>))

\* ClickHouse: the target of TO is filed under Tablespace, the engine skipped.
parseCreateMaterializedView(d) ==
    LET target == If(<<"TO">>, Set("Tablespace", Ident))
        engine == FirstOf([i \in 1..5 |->
                      On(<<(<<"ENGINE", "ORDER", "PRIMARY", "PARTITION", "SETTINGS">>)[i]>>, Skip({"AS"}))])
    IN  Seq2(<<ifNotExists, Ident, columnNames("Columns"),
              If(<<"TABLESPACE">>, Node("Tablespace", Ident)),
              IfIn({"clickhouse"}, d, Seq2(<<target, engine>>)),
              Words(<<"AS", "SELECT">>), Node("Query", Query), withData,
              Struct("CreateMaterializedView", <<"IfNotExists", "x", "Columns", "Tablespace", "Query",
                                                 "WithNoData", "WithData">>)>>)

parseRefreshStatement ==
    Node("Refresh", Seq2(<<Words(<<"MATERIALIZED", "VIEW">>), Mark(<<"CONCURRENTLY">>, "CONCURRENTLY"),
                          Ident, withData>>))

-----------------------------------------------------------------------------
(* Sequences of MariaDB.                                                   *)

\* Each option fills its field, perhaps again, and NO resets it.
parseSequenceOptions ==
    LET number(ws, label) == Case(ws, Set(label, Number))
        cycle(ws, label)  == Case(ws, Seq2(<<Erase("CYCLE"), Erase("NOCYCLE"), Flag(label)>>))
        flag(ws, label)   == Case(ws, Seq2(<<Erase(label), Flag(label)>>))
    IN  Repeat(<<number(<<"START", "WITH">>, "StartWith"), number(<<"START">>, "StartWith"),
                 number(<<"INCREMENT", "BY">>, "IncrementBy"), number(<<"INCREMENT">>, "IncrementBy"),
                 number(<<"MINVALUE">>, "MINVALUE"), number(<<"MAXVALUE">>, "MAXVALUE"),
                 Case(<<"NO", "MINVALUE">>, Erase("MINVALUE")), Case(<<"NO", "MAXVALUE">>, Erase("MAXVALUE")),
                 cycle(<<"NO", "CYCLE">>, "NOCYCLE"), cycle(<<"CYCLE">>, "CYCLE"), cycle(<<"NOCYCLE">>, "NOCYCLE"),
                 Case(<<"NO", "CACHE">>, Seq2(<<Erase("CACHE"), Erase("NOCACHE"), Flag("NOCACHE")>>)),
                 number(<<"CACHE">>, "CACHE"), flag(<<"NOCACHE">>, "NOCACHE"),
                 number(<<"RESTART", "WITH">>, "RestartWith"), flag(<<"RESTART">>, "RESTART")>>)

sequenceFields == <<"OrReplace", "IfNotExists", "IfExists", "x", "StartWith", "IncrementBy", "MINVALUE",
                    "MAXVALUE", "CACHE", "NOCACHE", "CYCLE", "NOCYCLE", "RestartWith", "RESTART">>

\* CACHE and NOCACHE exclude each other.
sequence(label) == Seq2(<<Ident, parseSequenceOptions, Exclusive({"CACHE", "NOCACHE"}),
                         Struct(label, sequenceFields)>>)

parseCreateSequenceStatement == Seq2(<<ifNotExists, sequence("CreateSequence")>>)

parseAlterSequenceStatement == Alone(Seq2(<<ifExists, sequence("AlterSequence")>>))

\* IF NOT EXISTS is taken for IF EXISTS.
parseDropSequenceStatement ==
    Node("DropSequence", Seq2(<<If(<<"IF">>, Seq2(<<Optional(<<"NOT">>), Word("EXISTS"), Flag("IfExists")>>)),
                               Ident>>))

-----------------------------------------------------------------------------
(* CREATE, DROP and TRUNCATE.                                              *)

snowflakeKinds == <<"STAGE", "STREAM", "TASK", "PIPE", "WAREHOUSE", "DATABASE", "SCHEMA", "ROLE", "SEQUENCE",
                    "FUNCTION", "PROCEDURE">>

\* Objects of Snowflake are kept as the text they were, OR REPLACE apart.
snowflakeObjects ==
    [i \in DOMAIN snowflakeKinds |->
        Case(<<snowflakeKinds[i]>>,
             Seq2(<<Erase("OrReplace"), Erase("TEMPORARY"), Flag("CREATE"), Flag(snowflakeKinds[i]), KeepAll,
                    Wrap("Unsupported")>>))]

parseCreateStatement(d) ==
    Alone(Seq2(<<
        Repeat(<<Case(<<"OR">>, Seq2(<<Word("REPLACE"), Erase("OrReplace"), Flag("OrReplace")>>)),
                 Case(<<"TEMPORARY">>, Seq2(<<Erase("TEMPORARY"), Flag("TEMPORARY")>>)),
                 Case(<<"TEMP">>, Seq2(<<Erase("TEMPORARY"), Flag("TEMPORARY")>>))>>),
        Choose(<<Case(<<"MATERIALIZED">>, Seq2(<<Word("VIEW"), parseCreateMaterializedView(d)>>)),
                 Case(<<"VIEW">>, parseCreateView),
                 Case(<<"TABLE">>, parseCreateTable(d)),
                 Case(<<"INDEX">>, parseCreateIndex(Nothing)),
                 Case(<<"UNIQUE">>, Seq2(<<Word("INDEX"), parseCreateIndex(Flag("Unique"))>>))>>
               \o (IF d = "mariadb" THEN <<Case(<<"SEQUENCE">>, parseCreateSequenceStatement)>> ELSE <<>>)
               \o (IF d = "snowflake" THEN snowflakeObjects ELSE <<>>))>>))

objectKinds == Choose(<<Case(<<"MATERIALIZED">>, Seq2(<<Word("VIEW"), Flag("MaterializedView")>>)),
                        Case(<<"VIEW">>, Flag("VIEW")), Case(<<"TABLE">>, Flag("TABLE")),
                        Case(<<"INDEX">>, Flag("INDEX"))>>)

parseDropStatement == Node("Drop", Seq2(<<objectKinds, ifExists, List(Ident), cascadeOrRestrict>>))

parseTruncateStatement ==
    Node("Truncate", Seq2(<<Optional(<<"TABLE">>), List(Ident),
        FirstOf(<<Case(<<"RESTART">>, Seq2(<<Word("IDENTITY"), Flag("RestartIdentity")>>)),
                  Case(<<"CONTINUE">>, Seq2(<<Word("IDENTITY"), Flag("ContinueIdentity")>>))>>),
        cascadeOrRestrict>>))
=============================================================================
