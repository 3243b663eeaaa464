--------------------------- MODULE UtilityRules ---------------------------
(***************************************************************************)
(* The parse functions of ALTER (alter.go), of SHOW, DESCRIBE and EXPLAIN  *)
(* (mysql.go), of PRAGMA (pragma.go) and of the stubs for Snowflake, and   *)
(* parseStatement, which chooses among all statements (parser.go).         *)
(***************************************************************************)
EXTENDS DdlRules

-----------------------------------------------------------------------------
(* ALTER.  A name that is missing is read as the empty name.               *)

parseIdentAsString == IfOn(<<"x">>, Ident)

cascade == Mark(<<"CASCADE">>, "CASCADE")

parseAlterTableStatement(d) ==
    Seq2(<<Flag("TABLE"), parseIdentAsString, Choose(<<
        Case(<<"ADD", "COLUMN">>, Node("AddColumn", parseColumnDef(d))),
        Case(<<"ADD", "CONSTRAINT">>, Node("AddConstraint", parseTableConstraint)),
        Case(<<"DROP", "COLUMN">>, Node("DropColumn", Seq2(<<Ident, cascade>>))),
        Case(<<"DROP", "CONSTRAINT">>, Node("DropConstraint", Seq2(<<Ident, cascade>>))),
        Case(<<"RENAME", "TO">>, Node("RenameTable", parseIdentAsString)),
        Case(<<"RENAME", "COLUMN">>, Node("RenameColumn", Seq2(<<Node("From", Ident), Word("TO"),
                                                              Node("To", Ident)>>))),
        Case(<<"ALTER", "COLUMN">>, Node("AlterColumn", Seq2(<<Node("From", Ident), parseColumnDef(d)>>)))>>)>>)

roleSwitches == <<"SUPERUSER", "NOSUPERUSER", "CREATEDB", "NOCREATEDB", "CREATEROLE", "NOCREATEROLE",
                  "LOGIN", "NOLOGIN">>

parseRoleOption ==
    Choose([i \in DOMAIN roleSwitches |-> Case(<<roleSwitches[i]>>, Flag(roleSwitches[i]))]
           \o <<Case(<<"PASSWORD", "NULL">>, Node("Password", Nothing)),
                Case(<<"PASSWORD">>, Node("Password", Expr)),
                Case(<<"VALID">>, Seq2(<<Word("UNTIL"), Node("ValidUntil", Expr)>>))>>)

parseAlterRoleStatement ==
    Seq2(<<Flag("ROLE"), parseIdentAsString, Choose(<<
        Case(<<"RENAME">>, Seq2(<<Word("TO"), Node("RenameRole", parseIdentAsString)>>)),
        Case(<<"ADD">>, Seq2(<<Word("MEMBER"), Node("AddMember", parseIdentAsString)>>)),
        Case(<<"DROP">>, Seq2(<<Word("MEMBER"), Node("DropMember", parseIdentAsString)>>)),
        Case(<<"SET">>, Node("SetConfig", Seq2(<<parseIdentAsString,
            FirstOf(<<Case(<<"TO">>, Node("Value", Expr)), Case(<<"=">>, Node("Value", Expr))>>)>>))),
        Case(<<"RESET">>, Node("ResetConfig", Choose(<<Case(<<"ALL">>, Flag("ALL")), Else(parseIdentAsString)>>))),
        Case(<<"WITH">>, Node("WithOptions", List(parseRoleOption)))>>)>>)

\* The table of the policy is read and not kept, and so is a lone WITH.
parseAlterPolicyStatement ==
    Seq2(<<Flag("POLICY"), parseIdentAsString, Word("ON"), Drop(parseIdentAsString), Choose(<<
        Case(<<"RENAME">>, Seq2(<<Word("TO"), Node("RenamePolicy", parseIdentAsString)>>)),
        Else(Node("ModifyPolicy", Seq2(<<
            If(<<"TO">>, Node("To", List(parseIdentAsString))),
            If(<<"USING">>, Node("Using", Parens(Expr))),
            FirstOf(<<Case(<<"WITH", "CHECK">>, Node("WithCheck", Parens(Expr))),
                      Case(<<"WITH">>, Nothing)>>)>>)))>>)>>)

\* A string, "s", may be missing: it is the empty string then.
parseAlterConnectorStatement ==
    LET text == IfOn(<<"s">>, Take({"s"}))
        property == Seq2(<<Node("Key", Take({"x", "URL"})), Word("="), text>>)
    IN  Seq2(<<Flag("CONNECTOR"), parseIdentAsString, Word("SET"), Choose(<<
            Case(<<"DCPROPERTIES">>, Node("Properties", Parens(List(property)))),
            Case(<<"URL">>, Node("Url", text)),
            Case(<<"OWNER">>, Node("Owner", Seq2(<<AnyOf(<<"USER", "ROLE">>), parseIdentAsString>>)))>>)>>)

parseAlterStatement(d) ==
    Node("Alter", Choose(<<Case(<<"TABLE">>, parseAlterTableStatement(d)),
                           Case(<<"ROLE">>, parseAlterRoleStatement),
                           Case(<<"POLICY">>, parseAlterPolicyStatement),
                           Case(<<"CONNECTOR">>, parseAlterConnectorStatement)>>))

-----------------------------------------------------------------------------
(* SHOW, DESCRIBE, EXPLAIN and PRAGMA.                                     *)

\* Any word may follow SHOW.
parseShowStatement ==
    LET from(word) == Case(<<word>>, Seq2(<<Flag(word), If(<<"FROM">>, Node("ObjectName", Ident))>>))
    IN  Node("Show", Choose(<<
            Case(<<"TABLES">>, Seq2(<<Flag("TABLES"), If(<<"FROM">>, Field("From", TakeAny))>>)),
            Case(<<"DATABASES">>, Flag("DATABASES")),
            Case(<<"CREATE", "TABLE">>, Seq2(<<Flag("CreateTable"), Node("ObjectName", Ident)>>)),
            Case(<<"CREATE">>, Seq2(<<Flag("Create"), TakeAny, Node("ObjectName", Ident)>>)),
            from("COLUMNS"), from("INDEX"), from("INDEXES"), from("KEYS"),
            Case(<<"STATUS">>, Flag("STATUS")), Case(<<"VARIABLES">>, Flag("VARIABLES")),
            Else(TakeAny)>>))

describedKinds == <<"TABLE", "VIEW", "DATABASE", "SCHEMA", "STAGE", "STREAM", "TASK", "PIPE", "FUNCTION",
                    "PROCEDURE", "WAREHOUSE">>

\* The query of DESCRIBE SELECT and the kind of the object are not kept.
parseDescribeStatement ==
    Node("Describe", Choose(<<
        Case(<<"SELECT">>, Seq2(<<Drop(Query), Flag("SELECT")>>)),
        Else(Seq2(<<FirstOf([i \in DOMAIN describedKinds |-> Case(<<describedKinds[i]>>, Nothing)]),
                   Ident>>))>>))

\* ANALYZE and FORMAT are kept, the other options of the list are not.
parseExplainParenOptions ==
    LET on  == {"TRUE", "ON", "YES"}
        off == {"FALSE", "OFF", "NO"}
        switch(ws, f) == Seq2(<<Drop(Take(ws)), f>>)
        analyze == Choose(<<On(<<",">>, Set("Analyze", Nothing)), On(<<")">>, Set("Analyze", Nothing)),
                            On(<<"FALSE">>, switch(off, Erase("Analyze"))),
                            On(<<"OFF">>, switch(off, Erase("Analyze"))),
                            On(<<"NO">>, switch(off, Erase("Analyze"))),
                            Else(switch(on, Set("Analyze", Nothing)))>>)
    IN  Parens(List(Choose(<<
            Case(<<"ANALYZE">>, analyze),
            Case(<<"FORMAT">>, Set("Format", TakeOther({",", "(", ")", "=", "n"}))),
            Else(Drop(Seq2(<<TakeOther({",", "(", ")", "=", "n"}),
                            Choose(<<On(<<",">>, Nothing), On(<<")">>, Nothing),
                                     Else(TakeOther({}))>>)>>)))>>)))

\* The settings that may follow the mode are not kept.
parseClickHouseExplainMode ==
    LET settings == IfOn(<<"x", "=">>, Rule("explainSettings"))
        mode(ws, label) == Case(ws, Seq2(<<Node("Mode", Flag(label)), settings>>))
    IN  FirstOf(<<mode(<<"PLAN">>, "PLAN"), mode(<<"PIPELINE">>, "PIPELINE"), mode(<<"SYNTAX">>, "SYNTAX"),
                  mode(<<"ESTIMATE">>, "ESTIMATE"), mode(<<"AST">>, "AST"),
                  mode(<<"QUERY", "TREE">>, "QueryTree")>>)

consumeClickHouseExplainSettings ==
    Seq2(<<Drop(Seq2(<<Ident, Word("="), TakeOther({","})>>)),
          Choose(<<Case(<<",">>, Rule("explainSettings")), On(<<"x", "=">>, Rule("explainSettings")),
                   Else(Nothing)>>)>>)

explainInnerStart == <<"SELECT", "WITH", "INSERT", "UPDATE", "DELETE", "MERGE", "EXPLAIN">>

\* A bare name is only read, in MySQL and MariaDB, when no option was.
parseExplainStatement(d) ==
    LET inner == [i \in DOMAIN explainInnerStart |->
                     On(<<explainInnerStart[i]>>, Node("Statement", Rule("parseStatement")))]
        bare == Seq2(<<If(<<"ANALYZE">>, Set("Analyze", Nothing)),
                      If(<<"FORMAT">>, Seq2(<<Optional(<<"=">>), Set("Format", Ident)>>))>>)
        record(options) == Record("Explain", <<"Analyze", "Format", "Mode", "Statement">>,
                                  Seq2(<<options, Choose(inner)>>))
        options == CASE d = "clickhouse" -> Seq2(<<parseClickHouseExplainMode, bare>>)
                     [] d = "postgresql" -> Choose(<<On(<<"(">>, parseExplainParenOptions), Else(bare)>>)
                     [] OTHER            -> bare
        names == <<On(<<"x">>, parseDescribeStatement)>>
                 \o [i \in DOMAIN describedKinds |-> On(<<describedKinds[i]>>, parseDescribeStatement)]
    IN  Choose((IF d \in {"mysql", "mariadb"} THEN names ELSE <<>>) \o <<Else(record(options))>>)

parsePragmaStatement ==
    Node("Pragma", Seq2(<<Ident, FirstOf(<<
        Case(<<"(", ")">>, Nothing),
        Case(<<"(">>, Seq2(<<Node("Arg", TakeOther({")"})), Word(")")>>)),
        Case(<<"=">>, Field("Value", TakeAny))>>)>>))

-----------------------------------------------------------------------------
(* Statements of Snowflake that are kept as the text they were.            *)

parseSnowflakeUseStatement ==
    Node("Unsupported", Seq2(<<Flag("USE"),
        FirstOf([i \in 1..4 |-> LET kind == <<"WAREHOUSE", "DATABASE", "SCHEMA", "ROLE">>[i]
                                IN  Case(<<kind>>, Flag(kind))]),
        Ident>>))

parseSnowflakeStageStatement(kind) ==
    Node("Unsupported", Seq2(<<Flag(kind), KeepAll>>))

stageKinds == <<"COPY", "PUT", "GET", "LIST", "REMOVE", "LS">>

-----------------------------------------------------------------------------

\* The settings ClickHouse lets follow a query are not kept.
parseStatement(d) ==
    LET query == Seq2(<<Query, IfIn({"clickhouse"}, d, If(<<"SETTINGS">>, Skip({")"})))>>)
        mariadb == IF d # "mariadb" THEN <<>>
                   ELSE <<Case(<<"ALTER", "SEQUENCE">>, parseAlterSequenceStatement),
                          Case(<<"DROP", "SEQUENCE">>, parseDropSequenceStatement)>>
        snowflake == IF d # "snowflake" THEN <<>>
                     ELSE <<Case(<<"USE">>, parseSnowflakeUseStatement)>>
                          \o [i \in DOMAIN stageKinds |->
                                 Case(<<stageKinds[i]>>, parseSnowflakeStageStatement(stageKinds[i]))]
    IN  Choose(<<On(<<"WITH">>, Rule("parseWithStatement")),
                 Case(<<"SELECT">>, query),
                 Case(<<"INSERT">>, Rule("parseInsertStatement")),
                 Case(<<"UPDATE">>, parseUpdateStatement),
                 Case(<<"DELETE">>, parseDeleteStatement)>>
               \o mariadb \o
               <<Case(<<"ALTER">>, parseAlterStatement(d)),
                 Case(<<"MERGE">>, parseMergeStatement(d)),
                 Case(<<"CREATE">>, parseCreateStatement(d)),
                 Case(<<"DROP">>, parseDropStatement),
                 Case(<<"REFRESH">>, parseRefreshStatement),
                 Case(<<"TRUNCATE">>, parseTruncateStatement),
                 Case(<<"SHOW">>, parseShowStatement),
                 Case(<<"EXPLAIN">>, parseExplainStatement(d)),
                 Case(<<"DESCRIBE">>, parseDescribeStatement),
                 Case(<<"DESC">>, parseDescribeStatement),
                 Case(<<"REPLACE">>, parseReplaceStatement),
                 Case(<<"PRAGMA">>, parsePragmaStatement)>>
               \o snowflake)
-----------------------------------------------------------------------------

Dialects == {"postgresql", "mysql", "mariadb", "sqlserver", "oracle", "snowflake", "bigquery", "clickhouse"}

\* The parse functions that call each other, for each dialect.
Grammar ==
    [d \in Dialects |->
        [parseStatement               |-> parseStatement(d),
         parseWithStatement           |-> parseWithStatement(d),
         parseSelectWithSetOperations |-> parseSelectWithSetOperations(d),
         parseSelectStatement         |-> parseSelectStatement(d),
         parseInsertStatement         |-> parseInsertStatement(d),
         parseUpdateStatement         |-> parseUpdateStatement,
         parseDeleteStatement         |-> parseDeleteStatement,
         parseExpression              |-> parsePrimaryExpression(d),
         parseFunctionCall            |-> parseFunctionCall(d),
         functionArguments            |-> functionArguments,
         valueRows                    |-> valueRows,
         balancedBlock                |-> balancedBlock,
         explainSettings              |-> consumeClickHouseExplainSettings]]

\* What the parser makes of a text: a tree when it takes all of it.
Parse(text, d) == Run(Rule("parseStatement"), Start(text), Grammar[d])

Accepted(result) == result.ok /\ result.rest = <<>>
=============================================================================
