---------------------------- MODULE MCSqlSyntax ----------------------------
(***************************************************************************)
(* The profiles TLC explores: for each part of the language a beginning,   *)
(* the words that may follow, and how many of them.                        *)
(***************************************************************************)
EXTENDS SqlSyntax

Profile(dialect, start, words, more) ==
    [dialect |-> dialect, start |-> start, words |-> words, max |-> Len(start) + more]

list == {"x", ",", "(", ")"}

fromTable == <<"SELECT", "x", "FROM", "x">>

overTable == <<"SELECT", "x", "(", ")", "OVER", "(">>

queryProfiles ==
    [columns   |-> Profile("postgresql", <<"SELECT">>, {"x", "n", "*", ",", "AS", "DISTINCT", "ON", "(", ")", "FROM"}, 5),
     distincts |-> Profile("postgresql", <<"SELECT", "DISTINCT", "x", ",", "x", ",", "x", ",", "x">>, {"x", ",", "FROM"}, 4),
     top       |-> Profile("sqlserver", <<"SELECT", "TOP">>, {"x", "n", "(", ")", "PERCENT", "WITH", "TIES", "FROM"}, 6),
     tables    |-> Profile("sqlserver", fromTable, {"x", ",", "AS", "WITH", "NOLOCK", "(", ")", "SELECT", "LATERAL", "WHERE"}, 5),
     joins     |-> Profile("sqlserver", fromTable,
                      {"x", "LEFT", "OUTER", "CROSS", "APPLY", "NATURAL", "JOIN", "ON", "USING", ",", "(", ")"}, 6),
     clickjoins |-> Profile("clickhouse", fromTable,
                      {"x", "FINAL", "LEFT", "GLOBAL", "ANY", "ALL", "ARRAY", "JOIN", "ON", "AS", ","}, 6),
     clickrows |-> Profile("clickhouse", fromTable,
                      {"n", "SAMPLE", "/", "OFFSET", "PREWHERE", "x", "LIMIT", "BY", "SETTINGS"}, 5),
     grouping  |-> Profile("postgresql", fromTable \o <<"GROUP", "BY">>,
                      list \cup {"ROLLUP", "CUBE", "GROUPING", "SETS", "WITH", "TOTALS", "HAVING"}, 5),
     qualify   |-> Profile("snowflake", fromTable, {"x", "WHERE", "GROUP", "BY", "HAVING", "QUALIFY", "ORDER"}, 6),
     hierarchy |-> Profile("oracle", fromTable,
                      {"x", "START", "WITH", "CONNECT", "BY", "NOCYCLE", "PRIOR", "=", "MINUS", "SELECT"}, 8),
     order     |-> Profile("clickhouse", fromTable \o <<"ORDER", "BY">>,
                      {"x", ",", "ASC", "DESC", "NULLS", "FIRST", "LAST", "WITH", "FILL", "FROM", "TO", "n"}, 5),
     limits    |-> Profile("mysql", fromTable,
                      {"n", ",", "LIMIT", "OFFSET", "ROWS", "FETCH", "NEXT", "PERCENT", "ONLY", "WITH", "TIES"}, 7),
     locks     |-> Profile("postgresql", fromTable \o <<"FOR">>,
                      {"x", ",", "UPDATE", "SHARE", "NO", "KEY", "OF", "NOWAIT", "SKIP", "LOCKED"}, 6),
     sets      |-> Profile("postgresql", <<"WITH", "x", "AS", "(", "SELECT", "x", ")">>,
                      {"x", "SELECT", "UNION", "ALL", "EXCEPT"}, 9),
     ctes      |-> Profile("clickhouse", <<"WITH", "x", "AS">>, {"x", "AS", "(", ")", ",", "NOT", "MATERIALIZED", "SELECT"}, 8),
     withchange |-> Profile("postgresql", <<"WITH", "RECURSIVE", "x">>, {"x", "AS", "(", ")", "SELECT", "DELETE", "FROM"}, 9),
     ordered   |-> Profile("postgresql", <<"WITH", "x", "AS", "(">> \o fromTable \o <<"ORDER", "BY", "x">>,
                      {"x", "n", "LIMIT", ")", "SELECT"}, 5),
     scalars   |-> Profile("clickhouse", <<"WITH">>, {"x", "n", "AS", ",", "SELECT"}, 6),
     pivots    |-> Profile("snowflake", fromTable \o <<"PIVOT", "(", "x", "FOR", "x", "IN", "(", "x">>,
                      {"x", "n", ",", "AS", ")", "UNPIVOT", "WHERE"}, 4),
     unpivots  |-> Profile("snowflake", fromTable \o <<"UNPIVOT", "(", "x", "FOR", "x", "IN", "(">>,
                      {"x", ",", "AS", ")"}, 6),
     matches   |-> Profile("oracle", fromTable \o <<"MATCH_RECOGNIZE", "(">>,
                      {"x", "PARTITION", "BY", "MEASURES", "AS", "AFTER", "PATTERN", "DEFINE", "(", ")"}, 6),
     history   |-> Profile("mariadb", fromTable \o <<"FOR">>,
                      {"x", "SYSTEM_TIME", "AS", "OF", "BETWEEN", "AND", "FROM", "TO", "ALL", "JOIN", "USING", "(", ")"}, 9),
     travel    |-> Profile("snowflake", fromTable,
                      {"x", "AT", "=>", "(", ")", "DEFAULT", "SAMPLE", "n"}, 6)]

expressionProfiles ==
    [calls    |-> Profile("clickhouse", <<"SELECT", "x", "(">>,
                     {"x", "*", "DISTINCT", ",", "=>", "(", ")", "ORDER", "BY", "IGNORE", "NULLS", "SEPARATOR"}, 5),
     aggregates |-> Profile("postgresql", <<"SELECT", "x", "(", "x", ")">>,
                     {"x", "WITHIN", "GROUP", "(", ")", "ORDER", "BY", "FILTER", "WHERE", "OVER"}, 8),
     frames   |-> Profile("postgresql", overTable,
                     {"x", "n", "PARTITION", "BY", "ORDER", "ROWS", "BETWEEN", "AND", "UNBOUNDED", "PRECEDING",
                      "CURRENT", "ROW", "FOLLOWING", ")"}, 8),
     windows  |-> Profile("postgresql", fromTable \o <<"WINDOW", "x", "AS">>,
                     {"x", ",", "(", ")", "PARTITION", "BY", "AS"}, 8),
     cases    |-> Profile("postgresql", <<"SELECT", "CASE">>, {"x", "n", "WHEN", "THEN", "ELSE", "END"}, 8),
     casts    |-> Profile("postgresql", <<"SELECT", "CAST", "(", "x", "AS", "x">>,
                     {"x", "n", "(", ")", ",", "TRY_CAST", "AS"}, 6),
     casted   |-> Profile("postgresql", fromTable \o <<"WHERE">>, {"x", "-", "CAST", "(", "AS", ")"}, 7),
     parts    |-> Profile("postgresql", <<"SELECT">>, {"x", "(", ")", ",", "EXTRACT", "YEAR", "FROM", "GROUPING", "-"}, 5),
     literals |-> Profile("clickhouse", <<"SELECT">>,
                     {"x", "n", "s", "INTERVAL", "ARRAY", "[", "]", "(", ")", ",", "SELECT"}, 4),
     nested   |-> Profile("postgresql", fromTable \o <<"WHERE">>,
                     {"x", "NOT", "EXISTS", "(", ")", "SELECT", "FROM", "UNION"}, 8),
     deep     |-> Profile("postgresql", <<"SELECT", "(", "SELECT", "(", "SELECT", "(", "SELECT">>,
                     {"x", "(", ")", "SELECT", "FROM"}, 9),
     subqueries |-> Profile("postgresql", <<"SELECT">>, {"x", "(", ")", "SELECT", "FROM", "JOIN", "ON"}, 9)]

changeProfiles ==
    [inserts  |-> Profile("postgresql", <<"INSERT", "INTO", "x">>,
                     list \cup {"OUTPUT", "VALUES", "SELECT", "UNION", "RETURNING", "*"}, 6),
     upserts  |-> Profile("postgresql", <<"INSERT", "INTO", "x", "VALUES", "(", "x", ")", "ON">>,
                     {"x", "CONFLICT", "DUPLICATE", "KEY", "UPDATE", "(", ")", "ON", "CONSTRAINT", "DO", "NOTHING", "SET",
                      "=", "WHERE", "RETURNING", ","}, 9),
     updates  |-> Profile("mysql", <<"UPDATE", "x", "SET">>, {"x", "n", "=", ",", "WHERE", "LIMIT", "RETURNING"}, 8),
     deletes  |-> Profile("mysql", <<"DELETE", "FROM">>, {"x", "n", "*", ",", "WHERE", "LIMIT", "RETURNING"}, 7),
     merges   |-> Profile("sqlserver", <<"MERGE", "INTO", "x", "x", "USING", "x", "ON", "x", "WHEN">>,
                     {"x", "MATCHED", "NOT", "BY", "SOURCE", "AND", "THEN", "UPDATE", "SET", "=", "INSERT", "DELETE",
                      "DEFAULT", "VALUES", "(", ")", "OUTPUT"}, 9),
     replaces |-> Profile("mysql", <<"REPLACE", "INTO", "x">>, list \cup {"n", "VALUES"}, 8)]

definitionProfiles ==
    [columnDefs |-> Profile("postgresql", <<"CREATE", "TABLE", "x", "(">>,
                     {"x", ",", ")", "PRIMARY", "KEY", "NOT", "NULL", "UNIQUE", "DEFAULT", "n", "AUTO_INCREMENT"}, 6),
     references |-> Profile("postgresql", <<"CREATE", "TABLE", "x", "(", "x", "x", "REFERENCES", "x">>,
                     {"x", "(", ")", "ON", "DELETE", "UPDATE", "CASCADE", "SET", "NULL", "NO", "ACTION"}, 7),
     constraints |-> Profile("mysql", <<"CREATE", "TABLE", "x", "(">>,
                     {"x", "(", ")", "CONSTRAINT", "PRIMARY", "FOREIGN", "KEY", "UNIQUE", "CHECK", "REFERENCES"}, 8),
     tableTails |-> Profile("postgresql", <<"CREATE", "TABLE", "x", "(", "x", "x", ")">>,
                     {"x", "(", ")", "PARTITION", "BY", "RANGE", "ENGINE", "=", "CLUSTER", "WITHOUT", "ROWID"}, 6),
     partitions |-> Profile("postgresql", <<"CREATE", "TABLE", "x", "(", "x", "x", ")", "PARTITION", "BY", "LIST",
                                            "(", "x", ")", "(", "PARTITION", "x", "VALUES">>,
                     {"x", "n", "(", ")", "IN", "LESS", "THAN", "FROM", "TO", "TABLESPACE"}, 9),
     clicktables |-> Profile("clickhouse", <<"CREATE", "TABLE", "x", "(", "x", "x">>,
                     {"x", "(", ")", "CODEC", "ENGINE", "=", "ORDER", "BY"}, 6),
     copies    |-> Profile("clickhouse", <<"CREATE", "TABLE">>,
                     {"x", "IF", "NOT", "EXISTS", "AS", "SELECT", "COPY", "GRANTS"}, 7),
     versions  |-> Profile("mariadb", <<"CREATE", "TABLE", "x", "(", "x", "x">>,
                     {"x", "GENERATED", "AS", "ROW", "START", "END", ")", "WITH", "SYSTEM", "VERSIONING"}, 8),
     periods   |-> Profile("mariadb", <<"CREATE", "TABLE", "x", "(", "x", "x", ",">>,
                     {"x", "PERIOD", "FOR", "(", ")", ","}, 9),
     indexes   |-> Profile("postgresql", <<"CREATE", "UNIQUE", "INDEX", "x", "ON", "x">>,
                     list \cup {"USING", "ASC", "DESC", "NULLS", "FIRST", "LAST", "WHERE"}, 7),
     views     |-> Profile("postgresql", <<"CREATE">>,
                     {"x", "OR", "REPLACE", "TEMPORARY", "VIEW", "AS", "SELECT", "WITH", "CASCADED", "CHECK", "OPTION"}, 9),
     matviews  |-> Profile("clickhouse", <<"CREATE", "MATERIALIZED", "VIEW", "x">>,
                     list \cup {"TABLESPACE", "TO", "ENGINE", "AS", "SELECT", "WITH", "NO", "DATA"}, 7),
     refreshes |-> Profile("postgresql", <<"REFRESH">>, {"x", "MATERIALIZED", "VIEW", "CONCURRENTLY", "WITH", "NO", "DATA"}, 7),
     sequences |-> Profile("mariadb", <<"CREATE", "SEQUENCE", "x">>,
                     {"n", "START", "WITH", "INCREMENT", "NO", "MINVALUE", "CYCLE", "CACHE", "NOCACHE", "RESTART"}, 4),
     sequencesToo |-> Profile("mariadb", <<>>, {"x", "n", "CREATE", "OR", "REPLACE", "ALTER", "DROP", "SEQUENCE", "IF", "NOT",
                                           "EXISTS", "RESTART", "WITH"}, 8),
     drops     |-> Profile("postgresql", <<"DROP">>, {"x", ",", "TABLE", "MATERIALIZED", "VIEW", "IF", "EXISTS", "CASCADE"}, 8),
     truncates |-> Profile("postgresql", <<"TRUNCATE">>, {"x", ",", "TABLE", "RESTART", "IDENTITY", "CONTINUE", "CASCADE"}, 7)]

otherProfiles ==
    [alters    |-> Profile("postgresql", <<"ALTER", "TABLE">>,
                     {"x", "ADD", "COLUMN", "DROP", "CONSTRAINT", "CASCADE", "RENAME", "TO", "ALTER", "UNIQUE", "(", ")"}, 7),
     roles     |-> Profile("postgresql", <<"ALTER", "ROLE">>,
                     {"x", "RENAME", "TO", "ADD", "MEMBER", "SET", "=", "RESET", "ALL", "WITH", "LOGIN", ",", "PASSWORD",
                      "NULL"}, 5),
     policies  |-> Profile("postgresql", <<"ALTER", "POLICY", "x", "ON">>, {"x", "RENAME", "TO", ",", "USING", "(", ")", "WITH", "CHECK"}, 7),
     connectors |-> Profile("postgresql", <<"ALTER", "CONNECTOR">>,
                     {"x", "s", "SET", "URL", "OWNER", "USER", "DCPROPERTIES", "(", ")", "="}, 8),
     shows     |-> Profile("mysql", <<>>, {"x", "SHOW", "TABLES", "FROM", "CREATE", "TABLE", "COLUMNS", "DESCRIBE", "VIEW",
                                           "SELECT"}, 4),
     explains  |-> Profile("postgresql", <<"EXPLAIN">>,
                     {"x", "ANALYZE", "FORMAT", "=", "(", ")", "FALSE", ",", "SELECT"}, 7),
     clickexplains |-> Profile("clickhouse", <<"EXPLAIN">>, {"x", "PLAN", "QUERY", "TREE", "=", ",", "ANALYZE", "SELECT"}, 6),
     pragmas   |-> Profile("postgresql", <<"PRAGMA">>, {"x", "n", "(", ")", "="}, 4),
     snowflakes |-> Profile("snowflake", <<>>, {"x", "CREATE", "OR", "REPLACE", "STAGE", "ROLE", "USE", "PUT"}, 5)]

MCProfiles == queryProfiles @@ expressionProfiles @@ changeProfiles @@ definitionProfiles @@ otherProfiles
=============================================================================
