----------------------------- MODULE DmlRules -----------------------------
(***************************************************************************)
(* The parse functions of INSERT, UPDATE, DELETE, MERGE and REPLACE:       *)
(* dml_insert.go, dml_update.go, dml_delete.go, dml_merge.go and the       *)
(* REPLACE of mysql.go.  The first word is read by the caller.             *)
(***************************************************************************)
EXTENDS ExpressionRules

\* column = value, column = value, ...
assignments(label) == Node(label, List(Node("Assignment", Seq2(<<Ident, Word("="), Expr>>))))

columnNames(label) == If(<<"(">>, Seq2(<<Node(label, List(Ident)), Word(")")>>))

-----------------------------------------------------------------------------
(* INSERT.                                                                 *)

parseOutputColumns == Node("Output", List(Expr))

parseReturningColumns == Node("Returning", List(Choose(<<Case(<<"*">>, Flag("*")), Else(Expr)>>)))

parseOnConflictClause ==
    Node("OnConflict",
        Seq2(<<Choose(<<On(<<"(">>, columnNames("Target")),
                       Case(<<"ON", "CONSTRAINT">>, Node("Constraint", Ident)),
                       Else(Nothing)>>),
              Word("DO"),
              Choose(<<Case(<<"NOTHING">>, Flag("DoNothing")),
                       Case(<<"UPDATE">>, Seq2(<<Word("SET"), assignments("DoUpdate"),
                                                If(<<"WHERE">>, Node("Where", Expr))>>))>>)>>))

parseOnDuplicateKeyUpdateClause == assignments("OnDuplicateKey")

\* Rows of values.  A comma behind the last row is let pass.
valueRows ==
    Seq2(<<Node("Row", Parens(List(Expr))),
          If(<<",">>, IfOn(<<"(">>, Rule("valueRows")))>>)

parseInsertStatement(d) ==
    LET format(rest) == IF d = "clickhouse" THEN <<Case(<<"FORMAT">>, Optional(<<"x">>))>> \o rest ELSE rest
        upsert == Choose(<<Case(<<"ON", "CONFLICT">>, parseOnConflictClause),
                           Case(<<"ON", "DUPLICATE">>, Seq2(<<Words(<<"KEY", "UPDATE">>),
                                                            parseOnDuplicateKeyUpdateClause>>)),
                           Else(Nothing)>>)
        tail == Seq2(<<upsert,
                      If(<<"RETURNING">>, parseReturningColumns),
                      Choose(format(<<Else(Nothing)>>))>>)
        query == Node("Query", Rule("parseSelectWithSetOperations"))
    IN  Node("Insert",
            Seq2(<<Word("INTO"), Ident, columnNames("Columns"),
                  If(<<"OUTPUT">>, parseOutputColumns),
                  Choose(format(<<Case(<<"SELECT">>, Seq2(<<query, tail>>)),
                                  Case(<<"VALUES">>, Seq2(<<Node("Values", Rule("valueRows")), tail>>))>>))>>))

-----------------------------------------------------------------------------
(* UPDATE and DELETE.                                                      *)

\* Where, the LIMIT of MySQL, which is read and not kept, and RETURNING.
rowSelection ==
    Seq2(<<If(<<"WHERE">>, Node("Where", Expr)),
          If(<<"LIMIT">>, IfOn(<<"n">>, Drop(Number))),
          If(<<"RETURNING">>, parseReturningColumns)>>)

parseUpdateStatement ==
    Node("Update", Seq2(<<Ident, Word("SET"), assignments("Assignments"), rowSelection>>))

parseDeleteStatement == Node("Delete", Seq2(<<Word("FROM"), Ident, rowSelection>>))

-----------------------------------------------------------------------------
(* MERGE.                                                                  *)

parseMergeAction(type) ==
    LET values == Choose(<<Case(<<"DEFAULT">>, Seq2(<<Word("VALUES"), Flag("DefaultValues")>>)),
                           Case(<<"VALUES">>, Node("Values", Parens(List(Expr))))>>)
        set    == Node("SetClause", Seq2(<<Ident, Word("="), Expr>>))
        update == Case(<<"UPDATE">>, Seq2(<<Word("SET"), Node("MergeUpdate", List(set))>>))
        insert == Case(<<"INSERT">>, Node("MergeInsert", Seq2(<<columnNames("Columns"), values>>)))
        delete == Case(<<"DELETE">>, Flag("DELETE"))
    IN  Choose(IF type = "NotMatched" THEN <<update, insert>> ELSE <<update, delete>>)

parseMergeWhenClause ==
    LET clause(type) == Node(type, Seq2(<<If(<<"AND">>, Node("And", Expr)), Word("THEN"),
                                         parseMergeAction(type)>>))
    IN  Seq2(<<Word("WHEN"),
              Choose(<<Case(<<"MATCHED">>, clause("Matched")),
                       Case(<<"NOT", "MATCHED", "BY">>, Seq2(<<Word("SOURCE"), clause("NotMatchedBySource")>>)),
                       Case(<<"NOT", "MATCHED">>, clause("NotMatched"))>>)>>)

mergeTable(label) ==
    Node(label, Seq2(<<Ident, Choose(<<Case(<<"AS">>, Node("Alias", Ident)),
                                      On(<<"x">>, Node("Alias", Ident)),
                                      Else(Nothing)>>)>>))

parseMergeStatement(d) ==
    Node("Merge",
        Seq2(<<Optional(<<"INTO">>), mergeTable("MergeTarget"), Word("USING"), mergeTable("MergeSource"),
              Word("ON"), Node("On", Expr),
              parseMergeWhenClause, Repeat(<<On(<<"WHEN">>, parseMergeWhenClause)>>),
              IF d = "sqlserver" THEN If(<<"OUTPUT">>, parseOutputColumns) ELSE Nothing>>))
-----------------------------------------------------------------------------
(* REPLACE.                                                                *)

parseReplaceStatement ==
    Node("Replace", Seq2(<<Word("INTO"), Ident, columnNames("Columns"), Word("VALUES"),
                          Node("Values", Rule("valueRows"))>>))
=============================================================================
