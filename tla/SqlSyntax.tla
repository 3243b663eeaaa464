----------------------------- MODULE SqlSyntax -----------------------------
(***************************************************************************)
(* Statements as texts: what the parser makes of one, what the printers    *)
(* make of that, and what the parser makes of the text they print.         *)
(*                                                                         *)
(* A text grows word by word, with the words the parser could use where it *)
(* ends, from the beginning a profile gives and with the words it allows.  *)
(***************************************************************************)
EXTENDS SqlEdits

CONSTANT Profiles    \* name |-> [dialect, start, words, max]

VARIABLES profile,   \* the profile of this text
          text,      \* the words so far
          parsed,    \* what the parser makes of them
          again      \* what it makes of what each printer makes of that, if it is accepted

vars == <<profile, text, parsed, again>>

PrintedBy(p, t) == Write(Printers, p, t)

Reread(p, t) == Parse(PrintedBy(p, t), Profiles[profile].dialect)

RereadAll(result) ==
    IF Accepted(result) THEN [p \in {"sql", "format", "cli"} |-> Reread(p, result.kids[1])] ELSE <<>>

Init ==
    /\ profile \in DOMAIN Profiles
    /\ text = Profiles[profile].start
    /\ parsed = Parse(text, Profiles[profile].dialect)
    /\ again = RereadAll(parsed)

Type(w) ==
    /\ Len(text) < Profiles[profile].max
    /\ text' = Append(text, w)
    /\ parsed' = Parse(text', Profiles[profile].dialect)
    /\ again' = RereadAll(parsed')
    /\ UNCHANGED profile

Next == \E w \in parsed.want \cap Profiles[profile].words : Type(w)

Spec == Init /\ [][Next]_vars

-----------------------------------------------------------------------------
tree == parsed.kids[1]

RECURSIVE Labels(_), Kept(_, _)

\* The labels of a tree, and the pairs of a label and one below it.
Labels(t) ==
    {<<t.label>>} \cup {<<t.label, t.kids[i].label>> : i \in DOMAIN t.kids} \cup UNION {Labels(t.kids[i]) : i \in DOMAIN t.kids}

\* A tree without the fields that are named.
Kept(t, lost) ==
    LET kids == SelectSeq(t.kids, LAMBDA u : <<t.label, u.label>> \notin lost)
    IN  Tree(t.label, [i \in DOMAIN kids |-> Kept(kids[i], lost)])

-----------------------------------------------------------------------------
(* What the printers leave out: a field, and the node that has it.         *)

Under(label, fields) == {<<label, f>> : f \in fields}

\* No printer has them.
LostByAll ==
    Under("Select", {"Qualify"}) \cup Under("Table", {"TableFunc", "TimeTravel", "TableHints", "MatchRecognize"})
    \cup Under("FunctionCall", {"Parameter", "IgnoreNulls", "RespectNulls"})
    \cup Under("Insert", {"Output", "OnDuplicateKey"}) \cup Under("Merge", {"Output"})
    \cup Under("CreateTable", {"Period", "Versioning", "PartitionDefinition", "WithoutRowID"})
    \cup Under("Column", {"Codec"})

SqlLost ==
    LostByAll \cup Under("Select", {"Top", "Sample"}) \cup Under("Table", {"Pivot", "Unpivot"})
    \cup Under("IndexColumn", {"NullsLast"}) \cup Under("CreateMaterializedView", {"Tablespace"})

LostByFormatters ==
    LostByAll \cup Under("Select", {"ArrayJoin", "Prewhere", "StartWith", "ConnectBy"})
    \cup Under("Table", {"FINAL", "ForSystemTime"}) \cup Under("CTE", {"Materialized", "NotMaterialized"})

FormatLost == LostByFormatters

CliLost ==
    LostByFormatters \cup SqlLost
    \cup Under("Select", {"DistinctOnColumns", "Windows", "Fetch", "For"})
    \cup Under("FunctionCall", {"WithinGroup"}) \cup Under("WindowSpec", {"WindowName"})
    \cup Under("Insert", {"With", "OnConflict", "Returning"})
    \cup Under("Update", {"With", "Returning"}) \cup Under("Delete", {"With", "Returning"})
    \cup Under("CreateTable", {"Constraint", "PartitionBy", "Option"})
    \cup Under("CreateIndex", {"Using", "Where"}) \cup Under("DropConstraint", {"CASCADE"})
    \cup Under("CreateView", {"CheckOption", "CascadedCheckOption", "LocalCheckOption"})

-----------------------------------------------------------------------------
(* What they write as something else, or as a text the parser refuses: the *)
(* labels that a tree has then, and those it has not.                      *)

Trait(has, hasNot) == [has |-> has, hasNot |-> hasNot]

Shows(trait, t) == trait.has \subseteq Labels(t) /\ trait.hasNot \cap Labels(t) = {}

Anywhere(labels) == {Trait({<<l>>}, {}) : l \in labels}
At(label, fields) == {Trait({pair}, {}) : pair \in Under(label, fields)}
Together(pairs) == {Trait(pairs, {})}
Without(label, fields) == {Trait({<<label>>}, Under(label, fields))}

\* CROSS APPLY JOIN; USING without brackets; a window named inside itself; a
\* frame bound without its number; an argument without its value; TRY_CAST as
\* CAST; the columns of MERGE ... DEFAULT VALUES; CREATE TABLE AS as "()".
UnreadByAll ==
    Anywhere({"CrossApply", "OuterApply", "ListExpression", "NamedArgument", "TryCast"})
    \cup At("Bound", {"PRECEDING", "FOLLOWING"})
    \cup Together({<<"MergeInsert", "Columns">>, <<"MergeInsert", "DefaultValues">>})
    \cup Without("CreateTable", {"Column", "Constraint"})

\* What a statement is for is not printed, or without the FROM in front of it.
UnreadBySQL ==
    UnreadByAll \cup Anywhere({"Window", "WindowName", "Alter"})
    \cup At("Describe", {"SELECT"}) \cup At("Show", {"COLUMNS"})

SqlUnread == UnreadBySQL \cup Anywhere({"CreateSequence", "AlterSequence", "DropSequence"})

\* The scalar of a CTE, a view option without its WITH, a comment in place of a
\* statement; SAMPLE takes the OFFSET behind a PREWHERE that is not printed.
FormatUnread ==
    UnreadBySQL
    \cup Anywhere({"ScalarExpr", "Unsupported", "CheckOption", "CascadedCheckOption", "LocalCheckOption"})
    \cup Together(Under("Select", {"Sample", "Prewhere", "Offset"}))
    \cup Together({<<"RESTART">>, <<"RestartWith">>})

\* Expressions in one word, a lone bound after BETWEEN, no set operations in
\* an expression, and statements it has no case for.
CliUnread ==
    UnreadByAll
    \cup Anywhere({"Cast", "Tuple", "Array", "Extract", "Interval", "Rollup", "Cube", "GroupingSets",
                   "GroupingFunction", "ScalarExpr"} \cup DOMAIN cliErrors)
    \cup UNION {At(label, {"SetOperation"}) : label \in {"Exists", "NotExists", "Subquery"}}
    \cup At("Alter", {"ROLE", "POLICY", "CONNECTOR", "AddColumn", "DropColumn", "RenameColumn", "RenameTable",
                      "AlterColumn", "AddConstraint"})
    \cup Without("Frame", {"End"}) \cup Without("CreateTable", {"Column"})

\* What a rule makes that is no statement: it has no columns or assignments, a
\* clause that is nothing without FROM, an alias or a condition in brackets that
\* are not printed or not read, a LIMIT the dialect has not.
EditUnread(t, dialect) ==
    \/ t.label = "Select" /\ ~Has(t, "Columns")
    \/ t.label = "Select" /\ ~Has(t, "From") /\ \E f \in {"Join", "Where", "OrderBy", "Limit", "Offset"} : Has(t, f)
    \/ dialect \in {"sqlserver", "oracle"} /\ Has(t, "Limit")
    \/ Has(t, "Sample") /\ Has(t, "Offset")
    \/ t.label = "Update" /\ ~Has(t, "Assignments")
    \/ t.label \in {"Update", "Delete"} /\ Has(t, "Alias")
    \/ t.label = "Insert" /\ Has(t, "Query") /\ Has(t, "Returning")
    \/ <<"BinaryExpression">> \in Labels(t)

\* The rules that are tried, some of them in turn.
Edits ==
    {<<"AddJoin", "AddWhereFromSQL", "AddOrderBy", "SetLimit">>, <<"ReplaceColumn", "AddCrossJoin", "AddTableAlias", "SetOffset">>,
     <<"RemoveColumn", "AddSelectStar", "AddJoinFromSQL">>, <<"RemoveJoin", "ReplaceWhere", "RemoveOrderBy", "AddColumn">>,
     <<"RemoveLimit", "RemoveOffset">>, <<"AddSetClause", "AddWhere", "AddReturning">>, <<"RemoveSetClause", "AddSetClause">>,
     <<"ReplaceSetClause", "RemoveReturning">>, <<"RemoveWhere">>, <<"AddReturning">>}

-----------------------------------------------------------------------------
(* What the walks overlook: the fields, or all fields, of a node.          *)

\* Not released: the two sides of a set operation, and what a function or an
\* ALTER has beyond its arguments.
Leaked ==
    [FunctionCall |-> Only({"Parameter", "Over", "Filter", "OrderBy", "WithinGroup"}),
     Merge |-> Only({"MergeTarget", "MergeSource"})]
    @@ Each({"SetOperation", "Alter", "NamedArgument", "Rollup", "Cube", "GroupingSets", "GroupingFunction"}, AllOf)

\* Still set in a node that was released.
Stale ==
    Under("FunctionCall", {"Parameter", "OrderBy", "WithinGroup", "IgnoreNulls", "RespectNulls"})
    \cup Under("CreateTable", {"Period", "Versioning", "WithoutRowID"})

\* Not looked at for the names of functions.
Unextracted ==
    [Select |-> Only({"DistinctOnColumns", "Prewhere", "Qualify", "Windows", "StartWith", "ConnectBy"}),
     Join |-> Only({"On"}), Table |-> But({"Derived"}), CTE |-> Only({"ScalarExpr"}),
     Insert |-> Only({"Output", "Returning"}), OnConflict |-> Only({"Where"}),
     FunctionCall |-> Only({"Parameter", "Over", "OrderBy", "WithinGroup"})]
    @@ Each({"Update", "Delete"}, Only({"Returning"}))
    @@ Each({"Merge", "Replace", "CreateTable", "CreateIndex", "Alter", "Tuple", "Array", "Rollup", "Cube",
             "GroupingSets", "GroupingFunction", "NamedArgument"}, AllOf)

\* Not looked at for the name of a table.
Unrenamed ==
    [Select |-> But({"From", "Join", "Columns", "Where", "OrderBy"}), Table |-> AllOf, SetOperation |-> AllOf]
    @@ Each({"Update", "Delete"}, But({"Where"}))
    @@ Each({"Aliased", "FunctionCall", "NotExists", "Minus", "CaseExpression", "Cast", "Tuple", "Array"}, AllOf)

\* Columns that get no qualifier.
Unqualified ==
    [Select |-> But({"Columns", "Where"}), FunctionCall |-> But({"Arg", "Filter"})]
    @@ Each({"SetOperation", "NamedArgument", "Rollup", "Cube", "GroupingSets", "GroupingFunction"}, AllOf)

\* Columns that are not looked up.
Unvalidated ==
    [Select |-> But({"Columns", "Where", "Join", "GroupBy", "Having"}), Join |-> Only({"Table"}),
     Insert |-> But({"Columns"}), FunctionCall |-> But({"Arg", "Filter"})]
    @@ Each({"Update", "Delete"}, But({"Assignments", "Where"}))
    @@ Each({"Subquery", "Exists", "NotExists", "Array", "Rollup", "Cube", "GroupingSets", "GroupingFunction",
             "NamedArgument"}, AllOf)

\* Literals that are no node, or in no child: a fingerprint keeps them.
LiteralsStay ==
    Under("Select", {"Top", "Limit", "Offset", "Fetch", "Sample", "SampleOffset"})
    \cup Under("Interval", {"s"}) \cup Under("Pivot", {"InValue"}) \cup Under("Alter", {"Url", "Properties"})
    \cup UNION {Under(s, {"StartWith", "RestartWith", "IncrementBy", "MINVALUE", "MAXVALUE", "CACHE"}) :
            s \in {"CreateSequence", "AlterSequence"}}

-----------------------------------------------------------------------------
(* Properties.                                                             *)

\* The WITH clause in front of a statement stays in its tree, wherever the code
\* hangs it (parseWithStatement); the one place where it has no home is in front
\* of a chain of set operations, whose left side is a set operation again.
WithIsKept ==
    Accepted(parsed) /\ Sees(text, <<"WITH">>) =>
        \/ <<"With">> \in Labels(tree)
        \/ <<"Left", "SetOperation">> \in Labels(tree)

\* But for what is lost and what is unread, the text that is printed is read
\* back, as the tree without the lost fields.
Survives(p, lost, unread) ==
    Accepted(parsed) /\ (\A trait \in unread : ~Shows(trait, tree)) =>
        Accepted(again[p]) /\ again[p].kids = <<Kept(tree, lost)>>

\* The text of SQL() is the statement again, beyond the clauses it has no code
\* for: precisely what a round trip through ast/sql.go preserves.
SqlKeepsTheRest == Survives("sql", SqlLost, SqlUnread)

\* The formatter of the library changes the layout of a statement and, beyond
\* the clauses it has no code for, nothing else.
FormatKeepsTheRest == Survives("format", FormatLost, FormatUnread)

\* The formatter of the command, which rewrites files in place, changes nothing
\* beyond the clauses it has no code for.
CliKeepsTheRest == Survives("cli", CliLost, CliUnread)

\* A statement that a rule has changed is printed as one the parser takes for just
\* that: but for the changes listed above (transform.go:217).
EditsAreRead ==
    Accepted(parsed) => \A edited \in UNION {Apply(tree, rules) : rules \in Edits} \ {tree} :
        ~EditUnread(edited, Profiles[profile].dialect) /\ (\A trait \in FormatUnread : ~Shows(trait, edited)) =>
            \A read \in {Reread("format", edited)} : Accepted(read) /\ read.kids = <<Kept(edited, FormatLost)>>

\* All three printers: a clause is printed as it was read, or is one of those
\* listed above as lost or unread; and so is what a rule has made of it.
PrintersKeepTheRest == SqlKeepsTheRest /\ FormatKeepsTheRest /\ CliKeepsTheRest /\ EditsAreRead

\* Formatting settles: what a printer writes, if the parser takes it, is what it
\* writes for it, so no second run over a formatted file changes it.
PrintingSettles ==
    \A p \in DOMAIN again : Accepted(again[p]) => PrintedBy(p, again[p].kids[1]) = PrintedBy(p, tree)

\* Every node the visitor knows goes back to its pool with the tree, but for
\* those listed above; it takes none of its fields along, but for those listed;
\* and it does not matter whether it goes with the tree or by its own function.
ReleaseReachesTheRest ==
    Accepted(parsed) =>
        /\ Visits(Children, Leaked, tree) \subseteq Released(tree)
        /\ \A pair \in Labels(tree) \ Stale : Len(pair) = 2 => ~StaysBehind(pair[1], pair[2])
        /\ \A label \in DOMAIN SinglePuts : <<label>> \in Labels(tree) => SinglePuts[label] = Puts[label]

Seen(lost) == Visits(Children, lost, tree)

\* A table with a name.
IsNamed(t) == t.label = "Table" /\ Has(t, "x")

NamesAreExtracted(extracted) ==
    /\ extracted.tables = {place \in Walked(tree) : IsNamed(NodeAt(tree, place))} \cup Targets(tree, Walked(tree))
    /\ extracted.columns = Named(tree, "x", Walked(tree))
    /\ Named(tree, "FunctionCall", Seen(Unextracted)) \subseteq extracted.functions

\* A qualified name is printed as it was written, of whatever parts it is, and
\* its full name is what is left without a schema.
parts == <<"a", "b", "c", "d">>

QualifiersAreKept ==
    /\ \A n \in DOMAIN parts : String(addTable(SubSeq(parts, 1, n))) = SubSeq(parts, 1, n)
    /\ \A n \in DOMAIN parts : IsSuffix(FullName(addTable(SubSeq(parts, 1, n))), SubSeq(parts, 1, n))
    /\ \A n \in 0..1 : FullName(addColumn(SubSeq(parts, 1, n), <<"x">>)) = SubSeq(parts, 1, n) \o <<"x">>

TablesAreRenamed(extracted) ==
    extracted.tables \cap (Seen(Unrenamed) \cup Targets(tree, {<<>>})) \subseteq ReplaceTable(tree)

ColumnsAreQualified(extracted) ==
    extracted.columns \cap Seen(Unqualified) \subseteq QualifyColumns(tree)

ColumnsAreValidated(extracted) ==
    /\ {place \in extracted.columns \cap Seen(Unvalidated) : ~IsValue(tree, place)} \subseteq Validated(Validator, tree)
    /\ Validated(Validator, tree) \subseteq Validated(CatalogValidator, tree)

\* Statements without an entry of their own in the outline, and those with one
\* that may have no name.
Unlisted == {"SetOperation", "Replace", "Refresh", "Show", "Describe", "Explain", "Pragma", "Unsupported"}
Unnamed == {"Select", "Alter"}

OutlineNamesTables(extracted) ==
    LET symbol == statementSymbolInfo(tree)
    IN  /\ symbol.kind = "Variable" <=> tree.label \in Unlisted
        /\ symbol.names = {} => tree.label \in Unlisted \cup Unnamed
        /\ tree.label \in {"Select", "Insert", "Update", "Delete"} => symbol.names \subseteq extracted.tables

\* The tools that walk a tree by hand see what the visitor sees, but for what is
\* listed above: the names that are extracted, the tables that are renamed, the
\* columns that get a qualifier and those that are looked up, also in a nested
\* statement; and the outline calls a statement by one of these tables.
ToolsSeeTheRest ==
    Accepted(parsed) => \A extracted \in {ExtractMetadata(tree)} :
        /\ NamesAreExtracted(extracted) /\ QualifiersAreKept /\ OutlineNamesTables(extracted)
        /\ tree.label \in {"Select", "Update", "Delete"} => TablesAreRenamed(extracted)
        /\ tree.label = "Select" => ColumnsAreQualified(extracted)
        /\ tree.label \in {"Select", "Insert", "Update", "Delete"} => ColumnsAreValidated(extracted)

\* Statements that differ in a literal only have one fingerprint, but for the
\* literals listed above: no other is left in the tree that is printed.
FingerprintForgetsLiterals ==
    Accepted(parsed) =>
        \A pair \in Labels(Kept(Normalize(tree), FormatLost \cup LiteralsStay)) : Last(pair) \notin {"n", "s"}

RECURSIVE Everywhere(_)

Everywhere(t) == {<<>>} \cup UNION {{<<i>> \o place : place \in Everywhere(t.kids[i])} : i \in DOMAIN t.kids}

IsUnsafe(n) ==
    \/ n.label \in {"Update", "Delete"} /\ ~Has(n, "Where")
    \/ n.label \in {"Drop", "DropSequence"} /\ ~Has(n, "IfExists")
    \/ n.label = "Truncate" /\ n.kids # <<>>

\* The linter and the analyzer get to every statement that changes all rows or
\* removes an object without a condition, wherever it is.
UnsafeStatementsAreReported ==
    \A place \in {p \in Everywhere(tree) : IsUnsafe(NodeAt(tree, p))} :
        LET n == NodeAt(tree, place)
        IN  /\ place \in Walked(tree) /\ Linter(n).Unsafe
            /\ n.label \in {"Update", "Delete"} => Analyzer(n).Unsafe

\* What the advisor says of a statement, the linter says as well; a subquery it
\* finds in WHERE makes the statement complex, but for one below a sign.
AdvisorAgrees ==
    LET advice == Optimizer(tree)
        lint   == Linter(tree)
        below  == {NodeAt(tree, p).label : p \in Places(tree, "Where")}
    IN  /\ advice.SelectStar => lint.SelectStar
        /\ advice.MissingWhere => lint.Unsafe
        /\ advice.Cartesian => lint.Cartesian
        /\ lint.Distinct => advice.Distinct
        /\ advice.CorrelatedSubquery <=> lint.CorrelatedSubquery
        /\ advice.Union <=> lint.Union
        /\ advice.CrossJoin => \E i \in DOMAIN tree.kids : Analyzer(tree.kids[i]).NoCondition
        /\ advice.SubqueryInWhere /\ below \cap {"Exists", "NotExists"} # {} => lintSubqueryCanBeJoin(tree) # {}
        /\ advice.SubqueryInWhere /\ "Minus" \notin below => advice.complexity # "simple"
        /\ advice.MissingLimit => ~lint.MissingOrderBy

\* Every node: what the linter finds, the analyzer finds, and a table without an
\* alias beside others with one is one that needs an alias.
LinterAgrees ==
    \A place \in Walked(tree) :
        LET lint     == Linter(NodeAt(tree, place))
            analysis == Analyzer(NodeAt(tree, place))
        IN  /\ \A warning \in {"SelectStar", "MissingWhere", "Cartesian", "ColumnList"} : lint[warning] => analysis[warning]
            /\ lint.Aliasing => lint.AliasRequired

\* No warning comes or goes when the file is formatted.
FormattingKeepsWarnings ==
    Accepted(again["format"]) => \A formatted \in {again["format"].kids[1]} :
        /\ Optimizer(formatted) = Optimizer(tree)
        /\ Linter(formatted) = Linter(tree)
        /\ Analyzer(formatted) = Analyzer(tree)

\* The three tools that warn of a statement do not contradict each other, no
\* statement that is unsafe escapes them for the place it stands in, and
\* formatting changes nothing of what they say.
WarningsAgree ==
    Accepted(parsed) => UnsafeStatementsAreReported /\ AdvisorAgrees /\ LinterAgrees /\ FormattingKeepsWarnings
=============================================================================
