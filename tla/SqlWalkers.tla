---------------------------- MODULE SqlWalkers ----------------------------
(***************************************************************************)
(* The walks over a tree: the visitor of pkg/sql/ast, which goes where the *)
(* Children() methods lead; the release of a tree to the pools; the        *)
(* collectors of pkg/gosqlx/extract.go; the renaming of a table in         *)
(* pkg/transform; the validator of pkg/schema; and the fingerprint.        *)
(*                                                                         *)
(* Each was written by hand over the same types.  A walk is a table: for   *)
(* the label of a node the kids it goes into.  A label without an entry is *)
(* one whose nodes it goes into all.                                       *)
(***************************************************************************)
EXTENDS SqlPrinters

Only(labels) == [labels |-> labels, chosen |-> TRUE]
But(labels)  == [labels |-> labels, chosen |-> FALSE]
NoneOf       == Only({})
AllOf        == But({})

Each(labels, fields) == [label \in labels |-> fields]

Takes(fields, label) == (label \in fields.labels) = fields.chosen

\* A kid that is a text of the node and no node itself: a leaf that is neither
\* a name nor a literal, and what stands for a name, a column or a type here.
textAt == [NamedArgument |-> 1, SetClause |-> 1, Definition |-> 1, Extract |-> 1, Cast |-> 2, TryCast |-> 2]

IsText(t, i) ==
    \/ t.label \in DOMAIN textAt /\ i = textAt[t.label]
    \/ t.kids[i].kids = <<>> /\ t.kids[i].label \notin {"x", "n", "s", "*"}

Goes(walk, t, i) == ~IsText(t, i) /\ (t.label \in DOMAIN walk => Takes(walk[t.label], t.kids[i].label))

RECURSIVE Visits(_, _, _), NodeAt(_, _)

\* The places in t that a walk gets to, but for those below a field in lost.
Visits(walk, lost, t) ==
    {<<>>} \cup UNION {{<<i>> \o place : place \in Visits(walk, lost, t.kids[i])} :
        i \in {j \in DOMAIN t.kids : /\ Goes(walk, t, j)
                                     /\ t.label \in DOMAIN lost => ~Takes(lost[t.label], t.kids[j].label)}}

NodeAt(t, place) == IF place = <<>> THEN t ELSE NodeAt(t.kids[Head(place)], Tail(place))

-----------------------------------------------------------------------------
(* The visitor: ast.Walk and ast.Inspect.                                  *)

\* Nodes that are all children, but for the texts they hold.
groupingChildren == Each({"Rollup", "Cube", "GroupingSets", "GroupingFunction"}, AllOf)

functionChildren == [FunctionCall |-> Only({"Arg", "Parameter", "Over", "Filter", "OrderBy", "WithinGroup"})]

caseChildren == Each({"CaseExpression", "When", "Exists", "NotExists", "Subquery"}, AllOf)

listChildren == Each({"ListExpression", "Tuple", "Array", "Minus"}, AllOf)

argumentChildren == [Aliased |-> But({"Alias"})] @@ Each({"NamedArgument", "Cast", "TryCast", "Extract"}, AllOf)

intervalChildren == [Interval |-> NoneOf]

assignmentChildren == [Assignment |-> AllOf]

setOperationChildren == [SetOperation |-> Only({"Left", "Right"})]

selectChildren ==
    [Select |-> Only({"With", "DistinctOnColumns", "Columns", "From", "Join", "Prewhere", "Where", "GroupBy", "Having",
                      "Qualify", "Windows", "OrderBy", "StartWith", "ConnectBy"})]

insertChildren ==
    [Insert |-> Only({"With", "Columns", "Output", "Values", "Query", "Returning", "OnConflict", "OnDuplicateKey"}),
     Values |-> AllOf]

updateChildren == [Update |-> Only({"With", "Assignments", "Where", "Returning"})]

createTableChildren == [CreateTable |-> Only({"Column", "Constraint", "PartitionBy", "PartitionDefinition"})]

deleteChildren == [Delete |-> Only({"With", "Where", "Returning"})]

createIndexChildren == [CreateIndex |-> Only({"Where"})]

\* Both tables of a MERGE are references with a name and an alias.
mergeChildren ==
    [Merge |-> AllOf, MergeInsert |-> Only({"Values"})]
    @@ Each({"MergeTarget", "MergeSource"}, NoneOf)
    @@ Each({"Matched", "NotMatched", "NotMatchedBySource", "MergeUpdate", "SetClause"}, AllOf)

viewChildren == Each({"CreateView", "CreateMaterializedView"}, Only({"Query"}))

plainChildren == Each({"Refresh", "Drop", "Truncate", "Pragma", "Show", "Describe", "Unsupported"}, NoneOf)

explainChildren == [Explain |-> Only({"Statement"}), Replace |-> Only({"Columns", "Values"})]

sequenceChildren == Each({"CreateSequence", "AlterSequence", "DropSequence"}, Only({"x"}))

withChildren == [With |-> Only({"CTE"}), CTE |-> Only({"Statement", "ScalarExpr"})]

tableChildren ==
    [Join |-> Only({"Table", "On"}),
     Table |-> Only({"Derived", "TableFunc", "TimeTravel", "Pivot", "Unpivot", "MatchRecognize"})]

windowChildren ==
    [OrderByEntry |-> AllOf, WindowSpec |-> But({"WindowName"}), Window |-> But({"Name"}),
     Frame |-> Only({"Start", "End"}), Bound |-> AllOf]

onConflictChildren == [OnConflict |-> Only({"Target", "DoUpdate", "Where"}), OnDuplicateKey |-> AllOf]

columnChildren == [Column |-> Only({"Default", "Check"}), Constraint |-> Only({"Check"}), References |-> NoneOf]

partitionChildren ==
    [PartitionBy |-> But({"Columns"}), Option |-> NoneOf, IndexColumn |-> NoneOf,
     PartitionDefinition |-> Only({"From", "To", "In", "LessThan"})]

rowChildren == [TimeTravel |-> AllOf, Pivot |-> But({"Column", "InValue"}), Unpivot |-> NoneOf]

matchChildren == [MatchRecognize |-> But({"AfterMatch", "Pattern"}), Measure |-> But({"As"}), Definition |-> AllOf]

hierarchyChildren == [ConnectBy |-> AllOf]

alterChildren == [Alter |-> Only({"AddColumn", "AddConstraint", "SetConfig", "ModifyPolicy"})]

alterRoleChildren == [SetConfig |-> Only({"Value"}), ModifyPolicy |-> Only({"Using", "WithCheck"})]

Children ==
    groupingChildren @@ functionChildren @@ caseChildren @@ listChildren @@ argumentChildren @@ intervalChildren
    @@ assignmentChildren @@ setOperationChildren @@ selectChildren @@ insertChildren @@ updateChildren
    @@ createTableChildren @@ deleteChildren @@ createIndexChildren @@ mergeChildren @@ viewChildren @@ plainChildren
    @@ explainChildren @@ sequenceChildren @@ withChildren @@ tableChildren @@ windowChildren @@ onConflictChildren
    @@ columnChildren @@ partitionChildren @@ rowChildren @@ matchChildren @@ hierarchyChildren @@ alterChildren
    @@ alterRoleChildren

Walked(t) == Visits(Children, <<>>, t)

-----------------------------------------------------------------------------
(* Release: ReleaseAST, releaseStatement and the Put functions.            *)

\* What the Put function of a node does: the fields it releases in turn, and the
\* others it resets.  A structure that has no pool is dropped by its owner.
Emptied(into, resets) == [into |-> into, resets |-> resets]
Inner(into)           == Emptied(into, AllOf)

\* releaseStatement has no case for a set operation, and PRAGMA no pool.
releaseStatement == Each({"SetOperation", "Pragma"}, Inner(NoneOf))

putWith == [With |-> Inner(Only({"CTE"})), CTE |-> Inner(Only({"Statement", "ScalarExpr"}))]

putSelect ==
    [Select |-> Emptied(
        Only({"With", "Top", "DistinctOnColumns", "Columns", "From", "Join", "ArrayJoin", "Prewhere", "Where", "Having",
              "Qualify", "StartWith", "ConnectBy", "GroupBy", "Windows", "OrderBy"}),
        Only({"Sample", "Limit", "Offset", "Fetch", "For", "DISTINCT"})),
     Join |-> Inner(Only({"Table", "On"})), Window |-> Inner(Only({"PartitionBy", "OrderBy", "Frame"})),
     Frame |-> Inner(Only({"Start", "End"}))]

releaseTableReference ==
    [Table |-> Emptied(Only({"Derived", "TableFunc", "Pivot", "Unpivot", "MatchRecognize", "TimeTravel", "ForSystemTime"}),
                       Only({"x", "Alias", "LATERAL", "FINAL", "TableHints"})),
     Pivot |-> Inner(But({"Column", "InValue"})), Unpivot |-> Inner(NoneOf),
     MatchRecognize |-> Inner(Only({"PartitionBy", "OrderBy", "Measures", "Define"})), Measure |-> Inner(But({"As"})),
     Definition |-> Inner(AllOf)]

releaseTimeTravelClause == [TimeTravel |-> Inner(AllOf), Named |-> Inner(AllOf)]

putInsert ==
    [Insert |-> Emptied(
        Only({"With", "Columns", "Output", "Values", "Query", "Returning", "OnConflict", "OnDuplicateKey"}), Only({"x"})),
     OnConflict |-> Inner(Only({"Target", "DoUpdate", "Where"})), OnDuplicateKey |-> Inner(AllOf)]

putUpdate == [Update |-> Emptied(Only({"With", "Assignments", "Where", "Returning"}), Only({"x"}))]

\* Mutant: the columns of RETURNING stay in the statement.
putDeleteWithoutReturning == [Delete |-> Emptied(Only({"With", "Where"}), Only({"x"}))]

putDelete == [Delete |-> Emptied(Only({"With", "Where", "Returning"}), Only({"x"}))]

putMerge ==
    [Merge |-> Emptied(But({"MergeTarget", "MergeSource"}), Only({"MergeTarget", "MergeSource"})),
     MergeInsert |-> Inner(Only({"Values"})), SetClause |-> Inner(AllOf)]

putReplace == [Replace |-> Emptied(Only({"Columns", "Values"}), Only({"x"}))]

putCreateTable ==
    [CreateTable |-> Emptied(Only({"Column", "Constraint", "PartitionBy", "PartitionDefinition"}),
                             Only({"Option", "IfNotExists", "TEMPORARY", "x"})),
     Column |-> Inner(Only({"Default", "Check"})), Constraint |-> Inner(Only({"Check"})),
     PartitionBy |-> Inner(But({"Columns"})), PartitionDefinition |-> Inner(Only({"LessThan", "From", "To", "In"}))]

putCreateIndex ==
    [CreateIndex |-> Emptied(Only({"Where"}), Only({"IndexColumn", "Unique", "IfNotExists", "Name", "Table", "Using"}))]

putCreateView ==
    [CreateView |-> Emptied(Only({"Query"}), Only({"OrReplace", "TEMPORARY", "IfNotExists", "x", "Columns", "CheckOption",
                                                   "CascadedCheckOption", "LocalCheckOption"})),
     CreateMaterializedView |-> Emptied(Only({"Query"}), Only({"IfNotExists", "x", "Columns", "WithData", "WithNoData",
                                                               "Tablespace"}))]

putRefresh == [Refresh |-> Emptied(NoneOf, Only({"CONCURRENTLY", "x", "WithData", "WithNoData"}))]

putDrop == [Drop |-> Emptied(NoneOf, Only({"TABLE", "VIEW", "INDEX", "MaterializedView", "IfExists", "x", "CASCADE",
                                           "RESTRICT"}))]

putTruncate == [Truncate |-> Emptied(NoneOf, Only({"x", "RestartIdentity", "ContinueIdentity", "CASCADE", "RESTRICT"}))]

\* The kind of an answer is whatever words it was read from.
putShow == [Show |-> Emptied(NoneOf, AllOf), Describe |-> Emptied(NoneOf, Only({"x", "SELECT"}))]

putExplain == [Explain |-> Emptied(Only({"Statement"}), Only({"Analyze", "Format", "Mode"}))]

putUnsupported == [Unsupported |-> Emptied(NoneOf, AllOf)]

\* The operation is dropped as a whole.
putAlter == [Alter |-> Emptied(NoneOf, AllOf)]

releaseSequence == Each({"CreateSequence", "AlterSequence", "DropSequence"}, Emptied(Only({"x"}), AllOf))

\* putExpressionImpl: a type without a case is dropped with all it holds.
putOperand ==
    [FunctionCall |-> Emptied(Only({"Arg"}), Only({"x", "Over", "DISTINCT", "Filter"})),
     CaseExpression |-> Inner(AllOf), When |-> Inner(AllOf), Interval |-> Inner(NoneOf)]
    @@ Each({"Subquery", "Exists", "NotExists", "Cast", "TryCast"}, Inner(AllOf))

putList ==
    [Aliased |-> Emptied(But({"Alias"}), Only({"Alias"}))]
    @@ Each({"ListExpression", "Tuple", "Array", "Minus", "Assignment", "Extract"}, Inner(AllOf))
    @@ Each({"NamedArgument", "Rollup", "Cube", "GroupingSets", "GroupingFunction"}, Inner(NoneOf))

\* The Put functions of single expressions, which a caller may use instead.
putFunctionCall ==
    [FunctionCall |-> Emptied(Only({"Arg"}), Only({"x", "Over", "DISTINCT", "Filter"})),
     CaseExpression |-> Inner(AllOf), When |-> Inner(AllOf)]

putTuple == Each({"Tuple", "Array", "Subquery", "Cast"}, Inner(AllOf))

putAliased == [Aliased |-> Emptied(But({"Alias"}), Only({"Alias"})), Interval |-> Inner(NoneOf)]

putUpdateExpression == [Assignment |-> Inner(AllOf)]

Puts ==
    releaseStatement @@ putWith @@ putSelect @@ releaseTableReference @@ releaseTimeTravelClause @@ putInsert @@ putUpdate
    @@ putDelete @@ putMerge @@ putReplace @@ putCreateTable @@ putCreateIndex @@ putCreateView @@ putRefresh @@ putDrop
    @@ putTruncate @@ putShow @@ putExplain @@ putUnsupported @@ putAlter @@ releaseSequence @@ putOperand @@ putList

SinglePuts == putFunctionCall @@ putTuple @@ putAliased @@ putUpdateExpression

Release == [label \in DOMAIN Puts |-> Puts[label].into]

\* A field of a node is neither released nor reset: the next owner of the node
\* finds it there.
StaysBehind(label, field) ==
    label \in DOMAIN Puts /\ ~Takes(Puts[label].into, field) /\ ~Takes(Puts[label].resets, field)

Released(t) == Visits(Release, <<>>, t)

-----------------------------------------------------------------------------
(* Extraction: the names of the tables, columns and functions of a tree.   *)

Named(t, label, places) == {place \in places : NodeAt(t, place).label = label}

\* A collector walks the children, and from the nodes it has a case for through
\* some of their fields as well: through the expressions there, in its own way.
Collected(t, label, walk, cases) ==
    UNION {{place \o q : q \in Named(NodeAt(t, place), label, Visits(walk, <<>>, NodeAt(t, place)))} :
        place \in {p \in Walked(t) : NodeAt(t, p).label \in cases}}

\* collectFromExpression, of columns and of functions: only these have a case.
collectFromExpression ==
    [FunctionCall |-> Only({"Arg", "Filter"}), Aliased |-> But({"Alias"}), Interval |-> NoneOf]
    @@ Each({"Tuple", "Array", "Rollup", "Cube", "GroupingSets", "GroupingFunction", "NamedArgument", "Exists",
             "NotExists", "Subquery"}, NoneOf)

FieldsOf(n, field) == {i \in DOMAIN n.kids : n.kids[i].label = field}

\* The names of the tables that the statements at these places change.
Targets(t, places) ==
    UNION {{Append(place, i) : i \in FieldsOf(NodeAt(t, place), "x")} :
        place \in {p \in places : NodeAt(t, p).label \in {"Insert", "Update", "Delete"}}}

\* The sources of a SELECT, of which one that is a subquery has no name, and the
\* tables of the statements that change one.
tableCollector(t) ==
    Targets(t, Walked(t)) \cup
    {place \in Collected(t, "Table", [Select |-> Only({"From", "Join"}), Join |-> Only({"Table"}), Table |-> NoneOf], {"Select"}) :
        FieldsOf(NodeAt(t, place), "x") # {}}

columnFields ==
    [Select |-> Only({"Columns", "Where", "GroupBy", "Having", "OrderBy"}), Insert |-> Only({"Columns"})]
    @@ Each({"Update", "Delete"}, Only({"Where"}))

columnCollector(t) ==
    Collected(t, "x", columnFields @@ collectFromExpression, {"x", "Select", "Insert", "Update", "Delete", "Assignment"})

functionFields ==
    [Select |-> Only({"Columns", "Where", "GroupBy", "Having", "OrderBy"}), Insert |-> Only({"Values"})]
    @@ Each({"Update", "Delete"}, Only({"Where"}))

\* A FunctionCall is collected in an expression only.
functionCollector(t) ==
    Collected(t, "FunctionCall", functionFields @@ collectFromExpression, {"Select", "Insert", "Update", "Delete", "Assignment"})

\* A name of up to three parts; a part that is missing is empty.
QualifiedName(schema, table, name) == [schema |-> schema, table |-> table, name |-> name]

String(q) == q.schema \o q.table \o q.name

FullName(q) == IF q.table # <<>> /\ q.name = <<>> THEN q.table ELSE q.table \o q.name

\* Two parts are a schema and a table, more than three are one name.
addTable(parts) ==
    CASE Len(parts) = 2 -> QualifiedName(SubSeq(parts, 1, 1), <<>>, SubSeq(parts, 2, 2))
      [] Len(parts) = 3 -> QualifiedName(SubSeq(parts, 1, 1), SubSeq(parts, 2, 2), SubSeq(parts, 3, 3))
      [] OTHER -> QualifiedName(<<>>, <<>>, parts)

addColumn(table, name) == QualifiedName(<<>>, table, name)

\* The collectors of qualified names walk as the others do.
ExtractMetadata(t) ==
    [tables |-> tableCollector(t), columns |-> columnCollector(t), functions |-> functionCollector(t)]

-----------------------------------------------------------------------------
(* Rules of pkg/transform that walk: ReplaceTable and QualifyColumns.      *)

\* walkExpr, and walkStmtExprs in the statements below it.
walkExpr ==
    [Select |-> Only({"Columns", "Where", "OrderBy", "Join"}), Join |-> Only({"On"}), SetOperation |-> NoneOf,
     FunctionCall |-> Only({"Arg", "Filter"}), Aliased |-> But({"Alias"}), Interval |-> NoneOf]
    @@ Each({"NamedArgument", "Rollup", "Cube", "GroupingSets", "GroupingFunction"}, NoneOf)

\* A subquery that is an expression by itself is renamed in; one that is below
\* an operator or a function is gone through by walkExpr for its columns only.
replaceTableInExpr ==
    [SetOperation |-> NoneOf]
    @@ Each({"Aliased", "FunctionCall", "NotExists", "Minus", "CaseExpression", "Cast", "TryCast", "Tuple", "Array",
             "ListExpression", "Extract"}, NoneOf)

\* Mutant: the sources of a SELECT are renamed and its joins are not.
replaceTableInFrom ==
    [Select |-> Only({"From", "Columns", "Where", "OrderBy"}), Table |-> NoneOf, Insert |-> NoneOf]
    @@ Each({"Update", "Delete"}, Only({"Where"}))

replaceTableInStmt ==
    [Select |-> Only({"From", "Join", "Columns", "Where", "OrderBy"}), Join |-> Only({"Table", "On"}),
     Table |-> NoneOf, Insert |-> NoneOf]
    @@ Each({"Update", "Delete"}, Only({"Where"}))

\* The places where ReplaceTable replaces the name of a table.
ReplaceTable(t) ==
    Named(t, "Table", Visits(replaceTableInStmt @@ replaceTableInExpr, <<>>, t))
    \cup IF t.label = "Insert" THEN {} ELSE Targets(t, {<<>>})

\* The places where QualifyColumns puts the name of a table before a column.
QualifyColumns(t) ==
    UNION {{<<i>> \o place : place \in Named(t.kids[i], "x", Visits(walkExpr, <<>>, t.kids[i]))} :
        i \in {j \in DOMAIN t.kids : t.kids[j].label \in {"Columns", "Where"}}}

-----------------------------------------------------------------------------
(* The schema validators: the columns that are looked up.                  *)

validateSelect ==
    [Select |-> Only({"Columns", "Where", "Join", "GroupBy", "Having"}), Join |-> Only({"On"})]

validateChanges ==
    [Insert |-> Only({"Columns"}), Update |-> Only({"Assignments", "Where"}), Delete |-> Only({"Where"})]

validateExpressionColumns ==
    [FunctionCall |-> Only({"Arg", "Filter"}), Aliased |-> But({"Alias"}), Interval |-> NoneOf]
    @@ Each({"Subquery", "Exists", "NotExists", "Extract", "Array", "Rollup", "Cube", "GroupingSets", "GroupingFunction",
             "NamedArgument"}, NoneOf)

Validator == validateSelect @@ validateChanges @@ validateExpressionColumns

\* validateSelectExtended: the ORDER BY of the statement as well.
CatalogValidator == [Select |-> Only({"Columns", "Where", "Join", "GroupBy", "Having", "OrderBy"})] @@ Validator

\* Of SET x = x, only the first is looked up.
IsValue(t, place) == place # <<>> /\ Last(place) = 2 /\ NodeAt(t, Front(place)).label = "Assignment"

Validated(validator, t) == {place \in Named(t, "x", Visits(validator, <<>>, t)) : ~IsValue(t, place)}

-----------------------------------------------------------------------------
(* The fingerprint.                                                        *)

\* Mutant: the number of a literal is replaced, a string is left.
NumbersErased(label) == IF label = "n" THEN "?" ELSE label

\* literalNormalizer: a literal the visitor gets to becomes a placeholder.
Erased(label) == IF label \in {"n", "s"} THEN "?" ELSE label

RECURSIVE Normalize(_)

Normalize(t) ==
    Tree(Erased(t.label), [i \in DOMAIN t.kids |-> IF Goes(Children, t, i) THEN Normalize(t.kids[i]) ELSE t.kids[i]])
=============================================================================
