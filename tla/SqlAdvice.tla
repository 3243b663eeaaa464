----------------------------- MODULE SqlAdvice -----------------------------
(***************************************************************************)
(* The tools that warn of a statement: the optimizer of pkg/advisor, the   *)
(* rules of pkg/linter that look at the tree, and the analyzer of the      *)
(* command.  Several of their warnings are about the same thing.           *)
(*                                                                         *)
(* A rule is a predicate of the node it is about.  Rules about the         *)
(* operators of a condition, or that compare names, are left out: an       *)
(* expression is an operand here, and every name is x.                     *)
(***************************************************************************)
EXTENDS SqlWalkers

\* What the fields of a node with this label hold.
Held(n, field) == UNION {ToSet(n.kids[i].kids) : i \in FieldsOf(n, field)}

Places(n, field) == UNION {{<<i, j>> : j \in DOMAIN n.kids[i].kids} : i \in FieldsOf(n, field)}

\* The tables of FROM and of JOIN, and those that are not a subquery.
Tables(n) == {p \in Places(n, "From") \cup Places(n, "Join") : NodeAt(n, p).label = "Table"}

WithName(n, places) == {p \in places : Has(NodeAt(n, p), "x")}

Bare(n) == IF n.label = "Aliased" THEN n.kids[1] ELSE n

isSelect(n) == n.label = "Select"

-----------------------------------------------------------------------------
(* The advisor: Optimizer.Analyze gives each rule the statements of the    *)
(* tree, and none of those inside them.                                    *)

isStarIdentifier(n) == Bare(n) = Leaf("*")

adviseSelectStar(s) == isSelect(s) /\ \E column \in Held(s, "Columns") : isStarIdentifier(column)

adviseMissingWhere(s) == s.label \in {"Update", "Delete"} /\ ~Has(s, "Where")

\* hasJoinCondition: no operand is an = of two tables.
adviseCartesianProduct(s) ==
    isSelect(s) /\ Cardinality(WithName(s, Places(s, "From"))) >= 2 /\ ~Has(s, "Join")

adviseDistinct(s) == isSelect(s) /\ Has(s, "DISTINCT")

RECURSIVE findWhereSubqueries(_), containsCast(_), statementComplexity(_), maxSubqueryDepth(_, _)

\* Below a NOT or a sign as well.
findWhereSubqueries(n) ==
    \/ n.label \in {"Exists", "NotExists", "Subquery"}
    \/ n.label = "Minus" /\ findWhereSubqueries(n.kids[1])

adviseSubqueryInWhere(s) == isSelect(s) /\ \E n \in Held(s, "Where") : findWhereSubqueries(n)

adviseCorrelatedSubquery(s) == isSelect(s) /\ \E column \in Held(s, "Columns") : Bare(column).label = "Subquery"

adviseHavingWithoutGroupBy(s) == isSelect(s) /\ Has(s, "Having") /\ ~Has(s, "GroupBy")

\* ORDER BY with nothing to limit the rows: advised against in a statement, and
\* in the statement of a CTE.
adviseMissingLimit(s) == isSelect(s) /\ Has(s, "OrderBy") /\ ~Has(s, "Limit") /\ ~Has(s, "Fetch") /\ ~Has(s, "Top")

adviseOrderByInCTE(s) ==
    isSelect(s) /\ \E cte \in Held(s, "With") : \E query \in Held(cte, "Statement") : adviseMissingLimit(query)

containsCast(n) ==
    \/ n.label \in {"Cast", "TryCast"} /\ n.kids[1] = Leaf("x")
    \/ n.label = "Minus" /\ containsCast(n.kids[1])

adviseTypeConversion(s) == isSelect(s) /\ \E n \in Held(s, "Where") : containsCast(n)

adviseUnion(s) == s.label = "SetOperation" /\ Has(s, "UNION") /\ ~Has(s, "ALL")

adviseCrossJoin(s) == isSelect(s) /\ \E i \in FieldsOf(s, "Join") : Has(s.kids[i], "CROSS") /\ ~Has(s.kids[i], "On")

\* Through the list of columns, WHERE and HAVING, aliases and arguments.
maxSubqueryDepth(n, depth) ==
    LET among(nodes) == Max({depth} \cup {maxSubqueryDepth(m, depth) : m \in nodes})
    IN  CASE isSelect(n) -> among(Held(n, "Columns") \cup Held(n, "Where") \cup Held(n, "Having"))
          [] n.label = "SetOperation" -> among(Held(n, "Left") \cup Held(n, "Right"))
          [] n.label \in {"Subquery", "Exists", "NotExists"} -> maxSubqueryDepth(n.kids[1], depth + 1)
          [] n.label = "Aliased" -> maxSubqueryDepth(n.kids[1], depth)
          [] n.label = "FunctionCall" -> among(Held(n, "Arg"))
          [] OTHER -> depth

adviseDeepNesting(s) == maxSubqueryDepth(s, 0) > 3

\* A subquery counts two in FROM, and one as the condition of WHERE.
statementComplexity(s) ==
    LET one(condition) == IF condition THEN 1 ELSE 0
    IN  IF s.label = "SetOperation"
        THEN 1 + statementComplexity(s.kids[1].kids[1]) + statementComplexity(Last(s.kids).kids[1])
        ELSE 1 + Cardinality(FieldsOf(s, "Join"))
               + 2 * Cardinality({p \in Places(s, "From") : Has(NodeAt(s, p), "Derived")})
               + one(isSelect(s) /\ Has(s, "GroupBy")) + one(Has(s, "Having")) + one(Has(s, "Windows"))
               + one(isSelect(s) /\ \E n \in Held(s, "Where") : n.label \in {"Exists", "NotExists", "Subquery"})
               + IF isSelect(s) THEN Cardinality({p \in Places(s, "With") : NodeAt(s, p).label = "CTE"}) ELSE 0

classifyComplexity(s) ==
    CASE statementComplexity(s) >= 5 -> "complex"
      [] statementComplexity(s) \in 2..4 -> "moderate"
      [] OTHER -> "simple"

-----------------------------------------------------------------------------
(* The linter: ast.Inspect brings every rule to every node.                *)

\* Mutant: a RETURNING is taken for a sign that somebody looks.
lintUpdateWithReturning(n) == n.label = "Update" /\ ~Has(n, "Where") /\ ~Has(n, "Returning")

lintUpdateWithoutWhere(n) == n.label = "Update" /\ ~Has(n, "Where")

lintDeleteWithoutWhere(n) == n.label = "Delete" /\ ~Has(n, "Where")

lintDropWithoutCondition(n) == n.label \in {"Drop", "DropSequence"} /\ ~Has(n, "IfExists")

lintTruncateTable(n) == n.label = "Truncate"

lintSelectStar(n) == isSelect(n) /\ Leaf("*") \in Held(n, "Columns")

lintMissingWhere(n) == isSelect(n) /\ Has(n, "From") /\ ~Has(n, "Where") /\ ~Has(n, "Limit") /\ ~Has(n, "Fetch")

lintImplicitCrossJoin(n) ==
    isSelect(n) /\ Cardinality(WithName(n, Places(n, "From"))) >= 2 /\ ~Has(n, "Join")

lintSubqueryInSelect(n) == isSelect(n) /\ \E column \in Held(n, "Columns") : Bare(column).label = "Subquery"

distinctColumnThreshold == 5

lintDistinctOnManyColumns(n) ==
    isSelect(n) /\ Has(n, "DISTINCT") /\ Cardinality(Places(n, "Columns")) >= distinctColumnThreshold

lintImplicitColumnList(n) == n.label = "Insert" /\ Has(n, "Values") /\ ~Has(n, "Columns")

lintMissingOrderBy(n) == isSelect(n) /\ (Has(n, "Limit") \/ Has(n, "Fetch")) /\ ~Has(n, "OrderBy")

lintUnionAllPreferred(n) == n.label = "SetOperation" /\ Has(n, "UNION") /\ ~Has(n, "ALL")

WithoutAlias(n) == {p \in WithName(n, Tables(n)) : ~Has(NodeAt(n, p), "Alias")}

lintTableAliasRequired(n) ==
    isSelect(n) /\ Cardinality(Places(n, "From")) + Cardinality(FieldsOf(n, "Join")) >= 2 /\ WithoutAlias(n) # {}

\* Some tables of the statement have an alias, and some have none.
lintAliasingConsistency(n) ==
    isSelect(n) /\ WithoutAlias(n) # {} /\ \E p \in Tables(n) : Has(NodeAt(n, p), "Alias")

\* subqueryJoinVisitor goes through the fields of a SELECT by itself, and has in
\* mind whether it came through WHERE.
subqueryJoinVisitor == [Select |-> Only({"Where", "With", "Columns", "From", "Join", "Having"})] @@ Children

InWhere(t, place) ==
    \E k \in 0..(Len(place) - 1) :
        /\ isSelect(NodeAt(t, SubSeq(place, 1, k)))
        /\ NodeAt(t, SubSeq(place, 1, k + 1)).label = "Where"
        /\ \A j \in (k + 1)..(Len(place) - 1) : ~isSelect(NodeAt(t, SubSeq(place, 1, j)))

lintSubqueryCanBeJoin(t) ==
    {place \in Visits(subqueryJoinVisitor, <<>>, t) :
        NodeAt(t, place).label \in {"Exists", "NotExists"} /\ InWhere(t, place)}

-----------------------------------------------------------------------------
(* The analyzer of the command: a visitor as well.                         *)

analyzeUpdateStatement(n) == n.label = "Update" /\ ~Has(n, "Where")

analyzeDeleteStatement(n) == n.label = "Delete" /\ ~Has(n, "Where")

analyzeSelectStar(n) == isSelect(n) /\ Leaf("*") \in Held(n, "Columns")

\* CARTESIAN_PRODUCT: also with derived tables and with joins behind the list.
analyzeCartesian(n) == isSelect(n) /\ Cardinality(Places(n, "From")) > 1

analyzeMissingWhere(n) == isSelect(n) /\ Has(n, "From") /\ ~Has(n, "Where")

analyzeInsertStatement(n) == n.label = "Insert" /\ Has(n, "Values") /\ ~Has(n, "Columns")

analyzeJoinClause(n) == n.label = "Join" /\ ~Has(n, "On")

-----------------------------------------------------------------------------
(* What each of them says of a statement.                                  *)

Optimizer(s) ==
    [SelectStar |-> adviseSelectStar(s), MissingWhere |-> adviseMissingWhere(s), Cartesian |-> adviseCartesianProduct(s),
     Distinct |-> adviseDistinct(s), SubqueryInWhere |-> adviseSubqueryInWhere(s),
     CorrelatedSubquery |-> adviseCorrelatedSubquery(s), HavingWithoutGroupBy |-> adviseHavingWithoutGroupBy(s),
     OrderByInCTE |-> adviseOrderByInCTE(s), TypeConversion |-> adviseTypeConversion(s),
     MissingLimit |-> adviseMissingLimit(s), Union |-> adviseUnion(s), DeepNesting |-> adviseDeepNesting(s),
     CrossJoin |-> adviseCrossJoin(s), complexity |-> classifyComplexity(s)]

Linter(n) ==
    [SelectStar |-> lintSelectStar(n), MissingWhere |-> lintMissingWhere(n), Cartesian |-> lintImplicitCrossJoin(n),
     Unsafe |-> \/ lintUpdateWithoutWhere(n) \/ lintDeleteWithoutWhere(n) \/ lintDropWithoutCondition(n)
               \/ lintTruncateTable(n),
     Distinct |-> lintDistinctOnManyColumns(n), CorrelatedSubquery |-> lintSubqueryInSelect(n),
     ColumnList |-> lintImplicitColumnList(n), MissingOrderBy |-> lintMissingOrderBy(n),
     Union |-> lintUnionAllPreferred(n), AliasRequired |-> lintTableAliasRequired(n),
     Aliasing |-> lintAliasingConsistency(n)]

Analyzer(n) ==
    [SelectStar |-> analyzeSelectStar(n), MissingWhere |-> analyzeMissingWhere(n), Cartesian |-> analyzeCartesian(n),
     Unsafe |-> analyzeUpdateStatement(n) \/ analyzeDeleteStatement(n), ColumnList |-> analyzeInsertStatement(n),
     NoCondition |-> analyzeJoinClause(n)]

-----------------------------------------------------------------------------
(* The outline of the language server: what kind of entry it has for a     *)
(* statement, and the places of the nodes that give it a name other than   *)
(* the number of the statement.                                            *)

\* The first table of FROM, if it has a name.
selectPrimaryTable(s) == WithName(s, {p \in Places(s, "From") : p[2] = 1})

namedStructs ==
    {"CreateTable", "CreateView", "CreateIndex", "CreateMaterializedView", "CreateSequence", "Drop", "DropSequence", "Alter",
     "AlterSequence", "Truncate"}

statementSymbolInfo(s) ==
    LET own == {<<i>> : i \in {j \in DOMAIN s.kids : s.kids[j].label \in {"x", "Name"}}}
    IN  CASE isSelect(s) -> [kind |-> "Method", names |-> selectPrimaryTable(s)]
          [] s.label \in {"Insert", "Update", "Delete"} -> [kind |-> "Method", names |-> own]
          [] s.label = "Merge" -> [kind |-> "Method", names |-> WithName(s, {<<i>> : i \in FieldsOf(s, "MergeTarget")})]
          [] s.label \in namedStructs -> [kind |-> "Struct", names |-> own]
          [] OTHER -> [kind |-> "Variable", names |-> {}]
=============================================================================
