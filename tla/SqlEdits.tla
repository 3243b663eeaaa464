----------------------------- MODULE SqlEdits -----------------------------
(***************************************************************************)
(* The rules of pkg/transform that change one clause of a statement.       *)
(*                                                                         *)
(* A rule takes a tree and gives the set of the tree it makes of it: the   *)
(* empty set is an error, that it does not support the statement.  There   *)
(* is one name, so what is looked for by name is found wherever there is   *)
(* one.                                                                    *)
(***************************************************************************)
EXTENDS SqlAdvice

getWhere == {"Select", "Update", "Delete"}
getSelect == {"Select"}
getReturning == {"Insert", "Update", "Delete"}

Supported(labels, t, edited) == IF t.label \in labels THEN {edited} ELSE {}

-----------------------------------------------------------------------------
(* Fields, in the order of the parser.                                     *)

FieldOrder(label) ==
    IF label = "Table" THEN tableFields
    ELSE <<"With", "x", "Alias", "Assignments">> \o selectFields \o <<"Returning">>

Rank(label, field) == Max({0} \cup {i \in DOMAIN FieldOrder(label) : FieldOrder(label)[i] = field})

\* The nodes of a field are replaced.
Replaced(t, field, nodes) ==
    LET before == SelectSeq(t.kids, LAMBDA u : Rank(t.label, u.label) < Rank(t.label, field))
        after  == SelectSeq(t.kids, LAMBDA u : Rank(t.label, u.label) > Rank(t.label, field))
    IN  Tree(t.label, before \o nodes \o after)

NodesOf(t, field) == SelectSeq(t.kids, LAMBDA u : u.label = field)

Content(t, field) == IF Has(t, field) THEN NodesOf(t, field)[1].kids ELSE <<>>

\* A field without content is not there.
SetField(t, field, content) == Replaced(t, field, IF content = <<>> THEN <<>> ELSE <<Tree(field, content)>>)

-----------------------------------------------------------------------------
(* Conditions.                                                             *)

\* The first statement of a text, if it is one.
parseSQL(sql) == LET result == Parse(sql, "postgresql") IN IF Accepted(result) THEN {result.kids[1]} ELSE {}

\* What stands behind the condition is dropped.
parseCondition(sql) ==
    {Content(sel, "Where")[1] : sel \in {t \in parseSQL(<<"SELECT", "*", "FROM", "x", "WHERE">> \o sql) : Has(t, "Where")}}

AddWhere(t, condition) ==
    Supported(getWhere, t,
        SetField(t, "Where",
            IF Has(t, "Where") THEN <<Tree("BinaryExpression", Append(Content(t, "Where"), condition))>> ELSE <<condition>>))

\* A condition with a clause behind it.
aCondition == parseCondition(<<"EXISTS", "(", "SELECT", "x", "FROM", "x", ")", "LIMIT", "n">>)

\* The rule with what is parsed.
AddWhereFromSQL(t, clauses) == UNION {AddWhere(t, condition) : condition \in clauses}

RemoveWhere(t) == Supported(getWhere, t, SetField(t, "Where", <<>>))

ReplaceWhere(t, condition) == Supported(getWhere, t, SetField(t, "Where", <<condition>>))

-----------------------------------------------------------------------------
(* SELECT.                                                                 *)

SetLimit(t) == Supported(getSelect, t, SetField(t, "Limit", <<Leaf("n")>>))
SetOffset(t) == Supported(getSelect, t, SetField(t, "Offset", <<Leaf("n")>>))
RemoveLimit(t) == Supported(getSelect, t, SetField(t, "Limit", <<>>))
RemoveOffset(t) == Supported(getSelect, t, SetField(t, "Offset", <<>>))

AddOrderBy(t, desc) ==
    Supported(getSelect, t,
        SetField(t, "OrderBy",
            Append(Content(t, "OrderBy"), Tree("OrderByEntry", <<Leaf("x")>> \o (IF desc THEN <<Leaf("DESC")>> ELSE <<>>)))))

RemoveOrderBy(t) == Supported(getSelect, t, SetField(t, "OrderBy", <<>>))

AddColumn(t, expr) == Supported(getSelect, t, SetField(t, "Columns", Append(Content(t, "Columns"), expr)))

AddSelectStar(t) == AddColumn(t, Leaf("*"))

\* The name of a column, or an alias.
columnMatches(expr) == expr.label \in {"x", "Aliased"}

\* All columns of the name, and an error if there is none.
RemoveColumn(t) ==
    LET columns == Content(t, "Columns")
        rest    == SelectSeq(columns, LAMBDA expr : ~columnMatches(expr))
    IN  IF rest = columns THEN {} ELSE Supported(getSelect, t, SetField(t, "Columns", rest))

ReplaceColumn(t) ==
    LET columns == Content(t, "Columns")
        name(expr) == IF columnMatches(expr) THEN Leaf("x") ELSE expr
    IN  Supported(getSelect, t, SetField(t, "Columns", [i \in DOMAIN columns |-> name(columns[i])]))

named == Tree("Table", <<Leaf("x")>>)

\* The type is a word of a join, and the condition may be missing.
AddJoin(t, type, on) ==
    Supported(getSelect, t,
        Replaced(t, "Join", Append(NodesOf(t, "Join"), Tree("Join", <<Leaf(type), named>> \o on))))

\* The first of the joins that are written, and no table before it.
parseJoinClause(sql) ==
    {NodesOf(sel, "Join")[1] : sel \in {t \in parseSQL(<<"SELECT", "*", "FROM", "x">> \o sql) : Has(t, "Join")}}

aJoin == parseJoinClause(<<"NATURAL", "JOIN", "x", "AS", "x">>)

AddJoinFromSQL(t, clauses) ==
    UNION {Supported(getSelect, t, Replaced(t, "Join", Append(NodesOf(t, "Join"), join))) : join \in clauses}

\* A table that is joined is found by its name or alias.
RemoveJoin(t) ==
    LET matches(table) == Has(table, "x") \/ Has(table, "Alias")
        other(join) == \A i \in DOMAIN join.kids : join.kids[i].label = "Table" => ~matches(join.kids[i])
    IN  Supported(getSelect, t, Replaced(t, "Join", SelectSeq(NodesOf(t, "Join"), other)))

-----------------------------------------------------------------------------
(* Changes.                                                                *)

AddReturning(t) == Supported(getReturning, t, SetField(t, "Returning", Append(Content(t, "Returning"), Leaf("x"))))

RemoveReturning(t) == Supported(getReturning, t, SetField(t, "Returning", <<>>))

assignment == Tree("Assignment", <<Leaf("x"), Leaf("n")>>)

\* The value of the first assignment to the column; or another assignment.
AddSetClause(t, same) ==
    LET old == Content(t, "Assignments")
    IN  Supported({"Update"}, t,
            SetField(t, "Assignments", IF same /\ old # <<>> THEN <<assignment>> \o Tail(old) ELSE Append(old, assignment)))

RemoveSetClause(t) == Supported({"Update"}, t, SetField(t, "Assignments", <<>>))

ReplaceSetClause(t) == Supported({"Update"}, t, SetField(t, "Assignments", <<assignment, assignment>>))

\* The tables of FROM that have the name; the table that is changed.
AddTableAlias(t) ==
    LET alias == <<Leaf("x")>>
        aliased(table) == IF Has(table, "x") THEN SetField(table, "Alias", alias) ELSE table
        from == Content(t, "From")
    IN  Supported(getSelect, t, SetField(t, "From", [i \in DOMAIN from |-> aliased(from[i])]))
        \cup Supported({"Update", "Delete"}, t, SetField(t, "Alias", alias))

-----------------------------------------------------------------------------
\* The rules, by name.
Rule1(name, t) ==
    CASE name = "AddWhere" -> AddWhere(t, Leaf("x"))
      [] name = "AddWhereFromSQL" -> AddWhereFromSQL(t, aCondition)
      [] name = "RemoveWhere" -> RemoveWhere(t)
      [] name = "ReplaceWhere" -> ReplaceWhere(t, Leaf("x"))
      [] name = "SetLimit" -> SetLimit(t)
      [] name = "SetOffset" -> SetOffset(t)
      [] name = "RemoveLimit" -> RemoveLimit(t)
      [] name = "RemoveOffset" -> RemoveOffset(t)
      [] name = "AddOrderBy" -> AddOrderBy(t, FALSE) \cup AddOrderBy(t, TRUE)
      [] name = "RemoveOrderBy" -> RemoveOrderBy(t)
      [] name = "AddColumn" -> AddColumn(t, Leaf("x"))
      [] name = "AddSelectStar" -> AddSelectStar(t)
      [] name = "RemoveColumn" -> RemoveColumn(t)
      [] name = "ReplaceColumn" -> ReplaceColumn(t)
      [] name = "AddJoin" -> AddJoin(t, "LEFT", <<Tree("On", <<Leaf("x")>>)>>)
      [] name = "AddJoinFromSQL" -> AddJoinFromSQL(t, aJoin)
      [] name = "AddCrossJoin" -> AddJoin(t, "CROSS", <<>>)
      [] name = "RemoveJoin" -> RemoveJoin(t)
      [] name = "AddReturning" -> AddReturning(t)
      [] name = "RemoveReturning" -> RemoveReturning(t)
      [] name = "AddSetClause" -> AddSetClause(t, FALSE) \cup AddSetClause(t, TRUE)
      [] name = "RemoveSetClause" -> RemoveSetClause(t)
      [] name = "ReplaceSetClause" -> ReplaceSetClause(t)
      [] name = "AddTableAlias" -> AddTableAlias(t)

RECURSIVE Apply(_, _)

\* Rules are applied in turn, up to the first error.
Apply(t, rules) ==
    IF rules = <<>> THEN {t} ELSE UNION {Apply(edited, Tail(rules)) : edited \in Rule1(Head(rules), t)}
=============================================================================
