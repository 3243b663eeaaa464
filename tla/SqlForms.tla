----------------------------- MODULE SqlForms -----------------------------
(***************************************************************************)
(* The machinery of the parser of pkg/sql/parser: a cursor over the tokens *)
(* (currentToken, advance, peekToken, isType), and the shapes its parse    *)
(* functions are written in.  A parse function is a value, a form, built   *)
(* with the constructors below; Run is what executing it does.             *)
(*                                                                         *)
(* A token is a word: a keyword, a punctuation mark, "x" for a name or a   *)
(* column, "n" for a number.  A parse function commits to an alternative   *)
(* by the words at the cursor and never goes back, and so does Run.        *)
(***************************************************************************)
EXTENDS Integers, SequencesExt, FiniteSets

-----------------------------------------------------------------------------
(* Trees: the node of an AST type or of one of its fields, and what it     *)
(* holds, in the order of the text.                                        *)

Tree(label, kids) == [label |-> label, kids |-> kids]
Leaf(label) == Tree(label, <<>>)

-----------------------------------------------------------------------------
(* Forms.                                                                  *)

Nothing          == [k |-> "seq", fs |-> <<>>]
Seq2(fs)         == [k |-> "seq", fs |-> fs]
Word(w)          == [k |-> "word", w |-> w]              \* isType else error, advance
Take(ws)         == [k |-> "take", ws |-> ws]            \* a token whose value is kept
Flag(label)      == [k |-> "flag", label |-> label]      \* a field is set, no token read
Node(label, f)   == [k |-> "node", label |-> label, f |-> f]
Collapse(label, f) == [k |-> "collapse", label |-> label, f |-> f]   \* a node of several
Drop(f)          == [k |-> "drop", f |-> f]              \* parsed, and not kept
List(f)          == [k |-> "list", f |-> f]              \* for { f; if !comma break }
Rule(name)       == [k |-> "rule", name |-> name]        \* a call of a parse function
On(ws, f)        == [on |-> ws, f |-> f]                 \* if the next words are ws
Choose(cases)    == [k |-> "choose", cases |-> cases]    \* switch; no case: error
Repeat(cases)    == [k |-> "repeat", cases |-> cases]    \* for the cases' words
Stop             == [k |-> "stop"]                       \* a case that ends the loop
Before(ws)       == [k |-> "before", ws |-> ws]          \* the next token is one of ws, or EOF
Wrap(label)      == [k |-> "wrap", label |-> label]      \* the node built so far, in another
Name(labels)     == [k |-> "name", labels |-> labels]    \* the last kids go into these fields
OnlyKid(label, f) == [k |-> "onlyKid", label |-> label, f |-> f]    \* f, refused unless it gives this
UnlessName(f)    == [k |-> "unlessName", f |-> f]        \* f, unless the last kid is a column
AttachWith       == [k |-> "attachWith"]                 \* see parseWithStatement
Alone(f)         == [k |-> "alone", f |-> f]             \* f, with a node of its own
Struct(label, fields) == [k |-> "struct", label |-> label, fields |-> fields]
                                                         \* the kids, sorted into the fields
Erase(label)     == [k |-> "erase", label |-> label]     \* the field is reset
Exclusive(labels) == [k |-> "exclusive", labels |-> labels]  \* refused when it holds them all
TakeOther(ws)    == [k |-> "other", ws |-> ws]           \* the value of any token but these
Skip(ws)         == [k |-> "skip", ws |-> ws]            \* up to one of ws or EOF
SkipBlock        == [k |-> "skipBlock"]                  \* a block of brackets, if it ends or not
TakeAny          == [k |-> "any"]                        \* the value of the token, "" at EOF
Field(label, f)  == [k |-> "field", label |-> label, f |-> f]       \* a node, unless it is empty
KeepAll          == [k |-> "all"]                        \* up to EOF, as raw text
Rename(from, to) == [k |-> "rename", from |-> from, to |-> to]      \* the field is moved

Words(ws)        == Seq2([i \in DOMAIN ws |-> Word(ws[i])])
Case(ws, f)      == On(ws, Seq2(<<Words(ws), f>>))       \* the words are read as well
Else(f)          == On(<<>>, f)
If(ws, f)        == Choose(<<Case(ws, f), Else(Nothing)>>)
IfOn(ws, f)      == Choose(<<On(ws, f), Else(Nothing)>>)
Between(l, f, r) == Seq2(<<Word(l), f, Word(r)>>)
Parens(f)        == Between("(", f, ")")
Ident            == Take({"x"})                          \* isIdentifier, advance
Number           == Take({"n"})                          \* isNumericLiteral, advance
AnyOf(ws)        == Choose([i \in DOMAIN ws |-> Case(<<ws[i]>>, Flag(ws[i]))])
Mark(ws, label)  == If(ws, Flag(label))
Optional(ws)     == If(ws, Nothing)
IfIn(ds, d, f)   == IF d \in ds THEN f ELSE Nothing      \* a branch of some dialects
FirstOf(cases)   == Choose(cases \o <<Else(Nothing)>>)   \* switch without a default
Set(label, f)    == Seq2(<<Erase(label), Node(label, f)>>)   \* assigned, perhaps again
Record(label, fields, f) == Alone(Seq2(<<f, Struct(label, fields)>>))

-----------------------------------------------------------------------------
(* Running a form.  rest is what the cursor has not passed, kids what the  *)
(* present node holds so far, and want the words that could stand where    *)
(* the text ends: the only use of it is to let a text grow.                *)

Start(text) == [ok |-> TRUE, rest |-> text, kids |-> <<>>, want |-> {}]

Fail(s, ws) == [s EXCEPT !.ok = FALSE,
                         !.want = IF s.rest = <<>> THEN @ \cup ws ELSE @]
Keep(s, t)  == [s EXCEPT !.kids = Append(@, t)]
Pass(s)     == [s EXCEPT !.rest = Tail(@)]

Sees(rest, ws) == Len(ws) <= Len(rest) /\ \A i \in DOMAIN ws : ws[i] = rest[i]

\* The words that would bring the cursor one token further into a case.
Opening(rest, cases) ==
    {cases[i].on[Len(rest) + 1] : i \in
        {j \in DOMAIN cases : Len(cases[j].on) > Len(rest) /\ Sees(cases[j].on, rest)}}

\* Mutant: the WITH clause is never attached to the left side.
AttachedToOneStatement(with, stmt) ==
    IF stmt.label # "SetOperation" THEN Tree(stmt.label, <<with>> \o stmt.kids) ELSE stmt

\* parseWithStatement: the WITH clause goes into the statement behind it; for
\* a set operation into its left side, when that is a SELECT.
Attached(with, stmt) ==
    LET left == stmt.kids[1].kids[1]
    IN  IF stmt.label # "SetOperation" THEN Tree(stmt.label, <<with>> \o stmt.kids)
        ELSE IF left.label = "Select"
        THEN Tree(stmt.label, <<Tree("Left", <<Tree("Select", <<with>> \o left.kids)>>)>>
                              \o Tail(stmt.kids))
        ELSE stmt

\* What a struct keeps: the fields it has, each in its place.
Fields(kids, fields) ==
    FlattenSeq([i \in DOMAIN fields |-> SelectSeq(kids, LAMBDA t : t.label = fields[i])])

SkipTo(rest, ws) ==
    LET stops == {i \in DOMAIN rest : rest[i] \in ws}
    IN  IF stops = {} THEN <<>> ELSE SubSeq(rest, CHOOSE i \in stops : \A j \in stops : i <= j, Len(rest))

\* Past the bracket that closes the one at the cursor, or to the end.
Depth(rest, i) == Cardinality({j \in 1..i : rest[j] = "("}) - Cardinality({j \in 1..i : rest[j] = ")"})

AfterBlock(rest) ==
    LET ends == {i \in DOMAIN rest : Depth(rest, i) = 0}
    IN  IF ends = {} THEN <<>> ELSE SubSeq(rest, 1 + CHOOSE i \in ends : \A j \in ends : i <= j, Len(rest))

RECURSIVE Run(_, _, _), RunAll(_, _, _), RunList(_, _, _)

RunAll(fs, s, g) ==
    IF fs = <<>> \/ ~s.ok THEN s ELSE RunAll(Tail(fs), Run(Head(fs), s, g), g)

RunList(f, s, g) ==
    LET t == Run(f, s, g)
    IN  CASE ~t.ok           -> t
          [] t.rest = <<>>   -> [t EXCEPT !.want = @ \cup {","}]
          [] Head(t.rest) = "," -> RunList(f, Pass(t), g)
          [] OTHER           -> t

Run(f, s, g) ==
    LET last  == Len(s.kids)
        inner == Run(f.f, [s EXCEPT !.kids = <<>>], g)
        open  == [s EXCEPT !.want = @ \cup Opening(s.rest, f.cases)]
        seen  == {i \in DOMAIN f.cases : Sees(s.rest, f.cases[i].on)}
        first == f.cases[CHOOSE i \in seen : \A j \in seen : i <= j].f
    IN
    CASE f.k = "seq"  -> RunAll(f.fs, s, g)
      [] f.k = "word" -> IF Sees(s.rest, <<f.w>>) THEN Pass(s) ELSE Fail(s, {f.w})
      [] f.k = "take" -> IF s.rest # <<>> /\ Head(s.rest) \in f.ws
                         THEN Pass(Keep(s, Leaf(Head(s.rest)))) ELSE Fail(s, f.ws)
      [] f.k = "flag" -> Keep(s, Leaf(f.label))
      [] f.k = "node" -> [inner EXCEPT !.kids = Append(s.kids, Tree(f.label, @))]
      [] f.k = "drop" -> [inner EXCEPT !.kids = s.kids]
      [] f.k = "list" -> RunList(f.f, s, g)
      [] f.k = "collapse" -> [inner EXCEPT !.kids = s.kids \o
                                 IF Len(@) = 1 THEN @ ELSE <<Tree(f.label, @)>>]
      [] f.k = "rule" -> LET t == Run(g[f.name], [s EXCEPT !.kids = <<>>], g)
                         IN  [t EXCEPT !.kids = s.kids \o @]
      [] f.k = "choose" -> IF seen = {} THEN Fail(open, {}) ELSE Run(first, open, g)
      [] f.k = "repeat" -> IF seen = {} \/ first.k = "stop" THEN open
                           ELSE RunAll(<<first, f>>, open, g)
      [] f.k = "before" -> IF s.rest = <<>> THEN [s EXCEPT !.want = @ \cup f.ws]
                           ELSE IF Head(s.rest) \in f.ws THEN s ELSE Fail(s, {})
      [] f.k = "wrap" -> [s EXCEPT !.kids = <<Tree(f.label, @)>>]
      [] f.k = "name" -> LET n == last - Len(f.labels)
                         IN  [s EXCEPT !.kids = SubSeq(@, 1, n)
                                 \o [i \in DOMAIN f.labels |-> Tree(f.labels[i], <<@[n + i]>>)]]
      [] f.k = "unlessName" -> IF s.kids[last] = Leaf("x") THEN s ELSE Run(f.f, s, g)
      [] f.k = "onlyKid" -> IF inner.ok /\ inner.kids[1].label # f.label THEN Fail(inner, {})
                            ELSE [inner EXCEPT !.kids = s.kids \o @]
      [] f.k = "alone" -> [inner EXCEPT !.kids = s.kids \o @]
      [] f.k = "struct" -> [s EXCEPT !.kids = <<Tree(f.label, Fields(@, f.fields))>>]
      [] f.k = "rename" -> [s EXCEPT !.kids = [i \in DOMAIN @ |->
                               IF @[i].label = f.from THEN Tree(f.to, @[i].kids) ELSE @[i]]]
      [] f.k = "erase" -> [s EXCEPT !.kids = SelectSeq(@, LAMBDA t : t.label # f.label)]
      [] f.k = "exclusive" -> IF f.labels \subseteq {s.kids[i].label : i \in DOMAIN s.kids}
                              THEN Fail(s, {}) ELSE s
      [] f.k = "other" -> IF s.rest # <<>> /\ Head(s.rest) \notin f.ws
                          THEN Pass(Keep(s, Leaf(Head(s.rest)))) ELSE Fail(s, {"x"})
      [] f.k = "skip" -> LET rest == SkipTo(s.rest, f.ws)
                         IN  [s EXCEPT !.rest = rest, !.want = IF rest = <<>> THEN @ \cup f.ws \cup {"x"} ELSE @]
      [] f.k = "skipBlock" -> [s EXCEPT !.rest = AfterBlock(@), !.want = @ \cup {"x", ")"}]
      [] f.k = "any" -> IF s.rest = <<>> THEN [s EXCEPT !.want = @ \cup {"x"}]
                        ELSE Pass(Keep(s, Leaf(Head(s.rest))))
      [] f.k = "field" -> [inner EXCEPT !.kids = s.kids \o
                              IF @ = <<>> THEN <<>> ELSE <<Tree(f.label, @)>>]
      [] f.k = "all" -> [s EXCEPT !.kids = @ \o [i \in DOMAIN s.rest |-> Leaf(s.rest[i])],
                                  !.rest = <<>>, !.want = @ \cup {"x"}]
      [] f.k = "attachWith" -> [s EXCEPT !.kids = <<Attached(@[1], @[2])>>]
=============================================================================
