----------------------------- MODULE TextTools -----------------------------
(***************************************************************************)
(* The parts of the program that work on the text itself, each with a      *)
(* scanner of its own: the statement splitter of pkg/gosqlx, the rules of  *)
(* pkg/linter that look at lines and fix them, and the documents and       *)
(* answers of the language server of pkg/lsp.                              *)
(***************************************************************************)
EXTENDS SqlScanner

-----------------------------------------------------------------------------
(* The splitter: an element at a time, to the end of the text if it is not *)
(* closed.  The tag of a dollar quote is of letters of one byte.           *)

profileForDialect(d) ==
    [dollar |-> d = "postgresql", estrings |-> d = "postgresql", nested |-> d = "postgresql",
     backticks |-> d \in {"mysql", "clickhouse"}, brackets |-> d = "sqlserver"]

\* isDollarTagCont, isWordChar, isAlphanumeric.
wordChars == letters \cup Digits

OrEnd(t, to) == IF to = 0 THEN Len(t) + 1 ELSE to

\* Behind the comment that is open there; if they nest, depth of them are open.
AfterComment(t, from, nested) ==
    LET after[j \in Nat, depth \in Nat] ==
            CASE depth = 0 \/ j > Len(t) -> j
              [] depth > 0 /\ LooksAt(t, j, <<"*", "/">>) -> after[j + 2, depth - 1]
              [] depth > 0 /\ nested /\ LooksAt(t, j, blockComment) -> after[j + 2, depth + 1]
              [] OTHER -> after[j + 1, depth]
    IN  after[from, 1]

\* Behind what a $ opens, or behind the $ when it opens nothing.
readDollarTag(t, i) ==
    LET name  == IF At(t, i + 1) \in letters THEN FirstOther(t, i + 1, wordChars) ELSE i + 1
        tag   == Slice(t, i, name + 1)
        close == FirstAt(t, name + 1, tag)
    IN  IF At(t, name) # "$" THEN i + 1 ELSE Min({close + Len(tag), Len(t) + 1})

\* Mutant: a doubled quote is taken for the end and a new beginning of a
\* string, in an E-string as well.
AfterElementUnescaped(t, i, p) ==
    CASE LooksAt(t, i, lineComment) -> AfterLine(t, i)
      [] LooksAt(t, i, blockComment) -> AfterComment(t, i + 2, p.nested)
      [] t[i] = "'" -> OrEnd(t, Close(t, i + 1, Quoted("'", FALSE, {}, FALSE)))
      [] t[i] = "\"" -> OrEnd(t, Close(t, i + 1, Quoted("\"", FALSE, {}, FALSE)))
      [] t[i] = "bt" /\ p.backticks -> OrEnd(t, Close(t, i + 1, Quoted("bt", FALSE, {}, FALSE)))
      [] t[i] = "[" /\ p.brackets -> OrEnd(t, Close(t, i + 1, Quoted("]", FALSE, {}, FALSE)))
      [] t[i] = "$" /\ p.dollar -> readDollarTag(t, i)
      [] OTHER -> i + 1

AfterElement(t, i, p) ==
    CASE LooksAt(t, i, lineComment) -> AfterLine(t, i)
      [] LooksAt(t, i, blockComment) -> AfterComment(t, i + 2, p.nested)
      [] p.estrings /\ LooksAt(t, i, <<"e", "'">>) -> OrEnd(t, Close(t, i + 2, Quoted("'", TRUE, Characters, FALSE)))
      [] t[i] = "'" -> OrEnd(t, Close(t, i + 1, Quoted("'", TRUE, {}, FALSE)))
      [] t[i] = "\"" -> OrEnd(t, Close(t, i + 1, Quoted("\"", FALSE, {}, FALSE)))
      [] t[i] = "bt" /\ p.backticks -> OrEnd(t, Close(t, i + 1, Quoted("bt", FALSE, {}, FALSE)))
      [] t[i] = "[" /\ p.brackets -> OrEnd(t, Close(t, i + 1, Quoted("]", FALSE, {}, FALSE)))
      [] t[i] = "$" /\ p.dollar -> readDollarTag(t, i)
      [] OTHER -> i + 1

\* The places of the semicolons between the elements, from there on.
topLevelFrom(t, from, p) ==
    LET places[i \in Nat] ==
            IF i > Len(t) THEN <<>>
            ELSE (IF t[i] = ";" THEN <<i>> ELSE <<>>) \o places[AfterElement(t, i, p)]
    IN  places[from]

\* The pieces between these places, without an empty one at the end.
Pieces(t, places) ==
    LET begin(k) == IF k = 1 THEN 1 ELSE places[k - 1] + 1
        ended    == [k \in DOMAIN places |-> Slice(t, begin(k), places[k])]
        last     == Slice(t, begin(Len(places) + 1), Len(t) + 1)
    IN  IF last = <<>> THEN ended ELSE Append(ended, last)

SplitStatements(t, d) == Pieces(t, topLevelFrom(t, 1, profileForDialect(d)))

\* What ParseReaderMultiple reads of the text: each piece that is not blank.
valuesOfPieces(t, d) ==
    LET pieces == SplitStatements(t, d)
    IN  [k \in DOMAIN pieces |-> preprocessTokens(pieces[k], Tokenize(pieces[k], d))]

-----------------------------------------------------------------------------
(* Lines.                                                                  *)

\* A text gets a character more.
Extended(lines, c) ==
    IF c = "\n" THEN Append(lines, <<>>) ELSE [lines EXCEPT ![Len(lines)] = Append(@, c)]

Lines(t) ==
    LET lines[i \in 0..Len(t)] == IF i = 0 THEN <<<<>>>> ELSE Extended(lines[i - 1], t[i])
    IN  lines[Len(t)]

Join(lines) == FlattenSeq([k \in DOMAIN lines |-> IF k = 1 THEN lines[k] ELSE <<"\n">> \o lines[k]])

Space == {" ", "\t"}

Margin(line) == FirstOther(line, 1, Space) - 1

getLeadingWhitespace(line) == Slice(line, 1, Margin(line) + 1)

TrimLeft(line) == Slice(line, Margin(line) + 1, Len(line) + 1)

TrimRight(line) == Reverse(TrimLeft(Reverse(line)))

TrimSpace(line) == TrimLeft(TrimRight(line))

IsBlank(line) == TrimSpace(line) = <<>>

\* Mutant: only ' is taken for a quote.
SingleUnquoted(line) ==
    LET state[i \in 0..Len(line)] ==
            IF i = 0 THEN "" ELSE IF line[i] # "'" THEN state[i - 1] ELSE IF state[i - 1] = "" THEN "'" ELSE ""
    IN  {i \in DOMAIN line : state[i - 1] = "" /\ line[i] # "'"}

\* The places of a line outside of what ' and " enclose; both rules that ask for
\* it know neither comments nor lines before this one.
Unquoted(line) ==
    LET state[i \in 0..Len(line)] ==
            IF i = 0 THEN ""
            ELSE LET before == state[i - 1]
                 IN  CASE before = "" /\ line[i] \in {"'", "\""} -> line[i]
                       [] before # "" /\ line[i] = before -> ""
                       [] OTHER -> before
    IN  {i \in DOMAIN line : state[i - 1] = "" /\ line[i] \notin {"'", "\""}}

-----------------------------------------------------------------------------
(* The rules of the lint command that fix what they find: the lines a rule *)
(* complains of, and the line, or the lines, it makes.                     *)

checkTrailing(lines) == {k \in DOMAIN lines : lines[k] # <<>> /\ Last(lines[k]) \in Space}

fixTrailing(lines) == [k \in DOMAIN lines |-> TrimRight(lines[k])]

\* Tabs and blanks in one margin, or a margin unlike the first that is pure.
checkMixed(lines) ==
    LET margin(k) == ToSet(getLeadingWhitespace(lines[k]))
        pure == {k \in DOMAIN lines : Cardinality(margin(k)) = 1}
    IN  {k \in DOMAIN lines : margin(k) = Space}
        \cup {k \in pure : margin(k) # margin(Min(pure))}

fixMixed(lines) ==
    LET blanks(c) == IF c = "\t" THEN <<" ", " ", " ", " ">> ELSE <<c>>
        margin(line) == FlattenSeq([i \in 1..Margin(line) |-> blanks(line[i])])
    IN  [k \in DOMAIN lines |-> margin(lines[k]) \o TrimLeft(lines[k])]

\* A blank line behind a blank line; the code complains of the first of them.
Again(lines) == {k \in DOMAIN lines \ {1} : IsBlank(lines[k]) /\ IsBlank(lines[k - 1])}

checkBlankLines(lines) == Again(lines)

fixBlankLines(lines) ==
    LET kept == [k \in DOMAIN lines |-> IF k \in Again(lines) THEN <<>> ELSE <<lines[k]>>]
    IN  FlattenSeq(kept)

Blanks(line) == {i \in Unquoted(line) : line[i] = " "}

\* The blanks behind a blank.
Redundant(line) == {i \in Blanks(line) : i - 1 \in Blanks(line)}

\* Two blanks or more that do not begin the line.
checkRedundant(lines) ==
    {k \in DOMAIN lines : \E i \in Redundant(lines[k]) : i > 2 /\ i - 2 \notin Blanks(lines[k])}

\* A line that is all blank has no margin.
fixRedundant(lines) ==
    LET gone(line) == IF IsBlank(line) THEN Redundant(line) ELSE {i \in Redundant(line) : i > Margin(line)}
        fixLine(line) == FlattenSeq([i \in DOMAIN line |-> IF i \in gone(line) THEN <<>> ELSE <<line[i]>>])
    IN  [k \in DOMAIN lines |-> fixLine(lines[k])]

\* tokenizeLine: the words of one character outside of quotes.  A digit does not
\* begin a word.
tokenizeLine(line) ==
    {i \in Unquoted(line) :
        /\ i + 1 \in Unquoted(line) => ~isIdentifierChar(line[i + 1])
        /\ ~\E j \in 1..(i - 1) : isIdentifierStart(line[j]) /\ \A k \in j..i : k \in Unquoted(line) /\ isIdentifierChar(line[k])}

checkKeywordCase(lines) ==
    {k \in DOMAIN lines : \E i \in tokenizeLine(lines[k]) : lines[k][i] # toUpper(lines[k][i])}

fixKeywordCase(lines) ==
    [k \in DOMAIN lines |->
        [i \in DOMAIN lines[k] |-> IF i \in tokenizeLine(lines[k]) THEN toUpper(lines[k][i]) ELSE lines[k][i]]]

Fixed(t) == Join(fixKeywordCase(fixRedundant(fixBlankLines(fixMixed(fixTrailing(Lines(t)))))))

Fixable(t) ==
    [trailing |-> checkTrailing(Lines(t)), mixed |-> checkMixed(Lines(t)), blank |-> checkBlankLines(Lines(t)),
     redundant |-> checkRedundant(Lines(t)), keyword |-> checkKeywordCase(Lines(t))]

-----------------------------------------------------------------------------
(* The rules of the lint command that only complain.                       *)

maxDepth   == 1    \* 4 levels in the code
maxLength  == 4    \* 100 characters
indentSize == 4

\* The columns of the margin: a tab is four.
getIndentSize(line) == Margin(line) + (indentSize - 1) * Cardinality({i \in 1..Margin(line) : line[i] = "\t"})

checkDepth(lines) == {k \in DOMAIN lines : ~IsBlank(lines[k]) /\ getIndentSize(lines[k]) \div indentSize > maxDepth}

checkLong(lines) ==
    {k \in DOMAIN lines :
        /\ Len(lines[k]) > maxLength
        /\ \A mark \in {lineComment, blockComment} : ~IsPrefix(mark, TrimSpace(lines[k]))}

\* What a line begins with, "" if it is blank.
Opening(line) == IF IsBlank(line) THEN "" ELSE toUpper(TrimSpace(line)[1])

isNewClause(line) == Opening(line) \in {"SELECT", "FROM", "AND", "JOIN", "CROSS", "GROUP"}

\* A comma where the style has none; a line of one comma has none of them.
checkCommas(lines, style) ==
    {k \in DOMAIN lines :
        /\ TrimSpace(lines[k]) # <<",">>
        /\ \/ style = "trailing" /\ Opening(lines[k]) = ","
           \/ /\ style = "leading" /\ ~IsBlank(lines[k]) /\ Last(TrimSpace(lines[k])) = ","
              /\ k < Len(lines) /\ ~isNewClause(lines[k + 1])}

\* The lines behind the SELECT of the line k up to the next clause; a SELECT
\* before that begins anew.  One of them is the first column, unless that is in
\* the line k.
columnLines(lines, k) ==
    LET Ends(j) == Opening(lines[j]) \in {"", "FROM", "JOIN", "GROUP", ";", "SELECT"}
        end     == Min({j \in (k + 1)..Len(lines) : Ends(j)} \cup {Len(lines) + 1})
        first   == IF Len(TrimSpace(lines[k])) > 1 THEN k + 1 ELSE k + 2
    IN  IF end <= Len(lines) /\ Opening(lines[end]) = "SELECT" THEN {} ELSE first..(end - 1)

\* The columns that are not where most are, and where that is: of two margins that
\* are as frequent, whichever comes first out of a map.
checkColumnAlignment(lines) ==
    LET Like(columns, j) == Cardinality({m \in columns : getIndentSize(lines[m]) = getIndentSize(lines[j])})
        Expected(columns) == {getIndentSize(lines[j]) : j \in {m \in columns : \A n \in columns : Like(columns, n) <= Like(columns, m)}}
        Found(columns) == {pair \in columns \X Expected(columns) : getIndentSize(lines[pair[1]]) # pair[2]}
    IN  UNION {Found(columnLines(lines, k)) : k \in {j \in DOMAIN lines : Opening(lines[j]) = "SELECT"}}

Unfixable(t) ==
    [depth |-> checkDepth(Lines(t)), trailing |-> checkCommas(Lines(t), "trailing"),
     leading |-> checkCommas(Lines(t), "leading"), columns |-> checkColumnAlignment(Lines(t))]

-----------------------------------------------------------------------------
(* Documents of the language server.  A position counts lines and, in its  *)
(* line, characters, from 0: for an editor a character is a unit of UTF-16,*)
(* for the server, but in one place, a byte.  A place is an index of the   *)
(* text.                                                                   *)

Position(line, character) == [line |-> line, character |-> character]

\* The lines of a text up to the place i.
LinesTo(t, i) == Lines(Slice(t, 1, i))

\* What the server calls the place i.
BytePosition(t, i) == Position(Len(LinesTo(t, i)) - 1, Len(Last(LinesTo(t, i))))

\* The units of a line in UTF-16.
Units(line) == Cardinality({j \in DOMAIN line : line[j] # "tail"})

\* What an editor calls it.
PositionOf(t, i) == Position(Len(LinesTo(t, i)) - 1, Units(Last(LinesTo(t, i))))

\* They mean the same: no letter of several bytes is before the place on its line.
IsNarrow(t, i) == BytePosition(t, i) = PositionOf(t, i)

\* The bytes of the first k lines and of the ends of these lines.
LineStart(lines, k) ==
    LET start[j \in 0..k] == IF j = 0 THEN 0 ELSE start[j - 1] + Len(lines[j]) + 1
    IN  start[k]

positionToOffset(lines, pos) ==
    LET start == LineStart(lines, Min({pos.line, Len(lines)}))
    IN  IF pos.line < Len(lines) THEN start + Min({pos.character, Len(lines[pos.line + 1])}) ELSE start

Replace(t, from, to, s) == Slice(t, 1, from) \o s \o Slice(t, to, Len(t) + 1)

applyChange(content, lines, change) ==
    LET startOffset == positionToOffset(lines, change.start)
        endOffset   == positionToOffset(lines, change.end)
    IN  Replace(content, startOffset + 1, Min({endOffset, Len(content)}) + 1, change.text)

Document(content) == [content |-> content, lines |-> Lines(content)]

Applied(content, lines, change) ==
    IF change.full THEN change.text ELSE applyChange(content, lines, change)

\* Mutant: the lines are made anew after the last change only.
UpdateOldLines(doc, changes) ==
    LET content[k \in 0..Len(changes)] ==
            IF k = 0 THEN doc.content ELSE Applied(content[k - 1], doc.lines, changes[k])
    IN  Document(content[Len(changes)])

\* The changes of one notification, each on what the one before it left.
Update(doc, changes) ==
    LET updated[k \in 0..Len(changes)] ==
            IF k = 0 THEN doc ELSE Document(Applied(updated[k - 1].content, updated[k - 1].lines, changes[k]))
    IN  updated[Len(changes)]

isWordChar(c) == c \in wordChars

BeginsCharacter(c) == c \notin continuation

\* The word around the rune at the position, on its line; it may end there.
GetWordAtPosition(doc, pos) ==
    LET line  == SelectSeq(doc.lines[pos.line + 1], BeginsCharacter)
        i     == pos.character + 1
        after == FirstOther(line, i, wordChars)
        start == Min({j \in 1..i : \A k \in j..(i - 1) : isWordChar(line[k])})
    IN  IF pos.line >= Len(doc.lines) \/ i > Len(line) THEN <<>> ELSE Slice(line, start, after)

-----------------------------------------------------------------------------
(* Answers of the language server.                                         *)

Moves(line) ==
    CASE line[1] \in {"SELECT", "select", "DROP", "FROM", "GROUP"} -> <<>>
      [] line[1] = "AND" -> <<"\t">>
      [] OTHER -> <<"keep">>

\* A line behind the margin of its keyword, or of the last one that had any; a
\* blank line is left out.
WithLine(before, line) ==
    LET trimmed == TrimSpace(line)
        indent  == IF Moves(trimmed) = <<"keep">> THEN before.currentIndent ELSE Moves(trimmed)
        end     == IF before.text = <<>> THEN <<>> ELSE <<"\n">>
    IN  IF trimmed = <<>> THEN before
        ELSE [currentIndent |-> indent, text |-> before.text \o end \o indent \o trimmed]

formatSQL(t, insertFinalNewline) ==
    LET lines == Lines(t)
        result[k \in 0..Len(lines)] ==
            IF k = 0 THEN [currentIndent |-> <<>>, text |-> <<>>] ELSE WithLine(result[k - 1], lines[k])
        formatted == result[Len(lines)].text
    IN  IF insertFinalNewline /\ (formatted = <<>> \/ Last(formatted) # "\n") THEN Append(formatted, "\n") ELSE formatted

\* The edit that replaces the whole document, none if nothing changes.
handleFormatting(t, formatted) ==
    LET lines == Lines(t)
    IN  IF formatted = t THEN <<>>
        ELSE <<[full |-> FALSE, start |-> Position(0, 0),
                end |-> Position(Len(lines) - 1, Len(Last(lines))), text |-> formatted]>>

coloured ==
    {<<c>> : c \in {"=", "<", ">", "+", "-", "*", "/", "%"}} \cup {<<"<", "=">>, <<"<", ">">>, <<">", "=">>, <<"!", "=">>}

\* "" for a token that is left out.
classifyToken(kind, text) ==
    CASE kind = "word" -> IF text[1] \in keywords THEN "keyword" ELSE "identifier"
      [] kind \in {"backtick", "bracket"} -> "identifier"
      [] kind = "number" -> "number"
      [] kind \in {"string", "quoted", "dollar", "national"} -> "string"
      [] kind = "operator" /\ text \in coloured -> "operator"
      [] OTHER -> ""

Classified(t, reading) ==
    LET IsClassified(token) == classifyToken(token.kind, Slice(t, token.from, token.to)) # ""
    IN  SelectSeq(reading.tokens, IsClassified)

\* Mutant: the column stays relative to the token before on a new line.
encodeColumnsOnly(t, tokens) ==
    LET at(k) == IF k = 0 THEN [line |-> 1, column |-> 1] ELSE toSQLPosition(t, tokens[k].start)
        end(k) == toSQLPosition(t, tokens[k].to).column
    IN  [k \in DOMAIN tokens |->
            [deltaLine |-> at(k).line - at(k - 1).line,
             deltaStartChar |-> at(k).column - at(k - 1).column,
             length |-> end(k) - at(k).column]]

\* Each token relative to the one before.  (A length that is negative because the
\* token ends on a later line becomes a huge number in the code.)
encodeSemanticTokens(t, tokens) ==
    LET at(k) == IF k = 0 THEN [line |-> 1, column |-> 1] ELSE toSQLPosition(t, tokens[k].start)
        end(k) == toSQLPosition(t, tokens[k].to).column
        sameLine(k) == at(k).line = at(k - 1).line
    IN  [k \in DOMAIN tokens |->
            [deltaLine |-> at(k).line - at(k - 1).line,
             deltaStartChar |-> at(k).column - IF sameLine(k) THEN at(k - 1).column ELSE 1,
             length |-> IF end(k) = at(k).column THEN tokens[k].to - tokens[k].from ELSE end(k) - at(k).column]]

NoCall == [name |-> <<>>, parameter |-> 0]

\* The parenthesis that is open before the character, on its line, the word
\* before it and the commas behind it.
getFunctionAtPosition(t, pos) ==
    LET line == Lines(t)[pos.line + 1]
        closed[j \in 1..(pos.character + 1)] ==
            IF j > pos.character THEN 0
            ELSE closed[j + 1] + CASE line[j] = ")" -> 1 [] line[j] = "(" -> -1 [] OTHER -> 0
        opens  == {j \in 1..pos.character : closed[j] < 0}
        end    == Max(opens)
        commas == {j \in end..pos.character : line[j] = "," /\ closed[j] = 0}
        start  == Min({j \in 1..end : \A k \in j..(end - 1) : isWordChar(line[k])})
    IN  IF opens = {} \/ start = end THEN NoCall
        ELSE [name |-> Slice(line, start, end), parameter |-> Cardinality(commas)]

\* The call at a position, if it is of a function the server has a signature of:
\* names of one and of two letters stand for them, with one parameter and three.
getSQLFunctionSignature == (<<"a">> :> 1) @@ (<<"a", "a">> :> 3)

handleSignatureHelp(t, pos) ==
    LET call == getFunctionAtPosition(t, pos)
    IN  IF call.name \in DOMAIN getSQLFunctionSignature
        THEN <<[function |-> call.name, parameters |-> getSQLFunctionSignature[call.name], active |-> call.parameter]>>
        ELSE <<>>

offsetToLineColumn(t, offset) ==
    IF t = <<>> THEN Position(0, 0) ELSE BytePosition(t, Min({offset, Len(t) - 1}) + 1)

FromOne(line, column) == Position(Max({line - 1, 0}), Max({column - 1, 0}))

\* Where an error is that says so in its text, in one of three ways or not at all.
extractPositionFromError(said, t, defaultLine) ==
    CASE said.form \in {"line", "[line:column]"} -> FromOne(said.line, said.column)
      [] said.form = "position" -> offsetToLineColumn(t, said.position)
      [] OTHER -> Position(defaultLine, 0)

\* The range of a diagnostic: from its place to the next blank, or, from a blank
\* or from behind the line, to the end of the line.
createDiagnosticFromError(t, error) ==
    LET start   == IF error.structured THEN FromOne(error.line, error.column) ELSE extractPositionFromError(error, t, 0)
        content == Lines(t)[start.line + 1]
        end     == FirstOf(content, start.character + 1, Blank) - 1
    IN  [start |-> start,
         end |-> Position(start.line,
                    CASE start.line >= Len(Lines(t)) -> start.character + 1
                      [] start.line < Len(Lines(t)) /\ start.character < Len(content) /\ end > start.character -> end
                      [] OTHER -> Len(content))]

TextEdit(start, end, s) == [full |-> FALSE, start |-> start, end |-> end, text |-> s]

\* What the server offers to do about a diagnostic whose text speaks of this.
getCodeActionsForDiagnostic(t, range, about) ==
    LET line == Lines(t)[range.start.line + 1]
        word == Slice(line, range.start.character + 1, range.end.character + 1)
        upper == [i \in DOMAIN word |-> toUpper(word[i])]
    IN  CASE about = "semicolon" -> {TextEdit(range.end, range.end, <<";">>)}
          [] about = "keyword" /\ range.start.line < Len(Lines(t)) /\ range.start.character < Len(line)
             /\ range.end.character <= Len(line) /\ word # upper -> {TextEdit(range.start, range.end, upper)}
          [] OTHER -> {}

handleCodeAction(t, diagnostics) ==
    UNION {getCodeActionsForDiagnostic(t, d.range, d.about) : d \in diagnostics}

\* The keywords that have a text to show.
getKeywordDocumentation == {"SELECT", "FROM", "DROP", "AND", "GROUP", "JOIN"}

handleHover(doc, pos) ==
    LET word == GetWordAtPosition(doc, pos)
    IN  IF Len(word) = 1 /\ toUpper(word[1]) \in getKeywordDocumentation THEN toUpper(word[1]) ELSE ""

\* The code offers 108 keywords and 24 snippets, and at most 100 of them.
sqlKeywords ==
    <<<<"SELECT">>, <<"FROM">>, <<"JOIN">>, <<"CROSS", " ", "JOIN">>, <<"AND">>, <<"GROUP", " ", "BY">>>>
sqlSnippets == <<<<"a">>, <<"a", "a">>>>
itemLimit == 5

\* What begins with the word at the position, keywords first.
handleCompletion(doc, pos) ==
    LET word   == GetWordAtPosition(doc, pos)
        prefix == [i \in DOMAIN word |-> toUpper(word[i])]
        Begins(label) == IsPrefix(prefix, label)
        items  == SelectSeq(sqlKeywords \o sqlSnippets, Begins)
    IN  SubSeq(items, 1, Min({itemLimit, Len(items)}))

-----------------------------------------------------------------------------
(* The outline of a document.  A location counts from 1.                   *)

Location(line, column) == [line |-> line, column |-> column]
NoLocation == Location(0, 0)

locBefore(a, b) ==
    /\ NoLocation \notin {a, b}
    /\ a.line < b.line \/ (a.line = b.line /\ a.column < b.column)

lineColToOffset(t, loc) ==
    LET line == IF loc.line = 1 THEN 0
                ELSE CHOOSE j \in DOMAIN t : t[j] = "\n" /\ Cardinality({k \in 1..j : t[k] = "\n"}) = loc.line - 1
    IN  Min({line + loc.column - 1, Len(t)})

offsetToLineCol(t, offset) ==
    LET pos == BytePosition(t, offset + 1) IN Location(pos.line + 1, pos.character + 1)

\* The first tokens of the statements: a semicolon in front of each but one.
Firsts(t, reading) ==
    LET tokens == SelectSeq(reading.tokens, IsToken)
        semi(k) == k = 0 \/ Slice(t, tokens[k].from, tokens[k].to) = <<";">>
        firsts  == {k \in DOMAIN tokens : semi(k - 1) /\ ~semi(k)}
        nth(k)  == CHOOSE n \in firsts : Cardinality({m \in firsts : m <= n}) = k
    IN  [k \in 1..Cardinality(firsts) |-> tokens[nth(k)]]

\* SELECT stands for the statements that know where they begin, DROP for those
\* that do not and have no child that does.
computeStatementStarts(t, firsts) ==
    [k \in DOMAIN firsts |->
        LET token == firsts[k]
        IN  IF t[token.from] = "DROP" THEN NoLocation ELSE toSQLPosition(t, token.start)]

\* The search for the latest child never finds one: it asks whether the one it
\* has, none at first, is before the next, and locBefore says no.  What is left is
\* the next semicolon, inside of a string as well.
statementEndLocation(t, start) ==
    LET offset == lineColToOffset(t, start)
        semicolon == FirstOf(t, offset + 1, {";"})
    IN  IF semicolon > Len(t) THEN Location(Len(Lines(t)), Len(Last(Lines(t))) + 1) ELSE offsetToLineCol(t, semicolon)

stepBack(t, loc) ==
    CASE loc.column > 1 -> Location(loc.line, loc.column - 1)
      [] loc.column = 1 /\ loc.line > 1 -> Location(loc.line - 1, Len(Lines(t)[loc.line - 1]) + 1)
      [] OTHER -> loc

\* The range of the statement k; what is behind the end of a line is cut.
extractStatementSymbol(t, starts, k) ==
    LET start   == IF starts[k] = NoLocation THEN Location(1, 1) ELSE starts[k]
        end     == statementEndLocation(t, start)
        next    == IF k < Len(starts) THEN starts[k + 1] ELSE NoLocation
        bounded == IF locBefore(next, end) THEN stepBack(t, next) ELSE end
        last    == IF locBefore(bounded, start) THEN start ELSE bounded
        cut(loc) == Position(loc.line - 1, Min({loc.column - 1, Len(Lines(t)[loc.line])}))
    IN  [start |-> cut(start), end |-> cut(last)]

handleDocumentSymbol(t, reading) ==
    LET starts == computeStatementStarts(t, Firsts(t, reading))
    IN  [k \in DOMAIN starts |-> extractStatementSymbol(t, starts, k)]
=============================================================================
