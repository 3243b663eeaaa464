-------------------------------- MODULE SqlText --------------------------------
(***************************************************************************)
(* A text that is typed, and the parts of the program that read it: the    *)
(* tokenizer, the statement splitter, the fixes of the lint command, and   *)
(* the language server, which keeps a copy that it changes as its editor   *)
(* says.  The tokenizer comes from a pool that the readers share.          *)
(***************************************************************************)
EXTENDS TextTools

CONSTANTS
    Profiles    \* what is typed: a dialect, what the document begins with, the
                \* characters, up to what length, and whether the editor also
                \* changes what is there, or the text is parsed

VARIABLES
    profile,
    text,       \* what the editor shows
    doc,        \* the copy of the language server, and its lines
    narrow,     \* history: whether no change since the whole text was sent began or
                \* ended behind a letter of several bytes on its line
    pooled,     \* the dialect of the tokenizer in the pool
    spoken      \* history: the dialect the last call asked for, "" for none, and
                \* the one its tokenizer had

vars == <<profile, text, doc, narrow, pooled, spoken>>

ProfilesAssumption ==
    \A p \in Profiles :
        /\ p.dialect \in {"postgresql", "mysql", "sqlserver", "clickhouse", "sqlite"}
        /\ p.characters \subseteq Characters \ continuation /\ p.begins \in Seq(Characters)
        /\ p.length \in Nat
        /\ p.edits \in BOOLEAN /\ p.parses \in BOOLEAN

ASSUME ProfilesAssumption

\* The dialect of a tokenizer that New makes.
DialectPostgreSQL == "postgresql"

Quiet == [asked |-> DialectPostgreSQL, had |-> DialectPostgreSQL]

\* The bytes of a character.
Encoded(c) ==
    CASE c = "wide2" -> <<"wide2", "tail">>
      [] c = "wide4" -> <<"wide4", "low", "tail", "tail">>
      [] OTHER -> <<c>>

IsBetweenCharacters(t, i) == At(t, i) \notin continuation

Change(t, from, to, s) ==
    [full |-> FALSE, start |-> PositionOf(t, from), end |-> PositionOf(t, to), text |-> s]

\* Editor and server mean the same stretch.
BothNarrow(t, from, to) == IsNarrow(t, from) /\ IsNarrow(t, to)

\* The editor changes its text and sends what it did.  A copy that has become
\* another text is followed as long as it is no longer than a text may be.
Changed(new, changes) ==
    /\ text' = new
    /\ doc' = Update(doc, changes)
    /\ Len(doc'.content) <= profile.length
    /\ UNCHANGED <<profile, pooled, spoken>>

\* A character behind the text.
Type(c) ==
    LET end == Len(text) + 1
    IN  /\ Len(text \o Encoded(c)) <= profile.length
        /\ Changed(text \o Encoded(c), <<Change(text, end, end, Encoded(c))>>)
        /\ narrow' = (narrow /\ IsNarrow(text, end))

\* One stretch is replaced, and another of the text that makes, in one message.
EditTwice(from, to, s, from2, to2, s2) ==
    LET once  == Replace(text, from, to, s)
        twice == Replace(once, from2, to2, s2)
    IN  /\ to2 <= Len(once) + 1 /\ Len(twice) <= profile.length
        /\ \A i \in {from, to} : IsBetweenCharacters(text, i)
        /\ \A i \in {from2, to2} : IsBetweenCharacters(once, i)
        /\ Changed(twice, <<Change(text, from, to, s), Change(once, from2, to2, s2)>>)
        /\ narrow' = (narrow /\ BothNarrow(text, from, to) /\ BothNarrow(once, from2, to2))

\* The whole text is sent.
Paste(s) ==
    /\ Changed(s, <<[full |-> TRUE, text |-> s]>>)
    /\ narrow' = TRUE

NotAfter(a, b) == a.line < b.line \/ (a.line = b.line /\ a.character <= b.character)

\* Where a position is for an editor: behind the line or the text is at the end.
PlaceOf(t, pos) == Max({i \in 1..(Len(t) + 1) : NotAfter(PositionOf(t, i), pos)})

\* The editor asks for the text to be formatted, applies the answer, which is the
\* text of the formatter or, when that does not parse, of formatSQL, and sends what
\* it did.  What becomes of a copy that is another text is not followed.
Format(formatted) ==
    /\ formatted # text /\ Len(formatted) <= profile.length
    /\ doc.content = text
    /\ LET edit == handleFormatting(doc.content, formatted)[1]
           from == PlaceOf(text, edit.start)
           to   == PlaceOf(text, edit.end)
       IN  /\ Changed(Replace(text, from, to, edit.text), <<Change(text, from, to, edit.text)>>)
           /\ narrow' = (narrow /\ BothNarrow(text, from, to))

\* A call takes the tokenizer of the pool, or a new one when the pool is empty,
\* gives it a dialect if it was given one, and puts it back.  Reset leaves the
\* dialect as it is.
Parse(asked, new) ==
    LET had == IF new THEN DialectPostgreSQL ELSE pooled
    IN  /\ pooled' = IF asked = "" THEN had ELSE asked
        /\ spoken' = [asked |-> asked, had |-> pooled']
        /\ UNCHANGED <<profile, text, doc, narrow>>

Init ==
    /\ profile \in Profiles
    /\ text = profile.begins
    /\ doc = Document(text)
    /\ narrow = TRUE
    /\ pooled = DialectPostgreSQL
    /\ spoken = Quiet

Stretches(n) == {pair \in (1..(n + 1)) \X (1..(n + 1)) : pair[1] <= pair[2]}

Texts == {<<>>} \cup {Encoded(c) : c \in profile.characters}

Edit ==
    \/ \E a \in Stretches(Len(text)), b \in Stretches(profile.length), s, s2 \in Texts :
            EditTwice(a[1], a[2], s, b[1], b[2], s2)
    \/ \E s \in Texts : Paste(s)
    \/ \E final \in BOOLEAN : Format(formatSQL(doc.content, final))
    \/ \E s \in Texts : Format(s)

Next ==
    \/ \E c \in profile.characters : Type(c)
    \/ profile.edits /\ Edit
    \/ profile.parses /\ \E asked \in {"", profile.dialect}, new \in BOOLEAN : Parse(asked, new)

Spec == Init /\ [][Next]_vars

-----------------------------------------------------------------------------
(* Properties.                                                             *)

\* The server's copy and its lines are what the editor shows, after every
\* message, the second change of one as well, unless a change was behind a letter
\* of several bytes on its line, whose units the editor counts and whose bytes the
\* server does; the copy is another text then, until the whole text is sent, but
\* it has the same number of lines, so that no change is out of its range
\* (documents.go:192, 289, 309, handler.go:759).
ServerFollowsTheEditor ==
    /\ narrow => doc.content = text
    /\ doc = Document(doc.content) /\ Len(doc.lines) = Len(Lines(text))

Reading == Tokenize(text, profile.dialect)

TextOf(token) == Slice(text, token.from, token.to)

\* What the splitter takes for something else than the tokenizer does: comments
\* in comments, a backslash in a string that is no E-string, quotes of a dialect
\* that is not its own, or of none, or with a letter of several bytes between the
\* dollars, and the operator #- before a minus.
SplitterIsOther(tokens) ==
    \/ profile.dialect = "postgresql" /\ Cardinality({i \in DOMAIN text : LooksAt(text, i, blockComment)}) > 1
    \/ \E i \in DOMAIN tokens :
            LET token == tokens[i]
            IN  \/ /\ token.kind \in {"string", "national"} /\ "\\" \in ToSet(TextOf(token))
                   /\ At(text, token.from - 1) # "e"
                \/ token.kind = "backtick" /\ ~profileForDialect(profile.dialect).backticks
                \/ /\ token.kind = "dollar"
                   /\ \/ ~profileForDialect(profile.dialect).dollar
                      \/ wide \cap ToSet(Slice(text, token.from, FirstOf(text, token.from + 1, {"$"}))) # {}
                \/ token.kind = "triple"
                \/ token.kind = "operator" /\ LooksAt(text, token.to - 1, lineComment)

IsNotSemicolon(value) == value # <<"operator", <<";">>>>

\* What the parser takes for keywords, although it is in quotes: a string whose
\* text is a compound keyword, and a name that is one of some keywords.
QuotesAreLost(token) ==
    \/ Value(text, token) \in {<<"GROUP", " ", "BY">>, <<"CROSS", " ", "JOIN">>}
    \/ token.kind \in {"backtick", "bracket"} /\ Value(text, token) \in {<<c>> : c \in {"DROP", "CROSS", "cross", "ADD"}}

IsKeyword(value) == value[1] = "keyword"

QuotesHideKeywords(reading) ==
    \A token \in ToSet(reading.tokens) : token.kind \in DOMAIN Quotes /\ ~QuotesAreLost(token) =>
        SelectSeq(preprocessTokens(text, [tokens |-> <<token>>]), IsKeyword) = <<>>

\* ParseReaderMultiple gets the tokens that the tokenizer finds in the whole
\* text: the splitter, which has a scanner of its own, cuts no token in two and
\* misses no semicolon, and what is in quotes is no keyword for the parser, but
\* for the cases above (reader.go:112, splitter.go:95, preprocess.go:64).
SplitsLikeTheTokenizer ==
    \A reading \in {Reading} : reading.ok =>
        /\ ~SplitterIsOther(reading.tokens) =>
                FlattenSeq(valuesOfPieces(text, profile.dialect)) =
                    SelectSeq(preprocessTokens(text, reading), IsNotSemicolon)
        /\ QuotesHideKeywords(reading)

\* What the fixes, which go by lines and by the two quotes, do not understand: a
\* token over several lines, other quotes, and quotes in a comment.
FixesAreBlind(tokens) ==
    \/ \E i \in DOMAIN tokens :
            \/ tokens[i].kind \in {"string", "national", "triple"} /\ "\n" \in ToSet(TextOf(tokens[i]))
            \/ tokens[i].kind \in {"backtick", "bracket", "dollar"}
    \/ \E i \in DOMAIN text : text[i] \in {"'", "\""} /\ \A k \in DOMAIN tokens : i \notin tokens[k].from..(tokens[k].to - 1)

\* Two words that are a keyword only in capitals, because the tokenizer has no
\* type for them.
CaseCounts(tokens) == \E i \in DOMAIN tokens : tokens[i].kind = "compound" /\ "cross" \in ToSet(TextOf(tokens[i]))

\* Blanks for tabs make a line longer.
NothingGetsWorse(fixed) ==
    /\ \A rule \in DOMAIN Unfixable(<<>>) : Cardinality(Unfixable(fixed)[rule]) = Cardinality(Unfixable(text)[rule])
    /\ "\t" \notin ToSet(text) => Cardinality(checkLong(Lines(fixed))) <= Cardinality(checkLong(Lines(text)))

\* The fixes of the lint command change nothing of what the parser gets, but for
\* the cases above, leave nothing to fix, and what the rules without a fix find is
\* what they found before; nor does the formatting of a text that does not parse
\* change a token.
FixesKeepTheTokens ==
    \A reading \in {Reading} :
        reading.ok /\ ~FixesAreBlind(reading.tokens) =>
            /\ ~CaseCounts(reading.tokens) =>
                \A new \in {Fixed(text)} \cup {formatSQL(text, final) : final \in BOOLEAN} :
                    preprocessTokens(new, Tokenize(new, profile.dialect)) = preprocessTokens(text, reading)
            /\ \A fixed \in {Fixed(text)} :
                    NothingGetsWorse(fixed) /\ \A rule \in DOMAIN Fixable(<<>>) : Fixable(fixed)[rule] = {}

-----------------------------------------------------------------------------
(* What the language server tells of a text.                               *)

\* The line of the token up to the end of it.
LineTo(token) == Slice(text, token.from - BytePosition(text, token.from).character, token.to)

\* The server takes the place of a comment before the token for its own, counts a
\* tab as four characters, a letter of several bytes by these, and a token that
\* ends on another line by its columns.
Misplaced(token) ==
    \/ token.start # token.from
    \/ "\n" \in ToSet(TextOf(token))
    \/ "\t" \in ToSet(LineTo(token))
    \/ ~IsNarrow(text, token.to)

HighlightsAreTheTokens(reading) ==
    LET tokens == Classified(text, reading)
        data   == encodeSemanticTokens(text, tokens)
        shown[k \in 0..Len(data)] ==
            IF k = 0 THEN Position(0, 0)
            ELSE LET before == shown[k - 1]
                 IN  Position(before.line + data[k].deltaLine,
                              data[k].deltaStartChar + IF data[k].deltaLine = 0 THEN before.character ELSE 0)
    IN  \A k \in DOMAIN tokens : ~Misplaced(tokens[k]) =>
            /\ shown[k] = PositionOf(text, tokens[k].from)
            /\ data[k].length = Units(TextOf(tokens[k]))

\* A word that no digit is put to.
IsPlain(token) ==
    /\ token.kind = "word" /\ \A c \in ToSet(TextOf(token)) : isWordChar(c)
    /\ ~isIdentifierChar(At(text, token.from - 1))

\* What the keywords and the snippets have that begins with the word, unless the
\* cursor is behind the line, where the server sees no word.  The word is counted in
\* runes, which are units but for the letters of four bytes.
CompletionsOf(word) == {label \in ToSet(sqlKeywords \o sqlSnippets) : IsPrefix([i \in DOMAIN word |-> toUpper(word[i])], label)}

WordsAreTheTokens(reading) ==
    \A token \in ToSet(reading.tokens) : IsPlain(token) /\ "low" \notin ToSet(LineTo(token)) =>
        /\ \A i \in token.from..(token.to - 1) :
                LET pos == PositionOf(text, i)
                IN  /\ GetWordAtPosition(Document(text), pos) = TextOf(token)
                    /\ handleHover(Document(text), pos) # "" =>
                            normalizeToken("word", TextOf(token)) = Keyword(handleHover(Document(text), pos))
        /\ At(text, token.to) \notin {"\n", ""} =>
                ToSet(handleCompletion(Document(text), PositionOf(text, token.to))) = CompletionsOf(TextOf(token))

Brackets == {"(", ",", ")"}

Number(c, tokens, k, j) == Cardinality({m \in k..j : TextOf(tokens[m]) = <<c>>})

\* The parenthesis k is open behind the token j, and no other behind it.
Innermost(tokens, k, j) ==
    LET depth(m, n) == Number("(", tokens, m, n) - Number(")", tokens, m, n)
    IN  /\ TextOf(tokens[k]) = <<"(">>
        /\ \A n \in k..j : depth(k, n) > 0
        /\ depth(k, j) = 1

CallsAreTheTokens(reading) ==
    LET tokens == reading.tokens
        alone == \A i \in DOMAIN text : text[i] \in Brackets => \E token \in ToSet(tokens) : token.from = i /\ token.to = i + 1
    IN  alone => \A k \in 2..Len(tokens) : IsPlain(tokens[k - 1]) /\ tokens[k - 1].to = tokens[k].from =>
            \A j \in k..(Len(tokens) - 1) :
                TextOf(tokens[k - 1]) \in DOMAIN getSQLFunctionSignature
                /\ Innermost(tokens, k, j) /\ "\n" \notin ToSet(Slice(text, tokens[k].from, tokens[j].to))
                /\ IsNarrow(text, tokens[j].to) =>
                    \E help \in ToSet(handleSignatureHelp(text, PositionOf(text, tokens[j].to))) :
                        /\ help.function = TextOf(tokens[k - 1])
                        /\ help.active = Cardinality({m \in k..j : TextOf(tokens[m]) = <<",">> /\ Innermost(tokens, k, m)})

\* The ways in which an error tells that it is at this token.
ErrorsAt(token) ==
    LET at == toSQLPosition(text, token.start)
    IN  {[structured |-> TRUE, line |-> at.line, column |-> at.column],
         [structured |-> FALSE, form |-> "line", line |-> at.line, column |-> at.column],
         [structured |-> FALSE, form |-> "position", position |-> token.start - 1]}

DiagnosticsCoverTheToken(reading) ==
    \A token \in ToSet(reading.tokens) :
        ~Misplaced(token) /\ token.kind # "EOF" /\ " " \notin ToSet(TextOf(token)) =>
            \A error \in ErrorsAt(token) :
                LET range == createDiagnosticFromError(text, error)
                IN  /\ range.start = PositionOf(text, token.from)
                    /\ range.end.line = range.start.line
                    /\ range.end.character >= PositionOf(text, token.to).character

AfterEdit(edit) == Replace(text, PlaceOf(text, edit.start), PlaceOf(text, edit.end), edit.text)

\* The range of a diagnostic goes on to a blank: it may hold quotes.
HasQuotes(edit) ==
    \E i \in PlaceOf(text, edit.start)..(PlaceOf(text, edit.end) - 1) : text[i] \in {"'", "\"", "bt", "[", "]", "$"}

\* The case of names does not count either.
Folded(values) == [k \in DOMAIN values |-> <<values[k][1], [i \in DOMAIN values[k][2] |-> toUpper(values[k][2][i])]>>]

Inside(token, place) == token.from < place /\ place < token.to

\* The two things the server offers to do about an error: to write a word in
\* capitals changes nothing of what the parser gets, and a semicolon behind the
\* word is one more, unless the blank there is in a token.  (The range that ends
\* behind a letter of several bytes ends somewhere else for the editor.)
ActionsKeepTheTokens(reading) ==
    \A token \in ToSet(reading.tokens) :
        LET range    == createDiagnosticFromError(text, [structured |-> FALSE, form |-> "position", position |-> token.start - 1])
            Gets(edit) == Folded(preprocessTokens(AfterEdit(edit), Tokenize(AfterEdit(edit), profile.dialect)))
            got      == Folded(preprocessTokens(text, reading))
        IN  ~Misplaced(token) /\ IsNarrow(text, PlaceOf(text, range.end)) =>
                /\ At(text, token.from) # toUpper(At(text, token.from)) /\ ~CaseCounts(reading.tokens) =>
                        \A edit \in handleCodeAction(text, {[range |-> range, about |-> "keyword"]}) :
                            ~HasQuotes(edit) => Gets(edit) = got
                /\ At(text, token.to) = ";" =>
                        \A edit \in handleCodeAction(text, {[range |-> range, about |-> "semicolon"]}) :
                            (\A t \in ToSet(reading.tokens) : ~Inside(t, PlaceOf(text, edit.start))) =>
                                SelectSeq(Gets(edit), IsNotSemicolon) = SelectSeq(got, IsNotSemicolon)

\* When all statements know where they begin and no semicolon is hidden.
SymbolsAreTheStatements(reading) ==
    LET firsts  == Firsts(text, reading)
        symbols == handleDocumentSymbol(text, reading)
        clear   == /\ \A k \in DOMAIN firsts : ~Misplaced(firsts[k]) /\ text[firsts[k].from] # "DROP"
                   /\ \A i \in DOMAIN text : text[i] = ";" => \E token \in ToSet(reading.tokens) : token.from = i
        Holds(k, token) == token.kind # "EOF" /\ firsts[k].from <= token.from
                            /\ \A i \in firsts[k].from..token.from : text[i] # ";"
    IN  clear => \A k \in DOMAIN symbols :
            /\ k < Len(symbols) => NotAfter(symbols[k].end, symbols[k + 1].start)
            /\ symbols[k].start = PositionOf(text, firsts[k].from)
            /\ \A token \in ToSet(reading.tokens) : Holds(k, token) => NotAfter(PositionOf(text, token.to), symbols[k].end)

\* What the language server shows of a text that it has and that the tokenizer reads
\* is where the tokens are, but for the cases above, though each answer has a
\* scanner of its own: the colours, the word below the cursor with what is shown and
\* offered for it, the call around it, an error and the word that is to be in
\* capitals because of it, the outline
\* (handler.go:2143, documents.go:352, handler.go:608, 662, 1782, 439, 2048, 1191).
EditorSeesTheTokens ==
    \A reading \in {Reading} : reading.ok =>
        /\ HighlightsAreTheTokens(reading)
        /\ WordsAreTheTokens(reading)
        /\ CallsAreTheTokens(reading)
        /\ DiagnosticsCoverTheToken(reading)
        /\ ActionsKeepTheTokens(reading)
        /\ SymbolsAreTheStatements(reading)

\* A call that asks for no dialect has a tokenizer as it comes from New
\* (pool.go:67, 106).
TokenizerIsReset == spoken.asked = "" => spoken.had = DialectPostgreSQL
=============================================================================
