---------------------------- MODULE SqlScanner ----------------------------
(***************************************************************************)
(* The tokenizer of pkg/sql/tokenizer, on bytes.                           *)
(*                                                                         *)
(* A text is a sequence of bytes, as in the code: "a" stands for the       *)
(* letters of one byte, "1" for the digits, "e" and "n" for the letters    *)
(* that mean something in a number or in front of a string, and a keyword  *)
(* is one byte as well.  A letter of two bytes is "wide2", "tail", one of  *)
(* four is "wide4", "low", "tail", "tail"; low, which is not a byte that   *)
(* can be told from tail in the code, is where UTF-16 has its second unit. *)
(* A token is a kind and a stretch of the text; its value is that stretch. *)
(* The typographic quotes, which the code folds into ' and ", are left out.*)
(***************************************************************************)
EXTENDS Integers, SequencesExt, FiniteSets

keywords == {"SELECT", "select", "DROP", "FROM", "GROUP", "BY", "AND", "CROSS", "cross", "JOIN", "ADD", "HASH"}

letters == {"a", "e", "n"} \cup keywords

Digits == {"1"}

\* The first byte of a letter of more than one, and the others.
wide == {"wide2", "wide4"}
continuation == {"low", "tail"}

isIdentifierStart(c) == c \in letters \cup wide

identifierChars == letters \cup Digits \cup wide \cup continuation

isIdentifierChar(c) == c \in identifierChars

Blank == {" ", "\t", "\n"}

\* The byte at i, "" behind the end.
At(t, i) == IF i \in DOMAIN t THEN t[i] ELSE ""

Slice(t, from, to) == SubSeq(t, from, to - 1)

LooksAt(t, i, s) == i + Len(s) - 1 <= Len(t) /\ Slice(t, i, i + Len(s)) = s

\* The first place from i on that holds one of S, or begins with s, or the one
\* behind the end.
FirstOf(t, i, S) == Min({j \in i..Len(t) : t[j] \in S} \cup {Len(t) + 1})

FirstAt(t, i, s) == Min({j \in i..Len(t) : LooksAt(t, j, s)} \cup {Len(t) + 1})

FirstOther(t, i, S) == Min({j \in i..Len(t) : t[j] \notin S} \cup {Len(t) + 1})

skipWhitespace(t, i) == FirstOther(t, i, Blank)

AfterWord(t, i) == FirstOther(t, i, identifierChars)

AfterDigits(t, i) == FirstOther(t, i, Digits)

Token(kind, from, to) == [ok |-> TRUE, kind |-> kind, from |-> from, to |-> to]

Error == [ok |-> FALSE, kind |-> "error", from |-> 0, to |-> 0]

\* A token of this kind from i to where that one ends.
As(kind, i, token) == IF token.ok THEN Token(kind, i, token.to) ELSE Error

-----------------------------------------------------------------------------
(* What has a quote around it.                                             *)

\* What is found at j of the quote that closes, given what is found behind j.  how.q
\* is the quote; doubled, whether two of them are one that stays inside; escaped,
\* what may follow a backslash, {} where that is a character as any other;
\* oneLine, whether the end of the line is an error.
Closing(t, how, j, close) ==
    CASE At(t, j) = "" -> 0
      [] At(t, j) = how.q /\ how.doubled /\ At(t, j + 1) = how.q -> close[j + 2]
      [] At(t, j) = how.q /\ ~(how.doubled /\ At(t, j + 1) = how.q) -> j + 1
      [] At(t, j) = "\\" /\ how.escaped # {} ->
            IF At(t, j + 1) \in how.escaped THEN close[j + 2] ELSE 0
      [] At(t, j) = "\n" /\ how.oneLine -> 0
      [] OTHER -> close[j + 1]

\* Behind the quote that closes what is open at from, 0 if there is none.
Close(t, from, how) ==
    LET close[j \in Nat] == Closing(t, how, j, close)
    IN  close[from]

Quoted(q, doubled, escaped, oneLine) == [q |-> q, doubled |-> doubled, escaped |-> escaped, oneLine |-> oneLine]

\* The token from i to the quote that closes it.
Closed(t, kind, i, how) ==
    LET to == Close(t, i + 1, how)
    IN  IF to = 0 THEN Error ELSE Token(kind, i, to)

readQuotedIdentifier(t, i) == Closed(t, "quoted", i, Quoted("\"", TRUE, {}, TRUE))

readBacktickIdentifier(t, i) == Closed(t, "backtick", i, Quoted("bt", TRUE, {}, FALSE))

readBracketIdentifier(t, i) == Closed(t, "bracket", i, Quoted("]", FALSE, {}, FALSE))

handleEscapeSequence == {"\\", "\"", "'", "bt", "n"}

\* The dialects in which a backslash escapes.
escapes(d) == IF d \in {"mysql", "postgresql"} THEN handleEscapeSequence ELSE {}

triple == <<"'", "'", "'">>

readTripleQuotedString(t, i) ==
    LET close == FirstAt(t, i + 3, triple)
    IN  IF close > Len(t) THEN Error ELSE Token("triple", i, close + 3)

readQuotedString(t, i, d) ==
    IF LooksAt(t, i, triple) THEN readTripleQuotedString(t, i)
    ELSE Closed(t, "string", i, Quoted("'", TRUE, escapes(d), FALSE))

\* $1, $$ text $$, $tag$ text $tag$, or a lone $: with the name that was taken
\* for a tag behind it, when no $ ends that.
readDollar(t, i) ==
    LET name  == IF isIdentifierStart(At(t, i + 1)) THEN AfterWord(t, i + 1) ELSE i + 1
        tag   == Slice(t, i, name + 1)
        close == FirstAt(t, name + 1, tag)
    IN  CASE At(t, i + 1) \in Digits -> Token("$", i, AfterDigits(t, i + 1))
          [] At(t, i + 1) \notin Digits /\ At(t, name) # "$" -> Token("$", i, name)
          [] OTHER -> IF close > Len(t) THEN Error ELSE Token("dollar", i, close + Len(tag))

-----------------------------------------------------------------------------
(* Words, numbers, operators.                                              *)

compoundKeywordTypes == {<<<<"GROUP">>, <<"BY">>>>, <<<<"CROSS">>, <<"JOIN">>>>, <<<<"cross">>, <<"JOIN">>>>}

\* N'text' in one dialect, two keywords with blanks between them, a word.
readIdentifier(t, i, d) ==
    LET to     == AfterWord(t, i)
        next   == skipWhitespace(t, to)
        after  == AfterWord(t, next)
    IN  CASE d = "sqlserver" /\ Slice(t, i, to) = <<"n">> /\ At(t, to) = "'" ->
                As("national", i, readQuotedString(t, to, d))
          [] <<Slice(t, i, to), Slice(t, next, after)>> \in compoundKeywordTypes -> Token("compound", i, after)
          [] OTHER -> Token("word", i, to)

\* A point or an exponent needs a digit behind it.
readNumber(t, i) ==
    LET whole    == AfterDigits(t, i)
        point    == At(t, whole) = "."
        fraction == IF point THEN AfterDigits(t, whole + 1) ELSE whole
        exponent == At(t, fraction) = "e"
        digits   == IF At(t, fraction + 1) \in {"+", "-"} THEN fraction + 2 ELSE fraction + 1
    IN  IF (point /\ At(t, whole + 1) \notin Digits) \/ (exponent /\ At(t, digits) \notin Digits) THEN Error
        ELSE Token("number", i, IF exponent THEN AfterDigits(t, digits) ELSE fraction)

operators ==
    {<<"-", ">">>, <<"-", ">", ">">>, <<"=", ">">>, <<"<", "=">>, <<"<", ">">>, <<"<", "@">>, <<">", "=">>, <<"!", "=">>,
     <<"!", "~">>, <<"!", "~", "*">>, <<":", ":">>, <<"|", "|">>, <<"&", "&">>, <<"@", ">">>, <<"@", "@">>,
     <<"#", ">">>, <<"#", ">", ">">>, <<"#", "-">>, <<"?", "|">>, <<"?", "&">>, <<"~", "*">>}

marks == {"(", ")", "[", "]", ",", ";", ".", "+", "-", "*", "/", "=", "<", ">", "!", ":", "%", "|", "&", "?", "~"}

Characters == {"'", "\"", "bt", "\\", "$", "@", "#"} \cup identifierChars \cup Blank \cup marks

\* The longest operator at i.
readOperator(t, i) ==
    LET lengths == {1} \cup {Len(o) : o \in {p \in operators : LooksAt(t, i, p)}}
    IN  Token("operator", i, i + CHOOSE n \in lengths : \A m \in lengths : m <= n)

\* @name, in one dialect also @@name, #name and ##name.
readSigil(t, i, d) ==
    LET name  == IF At(t, i + 1) = t[i] THEN i + 2 ELSE i + 1
        named == isIdentifierStart(At(t, name))
    IN  CASE t[i] = "@" /\ name = i + 1 /\ named -> As("placeholder", i, readIdentifier(t, name, d))
          [] t[i] = "@" /\ name = i + 2 /\ named /\ d = "sqlserver" -> As("word", i, readIdentifier(t, name, d))
          [] t[i] = "#" /\ d = "sqlserver" -> IF named THEN Token("word", i, AfterWord(t, name)) ELSE Token("operator", i, name)
          [] OTHER -> readOperator(t, i)

-----------------------------------------------------------------------------
(* Comments are passed over; the place where a token begins is taken before*)
(* that.                                                                   *)

AfterLine(t, i) == Min({FirstOf(t, i, {"\n"}) + 1, Len(t) + 1})

lineComment == <<"-", "-">>
blockComment == <<"/", "*">>

AfterBlock(t, i) ==
    LET close == FirstAt(t, i + 2, <<"*", "/">>)
    IN  IF close > Len(t) THEN 0 ELSE close + 2

\* The token at i, given the tokens behind it.
TokenAt(t, d, i, next) ==
    LET c == At(t, i)
    IN  CASE c = "" -> Token("EOF", Len(t) + 1, Len(t) + 1)
          [] LooksAt(t, i, lineComment) -> next[skipWhitespace(t, AfterLine(t, i))]
          [] LooksAt(t, i, blockComment) ->
                IF AfterBlock(t, i) = 0 THEN Error ELSE next[skipWhitespace(t, AfterBlock(t, i))]
          [] isIdentifierStart(c) -> readIdentifier(t, i, d)
          [] c \in Digits -> readNumber(t, i)
          [] c = "\"" -> readQuotedIdentifier(t, i)
          [] c = "bt" -> readBacktickIdentifier(t, i)
          [] c = "'" -> readQuotedString(t, i, d)
          [] c = "$" -> readDollar(t, i)
          [] c = "[" /\ d = "sqlserver" -> readBracketIdentifier(t, i)
          [] c \in {"@", "#"} -> readSigil(t, i, d)
          [] c \in marks -> readOperator(t, i)
          [] OTHER -> Error

nextToken(t, from, d) ==
    LET next[i \in Nat] == TokenAt(t, d, i, next)
    IN  next[from]

\* A token with the place where the tokenizer began to look for it.
Started(i, token) == [start |-> i, ok |-> token.ok, kind |-> token.kind, from |-> token.from, to |-> token.to]

\* The token found from i on and what follows it: nothing behind an Error.
Followed(t, i, token, tokens) ==
    <<Started(i, token)>> \o IF token.ok THEN tokens[skipWhitespace(t, token.to)] ELSE <<>>

\* The tokens from there on, the last one an Error when one is met.
tokensFrom(t, from, d) ==
    LET tokens[i \in Nat] == IF i > Len(t) THEN <<>> ELSE Followed(t, i, nextToken(t, i, d), tokens)
    IN  tokens[from]

Tokenize(t, d) ==
    LET tokens == tokensFrom(t, skipWhitespace(t, 1), d)
        eof    == Started(Len(t) + 1, Token("EOF", Len(t) + 1, Len(t) + 1))
    IN  IF \E i \in DOMAIN tokens : ~tokens[i].ok THEN [ok |-> FALSE, tokens |-> <<>>]
        ELSE [ok |-> TRUE, tokens |-> Append(tokens, eof)]

IsToken(token) == token.kind # "EOF"

\* toSQLPosition: a tab is four columns.
toSQLPosition(t, i) ==
    LET lines == {j \in 1..(i - 1) : t[j] = "\n"}
        begin == IF lines = {} THEN 1 ELSE 1 + CHOOSE j \in lines : \A k \in lines : k <= j
    IN  [line |-> 1 + Cardinality(lines),
         column |-> 1 + (i - begin) + 3 * Cardinality({j \in begin..(i - 1) : t[j] = "\t"})]

-----------------------------------------------------------------------------
(* preprocessTokens: what the parser gets for the tokens.                  *)

toUpper(c) ==
    CASE c = "select" -> "SELECT"
      [] c = "cross" -> "CROSS"
      [] OTHER -> c

\* The width of a quote.
Quotes == [string |-> 1, quoted |-> 1, backtick |-> 1, bracket |-> 1, triple |-> 3]

\* What a token holds: the text between its quotes (escapes stay as they are),
\* and the two words of a compound keyword one blank apart, whatever the text.
Value(t, token) ==
    LET text == Slice(t, token.from, token.to)
        tag  == FirstOf(text, 2, {"$"})
    IN  CASE token.kind \in DOMAIN Quotes -> SubSeq(text, 1 + Quotes[token.kind], Len(text) - Quotes[token.kind])
          [] token.kind = "national" -> SubSeq(text, 3, Len(text) - 1)
          [] token.kind = "dollar" -> SubSeq(text, tag + 1, Len(text) - tag)
          [] token.kind = "compound" -> <<text[1], " ", Last(text)>>
          [] OTHER -> text

Keyword(word) == <<"keyword", <<word>>>>

\* A compound is known by its type, or by its value in capitals, whatever token
\* has this value.
expandCompoundToken(kind, value) ==
    IF (kind = "compound" /\ value[1] = "GROUP") \/ value \in {<<"GROUP", " ", "BY">>, <<"CROSS", " ", "JOIN">>}
    THEN <<Keyword(value[1]), Keyword(Last(value))>>
    ELSE <<>>

\* Of the keywords, those that a name may turn into.
identifierKeywordType == {"DROP", "CROSS", "ADD"}

\* A name in backticks or brackets is a name as one without; a keyword without a
\* type of its own keeps its spelling, and the parser asks for that.
normalizeToken(kind, value) ==
    LET word == IF Len(value) = 1 THEN toUpper(value[1]) ELSE ""
    IN  CASE kind = "word" /\ word \in keywords -> Keyword(word)
          [] kind \in {"backtick", "bracket"} /\ word \in identifierKeywordType -> Keyword(word)
          [] kind \in {"word", "backtick", "bracket"} -> <<"identifier", value>>
          [] OTHER -> <<kind, value>>

preprocessTokens(t, reading) ==
    LET tokens == SelectSeq(reading.tokens, IsToken)
        Pieces(token) ==
            LET value    == Value(t, token)
                expanded == expandCompoundToken(token.kind, value)
            IN  IF expanded # <<>> THEN expanded ELSE <<normalizeToken(token.kind, value)>>
    IN  FlattenSeq([i \in DOMAIN tokens |-> Pieces(tokens[i])])
=============================================================================
