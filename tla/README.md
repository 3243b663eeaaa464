# GoSQLX in TLA+

This directory specifies the parts of GoSQLX whose correctness depends on
order, sharing, failure, long sequences of calls, or on several pieces of code
that read or write the same thing each in its own way. TLC checks the modules on
small instances, and TLAPS proves the safety properties of every state machine
among them, two refinements, and how the tokenizer covers a text, for every value
of the constants. Line numbers refer to the repository's source;
paths below `pkg/` are given without `src/pkg/`.

1. [The system](#1-the-system)
2. [Modules](#2-modules)
3. [Runs, bounds and what they show](#3-runs-bounds-and-what-they-show)
4. [Fairness](#4-fairness)
5. [Proofs](#5-proofs)
6. [Where code and comments disagree](#6-where-code-and-comments-disagree)
7. [What is not modelled](#7-what-is-not-modelled)
8. [Plan](#8-plan)

## 1. The system

GoSQLX is a SQL library (tokenizer, parser, AST, printers, analyses) with a
language server, a command line, an MCP server and bindings around it. A call
`gosqlx.Parse(sql)` borrows a tokenizer and a parser from their pools,
tokenizes, preprocesses the tokens, runs the statement loop of the parser, which
allocates nodes, and returns the AST; the caller gives the nodes back with
`ReleaseAST`. The library has no goroutines of its own: concurrency enters
through callers that share the pools, through the timers of the language server
and of `gosqlx watch`, and through the requests of the MCP server.

Most of the code is not concurrent at all. It is a grammar of some 130
parse functions and, around the tree they build, a dozen tools written by hand
over the same seventy node types: three printers, the release, the visitor, the
collectors, the renaming of tables, the validators, the linter, the advisor. What
goes wrong there is that one of them does not know what another one does, and no
test compares them.

| Component | State it keeps | Operations | Interacts with | What is hard | What makes it correct | Here |
|---|---|---|---|---|---|---|
| AST pools and release guard (`sql/ast/pool*.go`) | the node pools, `poolGuard.released` per node, counters | Get, Put, `ReleaseAST`, `PutExpression` | parser, every caller; shared by all goroutines | aliased nodes released twice, in any interleaving; release order | one owner per node, pooled at most once, nothing lost | `AstPool` |
| Work queue of `PutExpression` | queue, depth, `poolLeakCount` | pop, overflow, drain | node pools | limits and off-by-one at the caps | every node released once, the count right | `AstDrain` |
| What a release reaches (`sql/ast/pool*.go`, type by type) | none | one Put function per type | AST nodes | a type or a field without a case | every node the visitor knows goes back, empty | `SqlWalkers` |
| Parser loops (`sql/parser/parser.go`, `recovery.go`) | `tokens`, `currentPos`, `strict`, `ctx` of a pooled `Parser` | `Parse`, `ParseContext`, `ParseWithRecovery`, `PutParser` | AST pool, grammar | three loops that must agree; errors half-way; cancellation | same reading of a stream, no lost statements, no leaks, termination | `ParserLoop` |
| Top-level API (`gosqlx/`, `sql/parser/validate.go`) | none between calls | the functions that parse or validate | tokenizer and parser pools, loops | one text of many failing, a late deadline, a reader that fails | they judge alike; everything borrowed goes back | `GosqlxApi` |
| Expression grammar (`sql/parser/expressions*.go`) and its printing | none | parse, print | tokenizer, every analysis | precedence, `BETWEEN`'s `AND`, prefix `NOT` | the tree an expression denotes; round trips | `ExprSyntax` |
| Statement grammar (`sql/parser/*.go`) | the cursor | one parse function per clause, per dialect | loops, AST | optional clauses in any combination; words that mean two things | what is accepted is in the tree | `SqlForms`, `TableRules` to `UtilityRules` |
| Printers (`sql/ast/sql.go`, `formatter/render.go`, `cmd/gosqlx/cmd/sql_formatter.go`) | none | tree to text, three times | grammar, transforms, files on disk | a clause one of them does not know vanishes | the text is read back as the tree; a second run changes nothing | `SqlPrinters` |
| Transforms (`transform/`) | none | edit one clause; rename; qualify | grammar, printers | an edited tree that is no statement | what is printed is read as what was meant | `SqlEdits`, `SqlWalkers` |
| Visitor, extraction, fingerprint, schema checks | none | one walk over a tree | AST | places a hand-written walk forgets | each sees what the visitor sees | `SqlWalkers` |
| Advisor, linter rules on trees, analyzer | rule lists | one walk over a tree | AST, printers | the same warning written three times | no contradiction, nothing escapes by its place | `SqlAdvice` |
| Tokenizer and preprocessing (`sql/tokenizer`, `sql/parser/preprocess.go`) | position, dialect, comments of a pooled `Tokenizer` | scan a token; normalise types, split compounds | parser, language server | quotes of five kinds, nested comments, dollar tags, numbers | one reading of a text | `SqlScanner` |
| Splitter, lint fixes, language server answers | none | cut a text, change it, point into it | tokenizer, editor | each has a scanner of its own | all of them see the tokens of the tokenizer | `TextTools`, `SqlText` |
| LSP documents and diagnostics (`lsp/handler.go`, `documents.go`) | documents, debounce timers | didOpen, didChange, didSave, didClose, timer callback | editor, session, parser | callbacks against the message loop, lost notifications; positions in UTF-16 against bytes | diagnostics belong to the text they are shown for; the copy is the text | `LspDiagnostics`, `DiagnosticsService`, `SqlText` |
| LSP session (`lsp/server.go`) | input stream, rate limit window, shutdown flag | read a frame, limit, dispatch, answer, exit | editor, handlers | damaged frames, cut input, limit races | every request answered once and in order | `LspSession` |
| Tokenizer pool (`sql/tokenizer/pool.go`) | dialect of each pooled tokenizer | Get, SetDialect, Put with Reset | every caller | what Reset leaves | a borrower gets a tokenizer as new | `SqlText` |
| Configuration cache (`config/cache.go`) | entries by path, with modification and load times | load through the cache, invalidate, clear | file system, other writers | stat and read are two steps | a hit is what the file holds | planned |
| `gosqlx watch` (`cmd/watch.go`) | watched files, debounce map | file event, callback, Close | file system, formatter | the callback's late delete | one run per pause, the last content processed | planned |
| MCP rate limiter (`mcp/ratelimit.go`) | bucket per address, active requests | allow, cleanup | HTTP middleware | cleanup against allow | no address above its limit | planned |
| Keywords, dialects, models | tables, read-only after init | lookups | tokenizer, parser | — | data | no |
| Transpiler | none | rewrite a tree for another dialect | AST, printers | chains of rules per pair of dialects | meaning preserved | no |
| Errors, suggestion cache, metrics, monitor | counters, one locked map | record, read, evict | everywhere | lost updates of minimum and maximum | counts | no |
| Other commands, MCP tools, bindings, WASM, extension | none between calls | one-shot calls | the packages | — | — | no |

`PROJECT.json` lists every component with its sources, and every hazard with
the line where it bites and the property that would catch it.

## 2. Modules

    AstPool ..> NodeLifecycle     LspDiagnostics ..> DiagnosticsService
      AstPoolProofs                 LspDiagnosticsProofs
    AstDrain                      ParserLoop <- GosqlxApi
      AstDrainProofs                ParserLoopProofs <- GosqlxApiProofs
    LspSession                    ExprSyntax
      LspSessionProofs

    SqlForms <- TableRules <- SelectRules <- ExpressionRules <- DmlRules
             <- DdlRules <- UtilityRules          the grammar
             <- SqlPrinters <- SqlWalkers <- SqlAdvice <- SqlEdits   the tools
             <- SqlSyntax                         the state machine

    SqlScanner <- TextTools <- SqlText            texts, byte by byte
                                 SqlTextProofs

`<-` is EXTENDS, `..>` a refinement. `SequenceLemmas`, on sequences, induction
and functions defined by recursion, serves `AstDrainProofs` and `SqlTextProofs`.
`MCLspDiagnostics`, `MCAstPool`,
`MCSqlSyntax` and `MCSqlText` hold instances for TLC; the other modules are
checked directly.

### LspDiagnostics, DiagnosticsService (`lsp/handler.go`, `lsp/documents.go`)

The message loop handles one notification at a time. A `didChange` stores the
new text and, under `debounceMu`, stops the recorded timer of the document and
records a new one whose callback has *captured* text and version; 300 ms later
the callback, in a goroutine of its own, removes the map entry of its document
and validates.

| State | Code |
|---|---|
| `documents` | `DocumentManager.documents` |
| `debounceTimers` | `Handler.debounceTimers` |
| `timer[t]`, `job[t]` | phase of a timer and its callback; what its closure captured |
| `handling` | the publication the loop is about to send |
| `client`, `lastVersion`, `sent` | the editor: its text, its versions and what it had at each |
| `shown` | the last publication the editor received, per document |

`DidOpen`, `DidChange`, `DidSave`, `DidClose` are the handlers, each with the
notification that triggers it; `DropNotification` is the notification the rate
limiter drops; `Expire`, `CallbackUnregister` and `CallbackPublish` are the
three steps of a timer (expiry, critical section, validation and publication).
`SendPublication` separates the loop's write from its handler, because a
callback may publish in between. `Stop` of an expired timer does nothing, as in
Go. A text is a model value; a content change is a function on texts: a
constant one for a full sync, any other for an incremental edit. A publication
carries the text that was parsed for it in place of the list of diagnostics.

`DiagnosticsService` is the abstract specification: publications wait in slots,
each is delivered once, in any order, and a waiting one is withdrawn only by a
later request about its document. `LspDiagnostics!Service` instantiates it with
one slot per timer and one for the loop.

### LspSession (`lsp/server.go`, dispatch of `lsp/handler.go`)

`Run`: read header lines up to a blank one (`ReadHeader`), reject the block
(`RejectHeader`) or read as many bytes as announced (`ReadContent`,
`ReadShort`), stop at end of input (`ReadEOF`), go on after other errors
(`ReadError`); then `CheckRateLimit`, and `Refuse` or `Handle`, which calls
`HandleRequest` or `HandleNotification`. The stream is a sequence of header lines
and bodies; a body has no newline, so when it is read as a header line it takes
the line after it with it. The length a client announces may be that of its body,
less or more, below zero, too much, no number, or missing: of a body that is longer
`ReadContent` leaves the rest in the stream, with one that is shorter it takes a
part of the next frame, and what it got is then no JSON; `make` refuses a negative
length with a panic, which nobody recovers (`Panic`). Time is a counter, and a
window is `RateLimitWindow` ticks. A message is its kind; a response is the message
it answers and one of the `Codes` of `protocol.go`.

### AstPool (`sql/ast/pool.go`, `pool_expression_release.go`, `pool_statement_release.go`)

Goroutines get nodes (`Allocate`; `TakeFromPool` then `ReArm`), attach them
into trees and release roots. `stack[g]` is the rest of a release: the LIFO
work queue of `putExpressionImpl` for expressions, the call stack of the typed
Put functions for statements. The atomic steps are those of the guard: the
compare-and-swap of `guardRelease` together with the walk over the children it
protects, the reset and `Put` of a statement, and, for the three sequence
statements, the whole-struct assignment (`WipeStatement`) and the store that
closes the guard again (`PoolWiped`). `Alias` and `AttachAndKeep` are callers
that break single ownership; `aliases` counts them. Node types differ only in
how they are released: expressions, `ChildrenFirst`, `Wiped`.

`NodeLifecycle` is the abstract specification: a node is fresh, in the hands of
owners, won by the one release that closes its guard, in the pool once, or got
from there by one goroutine that makes it ready; nobody can tell how many refer
to it. `AstPool!Lifecycle` instantiates it: `Won` are the nodes on the stack of a
goroutine whose guard it has closed. It is about the `Guardable` nodes, which are
all as long as callers keep to one owner (`MaxAliases = 0`), and those outside
`Wiped` otherwise.

### AstDrain (`sql/ast/pool_expression_release.go`)

One release of one expression tree, with `MaxWorkQueueSize` and
`MaxCleanupDepth` as constants: a stack of calls of `putExpressionImpl`, each
with its queue and its count. The tree is any ordered tree of up to `MaxNodes`
nodes, numbered level by level: `lastChild[n]` is the last child of the nodes up
to `n`, so the children of a node are an interval and every tree has one
numbering. `StepsLeft` bounds the work ahead: four steps for each node that is
not released, and what the open calls still have to do.

### ParserLoop (`sql/parser/parser.go`, `recovery.go`)

The loops of `parseTokens`, `parseContextTokens` and `parseWithRecovery` on one
pooled parser, called one after another over the same stream. The grammar below
`parseStatement` is an *outcome* for every start position, chosen once: success
or failure, and where the statement parser stopped, which may be behind any number
of semicolons, because some parse functions read up to a parenthesis or to the end
whatever stands in between. The parser is a function of
its tokens, so all entry points meet the same outcomes, which is what allows
their answers to be compared. `Cancel` is the caller's context, `ApplyStrict`
is `WithStrictMode`, `Recycle` is `PutParser` followed by `GetParser`, of a parser
that was configured (another one is the same afterwards).
Actions of an iteration: `CheckContext`, `SkipSemicolon`, `ParseStatement`,
`FailStatement` (with `synchronize` in recovery), `StopOnContext`, `Finish`.
`StopOnContext` is the check inside a statement, in `parseExpression` and
`parseStatement`; what it finds leaves the statement in one of three ways: as the
context's error, as an error of the grammar (`cte.go:48` and some 35 other places
format the inner error with `%v`), or not at all, with the statement parsed to its
end (`pivot.go:358`). So a result has `done`, whether the context was done, and not
only its kind.

### GosqlxApi (`gosqlx/*.go`, `sql/parser/validate.go`)

The functions a user of the library calls, around the loops of `ParserLoop`. A
function is a record of what it does in its own way: the loop it runs, whether
it has a context and looks at it again at the end, whether it takes the option
of strictness, what it says of a blank text, whether it goes over several texts,
what becomes of the tree, and whether it begins with a reader. `Begin` calls one,
`ReadAllBounded`, `Tokenize` or `TokenizeContext`, `Run`, the steps of the loop,
`NextText` and `Finished` are what it does, `Deadline` is its context. `answers`
keeps what each function said and how many trees it took, gave and left.

### ExprSyntax (`sql/parser/expressions*.go`, `sql/ast/sql.go`)

The recursive descent from `parseExpression` to `parsePrimaryExpression` as
operators on token sequences, and the `SQL()` methods as an operator back to
token sequences. One token kind stands for each precedence level; an operand
stands for every primary that brings its own brackets. The state is only the
text, which grows token by token, so that TLC visits every text up to a length.
`Denoted` is the reference: a definition of the tree of a text that cuts it at
its loosest operator, written without the parser's structure.

### The grammar: SqlForms to UtilityRules (`sql/parser/*.go`)

A parse function is a value, a *form*: `SqlForms` has constructors for what the
parse functions are made of (a word that must come, an alternative chosen by the
words at the cursor, a repetition, a list, a node, a flag, the call of another
parse function), and `Run`, which executes a form on a cursor. It never goes
back, as the parser does not. `Run` returns the tree, or the words the parser
could have used where the text ends, which is how texts are made: they grow only
by words that are wanted, so that TLC reaches whole statements.

Each parse function has a definition with its name. `TableRules` has table
references, pivots, `MATCH_RECOGNIZE` and time travel; `SelectRules` queries, set
operations and WITH; `ExpressionRules` operands, calls, windows; `DmlRules`
INSERT, UPDATE, DELETE, MERGE, REPLACE; `DdlRules` CREATE, DROP, TRUNCATE,
REFRESH; `UtilityRules` ALTER, SHOW, DESCRIBE, EXPLAIN, PRAGMA, the Snowflake
stubs, and `parseStatement`, the choice among all. A dialect is a parameter. There
is one name, `x`, one number, `n`, and one string, `s`; the operators between
operands are left to `ExprSyntax`.

### The tools: SqlPrinters, SqlWalkers, SqlAdvice, SqlEdits

A printer is a function from the label of a node to the items it writes, in
order; `SqlPrinters` has `SQL()`, the formatter of the library and the formatter
of the command. A walk is a table of the kids it goes into, by label; `SqlWalkers`
has the visitor, the release, the four collectors of `extract.go`, `ReplaceTable`
and `QualifyColumns`, the two validators and the fingerprint. `SqlAdvice` has the
rules of advisor, linter and analyzer as predicates of a node, and the outline of
the language server. `SqlEdits` has the rules of `transform` that change one
clause; a rule gives the set of the trees it makes, the empty set for an error.

`SqlSyntax` is the state machine: `text` grows word by word (`Type`), `parsed` is
what the parser makes of it, and `again` what it makes of what each printer makes
of the tree. The lists in the middle of the module, `LostByAll` to `LiteralsStay`,
name what each tool overlooks, label by label. They are findings: a reader can
take them as the list of defects of these tools, and the properties say that
there are no others.

### Texts: SqlScanner, TextTools, SqlText

`SqlScanner` has the scan functions of the tokenizer, per dialect, on classes of
bytes, and `preprocessTokens`. A token is a kind and a stretch of the text. A
keyword is one byte; a letter of two bytes is `"wide2", "tail"`, one of four
`"wide4", "low", "tail", "tail"`, and a `Texts` or a typed character is always a
whole letter. The code has three units for a place: bytes (the tokenizer, most of
the server), runes (the word at a position) and the units of UTF-16 (the editor,
by the protocol). `BytePosition` is what the server calls a place, `PositionOf`
what the editor does; the rune of `GetWordAtPosition` is a byte that
`BeginsCharacter`. No code converts between them, so every answer is computed in
the one and read in the other, and so it is here.
`TextTools` has what else reads characters: the statement splitter; the
rules of the linter that go by lines, with their fixes; `positionToOffset`,
`applyChange` and the word at a position in a document; and the answers of the
language server that point into a text (hover, completion, signature help,
semantic tokens, diagnostics and code actions, the outline, formatting). In
`SqlText` the editor types (`Type`), replaces stretches (`EditTwice`), sends the
whole text (`Paste`), and applies the answer to a formatting request (`Format`, as
long as the copy is the text); `doc` is the server's copy, and `narrow` remembers
whether a change since the last whole text was behind a letter of several bytes on
its line. A copy that has become another text is followed up to the length of a
text, a bound in the guard of `Changed`. `Parse` is a call that borrows the pooled
tokenizer.

## 3. Runs, bounds and what they show

| Run | Question | Bounds | Distinct states |
|---|---|---|---|
| `lsp_debounce` | Do timers, callbacks and documents keep text and version together in every interleaving, with a notification lost? Does the server implement the service? | 1 document, 3 timers, 3 versions, 1 drop, 4 texts | 27 716 |
| `lsp_prompt` | Does the debounce do its job when callbacks are never overtaken? | the same, 4 versions, no drop, `Prompt` | 13 562 |
| `lsp_closed_stale` | Does a closed document stay clear in general? It does not. | as above, any interleaving | violation |
| `lsp_session` | Are requests of an undamaged session answered, once and in order, under the limit and when input ends anywhere? | 3 messages of 3 kinds, lengths right, short, long, negative and no number, 1 message per window of 2 ticks, 2 ticks | 506 357 |
| `pool` | With and without broken ownership, is any node pooled twice, lost, shared? Does every node go through its life in order? | 4 nodes (statement, sequence statement, 2 expressions), 2 goroutines, 2 children, 1 alias | 237 464 |
| `pool_sequence_race` | Does exactly one of two racing releases win? Not for sequence statements. | the same, 1 child | violation |
| `drain_complete` | Is every tree released completely, once, within the depth and in steps in proportion to it; is the leak count right? | every tree of up to 7 nodes, cap 2, depth 2 | 3 248 |
| `parser_modes` | Do the entry points of the parser, and the functions above them, agree, answer every piece, account for their trees, keep settings apart, return? | methods: every stream of up to 3 tokens of 4 kinds, every outcome, ends behind semicolons included, 2 calls; functions: texts of up to 2 tokens, 2 calls, batches of 2 | 832 717 |
| `expr_syntax` | Is the tree of an expression the one its operators denote? Do parentheses pin it? Does plain text come back? | every text of up to 7 tokens | 93 962 |
| `statement_syntax` | What do the printers, the transforms and the analyses make of a statement the parser accepts? | 67 profiles in 7 dialects: a beginning, and up to 9 words | 36 731 |
| `text_tools` | Do splitter, fixes and language server see the tokens the tokenizer sees? | 29 profiles: alphabets of 2 to 6 characters, letters of 2 and 4 bytes among them, in 5 dialects, texts of 3 to 9 bytes; edits in two of them | 60 612 |
| `text_pooled_dialect` | Does a call without a dialect get a tokenizer without one? It does not. | the same | violation |

Why the bounds are enough:

- *Diagnostics.* Documents never interact: every handler and callback touches
  the entry of one document, so one document shows all interleavings. Three
  timers give a callback past its critical section, one before it, and an armed
  one at once; a fourth would repeat one of these roles. Three versions let each
  carry a text of its own. The proofs cover any numbers.
- *Session.* Three messages are a damaged frame, the frame it hides and one
  more; or one that fills the window, one that is refused and one in the next
  window. A short length leaves the rest of a body before the second frame, a long
  one takes from it, and the third shows whether reading is in step again. "oversize"
  and "missing" lead through the same branch as a header that is not read, which
  the frames behind damaged ones show.
- *Pool.* Two goroutines race for one guard; four nodes give a statement with an
  expression under an expression, and a shared child. `MaxRefused` only bounds a
  counter. One alias is the first breach; the proofs allow any number.
- *Drain.* With a cap of 2 and depth 2, a tree of 6 nodes is the largest one
  the code promises to release, so 7 nodes lie on both sides of that edge.
- *Parser loops and functions.* A stream of three tokens holds a failed
  statement, a semicolon or starter at which recovery resumes, and a statement
  after it; or one that reads over a semicolon, and what it swallows. The loops
  only look at the present token and at the next stop, so
  longer streams repeat these situations. The functions add nothing that depends
  on the length of a text; two tokens hold a good statement, a bad one, two
  statements and an empty one. A batch of two has a text behind a good one.
- *Expressions.* Seven tokens hold three binary operators on four operands, one
  `BETWEEN` next to another operator, or parentheses around one of two
  operators: each pair of precedence levels in each order.
- *Statements.* A profile is a clause or a statement: the words that can stand
  there, and the text in front of it. The parser, the printers and the walks
  handle one clause at a time, so what goes wrong between clauses needs two of
  them, and the profiles put neighbours together. Every rule of the grammar is
  reached by some profile. What is not explored is three unrelated clauses at
  once.
- *Texts.* An alphabet is a set of characters that mean something to one
  another: the quotes of a dialect, the parts of comments and operators, blanks
  and line ends, brackets and commas. The scanners keep a mode and look at most
  three characters ahead. Letters of several bytes stand in a name, in a dollar
  tag, and on the line before a word, a call, a string, a statement and a change. Two
  limits of the linter are scaled with the texts:
  indentation 1 for 4 levels, lines of 4 for 100 characters.

The runs set `CHECK_DEADLOCK FALSE` because these systems may rightly stop: an
editor that sends nothing, a released tree, a used-up text, a session that
returned, callers that hold no nodes.

Properties worth knowing before changing the code:

- `TimersAreCurrent`: though a late callback deletes the map entry of its
  document whichever timer it records, what *is* recorded is always the newest
  validation, so `Stop` can never cancel the wrong one; pending validations of a
  document are of distinct versions.
- `DiagnosticsDescribeTheirVersionIfNoDrop`: because the closure captures text
  and version, diagnostics with a version are those of the editor's text at that
  version, unless a notification was dropped; the condition is needed.
- `OneArmedTimer`, `ClosedDocumentIsClear` and `OpenDocumentIsCurrent` hold when
  callbacks are prompt (`Prompt`), and each fails without that;
  `lsp_closed_stale` is one such behaviour.
- `GuardHolds`: what the guard gives even when callers break ownership: a node
  is in its pool once, and reads as released there, so a stale caller is refused.
  `NodesAccountedFor`: one owner as long as they keep it, and nothing lost when
  they do not. `OneReleaseWins` is the promise for two racing callers, which
  sequence statements break.
- `ImplementsLifecycle`: the steps in between, too. One release wins a node,
  the goroutine that won it is the one that pools it, and until it is got from
  there and made ready nobody wins it again, whatever references are left.
- `ReleaseIsComplete`: the work queue and its overflow release each node once,
  all of them within the depth, and the leak count tells what was left.
  `NoStepIsInVain`: however often the queue overflows and calls hand leftovers to
  calls, each step brings the end nearer.
- `EntryPointsAgree`: three hand-written loops read a stream alike, including
  empty statements and the position of the first error, and the functions above
  them say the same of a text and find the same statements in it, unless the
  context was done when they answered, whatever the answer, or the text has no
  statement. When it was done, what they found begins where statements do.
- `EveryPieceAnswered`: between two semicolons recovery finds a statement or an
  error; no piece of the text is swallowed by the recovery from another. The
  exception is a piece that the parser of an earlier statement has read into, over
  the semicolon (`ReadInto`; section 6 has a text).
- `NothingIsLeftBehind`: errors and recycled parsers keep nothing behind, and a
  tree is given to the caller or back to the pool, but for three cases that the
  property names.
- `PrecedenceIsTheReference`: the descent builds the tree the operators denote,
  for texts whose prefix `NOT` stands where SQL has it and is not followed by a
  comparison with an arithmetic operator after it (section 6 says what happens
  otherwise). `ParenthesesPinTheTree`: the fully parenthesised text of a tree
  parses to that tree; `PlainTextComesBack`: a text without parentheses,
  `IS NOT` and doubled signs comes back from `SQL()` token for token.
- `WithIsKept`: the WITH clause of an accepted text is in its tree.
- `PrintersKeepTheRest`: whatever clause is not in the lists is printed so that
  the parser reads it back as the same tree, by each of the three printers, and
  also after any of the transforms. A new clause in the parser that a printer
  does not know violates it.
- `PrintingSettles`: formatting what was formatted changes nothing.
- `ReleaseReachesTheRest`: the release, written type by type, reaches what the
  visitor reaches and resets what it reaches; the function of a type does what
  the work queue does for it.
- `ToolsSeeTheRest`, `FingerprintForgetsLiterals`, `WarningsAgree`: the same for
  collectors, renaming, qualification, validators, outline and fingerprint; the
  linter, the advisor and the analyzer do not contradict each other, no unsafe
  statement escapes for the place it stands in, and no warning comes or goes when
  a file is formatted.
- `ServerFollowsTheEditor`: the server's copy is the editor's text after every
  sequence of changes, the second change of a message and the answer to a
  formatting request included, unless one of them was behind a letter of several
  bytes on its line. Then the copy is another text, until the whole text is sent;
  but it always has as many lines as the text, so that no change leads out of it.
- `SplitsLikeTheTokenizer`, `FixesKeepTheTokens`, `EditorSeesTheTokens`: the
  splitter cuts where the tokenizer has a semicolon; the fixes of the linter
  change nothing the parser gets and leave nothing to fix; each answer of the
  server is about the stretch of the text it names, in the units of the editor,
  where no letter of several bytes comes before it on its line. Each excludes named
  cases, which section 6 describes.
- `AnswersInOrder` holds whatever lengths are announced; `EOFReturns` says that the
  end of input ends `Run`, unless it has panicked before.

Every property of a passing run has a mutant in `PROJECT.json`: a definition
changed as a plausible bug would change it, under which TLC finds the property
violated. The mutated definitions stand next to the originals and are marked.

## 4. Fairness

| Module | Fairness | Why the code justifies it |
|---|---|---|
| `LspDiagnostics` | weak, on `SendPublication` and on the steps of each timer | the Go runtime fires timers and schedules runnable goroutines; a handler that computed a publication goes on to write it |
| `LspSession` | weak, on `Run` | one goroutine that is never blocked while input is available; `Tick` and the client have none |
| `AstPool` | weak, per goroutine, on `ReArm` and on the steps of a release | sequential code without blocking; nothing forces a caller to release or to get |
| `AstDrain` | weak, on `Next` | one sequential function |
| `ParserLoop`, `GosqlxApi` | weak, on `Step` and on `GosqlxStep` | sequential code; callers, cancellation, deadlines and recycling have none |

`SqlSyntax`, `SqlText` and `ExprSyntax` state no liveness: their steps are those
of somebody who types. No fairness is assumed of editors, clients, clocks or
callers.

## 5. Proofs

Eight modules, checked by `tlapm` down to every leaf. They rest on nothing but
the named assumptions on the constants, which TLC evaluates on the runs:
`ParametersAssumption`, `NoneAssumption` (texts and changes are what they are
named, `None` and `Loop` are new values), `NodeAssumption` (the kinds of nodes
nest and `NoNode` is none), `LengthsAssumption`, `KindsAssumption`,
`BoundsAssumption`, `SizeAssumption`, `MaxTextAssumption` (sets named in the
code, bounds that are natural numbers), and `ProfilesAssumption` (what is typed in
a profile are `Characters`, by whole letters, and a text begins with such). Where a constant
bounds a model for TLC, the theorem is for every value of it.

| Module | Obligations | Theorems that state a run's property | Others |
|---|---|---|---|
| `LspDiagnosticsProofs` | 1233 | `TypeCorrect`, `TimersAlwaysCurrent`, `DiagnosticsFreshIfNoDrop`, `OneArmedTimerIfPrompt`, `ClosedDocumentIsClearIfPrompt`, `OpenDocumentIsCurrentIfPrompt` | `ImplementsServiceSafety` |
| `LspSessionProofs` | 1274 | `SessionTypeCorrect`, `AnswersAlwaysInOrder`, `BurstNeverMoreThanTwice` | |
| `AstPoolProofs` | 2346 | `NodesAlwaysAccountedFor`, `GuardAlwaysHolds`, `PoolsImplementTheLifecycle` | `TypeCorrect`, `GuardedNodesPooledOnce` |
| `AstDrainProofs` | 2300 | `ReleaseAlwaysComplete`, `NoStepIsEverInVain` | `DrainTypeCorrect` |
| `ParserLoopProofs` | 1436 | `TypeCorrect`, `EveryPieceAlwaysAnswered`, `CancelAlwaysStopsTheLoop` | `ModesAlwaysAgree`, `CallsLeaveNothingBehind` |
| `GosqlxApiProofs` | 958 | `EntryPointsAlwaysAgree`, `NothingIsEverLeftBehind`, `EveryPieceAnsweredThroughApi`, `CancelStopsTheLoopThroughApi` | `ApiTypeCorrect` |
| `SqlTextProofs` | 3661 | `ServerFollows` | `PositionsAgree`, `TokensCoverTheText` |
| `SequenceLemmas` | 275 | | |

Each proof about a specification has an invariant, one lemma per action for it, and
a lemma for every property that follows from it.

**LspDiagnostics.** That the recorded timer is the newest is not inductive: a
`didChange` stops the recorded timer and records another, and for the new one to
be the newest the versions already scheduled must lie below the version the
editor has reached; and for the map entry to name a job of the right document a
timer in use must have one. `IInv` adds `JobsInUse` and
`ScheduledVersionsReached`, and `ScheduledVersionsDistinct` to keep two jobs
apart. On top of it:

- `TypeCorrect`, `RecordedTimerIsAlwaysNewest`,
  `ScheduledVersionsAlwaysDistinct` and their conjunction `TimersAlwaysCurrent`
  follow directly;
- `DiagnosticsFreshIfNoDrop` needs `FreshInv`: without drops the stored
  documents equal the editor's, and whatever is scheduled, handled or shown was
  computed from the text sent at its version; the history `sent` never changes
  below `lastVersion`;
- `OneArmedTimerIfPrompt` needs `PromptInv`: every timer whose callback has not
  begun is the recorded one;
- `ImplementsServiceSafety`: the initial state maps to an initial state of
  `DiagnosticsService`, and each action to a `Request`, a `Deliver` or a
  stutter.

**LspDiagnostics, what the editor sees in the end.** `SettledInv` says of each
document, as long as callbacks are prompt and nothing was dropped: once it is
closed no timer of it is left, and it shows nothing or is about to be cleared
(`ClosedSettles`); while it is open, every timer and every publication about it
carries its present text, and when there is none of either the editor shows that
text's diagnostics (`OpenSettles`). It is inductive only together with `IInv`,
`PromptInv` and `FreshInv`: a `didChange` replaces the text, and the one timer
that carried the old one is the recorded one, which it stops. Both hypotheses
are needed: `lsp_closed_stale` is the counterexample without `Prompt`, and a
dropped `didChange` leaves the server at an older text.

**LspSession.** `SessionInv` has three parts. The bodies in the stream are of
messages in the order they were sent, and come after every message counted,
handled or answered (`ReadingOK`, `CountOK`); so each new answer is of a later
message than all before (`OrderOK`), whatever a damaged frame has swallowed or left
behind: the rest of a body is no body any more, and what a long length takes from
the next frame goes with its message. For
the limiter (`LimitOK`), the messages that passed in the present window are the
last ones of `allowed`, at most the limit; those before passed before it began,
and those more than one limit further back in a window that ended before: hence
any two passes that are twice the limit apart are a window apart
(`SpacingOK`), which is the bound of `BurstAtMostTwice`. Nothing is assumed of
the limit and the window but that they are positive.

**AstPool.** `Guarded(n)`: the places where a node is past its guard (in its
pool, being taken from it, being reset) are at most one, and while it is in any
of them its guard is closed. A release enters only through an open guard and
closes it in the same step; re-arming opens it only for the one goroutine that
took it. The whole-struct reset opens the guard of a node that is still being
released, so this holds for nodes outside `Wiped`: `GuardedNodesPooledOnce`, and
`pool_sequence_race` shows that the exception is necessary.

**AstPool, ownership.** `OwnInv` adds where nodes are. `Located(n)`: a node is fresh,
pooled or referred to from somewhere, and if its guard is closed there is a
reason (it is in its pool, on its way out, or on its way in). `Contract`: as long
as no caller has aliased a node, nothing was refused, no node has two places, and
a fresh or pooled one has none. With a single owner the race of `Wiped` nodes
cannot happen either, so `NodesAlwaysAccountedFor` is about all nodes;
`GuardAlwaysHolds` is about any callers and excludes the nodes of `Wiped`, as the
property of the run does. That `Places` has at most one element is read off
`At`, which names a place by its kind, owner and index.

**AstPool, the life of a node.** Each step of `AstPool` is a step of
`NodeLifecycle`, or none. What has to be shown of it is what the abstract guard
asks: a release that enters finds the node live (`Live`), the goroutine that pools
a node is the one that won it, and it won it once (`WonOnce`: no other frame of
any stack is past that guard, so taking the frame away takes the node out of
`closing`). Both follow because the winner is alone (`WinnerIsAlone`), and that by
one of two arguments (`GuardOrContract`): the guard of a node outside `Wiped` is
closed while it is in any place behind it (`Guarded`), whatever callers do; and
when there are no aliases a node has one place at all (`Contract`). The reset that
opens the guard of a `Wiped` node is a stutter in this case, and in the other such
a node is none of the abstract specification.

**AstDrain.** Nodes are `Reached` when their parent was released. `ReachedOK`:
what is queued or released was reached; `SpreadOK`: what was reached is queued or
released, unless the drain was cut off on a tree above the bound; so when all
queues are empty every child of a released node is released, and with it the
whole tree (`TreeIsConnected`: the least node left out would have its parent
released). Depth and leaks are counting: every call below the innermost has
popped `MaxWorkQueueSize` nodes, all different (`CountOK`), so a call too deep
would need more nodes than there are; and `LeaksOK` keeps a set of the nodes left
over by first passes, apart from a set of `MaxWorkQueueSize` released ones, so that
`leaks` is at most the rest of the tree.

`NoStepIsEverInVain` is the count of `StepsLeft`: four steps for each node not
released, one for each open call below the innermost, and the steps of that one.
A drain opens a call at the cost of its first step, which that call has had in
advance (`StepsOf` is -1 before the first pop); the pop pays it back with the
node it releases, and leaves two, for the overflow and the return. A call that has
not popped its first node has one in its queue, so it cannot return in debt; and
what is popped was not released before (`DrainInv`).

**ParserLoop.** `RunsTo(S, p)`: the statements begun at `S`, and semicolons, are
all there is before `p`. Two such runs through one stream agree as far as both go
(the least position where they differ would be passed by one and not by the
other), and that is all the entry points have to share: `RunningOK` says it of the
call under way, `Judges` of those that have returned, and `ModesAgree` compares
these. Of a call whose context is done nothing can be said by its kind; what is left
is `Begun`, that every statement and error of it stands where a run leads, and so
is one of the statements of a `Parse` that succeeds (`AnswersReport`).
`RecoversTo` is a run up to the first error, and behind it
`PiecesAnswered`: every piece between semicolons that the loop has passed is
among the statements or the errors, because `synchronize` stops at the first
semicolon behind an error, or was read into by a statement that began before it and
ended behind its first token (`ReadInto`), which a statement that reads over a
semicolon does to all the pieces it swallows. `StateOK` has `strict` only where it
was asked for,
and at most one statement completed after cancellation. Induction on the stream
is replaced by the least element of a set of positions (`WFMin`).

**GosqlxApi.** `ApiInv` is `LoopInv`, with `CallersOK` (which step of which
function is under way, and in which state the pooled parser is then) and
`AnswersOK` (what each answer given says of the text, by the same `RunsTo`, and
where its trees are). Actions of the loops keep `LoopInv` by the lemmas of
`ParserLoopProofs`. `EntryPointsAgree` then follows from the uniqueness of runs,
for the answers that are not `Disturbed`, and from `Begun` for those that are.

**SqlText, the server's copy.** `EditorInv` is `CopyOf`: text and copy are of
characters and have as many lines, and they are equal while `narrow` is true. The
number of lines is what makes it inductive: a position names a line and a count in
it, so even when the copy is another text, the server finds the place in the line
that the editor meant (`ServersPlace`, `OffsetIsInItsLine`), the same number of line
ends is cut out, and the same is put in (`LinesReplaced`); had the copy fewer lines,
a change could lie outside it. `Lines` reads
the text byte by byte, so the lines of a prefix begin the lines of the
text (`FrontBegins`), and `LineStart` of the last of them plus its length is the
length of the prefix (`LinesMakeTheText`). Hence `PositionsAgree`: the offset that
`positionToOffset` computes for the line and the *byte* of a place is the place, at
the beginning, in the middle and at the end of a line and of the text; for the line
and the *unit* of UTF-16 it is an earlier one, and the place itself exactly if no
letter of several bytes is before it on its line (`UnitsFacts`). So `applyChange`
cuts where the editor cut, if the change is narrow (`EditReceived`). The positions of
the second change of a message are of the text after the first, and `Update` counts
the lines again in between (`OneChange`, `TwoChanges`), so it is one more such step.

**SqlScanner, the tokens.** `TokensCoverTheText`: when a text of any length is
read without an error, in any dialect, every token has a character, only blanks
and comments stand between two of them, in front of the first and behind the
last, and the last is the end of the text. Each scan function gets a lemma: what
it reads begins where it was called, ends behind that, and not behind the text
(`ReadFrom`). `Close`, `nextToken` and `tokensFrom` are functions that refer to
themselves at later places. That there is such a function at all has to be proved,
as `CHOOSE` says nothing otherwise: `BackwardRecursionExists` builds it from the
end of the text, for a body that only looks ahead (`LooksAhead`). Then
`BackwardInduction` over the places gives what they compute. `OnlyComments` is the
reachability from a place by comments and the blanks behind them. A token of
`TokensCoverTheText` has bytes; that it does not end inside a letter is not stated.

Two techniques make this possible for the installed provers. Induction is stated
for a *set* of numbers instead of a predicate and follows from the least element;
and each body of a recursive function is an operator of its own (`Closing`,
`TokenAt`, `Followed`) that takes the function as a parameter.

Only model-checked, and why:

- all liveness (`ScheduledIsShown`, `RequestIsAnswered`, `EOFReturns`,
  `ReleasedIsPooled`, `Termination`, `EveryCallReturns`), and with it the fairness
  of `ImplementsService`: TLAPS does not reason about `ENABLED` here;
- the invariants of `ExprSyntax` and `SqlSyntax`: the grammar, the printers and the
  walks are recursive operators on trees, and what they compute for every text
  needs induction over these;
- `SplitsLikeTheTokenizer`, `FixesKeepTheTokens` and `EditorSeesTheTokens`: each
  compares what two scanners of some ten modes make of the same text, with the
  exceptions they name. What is proved of the tokenizer is what it does alone.

Every other invariant a run checks is a theorem.

## 6. Where code and comments disagree

Shown by a run (the counterexample is its output):

| Run | What happens |
|---|---|
| `lsp_closed_stale` | `didClose` stops the recorded timer; one that already expired publishes afterwards, and the closed document keeps its diagnostics (`lsp/handler.go:357-371`). |
| `pool_sequence_race` | `*s = CreateSequenceStatement{}` clears the guard a release holds; a second release enters before `s.released.Store(true)`, and both pool the node (`sql/ast/pool.go:1029`, `1056`, `1083`). |
| `text_pooled_dialect` | `Reset` leaves the dialect of a tokenizer and its keywords; the next borrower reads its text in the dialect of the last one (`sql/tokenizer/pool.go:161`; the docs at `:77` and `:110` say it is reset). |

Excluded by name in a property or read in the code while modelling:

- *Language server, documents.* A callback that starts late deletes the entry of
  a newer timer, so the next change does not stop that one
  (`lsp/handler.go:338`); publications of overlapping callbacks may arrive out of
  order (`:412`); an oversize change publishes an empty list and leaves the
  pending timer, whose diagnostics then replace it (`:319`); a save validates an
  oversize text (`:394`); a dropped incremental change leaves the server with
  another text under the editor's version. These are behaviours of
  `LspDiagnostics`; the properties of `lsp_prompt` fail on them when `Prompt` is
  `FALSE`. A change that begins beyond the last line becomes an offset beyond the
  text, and slicing with it panics (`lsp/documents.go:312`).
- *Language server, units.* The editor counts UTF-16 units, the server adds its
  number to offsets in bytes (`lsp/documents.go:308-323`). On a line with é in
  front, what is typed lands one byte too early, in the last letter or inside é, and
  the copy stays another text until the editor sends the whole one. Other answers
  have bytes where the editor reads units: the columns and lengths of tokens
  (`tokenizer.go:1770`, `lsp/handler.go:2155-2157`), the word of the keyword action
  (`:2084`) and the end of a formatted document, which is too far right, so that
  the editor takes the end of the line for it. `GetWordAtPosition` alone counts runes
  (`lsp/documents.go:361`), which are units but for letters of four bytes.
- *Language server, session.* A rejected header block leaves its body in the
  stream; the body and the next `Content-Length` line are read as one line, that
  frame is rejected too, and so on (`lsp/server.go:318-325`). "Rolling window"
  (`lsp/doc.go:430`) is a fixed window, and admits twice the limit in one window
  length (`BurstAtMostTwice` is tight); a lost `exit` leaves the server running
  (`server.go:340`); a read error other than end of input is retried for ever
  (`:279`); an unknown method is answered with `InternalError` (`:379`) where the
  comment says `MethodNotFound` (`:255`); a malformed message over the limit is
  not answered. A negative `Content-Length` passes both checks (`:318`, `:323`) and
  panics in `make` (`:328`), where the comment promises that errors are handled
  gracefully (`:250`). A length that is not that of its body damages the frame
  behind it as well.
- *Language server, answers.* The search for the end of a statement never finds a
  child, because `locBefore` is false of a location that is not set
  (`lsp/handler.go:1531`), so an outline entry ends at the next semicolon even
  inside a string; set operations, REPLACE, SHOW and others are entries named
  "Statement" of kind variable (`:1451`). Semantic tokens take a comment before a
  token for its start, count a tab as four columns, and compute the length of a
  token over several lines from columns alone. `GetWordAtPosition` finds nothing
  behind the last character of a line (`lsp/documents.go:363`), so completion
  there is not filtered and, with 108 keywords and a limit of 100, never offers a
  snippet (`lsp/handler.go:692`). The keyword action capitalises everything up to
  the next blank (`:2078`). The active parameter of signature help is not bounded
  by the number of parameters.
- *Release.* `PoolLeakCount` is documented as the number of overflows
  (`sql/ast/pool.go:40`) and counts the nodes left over
  (`pool_expression_release.go:554`). `releaseStatement` has no case for a set
  operation, and ALTER's function releases nothing of its operation
  (`Leaked`); a function call keeps its order, its WITHIN GROUP and its
  parameters, and a CREATE TABLE its periods and versioning (`Stale`). The parser
  itself takes only the AST and few nodes from pools, so most of what is pooled is
  never handed out again.
- *Parser.* A statement may swallow others: the block of `SAMPLE` and `TABLESAMPLE`
  is skipped up to its parenthesis or to the end, and succeeds either way
  (`select_subquery.go:146-163`), so `SELECT x FROM x TABLESAMPLE ( ; SELECT x` is one
  statement for all entry points, and the second one is neither parsed nor reported;
  `AFTER` and `PATTERN` of `MATCH_RECOGNIZE` (`match_recognize.go:147`, `:173`) and
  the stubs of Snowflake (`parser.go:838-856`) read over semicolons in the same way.
  `ParseContext` promises the context's own error, for `errors.Is`
  (`parser.go:421`, `:435`, `:510-513`); when the context is done inside WITH, the
  error is written with `%v` into an `InvalidCTEError` (`cte.go:48-52`, `:73-78`,
  `:228-233`), and BETWEEN, CASE, IN, VALUES, ON and others do likewise, so that it
  looks like a mistake in the text; inside a time travel clause it is dropped, and the
  statement is parsed to its end (`pivot.go:358`).
  `WithStrictMode` is honoured by `parseTokens` only. `NOT x = y * z`
  is read as `(NOT x = y) * z`, since `NOT` is a primary expression that takes
  a comparison (`expressions_literal.go:379-430`; compare `parser/doc.go:158`).
  The right side of a comparison is a primary expression, so `a = b + 1` is
  rejected. WITH in front of a chain of set operations is dropped
  (`cte.go:91`). ALTER without a name is accepted, with the empty name
  (`parser.go:1027`). `RecoveryResult.Release` gives back the parser and not the
  statements.
- *Functions.* `WithStrict` of `gosqlx` has no effect, because `ParseTree` runs
  `parseContextTokens`, which never looks at `p.strict` (`options.go:115-118`);
  `WithRecovery` promises a tree with the statements that could be parsed
  (`options.go:165-171`) and `ParseTree` returns none (`tree.go:292-295`).
  `ValidateBytes` refuses a blank text and `ValidateBytesWithDialect` accepts it.
  `Format` and `ValidateMultiple` never release their trees, `ParseMultiple` drops
  the earlier trees of a batch when a later query fails (`gosqlx.go:426`), and
  `ParseWithTimeout` one that is done when the deadline has passed (`:249`).
- *Printers.* `SQL()` prints no parentheses: `(x OR x) AND x` comes back as
  `x OR x AND x` (`sql/ast/sql.go:187`). `x IS NOT NULL` is printed as
  `x IS NULL`: the node is told by its operator and a flag, and the printer
  returns before it looks at the flag (`:173`). `- - x` is printed as `--x`,
  which is a comment. `SelectStatement.SQL` has no QUALIFY, TOP or SAMPLE
  (`:533`). The formatter of the command deletes locks, windows, FETCH, upserts,
  RETURNING and table constraints from files it rewrites
  (`cmd/sql_formatter.go:118`). The lists `LostByAll` to `CliUnread` are
  complete within the grammar that is modelled.
- *Transforms.* `AddTableAlias` on UPDATE and DELETE prints text the parser
  refuses, though `transform.go:217` calls `FormatSQL` the inverse of `ParseSQL`;
  a clause added to a SELECT without FROM, LIMIT in the dialects without it, and
  the removal of the last column or assignment make no statement
  (`EditUnread`). `RemoveColumn` says it removes the first match and removes all;
  `AddWhereFromSQL` and `AddJoinFromSQL` drop what stands behind the condition or
  the first join; a condition added to one with OR is printed without the
  parentheses it needs. `QualifyColumns` gives the columns of a subquery the
  table of the outer query; `ReplaceTable` leaves the names below an alias, a
  function call, WITH, HAVING and others (`Unrenamed`). LIMIT of UPDATE and DELETE
  is read and dropped by the parser (`dml_update.go:107`).
- *Analyses.* The validators do not look into subqueries, ORDER BY or RETURNING
  (`Unvalidated`); LIMIT, INTERVAL, TOP and the numbers of a sequence stay in a
  fingerprint (`LiteralsStay`).
- *Texts.* The splitter nests comments in PostgreSQL, where the tokenizer ends them
  at the first `*/`; it knows a backslash in E-strings only, the tokenizer in all
  strings (`tokenizer.go:1043`); it does not know dollar quotes, backticks and
  triple quotes outside its own dialects, takes the minus signs of `#--`
  for a comment, and has ASCII letters only in a dollar tag
  (`splitter.go:322-333`), where the tokenizer takes any letter: `$é$;$é$` is a string
  for one and two pieces for the other (`SplitterIsOther`). Compound keywords are
  matched by value
  whatever the token is, so the string `'GROUP BY'` becomes two keywords
  (`preprocess.go:93-125`), and a quoted name that is one of some words becomes a
  keyword (`:150`); `cross join` in lower case is not a keyword
  (`:104-124`). The fixes of the linter change strings over several lines, and
  text in backticks, brackets or dollar quotes (`FixesAreBlind`;
  `trailing_whitespace.go:117` says that a fix changes no semantics).
- *Configuration cache.* The file is read first and stat'ed afterwards
  (`config/cache.go:219`, `:97`); a write in between files the old settings
  under the new modification time, and they are served until the TTL, where the
  comment (`:31-34`) promises a refresh on the next access.

## 7. What is not modelled

- *Names and values.* There is one name, one number and one string in a
  statement. What depends on which name it is, such as a column that exists or not
  in a schema, a constraint, a duplicate alias, a reserved word, is left out, and
  so are the rules of advisor and linter that compare names or look at operators
  (`NOT IN` with NULL, OR in place of IN, leading wildcards, functions on columns),
  and scores. The quoting and escaping of literals and identifiers by the
  printers is left out, too.
- *Statements and operators together.* `ExprSyntax` has the operators between
  operands and `SqlSyntax` the operands between clauses; a text with both is in
  neither. The loops take a statement for an outcome (`ParserLoop`).
- *Layout.* Where a printer breaks lines, and the wording of messages and hovers.
  `AddSemicolon` and the other options of layout.
- *Transpiler* and the normalisation of SELECT for a dialect: chains of rewriting
  rules per pair of dialects, whose meaning is a matter of these dialects.
- *Security scanner:* patterns on words and text, without an order or state of
  its own.
- *Limits* on the size of a text, the number of tokens and the depth of nesting,
  the recovery from a panic in the tokenizer, memory exhaustion, and the garbage
  collector's choice to empty a `sync.Pool`: a pool that forgets a node only makes
  `TakeFromPool` rarer.
- *Configuration cache, watch mode, MCP rate limiter:* concurrent, and planned
  (section 8).
- *Tables* of keywords and dialects, error values, counters of the metrics, the
  C and Python bindings, WASM, the editor extension, one-shot commands and MCP
  tools: data, or calls that are passed on. `PROJECT.json` names each with its
  reason.

Abstractions to keep in mind: a publication is written in one step, because
`sendMessage` holds `writeMu` over header and body; a callback's validation is
one step with its publication, because it reads nothing shared; a release step
of an expression joins the guard and the pooling, because nothing of the node
is visible to others in between except through the guard; a character class
stands for its members, a keyword is one byte, and the letters of three bytes, which
are one unit like those of two, are not among the classes.

## 8. Plan

Built, in the order of importance: diagnostics of the language server (the one
component with goroutines and shared maps of its own), the release guard (shared
by every user), the session, the parser loops, expressions; then the functions of
the library around the loops, the grammar of all statements with the printers,
walks, warnings and transforms over its trees, and the tokenizer with everything
else that reads the text.

Proved: every invariant of these that a run checks, but for the trees, whose
operators are recursive, and the comparisons of two scanners (section 5); the
refinements of `DiagnosticsService` (its safety) and `NodeLifecycle`; of the
tokenizer, that it covers a text.

Next, proving more:

1. A specification of the session in which requests are answered in order, each
   at most once, that `LspSession` implements.
2. That the pieces of the splitter cover a text, as the tokens do; then, from
   both, `SplitsLikeTheTokenizer` for texts without quotes.
3. `PlainTextComesBack` of `ExprSyntax`, with the parser as a function of level
   and place like `nextToken`, and trees as a function of their depth.

Further components, each a small module:

1. `ConfigCache`: load, stat, store and evict against writers of the file; "a
   hit is the file's content at some time within the TTL", and the promise of
   the comment as a violation run.
2. `WatchDebounce`: events, timers, callbacks that delete their entry after the
   work, Close; abstract specification shared with `DiagnosticsService` if the
   refinement goes through.
3. `McpRateLimit`: bucket, window, load levels and the cleanup goroutine.
4. `LspWriter`: header and body of messages of the loop and of callbacks.
