---------------------------- MODULE ParserLoop ----------------------------
(***************************************************************************)
(* The statement loops of pkg/sql/parser: Parse (parseTokens),             *)
(* ParseContext (parseContextTokens) and ParseWithRecovery                 *)
(* (parseWithRecovery), run one after another on one pooled Parser over    *)
(* the same token stream.                                                  *)
(*                                                                         *)
(* A token is its kind, as far as the loops tell kinds apart.  What the    *)
(* grammar does with the tokens of a statement is abstracted to an outcome *)
(* chosen once per start position: success or failure, and the position    *)
(* at which the statement parser gave up control.  The parser is a         *)
(* function of its tokens, so every call meets the same outcomes.          *)
(* Positions count from 1; the position after the last token is the EOF    *)
(* sentinel that advance() leaves in currentToken.                         *)
(***************************************************************************)
EXTENDS Naturals, Sequences, FiniteSets, FiniteSetsExt

CONSTANTS
    MaxTokens,      \* bound on the length of the token stream
    MaxCalls        \* bound on the calls made, each to another entry point

ASSUME BoundsAssumption == MaxTokens \in Nat /\ MaxCalls \in Nat

Semi == ";"
EOF  == "EOF"

\* Kinds parseStatement dispatches on; "select" stands for the kinds that
\* also end a synchronisation, "show" for those that do not.
Dispatched == {"select", "show"}

\* Kinds at which synchronize stops; "grant" stands for the kinds of that list
\* (GRANT, SET, BEGIN, ...) that parseStatement has no case for.
Starters == {"select", "grant"}

Kinds == Dispatched \cup Starters \cup {"word", Semi}

Modes == {"parse", "context", "recovery"}

VARIABLES
    tokens,     \* the token stream (p.tokens)
    outcome,    \* position -> what the grammar does with a statement begun there
    strict,     \* p.strict
    ctx,        \* TRUE when p.ctx is set
    pos,        \* p.currentPos
    mode,       \* the entry point running, "idle" between calls
    checked,    \* TRUE when this iteration's ctx.Err() checks are behind us
    stmts,      \* start positions of the statements parsed by this call
    errs,       \* start positions of the errors recorded by this call
    asts,       \* ASTs taken from the pool and not given back, per entry point
    cancelled,  \* the caller's context is done
    results,    \* entry point -> what its call returned
    asked,      \* history: this borrower of the parser applied WithStrictMode
    late        \* history: statements parsed after the context was done

vars == <<tokens, outcome, strict, ctx, pos, mode, checked, stmts, errs, asts,
          cancelled, results, asked, late>>
input == <<tokens, outcome>>

Length == Len(tokens)

\* advance() past the last token leaves the zero token, whose type is EOF.
KindAt(p) == IF p \in 1..Length THEN tokens[p] ELSE EOF

\* Positions of the next token satisfying S at or after p, and of the EOF.
NextAt(p, S) == Min({q \in p..(Length + 1) : KindAt(q) \in S \cup {EOF}})

-----------------------------------------------------------------------------
(* The grammar, as far as the loops see it.                                *)

\* A statement parser consumes its keyword and then some tokens; it succeeds or
\* fails wherever it stops.  A semicolon does not always stop it: a SAMPLE block
\* is read up to its parenthesis, AFTER and PATTERN of MATCH_RECOGNIZE and the
\* stubs of Snowflake likewise, or up to the EOF.
Outcomes(ts) ==
    {f \in [1..Len(ts) -> [ok : BOOLEAN, end : 1..(Len(ts) + 1)]] :
        \A i \in 1..Len(ts) :
            IF ts[i] \in Dispatched THEN f[i].end > i ELSE f[i] = [ok |-> FALSE, end |-> i]}

TokenStreams == UNION {[1..n -> Kinds] : n \in 0..MaxTokens}

\* Mutant: synchronize drops a token before it looks.
SyncFromNext(p) ==
    LET stop == NextAt(IF p <= Length THEN p + 1 ELSE p, Starters \cup {Semi})
    IN  IF KindAt(stop) = Semi THEN stop + 1 ELSE stop

\* synchronize: past the next semicolon, or to the next starter keyword.
SyncFrom(p) ==
    LET stop == NextAt(p, Starters \cup {Semi})
    IN  IF KindAt(stop) = Semi THEN stop + 1 ELSE stop

-----------------------------------------------------------------------------
Returned(m, kind, ss, es) ==
    [kind |-> kind, stmts |-> ss, errs |-> es, strict |-> asked, live |-> asts'[m],
     done |-> m = "context" /\ cancelled]

\* Mutant: the deferred clearing of p.ctx is lost.
ReturnKeepingCtx(kind, ss, es) ==
    /\ results' = [results EXCEPT ![mode] = <<Returned(mode, kind, ss, es)>>]
    /\ mode' = "idle"
    /\ checked' = FALSE /\ stmts' = {} /\ errs' = {} /\ late' = 0
    /\ UNCHANGED <<input, strict, ctx, pos, cancelled, asked>>

\* The entry point returns: p.ctx is cleared by parseContextTokens's defer.
Return(kind, ss, es) ==
    /\ results' = [results EXCEPT ![mode] = <<Returned(mode, kind, ss, es)>>]
    /\ mode' = "idle"
    /\ ctx' = IF mode = "context" THEN FALSE ELSE ctx
    /\ checked' = FALSE /\ stmts' = {} /\ errs' = {} /\ late' = 0
    /\ UNCHANGED <<input, strict, pos, cancelled, asked>>

\* Mutant: the AST is released by a defer as well as on the error path.
ReleaseASTTwice == asts' = [asts EXCEPT ![mode] = IF mode = "recovery" THEN @ ELSE @ - 2]

\* The error paths of parseTokens and parseContextTokens release the AST they
\* took from the pool; parseWithRecovery never takes one.
ReleaseAST == asts' = [asts EXCEPT ![mode] = IF mode = "recovery" THEN @ ELSE @ - 1]

Fail(kind, es) == ReleaseAST /\ Return(kind, {}, es)

-----------------------------------------------------------------------------
AtEnd == pos > Length \/ KindAt(pos) = EOF

\* Within the bound there is a call to come: what happens when the last one has
\* returned is of no consequence.
CallsLeft == Cardinality({n \in Modes : results[n] # <<>>}) < MaxCalls

\* The caller's context is cancelled or its deadline passes; once ParseContext
\* has returned, and while another entry point runs, nobody looks at it.
Cancel ==
    /\ ~cancelled /\ results["context"] = <<>> /\ CallsLeft
    /\ mode \in {"idle", "context"}
    /\ cancelled' = TRUE
    /\ UNCHANGED <<input, strict, ctx, pos, mode, checked, stmts, errs, asts,
                   results, asked, late>>

\* WithStrictMode applied by the borrower of the parser, for a Parse to come.
ApplyStrict ==
    /\ mode = "idle" /\ ~asked /\ results["parse"] = <<>> /\ CallsLeft
    /\ strict' = TRUE
    /\ asked' = TRUE
    /\ UNCHANGED <<input, ctx, pos, mode, checked, stmts, errs, asts, cancelled,
                   results, late>>

\* PutParser resets the parser; the next GetParser hands it to another caller.
\* (A parser nobody has configured is the same after as before.)
Recycle ==
    /\ mode = "idle" /\ (strict \/ ctx) /\ CallsLeft
    /\ strict' = FALSE
    /\ ctx' = FALSE
    /\ pos' = 1
    /\ asked' = FALSE
    /\ UNCHANGED <<input, mode, checked, stmts, errs, asts, cancelled, results, late>>

\* An entry point is called.  ParseContext looks at the context before it
\* touches the parser.
Call(m) ==
    /\ mode = "idle" /\ results[m] = <<>> /\ CallsLeft
    /\ stmts' = {} /\ errs' = {}
    /\ checked' = FALSE /\ late' = 0
    /\ IF m = "context" /\ cancelled
       THEN /\ results' = [results EXCEPT ![m] =
                   <<[kind |-> "ctx", stmts |-> {}, errs |-> {},
                      strict |-> asked, live |-> asts[m], done |-> TRUE]>>]
            /\ UNCHANGED <<pos, ctx, mode, asts>>
       ELSE /\ mode' = m
            /\ pos' = 1
            /\ ctx' = (ctx \/ m = "context")
            /\ asts' = [asts EXCEPT ![m] = IF m = "recovery" THEN @ ELSE @ + 1]
            /\ UNCHANGED results
    /\ UNCHANGED <<input, strict, cancelled, asked>>

\* parseContextTokens looks at the context at the top of every iteration, and
\* parseStatement looks again before it starts.
ChecksContext == mode = "context" \/ (ctx /\ KindAt(pos) # Semi)

\* Recovery would take a context error for an error of the statement.
ContextError ==
    IF mode = "recovery"
    THEN /\ errs' = errs \cup {pos}
         /\ pos' = SyncFrom(pos + 1)
         /\ UNCHANGED <<input, strict, ctx, mode, checked, stmts, asts, cancelled,
                        results, asked, late>>
    ELSE Fail("ctx", {})

CheckContext ==
    /\ mode # "idle" /\ ~AtEnd /\ ~checked /\ ChecksContext
    /\ IF cancelled
       THEN ContextError
       ELSE /\ checked' = TRUE
            /\ UNCHANGED <<input, strict, ctx, pos, mode, stmts, errs, asts,
                           cancelled, results, asked, late>>

\* The body of an iteration may run.
InBody == mode # "idle" /\ ~AtEnd /\ (ChecksContext => checked)

\* A semicolon between statements; only parseTokens asks for strict mode.
SkipSemicolon ==
    /\ InBody /\ KindAt(pos) = Semi
    /\ IF mode = "parse" /\ strict
       THEN Fail("strict", {})
       ELSE /\ pos' = pos + 1
            /\ checked' = FALSE
            /\ UNCHANGED <<input, strict, ctx, mode, stmts, errs, asts, cancelled,
                           results, asked, late>>

\* A statement that ends at a position is parsed, and the semicolon that follows
\* is consumed.
Parsed(end) ==
    /\ stmts' = stmts \cup {pos}
    /\ pos' = IF KindAt(end) = Semi THEN end + 1 ELSE end
    /\ late' = IF ctx /\ cancelled THEN late + 1 ELSE late
    /\ UNCHANGED <<input, strict, ctx, mode, errs, asts, cancelled, results, asked>>

\* Mutant: the context is looked at before the first statement only.
ParseStatementUnchecked ==
    /\ InBody /\ KindAt(pos) # Semi
    /\ outcome[pos].ok
    /\ Parsed(outcome[pos].end)
    /\ UNCHANGED checked

\* parseStatement succeeds.
ParseStatement ==
    /\ InBody /\ KindAt(pos) # Semi
    /\ outcome[pos].ok
    /\ Parsed(outcome[pos].end)
    /\ checked' = FALSE

\* Mutant: the forced advance is missing.
AfterFailureStuck == outcome[pos].end

\* Where the failed statement parser left the parser, moved on by one token
\* when it had not moved at all.
AfterFailure == IF outcome[pos].end = pos THEN pos + 1 ELSE outcome[pos].end

\* Mutant: the error is filed under the token the parser stopped at.
FailStatementMisplaced ==
    /\ InBody /\ KindAt(pos) # Semi
    /\ ~outcome[pos].ok
    /\ IF mode = "recovery"
       THEN /\ errs' = errs \cup {Min({outcome[pos].end, Length})}
            /\ pos' = SyncFrom(AfterFailure)
            /\ UNCHANGED <<input, strict, ctx, mode, checked, stmts, asts, cancelled,
                           results, asked, late>>
       ELSE Fail("syntax", {pos})

\* parseStatement fails: recovery records the error and synchronises, the
\* other two release the AST and return the error.
FailStatement ==
    /\ InBody /\ KindAt(pos) # Semi
    /\ ~outcome[pos].ok
    /\ IF mode = "recovery"
       THEN /\ errs' = errs \cup {pos}
            /\ pos' = SyncFrom(AfterFailure)
            /\ UNCHANGED <<input, strict, ctx, mode, checked, stmts, asts, cancelled,
                           results, asked, late>>
       ELSE Fail("syntax", {pos})

\* parseExpression, or parseStatement below WITH, finds the context done inside
\* the statement.  Its error comes out as it is; or as the text of an error of the
\* grammar, below WITH, BETWEEN, CASE, IN, VALUES, ON and others; or, in a time
\* travel clause, it is taken for a bare keyword, and the statement goes on.
StopOnContext ==
    /\ InBody /\ KindAt(pos) \in Dispatched
    /\ ctx /\ cancelled
    /\ \/ ContextError
       \/ mode # "recovery" /\ Fail("syntax", {pos})
       \/ checked' = FALSE /\ \E end \in pos + 1..Length + 1 : Parsed(end)

\* Mutant: the AST of an empty stream is not released.
FinishLeaking ==
    /\ mode # "idle" /\ AtEnd
    /\ UNCHANGED asts
    /\ IF stmts = {} /\ mode # "recovery"
       THEN Return(IF mode = "parse" /\ strict THEN "strict" ELSE "empty", {}, {})
       ELSE Return("ok", stmts, errs)

\* The stream is used up.  No statement is an error, except for recovery.
Finish ==
    /\ mode # "idle" /\ AtEnd
    /\ IF stmts = {} /\ mode # "recovery"
       THEN Fail(IF mode = "parse" /\ strict THEN "strict" ELSE "empty", {})
       ELSE UNCHANGED asts /\ Return("ok", stmts, errs)

-----------------------------------------------------------------------------
Init ==
    /\ tokens \in TokenStreams
    /\ outcome \in Outcomes(tokens)
    /\ strict = FALSE /\ ctx = FALSE /\ pos = 1
    /\ mode = "idle" /\ checked = FALSE
    /\ stmts = {} /\ errs = {}
    /\ asts = [m \in Modes |-> 0]
    /\ cancelled = FALSE
    /\ results = [m \in Modes |-> <<>>]
    /\ asked = FALSE /\ late = 0

Step == CheckContext \/ SkipSemicolon \/ ParseStatement \/ FailStatement
            \/ StopOnContext \/ Finish

Next == Cancel \/ ApplyStrict \/ Recycle \/ (\E m \in Modes : Call(m)) \/ Step

\* The loops are sequential code: a call that can go on goes on.  Callers and
\* contexts owe nothing.
Spec == Init /\ [][Next]_vars /\ WF_vars(Step)

-----------------------------------------------------------------------------
(* Properties.                                                             *)

Positions == 1..Length

\* A call has returned.
Done(m) == results[m] # <<>>
Result(m) == results[m][1]

TypeOK ==
    /\ tokens \in Seq(Kinds)
    /\ outcome \in [Positions -> [ok : BOOLEAN, end : 1..(Length + 1)]]
    /\ strict \in BOOLEAN /\ ctx \in BOOLEAN /\ checked \in BOOLEAN
    /\ cancelled \in BOOLEAN /\ asked \in BOOLEAN
    /\ pos \in Nat \ {0}
    /\ mode \in Modes \cup {"idle"}
    /\ stmts \subseteq Positions /\ errs \subseteq Positions
    /\ asts \in [Modes -> Nat]
    /\ DOMAIN results = Modes
    /\ late \in Nat

\* The three entry points read a stream alike: when Parse accepts it, recovery
\* finds the same statements and no error; when Parse rejects it, recovery's
\* first error is the one Parse stopped at; when there is nothing to parse,
\* recovery finds nothing either; and ParseContext, unless its context was
\* done, answers as lenient Parse does (parser.go:301, 482, recovery.go:179).
\* When it was, the answer may be any, but what it speaks of begins where a
\* statement does.
ModesAgree ==
    /\ Done("parse") /\ Done("recovery") =>
        LET p == Result("parse")  r == Result("recovery")
        IN  /\ p.kind = "ok" => r.errs = {} /\ r.stmts = p.stmts
            /\ p.kind = "syntax" => r.errs # {} /\ p.errs = {Min(r.errs)}
            /\ p.kind = "empty" => r.stmts = {} /\ r.errs = {}
    /\ Done("parse") /\ Done("context") =>
        LET p == Result("parse")  c == Result("context")
        IN  /\ ~c.done /\ p.kind # "strict" =>
                   c.kind = p.kind /\ c.stmts = p.stmts /\ c.errs = p.errs
            /\ p.kind = "ok" => c.stmts \cup c.errs \subseteq p.stmts

\* The first token of a piece of the stream between semicolons.
Opens(i) == tokens[i] # Semi /\ (i > 1 => tokens[i - 1] = Semi)

\* The parser of a statement that recovery reports, as parsed or as an error, has
\* read into a piece: past its first token, or up to it and synchronize past it.
ReadInto(ss, es, i) ==
    \/ \E s \in ss \cup es : s < i /\ i < outcome[s].end
    \/ \E s \in es : s < i /\ i = outcome[s].end /\ tokens[i] \notin Starters

\* No error swallows its neighbours: every piece between semicolons is parsed
\* or reported by recovery, and a piece that begins with a good statement is
\* never lost to the errors before it (recovery.go:101, 217-219); but for a piece
\* that the parser of an earlier statement has read into, over the semicolon
\* (select_subquery.go:146, match_recognize.go:147, 173, parser.go:838).
EveryPieceAnswered ==
    Done("recovery") =>
        LET r == Result("recovery")
        IN  \A i \in Positions : Opens(i) =>
                ReadInto(r.stmts, r.errs, i) \/ i \in IF outcome[i].ok THEN r.stmts ELSE r.errs

\* A call that returns an error has given its AST back, and a call that
\* succeeds owns exactly the one it returns (parser.go:323-346, 511-539).
ErrorHoldsNoAST ==
    \A m \in Modes : Done(m) =>
        Result(m).live = IF Result(m).kind = "ok" /\ m # "recovery" THEN 1 ELSE 0

\* What one borrower set stays with it: only a caller that asked for strict
\* mode is refused for its sake, and only ParseContext answers with a context
\* error (parser.go:115-127, 487-488).
SettingsStayWithTheirCall ==
    \A m \in Modes : Done(m) =>
        /\ Result(m).kind = "strict" => Result(m).strict
        /\ Result(m).kind = "ctx" => m = "context"

\* Nothing of a call outlives it: neither an AST nobody owns nor a setting.
CallLeavesNothingBehind == ErrorHoldsNoAST /\ SettingsStayWithTheirCall

\* After the context is done, ParseContext completes at most the statement it
\* was in (parser.go:506-513, 605-611).
CancelStopsTheLoop == late <= 1
=============================================================================
