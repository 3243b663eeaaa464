---------------------------- MODULE GosqlxApi ----------------------------
(***************************************************************************)
(* The functions of pkg/gosqlx, and of pkg/sql/parser beside the Parser,   *)
(* that take a text: they tokenize it, borrow a parser, run one of its     *)
(* loops, and give the parser back.  ParserLoop is the loop.               *)
(*                                                                         *)
(* Either the methods of a Parser are called, as in ParserLoop, or these   *)
(* functions.  A function is what it does in its own way.                  *)
(***************************************************************************)
EXTENDS ParserLoop

CONSTANT
    MaxText     \* bound on the tokens of a text that is given to a function

ASSUME MaxTextAssumption == MaxText \in Nat

-----------------------------------------------------------------------------
(* The functions: the loop they run, whether they have a context, or look  *)
(* at it again when all is done, or take the option of strictness; what    *)
(* they say of a blank text; whether they do the same for several texts;   *)
(* what becomes of the tree; and where they begin, with a text or a reader.*)

Parse == [mode |-> "parse", timed |-> FALSE, deadline |-> FALSE, strict |-> FALSE, blank |-> "parse",
          several |-> FALSE, tree |-> "given", from |-> "text"]

ParseBytes == Parse

\* The parser is a new one, and not given back.
ParseWithDialect == Parse

Format == [Parse EXCEPT !.tree = "dropped"]

Validate == [Parse EXCEPT !.blank = "syntax", !.tree = "released"]

ValidateBytesWithDialect == [Validate EXCEPT !.blank = "ok"]

ParseWithContext == [Parse EXCEPT !.mode = "context", !.timed = TRUE]

ParseWithTimeout == [ParseWithContext EXCEPT !.deadline = TRUE]

ParseMultiple == [Parse EXCEPT !.several = TRUE]

ValidateMultiple == [ParseMultiple EXCEPT !.tree = "dropped"]

ParseWithRecovery == [Parse EXCEPT !.mode = "recovery"]

ParseTree == [ParseWithContext EXCEPT !.strict = TRUE]

\* With the option to recover, the context is looked at before that only, and the
\* statements are dropped when there is an error as well.
ParseTreeWithRecovery == [ParseTree EXCEPT !.mode = "recovery", !.tree = "unlessError"]

ParseReader == [ParseTree EXCEPT !.from = "reader"]

Functions ==
    {Parse, ParseBytes, ParseWithDialect, Format, Validate, ValidateBytesWithDialect, ParseWithContext, ParseWithTimeout,
     ParseMultiple, ValidateMultiple, ParseWithRecovery, ParseTree, ParseTreeWithRecovery,
     ParseReader}

-----------------------------------------------------------------------------
VARIABLES
    user,       \* who calls: "parser" or "gosqlx"
    readable,   \* the tokenizer takes the text
    call,       \* the call of a function: <<>> for none
    answers     \* function -> what its call returned

apiVars == <<user, readable, call, answers>>

\* The texts behind the first of a batch: TRUE is the same text again, FALSE one
\* the tokenizer refuses.
Batches == {<<>>, <<TRUE>>, <<FALSE>>}

ApiInit ==
    /\ Init
    /\ user \in {"parser", "gosqlx"}
    /\ readable \in BOOLEAN
    /\ user = "gosqlx" => Length <= MaxText
    /\ user = "parser" => readable
    /\ ~readable => tokens = <<>>
    /\ call = <<>>
    /\ answers = [f \in Functions |-> <<>>]

F == call[1].f

\* The call returns.
Answer(f, kind, statements, live, given) ==
    /\ answers' = [answers EXCEPT ![f] = <<[kind |-> kind, stmts |-> statements, live |-> live, given |-> given, done |-> cancelled,
                                            all |-> call = <<>> \/ FALSE \notin {call[1].more[i] : i \in DOMAIN call[1].more}]>>]
    /\ call' = <<>>

\* A function is called, with a context that may be done already, and the option
\* of strictness.
Begin(f, option, done, more) ==
    /\ call = <<>> /\ answers[f] = <<>>
    /\ Cardinality({g \in Functions : answers[g] # <<>>}) < MaxCalls
    /\ option => f.strict
    /\ done => f.timed
    /\ more # <<>> => f.several
    /\ cancelled' = done
    /\ asked' = option
    /\ call' = <<[f |-> f, at |-> f.from, more |-> more, next |-> 0, live |-> 0]>>
    /\ UNCHANGED <<input, strict, ctx, pos, mode, checked, stmts, errs, asts, results, late, user, readable, answers>>

\* The context of the call is cancelled, or its time is over.
Deadline ==
    /\ call # <<>> /\ F.timed /\ ~cancelled
    /\ cancelled' = TRUE
    /\ UNCHANGED <<input, strict, ctx, pos, mode, checked, stmts, errs, asts, results, asked, late, apiVars>>

\* A text is there, before anything of the parser is touched.
Text(stage) ==
    /\ call # <<>> /\ call[1].at = stage
    /\ UNCHANGED <<input, ctx, pos, mode, checked, stmts, errs, asts, cancelled, results, asked, late, user, readable>>

\* readAllBounded: a context that is done is noticed before, between and after
\* the reads; the reader may fail, or give more than the limit.
ReadAllBounded ==
    /\ Text("reader")
    /\ \/ cancelled /\ Answer(F, "timeout", {}, 0, 0)
       \/ ~cancelled /\ \E kind \in {"read", "toolarge"} : Answer(F, kind, {}, 0, 0)
       \/ ~cancelled /\ call' = <<[call[1] EXCEPT !.at = "text"]>> /\ UNCHANGED answers
    /\ UNCHANGED strict

\* The tokens are there; a parser comes from the pool, as Reset leaves it, and is
\* given the options.
Tokenized ==
    /\ call' = <<[call[1] EXCEPT !.at = "tokens"]>>
    /\ strict' = asked
    /\ UNCHANGED answers

Refuse(kind) == Answer(F, kind, {}, 0, 0) /\ UNCHANGED strict

\* The text is looked at and tokenized.
Tokenize(blank) ==
    /\ Text("text") /\ ~F.timed
    /\ blank => readable /\ tokens = <<>>
    /\ \/ ~readable /\ Refuse("tokenize")
       \/ blank /\ F.blank # "parse" /\ Refuse(F.blank)
       \/ readable /\ (blank => F.blank = "parse") /\ Tokenized

\* With a context, which is looked at before the first token and at every
\* hundredth: it is not, if it is done behind the last of these.
TokenizeContext ==
    /\ Text("text") /\ F.timed
    /\ \/ cancelled /\ Refuse("timeout")
       \/ ~cancelled /\ ~readable /\ Refuse("tokenize")
       \/ ~cancelled /\ readable /\ Tokenized

\* One of the loops is run with the tokens.
Run ==
    /\ call # <<>> /\ call[1].at = "tokens"
    /\ Call(F.mode)
    /\ call' = <<[call[1] EXCEPT !.at = "loop"]>>
    /\ UNCHANGED <<user, readable, answers>>

\* The loop is done, and the parser as Reset leaves it.
LoopDone ==
    /\ call # <<>> /\ call[1].at = "loop" /\ mode = "idle"
    /\ strict' = FALSE /\ ctx' = FALSE /\ pos' = 1
    /\ results' = [m \in Modes |-> <<>>]
    /\ asts' = [m \in Modes |-> 0]
    /\ UNCHANGED <<input, mode, checked, stmts, errs, cancelled, asked, late, user, readable>>

Succeeded == Result(F.mode).kind = "ok" /\ Result(F.mode).errs = {}

\* Mutant: the tree of a text that is valid is not released.
LiveUnreleased == call[1].live + asts[F.mode]

\* The trees from the pool that are not back there.
Live == call[1].live + IF F.tree = "released" /\ Succeeded THEN 0 ELSE asts[F.mode]

\* The next text of a batch.
NextText ==
    /\ LoopDone
    /\ Succeeded /\ call[1].next < Len(call[1].more)
    /\ LET again == call[1].more[call[1].next + 1]
       IN  IF again THEN /\ call' = <<[call[1] EXCEPT !.at = "tokens", !.next = @ + 1, !.live = Live]>>
                         /\ UNCHANGED answers
           ELSE Answer(F, "tokenize", {}, Live, 0)

\* The last text: what the loop returned, and what its caller makes of that when
\* the context is done.
Finished ==
    /\ LoopDone
    /\ Succeeded => call[1].next = Len(call[1].more)
    /\ LET over  == cancelled /\ ((F.mode = "context" /\ ~Succeeded) \/ F.deadline)
           kind  == IF over THEN "timeout" ELSE IF Succeeded THEN "ok" ELSE "syntax"
           given == IF kind = "ok" /\ F.tree = "given" THEN Live ELSE 0
           shown == IF (F.mode = "recovery" /\ F.tree = "given") \/ kind = "ok" THEN Result(F.mode).stmts ELSE {}
       IN  Answer(F, kind, shown, Live, given)

-----------------------------------------------------------------------------
GosqlxStep ==
    \/ ReadAllBounded \/ TokenizeContext
    \/ \E blank \in BOOLEAN : Tokenize(blank)
    \/ Run \/ (Step /\ UNCHANGED apiVars) \/ NextText \/ Finished

GosqlxNext ==
    \/ \E f \in Functions, option, done \in BOOLEAN, more \in Batches : Begin(f, option, done, more)
    \/ Deadline
    \/ GosqlxStep

ApiNext ==
    \/ user = "parser" /\ Next /\ UNCHANGED apiVars
    \/ user = "gosqlx" /\ GosqlxNext

\* A call goes on as long as it can; callers and contexts owe nothing.
ApiSpec ==
    /\ ApiInit /\ [][ApiNext]_<<vars, apiVars>>
    /\ WF_<<vars, apiVars>>(user = "parser" /\ Step /\ UNCHANGED apiVars)
    /\ WF_<<vars, apiVars>>(user = "gosqlx" /\ GosqlxStep)

-----------------------------------------------------------------------------
(* Properties.                                                             *)

Answered(f) == answers[f] # <<>>
TheAnswer(f) == answers[f][1]

Nothing == \A i \in Positions : tokens[i] = Semi

\* Functions that say something of a text with no statement that others do not:
\* that it is valid.
TakesNothing(f) == f.mode = "recovery" \/ f.blank = "ok"

\* The text was not there, or the time was over.
Interrupted(kind) == kind \in {"timeout", "read", "toolarge"}

\* It was, or the statement that was under way when the context was done came to
\* an end all the same (pivot.go:358).
Disturbed(f, a) == Interrupted(a.kind) \/ (f.mode = "context" /\ a.done)

\* All functions judge a text alike and find the same statements in it: unless
\* they were interrupted or disturbed, there is no statement in it, or another
\* text of the batch is the reason (gosqlx.go:102, 184, 260, 400, 620,
\* tree.go:275, validate.go:40).  Those that were disturbed find some of them.
AnswersAgree ==
    \A f \in {h \in Functions : Answered(h) /\ ~Disturbed(h, TheAnswer(h)) /\ TheAnswer(h).all} :
        \A g \in {h \in Functions : Answered(h)} :
            LET a == TheAnswer(f)  b == TheAnswer(g)
            IN  IF Disturbed(g, b)
                THEN a.kind = "ok" => b.stmts \subseteq a.stmts
                ELSE b.all =>
                        \/ Nothing /\ (TakesNothing(f) \/ TakesNothing(g))
                        \/ a.kind = b.kind /\ (a.kind = "ok" => a.stmts = b.stmts)

\* The entry points of the parser, and the functions that call them.
EntryPointsAgree == ModesAgree /\ AnswersAgree

\* A tree is given to the caller or back to the pool; but for the functions that
\* want no tree and do not release it, for a batch that fails behind a good text,
\* and for the time that is over when the tree is there (gosqlx.go:249, 426, 471).
TreesAreAccountedFor ==
    \A f \in Functions : Answered(f) =>
        \/ TheAnswer(f).live = TheAnswer(f).given
        \/ f.tree = "dropped"
        \/ f.several /\ TheAnswer(f).kind # "ok"
        \/ f.deadline /\ TheAnswer(f).kind = "timeout"

\* Only a function with a context says that its time is over.
TimeoutsAreReal == \A f \in Functions : Answered(f) /\ TheAnswer(f).kind = "timeout" => f.timed

\* Nothing of a call outlives it: no tree, no setting of the parser, of a method
\* or of a function.
NothingIsLeftBehind ==
    /\ user = "parser" => CallLeavesNothingBehind
    /\ call = <<>> /\ user = "gosqlx" => ~strict /\ ~ctx
    /\ TreesAreAccountedFor /\ TimeoutsAreReal

\* Every call returns, whatever the tokens: an iteration that makes no progress of
\* its own is moved on (recovery.go:212-217).
EveryCallReturns == (mode # "idle" \/ call # <<>>) ~> (mode = "idle" /\ call = <<>>)
=============================================================================
