-------------------------- MODULE GosqlxApiProofs --------------------------
(***************************************************************************)
(* The functions of pkg/gosqlx, for texts of any length: they judge a text *)
(* alike and leave nothing behind.  What the loops do is ParserLoopProofs. *)
(***************************************************************************)
EXTENDS GosqlxApi, ParserLoopProofs

(* No loop has run since the parser came from the pool. *)
AtRest == mode = "idle" /\ \A m \in Modes : ~Done(m)

(* The call of a function: its options and bounds, and how far it is. *)
CallOK(c) ==
    /\ c \in [f : Functions, at : {"reader", "text", "tokens", "loop"}, more : Batches,
              next : Nat, live : Nat]
    /\ (asked => c.f.strict) /\ (cancelled => c.f.timed)
    /\ ~c.f.several => c.more = <<>> /\ c.live = 0
    /\ c.at # "loop" => AtRest
    /\ c.at \in {"reader", "text"} => ~strict
    /\ c.at \in {"tokens", "loop"} => readable
    /\ c.at = "loop" =>
         /\ IF mode = "idle" THEN Done(c.f.mode) ELSE mode = c.f.mode
         /\ \A m \in Modes : Done(m) => m = c.f.mode /\ (Result(m).strict => c.f.strict)

(* A judgement on the text: the one of the loops, or that there is no statement. *)
Verdict(f, a) ==
    IF Nothing THEN TakesNothing(f) \/ a.kind = "syntax"
    ELSE \E S \in SUBSET Positions, p \in 1..Length + 1 :
            /\ RunsTo(S, p) /\ Ends(p)
            /\ IF p = Length + 1 THEN a.kind = "ok" /\ a.stmts = S ELSE a.kind = "syntax"

(* Where the trees of a call are. *)
TreesOK(f, a) ==
    \/ a.live = a.given
    \/ f.tree = "dropped"
    \/ f.several /\ a.kind # "ok"
    \/ f.deadline /\ a.kind = "timeout"

AnswerOK(f, a) ==
    /\ a.kind = "timeout" => f.timed
    /\ TreesOK(f, a)
    /\ f.mode = "context" \/ Interrupted(a.kind) => a.stmts \subseteq Positions /\ Begun(a.stmts)
    /\ ~Disturbed(f, a) /\ a.all => IF readable THEN Verdict(f, a) ELSE a.kind = "tokenize"

CallersOK ==
    /\ user \in {"parser", "gosqlx"} /\ readable \in BOOLEAN
    /\ user = "parser" => call = <<>>
    /\ user = "gosqlx" => IF call = <<>> THEN AtRest /\ ~strict
                          ELSE call = <<call[1]>> /\ CallOK(call[1])

AnswersOK == DOMAIN answers = Functions /\ \A f \in Functions : Answered(f) => AnswerOK(f, TheAnswer(f))

ApiInv == LoopInv /\ CallersOK /\ AnswersOK

-----------------------------------------------------------------------------
(* What the table of the functions says *)

FunctionOK(f) ==
    /\ f.mode \in Modes /\ f.timed \in BOOLEAN /\ f.several \in BOOLEAN /\ f.deadline \in BOOLEAN
    /\ f.strict \in BOOLEAN /\ f.from \in {"text", "reader"} /\ f.blank \in {"parse", "syntax", "ok"}
    /\ f.strict => f.mode # "parse"
    /\ f.mode = "context" => f.timed
    /\ f.deadline => f.mode = "context"
    /\ f.tree \in {"given", "dropped", "released", "unlessError"}
    /\ f.tree \in {"released", "unlessError"} => ~f.several
    /\ f.tree = "unlessError" => f.mode = "recovery"

LEMMA FunctionFacts == \A f \in Functions : FunctionOK(f)
<1>1. FunctionOK(Parse) /\ FunctionOK(ParseBytes) /\ FunctionOK(ParseWithDialect) /\ FunctionOK(Format)
  BY DEF FunctionOK, Parse, ParseBytes, ParseWithDialect, Format, Modes
<1>2. FunctionOK(Validate) /\ FunctionOK(ValidateBytesWithDialect)
  BY DEF FunctionOK, Parse, Validate, ValidateBytesWithDialect, Modes
<1>3. FunctionOK(ParseWithContext) /\ FunctionOK(ParseWithTimeout)
  BY DEF FunctionOK, Parse, ParseWithContext, ParseWithTimeout, Modes
<1>4. FunctionOK(ParseMultiple) /\ FunctionOK(ValidateMultiple) /\ FunctionOK(ParseWithRecovery)
  BY DEF FunctionOK, Parse, ParseMultiple, ValidateMultiple, ParseWithRecovery, Modes
<1>5. FunctionOK(ParseTree) /\ FunctionOK(ParseTreeWithRecovery) /\ FunctionOK(ParseReader)
  BY DEF FunctionOK, Parse, ParseWithContext, ParseTree, ParseTreeWithRecovery, ParseReader, Modes
<1>. QED
  BY <1>1, <1>2, <1>3, <1>4, <1>5 DEF Functions

-----------------------------------------------------------------------------
(* Steps that leave the answers, and steps that give one *)

LEMMA AnswersKept ==
    ASSUME UNCHANGED <<input, readable>>
    PROVE  \A f, a : AnswerOK(f, a)' <=> AnswerOK(f, a)
<1>1. UNCHANGED input /\ readable' = readable /\ tokens' = tokens
  BY DEF input
<1>2. /\ Length' = Length /\ Positions' = Positions
      /\ \A S, q : RunsTo(S, q)' <=> RunsTo(S, q)
      /\ \A i : Bad(i)' <=> Bad(i)
      /\ \A Q : Begun(Q)' <=> Begun(Q)
  BY <1>1, InputKept
<1>3. \A f, a : Verdict(f, a)' <=> Verdict(f, a)
  BY <1>1, <1>2 DEF Verdict, Nothing, Ends, TakesNothing
<1>. QED
  BY <1>1, <1>2, <1>3 DEF AnswerOK, TreesOK, Interrupted, Disturbed

LEMMA GoesOnUnanswered ==
    ASSUME ApiInv, UNCHANGED <<input, readable, user, answers>>, LoopInv', user = "gosqlx",
           NEW c, call' = <<c>>, CallOK(c)'
    PROVE  ApiInv'
<1>1. CallersOK'
  <2>1. call' # <<>> /\ call'[1] = c /\ CallOK(call[1])'
    BY DEF CallOK
  <2>. QED
    BY <2>1 DEF ApiInv, CallersOK
<1>2. AnswersOK'
  BY AnswersKept DEF ApiInv, AnswersOK, Answered, TheAnswer
<1>. QED
  BY <1>1, <1>2 DEF ApiInv

LEMMA Answers ==
    ASSUME ApiInv, UNCHANGED <<input, readable, user>>, LoopInv', user = "gosqlx",
           NEW f \in Functions, NEW a, answers' = [answers EXCEPT ![f] = <<a>>], call' = <<>>,
           AnswerOK(f, a), AtRest', ~strict'
    PROVE  ApiInv'
<1>1. CallersOK'
  BY DEF ApiInv, CallersOK
<1>2. DOMAIN answers' = Functions
  BY DEF ApiInv, AnswersOK
<1>3. ASSUME NEW g \in Functions, answers'[g] # <<>> PROVE AnswerOK(g, answers'[g][1])
  <2>1. CASE g = f
    <3>1. answers'[g] = <<a>> /\ answers'[g][1] = a
      BY <2>1 DEF ApiInv, AnswersOK
    <3>. QED
      BY <2>1, <3>1
  <2>2. CASE g # f
    <3>1. answers'[g] = answers[g]
      BY <2>2 DEF ApiInv, AnswersOK
    <3>. QED
      BY <1>3, <3>1 DEF ApiInv, AnswersOK, Answered, TheAnswer
  <2>. QED
    BY <2>1, <2>2
<1>4. ASSUME NEW g \in Functions, answers'[g] # <<>> PROVE AnswerOK(g, answers[g][1])'
  <2>1. PICK b : b = answers'[g][1]
    OBVIOUS
  <2>2. AnswerOK(g, b)'
    BY <1>3, <1>4, <2>1, AnswersKept
  <2>. QED
    BY <2>1, <2>2
<1>5. AnswersOK'
  BY <1>2, <1>4 DEF AnswersOK, Answered, TheAnswer
<1>. QED
  BY <1>1, <1>5 DEF ApiInv

(* The call that is under way, and where it is. *)
LEMMA UnderWay ==
    ASSUME ApiInv, user = "gosqlx", call # <<>>
    PROVE  \E c : /\ call = <<c>> /\ call[1] = c /\ F = c.f /\ CallOK(c) /\ c.f \in Functions
                  /\ FunctionOK(c.f)
<1>1. PICK c : c = call[1] /\ call = <<c>> /\ CallOK(c)
  BY DEF ApiInv, CallersOK
<1>2. call[1] = c /\ c.f \in Functions
  BY <1>1 DEF CallOK
<1>. QED
  BY <1>1, <1>2, FunctionFacts DEF F
-----------------------------------------------------------------------------
(* The steps of a call before its loop *)

(* Nothing of the parser moves but its caller's options. *)
LEMMA LoopUntouched ==
    ASSUME LoopInv, UNCHANGED <<input, mode, checked, stmts, errs, asts, results, late, ctx, pos>>,
           strict' \in BOOLEAN, asked' \in BOOLEAN, strict' => asked', cancelled' \in BOOLEAN,
           (cancelled => cancelled') \/ AtRest
    PROVE  LoopInv'
  BY CallerInv DEF AtRest

LEMMA BeginInv ==
    ASSUME ApiInv, user = "gosqlx", NEW f \in Functions, NEW option \in BOOLEAN, NEW done \in BOOLEAN,
           NEW more \in Batches, Begin(f, option, done, more)
    PROVE  ApiInv'
<1>1. call = <<>> /\ AtRest /\ strict = FALSE /\ FunctionOK(f)
  BY FunctionFacts DEF Begin, ApiInv, CallersOK, LoopInv, StateOK
<1>2. PICK c : c = [f |-> f, at |-> f.from, more |-> more, next |-> 0, live |-> 0]
  OBVIOUS
<1>3. /\ call' = <<c>> /\ cancelled' = done /\ asked' = option /\ (option => f.strict) /\ (done => f.timed)
      /\ (more # <<>> => f.several)
      /\ UNCHANGED <<input, strict, ctx, pos, mode, checked, stmts, errs, asts, results, late>>
      /\ UNCHANGED <<readable, user, answers>>
  BY <1>2 DEF Begin
<1>4. LoopInv'
  BY <1>1, <1>3, LoopUntouched DEF ApiInv
<1>5. CallOK(c)'
  <2>1. /\ c \in [f : Functions, at : {"reader", "text", "tokens", "loop"}, more : Batches,
                  next : Nat, live : Nat]
        /\ c.f = f /\ c.at \in {"reader", "text"} /\ c.more = more /\ c.live = 0
    BY <1>1, <1>2 DEF FunctionOK
  <2>2. AtRest' /\ ~strict'
    BY <1>1, <1>3 DEF AtRest, Done
  <2>. QED
    BY <1>3, <2>1, <2>2 DEF CallOK
<1>. QED
  BY <1>3, <1>4, <1>5, GoesOnUnanswered

LEMMA DeadlineInv == ASSUME ApiInv, user = "gosqlx", Deadline PROVE ApiInv'
<1>1. PICK c : call = <<c>> /\ F = c.f /\ CallOK(c)
  BY UnderWay DEF Deadline
<1>2. /\ cancelled' = TRUE /\ c.f.timed /\ call' = <<c>>
      /\ UNCHANGED <<input, strict, ctx, pos, mode, checked, stmts, errs, asts, results, asked, late>>
      /\ UNCHANGED <<readable, user, answers>>
  BY <1>1 DEF Deadline, apiVars
<1>3. LoopInv'
  <2>1. strict \in BOOLEAN /\ asked \in BOOLEAN /\ (strict => asked)
    BY DEF ApiInv, LoopInv, StateOK
  <2>. QED
    BY <1>2, <2>1, LoopUntouched DEF ApiInv
<1>4. CallOK(c)'
  BY <1>1, <1>2 DEF CallOK, AtRest, Done, Result
<1>. QED
  BY <1>2, <1>3, <1>4, GoesOnUnanswered

(* The text is refused, or a read of it fails. *)
LEMMA Refuses ==
    ASSUME ApiInv, user = "gosqlx", NEW stage \in {"reader", "text"}, Text(stage), UNCHANGED strict,
           NEW kind, Answer(F, kind, {}, 0, 0), kind = "timeout" => cancelled,
           Interrupted(kind) \/ IF readable THEN Nothing /\ (kind = "syntax" \/ (kind = "ok" /\ F.blank = "ok"))
                                ELSE kind = "tokenize"
    PROVE  ApiInv'
<1>1. PICK c : call = <<c>> /\ F = c.f /\ CallOK(c) /\ c.f \in Functions /\ c.at = stage
  BY UnderWay DEF Text
<1>2. PICK f : f = c.f
  OBVIOUS
<1>3. PICK a : a = [kind |-> kind, stmts |-> {}, live |-> 0, given |-> 0, done |-> cancelled,
                    all |-> call = <<>> \/ FALSE \notin {call[1].more[i] : i \in DOMAIN call[1].more}]
  OBVIOUS
<1>4. answers' = [answers EXCEPT ![f] = <<a>>] /\ call' = <<>>
  BY <1>1, <1>2, <1>3 DEF Answer
<1>5. /\ UNCHANGED <<input, ctx, pos, mode, checked, stmts, errs, asts, cancelled, results, asked, late>>
      /\ UNCHANGED <<user, readable>>
  BY DEF Text
<1>6. LoopInv'
  <2>1. strict \in BOOLEAN /\ asked \in BOOLEAN /\ cancelled \in BOOLEAN /\ (strict => asked)
    BY DEF ApiInv, LoopInv, StateOK
  <2>. QED
    BY <1>5, <2>1, LoopUntouched DEF ApiInv
<1>7. AtRest' /\ ~strict'
  <2>1. AtRest /\ ~strict
    BY <1>1 DEF CallOK
  <2>. QED
    BY <1>5, <2>1 DEF AtRest, Done
<1>8. AnswerOK(f, a)
  <2>1. a.kind = kind /\ a.live = 0 /\ a.given = 0
    BY <1>3
  <2>2. kind = "timeout" => f.timed
    BY <1>1, <1>2 DEF CallOK
  <2>3. ~Interrupted(a.kind) => IF readable THEN Verdict(f, a) ELSE a.kind = "tokenize"
    BY <1>1, <1>2, <2>1 DEF Verdict, TakesNothing
  <2>4. a.stmts = {} /\ Begun({})
    BY <1>3 DEF Begun
  <2>. QED
    BY <2>1, <2>2, <2>3, <2>4 DEF AnswerOK, TreesOK, Disturbed
<1>. QED
  BY <1>1, <1>2, <1>4, <1>5, <1>6, <1>7, <1>8, Answers

(* The call comes from the reader to its text. *)
LEMMA ReadAllBoundedInv == ASSUME ApiInv, user = "gosqlx", ReadAllBounded PROVE ApiInv'
<1>1. Text("reader") /\ UNCHANGED strict
  BY DEF ReadAllBounded
<1>2. CASE cancelled /\ Answer(F, "timeout", {}, 0, 0)
  BY <1>1, <1>2, Refuses DEF Interrupted
<1>3. CASE ~cancelled /\ \E kind \in {"read", "toolarge"} : Answer(F, kind, {}, 0, 0)
  BY <1>1, <1>3, Refuses DEF Interrupted
<1>4. CASE ~cancelled /\ call' = <<[call[1] EXCEPT !.at = "text"]>> /\ UNCHANGED answers
  <2>1. PICK c : call[1] = c /\ CallOK(c) /\ c.at = "reader"
    BY <1>1, UnderWay DEF Text
  <2>2. PICK d : d = [c EXCEPT !.at = "text"]
    OBVIOUS
  <2>3. call' = <<d>> /\ UNCHANGED answers
    BY <1>4, <2>1, <2>2
  <2>4. /\ UNCHANGED <<input, ctx, pos, mode, checked, stmts, errs, asts, cancelled, results, asked, late>>
        /\ UNCHANGED <<user, readable>>
    BY <1>1 DEF Text
  <2>5. LoopInv'
    <3>1. strict \in BOOLEAN /\ asked \in BOOLEAN /\ cancelled \in BOOLEAN /\ (strict => asked)
      BY DEF ApiInv, LoopInv, StateOK
    <3>. QED
      BY <1>1, <2>4, <3>1, LoopUntouched DEF ApiInv
  <2>6. CallOK(d)'
    <3>1. /\ d \in [f : Functions, at : {"reader", "text", "tokens", "loop"}, more : Batches,
                    next : Nat, live : Nat]
          /\ d.f = c.f /\ d.at = "text" /\ d.more = c.more /\ d.live = c.live
      BY <2>1, <2>2 DEF CallOK
    <3>2. AtRest' /\ ~strict'
      BY <1>1, <2>1, <2>4 DEF CallOK, AtRest, Done
    <3>. QED
      BY <2>1, <2>4, <3>1, <3>2 DEF CallOK
  <2>. QED
    BY <2>3, <2>4, <2>5, <2>6, GoesOnUnanswered
<1>. QED
  BY <1>2, <1>3, <1>4 DEF ReadAllBounded

(* The parser comes from the pool, and is given the options. *)
LEMMA TokenizedInv == ASSUME ApiInv, user = "gosqlx", Text("text"), Tokenized, readable PROVE ApiInv'
<1>1. PICK c : call[1] = c /\ CallOK(c) /\ c.at = "text"
  BY UnderWay DEF Text
<1>2. PICK d : d = [c EXCEPT !.at = "tokens"]
  OBVIOUS
<1>3. /\ call' = <<d>> /\ UNCHANGED answers /\ strict' = asked
      /\ UNCHANGED <<input, ctx, pos, mode, checked, stmts, errs, asts, cancelled, results, asked, late>>
      /\ UNCHANGED <<user, readable>>
  BY <1>1, <1>2 DEF Text, Tokenized
<1>4. LoopInv'
  <2>1. asked \in BOOLEAN /\ cancelled \in BOOLEAN
    BY DEF ApiInv, LoopInv, StateOK
  <2>. QED
    BY <1>3, <2>1, LoopUntouched DEF ApiInv
<1>5. CallOK(d)'
  <2>1. /\ d \in [f : Functions, at : {"reader", "text", "tokens", "loop"}, more : Batches,
                  next : Nat, live : Nat]
        /\ d.f = c.f /\ d.at = "tokens" /\ d.more = c.more /\ d.live = c.live
    BY <1>1, <1>2 DEF CallOK
  <2>2. AtRest'
    BY <1>1, <1>3 DEF CallOK, AtRest, Done
  <2>. QED
    BY <1>1, <1>3, <2>1, <2>2 DEF CallOK
<1>. QED
  BY <1>3, <1>4, <1>5, GoesOnUnanswered

LEMMA TokenizeInv ==
    ASSUME ApiInv, user = "gosqlx", NEW blank \in BOOLEAN, Tokenize(blank) PROVE ApiInv'
<1>1. Text("text") /\ (blank => readable /\ tokens = <<>>)
  BY DEF Tokenize
<1>2. CASE ~readable /\ Refuse("tokenize")
  BY <1>1, <1>2, Refuses DEF Refuse
<1>3. CASE blank /\ F.blank # "parse" /\ Refuse(F.blank)
  <2>1. Nothing /\ readable
    BY <1>1, <1>3 DEF Nothing, Positions, Length
  <2>2. F.blank \in {"syntax", "ok"}
    <3>1. FunctionOK(F)
      BY <1>1, UnderWay DEF Text
    <3>. QED
      BY <1>3, <3>1 DEF FunctionOK
  <2>3. Answer(F, F.blank, {}, 0, 0) /\ UNCHANGED strict
    BY <1>3 DEF Refuse
  <2>. QED
    BY <1>1, <2>1, <2>2, <2>3, Refuses
<1>4. CASE readable /\ Tokenized
  BY <1>1, <1>4, TokenizedInv
<1>. QED
  BY <1>2, <1>3, <1>4 DEF Tokenize

LEMMA TokenizeContextInv == ASSUME ApiInv, user = "gosqlx", TokenizeContext PROVE ApiInv'
<1>1. Text("text")
  BY DEF TokenizeContext
<1>2. CASE cancelled /\ Refuse("timeout")
  BY <1>1, <1>2, Refuses DEF Refuse, Interrupted
<1>3. CASE ~readable /\ Refuse("tokenize")
  BY <1>1, <1>3, Refuses DEF Refuse
<1>4. CASE readable /\ Tokenized
  BY <1>1, <1>4, TokenizedInv
<1>. QED
  BY <1>2, <1>3, <1>4 DEF TokenizeContext
-----------------------------------------------------------------------------
(* The loop *)

LEMMA RunInv == ASSUME ApiInv, user = "gosqlx", Run PROVE ApiInv'
<1>1. PICK c : call[1] = c /\ F = c.f /\ CallOK(c) /\ c.at = "tokens" /\ FunctionOK(c.f)
  BY UnderWay DEF Run
<1>2. PICK d, m : d = [c EXCEPT !.at = "loop"] /\ m = c.f.mode
  OBVIOUS
<1>3. /\ call' = <<d>> /\ m \in Modes /\ Call(m)
      /\ UNCHANGED <<user, readable, answers>>
  BY <1>1, <1>2 DEF Run, FunctionOK
<1>4. UNCHANGED input /\ UNCHANGED <<asked, cancelled>> /\ AtRest /\ DOMAIN results = Modes
  BY <1>1, <1>3 DEF Call, CallOK, ApiInv, LoopInv, StateOK
<1>5. LoopInv'
  BY <1>3, CallInv DEF ApiInv
<1>6. /\ d \in [f : Functions, at : {"reader", "text", "tokens", "loop"}, more : Batches,
                next : Nat, live : Nat]
      /\ d.f = c.f /\ d.at = "loop" /\ d.more = c.more /\ d.live = c.live
  BY <1>1, <1>2 DEF CallOK
<1>7. /\ IF mode' = "idle" THEN results'[m] # <<>> ELSE mode' = m
      /\ \A n \in Modes : results'[n] # <<>> => n = m /\ (results'[n][1].strict => c.f.strict)
  <2>1. CASE m = "context" /\ cancelled
    <3>1. PICK r : r = [kind |-> "ctx", stmts |-> {}, errs |-> {}, strict |-> asked, live |-> asts[m],
                        done |-> TRUE]
      OBVIOUS
    <3>2. results' = [results EXCEPT ![m] = <<r>>] /\ mode' = "idle" /\ r.strict = asked
      BY <1>3, <1>4, <2>1, <3>1 DEF Call, AtRest
    <3>3. results'[m] = <<r>> /\ results'[m][1] = r /\ \A n \in Modes : n # m => results'[n] = <<>>
      BY <1>3, <1>4, <3>2 DEF AtRest, Done
    <3>4. asked => c.f.strict
      BY <1>1 DEF CallOK
    <3>. QED
      BY <3>2, <3>3, <3>4
  <2>2. CASE ~(m = "context" /\ cancelled)
    <3>1. mode' = m /\ results' = results /\ m # "idle"
      BY <1>3, <2>2 DEF Call, Modes
    <3>. QED
      BY <1>4, <3>1 DEF AtRest, Done
  <2>. QED
    BY <2>1, <2>2
<1>8. CallOK(d)'
  BY <1>1, <1>2, <1>3, <1>4, <1>6, <1>7 DEF CallOK, Done, Result
<1>. QED
  BY <1>3, <1>4, <1>5, <1>8, GoesOnUnanswered

(* A step of a loop: it goes on, or what it returns says whether strictness was asked for. *)
Moves ==
    /\ UNCHANGED input /\ UNCHANGED <<asked, cancelled>> /\ mode # "idle"
    /\ \/ mode' = mode /\ results' = results
       \/ mode' = "idle" /\ \E r : results' = [results EXCEPT ![mode] = <<r>>] /\ r.strict = asked

LEMMA ReturnMoves == ASSUME NEW kind, NEW ss, NEW es, Return(kind, ss, es), mode # "idle" PROVE Moves
<1>1. PICK r : r = [kind |-> kind, stmts |-> ss, errs |-> es, strict |-> asked, live |-> asts'[mode],
                    done |-> mode = "context" /\ cancelled]
  OBVIOUS
<1>2. results' = [results EXCEPT ![mode] = <<r>>] /\ r.strict = asked /\ mode' = "idle"
  BY <1>1 DEF Return, Returned
<1>3. UNCHANGED input /\ UNCHANGED <<asked, cancelled>>
  BY DEF Return
<1>. QED
  BY <1>2, <1>3 DEF Moves

LEMMA StepMoves == ASSUME Step PROVE Moves
<1>1. ASSUME NEW kind, NEW es, Fail(kind, es), mode # "idle" PROVE Moves
  BY <1>1, ReturnMoves DEF Fail
<1>2. ASSUME ContextError, mode # "idle" PROVE Moves
  BY <1>1, <1>2 DEF ContextError, Moves
<1>3. CASE CheckContext
  BY <1>2, <1>3 DEF CheckContext, Moves
<1>4. CASE SkipSemicolon
  BY <1>1, <1>4 DEF SkipSemicolon, InBody, Moves
<1>5. CASE ParseStatement
  BY <1>5 DEF ParseStatement, Parsed, InBody, Moves
<1>6. CASE FailStatement
  BY <1>1, <1>6 DEF FailStatement, InBody, Moves
<1>7. CASE StopOnContext
  <2>1. mode # "idle"
    BY <1>7 DEF StopOnContext, InBody
  <2>2. ASSUME NEW end, Parsed(end) PROVE Moves
    BY <2>1, <2>2 DEF Parsed, Moves
  <2>. QED
    BY <1>1, <1>2, <1>7, <2>1, <2>2 DEF StopOnContext
<1>8. CASE Finish
  <2>1. mode # "idle"
    BY <1>8 DEF Finish
  <2>2. CASE stmts = {} /\ mode # "recovery"
    BY <1>1, <1>8, <2>1, <2>2 DEF Finish
  <2>3. CASE ~(stmts = {} /\ mode # "recovery")
    BY <1>8, <2>1, <2>3, ReturnMoves DEF Finish
  <2>. QED
    BY <2>2, <2>3
<1>. QED
  BY <1>3, <1>4, <1>5, <1>6, <1>7, <1>8 DEF Step

LEMMA LoopStepInv == ASSUME ApiInv, user = "gosqlx", Step, UNCHANGED apiVars PROVE ApiInv'
<1>1. Moves /\ UNCHANGED <<user, readable, call, answers>>
  BY StepMoves DEF apiVars
<1>2. call # <<>>
  BY <1>1 DEF ApiInv, CallersOK, AtRest, Moves
<1>3. PICK c : call = <<c>> /\ F = c.f /\ CallOK(c) /\ FunctionOK(c.f)
  BY <1>2, UnderWay
<1>4. PICK m : m = c.f.mode
  OBVIOUS
<1>5. m = mode /\ m \in Modes /\ c.at = "loop" /\ DOMAIN results = Modes /\ m # "idle"
  BY <1>1, <1>3, <1>4 DEF Moves, CallOK, AtRest, FunctionOK, ApiInv, LoopInv, StateOK
<1>6. LoopInv'
  BY StepInv DEF ApiInv
<1>7. CallOK(c)'
  <2>1. CASE mode' = mode /\ results' = results
    BY <1>1, <1>3, <1>5, <2>1 DEF CallOK, Moves, Done, Result
  <2>2. CASE mode' = "idle" /\ \E r : results' = [results EXCEPT ![mode] = <<r>>] /\ r.strict = asked
    <3>1. PICK r : results' = [results EXCEPT ![m] = <<r>>] /\ r.strict = asked
      BY <1>5, <2>2
    <3>2. results'[m] = <<r>> /\ results'[m][1] = r /\ \A n \in Modes : n # m => results'[n] = results[n]
      BY <1>5, <3>1
    <3>3. \A n \in Modes : results'[n] # <<>> => n = m /\ (results'[n][1].strict => c.f.strict)
      BY <1>3, <1>4, <1>5, <3>1, <3>2 DEF CallOK, Done
    <3>. QED
      BY <1>1, <1>3, <1>4, <1>5, <2>2, <3>2, <3>3 DEF CallOK, Moves, Done, Result
  <2>. QED
    BY <1>1, <2>1, <2>2 DEF Moves
<1>. QED
  BY <1>1, <1>3, <1>6, <1>7, GoesOnUnanswered DEF Moves
-----------------------------------------------------------------------------
(* What becomes of the answer of the loop *)

LEMMA LoopReset == ASSUME LoopInv, LoopDone PROVE LoopInv' /\ AtRest' /\ ~strict'
<1>1. /\ mode = "idle" /\ mode' = "idle" /\ strict' = FALSE /\ ctx' = FALSE /\ pos' = 1
      /\ results' = [m \in Modes |-> <<>>] /\ asts' = [m \in Modes |-> 0]
      /\ UNCHANGED input /\ UNCHANGED <<checked, stmts, errs, cancelled, asked, late>>
  BY DEF LoopDone
<1>2. InputOK' /\ StateOK'
  <2>1. InputOK' /\ Length' = Length /\ Positions' = Positions /\ 1 \in 1..Length + 1
    BY <1>1, InputKept, KindIs DEF LoopInv
  <2>2. asts' \in [Modes -> Nat] /\ DOMAIN results' = Modes
    BY <1>1
  <2>. QED
    BY <1>1, <2>1, <2>2 DEF LoopInv, StateOK
<1>3. RunningOK' /\ ReturnedOK' /\ AtRest'
  BY <1>1 DEF RunningOK, ReturnedOK, AtRest, Done
<1>. QED
  BY <1>1, <1>2, <1>3 DEF LoopInv

(* A loop that has returned to its function. *)
Returned1(c, m, r) ==
    /\ call = <<c>> /\ F = c.f /\ CallOK(c) /\ FunctionOK(c.f) /\ c.at = "loop" /\ readable
    /\ m = c.f.mode /\ m \in Modes /\ Done(m) /\ r = Result(m)
    /\ Judges(m, r) /\ Trees(m, r) /\ (r.done => cancelled) /\ r.kind # "strict"
    /\ (Succeeded <=> r.kind = "ok" /\ r.errs = {})

LEMMA LoopReturned ==
    ASSUME ApiInv, user = "gosqlx", LoopDone
    PROVE  \E c, m, r : Returned1(c, m, r)
<1>1. PICK c : call = <<c>> /\ call[1] = c /\ F = c.f /\ CallOK(c) /\ FunctionOK(c.f)
  BY UnderWay DEF LoopDone
<1>2. PICK m, r : m = c.f.mode /\ r = Result(m)
  OBVIOUS
<1>3. c.at = "loop" /\ mode = "idle" /\ readable /\ m \in Modes /\ Done(m)
  BY <1>1, <1>2 DEF LoopDone, CallOK, FunctionOK
<1>4. Judges(m, r) /\ Trees(m, r) /\ (r.done => cancelled)
  BY <1>2, <1>3 DEF ApiInv, LoopInv, ReturnedOK
<1>5. r.kind # "strict"
  <2>1. SUFFICES ASSUME r.kind = "strict" PROVE FALSE
    OBVIOUS
  <2>2. m = "parse" /\ r.strict
    BY <1>4, <2>1 DEF Judges
  <2>3. c.f.strict
    BY <1>1, <1>2, <1>3, <2>2 DEF CallOK
  <2>. QED
    BY <1>1, <1>2, <2>2, <2>3 DEF FunctionOK
<1>6. Succeeded <=> r.kind = "ok" /\ r.errs = {}
  BY <1>1, <1>2 DEF Succeeded
<1>7. Returned1(c, m, r)
  BY <1>1, <1>2, <1>3, <1>4, <1>5, <1>6 DEF Returned1
<1>. QED
  BY <1>7

(* The trees that are live when the loop is done, and when there are none. *)
LEMMA LiveIs ==
    ASSUME ApiInv, NEW c, NEW m, NEW r, Returned1(c, m, r)
    PROVE  /\ Live \in Nat
           /\ ~c.f.several /\ (c.f.tree \in {"released", "unlessError"} \/ ~Succeeded) => Live = 0
<1>1. c.live \in Nat /\ call[1] = c /\ (~c.f.several => c.live = 0) /\ F.mode = m
  BY DEF Returned1, CallOK
<1>2. /\ asts[m] = IF r.kind = "ok" /\ m # "recovery" THEN 1 ELSE 0
      /\ (m # "recovery" /\ r.kind = "ok" => r.errs = {})
  BY DEF Returned1, Trees, Judges
<1>3. Live = c.live + IF c.f.tree = "released" /\ Succeeded THEN 0 ELSE asts[m]
  BY <1>1 DEF Live, Returned1
<1>4. /\ c.f.tree = "unlessError" => m = "recovery"
      /\ Succeeded <=> r.kind = "ok" /\ r.errs = {}
  BY DEF Returned1, FunctionOK
<1>. QED
  BY <1>1, <1>2, <1>3, <1>4

(* The judgement of a function is that of its loop. *)
LEMMA LoopJudges ==
    ASSUME ApiInv, NEW c, NEW m, NEW r, Returned1(c, m, r), m = "context" => ~r.done,
           NEW a, a.kind = (IF Succeeded THEN "ok" ELSE "syntax"), Succeeded => a.stmts = r.stmts
    PROVE  Verdict(c.f, a)
<1>1. InputOK /\ Length \in Nat /\ Positions = 1..Length
  BY KindIs DEF ApiInv, LoopInv
<1>2. PICK S, p : Reports(m, r, S, p)
  <2>1. m \in Modes /\ Judges(m, r) /\ r.kind # "strict"
    BY DEF Returned1
  <2>2. m # "recovery" => ~r.done
    BY <2>1 DEF Judges, Modes
  <2>. QED
    BY <1>1, <2>1, <2>2, AnswersReport
<1>3. /\ p \in 1..Length + 1 /\ RunsTo(S, p) /\ Ends(p) /\ S \in SUBSET Positions
      /\ \A s \in S : tokens[s] # Semi
  <2>1. p \in 1..Length + 1 /\ RunsTo(S, p) /\ Ends(p)
    BY <1>2 DEF Reports
  <2>2. S \subseteq 1..p - 1 /\ \A s \in S : tokens[s] # Semi
    BY <2>1 DEF RunsTo, Good
  <2>. QED
    BY <1>1, <2>1, <2>2
<1>4. CASE Nothing
  <2>1. S = {} /\ p = Length + 1
    BY <1>1, <1>3, <1>4 DEF Nothing, Ends, Bad
  <2>2. CASE m = "recovery"
    BY <1>4, <2>2 DEF Verdict, TakesNothing, Returned1
  <2>3. CASE m # "recovery"
    <3>1. ~Succeeded
      BY <1>2, <2>1, <2>3 DEF Reports, Returned1
    <3>. QED
      BY <1>4, <3>1 DEF Verdict
  <2>. QED
    BY <2>2, <2>3
<1>5. CASE ~Nothing
  <2>1. CASE p = Length + 1
    <3>1. S # {}
      BY <1>1, <1>3, <1>5, <2>1 DEF Nothing, RunsTo
    <3>2. Succeeded /\ a.stmts = S /\ a.kind = "ok"
      BY <1>2, <2>1, <3>1 DEF Reports, Returned1, Judges
    <3>. QED
      BY <1>3, <1>5, <2>1, <3>2 DEF Verdict
  <2>2. CASE p # Length + 1
    <3>1. ~Succeeded
      BY <1>2, <2>2 DEF Reports, Returned1
    <3>. QED
      BY <1>3, <1>5, <2>2, <3>1 DEF Verdict
  <2>. QED
    BY <2>1, <2>2
<1>. QED
  BY <1>4, <1>5

LEMMA NextTextInv == ASSUME ApiInv, user = "gosqlx", NextText PROVE ApiInv'
<1>1. LoopDone /\ LoopInv' /\ AtRest' /\ ~strict' /\ Succeeded
  BY LoopReset DEF NextText, ApiInv
<1>2. PICK c, m, r : Returned1(c, m, r)
  BY <1>1, LoopReturned
<1>3. UNCHANGED <<input, readable, user>> /\ UNCHANGED <<asked, cancelled>>
  BY <1>1 DEF LoopDone
<1>4. /\ c.next < Len(c.more) /\ call[1] = c /\ c.next \in Nat /\ c.more \in Batches /\ CallOK(c)
      /\ call = <<c>> /\ F = c.f /\ c.f \in Functions /\ readable /\ (~c.f.several => c.more = <<>>)
  BY <1>2 DEF NextText, Returned1, CallOK
<1>5. c.more \in {<<TRUE>>, <<FALSE>>} /\ c.next = 0 /\ c.f.several
  <2>1. c.more # <<>>
    BY <1>4
  <2>2. c.more \in {<<TRUE>>, <<FALSE>>}
    BY <1>4, <2>1 DEF Batches
  <2>3. Len(<<TRUE>>) = 1 /\ Len(<<FALSE>>) = 1
    OBVIOUS
  <2>4. c.next < 1
    BY <1>4, <2>2, <2>3
  <2>. QED
    <3>1. c.f.several \in BOOLEAN
      BY <1>2 DEF Returned1, FunctionOK
    <3>2. c.f.several
      BY <1>4, <2>1, <3>1
    <3>3. c.next = 0
      BY <1>4, <2>4
    <3>. QED
      BY <2>2, <3>2, <3>3
<1>6. CASE c.more = <<TRUE>>
  <2>1. PICK d : d = [c EXCEPT !.at = "tokens", !.next = @ + 1, !.live = Live]
    OBVIOUS
  <2>2. call' = <<d>> /\ UNCHANGED answers
    BY <1>4, <1>5, <1>6, <2>1 DEF NextText
  <2>3. /\ d \in [f : Functions, at : {"reader", "text", "tokens", "loop"}, more : Batches,
                  next : Nat, live : Nat]
        /\ d.f = c.f /\ d.at = "tokens" /\ d.more = c.more
    <3>1. Live \in Nat
      BY <1>2, LiveIs
    <3>2. c \in [f : Functions, at : {"reader", "text", "tokens", "loop"}, more : Batches,
                  next : Nat, live : Nat]
      BY <1>4 DEF CallOK
    <3>3. d = [f |-> c.f, at |-> "tokens", more |-> c.more, next |-> c.next + 1, live |-> Live]
      BY <2>1, <3>2
    <3>. QED
      BY <1>4, <3>1, <3>2, <3>3
  <2>4. CallOK(d)'
    BY <1>1, <1>3, <1>4, <1>5, <2>3 DEF CallOK
  <2>. QED
    BY <1>1, <1>3, <2>2, <2>4, GoesOnUnanswered
<1>7. CASE c.more = <<FALSE>>
  <2>1. PICK f, a : f = c.f /\ a = [kind |-> "tokenize", stmts |-> {}, live |-> Live, given |-> 0, done |-> cancelled,
                    all |-> call = <<>> \/ FALSE \notin {call[1].more[i] : i \in DOMAIN call[1].more}]
    OBVIOUS
  <2>2. Answer(F, "tokenize", {}, Live, 0)
    BY <1>4, <1>5, <1>7 DEF NextText
  <2>3. answers' = [answers EXCEPT ![f] = <<a>>] /\ call' = <<>>
    BY <1>4, <2>1, <2>2 DEF Answer
  <2>4. a.kind = "tokenize" /\ ~a.all
    <3>1. DOMAIN <<FALSE>> = {1} /\ <<FALSE>>[1] = FALSE /\ call # <<>>
      BY <1>4
    <3>2. FALSE \in {call[1].more[i] : i \in DOMAIN call[1].more}
      BY <1>4, <1>7, <3>1
    <3>. QED
      BY <2>1, <3>1, <3>2
  <2>5. AnswerOK(f, a)
    <3>1. a.stmts = {} /\ Begun({})
      BY <2>1 DEF Begun
    <3>. QED
      BY <1>5, <2>1, <2>4, <3>1 DEF AnswerOK, TreesOK
  <2>. QED
    BY <1>1, <1>3, <1>4, <2>1, <2>3, <2>5, Answers
<1>. QED
  BY <1>5, <1>6, <1>7

LEMMA FinishedInv == ASSUME ApiInv, user = "gosqlx", Finished PROVE ApiInv'
<1>1. LoopDone /\ LoopInv' /\ AtRest' /\ ~strict'
  BY LoopReset DEF Finished, ApiInv
<1>2. PICK c, m, r : Returned1(c, m, r)
  BY <1>1, LoopReturned
<1>3. UNCHANGED <<input, readable, user>>
  BY <1>1 DEF LoopDone
<1>4. /\ call = <<c>> /\ F = c.f /\ c.f \in Functions /\ readable /\ F.mode = m /\ (cancelled => c.f.timed)
      /\ FunctionOK(c.f)
  BY <1>2 DEF Returned1, CallOK
<1>a. PICK over : over = (cancelled /\ ((m = "context" /\ ~Succeeded) \/ c.f.deadline))
  OBVIOUS
<1>b. PICK kind : kind = IF over THEN "timeout" ELSE IF Succeeded THEN "ok" ELSE "syntax"
  OBVIOUS
<1>c. PICK given : given = IF kind = "ok" /\ c.f.tree = "given" THEN Live ELSE 0
  OBVIOUS
<1>d. PICK shown : shown = IF (m = "recovery" /\ c.f.tree = "given") \/ kind = "ok" THEN r.stmts ELSE {}
  OBVIOUS
<1>5. /\ over \in BOOLEAN
      /\ over <=> cancelled /\ ((m = "context" /\ ~Succeeded) \/ c.f.deadline)
      /\ kind = IF over THEN "timeout" ELSE IF Succeeded THEN "ok" ELSE "syntax"
      /\ given = IF kind = "ok" /\ c.f.tree = "given" THEN Live ELSE 0
      /\ (kind = "ok" => shown = r.stmts)
      /\ Answer(F, kind, shown, Live, given)
  <2>1. Result(F.mode).stmts = r.stmts
    BY <1>2, <1>4 DEF Returned1
  <2>2. Answer(F, kind, shown, Live, given)
    BY <1>4, <1>a, <1>b, <1>c, <1>d, <2>1 DEF Finished
  <2>. QED
    BY <1>a, <1>b, <1>c, <1>d, <2>2
<1>6. PICK f, a : f = c.f /\ a = [kind |-> kind, stmts |-> shown, live |-> Live, given |-> given, done |-> cancelled,
                  all |-> call = <<>> \/ FALSE \notin {call[1].more[i] : i \in DOMAIN call[1].more}]
  OBVIOUS
<1>7. answers' = [answers EXCEPT ![f] = <<a>>] /\ call' = <<>>
  BY <1>4, <1>5, <1>6 DEF Answer
<1>8. a.kind = kind /\ a.live = Live /\ a.given = given /\ a.stmts = shown
  BY <1>6
<1>9. kind = "timeout" => f.timed
  BY <1>4, <1>5, <1>6
<1>10. TreesOK(f, a)
  <2>1. /\ Live \in Nat
        /\ ~f.several /\ (f.tree \in {"released", "unlessError"} \/ ~Succeeded) => Live = 0
    BY <1>2, <1>6, LiveIs
  <2>2. /\ f.tree \in {"given", "dropped", "released", "unlessError"}
        /\ f.tree \in {"released", "unlessError"} => ~f.several
        /\ f.deadline \in BOOLEAN /\ f.several \in BOOLEAN
    BY <1>4, <1>6 DEF FunctionOK
  <2>3. CASE kind = "ok"
    BY <1>5, <1>6, <1>8, <2>1, <2>2, <2>3 DEF TreesOK
  <2>4. CASE kind = "syntax"
    BY <1>5, <1>6, <1>8, <2>1, <2>2, <2>4 DEF TreesOK
  <2>5. CASE kind = "timeout"
    BY <1>5, <1>6, <1>8, <2>1, <2>2, <2>5 DEF TreesOK
  <2>. QED
    BY <1>5, <2>3, <2>4, <2>5
<1>11. ~Disturbed(f, a) => Verdict(f, a)
  <2>1. SUFFICES ASSUME kind # "timeout", m = "context" => ~cancelled PROVE Verdict(f, a)
    BY <1>2, <1>6, <1>8 DEF Disturbed, Interrupted, Returned1
  <2>2. m = "context" => ~r.done
    BY <1>2, <2>1 DEF Returned1
  <2>3. a.kind = (IF Succeeded THEN "ok" ELSE "syntax") /\ (Succeeded => a.stmts = r.stmts)
    BY <1>5, <1>8, <2>1
  <2>. QED
    BY <1>2, <1>6, <2>2, <2>3, LoopJudges
<1>12. f.mode = "context" \/ Interrupted(kind) => a.stmts \subseteq Positions /\ Begun(a.stmts)
  <2>1. SUFFICES ASSUME m = "context" PROVE shown \subseteq Positions /\ Begun(shown)
    BY <1>2, <1>4, <1>5, <1>6, <1>8 DEF Returned1, FunctionOK, Interrupted
  <2>2. shown = r.stmts \/ shown = {}
    BY <1>d
  <2>3. r.stmts \subseteq Positions /\ Begun(r.stmts)
    BY <1>2, <2>1 DEF Returned1, Judges, Begun
  <2>. QED
    BY <2>2, <2>3 DEF Begun
<1>13. AnswerOK(f, a)
  BY <1>4, <1>6, <1>8, <1>9, <1>10, <1>11, <1>12 DEF AnswerOK
<1>. QED
  BY <1>1, <1>3, <1>4, <1>6, <1>7, <1>13, Answers

-----------------------------------------------------------------------------
LEMMA ApiStarts == ApiInit => ApiInv
<1>1. SUFFICES ASSUME ApiInit PROVE ApiInv
  OBVIOUS
<1>2. LoopInv
  BY <1>1, InitLoop DEF ApiInit
<1>3. AtRest /\ ~strict
  BY <1>1 DEF ApiInit, Init, AtRest, Done
<1>4. CallersOK /\ AnswersOK
  BY <1>1, <1>3 DEF ApiInit, CallersOK, AnswersOK, Answered
<1>. QED
  BY <1>2, <1>4 DEF ApiInv

LEMMA ApiGoesOn == ApiInv /\ [ApiNext]_<<vars, apiVars>> => ApiInv'
<1>1. SUFFICES ASSUME ApiInv, [ApiNext]_<<vars, apiVars>> PROVE ApiInv'
  OBVIOUS
<1>2. ASSUME [Next]_vars, UNCHANGED apiVars, user = "parser" \/ UNCHANGED vars PROVE ApiInv'
  <2>1. UNCHANGED <<user, readable, call, answers>> /\ LoopInv' /\ (user = "parser" => call = <<>>)
    BY <1>1, <1>2, NextLoop DEF apiVars, ApiInv, CallersOK
  <2>2. UNCHANGED input
    <3>1. CASE UNCHANGED vars
      BY <3>1 DEF vars, input
    <3>2. CASE Next
      <4>1. Step => UNCHANGED input
        BY StepMoves DEF Moves
      <4>. QED
        BY <3>2, <4>1 DEF Next, Cancel, ApplyStrict, Recycle, Call
    <3>. QED
      BY <1>2, <3>1, <3>2
  <2>3. CallersOK'
    <3>1. CASE user = "parser"
      BY <1>1, <2>1, <3>1 DEF ApiInv, CallersOK
    <3>2. CASE UNCHANGED vars
      BY <1>1, <2>1, <3>2 DEF ApiInv, CallersOK, CallOK, AtRest, Done, Result, vars
    <3>. QED
      BY <1>2, <3>1, <3>2
  <2>4. AnswersOK'
    BY <1>1, <2>1, <2>2, AnswersKept DEF ApiInv, AnswersOK, Answered, TheAnswer
  <2>. QED
    BY <2>1, <2>3, <2>4 DEF ApiInv
<1>3. CASE user = "gosqlx" /\ GosqlxNext
  <2>1. CASE GosqlxStep
    BY <1>1, <1>3, <2>1, ReadAllBoundedInv, TokenizeContextInv, TokenizeInv, RunInv, LoopStepInv,
       NextTextInv, FinishedInv DEF GosqlxStep
  <2>. QED
    BY <1>1, <1>3, <2>1, BeginInv, DeadlineInv DEF GosqlxNext
<1>4. CASE user = "parser" /\ Next /\ UNCHANGED apiVars
  BY <1>2, <1>4
<1>5. CASE UNCHANGED <<vars, apiVars>>
  BY <1>2, <1>5
<1>. QED
  BY <1>1, <1>3, <1>4, <1>5 DEF ApiNext

LEMMA ApiInvariance == ApiSpec => []ApiInv
BY ApiStarts, ApiGoesOn, PTL DEF ApiSpec

-----------------------------------------------------------------------------
(* What follows *)

(* The answers of two functions that were not disturbed. *)
LEMMA VerdictsAgree ==
    ASSUME ApiInv, NEW f, NEW g, NEW a, NEW b, AnswerOK(f, a), AnswerOK(g, b),
           ~Disturbed(f, a), a.all, ~Disturbed(g, b), b.all,
           ~(Nothing /\ (TakesNothing(f) \/ TakesNothing(g)))
    PROVE  a.kind = b.kind /\ (a.kind = "ok" => a.stmts = b.stmts)
<1>1. CASE ~readable
  BY <1>1 DEF AnswerOK
<1>2. CASE readable
  <2>1. Verdict(f, a) /\ Verdict(g, b)
    BY <1>2 DEF AnswerOK
  <2>2. CASE Nothing
    BY <2>1, <2>2 DEF Verdict
  <2>3. CASE ~Nothing
    <3>1. PICK S \in SUBSET Positions, p \in 1..Length + 1 :
            /\ RunsTo(S, p) /\ Ends(p)
            /\ IF p = Length + 1 THEN a.kind = "ok" /\ a.stmts = S ELSE a.kind = "syntax"
      BY <2>1, <2>3 DEF Verdict
    <3>2. PICK T \in SUBSET Positions, q \in 1..Length + 1 :
            /\ RunsTo(T, q) /\ Ends(q)
            /\ IF q = Length + 1 THEN b.kind = "ok" /\ b.stmts = T ELSE b.kind = "syntax"
      BY <2>1, <2>3 DEF Verdict
    <3>3. S = T /\ p = q
      BY <3>1, <3>2, RunsAgree DEF ApiInv, LoopInv
    <3>. QED
      BY <3>1, <3>2, <3>3
  <2>. QED
    BY <2>2, <2>3
<1>. QED
  BY <1>1, <1>2 DEF ApiInv, CallersOK

LEMMA AnswersOfAllAgree == ApiInv => AnswersAgree
<1>1. SUFFICES ASSUME ApiInv,
                      NEW f \in Functions, Answered(f), ~Disturbed(f, TheAnswer(f)), TheAnswer(f).all,
                      NEW g \in Functions, Answered(g),
                      NEW a, a = TheAnswer(f), NEW b, b = TheAnswer(g)
               PROVE  IF Disturbed(g, b)
                      THEN a.kind = "ok" => b.stmts \subseteq a.stmts
                      ELSE b.all =>
                              \/ Nothing /\ (TakesNothing(f) \/ TakesNothing(g))
                              \/ a.kind = b.kind /\ (a.kind = "ok" => a.stmts = b.stmts)
  BY DEF AnswersAgree
<1>2. AnswerOK(f, a) /\ AnswerOK(g, b) /\ ~Disturbed(f, a) /\ a.all
  BY <1>1 DEF ApiInv, AnswersOK
<1>3. CASE ~Disturbed(g, b)
  BY <1>1, <1>2, <1>3, VerdictsAgree
<1>4. ASSUME Disturbed(g, b), a.kind = "ok", NEW i \in b.stmts
      PROVE  i \in a.stmts
  <2>1. InputOK /\ Length \in Nat /\ Positions = 1..Length /\ readable
    BY <1>1, <1>2, <1>4, KindIs DEF ApiInv, LoopInv, AnswerOK, CallersOK
  <2>2. i \in Positions /\ tokens[i] # Semi /\ Begun({i})
    BY <1>2, <1>4 DEF AnswerOK, Disturbed, Begun
  <2>3. Verdict(f, a) /\ ~Nothing
    BY <1>2, <2>1, <2>2 DEF AnswerOK, Nothing
  <2>4. RunsTo(a.stmts, Length + 1)
    BY <1>4, <2>3 DEF Verdict
  <2>. QED
    BY <2>1, <2>2, <2>4, WholeRunBegins
<1>. QED
  BY <1>3, <1>4

LEMMA ApiLeavesNothing == ApiInv => NothingIsLeftBehind
<1>1. SUFFICES ASSUME ApiInv PROVE NothingIsLeftBehind
  OBVIOUS
<1>2. CallLeavesNothingBehind
  BY <1>1, LoopLeavesNothing DEF ApiInv
<1>3. call = <<>> /\ user = "gosqlx" => ~strict /\ ~ctx
  BY <1>1 DEF ApiInv, CallersOK, AtRest, LoopInv, StateOK
<1>4. TreesAreAccountedFor /\ TimeoutsAreReal
  BY <1>1 DEF ApiInv, AnswersOK, AnswerOK, TreesOK, TreesAreAccountedFor, TimeoutsAreReal
<1>. QED
  BY <1>2, <1>3, <1>4 DEF NothingIsLeftBehind

-----------------------------------------------------------------------------

(* The types of the parser's state, when the functions of pkg/gosqlx use it. *)
THEOREM ApiTypeCorrect == ApiSpec => []TypeOK
BY ApiInvariance, LoopTypes, PTL DEF ApiInv

(* parser.Parse, ParseContext and ParseWithRecovery, and the functions of
   gosqlx.go, tree.go and validate.go that call them, judge a text alike and
   find the same statements in it, however long it is, with or without a
   context, alone or in a batch; only a context that is done, another
   interruption, or a text without a statement, makes a difference, and a context
   that is done does not make them find what is no statement of the text. *)
THEOREM EntryPointsAlwaysAgree == ApiSpec => []EntryPointsAgree
<1>1. ApiInv => EntryPointsAgree
  BY LoopModesAgree, AnswersOfAllAgree DEF ApiInv, EntryPointsAgree
<1>. QED
  BY <1>1, ApiInvariance, PTL

(* parseWithRecovery, behind ParseWithRecovery and ParseTree too: every piece
   between semicolons is parsed or reported, or an earlier statement has read
   into it. *)
THEOREM EveryPieceAnsweredThroughApi == ApiSpec => []EveryPieceAnswered
<1>1. ApiInv => EveryPieceAnswered
  BY LoopAnswersPieces DEF ApiInv
<1>. QED
  BY <1>1, ApiInvariance, PTL

(* The release of the trees in gosqlx.go, tree.go and validate.go, and Reset of
   the pooled parser: no tree is lost but where the code drops it, no setting
   of a call stays with the parser, and only a call with a context times out. *)
THEOREM NothingIsEverLeftBehind == ApiSpec => []NothingIsLeftBehind
BY ApiInvariance, ApiLeavesNothing, PTL

(* A context that is done stops the loop within the statement under way, also
   behind ParseWithContext, ParseWithTimeout and ParseTree. *)
THEOREM CancelStopsTheLoopThroughApi == ApiSpec => []CancelStopsTheLoop
<1>1. ApiInv => CancelStopsTheLoop
  BY LoopStopsOnCancel DEF ApiInv
<1>. QED
  BY <1>1, ApiInvariance, PTL
=============================================================================
