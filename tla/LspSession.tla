----------------------------- MODULE LspSession -----------------------------
(***************************************************************************)
(* One session of the language server: framing, rate limit, dispatch and   *)
(* exit (pkg/lsp/server.go).                                               *)
(*                                                                         *)
(* The client writes frames, a Content-Length line, a blank line and a     *)
(* body, to a stream the server reads line by line.  A body does not end   *)
(* with a newline: read as part of a header it swallows the line that      *)
(* follows it, and so does the rest of a body that was read in part.  Run  *)
(* reads and handles one message at a time.  What the handlers do with     *)
(* documents is the subject of LspDiagnostics.                             *)
(***************************************************************************)
EXTENDS Integers, Sequences, FiniteSets

CONSTANTS
    Lengths,            \* the Content-Length lines the client writes
    Kinds,              \* the kinds of messages it writes
    RateLimitRequests,  \* messages per window
    RateLimitWindow,    \* ticks per window
    MaxMessages,        \* bound: messages sent
    MaxTime             \* bound: ticks

\* "ok" is the length of the body that follows, "short" and "long" are less and more;
\* the others are not a number, below zero, above MaxContentLength, and zero or,
\* with another header in its place, missing.
ASSUME LengthsAssumption ==
    Lengths \subseteq {"ok", "short", "long", "invalid", "negative", "oversize", "missing"}

\* A request for a known or an unknown method, a message with an id and no
\* method, JSON of the wrong shape with an id, other text, exit, and any other
\* notification.
ASSUME KindsAssumption ==
    Kinds \subseteq {"request", "unknown", "noMethod", "wrongShape", "notJSON", "exit",
                     "notification"}

ASSUME BoundsAssumption ==
    /\ RateLimitRequests \in Nat \ {0} /\ RateLimitWindow \in Nat \ {0}
    /\ MaxMessages \in Nat /\ MaxTime \in Nat

VARIABLES
    messages,       \* the messages sent; a message is named by its index
    stream,         \* what the server has not read yet
    input,          \* "open", "eof" or "broken" behind the stream
    pc,             \* where Run is: "reading", "handling", "returned", "panicked"
    contentLength,  \* of the header block being read
    message,        \* the message being handled
    requestCount, lastReset,
    shutdown,
    now,
    answers,        \* the responses written: message and code
    allowed         \* when checkRateLimit let a message pass

vars == <<messages, stream, input, pc, contentLength, message, requestCount, lastReset,
          shutdown, now, answers, allowed>>
readVars == <<pc, contentLength, message, stream>>
limitVars == <<requestCount, lastReset, allowed>>

Messages == DOMAIN messages
None == 0

Line(length) == [item |-> "length", value |-> length, message |-> None]
Blank == [item |-> "blank", value |-> "missing", message |-> None]
Body(m) == [item |-> "body", value |-> "missing", message |-> m]

Init ==
    /\ messages = <<>> /\ stream = <<>> /\ input = "open"
    /\ pc = "reading" /\ contentLength = "missing" /\ message = None
    /\ requestCount = 0 /\ lastReset = 0 /\ shutdown = FALSE
    /\ now = 0 /\ answers = <<>> /\ allowed = <<>>

-----------------------------------------------------------------------------
(* The client and the clock *)

ClientSends(kind, length) ==
    /\ input = "open" /\ Len(messages) < MaxMessages
    /\ messages' = Append(messages, [kind |-> kind, length |-> length])
    /\ stream' = stream \o <<Line(length), Blank, Body(Len(messages) + 1)>>
    /\ UNCHANGED <<input, pc, contentLength, message, limitVars, shutdown, now, answers>>

\* The client goes away, or reading from it starts to fail for good, after a
\* whole frame or inside one.
InputEnds(how, whole) ==
    /\ input = "open"
    /\ input' = how
    /\ stream' = IF whole \/ stream = <<>> THEN stream ELSE SubSeq(stream, 1, Len(stream) - 1)
    /\ UNCHANGED <<messages, pc, contentLength, message, limitVars, shutdown, now, answers>>

Tick ==
    /\ now < MaxTime
    /\ now' = now + 1
    /\ UNCHANGED <<messages, input, readVars, limitVars, shutdown, answers>>

-----------------------------------------------------------------------------
(* Run and readMessage *)

\* ReadString: a body joins the line that follows it, and the result is neither
\* blank nor a Content-Length.
Unended == {"body", "rest"}
EndOfLine == CHOOSE i \in DOMAIN stream :
    stream[i].item \notin Unended /\ \A j \in 1..i - 1 : stream[j].item \in Unended
HasLine == \E i \in DOMAIN stream : stream[i].item \notin Unended
FirstLine == IF stream[1].item \in Unended THEN "other" ELSE stream[1].item
AfterLine == SubSeq(stream, EndOfLine + 1, Len(stream))

\* Mutant: the next message starts out with the last one.
ReadAgainWithMessage == pc' = "reading" /\ contentLength' = "missing" /\ UNCHANGED message

\* An error of readMessage: Run logs it and calls readMessage again.
ReadAgain == pc' = "reading" /\ contentLength' = "missing" /\ message' = None

ReadHeader ==
    /\ pc = "reading" /\ HasLine
    /\ \/ /\ FirstLine = "other"
          /\ UNCHANGED <<pc, contentLength, message>>
       \/ /\ FirstLine = "length" /\ stream[1].value # "invalid"
          /\ contentLength' = stream[1].value
          /\ UNCHANGED <<pc, message>>
       \/ /\ FirstLine = "length" /\ stream[1].value = "invalid"
          /\ ReadAgain
    /\ stream' = AfterLine
    /\ UNCHANGED <<messages, input, limitVars, shutdown, now, answers>>

HeaderEnds == pc = "reading" /\ HasLine /\ FirstLine = "blank"

RejectHeader ==
    /\ HeaderEnds /\ contentLength \in {"missing", "oversize"}
    /\ ReadAgain
    /\ stream' = AfterLine
    /\ UNCHANGED <<messages, input, limitVars, shutdown, now, answers>>

\* make refuses a length below zero, and nobody recovers.
Panic ==
    /\ HeaderEnds /\ contentLength = "negative"
    /\ pc' = "panicked" /\ contentLength' = "missing" /\ UNCHANGED message
    /\ stream' = AfterLine
    /\ UNCHANGED <<messages, input, limitVars, shutdown, now, answers>>

\* What io.ReadFull leaves: of a body, the rest; or, when it takes more, nothing that
\* counts of the line behind the body.
AfterContent ==
    CASE contentLength = "short" -> [SubSeq(stream, 2, Len(stream)) EXCEPT ![1].item = "rest"]
      [] contentLength = "long"  -> SubSeq(stream, 4, Len(stream))
      [] OTHER                   -> SubSeq(stream, 3, Len(stream))

\* The content is there: the body, and with it a part of the next frame if need be.
ContentIsThere == Len(stream) > IF contentLength = "long" THEN 2 ELSE 1

ReadContent ==
    /\ HeaderEnds /\ contentLength \in {"ok", "short", "long"} /\ ContentIsThere
    /\ pc' = "handling" /\ message' = stream[2].message /\ contentLength' = "missing"
    /\ stream' = AfterContent
    /\ UNCHANGED <<messages, input, limitVars, shutdown, now, answers>>

\* io.ReadFull: the input ended inside the content.
ReadShort ==
    /\ HeaderEnds /\ contentLength \in {"ok", "short", "long"} /\ ~ContentIsThere
    /\ input # "open"
    /\ ReadAgain /\ stream' = <<>>
    /\ UNCHANGED <<messages, input, limitVars, shutdown, now, answers>>

\* Mutant: Run only returns at the end of a line.
ReadEOFAtLineStart ==
    /\ pc = "reading" /\ stream = <<>> /\ input = "eof"
    /\ pc' = "returned"
    /\ UNCHANGED <<messages, input, contentLength, message, stream, limitVars, shutdown, now,
                   answers>>

\* io.EOF ends Run; what a last line without newline held is dropped.
ReadEOF ==
    /\ pc = "reading" /\ ~HasLine /\ input = "eof"
    /\ pc' = "returned"
    /\ UNCHANGED <<messages, input, contentLength, message, stream, limitVars, shutdown, now,
                   answers>>

\* Any other error is logged and reading goes on.
ReadError ==
    /\ pc = "reading" /\ ~HasLine /\ input = "broken"
    /\ ReadAgain /\ stream' = <<>>
    /\ UNCHANGED <<messages, input, limitVars, shutdown, now, answers>>

-----------------------------------------------------------------------------
(* handleMessage *)

WindowPassed == now - lastReset >= RateLimitWindow

\* Mutant: a window that has passed is not started anew.
CheckRateLimitOnce(pass) ==
    /\ requestCount' = IF WindowPassed THEN 1 ELSE requestCount + 1
    /\ UNCHANGED lastReset
    /\ pass = (WindowPassed \/ requestCount + 1 <= RateLimitRequests)
    /\ allowed' = IF pass THEN Append(allowed, now) ELSE allowed

\* checkRateLimit: a window starts with the first message after the last one.
CheckRateLimit(pass) ==
    /\ requestCount' = IF WindowPassed THEN 1 ELSE requestCount + 1
    /\ lastReset' = IF WindowPassed THEN now ELSE lastReset
    /\ pass = (WindowPassed \/ requestCount + 1 <= RateLimitRequests)
    /\ allowed' = IF pass THEN Append(allowed, now) ELSE allowed

\* A request is answered by its handler. "unknown" is a method that has none, or
\* one that cannot use the parameters: the code for both is the same.
HandleRequest(kind) == IF kind = "unknown" THEN "InternalError" ELSE "result"

\* Of the notifications the session itself only takes "exit"; the ones of documents
\* are DiagnosticsService.
HandleNotification(kind) == shutdown' = (shutdown \/ kind = "exit")

\* What the message is to the server: with a length that is not its own, a text that
\* is no JSON.
Content(m) == IF messages[m].length = "ok" THEN messages[m].kind ELSE "notJSON"

\* A result, or the code of an error.
Codes == {"result", "ParseError", "InvalidRequest", "InternalError", "RequestCancelled"}

\* The response code, "none" for a message that gets no response.
Response(kind) ==
    CASE kind \in {"request", "unknown"} -> HandleRequest(kind)
      [] kind = "noMethod" -> "InvalidRequest"
      [] kind = "wrongShape" -> "ParseError"
      [] OTHER -> "none"

\* Over the limit only what unmarshals as a request with an id is answered.
OverLimitResponse(kind) ==
    IF kind \in {"request", "unknown", "noMethod"} THEN "RequestCancelled" ELSE "none"

\* Mutant: the error path of a request falls through to its result.
AnswerTwice(code) ==
    answers' = IF code = "none" THEN answers
               ELSE answers \o <<[message |-> message, code |-> code],
                                 [message |-> message, code |-> "result"]>>

Answer(code) ==
    answers' = IF code = "none" THEN answers
               ELSE Append(answers, [message |-> message, code |-> code])

\* Mutant: a rejected request is dropped like a notification.
RefuseSilently ==
    /\ pc = "handling"
    /\ CheckRateLimit(FALSE)
    /\ ReadAgain
    /\ UNCHANGED <<messages, stream, input, shutdown, now, answers>>

Refuse ==
    /\ pc = "handling"
    /\ CheckRateLimit(FALSE)
    /\ Answer(OverLimitResponse(Content(message)))
    /\ ReadAgain
    /\ UNCHANGED <<messages, stream, input, shutdown, now>>

Handle ==
    /\ pc = "handling"
    /\ CheckRateLimit(TRUE)
    /\ Answer(Response(Content(message)))
    /\ HandleNotification(Content(message))
    /\ IF shutdown' THEN pc' = "returned" /\ message' = None /\ UNCHANGED contentLength ELSE ReadAgain
    /\ UNCHANGED <<messages, stream, input, now>>

Run ==
    ReadHeader \/ RejectHeader \/ Panic \/ ReadContent \/ ReadShort \/ ReadEOF \/ ReadError
        \/ Refuse \/ Handle

Next ==
    \/ \E k \in Kinds, l \in Lengths : ClientSends(k, l)
    \/ \E how \in {"eof", "broken"}, whole \in BOOLEAN : InputEnds(how, whole)
    \/ Tick
    \/ Run

\* Run is a loop of one goroutine.
Spec == Init /\ [][Next]_vars /\ WF_vars(Run)

-----------------------------------------------------------------------------
(* Properties *)

TypeOK ==
    /\ messages \in Seq([kind : Kinds, length : Lengths])
    /\ \A i \in DOMAIN stream :
         stream[i] \in [item : {"length", "blank", "body", "rest"},
                        value : {"ok", "short", "long", "invalid", "negative", "oversize", "missing"},
                        message : 0..MaxMessages]
    /\ input \in {"open", "eof", "broken"}
    /\ pc \in {"reading", "handling", "returned", "panicked"}
    /\ contentLength \in {"ok", "short", "long", "negative", "oversize", "missing"}
    /\ message \in Messages \cup {None}
    /\ pc = "handling" <=> message # None
    /\ requestCount \in 0..MaxMessages /\ lastReset \in 0..now /\ now \in 0..MaxTime
    /\ shutdown \in BOOLEAN
    /\ \A i \in DOMAIN answers : answers[i] \in [message : Messages, code : Codes]
    /\ \A i \in DOMAIN allowed : allowed[i] \in 0..now

HasId(kind) == kind \in {"request", "unknown", "noMethod", "wrongShape"}

\* Requests are answered in the order they were sent, at most once each, and
\* nothing else is answered.
AnswersInOrder ==
    /\ \A i \in DOMAIN answers : HasId(messages[answers[i].message].kind)
    /\ \A i, j \in DOMAIN answers : i < j => answers[i].message < answers[j].message

\* Any stretch of RateLimitWindow ticks sees at most twice the limit.
AllowedFrom(t) == {i \in DOMAIN allowed : allowed[i] \in t..t + RateLimitWindow - 1}
BurstAtMostTwice == \A t \in 0..MaxTime : Cardinality(AllowedFrom(t)) <= 2 * RateLimitRequests

Answered(m) == \E i \in DOMAIN answers : answers[i].message = m

\* A request gets a response, over the limit or not, unless a frame was damaged
\* or the client is gone.
Damaged == \E m \in Messages : messages[m].length # "ok"
RequestIsAnswered ==
    \A m \in 1..MaxMessages :
        (m \in Messages /\ messages[m].kind \in {"request", "unknown", "noMethod"})
            ~> (Answered(m) \/ pc = "returned" \/ input = "broken" \/ Damaged)

\* "EOF on stdin: Assumes client disconnected, returns nil" (server.go:253): however
\* the input ends, and whatever was damaged before, Run is over; but for a panic.
EOFReturns == input = "eof" ~> pc \in {"returned", "panicked"}
=============================================================================
