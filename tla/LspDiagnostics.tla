--------------------------- MODULE LspDiagnostics ---------------------------
(***************************************************************************)
(* Text synchronisation and diagnostics of the language server:            *)
(* pkg/lsp/handler.go (didOpen, didChange, didSave, didClose and the       *)
(* debounced validation) over the DocumentManager of pkg/lsp/documents.go. *)
(*                                                                         *)
(* Goroutines: the message loop (Server.Run) handles one notification at a *)
(* time; every expired debounce timer runs its callback in a goroutine of  *)
(* its own.  They share Handler.debounceTimers, under debounceMu, and the  *)
(* output stream, under writeMu.  A callback has captured its document,    *)
(* text and version, so it never reads the DocumentManager.                *)
(*                                                                         *)
(* The editor is part of the model: it follows the protocol (one didOpen,  *)
(* changes with increasing versions, one didClose) and its notifications   *)
(* arrive in order, but the rate limiter of handleMessage may drop any of  *)
(* them without an answer.  A content change is a function of the text it  *)
(* is applied to: a full sync is a constant function, an incremental one   *)
(* is not, and a didChange with several changes is their composition.      *)
(***************************************************************************)
EXTENDS Naturals

CONSTANTS
    Docs,        \* document URIs
    Texts,       \* document contents
    EmptyText,   \* the content ""
    Oversize,    \* the contents longer than MaxDocumentSize
    Changes,     \* the content changes an editor makes: functions on Texts
    Timers,      \* debounce timers that can exist at the same time (a bound)
    MaxVersion,  \* bound: versions an editor gives to one document
    MaxDrops,    \* bound: notifications the rate limiter drops
    Prompt,      \* TRUE: a callback that has started ends before the next
                 \* notification is handled; FALSE: any interleaving
    Loop,        \* names the message loop where a timer could stand
    None         \* no document, no timer, no diagnosed text

ASSUME ParametersAssumption ==
    /\ Texts # {} /\ EmptyText \in Texts
    /\ Oversize \subseteq Texts \ {EmptyText}
    /\ Changes \subseteq [Texts -> Texts]
    /\ MaxVersion \in Nat /\ MaxDrops \in Nat
    /\ Prompt \in BOOLEAN

ASSUME NoneAssumption ==
    /\ None \notin Docs \cup Texts \cup Timers
    /\ Loop \notin Timers
    /\ None \notin [version : Nat, text : Texts]
    /\ None \notin [uri : Docs, version : Nat, of : Texts \cup {None}]

VARIABLES
    client,          \* the editor's copy of each document
    lastVersion,     \* the last version the editor gave to each document
    sent,            \* sent[d][v]: the editor's text of d at version v
    drops,           \* notifications dropped so far
    documents,       \* DocumentManager.documents
    debounceTimers,  \* Handler.debounceTimers
    timer,           \* phase of each timer and of its callback
    job,             \* what each timer's callback has captured
    handling,        \* the publication the message loop is about to send
    shown            \* the last publication the editor received per document

editorVars == <<client, lastVersion, sent, drops>>
timerVars == <<debounceTimers, timer, job>>
vars == <<client, lastVersion, sent, drops, documents, debounceTimers, timer,
          job, handling, shown>>

Document == [version : 0..MaxVersion, text : Texts]

\* PublishDiagnosticsParams, with the text that was parsed for it in place of
\* the list of diagnostics; "of" is None when the list was sent empty on
\* purpose.  Version 0 stands for an omitted version.
Publication == [uri : Docs, version : 0..MaxVersion, of : Texts \cup {None}]

\* Mutant: the version of the publication is the next one.
DiagnoseNextVersion(d, v, x) == [uri |-> d, version |-> v + 1, of |-> x]

Diagnose(d, v, x) == [uri |-> d, version |-> v, of |-> x]
Clear(d, v) == Diagnose(d, v, None)

\* "armed": the runtime timer is pending; "fired": it expired and its goroutine
\* has not taken debounceMu yet; "running": the callback has left its critical
\* section and is parsing.
Phase == {"idle", "armed", "fired", "running"}
Started(t) == timer[t] \in {"fired", "running"}

Init ==
    /\ client = [d \in Docs |-> None]
    /\ lastVersion = [d \in Docs |-> 0]
    /\ sent = [d \in Docs |-> [v \in 1..MaxVersion |-> None]]
    /\ drops = 0
    /\ documents = [d \in Docs |-> None]
    /\ debounceTimers = [d \in Docs |-> None]
    /\ timer = [t \in Timers |-> "idle"]
    /\ job = [t \in Timers |-> None]
    /\ handling = None
    /\ shown = [d \in Docs |-> Clear(d, 0)]

-----------------------------------------------------------------------------
(* The editor *)

EditorHas(d, x) ==
    LET v == lastVersion[d] + 1
    IN  /\ lastVersion[d] < MaxVersion
        /\ lastVersion' = [lastVersion EXCEPT ![d] = v]
        /\ client' = [client EXCEPT ![d] = [version |-> v, text |-> x]]
        /\ sent' = [sent EXCEPT ![d][v] = x]

EditorOpens(d, x) == client[d] = None /\ EditorHas(d, x)

EditorEdits(d, c) == client[d] # None /\ EditorHas(d, c[client[d].text])

EditorCloses(d) ==
    /\ client[d] # None
    /\ client' = [client EXCEPT ![d] = None]
    /\ UNCHANGED <<lastVersion, sent>>

-----------------------------------------------------------------------------
(* The message loop *)

\* The loop takes the next notification when the previous handler returned.
Ready == handling = None /\ (Prompt => \A t \in Timers : ~Started(t))

\* checkRateLimit returned false: a notification has no id, so handleMessage
\* returns without an error response.
DropNotification(d) ==
    /\ Ready /\ drops < MaxDrops
    /\ drops' = drops + 1
    /\ \/ \E x \in Texts : EditorOpens(d, x)
       \/ \E c \in Changes : EditorEdits(d, c)
       \/ EditorCloses(d)
    /\ UNCHANGED <<documents, timerVars, handling, shown>>

\* handleDidOpen: the document replaces whatever was stored; an oversize one is
\* not validated.  A pending timer of the same URI is left alone.
DidOpen(d, x) ==
    /\ Ready
    /\ EditorOpens(d, x)
    /\ documents' = [documents EXCEPT ![d] = [version |-> lastVersion'[d], text |-> x]]
    /\ handling' = IF x \in Oversize THEN None ELSE Diagnose(d, lastVersion'[d], x)
    /\ UNCHANGED <<drops, timerVars, shown>>

\* Mutant: the recorded timer is replaced and not stopped.
ScheduleWithoutStop(d, v, x) ==
    \E t \in Timers :
        /\ timer[t] = "idle"
        /\ timer' = [timer EXCEPT ![t] = "armed"]
        /\ job' = [job EXCEPT ![t] = Diagnose(d, v, x)]
        /\ debounceTimers' = [debounceTimers EXCEPT ![d] = t]

\* Mutant: a timer that is already recorded is kept.
ScheduleOnce(d, v, x) ==
    IF debounceTimers[d] # None THEN UNCHANGED timerVars
    ELSE ScheduleWithoutStop(d, v, x)

\* Mutant: the callback validates without a version, as didSave does.
ScheduleWithoutVersion(d, v, x) == ScheduleWithoutStop(d, 0, x)

\* Mutant: the content is read before Update.
ScheduleOldText(d, v, x) == ScheduleWithoutStop(d, v, documents[d].text)

\* The critical section of handleDidChange: stop the recorded timer and record
\* a new one.  Stop has no effect on a timer that already expired.
Schedule(d, v, x) ==
    \E t \in Timers :
        /\ timer[t] = "idle"
        /\ timer' = [s \in Timers |->
              IF s = t THEN "armed"
              ELSE IF s = debounceTimers[d] /\ timer[s] = "armed" THEN "idle"
              ELSE timer[s]]
        /\ job' = [s \in Timers |->
              IF s = t THEN Diagnose(d, v, x)
              ELSE IF s = debounceTimers[d] /\ timer[s] = "armed" THEN None
              ELSE job[s]]
        /\ debounceTimers' = [debounceTimers EXCEPT ![d] = t]

\* handleDidChange.  Update ignores an unknown document; an oversize result is
\* answered with empty diagnostics, and its pending timer is left alone.
DidChange(d, c) ==
    /\ Ready
    /\ EditorEdits(d, c)
    /\ IF documents[d] = None
       THEN UNCHANGED <<documents, timerVars, handling>>
       ELSE LET v == lastVersion'[d]
                x == c[documents[d].text]
            IN  /\ documents' = [documents EXCEPT ![d] = [version |-> v, text |-> x]]
                /\ \/ /\ x \in Oversize
                      /\ handling' = Clear(d, v)
                      /\ UNCHANGED timerVars
                   \/ /\ x \notin Oversize
                      /\ Schedule(d, v, x)
                      /\ UNCHANGED handling
    /\ UNCHANGED <<drops, shown>>

\* handleDidSave: the text of the notification when it has one, the stored text
\* otherwise; nothing is validated when that is empty.  The version is 0.
DidSave(d, includeText) ==
    LET stored == IF documents[d] = None THEN EmptyText ELSE documents[d].text
        content == IF includeText /\ client[d].text # EmptyText
                   THEN client[d].text ELSE stored
    IN  /\ Ready
        /\ client[d] # None
        /\ content # EmptyText
        /\ handling' = Diagnose(d, 0, content)
        /\ UNCHANGED <<editorVars, documents, timerVars, shown>>

\* Mutant: didClose leaves the recorded timer alone.
DidCloseWithoutStop(d) ==
    /\ Ready
    /\ EditorCloses(d)
    /\ documents' = [documents EXCEPT ![d] = None]
    /\ handling' = Clear(d, 0)
    /\ UNCHANGED <<drops, timerVars, shown>>

\* handleDidClose: stop and forget the recorded timer, forget the document,
\* publish empty diagnostics without a version.
DidClose(d) ==
    LET stopped == {t \in Timers : t = debounceTimers[d] /\ timer[t] = "armed"}
    IN  /\ Ready
        /\ EditorCloses(d)
        /\ timer' = [t \in Timers |-> IF t \in stopped THEN "idle" ELSE timer[t]]
        /\ job' = [t \in Timers |-> IF t \in stopped THEN None ELSE job[t]]
        /\ debounceTimers' = [debounceTimers EXCEPT ![d] = None]
        /\ documents' = [documents EXCEPT ![d] = None]
        /\ handling' = Clear(d, 0)
        /\ UNCHANGED <<drops, shown>>

Receive(p) == shown' = [shown EXCEPT ![p.uri] = p]

\* The end of a handler that publishes: SendNotification.
SendPublication ==
    /\ handling # None
    /\ Receive(handling)
    /\ handling' = None
    /\ UNCHANGED <<editorVars, documents, timerVars>>

-----------------------------------------------------------------------------
(* A debounce timer and its callback *)

Expire(t) ==
    /\ timer[t] = "armed"
    /\ timer' = [timer EXCEPT ![t] = "fired"]
    /\ UNCHANGED <<editorVars, documents, debounceTimers, job, handling, shown>>

\* Mutant: the callback leaves its entry in the map.
CallbackKeepsEntry(t) ==
    /\ timer[t] = "fired"
    /\ timer' = [timer EXCEPT ![t] = "running"]
    /\ UNCHANGED <<editorVars, documents, debounceTimers, job, handling, shown>>

\* The callback removes the entry of its document, whichever timer it records.
CallbackUnregister(t) ==
    /\ timer[t] = "fired"
    /\ timer' = [timer EXCEPT ![t] = "running"]
    /\ debounceTimers' = [debounceTimers EXCEPT ![job[t].uri] = None]
    /\ UNCHANGED <<editorVars, documents, job, handling, shown>>

\* Mutant: the callback publishes only while its document is still recorded.
CallbackSkipsPublish(t) ==
    /\ timer[t] = "running"
    /\ shown' = IF debounceTimers[job[t].uri] = None THEN shown
                ELSE [shown EXCEPT ![job[t].uri] = job[t]]
    /\ timer' = [timer EXCEPT ![t] = "idle"]
    /\ job' = [job EXCEPT ![t] = None]
    /\ UNCHANGED <<editorVars, documents, debounceTimers, handling>>

\* Mutant: the timer is a ticker, which publishes the same text again.
CallbackRepeats(t) ==
    /\ timer[t] = "running"
    /\ Receive(job[t])
    /\ timer' = [timer EXCEPT ![t] = "armed"]
    /\ UNCHANGED <<editorVars, documents, debounceTimers, job, handling>>

\* validateDocument with the captured text and version.
CallbackPublish(t) ==
    /\ timer[t] = "running"
    /\ Receive(job[t])
    /\ timer' = [timer EXCEPT ![t] = "idle"]
    /\ job' = [job EXCEPT ![t] = None]
    /\ UNCHANGED <<editorVars, documents, debounceTimers, handling>>

TimerStep(t) == Expire(t) \/ CallbackUnregister(t) \/ CallbackPublish(t)

Next ==
    \/ \E d \in Docs :
          \/ DropNotification(d)
          \/ \E x \in Texts : DidOpen(d, x)
          \/ \E c \in Changes : DidChange(d, c)
          \/ \E includeText \in BOOLEAN : DidSave(d, includeText)
          \/ DidClose(d)
    \/ SendPublication
    \/ \E t \in Timers : TimerStep(t)

\* The runtime expires timers and schedules goroutines; nothing forces the
\* editor to send anything.
Fairness == WF_vars(SendPublication) /\ \A t \in Timers : WF_vars(TimerStep(t))

Spec == Init /\ [][Next]_vars /\ Fairness

-----------------------------------------------------------------------------
(* Properties *)

TypeOK ==
    /\ client \in [Docs -> Document \cup {None}]
    /\ lastVersion \in [Docs -> 0..MaxVersion]
    /\ sent \in [Docs -> [1..MaxVersion -> Texts \cup {None}]]
    /\ drops \in 0..MaxDrops
    /\ documents \in [Docs -> Document \cup {None}]
    /\ debounceTimers \in [Docs -> Timers \cup {None}]
    /\ timer \in [Timers -> Phase]
    /\ job \in [Timers -> Publication \cup {None}]
    /\ handling \in Publication \cup {None}
    /\ shown \in [Docs -> Publication]

Pending(d) == {t \in Timers : timer[t] # "idle" /\ job[t].uri = d}
Armed(d) == {t \in Pending(d) : timer[t] = "armed"}

\* What debounceTimers records is never a timer whose callback is past its
\* critical section, belongs to the right document, and is the validation of
\* the latest version that was scheduled for it: the t.Stop() of didChange and
\* didClose can only reach the newest timer.
RecordedTimerIsNewest ==
    \A d \in Docs : debounceTimers[d] # None =>
        LET t == debounceTimers[d]
        IN  /\ timer[t] \in {"armed", "fired"}
            /\ t \in Pending(d)
            /\ \A s \in Pending(d) \ {t} : job[s].version < job[t].version

\* No two pending validations of a document are of the same version, and none
\* is of a version the server has not reached (the content is read again after
\* Update, in the same handler).
ScheduledVersionsDistinct ==
    \A d \in Docs : \A s, t \in Pending(d) :
        /\ job[t].version \in 1..lastVersion[d]
        /\ s # t => job[s].version # job[t].version

\* The timer map reaches the newest of the pending validations, and these are
\* of different versions.
TimersAreCurrent == RecordedTimerIsNewest /\ ScheduledVersionsDistinct

\* Publications and scheduled validations of a document.
Publications(d) ==
    {job[t] : t \in Pending(d)} \cup {shown[d]}
        \cup {p \in {handling} : p # None /\ p.uri = d}

\* Diagnostics that carry a version were computed from the editor's text at
\* that version, whatever happened between didChange and the callback.
\* (documents.go: "Verify diagnostic freshness".)
DiagnosticsDescribeTheirVersion ==
    \A d \in Docs : \A p \in Publications(d) :
        p.version # 0 /\ p.of # None => sent[d][p.version] = p.of

\* The same when notifications may be dropped: what the server diagnoses at a
\* version is the editor's text as long as no notification was dropped.
DiagnosticsDescribeTheirVersionIfNoDrop ==
    drops = 0 => DiagnosticsDescribeTheirVersion

\* The debounce of handleDidChange ("cancel existing timer and schedule new
\* one"): one validation of a document is waiting for the pause at a time.
OneArmedTimer == \A d \in Docs : \A s, t \in Armed(d) : s = t

Quiet(d) == Pending(d) = {} /\ (handling # None => handling.uri # d)

\* "Clear diagnostics for closed document": once nothing is pending, a document
\* the editor has closed shows no diagnostics.
ClosedDocumentIsClear ==
    \A d \in Docs : client[d] = None /\ Quiet(d) => shown[d].of = None

\* "The parser fires 300ms after the last change": once nothing is pending, an
\* open document shows the diagnostics of its present text.
OpenDocumentIsCurrent ==
    \A d \in Docs :
        /\ documents[d] # None
        /\ documents[d].text \notin Oversize
        /\ Quiet(d)
        => shown[d].of = documents[d].text

\* A scheduled validation is abandoned only because its document moved on: it
\* is shown, or the document is changed or closed first.
ScheduledIsShown ==
    \A d \in Docs : \A v \in 1..MaxVersion : \A x \in Texts :
        (\E t \in Timers : timer[t] # "idle" /\ job[t] = Diagnose(d, v, x))
            ~> \/ shown[d] = Diagnose(d, v, x)
               \/ documents[d] # [version |-> v, text |-> x]

\* The service of DiagnosticsService: a slot for every timer and one for the
\* message loop.
Service == INSTANCE DiagnosticsService WITH
    Messages <- Publication,
    Slots <- Timers \cup {Loop},
    waiting <- [s \in Timers \cup {Loop} |-> IF s = Loop THEN handling ELSE job[s]]

\* The server implements the service: whatever the timers, the callbacks and
\* the loop do, each requested publication reaches the editor once, unless a
\* later notification about the same document withdrew it.
ImplementsService == Service!Spec
=============================================================================
