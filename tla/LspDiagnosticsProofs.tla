------------------------ MODULE LspDiagnosticsProofs ------------------------
(***************************************************************************)
(* Safety of the debounced diagnostics, for any documents, texts, timers   *)
(* and versions, proved from the inductive invariant IInv.                 *)
(***************************************************************************)
EXTENDS LspDiagnostics, TLAPS

(* A timer holds a job exactly while it is in use. *)
JobsInUse == \A t \in Timers : timer[t] # "idle" <=> job[t] # None

(* The versions of scheduled validations have been reached, from 1. *)
ScheduledVersionsReached ==
    \A t \in Timers : job[t] # None =>
        job[t].version \in 1..lastVersion[job[t].uri]

IInv ==
    /\ TypeOK
    /\ JobsInUse
    /\ ScheduledVersionsReached
    /\ RecordedTimerIsNewest
    /\ ScheduledVersionsDistinct

-----------------------------------------------------------------------------

LEMMA NoneIsNothing ==
    /\ None \notin Document /\ None \notin Publication /\ None \notin Timers
    /\ Loop \notin Timers
BY NoneAssumption, ParametersAssumption DEF Document, Publication

LEMMA DiagnoseType ==
    ASSUME NEW d \in Docs, NEW v \in 0..MaxVersion, NEW x \in Texts \cup {None}
    PROVE  /\ Diagnose(d, v, x) \in Publication
           /\ Diagnose(d, v, x).uri = d
           /\ Diagnose(d, v, x).version = v
BY DEF Diagnose, Publication

LEMMA InitIInv == Init => IInv
BY ParametersAssumption, NoneIsNothing, SMTT(30)
   DEF Init, IInv, TypeOK, JobsInUse, ScheduledVersionsReached, RecordedTimerIsNewest,
       ScheduledVersionsDistinct, Pending, Clear, Diagnose, Publication, Phase

LEMMA EditorHasType ==
    ASSUME TypeOK, NEW d \in Docs, NEW x \in Texts, EditorHas(d, x)
    PROVE  /\ client' \in [Docs -> Document \cup {None}]
           /\ lastVersion' \in [Docs -> 0..MaxVersion]
           /\ sent' \in [Docs -> [1..MaxVersion -> Texts \cup {None}]]
           /\ lastVersion[d] \in Nat /\ lastVersion'[d] = lastVersion[d] + 1
           /\ lastVersion'[d] \in 1..MaxVersion
           /\ \A e \in Docs \ {d} : lastVersion'[e] = lastVersion[e]
<1>1. lastVersion[d] \in 0..MaxVersion /\ MaxVersion \in Nat
  BY ParametersAssumption DEF TypeOK
<1>2. lastVersion[d] + 1 \in 1..MaxVersion
  BY <1>1 DEF EditorHas
<1>3. [version |-> lastVersion[d] + 1, text |-> x] \in Document
  BY <1>2, <1>1 DEF Document
<1>. QED
  BY <1>1, <1>2, <1>3 DEF TypeOK, EditorHas

EditorSteps(d) ==
    \/ \E x \in Texts : EditorOpens(d, x)
    \/ \E c \in Changes : EditorEdits(d, c)
    \/ EditorCloses(d)

(* Whatever the editor does, its variables keep their types and versions only
   grow. *)
LEMMA EditorStepType ==
    ASSUME TypeOK, NEW d \in Docs, EditorSteps(d)
    PROVE  /\ client' \in [Docs -> Document \cup {None}]
           /\ lastVersion' \in [Docs -> 0..MaxVersion]
           /\ sent' \in [Docs -> [1..MaxVersion -> Texts \cup {None}]]
           /\ \A e \in Docs : lastVersion[e] <= lastVersion'[e]
<1>1. MaxVersion \in Nat /\ \A e \in Docs : lastVersion[e] \in 0..MaxVersion
  BY ParametersAssumption DEF TypeOK
<1>2. CASE \E x \in Texts : EditorHas(d, x)
  <2>1. PICK x \in Texts : EditorHas(d, x)
    BY <1>2
  <2>2. /\ client' \in [Docs -> Document \cup {None}]
        /\ lastVersion' \in [Docs -> 0..MaxVersion]
        /\ sent' \in [Docs -> [1..MaxVersion -> Texts \cup {None}]]
        /\ lastVersion'[d] = lastVersion[d] + 1
        /\ \A e \in Docs \ {d} : lastVersion'[e] = lastVersion[e]
    BY <2>1, EditorHasType
  <2>3. \A e \in Docs : lastVersion[e] <= lastVersion'[e]
    BY <2>2, <1>1
  <2>. QED
    BY <2>2, <2>3
<1>3. CASE EditorCloses(d)
  BY <1>3, <1>1 DEF EditorCloses, TypeOK
<1>4. ASSUME NEW c \in Changes, EditorEdits(d, c)
      PROVE  c[client[d].text] \in Texts /\ EditorHas(d, c[client[d].text])
  BY <1>4, ParametersAssumption DEF EditorEdits, TypeOK, Document
<1>. QED
  BY <1>2, <1>3, <1>4 DEF EditorSteps, EditorOpens

(* A step that leaves the timers alone preserves what is said of them. *)
LEMMA TimersUnchanged ==
    ASSUME IInv, UNCHANGED timerVars,
           lastVersion' \in [Docs -> 0..MaxVersion],
           \A e \in Docs : lastVersion[e] <= lastVersion'[e]
    PROVE  /\ JobsInUse' /\ ScheduledVersionsReached'
           /\ RecordedTimerIsNewest' /\ ScheduledVersionsDistinct'
<1>1. /\ debounceTimers' = debounceTimers /\ timer' = timer /\ job' = job
      /\ \A d \in Docs : Pending(d)' = Pending(d)
  BY DEF timerVars, Pending
<1>2. \A t \in Timers : job[t] # None => job[t].uri \in Docs /\ job[t].version \in Nat
  BY DEF IInv, TypeOK, Publication
<1>3. \A d \in Docs : lastVersion[d] \in Nat /\ lastVersion'[d] \in Nat
  BY ParametersAssumption DEF IInv, TypeOK
<1>4. JobsInUse' /\ RecordedTimerIsNewest'
  BY <1>1 DEF IInv, JobsInUse, RecordedTimerIsNewest
<1>5. \A d \in Docs : \A v \in Nat : v \in 1..lastVersion[d] => v \in 1..lastVersion'[d]
  BY <1>3
<1>6. ScheduledVersionsReached'
  BY <1>1, <1>2, <1>5 DEF IInv, ScheduledVersionsReached
<1>7. \A d \in Docs : \A t \in Pending(d) : job[t].version \in Nat
  BY <1>2 DEF IInv, JobsInUse, Pending
<1>8. ScheduledVersionsDistinct'
  BY <1>1, <1>5, <1>7 DEF IInv, ScheduledVersionsDistinct
<1>. QED
  BY <1>4, <1>6, <1>8

(* The end of a timer, by Stop or by its publication, preserves what is said of
   the timers, whatever entries are removed from the map with it. *)
LEMMA TimersEnd ==
    ASSUME IInv, NEW ended \in SUBSET Timers, NEW cleared \in SUBSET Docs,
           timer' = [t \in Timers |-> IF t \in ended THEN "idle" ELSE timer[t]],
           job' = [t \in Timers |-> IF t \in ended THEN None ELSE job[t]],
           debounceTimers' = [d \in Docs |-> IF d \in cleared THEN None ELSE debounceTimers[d]],
           \A d \in Docs : debounceTimers[d] \in ended => d \in cleared,
           lastVersion' = lastVersion
    PROVE  /\ timer' \in [Timers -> Phase] /\ job' \in [Timers -> Publication \cup {None}]
           /\ debounceTimers' \in [Docs -> Timers \cup {None}]
           /\ JobsInUse' /\ ScheduledVersionsReached'
           /\ RecordedTimerIsNewest' /\ ScheduledVersionsDistinct'
<1>1. /\ timer' \in [Timers -> Phase] /\ job' \in [Timers -> Publication \cup {None}]
      /\ debounceTimers' \in [Docs -> Timers \cup {None}]
  BY DEF IInv, TypeOK, Phase
<1>2. \A d \in Docs : Pending(d)' = Pending(d) \ ended
  BY DEF Pending
<1>3. \A d \in Docs : \A t \in Pending(d)' :
        t \in Timers /\ t \in Pending(d) /\ job'[t] = job[t] /\ timer'[t] = timer[t]
  BY <1>2 DEF Pending
<1>4. JobsInUse' /\ ScheduledVersionsReached'
  BY DEF IInv, JobsInUse, ScheduledVersionsReached
<1>5. RecordedTimerIsNewest'
  <2>. SUFFICES ASSUME NEW d \in Docs, debounceTimers'[d] # None
                PROVE  LET t == debounceTimers'[d]
                       IN  /\ timer'[t] \in {"armed", "fired"}
                           /\ t \in Pending(d)'
                           /\ \A s \in Pending(d)' \ {t} : job'[s].version < job'[t].version
    BY DEF RecordedTimerIsNewest
  <2>1. /\ debounceTimers'[d] = debounceTimers[d] /\ debounceTimers[d] # None
        /\ debounceTimers[d] \notin ended
    OBVIOUS
  <2>2. debounceTimers[d] \in Pending(d) /\ debounceTimers[d] \in Pending(d)'
    BY <2>1, <1>2 DEF IInv, RecordedTimerIsNewest
  <2>. QED
    BY <2>1, <2>2, <1>3 DEF IInv, RecordedTimerIsNewest
<1>6. ScheduledVersionsDistinct'
  BY <1>3 DEF IInv, ScheduledVersionsDistinct
<1>. QED
  BY <1>1, <1>4, <1>5, <1>6

LEMMA DropPreserves == ASSUME IInv, NEW d \in Docs, DropNotification(d) PROVE IInv'
<1>1. EditorSteps(d) /\ UNCHANGED <<documents, timerVars, handling, shown>>
  BY DEF DropNotification, EditorSteps
<1>2. drops' \in 0..MaxDrops
  BY ParametersAssumption DEF DropNotification, IInv, TypeOK
<1>3. TypeOK'
  BY <1>1, <1>2, EditorStepType DEF IInv, TypeOK, timerVars
<1>. QED
  BY <1>1, <1>3, EditorStepType, TimersUnchanged DEF IInv

LEMMA DidOpenPreserves == ASSUME IInv, NEW d \in Docs, NEW x \in Texts, DidOpen(d, x) PROVE IInv'
<1>1. EditorSteps(d) /\ UNCHANGED <<drops, timerVars, shown>>
  BY DEF DidOpen, EditorSteps
<1>2. lastVersion'[d] \in 1..MaxVersion
  BY EditorHasType DEF DidOpen, EditorOpens, IInv
<1>3. documents' \in [Docs -> Document \cup {None}]
  BY <1>2 DEF DidOpen, IInv, TypeOK, Document
<1>4. handling' \in Publication \cup {None}
  BY <1>2, DiagnoseType DEF DidOpen
<1>5. TypeOK'
  BY <1>1, <1>3, <1>4, EditorStepType DEF IInv, TypeOK, timerVars
<1>. QED
  BY <1>1, <1>5, EditorStepType, TimersUnchanged DEF IInv

(* The critical section of didChange: the new timer has a later version than
   every pending validation of the document. *)
LEMMA SchedulePreserves ==
    ASSUME IInv, NEW d \in Docs, NEW x \in Texts, NEW v \in 1..MaxVersion,
           lastVersion' \in [Docs -> 0..MaxVersion],
           v = lastVersion[d] + 1, lastVersion'[d] = v,
           \A e \in Docs : lastVersion[e] <= lastVersion'[e],
           Schedule(d, v, x)
    PROVE  /\ timer' \in [Timers -> Phase] /\ job' \in [Timers -> Publication \cup {None}]
           /\ debounceTimers' \in [Docs -> Timers \cup {None}]
           /\ JobsInUse' /\ ScheduledVersionsReached'
           /\ RecordedTimerIsNewest' /\ ScheduledVersionsDistinct'
<1> DEFINE stopped == {s \in Timers : s = debounceTimers[d] /\ timer[s] = "armed"}
<1>1. PICK t \in Timers :
        /\ timer[t] = "idle"
        /\ timer' = [s \in Timers |-> IF s = t THEN "armed"
                                      ELSE IF s \in stopped THEN "idle" ELSE timer[s]]
        /\ job' = [s \in Timers |-> IF s = t THEN Diagnose(d, v, x)
                                    ELSE IF s \in stopped THEN None ELSE job[s]]
        /\ debounceTimers' = [debounceTimers EXCEPT ![d] = t]
  BY DEF Schedule
<1>2. /\ Diagnose(d, v, x) \in Publication /\ Diagnose(d, v, x).uri = d
      /\ Diagnose(d, v, x).version = v /\ Diagnose(d, v, x) # None
  BY DiagnoseType, NoneIsNothing
<1>3. t \notin stopped
  BY <1>1
<1>4. /\ timer' \in [Timers -> Phase] /\ job' \in [Timers -> Publication \cup {None}]
      /\ debounceTimers' \in [Docs -> Timers \cup {None}]
  BY <1>1, <1>2 DEF IInv, TypeOK, Phase
<1>5. JobsInUse'
  BY <1>1, <1>2 DEF IInv, JobsInUse
<1>6. \A s \in Timers : job[s] # None => job[s].uri \in Docs /\ job[s].version \in Nat
  BY DEF IInv, TypeOK, Publication
<1>7. \A e \in Docs : lastVersion[e] \in Nat /\ lastVersion'[e] \in Nat
  BY ParametersAssumption DEF IInv, TypeOK
<1>8. ScheduledVersionsReached'
  <2>1. ASSUME NEW s \in Timers, job'[s] # None
        PROVE  job'[s].version \in 1..lastVersion'[job'[s].uri]
    <3>1. CASE s = t
      BY <3>1, <1>1, <1>2, <1>7
    <3>2. CASE s # t
      <4>1. job'[s] = job[s] /\ job[s] # None
        BY <3>2, <1>1, <2>1
      <4>. QED
        BY <4>1, <1>6, <1>7 DEF IInv, ScheduledVersionsReached
    <3>. QED BY <3>1, <3>2
  <2>. QED BY <2>1 DEF ScheduledVersionsReached
<1>9. \A e \in Docs \ {d} : Pending(e)' = Pending(e) \ stopped
  BY <1>1, <1>2 DEF Pending
<1>10. Pending(d)' = (Pending(d) \ stopped) \cup {t}
  BY <1>1, <1>2 DEF Pending
<1>11. t \notin stopped /\ \A e \in Docs : t \notin Pending(e)
  BY <1>1 DEF Pending
<1>12. \A e \in Docs : \A s \in Pending(e) \ stopped :
         job'[s] = job[s] /\ timer'[s] = timer[s] /\ s \in Timers
           /\ job[s].version \in 1..lastVersion[e] /\ job[s].uri = e /\ s # t
  BY <1>1, <1>11 DEF Pending, IInv, JobsInUse, ScheduledVersionsReached
<1>13. timer'[t] = "armed" /\ job'[t] = Diagnose(d, v, x)
  BY <1>1
<1>14. RecordedTimerIsNewest'
  <2>1. ASSUME NEW e \in Docs \ {d}, debounceTimers'[e] # None
        PROVE  LET r == debounceTimers'[e]
               IN  /\ timer'[r] \in {"armed", "fired"}
                   /\ r \in Pending(e)'
                   /\ \A s \in Pending(e)' \ {r} : job'[s].version < job'[r].version
    <3>1. debounceTimers'[e] = debounceTimers[e]
      BY <1>1
    <3>2. debounceTimers[e] \in Pending(e)
      BY <3>1, <2>1 DEF IInv, RecordedTimerIsNewest
    <3>3. debounceTimers[e] \notin stopped
      <4>1. SUFFICES ASSUME debounceTimers[e] \in stopped PROVE FALSE
        OBVIOUS
      <4>2. debounceTimers[e] = debounceTimers[d] /\ debounceTimers[d] # None
        BY <4>1, <2>1, <3>1
      <4>3. debounceTimers[d] \in Pending(d)
        BY <4>2 DEF IInv, RecordedTimerIsNewest
      <4>. QED
        BY <4>2, <4>3, <3>2 DEF Pending
    <3>. QED
      BY <3>1, <3>2, <3>3, <2>1, <1>9, <1>12 DEF IInv, RecordedTimerIsNewest
  <2>2. debounceTimers'[d] = t
    BY <1>1 DEF IInv, TypeOK
  <2>3. \A s \in Pending(d)' \ {t} : job'[s].version < job'[t].version
    BY <1>10, <1>12, <1>13, <1>2, <1>7
  <2>4. t \in Pending(d)'
    BY <1>10
  <2>. QED
    BY <2>1, <2>2, <2>3, <2>4, <1>13 DEF RecordedTimerIsNewest
<1>15. ScheduledVersionsDistinct'
  <2>1. ASSUME NEW e \in Docs, NEW r \in Pending(e)'
        PROVE  job'[r].version \in 1..lastVersion'[e]
    BY <2>1, <1>2, <1>7, <1>9, <1>10, <1>12, <1>13
  <2>2. ASSUME NEW e \in Docs \ {d}, NEW r \in Pending(e)', NEW s \in Pending(e)', r # s
        PROVE  job'[r].version # job'[s].version
    BY <2>2, <1>9, <1>12 DEF IInv, ScheduledVersionsDistinct
  <2>3. ASSUME NEW r \in Pending(d)', NEW s \in Pending(d)', r # s
        PROVE  job'[r].version # job'[s].version
    BY <2>3, <1>2, <1>7, <1>10, <1>12, <1>13 DEF IInv, ScheduledVersionsDistinct
  <2>. QED
    BY <2>1, <2>2, <2>3 DEF ScheduledVersionsDistinct
<1>. QED
  BY <1>4, <1>5, <1>8, <1>14, <1>15

LEMMA DidChangePreserves == ASSUME IInv, NEW d \in Docs, NEW c \in Changes, DidChange(d, c) PROVE IInv'
<1>1. EditorSteps(d) /\ UNCHANGED <<drops, shown>>
  BY DEF DidChange, EditorSteps
<1>2. client[d].text \in Texts /\ EditorHas(d, c[client[d].text]) /\ c[client[d].text] \in Texts
  BY ParametersAssumption DEF DidChange, EditorEdits, IInv, TypeOK, Document
<1>3. /\ lastVersion'[d] \in 1..MaxVersion /\ lastVersion[d] \in Nat
      /\ lastVersion'[d] = lastVersion[d] + 1
  BY <1>2, EditorHasType DEF IInv
<1>4. CASE UNCHANGED <<documents, timerVars, handling>>
  <2>1. TypeOK'
    BY <1>1, <1>4, EditorStepType DEF IInv, TypeOK, timerVars
  <2>. QED
    BY <1>1, <1>4, <2>1, EditorStepType, TimersUnchanged DEF IInv
<1>5. CASE documents[d] # None
  <2> DEFINE x == c[documents[d].text]
             v == lastVersion'[d]
  <2>1. x \in Texts
    BY <1>5, ParametersAssumption DEF IInv, TypeOK, Document
  <2>2. documents' \in [Docs -> Document \cup {None}]
    <3>1. documents' = [documents EXCEPT ![d] = [version |-> v, text |-> x]]
      BY <1>5 DEF DidChange
    <3>2. [version |-> v, text |-> x] \in Document
      BY <2>1, <1>3, ParametersAssumption DEF Document
    <3>. QED
      BY <3>1, <3>2 DEF IInv, TypeOK
  <2>3. CASE x \in Oversize
    <3>1. handling' = Clear(d, v) /\ UNCHANGED timerVars
      BY <1>5, <2>3 DEF DidChange
    <3>2. TypeOK'
      BY <1>1, <1>3, <2>2, <3>1, EditorStepType, DiagnoseType DEF IInv, TypeOK, timerVars, Clear
    <3>. QED
      BY <1>1, <3>1, <3>2, EditorStepType, TimersUnchanged DEF IInv
  <2>4. CASE x \notin Oversize
    <3>1. Schedule(d, v, x) /\ UNCHANGED handling
      BY <1>5, <2>4 DEF DidChange
    <3>2. /\ timer' \in [Timers -> Phase] /\ job' \in [Timers -> Publication \cup {None}]
          /\ debounceTimers' \in [Docs -> Timers \cup {None}]
          /\ JobsInUse' /\ ScheduledVersionsReached'
          /\ RecordedTimerIsNewest' /\ ScheduledVersionsDistinct'
      <4>1. /\ lastVersion' \in [Docs -> 0..MaxVersion]
            /\ \A e \in Docs : lastVersion[e] <= lastVersion'[e]
        BY <1>1, EditorStepType DEF IInv
      <4>. HIDE DEF x, v
      <4>2. v \in 1..MaxVersion /\ v = lastVersion[d] + 1 /\ lastVersion'[d] = v
        BY <1>3 DEF v
      <4>. QED
        BY <4>1, <4>2, <2>1, <3>1, SchedulePreserves
    <3>3. TypeOK'
      BY <1>1, <2>2, <3>1, <3>2, EditorStepType DEF IInv, TypeOK
    <3>. QED
      BY <3>2, <3>3 DEF IInv
  <2>. QED
    BY <2>3, <2>4
<1>. QED
  BY <1>4, <1>5 DEF DidChange

LEMMA DidSavePreserves ==
    ASSUME IInv, NEW d \in Docs, NEW includeText \in BOOLEAN, DidSave(d, includeText)
    PROVE  IInv'
<1>1. \E x \in Texts : handling' = Diagnose(d, 0, x)
  BY ParametersAssumption DEF DidSave, IInv, TypeOK, Document
<1>2. UNCHANGED <<editorVars, documents, timerVars, shown>>
  BY DEF DidSave
<1>3. handling' \in Publication \cup {None}
  BY <1>1, DiagnoseType, ParametersAssumption
<1>4. TypeOK'
  BY <1>2, <1>3 DEF IInv, TypeOK, editorVars, timerVars
<1>5. /\ lastVersion' \in [Docs -> 0..MaxVersion]
      /\ \A e \in Docs : lastVersion[e] <= lastVersion'[e]
  BY <1>2, ParametersAssumption DEF IInv, TypeOK, editorVars
<1>. QED
  BY <1>2, <1>4, <1>5, TimersUnchanged DEF IInv

LEMMA DidClosePreserves == ASSUME IInv, NEW d \in Docs, DidClose(d) PROVE IInv'
<1> DEFINE stopped == {t \in Timers : t = debounceTimers[d] /\ timer[t] = "armed"}
<1>1. EditorSteps(d) /\ lastVersion' = lastVersion /\ UNCHANGED <<drops, shown>>
  BY DEF DidClose, EditorSteps, EditorCloses
<1>2. documents' \in [Docs -> Document \cup {None}] /\ handling' \in Publication \cup {None}
  BY DiagnoseType, ParametersAssumption DEF DidClose, Clear, IInv, TypeOK
<1>3. \A e \in Docs : debounceTimers[e] \in stopped => e \in {d}
  <2>1. SUFFICES ASSUME NEW e \in Docs, debounceTimers[e] \in stopped PROVE e = d
    OBVIOUS
  <2>2. debounceTimers[e] \in Timers /\ debounceTimers[e] = debounceTimers[d]
    BY <2>1
  <2>. QED
    BY <2>2, NoneIsNothing DEF IInv, RecordedTimerIsNewest, Pending
<1>4. debounceTimers' = [e \in Docs |-> IF e \in {d} THEN None ELSE debounceTimers[e]]
  BY DEF DidClose, IInv, TypeOK
<1>5. /\ timer' = [t \in Timers |-> IF t \in stopped THEN "idle" ELSE timer[t]]
      /\ job' = [t \in Timers |-> IF t \in stopped THEN None ELSE job[t]]
      /\ stopped \in SUBSET Timers
  BY DEF DidClose
<1>6. /\ timer' \in [Timers -> Phase] /\ job' \in [Timers -> Publication \cup {None}]
      /\ debounceTimers' \in [Docs -> Timers \cup {None}]
      /\ JobsInUse' /\ ScheduledVersionsReached'
      /\ RecordedTimerIsNewest' /\ ScheduledVersionsDistinct'
  <2>. HIDE DEF stopped
  <2>. QED
    BY <1>1, <1>3, <1>4, <1>5, TimersEnd
<1>7. TypeOK'
  BY <1>1, <1>2, <1>6, EditorStepType DEF IInv, TypeOK
<1>. QED
  BY <1>6, <1>7 DEF IInv

LEMMA SendPublicationPreserves == ASSUME IInv, SendPublication PROVE IInv'
<1>1. handling \in Publication /\ shown' = [shown EXCEPT ![handling.uri] = handling]
  BY DEF SendPublication, Receive, IInv, TypeOK
<1>2. UNCHANGED <<editorVars, documents, timerVars>> /\ handling' = None
  BY DEF SendPublication
<1>3. TypeOK'
  BY <1>1, <1>2 DEF IInv, TypeOK, editorVars, timerVars
<1>4. /\ lastVersion' \in [Docs -> 0..MaxVersion]
      /\ \A e \in Docs : lastVersion[e] <= lastVersion'[e]
  BY <1>2, ParametersAssumption DEF IInv, TypeOK, editorVars
<1>. QED
  BY <1>2, <1>3, <1>4, TimersUnchanged DEF IInv

LEMMA CallbackUnregisterPreserves ==
    ASSUME IInv, NEW t \in Timers, CallbackUnregister(t) PROVE IInv'
<1>1. job[t] # None /\ job[t].uri \in Docs
  BY DEF CallbackUnregister, IInv, JobsInUse, TypeOK, Publication
<1>2. /\ debounceTimers' \in [Docs -> Timers \cup {None}]
      /\ timer' \in [Timers -> Phase] /\ UNCHANGED <<editorVars, documents, job, handling, shown>>
  BY DEF CallbackUnregister, IInv, TypeOK, Phase
<1>3. TypeOK'
  BY <1>2 DEF IInv, TypeOK, editorVars
<1>4. \A d \in Docs : Pending(d)' = Pending(d)
  BY <1>2 DEF CallbackUnregister, Pending, IInv, TypeOK
<1>5. JobsInUse' /\ ScheduledVersionsReached' /\ ScheduledVersionsDistinct'
  BY <1>1, <1>2, <1>4 DEF CallbackUnregister, IInv, TypeOK, JobsInUse, editorVars,
     ScheduledVersionsReached, ScheduledVersionsDistinct
<1>6. RecordedTimerIsNewest'
  <2>1. SUFFICES ASSUME NEW d \in Docs, debounceTimers'[d] # None
                 PROVE  LET r == debounceTimers'[d]
                        IN  /\ timer'[r] \in {"armed", "fired"}
                            /\ r \in Pending(d)'
                            /\ \A s \in Pending(d)' \ {r} : job'[s].version < job'[r].version
    BY DEF RecordedTimerIsNewest
  <2>2. d # job[t].uri /\ debounceTimers'[d] = debounceTimers[d]
    BY <1>1, <2>1 DEF CallbackUnregister, IInv, TypeOK
  <2>3. debounceTimers[d] \in Pending(d) /\ debounceTimers[d] # t
    BY <2>1, <2>2 DEF IInv, RecordedTimerIsNewest, Pending
  <2>4. timer'[debounceTimers[d]] = timer[debounceTimers[d]]
    BY <2>3 DEF CallbackUnregister, IInv, TypeOK
  <2>. QED
    BY <1>2, <1>4, <2>1, <2>2, <2>3, <2>4 DEF IInv, RecordedTimerIsNewest
<1>. QED
  BY <1>3, <1>5, <1>6 DEF IInv

LEMMA ExpirePreserves == ASSUME IInv, NEW t \in Timers, Expire(t) PROVE IInv'
<1>1. /\ UNCHANGED <<editorVars, documents, debounceTimers, job, handling, shown>>
      /\ timer' \in [Timers -> Phase]
      /\ \A s \in Timers : timer'[s] = IF s = t THEN "fired" ELSE timer[s]
      /\ timer[t] = "armed"
  BY DEF Expire, IInv, TypeOK, Phase
<1>2. TypeOK'
  BY <1>1 DEF IInv, TypeOK, editorVars
<1>3. \A d \in Docs : Pending(d)' = Pending(d)
  BY <1>1 DEF Pending
<1>4. JobsInUse' /\ ScheduledVersionsReached' /\ ScheduledVersionsDistinct'
  BY <1>1, <1>3 DEF IInv, JobsInUse, editorVars, ScheduledVersionsReached, ScheduledVersionsDistinct
<1>5. RecordedTimerIsNewest'
  BY <1>1, <1>3 DEF IInv, RecordedTimerIsNewest, Pending
<1>. QED
  BY <1>2, <1>4, <1>5 DEF IInv

LEMMA CallbackPublishPreserves ==
    ASSUME IInv, NEW t \in Timers, CallbackPublish(t) PROVE IInv'
<1>1. job[t] \in Publication
  BY DEF CallbackPublish, IInv, JobsInUse, TypeOK
<1>2. /\ shown' = [shown EXCEPT ![job[t].uri] = job[t]]
      /\ UNCHANGED <<editorVars, documents, debounceTimers, handling>>
  BY DEF CallbackPublish, Receive
<1>3. /\ timer' = [s \in Timers |-> IF s \in {t} THEN "idle" ELSE timer[s]]
      /\ job' = [s \in Timers |-> IF s \in {t} THEN None ELSE job[s]]
      /\ debounceTimers' = [d \in Docs |-> IF d \in {} THEN None ELSE debounceTimers[d]]
  BY <1>2 DEF CallbackPublish, IInv, TypeOK
<1>4. \A d \in Docs : debounceTimers[d] # t
  BY NoneIsNothing DEF CallbackPublish, IInv, RecordedTimerIsNewest
<1>5. /\ timer' \in [Timers -> Phase] /\ job' \in [Timers -> Publication \cup {None}]
      /\ debounceTimers' \in [Docs -> Timers \cup {None}]
      /\ JobsInUse' /\ ScheduledVersionsReached'
      /\ RecordedTimerIsNewest' /\ ScheduledVersionsDistinct'
  <2>1. {t} \in SUBSET Timers /\ {} \in SUBSET Docs /\ lastVersion' = lastVersion
    BY <1>2 DEF editorVars
  <2>2. \A d \in Docs : debounceTimers[d] \in {t} => d \in {}
    BY <1>4
  <2>. QED
    BY <1>3, <2>1, <2>2, TimersEnd
<1>6. TypeOK'
  BY <1>1, <1>2, <1>5 DEF IInv, TypeOK, editorVars, Publication
<1>. QED
  BY <1>5, <1>6 DEF IInv

LEMMA NextIInv == IInv /\ [Next]_vars => IInv'
<1>1. ASSUME IInv, Next PROVE IInv'
  <2>1. ASSUME NEW d \in Docs,
               \/ DropNotification(d)
               \/ \E x \in Texts : DidOpen(d, x)
               \/ \E c \in Changes : DidChange(d, c)
               \/ \E includeText \in BOOLEAN : DidSave(d, includeText)
               \/ DidClose(d)
        PROVE  IInv'
    BY <1>1, <2>1, DropPreserves, DidOpenPreserves, DidChangePreserves,
       DidSavePreserves, DidClosePreserves
  <2>2. ASSUME NEW t \in Timers, TimerStep(t) PROVE IInv'
    BY <1>1, <2>2, ExpirePreserves, CallbackUnregisterPreserves, CallbackPublishPreserves
       DEF TimerStep
  <2>. QED
    BY <1>1, <2>1, <2>2, SendPublicationPreserves DEF Next
<1>2. ASSUME IInv, UNCHANGED vars PROVE IInv'
  BY <1>2 DEF vars, IInv, TypeOK, JobsInUse, ScheduledVersionsReached,
     RecordedTimerIsNewest, ScheduledVersionsDistinct, Pending
<1>. QED
  BY <1>1, <1>2

(* Every variable keeps its type. *)
THEOREM TypeCorrect == Spec => []TypeOK
BY InitIInv, NextIInv, PTL DEF Spec, IInv

(* The map of debounce timers only ever records the newest validation of a
   document, whatever callbacks run at the same time. *)
THEOREM RecordedTimerIsAlwaysNewest == Spec => []RecordedTimerIsNewest
BY InitIInv, NextIInv, PTL DEF Spec, IInv

(* No two pending validations of a document are of the same version. *)
THEOREM ScheduledVersionsAlwaysDistinct == Spec => []ScheduledVersionsDistinct
BY InitIInv, NextIInv, PTL DEF Spec, IInv

(* Together: what the run lsp_debounce checks of the timers. *)
THEOREM TimersAlwaysCurrent == Spec => []TimersAreCurrent
BY RecordedTimerIsAlwaysNewest, ScheduledVersionsAlwaysDistinct, PTL DEF TimersAreCurrent

-----------------------------------------------------------------------------
(* The server implements the slot service: safety part. *)

Slot == Timers \cup {Loop}
Waiting == [s \in Slot |-> IF s = Loop THEN handling ELSE job[s]]

LEMMA ServiceInit == Init => Service!Init
<1>1. SUFFICES ASSUME Init PROVE Service!Init
  OBVIOUS
<1>2. shown \in [Docs -> Publication]
  BY <1>1, DiagnoseType, ParametersAssumption DEF Init, Clear
<1>. QED
  BY <1>1, <1>2 DEF Init, Service!Init

(* What a request does, in terms of the slots. *)
LEMMA ServiceRequest ==
    ASSUME NEW s \in Slot, NEW p \in Publication, NEW withdrawn \in SUBSET Slot,
           Waiting[s] = None, shown' = shown,
           \A r \in withdrawn : Waiting[r] # None /\ Waiting[r].uri = p.uri,
           Waiting' = [r \in Slot |-> IF r = s THEN p
                                      ELSE IF r \in withdrawn THEN None ELSE Waiting[r]]
    PROVE  Service!Next
<1>1. Service!Request(s, p)
  BY DEF Service!Request, Waiting, Slot
<1>. QED
  BY <1>1 DEF Service!Next, Slot

(* A request of the message loop that withdraws nothing. *)
LEMMA ServiceLoopRequest ==
    ASSUME NEW p \in Publication, handling = None, handling' = p, UNCHANGED <<job, shown>>
    PROVE  Service!Next
<1>1. Loop \in Slot /\ Waiting[Loop] = None
  BY DEF Slot, Waiting
<1> DEFINE nothing == {r \in Slot : FALSE}
<1>2. nothing \in SUBSET Slot /\ \A r \in nothing : Waiting[r] # None /\ Waiting[r].uri = p.uri
  OBVIOUS
<1>3. Waiting' = [r \in Slot |-> IF r = Loop THEN p
                                 ELSE IF r \in nothing THEN None ELSE Waiting[r]]
  BY DEF Waiting, Slot
<1>. HIDE DEF nothing
<1>. QED
  BY <1>1, <1>2, <1>3, ServiceRequest

LEMMA ServiceDeliver ==
    ASSUME NEW s \in Slot, Waiting[s] # None,
           shown' = [shown EXCEPT ![Waiting[s].uri] = Waiting[s]],
           Waiting' = [Waiting EXCEPT ![s] = None]
    PROVE  Service!Next
<1>1. Service!Deliver(s)
  BY DEF Service!Deliver, Waiting, Slot
<1>. QED
  BY <1>1 DEF Service!Next, Slot

LEMMA ServiceStutter ==
    ASSUME UNCHANGED <<job, handling, shown>> PROVE UNCHANGED Service!vars
BY DEF Service!vars

LEMMA ServiceDidOpen ==
    ASSUME IInv, NEW d \in Docs, NEW x \in Texts, DidOpen(d, x) PROVE [Service!Next]_(Service!vars)
<1>1. handling = None /\ UNCHANGED <<job, shown>>
  BY DEF DidOpen, Ready, timerVars
<1>2. CASE handling' = None
  BY <1>1, <1>2, ServiceStutter
<1>3. CASE handling' = Diagnose(d, lastVersion'[d], x)
  <2>1. lastVersion'[d] \in 0..MaxVersion
    BY EditorHasType, ParametersAssumption DEF DidOpen, EditorOpens, IInv
  <2>2. PICK q \in Publication : q = Diagnose(d, lastVersion'[d], x)
    BY <2>1, DiagnoseType
  <2>. QED
    BY <1>1, <1>3, <2>2, ServiceLoopRequest
<1>. QED
  BY <1>2, <1>3 DEF DidOpen

LEMMA ServiceDidChange ==
    ASSUME IInv, NEW d \in Docs, NEW c \in Changes, DidChange(d, c) PROVE [Service!Next]_(Service!vars)
<1>1. handling = None /\ shown' = shown
  BY DEF DidChange, Ready
<1>2. client[d].text \in Texts /\ EditorHas(d, c[client[d].text]) /\ c[client[d].text] \in Texts
  BY ParametersAssumption DEF DidChange, EditorEdits, IInv, TypeOK, Document
<1>3. lastVersion'[d] \in 0..MaxVersion
  BY <1>2, EditorHasType, ParametersAssumption DEF IInv
<1>4. CASE UNCHANGED <<documents, timerVars, handling>>
  BY <1>1, <1>4, ServiceStutter DEF timerVars
<1>5. CASE documents[d] # None
  <2> DEFINE x == c[documents[d].text]
             v == lastVersion'[d]
  <2>1. x \in Texts
    BY <1>5, ParametersAssumption DEF IInv, TypeOK, Document
  <2>2. CASE x \in Oversize
    <3>1. handling' = Clear(d, v) /\ UNCHANGED timerVars
      BY <1>5, <2>2 DEF DidChange
    <3>2. PICK q \in Publication : q = Clear(d, v)
      BY <1>3, DiagnoseType DEF Clear
    <3>. QED
      BY <1>1, <3>1, <3>2, ServiceLoopRequest DEF timerVars
  <2>3. CASE x \notin Oversize
    <3> DEFINE stopped == {s \in Timers : s = debounceTimers[d] /\ timer[s] = "armed"}
               q == Diagnose(d, v, x)
    <3>1. PICK t \in Timers :
            /\ timer[t] = "idle" /\ UNCHANGED handling
            /\ job' = [s \in Timers |-> IF s = t THEN q
                                        ELSE IF s \in stopped THEN None ELSE job[s]]
      BY <1>5, <2>3 DEF DidChange, Schedule
    <3>2. q \in Publication /\ q.uri = d
      BY <1>3, <2>1, DiagnoseType
    <3>. HIDE DEF q, x, v
    <3>3. t \in Slot /\ t # Loop /\ Waiting[t] = None
      BY <3>1, NoneIsNothing DEF IInv, JobsInUse, Slot, Waiting
    <3>4. stopped \in SUBSET Slot /\ \A r \in stopped : Waiting[r] # None /\ Waiting[r].uri = q.uri
      BY <3>2, NoneIsNothing DEF IInv, JobsInUse, RecordedTimerIsNewest, Pending, Slot, Waiting
    <3>5. Waiting' = [r \in Slot |-> IF r = t THEN q
                                     ELSE IF r \in stopped THEN None ELSE Waiting[r]]
      BY <3>1, NoneIsNothing DEF Waiting, Slot
    <3>. HIDE DEF stopped
    <3>6. Service!Next
      BY <1>1, <3>2, <3>3, <3>4, <3>5, ServiceRequest
    <3>. QED
      BY <3>6
  <2>. QED
    BY <2>2, <2>3
<1>. QED
  BY <1>4, <1>5 DEF DidChange

LEMMA ServiceDidSave ==
    ASSUME IInv, NEW d \in Docs, NEW includeText \in BOOLEAN, DidSave(d, includeText)
    PROVE  [Service!Next]_(Service!vars)
<1>1. PICK x \in Texts : handling' = Diagnose(d, 0, x)
  BY ParametersAssumption DEF DidSave, IInv, TypeOK, Document
<1>2. handling = None /\ UNCHANGED <<job, shown>>
  BY DEF DidSave, Ready, timerVars
<1>3. Diagnose(d, 0, x) \in Publication
  BY DiagnoseType, ParametersAssumption
<1>. QED
  BY <1>1, <1>2, <1>3, ServiceLoopRequest

LEMMA ServiceDidClose ==
    ASSUME IInv, NEW d \in Docs, DidClose(d) PROVE [Service!Next]_(Service!vars)
<1> DEFINE stopped == {t \in Timers : t = debounceTimers[d] /\ timer[t] = "armed"}
<1>1. /\ handling = None /\ shown' = shown /\ handling' = Clear(d, 0)
      /\ job' = [t \in Timers |-> IF t \in stopped THEN None ELSE job[t]]
  BY DEF DidClose, Ready
<1>2. Clear(d, 0) \in Publication /\ Clear(d, 0).uri = d
  BY DiagnoseType, ParametersAssumption DEF Clear
<1>3. Loop \in Slot /\ Waiting[Loop] = None
  BY <1>1 DEF Slot, Waiting
<1>4. /\ stopped \in SUBSET Slot
      /\ \A r \in stopped : Waiting[r] # None /\ Waiting[r].uri = Clear(d, 0).uri
  BY <1>2, NoneIsNothing DEF IInv, JobsInUse, RecordedTimerIsNewest, Pending, Slot, Waiting
<1>5. Waiting' = [r \in Slot |-> IF r = Loop THEN Clear(d, 0)
                                 ELSE IF r \in stopped THEN None ELSE Waiting[r]]
  BY <1>1, NoneIsNothing DEF Waiting, Slot
<1>. HIDE DEF stopped
<1>6. Service!Next
  BY <1>1, <1>2, <1>3, <1>4, <1>5, ServiceRequest
<1>. QED
  BY <1>6

LEMMA ServiceSend == ASSUME IInv, SendPublication PROVE Service!Next
<1>1. /\ Loop \in Slot /\ Waiting[Loop] = handling /\ handling # None /\ handling' = None
      /\ UNCHANGED job /\ shown' = [shown EXCEPT ![handling.uri] = handling]
  BY DEF SendPublication, Receive, Slot, Waiting, timerVars
<1>2. Waiting' = [Waiting EXCEPT ![Loop] = None]
  BY <1>1 DEF Waiting
<1>. QED
  BY <1>1, <1>2, ServiceDeliver

LEMMA ServiceTimer ==
    ASSUME IInv, NEW t \in Timers, TimerStep(t) PROVE [Service!Next]_(Service!vars)
<1>1. CASE Expire(t) \/ CallbackUnregister(t)
  BY <1>1, ServiceStutter DEF Expire, CallbackUnregister
<1>2. CASE CallbackPublish(t)
  <2>1. /\ t \in Slot /\ t # Loop /\ Waiting[t] = job[t] /\ job[t] # None
        /\ job' = [job EXCEPT ![t] = None] /\ UNCHANGED handling
        /\ shown' = [shown EXCEPT ![job[t].uri] = job[t]]
    BY <1>2, NoneIsNothing DEF CallbackPublish, Receive, Slot, Waiting, IInv, JobsInUse
  <2>2. \A r \in Slot : Waiting'[r] = IF r = t THEN None ELSE Waiting[r]
    BY <2>1 DEF Waiting, Slot, IInv, TypeOK
  <2>3. Waiting' = [Waiting EXCEPT ![t] = None]
    BY <2>2 DEF Waiting
  <2>. QED
    BY <2>1, <2>3, ServiceDeliver
<1>. QED
  BY <1>1, <1>2 DEF TimerStep

LEMMA ServiceStep == IInv /\ [Next]_vars => [Service!Next]_(Service!vars)
<1>1. ASSUME IInv, Next PROVE [Service!Next]_(Service!vars)
  <2>1. ASSUME NEW d \in Docs, DropNotification(d) PROVE UNCHANGED Service!vars
    BY <2>1, ServiceStutter DEF DropNotification, timerVars
  <2>. QED
    BY <1>1, <2>1, ServiceDidOpen, ServiceDidChange, ServiceDidSave, ServiceDidClose,
       ServiceSend, ServiceTimer DEF Next
<1>2. ASSUME UNCHANGED vars PROVE UNCHANGED Service!vars
  BY <1>2, ServiceStutter DEF vars
<1>. QED
  BY <1>1, <1>2

(* Every behaviour of the server is one of the slot service: a requested
   publication is delivered once, and withdrawn only by a later notification
   about its document.  (The fairness of the service is left to TLC.) *)
THEOREM ImplementsServiceSafety == Spec => Service!Init /\ [][Service!Next]_(Service!vars)
BY InitIInv, NextIInv, ServiceInit, ServiceStep, PTL DEF Spec

-----------------------------------------------------------------------------
(* Diagnostics are computed from the editor's text at their version. *)

Fresh(p, d) ==
    /\ p.version <= lastVersion[d]
    /\ p.version # 0 /\ p.of # None => sent[d][p.version] = p.of

FreshInv ==
    drops = 0 => documents = client /\ \A d \in Docs : \A p \in Publications(d) : Fresh(p, d)

(* The versions a document has had keep their text. *)
LEMMA EditorKeepsHistory ==
    ASSUME TypeOK, NEW d \in Docs, EditorSteps(d) \/ UNCHANGED editorVars,
           NEW e \in Docs, NEW v \in 1..MaxVersion, v <= lastVersion[e]
    PROVE  sent'[e][v] = sent[e][v] /\ v <= lastVersion'[e]
<1>1. /\ lastVersion[e] \in 0..MaxVersion /\ lastVersion[d] \in 0..MaxVersion /\ MaxVersion \in Nat
      /\ sent \in [Docs -> [1..MaxVersion -> Texts \cup {None}]]
      /\ lastVersion \in [Docs -> 0..MaxVersion]
  BY ParametersAssumption DEF TypeOK
<1>2. ASSUME NEW x, EditorHas(d, x) PROVE sent'[e][v] = sent[e][v] /\ v <= lastVersion'[e]
  <2>1. CASE e # d
    BY <2>1, <1>1, <1>2 DEF EditorHas
  <2>2. CASE e = d
    <3>1. v # lastVersion[d] + 1 /\ lastVersion'[d] = lastVersion[d] + 1
      BY <2>2, <1>1, <1>2 DEF EditorHas
    <3>2. sent'[d] = [sent[d] EXCEPT ![lastVersion[d] + 1] = x]
      BY <1>1, <1>2 DEF EditorHas
    <3>. QED
      BY <2>2, <3>1, <3>2, <1>1
  <2>. QED
    BY <2>1, <2>2
<1>3. CASE EditorCloses(d) \/ UNCHANGED editorVars
  BY <1>3, <1>1 DEF EditorCloses, editorVars
<1>. QED
  BY <1>2, <1>3 DEF EditorSteps, EditorOpens, EditorEdits

LEMMA PublicationsType ==
    ASSUME IInv, NEW d \in Docs, NEW p \in Publications(d)
    PROVE  p.version \in 0..MaxVersion /\ MaxVersion \in Nat /\ lastVersion[d] \in 0..MaxVersion
<1>1. p \in Publication
  BY DEF Publications, IInv, TypeOK, JobsInUse, Pending
<1>. QED
  BY <1>1, ParametersAssumption DEF Publication, IInv, TypeOK

(* A step that keeps the stored documents equal to the editor's and adds only
   fresh publications preserves FreshInv. *)
LEMMA FreshStep ==
    ASSUME IInv, FreshInv, drops' = drops,
           NEW d \in Docs, EditorSteps(d) \/ UNCHANGED editorVars,
           documents = client => documents' = client',
           drops = 0 => \A e \in Docs : \A p \in Publications(e)' :
                            p \in Publications(e) \/ Fresh(p, e)'
    PROVE  FreshInv'
<1>1. SUFFICES ASSUME drops = 0, NEW e \in Docs, NEW p \in Publications(e) PROVE Fresh(p, e)'
  BY DEF FreshInv
<1>2. Fresh(p, e)
  BY <1>1 DEF FreshInv
<1>3. p.version \in 0..MaxVersion /\ MaxVersion \in Nat /\ lastVersion[e] \in 0..MaxVersion
  BY PublicationsType
<1>4. CASE p.version = 0
  <2>1. lastVersion'[e] \in Nat
    BY EditorStepType, ParametersAssumption DEF IInv, TypeOK, editorVars
  <2>. QED
    BY <1>4, <2>1 DEF Fresh
<1>5. CASE p.version # 0
  <2>1. p.version \in 1..MaxVersion /\ p.version <= lastVersion[e]
    BY <1>2, <1>3, <1>5 DEF Fresh
  <2>2. \A v \in 1..MaxVersion : v <= lastVersion[e] =>
            sent'[e][v] = sent[e][v] /\ v <= lastVersion'[e]
    BY EditorKeepsHistory DEF IInv
  <2>. QED
    BY <2>1, <2>2, <1>2 DEF Fresh
<1>. QED
  BY <1>4, <1>5

LEMMA InitFresh == Init => FreshInv
<1>1. SUFFICES ASSUME Init PROVE documents = client /\ \A d \in Docs : \A p \in Publications(d) : Fresh(p, d)
  BY DEF FreshInv
<1>2. \A d \in Docs : Publications(d) = {Clear(d, 0)}
  BY <1>1 DEF Init, Publications, Pending
<1>. QED
  BY <1>1, <1>2 DEF Init, Fresh, Clear, Diagnose

LEMMA FreshDidOpen ==
    ASSUME IInv, FreshInv, NEW d \in Docs, NEW x \in Texts, DidOpen(d, x) PROVE FreshInv'
<1>1. EditorSteps(d) /\ EditorHas(d, x) /\ UNCHANGED <<drops, timerVars, shown>>
  BY DEF DidOpen, EditorOpens, EditorSteps
<1>2. lastVersion[d] \in Nat /\ lastVersion'[d] = lastVersion[d] + 1 /\ lastVersion'[d] \in 1..MaxVersion
  BY <1>1, EditorHasType DEF IInv
<1>3. documents = client => documents' = client'
  BY <1>1, <1>2 DEF DidOpen, EditorHas
<1>4. sent'[d][lastVersion'[d]] = x
  BY <1>1, <1>2 DEF EditorHas, IInv, TypeOK
<1>5. \A q : q = Diagnose(d, lastVersion'[d], x) => Fresh(q, d)'
  BY <1>2, <1>4 DEF Fresh, Diagnose
<1>6. \A e \in Docs : \A p \in Publications(e)' :
          p \in Publications(e) \/ (e = d /\ p = Diagnose(d, lastVersion'[d], x))
  BY <1>1 DEF DidOpen, Publications, Pending, Diagnose, timerVars
<1>7. \A e \in Docs : \A p \in Publications(e)' : p \in Publications(e) \/ Fresh(p, e)'
  BY <1>5, <1>6
<1>. QED
  BY <1>1, <1>3, <1>7, FreshStep

LEMMA FreshDidChange ==
    ASSUME IInv, FreshInv, NEW d \in Docs, NEW c \in Changes, DidChange(d, c) PROVE FreshInv'
<1> DEFINE x == c[documents[d].text]
           v == lastVersion'[d]
<1>1. /\ EditorSteps(d) /\ UNCHANGED <<drops, shown>> /\ client[d] # None
      /\ EditorHas(d, c[client[d].text]) /\ c[client[d].text] \in Texts
  BY ParametersAssumption DEF DidChange, EditorEdits, EditorSteps, IInv, TypeOK, Document
<1>2. lastVersion[d] \in Nat /\ v = lastVersion[d] + 1 /\ v \in 1..MaxVersion
  BY <1>1, EditorHasType DEF IInv
<1>3. documents = client => documents' = client'
  BY <1>1, <1>2 DEF DidChange, EditorHas
<1>4. documents = client => sent'[d][v] = x
  BY <1>1, <1>2 DEF EditorHas, IInv, TypeOK
<1>5. \A q : \/ q = Clear(d, v)
             \/ documents = client /\ q = Diagnose(d, v, x)
             => Fresh(q, d)'
  BY <1>2, <1>4 DEF Fresh, Diagnose, Clear
<1>6. \A e \in Docs : \A p \in Publications(e)' :
          p \in Publications(e) \/ (e = d /\ p \in {Clear(d, v), Diagnose(d, v, x)})
  <2>1. CASE UNCHANGED <<documents, timerVars, handling>>
    BY <1>1, <2>1 DEF Publications, Pending, timerVars
  <2>2. CASE documents[d] # None /\ x \in Oversize
    BY <1>1, <2>2 DEF DidChange, Publications, Pending, timerVars, Clear, Diagnose
  <2>3. CASE documents[d] # None /\ Schedule(d, v, x) /\ UNCHANGED handling
    <3>1. PICK t \in Timers :
            /\ \A s \in Timers : timer'[s] # "idle" /\ s # t => timer[s] # "idle" /\ job'[s] = job[s]
            /\ job'[t] = Diagnose(d, v, x)
      BY <2>3 DEF Schedule
    <3>2. ASSUME NEW e \in Docs, NEW s \in Pending(e)'
          PROVE  job'[s] \in Publications(e) \/ (e = d /\ job'[s] = Diagnose(d, v, x))
      BY <3>1, <3>2 DEF Pending, Publications, Diagnose
    <3>. QED
      BY <1>1, <2>3, <3>2 DEF Publications
  <2>. QED
    BY <2>1, <2>2, <2>3 DEF DidChange
<1>7. drops = 0 => \A e \in Docs : \A p \in Publications(e)' : p \in Publications(e) \/ Fresh(p, e)'
  BY <1>5, <1>6 DEF FreshInv
<1>. QED
  BY <1>1, <1>3, <1>7, FreshStep

LEMMA FreshDidSave ==
    ASSUME IInv, FreshInv, NEW d \in Docs, NEW includeText \in BOOLEAN, DidSave(d, includeText)
    PROVE  FreshInv'
<1>1. UNCHANGED <<editorVars, documents, timerVars, shown>> /\ \E x : handling' = Diagnose(d, 0, x)
  BY DEF DidSave
<1>2. \A e \in Docs : \A p \in Publications(e)' : p \in Publications(e) \/ p.version = 0
  BY <1>1 DEF Publications, Pending, timerVars, Diagnose
<1>3. \A e \in Docs : lastVersion'[e] \in Nat
  BY <1>1, ParametersAssumption DEF IInv, TypeOK, editorVars
<1>4. \A e \in Docs : \A p \in Publications(e)' : p \in Publications(e) \/ Fresh(p, e)'
  BY <1>2, <1>3 DEF Fresh
<1>. QED
  BY <1>1, <1>4, FreshStep DEF editorVars

LEMMA FreshDidClose ==
    ASSUME IInv, FreshInv, NEW d \in Docs, DidClose(d) PROVE FreshInv'
<1>1. EditorSteps(d) /\ UNCHANGED <<drops, lastVersion, shown>> /\ handling' = Clear(d, 0)
  BY DEF DidClose, EditorSteps, EditorCloses
<1>2. \A e \in Docs : \A s \in Pending(e)' : s \in Pending(e) /\ job'[s] = job[s]
  BY DEF DidClose, Pending
<1>3. \A e \in Docs : \A p \in Publications(e)' : p \in Publications(e) \/ p.version = 0
  BY <1>1, <1>2 DEF Publications, Clear, Diagnose
<1>4. \A e \in Docs : lastVersion'[e] \in Nat
  BY <1>1, ParametersAssumption DEF IInv, TypeOK
<1>5. \A e \in Docs : \A p \in Publications(e)' : p \in Publications(e) \/ Fresh(p, e)'
  BY <1>3, <1>4 DEF Fresh
<1>6. documents = client => documents' = client'
  BY DEF DidClose, EditorCloses
<1>. QED
  BY <1>1, <1>5, <1>6, FreshStep

(* The steps that only move publications towards the editor. *)
LEMMA FreshDelivery ==
    ASSUME IInv, FreshInv, NEW d \in Docs, SendPublication \/ \E t \in Timers : TimerStep(t)
    PROVE  FreshInv'
<1>1. UNCHANGED <<editorVars, documents>>
  BY DEF SendPublication, TimerStep, Expire, CallbackUnregister, CallbackPublish
<1>2. \A e \in Docs : Publications(e)' \subseteq Publications(e)
  <2>1. CASE SendPublication
    <3>1. handling \in Publication
      BY <2>1 DEF SendPublication, IInv, TypeOK
    <3>. QED
      BY <2>1, <3>1 DEF SendPublication, Receive, Publications, Pending, timerVars, IInv, TypeOK
  <2>2. ASSUME NEW t \in Timers, Expire(t) \/ CallbackUnregister(t)
        PROVE  \A e \in Docs : Publications(e)' \subseteq Publications(e)
    <3>1. UNCHANGED <<job, handling, shown>> /\ \A e \in Docs : Pending(e)' = Pending(e)
      BY <2>2 DEF Expire, CallbackUnregister, Pending, IInv, TypeOK
    <3>. QED
      BY <3>1 DEF Publications
  <2>3. ASSUME NEW t \in Timers, CallbackPublish(t)
        PROVE  \A e \in Docs : Publications(e)' \subseteq Publications(e)
    <3>1. job[t] \in Publication /\ job[t].uri \in Docs /\ t \in Pending(job[t].uri)
      BY <2>3 DEF CallbackPublish, IInv, JobsInUse, TypeOK, Publication, Pending
    <3>2. \A e \in Docs : \A s \in Pending(e)' : s \in Pending(e) /\ job'[s] = job[s]
      BY <2>3 DEF CallbackPublish, Pending, IInv, TypeOK
    <3>3. \A e \in Docs : shown'[e] = IF e = job[t].uri THEN job[t] ELSE shown[e]
      BY <2>3, <3>1 DEF CallbackPublish, Receive, IInv, TypeOK
    <3>4. handling' = handling
      BY <2>3 DEF CallbackPublish
    <3>. QED
      BY <3>1, <3>2, <3>3, <3>4 DEF Publications
  <2>. QED
    BY <2>1, <2>2, <2>3 DEF TimerStep
<1>. QED
  BY <1>1, <1>2, FreshStep DEF editorVars

LEMMA NextFresh == IInv /\ FreshInv /\ [Next]_vars => FreshInv'
<1>1. ASSUME IInv, FreshInv, Next PROVE FreshInv'
  <2>1. ASSUME NEW d \in Docs, DropNotification(d) PROVE FreshInv'
    BY <1>1, <2>1, ParametersAssumption DEF DropNotification, FreshInv, IInv, TypeOK
  <2>2. CASE SendPublication
    BY <1>1, <2>2, FreshDelivery DEF SendPublication, IInv, TypeOK, Publication
  <2>3. ASSUME NEW t \in Timers, TimerStep(t) PROVE FreshInv'
    <3>1. job[t].uri \in Docs
      BY <1>1, <2>3 DEF TimerStep, Expire, CallbackUnregister, CallbackPublish, IInv, JobsInUse,
         TypeOK, Publication
    <3>. QED
      BY <1>1, <2>3, <3>1, FreshDelivery
  <2>. QED
    BY <1>1, <2>1, <2>2, <2>3, FreshDidOpen, FreshDidChange, FreshDidSave, FreshDidClose DEF Next
<1>2. ASSUME FreshInv, UNCHANGED vars PROVE FreshInv'
  BY <1>2 DEF vars, FreshInv, Fresh, Publications, Pending
<1>. QED
  BY <1>1, <1>2

LEMMA FreshDescribes == FreshInv => DiagnosticsDescribeTheirVersionIfNoDrop
BY DEF FreshInv, Fresh, DiagnosticsDescribeTheirVersionIfNoDrop, DiagnosticsDescribeTheirVersion

(* As long as the rate limiter drops nothing, diagnostics that carry a version
   were computed from the editor's text at that version. *)
THEOREM DiagnosticsFreshIfNoDrop == Spec => []DiagnosticsDescribeTheirVersionIfNoDrop
BY InitIInv, NextIInv, InitFresh, NextFresh, FreshDescribes, PTL DEF Spec

-----------------------------------------------------------------------------
(* When callbacks are never overtaken, the map records every armed timer. *)

PromptInv ==
    Prompt => \A t \in Timers : timer[t] \in {"armed", "fired"} => debounceTimers[job[t].uri] = t

LEMMA PromptSchedule ==
    ASSUME IInv, PromptInv, Ready, NEW d \in Docs, NEW x \in Texts, NEW v, Schedule(d, v, x)
    PROVE  PromptInv'
<1>1. SUFFICES ASSUME Prompt, NEW s \in Timers, timer'[s] \in {"armed", "fired"}
               PROVE  debounceTimers'[job'[s].uri] = s
  BY DEF PromptInv
<1>2. PICK t \in Timers :
        /\ timer[t] = "idle"
        /\ timer'[s] = IF s = t THEN "armed"
                       ELSE IF s = debounceTimers[d] /\ timer[s] = "armed" THEN "idle" ELSE timer[s]
        /\ job'[s] = IF s = t THEN Diagnose(d, v, x)
                     ELSE IF s = debounceTimers[d] /\ timer[s] = "armed" THEN None ELSE job[s]
        /\ debounceTimers' = [debounceTimers EXCEPT ![d] = t]
  BY DEF Schedule
<1>3. CASE s = t
  BY <1>2, <1>3 DEF Diagnose, IInv, TypeOK
<1>4. CASE s # t
  <2>1. timer[s] = "armed" /\ job'[s] = job[s] /\ s # debounceTimers[d]
    BY <1>1, <1>2, <1>4 DEF Ready, Started
  <2>2. job[s].uri \in Docs /\ debounceTimers[job[s].uri] = s
    BY <1>1, <2>1 DEF PromptInv, IInv, JobsInUse, TypeOK, Publication
  <2>. QED
    BY <1>2, <2>1, <2>2 DEF IInv, TypeOK
<1>. QED
  BY <1>3, <1>4

LEMMA PromptDidClose == ASSUME IInv, PromptInv, NEW d \in Docs, DidClose(d) PROVE PromptInv'
<1>1. SUFFICES ASSUME Prompt, NEW s \in Timers, timer'[s] \in {"armed", "fired"}
               PROVE  debounceTimers'[job'[s].uri] = s
  BY DEF PromptInv
<1>2. /\ timer[s] = "armed" /\ job'[s] = job[s] /\ s # debounceTimers[d]
      /\ debounceTimers' = [debounceTimers EXCEPT ![d] = None]
  BY <1>1 DEF DidClose, Ready, Started
<1>3. job[s].uri \in Docs /\ debounceTimers[job[s].uri] = s
  BY <1>1, <1>2 DEF PromptInv, IInv, JobsInUse, TypeOK, Publication
<1>. QED
  BY <1>2, <1>3 DEF IInv, TypeOK

LEMMA PromptTimer ==
    ASSUME IInv, PromptInv, NEW t \in Timers, TimerStep(t) PROVE PromptInv'
<1>1. SUFFICES ASSUME Prompt, NEW s \in Timers, timer'[s] \in {"armed", "fired"}
               PROVE  debounceTimers'[job'[s].uri] = s
  BY DEF PromptInv
<1>2. timer[s] \in {"armed", "fired"} /\ job'[s] = job[s]
  BY <1>1 DEF TimerStep, Expire, CallbackUnregister, CallbackPublish, IInv, TypeOK
<1>3. job[s].uri \in Docs /\ debounceTimers[job[s].uri] = s
  BY <1>1, <1>2 DEF PromptInv, IInv, JobsInUse, TypeOK, Publication
<1>4. CASE CallbackUnregister(t)
  <2>1. s # t
    BY <1>1, <1>4 DEF CallbackUnregister, IInv, TypeOK
  <2>2. job[t].uri # job[s].uri
    BY <1>1, <1>3, <1>4, <2>1 DEF CallbackUnregister, PromptInv
  <2>. QED
    BY <1>2, <1>3, <1>4, <2>2 DEF CallbackUnregister, IInv, TypeOK
<1>5. CASE Expire(t) \/ CallbackPublish(t)
  BY <1>2, <1>3, <1>5 DEF Expire, CallbackPublish
<1>. QED
  BY <1>4, <1>5 DEF TimerStep

LEMMA NextPrompt == IInv /\ PromptInv /\ [Next]_vars => PromptInv'
<1>1. ASSUME PromptInv, UNCHANGED timerVars PROVE PromptInv'
  BY <1>1 DEF PromptInv, timerVars
<1>2. ASSUME IInv, PromptInv, NEW d \in Docs, NEW c \in Changes, DidChange(d, c) PROVE PromptInv'
  <2>1. CASE UNCHANGED timerVars
    BY <1>1, <1>2, <2>1
  <2>2. CASE documents[d] # None /\ Schedule(d, lastVersion'[d], c[documents[d].text])
    <3>1. c[documents[d].text] \in Texts
      BY <1>2, <2>2, ParametersAssumption DEF IInv, TypeOK, Document
    <3>2. \A v, x : v = lastVersion'[d] /\ x = c[documents[d].text] => Schedule(d, v, x)
      BY <2>2
    <3>3. \E x \in Texts : \E v : Schedule(d, v, x)
      BY <3>1, <3>2
    <3>. QED
      BY <1>2, <3>3, PromptSchedule DEF DidChange
  <2>. QED
    BY <1>2, <2>1, <2>2 DEF DidChange
<1>3. ASSUME IInv, PromptInv, Next PROVE PromptInv'
  <2>1. ASSUME NEW d \in Docs,
               \/ DropNotification(d)
               \/ \E x \in Texts : DidOpen(d, x)
               \/ \E includeText \in BOOLEAN : DidSave(d, includeText)
        PROVE  UNCHANGED timerVars
    BY <2>1 DEF DropNotification, DidOpen, DidSave, timerVars
  <2>2. SendPublication => UNCHANGED timerVars
    BY DEF SendPublication, timerVars
  <2>. QED
    BY <1>1, <1>2, <1>3, <2>1, <2>2, PromptDidClose, PromptTimer DEF Next
<1>4. UNCHANGED vars => UNCHANGED timerVars
  BY DEF vars, timerVars
<1>. QED
  BY <1>1, <1>3, <1>4

LEMMA InitPrompt == Init => PromptInv
BY DEF Init, PromptInv

LEMMA PromptOneArmed == IInv /\ PromptInv => (Prompt => OneArmedTimer)
BY DEF PromptInv, OneArmedTimer, Armed, Pending

(* When every callback ends before the next notification is handled, at most
   one validation of a document is waiting for the pause. *)
THEOREM OneArmedTimerIfPrompt == Spec => [](Prompt => OneArmedTimer)
BY InitIInv, NextIInv, InitPrompt, NextPrompt, PromptOneArmed, PTL DEF Spec

-----------------------------------------------------------------------------
(* What the editor shows once nothing is pending, when every callback ends *)
(* before the next notification is handled and the rate limiter drops      *)
(* nothing.                                                                *)

About(d) == handling # None /\ handling.uri = d

(* A closed document has no timer left, and what it still shows is about to be
   cleared. *)
ClosedSettles(d) ==
    documents[d] = None =>
        /\ Pending(d) = {}
        /\ About(d) => handling.of = None
        /\ About(d) \/ shown[d].of = None

(* Whatever is still to be published about an open document is of its present
   text, and so is what it shows when nothing is. *)
OpenSettles(d) ==
    documents[d] # None /\ documents[d].text \notin Oversize =>
        /\ \A t \in Pending(d) : job[t].of = documents[d].text
        /\ About(d) => handling.of = documents[d].text
        /\ Quiet(d) => shown[d].of = documents[d].text

Settles(d) == ClosedSettles(d) /\ OpenSettles(d)

SettledInv == Prompt /\ drops = 0 => \A d \in Docs : Settles(d)

Base == IInv /\ PromptInv /\ FreshInv

-----------------------------------------------------------------------------

LEMMA InitSettled == Init => SettledInv
<1>1. SUFFICES ASSUME Init, NEW d \in Docs PROVE Settles(d)
  BY DEF SettledInv
<1>2. documents[d] = None /\ Pending(d) = {} /\ ~About(d) /\ shown[d].of = None
  BY <1>1 DEF Init, Pending, About, Clear, Diagnose
<1>. QED
  BY <1>2 DEF Settles, ClosedSettles, OpenSettles

(* The documents a step does not touch settle as before. *)
LEMMA SettlesElsewhere ==
    ASSUME NEW e \in Docs, Settles(e), documents'[e] = documents[e],
           \A t \in Pending(e)' : t \in Pending(e) /\ job'[t] = job[t],
           Pending(e) # {} => Pending(e)' # {},
           shown'[e] = shown[e], About(e)' <=> About(e), About(e) => handling' = handling
    PROVE  Settles(e)'
BY DEF Settles, ClosedSettles, OpenSettles, Quiet, About

(* When the loop takes a notification, the only timer a document can have is
   the one the map records, and it is armed. *)
LEMMA ReadyTimers ==
    ASSUME IInv, PromptInv, Ready, Prompt, NEW d \in Docs, NEW t \in Pending(d)
    PROVE  timer[t] = "armed" /\ t = debounceTimers[d] /\ handling = None
<1>1. t \in Timers /\ timer[t] # "idle" /\ job[t].uri = d
  BY DEF Pending
<1>2. timer[t] = "armed"
  BY <1>1 DEF Ready, Started, IInv, TypeOK, Phase
<1>. QED
  BY <1>1, <1>2 DEF PromptInv, Ready

LEMMA SettledDidOpen ==
    ASSUME Base, SettledInv, NEW d \in Docs, NEW x \in Texts, DidOpen(d, x)
    PROVE  SettledInv'
<1>1. SUFFICES ASSUME Prompt, drops = 0 PROVE \A e \in Docs : Settles(e)'
  BY DEF SettledInv, DidOpen
<1>2. \A e \in Docs : Settles(e)
  BY <1>1 DEF SettledInv
<1>3. documents[d] = None /\ handling = None
  BY <1>1 DEF Base, FreshInv, DidOpen, EditorOpens, Ready
<1>4. \A e \in Docs : Pending(e)' = Pending(e)
  BY DEF DidOpen, timerVars, Pending
<1>5. ASSUME NEW e \in Docs, e # d PROVE Settles(e)'
  <2>1. ~About(e) /\ ~About(e)' /\ documents'[e] = documents[e]
    BY <1>3, <1>5 DEF DidOpen, About, Diagnose
  <2>. QED
    BY <1>2, <1>4, <2>1, SettlesElsewhere DEF DidOpen, timerVars
<1>6. Settles(d)'
  <2>1. Pending(d) = {}
    BY <1>2, <1>3 DEF Settles, ClosedSettles
  <2>2. lastVersion'[d] \in 0..MaxVersion
    BY EditorHasType, ParametersAssumption DEF Base, IInv, DidOpen, EditorOpens
  <2>3. documents'[d] # None /\ documents'[d].text = x
    BY <2>2, NoneIsNothing DEF DidOpen, Base, IInv, TypeOK, Document
  <2>4. x \notin Oversize => handling' = Diagnose(d, lastVersion'[d], x) /\ handling' # None
    BY <2>2, DiagnoseType, NoneIsNothing DEF DidOpen
  <2>. QED
    BY <1>4, <2>1, <2>3, <2>4 DEF Settles, ClosedSettles, OpenSettles, Quiet, About, Diagnose
<1>. QED
  BY <1>5, <1>6

(* A change schedules the new text in place of whatever was armed, or clears
   the document when the new text is too long to be parsed. *)
LEMMA SettledDidChange ==
    ASSUME Base, SettledInv, NEW d \in Docs, NEW c \in Changes, DidChange(d, c)
    PROVE  SettledInv'
<1> DEFINE v == lastVersion'[d]
           x == c[documents[d].text]
<1>1. SUFFICES ASSUME Prompt, drops = 0 PROVE \A e \in Docs : Settles(e)'
  BY DEF SettledInv, DidChange
<1>2. \A e \in Docs : Settles(e)
  BY <1>1 DEF SettledInv
<1>3. documents[d] # None /\ handling = None /\ Ready
  BY <1>1 DEF Base, FreshInv, DidChange, EditorEdits, Ready
<1>4. v \in 0..MaxVersion /\ x \in Texts
  <2>1. documents[d].text \in Texts /\ documents = client
    BY <1>1, <1>3 DEF Base, FreshInv, IInv, TypeOK, Document
  <2>2. x \in Texts /\ EditorHas(d, x)
    BY <2>1, ParametersAssumption DEF DidChange, EditorEdits
  <2>. QED
    BY <2>2, EditorHasType, ParametersAssumption DEF Base, IInv
<1>5. /\ documents' = [documents EXCEPT ![d] = [version |-> v, text |-> x]]
      /\ documents'[d] # None /\ documents'[d].text = x /\ shown' = shown
  BY <1>3, <1>4, NoneIsNothing DEF DidChange, Base, IInv, TypeOK, Document
<1>6. CASE x \in Oversize /\ handling' = Clear(d, v) /\ UNCHANGED timerVars
  <2>1. ASSUME NEW e \in Docs, e # d PROVE Settles(e)'
    <3>1. ~About(e) /\ ~About(e)' /\ documents'[e] = documents[e]
      BY <1>3, <1>5, <1>6, <2>1 DEF About, Clear, Diagnose
    <3>2. Pending(e)' = Pending(e) /\ job' = job
      BY <1>6 DEF timerVars, Pending
    <3>. QED
      BY <1>2, <1>5, <3>1, <3>2, SettlesElsewhere
  <2>2. Settles(d)'
    BY <1>5, <1>6 DEF Settles, ClosedSettles, OpenSettles
  <2>. QED
    BY <2>1, <2>2
<1>7. CASE x \notin Oversize /\ Schedule(d, v, x) /\ handling' = handling
  <2>1. PICK t \in Timers :
          /\ timer[t] = "idle"
          /\ timer' = [s \in Timers |->
                IF s = t THEN "armed"
                ELSE IF s = debounceTimers[d] /\ timer[s] = "armed" THEN "idle"
                ELSE timer[s]]
          /\ job' = [s \in Timers |->
                IF s = t THEN Diagnose(d, v, x)
                ELSE IF s = debounceTimers[d] /\ timer[s] = "armed" THEN None
                ELSE job[s]]
    BY <1>7 DEF Schedule
  <2>2. ASSUME NEW e \in Docs, e # d PROVE Settles(e)'
    <3>1. ~About(e) /\ ~About(e)' /\ documents'[e] = documents[e]
      BY <1>3, <1>5, <1>7, <2>2 DEF About
    <3>2. \A s \in Pending(e) : s # debounceTimers[d] /\ s # t
      BY <1>3, <2>1, <2>2, NoneIsNothing DEF Pending, Base, IInv, RecordedTimerIsNewest
    <3>3. Pending(e)' = Pending(e) /\ \A s \in Pending(e) : job'[s] = job[s]
      BY <2>1, <2>2, <3>2 DEF Pending, Diagnose
    <3>. QED
      BY <1>2, <1>5, <3>1, <3>3, SettlesElsewhere
  <2>3. Pending(d)' = {t} /\ job'[t].of = x
    <3>1. \A s \in Pending(d) : timer[s] = "armed" /\ s = debounceTimers[d]
      BY <1>1, <1>3, ReadyTimers DEF Base
    <3>. QED
      BY <2>1, <3>1 DEF Pending, Diagnose
  <2>4. Settles(d)'
    BY <1>3, <1>5, <1>7, <2>3 DEF Settles, ClosedSettles, OpenSettles, About, Quiet
  <2>. QED
    BY <2>2, <2>4
<1>. QED
  BY <1>3, <1>6, <1>7 DEF DidChange

(* Saving publishes the present text again. *)
LEMMA SettledDidSave ==
    ASSUME Base, SettledInv, NEW d \in Docs, NEW includeText \in BOOLEAN, DidSave(d, includeText)
    PROVE  SettledInv'
<1>1. SUFFICES ASSUME Prompt, drops = 0 PROVE \A e \in Docs : Settles(e)'
  BY DEF SettledInv, DidSave, editorVars
<1>2. \A e \in Docs : Settles(e)
  BY <1>1 DEF SettledInv
<1>3. /\ documents[d] # None /\ handling = None
      /\ handling' = Diagnose(d, 0, documents[d].text)
  BY <1>1 DEF Base, FreshInv, DidSave, Ready
<1>4. UNCHANGED <<documents, timer, job, shown>> /\ \A e \in Docs : Pending(e)' = Pending(e)
  BY DEF DidSave, timerVars, Pending
<1>5. ASSUME NEW e \in Docs, e # d PROVE Settles(e)'
  <2>1. ~About(e) /\ ~About(e)'
    BY <1>3, <1>5 DEF About, Diagnose
  <2>. QED
    BY <1>2, <1>4, <2>1, SettlesElsewhere
<1>6. Settles(d)'
  BY <1>2, <1>3, <1>4, NoneIsNothing, DiagnoseType, ParametersAssumption
     DEF Settles, ClosedSettles, OpenSettles, Quiet, About, Diagnose, Base, IInv, TypeOK, Document, Publication
<1>. QED
  BY <1>5, <1>6

(* Closing stops the armed timer, and no other is left. *)
LEMMA SettledDidClose ==
    ASSUME Base, SettledInv, NEW d \in Docs, DidClose(d)
    PROVE  SettledInv'
<1>1. SUFFICES ASSUME Prompt, drops = 0 PROVE \A e \in Docs : Settles(e)'
  BY DEF SettledInv, DidClose
<1>2. \A e \in Docs : Settles(e)
  BY <1>1 DEF SettledInv
<1>3. Ready /\ handling = None /\ handling' = Clear(d, 0) /\ shown' = shown
  BY DEF DidClose, Ready
<1>4. documents'[d] = None /\ \A e \in Docs : e # d => documents'[e] = documents[e]
  BY DEF DidClose, Base, IInv, TypeOK
<1>5. \A t \in Timers : IF t = debounceTimers[d] /\ timer[t] = "armed"
                        THEN timer'[t] = "idle" ELSE timer'[t] = timer[t] /\ job'[t] = job[t]
  BY DEF DidClose
<1>6. ASSUME NEW e \in Docs, e # d PROVE Settles(e)'
  <2>1. ~About(e) /\ ~About(e)'
    BY <1>3, <1>6 DEF About, Clear, Diagnose
  <2>2. \A t \in Pending(e) : t # debounceTimers[d]
    BY <1>6, NoneIsNothing DEF Pending, Base, IInv, RecordedTimerIsNewest
  <2>3. Pending(e)' = Pending(e) /\ \A t \in Pending(e) : job'[t] = job[t]
    BY <1>5, <2>2 DEF Pending
  <2>. QED
    BY <1>2, <1>3, <1>4, <1>6, <2>1, <2>3, SettlesElsewhere
<1>7. Settles(d)'
  <2>1. \A t \in Pending(d) : timer[t] = "armed" /\ t = debounceTimers[d]
    BY <1>1, <1>3, ReadyTimers DEF Base
  <2>2. Pending(d)' = {}
    BY <1>5, <2>1 DEF Pending
  <2>3. About(d)' /\ handling'.of = None
    <3>1. Clear(d, 0) \in Publication
      BY DiagnoseType, ParametersAssumption DEF Clear
    <3>. QED
      BY <1>3, <3>1, NoneIsNothing DEF About, Clear, Diagnose
  <2>. QED
    BY <1>4, <2>2, <2>3 DEF Settles, ClosedSettles, OpenSettles
<1>. QED
  BY <1>6, <1>7

-----------------------------------------------------------------------------
(* The steps that move publications towards the editor *)

LEMMA SettledSend ==
    ASSUME Base, SettledInv, SendPublication
    PROVE  SettledInv'
<1>1. SUFFICES ASSUME Prompt, drops = 0, NEW e \in Docs PROVE Settles(e)'
  BY DEF SettledInv, SendPublication, editorVars
<1>2. Settles(e)
  BY <1>1 DEF SettledInv
<1>3. /\ UNCHANGED <<documents, timer, job>> /\ Pending(e)' = Pending(e)
      /\ handling # None /\ ~About(e)'
      /\ shown'[e] = IF handling.uri = e THEN handling ELSE shown[e]
  BY DEF SendPublication, timerVars, Pending, About, Receive, Base, IInv, TypeOK
<1>. QED
  BY <1>2, <1>3 DEF Settles, ClosedSettles, OpenSettles, Quiet, About

LEMMA SettledTimer ==
    ASSUME Base, SettledInv, NEW t \in Timers, TimerStep(t)
    PROVE  SettledInv'
<1>1. SUFFICES ASSUME Prompt, drops = 0, NEW e \in Docs PROVE Settles(e)'
  BY DEF SettledInv, TimerStep, Expire, CallbackUnregister, CallbackPublish, editorVars
<1>2. Settles(e)
  BY <1>1 DEF SettledInv
<1>3. CASE Expire(t) \/ CallbackUnregister(t)
  <2>1. UNCHANGED <<documents, job, handling, shown>> /\ Pending(e)' = Pending(e)
    BY <1>3 DEF Expire, CallbackUnregister, Pending, Base, IInv, TypeOK
  <2>. QED
    BY <1>2, <2>1 DEF Settles, ClosedSettles, OpenSettles, Quiet, About
<1>4. CASE CallbackPublish(t)
  <2>1. /\ UNCHANGED <<documents, handling>>
        /\ Pending(e)' = Pending(e) \ {t} /\ \A s \in Pending(e)' : job'[s] = job[s]
        /\ shown'[e] = IF job[t].uri = e THEN job[t] ELSE shown[e]
    BY <1>4 DEF CallbackPublish, Receive, Pending, Base, IInv, TypeOK
  <2>2. job[t].uri = e <=> t \in Pending(e)
    BY <1>4 DEF CallbackPublish, Pending
  <2>. QED
    BY <1>2, <2>1, <2>2 DEF Settles, ClosedSettles, OpenSettles, Quiet, About
<1>. QED
  BY <1>3, <1>4 DEF TimerStep

LEMMA NextSettled == Base /\ SettledInv /\ [Next]_vars => SettledInv'
<1>1. ASSUME Base, SettledInv, Next PROVE SettledInv'
  <2>1. ASSUME NEW d \in Docs, DropNotification(d) PROVE SettledInv'
    BY <1>1, <2>1, ParametersAssumption DEF DropNotification, SettledInv, Base, IInv, TypeOK
  <2>. QED
    BY <1>1, <2>1, SettledDidOpen, SettledDidChange, SettledDidSave, SettledDidClose,
       SettledSend, SettledTimer DEF Next
<1>2. ASSUME SettledInv, UNCHANGED vars PROVE SettledInv'
  BY <1>2 DEF vars, SettledInv, Settles, ClosedSettles, OpenSettles, Quiet, About, Pending
<1>. QED
  BY <1>1, <1>2

LEMMA SettledAlways == Spec => [](Base /\ SettledInv)
<1>1. Init => Base /\ SettledInv
  BY InitIInv, InitPrompt, InitFresh, InitSettled DEF Base
<1>2. Base /\ [Next]_vars => Base'
  BY NextIInv, NextPrompt, NextFresh DEF Base
<1>. QED
  BY <1>1, <1>2, NextSettled, PTL DEF Spec

(* "Clear diagnostics for closed document": as long as callbacks are not
   overtaken and nothing is dropped, once nothing is pending a document the
   editor has closed shows no diagnostics. *)
THEOREM ClosedDocumentIsClearIfPrompt ==
    Spec => [](Prompt /\ drops = 0 => ClosedDocumentIsClear)
<1>1. Base /\ SettledInv => (Prompt /\ drops = 0 => ClosedDocumentIsClear)
  BY DEF Base, FreshInv, SettledInv, Settles, ClosedSettles, ClosedDocumentIsClear, Quiet, About
<1>. QED
  BY <1>1, SettledAlways, PTL

(* "The parser fires 300ms after the last change": under the same conditions,
   once nothing is pending an open document shows the diagnostics of its
   present text. *)
THEOREM OpenDocumentIsCurrentIfPrompt ==
    Spec => [](Prompt /\ drops = 0 => OpenDocumentIsCurrent)
<1>1. Base /\ SettledInv => (Prompt /\ drops = 0 => OpenDocumentIsCurrent)
  BY DEF SettledInv, Settles, OpenSettles, OpenDocumentIsCurrent
<1>. QED
  BY <1>1, SettledAlways, PTL
=============================================================================
