-------------------------- MODULE ParserLoopProofs --------------------------
(***************************************************************************)
(* The three statement loops, for token streams of any length and every    *)
(* outcome of their statements: what each finds in the stream, that they   *)
(* find the same, and what a call leaves behind.                           *)
(***************************************************************************)
EXTENDS ParserLoop, TLAPS, WellFoundedInduction

(* Where a loop goes on behind a statement that it has parsed. *)
Advance(i) == LET end == outcome[i].end IN IF KindAt(end) = Semi THEN end + 1 ELSE end

Good(i) == tokens[i] # Semi /\ outcome[i].ok
Bad(i) == i \in Positions /\ tokens[i] # Semi /\ ~outcome[i].ok

(* The statements begun at S, and semicolons, are all there is before p. *)
RunsTo(S, p) ==
    /\ S \subseteq 1..p - 1
    /\ \A s \in S : Good(s) /\ Advance(s) <= p
    /\ \A s, t \in S : s < t => Advance(s) <= t
    /\ \A i \in 1..p - 1 : i \in S \/ tokens[i] = Semi \/ \E s \in S : s < i /\ i < Advance(s)

(* Recovery up to p: as the others up to the first error, if there is one. *)
RecoversTo(S, E, p) ==
    \/ E = {} /\ RunsTo(S, p)
    \/ \E e \in E : /\ Bad(e) /\ e < p /\ \A x \in E : e <= x
                    /\ RunsTo({s \in S : s < e}, e)

PiecesAnswered(S, E, p) ==
    \A i \in Positions : Opens(i) /\ i < p =>
        ReadInto(S, E, i) \/ i \in IF outcome[i].ok THEN S ELSE E

(* Every element of Q is where the statements before it lead. *)
Begun(Q) == \A i \in Q : tokens[i] # Semi /\ \E S \in SUBSET Positions : RunsTo(S, i)

(* What a call that has returned says of the stream. *)
Judges(m, r) ==
    /\ r.kind \in {"ok", "empty", "syntax", "strict", "ctx"}
    /\ r.stmts \subseteq Positions /\ r.errs \subseteq Positions
    /\ r.kind = "strict" => m = "parse" /\ r.strict
    /\ r.kind = "ctx" => m = "context"
    /\ m = "parse" => ~r.done
    /\ m # "recovery" => Begun(r.stmts \cup r.errs) /\ (r.kind = "ok" => r.errs = {})
    /\ m # "recovery" /\ ~r.done =>
         /\ r.kind # "ctx"
         /\ r.kind = "ok" => r.errs = {} /\ r.stmts # {} /\ RunsTo(r.stmts, Length + 1)
         /\ r.kind = "empty" => r.errs = {} /\ r.stmts = {} /\ RunsTo({}, Length + 1)
         /\ r.kind = "syntax" =>
              \E e \in Positions : /\ r.errs = {e} /\ r.stmts = {} /\ Bad(e)
                                   /\ \E S \in SUBSET Positions : RunsTo(S, e)
    /\ m = "recovery" =>
         r.kind = "ok" /\ RecoversTo(r.stmts, r.errs, Length + 1) /\ PiecesAnswered(r.stmts, r.errs, Length + 1)

Trees(m, r) == r.live = asts[m] /\ asts[m] = IF r.kind = "ok" /\ m # "recovery" THEN 1 ELSE 0

InputOK == tokens \in Seq(Kinds) /\ outcome \in Outcomes(tokens)

StateOK ==
    /\ strict \in BOOLEAN /\ asked \in BOOLEAN /\ checked \in BOOLEAN /\ cancelled \in BOOLEAN
    /\ strict => asked
    /\ mode \in Modes \cup {"idle"} /\ ctx \in BOOLEAN /\ (ctx <=> mode = "context")
    /\ pos \in 1..Length + 1 /\ stmts \subseteq Positions /\ errs \subseteq Positions
    /\ asts \in [Modes -> Nat] /\ DOMAIN results = Modes
    /\ late = 0 \/ (late = 1 /\ cancelled /\ ~checked /\ mode = "context")

RunningOK ==
    mode # "idle" =>
        /\ results[mode] = <<>>
        /\ asts[mode] = IF mode = "recovery" THEN 0 ELSE 1
        /\ IF mode = "recovery"
           THEN RecoversTo(stmts, errs, pos) /\ PiecesAnswered(stmts, errs, pos)
           ELSE errs = {} /\ Begun(stmts) /\ (late = 0 => RunsTo(stmts, pos))

ReturnedOK ==
    \A m \in Modes :
        IF Done(m)
        THEN Judges(m, Result(m)) /\ Trees(m, Result(m)) /\ (Result(m).done => cancelled)
        ELSE m # mode => asts[m] = 0

LoopInv == InputOK /\ StateOK /\ RunningOK /\ ReturnedOK

-----------------------------------------------------------------------------
(* The least element of a set of positions *)

LEMMA LeastNatural ==
    ASSUME NEW S \in SUBSET Nat, S # {}
    PROVE  \E m \in S : \A n \in S : m <= n
<1>1. PICK R : R = {ss \in Nat \X Nat : ss[1] < ss[2]}
  OBVIOUS
<1>2. IsWellFoundedOn(R, Nat)
  BY <1>1, NatLessThanWellFounded DEF OpToRel
<1>3. PICK x \in S : \A y \in S : ~ (<<y, x>> \in R)
  BY <1>2, WFMin
<1>4. ASSUME NEW y \in S PROVE x <= y
  <2>1. x \in Nat /\ y \in Nat /\ <<y, x>> \in Nat \X Nat /\ ~(<<y, x>> \in R)
    BY <1>3
  <2>2. ~(<<y, x>>[1] < <<y, x>>[2])
    BY <1>1, <2>1
  <2>. QED
    BY <2>1, <2>2
<1>. QED
  BY <1>4

LEMMA MinIsLeast ==
    ASSUME NEW S \in SUBSET Nat, S # {}
    PROVE  Min(S) \in S /\ \A n \in S : Min(S) <= n
BY LeastNatural DEF Min

LEMMA MinIs ==
    ASSUME NEW S \in SUBSET Nat, NEW m \in S, \A n \in S : m <= n
    PROVE  Min(S) = m
<1>1. Min(S) \in S /\ \A n \in S : Min(S) <= n
  BY MinIsLeast
<1>2. Min(S) \in Nat /\ m \in Nat /\ m <= Min(S) /\ Min(S) <= m
  BY <1>1
<1>. QED
  BY <1>2

-----------------------------------------------------------------------------
(* What the grammar and synchronisation do *)

LEMMA KindIs ==
    ASSUME InputOK
    PROVE  /\ Length \in Nat /\ Positions = 1..Length
           /\ \A i \in Positions : KindAt(i) = tokens[i] /\ tokens[i] \in Kinds /\ KindAt(i) # EOF
           /\ \A i : i \notin Positions => KindAt(i) = EOF
           /\ Semi # EOF
<1>1. Length \in Nat /\ Positions = 1..Length
  BY DEF InputOK, Length, Positions
<1>2. \A i \in Positions : tokens[i] \in Kinds
  BY DEF InputOK, Length, Positions
<1>3. EOF \notin Kinds
  BY DEF Kinds, Dispatched, Starters, Semi, EOF
<1>4. Semi # EOF
  BY DEF Semi, EOF
<1>. QED
  BY <1>1, <1>2, <1>3, <1>4 DEF KindAt

LEMMA OutcomeIs ==
    ASSUME InputOK, NEW i \in Positions, tokens[i] # Semi
    PROVE  /\ outcome[i].ok \in BOOLEAN
           /\ outcome[i].end \in i..Length + 1
           /\ outcome[i].ok => outcome[i].end > i
<1>1. Len(tokens) \in Nat /\ i \in 1..Len(tokens)
  BY KindIs DEF Positions, Length
<1>2. outcome[i] \in [ok : BOOLEAN, end : 1..Len(tokens) + 1]
  BY <1>1 DEF InputOK, Outcomes
<1>3. IF tokens[i] \in Dispatched
      THEN outcome[i].end > i
      ELSE outcome[i] = [ok |-> FALSE, end |-> i]
  BY <1>1 DEF InputOK, Outcomes
<1>. QED
  BY <1>1, <1>2, <1>3 DEF Length

LEMMA AdvanceIs ==
    ASSUME InputOK, NEW i \in Positions, Good(i)
    PROVE  /\ Advance(i) \in i + 1..Length + 1
           /\ \A j \in i + 1..Advance(i) - 1 : j < outcome[i].end \/ tokens[j] = Semi
<1>1. PICK e : e = outcome[i].end
  OBVIOUS
<1>2. e \in i + 1..Length + 1
  BY <1>1, OutcomeIs, KindIs DEF Good, Positions
<1>3. i \in Nat /\ Length \in Nat
  BY KindIs DEF Positions
<1>4. CASE KindAt(e) = Semi
  <2>1. e \in Positions /\ Advance(i) = e + 1 /\ tokens[e] = Semi
    BY <1>1, <1>4, KindIs DEF Advance
  <2>. QED
    BY <1>1, <1>2, <1>3, <2>1 DEF Positions
<1>5. CASE KindAt(e) # Semi
  <2>1. Advance(i) = e
    BY <1>1, <1>5 DEF Advance
  <2>. QED
    BY <1>1, <1>2, <1>3, <2>1
<1>. QED
  BY <1>4, <1>5

(* synchronize stops behind the first semicolon at the latest, and at once where
   a keyword is. *)
LEMMA SyncIs ==
    ASSUME InputOK, NEW p \in 1..Length + 1
    PROVE  /\ SyncFrom(p) \in p..Length + 1
           /\ \A i \in p + 1..SyncFrom(p) - 1 : tokens[i - 1] # Semi
           /\ p \in Positions /\ tokens[p] \in Starters => SyncFrom(p) = p
<1>. DEFINE T == Starters \cup {Semi}
            Q == {q \in p..(Length + 1) : KindAt(q) \in T \cup {EOF}}
<1>1. Length \in Nat /\ p \in Nat
  BY KindIs
<1>2. Length + 1 \in Q /\ Q \in SUBSET Nat
  BY <1>1, KindIs
<1>3. PICK stop : stop = Min(Q)
  OBVIOUS
<1>4. stop \in Q /\ \A n \in Q : stop <= n
  BY <1>2, <1>3, MinIsLeast
<1>5. SyncFrom(p) = IF KindAt(stop) = Semi THEN stop + 1 ELSE stop
  BY <1>3 DEF SyncFrom, NextAt
<1>6. \A i \in p..stop - 1 : tokens[i] # Semi
  <2>1. SUFFICES ASSUME NEW i \in p..stop - 1, tokens[i] = Semi PROVE FALSE
    OBVIOUS
  <2>2. i \in Positions /\ i \in p..Length + 1 /\ i < stop
    BY <1>1, <1>4 DEF Positions
  <2>3. i \in Q
    BY <2>1, <2>2, KindIs
  <2>. QED
    BY <1>1, <1>4, <2>2, <2>3
<1>7. p \in Positions /\ tokens[p] \in Starters => stop = p /\ KindAt(stop) # Semi
  <2>1. SUFFICES ASSUME p \in Positions, tokens[p] \in Starters PROVE stop = p /\ KindAt(stop) # Semi
    OBVIOUS
  <2>2. p \in Q
    BY <1>1, <2>1, KindIs DEF Positions
  <2>3. stop = p
    BY <1>1, <1>4, <2>2
  <2>. QED
    BY <2>1, <2>3, KindIs DEF Starters, Semi
<1>8. CASE KindAt(stop) = Semi
  <2>1. stop # Length + 1
    BY <1>1, <1>8, KindIs
  <2>. QED
    BY <1>1, <1>4, <1>5, <1>6, <1>7, <1>8, <2>1
<1>9. CASE KindAt(stop) # Semi
  BY <1>1, <1>4, <1>5, <1>6, <1>7, <1>9
<1>. QED
  BY <1>8, <1>9

-----------------------------------------------------------------------------
(* Runs of a loop *)

LEMMA RunStarts == ASSUME InputOK PROVE RunsTo({}, 1)
BY DEF RunsTo

LEMMA RunSkips ==
    ASSUME InputOK, NEW S, NEW p \in Positions, RunsTo(S, p), tokens[p] = Semi
    PROVE  RunsTo(S, p + 1)
<1>1. p \in Nat /\ S \subseteq 1..p - 1
  BY DEF Positions, RunsTo
<1>2. \A s \in S : Good(s) /\ Advance(s) \in Nat /\ Advance(s) <= p
  <2>1. \A s \in S : s \in Positions
    BY <1>1, KindIs DEF Positions
  <2>. QED
    BY <2>1, AdvanceIs, KindIs DEF RunsTo, Positions
<1>. QED
  BY <1>1, <1>2 DEF RunsTo

LEMMA RunParses ==
    ASSUME InputOK, NEW S, NEW p \in Positions, RunsTo(S, p), Good(p)
    PROVE  RunsTo(S \cup {p}, Advance(p))
<1>1. p \in Nat /\ S \subseteq 1..p - 1 /\ p > 0 /\ p <= Length
  BY KindIs DEF Positions, RunsTo
<1>2. \A s \in S : Good(s) /\ Advance(s) \in Nat /\ Advance(s) <= p /\ s < p /\ s \in Nat
  <2>1. \A s \in S : s \in Positions
    BY <1>1, KindIs DEF Positions
  <2>. QED
    BY <1>1, <2>1, AdvanceIs, KindIs DEF RunsTo, Positions
<1>3. PICK a : a = Advance(p)
  OBVIOUS
<1>4. a \in Nat /\ a > p
  BY <1>1, <1>3, AdvanceIs, KindIs
<1>5. S \cup {p} \subseteq 1..a - 1
  BY <1>1, <1>4
<1>6. \A s \in S \cup {p} : Good(s) /\ Advance(s) <= a
  BY <1>2, <1>3, <1>4, <1>1
<1>7. \A s, t \in S \cup {p} : s < t => Advance(s) <= t
  BY <1>1, <1>2 DEF RunsTo
<1>8. \A i \in 1..a - 1 :
        i \in S \cup {p} \/ tokens[i] = Semi \/ \E s \in S \cup {p} : s < i /\ i < Advance(s)
  <2>1. SUFFICES ASSUME NEW i \in 1..a - 1
                 PROVE  i \in S \cup {p} \/ tokens[i] = Semi
                            \/ \E s \in S \cup {p} : s < i /\ i < Advance(s)
    OBVIOUS
  <2>2. CASE i < p
    BY <1>1, <1>4, <2>2 DEF RunsTo
  <2>3. CASE i >= p
    BY <1>1, <1>3, <1>4, <2>3
  <2>. QED
    BY <1>1, <1>4, <2>2, <2>3
<1>. QED
  BY <1>3, <1>5, <1>6, <1>7, <1>8 DEF RunsTo

(* The run that leads to a statement makes it one that is begun. *)
LEMMA BegunGrows ==
    ASSUME InputOK, NEW S, NEW Q, NEW p \in Positions, RunsTo(S, p), tokens[p] # Semi, Begun(Q)
    PROVE  Begun(Q \cup {p})
<1>1. S \in SUBSET Positions
  BY KindIs DEF RunsTo, Positions
<1>. QED
  BY <1>1 DEF Begun

(* A run ends where nothing is left, or a statement is bad. *)
Ends(p) == p = Length + 1 \/ Bad(p)

(* Two runs do not part: what one of them begins the other does, as long as
   that has not ended. *)
LEMMA RunWithin ==
    ASSUME InputOK, NEW S, NEW p \in 1..Length + 1, RunsTo(S, p),
           NEW T, NEW q \in 1..Length + 1, RunsTo(T, q), Ends(q),
           NEW i \in S, \A j \in Positions : j < i => (j \in S <=> j \in T)
    PROVE  i \in T
<1>1. SUFFICES ASSUME i \notin T PROVE FALSE
  OBVIOUS
<1>2. /\ S \subseteq Positions /\ Length \in Nat /\ i \in Positions /\ i \in Nat /\ i < p
      /\ T \subseteq Positions /\ \A j \in Positions : j \in Nat
  BY KindIs DEF RunsTo
<1>3. \A s \in S : Good(s) /\ Advance(s) \in Nat /\ Advance(s) <= p
  BY <1>2, AdvanceIs DEF RunsTo
<1>4. \A t \in T : Good(t) /\ Advance(t) \in Nat /\ Advance(t) <= q
  BY <1>2, AdvanceIs DEF RunsTo
<1>5. CASE i < q
  <2>1. i \in 1..q - 1 /\ tokens[i] # Semi
    BY <1>2, <1>3, <1>5, KindIs DEF Good
  <2>2. PICK t \in T : t < i /\ i < Advance(t)
    BY <1>1, <2>1 DEF RunsTo
  <2>3. t \in S
    BY <1>2, <2>2
  <2>4. Advance(t) <= i
    BY <2>2, <2>3 DEF RunsTo
  <2>. QED
    BY <1>2, <1>4, <2>2, <2>4
<1>6. CASE q <= i
  <2>1. Bad(q) /\ q \in 1..p - 1
    BY <1>2, <1>6, KindIs DEF Ends
  <2>2. q \notin S
    BY <1>3, <2>1 DEF Good, Bad
  <2>3. PICK s \in S : s < q /\ q < Advance(s)
    BY <2>1, <2>2 DEF RunsTo, Bad
  <2>4. s \in T
    BY <1>2, <1>6, <2>3
  <2>. QED
    BY <1>2, <1>3, <1>4, <2>3, <2>4
<1>. QED
  BY <1>2, <1>5, <1>6

(* What a run does not begin, and is no semicolon, lies in one of its statements. *)
LEMMA RunCovers ==
    ASSUME NEW S, NEW p, RunsTo(S, p), NEW i \in 1..p - 1, i \notin S, tokens[i] # Semi
    PROVE  \E s \in S : s < i /\ i < Advance(s)
BY DEF RunsTo

(* A run to the end begins every statement to which some run leads. *)
LEMMA WholeRunBegins ==
    ASSUME InputOK, NEW T, RunsTo(T, Length + 1), NEW i \in Positions, Begun({i})
    PROVE  i \in T
<1>. PICK L : L = Length + 1
  OBVIOUS
<1>0. RunsTo(T, L)
  OBVIOUS
<1>1. PICK S \in SUBSET Positions : RunsTo(S, i)
  BY DEF Begun
<1>2. /\ L \in Nat /\ i \in Nat /\ tokens[i] # Semi /\ i \in 1..L - 1
      /\ S \subseteq Positions /\ T \subseteq Positions /\ \A j \in Positions : j \in Nat
  BY <1>1, KindIs DEF RunsTo, Begun
<1>3. \A s \in S : s < i /\ Advance(s) \in Nat /\ Advance(s) <= i
  BY <1>1, <1>2, AdvanceIs DEF RunsTo
<1>4. \A t \in T : Good(t) /\ Advance(t) \in Nat
  BY <1>2, AdvanceIs DEF RunsTo
<1>5. \A j \in Positions : j < i => (j \in S <=> j \in T)
  <2>. DEFINE D == {j \in Positions : j < i /\ ~(j \in S <=> j \in T)}
  <2>1. SUFFICES ASSUME D # {} PROVE FALSE
    OBVIOUS
  <2>2. PICK d \in D : \A j \in D : d <= j
    BY <1>2, <2>1, LeastNatural
  <2>3. d \in Nat /\ d < i /\ d \in 1..i - 1 /\ d \in 1..L - 1 /\ ~(d \in S <=> d \in T)
    BY <1>2, <2>2, KindIs
  <2>4. \A j \in Positions : j < d => (j \in S <=> j \in T)
    BY <1>2, <2>2, <2>3
  <2>5. tokens[d] # Semi
    BY <1>1, <1>4, <2>3 DEF RunsTo, Good
  <2>6. CASE d \in S
    <3>1. PICK t \in T : t < d /\ d < Advance(t)
      <4>1. d \notin T
        BY <2>3, <2>6
      <4>2. d \in 1..L - 1
        BY <2>3
      <4>. QED
        BY <1>0, <2>5, <4>1, <4>2, RunCovers
    <3>2. t \in S /\ Advance(t) <= d
      BY <1>1, <1>2, <2>4, <2>6, <3>1 DEF RunsTo
    <3>. QED
      BY <1>4, <2>3, <3>1, <3>2
  <2>7. CASE d \notin S
    <3>1. PICK t \in S : t < d /\ d < Advance(t)
      BY <1>1, <2>3, <2>5, <2>7 DEF RunsTo
    <3>2. t \in T /\ Advance(t) <= d
      BY <1>2, <2>3, <2>4, <2>7, <3>1 DEF RunsTo
    <3>. QED
      BY <1>3, <2>3, <3>1, <3>2
  <2>. QED
    BY <2>6, <2>7
<1>6. SUFFICES ASSUME i \notin T PROVE FALSE
  OBVIOUS
<1>7. PICK t \in T : t < i /\ i < Advance(t)
  BY <1>0, <1>2, <1>6, RunCovers
<1>8. t \in S
  BY <1>2, <1>5, <1>7
<1>. QED
  BY <1>2, <1>3, <1>7, <1>8

LEMMA RunsAgree ==
    ASSUME InputOK, NEW S, NEW p \in 1..Length + 1, RunsTo(S, p), Ends(p),
                    NEW T, NEW q \in 1..Length + 1, RunsTo(T, q), Ends(q)
    PROVE  S = T /\ p = q
<1>1. /\ S \subseteq Positions /\ T \subseteq Positions /\ Positions \subseteq Nat /\ Length \in Nat
  BY KindIs DEF RunsTo
<1>2. S = T
  <2>. DEFINE D == {i \in Positions : ~(i \in S <=> i \in T)}
  <2>1. SUFFICES ASSUME D # {} PROVE FALSE
    BY <1>1
  <2>2. PICK i \in D : \A j \in D : i <= j
    BY <1>1, <2>1, LeastNatural
  <2>3. \A j \in Positions : j < i => (j \in S <=> j \in T)
    BY <1>1, <2>2
  <2>4. CASE i \in S
    BY <2>2, <2>3, <2>4, RunWithin
  <2>5. CASE i \in T
    <3>1. \A j \in Positions : j < i => (j \in T <=> j \in S)
      BY <2>3
    <3>. QED
      BY <2>2, <2>5, <3>1, RunWithin
  <2>. QED
    BY <2>2, <2>4, <2>5
<1>3. ASSUME NEW a \in 1..Length + 1, NEW b \in 1..Length + 1, RunsTo(S, a), RunsTo(S, b), Ends(a), a < b
      PROVE  FALSE
  <2>1. Bad(a) /\ a \in 1..b - 1
    BY <1>1, <1>3 DEF Ends
  <2>2. a \notin S
    BY <1>3, <2>1 DEF RunsTo, Good, Bad
  <2>3. PICK s \in S : s < a /\ a < Advance(s)
    BY <1>3, <2>1, <2>2 DEF RunsTo, Bad
  <2>4. Advance(s) <= a /\ Advance(s) \in Nat
    BY <1>1, <1>3, AdvanceIs DEF RunsTo
  <2>. QED
    BY <1>1, <2>3, <2>4
<1>4. ~(p < q) /\ ~(q < p)
  BY <1>2, <1>3
<1>. QED
  BY <1>1, <1>2, <1>4

(* Recovery goes on as the others do, and from an error to behind the next
   semicolon or to the next keyword. *)
LEMMA RecoveryGoesOn ==
    ASSUME InputOK, NEW S, NEW E, NEW p \in Positions, NEW q \in 1..Length + 1, p < q,
           S \subseteq Positions, E \subseteq Positions, RecoversTo(S, E, p), NEW T,
           T = S \/ T = S \cup {p}, RunsTo(S, p) => RunsTo(T, q)
    PROVE  RecoversTo(T, E, q)
<1>1. Length \in Nat /\ p \in Nat /\ Positions = 1..Length
  BY KindIs
<1>2. CASE E = {} /\ RunsTo(S, p)
  BY <1>2 DEF RecoversTo
<1>3. CASE \E e \in E : /\ Bad(e) /\ e < p /\ \A x \in E : e <= x
                        /\ RunsTo({s \in S : s < e}, e)
  <2>1. PICK e \in E : /\ Bad(e) /\ e < p /\ \A x \in E : e <= x
                       /\ RunsTo({s \in S : s < e}, e)
    BY <1>3
  <2>2. {s \in T : s < e} = {s \in S : s < e}
    BY <1>1, <2>1
  <2>3. e < q
    BY <1>1, <2>1
  <2>. QED
    BY <2>1, <2>2, <2>3 DEF RecoversTo
<1>. QED
  BY <1>2, <1>3 DEF RecoversTo

LEMMA RecoveryNotes ==
    ASSUME InputOK, NEW S, NEW E, NEW p \in Positions, NEW q \in 1..Length + 1, p < q,
           S \subseteq Positions, E \subseteq Positions, RecoversTo(S, E, p), Bad(p)
    PROVE  RecoversTo(S, E \cup {p}, q)
<1>1. Length \in Nat /\ p \in Nat /\ Positions = 1..Length
  BY KindIs
<1>2. CASE E = {} /\ RunsTo(S, p)
  <2>1. {s \in S : s < p} = S
    <3>1. \A s \in S : s \in 1..p - 1
      BY <1>2 DEF RunsTo
    <3>2. \A s \in S : s < p
      BY <1>1, <3>1
    <3>. QED
      BY <3>2
  <2>2. RunsTo({s \in S : s < p}, p)
    BY <1>2, <2>1
  <2>3. \A x \in E \cup {p} : p <= x
    BY <1>1, <1>2
  <2>. QED
    BY <2>2, <2>3 DEF RecoversTo
<1>3. CASE \E e \in E : /\ Bad(e) /\ e < p /\ \A x \in E : e <= x
                        /\ RunsTo({s \in S : s < e}, e)
  <2>1. PICK e \in E : /\ Bad(e) /\ e < p /\ \A x \in E : e <= x
                       /\ RunsTo({s \in S : s < e}, e)
    BY <1>3
  <2>2. e < q /\ e <= p
    BY <1>1, <2>1
  <2>. QED
    BY <2>1, <2>2 DEF RecoversTo
<1>. QED
  BY <1>2, <1>3 DEF RecoversTo

(* All is well when the piece at p is answered, and those between p and q are
   read into. *)
LEMMA PiecesGoOn ==
    ASSUME InputOK, NEW S, NEW E, NEW p \in Positions, NEW q \in 1..Length + 1,
           PiecesAnswered(S, E, p), NEW T, NEW F, S \subseteq T, E \subseteq F,
           \A i \in p + 1..q - 1 : Opens(i) => ReadInto(T, F, i),
           tokens[p] # Semi => p \in IF outcome[p].ok THEN T ELSE F
    PROVE  PiecesAnswered(T, F, q)
<1>1. Length \in Nat /\ p \in Nat /\ Positions = 1..Length
  BY KindIs
<1>2. SUFFICES ASSUME NEW i \in Positions, Opens(i), i < q
               PROVE  ReadInto(T, F, i) \/ i \in IF outcome[i].ok THEN T ELSE F
  BY DEF PiecesAnswered
<1>3. CASE i < p
  <2>1. ReadInto(S, E, i) => ReadInto(T, F, i)
    BY DEF ReadInto
  <2>. QED
    BY <1>1, <1>2, <1>3, <2>1 DEF PiecesAnswered
<1>4. CASE i = p
  BY <1>2, <1>4 DEF Opens
<1>5. CASE i > p
  BY <1>1, <1>2, <1>5
<1>. QED
  BY <1>1, <1>3, <1>4, <1>5

-----------------------------------------------------------------------------
(* Steps of a loop *)

(* What is said of the stream stays true of it. *)
LEMMA InputKept ==
    ASSUME UNCHANGED input
    PROVE  /\ InputOK <=> InputOK'
           /\ Length' = Length /\ Positions' = Positions
           /\ \A S, q : RunsTo(S, q)' <=> RunsTo(S, q)
           /\ \A i : Bad(i)' <=> Bad(i)
           /\ \A S, E, q : RecoversTo(S, E, q)' <=> RecoversTo(S, E, q)
           /\ \A S, E, q : PiecesAnswered(S, E, q)' <=> PiecesAnswered(S, E, q)
           /\ \A Q : Begun(Q)' <=> Begun(Q)
           /\ \A m, r : Judges(m, r)' <=> Judges(m, r)
<1>1. tokens' = tokens /\ outcome' = outcome
  BY DEF input
<1>2. (InputOK <=> InputOK') /\ Length' = Length /\ Positions' = Positions
  BY <1>1 DEF InputOK, Length, Positions
<1>3. \A i : KindAt(i)' = KindAt(i)
  BY <1>1, <1>2 DEF KindAt
<1>4. \A i : (Good(i)' <=> Good(i)) /\ (Bad(i)' <=> Bad(i)) /\ Advance(i)' = Advance(i)
  BY <1>1, <1>2, <1>3 DEF Good, Bad, Advance
<1>5. \A S, q : RunsTo(S, q)' <=> RunsTo(S, q)
  BY <1>1, <1>4 DEF RunsTo
<1>6. \A S, E, q : RecoversTo(S, E, q)' <=> RecoversTo(S, E, q)
  BY <1>4, <1>5 DEF RecoversTo
<1>7. \A S, E, q : PiecesAnswered(S, E, q)' <=> PiecesAnswered(S, E, q)
  BY <1>1, <1>2 DEF PiecesAnswered, Opens, ReadInto
<1>8. \A Q : Begun(Q)' <=> Begun(Q)
  BY <1>1, <1>2, <1>5 DEF Begun
<1>9. \A m, r : Judges(m, r)' <=> Judges(m, r)
  BY <1>2, <1>4, <1>5, <1>6, <1>7, <1>8 DEF Judges
<1>. QED
  BY <1>2, <1>4, <1>5, <1>6, <1>7, <1>8, <1>9

(* A loop that goes on. *)
LEMMA GoesOn ==
    ASSUME LoopInv, mode # "idle",
           UNCHANGED <<input, strict, ctx, mode, asts, cancelled, results, asked>>,
           pos' \in 1..Length + 1, stmts' \subseteq Positions, errs' \subseteq Positions,
           checked' \in BOOLEAN,
           late' = 0 \/ (late' = 1 /\ cancelled /\ ~checked' /\ mode = "context"),
           IF mode = "recovery"
           THEN RecoversTo(stmts', errs', pos') /\ PiecesAnswered(stmts', errs', pos')
           ELSE errs' = {} /\ Begun(stmts') /\ (late' = 0 => RunsTo(stmts', pos'))
    PROVE  LoopInv'
<1>1. UNCHANGED input
  OBVIOUS
<1>2. InputOK' /\ StateOK'
  BY <1>1, InputKept DEF LoopInv, StateOK
<1>3. RunningOK'
  BY <1>1, InputKept DEF LoopInv, RunningOK
<1>4. ReturnedOK'
  BY <1>1, InputKept DEF LoopInv, ReturnedOK, Done, Result, Trees
<1>. QED
  BY <1>2, <1>3, <1>4 DEF LoopInv

(* A loop that returns. *)
LEMMA Returns ==
    ASSUME LoopInv, mode # "idle", NEW kind, NEW ss, NEW es, Return(kind, ss, es),
           NEW r, r = [kind |-> kind, stmts |-> ss, errs |-> es, strict |-> asked, live |-> asts'[mode],
                       done |-> mode = "context" /\ cancelled],
           asts' \in [Modes -> Nat], \A m \in Modes : m # mode => asts'[m] = asts[m],
           asts'[mode] = IF kind = "ok" /\ mode # "recovery" THEN 1 ELSE 0,
           Judges(mode, r)
    PROVE  LoopInv'
<1>1. UNCHANGED input /\ UNCHANGED cancelled /\ mode \in Modes /\ (r.done => cancelled)
  BY DEF Return, LoopInv, StateOK
<1>2. InputOK' /\ StateOK'
  BY <1>1, InputKept DEF LoopInv, StateOK, Return, Modes
<1>3. RunningOK'
  BY DEF RunningOK, Return
<1>4. /\ results' = [results EXCEPT ![mode] = <<r>>]
      /\ DOMAIN results = Modes
  BY DEF Return, Returned, LoopInv, StateOK
<1>5. ASSUME NEW m \in Modes
      PROVE IF results'[m] # <<>>
            THEN /\ Judges(m, results'[m][1]) /\ results'[m][1].live = asts'[m]
                 /\ asts'[m] = (IF results'[m][1].kind = "ok" /\ m # "recovery" THEN 1 ELSE 0)
                 /\ results'[m][1].done => cancelled
            ELSE m # mode' => asts'[m] = 0
  <2>1. CASE m = mode
    <3>1. results'[m] = <<r>> /\ results'[m][1] = r
      BY <1>1, <1>4, <2>1
    <3>2. r.kind = kind /\ r.live = asts'[m] /\ results'[m] # <<>>
      BY <2>1, <3>1
    <3>. QED
      BY <1>1, <2>1, <3>1, <3>2
  <2>2. CASE m # mode
    <3>1. results'[m] = results[m] /\ asts'[m] = asts[m]
      BY <1>4, <2>2
    <3>. QED
      BY <2>2, <3>1 DEF LoopInv, ReturnedOK, Done, Result, Trees
  <2>. QED
    BY <2>1, <2>2
<1>6. ReturnedOK'
  BY <1>1, <1>5, InputKept DEF ReturnedOK, Done, Result, Trees
<1>. QED
  BY <1>2, <1>3, <1>6 DEF LoopInv

(* The step with which an entry point gives up: its AST goes back. *)
LEMMA Fails ==
    ASSUME LoopInv, mode # "idle", mode # "recovery", NEW kind, NEW es, Fail(kind, es), kind # "ok",
           Judges(mode, [kind |-> kind, stmts |-> {}, errs |-> es, strict |-> asked, live |-> 0,
                         done |-> mode = "context" /\ cancelled])
    PROVE  LoopInv'
<1>1. /\ asts' = [asts EXCEPT ![mode] = @ - 1] /\ Return(kind, {}, es)
      /\ mode \in Modes /\ asts[mode] = 1 /\ asts \in [Modes -> Nat]
  BY DEF Fail, ReleaseAST, LoopInv, StateOK, RunningOK
<1>2. /\ asts'[mode] = 0 /\ asts' \in [Modes -> Nat]
      /\ \A m \in Modes : m # mode => asts'[m] = asts[m]
  BY <1>1
<1>. QED
  BY <1>1, <1>2, Returns

LEMMA RunningFacts ==
    ASSUME LoopInv, mode # "idle"
    PROVE  /\ InputOK /\ mode \in Modes /\ (ctx <=> mode = "context")
           /\ (AtEnd <=> pos = Length + 1) /\ (~AtEnd => pos \in Positions /\ KindAt(pos) = tokens[pos])
           /\ pos \in 1..Length + 1 /\ Length \in Nat /\ Positions = 1..Length
           /\ stmts \subseteq Positions /\ errs \subseteq Positions
           /\ (InBody /\ mode = "context" => checked)
           /\ late \in {0, 1} /\ (checked \/ ~cancelled \/ mode # "context" => late = 0)
           /\ checked \in BOOLEAN /\ cancelled \in BOOLEAN /\ asked \in BOOLEAN
<1>1. /\ InputOK /\ mode \in Modes /\ (ctx <=> mode = "context") /\ pos \in 1..Length + 1
      /\ stmts \subseteq Positions /\ errs \subseteq Positions
      /\ late \in {0, 1} /\ (checked \/ ~cancelled \/ mode # "context" => late = 0)
      /\ checked \in BOOLEAN /\ cancelled \in BOOLEAN /\ asked \in BOOLEAN
  BY DEF LoopInv, StateOK
<1>2. /\ Length \in Nat /\ Positions = 1..Length
      /\ \A i \in Positions : KindAt(i) = tokens[i] /\ KindAt(i) # EOF
      /\ \A i : i \notin Positions => KindAt(i) = EOF
  BY <1>1, KindIs
<1>3. (AtEnd <=> pos = Length + 1) /\ (~AtEnd => pos \in Positions /\ KindAt(pos) = tokens[pos])
  BY <1>1, <1>2 DEF AtEnd
<1>4. InBody /\ mode = "context" => checked
  BY DEF InBody, ChecksContext
<1>. QED
  BY <1>1, <1>2, <1>3, <1>4

LEMMA ContextStops ==
    ASSUME LoopInv, mode = "context", cancelled, ContextError
    PROVE  LoopInv'
<1>1. Fail("ctx", {}) /\ mode # "idle" /\ mode # "recovery"
  BY DEF ContextError
<1>2. Judges(mode, [kind |-> "ctx", stmts |-> {}, errs |-> {}, strict |-> asked, live |-> 0,
                    done |-> mode = "context" /\ cancelled])
  BY DEF Judges, Begun
<1>. QED
  BY <1>1, <1>2, Fails

LEMMA CheckContextInv == ASSUME LoopInv, CheckContext PROVE LoopInv'
<1>1. mode # "idle" /\ ~checked /\ ChecksContext
  BY DEF CheckContext
<1>2. mode = "context"
  BY <1>1, RunningFacts DEF ChecksContext
<1>3. CASE cancelled
  BY <1>2, <1>3, ContextStops DEF CheckContext
<1>4. CASE ~cancelled
  <2>1. /\ UNCHANGED <<input, strict, ctx, mode, asts, cancelled, results, asked>>
        /\ pos' = pos /\ stmts' = stmts /\ errs' = errs /\ late' = late /\ checked' = TRUE
    BY <1>4 DEF CheckContext
  <2>2. late = 0 /\ errs = {} /\ Begun(stmts) /\ RunsTo(stmts, pos)
    BY <1>1, <1>2, <1>4, RunningFacts DEF LoopInv, RunningOK
  <2>. QED
    BY <1>1, <1>2, <2>1, <2>2, GoesOn, RunningFacts
<1>. QED
  BY <1>3, <1>4, RunningFacts, <1>1

LEMMA SkipSemicolonInv == ASSUME LoopInv, SkipSemicolon PROVE LoopInv'
<1>1. mode # "idle" /\ ~AtEnd /\ InBody /\ KindAt(pos) = Semi
  BY DEF SkipSemicolon, InBody
<1>2. pos \in Positions /\ tokens[pos] = Semi /\ InputOK /\ late = 0 /\ pos + 1 \in 1..Length + 1 /\ pos \in Nat
  BY <1>1, RunningFacts
<1>3. CASE mode = "parse" /\ strict
  <2>1. Fail("strict", {}) /\ asked
    BY <1>3 DEF SkipSemicolon, LoopInv, StateOK
  <2>2. Judges(mode, [kind |-> "strict", stmts |-> {}, errs |-> {}, strict |-> asked, live |-> 0,
                      done |-> mode = "context" /\ cancelled])
    BY <1>3, <2>1 DEF Judges, Begun
  <2>. QED
    BY <1>1, <1>3, <2>1, <2>2, Fails
<1>4. CASE ~(mode = "parse" /\ strict)
  <2>1. /\ UNCHANGED <<input, strict, ctx, mode, asts, cancelled, results, asked>>
        /\ pos' = pos + 1 /\ checked' = FALSE
        /\ stmts' = stmts /\ errs' = errs /\ late' = late
    BY <1>4 DEF SkipSemicolon
  <2>2. CASE mode = "recovery"
    <3>1. RecoversTo(stmts, errs, pos) /\ PiecesAnswered(stmts, errs, pos)
      BY <1>1, <2>2 DEF LoopInv, RunningOK
    <3>2. PICK S, E, p, q : S = stmts /\ E = errs /\ p = pos /\ q = pos + 1
      OBVIOUS
    <3>3. RunsTo(S, p) => RunsTo(S, q)
      BY <1>2, <3>2, RunSkips
    <3>4. RecoversTo(S, E, q)
      BY <1>1, <1>2, <3>1, <3>2, <3>3, RecoveryGoesOn, RunningFacts
    <3>5. PiecesAnswered(S, E, q)
      BY <1>1, <1>2, <3>1, <3>2, PiecesGoOn
    <3>. QED
      BY <1>1, <1>2, <2>1, <2>2, <3>2, <3>4, <3>5, GoesOn, RunningFacts
  <2>3. CASE mode # "recovery"
    <3>1. errs = {} /\ Begun(stmts) /\ RunsTo(stmts, pos)
      BY <1>1, <1>2, <2>3 DEF LoopInv, RunningOK
    <3>2. RunsTo(stmts, pos + 1)
      BY <1>2, <3>1, RunSkips
    <3>. QED
      BY <1>1, <1>2, <2>1, <2>3, <3>1, <3>2, GoesOn, RunningFacts
  <2>. QED
    BY <2>2, <2>3
<1>. QED
  BY <1>3, <1>4

LEMMA ParseStatementInv == ASSUME LoopInv, ParseStatement PROVE LoopInv'
<1>1. mode # "idle" /\ ~AtEnd /\ InBody /\ KindAt(pos) # Semi /\ outcome[pos].ok
  BY DEF ParseStatement, InBody
<1>2. /\ pos \in Positions /\ tokens[pos] # Semi /\ InputOK /\ Good(pos) /\ pos \in Nat /\ late = 0
      /\ stmts \subseteq Positions /\ errs \subseteq Positions /\ Length \in Nat /\ Positions = 1..Length
  BY <1>1, RunningFacts DEF Good
<1>3. /\ UNCHANGED <<input, strict, ctx, mode, asts, cancelled, results, asked>>
      /\ pos' = Advance(pos) /\ checked' = FALSE /\ stmts' = stmts \cup {pos} /\ errs' = errs
      /\ late' = IF ctx /\ cancelled THEN late + 1 ELSE late
  BY DEF ParseStatement, Parsed, Advance
<1>4. late' = 0 \/ (late' = 1 /\ cancelled /\ ~checked' /\ mode = "context")
  BY <1>1, <1>3, RunningFacts
<1>5. PICK S, E, p, q : S = stmts /\ E = errs /\ p = pos /\ q = Advance(pos)
  OBVIOUS
<1>6. q \in 1..Length + 1 /\ p < q
  BY <1>1, <1>2, <1>5, AdvanceIs
<1>7. RunsTo(S, p) => RunsTo(S \cup {p}, q)
  BY <1>2, <1>5, RunParses
<1>8. CASE mode = "recovery"
  <2>1. RecoversTo(S, E, p) /\ PiecesAnswered(S, E, p)
    BY <1>1, <1>5, <1>8 DEF LoopInv, RunningOK
  <2>2. PICK T : T = S \cup {p}
    OBVIOUS
  <2>3. RecoversTo(T, E, q)
    BY <1>2, <1>5, <1>6, <1>7, <2>1, <2>2, RecoveryGoesOn
  <2>4. \A i \in p + 1..q - 1 : Opens(i) => ReadInto(T, E, i)
    <3>1. \A i \in p + 1..q - 1 : i < outcome[p].end \/ tokens[i] = Semi
      BY <1>2, <1>5, AdvanceIs
    <3>2. \A i \in p + 1..q - 1 : p < i /\ p \in T
      BY <1>2, <1>5, <2>2
    <3>. QED
      BY <3>1, <3>2 DEF Opens, ReadInto
  <2>5. PiecesAnswered(T, E, q)
    BY <1>1, <1>2, <1>5, <1>6, <2>1, <2>2, <2>4, PiecesGoOn
  <2>. QED
    BY <1>1, <1>2, <1>3, <1>4, <1>5, <1>6, <1>8, <2>2, <2>3, <2>5, GoesOn
<1>9. CASE mode # "recovery"
  <2>1. E = {} /\ RunsTo(S, p) /\ Begun(S)
    BY <1>1, <1>2, <1>5, <1>9 DEF LoopInv, RunningOK
  <2>2. Begun(S \cup {p})
    BY <1>2, <1>5, <2>1, BegunGrows
  <2>. QED
    BY <1>1, <1>2, <1>3, <1>4, <1>5, <1>6, <1>7, <1>9, <2>1, <2>2, GoesOn
<1>. QED
  BY <1>8, <1>9

(* The statement that was under way when the context was done comes to an end. *)
LEMMA StraysInv ==
    ASSUME LoopInv, InBody, mode = "context", cancelled, KindAt(pos) # Semi, checked' = FALSE,
           NEW end \in pos + 1..Length + 1, Parsed(end)
    PROVE  LoopInv'
<1>1. mode # "idle" /\ ~AtEnd
  BY DEF InBody
<1>2. /\ pos \in Positions /\ tokens[pos] # Semi /\ InputOK /\ late = 0 /\ ctx
      /\ stmts \subseteq Positions /\ errs \subseteq Positions /\ Length \in Nat /\ Positions = 1..Length
  BY <1>1, RunningFacts
<1>3. /\ UNCHANGED <<input, strict, ctx, mode, asts, cancelled, results, asked>>
      /\ pos' = (IF KindAt(end) = Semi THEN end + 1 ELSE end) /\ checked' = FALSE
      /\ stmts' = stmts \cup {pos} /\ errs' = errs /\ late' = 1
  BY <1>2 DEF Parsed
<1>4. pos' \in 1..Length + 1
  BY <1>2, <1>3, KindIs
<1>5. errs = {} /\ RunsTo(stmts, pos) /\ Begun(stmts)
  BY <1>1, <1>2 DEF LoopInv, RunningOK
<1>6. Begun(stmts')
  BY <1>2, <1>3, <1>5, BegunGrows
<1>7. stmts' \subseteq Positions /\ errs' \subseteq Positions /\ errs' = {} /\ mode # "recovery"
  BY <1>2, <1>3, <1>5
<1>8. late' = 0 => RunsTo(stmts', pos')
  BY <1>3
<1>. QED
  BY <1>1, <1>3, <1>4, <1>6, <1>7, <1>8, GoesOn

(* Its error comes out as an error of the grammar, or the grammar has one. *)
LEMMA SyntaxErrorInv ==
    ASSUME LoopInv, InBody, mode # "recovery", KindAt(pos) # Semi, Fail("syntax", {pos}),
           Bad(pos) \/ (mode = "context" /\ cancelled)
    PROVE  LoopInv'
<1>1. mode # "idle" /\ ~AtEnd
  BY DEF InBody
<1>2. /\ pos \in Positions /\ tokens[pos] # Semi /\ InputOK /\ late = 0 /\ mode \in Modes
      /\ stmts \subseteq Positions
  BY <1>1, RunningFacts
<1>3. RunsTo(stmts, pos)
  BY <1>1, <1>2 DEF LoopInv, RunningOK
<1>4. Begun({pos})
  <2>1. Begun({})
    BY DEF Begun
  <2>2. Begun({} \cup {pos})
    BY <1>2, <1>3, <2>1, BegunGrows
  <2>. QED
    BY <2>2
<1>5. PICK p : p = pos
  OBVIOUS
<1>6. PICK r : r = [kind |-> "syntax", stmts |-> {}, errs |-> {pos}, strict |-> asked, live |-> 0,
                    done |-> mode = "context" /\ cancelled]
  OBVIOUS
<1>7. Judges(mode, r)
  <2>1. {} \cup {p} = {p} /\ p \in Positions /\ (Bad(p) \/ r.done) /\ Begun({p})
    BY <1>2, <1>4, <1>5, <1>6
  <2>2. \E S \in SUBSET Positions : RunsTo(S, p)
    BY <1>2, <1>3, <1>5
  <2>3. r.kind = "syntax" /\ r.stmts = {} /\ r.errs = {p} /\ (mode = "parse" => ~r.done)
    BY <1>5, <1>6
  <2>. QED
    BY <1>2, <2>1, <2>2, <2>3 DEF Judges
<1>. QED
  BY <1>1, <1>6, <1>7, Fails

LEMMA FailStatementInv == ASSUME LoopInv, FailStatement PROVE LoopInv'
<1>1. mode # "idle" /\ ~AtEnd /\ InBody /\ KindAt(pos) # Semi /\ ~outcome[pos].ok
  BY DEF FailStatement, InBody
<1>2. /\ pos \in Positions /\ tokens[pos] # Semi /\ InputOK /\ Bad(pos) /\ pos \in Nat /\ Length \in Nat
      /\ Positions = 1..Length /\ stmts \subseteq Positions /\ errs \subseteq Positions
  BY <1>1, RunningFacts DEF Bad
<1>3. CASE mode = "recovery"
  <2>1. /\ UNCHANGED <<input, strict, ctx, mode, asts, cancelled, results, asked>>
        /\ pos' = SyncFrom(AfterFailure) /\ checked' = checked /\ stmts' = stmts /\ errs' = errs \cup {pos}
        /\ late' = late
    BY <1>3 DEF FailStatement
  <2>2. /\ AfterFailure \in pos + 1..Length + 1
        /\ AfterFailure = outcome[pos].end \/ AfterFailure = pos + 1
    <3>1. outcome[pos].end \in pos..Length + 1
      BY <1>2, OutcomeIs
    <3>. QED
      BY <1>2, <3>1 DEF AfterFailure
  <2>3. PICK a : a = AfterFailure
    OBVIOUS
  <2>4. PICK S, E, p, q : S = stmts /\ E = errs /\ p = pos /\ q = SyncFrom(a)
    OBVIOUS
  <2>5. /\ q \in a..Length + 1 /\ \A i \in a + 1..q - 1 : tokens[i - 1] # Semi
        /\ a \in Positions /\ tokens[a] \in Starters => q = a
    BY <1>2, <2>2, <2>3, <2>4, SyncIs
  <2>6. p < q /\ q \in 1..Length + 1
    BY <1>2, <2>2, <2>3, <2>4, <2>5
  <2>7. RecoversTo(S, E, p) /\ PiecesAnswered(S, E, p)
    BY <1>1, <1>3, <2>4 DEF LoopInv, RunningOK
  <2>8. PICK F : F = E \cup {p}
    OBVIOUS
  <2>9. RecoversTo(S, F, q)
    BY <1>2, <2>4, <2>6, <2>7, <2>8, RecoveryNotes
  <2>10. PiecesAnswered(S, F, q)
    <3>1. ASSUME NEW i \in p + 1..q - 1, Opens(i) PROVE ReadInto(S, F, i)
      <4>1. i \in Positions /\ i \in Nat /\ p < i /\ i < q /\ p \in F /\ tokens[p] # Semi /\ a \in Nat
        BY <1>2, <2>2, <2>3, <2>4, <2>6, <2>8, <3>1
      <4>2. tokens[i - 1] = Semi
        BY <1>2, <2>4, <3>1, <4>1 DEF Opens
      <4>3. i <= a
        BY <2>5, <4>1, <4>2
      <4>4. CASE a = outcome[p].end
        <5>1. i = a => tokens[i] \notin Starters
          BY <2>5, <4>1
        <5>. QED
          BY <4>1, <4>3, <4>4, <5>1 DEF ReadInto
      <4>5. CASE a = p + 1
        <5>1. i - 1 = p
          BY <1>2, <2>4, <4>1, <4>3, <4>5
        <5>. QED
          BY <4>1, <4>2, <5>1
      <4>. QED
        BY <2>2, <2>3, <2>4, <4>4, <4>5
    <3>. QED
      BY <1>1, <1>2, <2>4, <2>6, <2>7, <2>8, <3>1, PiecesGoOn
  <2>11. late = 0 /\ checked \in BOOLEAN
    BY <1>1, <1>3, RunningFacts
  <2>. QED
    BY <1>1, <1>2, <1>3, <2>1, <2>3, <2>4, <2>6, <2>8, <2>9, <2>10, <2>11, GoesOn
<1>4. CASE mode # "recovery"
  <2>1. Fail("syntax", {pos})
    BY <1>4 DEF FailStatement
  <2>. QED
    BY <1>1, <1>2, <1>4, <2>1, SyntaxErrorInv
<1>. QED
  BY <1>3, <1>4

LEMMA FinishInv == ASSUME LoopInv, Finish PROVE LoopInv'
<1>1. mode # "idle" /\ AtEnd
  BY DEF Finish
<1>2. pos = Length + 1 /\ mode \in Modes /\ InputOK
  BY <1>1, RunningFacts
<1>3. CASE mode = "recovery"
  <2>1. UNCHANGED asts /\ Return("ok", stmts, errs)
    BY <1>3 DEF Finish
  <2>2. PICK S, E : S = stmts /\ E = errs
    OBVIOUS
  <2>3. RecoversTo(S, E, Length + 1) /\ PiecesAnswered(S, E, Length + 1)
    BY <1>1, <1>2, <1>3, <2>2 DEF LoopInv, RunningOK
  <2>4. PICK r : r = [kind |-> "ok", stmts |-> S, errs |-> E, strict |-> asked, live |-> asts'[mode],
                      done |-> mode = "context" /\ cancelled]
    OBVIOUS
  <2>5. Judges(mode, r)
    BY <1>1, <1>3, <2>2, <2>3, <2>4, RunningFacts DEF Judges
  <2>6. asts[mode] = 0 /\ asts \in [Modes -> Nat]
    BY <1>1, <1>3 DEF LoopInv, RunningOK, StateOK
  <2>. QED
    BY <1>1, <1>2, <1>3, <2>1, <2>2, <2>4, <2>5, <2>6, Returns
<1>4. CASE mode # "recovery"
  <2>1. errs = {} /\ Begun(stmts) /\ (~(mode = "context" /\ cancelled) => RunsTo(stmts, Length + 1))
    BY <1>1, <1>2, <1>4, RunningFacts DEF LoopInv, RunningOK
  <2>2. CASE stmts = {}
    <3>1. PICK kind : kind = IF mode = "parse" /\ strict THEN "strict" ELSE "empty"
      OBVIOUS
    <3>2. Fail(kind, {}) /\ kind # "ok"
      BY <1>4, <2>2, <3>1 DEF Finish
    <3>3. Judges(mode, [kind |-> kind, stmts |-> {}, errs |-> {}, strict |-> asked, live |-> 0,
                        done |-> mode = "context" /\ cancelled])
      BY <1>2, <1>4, <2>1, <2>2, <3>1 DEF Judges, LoopInv, StateOK
    <3>. QED
      BY <1>1, <1>4, <3>2, <3>3, Fails
  <2>3. CASE stmts # {}
    <3>1. UNCHANGED asts /\ Return("ok", stmts, errs)
      BY <2>3 DEF Finish
    <3>2. PICK r : r = [kind |-> "ok", stmts |-> stmts, errs |-> errs, strict |-> asked, live |-> asts'[mode],
                        done |-> mode = "context" /\ cancelled]
      OBVIOUS
    <3>3. Judges(mode, r)
      BY <1>1, <1>4, <2>1, <2>3, <3>2, RunningFacts DEF Judges
    <3>4. asts[mode] = 1 /\ asts \in [Modes -> Nat]
      BY <1>1, <1>4 DEF LoopInv, RunningOK, StateOK
    <3>. QED
      BY <1>1, <1>2, <1>4, <3>1, <3>2, <3>3, <3>4, Returns
  <2>. QED
    BY <2>2, <2>3
<1>. QED
  BY <1>3, <1>4

LEMMA StepInv == ASSUME LoopInv, Step PROVE LoopInv'
<1>1. ASSUME StopOnContext PROVE LoopInv'
  <2>1. /\ mode # "idle" /\ ctx /\ cancelled /\ InBody /\ KindAt(pos) \in Dispatched
        /\ \/ ContextError
           \/ Fail("syntax", {pos})
           \/ checked' = FALSE /\ \E end \in pos + 1..Length + 1 : Parsed(end)
    BY <1>1 DEF StopOnContext, InBody
  <2>2. mode = "context" /\ KindAt(pos) # Semi
    BY <2>1, RunningFacts DEF Dispatched, Semi
  <2>. QED
    BY <2>1, <2>2, ContextStops, SyntaxErrorInv, StraysInv
<1>. QED
  BY <1>1, CheckContextInv, SkipSemicolonInv, ParseStatementInv, FailStatementInv, FinishInv DEF Step

-----------------------------------------------------------------------------
(* Calls, and what happens between them *)

LEMMA CallInv == ASSUME LoopInv, NEW m \in Modes, Call(m) PROVE LoopInv'
<1>1. /\ mode = "idle" /\ results[m] = <<>> /\ UNCHANGED input /\ m # "idle"
      /\ stmts' = {} /\ errs' = {} /\ checked' = FALSE /\ late' = 0
      /\ UNCHANGED <<strict, cancelled, asked>>
  BY DEF Call, Modes
<1>2. /\ InputOK /\ StateOK /\ ReturnedOK /\ asts[m] = 0
  BY <1>1 DEF LoopInv, ReturnedOK, Done
<1>3. CASE m = "context" /\ cancelled
  <2>1. PICK r : r = [kind |-> "ctx", stmts |-> {}, errs |-> {}, strict |-> asked, live |-> asts[m],
                      done |-> TRUE]
    OBVIOUS
  <2>2. results' = [results EXCEPT ![m] = <<r>>] /\ UNCHANGED <<pos, ctx, mode, asts>>
    BY <1>3, <2>1 DEF Call
  <2>3. Judges(m, r) /\ Trees(m, r)
    BY <1>2, <1>3, <2>1 DEF Judges, Trees, Begun
  <2>4. InputOK' /\ StateOK' /\ RunningOK'
    BY <1>1, <1>2, <2>2, InputKept DEF StateOK, RunningOK
  <2>5. ASSUME NEW n \in Modes
        PROVE  IF results'[n] # <<>>
               THEN /\ Judges(n, results'[n][1]) /\ Trees(n, results'[n][1])
                    /\ results'[n][1].done => cancelled
               ELSE asts[n] = 0
    <3>1. CASE n = m
      <4>1. results'[n] = <<r>> /\ results'[n][1] = r
        BY <1>2, <2>2, <3>1 DEF StateOK
      <4>. QED
        BY <1>3, <2>3, <3>1, <4>1
    <3>2. CASE n # m
      <4>1. results'[n] = results[n] /\ n # mode
        BY <1>1, <1>2, <2>2, <3>2 DEF StateOK, Modes
      <4>. QED
        BY <1>2, <4>1 DEF ReturnedOK, Done, Result
    <3>. QED
      BY <3>1, <3>2
  <2>6. ReturnedOK'
    BY <1>1, <2>2, <2>5, InputKept DEF ReturnedOK, Done, Result, Trees
  <2>. QED
    BY <2>4, <2>6 DEF LoopInv
<1>4. CASE ~(m = "context" /\ cancelled)
  <2>1. /\ mode' = m /\ pos' = 1 /\ ctx' = (ctx \/ m = "context") /\ results' = results
        /\ asts' = [asts EXCEPT ![m] = IF m = "recovery" THEN @ ELSE @ + 1]
    BY <1>4 DEF Call
  <2>2. /\ asts'[m] = (IF m = "recovery" THEN 0 ELSE 1) /\ asts' \in [Modes -> Nat]
        /\ \A n \in Modes : n # m => asts'[n] = asts[n]
    BY <1>2, <2>1 DEF StateOK
  <2>3. ctx' \in BOOLEAN /\ (ctx' <=> m = "context") /\ 1 \in 1..Length + 1
    <3>1. ctx = FALSE /\ 1 \in 1..Length + 1
      BY <1>1, <1>2, KindIs DEF StateOK
    <3>2. ctx' = (FALSE \/ m = "context")
      BY <2>1, <3>1
    <3>. QED
      BY <3>1, <3>2
  <2>4. InputOK' /\ StateOK'
    <3>1. InputOK' /\ Length' = Length
      BY <1>1, <1>2, InputKept
    <3>. QED
      BY <1>1, <1>2, <2>1, <2>2, <2>3, <3>1 DEF StateOK
  <2>5. RunsTo({}, 1) /\ Begun({}) /\ RecoversTo({}, {}, 1) /\ PiecesAnswered({}, {}, 1)
    <3>1. RunsTo({}, 1)
      BY <1>2, RunStarts
    <3>2. PiecesAnswered({}, {}, 1)
      BY <1>2, KindIs DEF PiecesAnswered
    <3>. QED
      BY <3>1, <3>2 DEF RecoversTo, Begun
  <2>6. RunningOK'
    BY <1>1, <2>1, <2>2, <2>5, InputKept DEF RunningOK
  <2>7. ASSUME NEW n \in Modes
        PROVE  IF results[n] # <<>>
               THEN Judges(n, results[n][1])' /\ Trees(n, results[n][1])' /\ (results[n][1].done => cancelled')
               ELSE n # m => asts'[n] = 0
    <3>1. CASE n = m
      BY <1>1, <3>1
    <3>2. CASE n # m
      <4>1. asts'[n] = asts[n] /\ n # mode
        BY <1>1, <2>2, <3>2 DEF Modes
      <4>2. CASE results[n] # <<>>
        <5>1. PICK r : r = results[n][1]
          OBVIOUS
        <5>2. Judges(n, r) /\ Trees(n, r) /\ (r.done => cancelled')
          BY <1>1, <1>2, <4>2, <5>1 DEF ReturnedOK, Done, Result
        <5>3. Judges(n, r)' /\ Trees(n, r)'
          BY <1>1, <4>1, <5>2, InputKept DEF Trees
        <5>. QED
          BY <2>1, <4>2, <5>1, <5>2, <5>3
      <4>3. CASE results[n] = <<>>
        BY <1>2, <4>1, <4>3 DEF ReturnedOK, Done
      <4>. QED
        BY <4>2, <4>3
    <3>. QED
      BY <3>1, <3>2
  <2>8. ReturnedOK'
    BY <2>1, <2>7 DEF ReturnedOK, Done, Result
  <2>. QED
    BY <2>4, <2>6, <2>8 DEF LoopInv
<1>. QED
  BY <1>3, <1>4

(* Steps of the caller: no loop moves, and a parser that is configured or reset
   is at rest. *)
LEMMA CallerInv ==
    ASSUME LoopInv, UNCHANGED <<input, mode, checked, stmts, errs, asts, results, late>>,
           strict' \in BOOLEAN, asked' \in BOOLEAN, strict' => asked', cancelled' \in BOOLEAN,
           ctx' = ctx,
           (mode = "idle" /\ pos' = 1) \/ pos' = pos,
           (cancelled => cancelled') \/ (mode = "idle" /\ \A m \in Modes : ~Done(m))
    PROVE  LoopInv'
<1>1. UNCHANGED input /\ InputOK /\ Length \in Nat
  BY KindIs DEF LoopInv
<1>2. InputOK' /\ StateOK'
  BY <1>1, InputKept DEF LoopInv, StateOK
<1>3. RunningOK'
  BY <1>1, InputKept DEF LoopInv, RunningOK
<1>4. ReturnedOK'
  BY <1>1, InputKept DEF LoopInv, ReturnedOK, Done, Result, Trees
<1>. QED
  BY <1>2, <1>3, <1>4 DEF LoopInv

LEMMA InitLoop == Init => LoopInv
<1>1. SUFFICES ASSUME Init PROVE LoopInv
  OBVIOUS
<1>2. tokens \in Seq(Kinds)
  <2>1. PICK n \in 0..MaxTokens : tokens \in [1..n -> Kinds]
    BY <1>1 DEF Init, TokenStreams
  <2>. QED
    BY <2>1, BoundsAssumption
<1>3. InputOK
  BY <1>1, <1>2 DEF Init, InputOK
<1>4. StateOK
  <2>1. 1 \in 1..Length + 1
    BY <1>3, KindIs, BoundsAssumption
  <2>2. asts \in [Modes -> Nat] /\ DOMAIN results = Modes
    BY <1>1 DEF Init
  <2>. QED
    BY <1>1, <2>1, <2>2 DEF Init, StateOK
<1>5. RunningOK /\ ReturnedOK
  BY <1>1 DEF Init, RunningOK, ReturnedOK, Done, Modes
<1>. QED
  BY <1>3, <1>4, <1>5 DEF LoopInv

LEMMA NextLoop == LoopInv /\ [Next]_vars => LoopInv'
<1>1. SUFFICES ASSUME LoopInv, [Next]_vars PROVE LoopInv'
  OBVIOUS
<1>2. /\ strict \in BOOLEAN /\ asked \in BOOLEAN /\ cancelled \in BOOLEAN
      /\ strict => asked
      /\ (mode = "idle" => ctx = FALSE)
      /\ mode = "idle" \/ mode \in Modes
  BY <1>1, BoundsAssumption DEF LoopInv, StateOK
<1>3. CASE Cancel
  BY <1>1, <1>2, <1>3, CallerInv DEF Cancel
<1>4. CASE ApplyStrict
  BY <1>1, <1>2, <1>4, CallerInv DEF ApplyStrict
<1>5. CASE Recycle
  <2>1. /\ mode = "idle" /\ ctx' = ctx /\ pos' = 1
        /\ strict' = FALSE /\ asked' = FALSE /\ cancelled' = cancelled
        /\ UNCHANGED <<input, mode, checked, stmts, errs, asts, results, late>>
    <3>1. mode = "idle" /\ ctx' = FALSE /\ ctx = FALSE
      BY <1>2, <1>5 DEF Recycle
    <3>. QED
      BY <1>5, <3>1 DEF Recycle
  <2>. QED
    BY <1>1, <1>2, <2>1, CallerInv
<1>6. CASE UNCHANGED vars
  <2>1. /\ UNCHANGED <<input, mode, checked, stmts, errs, asts, results, late>>
        /\ UNCHANGED <<strict, asked, cancelled, ctx, pos>>
    BY <1>6 DEF vars, input
  <2>. QED
    BY <1>1, <1>2, <2>1, CallerInv
<1>. QED
  BY <1>1, <1>3, <1>4, <1>5, <1>6, CallInv, StepInv DEF Next

LEMMA LoopInvariance == Spec => []LoopInv
BY InitLoop, NextLoop, PTL DEF Spec

-----------------------------------------------------------------------------
(* What follows *)

LEMMA LoopTypes == LoopInv => TypeOK
BY KindIs DEF LoopInv, InputOK, StateOK, TypeOK, Outcomes, Positions, Length

LEMMA LoopAnswersPieces == LoopInv => EveryPieceAnswered
<1>1. SUFFICES ASSUME LoopInv, Done("recovery") PROVE EveryPieceAnswered
  BY DEF EveryPieceAnswered
<1>2. PiecesAnswered(Result("recovery").stmts, Result("recovery").errs, Length + 1)
  BY <1>1 DEF LoopInv, ReturnedOK, Judges, Modes
<1>3. \A i \in Positions : i < Length + 1
  BY <1>1, KindIs DEF LoopInv
<1>. QED
  BY <1>1, <1>2, <1>3 DEF PiecesAnswered, EveryPieceAnswered

LEMMA LoopStopsOnCancel == LoopInv => CancelStopsTheLoop
BY DEF LoopInv, StateOK, CancelStopsTheLoop

LEMMA LoopLeavesNothing == LoopInv => CallLeavesNothingBehind
BY DEF LoopInv, ReturnedOK, Judges, Trees, CallLeavesNothingBehind, ErrorHoldsNoAST, SettingsStayWithTheirCall

(* What the one run of the stream, which begins the statements S and ends at p,
   makes of the answer r of an entry point m. *)
Reports(m, r, S, p) ==
    /\ p \in 1..Length + 1 /\ RunsTo(S, p) /\ Ends(p)
    /\ IF m = "recovery"
       THEN /\ p = Length + 1 => r.stmts = S /\ r.errs = {}
            /\ p # Length + 1 => p \in r.errs /\ r.errs \in SUBSET Nat /\ \A x \in r.errs : p <= x
       ELSE /\ p = Length + 1 => r.stmts = S /\ r.errs = {} /\ r.kind = IF S = {} THEN "empty" ELSE "ok"
            /\ p # Length + 1 => r.stmts = {} /\ r.errs = {p} /\ r.kind = "syntax"

LEMMA AnswersReport ==
    ASSUME InputOK, NEW m \in Modes, NEW r, Judges(m, r), r.kind # "strict", m # "recovery" => ~r.done
    PROVE  \E S, p : Reports(m, r, S, p)
<1>1. Length \in Nat /\ Positions = 1..Length /\ Ends(Length + 1) /\ r.errs \in SUBSET Nat
  BY KindIs DEF Ends, Judges
<1>2. CASE m = "recovery"
  <2>1. CASE r.errs = {} /\ RunsTo(r.stmts, Length + 1)
    <3>1. Reports(m, r, r.stmts, Length + 1)
      BY <1>1, <1>2, <2>1 DEF Reports
    <3>. QED
      BY <3>1
  <2>2. CASE \E e \in r.errs : /\ Bad(e) /\ e < Length + 1 /\ \A x \in r.errs : e <= x
                               /\ RunsTo({s \in r.stmts : s < e}, e)
    <3>1. PICK e \in r.errs : /\ Bad(e) /\ e < Length + 1 /\ \A x \in r.errs : e <= x
                              /\ RunsTo({s \in r.stmts : s < e}, e)
      BY <2>2
    <3>2. PICK S : S = {s \in r.stmts : s < e}
      OBVIOUS
    <3>3. e \in 1..Length + 1 /\ Ends(e) /\ e # Length + 1
      BY <1>1, <3>1 DEF Ends, Bad
    <3>4. Reports(m, r, S, e)
      BY <1>1, <1>2, <3>1, <3>2, <3>3 DEF Reports
    <3>. QED
      BY <3>4
  <2>. QED
    BY <1>2, <2>1, <2>2 DEF Judges, RecoversTo
<1>3. CASE m # "recovery"
  <2>1. CASE r.kind = "ok"
    <3>1. Reports(m, r, r.stmts, Length + 1)
      BY <1>1, <1>3, <2>1 DEF Reports, Judges
    <3>. QED
      BY <3>1
  <2>2. CASE r.kind = "empty"
    <3>1. Reports(m, r, {}, Length + 1)
      BY <1>1, <1>3, <2>2 DEF Reports, Judges
    <3>. QED
      BY <3>1
  <2>3. CASE r.kind = "syntax"
    <3>1. PICK e \in Positions : /\ r.errs = {e} /\ r.stmts = {} /\ Bad(e)
                                 /\ \E S \in SUBSET Positions : RunsTo(S, e)
      BY <1>3, <2>3 DEF Judges
    <3>2. PICK S \in SUBSET Positions : RunsTo(S, e)
      BY <3>1
    <3>3. Reports(m, r, S, e)
      BY <1>1, <1>3, <2>3, <3>1, <3>2 DEF Reports, Ends
    <3>. QED
      BY <3>3
  <2>. QED
    BY <1>3, <2>1, <2>2, <2>3 DEF Judges
<1>. QED
  BY <1>2, <1>3

LEMMA LoopModesAgree == LoopInv => ModesAgree
<1>1. SUFFICES ASSUME LoopInv PROVE ModesAgree
  OBVIOUS
<1>2. InputOK /\ Length \in Nat /\ Positions = 1..Length
  BY <1>1, KindIs DEF LoopInv
<1>3. ASSUME NEW m \in Modes, Done(m), Result(m).kind # "strict", m # "recovery" => ~Result(m).done
      PROVE  \E S, p : Reports(m, Result(m), S, p)
  BY <1>1, <1>2, <1>3, AnswersReport DEF LoopInv, ReturnedOK
<1>4. ASSUME NEW m, NEW r, NEW S, NEW p, Reports(m, r, S, p),
             NEW n, NEW t, NEW T, NEW q, Reports(n, t, T, q)
      PROVE  S = T /\ p = q
  BY <1>2, <1>4, RunsAgree DEF Reports
<1>5. ASSUME Done("parse"), Done("recovery"), NEW a, a = Result("parse"), NEW r, r = Result("recovery")
      PROVE  /\ a.kind = "ok" => r.errs = {} /\ r.stmts = a.stmts
             /\ a.kind = "syntax" => r.errs # {} /\ a.errs = {Min(r.errs)}
             /\ a.kind = "empty" => r.stmts = {} /\ r.errs = {}
  <2>1. r.kind = "ok" /\ ~a.done
    BY <1>1, <1>5 DEF LoopInv, ReturnedOK, Judges, Modes
  <2>2. SUFFICES ASSUME a.kind # "strict"
                 PROVE  /\ a.kind = "ok" => r.errs = {} /\ r.stmts = a.stmts
                        /\ a.kind = "syntax" => r.errs # {} /\ a.errs = {Min(r.errs)}
                        /\ a.kind = "empty" => r.stmts = {} /\ r.errs = {}
    OBVIOUS
  <2>3. PICK S, p : Reports("parse", a, S, p)
    BY <1>3, <1>5, <2>1, <2>2 DEF Modes
  <2>4. PICK T, q : Reports("recovery", r, T, q)
    BY <1>3, <1>5, <2>1 DEF Modes
  <2>5. S = T /\ p = q
    BY <1>4, <2>3, <2>4
  <2>6. CASE p = Length + 1
    BY <2>3, <2>4, <2>5, <2>6 DEF Reports
  <2>7. CASE p # Length + 1
    <3>1. p \in r.errs /\ r.errs \in SUBSET Nat /\ (\A x \in r.errs : p <= x) /\ a.errs = {p} /\ a.kind = "syntax"
      BY <2>3, <2>4, <2>5, <2>7 DEF Reports
    <3>2. Min(r.errs) = p
      BY <3>1, MinIs
    <3>. QED
      BY <3>1, <3>2
  <2>. QED
    BY <2>6, <2>7
<1>6. ASSUME Done("parse"), Done("context"), NEW a, a = Result("parse"), NEW c, c = Result("context"),
             ~c.done, a.kind # "strict"
      PROVE  c.kind = a.kind /\ c.stmts = a.stmts /\ c.errs = a.errs
  <2>1. c.kind # "strict" /\ ~a.done
    BY <1>1, <1>6 DEF LoopInv, ReturnedOK, Judges, Modes
  <2>2. PICK S, p : Reports("parse", a, S, p)
    BY <1>3, <1>6, <2>1 DEF Modes
  <2>3. PICK T, q : Reports("context", c, T, q)
    BY <1>3, <1>6, <2>1 DEF Modes
  <2>4. S = T /\ p = q
    BY <1>4, <2>2, <2>3
  <2>. QED
    BY <2>2, <2>3, <2>4 DEF Reports
<1>7. ASSUME Done("parse"), Done("context"), NEW a, a = Result("parse"), NEW c, c = Result("context"),
             a.kind = "ok", NEW i \in c.stmts \cup c.errs
      PROVE  i \in a.stmts
  <2>1. /\ Judges("parse", a) /\ Judges("context", c)
    BY <1>1, <1>7 DEF LoopInv, ReturnedOK, Modes
  <2>2. RunsTo(a.stmts, Length + 1) /\ i \in Positions /\ Begun(c.stmts \cup c.errs)
    BY <1>7, <2>1 DEF Judges
  <2>3. Begun({i})
    BY <1>7, <2>2 DEF Begun
  <2>. QED
    BY <1>2, <2>2, <2>3, WholeRunBegins
<1>. QED
  BY <1>5, <1>6, <1>7 DEF ModesAgree

-----------------------------------------------------------------------------

(* The types of the parser's state and of what the calls return. *)
THEOREM TypeCorrect == Spec => []TypeOK
BY LoopInvariance, LoopTypes, PTL

(* parseTokens, parseContextTokens and parseWithRecovery read a stream alike,
   however long it is, whatever its statements come to and in whatever order
   the entry points are called: the first error of recovery is the one the
   others stop at, and where there is none all find the same statements.  Of
   parseContextTokens this is said while its context is not done; when it is,
   whatever becomes of the error, it speaks of statements of the stream only. *)
THEOREM ModesAlwaysAgree == Spec => []ModesAgree
BY LoopInvariance, LoopModesAgree, PTL

(* parseWithRecovery: no error swallows a neighbour; every piece between
   semicolons is parsed or reported, but for those that the parser of an earlier
   statement has read into. *)
THEOREM EveryPieceAlwaysAnswered == Spec => []EveryPieceAnswered
BY LoopInvariance, LoopAnswersPieces, PTL

(* ParseContext: once its context is done, at most the statement that is under
   way is completed. *)
THEOREM CancelAlwaysStopsTheLoop == Spec => []CancelStopsTheLoop
BY LoopInvariance, LoopStopsOnCancel, PTL

(* The error paths release the AST they hold, once, and a parser from the pool
   brings neither strictness nor a context from its last borrower. *)
THEOREM CallsLeaveNothingBehind == Spec => []CallLeavesNothingBehind
BY LoopInvariance, LoopLeavesNothing, PTL
=============================================================================
