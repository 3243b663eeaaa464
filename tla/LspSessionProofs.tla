-------------------------- MODULE LspSessionProofs --------------------------
(***************************************************************************)
(* One session of the language server, for any number of messages and any  *)
(* limit and window: requests are answered in order and at most once, and  *)
(* no stretch of a window's length lets more than twice the limit pass.    *)
(***************************************************************************)
EXTENDS LspSession, TLAPS, SequenceTheorems, FiniteSetTheorems

Values == {"ok", "short", "long", "invalid", "negative", "oversize", "missing"}
Sizes == Values \ {"invalid"}
Items(n) == [item : {"length", "blank", "body", "rest"}, value : Values, message : 0..n]

(* What a client that has sent n messages leaves in the stream: the bodies in the
   order they were sent, and one behind every blank line that is not the last. *)
StreamOK(s, n) ==
    /\ s \in Seq(Items(n))
    /\ \A i \in 1..Len(s) : s[i].item = "body" => s[i].message > 0
    /\ \A i \in 1..Len(s) - 1 : s[i].item = "blank" => s[i + 1].item = "body"
    /\ \A i, j \in 1..Len(s) : i < j /\ s[i].item = "body" /\ s[j].item = "body" => s[i].message < s[j].message

(* The messages whose bodies are in the stream come after the k-th. *)
Above(s, k) == \A i \in 1..Len(s) : s[i].item = "body" => k < s[i].message

Whole(s) == s = <<>> \/ s[Len(s)].item \in Unended

ReadingOK ==
    /\ messages \in Seq([kind : Kinds, length : Lengths]) /\ Len(messages) <= MaxMessages
    /\ StreamOK(stream, Len(messages))
    /\ input \in {"open", "eof", "broken"} /\ (input = "open" => Whole(stream))
    /\ pc \in {"reading", "handling", "returned", "panicked"}
    /\ contentLength \in Sizes
    /\ message \in 0..Len(messages) /\ (pc = "handling" <=> message # None) /\ Above(stream, message)
    /\ shutdown \in BOOLEAN

(* A message is counted when it is handled. *)
CountOK ==
    /\ requestCount \in 0..Len(messages) /\ Above(stream, requestCount)
    /\ message # None => requestCount < message

(* What is answered is behind us. *)
AnsweredOK(a) ==
    /\ a \in [message : 1..Len(messages), code : Codes] /\ HasId(messages[a.message].kind)
    /\ Above(stream, a.message) /\ (message # None => a.message < message)

OrderOK ==
    /\ answers \in Seq([message : Nat, code : Codes])
    /\ \A i \in 1..Len(answers) : AnsweredOK(answers[i])
    /\ \A i, j \in 1..Len(answers) : i < j => answers[i].message < answers[j].message

(* The messages let pass in the window that began at lastReset: the last ones. *)
InWindow == IF requestCount <= RateLimitRequests THEN requestCount ELSE RateLimitRequests
Before == Len(allowed) - InWindow

LimitOK ==
    /\ now \in 0..MaxTime /\ lastReset \in 0..now /\ requestCount \in Nat
    /\ allowed \in Seq(Nat) /\ Before \in Nat
    /\ \A i \in 1..Len(allowed) : allowed[i] <= now /\ allowed[i] < lastReset + RateLimitWindow
    /\ \A i, j \in 1..Len(allowed) : i <= j => allowed[i] <= allowed[j]
    /\ \A i \in 1..Before : allowed[i] < lastReset
    /\ \A i \in 1..Before - RateLimitRequests : allowed[i] + RateLimitWindow < lastReset

(* Twice the limit further on, a window has passed. *)
SpacingOK ==
    \A i \in 1..Len(allowed) - 2 * RateLimitRequests :
        allowed[i] + RateLimitWindow <= allowed[i + 2 * RateLimitRequests]

SessionInv == ReadingOK /\ CountOK /\ OrderOK /\ LimitOK /\ SpacingOK

-----------------------------------------------------------------------------
(* The rate limit *)

LEMMA LimitKept ==
    ASSUME LimitOK, SpacingOK, UNCHANGED limitVars, now' \in now..MaxTime
    PROVE  LimitOK' /\ SpacingOK'
<1>1. requestCount' = requestCount /\ lastReset' = lastReset /\ allowed' = allowed
  BY DEF limitVars
<1>2. InWindow' = InWindow /\ Before' = Before
  BY <1>1 DEF InWindow, Before
<1>3. SpacingOK'
  BY <1>1 DEF SpacingOK
<1>4. LimitOK'
  <2>1. \A i \in 1..Len(allowed) : allowed[i] \in Nat
    BY DEF LimitOK
  <2>. QED
    BY <1>1, <1>2, <2>1, BoundsAssumption DEF LimitOK
<1>. QED
  BY <1>3, <1>4

LEMMA LimitFacts ==
    ASSUME LimitOK
    PROVE  /\ RateLimitRequests \in Nat \ {0} /\ RateLimitWindow \in Nat \ {0}
           /\ now \in Nat /\ lastReset \in Nat /\ lastReset <= now /\ requestCount \in Nat
           /\ Len(allowed) \in Nat /\ InWindow \in 0..RateLimitRequests /\ Before = Len(allowed) - InWindow
           /\ InWindow <= Len(allowed)
           /\ InWindow = IF requestCount <= RateLimitRequests THEN requestCount ELSE RateLimitRequests
           /\ \A i \in 1..Len(allowed) : allowed[i] \in Nat
<1>1. /\ RateLimitRequests \in Nat \ {0} /\ RateLimitWindow \in Nat \ {0} /\ MaxTime \in Nat
  BY BoundsAssumption
<1>2. now \in Nat /\ lastReset \in Nat /\ lastReset <= now /\ requestCount \in Nat
  BY <1>1 DEF LimitOK
<1>3. Len(allowed) \in Nat /\ \A i \in 1..Len(allowed) : allowed[i] \in Nat
  BY DEF LimitOK
<1>4. InWindow \in 0..RateLimitRequests /\ Before = Len(allowed) - InWindow /\ InWindow <= Len(allowed)
  BY <1>1, <1>2, <1>3 DEF LimitOK, InWindow, Before
<1>. QED
  BY <1>1, <1>2, <1>3, <1>4 DEF InWindow

(* A message passes: it is the last of its window, or the first of a new one. *)
LEMMA LimitPasses ==
    ASSUME LimitOK, SpacingOK, CheckRateLimit(TRUE), now' = now
    PROVE  LimitOK' /\ SpacingOK'
<1>. DEFINE R == RateLimitRequests
            W == RateLimitWindow
            n == Len(allowed)
<1>1. /\ R \in Nat \ {0} /\ W \in Nat \ {0} /\ now \in Nat /\ lastReset \in Nat /\ lastReset <= now
      /\ requestCount \in Nat /\ n \in Nat /\ InWindow \in 0..R /\ Before = n - InWindow /\ InWindow <= n
      /\ InWindow = (IF requestCount <= R THEN requestCount ELSE R)
      /\ \A i \in 1..n : allowed[i] \in Nat
  BY LimitFacts
<1>2. /\ allowed' = Append(allowed, now) /\ allowed \in Seq(Nat) /\ (WindowPassed \/ requestCount + 1 <= R)
      /\ requestCount' = (IF WindowPassed THEN 1 ELSE requestCount + 1)
      /\ lastReset' = (IF WindowPassed THEN now ELSE lastReset)
      /\ (WindowPassed <=> lastReset + W <= now)
  BY <1>1 DEF CheckRateLimit, LimitOK, WindowPassed
<1>3. /\ allowed' \in Seq(Nat) /\ Len(allowed') = n + 1 /\ allowed'[n + 1] = now
      /\ \A i \in 1..n : allowed'[i] = allowed[i]
  BY <1>1, <1>2
<1>4. /\ \A i \in 1..n : allowed[i] <= now /\ allowed[i] < lastReset + W
      /\ \A i, j \in 1..n : i <= j => allowed[i] <= allowed[j]
      /\ \A i \in 1..Before : allowed[i] < lastReset
      /\ \A i \in 1..Before - R : allowed[i] + W < lastReset
      /\ now \in 0..MaxTime
  BY DEF LimitOK
<1>5. Before' = Len(allowed') - InWindow'
  BY DEF Before
<1>6. PICK b, t : b = Before' /\ t = lastReset'
  OBVIOUS
<1>7. /\ b \in Nat /\ b <= n /\ t \in Nat /\ t <= now /\ now < t + W /\ lastReset <= t /\ n + 1 - R <= b + 1
      /\ \A i \in 1..b : allowed[i] < t
      /\ \A i \in 1..b - R : allowed[i] + W < t
      /\ \A i \in 1..n + 1 - 2 * R : allowed[i] + W <= now
  <2>1. CASE WindowPassed
    <3>1. InWindow' = 1 /\ b = n /\ t = now /\ lastReset + W <= now
      BY <1>1, <1>2, <1>3, <1>5, <1>6, <2>1 DEF InWindow
    <3>2. \A i \in 1..n - R : allowed[i] + W < now
      <4>1. \A i \in 1..n - R : i \in 1..Before /\ i \in 1..n
        BY <1>1
      <4>. QED
        BY <1>1, <1>4, <3>1, <4>1
    <3>3. \A i \in 1..n : allowed[i] < now
      BY <1>1, <1>4, <3>1
    <3>4. \A i \in 1..n + 1 - 2 * R : i \in 1..n - R
      BY <1>1
    <3>5. \A i \in 1..n + 1 - 2 * R : allowed[i] + W <= now
      <4>1. SUFFICES ASSUME NEW i \in 1..n + 1 - 2 * R PROVE allowed[i] + W <= now
        OBVIOUS
      <4>2. i \in 1..n - R /\ i \in 1..n
        BY <1>1, <3>4
      <4>. QED
        BY <1>1, <3>2, <4>2
    <3>. QED
      BY <1>1, <3>1, <3>2, <3>3, <3>5
  <2>2. CASE ~WindowPassed
    <3>1. InWindow' = InWindow + 1 /\ b = Before /\ t = lastReset /\ now < t + W /\ InWindow + 1 <= R
      BY <1>1, <1>2, <1>3, <1>5, <1>6, <2>2 DEF InWindow
    <3>2. \A i \in 1..n + 1 - 2 * R : i \in 1..Before - R /\ i \in 1..n
      BY <1>1, <3>1
    <3>3. \A i \in 1..n + 1 - 2 * R : allowed[i] + W <= now
      <4>1. SUFFICES ASSUME NEW i \in 1..n + 1 - 2 * R PROVE allowed[i] + W <= now
        OBVIOUS
      <4>2. i \in 1..Before - R /\ i \in 1..n
        BY <3>2
      <4>. QED
        BY <1>1, <1>4, <4>2
    <3>. QED
      BY <1>1, <1>4, <3>1, <3>3
  <2>. QED
    BY <2>1, <2>2
<1>8. LimitOK'
  <2>1. requestCount' \in Nat
    BY <1>1, <1>2
  <2>2. ASSUME NEW i \in 1..n + 1
        PROVE  allowed'[i] <= now /\ allowed'[i] < t + W
    <3>1. CASE i = n + 1
      BY <1>1, <1>3, <1>7, <3>1
    <3>2. CASE i # n + 1
      <4>1. i \in 1..n
        BY <1>1, <3>2
      <4>2. allowed'[i] = allowed[i] /\ allowed[i] \in Nat /\ allowed[i] <= now /\ allowed[i] < lastReset + W
        BY <1>1, <1>3, <1>4, <4>1
      <4>. QED
        BY <1>1, <1>7, <4>2
    <3>. QED
      BY <3>1, <3>2
  <2>3. ASSUME NEW i \in 1..n + 1, NEW j \in 1..n + 1, i <= j
        PROVE  allowed'[i] <= allowed'[j]
    <3>1. CASE j = n + 1
      BY <1>3, <2>2, <3>1
    <3>2. CASE j # n + 1
      <4>1. i \in 1..n /\ j \in 1..n
        BY <1>1, <2>3, <3>2
      <4>. QED
        BY <1>3, <1>4, <2>3, <4>1
    <3>. QED
      BY <3>1, <3>2
  <2>4. ASSUME NEW i \in 1..b
        PROVE  allowed'[i] < t
    <3>1. i \in 1..n
      BY <1>1, <1>7
    <3>. QED
      BY <1>3, <1>7, <3>1
  <2>5. ASSUME NEW i \in 1..b - R
        PROVE  allowed'[i] + W < t
    <3>1. i \in 1..n
      BY <1>1, <1>7
    <3>. QED
      BY <1>3, <1>7, <3>1
  <2>6. now' = now /\ now \in 0..MaxTime /\ b \in Nat /\ t \in 0..now
    BY <1>1, <1>4, <1>7
  <2>7. now' \in 0..MaxTime /\ lastReset' \in 0..now' /\ allowed' \in Seq(Nat) /\ Before' \in Nat
    BY <1>3, <1>6, <2>6
  <2>8. \A i \in 1..Len(allowed') : allowed'[i] <= now' /\ allowed'[i] < lastReset' + W
    BY <1>3, <1>6, <2>2, <2>6
  <2>9. \A i, j \in 1..Len(allowed') : i <= j => allowed'[i] <= allowed'[j]
    BY <1>3, <2>3
  <2>10. \A i \in 1..Before' : allowed'[i] < lastReset'
    BY <1>6, <2>4
  <2>11. \A i \in 1..Before' - R : allowed'[i] + W < lastReset'
    BY <1>6, <2>5
  <2>. QED
    BY <2>1, <2>7, <2>8, <2>9, <2>10, <2>11 DEF LimitOK
<1>9. SpacingOK'
  <2>1. SUFFICES ASSUME NEW i \in 1..Len(allowed') - 2 * R
                 PROVE  allowed'[i] + W <= allowed'[i + 2 * R]
    BY DEF SpacingOK
  <2>2. i \in 1..n + 1 - 2 * R /\ i \in 1..n /\ allowed'[i] = allowed[i]
    BY <1>1, <1>3
  <2>3. CASE i = n + 1 - 2 * R
    BY <1>1, <1>3, <1>7, <2>2, <2>3
  <2>4. CASE i # n + 1 - 2 * R
    <3>1. i \in 1..n - 2 * R /\ i + 2 * R \in 1..n
      <4>1. n \in Nat /\ R \in Nat /\ i \in 1..n + 1 - 2 * R /\ i # n + 1 - 2 * R
        BY <1>1, <2>2, <2>4
      <4>. HIDE DEF n, R
      <4>. QED
        BY <4>1
    <3>2. allowed[i] + W <= allowed[i + 2 * R]
      BY <3>1 DEF SpacingOK
    <3>3. allowed'[i + 2 * R] = allowed[i + 2 * R]
      BY <1>3, <3>1
    <3>. QED
      BY <2>2, <3>2, <3>3
  <2>. QED
    BY <2>3, <2>4
<1>. QED
  BY <1>8, <1>9

LEMMA LimitRefuses ==
    ASSUME LimitOK, SpacingOK, CheckRateLimit(FALSE), now' = now
    PROVE  LimitOK' /\ SpacingOK'
<1>1. /\ allowed' = allowed /\ lastReset' = lastReset /\ requestCount' = requestCount + 1
      /\ requestCount + 1 > RateLimitRequests /\ requestCount \in Nat /\ RateLimitRequests \in Nat
  BY LimitFacts DEF CheckRateLimit
<1>2. InWindow' = InWindow /\ Before' = Before
  BY <1>1 DEF InWindow, Before
<1>. QED
  BY <1>1, <1>2 DEF LimitOK, SpacingOK

(* The least element of a set of indices *)
LEMMA LeastIndex ==
    ASSUME NEW S \in SUBSET Nat, S # {}
    PROVE  \E m \in S : \A n \in S : m <= n
<1>1. PICK R : R = {ss \in Nat \X Nat : ss[1] < ss[2]}
  OBVIOUS
<1>2. IsWellFoundedOn(R, Nat)
  BY <1>1, NatLessThanWellFounded DEF OpToRel
<1>3. PICK x \in S : \A y \in S : ~ (<<y, x>> \in R)
  BY <1>2, WFMin
<1>4. ASSUME NEW y \in S PROVE x <= y
  <2>1. x \in Nat /\ y \in Nat /\ <<y, x>> \in Nat \X Nat /\ ~(<<y, x>> \in R)
    BY <1>3
  <2>2. ~(<<y, x>>[1] < <<y, x>>[2])
    BY <1>1, <2>1
  <2>. QED
    BY <2>1, <2>2
<1>. QED
  BY <1>4

(* The messages let pass within the length of a window are fewer than 2 R + 1. *)
LEMMA SpacingBounds == LimitOK /\ SpacingOK => BurstAtMostTwice
<1>. DEFINE R == RateLimitRequests
            W == RateLimitWindow
            n == Len(allowed)
<1>1. SUFFICES ASSUME LimitOK, SpacingOK, NEW t \in 0..MaxTime
               PROVE  Cardinality(AllowedFrom(t)) <= 2 * R
  BY DEF BurstAtMostTwice
<1>2. /\ R \in Nat \ {0} /\ W \in Nat \ {0} /\ n \in Nat /\ DOMAIN allowed = 1..n /\ t \in Nat
      /\ \A i \in 1..n : allowed[i] \in Nat
      /\ \A i, j \in 1..n : i <= j => allowed[i] <= allowed[j]
  BY <1>1, LimitFacts DEF LimitOK
<1>3. PICK A : A = AllowedFrom(t)
  OBVIOUS
<1>4. /\ A \in SUBSET Nat
      /\ \A i \in A : i \in 1..n /\ t <= allowed[i] /\ allowed[i] < t + W
  BY <1>2, <1>3 DEF AllowedFrom
<1>5. CASE A = {}
  BY <1>2, <1>3, <1>5, FS_EmptySet
<1>6. CASE A # {}
  <2>1. PICK i \in A : \A j \in A : i <= j
    BY <1>4, <1>6, LeastIndex
  <2>2. A \subseteq i..i + 2 * R - 1
    <3>1. SUFFICES ASSUME NEW j \in A, j >= i + 2 * R PROVE FALSE
      BY <1>2, <1>4, <2>1
    <3>2. i \in 1..n - 2 * R /\ i + 2 * R \in 1..n /\ j \in 1..n /\ i \in 1..n
      BY <1>2, <1>4, <2>1, <3>1
    <3>3. allowed[i] + W <= allowed[i + 2 * R] /\ allowed[i + 2 * R] <= allowed[j]
      BY <1>1, <1>2, <3>1, <3>2 DEF SpacingOK
    <3>. QED
      BY <1>2, <1>4, <2>1, <3>1, <3>2, <3>3
  <2>3. IsFiniteSet(i..i + 2 * R - 1) /\ Cardinality(i..i + 2 * R - 1) = 2 * R
    <3>1. i \in Int /\ i + 2 * R - 1 \in Int /\ ~(i > i + 2 * R - 1)
      BY <1>2, <1>4, <2>1
    <3>. QED
      <4>1. PICK x : x = i + 2 * R - 1
        OBVIOUS
      <4>2. x \in Int /\ ~(i > x) /\ x - i + 1 = 2 * R
        BY <1>2, <1>4, <2>1, <4>1
      <4>3. IsFiniteSet(i..x) /\ Cardinality(i..x) = IF i > x THEN 0 ELSE x - i + 1
        BY <3>1, <4>2, FS_Interval
      <4>. QED
        BY <4>1, <4>2, <4>3
  <2>4. Cardinality(A) <= Cardinality(i..i + 2 * R - 1)
    BY <2>2, <2>3, FS_Subset
  <2>. QED
    BY <1>3, <2>3, <2>4
<1>. QED
  BY <1>5, <1>6

-----------------------------------------------------------------------------
(* The stream *)

(* What is left of the stream when something was taken from an end of it. *)
LEMMA PartOfStream ==
    ASSUME NEW n \in Nat, NEW s, StreamOK(s, n), NEW a \in 1..Len(s) + 1, NEW b \in 0..Len(s)
    PROVE  /\ StreamOK(SubSeq(s, a, b), n)
           /\ \A k : Above(s, k) => Above(SubSeq(s, a, b), k)
           /\ b = Len(s) /\ Whole(s) => Whole(SubSeq(s, a, b))
<1>1. s \in Seq(Items(n)) /\ Len(s) \in Nat /\ a \in Nat /\ b \in Nat
  BY DEF StreamOK
<1>2. PICK u : u = SubSeq(s, a, b)
  OBVIOUS
<1>3. \A i \in a..b : s[i] \in Items(n)
  BY <1>1
<1>4. /\ u \in Seq(Items(n)) /\ Len(u) = (IF a <= b THEN b - a + 1 ELSE 0)
      /\ \A i \in 1..b - a + 1 : u[i] = s[a + i - 1]
  BY <1>1, <1>2, <1>3, SubSeqProperties
<1>5. \A i \in 1..Len(u) : a + i - 1 \in 1..Len(s) /\ u[i] = s[a + i - 1]
  BY <1>1, <1>4
<1>6. StreamOK(u, n)
  <2>1. \A i \in 1..Len(u) : u[i].item = "body" => u[i].message > 0
    BY <1>5 DEF StreamOK
  <2>2. ASSUME NEW i \in 1..Len(u) - 1, u[i].item = "blank" PROVE u[i + 1].item = "body"
    <3>1. i \in 1..Len(u) /\ i + 1 \in 1..Len(u) /\ Len(u) \in Nat
      BY <1>4
    <3>2. u[i] = s[a + i - 1] /\ u[i + 1] = s[(a + i - 1) + 1] /\ a + i - 1 \in 1..Len(s) - 1
      BY <1>1, <1>4, <1>5, <3>1
    <3>. QED
      BY <2>2, <3>2 DEF StreamOK
  <2>3. ASSUME NEW i \in 1..Len(u), NEW j \in 1..Len(u), i < j, u[i].item = "body", u[j].item = "body"
        PROVE  u[i].message < u[j].message
    <3>1. PICK x, y : x = a + i - 1 /\ y = a + j - 1
      OBVIOUS
    <3>2. x \in 1..Len(s) /\ y \in 1..Len(s) /\ x < y /\ u[i] = s[x] /\ u[j] = s[y]
      BY <1>1, <1>4, <1>5, <2>3, <3>1
    <3>. QED
      BY <2>3, <3>2 DEF StreamOK
  <2>. QED
    BY <1>4, <2>1, <2>2, <2>3 DEF StreamOK
<1>7. \A k : Above(s, k) => Above(u, k)
  BY <1>5 DEF Above
<1>8. ASSUME b = Len(s), Whole(s) PROVE Whole(u)
  <2>1. CASE a <= b
    <3>1. Len(u) \in 1..Len(u) /\ a + Len(u) - 1 = Len(s) /\ s # <<>>
      BY <1>1, <1>4, <1>8, <2>1
    <3>. QED
      BY <1>5, <1>8, <3>1 DEF Whole
  <2>2. CASE a > b
    BY <1>1, <1>2, <2>2, SubSeqEmpty DEF Whole
  <2>. QED
    BY <1>1, <2>1, <2>2
<1>. QED
  BY <1>2, <1>6, <1>7, <1>8

LEMMA ThreeMore ==
    ASSUME NEW S, NEW v \in Seq(S), NEW u \in Seq(S), Len(u) = 3
    PROVE  /\ v \o u \in Seq(S) /\ Len(v \o u) = Len(v) + 3
           /\ \A i \in 1..Len(v) : (v \o u)[i] = v[i]
           /\ (v \o u)[Len(v) + 1] = u[1] /\ (v \o u)[Len(v) + 2] = u[2] /\ (v \o u)[Len(v) + 3] = u[3]
<1>1. /\ v \o u \in Seq(S) /\ Len(v \o u) = Len(v) + Len(u)
      /\ \A i \in 1..Len(v) + Len(u) : (v \o u)[i] = IF i <= Len(v) THEN v[i] ELSE u[i - Len(v)]
  BY ConcatProperties
<1>2. Len(v) \in Nat
  OBVIOUS
<1>. QED
  BY <1>1, <1>2

WithFrame(l, n) == stream \o <<Line(l), Blank, Body(n)>>

(* A frame is written behind a stream that ends with one. *)
LEMMA FrameWritten ==
    ASSUME NEW n \in Nat, StreamOK(stream, n), Whole(stream), NEW l \in Lengths, NEW s,
           s = WithFrame(l, n + 1)
    PROVE  StreamOK(s, n + 1) /\ Whole(s) /\ \A k \in 0..n : Above(stream, k) => Above(s, k)
<1>1. stream \in Seq(Items(n)) /\ Len(stream) \in Nat
  BY DEF StreamOK
<1>2. stream \in Seq(Items(n + 1)) /\ \A i \in 1..Len(stream) : stream[i] \in Items(n + 1) /\ stream[i].message \in 0..n
  <2>1. Items(n) \subseteq Items(n + 1)
    BY DEF Items
  <2>2. \A i \in 1..Len(stream) : stream[i] \in Items(n)
    BY <1>1
  <2>3. stream \in Seq(Items(n + 1))
    BY <1>1, <2>1, SeqMonotonic
  <2>. QED
    BY <2>1, <2>2, <2>3 DEF Items
<1>3. PICK w, x, y : w = Line(l) /\ x = Blank /\ y = Body(n + 1)
  OBVIOUS
<1>4. /\ w \in Items(n + 1) /\ x \in Items(n + 1) /\ y \in Items(n + 1)
      /\ w.item = "length" /\ x.item = "blank" /\ y.item = "body" /\ y.message = n + 1
  <2>1. l \in Values
    BY LengthsAssumption DEF Values
  <2>. QED
    BY <1>3, <2>1 DEF Blank, Body, Line, Items, Values, None
<1>5. /\ s \in Seq(Items(n + 1)) /\ Len(s) = Len(stream) + 3
      /\ \A i \in 1..Len(stream) : s[i] = stream[i]
      /\ s[Len(stream) + 1] = w /\ s[Len(stream) + 2] = x /\ s[Len(stream) + 3] = y
  <2>1. PICK u : u = <<w, x, y>>
    OBVIOUS
  <2>2. u \in Seq(Items(n + 1)) /\ Len(u) = 3 /\ u[1] = w /\ u[2] = x /\ u[3] = y
    BY <1>4, <2>1
  <2>3. s = stream \o u
    BY <1>3, <2>1 DEF WithFrame
  <2>4. /\ stream \o u \in Seq(Items(n + 1)) /\ Len(stream \o u) = Len(stream) + 3
        /\ \A i \in 1..Len(stream) : (stream \o u)[i] = stream[i]
        /\ (stream \o u)[Len(stream) + 1] = u[1] /\ (stream \o u)[Len(stream) + 2] = u[2]
        /\ (stream \o u)[Len(stream) + 3] = u[3]
    BY <1>2, <2>2, ThreeMore
  <2>. QED
    BY <2>2, <2>3, <2>4
<1>6. ASSUME NEW i \in 1..Len(s), s[i].item = "body"
      PROVE  (i \in 1..Len(stream) /\ s[i] = stream[i]) \/ (i = Len(s) /\ s[i] = y)
  <2>1. i \in 1..Len(stream) \/ i = Len(stream) + 1 \/ i = Len(stream) + 2 \/ i = Len(stream) + 3
    BY <1>1, <1>5
  <2>2. i # Len(stream) + 1 /\ i # Len(stream) + 2
    BY <1>4, <1>5, <1>6
  <2>. QED
    BY <1>5, <2>1, <2>2
<1>7. StreamOK(s, n + 1)
  <2>1. ASSUME NEW i \in 1..Len(s), s[i].item = "body" PROVE s[i].message > 0
    <3>1. CASE i \in 1..Len(stream) /\ s[i] = stream[i]
      BY <2>1, <3>1 DEF StreamOK
    <3>2. CASE s[i] = y
      BY <1>4, <3>2
    <3>. QED
      BY <1>6, <2>1, <3>1, <3>2
  <2>2. ASSUME NEW i \in 1..Len(s) - 1, s[i].item = "blank" PROVE s[i + 1].item = "body"
    <3>1. CASE i \in 1..Len(stream) - 1
      <4>1. i \in 1..Len(stream) /\ i + 1 \in 1..Len(stream)
        BY <1>1, <3>1
      <4>. QED
        BY <1>5, <2>2, <3>1, <4>1 DEF StreamOK
    <3>2. CASE i = Len(stream)
      <4>1. stream # <<>> /\ s[i] = stream[i]
        BY <1>1, <1>5, <3>2
      <4>. QED
        BY <2>2, <3>2, <4>1 DEF Whole, Unended
    <3>3. CASE i > Len(stream)
      <4>1. i = Len(stream) + 1 \/ i = Len(stream) + 2
        BY <1>1, <1>5, <3>3
      <4>2. i = Len(stream) + 2 /\ i + 1 = Len(stream) + 3
        BY <1>1, <1>4, <1>5, <2>2, <4>1
      <4>. QED
        BY <1>4, <1>5, <4>2
    <3>. QED
      BY <1>1, <1>5, <3>1, <3>2, <3>3
  <2>3. ASSUME NEW i \in 1..Len(s), NEW j \in 1..Len(s), i < j, s[i].item = "body", s[j].item = "body"
        PROVE  s[i].message < s[j].message
    <3>1. i \in 1..Len(stream) /\ s[i] = stream[i]
      BY <1>5, <1>6, <2>3
    <3>2. CASE j \in 1..Len(stream) /\ s[j] = stream[j]
      BY <2>3, <3>1, <3>2 DEF StreamOK
    <3>3. CASE s[j] = y
      BY <1>2, <1>4, <3>1, <3>3
    <3>. QED
      BY <1>6, <2>3, <3>2, <3>3
  <2>. QED
    BY <1>5, <2>1, <2>2, <2>3 DEF StreamOK
<1>8. Whole(s)
  BY <1>1, <1>4, <1>5 DEF Whole, Unended
<1>9. \A k \in 0..n : Above(stream, k) => Above(s, k)
  BY <1>4, <1>6 DEF Above
<1>. QED
  BY <1>7, <1>8, <1>9

(* The rest of a body is in front, in its place. *)
Rest(s) == [s EXCEPT ![1].item = "rest"]

LEMMA RestOfBody ==
    ASSUME NEW n \in Nat, NEW s, StreamOK(s, n), Len(s) > 0, s[1].item = "body", NEW r,
           r = Rest(s)
    PROVE  /\ StreamOK(r, n) /\ Len(r) = Len(s) /\ r[1].item = "rest"
           /\ \A i \in 2..Len(s) : r[i] = s[i]
           /\ \A k : Above(s, k) => Above(r, k)
           /\ Whole(s) => Whole(r)
<1>1. s \in Seq(Items(n)) /\ Len(s) \in Nat /\ DOMAIN s = 1..Len(s) /\ s[1] \in Items(n)
  BY DEF StreamOK
<1>2. PICK first : first = [s[1] EXCEPT !.item = "rest"]
  OBVIOUS
<1>3. first \in Items(n) /\ first.item = "rest"
  BY <1>1, <1>2 DEF Items
<1>4. r = [s EXCEPT ![1] = first]
  BY <1>2 DEF Rest
<1>5. r \in Seq(Items(n)) /\ Len(r) = Len(s) /\ r[1] = first /\ \A i \in 2..Len(s) : r[i] = s[i]
  BY <1>1, <1>3, <1>4
<1>6. \A i \in 1..Len(s) : r[i].item = "body" => i \in 2..Len(s) /\ r[i] = s[i] /\ s[i].item = "body"
  BY <1>1, <1>3, <1>5
<1>7. StreamOK(r, n)
  <2>1. \A i \in 1..Len(r) : r[i].item = "body" => r[i].message > 0
    BY <1>5, <1>6 DEF StreamOK
  <2>2. ASSUME NEW i \in 1..Len(r) - 1, r[i].item = "blank" PROVE r[i + 1].item = "body"
    <3>1. i \in 2..Len(s) /\ i + 1 \in 2..Len(s) /\ i \in 1..Len(s) - 1
      BY <1>1, <1>3, <1>5, <2>2
    <3>. QED
      BY <1>5, <2>2, <3>1 DEF StreamOK
  <2>3. \A i, j \in 1..Len(r) : i < j /\ r[i].item = "body" /\ r[j].item = "body" => r[i].message < r[j].message
    BY <1>5, <1>6 DEF StreamOK
  <2>. QED
    BY <1>5, <2>1, <2>2, <2>3 DEF StreamOK
<1>8. \A k : Above(s, k) => Above(r, k)
  BY <1>5, <1>6 DEF Above
<1>9. Whole(s) => Whole(r)
  <2>1. Len(s) = 1 \/ Len(s) \in 2..Len(s)
    BY <1>1
  <2>2. r[Len(s)].item \in Unended \/ (Len(s) \in 2..Len(s) /\ r[Len(s)] = s[Len(s)])
    BY <1>3, <1>5, <2>1 DEF Unended
  <2>3. s # <<>>
    OBVIOUS
  <2>. QED
    BY <1>5, <2>2, <2>3 DEF Whole
<1>. QED
  BY <1>3, <1>5, <1>7, <1>8, <1>9

(* What is behind a body comes after it. *)
LEMMA BehindBody ==
    ASSUME NEW n \in Nat, NEW s, StreamOK(s, n), Len(s) > 1, s[2].item = "body", NEW a \in 3..Len(s) + 1
    PROVE  Above(SubSeq(s, a, Len(s)), s[2].message)
<1>1. PICK t : t = SubSeq(s, a, Len(s))
  OBVIOUS
<1>2. s \in Seq(Items(n)) /\ Len(s) \in Nat /\ a \in Nat
  BY DEF StreamOK
<1>3. /\ Len(t) = IF a <= Len(s) THEN Len(s) - a + 1 ELSE 0
      /\ \A i \in 1..Len(s) - a + 1 : t[i] = s[a + i - 1]
  <2>1. \A i \in a..Len(s) : s[i] \in Items(n)
    BY <1>2
  <2>. QED
    BY <1>1, <1>2, <2>1, SubSeqProperties
<1>4. ASSUME NEW i \in 1..Len(t), t[i].item = "body" PROVE s[2].message < t[i].message
  <2>1. PICK j : j = a + i - 1
    OBVIOUS
  <2>2. j \in 1..Len(s) /\ 2 \in 1..Len(s) /\ 2 < j /\ t[i] = s[j]
    BY <1>2, <1>3, <2>1
  <2>. QED
    BY <1>4, <2>2 DEF StreamOK
<1>. QED
  BY <1>1, <1>4 DEF Above

(* ReadString takes a line and the bodies before it. *)
LEMMA LineIsRead ==
    ASSUME ReadingOK, HasLine
    PROVE  /\ StreamOK(AfterLine, Len(messages)) /\ \A k : Above(stream, k) => Above(AfterLine, k)
           /\ (Whole(stream) => Whole(AfterLine))
<1>. DEFINE S == {i \in DOMAIN stream : stream[i].item \notin Unended}
<1>1. StreamOK(stream, Len(messages)) /\ stream \in Seq(Items(Len(messages))) /\ Len(messages) \in Nat
  BY DEF ReadingOK, StreamOK
<1>2. DOMAIN stream = 1..Len(stream) /\ Len(stream) \in Nat
  BY <1>1
<1>3. S \in SUBSET Nat /\ S # {}
  BY <1>2 DEF HasLine
<1>4. PICK m \in S : \A n \in S : m <= n
  BY <1>3, LeastIndex
<1>5. m \in DOMAIN stream /\ stream[m].item \notin Unended /\ \A j \in 1..m - 1 : stream[j].item \in Unended
  BY <1>2, <1>4
<1>6. EndOfLine \in DOMAIN stream
  BY <1>5 DEF EndOfLine
<1>7. EndOfLine + 1 \in 1..Len(stream) + 1 /\ Len(stream) \in 0..Len(stream)
  BY <1>2, <1>6
<1>. QED
  BY <1>1, <1>7, PartOfStream DEF AfterLine

-----------------------------------------------------------------------------
(* The steps of the session *)

LEMMA SessionFacts ==
    ASSUME SessionInv
    PROVE  /\ Len(messages) \in Nat /\ DOMAIN messages = 1..Len(messages)
           /\ Len(stream) \in Nat /\ DOMAIN stream = 1..Len(stream) /\ StreamOK(stream, Len(messages))
           /\ \A i \in 1..Len(stream) : stream[i] \in Items(Len(messages))
           /\ (pc = "handling" <=> message # None) /\ message \in 0..Len(messages)
           /\ Len(answers) \in Nat
<1>1. messages \in Seq([kind : Kinds, length : Lengths]) /\ stream \in Seq(Items(Len(messages)))
  BY DEF SessionInv, ReadingOK, StreamOK
<1>. QED
  BY <1>1 DEF SessionInv, ReadingOK, OrderOK

(* A step of readMessage that ends without a message. *)
LEMMA Reads ==
    ASSUME SessionInv, pc = "reading", UNCHANGED <<messages, input, limitVars, shutdown, now, answers>>,
           StreamOK(stream', Len(messages)), \A k : Above(stream, k) => Above(stream', k),
           Whole(stream) => Whole(stream'),
           pc' \in {"reading", "returned", "panicked"}, message' = None, contentLength' \in Sizes
    PROVE  SessionInv'
<1>1. /\ UNCHANGED <<messages, input, shutdown, now, answers>> /\ message = None
      /\ requestCount' = requestCount /\ UNCHANGED limitVars
  BY SessionFacts DEF limitVars
<1>2. ReadingOK'
  <2>1. Above(stream', None)
    BY <1>1 DEF SessionInv, ReadingOK
  <2>. QED
    BY <1>1, <2>1, SessionFacts DEF SessionInv, ReadingOK, None
<1>3. CountOK'
  BY <1>1 DEF SessionInv, CountOK
<1>4. OrderOK'
  BY <1>1 DEF SessionInv, OrderOK, AnsweredOK
<1>5. LimitOK' /\ SpacingOK'
  <2>1. now' \in now..MaxTime
    BY <1>1, BoundsAssumption DEF SessionInv, LimitOK
  <2>. QED
    BY <1>1, <2>1, LimitKept DEF SessionInv
<1>. QED
  BY <1>2, <1>3, <1>4, <1>5 DEF SessionInv

LEMMA ReadHeaderInv == ASSUME SessionInv, ReadHeader PROVE SessionInv'
<1>1. /\ pc = "reading" /\ HasLine /\ stream' = AfterLine /\ message = None
      /\ UNCHANGED <<messages, input, limitVars, shutdown, now, answers>>
  BY SessionFacts DEF ReadHeader
<1>2. /\ StreamOK(stream', Len(messages)) /\ \A k : Above(stream, k) => Above(stream', k)
      /\ (Whole(stream) => Whole(stream'))
  BY <1>1, LineIsRead DEF SessionInv
<1>3. pc' = "reading" /\ message' = None /\ contentLength' \in Sizes
  <2>1. contentLength \in Sizes
    BY DEF SessionInv, ReadingOK
  <2>2. stream[1].value \in Values
    <3>1. 1 \in 1..Len(stream)
      BY <1>1, SessionFacts DEF HasLine
    <3>. QED
      BY <3>1, SessionFacts DEF Items
  <2>. QED
    BY <1>1, <2>1, <2>2 DEF ReadHeader, ReadAgain, Values, Sizes
<1>. QED
  BY <1>1, <1>2, <1>3, Reads

LEMMA RejectHeaderInv == ASSUME SessionInv, RejectHeader PROVE SessionInv'
<1>1. /\ pc = "reading" /\ HasLine /\ stream' = AfterLine
      /\ UNCHANGED <<messages, input, limitVars, shutdown, now, answers>>
      /\ pc' = "reading" /\ message' = None /\ contentLength' \in Sizes
  BY DEF RejectHeader, HeaderEnds, ReadAgain, Sizes, Values
<1>2. /\ StreamOK(stream', Len(messages)) /\ \A k : Above(stream, k) => Above(stream', k)
      /\ (Whole(stream) => Whole(stream'))
  BY <1>1, LineIsRead DEF SessionInv
<1>. QED
  BY <1>1, <1>2, Reads

LEMMA EmptyStream == \A n \in Nat : \A k : StreamOK(<<>>, n) /\ Above(<<>>, k) /\ Whole(<<>>)
BY DEF StreamOK, Above, Whole

LEMMA StreamIsLost ==
    ASSUME SessionInv, ReadShort \/ ReadError
    PROVE  SessionInv'
<1>1. /\ pc = "reading" /\ stream' = <<>>
      /\ UNCHANGED <<messages, input, limitVars, shutdown, now, answers>>
      /\ pc' = "reading" /\ message' = None /\ contentLength' \in Sizes
  BY DEF ReadShort, ReadError, HeaderEnds, ReadAgain, Sizes, Values
<1>2. Len(messages) \in Nat
  BY SessionFacts
<1>3. StreamOK(stream', Len(messages)) /\ (\A k : Above(stream', k)) /\ Whole(stream')
  BY <1>1, <1>2, EmptyStream
<1>. QED
  BY <1>1, <1>3, Reads

LEMMA PanicInv == ASSUME SessionInv, Panic PROVE SessionInv'
<1>1. /\ pc = "reading" /\ HasLine /\ stream' = AfterLine /\ message = None
      /\ UNCHANGED <<messages, input, limitVars, shutdown, now, answers>>
      /\ pc' = "panicked" /\ message' = message /\ contentLength' = "missing"
  BY SessionFacts DEF Panic, HeaderEnds
<1>2. /\ StreamOK(stream', Len(messages)) /\ \A k : Above(stream, k) => Above(stream', k)
      /\ (Whole(stream) => Whole(stream'))
  BY <1>1, LineIsRead DEF SessionInv
<1>3. contentLength' \in Sizes
  BY <1>1 DEF Sizes, Values
<1>. QED
  BY <1>1, <1>2, <1>3, Reads

LEMMA ReadEOFInv == ASSUME SessionInv, ReadEOF PROVE SessionInv'
<1>1. /\ pc = "reading" /\ stream' = stream /\ message = None
      /\ UNCHANGED <<messages, input, limitVars, shutdown, now, answers>>
      /\ pc' = "returned" /\ message' = message /\ contentLength' = contentLength
  BY SessionFacts DEF ReadEOF
<1>2. StreamOK(stream', Len(messages)) /\ contentLength' \in Sizes
  BY <1>1 DEF SessionInv, ReadingOK
<1>. QED
  BY <1>1, <1>2, Reads

(* What ReadFull leaves behind the body that it takes, in whole or in part. *)
LEMMA ContentIsTaken ==
    ASSUME SessionInv, Len(stream) > 1, stream[2].item = "body", ContentIsThere
    PROVE  /\ StreamOK(AfterContent, Len(messages)) /\ \A k : Above(stream, k) => Above(AfterContent, k)
           /\ Whole(stream) => Whole(AfterContent)
           /\ Above(AfterContent, stream[2].message)
<1>1. Len(messages) \in Nat /\ Len(stream) \in Nat /\ StreamOK(stream, Len(messages))
  BY SessionFacts
<1>2. CASE contentLength = "short"
  <2>1. PICK t : t = SubSeq(stream, 2, Len(stream))
    OBVIOUS
  <2>2. 2 \in 1..Len(stream) + 1 /\ Len(stream) \in 0..Len(stream)
    BY <1>1
  <2>3. /\ StreamOK(t, Len(messages)) /\ \A k : Above(stream, k) => Above(t, k)
        /\ Whole(stream) => Whole(t)
    BY <1>1, <2>1, <2>2, PartOfStream
  <2>4. Len(t) > 0 /\ t[1] = stream[2]
    <3>1. \A i \in 2..Len(stream) : stream[i] \in Items(Len(messages))
      BY SessionFacts
    <3>2. /\ Len(t) = IF 2 <= Len(stream) THEN Len(stream) - 2 + 1 ELSE 0
          /\ \A i \in 1..Len(stream) - 2 + 1 : t[i] = stream[2 + i - 1]
      BY <1>1, <2>1, <3>1, SubSeqProperties
    <3>3. 1 \in 1..Len(stream) - 2 + 1 /\ 2 + 1 - 1 = 2
      BY <1>1
    <3>. QED
      BY <1>1, <3>2, <3>3
  <2>5. PICK r : r = Rest(t)
    OBVIOUS
  <2>6. /\ StreamOK(r, Len(messages)) /\ Len(r) = Len(t) /\ r[1].item = "rest"
        /\ \A i \in 2..Len(t) : r[i] = t[i]
        /\ \A k : Above(t, k) => Above(r, k)
        /\ Whole(t) => Whole(r)
    <3>1. t[1].item = "body" /\ Len(t) > 0 /\ StreamOK(t, Len(messages)) /\ Len(messages) \in Nat
      BY <1>1, <2>3, <2>4
    <3>. QED
      BY ONLY <2>5, <3>1, RestOfBody
  <2>7. AfterContent = r
    BY <1>2, <2>1, <2>5 DEF AfterContent, Rest
  <2>8. Above(r, stream[2].message)
    <3>1. ASSUME NEW i \in 1..Len(r), r[i].item = "body" PROVE t[1].message < r[i].message
      <4>1. i # 1 /\ i \in 2..Len(t) /\ 1 \in 1..Len(t) /\ i \in 1..Len(t) /\ 1 < i
        <5>1. Len(t) \in Nat
          BY <2>3 DEF StreamOK
        <5>. QED
          BY <2>6, <3>1, <5>1
      <4>. QED
        BY <2>3, <2>4, <2>6, <3>1, <4>1 DEF StreamOK
    <3>. QED
      BY <2>4, <3>1 DEF Above
  <2>9. \A k : Above(stream, k) => Above(r, k)
    BY <2>3, <2>6
  <2>10. StreamOK(r, Len(messages)) /\ (Whole(stream) => Whole(r))
    BY <2>3, <2>6
  <2>. QED
    BY <2>7, <2>8, <2>9, <2>10
<1>3. ASSUME NEW a \in 3..Len(stream) + 1, AfterContent = SubSeq(stream, a, Len(stream))
      PROVE  /\ StreamOK(AfterContent, Len(messages)) /\ \A k : Above(stream, k) => Above(AfterContent, k)
             /\ Whole(stream) => Whole(AfterContent)
             /\ Above(AfterContent, stream[2].message)
  <2>1. a \in 1..Len(stream) + 1 /\ Len(stream) \in 0..Len(stream)
    BY <1>1
  <2>. QED
    BY <1>1, <1>3, <2>1, PartOfStream, BehindBody
<1>4. CASE contentLength = "long"
  <2>1. 4 \in 3..Len(stream) + 1
    BY <1>1, <1>4 DEF ContentIsThere
  <2>2. AfterContent = SubSeq(stream, 4, Len(stream))
    BY <1>4 DEF AfterContent
  <2>. QED
    BY <1>3, <2>1, <2>2
<1>5. CASE contentLength \notin {"short", "long"}
  <2>1. 3 \in 3..Len(stream) + 1
    BY <1>1
  <2>2. AfterContent = SubSeq(stream, 3, Len(stream))
    BY <1>5 DEF AfterContent
  <2>. QED
    BY <1>3, <2>1, <2>2
<1>. QED
  BY <1>2, <1>4, <1>5

(* The body that is read is the first in the stream. *)
LEMMA ReadContentInv == ASSUME SessionInv, ReadContent PROVE SessionInv'
<1>0. Len(stream) > 1
  <2>1. Len(stream) \in Nat /\ (Len(stream) > 2 \/ Len(stream) > 1)
    BY SessionFacts DEF ReadContent, ContentIsThere
  <2>. QED
    BY <2>1
<1>1. /\ pc = "reading" /\ message = None /\ HasLine /\ stream[1].item = "blank" /\ Len(stream) > 1
      /\ pc' = "handling" /\ message' = stream[2].message /\ contentLength' = "missing"
      /\ stream' = AfterContent /\ ContentIsThere
      /\ UNCHANGED <<messages, input, limitVars, shutdown, now, answers>> /\ requestCount' = requestCount
  BY <1>0, SessionFacts DEF ReadContent, HeaderEnds, FirstLine, limitVars
<1>2. PICK m : m = stream[2].message
  OBVIOUS
<1>3. m \in 1..Len(messages) /\ stream[2].item = "body" /\ m # None
  <2>1. 1 \in 1..Len(stream) - 1 /\ 2 \in 1..Len(stream)
    BY <1>1, SessionFacts
  <2>2. stream[2].item = "body" /\ stream[2] \in Items(Len(messages))
    <3>1. stream[1 + 1].item = "body"
      BY <1>1, <2>1, SessionFacts DEF StreamOK
    <3>. QED
      BY <2>1, <3>1, SessionFacts
  <2>3. stream[2].message > 0
    BY <2>1, <2>2, SessionFacts DEF StreamOK
  <2>. QED
    BY <1>2, <2>2, <2>3, SessionFacts DEF Items, None
<1>4. /\ StreamOK(stream', Len(messages)) /\ \A k : Above(stream, k) => Above(stream', k)
      /\ (Whole(stream) => Whole(stream')) /\ Above(stream', m)
  BY <1>1, <1>2, <1>3, ContentIsTaken
<1>5. contentLength' \in Sizes
  BY <1>1 DEF Sizes, Values
<1>6. ReadingOK'
  BY <1>1, <1>2, <1>3, <1>4, <1>5 DEF SessionInv, ReadingOK
<1>7. ASSUME NEW k, Above(stream, k) PROVE k < m
  BY <1>1, <1>2, <1>3, <1>7, SessionFacts DEF Above
<1>8. CountOK'
  BY <1>1, <1>2, <1>4, <1>7 DEF SessionInv, CountOK
<1>9. OrderOK'
  <2>1. ASSUME NEW a, AnsweredOK(a) PROVE AnsweredOK(a)'
    BY <1>1, <1>2, <1>4, <1>7, <2>1 DEF AnsweredOK
  <2>. QED
    BY <1>1, <2>1 DEF SessionInv, OrderOK
<1>10. LimitOK' /\ SpacingOK'
  <2>1. now' \in now..MaxTime /\ UNCHANGED limitVars
    BY <1>1, BoundsAssumption DEF SessionInv, LimitOK
  <2>. QED
    BY <2>1, LimitKept DEF SessionInv
<1>. QED
  BY <1>6, <1>8, <1>9, <1>10 DEF SessionInv

(* The message is dealt with: it is counted, and its response, if any, is the
   last one. *)
LEMMA Deals ==
    ASSUME SessionInv, pc = "handling", NEW pass \in BOOLEAN, CheckRateLimit(pass),
           UNCHANGED <<messages, stream, input, now>>, shutdown' \in BOOLEAN,
           pc' \in {"reading", "returned"}, message' = None, contentLength' \in Sizes,
           NEW code \in Codes \cup {"none"}, Answer(code), code # "none" => HasId(messages[message].kind)
    PROVE  SessionInv'
<1>1. /\ message \in 1..Len(messages) /\ Above(stream, message) /\ Len(messages) \in Nat
      /\ requestCount \in 0..Len(messages) /\ requestCount < message
  BY SessionFacts DEF SessionInv, ReadingOK, CountOK, None
<1>2. LimitOK' /\ SpacingOK'
  <2>1. now' = now
    OBVIOUS
  <2>2. CASE pass = TRUE
    BY <2>1, <2>2, LimitPasses DEF SessionInv
  <2>3. CASE pass = FALSE
    BY <2>1, <2>3, LimitRefuses DEF SessionInv
  <2>. QED
    BY <2>2, <2>3
<1>3. ReadingOK'
  <2>1. Above(stream, 0)
    BY <1>1, SessionFacts DEF Above, Items, StreamOK
  <2>. QED
    BY <1>1, <2>1 DEF SessionInv, ReadingOK, None
<1>4. \A k \in Nat : k <= message => Above(stream, k)
  <2>1. \A i \in 1..Len(stream) : stream[i].message \in Nat
    BY SessionFacts DEF Items
  <2>. QED
    BY <1>1, <2>1 DEF Above
<1>5. CountOK'
  <2>1. requestCount' \in Nat /\ requestCount' <= message
    BY <1>1 DEF CheckRateLimit
  <2>2. requestCount' \in 0..Len(messages) /\ Above(stream, requestCount')
    BY <1>1, <1>4, <2>1
  <2>. QED
    BY <2>2 DEF CountOK
<1>6. ASSUME NEW i \in 1..Len(answers) PROVE answers[i].message < message
  <2>1. AnsweredOK(answers[i])
    BY DEF SessionInv, OrderOK
  <2>. QED
    BY <1>1, <2>1 DEF AnsweredOK, None
<1>7. OrderOK'
  <2>1. answers \in Seq([message : Nat, code : Codes]) /\ Len(answers) \in Nat
        /\ \A i, j \in 1..Len(answers) : i < j => answers[i].message < answers[j].message
    BY DEF SessionInv, OrderOK
  <2>2. CASE code = "none"
    <3>1. answers' = answers
      BY <2>2 DEF Answer
    <3>2. ASSUME NEW i \in 1..Len(answers') PROVE AnsweredOK(answers[i])'
      <4>1. PICK a : a = answers[i]
        OBVIOUS
      <4>2. AnsweredOK(a)
        BY <3>1, <4>1 DEF SessionInv, OrderOK
      <4>3. AnsweredOK(a)'
        BY <4>2 DEF AnsweredOK
      <4>. QED
        BY <3>1, <4>1, <4>3
    <3>. QED
      BY <2>1, <3>1, <3>2 DEF OrderOK
  <2>3. CASE code # "none"
    <3>1. PICK b : b = [message |-> message, code |-> code]
      OBVIOUS
    <3>2. answers' = Append(answers, b) /\ b \in [message : Nat, code : Codes] /\ b.message = message
      BY <1>1, <2>3, <3>1 DEF Answer
    <3>3. /\ answers' \in Seq([message : Nat, code : Codes]) /\ Len(answers') = Len(answers) + 1
          /\ answers'[Len(answers) + 1] = b /\ \A i \in 1..Len(answers) : answers'[i] = answers[i]
      BY <2>1, <3>2
    <3>4. AnsweredOK(b)'
      BY <1>1, <2>3, <3>1, <3>2 DEF AnsweredOK
    <3>5. ASSUME NEW i \in 1..Len(answers') PROVE AnsweredOK(answers[i])'
      <4>1. CASE i = Len(answers) + 1
        <5>1. answers'[i] = b
          BY <3>3, <4>1
        <5>. QED
          BY <3>4, <5>1
      <4>2. CASE i # Len(answers) + 1
        <5>0. i \in 1..Len(answers)
          <6>1. i \in 1..Len(answers) + 1 /\ Len(answers) \in Nat
            BY <2>1, <3>3
          <6>. QED
            BY <4>2, <6>1
        <5>1. i \in 1..Len(answers) /\ answers'[i] = answers[i]
          BY <3>3, <5>0
        <5>2. PICK a : a = answers[i]
          OBVIOUS
        <5>3. AnsweredOK(a)
          BY <5>1, <5>2 DEF SessionInv, OrderOK
        <5>4. AnsweredOK(a)'
          BY <5>3 DEF AnsweredOK
        <5>. QED
          BY <5>1, <5>2, <5>4
      <4>. QED
        BY <4>1, <4>2
    <3>6. ASSUME NEW i \in 1..Len(answers'), NEW j \in 1..Len(answers'), i < j
          PROVE  answers'[i].message < answers'[j].message
      <4>1. i \in 1..Len(answers) /\ answers'[i] = answers[i]
        BY <2>1, <3>3, <3>6
      <4>2. CASE j = Len(answers) + 1
        BY <1>6, <3>2, <3>3, <4>1, <4>2
      <4>3. CASE j # Len(answers) + 1
        <5>1. j \in 1..Len(answers) /\ answers'[j] = answers[j]
          BY <2>1, <3>3, <4>3
        <5>. QED
          BY <2>1, <3>6, <4>1, <5>1
      <4>. QED
        BY <4>2, <4>3
    <3>. QED
      BY <3>3, <3>5, <3>6 DEF OrderOK
  <2>. QED
    BY <2>2, <2>3
<1>. QED
  BY <1>2, <1>3, <1>5, <1>7 DEF SessionInv

(* Only a message with an id has a response code. *)
LEMMA ResponseCodes ==
    ASSUME NEW kind
    PROVE  Response(kind) \in Codes \cup {"none"} /\ (Response(kind) # "none" => HasId(kind))
<1>1. CASE kind \in {"request", "unknown"}
  <2>1. Response(kind) = HandleRequest(kind)
    BY <1>1 DEF Response
  <2>. QED
    BY <1>1, <2>1 DEF HandleRequest, HasId, Codes
<1>2. CASE kind = "noMethod"
  <2>1. Response(kind) = "InvalidRequest"
    BY <1>2 DEF Response
  <2>. QED
    BY <1>2, <2>1 DEF HasId, Codes
<1>3. CASE kind = "wrongShape"
  <2>1. Response(kind) = "ParseError"
    BY <1>3 DEF Response
  <2>. QED
    BY <1>3, <2>1 DEF HasId, Codes
<1>4. CASE kind \notin {"request", "unknown", "noMethod", "wrongShape"}
  <2>1. Response(kind) = "none"
    BY <1>4 DEF Response
  <2>. QED
    BY <2>1
<1>. QED
  BY <1>1, <1>2, <1>3, <1>4

LEMMA OverLimitCodes ==
    ASSUME NEW kind
    PROVE  OverLimitResponse(kind) \in Codes \cup {"none"} /\ (OverLimitResponse(kind) # "none" => HasId(kind))
<1>1. CASE kind \in {"request", "unknown", "noMethod"}
  <2>1. OverLimitResponse(kind) = "RequestCancelled"
    BY <1>1 DEF OverLimitResponse
  <2>. QED
    BY <1>1, <2>1 DEF HasId, Codes
<1>2. CASE kind \notin {"request", "unknown", "noMethod"}
  <2>1. OverLimitResponse(kind) = "none"
    BY <1>2 DEF OverLimitResponse
  <2>. QED
    BY <2>1
<1>. QED
  BY <1>1, <1>2

(* Nothing with an id is read out of a body whose length is wrong. *)
LEMMA ContentHasId == ASSUME NEW m, HasId(Content(m)) PROVE HasId(messages[m].kind)
BY DEF Content, HasId

LEMMA RefuseInv == ASSUME SessionInv, Refuse PROVE SessionInv'
<1>1. PICK code : code = OverLimitResponse(Content(message))
  OBVIOUS
<1>2. code \in Codes \cup {"none"} /\ (code # "none" => HasId(messages[message].kind))
  BY <1>1, OverLimitCodes, ContentHasId
<1>3. /\ pc = "handling" /\ CheckRateLimit(FALSE) /\ Answer(code)
      /\ UNCHANGED <<messages, stream, input, now>> /\ shutdown' = shutdown
      /\ pc' = "reading" /\ message' = None /\ contentLength' = "missing"
  BY <1>1 DEF Refuse, ReadAgain
<1>4. shutdown \in BOOLEAN
  BY DEF SessionInv, ReadingOK
<1>5. contentLength' \in Sizes
  BY <1>3 DEF Sizes, Values
<1>. QED
  BY <1>2, <1>3, <1>4, <1>5, Deals

LEMMA HandleInv == ASSUME SessionInv, Handle PROVE SessionInv'
<1>1. PICK code : code = Response(Content(message))
  OBVIOUS
<1>2. code \in Codes \cup {"none"} /\ (code # "none" => HasId(messages[message].kind))
  BY <1>1, ResponseCodes, ContentHasId
<1>3. shutdown \in BOOLEAN /\ contentLength \in Sizes
  BY DEF SessionInv, ReadingOK
<1>4. /\ pc = "handling" /\ CheckRateLimit(TRUE) /\ Answer(code)
      /\ UNCHANGED <<messages, stream, input, now>> /\ shutdown' \in BOOLEAN
      /\ pc' \in {"reading", "returned"} /\ message' = None /\ contentLength' \in Sizes
  BY <1>1, <1>3 DEF Handle, HandleNotification, ReadAgain, Sizes, Values
<1>. QED
  BY <1>2, <1>4, Deals

-----------------------------------------------------------------------------
(* The client and the clock *)

LEMMA ClientSendsInv ==
    ASSUME SessionInv, NEW kind \in Kinds, NEW length \in Lengths, ClientSends(kind, length)
    PROVE  SessionInv'
<1>1. PICK m : m = [kind |-> kind, length |-> length]
  OBVIOUS
<1>2. PICK n : n = Len(messages)
  OBVIOUS
<1>3. /\ input = "open" /\ n \in Nat /\ n < MaxMessages /\ MaxMessages \in Nat
      /\ messages' = Append(messages, m) /\ stream' = WithFrame(length, n + 1)
      /\ UNCHANGED <<input, pc, contentLength, message, limitVars, shutdown, now, answers>>
      /\ requestCount' = requestCount
  BY <1>1, <1>2, SessionFacts, BoundsAssumption DEF ClientSends, WithFrame, limitVars
<1>4. /\ messages \in Seq([kind : Kinds, length : Lengths]) /\ StreamOK(stream, n) /\ Whole(stream)
      /\ message \in 0..n /\ Above(stream, message)
      /\ requestCount \in 0..n /\ Above(stream, requestCount)
  BY <1>2, <1>3 DEF SessionInv, ReadingOK, CountOK
<1>5. /\ messages' \in Seq([kind : Kinds, length : Lengths]) /\ Len(messages') = n + 1
      /\ \A i \in 1..n : messages'[i] = messages[i]
  BY <1>1, <1>2, <1>3, <1>4
<1>6. StreamOK(stream', n + 1) /\ Whole(stream') /\ \A k \in 0..n : Above(stream, k) => Above(stream', k)
  BY <1>3, <1>4, FrameWritten
<1>7. ReadingOK'
  <2>1. message' \in 0..Len(messages') /\ Above(stream', message') /\ Len(messages') <= MaxMessages
    BY <1>3, <1>4, <1>5, <1>6
  <2>. QED
    BY <1>3, <1>5, <1>6, <2>1 DEF SessionInv, ReadingOK
<1>8. CountOK'
  <2>1. requestCount' \in 0..Len(messages') /\ Above(stream', requestCount')
    BY <1>3, <1>4, <1>5, <1>6
  <2>. QED
    BY <1>3, <2>1 DEF SessionInv, CountOK
<1>9. OrderOK'
  <2>1. ASSUME NEW a, AnsweredOK(a) PROVE AnsweredOK(a)'
    <3>1. /\ a \in [message : 1..n, code : Codes] /\ a.message \in 1..n /\ HasId(messages[a.message].kind)
          /\ Above(stream, a.message) /\ (message # None => a.message < message)
      BY <1>2, <2>1 DEF AnsweredOK
    <3>2. messages'[a.message] = messages[a.message] /\ Above(stream', a.message)
      BY <1>3, <1>5, <1>6, <3>1
    <3>3. a \in [message : 1..n + 1, code : Codes]
      BY <1>3, <3>1
    <3>. QED
      BY <1>3, <1>5, <3>1, <3>2, <3>3 DEF AnsweredOK, HasId
  <2>. QED
    BY <1>3, <2>1 DEF SessionInv, OrderOK
<1>10. LimitOK' /\ SpacingOK'
  <2>1. now' \in now..MaxTime /\ UNCHANGED limitVars
    BY <1>3, BoundsAssumption DEF SessionInv, LimitOK
  <2>. QED
    BY <2>1, LimitKept DEF SessionInv
<1>. QED
  BY <1>7, <1>8, <1>9, <1>10 DEF SessionInv

(* The input ends, or time passes, or nothing happens at all. *)
LEMMA OutsideInv ==
    ASSUME SessionInv, UNCHANGED <<messages, pc, contentLength, message, limitVars, shutdown, answers>>,
           now' \in now..MaxTime, input' \in {"open", "eof", "broken"},
           StreamOK(stream', Len(messages)), \A k : Above(stream, k) => Above(stream', k),
           input' = "open" => input = "open" /\ stream' = stream
    PROVE  SessionInv'
<1>1. UNCHANGED <<messages, pc, contentLength, message, shutdown, answers>> /\ requestCount' = requestCount
  BY DEF limitVars
<1>2. ReadingOK'
  BY <1>1 DEF SessionInv, ReadingOK
<1>3. CountOK'
  BY <1>1 DEF SessionInv, CountOK
<1>4. OrderOK'
  BY <1>1 DEF SessionInv, OrderOK, AnsweredOK
<1>5. LimitOK' /\ SpacingOK'
  BY LimitKept DEF SessionInv
<1>. QED
  BY <1>2, <1>3, <1>4, <1>5 DEF SessionInv

LEMMA InputEndsInv ==
    ASSUME SessionInv, NEW how \in {"eof", "broken"}, NEW whole \in BOOLEAN, InputEnds(how, whole)
    PROVE  SessionInv'
<1>1. /\ UNCHANGED <<messages, pc, contentLength, message, limitVars, shutdown, answers>>
      /\ now' = now /\ input' = how
      /\ stream' = stream \/ (stream # <<>> /\ stream' = SubSeq(stream, 1, Len(stream) - 1))
  BY DEF InputEnds
<1>2. now' \in now..MaxTime
  BY <1>1, BoundsAssumption DEF SessionInv, LimitOK
<1>3. StreamOK(stream', Len(messages)) /\ \A k : Above(stream, k) => Above(stream', k)
  <2>1. CASE stream' = stream
    BY <2>1, SessionFacts
  <2>2. CASE stream # <<>> /\ stream' = SubSeq(stream, 1, Len(stream) - 1)
    <3>1. Len(stream) - 1 \in 0..Len(stream) /\ 1 \in 1..Len(stream) + 1
      <4>1. stream \in Seq(Items(Len(messages)))
        BY SessionFacts DEF StreamOK
      <4>. QED
        BY <2>2, <4>1
    <3>. QED
      BY <2>2, <3>1, SessionFacts, PartOfStream
  <2>. QED
    BY <1>1, <2>1, <2>2
<1>. QED
  BY <1>1, <1>2, <1>3, OutsideInv

LEMMA TickInv == ASSUME SessionInv, Tick \/ UNCHANGED vars PROVE SessionInv'
<1>1. /\ UNCHANGED <<messages, pc, contentLength, message, limitVars, shutdown, answers>>
      /\ UNCHANGED <<input, stream>> /\ now' \in {now, now + 1} /\ (now' = now \/ now < MaxTime)
  BY DEF Tick, vars, readVars, limitVars
<1>2. now' \in now..MaxTime
  BY <1>1, BoundsAssumption DEF SessionInv, LimitOK
<1>3. StreamOK(stream', Len(messages)) /\ input' \in {"open", "eof", "broken"}
  BY <1>1 DEF SessionInv, ReadingOK
<1>. QED
  BY <1>1, <1>2, <1>3, OutsideInv

LEMMA InitSession == Init => SessionInv
<1>1. SUFFICES ASSUME Init PROVE SessionInv
  OBVIOUS
<1>2. /\ messages = <<>> /\ stream = <<>> /\ input = "open" /\ pc = "reading" /\ contentLength = "missing"
      /\ message = None /\ requestCount = 0 /\ lastReset = 0 /\ shutdown = FALSE
      /\ now = 0 /\ answers = <<>> /\ allowed = <<>>
  BY <1>1 DEF Init
<1>3. Len(messages) = 0 /\ Len(answers) = 0 /\ Len(allowed) = 0
  BY <1>2
<1>4. ReadingOK
  <2>1. StreamOK(stream, 0) /\ Above(stream, 0) /\ Whole(stream)
    BY <1>2, EmptyStream
  <2>2. messages \in Seq([kind : Kinds, length : Lengths])
    BY <1>2
  <2>3. Len(messages) <= MaxMessages /\ message \in 0..Len(messages)
    BY <1>2, <1>3, BoundsAssumption DEF None
  <2>4. StreamOK(stream, Len(messages)) /\ Above(stream, message)
    BY <1>2, <1>3, <2>1 DEF None
  <2>. QED
    BY <1>2, <2>1, <2>2, <2>3, <2>4 DEF ReadingOK, Sizes, Values
<1>5. CountOK /\ OrderOK
  BY <1>2, <1>3, EmptyStream DEF CountOK, OrderOK, None
<1>6. LimitOK /\ SpacingOK
  <2>1. InWindow = 0 /\ Before = 0
    BY <1>2, <1>3, BoundsAssumption DEF InWindow, Before
  <2>2. 1..0 - RateLimitRequests = {} /\ 1..0 - 2 * RateLimitRequests = {}
    BY BoundsAssumption
  <2>. QED
    BY <1>2, <1>3, <2>1, <2>2, BoundsAssumption DEF LimitOK, SpacingOK
<1>. QED
  BY <1>4, <1>5, <1>6 DEF SessionInv

LEMMA NextSession == SessionInv /\ [Next]_vars => SessionInv'
<1>1. SUFFICES ASSUME SessionInv, [Next]_vars PROVE SessionInv'
  OBVIOUS
<1>2. CASE Run
  BY <1>1, <1>2, ReadHeaderInv, RejectHeaderInv, PanicInv, ReadContentInv, StreamIsLost, ReadEOFInv, RefuseInv, HandleInv DEF Run
<1>. QED
  BY <1>1, <1>2, ClientSendsInv, InputEndsInv, TickInv DEF Next

LEMMA SessionInvariance == Spec => []SessionInv
BY InitSession, NextSession, PTL DEF Spec

-----------------------------------------------------------------------------

LEMMA SessionTypes == SessionInv => TypeOK
<1>1. SUFFICES ASSUME SessionInv PROVE TypeOK
  OBVIOUS
<1>2. /\ Len(messages) \in Nat /\ Len(messages) <= MaxMessages /\ MaxMessages \in Nat
      /\ Messages = 1..Len(messages) /\ DOMAIN stream = 1..Len(stream)
  BY <1>1, SessionFacts, BoundsAssumption DEF SessionInv, ReadingOK, Messages
<1>3. \A i \in DOMAIN stream :
         stream[i] \in [item : {"length", "blank", "body", "rest"}, value : Values, message : 0..MaxMessages]
  BY <1>1, <1>2, SessionFacts DEF Items
<1>4. /\ DOMAIN answers = 1..Len(answers) /\ DOMAIN allowed = 1..Len(allowed)
      /\ \A i \in DOMAIN answers : answers[i] \in [message : Messages, code : Codes]
      /\ \A i \in DOMAIN allowed : allowed[i] \in 0..now
  <2>1. DOMAIN answers = 1..Len(answers) /\ DOMAIN allowed = 1..Len(allowed)
    BY <1>1 DEF SessionInv, OrderOK, LimitOK
  <2>2. \A i \in DOMAIN answers : answers[i] \in [message : Messages, code : Codes]
    BY <1>1, <1>2, <2>1 DEF SessionInv, OrderOK, AnsweredOK
  <2>3. \A i \in DOMAIN allowed : allowed[i] \in 0..now
    BY <1>1, <2>1, LimitFacts DEF SessionInv, LimitOK
  <2>. QED
    BY <2>1, <2>2, <2>3
<1>5. requestCount \in 0..MaxMessages /\ message \in Messages \cup {None}
  BY <1>1, <1>2 DEF SessionInv, CountOK, ReadingOK, None
<1>. QED
  BY <1>1, <1>2, <1>3, <1>4, <1>5 DEF SessionInv, ReadingOK, LimitOK, TypeOK, Values, Sizes

LEMMA SessionAnswersInOrder == SessionInv => AnswersInOrder
<1>1. SUFFICES ASSUME SessionInv PROVE AnswersInOrder
  OBVIOUS
<1>2. DOMAIN answers = 1..Len(answers)
  BY <1>1 DEF SessionInv, OrderOK
<1>. QED
  BY <1>1, <1>2 DEF SessionInv, OrderOK, AnsweredOK, AnswersInOrder

(* The types of the session's state. *)
THEOREM SessionTypeCorrect == Spec => []TypeOK
BY SessionInvariance, SessionTypes, PTL

(* Run and handleMessage: however many messages there are, damaged or over the
   limit, the responses come in the order of the requests, at most one for each,
   and nothing but a message with an id gets one. *)
THEOREM AnswersAlwaysInOrder == Spec => []AnswersInOrder
BY SessionInvariance, SessionAnswersInOrder, PTL

(* checkRateLimit: for every limit and window, and every series of arrivals, no
   stretch of a window's length sees more than twice the limit. *)
THEOREM BurstNeverMoreThanTwice == Spec => []BurstAtMostTwice
<1>1. SessionInv => BurstAtMostTwice
  BY SpacingBounds DEF SessionInv
<1>. QED
  BY <1>1, SessionInvariance, PTL
=============================================================================
