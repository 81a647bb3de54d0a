------------------------ MODULE HealthPipelineProofs ------------------------
(***************************************************************************)
(* For every policy, any callers, readings, times and faults: the stored   *)
(* chain of a root's health proofs is canonical and replays decision by    *)
(* decision, it ends UNHEALTHY exactly when the root's intent was made for *)
(* it, and a call is answered with what is stored.                         *)
(*                                                                         *)
(* The invariant adds what a call and a late transaction hold: a prefix of *)
(* the stored chain, and a proof that was evaluated on exactly that prefix.*)
(* The contracts need a second one (HInv): every stored decision leaves a  *)
(* sound state, and what a sound state and a sound observation are         *)
(* evaluated to is a decision that its contract admits (HealthSound).      *)
(***************************************************************************)
EXTENDS HealthPipeline, FiniteSetTheorems, SequenceTheorems, TLAPS

E == ExpectedEpoch

IsSeq(s) == s \in Seq(Range(s))
IsPrefixOf(s, n, t) == n \in 0..Len(t) /\ s = SubSeq(t, 1, n)

\* The proof after a chain, of its next window and evaluated on that chain.
Follows(expected, p) ==
    /\ p.decision = EvaluateHealth(E, PriorState(E, expected), p.observation, p.decision.at)
    /\ p.observation.epoch = E /\ p.observation.window = NextWindow(expected)
    /\ p.observation.observed \in Nat
    /\ p.observation.requests \in Nat /\ p.observation.latency \in Nat
    /\ p.observation.ok \in Nat /\ p.observation.errors \in Nat
Grows(expected, proofs) ==
    /\ IsSeq(expected) /\ proofs = expected \o <<Last(proofs)>>
    /\ Follows(expected, Last(proofs))

(* ----------------------- the inductive invariant ----------------------- *)

\* A window was observed in time and completely, without conflicts, with enough
\* requests.
Supports(o) ==
    /\ Ready(o.window) <= o.observed /\ o.observed <= Deadline(o.window)
    /\ o.completeness = "COMPLETE" /\ ~o.conflicting /\ o.requests >= MinRequests
GoodWindow(o) == Supports(o) /\ ThresholdsMet(o.errors, o.ok, o.requests, o.latency)
BadWindow(o) == Supports(o) /\ UnhealthyReasons(o.errors, o.ok, o.requests, o.latency) # <<>>

StateShaped(s) ==
    /\ DOMAIN s = {"epoch", "last", "healthy", "unhealthy", "evaluated", "observation",
                   "consumed", "prior"}
    /\ s.healthy \in Nat /\ s.unhealthy \in Nat /\ s.evaluated \in Nat

Verdicts == {"HEALTHY", "UNHEALTHY"}

SeenGood(proofs, k) ==
    \E i \in DOMAIN proofs : proofs[i].observation.window = k /\ GoodWindow(proofs[i].observation)
SeenBad(proofs, k) ==
    \E i \in DOMAIN proofs : proofs[i].observation.window = k /\ BadWindow(proofs[i].observation)

\* A streak that is carried on has the evidence of its last window.
Streaks(proofs) ==
    LET s == PriorState(E, proofs)
    IN /\ StateShaped(s)
       /\ s.healthy > 0 => SeenGood(proofs, s.evaluated)
       /\ s.unhealthy > 0 => SeenBad(proofs, s.evaluated)

\* A verdict ends the evaluation and has the evidence of two windows.
VerdictsEnd(proofs) ==
    \A i \in DOMAIN proofs :
        proofs[i].decision.status \in Verdicts => proofs[i].decision.next = NoTime
VerdictsSeen(proofs) ==
    LET k == Last(proofs).observation.window
    IN proofs # <<>> =>
         /\ Last(proofs).decision.status = "HEALTHY" => SeenGood(proofs, k) /\ SeenGood(proofs, k - 1)
         /\ Last(proofs).decision.status = "UNHEALTHY" => SeenBad(proofs, k) /\ SeenBad(proofs, k - 1)

StoredOK ==
    /\ IsSeq(chain) /\ ReplaysExactly(E, chain)
    /\ Streaks(chain) /\ VerdictsEnd(chain) /\ VerdictsSeen(chain)
    /\ chain # <<>> => ValidChain(E, chain) /\ anchored
    /\ UnhealthyHasIntent
    /\ dispatched => IsUnhealthy(chain)

LateOK ==
    \A t \in late : Grows(t.expected, t.proofs) /\ ValidChain(E, t.proofs)

Shaped(k) == DOMAIN k = {"pc", "seq", "snap", "proof", "out"}

\* A call at work holds the chain that its operator named; one that has found
\* its proof stored holds the chain up to that proof.
CallFits(k, stored) ==
    /\ Shaped(k)
    /\ k.pc \in {"verify", "collect", "refresh", "append", "resolve", "concurrent"} =>
         IsPrefixOf(k.snap, k.seq, stored)
    /\ k.pc \in {"refresh", "append", "resolve"} => Grows(k.snap, k.snap \o k.proof)
    /\ k.pc \in {"adopt", "record", "recover"} =>
         k.seq \in Nat /\ IsPrefixOf(k.snap, k.seq + 1, stored)
    /\ k.pc = "recover" => IsUnhealthy(k.snap)

CallsOK == DOMAIN call = Caller /\ \A c \in Caller : CallFits(call[c], chain)

WorldOK ==
    /\ now \in ReceiptAt..MaxTime /\ epoch \in {1, 2} /\ faults \in 0..MaxFaults
    /\ intent \in {None, "unhealthy", "revoked"}

IInv == WorldOK /\ StoredOK /\ LateOK /\ CallsOK

(* ------------------------------ sequences ------------------------------ *)

LEMMA SeqFacts ==
    ASSUME NEW s, IsSeq(s)
    PROVE  /\ Len(s) \in Nat /\ DOMAIN s = 1..Len(s)
           /\ SubSeq(s, 1, Len(s)) = s
           /\ s = <<>> <=> Len(s) = 0
<1> DEFINE S == Range(s)
<1>1. s \in Seq(S)
  BY DEF IsSeq
<1> HIDE DEF S
<1>2. QED
  BY <1>1, LenProperties, SubSeqFull, EmptySeq

LEMMA SnocFacts ==
    ASSUME NEW s, IsSeq(s), NEW p, NEW t, t = s \o <<p>>
    PROVE  /\ IsSeq(t) /\ Len(t) = Len(s) + 1 /\ t # <<>>
           /\ Last(t) = p /\ t[Len(t)] = p
           /\ \A i \in 1..Len(s) : t[i] = s[i]
           /\ \A n \in 0..Len(s) : SubSeq(t, 1, n) = SubSeq(s, 1, n)
           /\ SubSeq(t, 1, Len(s)) = s /\ Front(t) = s
<1> DEFINE S == Range(s) \cup {p}
<1>1. s \in Seq(S) /\ <<p>> \in Seq(S) /\ Len(s) \in Nat
  <2>1. s \in Seq(Range(s))
    BY DEF IsSeq
  <2>2. s \in Seq(S)
    BY <2>1, SeqMonotonic
  <2>3. QED
    BY <2>2, LenProperties
<1> HIDE DEF S
<1>2. /\ t \in Seq(S) /\ Len(t) = Len(s) + 1
      /\ \A i \in 1..Len(s) : t[i] = s[i]
      /\ t[Len(s) + 1] = p
  BY <1>1, ConcatProperties
<1>4. IsSeq(t)
  BY <1>2, SeqOfRange DEF IsSeq
<1>5. ASSUME NEW n \in 0..Len(s) PROVE SubSeq(t, 1, n) = SubSeq(s, 1, n)
  <2>1. CASE n = 0
    BY <2>1, SubSeqEmpty
  <2>2. CASE n # 0
    <3>1. 1 \in 1..Len(s) /\ n \in 1..Len(s)
      BY <1>1, <2>2
    <3>2. QED
      BY <1>1, <3>1, SubSeqOfConcat1
  <2>3. QED
    BY <2>1, <2>2
<1>6. SubSeq(t, 1, Len(s)) = s
  <2>1. Len(s) \in 0..Len(s)
    BY <1>1
  <2>2. SubSeq(s, 1, Len(s)) = s
    BY <1>1, SubSeqFull
  <2>3. QED
    BY <1>5, <2>1, <2>2
<1>7. t # <<>>
  BY <1>1, <1>2
<1>8. QED
  BY <1>1, <1>2, <1>4, <1>5, <1>6, <1>7 DEF Last, Front

\* A longer chain has the same prefixes.
LEMMA PrefixGrows ==
    ASSUME NEW s, IsSeq(s), NEW p, NEW t, t = s \o <<p>>, NEW u, NEW n, IsPrefixOf(u, n, s)
    PROVE  IsPrefixOf(u, n, t)
<1>1. Len(s) \in Nat /\ Len(t) = Len(s) + 1 /\ n \in 0..Len(s)
  BY SeqFacts, SnocFacts DEF IsPrefixOf
<1>2. n \in 0..Len(t)
  BY <1>1
<1>3. SubSeq(t, 1, n) = SubSeq(s, 1, n)
  BY <1>1, SnocFacts
<1>4. QED
  BY <1>2, <1>3 DEF IsPrefixOf

LEMMA PrefixFacts ==
    ASSUME NEW s, IsSeq(s), NEW u, NEW n, IsPrefixOf(u, n, s)
    PROVE  /\ Len(u) = n /\ IsSeq(u) /\ n \in Nat /\ n <= Len(s)
           /\ \A i \in 1..n : u[i] = s[i]
<1> DEFINE S == Range(s)
<1>1. s \in Seq(S) /\ n \in Nat /\ n <= Len(s) /\ Len(s) \in Nat
  BY SeqFacts DEF IsPrefixOf, IsSeq
<1>2. \A i \in 1..n : s[i] \in S
  BY <1>1, ElementOfSeq
<1> HIDE DEF S
<1>3. u \in Seq(S) /\ Len(u) = n /\ \A i \in 1..n : u[i] = s[i]
  BY <1>1, <1>2, SubSeqProperties DEF IsPrefixOf
<1>4. IsSeq(u)
  BY <1>3, SeqOfRange DEF IsSeq
<1>5. QED
  BY <1>1, <1>3, <1>4

LEMMA WholePrefix ==
    ASSUME NEW s, IsSeq(s), NEW n, Len(s) = n
    PROVE  IsPrefixOf(s, n, s) /\ n \in Nat
  BY SeqFacts DEF IsPrefixOf

(* ------------------------------- readings ------------------------------ *)

\* A set of numbers has a least one; induction over data is by least counterexamples.
LEMMA NatMin ==
    ASSUME NEW T \in SUBSET Nat, T # {}
    PROVE  \E m \in T : \A n \in T : m <= n
<1> DEFINE R == OpToRel(<, Nat)
<1>1. IsWellFoundedOn(R, Nat)
  BY NatLessThanWellFounded
<1>2. \A x, y \in Nat : y < x => <<y, x>> \in R
  BY DEF OpToRel
<1> HIDE DEF R
<1>3. \E x \in T : \A y \in T : ~(<<y, x>> \in R)
  BY <1>1, WFMin
<1>4. PICK x \in T : \A y \in T : ~(<<y, x>> \in R)
  BY <1>3
<1>5. \A y \in T : x \in Nat /\ y \in Nat /\ ~(y < x)
  BY <1>2, <1>4
<1>6. \A y \in T : x <= y
  BY <1>5
<1>7. QED
  BY <1>6

\* FlattenSeq puts sequences one after the other.
LEMMA FlattenTyped ==
    ASSUME NEW S, NEW ss \in Seq(Seq(S))
    PROVE  FlattenSeq(ss) \in Seq(S)
<1> DEFINE n == Len(ss)
           Built(k, h) == /\ h \in [1..k -> Seq(S)]
                         /\ \A i \in 1..k : h[i] = IF i = 1 THEN ss[i] ELSE h[i - 1] \o ss[i]
           f == CHOOSE g : g = [i \in 1..n |-> IF i = 1 THEN ss[i] ELSE g[i - 1] \o ss[i]]
<1>1. n \in Nat /\ \A i \in 1..n : ss[i] \in Seq(S)
  BY LenProperties, ElementOfSeq
<1>2. CASE n = 0
  BY <1>2, EmptySeq DEF FlattenSeq
<1>3. CASE n # 0
  <2>1. \A k \in 1..n : \E h : Built(k, h)
    <3> DEFINE T == {k \in 1..n : ~ \E h : Built(k, h)}
    <3>1. SUFFICES ASSUME T # {} PROVE FALSE
      OBVIOUS
    <3>2. T \in SUBSET Nat
      BY <1>1
    <3>3. PICK k \in T : \A j \in T : k <= j
      BY <3>1, <3>2, NatMin
    <3>4. k \in 1..n /\ ~ \E h : Built(k, h)
      BY <3>3
    <3>5. CASE k = 1
      <4>1. Built(1, [i \in 1..1 |-> ss[1]])
        BY <1>1, <1>3
      <4>2. QED
        BY <3>4, <3>5, <4>1
    <3>6. CASE k # 1
      <4>1. k - 1 \in 1..n
        BY <1>1, <3>4, <3>6
      <4>2. PICK h : Built(k - 1, h)
        <5>1. k - 1 \notin T
          <6> HIDE DEF T
          <6>1. QED
            BY <1>1, <3>3, <3>4
        <5>2. \E h : Built(k - 1, h)
          <6> HIDE DEF Built
          <6>1. QED
            BY <4>1, <5>1
        <5>3. QED
          BY <5>2
      <4> DEFINE hh == [i \in 1..k |-> IF i = k THEN h[k - 1] \o ss[k] ELSE h[i]]
      <4>3. h[k - 1] \in Seq(S) /\ ss[k] \in Seq(S)
        BY <1>1, <3>4, <3>6, <4>2
      <4>4. h[k - 1] \o ss[k] \in Seq(S)
        BY <4>3, ConcatProperties
      <4>5. hh \in [1..k -> Seq(S)]
        BY <1>1, <3>4, <4>2, <4>4
      <4>6. ASSUME NEW i \in 1..k
            PROVE  hh[i] = IF i = 1 THEN ss[i] ELSE hh[i - 1] \o ss[i]
        <5>1. CASE i = k
          <6>1. i - 1 \in 1..k /\ i - 1 # k
            BY <1>1, <3>4, <3>6, <5>1
          <6>2. hh[i] = h[k - 1] \o ss[k] /\ hh[i - 1] = h[i - 1]
            BY <5>1, <6>1
          <6>3. QED
            BY <3>6, <5>1, <6>2
        <5>2. CASE i # k
          <6>1. i \in 1..k - 1 /\ (i # 1 => i - 1 \in 1..k /\ i - 1 # k)
            BY <1>1, <3>4, <5>2
          <6>2. hh[i] = h[i] /\ (i # 1 => hh[i - 1] = h[i - 1])
            BY <5>2, <6>1
          <6>3. h[i] = IF i = 1 THEN ss[i] ELSE h[i - 1] \o ss[i]
            BY <4>2, <6>1
          <6> HIDE DEF hh
          <6>4. QED
            BY <6>2, <6>3
        <5>3. QED
          BY <5>1, <5>2
      <4> HIDE DEF hh
      <4>7. Built(k, hh)
        BY <4>5, <4>6
      <4>8. QED
        BY <3>4, <4>7
    <3>7. QED
      BY <3>5, <3>6
  <2>2. PICK h : Built(n, h)
    <3> HIDE DEF Built
    <3>1. n \in 1..n
      BY <1>1, <1>3
    <3>2. QED
      BY <2>1, <3>1
  <2>3. h = [i \in 1..n |-> IF i = 1 THEN ss[i] ELSE h[i - 1] \o ss[i]]
    BY <2>2
  <2>4. f = [i \in 1..n |-> IF i = 1 THEN ss[i] ELSE f[i - 1] \o ss[i]]
    BY <2>3
  <2>5. FlattenSeq(ss) = f[n]
    BY <1>3 DEF FlattenSeq
  <2> HIDE DEF f
  <2>6. \A i \in 1..n : f[i] \in Seq(S)
    <3> DEFINE T == {i \in 1..n : f[i] \notin Seq(S)}
    <3>1. SUFFICES ASSUME T # {} PROVE FALSE
      OBVIOUS
    <3>2. T \in SUBSET Nat
      BY <1>1
    <3>3. PICK k \in T : \A j \in T : k <= j
      BY <3>1, <3>2, NatMin
    <3>4. f[k] = IF k = 1 THEN ss[k] ELSE f[k - 1] \o ss[k]
      BY <2>4, <3>3
    <3>5. CASE k = 1
      BY <1>1, <3>3, <3>4, <3>5
    <3>6. CASE k # 1
      <4>1. f[k - 1] \in Seq(S) /\ ss[k] \in Seq(S)
        BY <1>1, <3>3, <3>6
      <4>2. QED
        BY <3>3, <3>4, <3>6, <4>1, ConcatProperties
    <3>7. QED
      BY <3>5, <3>6
  <2>7. QED
    BY <1>1, <1>3, <2>5, <2>6
<1>4. QED
  BY <1>2, <1>3

SlottedPoint == [slot : Slots, value : Nat]

\* Pages that decode hold points of the queried slots, and so does their sequel.
LEMMA PagesTyped ==
    ASSUME NEW pages \in Seq(MonitoringPage), NEW slots \in SUBSET Slots,
           CollectPages(pages, slots).valid
    PROVE  CollectPages(pages, slots).points \in Seq(SlottedPoint)
<1>1. \A i \in DOMAIN pages : \A j \in DOMAIN pages[i] : pages[i][j].slot \in slots
  BY DEF CollectPages, PageDecodes
<1>2. \A i \in 1..Len(pages) : pages[i] \in Seq(SlottedPoint)
  <2> TAKE i \in 1..Len(pages)
  <2>1. pages[i] \in MonitoringPage /\ i \in DOMAIN pages
    BY LenProperties, ElementOfSeq
  <2> DEFINE page == pages[i]
  <2>2. page \in Seq([slot : STRING, value : Nat])
    BY <2>1 DEF MonitoringPage
  <2>3. \A j \in DOMAIN page : page[j].slot \in slots
    BY <1>1, <2>1
  <2> HIDE DEF page
  <2>4. Len(page) \in Nat /\ page \in [1..Len(page) -> [slot : STRING, value : Nat]]
    BY <2>2, LenProperties
  <2>5. \A j \in 1..Len(page) : page[j] \in SlottedPoint
    BY <2>3, <2>4 DEF SlottedPoint
  <2>6. page \in [1..Len(page) -> SlottedPoint]
    BY <2>4, <2>5
  <2>7. page \in Seq(SlottedPoint)
    BY <2>4, <2>6, SeqDef
  <2>8. QED
    BY <2>7 DEF page
<1>3. pages \in Seq(Seq(SlottedPoint))
  <2>1. Len(pages) \in Nat /\ pages \in [1..Len(pages) -> MonitoringPage]
    BY LenProperties
  <2>2. pages \in [1..Len(pages) -> Seq(SlottedPoint)]
    BY <1>2, <2>1
  <2> HIDE DEF SlottedPoint
  <2>3. QED
    BY <2>1, <2>2, SeqDef
<1>4. QED
  BY <1>3, FlattenTyped DEF CollectPages

LEMMA PointsTyped ==
    ASSUME NEW reading \in Readings, ReadingValid(reading)
    PROVE  ReadingPoints(reading) \in Seq(SlottedPoint)
<1>1. reading.requests \in Seq(MonitoringPage) /\ reading.latency \in Seq(MonitoringPage)
  BY PipelineConstants
<1>2. Classes \in SUBSET Slots /\ {"latency"} \in SUBSET Slots
  BY DEF Slots
<1>3. /\ CollectPages(reading.requests, Classes).valid
      /\ CollectPages(reading.latency, {"latency"}).valid
  BY DEF ReadingValid, Queries
<1>4. /\ CollectPages(reading.requests, Classes).points \in Seq(SlottedPoint)
      /\ CollectPages(reading.latency, {"latency"}).points \in Seq(SlottedPoint)
  BY <1>1, <1>2, <1>3, PagesTyped
<1>5. QED
  BY <1>4, ConcatProperties DEF ReadingPoints, Queries

\* The samples of a window: of each slot with points the least value.
LEMMA SamplesTyped ==
    ASSUME NEW points \in Seq(SlottedPoint)
    PROVE  LET samples == CanonicalSamples(points)
           IN /\ DOMAIN samples = {s \in Slots : SlotValues(points, s) # {}}
              /\ \A s \in DOMAIN samples : samples[s] \in SlotValues(points, s) /\ samples[s] \in Nat
<1> DEFINE samples == CanonicalSamples(points)
<1>1. \A s : SlotValues(points, s) \in SUBSET Nat
  <2>1. \A i \in DOMAIN points : points[i] \in SlottedPoint
    BY LenProperties, ElementOfSeq
  <2>2. QED
    BY <2>1 DEF SlotValues, SlottedPoint
<1>2. DOMAIN samples = {s \in Slots : SlotValues(points, s) # {}}
  BY DEF CanonicalSamples
<1>3. ASSUME NEW s \in DOMAIN samples
      PROVE  samples[s] \in SlotValues(points, s) /\ samples[s] \in Nat
  <2>1. SlotValues(points, s) # {}
    BY <1>2
  <2>2. \E v \in SlotValues(points, s) : \A w \in SlotValues(points, s) : v <= w
    BY <1>1, <2>1, NatMin
  <2>3. samples[s] = CHOOSE v \in SlotValues(points, s) : \A w \in SlotValues(points, s) : v <= w
    BY <1>2 DEF CanonicalSamples
  <2>4. samples[s] \in SlotValues(points, s)
    BY <2>2, <2>3
  <2>5. QED
    BY <1>1, <2>4
<1>4. QED
  BY <1>2, <1>3

LEMMA ObservationTyped ==
    ASSUME NEW reading \in Readings, ReadingValid(reading), NEW k, NEW at, NEW o,
           o = BuildObservation(E, k, at, reading)
    PROVE  /\ o.epoch = E /\ o.window = k /\ o.observed = at
           /\ o.requests \in Nat /\ o.latency \in Nat /\ o.ok \in Nat /\ o.errors \in Nat
<1> DEFINE samples == CanonicalSamples(ReadingPoints(reading))
<1>1. \A s \in DOMAIN samples : samples[s] \in Nat
  BY PointsTyped, SamplesTyped
<1>2. o.epoch = E /\ o.window = k /\ o.observed = at
  BY DEF BuildObservation
<1>3. /\ o.requests = IF RequestsPresent(samples) THEN RequestCount(samples) ELSE 0
      /\ o.ok = ClassCount(samples, "2xx") /\ o.errors = ClassCount(samples, "5xx")
      /\ o.latency = IF LatencyPresent(samples) THEN LatencyMs(samples) ELSE 0
  BY DEF BuildObservation
<1> HIDE DEF samples
<1>4. \A c : ClassCount(samples, c) \in Nat
  BY <1>1 DEF ClassCount
<1>5. RequestCount(samples) \in Nat
  BY <1>4 DEF RequestCount
<1>6. LatencyPresent(samples) => LatencyMs(samples) \in Nat
  BY <1>1 DEF LatencyPresent, LatencyMs
<1>7. QED
  BY <1>2, <1>3, <1>4, <1>5, <1>6

(* ------------------------------ the evaluator -------------------------- *)

\* What a decision on the observation o in the state s may claim: a streak goes
\* on from the streak of s or from this window, and a verdict needs both.
Outcome(s, o, d) ==
    /\ StateShaped(d.state)
    /\ d.status \in Verdicts => d.next = NoTime
    /\ d.state.healthy > 0 =>
         \/ d.state.evaluated = s.evaluated /\ s.healthy > 0
         \/ d.state.evaluated = o.window /\ GoodWindow(o)
    /\ d.state.unhealthy > 0 =>
         \/ d.state.evaluated = s.evaluated /\ s.unhealthy > 0
         \/ d.state.evaluated = o.window /\ BadWindow(o)
    /\ d.status = "HEALTHY" => GoodWindow(o) /\ s.healthy > 0
    /\ d.status = "UNHEALTHY" => BadWindow(o) /\ s.unhealthy > 0

LEMMA DecideFacts ==
    ASSUME NEW status, NEW reasons, NEW prior, NEW s, NEW o, NEW at, NEW next
    PROVE  LET d == Decide(status, reasons, prior, s, o, at, next)
           IN d.status = status /\ d.state = s /\ (next = NoTime => d.next = NoTime)
  BY DEF Decide

LEMMA ResetFacts ==
    ASSUME NEW c, StateShaped(c)
    PROVE  /\ StateShaped(Reset(c))
           /\ Reset(c).healthy = 0 /\ Reset(c).unhealthy = 0
  BY DEF StateShaped, Reset

LEMMA KeptOutcome ==
    ASSUME NEW s, StateShaped(s), NEW o, NEW d, d.status \notin Verdicts, d.state = s
    PROVE  Outcome(s, o, d)
  BY DEF Outcome, Verdicts, StateShaped

LEMMA LostOutcome ==
    ASSUME NEW s, NEW c, StateShaped(c), NEW o, NEW d, d.status \notin Verdicts, d.state = Reset(c)
    PROVE  Outcome(s, o, d)
  BY ResetFacts DEF Outcome, Verdicts

LEMMA InsufficientOutcome ==
    ASSUME NEW s, StateShaped(s), NEW c, StateShaped(c), NEW o, NEW reason, NEW prior, NEW at, NEW next
    PROVE  /\ Outcome(s, o, Insufficient(reason, prior, s, o, at, next))
           /\ Outcome(s, o, Insufficient(reason, prior, Reset(c), o, at, next))
           /\ \A reasons : Outcome(s, o, Wait(reasons, prior, s, o, at, next))
<1>1. "INSUFFICIENT_EVIDENCE" \notin Verdicts /\ "WAIT" \notin Verdicts
  BY DEF Verdicts
<1>2. Outcome(s, o, Insufficient(reason, prior, s, o, at, next))
  BY <1>1, DecideFacts, KeptOutcome DEF Insufficient
<1>3. Outcome(s, o, Insufficient(reason, prior, Reset(c), o, at, next))
  BY <1>1, DecideFacts, LostOutcome DEF Insufficient
<1>4. \A reasons : Outcome(s, o, Wait(reasons, prior, s, o, at, next))
  BY <1>1, DecideFacts, KeptOutcome DEF Wait
<1>5. QED
  BY <1>2, <1>3, <1>4

LEMMA UncitedOutcome ==
    ASSUME NEW s, StateShaped(s), NEW o, NEW reason, NEW at
    PROVE  /\ Outcome(s, o, Uncited(reason, s, s, o, at))
           /\ Outcome(s, o, Uncited(reason, s, Reset(s), o, at))
<1>1. ASSUME NEW next
      PROVE  LET d == Uncited(reason, s, next, o, at)
             IN d.status \notin Verdicts /\ d.state = next
  BY DEF Uncited, Insufficient, Decide, Verdicts
<1>2. QED
  BY <1>1, KeptOutcome, LostOutcome

LEMMA ConcludedOutcome ==
    ASSUME NEW s, StateShaped(s), NEW c, StateShaped(c), NEW o, NEW at, NEW class, NEW met,
           c.evaluated = o.window, Supports(o),
           \/ /\ met = "HEALTHY_STREAK_MET" /\ GoodWindow(o)
              /\ c.unhealthy = 0 /\ c.healthy = Earlier(s.healthy + 1, HealthyStreak)
           \/ /\ met = "UNHEALTHY_STREAK_MET" /\ BadWindow(o)
              /\ c.healthy = 0 /\ c.unhealthy = Earlier(s.unhealthy + 1, UnhealthyStreak)
           \/ met = None /\ c.healthy = 0 /\ c.unhealthy = 0,
           NEW d, d = Concluded(s, c, o, at, class, met)
    PROVE  Outcome(s, o, d)
<1>1. s.healthy \in Nat /\ s.unhealthy \in Nat
  BY DEF StateShaped
<1>2. CASE met = "HEALTHY_STREAK_MET" /\ c.healthy >= HealthyStreak
  <2>1. d = Decide("HEALTHY", Append(class.reasons, met), s, c, o, at, NoTime)
    BY <1>2 DEF Concluded
  <2>2. d.status = "HEALTHY" /\ d.state = c /\ d.next = NoTime
    BY <2>1, DecideFacts
  <2>3. GoodWindow(o) /\ c.unhealthy = 0 /\ s.healthy > 0
    BY <1>1, <1>2 DEF Earlier, HealthyStreak, None
  <2>4. QED
    BY <2>2, <2>3 DEF Outcome
<1>3. CASE /\ ~(met = "HEALTHY_STREAK_MET" /\ c.healthy >= HealthyStreak)
           /\ met = "UNHEALTHY_STREAK_MET" /\ c.unhealthy >= UnhealthyStreak
  <2>1. d = Decide("UNHEALTHY", Append(class.reasons, met), s, c, o, at, NoTime)
    BY <1>3 DEF Concluded
  <2>2. d.status = "UNHEALTHY" /\ d.state = c /\ d.next = NoTime
    BY <2>1, DecideFacts
  <2>3. BadWindow(o) /\ c.healthy = 0 /\ s.unhealthy > 0
    BY <1>1, <1>3 DEF Earlier, UnhealthyStreak, None
  <2>4. QED
    BY <2>2, <2>3 DEF Outcome
<1>4. CASE /\ ~(met = "HEALTHY_STREAK_MET" /\ c.healthy >= HealthyStreak)
           /\ ~(met = "UNHEALTHY_STREAK_MET" /\ c.unhealthy >= UnhealthyStreak)
  <2>1. CASE c.evaluated >= MaxWindows
    <3>1. d = Decide("INSUFFICIENT_EVIDENCE", Append(class.reasons, "MAXIMUM_WINDOWS_EXHAUSTED"),
                     s, Reset(c), o, at, NoTime)
      BY <1>4, <2>1 DEF Concluded
    <3>2. d.status \notin Verdicts /\ d.state = Reset(c)
      BY <3>1, DecideFacts DEF Verdicts
    <3>3. QED
      BY <3>2, LostOutcome
  <2>2. CASE ~(c.evaluated >= MaxWindows)
    <3>1. d.status = "WAIT" /\ d.state = c
      BY <1>4, <2>2 DEF Concluded, Wait, Decide
    <3>2. c.healthy > 0 => GoodWindow(o)
      BY DEF None
    <3>3. c.unhealthy > 0 => BadWindow(o)
      BY DEF None
    <3>4. QED
      BY <3>1, <3>2, <3>3 DEF Outcome, Verdicts
  <2>3. QED
    BY <2>1, <2>2
<1>5. QED
  BY <1>2, <1>3, <1>4

LEMMA ThresholdsOutcome ==
    ASSUME NEW s, StateShaped(s), NEW n, StateShaped(n), NEW o, NEW at,
           n.evaluated = o.window, Supports(o)
    PROVE  Outcome(s, o, EvaluateThresholds(s, s, n, o, at))
<1> DEFINE class == ClassifyWindow(o)
           good == [n EXCEPT !.unhealthy = 0, !.healthy = Earlier(s.healthy + 1, HealthyStreak)]
           bad == [n EXCEPT !.healthy = 0, !.unhealthy = Earlier(s.unhealthy + 1, UnhealthyStreak)]
<1>1. \/ class.class = "unhealthy" /\ BadWindow(o)
      \/ class.class = "healthy" /\ GoodWindow(o)
      \/ class.class = "wait"
  BY DEF ClassifyWindow, GoodWindow, BadWindow
<1>2. s.healthy \in Nat /\ s.unhealthy \in Nat
  BY DEF StateShaped
<1>3. /\ Earlier(s.healthy + 1, HealthyStreak) \in Nat
      /\ Earlier(s.unhealthy + 1, UnhealthyStreak) \in Nat
  BY <1>2 DEF Earlier, HealthyStreak, UnhealthyStreak
<1>4. /\ StateShaped(good) /\ good.evaluated = n.evaluated
      /\ good.unhealthy = 0 /\ good.healthy = Earlier(s.healthy + 1, HealthyStreak)
  BY <1>3 DEF StateShaped
<1>5. /\ StateShaped(bad) /\ bad.evaluated = n.evaluated
      /\ bad.healthy = 0 /\ bad.unhealthy = Earlier(s.unhealthy + 1, UnhealthyStreak)
  BY <1>3 DEF StateShaped
<1>6. /\ StateShaped(Reset(n)) /\ Reset(n).evaluated = n.evaluated
      /\ Reset(n).healthy = 0 /\ Reset(n).unhealthy = 0
  BY DEF StateShaped, Reset
<1>7. /\ class.class = "healthy" =>
           EvaluateThresholds(s, s, n, o, at)
               = Concluded(s, good, o, at, class, "HEALTHY_STREAK_MET")
      /\ class.class = "unhealthy" =>
           EvaluateThresholds(s, s, n, o, at)
               = Concluded(s, bad, o, at, class, "UNHEALTHY_STREAK_MET")
      /\ class.class = "wait" =>
           EvaluateThresholds(s, s, n, o, at) = Concluded(s, Reset(n), o, at, class, None)
  BY DEF EvaluateThresholds
<1> HIDE DEF class, good, bad
<1>8. CASE class.class = "healthy" /\ GoodWindow(o)
  BY <1>4, <1>7, <1>8, ConcludedOutcome
<1>9. CASE class.class = "unhealthy" /\ BadWindow(o)
  BY <1>5, <1>7, <1>9, ConcludedOutcome
<1>10. CASE class.class = "wait"
  BY <1>6, <1>7, <1>10, ConcludedOutcome
<1>11. QED
  BY <1>1, <1>8, <1>9, <1>10

LEMMA EvidenceOutcome ==
    ASSUME NEW s, StateShaped(s), NEW n, StateShaped(n), NEW o, NEW at,
           n.evaluated = o.window, Ready(o.window) <= o.observed,
           o.observed \in Nat, o.requests \in Nat, Deadline(o.window) \in Nat
    PROVE  Outcome(s, o, EvaluateEvidence(s, s, n, o, at))
<1> DEFINE lost(reason) == Insufficient(reason, s, Reset(n), o, at, NextAfter(n, o, at))
           retry(reason) == IF at < Deadline(o.window)
                            THEN Insufficient(reason, s, s, o, at, Deadline(o.window))
                            ELSE lost(reason)
<1>1. \A reason : Outcome(s, o, lost(reason))
  BY InsufficientOutcome
<1>2. \A reason : Outcome(s, o, retry(reason))
  BY <1>1, InsufficientOutcome
<1>3. CASE o.observed > Deadline(o.window)
  BY <1>1, <1>3 DEF EvaluateEvidence
<1>4. CASE /\ ~(o.observed > Deadline(o.window))
           /\ Ends(o.window) - Window > ExpectedStart(s)
  BY <1>1, <1>4 DEF EvaluateEvidence
<1>5. CASE /\ ~(o.observed > Deadline(o.window)) /\ ~(Ends(o.window) - Window > ExpectedStart(s))
           /\ o.completeness # "COMPLETE"
  <2>1. EvaluateEvidence(s, s, n, o, at)
          = retry(IF o.completeness = "MISSING" THEN "SAMPLE_MISSING" ELSE "SAMPLE_PARTIAL")
    BY <1>5 DEF EvaluateEvidence
  <2> HIDE DEF retry
  <2>2. QED
    BY <1>2, <2>1
<1>6. CASE /\ ~(o.observed > Deadline(o.window)) /\ ~(Ends(o.window) - Window > ExpectedStart(s))
           /\ o.completeness = "COMPLETE" /\ o.conflicting
  BY <1>1, <1>6 DEF EvaluateEvidence
<1>7. CASE /\ ~(o.observed > Deadline(o.window)) /\ ~(Ends(o.window) - Window > ExpectedStart(s))
           /\ o.completeness = "COMPLETE" /\ ~o.conflicting /\ o.requests < MinRequests
  <2>1. EvaluateEvidence(s, s, n, o, at) = retry("MINIMUM_REQUESTS_NOT_MET")
    BY <1>7 DEF EvaluateEvidence
  <2> HIDE DEF retry
  <2>2. QED
    BY <1>2, <2>1
<1>8. CASE /\ ~(o.observed > Deadline(o.window)) /\ ~(Ends(o.window) - Window > ExpectedStart(s))
           /\ o.completeness = "COMPLETE" /\ ~o.conflicting /\ ~(o.requests < MinRequests)
  <2>1. EvaluateEvidence(s, s, n, o, at) = EvaluateThresholds(s, s, n, o, at)
    BY <1>8 DEF EvaluateEvidence
  <2>2. o.observed <= Deadline(o.window) /\ o.requests >= MinRequests
    BY <1>8 DEF MinRequests
  <2>3. Supports(o)
    BY <1>8, <2>2 DEF Supports
  <2>4. QED
    BY <2>1, <2>3, ThresholdsOutcome
<1>9. QED
  BY <1>3, <1>4, <1>5, <1>6, <1>7, <1>8

\* Where windows end, and that one follows the other.
LEMMA WindowFacts ==
    ASSUME NEW k \in Nat
    PROVE  /\ Started \in Nat /\ Ends(k) \in Nat /\ Deadline(k) \in Nat /\ Ready(k) \in Nat
           /\ Ends(0) = Started /\ Ends(k) = Started + k * Window /\ Ends(k + 1) = Ends(k) + Window
           /\ Ready(k) <= Deadline(k)
<1>1. /\ Window \in Nat /\ Window > 0 /\ Delay \in Nat /\ MaxDelay \in Nat /\ MaxDelay >= Delay
      /\ ReceiptAt \in Nat
  BY HealthPolicyAssumption, PipelineConstants DEF PolicyValid
<1>2. ReceiptAt \div Window \in Nat
  BY <1>1
<1>3. Started \in Nat
  BY <1>1, <1>2 DEF Started, NextMinute
<1>4. k * Window \in Nat /\ 0 * Window = 0 /\ (k + 1) * Window = k * Window + Window
  BY <1>1
<1>5. Ends(k) \in Nat /\ Ends(0) = Started /\ Ends(k + 1) = Ends(k) + Window
  BY <1>1, <1>3, <1>4 DEF Ends
<1>6. QED
  BY <1>1, <1>3, <1>5 DEF Deadline, Ready, Ends

LEMMA AdvanceFacts ==
    ASSUME NEW s, StateShaped(s), NEW o, StateMatches(s, E), s.evaluated < MaxWindows,
           o.window = s.evaluated + 1
    PROVE  /\ ExpectedStart(s) = Ends(s.evaluated)
           /\ (Ends(o.window) - ExpectedStart(s)) \div Window = 1
           /\ StateShaped(Advance(s, o, 1)) /\ Advance(s, o, 1).evaluated = o.window
<1>1. /\ s.evaluated \in Nat /\ o.window \in Nat /\ MaxWindows \in Nat
      /\ Window \in Nat /\ Window > 0
  BY HealthPolicyAssumption DEF StateShaped, PolicyValid
<1>2. /\ Ends(s.evaluated) \in Nat /\ Ends(o.window) = Ends(s.evaluated) + Window
      /\ Ends(0) = Started /\ Started \in Nat /\ Ends(s.evaluated) = Started + s.evaluated * Window
  BY <1>1, WindowFacts
<1>3. ExpectedStart(s) = Ends(s.evaluated)
  <2>1. s.last = IF s.evaluated = 0 THEN NoTime ELSE Ends(s.evaluated)
    BY <1>2 DEF StateMatches
  <2>2. QED
    BY <1>2, <2>1 DEF ExpectedStart, NoTime
<1>4. (Ends(o.window) - ExpectedStart(s)) \div Window = 1
  <2>1. Ends(o.window) - ExpectedStart(s) = Window
    BY <1>1, <1>2, <1>3
  <2>2. Window \div Window = 1
    BY <1>1
  <2>3. QED
    BY <2>1, <2>2
<1>5. Earlier(s.evaluated + 1, MaxWindows) = o.window
  BY <1>1 DEF Earlier
<1>6. StateShaped(Advance(s, o, 1)) /\ Advance(s, o, 1).evaluated = o.window
  BY <1>1, <1>5 DEF StateShaped, Advance
<1>7. QED
  BY <1>3, <1>4, <1>6

LEMMA WindowOutcome ==
    ASSUME NEW s, StateShaped(s), NEW o, StateMatches(s, E), s.evaluated < MaxWindows,
           o.window = s.evaluated + 1, o.observed \in Nat, o.requests \in Nat, NEW at
    PROVE  Outcome(s, o, EvaluateWindow(s, o, at))
<1> DEFINE n == Advance(s, o, 1)
           replay == ~o.conflicting /\ (\/ ObservationDigest(o) = s.observation
                                        \/ SampleSet(o) # {} /\ SampleSet(o) \subseteq s.consumed)
           missed == Ends(o.window) = s.last \/ Ends(o.window) - Window < ExpectedStart(s)
           untimely == at < Ready(o.window) \/ o.observed > at \/ o.observed < Ready(o.window)
<1>1. o.window \in Nat /\ Deadline(o.window) \in Nat /\ Ready(o.window) \in Nat
  BY WindowFacts DEF StateShaped
<1>2. /\ (Ends(o.window) - ExpectedStart(s)) \div Window = 1
      /\ StateShaped(n) /\ n.evaluated = o.window
  BY AdvanceFacts
<1>3. CASE replay
  BY <1>3, InsufficientOutcome DEF EvaluateWindow
<1>4. CASE ~replay /\ missed
  BY <1>4, InsufficientOutcome DEF EvaluateWindow
<1>5. CASE ~replay /\ ~missed /\ untimely
  BY <1>5, InsufficientOutcome DEF EvaluateWindow
<1>6. CASE ~replay /\ ~missed /\ ~untimely
  <2>1. EvaluateWindow(s, o, at) = EvaluateEvidence(s, s, n, o, at)
    BY <1>2, <1>6 DEF EvaluateWindow
  <2>2. Ready(o.window) <= o.observed
    BY <1>1, <1>6
  <2> HIDE DEF n
  <2>3. QED
    BY <1>1, <1>2, <2>1, <2>2, EvidenceOutcome
<1>7. QED
  BY <1>3, <1>4, <1>5, <1>6

LEMMA HealthOutcome ==
    ASSUME NEW s, StateShaped(s), NEW o, o.window = s.evaluated + 1,
           o.observed \in Nat, o.requests \in Nat, NEW at
    PROVE  Outcome(s, o, EvaluateHealth(E, s, o, at))
<1>1. CASE ~StateMatches(s, E)
  BY <1>1, UncitedOutcome DEF EvaluateHealth
<1>2. CASE StateMatches(s, E) /\ (s.healthy >= HealthyStreak \/ s.unhealthy >= UnhealthyStreak)
  BY <1>2, UncitedOutcome DEF EvaluateHealth
<1>3. CASE /\ StateMatches(s, E) /\ ~(s.healthy >= HealthyStreak \/ s.unhealthy >= UnhealthyStreak)
           /\ s.evaluated >= MaxWindows
  BY <1>3, UncitedOutcome DEF EvaluateHealth
<1>4. CASE /\ StateMatches(s, E) /\ ~(s.healthy >= HealthyStreak \/ s.unhealthy >= UnhealthyStreak)
           /\ ~(s.evaluated >= MaxWindows)
  <2>1. CASE o.epoch # E
    BY <1>4, <2>1, InsufficientOutcome DEF EvaluateHealth
  <2>2. CASE o.epoch = E
    <3>1. s.evaluated < MaxWindows
      BY <1>4, HealthPolicyAssumption DEF StateShaped, PolicyValid
    <3>2. EvaluateHealth(E, s, o, at) = EvaluateWindow(s, o, at)
      BY <1>4, <2>2 DEF EvaluateHealth
    <3>3. QED
      BY <1>4, <3>1, <3>2, WindowOutcome
  <2>3. QED
    BY <2>1, <2>2
<1>5. QED
  BY <1>1, <1>2, <1>3, <1>4

(* ------------------------------- the chain ----------------------------- *)

LEMMA EvidenceGrows ==
    ASSUME NEW proofs, IsSeq(proofs), NEW p, NEW grown, grown = proofs \o <<p>>, NEW k
    PROVE  /\ SeenGood(proofs, k) => SeenGood(grown, k)
           /\ SeenBad(proofs, k) => SeenBad(grown, k)
           /\ p.observation.window = k /\ GoodWindow(p.observation) => SeenGood(grown, k)
           /\ p.observation.window = k /\ BadWindow(p.observation) => SeenBad(grown, k)
<1>1. /\ Len(proofs) \in Nat /\ Len(grown) = Len(proofs) + 1
      /\ DOMAIN proofs = 1..Len(proofs) /\ DOMAIN grown = 1..Len(grown)
      /\ \A i \in 1..Len(proofs) : grown[i] = proofs[i]
      /\ grown[Len(grown)] = p
  BY SeqFacts, SnocFacts
<1>2. DOMAIN proofs \subseteq DOMAIN grown /\ Len(grown) \in DOMAIN grown
  BY <1>1
<1>3. QED
  BY <1>1, <1>2 DEF SeenGood, SeenBad

\* A proof that follows a chain of sustained streaks sustains them.
LEMMA StreaksGrow ==
    ASSUME NEW proofs, IsSeq(proofs), Streaks(proofs), VerdictsEnd(proofs),
           NEW p, Follows(proofs, p), NEW grown, grown = proofs \o <<p>>
    PROVE  Streaks(grown) /\ VerdictsEnd(grown) /\ VerdictsSeen(grown)
<1>1. /\ Len(proofs) \in Nat /\ Len(grown) = Len(proofs) + 1 /\ grown # <<>>
      /\ IsSeq(grown) /\ \A i \in 1..Len(proofs) : grown[i] = proofs[i]
      /\ grown[Len(grown)] = p /\ Last(grown) = p
  <2>1. Len(proofs) \in Nat
    BY SeqFacts
  <2>2. Len(grown) = Len(proofs) + 1 /\ \A i \in 1..Len(proofs) : grown[i] = proofs[i]
    BY SnocFacts
  <2>3. IsSeq(grown) /\ grown # <<>>
    BY SnocFacts
  <2>4. Last(grown) = p
    BY SnocFacts
  <2>5. grown[Len(grown)] = p
    BY <2>4 DEF Last
  <2>6. QED
    BY <2>1, <2>2, <2>3, <2>4, <2>5
<1> DEFINE s == PriorState(E, proofs)
           d == p.decision
           o == p.observation
           n == NextState(d)
<1>15. DOMAIN proofs = 1..Len(proofs) /\ DOMAIN grown = 1..Len(grown)
  BY <1>1, SeqFacts
<1>16. \A k : /\ SeenGood(proofs, k) => SeenGood(grown, k)
              /\ SeenBad(proofs, k) => SeenBad(grown, k)
              /\ o.window = k /\ GoodWindow(o) => SeenGood(grown, k)
              /\ o.window = k /\ BadWindow(o) => SeenBad(grown, k)
  BY EvidenceGrows
<1>2. StateShaped(s) /\ o.window = s.evaluated + 1 /\ s.evaluated \in Nat
  BY DEF Streaks, Follows, NextWindow, E, StateShaped
<1>3. Outcome(s, o, d)
  BY <1>2, HealthOutcome DEF Follows
<1>4. /\ StateShaped(n) /\ n.healthy = d.state.healthy /\ n.unhealthy = d.state.unhealthy
      /\ n.evaluated = d.state.evaluated
  BY <1>3 DEF Outcome, StateShaped, NextState
<1>5. PriorState(E, grown) = n
  BY <1>1 DEF PriorState
<1>6. s.healthy > 0 => SeenGood(grown, s.evaluated)
  BY <1>16 DEF Streaks
<1>7. s.unhealthy > 0 => SeenBad(grown, s.evaluated)
  BY <1>16 DEF Streaks
<1>8. GoodWindow(o) => SeenGood(grown, o.window)
  BY <1>16
<1>9. BadWindow(o) => SeenBad(grown, o.window)
  BY <1>16
<1>10. s.evaluated = o.window - 1
  BY <1>2
<1> HIDE DEF s, d, o, n
<1>11. Streaks(grown)
  <2>1. n.healthy > 0 => SeenGood(grown, n.evaluated)
    BY <1>3, <1>4, <1>6, <1>8 DEF Outcome
  <2>2. n.unhealthy > 0 => SeenBad(grown, n.evaluated)
    BY <1>3, <1>4, <1>7, <1>9 DEF Outcome
  <2>3. QED
    BY <1>4, <1>5, <2>1, <2>2 DEF Streaks
<1>12. VerdictsEnd(grown)
  <2>1. \A i \in DOMAIN grown : (i \in DOMAIN proofs /\ grown[i] = proofs[i]) \/ grown[i] = p
    BY <1>1, <1>15
  <2>2. p.decision.status \in Verdicts => p.decision.next = NoTime
    BY <1>3 DEF Outcome, d
  <2>3. QED
    BY <2>1, <2>2 DEF VerdictsEnd
<1>13. VerdictsSeen(grown)
  <2>1. d.status = "HEALTHY" => SeenGood(grown, o.window) /\ SeenGood(grown, o.window - 1)
    BY <1>3, <1>6, <1>8, <1>10 DEF Outcome
  <2>2. d.status = "UNHEALTHY" => SeenBad(grown, o.window) /\ SeenBad(grown, o.window - 1)
    BY <1>3, <1>7, <1>9, <1>10 DEF Outcome
  <2>3. QED
    BY <1>1, <2>1, <2>2 DEF VerdictsSeen, d, o
<1>14. QED
  BY <1>11, <1>12, <1>13

LEMMA ReplayGrows ==
    ASSUME NEW proofs, IsSeq(proofs), ReplaysExactly(E, proofs),
           NEW p, Follows(proofs, p), NEW grown, grown = proofs \o <<p>>
    PROVE  ReplaysExactly(E, grown)
<1>1. /\ Len(proofs) \in Nat /\ Len(grown) = Len(proofs) + 1
      /\ DOMAIN proofs = 1..Len(proofs) /\ DOMAIN grown = 1..Len(grown)
      /\ \A i \in 1..Len(proofs) : grown[i] = proofs[i]
      /\ grown[Len(grown)] = p
      /\ \A n \in 0..Len(proofs) : SubSeq(grown, 1, n) = SubSeq(proofs, 1, n)
      /\ SubSeq(grown, 1, Len(proofs)) = proofs
  BY SeqFacts, SnocFacts
<1> SUFFICES ASSUME NEW i \in DOMAIN grown
             PROVE  grown[i].decision
                      = EvaluateHealth(E, PriorState(E, SubSeq(grown, 1, i - 1)),
                                       grown[i].observation, grown[i].decision.at)
  BY DEF ReplaysExactly
<1>2. CASE i = Len(grown)
  <2>1. i - 1 = Len(proofs) /\ grown[i] = p
    BY <1>1, <1>2
  <2>2. QED
    BY <1>1, <2>1 DEF Follows
<1>3. CASE i # Len(grown)
  <2>1. i \in 1..Len(proofs) /\ i - 1 \in 0..Len(proofs) /\ grown[i] = proofs[i]
    BY <1>1, <1>3
  <2>2. QED
    BY <1>1, <2>1 DEF ReplaysExactly
<1>4. QED
  BY <1>2, <1>3

\* Nothing follows a terminal decision in a chain that its contract admits.
LEMMA NotTerminal ==
    ASSUME NEW proofs, IsSeq(proofs), NEW p, NEW grown, grown = proofs \o <<p>>, ValidChain(E, grown)
    PROVE  ~Terminal(proofs)
<1> SUFFICES ASSUME Terminal(proofs) PROVE FALSE
  OBVIOUS
<1>1. /\ Len(proofs) \in Nat /\ Len(grown) = Len(proofs) + 1 /\ DOMAIN grown = 1..Len(grown)
      /\ \A i \in 1..Len(proofs) : grown[i] = proofs[i]
      /\ proofs # <<>> /\ Len(proofs) # 0
  BY SeqFacts, SnocFacts DEF Terminal
<1>2. ValidStep(E, grown, Len(grown)) /\ Len(grown) > 1 /\ Len(grown) - 1 = Len(proofs)
  BY <1>1 DEF ValidChain
<1>3. grown[Len(proofs)].decision.next # NoTime
  BY <1>2 DEF ValidStep
<1>4. QED
  BY <1>1, <1>3 DEF Terminal, Last

\* A verdict inside a chain could only be its end.
LEMMA UnhealthyPrefix ==
    ASSUME StoredOK, NEW u, NEW n, IsPrefixOf(u, n, chain), IsUnhealthy(u)
    PROVE  u = chain
<1>1. /\ IsSeq(chain) /\ VerdictsEnd(chain) /\ (chain # <<>> => ValidChain(E, chain))
  BY DEF StoredOK
<1>2. /\ Len(u) = n /\ IsSeq(u) /\ n \in Nat /\ n <= Len(chain) /\ Len(chain) \in Nat
      /\ \A i \in 1..n : u[i] = chain[i]
  BY <1>1, SeqFacts, PrefixFacts
<1>8. SubSeq(chain, 1, Len(chain)) = chain
  BY <1>1, SeqFacts
<1>9. DOMAIN chain = 1..Len(chain) /\ (Len(chain) # 0 => chain # <<>>)
  BY <1>1, SeqFacts
<1>3. n # 0 /\ u[n].decision.status = "UNHEALTHY"
  BY <1>2, SeqFacts DEF IsUnhealthy, Last
<1>4. n \in DOMAIN chain /\ chain[n].decision.status = "UNHEALTHY"
  BY <1>2, <1>9, <1>3
<1>5. chain[n].decision.next = NoTime
  BY <1>1, <1>4 DEF VerdictsEnd, Verdicts
<1>6. n = Len(chain)
  <2> SUFFICES ASSUME n # Len(chain) PROVE FALSE
    OBVIOUS
  <2>0. n \in Nat /\ n # 0 /\ n < Len(chain) /\ Len(chain) \in Nat /\ Len(chain) # 0
    BY <1>2, <1>3
  <2>1. n + 1 \in 1..Len(chain) /\ n + 1 > 1 /\ (n + 1) - 1 = n
    BY <2>0
  <2>2. chain # <<>>
    BY <1>9, <2>0
  <2>3. ValidStep(E, chain, n + 1)
    BY <1>1, <1>9, <2>1, <2>2 DEF ValidChain
  <2>4. QED
    BY <1>5, <2>1, <2>3 DEF ValidStep
<1>7. QED
  BY <1>8, <1>6 DEF IsPrefixOf

(* ------------------------------- the steps ----------------------------- *)

\* The chain is kept, or a transaction of one that it admits landed.
Extended ==
    chain' # chain => /\ Front(chain') = chain /\ ~Terminal(chain)
                      /\ Reconstructs(chain') /\ ReplaysExactly(E, chain')
Preserved == IInv' /\ Extended

LEMMA LandedStep ==
    ASSUME WorldOK, StoredOK, NEW proofs, Grows(chain, proofs), ValidChain(E, proofs),
           CanLand(chain, proofs), Landed(proofs), UNCHANGED <<anchored, dispatched>>
    PROVE  /\ StoredOK' /\ Extended /\ chain' = proofs
           /\ intent' \in {None, "unhealthy", "revoked"}
<1> DEFINE p == Last(proofs)
<1>1. /\ IsSeq(chain) /\ ReplaysExactly(E, chain) /\ Streaks(chain) /\ VerdictsEnd(chain)
      /\ VerdictsSeen(chain) /\ (chain # <<>> => ValidChain(E, chain) /\ anchored)
      /\ UnhealthyHasIntent /\ (dispatched => IsUnhealthy(chain))
  BY DEF StoredOK
<1>2. proofs = chain \o <<p>> /\ Follows(chain, p)
  BY DEF Grows
<1>3. chain' = proofs /\ anchored /\ IntentFree(proofs)
  BY DEF Landed, CanLand
<1> HIDE DEF p
<1>4. ~Terminal(chain)
  BY <1>1, <1>2, NotTerminal
<1>5. Streaks(proofs) /\ VerdictsEnd(proofs) /\ VerdictsSeen(proofs)
  BY <1>1, <1>2, StreaksGrow
<1>6. ReplaysExactly(E, proofs)
  BY <1>1, <1>2, ReplayGrows
<1>7. IsSeq(proofs) /\ Front(proofs) = chain
  BY <1>1, <1>2, SnocFacts
<1>8. ~IsUnhealthy(chain)
  <2> SUFFICES ASSUME IsUnhealthy(chain) PROVE FALSE
    OBVIOUS
  <2>1. Last(chain) = chain[Len(chain)] /\ Len(chain) \in DOMAIN chain
    BY <1>1, SeqFacts DEF IsUnhealthy, Last
  <2>2. Last(chain).decision.next = NoTime
    BY <1>1, <2>1 DEF VerdictsEnd, IsUnhealthy, Verdicts
  <2>3. QED
    BY <1>4, <2>2 DEF Terminal, IsUnhealthy
<1>9. intent # "unhealthy" /\ ~dispatched
  BY <1>1, <1>8 DEF UnhealthyHasIntent
<1>10. UnhealthyHasIntent' /\ intent' \in {None, "unhealthy", "revoked"}
  <2>1. intent' = IF IsUnhealthy(proofs) THEN "unhealthy" ELSE intent
    BY DEF Landed
  <2>2. IsUnhealthy(chain') <=> IsUnhealthy(proofs)
    BY <1>3
  <2>3. QED
    BY <1>9, <2>1, <2>2 DEF UnhealthyHasIntent, WorldOK, IsUnhealthy
<1>11. StoredOK'
  BY <1>3, <1>5, <1>6, <1>7, <1>9, <1>10 DEF StoredOK
<1>12. Extended
  BY <1>3, <1>4, <1>6, <1>7 DEF Extended, Reconstructs, E
<1>13. QED
  BY <1>3, <1>10, <1>11, <1>12

\* What a call holds stays a prefix of a chain that grows.
LEMMA FitsGrow ==
    ASSUME NEW stored, IsSeq(stored), NEW p, NEW grown, grown = stored \o <<p>>,
           NEW k, CallFits(k, stored)
    PROVE  CallFits(k, grown)
<1>1. \A n : IsPrefixOf(k.snap, n, stored) => IsPrefixOf(k.snap, n, grown)
  BY PrefixGrows
<1>2. QED
  BY <1>1 DEF CallFits

\* A step of a call that leaves the chain: only that call is to be looked at.
LEMMA CallStep ==
    ASSUME CallsOK, NEW c \in Caller, NEW k, To(c, k), chain' = chain, CallFits(k, chain)
    PROVE  CallsOK'
<1>1. /\ DOMAIN call' = Caller /\ call'[c] = k
      /\ \A d \in Caller : d # c => call'[d] = call[d]
  BY DEF CallsOK, To
<1>2. \A d \in Caller : CallFits(call'[d], chain)
  BY <1>1 DEF CallsOK
<1>3. \A d \in Caller : CallFits(call'[d], chain')
  BY <1>2
<1>4. QED
  BY <1>1, <1>3 DEF CallsOK

LEMMA IdleFits == \A stored : CallFits(Idle, stored)
  BY DEF CallFits, Shaped, Idle

LEMMA AnswerStep ==
    ASSUME CallsOK, NEW c \in Caller, NEW out, Answer(c, out), chain' = chain
    PROVE  CallsOK'
  BY CallStep, IdleFits DEF Answer

\* The call goes on with what it holds.
LEMMA GoStep ==
    ASSUME CallsOK, NEW c \in Caller, NEW pc, Go(c, pc), chain' = chain,
           CallFits([call[c] EXCEPT !.pc = pc], chain)
    PROVE  CallsOK'
  BY CallStep DEF Go

LEMMA WorldKept ==
    ASSUME WorldOK, Quiet, UNCHANGED intent, Fault \/ NoFault
    PROVE  WorldOK'
  BY PipelineConstants DEF WorldOK, Quiet, Fault, NoFault

LEMMA StorageKept ==
    ASSUME StoredOK, LateOK, UNCHANGED <<storage, dispatched>>
    PROVE  StoredOK' /\ LateOK' /\ Extended
<1>1. chain' = chain /\ anchored' = anchored /\ intent' = intent /\ late' = late /\ dispatched' = dispatched
  BY DEF storage
<1>2. QED
  BY <1>1 DEF StoredOK, LateOK, Extended, UnhealthyHasIntent

LEMMA TickStep == ASSUME IInv, Tick PROVE Preserved
<1>1. UNCHANGED <<storage, dispatched>> /\ call' = call /\ chain' = chain
  BY DEF Tick, storage
<1>2. WorldOK'
  BY PipelineConstants DEF IInv, WorldOK, Tick, storage
<1>3. CallsOK'
  BY <1>1 DEF IInv, CallsOK
<1>4. QED
  BY <1>1, <1>2, <1>3, StorageKept DEF IInv, Preserved

LEMMA RevokeStep == ASSUME IInv, Revoke PROVE Preserved
<1>1. UNCHANGED <<storage, dispatched>> /\ call' = call /\ chain' = chain
  BY DEF Revoke, storage
<1>2. WorldOK'
  BY DEF IInv, WorldOK, Revoke, storage, ExpectedEpoch
<1>3. CallsOK'
  BY <1>1 DEF IInv, CallsOK
<1>4. QED
  BY <1>1, <1>2, <1>3, StorageKept DEF IInv, Preserved

LEMMA ReserveRevokedStep == ASSUME IInv, ReserveRevoked PROVE Preserved
<1>1. /\ chain' = chain /\ call' = call /\ late' = late /\ anchored' = anchored
      /\ dispatched' = dispatched /\ intent = None /\ intent' = "revoked"
  BY DEF ReserveRevoked
<1>2. WorldOK'
  BY DEF IInv, WorldOK, ReserveRevoked
<1>3. StoredOK'
  BY <1>1 DEF IInv, StoredOK, UnhealthyHasIntent, None
<1>4. CallsOK' /\ LateOK' /\ Extended
  BY <1>1 DEF IInv, CallsOK, LateOK, Extended
<1>5. QED
  BY <1>2, <1>3, <1>4 DEF IInv, Preserved

\* What the other calls hold is a prefix of the chain that landed.
LEMMA LandedCalls ==
    ASSUME IsSeq(chain), CallsOK, NEW proofs, Grows(chain, proofs), chain' = proofs
    PROVE  \A d \in Caller : CallFits(call[d], chain')
<1>1. chain' = chain \o <<Last(proofs)>>
  BY DEF Grows
<1>2. QED
  BY <1>1, FitsGrow DEF CallsOK

LEMMA LateAppendStep == ASSUME IInv, NEW t \in late, LateAppend(t) PROVE Preserved
<1>1. /\ now' = now /\ epoch' = epoch /\ anchored' = anchored /\ dispatched' = dispatched
      /\ call' = call /\ faults' = faults /\ late' = late \ {t}
  BY DEF LateAppend
<1>2. WorldOK /\ StoredOK /\ LateOK /\ CallsOK /\ IsSeq(chain)
  BY DEF IInv, StoredOK
<1>3. LateOK'
  BY <1>1, <1>2 DEF LateOK
<1>4. CASE CanLand(t.expected, t.proofs)
  <2>1. /\ Landed(t.proofs) /\ t.expected = chain /\ Grows(chain, t.proofs)
        /\ ValidChain(E, t.proofs)
    BY <1>2, <1>4 DEF LateAppend, CanLand, LateOK
  <2>2. /\ StoredOK' /\ Extended /\ chain' = t.proofs
        /\ intent' \in {None, "unhealthy", "revoked"}
    BY <1>1, <1>2, <1>4, <2>1, LandedStep
  <2>3. CallsOK'
    BY <1>1, <1>2, <2>1, <2>2, LandedCalls DEF CallsOK
  <2>4. WorldOK'
    BY <1>1, <1>2, <2>2 DEF WorldOK
  <2>5. QED
    BY <1>3, <2>2, <2>3, <2>4 DEF IInv, Preserved
<1>5. CASE ~CanLand(t.expected, t.proofs)
  <2>1. chain' = chain /\ intent' = intent
    BY <1>5 DEF LateAppend
  <2>2. StoredOK' /\ Extended
    BY <1>1, <1>2, <2>1 DEF StoredOK, UnhealthyHasIntent, Extended
  <2>3. CallsOK' /\ WorldOK'
    BY <1>1, <1>2, <2>1 DEF CallsOK, WorldOK
  <2>4. QED
    BY <1>3, <2>2, <2>3 DEF IInv, Preserved
<1>6. QED
  BY <1>4, <1>5

LEMMA BeginStep == ASSUME IInv, NEW c \in Caller, NEW seq \in 0..Len(chain), Begin(c, seq) PROVE Preserved
<1>1. /\ chain' = chain /\ intent' = intent /\ late' = late /\ dispatched' = dispatched
      /\ Quiet /\ (Fault \/ NoFault)
  BY DEF Begin
<1>2. WorldOK /\ StoredOK /\ LateOK /\ CallsOK /\ IsSeq(chain) /\ Len(chain) \in Nat
  BY SeqFacts DEF IInv, StoredOK
<1>3. WorldOK'
  BY <1>1, <1>2, WorldKept
<1>4. anchored => anchored'
  BY DEF Begin, CreateOrAdoptAnchor
<1>5. StoredOK' /\ LateOK' /\ Extended
  BY <1>1, <1>2, <1>4 DEF StoredOK, LateOK, UnhealthyHasIntent, Extended
<1>6. CASE \E out : Answer(c, out)
  BY <1>1, <1>2, <1>3, <1>5, <1>6, AnswerStep DEF IInv, Preserved
<1>7. CASE Related(c, seq, chain)
  <2> DEFINE k(pc) == [Idle EXCEPT !.pc = pc, !.seq = seq, !.snap = chain]
  <2>1. \A pc : /\ Shaped(k(pc)) /\ k(pc).pc = pc /\ k(pc).seq = seq /\ k(pc).snap = chain
    BY DEF Idle, Shaped
  <2>2. CASE Len(chain) = seq /\ ~Terminal(chain)
    <3>1. Relation(chain, seq) = "EVALUATE"
      BY <2>2 DEF Relation
    <3>2. To(c, k("verify"))
      BY <1>7, <3>1 DEF Related
    <3>3. IsPrefixOf(chain, seq, chain)
      BY <1>2, <2>2, WholePrefix
    <3>4. CallFits(k("verify"), chain)
      <4> HIDE DEF k
      <4>1. QED
        BY <2>1, <3>3 DEF CallFits
    <3> HIDE DEF k
    <3>5. CallsOK'
      BY <1>1, <1>2, <3>2, <3>4, CallStep
    <3>6. QED
      BY <1>3, <1>5, <3>5 DEF IInv, Preserved
  <2>3. CASE Len(chain) = seq + 1
    <3>1. Relation(chain, seq) = "ADOPT" /\ seq \in Nat
      BY <1>2, <2>3 DEF Relation
    <3>2. To(c, k("adopt"))
      BY <1>7, <3>1 DEF Related
    <3>3. IsPrefixOf(chain, seq + 1, chain)
      BY <1>2, <2>3, WholePrefix
    <3>4. CallFits(k("adopt"), chain)
      <4> HIDE DEF k
      <4>1. QED
        BY <2>1, <3>1, <3>3 DEF CallFits
    <3> HIDE DEF k
    <3>5. CallsOK'
      BY <1>1, <1>2, <3>2, <3>4, CallStep
    <3>6. QED
      BY <1>3, <1>5, <3>5 DEF IInv, Preserved
  <2>4. CASE ~(Len(chain) = seq /\ ~Terminal(chain)) /\ Len(chain) # seq + 1
    <3>1. Relation(chain, seq) = "CONFLICT"
      BY <2>4 DEF Relation
    <3>2. Answer(c, "STORE_CONFLICT")
      BY <1>7, <3>1 DEF Related
    <3>3. CallsOK'
      BY <1>1, <1>2, <3>2, AnswerStep
    <3>4. QED
      BY <1>3, <1>5, <3>3 DEF IInv, Preserved
  <2>5. QED
    BY <2>2, <2>3, <2>4
<1>8. QED
  BY <1>6, <1>7 DEF Begin

\* A step of one call that changes nothing of the store.
LEMMA LocalStep ==
    ASSUME IInv, CallsOK', Quiet, UNCHANGED <<storage, dispatched>>, Fault \/ NoFault
    PROVE  Preserved
<1>1. intent' = intent
  BY DEF storage
<1>2. WorldOK'
  BY <1>1, WorldKept DEF IInv
<1>3. QED
  BY <1>2, StorageKept DEF IInv, Preserved

LEMMA BeginVerificationStep == ASSUME IInv, NEW c \in Caller, BeginVerification(c) PROVE Preserved
<1>1. /\ Quiet /\ UNCHANGED <<storage, dispatched>> /\ chain' = chain /\ (Fault \/ NoFault)
      /\ call[c].pc = "verify" /\ CallsOK /\ CallFits(call[c], chain)
      /\ ((\E out : Answer(c, out)) \/ Go(c, "collect"))
  BY DEF BeginVerification, storage, IInv, CallsOK
<1>2. CallFits([call[c] EXCEPT !.pc = "collect"], chain)
  BY <1>1 DEF CallFits, Shaped
<1>3. CallsOK'
  BY <1>1, <1>2, AnswerStep, GoStep
<1>4. QED
  BY <1>1, <1>3, LocalStep

LEMMA VerifierFailsStep == ASSUME IInv, NEW c \in Caller, VerifierFails(c) PROVE Preserved
<1>1. /\ Quiet /\ UNCHANGED <<storage, dispatched>> /\ chain' = chain /\ Fault
      /\ CallsOK /\ \E out : Answer(c, out)
  BY DEF VerifierFails, storage, IInv
<1>2. CallsOK'
  BY <1>1, AnswerStep
<1>3. QED
  BY <1>1, <1>2, LocalStep

LEMMA FollowsGrows ==
    ASSUME NEW s, IsSeq(s), NEW p, Follows(s, p), NEW t, t = s \o <<p>>
    PROVE  Grows(s, t)
<1>1. Last(t) = p
  BY SnocFacts
<1>2. QED
  BY <1>1 DEF Grows

LEMMA CollectStep ==
    ASSUME IInv, NEW c \in Caller, NEW reading \in Readings, CollectAndAttest(c, reading)
    PROVE  Preserved
<1> DEFINE k == call[c]
<1>1. /\ Quiet /\ UNCHANGED <<storage, dispatched>> /\ chain' = chain /\ NoFault
      /\ k.pc = "collect" /\ CallsOK /\ CallFits(k, chain) /\ ReadingValid(reading)
      /\ IsSeq(chain) /\ now \in Nat
  BY PipelineConstants DEF CollectAndAttest, storage, IInv, CallsOK, StoredOK, WorldOK
<1>2. PICK p \in PendingProofs(k.snap, reading) :
         IF /\ ValidProof(p) /\ SigningRequestValid(k.snap, p) /\ AttemptValid(k.snap, p)
         THEN To(c, [k EXCEPT !.pc = "refresh", !.proof = <<p>>])
         ELSE Answer(c, "VERIFIER_RESPONSE_INVALID")
  BY DEF CollectAndAttest
<1>3. CASE Answer(c, "VERIFIER_RESPONSE_INVALID")
  <2>1. CallsOK'
    BY <1>1, <1>3, AnswerStep
  <2>2. QED
    BY <1>1, <2>1, LocalStep
<1>4. CASE /\ SigningRequestValid(k.snap, p)
           /\ To(c, [k EXCEPT !.pc = "refresh", !.proof = <<p>>])
  <2> DEFINE next == [k EXCEPT !.pc = "refresh", !.proof = <<p>>]
  <2>1. /\ Shaped(next) /\ next.pc = "refresh" /\ next.proof = <<p>>
        /\ next.seq = k.seq /\ next.snap = k.snap
    BY <1>1 DEF CallFits, Shaped
  <2>2. IsPrefixOf(k.snap, k.seq, chain) /\ IsSeq(k.snap)
    BY <1>1, PrefixFacts DEF CallFits
  <2>3. p.observation = BuildObservation(E, NextWindow(k.snap), now, reading)
    BY <1>2 DEF PendingProofs, Proof, E
  <2>4. /\ p.observation.epoch = E /\ p.observation.window = NextWindow(k.snap)
        /\ p.observation.observed = now
        /\ p.observation.requests \in Nat /\ p.observation.latency \in Nat
        /\ p.observation.ok \in Nat /\ p.observation.errors \in Nat
    BY <1>1, <2>3, ObservationTyped
  <2>5. p.decision = EvaluateHealth(E, PriorState(E, k.snap), p.observation, p.decision.at)
    BY <1>4 DEF SigningRequestValid, E
  <2>6. Follows(k.snap, p)
    BY <1>1, <2>4, <2>5 DEF Follows
  <2>7. Grows(k.snap, k.snap \o <<p>>)
    BY <2>2, <2>6, FollowsGrows
  <2>8. Grows(next.snap, next.snap \o next.proof)
    BY <2>1, <2>7
  <2>9. To(c, next)
    BY <1>4
  <2> HIDE DEF next, k
  <2>10. CallFits(next, chain)
    BY <2>1, <2>2, <2>8 DEF CallFits
  <2>11. CallsOK'
    BY <1>1, <2>9, <2>10, CallStep
  <2>12. QED
    BY <1>1, <2>11, LocalStep
<1>5. QED
  BY <1>2, <1>3, <1>4

LEMMA RefreshStep == ASSUME IInv, NEW c \in Caller, Refresh(c) PROVE Preserved
<1>1. /\ Quiet /\ UNCHANGED <<storage, dispatched>> /\ chain' = chain /\ (Fault \/ NoFault)
      /\ call[c].pc = "refresh" /\ CallsOK /\ CallFits(call[c], chain)
      /\ ((\E out : Answer(c, out)) \/ Go(c, "append"))
  BY DEF Refresh, storage, IInv, CallsOK
<1>2. CallFits([call[c] EXCEPT !.pc = "append"], chain)
  BY <1>1 DEF CallFits, Shaped
<1>3. CallsOK'
  BY <1>1, <1>2, AnswerStep, GoStep
<1>4. QED
  BY <1>1, <1>3, LocalStep

\* The transaction of a call is given up and may land later.
LEMMA LateKept ==
    ASSUME LateOK, NEW expected, NEW proofs, Grows(expected, proofs), ValidChain(E, proofs),
           late' \in {late, late \cup {[expected |-> expected, proofs |-> proofs]}}
    PROVE  LateOK'
<1>1. \A t \in late' : t \in late \/ t = [expected |-> expected, proofs |-> proofs]
  OBVIOUS
<1>2. QED
  BY <1>1 DEF LateOK

LEMMA AppendProofStep == ASSUME IInv, NEW c \in Caller, AppendProof(c) PROVE Preserved
<1> DEFINE k == call[c]
           proofs == Candidate(c)
<1>1. /\ Quiet /\ dispatched' = dispatched /\ k.pc = "append" /\ (Fault \/ NoFault)
      /\ WorldOK /\ StoredOK /\ LateOK /\ CallsOK /\ CallFits(k, chain) /\ IsSeq(chain)
  BY DEF AppendProof, IInv, CallsOK, StoredOK
<1>2. /\ proofs = k.snap \o k.proof /\ Grows(k.snap, proofs) /\ Shaped(k)
      /\ IsPrefixOf(k.snap, k.seq, chain)
  BY <1>1 DEF CallFits, Candidate
<1>3. CASE UNCHANGED storage /\ ((\E out : Answer(c, out)) \/ \E pc \in {"resolve", "concurrent"} : Go(c, pc))
  <2>1. chain' = chain
    BY <1>3 DEF storage
  <2>2. \A pc \in {"resolve", "concurrent"} : CallFits([k EXCEPT !.pc = pc], chain)
    BY <1>1 DEF CallFits, Shaped
  <2>3. CallsOK'
    BY <1>1, <1>3, <2>1, <2>2, AnswerStep, GoStep
  <2>4. QED
    BY <1>1, <1>3, <2>3, LocalStep
<1>4. CASE UNCHANGED storage /\ To(c, [k EXCEPT !.pc = "done", !.out = "STORE_UNAVAILABLE"])
  <2>1. chain' = chain
    BY <1>4 DEF storage
  <2>2. CallFits([k EXCEPT !.pc = "done", !.out = "STORE_UNAVAILABLE"], chain)
    BY <1>1 DEF CallFits, Shaped
  <2>3. CallsOK'
    BY <1>1, <1>4, <2>1, <2>2, CallStep
  <2>4. QED
    BY <1>1, <1>4, <2>3, LocalStep
<1>5. CASE /\ ValidChain(E, proofs) /\ CanLand(k.snap, proofs) /\ Landed(proofs) /\ NoFault
           /\ To(c, [k EXCEPT !.pc = "record", !.snap = proofs]) /\ UNCHANGED <<anchored, late>>
  <2> DEFINE next == [k EXCEPT !.pc = "record", !.snap = proofs]
  <2>1. k.snap = chain /\ Grows(chain, proofs)
    BY <1>2, <1>5 DEF CanLand
  <2>2. CanLand(chain, proofs)
    BY <1>5, <2>1
  <2>3. UNCHANGED <<anchored, dispatched>>
    BY <1>1, <1>5
  <2> HIDE DEF proofs
  <2>4. /\ StoredOK' /\ Extended /\ chain' = proofs
        /\ intent' \in {None, "unhealthy", "revoked"}
    BY <1>1, <1>5, <2>1, <2>2, <2>3, LandedStep
  <2>5. \A d \in Caller : CallFits(call[d], chain')
    BY <1>1, <2>1, <2>4, LandedCalls
  <2>6. /\ Shaped(next) /\ next.pc = "record" /\ next.snap = proofs /\ next.seq = k.seq
    BY <1>2 DEF Shaped
  <2>7. Len(chain) = k.seq /\ k.seq \in Nat
    BY <1>1, <1>2, <2>1, PrefixFacts
  <2>8. Len(proofs) = k.seq + 1 /\ IsSeq(proofs)
    <3>1. proofs = chain \o <<Last(proofs)>>
      BY <2>1 DEF Grows
    <3>2. QED
      BY <1>1, <2>7, <3>1, SnocFacts
  <2>9. IsPrefixOf(proofs, k.seq + 1, proofs)
    BY <2>8, WholePrefix
  <2>10. To(c, next)
    BY <1>5
  <2> HIDE DEF next, k
  <2>11. CallFits(next, chain')
    BY <2>4, <2>6, <2>7, <2>9 DEF CallFits
  <2>12. CallsOK'
    <3>1. /\ DOMAIN call' = Caller /\ call'[c] = next
          /\ \A d \in Caller : d # c => call'[d] = call[d]
      BY <1>1, <2>10 DEF CallsOK, To
    <3>2. QED
      BY <2>5, <2>11, <3>1 DEF CallsOK
  <2>13. LateOK' /\ WorldOK'
    BY <1>1, <1>5, <2>4 DEF LateOK, WorldOK, Quiet, NoFault
  <2>14. QED
    BY <2>4, <2>12, <2>13 DEF IInv, Preserved
<1>6. CASE /\ ValidChain(E, proofs) /\ Go(c, "resolve") /\ Fault
           /\ late' = late \cup {[expected |-> k.snap, proofs |-> proofs]}
           /\ UNCHANGED <<anchored, chain, intent>>
  <2>1. LateOK'
    BY <1>1, <1>2, <1>6, LateKept
  <2>2. CallFits([k EXCEPT !.pc = "resolve"], chain)
    BY <1>1 DEF CallFits, Shaped
  <2>3. CallsOK'
    BY <1>1, <1>6, <2>2, GoStep
  <2>4. WorldOK'
    BY <1>1, <1>6, WorldKept
  <2>5. StoredOK' /\ Extended
    BY <1>1, <1>6 DEF StoredOK, Extended, UnhealthyHasIntent
  <2>6. QED
    BY <2>1, <2>3, <2>4, <2>5 DEF IInv, Preserved
<1>7. QED
  BY <1>3, <1>4, <1>5, <1>6 DEF AppendProof, E

LEMMA ResolveAppendStep == ASSUME IInv, NEW c \in Caller, ResolveAppend(c) PROVE Preserved
<1> DEFINE k == call[c]
<1>1. /\ Quiet /\ UNCHANGED <<storage, dispatched>> /\ chain' = chain /\ (Fault \/ NoFault)
      /\ k.pc = "resolve" /\ CallsOK /\ CallFits(k, chain) /\ IsSeq(chain)
  BY DEF ResolveAppend, storage, IInv, CallsOK, StoredOK
<1>2. CASE (\E out : Answer(c, out)) \/ Go(c, "concurrent")
  <2>1. CallFits([k EXCEPT !.pc = "concurrent"], chain)
    BY <1>1 DEF CallFits, Shaped
  <2>2. CallsOK'
    BY <1>1, <1>2, <2>1, AnswerStep, GoStep
  <2>3. QED
    BY <1>1, <2>2, LocalStep
<1>3. CASE chain = Candidate(c) /\ To(c, [k EXCEPT !.pc = "record", !.snap = chain])
  <2> DEFINE next == [k EXCEPT !.pc = "record", !.snap = chain]
  <2>1. /\ IsPrefixOf(k.snap, k.seq, chain) /\ Grows(k.snap, chain) /\ Shaped(k)
    BY <1>1, <1>3 DEF CallFits, Candidate
  <2>2. Len(k.snap) = k.seq /\ k.seq \in Nat /\ IsSeq(k.snap)
    BY <1>1, <2>1, PrefixFacts
  <2>3. chain = k.snap \o <<Last(chain)>>
    BY <2>1 DEF Grows
  <2>4. Len(chain) = k.seq + 1
    BY <2>2, <2>3, SnocFacts
  <2>5. IsPrefixOf(chain, k.seq + 1, chain)
    BY <1>1, <2>4, WholePrefix
  <2>6. /\ Shaped(next) /\ next.pc = "record" /\ next.snap = chain /\ next.seq = k.seq
    BY <2>1 DEF Shaped
  <2>7. To(c, next)
    BY <1>3
  <2> HIDE DEF next, k
  <2>8. CallFits(next, chain)
    BY <2>2, <2>5, <2>6 DEF CallFits
  <2>9. CallsOK'
    BY <1>1, <2>7, <2>8, CallStep
  <2>10. QED
    BY <1>1, <2>9, LocalStep
<1>4. QED
  BY <1>2, <1>3 DEF ResolveAppend

LEMMA AdoptConcurrentStep == ASSUME IInv, NEW c \in Caller, AdoptConcurrent(c) PROVE Preserved
<1> DEFINE k == call[c]
<1>1. /\ Quiet /\ UNCHANGED <<storage, dispatched>> /\ chain' = chain /\ (Fault \/ NoFault)
      /\ k.pc = "concurrent" /\ CallsOK /\ CallFits(k, chain) /\ IsSeq(chain)
  BY DEF AdoptConcurrent, storage, IInv, CallsOK, StoredOK
<1>2. CASE \E out : Answer(c, out)
  <2>1. CallsOK'
    BY <1>1, <1>2, AnswerStep
  <2>2. QED
    BY <1>1, <2>1, LocalStep
<1>3. CASE Relation(chain, k.seq) = "ADOPT" /\ To(c, [k EXCEPT !.pc = "adopt", !.snap = chain])
  <2> DEFINE next == [k EXCEPT !.pc = "adopt", !.snap = chain]
  <2>1. Len(chain) = k.seq + 1
    BY <1>3 DEF Relation
  <2>2. k.seq \in Nat /\ Shaped(k)
    BY <1>1, PrefixFacts DEF CallFits
  <2>3. IsPrefixOf(chain, k.seq + 1, chain)
    BY <1>1, <2>1, WholePrefix
  <2>4. /\ Shaped(next) /\ next.pc = "adopt" /\ next.snap = chain /\ next.seq = k.seq
    BY <2>2 DEF Shaped
  <2>5. To(c, next)
    BY <1>3
  <2> HIDE DEF next, k
  <2>6. CallFits(next, chain)
    BY <2>2, <2>3, <2>4 DEF CallFits
  <2>7. CallsOK'
    BY <1>1, <2>5, <2>6, CallStep
  <2>8. QED
    BY <1>1, <2>7, LocalStep
<1>4. QED
  BY <1>2, <1>3 DEF AdoptConcurrent

LEMMA AdoptSnapshotStep == ASSUME IInv, NEW c \in Caller, AdoptSnapshot(c) PROVE Preserved
<1>1. /\ Quiet /\ UNCHANGED <<storage, dispatched>> /\ chain' = chain /\ (Fault \/ NoFault)
      /\ call[c].pc = "adopt" /\ CallsOK /\ CallFits(call[c], chain)
      /\ ((\E out : Answer(c, out)) \/ Go(c, "record"))
  BY DEF AdoptSnapshot, storage, IInv, CallsOK
<1>2. CallFits([call[c] EXCEPT !.pc = "record"], chain)
  BY <1>1 DEF CallFits, Shaped
<1>3. CallsOK'
  BY <1>1, <1>2, AnswerStep, GoStep
<1>4. QED
  BY <1>1, <1>3, LocalStep

LEMMA RecordProofStep == ASSUME IInv, NEW c \in Caller, RecordProof(c) PROVE Preserved
<1>1. /\ Quiet /\ UNCHANGED <<storage, dispatched>> /\ chain' = chain /\ (Fault \/ NoFault)
      /\ call[c].pc = "record" /\ CallsOK /\ CallFits(call[c], chain)
      /\ ((\E out : Answer(c, out)) \/ (IsUnhealthy(call[c].snap) /\ Go(c, "recover")))
  BY DEF RecordProof, storage, IInv, CallsOK
<1>2. IsUnhealthy(call[c].snap) => CallFits([call[c] EXCEPT !.pc = "recover"], chain)
  BY <1>1 DEF CallFits, Shaped
<1>3. CallsOK'
  BY <1>1, <1>2, AnswerStep, GoStep
<1>4. QED
  BY <1>1, <1>3, LocalStep

LEMMA DispatchRecoveryStep == ASSUME IInv, NEW c \in Caller, DispatchRecovery(c) PROVE Preserved
<1>1. /\ Quiet /\ chain' = chain /\ anchored' = anchored /\ intent' = intent /\ late' = late
      /\ (Fault \/ NoFault) /\ call[c].pc = "recover" /\ CallFits(call[c], chain)
      /\ WorldOK /\ StoredOK /\ LateOK /\ CallsOK /\ \E out : Answer(c, out)
  BY DEF DispatchRecovery, storage, IInv, CallsOK
<1>2. IsUnhealthy(chain)
  <2>1. IsPrefixOf(call[c].snap, call[c].seq + 1, chain) /\ IsUnhealthy(call[c].snap)
    BY <1>1 DEF CallFits
  <2>2. call[c].snap = chain
    BY <1>1, <2>1, UnhealthyPrefix
  <2>3. QED
    BY <2>1, <2>2
<1>3. StoredOK' /\ LateOK' /\ Extended
  BY <1>1, <1>2 DEF StoredOK, LateOK, Extended, UnhealthyHasIntent, IsUnhealthy
<1>4. WorldOK'
  BY <1>1, WorldKept
<1>5. CallsOK'
  BY <1>1, AnswerStep
<1>6. QED
  BY <1>3, <1>4, <1>5 DEF IInv, Preserved

LEMMA CrashStep == ASSUME IInv, NEW c \in Caller, Crash(c) PROVE Preserved
<1> DEFINE k == call[c]
<1>1. /\ Quiet /\ Fault /\ chain' = chain /\ anchored' = anchored /\ intent' = intent
      /\ dispatched' = dispatched /\ To(c, Idle)
      /\ WorldOK /\ StoredOK /\ LateOK /\ CallsOK /\ CallFits(k, chain)
  BY DEF Crash, IInv, CallsOK
<1>2. StoredOK' /\ Extended
  BY <1>1 DEF StoredOK, Extended, UnhealthyHasIntent
<1>3. WorldOK'
  BY <1>1, WorldKept
<1>4. CallsOK'
  BY <1>1, CallStep, IdleFits
<1>5. LateOK'
  <2>1. CASE k.pc = "append" /\ ValidChain(E, Candidate(c))
    <3> DEFINE proofs == Candidate(c)
    <3>1. Grows(k.snap, proofs) /\ ValidChain(E, proofs)
      BY <1>1, <2>1 DEF CallFits, Candidate
    <3>2. late' \in {late, late \cup {[expected |-> k.snap, proofs |-> proofs]}}
      BY <2>1 DEF Crash, E
    <3> HIDE DEF proofs
    <3>3. QED
      BY <1>1, <3>1, <3>2, LateKept
  <2>2. CASE ~(k.pc = "append" /\ ValidChain(E, Candidate(c)))
    <3>1. late' = late
      BY <2>2 DEF Crash, E
    <3>2. QED
      BY <1>1, <3>1 DEF LateOK
  <2>3. QED
    BY <2>1, <2>2
<1>6. QED
  BY <1>2, <1>3, <1>4, <1>5 DEF IInv, Preserved

LEMMA InitHolds == ASSUME HealthInit PROVE IInv
<1>1. IsSeq(<<>>) /\ DOMAIN <<>> = {} /\ chain = <<>>
  BY EmptySeq DEF IsSeq, HealthInit
<1>2. StateShaped(InitialState(E)) /\ InitialState(E).healthy = 0 /\ InitialState(E).unhealthy = 0
  BY DEF StateShaped, InitialState
<1>3. Streaks(chain)
  BY <1>1, <1>2 DEF Streaks, PriorState
<1>4. StoredOK
  BY <1>1, <1>3 DEF StoredOK, HealthInit, ReplaysExactly, VerdictsEnd, VerdictsSeen,
                    UnhealthyHasIntent, IsUnhealthy, None
<1>5. CallsOK
  BY IdleFits DEF CallsOK, HealthInit
<1>6. WorldOK /\ LateOK
  BY PipelineConstants DEF WorldOK, LateOK, HealthInit, ExpectedEpoch
<1>7. QED
  BY <1>4, <1>5, <1>6 DEF IInv

LEMMA StepHolds == ASSUME IInv, [HealthNext]_hvars PROVE Preserved
<1>1. CASE UNCHANGED hvars
  <2>1. /\ UNCHANGED <<storage, dispatched>> /\ call' = call /\ chain' = chain
        /\ intent' = intent /\ now' = now /\ epoch' = epoch /\ faults' = faults
    BY <1>1 DEF hvars, storage
  <2>2. WorldOK' /\ CallsOK'
    BY <2>1 DEF IInv, WorldOK, CallsOK
  <2>3. QED
    BY <2>1, <2>2, StorageKept DEF IInv, Preserved
<1>2. CASE World
  BY <1>2, TickStep, RevokeStep, ReserveRevokedStep, LateAppendStep DEF World
<1>3. ASSUME NEW c \in Caller, Evaluate(c) PROVE Preserved
  BY <1>3, BeginVerificationStep, VerifierFailsStep, CollectStep, RefreshStep, AppendProofStep,
     ResolveAppendStep, AdoptConcurrentStep, AdoptSnapshotStep, RecordProofStep,
     DispatchRecoveryStep DEF Evaluate
<1>4. QED
  BY <1>1, <1>2, <1>3, CrashStep, BeginStep DEF HealthNext

LEMMA Inductive == HealthSpec => []IInv
<1>1. IInv /\ [HealthNext]_hvars => IInv'
  BY StepHolds DEF Preserved
<1>2. QED
  BY InitHolds, <1>1, PTL DEF HealthSpec

(* ----------------------------- contracts ------------------------------- *)

\* A state that the evaluator may be handed: the observation that it names is of
\* the last window that it consumed.
SoundState(s) ==
    /\ StateShaped(s) /\ ValidState(s) /\ IsFiniteSet(s.consumed)
    /\ s.observation = NoDigest \/ s.observation[1] = s.evaluated

\* What a decision needs of an observation: errors and successes are requests,
\* and a complete one has a sample of a class and one of the latency.
Counted(o) ==
    /\ o.requests \in Nat /\ o.ok \in Nat /\ o.errors \in Nat /\ o.latency \in Nat
    /\ o.ok + o.errors <= o.requests
    /\ o.completeness = "COMPLETE" => Cardinality(DOMAIN o.samples) >= 2

\* A decision d at the time at on the observation o passes its contract.
Sound(o, at, d) == SoundState(d.state) /\ (Counted(o) => ValidDecision(d))

SoundChain == \A i \in DOMAIN chain : SoundState(chain[i].decision.state)
Collecting(k) ==
    k.pc = "collect" => NextWindow(k.snap) <= MaxWindows /\ Ready(NextWindow(k.snap)) <= now
ProofContract(k) ==
    \A i \in DOMAIN k.proof : /\ ValidObservation(k.proof[i].observation)
                              /\ ValidDecision(k.proof[i].decision)
CallsSound == \A c \in Caller : Collecting(call[c]) /\ ProofContract(call[c])
HInv == IInv /\ SoundChain /\ CallsSound

LEMMA BoundFacts ==
    /\ Window \in Nat /\ Window > 0 /\ Delay \in Nat /\ MaxDelay \in Nat /\ MaxWindows \in Nat
    /\ HealthyStreak = 2 /\ UnhealthyStreak = 2
  BY HealthPolicyAssumption DEF PolicyValid, HealthyStreak, UnhealthyStreak

LEMMA SoundFacts ==
    ASSUME NEW s, SoundState(s)
    PROVE  /\ s.healthy \in Nat /\ s.unhealthy \in Nat /\ s.evaluated \in 0..MaxWindows
           /\ s.healthy <= s.evaluated /\ s.unhealthy <= s.evaluated
           /\ s.healthy = 0 \/ s.unhealthy = 0
           /\ s.last \in Int
<1>1. /\ s.healthy \in Nat /\ s.unhealthy \in Nat /\ s.evaluated \in Nat
      /\ s.evaluated \in 0..MaxWindows /\ (s.healthy = 0 \/ s.unhealthy = 0)
      /\ Later(s.healthy, s.unhealthy) <= s.evaluated
  BY DEF SoundState, StateShaped, ValidState
<1>2. s.last \in Int
  <2>1. IF s.evaluated = 0 THEN s.last = NoTime ELSE s.last = Ends(s.evaluated)
    BY DEF SoundState, ValidState
  <2>2. Ends(s.evaluated) \in Nat
    BY <1>1, WindowFacts
  <2>3. QED
    BY <2>1, <2>2 DEF NoTime
<1>3. QED
  BY <1>1, <1>2 DEF Later

LEMMA InitialSound == SoundState(InitialState(E))
<1>1. StateShaped(InitialState(E))
  BY DEF StateShaped, InitialState
<1>2. InitialState(E).consumed = {} /\ IsFiniteSet({}) /\ Cardinality({}) = 0
  BY FS_EmptySet DEF InitialState
<1>3. ValidState(InitialState(E))
  BY <1>2, BoundFacts DEF ValidState, InitialState, Later
<1>4. QED
  BY <1>1, <1>2, <1>3 DEF SoundState, InitialState

\* What is kept of a sound state when only its streaks change.
LEMMA StreakSound ==
    ASSUME NEW s, SoundState(s), NEW t, StateShaped(t),
           t.evaluated = s.evaluated, t.last = s.last, t.observation = s.observation,
           t.consumed = s.consumed,
           t.healthy = 0 \/ t.unhealthy = 0,
           t.healthy <= s.evaluated, t.unhealthy <= s.evaluated
    PROVE  SoundState(t)
<1>1. t.healthy \in Nat /\ t.unhealthy \in Nat
  BY DEF StateShaped
<1>2. ValidState(t)
  BY <1>1 DEF SoundState, ValidState, Later
<1>3. QED
  BY <1>2 DEF SoundState

LEMMA ResetSound ==
    ASSUME NEW s, SoundState(s) PROVE SoundState(Reset(s)) /\ Reset(s).evaluated = s.evaluated
<1>1. StateShaped(s) /\ s.evaluated \in Nat
  BY SoundFacts DEF SoundState
<1>2. /\ StateShaped(Reset(s)) /\ Reset(s).healthy = 0 /\ Reset(s).unhealthy = 0
      /\ Reset(s).evaluated = s.evaluated /\ Reset(s).last = s.last
      /\ Reset(s).observation = s.observation /\ Reset(s).consumed = s.consumed
  BY <1>1 DEF StateShaped, Reset
<1>3. QED
  BY <1>1, <1>2, StreakSound

LEMMA NextSound == ASSUME NEW d, SoundState(d.state) PROVE SoundState(NextState(d))
<1> DEFINE s == d.state
           t == NextState(d)
<1>1. StateShaped(s) /\ s.healthy <= s.evaluated /\ s.unhealthy <= s.evaluated
      /\ (s.healthy = 0 \/ s.unhealthy = 0)
  BY SoundFacts DEF SoundState
<1>2. /\ StateShaped(t) /\ t.healthy = s.healthy /\ t.unhealthy = s.unhealthy
      /\ t.evaluated = s.evaluated /\ t.last = s.last
      /\ t.observation = s.observation /\ t.consumed = s.consumed
  BY <1>1 DEF StateShaped, NextState
<1> HIDE DEF s, t
<1>3. SoundState(s)
  BY DEF s
<1>4. SoundState(t)
  BY <1>1, <1>2, <1>3, StreakSound
<1>5. QED
  BY <1>4 DEF t

\* The state with the window consumed, before its streaks are set.
LEMMA AdvanceSound ==
    ASSUME NEW s, SoundState(s), s.evaluated < MaxWindows, NEW o, o.window = s.evaluated + 1
    PROVE  LET n == Advance(s, o, 1)
           IN /\ SoundState(n) /\ n.evaluated = o.window
              /\ n.observation = ObservationDigest(o) /\ n.last = Ends(o.window)
              /\ n.healthy = s.healthy /\ n.unhealthy = s.unhealthy
<1> DEFINE n == Advance(s, o, 1)
<1>1. /\ StateShaped(s) /\ IsFiniteSet(s.consumed) /\ Cardinality(s.consumed) <= s.evaluated
      /\ s.evaluated \in Nat /\ MaxWindows \in Nat /\ s.healthy \in Nat /\ s.unhealthy \in Nat
      /\ s.healthy <= s.evaluated /\ s.unhealthy <= s.evaluated
      /\ (s.healthy = 0 \/ s.unhealthy = 0)
  BY SoundFacts, BoundFacts DEF SoundState, ValidState
<1>2. Earlier(s.evaluated + 1, MaxWindows) = o.window /\ o.window \in 1..MaxWindows
  BY <1>1 DEF Earlier
<1>3. /\ StateShaped(n) /\ n.evaluated = o.window /\ n.last = Ends(o.window)
      /\ n.observation = ObservationDigest(o) /\ n.consumed = s.consumed \cup SampleSet(o)
      /\ n.healthy = s.healthy /\ n.unhealthy = s.unhealthy
  BY <1>1, <1>2 DEF StateShaped, Advance
<1>4. /\ IsFiniteSet(s.consumed \cup SampleSet(o))
      /\ Cardinality(s.consumed \cup SampleSet(o)) <= s.evaluated + 1
  <2> DEFINE T == s.consumed
             U == SampleSet(o)
             x == <<o.window, o.samples>>
  <2>1. IsFiniteSet(T) /\ Cardinality(T) \in Nat /\ Cardinality(T) <= s.evaluated
    BY <1>1, FS_CardinalityType
  <2>2. U = {} \/ U = {x}
    BY DEF SampleSet
  <2> HIDE DEF T, U, x
  <2>3. CASE U = {}
    <3>1. T \cup U = T
      BY <2>3
    <3>2. IsFiniteSet(T \cup U) /\ Cardinality(T \cup U) = Cardinality(T)
      BY <2>1, <3>1, Zenon
    <3>3. Cardinality(T \cup U) <= s.evaluated + 1
      BY <1>1, <2>1, <3>2
    <3>4. QED
      BY <3>2, <3>3 DEF T, U
  <2>4. CASE U = {x}
    <3>1. /\ IsFiniteSet(T \cup {x})
          /\ Cardinality(T \cup {x}) = IF x \in T THEN Cardinality(T) ELSE Cardinality(T) + 1
      BY <2>1, FS_AddElement
    <3>2. IsFiniteSet(T \cup U) /\ Cardinality(T \cup U) <= s.evaluated + 1
      BY <1>1, <2>1, <2>4, <3>1
    <3>3. QED
      BY <3>2 DEF T, U
  <2>5. QED
    BY <2>2, <2>3, <2>4
<1>5. /\ ObservationDigest(o) # NoDigest /\ ObservationDigest(o)[1] = o.window
  BY DEF ObservationDigest, NoDigest
<1> HIDE DEF n
<1>6. ValidState(n)
  BY <1>1, <1>2, <1>3, <1>4, <1>5 DEF ValidState, Later
<1>7. SoundState(n)
  BY <1>3, <1>4, <1>5, <1>6 DEF SoundState
<1>8. QED
  BY <1>3, <1>7 DEF n

\* A decision with a sound state passes its contract if its status and reasons
\* do: its rates are those of its counts, and it consumed the window it cites.
LEMMA DecideSound ==
    ASSUME NEW o, o.window \in Nat, NEW at \in Nat, NEW status, NEW reasons, NEW prior,
           NEW n, SoundState(n), NEW next \in Int, NEW d,
           d = Decide(status, reasons, prior, n, o, at, next),
           Counted(o) => StatusSemantics(d)
    PROVE  Sound(o, at, d)
<1>1. /\ d.state = n /\ d.at = at /\ d.observation = ObservationDigest(o)
      /\ d.aggregates = Aggregates(o) /\ d.window = o.window
      /\ d.next = IF next = NoTime THEN NoTime ELSE Later(at, next)
  BY DEF Decide
<1>2. ASSUME Counted(o) PROVE ValidDecision(d)
  <2>1. d.next = NoTime \/ d.next >= d.at
    BY <1>1 DEF Later
  <2>2. RatesCanonical(d.aggregates)
    <3>1. CASE o.completeness # "COMPLETE" \/ o.requests = 0
      BY <1>1, <3>1 DEF Aggregates, RatesCanonical
    <3>2. CASE ~(o.completeness # "COMPLETE" \/ o.requests = 0)
      <4>1. /\ d.aggregates.requests = o.requests /\ d.aggregates.ok = o.ok
            /\ d.aggregates.errors = o.errors
            /\ d.aggregates.error = CeilingBasisPoints(o.errors, o.requests)
            /\ d.aggregates.availability = FloorBasisPoints(o.ok, o.requests)
        BY <1>1, <3>2 DEF Aggregates
      <4>2. o.requests > 0 /\ o.ok + o.errors <= o.requests
        BY <1>2, <3>2 DEF Counted
      <4>3. QED
        BY <4>1, <4>2 DEF RatesCanonical
    <3>3. QED
      BY <3>1, <3>2
  <2>3. d.state.observation = d.observation => d.state.last = Ends(d.window)
    <3> SUFFICES ASSUME n.observation = ObservationDigest(o) PROVE n.last = Ends(o.window)
      BY <1>1
    <3>1. n.observation # NoDigest /\ n.observation[1] = o.window
      BY DEF ObservationDigest, NoDigest
    <3>2. n.evaluated = o.window
      BY <3>1 DEF SoundState
    <3>3. n.evaluated # 0
      BY <3>1 DEF SoundState, ValidState
    <3>4. QED
      BY <3>2, <3>3 DEF SoundState, ValidState
  <2>4. QED
    BY <1>1, <1>2, <2>1, <2>2, <2>3 DEF ValidDecision, SoundState
<1>3. QED
  BY <1>1, <1>2 DEF Sound

LEMMA InsufficientSound ==
    ASSUME NEW o, o.window \in Nat, NEW at \in Nat, NEW reason \in InsufficientReasons, NEW prior,
           NEW n, SoundState(n), NEW next \in Int
    PROVE  Sound(o, at, Insufficient(reason, prior, n, o, at, next))
<1> DEFINE d == Insufficient(reason, prior, n, o, at, next)
<1>1. d = Decide("INSUFFICIENT_EVIDENCE", <<reason>>, prior, n, o, at, next)
  BY DEF Insufficient
<1>2. d.status = "INSUFFICIENT_EVIDENCE" /\ d.reasons = <<reason>>
  BY <1>1 DEF Decide
<1>3. Len(<<reason>>) = 1 /\ <<reason>>[1] = reason
  OBVIOUS
<1> HIDE DEF d
<1>4. StatusSemantics(d)
  BY <1>2, <1>3 DEF StatusSemantics
<1>5. Sound(o, at, d)
  BY <1>1, <1>4, DecideSound
<1>6. QED
  BY <1>5 DEF d

LEMMA WaitSound ==
    ASSUME NEW o, o.window \in Nat, NEW at \in Nat, NEW reason \in ForbiddenReasons, NEW prior,
           NEW n, SoundState(n), NEW next \in Nat
    PROVE  Sound(o, at, Wait(<<reason>>, prior, n, o, at, next))
<1> DEFINE d == Wait(<<reason>>, prior, n, o, at, next)
<1>1. d = Decide("WAIT", <<reason>>, prior, n, o, at, next)
  BY DEF Wait
<1>2. d.status = "WAIT" /\ d.reasons = <<reason>> /\ d.next # NoTime
  BY <1>1 DEF Decide, NoTime, Later
<1> HIDE DEF d
<1>3. StatusSemantics(d)
  BY <1>2 DEF StatusSemantics
<1>4. Sound(o, at, d)
  BY <1>1, <1>3, DecideSound
<1>5. QED
  BY <1>4 DEF d

LEMMA UncitedSound ==
    ASSUME NEW o, NEW at \in Nat, NEW s, NEW n, SoundState(n), NEW reason,
           \/ reason \in InsufficientReasons
           \/ reason = "MAXIMUM_WINDOWS_EXHAUSTED" /\ n.evaluated = MaxWindows
    PROVE  Sound(o, at, Uncited(reason, s, n, o, at))
<1> DEFINE d == Uncited(reason, s, n, o, at)
<1>1. /\ d.status = "INSUFFICIENT_EVIDENCE" /\ d.reasons = <<reason>> /\ d.state = n
      /\ d.observation = NoDigest /\ d.aggregates = NoAggregates /\ d.next = NoTime
  BY DEF Uncited, Insufficient, Decide
<1>2. Len(<<reason>>) = 1 /\ <<reason>>[1] = reason /\ Last(<<reason>>) = reason
  BY DEF Last
<1> HIDE DEF d
<1>3. StatusSemantics(d)
  BY <1>1, <1>2 DEF StatusSemantics
<1>4. ValidDecision(d)
  BY <1>1, <1>3 DEF ValidDecision, SoundState, RatesCanonical
<1>5. Sound(o, at, d)
  BY <1>1, <1>4 DEF Sound
<1>6. QED
  BY <1>5 DEF d

LEMMA SingletonTyped ==
    ASSUME NEW S
    PROVE  <<>> \in Seq(S) /\ \A p \in S : <<p>> \in Seq(S)
  BY EmptySeq

LEMMA PairConcat ==
    ASSUME NEW a, NEW b
    PROVE  <<a>> \o <<b>> = <<a, b>> /\ Append(<<a>>, b) = <<a, b>>
<1> DEFINE S == {a, b}
<1>1. <<a>> \in Seq(S) /\ <<b>> \in Seq(S) /\ <<a, b>> \in Seq(S) /\ b \in S
  BY SingletonTyped
<1>2. Len(<<a>>) = 1 /\ Len(<<b>>) = 1 /\ Len(<<a, b>>) = 2
  OBVIOUS
<1>3. Append(<<a>>, b) = <<a>> \o <<b>>
  BY <1>1, AppendIsConcat
<1>4. /\ Append(<<a>>, b) \in Seq(S) /\ Len(Append(<<a>>, b)) = 2
      /\ Append(<<a>>, b)[1] = a /\ Append(<<a>>, b)[2] = b
  BY <1>1, <1>2, AppendProperties
<1>5. Append(<<a>>, b) = <<a, b>>
  <2> DEFINE s == Append(<<a>>, b)
             t == <<a, b>>
  <2>1. s \in Seq(S) /\ t \in Seq(S) /\ Len(s) = 2 /\ Len(t) = 2
    BY <1>1, <1>2, <1>4
  <2>2. s[1] = t[1] /\ s[2] = t[2]
    BY <1>4
  <2> HIDE DEF s, t, S
  <2>3. \A i \in 1..Len(s) : s[i] = t[i]
    BY <2>1, <2>2
  <2>4. s = t
    BY <2>1, <2>3, SeqEqual
  <2>5. QED
    BY <2>4 DEF s, t
<1>6. QED
  BY <1>3, <1>5

MetricReasons == {"UNHEALTHY_ERROR_RATE", "UNHEALTHY_LATENCY", "UNHEALTHY_AVAILABILITY"}

LEMMA ReasonsTyped ==
    ASSUME NEW errors, NEW ok, NEW requests, NEW latency
    PROVE  UnhealthyReasons(errors, ok, requests, latency) \in Seq(MetricReasons)
<1> DEFINE cite(bad, reason) == IF bad THEN <<reason>> ELSE <<>>
           x == cite(errors * BasisPoints >= UnhealthyMin.error * requests, "UNHEALTHY_ERROR_RATE")
           y == cite(latency >= UnhealthyMin.latency, "UNHEALTHY_LATENCY")
           z == cite(ok * BasisPoints <= UnhealthyMaxAvailability * requests, "UNHEALTHY_AVAILABILITY")
<1>1. UnhealthyReasons(errors, ok, requests, latency) = x \o y \o z
  BY DEF UnhealthyReasons
<1>2. /\ x = <<"UNHEALTHY_ERROR_RATE">> \/ x = <<>>
      /\ y = <<"UNHEALTHY_LATENCY">> \/ y = <<>>
      /\ z = <<"UNHEALTHY_AVAILABILITY">> \/ z = <<>>
  OBVIOUS
<1> HIDE DEF x, y, z
<1>3. <<>> \in Seq(MetricReasons) /\ \A r \in MetricReasons : <<r>> \in Seq(MetricReasons)
  BY SingletonTyped
<1>4. /\ "UNHEALTHY_ERROR_RATE" \in MetricReasons /\ "UNHEALTHY_LATENCY" \in MetricReasons
      /\ "UNHEALTHY_AVAILABILITY" \in MetricReasons
  BY DEF MetricReasons
<1>5. x \in Seq(MetricReasons) /\ y \in Seq(MetricReasons) /\ z \in Seq(MetricReasons)
  BY <1>2, <1>3, <1>4, Zenon
<1>6. QED
  BY <1>1, <1>5, ConcatProperties

\* A decision that consumed a window with enough evidence cites its counts.
LEMMA EvidenceCited ==
    ASSUME NEW o, o.window \in Nat, Supports(o), Counted(o), NEW at, NEW status, NEW reasons,
           NEW prior, NEW n, n.observation = ObservationDigest(o), n.last = Ends(o.window), NEW next,
           NEW d, d = Decide(status, reasons, prior, n, o, at, next)
    PROVE  /\ ThresholdEvidence(d)
           /\ CitesHealthy(d.aggregates) <=> ThresholdsMet(o.errors, o.ok, o.requests, o.latency)
           /\ CitedUnhealthy(d.aggregates) = UnhealthyReasons(o.errors, o.ok, o.requests, o.latency)
<1>1. /\ d.state = n /\ d.observation = ObservationDigest(o) /\ d.window = o.window
      /\ d.aggregates = Aggregates(o) /\ d.samples = Cardinality(DOMAIN o.samples)
  BY DEF Decide
<1>2. o.requests >= MinRequests /\ o.completeness = "COMPLETE" /\ o.requests \in Nat
  BY DEF Supports, Counted
<1>3. o.requests # 0 /\ o.requests # -1
  BY <1>2 DEF MinRequests
<1>4. /\ d.aggregates.requests = o.requests /\ d.aggregates.errors = o.errors
      /\ d.aggregates.ok = o.ok /\ d.aggregates.latency = o.latency
  BY <1>1, <1>2, <1>3 DEF Aggregates
<1>5. NoAggregates.requests = -1
  BY DEF NoAggregates
<1>6. d.aggregates # NoAggregates
  BY <1>3, <1>4, <1>5
<1>7. d.samples >= 2
  BY <1>1, <1>2 DEF Counted
<1>8. ThresholdEvidence(d)
  BY <1>1, <1>2, <1>4, <1>6, <1>7 DEF ThresholdEvidence, Consumed
<1>9. QED
  BY <1>4, <1>8 DEF CitesHealthy, CitedUnhealthy

\* What a window of a class may conclude: the streak of its class goes on, the
\* other one is reset.
Concludes(o, c, class, met) ==
    LET bad == UnhealthyReasons(o.errors, o.ok, o.requests, o.latency)
        good == ThresholdsMet(o.errors, o.ok, o.requests, o.latency)
    IN \/ /\ met = "HEALTHY_STREAK_MET" /\ class.reasons = <<"HEALTHY_THRESHOLDS_MET">> /\ good
          /\ c.healthy \in {1, 2} /\ c.unhealthy = 0
       \/ /\ met = "UNHEALTHY_STREAK_MET" /\ class.reasons = bad /\ bad # <<>>
          /\ c.healthy = 0 /\ c.unhealthy \in {1, 2}
       \/ /\ met = None /\ class.reasons = <<"THRESHOLD_INCONCLUSIVE">> /\ ~good /\ bad = <<>>
          /\ c.healthy = 0 /\ c.unhealthy = 0

LEMMA NextAfterTyped ==
    ASSUME NEW s, s.evaluated \in Nat, NEW o, o.window \in Nat, NEW at \in Nat
    PROVE  /\ NextAfter(s, o, at) \in Int
           /\ s.evaluated < MaxWindows => NextAfter(s, o, at) \in Nat
<1> DEFINE x == Ends(o.window) + Window + Delay
<1>1. x \in Nat
  <2>1. Ends(o.window) \in Nat
    BY WindowFacts
  <2>2. QED
    BY <2>1, BoundFacts
<1> HIDE DEF x
<1>2. Later(at, x) \in Nat
  BY <1>1 DEF Later
<1>3. NextAfter(s, o, at) =
        IF s.evaluated >= MaxWindows THEN NoTime ELSE Later(at, x)
  BY DEF NextAfter, x
<1>4. s.evaluated < MaxWindows => ~(s.evaluated >= MaxWindows)
  BY BoundFacts
<1>5. CASE s.evaluated >= MaxWindows
  BY <1>3, <1>4, <1>5 DEF NoTime
<1>6. CASE ~(s.evaluated >= MaxWindows)
  BY <1>2, <1>3, <1>6
<1>7. QED
  BY <1>5, <1>6

LEMMA VerdictSemantics ==
    ASSUME NEW d, ThresholdEvidence(d), d.next = NoTime,
           \/ /\ d.status = "HEALTHY" /\ CitesHealthy(d.aggregates)
              /\ d.reasons = <<"HEALTHY_THRESHOLDS_MET", "HEALTHY_STREAK_MET">>
              /\ d.state.healthy = 2 /\ d.state.unhealthy = 0
           \/ /\ d.status = "UNHEALTHY" /\ CitedUnhealthy(d.aggregates) # <<>>
              /\ d.reasons = Append(CitedUnhealthy(d.aggregates), "UNHEALTHY_STREAK_MET")
              /\ d.state.healthy = 0 /\ d.state.unhealthy = 2
    PROVE  StatusSemantics(d)
  BY DEF StatusSemantics

LEMMA WaitSemantics ==
    ASSUME NEW d, ThresholdEvidence(d), d.next # NoTime, d.status = "WAIT",
           \/ /\ CitesHealthy(d.aggregates)
              /\ d.reasons = <<"HEALTHY_THRESHOLDS_MET", "HEALTHY_STREAK_PENDING">>
              /\ d.state.healthy = 1 /\ d.state.unhealthy = 0
           \/ /\ CitedUnhealthy(d.aggregates) # <<>>
              /\ d.reasons = Append(CitedUnhealthy(d.aggregates), "UNHEALTHY_STREAK_PENDING")
              /\ d.state.healthy = 0 /\ d.state.unhealthy = 1
           \/ /\ ~CitesHealthy(d.aggregates) /\ CitedUnhealthy(d.aggregates) = <<>>
              /\ d.reasons = <<"THRESHOLD_INCONCLUSIVE">>
              /\ d.state.healthy = 0 /\ d.state.unhealthy = 0
    PROVE  StatusSemantics(d)
  BY DEF StatusSemantics

\* The decisions that name the reasons of the last window.
LEMMA ExhaustedSound ==
    ASSUME NEW o, o.window \in Nat, NEW at \in Nat, NEW prior, NEW n, SoundState(n),
           n.evaluated = MaxWindows, NEW S, NEW reasons \in Seq(S), NEW d,
           d = Decide("INSUFFICIENT_EVIDENCE", Append(reasons, "MAXIMUM_WINDOWS_EXHAUSTED"),
                      prior, n, o, at, NoTime)
    PROVE  Sound(o, at, d)
<1>1. /\ d.status = "INSUFFICIENT_EVIDENCE" /\ d.state = n /\ d.next = NoTime
      /\ d.reasons = Append(reasons, "MAXIMUM_WINDOWS_EXHAUSTED")
  BY DEF Decide
<1>2. Last(Append(reasons, "MAXIMUM_WINDOWS_EXHAUSTED")) = "MAXIMUM_WINDOWS_EXHAUSTED"
  BY LenProperties DEF Last
<1>3. StatusSemantics(d)
  BY <1>1, <1>2 DEF StatusSemantics
<1>4. NoTime \in Int
  BY DEF NoTime
<1>5. QED
  BY <1>3, <1>4, DecideSound

LEMMA ConcludedSound ==
    ASSUME NEW o, o.window \in Nat, Supports(o), NEW at \in Nat, NEW prior,
           NEW c, SoundState(c), c.evaluated = o.window, c.observation = ObservationDigest(o),
           c.last = Ends(o.window), NEW class, NEW met, Concludes(o, c, class, met),
           NEW d, d = Concluded(prior, c, o, at, class, met)
    PROVE  Sound(o, at, d)
<1> DEFINE bad == UnhealthyReasons(o.errors, o.ok, o.requests, o.latency)
           good == ThresholdsMet(o.errors, o.ok, o.requests, o.latency)
           next == NextAfter(c, o, at)
<1>1. NoTime \in Int /\ next \in Int /\ (c.evaluated < MaxWindows => next \in Nat)
  BY NextAfterTyped DEF NoTime
<1>2. c.evaluated \in 0..MaxWindows /\ MaxWindows \in Nat
  BY SoundFacts, BoundFacts
<1>3. bad \in Seq(MetricReasons)
  BY ReasonsTyped
<1>4. ASSUME Counted(o), NEW status, NEW reasons, NEW at2,
             d = Decide(status, reasons, prior, c, o, at, at2)
      PROVE  /\ d.status = status /\ d.reasons = reasons /\ d.state = c
             /\ d.next = IF at2 = NoTime THEN NoTime ELSE Later(at, at2)
             /\ ThresholdEvidence(d) /\ (CitesHealthy(d.aggregates) <=> good)
             /\ CitedUnhealthy(d.aggregates) = bad
  <2>1. /\ d.status = status /\ d.reasons = reasons /\ d.state = c
        /\ d.next = IF at2 = NoTime THEN NoTime ELSE Later(at, at2)
    BY <1>4 DEF Decide
  <2>2. QED
    BY <1>4, <2>1, EvidenceCited
<1>5. CASE met = "HEALTHY_STREAK_MET"
  <2>1. /\ class.reasons = <<"HEALTHY_THRESHOLDS_MET">> /\ good
        /\ c.healthy \in {1, 2} /\ c.unhealthy = 0
    BY <1>5 DEF Concludes, None
  <2>2. CASE c.healthy >= HealthyStreak
    <3>1. d = Decide("HEALTHY", <<"HEALTHY_THRESHOLDS_MET", "HEALTHY_STREAK_MET">>, prior, c, o, at, NoTime)
      <4>1. d = Decide("HEALTHY", Append(class.reasons, "HEALTHY_STREAK_MET"), prior, c, o, at, NoTime)
        BY <1>5, <2>2 DEF Concluded
      <4>2. QED
        BY <2>1, <4>1, PairConcat
    <3>2. c.healthy = 2
      BY <2>1, <2>2, BoundFacts
    <3>3. ASSUME Counted(o) PROVE StatusSemantics(d)
      <4> HIDE DEF good, bad
      <4>1. /\ ThresholdEvidence(d) /\ (CitesHealthy(d.aggregates) <=> good)
            /\ CitedUnhealthy(d.aggregates) = bad /\ d.state = c /\ d.next = NoTime
        BY <1>4, <3>1, <3>3
      <4>2. QED
        BY <2>1, <3>1, <3>2, <4>1, VerdictSemantics DEF Decide
    <3>4. QED
      BY <1>1, <3>1, <3>3, DecideSound
  <2>3. CASE ~(c.healthy >= HealthyStreak) /\ c.evaluated >= MaxWindows
    <3>1. d = Decide("INSUFFICIENT_EVIDENCE", Append(class.reasons, "MAXIMUM_WINDOWS_EXHAUSTED"),
                     prior, Reset(c), o, at, NoTime)
      BY <1>5, <2>3 DEF Concluded
    <3>2. SoundState(Reset(c)) /\ Reset(c).evaluated = MaxWindows
      BY <1>2, <2>3, ResetSound
    <3>3. class.reasons \in Seq({"HEALTHY_THRESHOLDS_MET"})
      BY <2>1, SingletonTyped
    <3>4. QED
      BY <3>1, <3>2, <3>3, ExhaustedSound
  <2>4. CASE ~(c.healthy >= HealthyStreak) /\ ~(c.evaluated >= MaxWindows)
    <3>1. d = Decide("WAIT", <<"HEALTHY_THRESHOLDS_MET", "HEALTHY_STREAK_PENDING">>, prior, c, o, at, next)
      <4>1. d = Wait(class.reasons \o <<"HEALTHY_STREAK_PENDING">>, prior, c, o, at, next)
        BY <1>5, <2>1, <2>4 DEF Concluded, None
      <4>2. <<"HEALTHY_THRESHOLDS_MET">> \o <<"HEALTHY_STREAK_PENDING">>
              = <<"HEALTHY_THRESHOLDS_MET", "HEALTHY_STREAK_PENDING">>
        BY PairConcat
      <4> HIDE DEF next
      <4>3. QED
        BY <2>1, <4>1, <4>2 DEF Wait
    <3>2. c.healthy = 1 /\ next \in Nat
      BY <1>1, <1>2, <2>1, <2>4, BoundFacts
    <3>3. ASSUME Counted(o) PROVE StatusSemantics(d)
      <4>1. Later(at, next) # NoTime /\ next # NoTime
        BY <3>2 DEF Later, NoTime
      <4> HIDE DEF good, bad, next
      <4>2. QED
        BY <1>4, <2>1, <3>1, <3>2, <3>3, <4>1, WaitSemantics
    <3>4. QED
      BY <1>1, <3>1, <3>3, DecideSound
  <2>5. QED
    BY <2>2, <2>3, <2>4
<1>6. CASE met = "UNHEALTHY_STREAK_MET"
  <2>1. class.reasons = bad /\ bad # <<>> /\ c.healthy = 0 /\ c.unhealthy \in {1, 2}
    BY <1>6 DEF Concludes, None
  <2>2. CASE c.unhealthy >= UnhealthyStreak
    <3>1. d = Decide("UNHEALTHY", Append(bad, "UNHEALTHY_STREAK_MET"), prior, c, o, at, NoTime)
      BY <1>6, <2>1, <2>2 DEF Concluded
    <3>2. c.unhealthy = 2
      BY <2>1, <2>2, BoundFacts
    <3>3. ASSUME Counted(o) PROVE StatusSemantics(d)
      <4> HIDE DEF good, bad
      <4>1. /\ ThresholdEvidence(d) /\ (CitesHealthy(d.aggregates) <=> good)
            /\ CitedUnhealthy(d.aggregates) = bad /\ d.state = c /\ d.next = NoTime
        BY <1>4, <3>1, <3>3
      <4>2. QED
        BY <2>1, <3>1, <3>2, <4>1, VerdictSemantics DEF Decide
    <3>4. QED
      BY <1>1, <3>1, <3>3, DecideSound
  <2>3. CASE ~(c.unhealthy >= UnhealthyStreak) /\ c.evaluated >= MaxWindows
    <3>1. d = Decide("INSUFFICIENT_EVIDENCE", Append(class.reasons, "MAXIMUM_WINDOWS_EXHAUSTED"),
                     prior, Reset(c), o, at, NoTime)
      BY <1>6, <2>3 DEF Concluded
    <3>2. SoundState(Reset(c)) /\ Reset(c).evaluated = MaxWindows
      BY <1>2, <2>3, ResetSound
    <3>3. class.reasons \in Seq(MetricReasons)
      BY <1>3, <2>1
    <3>4. QED
      BY <3>1, <3>2, <3>3, ExhaustedSound
  <2>4. CASE ~(c.unhealthy >= UnhealthyStreak) /\ ~(c.evaluated >= MaxWindows)
    <3>1. d = Decide("WAIT", bad \o <<"UNHEALTHY_STREAK_PENDING">>, prior, c, o, at, next)
      <4>1. d = Wait(class.reasons \o <<"UNHEALTHY_STREAK_PENDING">>, prior, c, o, at, next)
        BY <1>6, <2>1, <2>4 DEF Concluded, None
      <4> HIDE DEF next, bad
      <4>2. QED
        BY <2>1, <4>1 DEF Wait
    <3>2. c.unhealthy = 1 /\ next \in Nat
      BY <1>1, <1>2, <2>1, <2>4, BoundFacts
    <3>3. bad \o <<"UNHEALTHY_STREAK_PENDING">> = Append(bad, "UNHEALTHY_STREAK_PENDING")
      <4> DEFINE S == MetricReasons \cup {"UNHEALTHY_STREAK_PENDING"}
      <4>1. bad \in Seq(S) /\ "UNHEALTHY_STREAK_PENDING" \in S
        BY <1>3, SeqMonotonic
      <4> HIDE DEF S, bad
      <4>2. QED
        BY <4>1, AppendIsConcat
    <3>4. ASSUME Counted(o) PROVE StatusSemantics(d)
      <4>1. Later(at, next) # NoTime /\ next # NoTime
        BY <3>2 DEF Later, NoTime
      <4> HIDE DEF good, bad, next
      <4>2. /\ ThresholdEvidence(d) /\ CitedUnhealthy(d.aggregates) = bad /\ d.state = c
            /\ d.next # NoTime
        BY <1>4, <3>1, <3>4, <4>1
      <4>3. d.status = "WAIT" /\ d.reasons = Append(bad, "UNHEALTHY_STREAK_PENDING")
        BY <3>1, <3>3 DEF Decide
      <4>4. QED
        BY <2>1, <3>2, <4>2, <4>3, WaitSemantics
    <3>5. QED
      BY <1>1, <3>1, <3>4, DecideSound
  <2>5. QED
    BY <2>2, <2>3, <2>4
<1>7. CASE met = None
  <2>1. /\ class.reasons = <<"THRESHOLD_INCONCLUSIVE">> /\ ~good /\ bad = <<>>
        /\ c.healthy = 0 /\ c.unhealthy = 0
    BY <1>7 DEF Concludes, None
  <2>2. CASE c.evaluated >= MaxWindows
    <3>1. d = Decide("INSUFFICIENT_EVIDENCE", Append(class.reasons, "MAXIMUM_WINDOWS_EXHAUSTED"),
                     prior, Reset(c), o, at, NoTime)
      BY <1>7, <2>2 DEF Concluded, None
    <3>2. SoundState(Reset(c)) /\ Reset(c).evaluated = MaxWindows
      BY <1>2, <2>2, ResetSound
    <3>3. class.reasons \in Seq({"THRESHOLD_INCONCLUSIVE"})
      BY <2>1, SingletonTyped
    <3>4. QED
      BY <3>1, <3>2, <3>3, ExhaustedSound
  <2>3. CASE ~(c.evaluated >= MaxWindows)
    <3>1. d = Decide("WAIT", <<"THRESHOLD_INCONCLUSIVE">>, prior, c, o, at, next)
      <4>1. <<"THRESHOLD_INCONCLUSIVE">> \o <<>> = <<"THRESHOLD_INCONCLUSIVE">>
        OBVIOUS
      <4>2. d = Wait(class.reasons \o <<>>, prior, c, o, at, next)
        BY <1>7, <2>3 DEF Concluded, None
      <4>3. QED
        BY <2>1, <4>1, <4>2 DEF Wait
    <3>2. next \in Nat
      BY <1>1, <1>2, <2>3
    <3>3. ASSUME Counted(o) PROVE StatusSemantics(d)
      <4>1. Later(at, next) # NoTime /\ next # NoTime
        BY <3>2 DEF Later, NoTime
      <4> HIDE DEF good, bad, next
      <4>2. QED
        BY <1>4, <2>1, <3>1, <3>3, <4>1, WaitSemantics
    <3>4. QED
      BY <1>1, <3>1, <3>3, DecideSound
  <2>4. QED
    BY <2>2, <2>3
<1>8. QED
  BY <1>5, <1>6, <1>7 DEF Concludes

LEMMA ThresholdsSound ==
    ASSUME NEW s, SoundState(s), NEW o, o.window = s.evaluated + 1, s.evaluated < MaxWindows,
           Supports(o), NEW at \in Nat, NEW n, n = Advance(s, o, 1)
    PROVE  Sound(o, at, EvaluateThresholds(s, s, n, o, at))
<1> DEFINE class == ClassifyWindow(o)
           good == [n EXCEPT !.unhealthy = 0, !.healthy = Earlier(s.healthy + 1, HealthyStreak)]
           bad == [n EXCEPT !.healthy = 0, !.unhealthy = Earlier(s.unhealthy + 1, UnhealthyStreak)]
<1>1. /\ SoundState(n) /\ n.evaluated = o.window /\ n.observation = ObservationDigest(o)
      /\ n.last = Ends(o.window) /\ StateShaped(n)
  BY AdvanceSound DEF SoundState
<1>2. /\ s.healthy \in Nat /\ s.unhealthy \in Nat /\ s.evaluated \in Nat /\ o.window \in Nat
      /\ s.healthy <= s.evaluated /\ s.unhealthy <= s.evaluated
  BY SoundFacts
<1>3. /\ Earlier(s.healthy + 1, HealthyStreak) \in {1, 2}
      /\ Earlier(s.healthy + 1, HealthyStreak) <= o.window
      /\ Earlier(s.unhealthy + 1, UnhealthyStreak) \in {1, 2}
      /\ Earlier(s.unhealthy + 1, UnhealthyStreak) <= o.window
  BY <1>2, BoundFacts DEF Earlier
<1>4. /\ StateShaped(good) /\ good.evaluated = n.evaluated /\ good.last = n.last
      /\ good.observation = n.observation /\ good.consumed = n.consumed
      /\ good.unhealthy = 0 /\ good.healthy = Earlier(s.healthy + 1, HealthyStreak)
  BY <1>1, <1>3 DEF StateShaped
<1>5. /\ StateShaped(bad) /\ bad.evaluated = n.evaluated /\ bad.last = n.last
      /\ bad.observation = n.observation /\ bad.consumed = n.consumed
      /\ bad.healthy = 0 /\ bad.unhealthy = Earlier(s.unhealthy + 1, UnhealthyStreak)
  BY <1>1, <1>3 DEF StateShaped
<1>6. /\ Reset(n).evaluated = n.evaluated /\ Reset(n).last = n.last
      /\ Reset(n).observation = n.observation
      /\ Reset(n).healthy = 0 /\ Reset(n).unhealthy = 0
  BY <1>1 DEF StateShaped, Reset
<1>7. /\ class.class = "healthy" =>
           EvaluateThresholds(s, s, n, o, at)
               = Concluded(s, good, o, at, class, "HEALTHY_STREAK_MET")
      /\ class.class = "unhealthy" =>
           EvaluateThresholds(s, s, n, o, at)
               = Concluded(s, bad, o, at, class, "UNHEALTHY_STREAK_MET")
      /\ class.class = "wait" =>
           EvaluateThresholds(s, s, n, o, at) = Concluded(s, Reset(n), o, at, class, None)
  BY DEF EvaluateThresholds
<1>8. \/ /\ class.class = "unhealthy"
         /\ class.reasons = UnhealthyReasons(o.errors, o.ok, o.requests, o.latency)
         /\ UnhealthyReasons(o.errors, o.ok, o.requests, o.latency) # <<>>
      \/ /\ class.class = "healthy" /\ class.reasons = <<"HEALTHY_THRESHOLDS_MET">>
         /\ ThresholdsMet(o.errors, o.ok, o.requests, o.latency)
      \/ /\ class.class = "wait" /\ class.reasons = <<"THRESHOLD_INCONCLUSIVE">>
         /\ ~ThresholdsMet(o.errors, o.ok, o.requests, o.latency)
         /\ UnhealthyReasons(o.errors, o.ok, o.requests, o.latency) = <<>>
  BY DEF ClassifyWindow
<1> HIDE DEF class, good, bad
<1>9. SoundState(good) /\ SoundState(bad) /\ SoundState(Reset(n))
  <2>1. SoundState(good)
    BY <1>1, <1>2, <1>3, <1>4, StreakSound
  <2>2. SoundState(bad)
    BY <1>1, <1>2, <1>3, <1>5, StreakSound
  <2>3. SoundState(Reset(n))
    BY <1>1, ResetSound
  <2>4. QED
    BY <2>1, <2>2, <2>3
<1>10. CASE class.class = "healthy"
  <2>1. Concludes(o, good, class, "HEALTHY_STREAK_MET")
    BY <1>3, <1>4, <1>8, <1>10 DEF Concludes
  <2>2. QED
    BY <1>1, <1>2, <1>4, <1>7, <1>9, <1>10, <2>1, ConcludedSound
<1>11. CASE class.class = "unhealthy"
  <2>1. Concludes(o, bad, class, "UNHEALTHY_STREAK_MET")
    BY <1>3, <1>5, <1>8, <1>11 DEF Concludes
  <2>2. QED
    BY <1>1, <1>2, <1>5, <1>7, <1>9, <1>11, <2>1, ConcludedSound
<1>12. CASE class.class = "wait"
  <2>1. Concludes(o, Reset(n), class, None)
    BY <1>6, <1>8, <1>12 DEF Concludes
  <2>2. QED
    BY <1>1, <1>2, <1>6, <1>7, <1>9, <1>12, <2>1, ConcludedSound
<1>13. QED
  BY <1>8, <1>10, <1>11, <1>12

LEMMA EvidenceSound ==
    ASSUME NEW s, SoundState(s), NEW o, o.window = s.evaluated + 1, s.evaluated < MaxWindows,
           Ready(o.window) <= o.observed, o.observed \in Nat, o.requests \in Nat,
           NEW at \in Nat, NEW n, n = Advance(s, o, 1)
    PROVE  Sound(o, at, EvaluateEvidence(s, s, n, o, at))
<1> DEFINE lost(reason) == Insufficient(reason, s, Reset(n), o, at, NextAfter(n, o, at))
           retry(reason) == IF at < Deadline(o.window)
                            THEN Insufficient(reason, s, s, o, at, Deadline(o.window))
                            ELSE lost(reason)
           gap == Ends(o.window) - Window > ExpectedStart(s)
<1>1. s.evaluated \in Nat /\ o.window \in Nat
  BY SoundFacts
<1>2. Deadline(o.window) \in Nat
  BY <1>1, WindowFacts
<1>3. SoundState(Reset(n)) /\ n.evaluated \in Nat
  BY <1>1, AdvanceSound, ResetSound
<1>4. NextAfter(n, o, at) \in Int
  BY <1>1, <1>3, NextAfterTyped
<1>5. ASSUME NEW reason \in InsufficientReasons PROVE Sound(o, at, lost(reason))
  BY <1>1, <1>3, <1>4, InsufficientSound
<1>6. ASSUME NEW reason \in InsufficientReasons PROVE Sound(o, at, retry(reason))
  <2>1. Sound(o, at, Insufficient(reason, s, s, o, at, Deadline(o.window)))
    BY <1>1, <1>2, InsufficientSound
  <2> HIDE DEF lost
  <2>2. QED
    BY <1>5, <2>1
<1>7. /\ "SAMPLE_LATE" \in InsufficientReasons /\ "WINDOW_GAP" \in InsufficientReasons
      /\ "SAMPLE_MISSING" \in InsufficientReasons /\ "SAMPLE_PARTIAL" \in InsufficientReasons
      /\ "SAMPLE_CONFLICTING_DUPLICATE" \in InsufficientReasons
      /\ "MINIMUM_REQUESTS_NOT_MET" \in InsufficientReasons
  BY DEF InsufficientReasons, RetryableReasons
<1>8. EvaluateEvidence(s, s, n, o, at) =
        IF o.observed > Deadline(o.window) THEN lost("SAMPLE_LATE")
        ELSE IF gap THEN lost("WINDOW_GAP")
        ELSE IF o.completeness # "COMPLETE"
             THEN retry(IF o.completeness = "MISSING" THEN "SAMPLE_MISSING" ELSE "SAMPLE_PARTIAL")
        ELSE IF o.conflicting THEN lost("SAMPLE_CONFLICTING_DUPLICATE")
        ELSE IF o.requests < MinRequests THEN retry("MINIMUM_REQUESTS_NOT_MET")
        ELSE EvaluateThresholds(s, s, n, o, at)
  BY DEF EvaluateEvidence
<1> HIDE DEF lost, retry, gap
<1>9. CASE o.observed > Deadline(o.window)
  BY <1>5, <1>7, <1>8, <1>9
<1>10. CASE ~(o.observed > Deadline(o.window)) /\ gap
  BY <1>5, <1>7, <1>8, <1>10
<1>11. CASE ~(o.observed > Deadline(o.window)) /\ ~gap /\ o.completeness # "COMPLETE"
  BY <1>6, <1>7, <1>8, <1>11
<1>12. CASE /\ ~(o.observed > Deadline(o.window)) /\ ~gap /\ o.completeness = "COMPLETE"
            /\ o.conflicting
  BY <1>5, <1>7, <1>8, <1>12
<1>13. CASE /\ ~(o.observed > Deadline(o.window)) /\ ~gap /\ o.completeness = "COMPLETE"
            /\ ~o.conflicting /\ o.requests < MinRequests
  BY <1>6, <1>7, <1>8, <1>13
<1>14. CASE /\ ~(o.observed > Deadline(o.window)) /\ ~gap /\ o.completeness = "COMPLETE"
            /\ ~o.conflicting /\ ~(o.requests < MinRequests)
  <2>1. EvaluateEvidence(s, s, n, o, at) = EvaluateThresholds(s, s, n, o, at)
    BY <1>8, <1>14
  <2>2. o.observed <= Deadline(o.window) /\ o.requests >= MinRequests
    BY <1>2, <1>14 DEF MinRequests
  <2>3. Supports(o)
    BY <1>14, <2>2 DEF Supports
  <2>4. QED
    BY <2>1, <2>3, ThresholdsSound
<1>15. QED
  BY <1>9, <1>10, <1>11, <1>12, <1>13, <1>14

LEMMA WindowSound ==
    ASSUME NEW s, SoundState(s), NEW o, o.window = s.evaluated + 1, s.evaluated < MaxWindows,
           StateMatches(s, E), o.observed \in Nat, o.requests \in Nat, NEW at \in Nat
    PROVE  Sound(o, at, EvaluateWindow(s, o, at))
<1> DEFINE n == Advance(s, o, 1)
           replay == ~o.conflicting /\ (\/ ObservationDigest(o) = s.observation
                                        \/ SampleSet(o) # {} /\ SampleSet(o) \subseteq s.consumed)
           again == Later(at, s.last + Window + Delay)
<1>1. s.evaluated \in Nat /\ o.window \in Nat /\ s.last \in Int /\ StateShaped(s) /\ MaxWindows \in Nat
  BY SoundFacts, BoundFacts DEF SoundState
<1>2. Deadline(o.window) \in Nat /\ Ready(o.window) \in Nat
  BY <1>1, WindowFacts
<1>3. (Ends(o.window) - ExpectedStart(s)) \div Window = 1
  BY <1>1, AdvanceFacts
<1>4. NextAfter(s, o, at) \in Int /\ SoundState(Reset(s)) /\ NoTime \in Int
  BY <1>1, NextAfterTyped, ResetSound DEF NoTime
<1>5. again \in Nat
  BY <1>1, BoundFacts DEF Later
<1>6. Earlier(o.observed, Deadline(o.window)) \in Int
  BY <1>2 DEF Earlier
<1>7. /\ "WINDOW_DUPLICATE" \in ForbiddenReasons /\ "WINDOW_NOT_READY" \in ForbiddenReasons
      /\ "SAMPLE_EARLY" \in ForbiddenReasons
      /\ "SAMPLE_CONFLICTING_DUPLICATE" \in InsufficientReasons
      /\ "WINDOW_OUT_OF_ORDER" \in InsufficientReasons /\ "SAMPLE_LATE" \in InsufficientReasons
  BY DEF ForbiddenReasons, InsufficientReasons, RetryableReasons
<1>8. EvaluateWindow(s, o, at) =
        IF replay THEN Wait(<<"WINDOW_DUPLICATE">>, s, s, o, at,
                            IF s.evaluated >= MaxWindows THEN NoTime ELSE again)
        ELSE IF Ends(o.window) = s.last
             THEN Insufficient("SAMPLE_CONFLICTING_DUPLICATE", s, Reset(s), o, at, NextAfter(s, o, at))
        ELSE IF Ends(o.window) - Window < ExpectedStart(s)
             THEN Insufficient("WINDOW_OUT_OF_ORDER", s, Reset(s), o, at, NoTime)
        ELSE IF at < Ready(o.window)
             THEN Wait(<<"WINDOW_NOT_READY">>, s, s, o, at, Ready(o.window))
        ELSE IF o.observed > at
             THEN Insufficient("SAMPLE_LATE", s, s, o, at, Earlier(o.observed, Deadline(o.window)))
        ELSE IF o.observed < Ready(o.window)
             THEN Wait(<<"SAMPLE_EARLY">>, s, s, o, at, Ready(o.window))
        ELSE EvaluateEvidence(s, s, n, o, at)
  BY <1>3 DEF EvaluateWindow
<1>9. /\ Sound(o, at, Wait(<<"WINDOW_DUPLICATE">>, s, s, o, at, again))
      /\ Sound(o, at, Wait(<<"WINDOW_NOT_READY">>, s, s, o, at, Ready(o.window)))
      /\ Sound(o, at, Wait(<<"SAMPLE_EARLY">>, s, s, o, at, Ready(o.window)))
  BY <1>1, <1>2, <1>5, <1>7, WaitSound
<1>10. /\ Sound(o, at, Insufficient("SAMPLE_CONFLICTING_DUPLICATE", s, Reset(s), o, at,
                                    NextAfter(s, o, at)))
       /\ Sound(o, at, Insufficient("WINDOW_OUT_OF_ORDER", s, Reset(s), o, at, NoTime))
       /\ Sound(o, at, Insufficient("SAMPLE_LATE", s, s, o, at,
                                    Earlier(o.observed, Deadline(o.window))))
  BY <1>1, <1>4, <1>6, <1>7, InsufficientSound
<1>11. ~(s.evaluated >= MaxWindows)
  BY <1>1
<1> HIDE DEF n, replay, again
<1>12. CASE \/ replay \/ Ends(o.window) = s.last
            \/ Ends(o.window) - Window < ExpectedStart(s) \/ at < Ready(o.window)
            \/ o.observed > at \/ o.observed < Ready(o.window)
  BY <1>8, <1>9, <1>10, <1>11, <1>12
<1>13. CASE ~(\/ replay \/ Ends(o.window) = s.last
              \/ Ends(o.window) - Window < ExpectedStart(s) \/ at < Ready(o.window)
              \/ o.observed > at \/ o.observed < Ready(o.window))
  <2>1. EvaluateWindow(s, o, at) = EvaluateEvidence(s, s, n, o, at)
    BY <1>8, <1>13
  <2>2. Ready(o.window) <= o.observed
    BY <1>2, <1>13
  <2>3. QED
    BY <2>1, <2>2, EvidenceSound DEF n
<1>14. QED
  BY <1>12, <1>13

\* Whatever is observed of the next window, the decision has a sound state and
\* passes its contract.
LEMMA HealthSound ==
    ASSUME NEW s, SoundState(s), NEW o, o.window = s.evaluated + 1,
           o.observed \in Nat, o.requests \in Nat, NEW at \in Nat
    PROVE  Sound(o, at, EvaluateHealth(E, s, o, at))
<1>1. /\ s.evaluated \in Nat /\ o.window \in Nat /\ MaxWindows \in Nat
      /\ s.evaluated <= MaxWindows /\ SoundState(Reset(s)) /\ Reset(s).evaluated = s.evaluated
  BY SoundFacts, BoundFacts, ResetSound
<1>2. /\ "STATE_SCOPE_MISMATCH" \in InsufficientReasons /\ "STATE_TERMINAL" \in InsufficientReasons
      /\ "SAMPLE_SCOPE_MISMATCH" \in InsufficientReasons
  BY DEF InsufficientReasons
<1>3. CASE ~StateMatches(s, E)
  BY <1>1, <1>2, <1>3, UncitedSound DEF EvaluateHealth
<1>4. CASE StateMatches(s, E) /\ (s.healthy >= HealthyStreak \/ s.unhealthy >= UnhealthyStreak)
  BY <1>1, <1>2, <1>4, UncitedSound DEF EvaluateHealth
<1>5. CASE /\ StateMatches(s, E) /\ ~(s.healthy >= HealthyStreak \/ s.unhealthy >= UnhealthyStreak)
           /\ s.evaluated >= MaxWindows
  <2>1. Reset(s).evaluated = MaxWindows
    BY <1>1, <1>5
  <2>2. QED
    BY <1>1, <1>5, <2>1, UncitedSound DEF EvaluateHealth
<1>6. CASE /\ StateMatches(s, E) /\ ~(s.healthy >= HealthyStreak \/ s.unhealthy >= UnhealthyStreak)
           /\ ~(s.evaluated >= MaxWindows) /\ o.epoch # E
  <2>1. NoTime \in Int
    BY DEF NoTime
  <2>2. QED
    BY <1>1, <1>2, <1>6, <2>1, InsufficientSound DEF EvaluateHealth
<1>7. CASE /\ StateMatches(s, E) /\ ~(s.healthy >= HealthyStreak \/ s.unhealthy >= UnhealthyStreak)
           /\ ~(s.evaluated >= MaxWindows) /\ o.epoch = E
  <2>1. EvaluateHealth(E, s, o, at) = EvaluateWindow(s, o, at)
    BY <1>7 DEF EvaluateHealth
  <2>2. s.evaluated < MaxWindows
    BY <1>1, <1>7
  <2>3. QED
    BY <1>7, <2>1, <2>2, WindowSound
<1>8. QED
  BY <1>3, <1>4, <1>5, <1>6, <1>7

\* The values of a slot are finitely many.
LEMMA SlotFinite ==
    ASSUME NEW points \in Seq(SlottedPoint), NEW slot
    PROVE  IsFiniteSet(SlotValues(points, slot))
<1> DEFINE D == {j \in DOMAIN points : points[j].slot = slot}
           V == SlotValues(points, slot)
           f == [i \in D |-> points[i].value]
<1>1. Len(points) \in Nat /\ DOMAIN points = 1..Len(points)
  BY LenProperties
<1>2. IsFiniteSet(1..Len(points))
  BY <1>1, FS_Interval
<1>3. IsFiniteSet(D)
  BY <1>1, <1>2, FS_Subset
<1>4. V = {points[i].value : i \in D}
  BY DEF SlotValues
<1> HIDE DEF D, V
<1>5. f \in Surjection(D, V)
  BY <1>4 DEF Surjection
<1>6. IsFiniteSet(V)
  BY <1>3, <1>5, FS_Surjection
<1>7. QED
  BY <1>6 DEF V

LEMMA PairCounts ==
    ASSUME NEW x, NEW y, x # y
    PROVE  Cardinality({x} \cup {y}) = 2
<1>1. IsFiniteSet({x}) /\ Cardinality({x}) = 1
  BY FS_Singleton
<1>2. y \notin {x}
  OBVIOUS
<1>3. Cardinality({x} \cup {y}) = IF y \in {x} THEN Cardinality({x}) ELSE Cardinality({x}) + 1
  BY <1>1, FS_AddElement, Zenon
<1>4. Cardinality({x} \cup {y}) = Cardinality({x}) + 1
  BY <1>2, <1>3, Zenon
<1>5. QED
  BY <1>1, <1>4

\* Points conflict exactly when one differs from the sample of its slot.
LEMMA ConflictSeen ==
    ASSUME NEW points \in Seq(SlottedPoint)
    PROVE  Conflicting(points) <=>
             \E i \in DOMAIN points : points[i].value # CanonicalSamples(points)[points[i].slot]
<1> DEFINE samples == CanonicalSamples(points)
           V(s) == SlotValues(points, s)
<1>1. /\ DOMAIN samples = {s \in Slots : V(s) # {}}
      /\ \A s \in DOMAIN samples : samples[s] \in V(s)
  BY SamplesTyped
<1>2. \A i \in DOMAIN points : points[i].slot \in Slots /\ points[i].value \in V(points[i].slot)
  <2>1. \A i \in DOMAIN points : points[i] \in SlottedPoint
    BY LenProperties, ElementOfSeq
  <2>2. QED
    BY <2>1 DEF SlottedPoint, SlotValues
<1>3. \A s : \A v \in V(s) : \E i \in DOMAIN points : points[i].slot = s /\ points[i].value = v
  BY DEF SlotValues
<1>4. \A s : IsFiniteSet(V(s)) /\ Cardinality(V(s)) \in Nat
  BY SlotFinite, FS_CardinalityType
<1> HIDE DEF samples, V
<1>5. ASSUME NEW i \in DOMAIN points, points[i].value # samples[points[i].slot]
      PROVE  Conflicting(points)
  <2> DEFINE s == points[i].slot
             x == samples[s]
             y == points[i].value
  <2>1. s \in Slots /\ s \in DOMAIN samples /\ y \in V(s) /\ x \in V(s) /\ x # y
    BY <1>1, <1>2, <1>5
  <2> HIDE DEF s, x, y
  <2>2. {x} \cup {y} \in SUBSET V(s)
    BY <2>1
  <2>4. Cardinality({x} \cup {y}) = 2
    BY <2>1, PairCounts
  <2>5. Cardinality({x} \cup {y}) <= Cardinality(V(s))
    BY <1>4, <2>2, FS_Subset
  <2>6. Cardinality(V(s)) > 1
    BY <1>4, <2>4, <2>5
  <2>7. QED
    BY <2>1, <2>6 DEF Conflicting, V
<1>6. ASSUME Conflicting(points), \A i \in DOMAIN points : points[i].value = samples[points[i].slot]
      PROVE  FALSE
  <2>1. PICK s \in Slots : Cardinality(V(s)) > 1
    BY <1>6 DEF Conflicting, V
  <2>2. V(s) \in SUBSET {samples[s]}
    BY <1>3, <1>6
  <2>3. IsFiniteSet({samples[s]}) /\ Cardinality({samples[s]}) = 1
    BY FS_Singleton
  <2>4. Cardinality(V(s)) <= 1
    BY <2>2, <2>3, FS_Subset
  <2>5. QED
    BY <1>4, <2>1, <2>4
<1>7. QED
  BY <1>5, <1>6 DEF samples

\* What the verifier builds of a reading passes the contract of an observation
\* and has the counts that a decision needs.
LEMMA ObservationSound ==
    ASSUME NEW reading \in Readings, ReadingValid(reading), NEW k \in 1..MaxWindows,
           NEW at \in Nat, Ready(k) <= at, NEW o, o = BuildObservation(E, k, at, reading)
    PROVE  ValidObservation(o) /\ Counted(o)
<1> DEFINE points == ReadingPoints(reading)
           samples == CanonicalSamples(points)
<1>1. points \in Seq(SlottedPoint)
  BY PointsTyped
<1>2. /\ DOMAIN samples = {s \in Slots : SlotValues(points, s) # {}}
      /\ \A s \in DOMAIN samples : samples[s] \in SlotValues(points, s) /\ samples[s] \in Nat
  BY <1>1, SamplesTyped
<1>3. Conflicting(points) <=> \E i \in DOMAIN points : points[i].value # samples[points[i].slot]
  BY <1>1, ConflictSeen
<1>4. /\ o.window = k /\ o.observed = at /\ o.samples = samples /\ o.sources = points
      /\ o.completeness = Completeness(samples) /\ o.timing = Timing(k, at)
      /\ o.duplicates = DuplicateCount(points) /\ o.conflicting = Conflicting(points)
      /\ o.requests = IF RequestsPresent(samples) THEN RequestCount(samples) ELSE 0
      /\ o.ok = ClassCount(samples, "2xx") /\ o.errors = ClassCount(samples, "5xx")
      /\ o.latency = IF LatencyPresent(samples) THEN LatencyMs(samples) ELSE 0
  BY DEF BuildObservation
<1>5. DuplicateCount(points) = Len(points) - Cardinality(DOMAIN samples)
  BY DEF DuplicateCount
<1> HIDE DEF points, samples
<1>6. ValidSamples(o)
  BY <1>2, <1>3, <1>4, <1>5 DEF ValidSamples
<1>7. ValidObservation(o)
  <2>1. k \in Nat /\ Delay \in Nat
    BY BoundFacts
  <2>2. Ends(k) \in Nat
    BY <2>1, WindowFacts
  <2>3. at >= Ends(k)
    BY <2>1, <2>2 DEF Ready
  <2>4. QED
    BY <1>4, <1>6, <2>3 DEF ValidObservation
<1>8. \A c : ClassCount(samples, c) \in Nat
  BY <1>2 DEF ClassCount
<1>9. /\ RequestCount(samples) \in Nat
      /\ ClassCount(samples, "2xx") + ClassCount(samples, "5xx") <= RequestCount(samples)
  BY <1>8 DEF RequestCount
<1>10. LatencyPresent(samples) => LatencyMs(samples) \in Nat
  BY <1>2 DEF LatencyPresent, LatencyMs
<1>11. ~RequestsPresent(samples) =>
         ClassCount(samples, "2xx") = 0 /\ ClassCount(samples, "5xx") = 0
  BY DEF RequestsPresent, ClassCount, Classes
<1>12. Completeness(samples) = "COMPLETE" => Cardinality(DOMAIN samples) >= 2
  <2> SUFFICES ASSUME RequestsPresent(samples), LatencyPresent(samples)
               PROVE  Cardinality(DOMAIN samples) >= 2
    BY DEF Completeness
  <2>1. PICK c \in Classes : c \in DOMAIN samples
    BY DEF RequestsPresent
  <2>2. "latency" \in DOMAIN samples /\ c # "latency"
    BY DEF LatencyPresent, Classes
  <2>4. Cardinality({c} \cup {"latency"}) = 2
    BY <2>2, PairCounts
  <2>5. IsFiniteSet(Slots)
    <3>1. IsFiniteSet({}) /\ Slots = {} \cup {"1xx"} \cup {"2xx"} \cup {"3xx"} \cup {"4xx"} \cup {"5xx"} \cup {"latency"}
      BY FS_EmptySet DEF Slots, Classes
    <3>2. \A S, x : IsFiniteSet(S) => IsFiniteSet(S \cup {x})
      BY FS_AddElement
    <3>3. QED
      BY <3>1, <3>2, Zenon
  <2>6. IsFiniteSet(DOMAIN samples)
    BY <1>2, <2>5, FS_Subset
  <2>7. ({c} \cup {"latency"}) \in SUBSET (DOMAIN samples)
    BY <2>1, <2>2
  <2>8. Cardinality({c} \cup {"latency"}) <= Cardinality(DOMAIN samples)
    BY <2>6, <2>7, FS_Subset
  <2>9. Cardinality(DOMAIN samples) \in Nat
    BY <2>6, FS_CardinalityType
  <2>10. QED
    BY <2>4, <2>8, <2>9
<1>13. Counted(o)
  <2>1. o.requests \in Nat /\ o.ok \in Nat /\ o.errors \in Nat /\ o.latency \in Nat
    BY <1>4, <1>8, <1>9, <1>10
  <2>2. o.ok + o.errors <= o.requests
    BY <1>4, <1>9, <1>11
  <2>3. QED
    BY <1>4, <1>12, <2>1, <2>2 DEF Counted
<1>14. QED
  BY <1>7, <1>13

\* The state that a stored prefix of the chain leaves is sound.
LEMMA PriorSound ==
    ASSUME NEW proofs, IsSeq(proofs), \A i \in DOMAIN proofs : SoundState(proofs[i].decision.state)
    PROVE  SoundState(PriorState(E, proofs))
<1>1. CASE proofs = <<>>
  BY <1>1, InitialSound DEF PriorState
<1>2. CASE proofs # <<>>
  <2>1. Len(proofs) \in DOMAIN proofs
    BY <1>2, SeqFacts
  <2>2. SoundState(Last(proofs).decision.state)
    BY <2>1 DEF Last
  <2>3. QED
    BY <1>2, <2>2, NextSound DEF PriorState
<1>3. QED
  BY <1>1, <1>2

LEMMA PrefixSound ==
    ASSUME IsSeq(chain), SoundChain, NEW s, NEW n, IsPrefixOf(s, n, chain)
    PROVE  SoundState(PriorState(E, s))
<1>1. Len(s) = n /\ IsSeq(s) /\ n \in Nat /\ n <= Len(chain) /\ \A i \in 1..n : s[i] = chain[i]
  BY PrefixFacts
<1>2. DOMAIN s = 1..n /\ DOMAIN chain = 1..Len(chain) /\ Len(chain) \in Nat
  BY <1>1, SeqFacts
<1>3. \A i \in DOMAIN s : i \in DOMAIN chain /\ s[i] = chain[i]
  BY <1>1, <1>2
<1>4. \A i \in DOMAIN s : SoundState(s[i].decision.state)
  BY <1>3 DEF SoundChain
<1>5. QED
  BY <1>1, <1>4, PriorSound

\* The chain grows by a proof that follows it, evaluated when it was observed.
GrownBy(p) ==
    /\ chain' = chain \o <<p>> /\ Follows(chain, p) /\ p.decision.at \in Nat

LEMMA LandingGrows ==
    ASSUME IsSeq(chain), NEW proofs, Grows(chain, proofs), ValidChain(E, proofs), Landed(proofs)
    PROVE  \E p : GrownBy(p)
<1> DEFINE p == Last(proofs)
<1>1. chain' = proofs /\ proofs = chain \o <<p>> /\ Follows(chain, p)
  BY DEF Landed, Grows
<1>2. Len(proofs) \in Nat /\ Len(proofs) \in DOMAIN proofs /\ proofs[Len(proofs)] = p
  <2> DEFINE grown == chain \o <<p>>
  <2>0. proofs = grown
    BY <1>1
  <2> HIDE DEF p
  <2>01. IsSeq(grown) /\ grown # <<>> /\ grown[Len(grown)] = p
    BY SnocFacts
  <2>1. IsSeq(proofs) /\ proofs # <<>> /\ proofs[Len(proofs)] = p
    BY <2>0, <2>01
  <2>2. QED
    BY <2>1, SeqFacts
<1>3. ValidProof(p)
  BY <1>2 DEF ValidChain, ValidStep
<1>4. p.decision.at \in Nat
  BY <1>1, <1>3 DEF ValidProof, Follows
<1>5. QED
  BY <1>1, <1>4 DEF GrownBy

LEMMA SoundChainStep ==
    ASSUME IsSeq(chain), SoundChain, chain' = chain \/ \E p : GrownBy(p)
    PROVE  SoundChain'
<1>1. CASE chain' = chain
  BY <1>1 DEF SoundChain
<1>2. CASE \E p : GrownBy(p)
  <2>1. PICK p : GrownBy(p)
    BY <1>2
  <2> DEFINE s == PriorState(E, chain)
             grown == chain \o <<p>>
  <2>2. /\ chain' = grown /\ p.decision.at \in Nat
        /\ p.decision = EvaluateHealth(E, s, p.observation, p.decision.at)
        /\ p.observation.window = s.evaluated + 1
        /\ p.observation.observed \in Nat /\ p.observation.requests \in Nat
    BY <2>1 DEF GrownBy, Follows, NextWindow, E
  <2>3. SoundState(s)
    BY PriorSound DEF SoundChain
  <2>4. SoundState(p.decision.state)
    BY <2>2, <2>3, HealthSound DEF Sound
  <2>5. /\ Len(chain) \in Nat /\ DOMAIN chain = 1..Len(chain) /\ DOMAIN grown = 1..Len(grown)
        /\ Len(grown) = Len(chain) + 1 /\ grown[Len(grown)] = p
        /\ \A i \in 1..Len(chain) : grown[i] = chain[i]
    BY SeqFacts, SnocFacts
  <2> HIDE DEF grown, s
  <2>6. \A i \in DOMAIN grown : SoundState(grown[i].decision.state)
    <3> TAKE i \in DOMAIN grown
    <3>1. CASE i \in 1..Len(chain)
      BY <2>5, <3>1 DEF SoundChain
    <3>2. CASE i = Len(grown)
      BY <2>4, <2>5, <3>2
    <3>3. QED
      BY <2>5, <3>1, <3>2
  <2>7. QED
    BY <2>2, <2>6 DEF SoundChain
<1>3. QED
  BY <1>1, <1>2

LEMMA ChainGrows ==
    ASSUME IInv, [HealthNext]_hvars
    PROVE  chain' = chain \/ \E p : GrownBy(p)
<1>1. StoredOK /\ LateOK /\ CallsOK /\ IsSeq(chain)
  BY DEF IInv, StoredOK
<1>2. ASSUME NEW t \in late, LateAppend(t) PROVE chain' = chain \/ \E p : GrownBy(p)
  <2>1. CASE CanLand(t.expected, t.proofs)
    <3>1. t.expected = chain /\ Landed(t.proofs)
      BY <1>2, <2>1 DEF LateAppend, CanLand
    <3>2. Grows(chain, t.proofs) /\ ValidChain(E, t.proofs)
      BY <1>1, <3>1 DEF LateOK
    <3>3. QED
      BY <1>1, <3>1, <3>2, LandingGrows
  <2>2. CASE ~CanLand(t.expected, t.proofs)
    BY <1>2, <2>2 DEF LateAppend
  <2>3. QED
    BY <2>1, <2>2
<1>3. ASSUME NEW c \in Caller, AppendProof(c) PROVE chain' = chain \/ \E p : GrownBy(p)
  <2>1. CASE ValidChain(ExpectedEpoch, Candidate(c)) /\ CanLand(call[c].snap, Candidate(c))
             /\ Landed(Candidate(c))
    <3>1. chain = call[c].snap
      BY <2>1 DEF CanLand
    <3>2. Grows(chain, Candidate(c))
      BY <1>1, <1>3, <3>1 DEF CallsOK, CallFits, AppendProof, Candidate
    <3>3. QED
      BY <1>1, <2>1, <3>2, LandingGrows DEF E
  <2>2. CASE chain' = chain
    BY <2>2
  <2>3. QED
    BY <1>3, <2>1, <2>2 DEF AppendProof, storage
<1>4. ASSUME NEW c \in Caller, Evaluate(c), ~AppendProof(c) PROVE chain' = chain
  BY <1>4 DEF Evaluate, BeginVerification, VerifierFails, CollectAndAttest, Refresh, ResolveAppend,
              AdoptConcurrent, AdoptSnapshot, RecordProof, DispatchRecovery, storage
<1>5. ASSUME NEW c \in Caller, Crash(c) \/ \E seq \in 0..Len(chain) : Begin(c, seq)
      PROVE  chain' = chain
  BY <1>5 DEF Crash, Begin
<1>6. ASSUME Tick \/ Revoke \/ ReserveRevoked \/ UNCHANGED hvars PROVE chain' = chain
  BY <1>6 DEF Tick, Revoke, ReserveRevoked, hvars, storage
<1>7. QED
  BY <1>2, <1>3, <1>4, <1>5, <1>6 DEF HealthNext, World

\* A call that goes on keeps its proof and does not begin to collect.
Keeps(c) == \E k : To(c, k) /\ k.pc # "collect" /\ k.proof \in {<<>>, call[c].proof}

LEMMA AnswerKeeps == \A c \in Caller : \A out : Answer(c, out) => Keeps(c)
  BY DEF Answer, Keeps, Idle

LEMMA GoKeeps ==
    ASSUME NEW c \in Caller, Shaped(call[c]), NEW pc, pc # "collect", Go(c, pc)
    PROVE  Keeps(c)
  BY DEF Go, Keeps, Shaped

LEMMA ToKeeps ==
    ASSUME NEW c \in Caller, NEW k, To(c, k), k.pc # "collect",
           k.proof = <<>> \/ k.proof = call[c].proof
    PROVE  Keeps(c)
  BY DEF Keeps

LEMMA EvaluateKeeps ==
    ASSUME NEW c \in Caller, Shaped(call[c]),
           \/ VerifierFails(c) \/ Refresh(c) \/ AppendProof(c) \/ ResolveAppend(c)
           \/ AdoptConcurrent(c) \/ AdoptSnapshot(c) \/ RecordProof(c) \/ DispatchRecovery(c)
           \/ Crash(c) \/ \E seq \in 0..Len(chain) : Begin(c, seq)
    PROVE  Keeps(c) /\ now' = now
<1>1. now' = now
  BY DEF VerifierFails, Refresh, AppendProof, ResolveAppend, AdoptConcurrent, AdoptSnapshot,
         RecordProof, DispatchRecovery, Crash, Begin, Quiet
<1> SUFFICES Keeps(c)
  BY <1>1
<1>2. CASE VerifierFails(c) \/ Refresh(c)
  BY <1>2, AnswerKeeps, GoKeeps DEF VerifierFails, Refresh
<1>3. CASE AppendProof(c)
  <2>1. CASE To(c, [call[c] EXCEPT !.pc = "done", !.out = "STORE_UNAVAILABLE"])
    BY <2>1, ToKeeps DEF Shaped
  <2>2. CASE To(c, [call[c] EXCEPT !.pc = "record", !.snap = Candidate(c)])
    BY <2>2, ToKeeps DEF Shaped
  <2>3. QED
    BY <1>3, <2>1, <2>2, AnswerKeeps, GoKeeps DEF AppendProof
<1>4. CASE ResolveAppend(c)
  <2>1. CASE To(c, [call[c] EXCEPT !.pc = "record", !.snap = chain])
    BY <2>1, ToKeeps DEF Shaped
  <2>2. QED
    BY <1>4, <2>1, AnswerKeeps, GoKeeps DEF ResolveAppend
<1>5. CASE AdoptConcurrent(c)
  <2>1. CASE To(c, [call[c] EXCEPT !.pc = "adopt", !.snap = chain])
    BY <2>1, ToKeeps DEF Shaped
  <2>2. QED
    BY <1>5, <2>1, AnswerKeeps DEF AdoptConcurrent
<1>6. CASE AdoptSnapshot(c)
  BY <1>6, AnswerKeeps, GoKeeps DEF AdoptSnapshot
<1>10. CASE RecordProof(c) \/ DispatchRecovery(c)
  BY <1>10, AnswerKeeps, GoKeeps DEF RecordProof, DispatchRecovery
<1>7. CASE Crash(c)
  BY <1>7, ToKeeps DEF Crash, Idle
<1>8. CASE \E seq \in 0..Len(chain) : Begin(c, seq)
  <2>1. PICK seq \in 0..Len(chain) : Begin(c, seq)
    BY <1>8
  <2>2. CASE \E out : Answer(c, out)
    BY <2>2, AnswerKeeps
  <2>3. CASE Related(c, seq, chain)
    <3>1. \/ Answer(c, "STORE_CONFLICT")
          \/ To(c, [Idle EXCEPT !.pc = "adopt", !.seq = seq, !.snap = chain])
          \/ To(c, [Idle EXCEPT !.pc = "verify", !.seq = seq, !.snap = chain])
      BY <2>3 DEF Related, Relation
    <3>2. QED
      BY <3>1, AnswerKeeps, ToKeeps DEF Idle
  <2>4. QED
    BY <2>1, <2>2, <2>3 DEF Begin
<1>9. QED
  BY <1>2, <1>3, <1>4, <1>5, <1>6, <1>7, <1>8, <1>10

LEMMA OthersSound ==
    ASSUME CallsOK, CallsSound, now \in Int, now' = now, NEW c \in Caller, NEW k, To(c, k),
           ProofContract(k), Collecting(k)
    PROVE  CallsSound'
<1>1. /\ call'[c] = k /\ \A d \in Caller : d # c => call'[d] = call[d]
  BY DEF CallsOK, To
<1>2. \A d \in Caller : Collecting(call'[d]) /\ ProofContract(call'[d])
  BY <1>1 DEF CallsSound
<1>3. QED
  BY <1>2 DEF CallsSound, Collecting, ProofContract

LEMMA KeepsSound ==
    ASSUME CallsOK, CallsSound, now \in Int, now' = now, NEW c \in Caller, Keeps(c)
    PROVE  CallsSound'
<1>1. PICK k : To(c, k) /\ k.pc # "collect" /\ k.proof \in {<<>>, call[c].proof}
  BY DEF Keeps
<1>2. ProofContract(k)
  <2>1. CASE k.proof = <<>>
    BY <2>1 DEF ProofContract
  <2>2. CASE k.proof = call[c].proof
    BY <2>2 DEF CallsSound, ProofContract
  <2>3. QED
    BY <1>1, <2>1, <2>2
<1>3. Collecting(k)
  BY <1>1 DEF Collecting
<1>4. QED
  BY <1>1, <1>2, <1>3, OthersSound

\* A call begins to collect when its next window has closed, and signs what its
\* contracts admit.
LEMMA VerificationSound ==
    ASSUME IInv, SoundChain, CallsSound, NEW c \in Caller, BeginVerification(c)
    PROVE  CallsSound'
<1> DEFINE s == call[c].snap
           k == NextWindow(s)
<1>1. /\ CallsOK /\ IsSeq(chain) /\ now \in Int /\ now' = now
      /\ call[c].pc = "verify" /\ CallFits(call[c], chain)
  BY PipelineConstants DEF BeginVerification, Quiet, IInv, StoredOK, CallsOK, WorldOK
<1>2. CASE \E out : Answer(c, out)
  BY <1>1, <1>2, AnswerKeeps, KeepsSound
<1>3. CASE Go(c, "collect") /\ ~(k > MaxWindows) /\ ~(now < Ready(k))
  <2> DEFINE next == [call[c] EXCEPT !.pc = "collect"]
  <2>1. To(c, next) /\ next.snap = s /\ next.proof = call[c].proof
    BY <1>1, <1>3 DEF Go, CallFits, Shaped
  <2>2. SoundState(PriorState(E, s))
    BY <1>1, PrefixSound DEF CallFits
  <2>3. k \in Nat /\ Ready(k) \in Int /\ MaxWindows \in Nat
    <3>1. k \in Nat
      BY <2>2, SoundFacts, BoundFacts DEF NextWindow, E
    <3> HIDE DEF k
    <3>2. QED
      BY <3>1, BoundFacts, WindowFacts
  <2>4. k <= MaxWindows /\ Ready(k) <= now
    BY <1>1, <1>3, <2>3
  <2>5. Collecting(next)
    BY <2>1, <2>4 DEF Collecting
  <2>6. ProofContract(next)
    BY <2>1 DEF CallsSound, ProofContract
  <2> HIDE DEF next
  <2>7. QED
    BY <1>1, <2>1, <2>5, <2>6, OthersSound
<1>4. QED
  BY <1>2, <1>3 DEF BeginVerification

LEMMA CollectSound ==
    ASSUME IInv, SoundChain, CallsSound, NEW c \in Caller, NEW reading \in Readings,
           CollectAndAttest(c, reading)
    PROVE  CallsSound'
<1> DEFINE s == call[c].snap
           k == NextWindow(s)
<1>1. /\ CallsOK /\ IsSeq(chain) /\ now \in Nat /\ now' = now /\ ReadingValid(reading)
      /\ call[c].pc = "collect" /\ CallFits(call[c], chain)
  BY PipelineConstants DEF CollectAndAttest, Quiet, IInv, StoredOK, CallsOK, WorldOK
<1>2. PICK p \in PendingProofs(s, reading) :
         IF /\ ValidProof(p) /\ SigningRequestValid(s, p) /\ AttemptValid(s, p)
         THEN To(c, [call[c] EXCEPT !.pc = "refresh", !.proof = <<p>>])
         ELSE Answer(c, "VERIFIER_RESPONSE_INVALID")
  BY DEF CollectAndAttest
<1>3. CASE Answer(c, "VERIFIER_RESPONSE_INVALID")
  BY <1>1, <1>3, AnswerKeeps, KeepsSound
<1>4. CASE To(c, [call[c] EXCEPT !.pc = "refresh", !.proof = <<p>>])
  <2> DEFINE next == [call[c] EXCEPT !.pc = "refresh", !.proof = <<p>>]
             o == BuildObservation(E, k, now, reading)
             prior == PriorState(E, s)
  <2>1. To(c, next) /\ next.pc = "refresh" /\ next.proof = <<p>>
    BY <1>1, <1>4 DEF CallFits, Shaped
  <2>2. SoundState(prior)
    BY <1>1, PrefixSound DEF CallFits
  <2>3. k = prior.evaluated + 1 /\ k \in Nat /\ k >= 1 /\ k <= MaxWindows /\ Ready(k) <= now
    BY <1>1, <2>2, SoundFacts DEF NextWindow, E, CallsSound, Collecting
  <2>4. k \in 1..MaxWindows
    BY <2>3, BoundFacts
  <2>5. p.observation = o /\ p.decision = EvaluateHealth(E, prior, o, now)
    BY <1>2 DEF PendingProofs, Proof, E
  <2> HIDE DEF k, prior
  <2>6. ValidObservation(o) /\ Counted(o)
    BY <1>1, <2>3, <2>4, ObservationSound
  <2>7. o.window = k /\ o.observed = now
    BY <1>1, ObservationTyped
  <2> HIDE DEF o
  <2>8. Sound(o, now, EvaluateHealth(E, prior, o, now))
    BY <1>1, <2>2, <2>3, <2>6, <2>7, HealthSound DEF Counted
  <2>9. ValidObservation(p.observation) /\ ValidDecision(p.decision)
    BY <2>5, <2>6, <2>8 DEF Sound
  <2>10. DOMAIN next.proof = {1} /\ next.proof[1] = p
    BY <2>1
  <2>11. ProofContract(next) /\ Collecting(next)
    BY <2>1, <2>9, <2>10 DEF ProofContract, Collecting
  <2> HIDE DEF next
  <2>12. QED
    BY <1>1, <2>1, <2>11, OthersSound
<1>5. QED
  BY <1>2, <1>3, <1>4

LEMMA CallsStaySound ==
    ASSUME HInv, [HealthNext]_hvars
    PROVE  CallsSound'
<1>1. IInv /\ SoundChain /\ CallsSound /\ CallsOK /\ now \in Int /\ IsSeq(chain)
  BY PipelineConstants DEF HInv, IInv, WorldOK, StoredOK
<1>2. CASE call' = call /\ (now' = now \/ now' = now + 1)
  <2>1. \A c \in Caller : ProofContract(call[c])'
    BY <1>1, <1>2 DEF CallsSound, ProofContract
  <2>2. ASSUME NEW c \in Caller PROVE Collecting(call[c])'
    <3>1. SUFFICES ASSUME call[c].pc = "collect"
                   PROVE  NextWindow(call[c].snap) <= MaxWindows /\ Ready(NextWindow(call[c].snap)) <= now'
      BY <1>2 DEF Collecting
    <3>2. /\ NextWindow(call[c].snap) <= MaxWindows /\ Ready(NextWindow(call[c].snap)) <= now
          /\ CallFits(call[c], chain)
      BY <1>1, <3>1 DEF CallsSound, Collecting, CallsOK
    <3>3. SoundState(PriorState(E, call[c].snap))
      BY <1>1, <3>1, <3>2, PrefixSound DEF CallFits
    <3>4. Ready(NextWindow(call[c].snap)) \in Int
      <4>1. NextWindow(call[c].snap) \in Nat
        BY <3>3, SoundFacts, BoundFacts DEF NextWindow, E
      <4>2. QED
        BY <4>1, WindowFacts
    <3>5. QED
      BY <1>1, <1>2, <3>2, <3>4
  <2>3. QED
    BY <2>1, <2>2 DEF CallsSound
<1>3. ASSUME NEW c \in Caller, BeginVerification(c) \/ \E r \in Readings : CollectAndAttest(c, r)
      PROVE  CallsSound'
  BY <1>1, <1>3, VerificationSound, CollectSound
<1>4. ASSUME NEW c \in Caller,
             \/ VerifierFails(c) \/ Refresh(c) \/ AppendProof(c) \/ ResolveAppend(c)
             \/ AdoptConcurrent(c) \/ AdoptSnapshot(c) \/ RecordProof(c) \/ DispatchRecovery(c)
             \/ Crash(c) \/ \E seq \in 0..Len(chain) : Begin(c, seq)
      PROVE  CallsSound'
  <2>1. Keeps(c) /\ now' = now
    BY <1>1, <1>4, EvaluateKeeps DEF CallsOK, CallFits
  <2>2. QED
    BY <1>1, <2>1, KeepsSound
<1>5. CASE World \/ UNCHANGED hvars
  BY <1>2, <1>5 DEF World, Tick, Revoke, ReserveRevoked, LateAppend, hvars
<1>6. QED
  BY <1>3, <1>4, <1>5 DEF HealthNext, Evaluate

LEMMA ContractsInductive == HealthSpec => []HInv
<1>1. HealthInit => HInv
  <2> SUFFICES ASSUME HealthInit PROVE HInv
    OBVIOUS
  <2>1. SoundChain
    BY DEF HealthInit, SoundChain
  <2>2. CallsSound
    BY DEF HealthInit, CallsSound, Collecting, ProofContract, Idle
  <2>3. QED
    BY <2>1, <2>2, InitHolds DEF HInv
<1>2. HInv /\ [HealthNext]_hvars => HInv'
  <2> SUFFICES ASSUME HInv, [HealthNext]_hvars PROVE HInv'
    OBVIOUS
  <2>1. IInv /\ SoundChain /\ IsSeq(chain)
    BY DEF HInv, IInv, StoredOK
  <2>2. IInv'
    BY <2>1, StepHolds DEF Preserved
  <2>3. SoundChain'
    BY <2>1, ChainGrows, SoundChainStep
  <2>4. QED
    BY <2>2, <2>3, CallsStaySound DEF HInv
<1>3. QED
  BY <1>1, <1>2, PTL DEF HealthSpec

(* ------------------------------ theorems ------------------------------- *)

\* The chain ends UNHEALTHY exactly when the root's recovery intent was made for
\* it, in one transaction with the proof: no crash, late transaction, rival call
\* or revocation loses the recovery of an unhealthy root or invents one.
THEOREM IntentIsKept == HealthSpec => []UnhealthyHasIntent
<1>1. IInv => UnhealthyHasIntent
  BY DEF IInv, StoredOK
<1>2. QED
  BY <1>1, Inductive, PTL

\* A call is answered with the stored proof right after the head that it named,
\* and the recovery coordinator is only handed the intent of a chain that ended
\* UNHEALTHY, whether the proof was appended, resolved or adopted from a rival.
THEOREM AnswersStand == HealthSpec => []AnswersAreStored
<1>1. ASSUME IInv PROVE AnswersAreStored
  <2>1. StoredOK /\ CallsOK /\ IsSeq(chain) /\ Len(chain) \in Nat
    BY <1>1, SeqFacts DEF IInv, StoredOK
  <2>2. ASSUME NEW c \in Caller, call[c].pc \in {"adopt", "record", "recover"}
        PROVE  call[c].seq < Len(chain) /\ call[c].snap = SubSeq(chain, 1, call[c].seq + 1)
    <3>1. /\ call[c].seq \in Nat /\ call[c].seq + 1 \in 0..Len(chain)
          /\ call[c].snap = SubSeq(chain, 1, call[c].seq + 1)
      BY <2>1, <2>2 DEF CallsOK, CallFits, IsPrefixOf
    <3>2. QED
      BY <2>1, <3>1
  <2>3. dispatched => IsUnhealthy(chain) /\ intent = "unhealthy"
    BY <2>1 DEF StoredOK, UnhealthyHasIntent
  <2>4. QED
    BY <2>2, <2>3 DEF AnswersAreStored
<1>2. QED
  BY <1>1, Inductive, PTL

\* A chain ends HEALTHY or UNHEALTHY only on two adjacent windows of that kind,
\* each observed in time and completely: whatever Monitoring returned, windows
\* that were lost, late, conflicting or inconclusive never hide between them.
THEOREM VerdictsAreSustained == HealthSpec => []VerdictIsSustained
<1>1. ASSUME IInv PROVE VerdictIsSustained
  <2> DEFINE k == Last(chain).observation.window
             good(o) == ThresholdsMet(o.errors, o.ok, o.requests, o.latency)
             bad(o) == UnhealthyReasons(o.errors, o.ok, o.requests, o.latency) # <<>>
  <2>1. VerdictsSeen(chain)
    BY <1>1 DEF IInv, StoredOK
  <2>2. ASSUME NEW n PROVE SeenGood(chain, n) => Evident(n, good)
    BY DEF SeenGood, GoodWindow, Supports, Evident
  <2>3. ASSUME NEW n PROVE SeenBad(chain, n) => Evident(n, bad)
    BY DEF SeenBad, BadWindow, Supports, Evident
  <2>4. SUFFICES ASSUME chain # <<>>
                 PROVE  /\ Last(chain).decision.status = "HEALTHY" =>
                             Evident(k, good) /\ Evident(k - 1, good)
                        /\ Last(chain).decision.status = "UNHEALTHY" =>
                             Evident(k, bad) /\ Evident(k - 1, bad)
    BY DEF VerdictIsSustained
  <2>5. /\ Last(chain).decision.status = "HEALTHY" => SeenGood(chain, k) /\ SeenGood(chain, k - 1)
        /\ Last(chain).decision.status = "UNHEALTHY" => SeenBad(chain, k) /\ SeenBad(chain, k - 1)
    BY <2>1, <2>4 DEF VerdictsSeen
  <2> HIDE DEF k, good, bad
  <2>6. QED
    BY <2>2, <2>3, <2>5
<1>2. QED
  BY <1>1, Inductive, PTL

\* Whatever is appended extends the stored chain by one proof, never after a
\* terminal decision, and the result passes its contract and replays decision by
\* decision, though calls race and transactions land late.
THEOREM ChainStaysCanonical == HealthSpec => ChainCanonical
<1>1. ASSUME IInv, [HealthNext]_hvars
      PROVE  [chain' # chain => /\ Front(chain') = chain /\ ~Terminal(chain)
                                /\ Reconstructs(chain')
                                /\ ReplaysExactly(ExpectedEpoch, chain')]_hvars
  <2>1. Extended
    BY <1>1, StepHolds DEF Preserved
  <2>2. QED
    BY <2>1 DEF Extended, E
<1>2. QED
  BY <1>1, Inductive, PTL DEF HealthSpec, ChainCanonical

LEMMA GrowsFront ==
    ASSUME NEW s, NEW t, Grows(s, t)
    PROVE  t # <<>> /\ Front(t) = s
<1> DEFINE p == Last(t)
           grown == s \o <<p>>
<1>1. IsSeq(s) /\ t = grown
  BY DEF Grows
<1> HIDE DEF p
<1>2. grown # <<>> /\ Front(grown) = s
  BY <1>1, SnocFacts
<1>3. QED
  BY <1>1, <1>2

\* Every observation and decision that is about to be signed and stored is one
\* that its contract admits, whatever Monitoring returned and whenever: the
\* evaluator never hands the writer what the next reader would refuse.  A
\* transaction that may still land extends the chain that it read by one proof.
THEOREM ContractsHold == HealthSpec => []HealthTypeOK
<1>1. ASSUME HInv PROVE HealthTypeOK
  <2>1. WorldOK /\ StoredOK /\ LateOK /\ CallsSound
    BY <1>1 DEF HInv, IInv
  <2>2. ASSUME NEW t \in late PROVE t.proofs # <<>> /\ t.expected = Front(t.proofs)
    BY <2>1, GrowsFront DEF LateOK
  <2>3. \A c \in Caller : ProofContract(call[c])
    BY <2>1 DEF CallsSound
  <2>4. QED
    BY <2>1, <2>2, <2>3 DEF HealthTypeOK, WorldOK, StoredOK, ProofContract
<1>2. QED
  BY <1>1, ContractsInductive, PTL

=============================================================================
