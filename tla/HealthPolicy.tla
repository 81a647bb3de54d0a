---------------------------- MODULE HealthPolicy ----------------------------
(***************************************************************************)
(* How one window of Cloud Monitoring data becomes a health decision.      *)
(*                                                                         *)
(* A reading is what the two queries return for a window: the points of    *)
(* every page, in the order of the pages.  A digest is the record that it  *)
(* digests.  All records are of one root, target, policy and candidate, so *)
(* a scope is only the epoch they were made for.  Times are seconds scaled *)
(* by the constants; NoTime is None.                                       *)
(***************************************************************************)
EXTENDS Integers, Sequences, SequencesExt

CONSTANTS
    Window,          \* window_seconds, one minute of the clock
    Delay,           \* observation_delay_seconds
    MaxDelay,        \* maximum_observation_delay_seconds
    MaxWindows,      \* maximum_windows
    ReceiptAt,       \* updated_at of the verified canary receipt
    MaxPages,        \* bound on the pages of a query
    MaxPoints        \* bound on the points of a window

HealthyStreak == 2

\* Mutant: one bad window is enough.
UnhealthyOnce == 1

\* unhealthy_consecutive_windows of the policy
UnhealthyStreak == 2
BasisPoints == 10000
MinRequests == 100

\* The thresholds of the policy: a metric between the two is inconclusive.
HealthyMax == [error |-> 100, latency |-> 500]
UnhealthyMin == [error |-> 500, latency |-> 1000]
HealthyMinAvailability == 9900
UnhealthyMaxAvailability == 9500

\* What the constructor of a policy demands.
PolicyValid ==
    /\ Window \in Nat \ {0} /\ Delay \in Nat /\ MaxDelay \in Nat /\ MaxDelay >= Delay
    /\ MaxWindows \in Nat /\ HealthyStreak <= MaxWindows /\ UnhealthyStreak <= MaxWindows
    /\ \A m \in DOMAIN HealthyMax : HealthyMax[m] < UnhealthyMin[m]
    /\ UnhealthyMaxAvailability < HealthyMinAvailability

ASSUME HealthPolicyAssumption == PolicyValid

NoTime == -1
None == "none"
NoDigest == <<>>
Later(s, t) == IF s > t THEN s ELSE t
Earlier(s, t) == IF s < t THEN s ELSE t

\* The interval starts at the first minute after the receipt was verified.
NextMinute(t) == (t \div Window + 1) * Window
Started == NextMinute(ReceiptAt)

Ends(k) == Started + k * Window
Ready(k) == Ends(k) + Delay
Deadline(k) == Ends(k) + MaxDelay

(* ----------------- Cloud Monitoring: pages to an observation ----------- *)

Classes == {"1xx", "2xx", "3xx", "4xx", "5xx"}
Slots == Classes \cup {"latency"}

\* A point of a page: a count of a response class, or a latency in us.
Point(slot, value) == [slot |-> slot, value |-> value]

\* A page decodes when every point of it is of the queried metric.
PageDecodes(page, slots) == \A i \in DOMAIN page : page[i].slot \in slots

\* The client reads page after page; too many pages or points, or a page that
\* does not decode, invalidate the whole collection.
CollectPages(pages, slots) ==
    [valid |-> /\ Len(pages) <= MaxPages /\ Len(FlattenSeq(pages)) <= MaxPoints
               /\ \A i \in DOMAIN pages : PageDecodes(pages[i], slots),
     points |-> FlattenSeq(pages)]

\* A reading has the pages of the request query and of the latency query.
Queries(reading) ==
    <<CollectPages(reading.requests, Classes), CollectPages(reading.latency, {"latency"})>>
ReadingValid(reading) ==
    LET q == Queries(reading)
    IN q[1].valid /\ q[2].valid /\ Len(q[1].points) + Len(q[2].points) <= MaxPoints
ReadingPoints(reading) == Queries(reading)[1].points \o Queries(reading)[2].points

\* One sample per slot: several points are duplicates, and they conflict when
\* they differ.  The smallest is selected (the code orders encodings, here
\* values: a conflicting window never reaches a threshold).
SlotValues(points, slot) == {points[i].value : i \in {j \in DOMAIN points : points[j].slot = slot}}
CanonicalSamples(points) ==
    LET present == {s \in Slots : SlotValues(points, s) # {}}
    IN [s \in present |-> CHOOSE v \in SlotValues(points, s) :
                              \A w \in SlotValues(points, s) : v <= w]
DuplicateCount(points) == Len(points) - Cardinality(DOMAIN CanonicalSamples(points))
Conflicting(points) == \E s \in Slots : Cardinality(SlotValues(points, s)) > 1

\* A class without a sample counts zero, once any class has one.
ClassCount(samples, c) == IF c \in DOMAIN samples THEN samples[c] ELSE 0
RequestCount(samples) ==
    ClassCount(samples, "1xx") + ClassCount(samples, "2xx") + ClassCount(samples, "3xx")
    + ClassCount(samples, "4xx") + ClassCount(samples, "5xx")
LatencyMs(samples) == (samples["latency"] + 999) \div 1000
RequestsPresent(samples) == DOMAIN samples \cap Classes # {}
LatencyPresent(samples) == "latency" \in DOMAIN samples

Completeness(samples) ==
    IF RequestsPresent(samples) /\ LatencyPresent(samples) THEN "COMPLETE"
    ELSE IF RequestsPresent(samples) \/ LatencyPresent(samples) THEN "PARTIAL" ELSE "MISSING"

Timing(k, observed) ==
    IF observed < Ready(k) THEN "EARLY" ELSE IF observed > Deadline(k) THEN "LATE" ELSE "READY"

\* MonitoringWindowObservation of window k.
BuildObservation(epoch, k, observed, reading) ==
    LET points == ReadingPoints(reading)
        samples == CanonicalSamples(points)
    IN [epoch |-> epoch, window |-> k, observed |-> observed, samples |-> samples,
        sources |-> points, completeness |-> Completeness(samples), timing |-> Timing(k, observed),
        duplicates |-> DuplicateCount(points), conflicting |-> Conflicting(points),
        requests |-> IF RequestsPresent(samples) THEN RequestCount(samples) ELSE 0,
        ok |-> ClassCount(samples, "2xx"), errors |-> ClassCount(samples, "5xx"),
        latency |-> IF LatencyPresent(samples) THEN LatencyMs(samples) ELSE 0]

\* The contract of an observation recomputes all of it from its samples.
ValidSamples(o) ==
    /\ o.duplicates = Len(o.sources) - Cardinality(DOMAIN o.samples)
    /\ \A s \in DOMAIN o.samples : o.samples[s] \in SlotValues(o.sources, s)
    /\ o.conflicting <=> \E i \in DOMAIN o.sources :
                             o.sources[i].value # o.samples[o.sources[i].slot]
    /\ RequestsPresent(o.samples) => o.requests = RequestCount(o.samples)
    /\ LatencyPresent(o.samples) => o.latency = LatencyMs(o.samples)
ValidObservation(o) ==
    /\ o.window \in 1..MaxWindows /\ o.observed >= Ends(o.window)
    /\ o.timing = Timing(o.window, o.observed)
    /\ o.completeness = Completeness(o.samples) /\ ValidSamples(o)

\* The sample set of an observation; the empty one has no digest.
SampleSet(o) == IF DOMAIN o.samples = {} THEN {} ELSE {<<o.window, o.samples>>}
ObservationDigest(o) == <<o.window, o.observed, o.sources>>

(* ------------------------ the evaluator's state ------------------------ *)

InitialState(epoch) ==
    [epoch |-> epoch, last |-> NoTime, healthy |-> 0, unhealthy |-> 0, evaluated |-> 0,
     observation |-> NoDigest, consumed |-> {}, prior |-> NoDigest]

ValidState(s) ==
    /\ s.healthy = 0 \/ s.unhealthy = 0
    /\ Later(s.healthy, s.unhealthy) <= s.evaluated /\ s.evaluated \in 0..MaxWindows
    /\ Cardinality(s.consumed) <= s.evaluated
    /\ IF s.evaluated = 0 THEN s.last = NoTime /\ s.observation = NoDigest
       ELSE s.last = Ends(s.evaluated) /\ s.observation # NoDigest

StateMatches(s, epoch) ==
    /\ s.epoch = epoch
    /\ s.last = IF s.evaluated = 0 THEN NoTime ELSE Started + s.evaluated * Window

Reset(s) == [s EXCEPT !.healthy = 0, !.unhealthy = 0]

\* The window is consumed, with the ones skipped before it.
Advance(s, o, windows) ==
    [s EXCEPT !.last = Ends(o.window), !.evaluated = Earlier(s.evaluated + windows, MaxWindows),
              !.observation = ObservationDigest(o), !.consumed = @ \cup SampleSet(o)]

ExpectedStart(s) == IF s.last = NoTime THEN Started ELSE s.last

\* When the window after this one is ready, unless none is left.
NextAfter(s, o, at) ==
    IF s.evaluated >= MaxWindows THEN NoTime ELSE Later(at, Ends(o.window) + Window + Delay)

(* ----------------------------- the decision ---------------------------- *)

\* The reasons that the chain lets a window be tried again for, the ones that it
\* never records, and the ones that make evidence insufficient.
RetryableReasons == {"SAMPLE_MISSING", "SAMPLE_PARTIAL", "MINIMUM_REQUESTS_NOT_MET"}
ForbiddenReasons == {"WINDOW_NOT_READY", "SAMPLE_EARLY", "WINDOW_DUPLICATE", "WINDOW_OUT_OF_ORDER"}
InsufficientReasons ==
    RetryableReasons \cup {"STATE_TERMINAL", "STATE_SCOPE_MISMATCH", "SAMPLE_SCOPE_MISMATCH",
        "WINDOW_OUT_OF_ORDER", "WINDOW_GAP", "SAMPLE_LATE", "SAMPLE_CONFLICTING_DUPLICATE"}

\* Rates are rounded against the candidate.
CeilingBasisPoints(n, d) == (n * BasisPoints + d - 1) \div d
FloorBasisPoints(n, d) == (n * BasisPoints) \div d
NoAggregates == [error |-> -1, availability |-> -1, latency |-> -1, requests |-> -1,
                 errors |-> -1, ok |-> -1]
Aggregates(o) ==
    IF o.completeness # "COMPLETE" \/ o.requests = 0 THEN NoAggregates
    ELSE [error |-> CeilingBasisPoints(o.errors, o.requests),
          availability |-> FloorBasisPoints(o.ok, o.requests),
          latency |-> o.latency, requests |-> o.requests, errors |-> o.errors, ok |-> o.ok]

Decide(status, reasons, prior, s, o, at, next) ==
    [status |-> status, reasons |-> reasons, prior |-> prior, state |-> s,
     observation |-> ObservationDigest(o), aggregates |-> Aggregates(o),
     samples |-> Cardinality(DOMAIN o.samples), window |-> o.window, at |-> at,
     next |-> IF next = NoTime THEN NoTime ELSE Later(at, next)]
Wait(reasons, prior, s, o, at, next) == Decide("WAIT", reasons, prior, s, o, at, next)
Insufficient(reason, prior, s, o, at, next) ==
    Decide("INSUFFICIENT_EVIDENCE", <<reason>>, prior, s, o, at, next)
Uncited(reason, s, next, o, at) ==
    [Insufficient(reason, s, next, o, at, NoTime) EXCEPT
        !.observation = NoDigest, !.aggregates = NoAggregates, !.samples = 0]

UnhealthyReasons(errors, ok, requests, latency) ==
    LET cite(bad, reason) == IF bad THEN <<reason>> ELSE <<>>
    IN cite(errors * BasisPoints >= UnhealthyMin.error * requests, "UNHEALTHY_ERROR_RATE")
       \o cite(latency >= UnhealthyMin.latency, "UNHEALTHY_LATENCY")
       \o cite(ok * BasisPoints <= UnhealthyMaxAvailability * requests, "UNHEALTHY_AVAILABILITY")

ThresholdsMet(errors, ok, requests, latency) ==
    /\ errors * BasisPoints <= HealthyMax.error * requests
    /\ latency <= HealthyMax.latency
    /\ ok * BasisPoints >= HealthyMinAvailability * requests

\* One bad metric makes a window unhealthy, all of them make it healthy.
ClassifyWindow(o) ==
    LET bad == UnhealthyReasons(o.errors, o.ok, o.requests, o.latency)
    IN IF bad # <<>> THEN [class |-> "unhealthy", reasons |-> bad]
       ELSE IF ThresholdsMet(o.errors, o.ok, o.requests, o.latency)
            THEN [class |-> "healthy", reasons |-> <<"HEALTHY_THRESHOLDS_MET">>]
            ELSE [class |-> "wait", reasons |-> <<"THRESHOLD_INCONCLUSIVE">>]

\* Mutant: the last window does not end the evaluation.
ConcludedLate(prior, s, o, at, class, met) ==
    IF met = "HEALTHY_STREAK_MET" /\ s.healthy >= HealthyStreak
    THEN Decide("HEALTHY", Append(class.reasons, met), prior, s, o, at, NoTime)
    ELSE IF met = "UNHEALTHY_STREAK_MET" /\ s.unhealthy >= UnhealthyStreak
    THEN Decide("UNHEALTHY", Append(class.reasons, met), prior, s, o, at, NoTime)
    ELSE Wait(class.reasons, prior, s, o, at, NextAfter(s, o, at))

\* A streak that is met ends the evaluation; the last window ends it too.
Concluded(prior, s, o, at, class, met) ==
    IF met = "HEALTHY_STREAK_MET" /\ s.healthy >= HealthyStreak
    THEN Decide("HEALTHY", Append(class.reasons, met), prior, s, o, at, NoTime)
    ELSE IF met = "UNHEALTHY_STREAK_MET" /\ s.unhealthy >= UnhealthyStreak
    THEN Decide("UNHEALTHY", Append(class.reasons, met), prior, s, o, at, NoTime)
    ELSE IF s.evaluated >= MaxWindows
    THEN Decide("INSUFFICIENT_EVIDENCE", Append(class.reasons, "MAXIMUM_WINDOWS_EXHAUSTED"),
                prior, Reset(s), o, at, NoTime)
    ELSE Wait(class.reasons \o CASE met = "HEALTHY_STREAK_MET" -> <<"HEALTHY_STREAK_PENDING">>
                                 [] met = "UNHEALTHY_STREAK_MET" -> <<"UNHEALTHY_STREAK_PENDING">>
                                 [] met = None -> <<>>,
              prior, s, o, at, NextAfter(s, o, at))

\* A streak of one class resets the other; an inconclusive window resets both.
EvaluateThresholds(prior, s, consumed, o, at) ==
    LET class == ClassifyWindow(o)
    IN CASE class.class = "healthy" ->
              Concluded(prior, [consumed EXCEPT !.unhealthy = 0,
                                   !.healthy = Earlier(s.healthy + 1, HealthyStreak)],
                        o, at, class, "HEALTHY_STREAK_MET")
         [] class.class = "unhealthy" ->
              Concluded(prior, [consumed EXCEPT !.healthy = 0,
                                   !.unhealthy = Earlier(s.unhealthy + 1, UnhealthyStreak)],
                        o, at, class, "UNHEALTHY_STREAK_MET")
         [] class.class = "wait" -> Concluded(prior, Reset(consumed), o, at, class, None)

\* Evidence that may still arrive is waited for until the deadline, without a
\* change of state; after it the window is consumed and the streak is lost.
EvaluateEvidence(prior, s, consumed, o, at) ==
    LET lost(reason) == Insufficient(reason, prior, Reset(consumed), o, at, NextAfter(consumed, o, at))
        retry(reason) == IF at < Deadline(o.window)
                         THEN Insufficient(reason, prior, s, o, at, Deadline(o.window))
                         ELSE lost(reason)
    IN IF o.observed > Deadline(o.window) THEN lost("SAMPLE_LATE")
       ELSE IF Ends(o.window) - Window > ExpectedStart(s) THEN lost("WINDOW_GAP")
       ELSE IF o.completeness # "COMPLETE"
            THEN retry(IF o.completeness = "MISSING" THEN "SAMPLE_MISSING" ELSE "SAMPLE_PARTIAL")
       ELSE IF o.conflicting THEN lost("SAMPLE_CONFLICTING_DUPLICATE")
       ELSE IF o.requests < MinRequests THEN retry("MINIMUM_REQUESTS_NOT_MET")
       ELSE EvaluateThresholds(prior, s, consumed, o, at)

\* The observation against the windows already consumed and against the clock.
EvaluateWindow(s, o, at) ==
    LET windows == (Ends(o.window) - ExpectedStart(s)) \div Window
        replay == ~o.conflicting /\ (\/ ObservationDigest(o) = s.observation
                                     \/ SampleSet(o) # {} /\ SampleSet(o) \subseteq s.consumed)
    IN IF replay THEN Wait(<<"WINDOW_DUPLICATE">>, s, s, o, at,
                           IF s.evaluated >= MaxWindows THEN NoTime
                           ELSE Later(at, s.last + Window + Delay))
       ELSE IF Ends(o.window) = s.last
            THEN Insufficient("SAMPLE_CONFLICTING_DUPLICATE", s, Reset(s), o, at, NextAfter(s, o, at))
       ELSE IF Ends(o.window) - Window < ExpectedStart(s)
            THEN Insufficient("WINDOW_OUT_OF_ORDER", s, Reset(s), o, at, NoTime)
       ELSE IF at < Ready(o.window)
            THEN Wait(<<"WINDOW_NOT_READY">>, s, s, o, at, Ready(o.window))
       ELSE IF o.observed > at
            THEN Insufficient("SAMPLE_LATE", s, s, o, at, Earlier(o.observed, Deadline(o.window)))
       ELSE IF o.observed < Ready(o.window)
            THEN Wait(<<"SAMPLE_EARLY">>, s, s, o, at, Ready(o.window))
       ELSE EvaluateEvidence(s, s, Advance(s, o, windows), o, at)

\* evaluate_health for the one observation that a call hands to it.
EvaluateHealth(epoch, s, o, at) ==
    IF ~StateMatches(s, epoch)
    THEN Uncited("STATE_SCOPE_MISMATCH", s, Reset(s), o, at)
    ELSE IF s.healthy >= HealthyStreak \/ s.unhealthy >= UnhealthyStreak
    THEN Uncited("STATE_TERMINAL", s, s, o, at)
    ELSE IF s.evaluated >= MaxWindows
    THEN Uncited("MAXIMUM_WINDOWS_EXHAUSTED", s, Reset(s), o, at)
    ELSE IF o.epoch # epoch
    THEN Insufficient("SAMPLE_SCOPE_MISMATCH", s, Reset(s), o, at, NoTime)
    ELSE EvaluateWindow(s, o, at)

\* The state after a decision names the decision; a terminal one has none.
DecisionDigest(d) == <<d.observation, d.status, d.at>>
NextState(d) == [d.state EXCEPT !.prior = DecisionDigest(d)]

\* The contract of a decision, which checks rates, thresholds and streaks again
\* from the counts that the decision cites.
Consumed(d) == d.state.observation = d.observation /\ d.state.last = Ends(d.window)
RatesCanonical(a) ==
    a # NoAggregates => /\ a.requests > 0 /\ a.ok + a.errors <= a.requests
                        /\ a.error = CeilingBasisPoints(a.errors, a.requests)
                        /\ a.availability = FloorBasisPoints(a.ok, a.requests)
ThresholdEvidence(d) ==
    /\ Consumed(d) /\ d.aggregates # NoAggregates
    /\ d.aggregates.requests >= MinRequests /\ d.samples >= 2
CitesHealthy(a) == ThresholdsMet(a.errors, a.ok, a.requests, a.latency)
CitedUnhealthy(a) == UnhealthyReasons(a.errors, a.ok, a.requests, a.latency)

\* Which reasons and streaks a status may stand on.
StatusSemantics(d) ==
    LET a == d.aggregates
        streaks(h, u) == d.state.healthy = h /\ d.state.unhealthy = u
        healthy == ThresholdEvidence(d) /\ CitesHealthy(a)
        unhealthy(met) == /\ ThresholdEvidence(d) /\ CitedUnhealthy(a) # <<>>
                          /\ d.reasons = Append(CitedUnhealthy(a), met)
    IN CASE d.status = "HEALTHY" ->
              /\ d.reasons = <<"HEALTHY_THRESHOLDS_MET", "HEALTHY_STREAK_MET">>
              /\ healthy /\ streaks(2, 0) /\ d.next = NoTime
         [] d.status = "UNHEALTHY" ->
              unhealthy("UNHEALTHY_STREAK_MET") /\ streaks(0, 2) /\ d.next = NoTime
         [] d.status = "WAIT" ->
              /\ d.next # NoTime
              /\ \/ d.reasons[1] \in ForbiddenReasons
                 \/ /\ d.reasons = <<"HEALTHY_THRESHOLDS_MET", "HEALTHY_STREAK_PENDING">>
                    /\ healthy /\ streaks(1, 0)
                 \/ unhealthy("UNHEALTHY_STREAK_PENDING") /\ streaks(0, 1)
                 \/ /\ d.reasons = <<"THRESHOLD_INCONCLUSIVE">> /\ streaks(0, 0)
                    /\ ThresholdEvidence(d) /\ ~CitesHealthy(a) /\ CitedUnhealthy(a) = <<>>
         [] d.status = "INSUFFICIENT_EVIDENCE" ->
              \/ /\ Last(d.reasons) = "MAXIMUM_WINDOWS_EXHAUSTED" /\ d.next = NoTime
                 /\ d.state.evaluated = MaxWindows
              \/ Len(d.reasons) = 1 /\ d.reasons[1] \in InsufficientReasons

ValidDecision(d) ==
    /\ ValidState(d.state) /\ (d.next = NoTime \/ d.next >= d.at)
    /\ RatesCanonical(d.aggregates)
    /\ d.observation # NoDigest /\ d.state.observation = d.observation => d.state.last = Ends(d.window)
    /\ StatusSemantics(d)

(* ----------------------- proofs, chains, promotion --------------------- *)

\* A decision proof: its observation and decision, in its place in the chain.
Proof(sequence, o, d) == [sequence |-> sequence, observation |-> o, decision |-> d]

ValidProof(p) ==
    /\ p.decision.observation = ObservationDigest(p.observation)
    /\ p.decision.window = p.observation.window
    /\ p.observation.observed = p.decision.at
    /\ \A i \in DOMAIN p.decision.reasons : p.decision.reasons[i] \notin ForbiddenReasons
    /\ p.observation.timing # "EARLY"

\* The one retry of a window: at its deadline, after too little evidence.
DeadlineRetry(p, q) ==
    LET deadline == Deadline(q.observation.window)
    IN /\ Len(p.decision.reasons) = 1 /\ p.decision.reasons[1] \in RetryableReasons
       /\ p.decision.next = deadline /\ p.decision.at < deadline /\ q.decision.at >= deadline

PriorState(epoch, proofs) ==
    IF proofs = <<>> THEN InitialState(epoch) ELSE NextState(Last(proofs).decision)

\* The compact proof that a promotion carries.
PromotionProof(proofs) ==
    LET p == Last(proofs)
    IN [issued |-> p.decision.at, until |-> Deadline(p.observation.window), proofs |-> proofs]
PromotionProofValid(m) == m.issued < m.until

ValidStep(epoch, proofs, i) ==
    LET p == proofs[i]
    IN /\ p.sequence = i /\ ValidProof(p)
       /\ p.decision.prior = PriorState(epoch, SubSeq(proofs, 1, i - 1))
       /\ i > 1 => proofs[i - 1].decision.next # NoTime
       /\ p.decision.at >= Ready(p.observation.window)
       /\ Cardinality({j \in 1..i : proofs[j].observation.window = p.observation.window}) <= 2
       /\ \A j \in 1..i - 1 : proofs[j].observation.window = p.observation.window =>
              j = i - 1 /\ DeadlineRetry(proofs[j], p)

\* SignedHealthDecisionChain: what the store accepts.
ValidChain(epoch, proofs) ==
    /\ proofs # <<>> /\ Len(proofs) <= 2 * MaxWindows
    /\ \A i \in DOMAIN proofs : ValidStep(epoch, proofs, i)
    /\ Last(proofs).decision.status = "HEALTHY" => PromotionProofValid(PromotionProof(proofs))

\* Every decision of a chain is evaluated again.
ReplaysExactly(epoch, proofs) ==
    \A i \in DOMAIN proofs :
        proofs[i].decision = EvaluateHealth(epoch, PriorState(epoch, SubSeq(proofs, 1, i - 1)),
                                            proofs[i].observation, proofs[i].decision.at)

=============================================================================
