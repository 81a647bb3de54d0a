------------------------- MODULE CompletionTimeline -------------------------
(***************************************************************************)
(* The coordinator's completion workflow on top of the timeline: epoch     *)
(* revocations, stale denials and finished receipts are assessed from      *)
(* freshly collected evidence, classified, and recorded as one causal      *)
(* group before anybody is answered.                                       *)
(*                                                                         *)
(* A call is one request to the coordinator: a revocation of epoch 1 (a    *)
(* replay of the command is another call with an attempt of its own), a    *)
(* receipt-authority operation whose answer carries a stale denial, the    *)
(* completion check of a claim release, or an export of the timeline.  One *)
(* action per awaited call; the two attestations are one action, because   *)
(* nothing here changes what they read.                                    *)
(***************************************************************************)
EXTENDS Timeline, Completion

CONSTANTS
    Receipt,     \* execution receipts
    MaxEpoch,    \* bound on the authority epoch
    Kinds,       \* what calls may be
    Samples      \* outcomes of a probe: counts of its samples

VARIABLES
    epoch,     \* current_epoch
    opened,    \* when each epoch was opened, 0 before
    fences,    \* epochs opened by a claim release or an abandonment
    revoked,   \* committed_at of the revocation of epoch 1, 0 without one
    receipt,   \* the execution receipts
    service,   \* Facts of the Cloud Run service
    work       \* the workflow of each call

authority == <<epoch, opened, fences, revoked>>
wvars == <<epoch, opened, fences, revoked, receipt, service, work>>
vars == <<tvars, export, wvars>>

NoReceipt == [outcome |-> "ABSENT", reason |-> "NONE", action |-> "APPLY_CANARY",
              epoch |-> 0, observed |-> 0, updated |-> 0, id |-> <<"none", 0>>]
Idle == [pc |-> "idle", kind |-> "none", of |-> NoReceipt,
         request |-> VerificationRequest("APPLY_CANARY", 0, <<"none", 0>>, 0),
         proof |-> NoAuthorityProof, configuration |-> NoEvidence("CONFIGURATION"),
         probe |-> NoEvidence("PROBE"), out |-> "none"]

(* ------------------- projections: one event per record ----------------- *)

\* The identity of an event names the record that it projects; a body that is
\* the same for every call is the record's name again.
EvidenceEvent(e) == Event(<<"evidence", e>>, "EPOCH_ADVANCED")
OperatorEvent(c) == Event(<<"operator", c>>, "REVOKE_EPOCH")
ReceiptEvent(r) == Event(<<"receipt", r.id[2]>>, r)
VerificationEvent(c, ev) == Event(<<ev.kind, c>>, ev)
ClassificationEvent(c, b) == Event(<<"classification", c>>, b)

\* Nothing in the classification of a revocation depends on the call: its
\* identity is its digest, the same for every attempt while the claim is.
RevocationEvent(n, b) == Event(<<"revocation", n>>, b)

AllSources ==
    {<<"evidence", e>> : e \in 1..MaxEpoch} \cup {<<"revocation", n>> : n \in 0..MaxEpoch}
    \cup {<<"receipt", r>> : r \in Receipt}
    \cup {<<k, c>> : k \in {"operator", "CONFIGURATION", "PROBE", "classification"},
                     c \in Caller}

\* The identity of every record that is projected is a source.
ASSUME CompletionTimelineConstants ==
    /\ AllSources \subseteq Source
    /\ MaxEpoch \in Nat \ {0} /\ MaxTime # 0

ObservedEvents(c, w) ==
    (IF w.configuration.verdict = "ABSENT" THEN <<>>
     ELSE <<VerificationEvent(c, w.configuration)>>)
    \o (IF w.probe.verdict = "ABSENT" THEN <<>> ELSE <<VerificationEvent(c, w.probe)>>)

\* The causal groups of the recorder.
CompletionGroup(c, w, b) == ObservedEvents(c, w) \o <<ClassificationEvent(c, b)>>
StaleDenialGroup(c, w, b) ==
    (IF w.proof.kind = "ABSENT" THEN <<>> ELSE <<EvidenceEvent(w.proof.epoch)>>)
    \o <<ReceiptEvent(w.of)>> \o ObservedEvents(c, w) \o <<ClassificationEvent(c, b)>>
RevocationGroup(c, b) ==
    <<EvidenceEvent(2), OperatorEvent(c), RevocationEvent(fences, b)>>

(* --------------------- the world around the workflow ------------------- *)

Init ==
    /\ TimelineInit
    /\ epoch = 1 /\ opened = [e \in 1..MaxEpoch |-> IF e = 1 THEN 1 ELSE 0]
    /\ fences = 0 /\ revoked = 0
    /\ receipt = [r \in Receipt |-> NoReceipt]
    /\ service = [reconciling |-> FALSE, ready |-> TRUE, generation |-> TRUE,
                  mapping |-> TRUE, stable |-> 90, concurrency |-> TRUE, digests |-> TRUE]
    /\ work = [c \in Caller |-> Idle]

Advance(n) ==
    /\ epoch < MaxEpoch /\ epoch' = epoch + 1
    /\ opened' = [opened EXCEPT ![epoch + 1] = now]
    /\ fences' = fences + n

\* A claim release or an abandonment opens an epoch; neither records its event.
\* (Bound: not after a promotion, whose assessment does not read the epoch.)
Fence ==
    /\ \A r \in Receipt : receipt[r].outcome \notin {"VERIFIED", "AMBIGUOUS"}
    /\ Advance(1)
    /\ UNCHANGED <<tvars, revoked, receipt, service, work>>

\* The final gate of a delivery denies a capability of epoch 1.
Deny(r) ==
    /\ receipt[r] = NoReceipt /\ epoch > 1
    /\ receipt' = [receipt EXCEPT ![r] =
         [outcome |-> "DENIED", reason |-> "EPOCH_MISMATCH", action |-> "PROMOTE_CANDIDATE",
          epoch |-> 1, observed |-> epoch, updated |-> now, id |-> <<"receipt", r>>]]
    /\ UNCHANGED <<tvars, authority, service, work>>

\* A promotion of epoch 1 is verified, or its outcome stays open while the
\* service reconciles.
Finish(r) ==
    /\ receipt[r] = NoReceipt /\ epoch = 1 /\ service.stable = 90
    /\ \E outcome \in {"VERIFIED", "AMBIGUOUS"} :
         /\ receipt' = [receipt EXCEPT ![r] =
              [outcome |-> outcome,
               reason |-> IF outcome = "VERIFIED" THEN "NONE" ELSE "PROVIDER_OUTCOME_AMBIGUOUS",
               action |-> "PROMOTE_CANDIDATE", epoch |-> 1, observed |-> 1, updated |-> now,
               id |-> <<"receipt", r>>]]
         /\ service' = IF outcome = "VERIFIED" THEN [service EXCEPT !.stable = 0]
                       ELSE [service EXCEPT !.reconciling = TRUE]
    /\ UNCHANGED <<tvars, authority, work>>

(* ----------------------------- the workflow ---------------------------- *)

Step(c, w) == work' = [work EXCEPT ![c] = w]
Answer(c, out) == Step(c, [Idle EXCEPT !.pc = "done", !.kind = work[c].kind,
                                       !.of = work[c].of, !.out = out])
Quiet == UNCHANGED <<now, store, late, sweep>>
Still == Quiet /\ UNCHANGED job

\* The revocation commits, or its committed result is adopted.
BeginRevoke(c) ==
    /\ work[c].pc = "idle" /\ "revoke" \in Kinds
    /\ \/ revoked = 0 /\ epoch = 1 /\ Advance(0) /\ revoked' = now
       \/ revoked # 0 /\ UNCHANGED authority
    /\ Step(c, [Idle EXCEPT !.pc = "classify", !.kind = "revoke"])
    /\ UNCHANGED <<tvars, receipt, service>>

RevocationBundle ==
    LET q == AuthorityRequest(2, revoked)
    IN Bundle("REVOCATION", q, revoked, NoExecution, NoEvidence("CONFIGURATION"),
              NoEvidence("PROBE"), AuthorityProof("REVOCATION", 2, opened[2]))

\* The stored evidence is read, verified and classified; anything that fails
\* leaves the committed revocation unanswered.
ClassifyRevocation(c) ==
    /\ work[c].pc = "classify" /\ work[c].kind = "revoke"
    /\ LET b == ClassifyCompletion(RevocationBundle)
       IN \/ /\ b.status = "COMPLETE" /\ StartAppend(c, RevocationGroup(c, b))
             /\ Step(c, [work[c] EXCEPT !.pc = "record"]) /\ NoFault
          \/ /\ b.status # "COMPLETE" \/ faults < MaxFaults
             /\ Answer(c, "unknown") /\ UNCHANGED job
             /\ IF b.status = "COMPLETE" THEN Fault ELSE NoFault
    /\ Quiet /\ UNCHANGED <<authority, receipt, service>>

\* An operation on a receipt that answers with a stale denial.
BeginDenial(c, r) ==
    /\ work[c].pc = "idle" /\ "denial" \in Kinds /\ receipt[r].reason = "EPOCH_MISMATCH"
    /\ Step(c, [Idle EXCEPT !.pc = "authority", !.kind = "denial", !.of = receipt[r]])
    /\ UNCHANGED <<tvars, authority, receipt, service>>

\* Root bundle, then the signed event that opened the epoch which the receipt
\* observed.  Without the event the assessment goes on without a proof.
ReadAuthority(c) ==
    /\ work[c].pc = "authority"
    /\ LET r == work[c].of
           begin(proof, started) ==
              Step(c, [work[c] EXCEPT !.pc = "observe", !.proof = proof,
                         !.request = StaleDenialRequest(r, started)])
       IN \/ /\ opened[r.observed] <= r.updated /\ NoFault
             /\ begin(AuthorityProof("EPOCH_ADVANCEMENT", r.observed, opened[r.observed]),
                      opened[r.observed])
          \/ /\ begin(NoAuthorityProof,
                      IF opened[epoch] <= r.updated THEN opened[epoch] ELSE r.updated)
             /\ IF opened[r.observed] <= r.updated THEN Fault ELSE NoFault
          \/ Answer(c, "unavailable") /\ Fault
    /\ Still /\ UNCHANGED <<authority, receipt, service>>

\* The check of a promoted receipt by a claim release; its window opens now.
BeginObservation(c, r) ==
    /\ work[c].pc = "idle" /\ "complete" \in Kinds
    /\ receipt[r].outcome \in {"VERIFIED", "AMBIGUOUS"}
    /\ Step(c, [Idle EXCEPT !.pc = "observe", !.kind = "complete", !.of = receipt[r],
                  !.request = ReceiptRequest(receipt[r], now)])
    /\ UNCHANGED <<tvars, authority, receipt, service>>

Observed(c, ev) == IF work[c].kind = "denial" THEN PostDenialEvidence(ev, work[c].of) ELSE ev

\* A revision answers some of the probes iff it has traffic.
PossibleSamples == {n \in Samples : service.stable = 0 <=> n.stable = 0}

\* What the verifier attests of the service; what cannot be had is absent.
AttestedConfiguration(c) ==
    [good |-> {ConfigurationEvidence(work[c].request, service, now, now)},
     bad |-> {UnreadableEvidence(work[c].request, now, now), NoEvidence("CONFIGURATION")}]
AttestedProbe(c) ==
    [good |-> {ProbeEvidence(work[c].request, n, now, now) : n \in PossibleSamples},
     bad |-> {NoEvidence("PROBE")}]

\* Two attestations, one after the other.
Observe(c) ==
    /\ work[c].pc = "observe"
    /\ LET next(configuration, probe) ==
              Step(c, [work[c] EXCEPT !.pc = "classify",
                         !.configuration = Observed(c, configuration),
                         !.probe = Observed(c, probe)])
       IN \/ /\ \E v \in AttestedConfiguration(c).good, p \in AttestedProbe(c).good : next(v, p)
             /\ NoFault
          \/ /\ \E v \in AttestedConfiguration(c).bad, p \in AttestedProbe(c).good : next(v, p)
             /\ Fault
          \/ /\ \E v \in AttestedConfiguration(c).good, p \in AttestedProbe(c).bad : next(v, p)
             /\ Fault
    /\ Still /\ UNCHANGED <<authority, receipt, service>>

Assessed(w, intentVerified) ==
    LET kind == IF w.kind = "complete" THEN "PROMOTION" ELSE "STALE_DENIAL"
    IN ClassifyCompletion(Bundle(kind, w.request, now,
          ExecutionEvidence(w.request, w.of, intentVerified), w.configuration, w.probe,
          w.proof))

\* The signed intent is read, the bundle classified and the group recorded.
Classify(c) ==
    /\ work[c].pc = "classify" /\ work[c].kind \in {"denial", "complete"}
    /\ \E intentVerified \in BOOLEAN :
         LET w == work[c]
             b == Assessed(w, intentVerified)
         IN /\ StartAppend(c, IF w.kind = "complete" THEN CompletionGroup(c, w, b)
                              ELSE StaleDenialGroup(c, w, b))
            /\ IF intentVerified THEN NoFault ELSE Fault
    /\ Step(c, [work[c] EXCEPT !.pc = "record"])
    /\ Quiet /\ UNCHANGED <<authority, receipt, service>>

\* The event that the route itself records once the workflow has returned: the
\* operator's action, and the receipt unless the operation was READ.
RouteGroups(c) ==
    CASE work[c].kind = "revoke" -> {<<OperatorEvent(c)>>}
      [] work[c].kind = "denial" -> {<<>>, <<ReceiptEvent(work[c].of)>>}
      [] work[c].kind = "complete" -> {<<>>}

\* Nobody is answered before the group is recorded; a group that is not is an
\* unknown outcome to the operator and an unavailable service to the others.
Recorded(c) ==
    /\ work[c].pc = "record" /\ job[c].pc = "done"
    /\ \/ /\ job[c].out # "recorded" /\ UNCHANGED job
          /\ Answer(c, IF work[c].kind = "revoke" THEN "unknown" ELSE "unavailable")
       \/ /\ job[c].out = "recorded"
          /\ \E items \in RouteGroups(c) :
               IF items = <<>> THEN Answer(c, "ok") /\ UNCHANGED job
               ELSE AppendOne(c, items[1]) /\ Step(c, [work[c] EXCEPT !.pc = "route"])
    /\ Quiet /\ UNCHANGED <<faults, authority, receipt, service>>

RouteRecorded(c) ==
    /\ work[c].pc = "route" /\ job[c].pc = "done"
    /\ Answer(c, IF job[c].out = "recorded" THEN "ok" ELSE "unavailable")
    /\ Still /\ UNCHANGED <<faults, authority, receipt, service>>

Workflow(c) ==
    \/ BeginRevoke(c) \/ ClassifyRevocation(c)
    \/ \E r \in Receipt : BeginDenial(c, r) \/ BeginObservation(c, r)
    \/ ReadAuthority(c) \/ Observe(c)
    \/ Classify(c) \/ Recorded(c) \/ RouteRecorded(c)

World == Fence \/ \E r \in Receipt : Deny(r) \/ Finish(r)

\* An export looks at nothing but the store, and nobody looks at it.
Export(c) ==
    /\ work[c].pc = "idle" /\ "export" \in Kinds
    /\ ExportStep(c) /\ UNCHANGED wvars

Next ==
    \/ /\ \/ \E c \in Caller : export[c].pc = "idle" /\ Workflow(c)
          \/ World
          \/ (AppendStep \/ StoreStep \/ Tick) /\ UNCHANGED wvars
       /\ UNCHANGED export
    \/ \E c \in Caller : Export(c)

Spec == Init /\ [][Next]_vars

(* ----------------------------- properties ------------------------------ *)

\* The bodies that events carry.
ReceiptBodies ==
    [outcome : Outcomes, reason : {"NONE", "EPOCH_MISMATCH", "PROVIDER_OUTCOME_AMBIGUOUS"},
     action : Actions, epoch : 1..MaxEpoch, observed : 1..MaxEpoch, updated : 1..MaxTime,
     id : {"receipt"} \X Receipt]

BodyOk(source, body) ==
    CASE source[1] = "evidence" -> body = "EPOCH_ADVANCED"
      [] source[1] = "operator" -> body = "REVOKE_EPOCH"
      [] source[1] = "receipt" -> body \in ReceiptBodies
      [] source[1] \in {"CONFIGURATION", "PROBE"} -> ValidEvidence(body) /\ body.kind = source[1]
      [] source[1] \in {"classification", "revocation"} -> ValidClassification(body)

\* Every record in the store and in every call is one that its contract admits:
\* entries with their bodies, evidence within its window, verdicts of their kind.
TypeOK ==
    /\ now \in 1..MaxTime /\ faults \in 0..MaxFaults /\ epoch \in 1..MaxEpoch
    /\ head \in Nat /\ Len(entries) = head
    /\ \A i \in 1..head : /\ EntryOk(entries[i], i)
                          /\ BodyOk(entries[i].source, entries[i].body)
    /\ \A s \in Source : /\ identity[s] \in 0..head
                         /\ raw[s] \in 0..MaxTime + Retention /\ tomb[s] \in 0..MaxTime
    /\ \A c \in Caller :
         /\ JobOk(job[c])
         /\ ValidEvidence(work[c].configuration) /\ ValidEvidence(work[c].probe)
         /\ work[c].pc \in {"observe", "classify", "record", "route"} /\ work[c].kind = "denial"
              => ValidRequest(work[c].request) /\ ValidAuthorityProof(work[c].proof, work[c].request)
    /\ \A c \in Caller : ExportOk(export[c])

RecordedBefore(i, source, Test(_)) ==
    \E k \in 1..i - 1 : entries[k].source = source /\ Test(entries[k].body)

\* A verdict stands on what the timeline already shows: a recorded COMPLETE
\* classification is preceded by the event that advanced the epoch and, for a
\* denial, by the denied receipt of an earlier epoch; for a promotion by two
\* matching observations of the very call that classified it.
VerdictsAreBacked ==
    \A i \in 1..head :
        LET b == entries[i].body
            at == entries[i].source
            matched(ev) == ev.verdict = "MATCH" /\ ev.request = b.request
            denied(r) == r.outcome = "DENIED" /\ r.id = b.request.subject
        IN (at[1] \in {"classification", "revocation"} /\ b.status = "COMPLETE") =>
             CASE b.kind = "REVOCATION" -> RecordedBefore(i, <<"evidence", 2>>, LAMBDA x : TRUE)
               [] b.kind = "STALE_DENIAL" ->
                    /\ RecordedBefore(i, b.request.subject, denied)
                    /\ \E e \in b.request.epoch + 1 .. MaxEpoch :
                         RecordedBefore(i, <<"evidence", e>>, LAMBDA x : TRUE)
               [] b.kind = "PROMOTION" ->
                    /\ RecordedBefore(i, <<"CONFIGURATION", at[2]>>, matched)
                    /\ RecordedBefore(i, <<"PROBE", at[2]>>, matched)

\* A call that is answered has left its records: the operator who is told of a
\* revocation finds the advancement and the action in the timeline, the caller
\* who is told of a denial finds the receipt, whatever was adopted on the way.
AnswersAreRecorded ==
    \A c \in Caller : work[c].pc = "done" /\ work[c].out = "ok" =>
        /\ work[c].kind = "revoke" =>
             /\ identity[<<"evidence", 2>>] # 0 /\ identity[<<"operator", c>>] # 0
             /\ \E n \in 0..fences : identity[<<"revocation", n>>] # 0
        /\ work[c].kind = "denial" =>
             /\ identity[work[c].of.id] # 0 /\ identity[<<"classification", c>>] # 0
             /\ entries[identity[work[c].of.id]].body = work[c].of
        /\ work[c].kind = "complete" => identity[<<"classification", c>>] # 0

\* "Immutable committed result returned by direct and replayed requests": while
\* nothing fails, every call for the committed revocation returns its result.
ReplayReturnsResult ==
    \A c \in Caller : (work[c].kind = "revoke" /\ work[c].pc = "done" /\ faults = 0)
                      => work[c].out = "ok"

=============================================================================
