----------------------------- MODULE Completion -----------------------------
(***************************************************************************)
(* Independent verification and the completion classifier: what the        *)
(* verifier concludes from what it reads and probes, what the coordinator  *)
(* accepts as evidence, and the pure decision that turns one bundle of     *)
(* evidence into COMPLETE or AMBIGUOUS.                                    *)
(*                                                                         *)
(* A verification request stands for all its digests (root, plan, claim,   *)
(* intent): two requests are the same iff their records are.  An absent    *)
(* optional record is the one whose first field says "ABSENT".             *)
(***************************************************************************)
EXTENDS Integers

CONSTANTS
    Window,   \* _OBSERVATION_WINDOW_SECONDS
    MaxLag    \* _MAX_EVIDENCE_ASSESSMENT_LAG_SECONDS

ASSUME CompletionConstants == Window \in Nat \ {0} /\ MaxLag \in Nat

Actions == {"APPLY_CANARY", "PROMOTE_CANDIDATE", "RECOVER_STABLE"}
Outcomes == {"CLAIMED", "DENIED", "APPLIED", "VERIFIED", "FAILED_SAFE", "AMBIGUOUS"}

\* The share of traffic that an action leaves at the stable revision.
StableShare(action) ==
    CASE action = "APPLY_CANARY" -> 90
      [] action = "PROMOTE_CANDIDATE" -> 0
      [] action = "RECOVER_STABLE" -> 100

(* ---------------------------- the requests ---------------------------- *)

\* subject names the receipt or the revocation that the request is about.
VerificationRequest(action, epoch, subject, started) ==
    [action |-> action, epoch |-> epoch, subject |-> subject,
     started |-> started, ends |-> started + Window]

ValidRequest(q) ==
    /\ q.action \in Actions
    /\ q.started < q.ends /\ q.ends - q.started <= Window

InWindow(t, q) == q.started <= t /\ t <= q.ends

\* A receipt of a finished delivery gets a request for the traffic of its own
\* action; it starts when the verification does.
ReceiptRequest(r, started) == VerificationRequest(r.action, r.epoch, r.id, started)

\* Mutant: the window opens with the denial, not with the epoch.
DenialWindow(r, started) == VerificationRequest("APPLY_CANARY", r.epoch, r.id, r.updated)

\* A stale denial must have left the canary as it was.
StaleDenialRequest(r, started) ==
    VerificationRequest("APPLY_CANARY", r.epoch, r.id, started)

\* A revocation is assessed when it commits, without looking at the target.
AuthorityRequest(epoch, committed) ==
    VerificationRequest("APPLY_CANARY", epoch, <<"revocation", epoch>>, committed)

(* ------------------ what the verifier reads and probes ----------------- *)

\* The first disagreement, in a fixed order.
ConfigurationReason(q, f) ==
    IF f.reconciling THEN "RECONCILING"
    ELSE IF ~f.ready THEN "NOT_READY"
    ELSE IF ~f.generation THEN "GENERATION_MISMATCH"
    ELSE IF ~f.mapping THEN "REVISION_MAPPING_MISMATCH"
    ELSE IF f.stable # StableShare(q.action) THEN "TRAFFIC_MISMATCH"
    ELSE IF ~f.concurrency THEN "CONCURRENCY_MISMATCH"
    ELSE IF ~f.digests THEN "DIGEST_MISMATCH" ELSE "MATCH"

\* The twenty samples of a probe, counted by outcome.
SampleCount == 20
ProbeCounts(stable, candidate, invalid) ==
    [stable |-> stable, candidate |-> candidate, invalid |-> invalid,
     unavailable |-> SampleCount - stable - candidate - invalid]

ProbeBounds(action) ==
    CASE action = "APPLY_CANARY" -> [stable |-> 14..19, candidate |-> 1..6]
      [] action = "PROMOTE_CANDIDATE" -> [stable |-> {0}, candidate |-> {20}]
      [] action = "RECOVER_STABLE" -> [stable |-> {20}, candidate |-> {0}]

ProbeReason(action, n) ==
    IF n.unavailable > 0 THEN "TRANSPORT_UNAVAILABLE"
    ELSE IF n.invalid > 0 THEN "RESPONSE_INVALID"
    ELSE IF /\ n.stable \in ProbeBounds(action).stable
            /\ n.candidate \in ProbeBounds(action).candidate THEN "MATCH"
    ELSE "DISTRIBUTION_MISMATCH"

(* --------------------------- signed evidence --------------------------- *)

\* VerifiedIndependentVerificationEvidenceV1: what was observed for which
\* request, when, and when the coordinator verified the signature.
NoEvidence(kind) ==
    [verdict |-> "ABSENT", kind |-> kind, reason |-> "NONE",
     request |-> VerificationRequest("APPLY_CANARY", 0, <<"none", 0>>, 0),
     occurred |-> 0, verified |-> 0]

Evidence(kind, q, verdict, reason, at, verified) ==
    [verdict |-> verdict, kind |-> kind, reason |-> reason, request |-> q,
     occurred |-> at, verified |-> verified]

\* Signed evidence is of one kind, from within the window of its request, and not
\* verified before it was observed.
ValidEvidence(ev) ==
    /\ ev.kind \in {"CONFIGURATION", "PROBE"}
    /\ ev.verdict \in {"ABSENT", "MATCH"}
         \cup (IF ev.kind = "PROBE" THEN {"INCONCLUSIVE"} ELSE {"MISMATCH", "UNAVAILABLE"})
    /\ (ev.reason = "MATCH") = (ev.verdict = "MATCH")
    /\ ev.verdict # "ABSENT" => /\ ValidRequest(ev.request) /\ InWindow(ev.occurred, ev.request)
                                /\ ev.occurred <= ev.verified

\* The verifier signs no observation from outside the window.
ConfigurationEvidence(q, f, at, verified) ==
    IF ~InWindow(at, q) THEN NoEvidence("CONFIGURATION")
    ELSE LET reason == ConfigurationReason(q, f)
         IN Evidence("CONFIGURATION", q, IF reason = "MATCH" THEN "MATCH" ELSE "MISMATCH",
                     reason, at, verified)

UnreadableEvidence(q, at, verified) ==
    IF ~InWindow(at, q) THEN NoEvidence("CONFIGURATION")
    ELSE Evidence("CONFIGURATION", q, "UNAVAILABLE", "READ_UNAVAILABLE", at, verified)

ProbeEvidence(q, n, at, verified) ==
    IF ~InWindow(at, q) THEN NoEvidence("PROBE")
    ELSE LET reason == ProbeReason(q.action, n)
         IN Evidence("PROBE", q, IF reason = "MATCH" THEN "MATCH" ELSE "INCONCLUSIVE",
                     reason, at, verified)

\* An observation from before the denial says nothing about what it left.
PostDenialEvidence(ev, r) == IF ev.occurred < r.updated THEN NoEvidence(ev.kind) ELSE ev

(* ------------------- execution and authority evidence ------------------ *)

NoExecution == [outcome |-> "ABSENT", reason |-> "NONE", action |-> "APPLY_CANARY",
                epoch |-> 0, observed |-> 0, known |-> TRUE]

\* Only a receipt whose signed intent is still readable and matches is evidence.
ExecutionEvidence(q, r, intentVerified) ==
    IF ~intentVerified THEN NoExecution
    ELSE [outcome |-> r.outcome, reason |-> r.reason, action |-> r.action,
          epoch |-> r.epoch, observed |-> r.observed, known |-> r.outcome # "AMBIGUOUS"]

NoAuthorityProof == [kind |-> "ABSENT", epoch |-> 0, occurred |-> 0]
AuthorityProof(kind, epoch, occurred) ==
    [kind |-> kind, epoch |-> epoch, occurred |-> occurred]

\* The contract refuses an authority fact from outside its window.
ValidAuthorityProof(a, q) == a.kind = "ABSENT" \/ InWindow(a.occurred, q)

\* An assessment is for the action it names and not from before its window.
ValidAssessment(kind, q, assessed) ==
    /\ kind = "PROMOTION" => q.action = "PROMOTE_CANDIDATE"
    /\ kind = "RECOVERY" => q.action = "RECOVER_STABLE"
    /\ assessed >= q.started

Bundle(kind, q, assessed, execution, configuration, probe, authority) ==
    [kind |-> kind, request |-> q, assessed |-> assessed, execution |-> execution,
     configuration |-> configuration, probe |-> probe, authority |-> authority]

(* ---------------------------- the classifier --------------------------- *)

AssessmentIsStale(b) == b.assessed - b.request.ends > MaxLag
EvidenceIsStale(ev, b) == b.assessed < ev.verified \/ AssessmentIsStale(b)
EvidenceMatches(ev, b, kind) == ev.kind = kind /\ ev.request = b.request

\* With a receipt in the bundle an advancement must have opened the epoch that
\* the receipt observed; without one, the epoch of the request.
AuthorityMatches(b, kind) ==
    /\ b.authority.kind = kind
    /\ b.authority.epoch = IF kind = "EPOCH_ADVANCEMENT" /\ b.execution.outcome # "ABSENT"
                           THEN b.execution.observed ELSE b.request.epoch

ExecutionMismatch(b) ==
    /\ b.execution.outcome # "ABSENT"
    /\ \/ b.execution.epoch # b.request.epoch
       \/ /\ b.kind # "STALE_DENIAL"
          /\ b.execution.observed # b.request.epoch

RevocationReason(b) ==
    IF b.authority.kind = "ABSENT" THEN "AUTHORITY_PROOF_ABSENT"
    ELSE IF ~AuthorityMatches(b, "REVOCATION") THEN "EVIDENCE_BINDING_MISMATCH"
    ELSE IF AssessmentIsStale(b) THEN "EVIDENCE_STALE"
    ELSE "REVOCATION_COMPLETE"

\* Mutant: the denial needs no proof that the epoch advanced.
DenialWithoutProof(b) ==
    IF b.execution.outcome = "ABSENT" THEN "EXECUTION_PROOF_ABSENT"
    ELSE IF AssessmentIsStale(b) THEN "EVIDENCE_STALE"
    ELSE IF b.execution.outcome # "DENIED" \/ b.execution.reason # "EPOCH_MISMATCH"
         THEN "EXECUTION_EVIDENCE_CONTRADICTORY"
    ELSE "STALE_CAPABILITY_DENIAL_COMPLETE"

StaleDenialReason(b) ==
    IF b.authority.kind = "ABSENT" THEN "AUTHORITY_PROOF_ABSENT"
    ELSE IF ~AuthorityMatches(b, "EPOCH_ADVANCEMENT") THEN "EVIDENCE_BINDING_MISMATCH"
    ELSE IF b.execution.outcome = "ABSENT" THEN "EXECUTION_PROOF_ABSENT"
    ELSE IF AssessmentIsStale(b) THEN "EVIDENCE_STALE"
    ELSE IF \/ b.execution.outcome # "DENIED"
            \/ b.execution.reason # "EPOCH_MISMATCH"
            \/ b.execution.observed <= b.execution.epoch
         THEN "EXECUTION_EVIDENCE_CONTRADICTORY"
    ELSE "STALE_CAPABILITY_DENIAL_COMPLETE"

ConfigurationVerdict(b) ==
    LET ev == b.configuration
    IN IF ev.verdict = "ABSENT" THEN "CONFIGURATION_PROOF_ABSENT"
       ELSE IF ~EvidenceMatches(ev, b, "CONFIGURATION") THEN "EVIDENCE_BINDING_MISMATCH"
       ELSE IF EvidenceIsStale(ev, b) THEN "EVIDENCE_STALE"
       ELSE IF ev.verdict = "UNAVAILABLE" THEN "CONFIGURATION_UNAVAILABLE"
       ELSE IF ev.verdict = "MISMATCH" THEN "CONFIGURATION_MISMATCH"
       ELSE "MATCH"

ProbeVerdict(b) ==
    LET ev == b.probe
    IN IF ev.verdict = "ABSENT" THEN "PROBE_PROOF_ABSENT"
       ELSE IF ~EvidenceMatches(ev, b, "PROBE") THEN "EVIDENCE_BINDING_MISMATCH"
       ELSE IF EvidenceIsStale(ev, b) THEN "EVIDENCE_STALE"
       ELSE IF ev.verdict # "INCONCLUSIVE" THEN "MATCH"
       ELSE IF ev.reason \in {"DISTRIBUTION_MISMATCH", "RESPONSE_INVALID"}
            THEN "CONFIGURATION_DATA_DISAGREEMENT" ELSE "PROBE_INCONCLUSIVE"

ReceiptReason(b) ==
    IF b.execution.outcome = "ABSENT" THEN "EXECUTION_PROOF_ABSENT"
    ELSE IF \/ b.execution.action # (IF b.kind = "PROMOTION" THEN "PROMOTE_CANDIDATE"
                                     ELSE "RECOVER_STABLE")
            \/ b.execution.outcome # "VERIFIED"
            \/ b.execution.reason # "NONE"
         THEN "EXECUTION_EVIDENCE_CONTRADICTORY"
    ELSE IF AssessmentIsStale(b) THEN "EVIDENCE_STALE"
    ELSE IF ConfigurationVerdict(b) # "MATCH" THEN ConfigurationVerdict(b)
    ELSE IF ProbeVerdict(b) # "MATCH" THEN ProbeVerdict(b)
    ELSE IF b.kind = "PROMOTION" THEN "PROMOTION_COMPLETE" ELSE "RECOVERY_COMPLETE"

\* An uncertain write is never complete, whatever the other evidence says.
ClassificationReason(b) ==
    IF ~b.execution.known \/ b.execution.outcome = "AMBIGUOUS" THEN "UNCERTAIN_WRITE"
    ELSE IF ExecutionMismatch(b) THEN "EVIDENCE_BINDING_MISMATCH"
    ELSE IF b.kind = "REVOCATION" THEN RevocationReason(b)
    ELSE IF b.kind = "STALE_DENIAL" THEN StaleDenialReason(b)
    ELSE ReceiptReason(b)

CompleteReasons == {"PROMOTION_COMPLETE", "RECOVERY_COMPLETE", "REVOCATION_COMPLETE",
                    "STALE_CAPABILITY_DENIAL_COMPLETE"}

\* A verdict is COMPLETE for the reason of its own kind and for no other.
ValidClassification(v) ==
    /\ ValidAssessment(v.kind, v.request, v.at)
    /\ (v.status = "COMPLETE") =
         (v.reason = CASE v.kind = "PROMOTION" -> "PROMOTION_COMPLETE"
                       [] v.kind = "RECOVERY" -> "RECOVERY_COMPLETE"
                       [] v.kind = "REVOCATION" -> "REVOCATION_COMPLETE"
                       [] v.kind = "STALE_DENIAL" -> "STALE_CAPABILITY_DENIAL_COMPLETE")

ClassifyCompletion(b) ==
    LET reason == ClassificationReason(b)
    IN [kind |-> b.kind, request |-> b.request, reason |-> reason,
        status |-> IF reason \in CompleteReasons THEN "COMPLETE" ELSE "AMBIGUOUS",
        at |-> b.assessed]

=============================================================================
