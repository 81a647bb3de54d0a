------------------------ MODULE AbandonmentDocuments ------------------------
(***************************************************************************)
(* The abandonment of a recovery, in documents: what one read transaction  *)
(* returns to it, what it makes of that, and the two commits that it       *)
(* builds, with the checks that the store makes of each one.               *)
(*                                                                         *)
(* m is the command: the intent m.of, the epoch and the dispatch record    *)
(* that the operator saw.  s is a snapshot: the authority, the intent of   *)
(* the root, its record and receipt, and the stages of m that are on the   *)
(* evidence chain.  The progress of m is stored with its fence and its     *)
(* result with its release, so the stages tell of both.  A digest stands   *)
(* for the document it is of.                                              *)
(***************************************************************************)
EXTENDS Integers, Sequences

CONSTANT NoCommand  \* not a command

NoAuthority == [epoch |-> 0, claim |-> "NONE"]
NoDispatch == [state |-> "ABSENT", rev |-> 0, expires |-> 0]
NoReceipt == [outcome |-> "ABSENT", reason |-> "NONE", seen |-> 0]
NoSnapshot == [authority |-> NoAuthority, intent |-> NoCommand, rec |-> NoDispatch,
               receipt |-> NoReceipt, stages |-> {}]

FenceStages == {"ambiguity", "fence"}
ReleaseStages == {"classification", "release"}

\* recovery_abandonment_evidence_id: the command has one event for each stage.
Event(stage, e) == [stage |-> stage, epoch |-> e]

\* The command stored with the fence, and the one stored with the release.
HasProgress(s) == "fence" \in s.stages
HasResult(s) == "release" \in s.stages

\* An intent is stored with its dispatch record or not at all.
Torn(s) == s.intent # NoCommand /\ s.rec = NoDispatch

-----------------------------------------------------------------------------
\* What may be abandoned, and what that makes of it.

\* _dispatch_state_is_abandonable
Abandonable(r) ==
    \/ r.state = "PREPARED" /\ r.rev = 0
    \/ r.state = "ENQUEUE_STARTED" /\ r.rev = 1
    \/ r.state \in {"CREATED", "DUPLICATE"} /\ r.rev = 2

\* _dispatch_epoch_is_abandonable: an ACTIVE claim past epoch 1 was revoked.
EpochAbandonable(m) == m.of.epoch \in {m.epoch, m.epoch - 1}

\* The record that a fence leaves behind.
Ambiguous(r) == [r EXCEPT !.state = "AMBIGUOUS", !.rev = @ + 1]

\* The denial that the fence itself caused.
LateDenial(m) == [outcome |-> "DENIED", reason |-> "EPOCH_MISMATCH", seen |-> m.epoch + 1]

\* late_fence_receipt_matches, of a receipt that need not be there
ReceiptTolerated(m, r) ==
    r = NoReceipt \/ (r = LateDenial(m) /\ r.seen \in {m.of.epoch + 1, m.of.epoch + 2})

-----------------------------------------------------------------------------
\* The two commits.

\* _fenced_authority
FencedAuthority(e) == [epoch |-> e + 1, claim |-> "RELEASING"]

\* What is abandoned: the record as it was and as it is left, without receipt.
AbandonmentSubject(m, s) ==
    [by |-> m, was |-> s.rec, left |-> Ambiguous(s.rec), receipt |-> s.receipt]

\* How the authority moves.
FenceSubject(m, s) ==
    [by |-> m, was |-> s.authority, left |-> FencedAuthority(s.authority.epoch)]

FenceCommit(m, s) ==
    [subject |-> AbandonmentSubject(m, s), fence |-> FenceSubject(m, s), progress |-> m,
     events |-> <<Event("ambiguity", s.authority.epoch),
                  Event("fence", s.authority.epoch + 1)>>]

\* The verifier is asked for the stable baseline, after the fence event.
ClassificationRequest(m) ==
    [by |-> m, after |-> "fence", epoch |-> m.epoch + 1, traffic |-> "STABLE"]

\* What it attests of the service that it read.
Attestation(q, seen) ==
    [request |-> q, traffic |-> seen, event |-> Event("classification", q.epoch)]

\* RecoveryAbandonmentClassificationResultV1
ResultBound(a) == a.traffic = a.request.traffic

\* RecoveryAbandonmentClassificationSigningRequestV1
EventBound(a) == a.event = Event("classification", a.request.epoch)

\* An answer to this very request, bound to it.
Accepts(q, a) == a.request = q /\ ResultBound(a) /\ EventBound(a)

ReleaseCommit(m, s) ==
    [result |-> m, authority |-> [s.authority EXCEPT !.claim = "RELEASED"],
     proof |-> Attestation(ClassificationRequest(m), "STABLE"),
     events |-> <<Event("classification", s.authority.epoch),
                  Event("release", s.authority.epoch)>>]

-----------------------------------------------------------------------------
\* The checks of a fence.

\* Nothing of an abandonment is there, and no receipt.
FencePristine(s) == s.stages = {} /\ s.receipt = NoReceipt /\ Abandonable(s.rec)

\* _validate_abandonment_claim_fence_authority
FenceIsOneTransition(d) ==
    /\ d.fence.was.claim = "ACTIVE" /\ d.fence.left.claim = "RELEASING"
    /\ d.fence.left.epoch = d.fence.was.epoch + 1

\* The command names the intent, the record and the epoch of the snapshot, and
\* the record changes its state and nothing else.
DispatchEnds(m, s, d) ==
    /\ s.intent = m.of /\ s.rec = m.rec
    /\ s.authority.epoch = m.epoch /\ EpochAbandonable(m)
    /\ d.subject.left = Ambiguous(s.rec)

\* The proof in the claim and the progress are of this record, with no receipt.
AbandonmentProven(m, s, d) ==
    d.progress = m /\ d.subject.was = s.rec /\ d.subject.receipt = NoReceipt

SubjectsBound(m, s, d) ==
    d.subject.by = m /\ d.fence.by = m /\ d.fence.was = s.authority

FenceEventsValid(s, d) ==
    d.events = <<Event("ambiguity", s.authority.epoch), Event("fence", d.fence.left.epoch)>>

\* _validate_recovery_abandonment_fence_commit
FenceValid(m, s, d) ==
    /\ FencePristine(s) /\ FenceIsOneTransition(d)
    /\ DispatchEnds(m, s, d) /\ AbandonmentProven(m, s, d)
    /\ SubjectsBound(m, s, d) /\ FenceEventsValid(s, d)

-----------------------------------------------------------------------------
\* The checks of a release.

\* The fence of m is there, and nothing after it.
ReleaseComplete(s) == s.stages = FenceStages /\ s.rec.state = "AMBIGUOUS"

\* The claim changes its status and nothing else.
ReleaseIsOneTransition(m, s, d) ==
    /\ s.authority = FencedAuthority(m.epoch)
    /\ d.authority = [s.authority EXCEPT !.claim = "RELEASED"]

\* The request, built again, is the one that was answered: after the fence.
PredecessorIsFence(m, d) == d.proof.request = ClassificationRequest(m)

\* The result is of the progress, of its record and of a receipt that may be.
ReleaseResultValid(m, s, d) ==
    /\ d.result = m /\ ReceiptTolerated(m, s.receipt)
    /\ s.intent = m.of /\ s.rec = Ambiguous(m.rec) /\ EpochAbandonable(m)

ReleaseProofValid(d) == ResultBound(d.proof) /\ EventBound(d.proof)

ReleaseEventsValid(s, d) ==
    d.events = <<d.proof.event, Event("release", s.authority.epoch)>>

\* _validate_recovery_abandonment_finalize_commit
ReleaseValid(m, s, d) ==
    /\ ReleaseComplete(s) /\ ReleaseIsOneTransition(m, s, d) /\ PredecessorIsFence(m, d)
    /\ ReleaseResultValid(m, s, d) /\ ReleaseProofValid(d) /\ ReleaseEventsValid(s, d)

-----------------------------------------------------------------------------
\* What an invocation makes of a snapshot.

\* The record is the one that the fence left, of the intent and of an epoch that
\* could be abandoned.
RecordExact(m, s) ==
    s.intent = m.of /\ s.rec = Ambiguous(m.rec) /\ EpochAbandonable(m)

\* The authority is the one that the fence wrote, released since or not.
AuthorityExact(m, s) ==
    /\ s.authority.epoch = FencedAuthority(m.epoch).epoch
    /\ s.authority.claim \in {"RELEASING", "RELEASED"}

\* _exact_progress
ProgressExact(m, s) ==
    RecordExact(m, s) /\ AuthorityExact(m, s) /\ ReceiptTolerated(m, s.receipt)

\* Without a result the chain ends with the fence.
StagesExact(s) ==
    s.stages = IF HasResult(s) THEN FenceStages \cup ReleaseStages ELSE FenceStages

\* _exact_result
ResultExact(m, s) == ProgressExact(m, s) /\ s.authority.claim = "RELEASED"

\* Whatever is stored of m is what m would have stored.
StoredExactly(m, s) ==
    /\ HasProgress(s) => ProgressExact(m, s) /\ StagesExact(s)
    /\ HasResult(s) => ResultExact(m, s)

\* _state_denial without progress
FenceDenial(m, s, born) ==
    IF s.authority.claim # "ACTIVE" THEN "CLAIM_NOT_ACTIVE"
    ELSE IF s.authority.epoch # m.epoch THEN "EPOCH_MISMATCH"
    ELSE IF s.intent # m.of THEN "INTENT_INVALID"
    ELSE IF ~Abandonable(s.rec) \/ s.rec # m.rec \/ ~EpochAbandonable(m)
    THEN "DISPATCH_INVALID"
    ELSE IF s.rec.expires > born THEN "DISPATCH_NOT_EXPIRED"
    ELSE IF s.receipt # NoReceipt THEN "RECEIPT_EXISTS"
    ELSE "none"

\* _state_denial with progress
ReleaseDenial(m, s) ==
    IF s.authority # FencedAuthority(m.epoch) \/ s.rec # Ambiguous(m.rec)
    THEN "TRUSTED_STATE_INVALID"
    ELSE IF ~ReceiptTolerated(m, s.receipt) THEN "RECEIPT_EXISTS"
    ELSE "none"

StateDenial(m, s, born) ==
    IF HasProgress(s) THEN ReleaseDenial(m, s) ELSE FenceDenial(m, s, born)

\* What a lost answer of a fence, or of a release, is resolved to.
Resolved(m, s, op) ==
    IF Torn(s) THEN "TRUSTED_STATE_INVALID"
    ELSE IF op = "fence"
    THEN IF ~HasProgress(s) THEN "OUTCOME_UNKNOWN"
         ELSE IF ProgressExact(m, s) /\ StagesExact(s) THEN "FENCED_RESET_REQUIRED"
         ELSE "TRUSTED_STATE_INVALID"
    ELSE IF ~HasResult(s) THEN "OUTCOME_UNKNOWN"
    ELSE IF StoredExactly(m, s) THEN "RELEASED"
    ELSE "TRUSTED_STATE_INVALID"
=============================================================================
