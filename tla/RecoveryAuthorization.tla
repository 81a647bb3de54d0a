------------------------ MODULE RecoveryAuthorization ------------------------
(***************************************************************************)
(* What entitles a root to be recovered: a verified APPLY_CANARY receipt,  *)
(* a trigger (a terminal unhealthy chain or an operator's revocation), the *)
(* one intent of the root, and the verifier's signed observation that the  *)
(* service still splits its traffic 90/10.                                 *)
(*                                                                         *)
(* A contract is a record of the fields that its validator compares; the   *)
(* root, its plan, target, revisions and keys are one fixed thing.         *)
(***************************************************************************)
EXTENDS Integers

CONSTANTS
    None,              \* no value
    Root,              \* the root: version, approved, etag, concurrency
    Receipt,           \* the APPLY_CANARY receipt: epoch, updated, etag, observed,
                       \* outcome, revision
    Unhealthy,         \* the terminal unhealthy chain: epoch, decided
    PrestateValidity,  \* RECOVERY_PRESTATE_VALIDITY_SECONDS
    MaxPrestate,       \* _MAX_PRESTATE_LIFETIME_SECONDS
    RecoveryMargin     \* MIN_RECOVERY_EXECUTION_MARGIN_SECONDS

ASSUME RecoveryConstants ==
    /\ PrestateValidity \in 1 .. MaxPrestate /\ RecoveryMargin \in Nat
    /\ Receipt.updated \in Nat /\ Unhealthy.decided \in Nat
    /\ Unhealthy.epoch = Receipt.epoch /\ Receipt.updated <= Unhealthy.decided

-----------------------------------------------------------------------------
\* Triggers and commands.

\* recovery_target_configuration_sha256: the configuration of a traffic split.
TargetConfiguration(stable, candidate) ==
    [root |-> Root, stable |-> stable, candidate |-> candidate]
Prestate == TargetConfiguration(90, 10)

\* RecoveryApplyReceiptLocatorV1, of a durable and verified APPLY receipt.
ReceiptLocatable(r) == r.outcome = "VERIFIED" /\ r.observed # None /\ r.revision >= 2
ReceiptLocator(r) == [epoch |-> r.epoch, etag |-> r.etag, revision |-> r.revision]

\* create_recovery_health_chain_locator
HealthChainLocator(chain) == [epoch |-> chain.epoch, decided |-> chain.decided]

\* UnhealthyRecoverySourceV1
UnhealthySource ==
    [basis |-> "UNHEALTHY_V3", epoch |-> HealthChainLocator(Unhealthy).epoch,
     previous |-> HealthChainLocator(Unhealthy).epoch,
     triggered |-> HealthChainLocator(Unhealthy).decided]

\* EpochRevocationProofV1: the authority is still the one that the revocation
\* left.
RevocationProofValid(revocation, authority) ==
    /\ authority.epoch = revocation.new /\ authority.changed = revocation.at
    /\ authority.cause = "OPERATOR_REVOCATION"

\* create_revoked_v3_recovery_source, of the proof of a committed revocation.
RevokedSource(revocation) ==
    [basis |-> "REVOKED_V3", epoch |-> revocation.new, previous |-> revocation.previous,
     triggered |-> revocation.at]

\* RevokedV3RecoverySourceV1: the proof is of the epoch it names.
RevokedSourceValid(s) == s.basis = "REVOKED_V3" /\ s.epoch = s.previous + 1

\* RecoveryCommandV2: the receipt is of the epoch that the trigger ended.
RecoveryCommandValid(m) ==
    /\ m.epoch = m.source.epoch /\ m.sched >= m.source.triggered
    /\ m.source = UnhealthySource \/ RevokedSourceValid(m.source)
    /\ m.receipt.epoch = m.source.previous

\* RecoveryIntentV1 of a command, created when it was triggered.
IntentOf(m) == [command |-> m, created |-> m.source.triggered]
IntentValid(i) ==
    /\ i.command.source.triggered <= i.created /\ i.created <= i.command.sched

\* RecoveryInvocationV2: only revoked roots are recovered on an operator's word.
InvocationValid(m) == m.source.basis = "REVOKED_V3"

-----------------------------------------------------------------------------
\* The observation of the service.

\* create_recovery_prestate_request at the time of the resolution.
PrestateRequest(m, at) == [command |-> m, requested |-> at, until |-> at + PrestateValidity]

\* RecoveryPrestateRequestV1
PrestateRequestValid(q) ==
    /\ q.command.source.triggered <= q.requested /\ q.requested <= q.command.sched
    /\ q.command.sched < q.until
    /\ q.until - q.requested \in 1 .. MaxPrestate

\* _prestate_matches: the service is settled and ready on the candidate's template
\* and both revisions are ready and configured as the root says.
PrestateMatches(service) ==
    /\ service.settled /\ service.traffic = <<90, 10>>
    /\ service.concurrency = Root.concurrency

\* create_recovery_prestate_result: an observed 90/10 split and its etag.
PrestateResult(q, etag, at) ==
    [request |-> q, observed |-> Prestate, etag |-> etag, retrieved |-> at]

\* RecoveryPrestateResultV1
PrestateResultValid(r) ==
    /\ r.observed = Prestate
    /\ r.request.requested <= r.retrieved /\ r.retrieved <= r.request.command.sched
    /\ r.request.command.sched < r.request.until

\* RecoveryPrestateSigningRequestV1, RecoveryPrestateAttestationV1: the evidence
\* writer signs this result and no other.
SigningRequest(r) == [result |-> r, purpose |-> "RECOVERY_PRESTATE_ATTESTATION"]
Attest(s) == [result |-> s.result, signed |-> s]
AttestationValid(a) == a.signed = SigningRequest(a.result) /\ PrestateResultValid(a.result)

-----------------------------------------------------------------------------
\* The authorization.

\* create_recovery_authorization
RecoveryAuthorizationOf(m, a) ==
    [req |-> m.req, key |-> m.key, sched |-> m.sched, epoch |-> m.epoch,
     source |-> m.source, receipt |-> m.receipt, attestation |-> a,
     etag |-> a.result.etag, issued |-> a.result.retrieved,
     until |-> a.result.request.until]

\* RecoveryAuthorizationV1
RecoveryAuthorizationValid(z) ==
    LET q == z.attestation.result.request IN
    /\ AttestationValid(z.attestation) /\ PrestateRequestValid(q)
    /\ z.epoch = q.command.epoch /\ z.source = q.command.source
    /\ z.req = q.command.req /\ z.key = q.command.key /\ z.sched = q.command.sched
    /\ z.receipt = q.command.receipt /\ z.etag = z.attestation.result.etag
    /\ z.issued = z.attestation.result.retrieved /\ z.until = q.until
    /\ z.issued <= z.sched /\ z.sched < z.until

\* RecoveryMutationIntentV2: the mutation that an authorization derives.
RecoveryMutation(z) ==
    [epoch |-> z.epoch, req |-> z.req, key |-> z.key, etag |-> z.etag,
     poststate |-> TargetConfiguration(100, 0), until |-> z.until]

\* The receipt that stands for the epoch that the trigger ended, by the time at.
ApplyReceiptValid(m, at) ==
    /\ ReceiptLocatable(Receipt) /\ ReceiptLocator(Receipt) = m.receipt
    /\ Receipt.epoch = m.source.previous /\ Receipt.etag = Root.etag
    /\ Receipt.updated <= at

\* The trigger, read again: the stored chain, or the revocation that made the
\* current epoch, committed after the canary was verified.
TriggerValid(m, authority) ==
    CASE m.source.basis = "UNHEALTHY_V3" ->
           Root.version = "V3" /\ m.source = UnhealthySource
      [] m.source.basis = "REVOKED_V3" ->
           /\ Root.version = "V3"
           /\ authority.epoch = m.source.epoch /\ authority.epoch - 1 = Receipt.epoch
           /\ authority.cause = "OPERATOR_REVOCATION"
           /\ m.source = RevokedSource([new |-> authority.epoch, at |-> authority.changed,
                                        previous |-> authority.epoch - 1])
           /\ Receipt.updated <= m.source.triggered

\* StoredRecoveryAuthorizationResolver._read_inputs: what the coordinator must
\* find, before the observation and once more after it.
ResolverInputs(m, authority, intent, at) ==
    /\ authority.claim = "ACTIVE" /\ authority.epoch = m.epoch
    /\ intent = IntentOf(m)
    /\ ApplyReceiptValid(m, at) /\ TriggerValid(m, authority)

\* _read_verified_recovery_inputs: what the issuer must find, twice as well; the
\* trusted state of the root is read apart.
IssuerInputs(m, z, authority, intent, at) ==
    /\ z.issued <= at /\ at <= z.sched /\ at < z.until
    /\ intent # None /\ intent.command = m
    /\ z = RecoveryAuthorizationOf(m, z.attestation)
    /\ ApplyReceiptValid(m, at) /\ z.attestation.result.retrieved = z.issued
    /\ TriggerValid(m, authority)
=============================================================================
