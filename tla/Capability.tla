----------------------------- MODULE Capability -----------------------------
(***************************************************************************)
(* Capabilities of a rollout root: what the issuer signs, what a task made *)
(* of one must look like, and what the executor accepts.                   *)
(*                                                                         *)
(* The issuer and the executor check a capability with code of their own   *)
(* against the same root.  A capability is its claims; the digest of a     *)
(* capability is its place in log, the sequence of claims the issuer       *)
(* signed, and 0 stands for no parent.  The root, its plan, target and     *)
(* revisions are one fixed thing, so a binding to them is the field root.  *)
(***************************************************************************)
EXTENDS RecoveryAuthorization, Sequences, SequencesExt

CONSTANTS
    Proof,        \* the HealthyPromotionProofV1: issued, until, etag
    Lifetime,     \* lifetime_seconds of the issuer
    MaxLifetime,  \* maximum_capability_lifetime_seconds of the root
    Margin,       \* MIN_PROMOTION_EXECUTION_MARGIN_SECONDS
    MaxDepth,     \* MAX_LINEAGE_DEPTH
    MaxDelay,     \* MAX_SCHEDULE_DELAY_SECONDS
    MaxAge        \* MAX_TASK_AGE_SECONDS

\* CapabilityIssuerConfiguration.__post_init__
IssuerConfigured == Lifetime \in 1 .. MaxLifetime

ASSUME CapabilityConstants ==
    /\ IssuerConfigured
    /\ MaxLifetime \in Nat /\ Margin \in Nat /\ MaxDepth \in Nat \ {0}
    /\ MaxDelay \in Nat /\ MaxAge \in Nat
    /\ Proof.issued \in Nat /\ Proof.until \in Nat /\ Proof.issued < Proof.until
    /\ Root.approved \in Nat

Least(a, b) == IF a < b THEN a ELSE b

-----------------------------------------------------------------------------
\* Claims and scopes.

Actions == {"APPLY_CANARY", "PROMOTE_CANDIDATE", "RECOVER_STABLE"}

\* _expected_traffic: the share of the candidate.
CandidateShare(action) ==
    CASE action = "APPLY_CANARY" -> 10
      [] action = "PROMOTE_CANDIDATE" -> 100
      [] action = "RECOVER_STABLE" -> 0

\* root_action_grant: what the root grants for an action, and to whom.
RootActionGrant(action) ==
    [action |-> action, share |-> CandidateShare(action),
     subject |-> IF action = "RECOVER_STABLE" THEN "recovery" ELSE "executor"]

\* CapabilityClaims.validate_claim_bindings
ClaimsValid(c) ==
    /\ c.share = CandidateShare(c.action)
    /\ c.issued <= c.nb /\ c.nb < c.exp
    /\ c.exp - c.issued <= MaxLifetime

\* capability_claims_match_root_authority
ClaimsMatchRoot(c) ==
    LET grant == RootActionGrant(c.action) IN
    /\ c.action = "APPLY_CANARY" => c.etag = Root.etag
    /\ c.root = Root
    /\ c.subject = grant.subject /\ c.share = grant.share
    /\ c.concurrency = IF c.action = "RECOVER_STABLE" THEN Root.concurrency ELSE None
    /\ c.issued >= Root.approved
    /\ c.issued <= c.nb /\ c.nb < c.exp
    /\ c.exp - c.issued <= MaxLifetime

\* IntegerBounds, TimeBounds: a pair whose order the constructor checks.
Bounds(low, high) == [low |-> low, high |-> high]
BoundsValid(b) == b.low >= 0 /\ b.low <= b.high
ValidityValid(b) == b.low >= 0 /\ b.low < b.high

\* IntegerBounds.is_within
Within(child, parent) == child.low >= parent.low /\ child.high <= parent.high

\* capability_scope_from_claims
ScopeOf(c) ==
    [root |-> c.root, epoch |-> c.epoch, etag |-> c.etag, req |-> c.req, key |-> c.key,
     callers |-> {c.subject}, actions |-> {c.action},
     traffic |-> Bounds(c.share, c.share),
     concurrency |-> LET n == IF c.concurrency = None THEN Root.concurrency
                              ELSE c.concurrency
                     IN Bounds(n, n),
     validity |-> Bounds(c.nb, c.exp)]

\* operator_lineage_anchor: the most that the root allows, for the request and
\* from the time of the first capability.
AnchorOf(first) ==
    LET grant == RootActionGrant(first.action) IN
    [root |-> Root, epoch |-> first.epoch,
     etag |-> IF first.action = "APPLY_CANARY" THEN Root.etag ELSE first.etag,
     req |-> first.req, key |-> first.key,
     callers |-> {grant.subject}, actions |-> {grant.action},
     traffic |-> Bounds(grant.share, grant.share),
     concurrency |-> Bounds(Root.concurrency, Root.concurrency),
     validity |-> Bounds(first.issued, first.issued + MaxLifetime)]

\* CapabilityScope.__post_init__
ScopeValid(s) ==
    /\ s.epoch >= 1
    /\ s.callers # {} /\ s.actions # {} /\ s.actions \subseteq Actions
    /\ BoundsValid(s.traffic) /\ s.traffic.high <= 100
    /\ BoundsValid(s.concurrency) /\ s.concurrency.low >= 1
    /\ ValidityValid(s.validity)

\* The checks of check_attenuation, in their order.
Attenuation(parent, child) ==
    << <<"LINEAGE_INVALID", child.root = parent.root>>,
       <<"EPOCH_MISMATCH", child.epoch = parent.epoch>>,
       <<"TARGET_BINDING_MISMATCH", child.etag = parent.etag>>,
       <<"CLAIM_BINDING_MISMATCH", child.req = parent.req /\ child.key = parent.key>>,
       <<"SCOPE_AMPLIFICATION",
           /\ child.callers \subseteq parent.callers
           /\ child.actions \subseteq parent.actions
           /\ Within(child.traffic, parent.traffic)
           /\ Within(child.concurrency, parent.concurrency)
           /\ Within(child.validity, parent.validity)>> >>

\* check_attenuation: the reason of the first check that fails.
CheckAttenuation(parent, child) ==
    LET checks == Attenuation(parent, child)
        failed == {i \in DOMAIN checks : ~checks[i][2]}
    IN IF failed = {} THEN "ALLOWED" ELSE checks[Min(failed)][1]

\* A CapabilityGrant of each capability of a lineage.
Grants(line) ==
    [i \in DOMAIN line |-> [digest |-> line[i].digest, parent |-> line[i].parent,
                            scope |-> ScopeOf(line[i])]]

\* validate_lineage: one chain from the anchor, each hop no wider than the one
\* before.  (A digest is never part of what it digests: there are no cycles.)
ValidateLineage(anchor, grants) ==
    LET ids == {grants[i].digest : i \in DOMAIN grants}
        above(i) == IF i = 1 THEN [digest |-> 0, scope |-> anchor] ELSE grants[i - 1]
        wrong == {i \in DOMAIN grants : grants[i].parent # above(i).digest}
        wide == {i \in DOMAIN grants :
                   CheckAttenuation(above(i).scope, grants[i].scope) # "ALLOWED"}
    IN IF grants = <<>> \/ Len(grants) > MaxDepth THEN "LINEAGE_INVALID"
       ELSE IF Len(grants) # Cardinality(ids) THEN "LINEAGE_INVALID"
       ELSE IF \E i \in DOMAIN grants : grants[i].parent \notin ids \cup {0}
       THEN "LINEAGE_INVALID"
       ELSE IF wrong \cup wide = {} THEN "ALLOWED"
       ELSE IF Min(wrong \cup wide) \in wrong THEN "LINEAGE_INVALID"
       ELSE LET i == Min(wide) IN CheckAttenuation(above(i).scope, grants[i].scope)

-----------------------------------------------------------------------------
\* What the issuer signs.

\* The claims of a signed capability with its digest, and its ancestors.
Digested(c, digest) ==
    [f \in DOMAIN c \cup {"digest"} |-> IF f = "digest" THEN digest ELSE c[f]]
SignedAt(log, i) == Digested(log[i], i)
Lineage(log) ==
    LET line[i \in 0 .. Len(log)] ==
          IF i = 0 THEN <<>> ELSE Append(line[log[i].parent], SignedAt(log, i))
    IN line

\* _resolve_lineage: what the lineage store has of a parent.
ResolveLineage(log, parent) ==
    IF parent = 0 \/ parent \notin DOMAIN log THEN <<>> ELSE Lineage(log)[parent]
LineageFits(line) == Len(line) < MaxDepth

\* Mutant: the age of the epoch is not looked at.
TrustedWhenever(authority, at) ==
    authority.claim = "ACTIVE" /\ Lifetime <= MaxLifetime /\ Root.approved <= at

\* _read_trusted_state: an active claim, and nothing newer than the capability.
TrustedState(authority, at) ==
    /\ authority.claim = "ACTIVE"
    /\ Lifetime <= MaxLifetime
    /\ Root.approved <= at /\ authority.changed <= at

\* _validate_expected_state
ExpectedState(authority, cmd) == authority.epoch = cmd.epoch

\* _validate_complete_lineage
CompleteLineage(line) ==
    /\ \A i \in DOMAIN line : ClaimsMatchRoot(line[i]) /\ ScopeValid(ScopeOf(line[i]))
    /\ ValidateLineage(AnchorOf(line[1]), Grants(line)) = "ALLOWED"

\* _validate_parent_lineage: every ancestor is of this tenure of the authority
\* and valid now, and each was issued while the one above it was.
ParentLineageValid(line, authority, at) ==
    /\ \A i \in DOMAIN line :
         /\ line[i].issued >= Root.approved /\ line[i].issued >= authority.changed
         /\ line[i].nb <= at /\ at < line[i].exp
         /\ i > 1 => line[i - 1].nb <= line[i].issued /\ line[i].issued < line[i - 1].exp
    /\ line # <<>> => CompleteLineage(line)

\* The expiry that the parent leaves to its child.
ParentExpiry(line, at) ==
    IF line = <<>> THEN at + Lifetime ELSE Least(at + Lifetime, Last(line).exp)

\* _build_claims: the identifier of a canary capability digests its claims, the
\* one of a promotion or a recovery only its authorization.
BuildClaims(cmd, authority, at, nb, exp, parent, etag, auth) ==
    LET grant == RootActionGrant(cmd.action) IN
    [action |-> cmd.action, root |-> Root, epoch |-> authority.epoch,
     subject |-> grant.subject, share |-> grant.share,
     concurrency |-> IF cmd.action = "RECOVER_STABLE" THEN Root.concurrency ELSE None,
     etag |-> etag, req |-> cmd.req, key |-> cmd.key,
     issued |-> at, nb |-> nb, exp |-> exp, parent |-> parent,
     id |-> IF auth = None
            THEN <<cmd.action, cmd.req, cmd.key, authority.epoch, at, exp, parent>>
            ELSE <<auth>>]

\* _issue_trusted: the claims are attenuated from the parent or the anchor, and
\* the signed capability completes a lineage.
IssueTrusted(log, line, c) ==
    /\ c.exp > c.issued /\ ClaimsValid(c)
    /\ LET above == IF line = <<>> THEN AnchorOf(c) ELSE ScopeOf(Last(line))
       IN CheckAttenuation(above, ScopeOf(c)) = "ALLOWED"
    /\ CompleteLineage(Append(line, Digested(c, Len(log) + 1)))

-----------------------------------------------------------------------------
\* Promotion authorizations.

\* verify_healthy_promotion_chain
ProofFresh(at) == Proof.issued <= at /\ at < Proof.until

\* create_promotion_authorization
CreateAuthorization(cmd) ==
    [req |-> cmd.req, key |-> cmd.key, sched |-> cmd.sched, epoch |-> cmd.epoch,
     etag |-> Proof.etag, issued |-> Proof.issued, until |-> Proof.until]

\* PromotionAuthorizationV1.validate_authorization
AuthorizationValid(a) ==
    /\ a.until = Proof.until /\ a.etag = Proof.etag
    /\ Proof.issued <= a.sched /\ a.sched < a.until

\* _read_verified_apply_receipt, which a promotion names.
PromotionReceiptValid(cmd, at) ==
    /\ ReceiptLocatable(Receipt) /\ Receipt.epoch = cmd.epoch
    /\ Receipt.etag = Root.etag /\ Receipt.updated <= at

\* issue_promotion, before it reads anything: the task must have its margin.
PromotionWindow(a, at) ==
    /\ at <= a.sched /\ a.issued <= at
    /\ Least(at + Lifetime, a.until) - a.sched >= Margin

\* _capability_matches_command
CapabilityMatches(c, cmd, a) ==
    /\ a = CreateAuthorization(cmd)
    /\ c.id = <<a>> /\ c.action = "PROMOTE_CANDIDATE" /\ c.concurrency = None
    /\ c.epoch = a.epoch /\ c.req = a.req /\ c.key = a.key /\ c.etag = a.etag
    /\ c.nb = a.sched /\ c.parent = 0
    /\ a.issued <= c.issued /\ c.issued <= c.nb /\ c.nb < c.exp /\ c.exp <= a.until

\* CapabilityIssuanceService.issue, the client and the coordinator: what comes
\* back is the canary capability that was asked for.
CanaryMatches(c, cmd) ==
    /\ c.action = "APPLY_CANARY" /\ c.concurrency = None
    /\ c.share = CandidateShare("APPLY_CANARY")
    /\ c.epoch = cmd.epoch /\ c.req = cmd.req /\ c.key = cmd.key

\* issue_recovery, before it reads anything: the margin counts from the time of
\* the observation, which is the capability's issued_at.
RecoveryWindow(z, at) ==
    /\ z.issued <= at /\ at <= z.sched
    /\ Least(z.issued + Lifetime, z.until) - z.sched >= RecoveryMargin

\* RecoveryCapabilityIssuanceResultV2
IssuanceResultValid(c, z) ==
    /\ c.id = <<z>> /\ c.action = "RECOVER_STABLE" /\ c.subject = "recovery"
    /\ c.epoch = z.epoch /\ c.req = z.req /\ c.key = z.key /\ c.etag = z.etag
    /\ c.share = 0 /\ c.concurrency = Root.concurrency /\ c.parent = 0
    /\ c.issued = z.issued /\ c.nb = z.sched
    /\ c.nb < c.exp /\ c.exp <= z.until /\ c.exp - c.issued <= MaxLifetime

\* _issuance_matches_command: the coordinator's own check of the answer.
IssuanceMatches(c, cmd, z) ==
    /\ z.source = cmd.source /\ z.receipt = cmd.receipt /\ z.sched = cmd.sched
    /\ z.epoch = cmd.epoch /\ z.req = cmd.req /\ z.key = cmd.key
    /\ c.action = "RECOVER_STABLE" /\ c.id = <<z>> /\ c.subject = "recovery"
    /\ c.epoch = z.epoch /\ c.req = z.req /\ c.key = z.key
    /\ c.concurrency = Root.concurrency /\ c.share = 0 /\ c.parent = 0

-----------------------------------------------------------------------------
\* Tasks.

\* The task of a capability with the signature sig, which no other signing of
\* the same claims repeats; auth is None for a canary.
TaskOf(digest, c, auth, sig) ==
    [digest |-> digest, cap |-> c, sched |-> c.nb, exp |-> c.exp, auth |-> auth,
     sig |-> sig]

\* TaskRequest.validate_task_bindings
TaskValid(t) == t.cap.nb <= t.sched /\ t.sched < t.exp /\ t.exp <= t.cap.exp

\* PromotionTaskRequestV2.validate_task_bindings
PromotionTaskValid(t) ==
    /\ t.cap.action = "PROMOTE_CANDIDATE" /\ t.cap.id = <<t.auth>>
    /\ t.cap.parent = 0 /\ t.cap.concurrency = None
    /\ t.cap.epoch = t.auth.epoch /\ t.cap.etag = t.auth.etag
    /\ t.cap.req = t.auth.req /\ t.cap.key = t.auth.key
    /\ t.cap.nb = t.auth.sched /\ t.sched = t.auth.sched
    /\ t.auth.issued <= t.cap.issued /\ t.cap.issued <= t.cap.nb
    /\ TaskValid(t) /\ t.cap.exp <= t.auth.until

\* RecoveryTaskRequestV2.validate_task
RecoveryTaskValid(t) ==
    /\ t.cap.action = "RECOVER_STABLE" /\ t.cap.id = <<t.auth>>
    /\ t.cap.subject = "recovery" /\ t.cap.parent = 0
    /\ t.cap.share = 0 /\ t.cap.concurrency = Root.concurrency
    /\ LET mutation == RecoveryMutation(t.auth) IN
       /\ t.cap.epoch = mutation.epoch /\ t.cap.etag = mutation.etag
       /\ t.cap.req = mutation.req /\ t.cap.key = mutation.key
    /\ t.cap.issued = t.auth.issued
    /\ t.cap.nb = t.auth.sched /\ t.sched = t.auth.sched
    /\ TaskValid(t) /\ t.cap.exp <= t.auth.until

\* _route_for_action
RouteFor(action) == IF action = "RECOVER_STABLE" THEN "recovery" ELSE "executor"

\* TaskAddressor.seal for the execution queue
Sealed(t, at) ==
    /\ t.cap.subject = RouteFor(t.cap.action)
    /\ t.exp > at /\ t.sched - at <= MaxDelay /\ t.exp - t.sched <= MaxAge

-----------------------------------------------------------------------------
\* What the verifiers of the executor and of the recovery service accept.

\* CapabilityVerifierConfiguration: the identity and the actions of a role.
VerifierOf(role) ==
    [subject |-> role,
     actions |-> IF role = "recovery" THEN {"RECOVER_STABLE"}
                 ELSE {"APPLY_CANARY", "PROMOTE_CANDIDATE"}]

\* _validate_time
TimeDenial(t, at) ==
    IF at < t.cap.nb \/ at < t.sched THEN "CAPABILITY_NOT_YET_VALID"
    ELSE IF \/ at >= t.cap.exp \/ at >= t.exp
            \/ t.auth # None /\ at >= t.auth.until
    THEN "CAPABILITY_EXPIRED"
    ELSE "ALLOWED"

\* _validate_route_and_identity, _validate_lineage_claim_identity
RouteAdmits(role, c) ==
    c.subject = VerifierOf(role).subject /\ c.action \in VerifierOf(role).actions

\* _validate_promotion_authorization
AuthorizationBound(t, at) ==
    /\ AuthorizationValid(t.auth)
    /\ t.auth.epoch = t.cap.epoch /\ t.auth.req = t.cap.req /\ t.auth.key = t.cap.key
    /\ t.auth.sched = t.sched /\ t.auth.sched = t.cap.nb
    /\ t.auth.etag = t.cap.etag /\ t.cap.id = <<t.auth>>
    /\ t.exp <= t.auth.until /\ at < t.auth.until

\* _validate_recovery_authorization
RecoveryBound(t, at) ==
    LET z == t.auth IN
    /\ RecoveryAuthorizationValid(z)
    /\ Root.version = "V3"
    /\ z.source.epoch = z.epoch /\ z.source.previous = z.receipt.epoch
    /\ z.epoch = t.cap.epoch /\ z.req = t.cap.req /\ z.key = t.cap.key
    /\ z.sched = t.sched /\ z.sched = t.cap.nb /\ z.etag = t.cap.etag
    /\ t.cap.id = <<z>> /\ t.cap.subject = "recovery"
    /\ t.cap.concurrency = Root.concurrency
    /\ t.exp <= z.until /\ at < z.until

\* The authorization that a task of its kind carries.
Bound(t, at) ==
    IF t.cap.action = "RECOVER_STABLE" THEN RecoveryBound(t, at) ELSE AuthorizationBound(t, at)

\* _validate_root_bindings
RootDenial(t, at) ==
    IF t.cap.root # Root THEN "LINEAGE_INVALID"
    ELSE IF t.cap.action = "APPLY_CANARY" /\ t.cap.etag # Root.etag
    THEN "TARGET_BINDING_MISMATCH"
    ELSE IF t.cap.action = "RECOVER_STABLE" /\ t.cap.concurrency # Root.concurrency
    THEN "TARGET_BINDING_MISMATCH"
    ELSE IF \/ t.cap.action # "RECOVER_STABLE" /\ t.cap.concurrency # None
            \/ ~ClaimsMatchRoot(t.cap)
    THEN "CLAIM_BINDING_MISMATCH"
    ELSE IF Root.approved > at \/ t.cap.issued < Root.approved THEN "LINEAGE_INVALID"
    ELSE IF t.auth # None /\ ~Bound(t, at) THEN "CLAIM_BINDING_MISMATCH"
    ELSE "ALLOWED"

\* _read_ancestors
AncestorsRead(log, t) ==
    LET line == ResolveLineage(log, t.cap.parent) IN
    \/ t.cap.parent = 0
    \/ /\ line # <<>> /\ Len(line) < MaxDepth
       /\ Last(line).digest = t.cap.parent

\* Mutant: a child issued in the second of its parent is refused.
HopLate(line, i) == line[i - 1].nb < line[i].issued /\ line[i].issued < line[i - 1].exp

\* A capability was issued while the one above it was valid.
HopValid(line, i) == line[i - 1].nb <= line[i].issued /\ line[i].issued < line[i - 1].exp

\* _validate_lineage
LineageDenial(role, line, at) ==
    LET ids == {line[i].id : i \in DOMAIN line} IN
    IF line = <<>> \/ Len(line) > MaxDepth THEN "LINEAGE_INVALID"
    ELSE IF \E i \in DOMAIN line : ~RouteAdmits(role, line[i]) THEN "CLAIM_BINDING_MISMATCH"
    ELSE IF \E i \in DOMAIN line : line[i].issued < Root.approved THEN "LINEAGE_INVALID"
    ELSE IF \E i \in DOMAIN line : ~ClaimsMatchRoot(line[i]) THEN "SCOPE_AMPLIFICATION"
    ELSE IF \E i \in DOMAIN line : at < line[i].nb THEN "CAPABILITY_NOT_YET_VALID"
    ELSE IF \E i \in DOMAIN line : at >= line[i].exp THEN "CAPABILITY_EXPIRED"
    ELSE IF \E i \in 2 .. Len(line) : ~HopValid(line, i) THEN "LINEAGE_INVALID"
    ELSE IF Cardinality(ids) # Len(line) THEN "LINEAGE_INVALID"
    ELSE ValidateLineage(AnchorOf(line[1]), Grants(line))

\* _verify_recovery_prestate: the observation is the one that was signed.
PrestateVerified(t) ==
    t.cap.action = "RECOVER_STABLE" => AttestationValid(t.auth.attestation)

\* _decode_protected_request: a plain task only applies a canary.
Decodes(t) == (t.auth = None) = (t.cap.action = "APPLY_CANARY")

\* CapabilityVerifier.verify of a task signed by the issuer, where it is sent.
Verify(log, t, at) ==
    LET role == RouteFor(t.cap.action) IN
    IF ~Decodes(t) THEN "CLAIM_BINDING_MISMATCH"
    ELSE IF TimeDenial(t, at) # "ALLOWED" THEN TimeDenial(t, at)
    ELSE IF ~RouteAdmits(role, t.cap) THEN "CLAIM_BINDING_MISMATCH"
    ELSE IF RootDenial(t, at) # "ALLOWED" THEN RootDenial(t, at)
    ELSE IF ~PrestateVerified(t) THEN "SIGNATURE_INVALID"
    ELSE IF ~AncestorsRead(log, t) THEN "LINEAGE_INVALID"
    ELSE LineageDenial(role, Append(ResolveLineage(log, t.cap.parent),
                                    Digested(t.cap, t.digest)), at)
=============================================================================
