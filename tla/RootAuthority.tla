---------------------------- MODULE RootAuthority ----------------------------
(***************************************************************************)
(* Who owns the service: creation of rollout roots, revocation of epochs   *)
(* and release of the service claim, by calls that run concurrently on     *)
(* one transactional store.                                                *)
(*                                                                         *)
(* Every call reads a consistent snapshot, decides, builds and signs its   *)
(* documents outside the store, and commits them in a transaction that     *)
(* compares the snapshot again.  The transaction is shielded: when its     *)
(* caller stops waiting it may still land (late), after the caller has     *)
(* read back, looped, recorded a denial or answered.  A retry is another   *)
(* call of the same command.                                               *)
(*                                                                         *)
(* One action per awaited call that reads or writes shared state.  Roots   *)
(* are numbered by tenure: a root id is content-addressed, and the claim   *)
(* revision is 3 (root - 1) + 0, 1 or 2 for ACTIVE, RELEASING, RELEASED.   *)
(* The clock of every document is one clock, so time comparisons hold.     *)
(* A request id and an idempotency key are one identity.                   *)
(***************************************************************************)
EXTENDS AuthorityDocuments, FiniteSets

CONSTANTS
    Call,         \* invocations the operator makes, retries included
    Command,      \* the commands they carry
    MaxAttempts,  \* MAX_REVOCATION_COMMIT_ATTEMPTS and its release twin
    MaxRoots,     \* bound on the calls that create roots, so on the roots
    MaxVersion,   \* bound on the versions of the service
    MaxFaults     \* bound on lost answers, failed calls and crashes

Root == 1..MaxRoots
Traffic == {"STABLE", "CANARY", "CANDIDATE"}
Actions == {"APPLY_CANARY", "PROMOTE_CANDIDATE", "RECOVER_STABLE"}
Kinds == {"CREATE", "REVOKE", "RELEASE", "STRANDED"}

ASSUME RootConstants ==
    /\ MaxAttempts \in Nat /\ MaxRoots \in Nat
    /\ MaxVersion \in Nat /\ MaxFaults \in Nat
    /\ NoCommand \notin Command
    /\ \A m \in Command :
          /\ m.kind \in Kinds
          /\ m.root \in Nat /\ m.epoch \in Nat /\ m.snapshot \in Nat
          /\ m.action \in Actions

VARIABLES
    claim,     \* the ServiceClaimRecord of the target
    epoch,     \* current_epoch of each root, 0 before it exists
    head,      \* sequence of each root's EvidenceChainHead
    events,    \* the signed evidence events
    creator,   \* the command in each root's RootCreationResult
    progress,  \* commands with a ServiceClaimReleaseProgress
    done,      \* commands with a revocation or release result
    audit,     \* EpochRevocationAudit of each attempt
    verified,  \* VERIFIED receipts of each root
    service,   \* version and traffic of the Cloud Run service
    call,      \* the local state of each invocation
    late,      \* transactions whose callers stopped waiting
    faults     \* how many faults happened so far

store == <<claim, epoch, head, events, creator, progress, done, audit>>
world == <<verified, service>>
vars == <<claim, epoch, head, events, creator, progress, done, audit, verified,
          service, call, late, faults>>

NoClaim == [root |-> 0, status |-> "NONE", owner |-> NoCommand, fence |-> NoCommand]
NoSnap == [claim |-> NoClaim, epoch |-> 0, head |-> 0, receipt |-> 0, seen |-> Unseen]
Idle == [pc |-> "idle", cmd |-> NoCommand, tries |-> 0, snap |-> NoSnap,
         op |-> "none", code |-> "none"]

Init ==
    /\ claim = NoClaim
    /\ epoch = [r \in Root |-> 0] /\ head = [r \in Root |-> 0]
    /\ events = {} /\ creator = [r \in Root |-> NoCommand]
    /\ progress = {} /\ done = {} /\ audit = [c \in Call |-> "NONE"]
    /\ verified = [r \in Root |-> {}]
    /\ service = [version |-> 1, traffic |-> "STABLE"]
    /\ call = [c \in Call |-> Idle]
    /\ late = {} /\ faults = 0

-----------------------------------------------------------------------------
\* Local states.

Cmd(c) == call[c].cmd
Go(c, next) == call' = [call EXCEPT ![c] = next]
Answered(c, code) == [Idle EXCEPT !.pc = "done", !.cmd = Cmd(c), !.code = code]
At(c, pc) == [call[c] EXCEPT !.pc = pc, !.snap = NoSnap, !.op = "none"]
Again(c) == [At(c, "read") EXCEPT !.tries = @ + 1]
Denied(c, code) == [At(c, "audit") EXCEPT !.code = code]
Building(c, op, snap) == [call[c] EXCEPT !.pc = "commit", !.op = op, !.snap = snap]
Fault == /\ faults < MaxFaults /\ faults' = faults + 1
NoFault == UNCHANGED faults

\* The terminal receipt that a release names: its epoch, 0 if there is none.
TerminalReceipt(m) ==
    LET mine == {v \in verified[m.root] : v.action = m.action} IN
    IF mine = {} THEN 0 ELSE (CHOOSE v \in mine : TRUE).epoch

\* What one consistent read of the root of a command returns: a revocation's
\* is of the authority, a release's is also of the terminal receipt.
RevocationSnapshot(m) == [claim |-> claim, epoch |-> epoch[m.root],
                          head |-> head[m.root], receipt |-> 0, seen |-> Unseen]
ReleaseSnapshot(m) == [RevocationSnapshot(m) EXCEPT !.receipt = TerminalReceipt(m)]

RootExists(m) == m.root \in Root /\ epoch[m.root] > 0

\* The root, its authority and its creation result exist together, and the
\* claim, if it is about the root, is the one the creation won.
BundleCoherent(m) ==
    /\ creator[m.root] # NoCommand
    /\ claim.root = m.root => ClaimMatchesRoot(claim, creator[m.root])

\* inspect_root_authority_bundle: the claim is still about the root.
Trusted(m) == RootExists(m) /\ claim.root = m.root /\ BundleCoherent(m)

Releases == {"RELEASE", "STRANDED"}

\* The commands whose identity documents are those of m, in either family.
RevocationHolders(m) == {n \in done : n.kind = "REVOKE" /\ n.id = m.id}
ReleaseHolders(m) == {n \in progress \cup done : n.kind \in Releases /\ n.id = m.id}

\* The identity of m was used by another command.
Taken(m) ==
    \E n \in IF m.kind = "REVOKE" THEN RevocationHolders(m) ELSE ReleaseHolders(m) : n # m

\* The evidence that the calls of the command m have stored, by kind.
StageEvidence(m, kind) ==
    {e \in events : e.root = m.root /\ e.kind = kind /\ Cmd(e.by) = m}

-----------------------------------------------------------------------------
\* Root creation.

Creating == {c \in Call : call[c] # Idle /\ Cmd(c).kind = "CREATE"}

Begin(c, m) ==
    /\ call[c] = Idle
    /\ m.kind = "CREATE" => Cardinality(Creating) < MaxRoots
    /\ Go(c, [Idle EXCEPT !.cmd = m, !.pc = IF m.kind = "CREATE" THEN "claim" ELSE "read"])
    /\ UNCHANGED <<store, world, late>> /\ NoFault

\* The operator is not the configured one or its token has expired: a
\* revocation records that, too.
Unauthorized(c, m) ==
    /\ call[c] = Idle
    /\ Go(c, [Idle EXCEPT !.cmd = m, !.code = "CALLER_DENIED",
                          !.pc = IF m.kind = "REVOKE" THEN "audit" ELSE "done"])
    /\ UNCHANGED <<store, world, late>> /\ Fault

\* _existing_claim: free or released goes on, an active claim of this request
\* is adopted after a second read, anything else is a conflict.  After a lost
\* race ("raced") only adoption is left.
ReadClaim(c) ==
    /\ call[c].pc \in {"claim", "raced"}
    /\ Go(c, IF claim.status = "ACTIVE" /\ claim.owner.id = Cmd(c).id
             THEN [At(c, "bundle") EXCEPT !.snap.claim = claim]
             ELSE IF claim.status \in {"NONE", "RELEASED"} /\ call[c].pc = "claim"
             THEN [At(c, "preflight") EXCEPT !.snap.claim = claim]
             ELSE Answered(c, "ACTIVE_CLAIM_CONFLICT"))
    /\ UNCHANGED <<store, world, late>> /\ NoFault

\* The bundle is read for the root the claim named; it must still be whole and
\* its winner must be exactly this command.
ReadBundle(c) ==
    /\ call[c].pc = "bundle"
    /\ LET r == call[c].snap.claim.root IN
       Go(c, Answered(c, IF claim.root # r THEN "TRUSTED_STATE_INVALID"
                         ELSE IF creator[r] = Cmd(c) THEN "OK"
                         ELSE "ACTIVE_CLAIM_CONFLICT"))
    /\ UNCHANGED <<store, world, late>> /\ NoFault

\* Mutant: the preflight accepts any stable service, whatever its version.
PreflightAnyVersion(c) ==
    /\ call[c].pc = "preflight"
    /\ Go(c, IF service.traffic = "STABLE"
             THEN Building(c, "create", call[c].snap)
             ELSE Answered(c, "PREFLIGHT_DENIED"))
    /\ UNCHANGED <<store, world, late>> /\ NoFault

\* The executor observes the service; it must be the stable snapshot that the
\* command names, etag and generation included.
Preflight(c) ==
    /\ call[c].pc = "preflight"
    /\ Go(c, IF service = [version |-> Cmd(c).snapshot, traffic |-> "STABLE"]
             THEN Building(c, "create", call[c].snap)
             ELSE Answered(c, "PREFLIGHT_DENIED"))
    /\ UNCHANGED <<store, world, late>> /\ NoFault

-----------------------------------------------------------------------------
\* Epoch revocation.

\* _state_denial of revocation.py.
RevocationDenial(m) ==
    IF Taken(m) THEN "IDENTITY_CONFLICT"
    ELSE IF ~RootExists(m) THEN "ROOT_NOT_FOUND"
    ELSE IF ~Trusted(m) THEN "TRUSTED_STATE_INVALID"
    ELSE IF claim.status # "ACTIVE" THEN "ACTIVE_CLAIM_REQUIRED"
    ELSE IF epoch[m.root] # m.epoch THEN "EPOCH_MISMATCH"
    ELSE "none"

\* The event of the result is in the chain, and at its head if its number is.
RevocationEvidenceExact(m) ==
    \E e \in StageEvidence(m, "EPOCH_ADVANCED") :
        e.epoch = m.epoch + 1 /\ e.seq \in 1..head[m.root]

\* _exact_result of revocation.py: the stored result is whole and the authority
\* has not fallen behind it.
StoredRevocation(m) ==
    /\ Trusted(m) /\ epoch[m.root] >= m.epoch + 1
    /\ RevocationEvidenceExact(m)

\* _validated_attempt_audit and _successful_audit_matches: an attempt whose
\* audit says COMMITTED wrote the event of the result itself.
AttemptSucceeded(c) ==
    \/ audit[c] = "ADOPTED"
    \/ /\ audit[c] = "COMMITTED"
       /\ \E e \in StageEvidence(Cmd(c), "EPOCH_ADVANCED") : e.by = c

\* One turn of _revoke_locked: the stored result first (own, then adopted),
\* then a durable denial, then the commit; after the last attempt the result
\* only.
ReadRevocation(c) ==
    /\ call[c].pc = "read" /\ Cmd(c).kind = "REVOKE"
    /\ LET m == Cmd(c) IN
       Go(c, IF m \in done /\ ~StoredRevocation(m) THEN Answered(c, "TRUSTED_STATE_INVALID")
             ELSE IF m \in done /\ AttemptSucceeded(c) THEN At(c, "classify")
             ELSE IF m \in done THEN Denied(c, "ADOPTED")
             ELSE IF call[c].tries = MaxAttempts THEN Answered(c, "STORE_UNAVAILABLE")
             ELSE IF RevocationDenial(m) # "none"
             THEN Denied(c, RevocationDenial(m))
             ELSE Building(c, "revoke", RevocationSnapshot(m)))
    /\ UNCHANGED <<store, world, late>> /\ NoFault

\* _record_audit: one immutable record per attempt, then the answer.
RecordAudit(c) ==
    /\ call[c].pc = "audit"
    /\ IF audit[c] = "NONE"
       THEN /\ audit' = [audit EXCEPT ![c] =
                           IF call[c].code = "ADOPTED" THEN "ADOPTED" ELSE "DENIED"]
            /\ Go(c, IF call[c].code = "ADOPTED"
                     THEN [At(c, "classify") EXCEPT !.code = "none"]
                     ELSE Answered(c, call[c].code))
       ELSE /\ Go(c, Answered(c, "TRUSTED_STATE_INVALID")) /\ UNCHANGED audit
    /\ UNCHANGED <<claim, epoch, head, events, creator, progress, done, world, late>>
    /\ NoFault

\* The audit's answer is lost; the audit itself may be stored.
AuditLost(c) ==
    /\ call[c].pc = "audit"
    /\ \/ UNCHANGED audit
       \/ /\ audit[c] = "NONE"
          /\ audit' = [audit EXCEPT ![c] =
                         IF call[c].code = "ADOPTED" THEN "ADOPTED" ELSE "DENIED"]
    /\ Go(c, Answered(c, "STORE_UNAVAILABLE"))
    /\ UNCHANGED <<claim, epoch, head, events, creator, progress, done, world, late>>
    /\ Fault

\* _classify_committed: the committed revocation is read again, verified and
\* classified; when that fails the call does not know, although it committed.
ClassifyCommitted(c) ==
    /\ call[c].pc = "classify"
    /\ \/ /\ Trusted(Cmd(c)) /\ Go(c, Answered(c, "OK")) /\ NoFault
       \/ /\ ~Trusted(Cmd(c)) /\ Go(c, Answered(c, "OUTCOME_UNKNOWN")) /\ NoFault
       \/ /\ Go(c, Answered(c, "OUTCOME_UNKNOWN")) /\ Fault
    /\ UNCHANGED <<store, world, late>>

-----------------------------------------------------------------------------
\* Service claim release.

\* _terminal_receipt_is_exact.
ReceiptIsExact(m) ==
    \E v \in verified[m.root] :
        /\ v.action = m.action
        /\ IF m.kind = "STRANDED" THEN v.epoch = m.epoch
           ELSE v.epoch <= epoch[m.root]

\* _immediate_head_successor: the fence event of m is the head of the chain, or
\* the event before it.
FenceIsHead(m) ==
    \E e \in StageEvidence(m, "EPOCH_ADVANCED") :
        e.epoch = m.epoch + 1 /\ head[m.root] \in {e.seq, e.seq + 1}

\* The two events of the fence: the terminal one, of the epoch of the receipt,
\* and right after it the advance of the epoch.
ProgressEvidenceExact(m) ==
    \E t \in StageEvidence(m, "TERMINAL"), f \in StageEvidence(m, "EPOCH_ADVANCED") :
        f.seq = t.seq + 1 /\ t.epoch = TerminalReceipt(m) /\ f.epoch = m.epoch + 1

\* _exact_progress, and what _state_denial asks of it.
ProgressIsExact(m) ==
    /\ claim.status = "RELEASING" /\ claim.fence = m
    /\ epoch[m.root] = m.epoch + 1
    /\ ReceiptIsExact(m) /\ ProgressEvidenceExact(m) /\ FenceIsHead(m)

\* _exact_result of service_claim_release.py: the claim is the one that the
\* release of m wrote.
ReleaseResultExact(m) == m \in progress /\ claim.status = "RELEASED" /\ claim.fence = m

\* An authority past the fence is a revocation's, right after the release.
LaterAuthority(m, e) ==
    /\ epoch[m.root] = m.epoch + 2
    /\ \E f \in events : /\ f.root = m.root /\ f.kind = "EPOCH_ADVANCED"
                          /\ f.seq = e.seq + 1 /\ f.epoch = m.epoch + 2

\* The classification and the release are neighbours in the chain and the
\* release is its head, or the event before it.
ReleaseEvidenceExact(m) ==
    \E k \in StageEvidence(m, "CLASSIFIED"), e \in StageEvidence(m, "RELEASED") :
        /\ e.seq = k.seq + 1 /\ k.epoch = m.epoch + 1 /\ e.epoch = m.epoch + 1
        /\ head[m.root] \in {e.seq, e.seq + 1}
        /\ epoch[m.root] = m.epoch + 1 \/ LaterAuthority(m, e)

StoredRelease(m) ==
    /\ Trusted(m) /\ ReleaseResultExact(m)
    /\ ProgressEvidenceExact(m) /\ ReleaseEvidenceExact(m)

\* _state_denial of service_claim_release.py, with and without progress.
ReleaseDenial(m) ==
    IF ~RootExists(m) THEN "ROOT_NOT_FOUND"
    ELSE IF ~Trusted(m) THEN "TRUSTED_STATE_INVALID"
    ELSE IF m \in progress
    THEN IF ProgressIsExact(m) THEN "none" ELSE "TRUSTED_STATE_INVALID"
    ELSE IF Taken(m) THEN "IDENTITY_CONFLICT"
    ELSE IF claim.status # "ACTIVE" THEN "CLAIM_NOT_ACTIVE"
    ELSE IF epoch[m.root] # m.epoch THEN "EPOCH_MISMATCH"
    ELSE IF ~ReceiptIsExact(m) THEN "TERMINAL_RECEIPT_INVALID"
    ELSE "none"

\* Mutant: the status of the claim is checked before the progress is read.
StatusFirst(c) ==
    /\ call[c].pc = "read" /\ Cmd(c).kind \in Releases
    /\ LET m == Cmd(c) IN
       Go(c, IF m \in done
             THEN Answered(c, IF StoredRelease(m) THEN "OK" ELSE "TRUSTED_STATE_INVALID")
             ELSE IF call[c].tries = MaxAttempts THEN Answered(c, "STORE_UNAVAILABLE")
             ELSE IF claim.status = "RELEASING" THEN Answered(c, "CLAIM_NOT_ACTIVE")
             ELSE IF ReleaseDenial(m) # "none" THEN Answered(c, ReleaseDenial(m))
             ELSE Building(c, "fence", ReleaseSnapshot(m)))
    /\ UNCHANGED <<store, world, late>> /\ NoFault

\* One turn of _release_locked: the stored result, then a denial, then the
\* fence, or the classification once the fence is there.
ReadRelease(c) ==
    /\ call[c].pc = "read" /\ Cmd(c).kind \in Releases
    /\ LET m == Cmd(c) IN
       Go(c, IF m \in done
             THEN Answered(c, IF StoredRelease(m) THEN "OK" ELSE "TRUSTED_STATE_INVALID")
             ELSE IF call[c].tries = MaxAttempts THEN Answered(c, "STORE_UNAVAILABLE")
             ELSE IF ReleaseDenial(m) # "none" THEN Answered(c, ReleaseDenial(m))
             ELSE IF m \in progress
             THEN [At(c, "target") EXCEPT !.snap = ReleaseSnapshot(m)]
             ELSE Building(c, "fence", ReleaseSnapshot(m)))
    /\ UNCHANGED <<store, world, late>> /\ NoFault

\* The classification client observes the service after the fence: it must be
\* past the root's baseline and at the configuration the terminal state names.
ClassifyTarget(c) ==
    /\ call[c].pc = "target"
    /\ LET q == ClassificationRequest(Cmd(c), call[c].snap)
       IN  Go(c, IF Accepts(q, Attestation(q, service))
                 THEN Building(c, "finalize", [call[c].snap EXCEPT !.seen = service])
                 ELSE Answered(c, "CLASSIFICATION_DENIED"))
    /\ UNCHANGED <<store, world, late>> /\ NoFault

-----------------------------------------------------------------------------
\* Transactions.  o is the transaction of call o.by: it compares the snapshot
\* that its documents were built from and writes them all, or nothing.

Tx(c) == [by |-> c, cmd |-> Cmd(c), op |-> call[c].op, snap |-> call[c].snap]

\* Appended(o, r, s) adds the events s, records of kind and epoch, to the
\* chain of r after the head of the snapshot.
Appended(o, r, s) ==
    /\ events' = events \cup {[root |-> r, seq |-> o.snap.head + i, kind |-> s[i].kind,
                               epoch |-> s[i].epoch, by |-> o.by] : i \in DOMAIN s}
    /\ head' = [head EXCEPT ![r] = o.snap.head + Len(s)]

\* The receipt is still the one that the commit was built on, and so is the
\* evidence of the fence.
SameReceipt(o) == TerminalReceipt(o.cmd) = o.snap.receipt
SameStages(o) ==
    /\ StageEvidence(o.cmd, "TERMINAL") # {}
    /\ StageEvidence(o.cmd, "CLASSIFIED") = {} /\ StageEvidence(o.cmd, "RELEASED") = {}

\* Mutant: the claim stands for the whole root.
SameClaim(o) == claim = o.snap.claim

SameRoot(o) ==
    /\ claim = o.snap.claim
    /\ epoch[o.cmd.root] = o.snap.epoch
    /\ head[o.cmd.root] = o.snap.head

EpochClaimed(m) == \E n \in done : n.kind = "REVOKE" /\ n.root = m.root /\ n.epoch = m.epoch

CreateMatches(o) == o.op = "create" /\ claim = o.snap.claim

\* Mutant: the identity documents stand for the whole root.
RevocationByIdentity(o) ==
    /\ o.op = "revoke"
    /\ o.cmd \notin done /\ ~Taken(o.cmd) /\ ~EpochClaimed(o.cmd)
    /\ audit[o.by] = "NONE"

RevocationMatches(o) ==
    /\ o.op = "revoke" /\ SameRoot(o)
    /\ o.cmd \notin done /\ ~Taken(o.cmd) /\ ~EpochClaimed(o.cmd)
    /\ audit[o.by] = "NONE"

FenceMatches(o) ==
    /\ o.op = "fence" /\ SameRoot(o)
    /\ o.cmd \notin progress \cup done /\ ~Taken(o.cmd)
    /\ SameReceipt(o)

ReleaseMatches(o) ==
    /\ o.op = "finalize" /\ SameRoot(o)
    /\ o.cmd \in progress \ done
    /\ SameReceipt(o) /\ SameStages(o)

\* The documents are checked before the transaction starts.
Matches(o) ==
    /\ CommitValid(o)
    /\ CreateMatches(o) \/ RevocationMatches(o) \/ FenceMatches(o) \/ ReleaseMatches(o)

\* create_or_adopt_root_creation_bundle
WriteRoot(o) ==
    LET r == o.snap.claim.root + 1 IN
    /\ o.op = "create" /\ r \in Root
    /\ claim' = CreatedClaim(o)
    /\ epoch' = [epoch EXCEPT ![r] = 1]
    /\ Appended(o, r, <<Event("ROOT_CREATED", 1)>>)
    /\ creator' = [creator EXCEPT ![r] = o.cmd]
    /\ UNCHANGED <<progress, done, audit>>

\* commit_epoch_revocation
WriteRevocation(o) ==
    LET r == o.cmd.root IN
    /\ o.op = "revoke"
    /\ epoch' = [epoch EXCEPT ![r] = o.snap.epoch + 1]
    /\ Appended(o, r, <<Event("EPOCH_ADVANCED", o.snap.epoch + 1)>>)
    /\ done' = done \cup {o.cmd}
    /\ audit' = [audit EXCEPT ![o.by] = "COMMITTED"]
    /\ UNCHANGED <<claim, creator, progress>>

\* Mutant: the fence leaves the epoch open.
FenceKeepsEpoch(o) ==
    LET r == o.cmd.root IN
    /\ o.op = "fence"
    /\ claim' = [o.snap.claim EXCEPT !.status = "RELEASING", !.fence = o.cmd]
    /\ Appended(o, r, <<Event("TERMINAL", o.cmd.epoch)>>)
    /\ progress' = progress \cup {o.cmd}
    /\ UNCHANGED <<epoch, creator, done, audit>>

\* commit_service_claim_fence
WriteFence(o) ==
    LET r == o.cmd.root IN
    /\ o.op = "fence"
    /\ claim' = [o.snap.claim EXCEPT !.status = "RELEASING", !.fence = o.cmd]
    /\ epoch' = [epoch EXCEPT ![r] = o.snap.epoch + 1]
    /\ Appended(o, r, FenceEvents(o))
    /\ progress' = progress \cup {o.cmd}
    /\ UNCHANGED <<creator, done, audit>>

\* commit_service_claim_release
WriteRelease(o) ==
    LET r == o.cmd.root IN
    /\ o.op = "finalize"
    /\ claim' = [o.snap.claim EXCEPT !.status = "RELEASED"]
    /\ Appended(o, r, ReleaseEvents(o))
    /\ done' = done \cup {o.cmd}
    /\ UNCHANGED <<epoch, creator, progress, audit>>

Commit(o) ==
    /\ Matches(o)
    /\ WriteRoot(o) \/ WriteRevocation(o) \/ WriteFence(o) \/ WriteRelease(o)

-----------------------------------------------------------------------------
\* What follows a transaction.

Succeeded(c) ==
    IF call[c].op = "fence" THEN Again(c)
    ELSE IF call[c].op = "revoke" THEN At(c, "classify")
    ELSE Answered(c, "OK")

Conflicted(c) ==
    IF call[c].op = "create" THEN [call[c] EXCEPT !.pc = "adopt"] ELSE Again(c)

Unresolved(c) ==
    IF call[c].op = "create" THEN Answered(c, "OUTCOME_UNKNOWN")
    ELSE [At(c, "resolve") EXCEPT !.op = call[c].op]

CommitConfirmed(c) ==
    /\ call[c].pc = "commit" /\ Commit(Tx(c)) /\ Go(c, Succeeded(c))
    /\ UNCHANGED <<world, late>> /\ NoFault

\* Mutant: retried on the old snapshot, and not counted.
RetryStale(c) ==
    /\ call[c].pc = "commit" /\ ~Matches(Tx(c))
    /\ Go(c, IF call[c].op = "create" THEN Conflicted(c) ELSE call[c])
    /\ UNCHANGED <<store, world, late>> /\ NoFault

CommitRefused(c) ==
    /\ call[c].pc = "commit" /\ ~Matches(Tx(c))
    /\ Go(c, IF CommitValid(Tx(c)) THEN Conflicted(c)
             ELSE Answered(c, "TRUSTED_STATE_INVALID"))
    /\ UNCHANGED <<store, world, late>> /\ NoFault

\* Contention that outlasts the client's attempts looks the same, also when
\* the client retried a commit of its own that had landed.
CommitContended(c) ==
    /\ call[c].pc = "commit" /\ Go(c, Conflicted(c))
    /\ Commit(Tx(c)) \/ UNCHANGED store
    /\ UNCHANGED <<world, late>> /\ Fault

\* The caller stops waiting; the shielded transaction goes on.
CommitTimesOut(c) ==
    /\ call[c].pc = "commit" /\ Go(c, [call[c] EXCEPT !.pc = "readback"])
    /\ late' = late \cup {Tx(c)}
    /\ UNCHANGED <<store, world>> /\ Fault

Land(o) ==
    /\ Commit(o) /\ late' = late \ {o}
    /\ UNCHANGED <<world, call>> /\ NoFault

\* Mutant: the revision of a document stands for its content.
SameRevisions(o) ==
    \/ /\ o.op = "create" /\ claim.root = o.snap.claim.root + 1
       /\ claim.status = "ACTIVE"
    \/ /\ o.op # "create" /\ epoch[o.cmd.root] = o.snap.epoch + 1

\* The documents of each commit, as they were to be written.
RootStored(o) ==
    /\ claim.root = o.snap.claim.root + 1
    /\ claim.status = "ACTIVE" /\ claim.owner = o.cmd /\ epoch[claim.root] = 1
RevocationStored(o) ==
    /\ audit[o.by] = "COMMITTED"
    /\ epoch[o.cmd.root] = o.snap.epoch + 1 /\ head[o.cmd.root] = o.snap.head + 1
FenceStored(o) == o.cmd \in progress /\ claim = FenceCommit(o).claim
ReleaseStored(o) == o.cmd \in done /\ claim = ReleaseCommit(o).claim

\* _resolve_ambiguous of firestore.py: every document is as it was to be
\* written.
AllSame(o) ==
    \/ o.op = "create" /\ RootStored(o)
    \/ o.op = "revoke" /\ RevocationStored(o)
    \/ o.op = "fence" /\ FenceStored(o)
    \/ o.op = "finalize" /\ ReleaseStored(o)

\* Some document is at the revision that was to be written; the same command
\* committed by another call in another second is a different document.
Competing(o) ==
    \/ /\ o.op = "create" /\ claim.root = o.snap.claim.root + 1 /\ claim.status = "ACTIVE"
    \/ /\ o.op = "revoke"
       /\ \/ epoch[o.cmd.root] = o.snap.epoch + 1 \/ head[o.cmd.root] = o.snap.head + 1
          \/ o.cmd \in done \/ Taken(o.cmd) \/ EpochClaimed(o.cmd)
    \/ /\ o.op = "fence"
       /\ \/ claim.root = o.cmd.root /\ claim.status = "RELEASING"
          \/ epoch[o.cmd.root] = o.snap.epoch + 1 \/ head[o.cmd.root] = o.snap.head + 2
          \/ o.cmd \in progress \/ Taken(o.cmd)
    \/ /\ o.op = "finalize"
       /\ \/ claim.root = o.cmd.root /\ claim.status = "RELEASED"
          \/ o.cmd \in done

\* The documents are read one by one, so a readback may also miss either.
Readback(c) ==
    /\ call[c].pc = "readback"
    /\ \/ AllSame(Tx(c)) /\ Go(c, Succeeded(c))
       \/ Competing(Tx(c)) /\ Go(c, Conflicted(c))
       \/ Go(c, Unresolved(c))
    /\ UNCHANGED <<store, world, late>> /\ NoFault

\* A conflict may be with this call's own bundle: the store adopts it if it is
\* still exactly the one that was to be written.
AdoptRoot(c) ==
    /\ call[c].pc = "adopt"
    /\ \/ AllSame(Tx(c)) /\ Go(c, Answered(c, "OK"))
       \/ (\A e \in events : e.by # c \/ ~AllSame(Tx(c))) /\ Go(c, At(c, "raced"))
    /\ UNCHANGED <<store, world, late>> /\ NoFault

\* The coordinators' own readback of an unknown outcome.
Resolve(c) ==
    /\ call[c].pc = "resolve"
    /\ LET m == Cmd(c) IN
       Go(c, IF call[c].op = "revoke"
             THEN IF m \in done /\ audit[c] = "COMMITTED" /\ StoredRevocation(m)
                  THEN At(c, "classify") ELSE Answered(c, "OUTCOME_UNKNOWN")
             ELSE IF m \notin (IF call[c].op = "fence" THEN progress ELSE done)
             THEN Answered(c, "OUTCOME_UNKNOWN")
             ELSE IF ~Trusted(m) THEN Answered(c, "TRUSTED_STATE_INVALID")
             ELSE IF call[c].op = "fence" THEN Again(c)
             ELSE Answered(c, "OK"))
    /\ UNCHANGED <<store, world, late>> /\ NoFault

\* A read, a signature or an observation fails.  A revocation that cannot be
\* signed is denied durably.
CallFails(c) ==
    /\ \/ /\ call[c].pc \in {"claim", "adopt", "raced", "bundle", "preflight",
                           "read", "target"}
          /\ Go(c, Answered(c, "STORE_UNAVAILABLE"))
       \/ /\ call[c].pc = "resolve" /\ Go(c, Answered(c, "OUTCOME_UNKNOWN"))
       \/ /\ call[c].pc = "commit" /\ call[c].op = "revoke"
          /\ Go(c, Denied(c, "EVIDENCE_DENIED"))
       \/ /\ call[c].pc = "commit" /\ call[c].op # "revoke"
          /\ Go(c, Answered(c, "EVIDENCE_DENIED"))
    /\ UNCHANGED <<store, world, late>> /\ Fault

\* The process dies, or its caller goes away; a transaction it had sent may
\* still land.
Crash(c) ==
    /\ call[c].pc \notin {"idle", "done"}
    /\ Go(c, Answered(c, "NONE"))
    /\ \/ UNCHANGED late
       \/ call[c].pc = "commit" /\ late' = late \cup {Tx(c)}
    /\ UNCHANGED <<store, world>> /\ Fault

-----------------------------------------------------------------------------
\* The mutations of the active root (ReceiptExecution models them) and
\* changes of the service from outside.

Moves(a, from, to) ==
    /\ service.traffic = from /\ service.version < MaxVersion
    /\ service' = [version |-> service.version + 1, traffic |-> to]
    /\ verified' = [verified EXCEPT ![claim.root] = @ \cup
                       {[action |-> a, epoch |-> epoch[claim.root]]}]

Mutate ==
    /\ claim.status = "ACTIVE"
    /\ \/ /\ service.version = creator[claim.root].snapshot
          /\ Moves("APPLY_CANARY", "STABLE", "CANARY")
       \/ /\ \E v \in verified[claim.root] : v.action = "APPLY_CANARY"
          /\ \/ Moves("PROMOTE_CANDIDATE", "CANARY", "CANDIDATE")
             \/ Moves("RECOVER_STABLE", "CANARY", "STABLE")
    /\ UNCHANGED <<store, call, late>> /\ NoFault

Reset ==
    /\ service.version < MaxVersion
    /\ service' = [version |-> service.version + 1, traffic |-> "STABLE"]
    /\ UNCHANGED <<store, verified, call, late>> /\ NoFault

-----------------------------------------------------------------------------
Step(c) ==
    \/ ReadClaim(c) \/ ReadBundle(c) \/ Preflight(c)
    \/ ReadRevocation(c) \/ RecordAudit(c) \/ ClassifyCommitted(c)
    \/ ReadRelease(c) \/ ClassifyTarget(c)
    \/ CommitConfirmed(c) \/ CommitRefused(c) \/ Readback(c)
    \/ AdoptRoot(c) \/ Resolve(c)

Trouble(c) ==
    \/ AuditLost(c) \/ CommitContended(c) \/ CommitTimesOut(c) \/ CallFails(c)
    \/ Crash(c)

Next ==
    \/ \E c \in Call :
          \/ Step(c) \/ Trouble(c)
          \/ \E m \in Command : Begin(c, m) \/ Unauthorized(c, m)
    \/ \E o \in late : Land(o)
    \/ Mutate \/ Reset

\* A coroutine that is not suspended by a fault runs on.
Fairness == \A c \in Call : WF_vars(Step(c))

Spec == Init /\ [][Next]_vars /\ Fairness

-----------------------------------------------------------------------------
Codes == {"none", "OK", "NONE", "ADOPTED", "CALLER_DENIED", "ACTIVE_CLAIM_CONFLICT",
          "PREFLIGHT_DENIED", "IDENTITY_CONFLICT", "ROOT_NOT_FOUND", "TRUSTED_STATE_INVALID",
          "ACTIVE_CLAIM_REQUIRED", "EPOCH_MISMATCH", "EVIDENCE_DENIED",
          "CLAIM_NOT_ACTIVE", "TERMINAL_RECEIPT_INVALID", "CLASSIFICATION_DENIED",
          "OUTCOME_UNKNOWN", "STORE_UNAVAILABLE"}

Claims == [root : 0..MaxRoots, status : {"NONE", "ACTIVE", "RELEASING", "RELEASED"},
           owner : Command \cup {NoCommand}, fence : Command \cup {NoCommand}]
Snaps == [claim : Claims, epoch : Nat, head : Nat, receipt : Nat,
          seen : [version : Nat, traffic : Traffic \cup {"NONE"}]]
Ops == {"create", "revoke", "fence", "finalize"}
Txs == [by : Call, cmd : Command, snap : Snaps, op : Ops]
Locals == [pc : {"idle", "claim", "adopt", "raced", "bundle", "preflight", "read", "audit",
                 "classify", "target", "commit", "readback", "resolve", "done"},
           cmd : Command \cup {NoCommand}, tries : Nat, snap : Snaps,
           op : Ops \cup {"none"}, code : Codes]
Evidence == [root : Root, seq : Nat, epoch : Nat, by : Call,
             kind : {"ROOT_CREATED", "EPOCH_ADVANCED", "TERMINAL", "CLASSIFIED", "RELEASED"}]

\* Every record has the shape its contract gives it.
TypeOK ==
    /\ claim \in Claims
    /\ epoch \in [Root -> Nat] /\ head \in [Root -> Nat]
    /\ events \subseteq Evidence
    /\ creator \in [Root -> Command \cup {NoCommand}]
    /\ progress \subseteq Command /\ done \subseteq Command
    /\ audit \in [Call -> {"NONE", "COMMITTED", "ADOPTED", "DENIED"}]
    /\ verified \in [Root -> SUBSET [action : Actions, epoch : Nat]]
    /\ service \in [version : Nat, traffic : Traffic]
    /\ call \in [Call -> Locals]
    /\ late \subseteq Txs
    /\ faults \in 0..MaxFaults

\* The evidence chain of a root never forks and has no gap: its events are
\* numbered 1 to the head, each number once, although revocations, fences and
\* late transactions all append (head compared in each transaction).
ChainUnforked ==
    \A r \in Root :
        LET mine == {e \in events : e.root = r} IN
        /\ {e.seq : e \in mine} = 1..head[r]
        /\ \A e, f \in mine : e.seq = f.seq => e = f

\* Every epoch after the first was opened by exactly one committed command,
\* one that named the epoch before it: no two attempts advance the same epoch
\* and no advance is unaccounted for.
EpochsAccounted ==
    \A r \in Root : \A n \in 1..(epoch[r] + 1) :
        LET openers == {e \in events : /\ e.root = r /\ e.epoch = n
                                       /\ e.kind \in {"ROOT_CREATED", "EPOCH_ADVANCED"}}
        IN  IF n > epoch[r] THEN openers = {}
            ELSE \E e \in openers :
                    /\ openers = {e}
                    /\ n > 1 => /\ Cmd(e.by).epoch = n - 1
                                /\ Cmd(e.by) \in progress \cup done

Denials == {"CALLER_DENIED", "IDENTITY_CONFLICT", "ROOT_NOT_FOUND", "ACTIVE_CLAIM_REQUIRED",
            "EPOCH_MISMATCH", "CLAIM_NOT_ACTIVE",
            "TERMINAL_RECEIPT_INVALID", "PREFLIGHT_DENIED"}

\* A refusal is the truth for good: an attempt that was denied, or whose
\* durable audit says DENIED, has changed nothing and no late transaction of
\* it lands afterwards.
DenialsAreTrue ==
    \A c \in Call :
        \/ audit[c] = "DENIED"
        \/ call[c].pc = "done" /\ call[c].code \in Denials
        => \A e \in events : e.by # c

\* A success is the truth: the command is stored as committed.
SuccessesAreTrue ==
    \A c \in Call :
        call[c].pc = "done" /\ call[c].code = "OK" =>
            IF Cmd(c).kind = "CREATE" THEN \E r \in Root : creator[r] = Cmd(c)
            ELSE Cmd(c) \in done /\ epoch[Cmd(c).root] > Cmd(c).epoch

\* Nothing comes between a fence and its release: while the claim is
\* RELEASING, the command that fenced it would be admitted to finish it.
ReleaseCanFinish ==
    claim.status = "RELEASING" =>
        claim.fence \in progress \ done /\ ReleaseDenial(claim.fence) = "none"

\* A creation command creates one root, however often and however late it is
\* retried: to release a claim the service must have moved past the snapshot
\* that the command names.
CreateOnce ==
    \A r, s \in Root : creator[r] = creator[s] /\ creator[r] # NoCommand => r = s

\* The authority of a former root is frozen: its epoch and its chain change
\* only while the claim is about it and not released.
FormerRootsFrozen ==
    [][\A r \in Root :
          epoch[r] # 0 /\ (epoch'[r] # epoch[r] \/ head'[r] # head[r])
          => claim.root = r /\ claim.status \in {"ACTIVE", "RELEASING"}]_vars

Tenure == INSTANCE ServiceTenure WITH
              tenure <- [root |-> claim.root, status |-> claim.status],
              current <- epoch

\* The three kinds of transactions, direct or late, implement the tenure of
\* the service (ServiceTenure).
ImplementsTenure == Tenure!Spec

\* Every call is answered, however many transactions it loses.
EveryCallAnswered == \A c \in Call : call[c].pc # "idle" ~> call[c].pc = "done"
=============================================================================
