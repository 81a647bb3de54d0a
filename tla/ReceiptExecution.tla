--------------------------- MODULE ReceiptExecution ---------------------------
(***************************************************************************)
(* Execution of signed mutations on one Cloud Run service.                 *)
(*                                                                         *)
(* Cloud Tasks delivers a mutation at least once.  Every delivery runs     *)
(* ReceiptExecutionCoordinator.execute: it claims (or adopts) the one      *)
(* execution receipt of the idempotency key, and only the delivery whose   *)
(* create was directly confirmed holds a dispatch lease, passes the        *)
(* FinalMutationGate and calls the provider.  Every other delivery may     *)
(* only read the target back.  The operator concurrently revokes the       *)
(* epoch, resolves ambiguous receipts and releases the service claim.      *)
(*                                                                         *)
(* One process per delivery; one action per awaited call.  All clocks are  *)
(* one clock, so lineage-issue and updated_at comparisons hold trivially   *)
(* and are left out.  A mutation's many digests are one thing, its         *)
(* identity in Work; two works with one key are the altered reuse of it.   *)
(***************************************************************************)
EXTENDS Integers, FiniteSets, Sequences

CONSTANTS
    Work,        \* signed mutations: plan, target, capability and request id
    NoWork,      \* not a mutation
    Key,         \* idempotency keys
    KeyOf,       \* the key each mutation names
    ActionOf,    \* the action each mutation asks for
    Delivery,    \* the deliveries Cloud Tasks ever makes, one request each
    Grace,       \* RECEIPT_ORPHAN_GRACE_SECONDS
    Backoff,     \* RECEIPT_QUEUE_MAX_BACKOFF_SECONDS
    Lifetime,    \* from issue to the expiry of capability and task
    ProofLife,   \* from issue to proof_valid_until of a promotion or recovery
    TokenLife,   \* how long the token lives that Cloud Tasks sends with a delivery
    MaxNow,      \* bound on the clock
    MaxEpoch,    \* bound on the authority epoch
    MaxChanges,  \* bound on the number of versions of the service
    MaxFaults    \* bound on failed calls, lost answers and crashes

Actions == {"APPLY_CANARY", "PROMOTE_CANDIDATE", "RECOVER_STABLE"}
Traffic == {"STABLE", "CANARY", "CANDIDATE"}    \* 100/0, 90/10, 0/100

ASSUME ConstantsAssumption ==
    /\ NoWork \notin Work
    /\ KeyOf \in [Work -> Key]
    /\ ActionOf \in [Work -> Actions]
    /\ Grace \in Nat /\ Backoff \in Nat
    /\ Lifetime \in Nat /\ ProofLife \in Nat /\ TokenLife \in Nat
    /\ MaxNow \in Nat /\ MaxEpoch \in Nat /\ MaxChanges \in Nat
    /\ MaxFaults \in Nat

\* RECEIPT_NEW_CLAIM_RECOVERY_WINDOW_SECONDS
Window == Grace + Backoff

\* Traffic each action requires before it and leaves behind it.
PreTraffic(a) == IF a = "APPLY_CANARY" THEN "STABLE" ELSE "CANARY"
PostTraffic(a) == CASE a = "APPLY_CANARY" -> "CANARY"
                    [] a = "PROMOTE_CANDIDATE" -> "CANDIDATE"
                    [] a = "RECOVER_STABLE" -> "STABLE"

VARIABLES
    now,        \* the clock, in seconds
    authority,  \* EpochAuthorityRecord and ServiceClaimRecord of the root
    task,       \* the signed task of each mutation once it is issued
    receipt,    \* the stored ExecutionReceipt of each key
    dl,         \* the local state of each delivery's execute call
    wire,       \* what became of the UpdateService call of each delivery
    versions,   \* traffic of every version of the service; an etag is an index
    settled,    \* the newest version is no longer reconciling
    res,        \* the operator's ambiguous-receipt readback
    faults      \* how many faults happened so far

vars == <<now, authority, task, receipt, dl, wire, versions, settled, res, faults>>
store == <<authority, task, receipt>>
cloud == <<wire, versions, settled>>

None == 0       \* an absent etag or epoch
Etag == Len(versions)
Serving == versions[Etag]

NoTask == [epoch |-> None, etag |-> None, expires |-> 0, until |-> 0,
           source |-> NoWork]

NoReceipt == [work |-> NoWork, rev |-> 0, outcome |-> "ABSENT", reason |-> "NONE",
              op |-> "NONE", etag |-> None, obsEpoch |-> None, created |-> 0]

NoObs == [exact |-> FALSE, etag |-> None]
NoSeen == [epoch |-> None, claim |-> "ACTIVE"]

Waiting == [pc |-> "waiting", work |-> NoWork, born |-> 0, snap |-> NoReceipt,
            repl |-> NoReceipt, cont |-> "done", tries |-> 0, obs |-> NoObs,
            seen |-> NoSeen, reject |-> FALSE]

NoRes == [pc |-> "idle", snap |-> NoReceipt, etag |-> None]

Terminal == {"DENIED", "FAILED_SAFE", "VERIFIED"}

-----------------------------------------------------------------------------
\* Receipts: what each constructor of receipt_execution.py changes.

KeyIn(r) == KeyOf[r.work]

Claimed(w, t) == [NoReceipt EXCEPT !.work = w, !.outcome = "CLAIMED", !.created = t]

Denied(r, why, e) ==
    [r EXCEPT !.rev = @ + 1, !.outcome = "DENIED", !.reason = why, !.obsEpoch = e]

ProviderResult(r, outcome, why, op, e) ==
    [r EXCEPT !.rev = @ + 1, !.outcome = outcome, !.reason = why, !.op = op,
              !.obsEpoch = e]

Verified(r, etag) ==
    [r EXCEPT !.rev = @ + 1, !.outcome = "VERIFIED", !.reason = "NONE", !.etag = etag]

Ambiguous(r, etag) ==
    [r EXCEPT !.rev = @ + 1, !.outcome = "AMBIGUOUS",
              !.reason = "PROVIDER_OUTCOME_AMBIGUOUS", !.etag = etag]

\* min(created + grace, max(created, deadline - 1))
OrphanRecoveryAt(r) ==
    LET last == IF task[r.work].expires - 1 > r.created
                THEN task[r.work].expires - 1 ELSE r.created
    IN  IF r.created + Grace < last THEN r.created + Grace ELSE last

\* The forward transitions of a receipt that Firestore accepts.
ReceiptTransitions(o) ==
    IF o = "CLAIMED" THEN {"DENIED", "APPLIED", "FAILED_SAFE", "AMBIGUOUS"}
    ELSE IF o \in {"APPLIED", "AMBIGUOUS"} THEN {"VERIFIED", "AMBIGUOUS"}
    ELSE {}

\* obsEpoch and op are fixed by the first write after the claim.
ObservationKept(before, after) ==
    before.outcome # "CLAIMED" => /\ after.obsEpoch = before.obsEpoch
                                  /\ after.op = before.op

ValidReplacement(before, after) ==
    /\ after.work = before.work /\ after.created = before.created
    /\ after.outcome \in ReceiptTransitions(before.outcome)
    /\ ObservationKept(before, after)
    /\ after # before

\* What a coordinator that lost a compare-and-set is ready to adopt.
ValidMonotonicResolution(before, after) ==
    \/ after = before
    \/ /\ after.rev > before.rev
       /\ after.work = before.work /\ after.created = before.created
       /\ ObservationKept(before, after)
       /\ \/ after.outcome \in ReceiptTransitions(before.outcome)
          \/ /\ before.outcome = "CLAIMED" /\ after.outcome = "VERIFIED"
             /\ after.rev >= before.rev + 2

-----------------------------------------------------------------------------
\* The initial state: the root is created, epoch 1 is current, the service is
\* at the stable snapshot and nothing is issued.

Init ==
    /\ now = 0
    /\ authority = [epoch |-> 1, claim |-> "ACTIVE", terminal |-> "NONE",
                    classified |-> FALSE]
    /\ task = [w \in Work |-> NoTask]
    /\ receipt = [k \in Key |-> NoReceipt]
    /\ dl = [d \in Delivery |-> Waiting]
    /\ wire = [d \in Delivery |-> "none"]
    /\ versions = <<"STABLE">>
    /\ settled = TRUE
    /\ res = NoRes
    /\ faults = 0

Tick == /\ now < MaxNow
        /\ now' = now + 1
        /\ UNCHANGED <<store, dl, cloud, res>>

-----------------------------------------------------------------------------
\* Issuing work.  Health verdicts are inputs: a promotion and a recovery may
\* both be issued for one verified canary.

\* A receipt a promotion, a recovery or a stranded release may name.
EligibleSource(r) ==
    /\ r.outcome = "VERIFIED" /\ r.rev >= 2
    /\ ActionOf[r.work] = "APPLY_CANARY"
    /\ r.op # "NONE" /\ r.etag # None /\ r.obsEpoch = task[r.work].epoch

Signed(w, etag, until, source) ==
    /\ task[w] = NoTask
    /\ authority.claim = "ACTIVE"
    /\ task' = [task EXCEPT ![w] =
                  [epoch |-> authority.epoch, etag |-> etag,
                   expires |-> now + Lifetime, until |-> now + until,
                   source |-> source]]
    /\ UNCHANGED <<now, authority, receipt, dl, cloud, res>>

IssueApply(w) ==
    /\ ActionOf[w] = "APPLY_CANARY"
    /\ Signed(w, 1, Lifetime, NoWork)

IssuePromotion(w, k) ==
    /\ ActionOf[w] = "PROMOTE_CANDIDATE"
    /\ EligibleSource(receipt[k])
    /\ task[receipt[k].work].epoch = authority.epoch
    /\ Signed(w, receipt[k].etag, ProofLife, receipt[k].work)

\* The source epoch is the current one (unhealthy) or the one the operator
\* has just revoked.
IssueRecovery(w, k) ==
    /\ ActionOf[w] = "RECOVER_STABLE"
    /\ EligibleSource(receipt[k])
    /\ task[receipt[k].work].epoch \in {authority.epoch, authority.epoch - 1}
    /\ settled /\ Serving = "CANARY"
    /\ Signed(w, Etag, ProofLife, receipt[k].work)

Issue == \E w \in Work : \/ IssueApply(w)
                         \/ \E k \in Key : IssuePromotion(w, k) \/ IssueRecovery(w, k)

-----------------------------------------------------------------------------
\* ReceiptExecutionCoordinator.  Each operator below is the local state of a
\* delivery after the code ran on to its next awaited call.

W(d) == dl[d].work
K(d) == KeyOf[W(d)]

Step(d, next) == dl' = [dl EXCEPT ![d] = next]

Respond(m) == [Waiting EXCEPT !.pc = "done", !.work = m.work]

PersistThen(m, cur, new, cont) ==
    [Waiting EXCEPT !.pc = "persist", !.work = m.work, !.snap = cur, !.repl = new,
                    !.cont = cont]

\* _handle_existing (and _handle_after_provider, which never meets CLAIMED):
\* terminal receipts and young claims are answered, the rest is read back.
HandleExisting(m, cur, t) ==
    IF \/ cur.outcome \in Terminal
       \/ cur.outcome = "CLAIMED" /\ t < OrphanRecoveryAt(cur)
    THEN Respond(m)
    ELSE [Waiting EXCEPT !.pc = "readback", !.work = m.work, !.snap = cur]

\* Mutant: the observed state is not compared with the expected one.
TrustingObserved(m, cur, ob) ==
    IF cur.outcome = "CLAIMED"
    THEN [PersistThen(m, cur, Ambiguous(cur, ob.etag), "observed") EXCEPT !.obs = ob]
    ELSE IF cur.outcome \in Terminal THEN Respond(m)
    ELSE PersistThen(m, cur, Verified(cur, ob.etag), "done")

\* The rest of _readback_only once the target was observed as ob.
HandleObserved(m, cur, ob) ==
    IF cur.outcome = "CLAIMED"
    THEN [PersistThen(m, cur, Ambiguous(cur, ob.etag), "observed") EXCEPT !.obs = ob]
    ELSE IF cur.outcome \in Terminal THEN Respond(m)
    ELSE IF ob.exact THEN PersistThen(m, cur, Verified(cur, ob.etag), "done")
    ELSE IF cur.outcome = "AMBIGUOUS" /\ ob.etag = cur.etag THEN Respond(m)
    ELSE PersistThen(m, cur, Ambiguous(cur, ob.etag), "done")

\* What follows _persist_or_read when it returns the receipt cur.
Resume(m, cur, t) ==
    IF m.cont = "existing" THEN HandleExisting(m, cur, t)
    ELSE IF m.cont = "observed" THEN HandleObserved(m, cur, m.obs)
    ELSE Respond(m)

\* A delivery passes capability verification and enters execute: near its
\* expiry it may only adopt.
Deliver(d, w) ==
    /\ dl[d].pc = "waiting"
    /\ task[w] # NoTask
    /\ now < task[w].expires
    /\ Step(d, [dl[d] EXCEPT
           !.work = w, !.born = now,
           !.pc = IF now + Window >= task[w].expires THEN "adopt" ELSE "claim"])
    /\ UNCHANGED <<now, store, cloud, res>>

\* claim_or_adopt_receipt creates the receipt.  Only a directly confirmed
\* create is dispatched.
ClaimConfirmed(d) ==
    /\ dl[d].pc = "claim"
    /\ receipt[K(d)] = NoReceipt
    /\ LET new == Claimed(W(d), dl[d].born) IN
       /\ receipt' = [receipt EXCEPT ![K(d)] = new]
       /\ Step(d, [dl[d] EXCEPT !.pc = "prepare", !.snap = new])
    /\ UNCHANGED <<now, authority, task, cloud, res>>

\* The commit landed but its answer was lost: the store reads its own create
\* back and reports an adoption, or reports that the outcome is unknown.
ClaimAnswerLost(d) ==
    /\ dl[d].pc = "claim"
    /\ receipt[K(d)] = NoReceipt
    /\ LET new == Claimed(W(d), dl[d].born) IN
       /\ receipt' = [receipt EXCEPT ![K(d)] = new]
       /\ \/ Step(d, HandleExisting(dl[d], new, now))
          \/ Step(d, Respond(dl[d]))
    /\ UNCHANGED <<now, authority, task, cloud, res>>

\* Mutant: an adopted claim is taken for a lease.
DispatchAdopted(d) ==
    /\ \/ dl[d].pc = "claim" /\ receipt[K(d)] # NoReceipt
       \/ dl[d].pc = "adopt"
    /\ Step(d, IF receipt[K(d)].work # W(d) THEN Respond(dl[d])
               ELSE IF receipt[K(d)].outcome = "CLAIMED"
               THEN [dl[d] EXCEPT !.pc = "prepare", !.snap = receipt[K(d)]]
               ELSE HandleExisting(dl[d], receipt[K(d)], now))
    /\ UNCHANGED <<now, store, cloud, res>>

\* Mutant: the stored receipt's binding is not compared with the request.
AdoptAnything(d) ==
    /\ \/ dl[d].pc = "claim" /\ receipt[K(d)] # NoReceipt
       \/ dl[d].pc = "adopt"
    /\ Step(d, HandleExisting(dl[d], receipt[K(d)], now))
    /\ UNCHANGED <<now, store, cloud, res>>

\* The key is taken (adopt the same work, refuse another one), or a delivery
\* too late to claim reads the receipt.
AdoptOrConflict(d) ==
    /\ \/ dl[d].pc = "claim" /\ receipt[K(d)] # NoReceipt
       \/ dl[d].pc = "adopt"
    /\ Step(d, IF receipt[K(d)].work = W(d)
               THEN HandleExisting(dl[d], receipt[K(d)], now)
               ELSE Respond(dl[d]))
    /\ UNCHANGED <<now, store, cloud, res>>

\* A claim, read or re-read of the receipt fails: AUTHORITY_UNAVAILABLE.
StoreUnavailable(d) ==
    /\ dl[d].pc \in {"claim", "adopt", "reread"}
    /\ Step(d, Respond(dl[d]))
    /\ UNCHANGED <<now, store, cloud, res>>

\* The request is cancelled or its process dies.
Crash(d) ==
    /\ dl[d].pc \notin {"waiting", "done"}
    /\ Step(d, Respond(dl[d]))
    /\ UNCHANGED <<now, store, cloud, res>>

-----------------------------------------------------------------------------
\* FinalMutationGate.execute, entered with the lease of a confirmed create.

GateDeny(d, why, e) ==
    Step(d, PersistThen(dl[d], dl[d].snap, Denied(dl[d].snap, why, e), "existing"))

\* adapter.prepare: a recovery reads the service and remembers a rejection
\* that mutate will answer without calling the provider.
Prepare(d) ==
    /\ dl[d].pc = "prepare"
    /\ Step(d, [dl[d] EXCEPT
           !.pc = IF ActionOf[W(d)] = "APPLY_CANARY" THEN "authority" ELSE "source",
           !.reject = /\ ActionOf[W(d)] = "RECOVER_STABLE"
                      /\ ~ (/\ settled /\ Serving = "CANARY"
                            /\ Etag = task[W(d)].etag)])
    /\ UNCHANGED <<now, store, cloud, res>>

SourceMatches(w) ==
    LET src == task[w].source
        r   == receipt[KeyOf[src]]
    IN  /\ r.work = src /\ EligibleSource(r)
        /\ ActionOf[w] = "PROMOTE_CANDIDATE" =>
             r.etag = task[w].etag /\ task[src].epoch = task[w].epoch

\* _revalidate_promotion_source_receipt
CheckSource(d) ==
    /\ dl[d].pc = "source"
    /\ IF SourceMatches(W(d))
       THEN Step(d, [dl[d] EXCEPT !.pc = "authority"])
       ELSE GateDeny(d, "CLAIM_BINDING_MISMATCH", None)
    /\ UNCHANGED <<now, store, cloud, res>>

\* The last read before dispatch.
ReadAuthority(d) ==
    /\ dl[d].pc = "authority"
    /\ Step(d, [dl[d] EXCEPT !.pc = "dispatch",
           !.seen = [epoch |-> authority.epoch, claim |-> authority.claim]])
    /\ UNCHANGED <<now, store, cloud, res>>

\* A call inside the gate fails before any dispatch.
GateUnavailable(d) ==
    /\ dl[d].pc \in {"prepare", "source", "authority"}
    /\ GateDeny(d, "AUTHORITY_UNAVAILABLE", None)
    /\ UNCHANGED <<now, store, cloud, res>>

\* When the token may expire that was valid at the admission of d.
TokenEnds(d) == dl[d].born + 1 .. dl[d].born + TokenLife

\* _final_caller_denial: the token is not valid, or not yet.
CallerDenied(t, ends) == ~(ends - TokenLife <= t /\ t < ends)

\* Mutant: the epoch just read is not compared with the signed one.
DenialWithoutEpoch(w, seen, t, ends) ==
    IF CallerDenied(t, ends) THEN "CALLER_UNAUTHORIZED"
    ELSE IF seen.claim # "ACTIVE" THEN "AUTHORITY_UNAVAILABLE"
    ELSE IF t >= task[w].expires \/ t >= task[w].until THEN "CAPABILITY_EXPIRED"
    ELSE "NONE"

\* What a task, its capability and its authorization say of one thing is one
\* field here.  What is left to compare with the root: a promotion's task ends
\* with its proof, and so does a recovery's, whose canary is of the epoch that
\* the trigger ended.
PromotionRequestMatchesRoot(w) == task[w].expires <= task[w].until
RecoveryRequestMatchesRoot(w) ==
    /\ task[task[w].source].epoch \in {task[w].epoch, task[w].epoch - 1}
    /\ task[w].expires <= task[w].until
RequestMatchesRoot(w) ==
    CASE ActionOf[w] = "APPLY_CANARY" -> TRUE
      [] ActionOf[w] = "PROMOTE_CANDIDATE" -> PromotionRequestMatchesRoot(w)
      [] ActionOf[w] = "RECOVER_STABLE" -> RecoveryRequestMatchesRoot(w)

\* _final_authority_denial, in its order
FinalDenial(w, seen, t, ends) ==
    LET src == task[w].source IN
    IF CallerDenied(t, ends) THEN "CALLER_UNAUTHORIZED"
    ELSE IF seen.epoch # task[w].epoch THEN "EPOCH_MISMATCH"
    ELSE IF seen.claim # "ACTIVE" THEN "AUTHORITY_UNAVAILABLE"
    ELSE IF t >= task[w].expires THEN "CAPABILITY_EXPIRED"
    ELSE IF ~RequestMatchesRoot(w) THEN "CLAIM_BINDING_MISMATCH"
    ELSE IF /\ ActionOf[w] = "RECOVER_STABLE"
            /\ task[src].epoch \notin {seen.epoch, seen.epoch - 1}
         THEN "EPOCH_MISMATCH"
    ELSE IF t >= task[w].until THEN "CAPABILITY_EXPIRED"
    ELSE "NONE"

DenyAtGate(d) ==
    /\ dl[d].pc = "dispatch"
    /\ \E ends \in TokenEnds(d) :
         LET why == FinalDenial(W(d), dl[d].seen, now, ends) IN
         why # "NONE" /\ GateDeny(d, why, dl[d].seen.epoch)
    /\ UNCHANGED <<now, store, cloud, res>>

\* The gate lets the delivery through.
Permitted(d) ==
    \E ends \in TokenEnds(d) : FinalDenial(W(d), dl[d].seen, now, ends) = "NONE"

\* mutate returns the rejection that prepare found; no provider call is made.
RejectPrepared(d) ==
    /\ dl[d].pc = "dispatch"
    /\ Permitted(d)
    /\ dl[d].reject
    /\ Step(d, PersistThen(dl[d], dl[d].snap,
           ProviderResult(dl[d].snap, "FAILED_SAFE", "PROVIDER_PRECONDITION_FAILED", "NONE",
                          dl[d].seen.epoch), "existing"))
    /\ UNCHANGED <<now, store, cloud, res>>

\* UpdateService leaves for the provider.
Dispatch(d) ==
    /\ dl[d].pc = "dispatch"
    /\ Permitted(d)
    /\ ~ dl[d].reject
    /\ wire' = [wire EXCEPT ![d] = "sent"]
    /\ Step(d, [dl[d] EXCEPT !.pc = "await"])
    /\ UNCHANGED <<now, store, versions, settled, res>>

\* Mutant: a call that timed out is reported as not applied.
TimeoutIsFailure(fate) ==
    LET Report(o, why, op) == [outcome |-> o, reason |-> why, op |-> op] IN
    IF fate = "landed" THEN {Report("APPLIED", "NONE", "NAMED")}
    ELSE {Report("FAILED_SAFE", "PROVIDER_REQUEST_REJECTED", "NONE")}

\* Mutant: the call has no deadline.
OnlyAnswers(fate) ==
    LET Report(o, why, op) == [outcome |-> o, reason |-> why, op |-> op] IN
    CASE fate = "landed" -> {Report("APPLIED", "NONE", "NAMED")}
      [] fate = "rejected" -> {Report("FAILED_SAFE", "PROVIDER_REQUEST_REJECTED", "NONE")}
      [] OTHER -> {}

\* What mutate may report for each fate of the call; a call without an answer
\* is ambiguous whatever became of it.
MutationReports(fate) ==
    LET Report(o, why, op) == [outcome |-> o, reason |-> why, op |-> op] IN
    {Report("AMBIGUOUS", "PROVIDER_OUTCOME_AMBIGUOUS", "NONE")} \cup
    (IF fate = "landed"
     THEN {Report("APPLIED", "NONE", "NAMED"),
           Report("AMBIGUOUS", "PROVIDER_OUTCOME_AMBIGUOUS", "NAMED")}
     ELSE {}) \cup
    (IF fate = "rejected"
     THEN {Report("FAILED_SAFE", "PROVIDER_REQUEST_REJECTED", "NONE")} ELSE {})

MutationReturns(d) ==
    /\ dl[d].pc = "await"
    /\ \E rep \in MutationReports(wire[d]) :
         Step(d, PersistThen(dl[d], dl[d].snap,
             ProviderResult(dl[d].snap, rep.outcome, rep.reason, rep.op,
                            dl[d].seen.epoch), "existing"))
    /\ UNCHANGED <<now, store, cloud, res>>

\* Mutant: an exception is recorded as a call that was not applied.
GateRaisesSafely(d) ==
    /\ dl[d].pc = "await"
    /\ Step(d, PersistThen(dl[d], dl[d].snap,
           ProviderResult(dl[d].snap, "FAILED_SAFE", "PROVIDER_REQUEST_REJECTED", "NONE",
                          None), "existing"))
    /\ UNCHANGED <<now, store, cloud, res>>

\* The gate raises: the coordinator records an outcome it knows nothing of.
GateRaises(d) ==
    /\ dl[d].pc = "await"
    /\ Step(d, PersistThen(dl[d], dl[d].snap,
           ProviderResult(dl[d].snap, "AMBIGUOUS", "PROVIDER_OUTCOME_AMBIGUOUS", "NONE",
                          None), "existing"))
    /\ UNCHANGED <<now, store, cloud, res>>

-----------------------------------------------------------------------------
\* _persist_or_read: two compare-and-set attempts, each one that is not
\* confirmed followed by a read of what is stored.

PersistConfirmed(d) ==
    /\ dl[d].pc = "persist"
    /\ receipt[K(d)] = dl[d].snap
    /\ ValidReplacement(dl[d].snap, dl[d].repl)
    /\ receipt' = [receipt EXCEPT ![K(d)] = dl[d].repl]
    /\ Step(d, Resume(dl[d], dl[d].repl, now))
    /\ UNCHANGED <<now, authority, task, cloud, res>>

\* The write landed and its answer did not.
PersistAnswerLost(d) ==
    /\ dl[d].pc = "persist"
    /\ receipt[K(d)] = dl[d].snap
    /\ ValidReplacement(dl[d].snap, dl[d].repl)
    /\ receipt' = [receipt EXCEPT ![K(d)] = dl[d].repl]
    /\ Step(d, [dl[d] EXCEPT !.pc = "reread"])
    /\ UNCHANGED <<now, authority, task, cloud, res>>

\* The write is refused: another one came first.
PersistConflict(d) ==
    /\ dl[d].pc = "persist"
    /\ receipt[K(d)] # dl[d].snap
    /\ Step(d, [dl[d] EXCEPT !.pc = "reread"])
    /\ UNCHANGED <<now, store, cloud, res>>

\* The write does not get through.
PersistUnavailable(d) ==
    /\ dl[d].pc = "persist"
    /\ Step(d, [dl[d] EXCEPT !.pc = "reread"])
    /\ UNCHANGED <<now, store, cloud, res>>

Reread(d) ==
    /\ dl[d].pc = "reread"
    /\ LET cur == receipt[K(d)] IN
       Step(d, IF cur = dl[d].snap
               THEN IF dl[d].tries = 0 THEN [dl[d] EXCEPT !.pc = "persist", !.tries = 1]
                                       ELSE Respond(dl[d])
               ELSE IF ValidMonotonicResolution(dl[d].snap, cur)
                    THEN Resume(dl[d], cur, now)
                    ELSE Respond(dl[d]))
    /\ UNCHANGED <<now, store, cloud, res>>

\* CloudRunV2ReceiptReadback: the settled state, or only the etag when it is
\* unsettled or another one.
ReadTarget(d) ==
    /\ dl[d].pc = "readback"
    /\ LET exact == settled /\ Serving = PostTraffic(ActionOf[W(d)]) IN
       Step(d, HandleObserved(dl[d], dl[d].snap, [exact |-> exact, etag |-> Etag]))
    /\ UNCHANGED <<now, store, cloud, res>>

\* The readback fails and observes nothing.
ReadTargetFails(d) ==
    /\ dl[d].pc = "readback"
    /\ Step(d, HandleObserved(dl[d], dl[d].snap, NoObs))
    /\ UNCHANGED <<now, store, cloud, res>>

-----------------------------------------------------------------------------
\* The provider: UpdateService is a compare-and-set on the etag.  A call may
\* be processed at any time after it was sent, even after its caller gave up.

\* Mutant: the etag precondition is not sent.
LandAnyway(d) ==
    /\ wire[d] = "sent"
    /\ versions' = Append(versions, PostTraffic(ActionOf[W(d)]))
    /\ settled' = FALSE
    /\ wire' = [wire EXCEPT ![d] = "landed"]
    /\ UNCHANGED <<now, store, dl, res>>

Land(d) ==
    /\ wire[d] = "sent"
    /\ task[W(d)].etag = Etag
    /\ versions' = Append(versions, PostTraffic(ActionOf[W(d)]))
    /\ settled' = FALSE
    /\ wire' = [wire EXCEPT ![d] = "landed"]
    /\ UNCHANGED <<now, store, dl, res>>

Refuse(d) ==
    /\ wire[d] = "sent"
    /\ wire' = [wire EXCEPT ![d] = "rejected"]
    /\ UNCHANGED <<now, store, dl, versions, settled, res>>

Settle ==
    /\ ~ settled
    /\ settled' = TRUE
    /\ UNCHANGED <<now, store, dl, wire, versions, res>>

\* The traffic that the reset tool reads, of a service that is settled.
AdmitTarget == IF settled THEN Serving ELSE "NONE"

\* The service is put back to stable outside the rollout; one at its baseline
\* is left alone.
ResetTarget ==
    /\ AdmitTarget \notin {"NONE", "STABLE"}
    /\ Etag < MaxChanges
    /\ versions' = Append(versions, "STABLE")
    /\ UNCHANGED <<now, store, dl, wire, settled, res>>

-----------------------------------------------------------------------------
\* The operator: epoch revocation, service-claim release and the resolution
\* of an ambiguous receipt.

Revoke ==
    /\ authority.claim = "ACTIVE"
    /\ authority.epoch < MaxEpoch
    /\ authority' = [authority EXCEPT !.epoch = @ + 1]
    /\ UNCHANGED <<now, task, receipt, dl, cloud, res>>

\* The terminal state a verified receipt proves: _terminal_mapping, or a
\* stranded claim named by its eligible canary receipt.
TerminalStates(r) ==
    IF r.outcome # "VERIFIED" THEN {}
    ELSE IF ActionOf[r.work] = "PROMOTE_CANDIDATE" THEN {"CANDIDATE"}
    ELSE IF ActionOf[r.work] = "RECOVER_STABLE" THEN {"STABLE"}
    ELSE IF EligibleSource(r) /\ task[r.work].epoch = authority.epoch THEN {"STABLE"}
    ELSE {}

\* The fence of a release advances the epoch and parks the claim.
FenceClaim(k) ==
    /\ authority.claim = "ACTIVE"
    /\ authority.epoch < MaxEpoch
    /\ \E t \in TerminalStates(receipt[k]) :
         authority' = [authority EXCEPT !.epoch = @ + 1, !.claim = "RELEASING",
                                        !.terminal = t]
    /\ UNCHANGED <<now, task, receipt, dl, cloud, res>>

\* Mutant: the target is read but not compared with the terminal state.
ClassifyAnything ==
    /\ authority.claim = "RELEASING" /\ ~ authority.classified
    /\ authority' = [authority EXCEPT !.classified = TRUE]
    /\ UNCHANGED <<now, task, receipt, dl, cloud, res>>

\* The release reads the target once more: settled and exactly terminal.
ClassifyTarget ==
    /\ authority.claim = "RELEASING" /\ ~ authority.classified
    /\ settled /\ Serving = authority.terminal
    /\ authority' = [authority EXCEPT !.classified = TRUE]
    /\ UNCHANGED <<now, task, receipt, dl, cloud, res>>

\* The commit of that classification, which may have aged meanwhile.
FinalizeRelease ==
    /\ authority.claim = "RELEASING" /\ authority.classified
    /\ authority' = [authority EXCEPT !.claim = "RELEASED"]
    /\ UNCHANGED <<now, task, receipt, dl, cloud, res>>

\* The authority boundary of a resolution, which its transaction rechecks.
ResolutionBoundary(r) ==
    /\ authority.claim = "ACTIVE"
    /\ authority.epoch = task[r.work].epoch
    /\ r.obsEpoch = authority.epoch

ResolveStart(k) ==
    /\ res.pc = "idle"
    /\ receipt[k].outcome = "AMBIGUOUS"
    /\ receipt[k].op # "NONE" /\ receipt[k].etag # None
    /\ ActionOf[receipt[k].work] # "PROMOTE_CANDIDATE"
    /\ ResolutionBoundary(receipt[k])
    /\ res' = [pc |-> "observe", snap |-> receipt[k], etag |-> None]
    /\ UNCHANGED <<now, store, dl, cloud>>

\* The operation named by the receipt succeeded and the target is exact.
ResolveObserve ==
    /\ res.pc = "observe"
    /\ settled /\ Serving = PostTraffic(ActionOf[res.snap.work])
    /\ res' = [res EXCEPT !.pc = "commit", !.etag = Etag]
    /\ UNCHANGED <<now, store, dl, cloud>>

ResolveCommit ==
    /\ res.pc = "commit"
    /\ ResolutionBoundary(res.snap)
    /\ receipt[KeyIn(res.snap)] = res.snap
    /\ receipt' = [receipt EXCEPT ![KeyIn(res.snap)] = Verified(res.snap, res.etag)]
    /\ res' = NoRes
    /\ UNCHANGED <<now, authority, task, dl, cloud>>

ResolveAbandon ==
    /\ res.pc # "idle"
    /\ res' = NoRes
    /\ UNCHANGED <<now, store, dl, cloud>>

-----------------------------------------------------------------------------
\* A delivery's own progress, without its failures.
Proceed(d) ==
    \/ ClaimConfirmed(d) \/ AdoptOrConflict(d)
    \/ Prepare(d) \/ CheckSource(d) \/ ReadAuthority(d)
    \/ DenyAtGate(d) \/ RejectPrepared(d) \/ Dispatch(d) \/ MutationReturns(d)
    \/ PersistConfirmed(d) \/ PersistConflict(d) \/ Reread(d) \/ ReadTarget(d)

Fault(d) ==
    \/ ClaimAnswerLost(d) \/ StoreUnavailable(d) \/ Crash(d)
    \/ GateUnavailable(d) \/ GateRaises(d)
    \/ PersistAnswerLost(d) \/ PersistUnavailable(d) \/ ReadTargetFails(d)

Provider == Settle \/ ResetTarget \/ \E d \in Delivery : Land(d) \/ Refuse(d)

Operator ==
    \/ Revoke \/ ClassifyTarget \/ FinalizeRelease
    \/ ResolveObserve \/ ResolveCommit \/ ResolveAbandon
    \/ \E k \in Key : FenceClaim(k) \/ ResolveStart(k)

\* A request that is being served goes on: the event loop is fair to it.
Serve(d) == Proceed(d) /\ UNCHANGED faults

Next ==
    \/ /\ Tick \/ Issue \/ Provider \/ Operator
       /\ UNCHANGED faults
    \/ \E d \in Delivery : \/ Serve(d)
                           \/ UNCHANGED faults /\ \E w \in Work : Deliver(d, w)
    \/ /\ faults < MaxFaults
       /\ faults' = faults + 1
       /\ \E d \in Delivery : Fault(d)

Spec == Init /\ [][Next]_vars

FairSpec == Spec /\ \A d \in Delivery : WF_vars(Serve(d))

-----------------------------------------------------------------------------
Outcomes == {"ABSENT", "CLAIMED", "DENIED", "APPLIED", "FAILED_SAFE", "AMBIGUOUS",
             "VERIFIED"}
Reasons == {"NONE", "CLAIM_BINDING_MISMATCH", "AUTHORITY_UNAVAILABLE",
            "CALLER_UNAUTHORIZED", "EPOCH_MISMATCH", "CAPABILITY_EXPIRED",
            "PROVIDER_PRECONDITION_FAILED", "PROVIDER_REQUEST_REJECTED",
            "PROVIDER_OUTCOME_AMBIGUOUS"}
Pcs == {"waiting", "claim", "adopt", "prepare", "source", "authority", "dispatch",
        "await", "persist", "reread", "readback", "done"}
\* provider_operation: absent, or the name of the call's operation.
Operations == {"NONE", "NAMED"}
Statuses == {"ACTIVE", "RELEASING", "RELEASED"}

ReceiptType == [work : Work \cup {NoWork}, rev : Nat, outcome : Outcomes,
                reason : Reasons, op : Operations, etag : Nat, obsEpoch : Nat,
                created : Nat]
TaskType == [epoch : Nat, etag : Nat, expires : Nat, until : Nat,
             source : Work \cup {NoWork}]
LocalType == [pc : Pcs, work : Work \cup {NoWork}, born : Nat, snap : ReceiptType,
              repl : ReceiptType, cont : {"existing", "observed", "done"},
              tries : {0, 1}, obs : [exact : BOOLEAN, etag : Nat],
              seen : [epoch : Nat, claim : Statuses], reject : BOOLEAN]

\* Every variable has its type.
TypeOK ==
    /\ now \in Nat
    /\ authority \in [epoch : Nat, claim : Statuses, terminal : Traffic \cup {"NONE"},
                      classified : BOOLEAN]
    /\ task \in [Work -> TaskType]
    /\ receipt \in [Key -> ReceiptType]
    /\ dl \in [Delivery -> LocalType]
    /\ wire \in [Delivery -> {"none", "sent", "landed", "rejected"}]
    /\ versions \in Seq(Traffic) /\ Etag > 0
    /\ settled \in BOOLEAN
    /\ faults \in Nat
    /\ res \in [pc : {"idle", "observe", "commit"}, snap : ReceiptType, etag : Nat]

\* However often Cloud Tasks redelivers a mutation, whatever is lost and
\* whoever crashes, the provider is called at most once per idempotency key.
AtMostOneDispatch ==
    \A d1, d2 \in Delivery :
        (wire[d1] # "none" /\ wire[d2] # "none" /\ K(d1) = K(d2)) => d1 = d2

\* A stored DENIED means that no call was or will be made for the key, and a
\* stored FAILED_SAFE that no call can still take effect.
SafeOutcomesAreEffectFree ==
    \A d \in Delivery : wire[d] # "none" =>
        /\ receipt[K(d)].outcome # "DENIED"
        /\ receipt[K(d)].outcome = "FAILED_SAFE" => wire[d] = "rejected"

\* A VERIFIED receipt was true: the version it names had the traffic the
\* mutation asked for, whoever brought it about.
VerifiedWasObserved ==
    \A k \in Key : receipt[k].outcome = "VERIFIED" =>
        /\ receipt[k].etag \in 1 .. Etag
        /\ versions[receipt[k].etag] = PostTraffic(ActionOf[receipt[k].work])

\* Promotion and recovery of one canary exclude each other, and no two
\* mutations of the same kind both take effect.
TerminalEffectsExclusive ==
    \A d1, d2 \in Delivery :
        (d1 # d2 /\ wire[d1] = "landed" /\ wire[d2] = "landed") =>
            {ActionOf[W(d1)], ActionOf[W(d2)]} \in
                {{"APPLY_CANARY", "PROMOTE_CANDIDATE"}, {"APPLY_CANARY", "RECOVER_STABLE"}}

\* A call takes effect only on the traffic its action starts from.
LandsOnPreTraffic ==
    [][\A d \in Delivery :
         (wire[d] = "sent" /\ wire'[d] = "landed") =>
             Serving = PreTraffic(ActionOf[W(d)])]_vars

\* Once the claim is released, no call still in flight can take effect: the
\* next root may own the service.
NothingLandsAfterRelease ==
    [][authority.claim = "RELEASED" =>
         \A d \in Delivery : wire'[d] = "landed" => wire[d] = "landed"]_vars

\* A delivery that has not yet made its final authority read when its epoch
\* is revoked never calls the provider.
RevocationFencesUnread ==
    \A d \in Delivery :
        []((/\ dl[d].pc \in {"claim", "prepare", "source", "authority"}
            /\ task[W(d)].epoch < authority.epoch) => [](wire[d] = "none"))

\* A key names one mutation: a coordinator never holds, and the provider is
\* never called under, the receipt of another mutation with that key.
KeyNamesOneMutation ==
    \A d \in Delivery :
        /\ dl[d].snap # NoReceipt => dl[d].snap.work = W(d)
        /\ wire[d] # "none" => receipt[K(d)].work = W(d)

\* Every delivery is answered: no sequence of conflicts, unanswered provider
\* calls and adoptions keeps a coordinator busy for ever.
EveryDeliveryIsAnswered ==
    \A d \in Delivery : dl[d].pc \in {"claim", "adopt"} ~> dl[d].pc = "done"

-----------------------------------------------------------------------------
\* The abstract promise: outcomes as stored, effects as the calls that landed.
Ledger == INSTANCE MutationLedger WITH
    Caller  <- Delivery,
    outcome <- [k \in Key |-> receipt[k].outcome],
    effect  <- [k \in Key |-> {d \in Delivery : wire[d] = "landed" /\ K(d) = k}]

\* Receipts and provider calls together implement the mutation ledger: at most
\* one effect per key, and none before the claim, after DENIED or after
\* FAILED_SAFE.
ImplementsLedger == Ledger!Spec
=============================================================================
