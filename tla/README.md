# ControlGraph Canary: TLA+ verification

ControlGraph Canary controls the canary rollout of one Cloud Run service. An
operator creates an immutable *rollout root* (authority epoch 1). Under it the
coordinator issues signed, short-lived capabilities for three mutations, Cloud
Tasks carries them to an executor, and the executor calls `UpdateService` under
a final authority check. The promises are about what cannot happen: a mutation
does not take effect twice, a revoked epoch does not mutate, an outcome that
says "nothing happened" is true, a promotion and a recovery exclude each other,
and a released service has no call of the old root left that could still land.

Paths below are relative to `src/backend/src/controlgraph_canary/`.

## 1. Inventory

| Component (files) | State it keeps | Operations | What is hard |
|---|---|---|---|
| Receipt execution (`application/receipt_execution.py`) | none of its own; the `ExecutionReceipt` in Firestore | `execute`: claim or adopt, gate, persist, read back | at-least-once delivery, crashes, lost answers, a grace period that ends while the first delivery is still calling |
| Final mutation gate (`application/execution.py`) | the dispatch lease of a confirmed claim | `FinalMutationGate.execute` | the authority is read, then used |
| Cloud Run adapter (`integrations/google/cloud_run.py`) | none; the service and its etag | `prepare`, `mutate`, receipt and operation readback, reset | a call that times out and is applied later |
| Authority store (`integrations/google/firestore.py`) | root, claim, authority, receipts, dispatch records, evidence, audits | transactions with compare-and-set on revisions | contention, timeouts, a shielded transaction that commits after its caller gave up |
| Receipt authority relay (`application/receipt_authority.py`, `http/receipt.py`) | none | claim, compare-and-set and read on behalf of the executor | another hop whose answers get lost; stale-denial classification on the way |
| Epoch revocation (`application/revocation.py`, `revocation_relay.py`, `authority/epoch.py`) | authority epoch, result, identities, audit per attempt | `revoke` | races with other revocations and releases; errors after the commit |
| Service claim release (`application/service_claim_release.py`, `service_claim_classification.py`) | claim `ACTIVE`/`RELEASING`/`RELEASED`, progress, result | fence, classify, finalise | two transactions with a classification between them |
| Root creation (`application/root_creation*.py`, `root_authority.py`, `root_trust.py`) | root, claim, authority epoch 1 | create, adopt, take over a released claim | concurrent creators |
| Capability issuance and verification (`application/capability_*.py`, `authority/policy.py`) | none | issue for each action, verify, check lineage and attenuation | two programs that must agree on every bound; a clock read before the authority |
| Dispatch of canary, promotion, recovery (`application/*_execution.py`, `promotion_store.py`, `recovery_store.py`) | dispatch records, identities, intent ownership | `dispatch`, adopt an existing dispatch | a start of the enqueue whose answer is lost; two commands for one key |
| Ambiguous receipt readback (`application/ambiguous_receipt_readback.py`) | the resolved receipt | `resolve` | the boundary is read, the target observed, then committed |
| Recovery abandonment (`application/recovery_abandonment.py`) | abandonment progress and result | abandon an unusable recovery | races with the recovery it abandons |
| Health (`authority/health.py`, `application/health_*.py`, `monitoring.py`, `integrations/google/firestore_health.py`) | anchor, chain of signed proofs, recovery intent | collect, evaluate, attest, append, adopt | boundaries of windows, rivals on one chain, late appends |
| Verification and completion (`application/independent_verification.py`, `completion_*.py`) | none; classifications in the timeline | observe, attest, classify, record as one group | failures after a committed write; a world that moves between observations |
| Evidence chain and timeline (`application/evidence_chain.py`, `timeline*.py`, `integrations/google/firestore_timeline.py`) | hash-linked entries, head, identities, raw records, deletion receipts | append a group, adopt a prefix, sweep, export | concurrent appenders, groups that share events, retention, an export whose reads are not one transaction |
| Rollout reducer (`authority/reducer.py`) | none (pure) | `reduce_rollout` | histories nobody wrote a journey test for |
| Replay decisions (`authority/replay.py`) | none (pure) | decide replay, record result or readback | the meaning of every outcome |
| Tasks (`application/tasks.py`, `integrations/google/tasks.py`) | the queue | seal, dispatch, redeliver | duplication, delay |
| Model assistance, observability, HTTP wiring, web, infrastructure | advisory text, projections | | no authority over a mutation |

Interactions. The API relays operator commands to the coordinator, which alone
writes Firestore. The executor and the recovery worker are woken by Cloud Tasks,
verify the capability and reach receipts only through the coordinator's receipt
authority. They share nothing but the store and the Cloud Run service, so every
race is between transactions and provider calls. There is no lock across
processes; each coordinator serialises its own revocations and releases only.

The properties that make each part correct are listed with the hazards in
`PROJECT.json`; the ones checked so far are in section 4.

## 2. Modules

| Module | What it is |
|---|---|
| `ReceiptExecution` | deliveries, gate, receipts, provider, operator: the mutation path and everything that races with it |
| `MutationLedger` | the abstract promise: per key at most one effect, outcomes only move forward, effectless outcomes are final and true |
| `ReceiptExecutionProofs` | two inductive invariants, of ownership and of the target's versions; every safety property of the three receipt runs |
| `ReceiptLedgerProofs` | `ReceiptExecution` implements `MutationLedger` |
| `AuthorityDocuments` | the documents of one authority transaction and the store's checks of them |
| `RootAuthority` | creation of roots, revocation of epochs and release of the claim, by concurrent and repeated calls |
| `ServiceTenure` | the abstract promise: one root owns the service at a time, epochs go up by one, only under the active claim |
| `RootAuthorityProofs` | every safety property of the two authority runs, frozen former roots; `RootAuthority` implements `ServiceTenure` |
| `AbandonmentDocuments` | what an abandonment reads, and the two commits that it builds from it |
| `RecoveryDispatch` | the one recovery of a root: who owns its intent, how its task is enqueued once, how it is abandoned |
| `RecoveryDispatchProofs` | type correctness and every property of the recovery runs |
| `RecoveryAuthorization` | what entitles a root to be recovered: receipt, trigger, intent, the verifier's observation |
| `Capability` | what the issuer signs, what a task of it looks like, what the executor's verifier accepts |
| `TaskDispatch` | all three commands from the coordinator to the queue, over `Capability` and `RecoveryAuthorization` |
| `TaskDispatchProofs` | owned together, enqueued once, stored answers, timely capabilities, and that the executor accepts what the issuer signs |
| `HealthPolicy` | how one window of monitoring data becomes a decision, and which decisions make a chain |
| `HealthPipeline` | evaluation calls that race on one chain of proofs |
| `HealthPipelineProofs` | every property of `health_races`, for every policy and whatever is read |
| `Completion` | independent verification and the completion classifier, as operators |
| `Timeline` | the hash-linked evidence timeline: group append, adoption, late landing, retention, an export read by read |
| `CompletionTimeline` | the completion workflow composed with the timeline it records in |
| `CompletionTimelineProofs` | every property of `timeline_recording` |
| `RolloutReducer` | the pure reducer, driven by every history |
| `RolloutReducerProofs` | what the transition table may contain, what one call returns, and both properties of the histories |
| `MC_*` | constants for TLC |

Three compositions. `CompletionTimeline` EXTENDS `Timeline` and `Completion`: a
call classifies, hands its group to the timeline's append and is answered by the
append's end. `HealthPipeline` EXTENDS `HealthPolicy`: every proof that a call
makes is evaluated by the policy. `TaskDispatch` EXTENDS `Capability`, which
EXTENDS `RecoveryAuthorization`: the issuer and the executor are two sets of
operators over the same claims, and a property compares them. `RecoveryDispatch`
takes a recovery where `TaskDispatch` leaves it, at the prepared record;
`ReceiptExecution` takes a task where it is delivered; `RootAuthority` details
the revocation, fence and finalisation that are single steps in the others.

### ReceiptExecution and the code

One process per delivery; one action per awaited call of
`ReceiptExecutionCoordinator.execute` and of the gate it enters. The local state
`dl[d]` is what the coroutine holds at that await:

| `pc` | awaiting | code |
|---|---|---|
| `claim`, `adopt` | claim-or-adopt, read of the receipt | `receipt_execution.py` 471-540, 618-639 |
| `prepare`, `source`, `authority` | adapter prepare, source receipt, final authority read | `execution.py` 426-480, 508-602 |
| `dispatch`, `await` | about to call, inside `mutate` | `execution.py` 480-506, `cloud_run.py` 218-303 |
| `persist`, `reread` | the compare-and-set and the read after a refused or unanswered one | `receipt_execution.py` 769-813 |
| `readback` | reading the service | `receipt_execution.py` 687-767 |

`HandleExisting`, `HandleObserved` and `Resume` are the straight-line code
between two awaits. `PersistThen` remembers in `cont` which of them follows.
`receipt[k]` keeps what the outcomes are told apart by: mutation, revision,
outcome, reason, operation, observed etag, observed epoch and creation time.
The digests that bind a receipt to its request are one thing, the mutation's
identity in `Work`; two works with one key are the altered reuse of that key.

`wire[d]` is what became of the UpdateService call of a delivery. It is not
known to the code: a call stays `sent` until the provider lands or refuses it,
which may be long after its caller timed out. An etag is an index into
`versions`, the sequence of all traffic configurations the service has had, so
an etag never comes back and a stored etag can be asked what it stood for.

A Firestore transaction is atomic. Its caller may learn that it committed, that
it conflicted, or nothing. A transaction that commits after its caller gave up
(`firestore.py` 2830-2882 shields it) is the same behaviour as a commit whose
answer is lost, because nothing between the two reads the caller's state.

The final gate looks at the caller before it compares the epoch
(`execution.py` 755-761, 827-850). The token's end is an input: it was valid when
the delivery was admitted, so it ends at most `TokenLife` later (`TokenEnds`), and
`CallerDenied` is the gate's check against its own clock. `RecoveryDispatch` has
the same two operators, with an executor whose clock may lag.

Simplifications, all named in the module: one clock; health verdicts are free,
so a promotion and a recovery may both be issued for one canary; the operator's
revocation, fence and finalisation are single steps here; signature checks pass
for signed tasks and unsigned ones do not exist; a `Fault` budget bounds the
lost answers, failed calls and crashes.

### RootAuthority and the code

One process per invocation of the coordinator (a retry by the operator is
another invocation of the same command); one action per awaited read,
observation or transaction:

| `pc` | awaiting | code |
|---|---|---|
| `claim`, `raced`, `bundle` | claim read, the claim read after a lost race, bundle read | `root_creation_service.py` 233-329 |
| `preflight` | the executor's observation of the service | `root_trust.py` 313-405 |
| `read` | the consistent snapshot at the head of a retry loop | `revocation.py` 269-399, `service_claim_release.py` 223-333 |
| `audit`, `classify` | the durable audit of an attempt, the classification after a commit | `revocation.py` 183-241, 883-986 |
| `target` | the classification of the fenced service | `service_claim_classification.py` 171-374 |
| `commit`, `readback`, `adopt` | the transaction, the readback after its timeout, the adoption of an own bundle | `firestore.py` 2802-2882, 3049-3207 |
| `resolve` | the coordinator's readback of an unknown outcome | `revocation.py` 800-824 |

`snap` is the snapshot the documents are built and signed from, `op` the kind of
transaction. `late` holds the transactions whose callers stopped waiting
(`_await_shielded`): each may land at any later time, after its caller has looped,
recorded a denial or answered. A transaction compares every document of its
snapshot; the model keeps those that other transactions write (claim, epoch,
chain head, identities, results, the audit of the attempt).

Roots are numbered by tenure, so content-addressed ids never collide and the
claim revision is a function of root and status. Timestamps of one clock are
monotone, so comparisons between them hold. A request id and an idempotency key
are one identity. `Mutate` stands for `ReceiptExecution`: it moves the service
and leaves a VERIFIED receipt.

### RecoveryDispatch and the code

One process per call of the health evaluation or of the recovery route (`call`),
per call of the abandonment route (`ab`) and per delivery of the recovery task
(`dl`); one action per awaited call:

| `pc` | awaiting | code |
|---|---|---|
| `trusted`, `chain`, `refresh`, `readopt` | the reads of an evaluation that ends unhealthy | `health_pipeline.py` 469-590, 974-986 |
| `append` | the proof and, in the same transaction, the recovery intent | `firestore_health.py` 1004-1254 |
| `intent`, `reserve`, `read` | intent and dispatch record, the reservation by a revoked source | `recovery_execution.py` 1196-1217, 1309-1370 |
| `resolve`, `attest`, `confirm`, `issue` | inputs, attestation of the target, inputs again, capability | `recovery_execution.py` 815-1009 |
| `prepare`, `begin`, `finish` | the three writes of the dispatch record | `firestore_health.py` 1419-1701 |
| `seal`, `enqueue`, `await` | addressing and CreateTask | `application/tasks.py` 146-345, `integrations/google/tasks.py` |
| `read`, `fence`, `classify`, `release` of `ab` | one turn of the abandonment | `recovery_abandonment.py` 164-710 |
| `claim`, `adopt`, `gate`, `decide`, `persist` of `dl` | the executor, coarse | `receipt_execution.py`, `execution.py` |

The digests, capability and task of a record are one thing, named by its command
and its deadline; a record is told apart by state, revision and deadline. The
canary is applied and VERIFIED at epoch 1, where a recovery starts. The heads of
evidence that the abandonment compares change together with the authority and
the progress and are implied by them. A request identity belongs to one command.
The executor's clock may lag behind the coordinator's by `Skew`: that is what
lets a delivery be admitted after the coordinator saw the deadline pass.
`CreateTaskTwice` (external) is a request repeated below the client library, the
only way a single CreateTask meets its own task.

### TaskDispatch and the code

One process per call of the canary, promotion or recovery route:

| `pc` | awaiting | code |
|---|---|---|
| `read`, `resolve` | the promotion's record, the inputs of its authorization | `promotion_execution.py` 186-345, `firestore.py` 6024-6151 |
| `own`, `adopt` | the recovery's intent and its record | `recovery_execution.py` 1196-1217, 1309-1382 |
| `inputs`, `observe`, `inputs2` | trusted inputs, the verifier's observation, the inputs again | `recovery_execution.py` 528-579, 815-870 |
| `issue`, `trusted`, `confirm` | the issuer: its clock, the trusted read, the read again after the signature | `capability_issuance.py` 224-267, 641-681, 897-945 |
| `record` | the signed intent in the timeline, then the sealed task | `canary_execution.py` 358-450, `promotion_execution.py` 451-569, `recovery_execution.py` 1384-1520 |
| `prepare`, `begin`, `finish`, `readback` | the three transactions of a promotion's record | `firestore.py` 6153-6411, 2802-2882 |
| `seal`, `enqueue`, `await` | the sealing at the clock, CreateTask | `application/tasks.py` 200-312, `integrations/google/tasks.py` 68-120 |

A digest of a capability is its place in `log`, the claims that were signed; a
task names its capability by it. `Verify` is the executor's
`capability_verification.py` in its order of denials. `AdvanceEpoch` is a
revocation or a fence that commits with a time that was read before. `ReadProof`
is the route that gives out the proof of a revocation, which a recovery command
of a revoked root embeds. One clock for all services; the root is of the third
version; the recovery's prepared task counts as queued at once, because
`RecoveryDispatch` models what follows. The promotion records of the first
version have the same protocol and are not modelled twice.

### HealthPipeline and the code

One process per call of the evaluation route. `snap` is the chain that the call
read, `proof` the one it made.

| `pc` | awaiting | code |
|---|---|---|
| `idle` (`Begin`) | trusted state, chain, independent verification, anchor | `health_pipeline.py` 401-566 |
| `verify`, `collect` | the verifier: predecessor and clock, then the two queries, evaluation and signature | `health_pipeline.py` 231-307, `health_orchestration.py` 163-425, `health_attestation.py` 116-262 |
| `refresh`, `append`, `resolve` | trusted state again, the append, the chain after a lost answer | `health_pipeline.py` 568-634, 974-986, `firestore_health.py` 977-1225 |
| `concurrent`, `adopt` | a rival's proof | `health_pipeline.py` 636-684 |
| `record`, `recover` | the timeline, the recovery coordinator | `health_pipeline.py` 686-751 |

`HealthPolicy` is `authority/health.py` from the points of every page to the
decision: window grid, deduplication and conflict of points, completeness,
thresholds in basis points, streaks, reset, deadline retry and the terminal
decisions; and the contracts that a stored proof and chain have to pass. Of the
policy the two streaks, the thresholds and the minimum of requests are those of
the one that new roots may have (`contracts/health.py:392-460`).

### CompletionTimeline and the code

`work[c]` is the coroutine of `completion_workflow.py`, `job[c]` the append it
waits for.

| `pc` | awaiting | code |
|---|---|---|
| `work`: `classify` of a revocation | stored evidence of the committed epoch | `revocation.py` 170-241, `completion_workflow.py` 378-431 |
| `work`: `authority`, `observe`, `classify` | the event that opened the epoch, two attestations, the signed intent | `completion_workflow.py` 287-705, `independent_verification_signing.py` 112-367 |
| `work`: `record`, `route` | the group, then the route's own event | `timeline_recording.py` 300-409, `http/service.py` 1556-1580, 1843-1922 |
| `job`: `read` | identity, entry and head of one event | `firestore_timeline.py` 981-1051, 1100-1159 |
| `job`: `adopt` | the raw record, or the deletion of an expired one | `firestore_timeline.py` 667-732, 1053-1098, 1195-1206, 1846-1999 |
| `job`: `commit` | the group transaction | `firestore_timeline.py` 1209-1436, 1601-1709 |

An event is a source identity and a body; equal bodies stand for equal digests.
The link of an entry names its predecessor. `late` transactions land after their
callers looked again.

An export (`firestore_timeline.py` 2055-2108) only reads, but not at once: the
page, then the clock, then raw record and deletion receipt of every entry in reads
that the event loop starts together and the store answers in any order.
`export[c]` is that of a call, which then does nothing else: `ReadPage` (what is
behind the cursor never changes, so the page is one read), `FixTime`
(`evaluated_at`), and `ReadLifecycle` once per document; `Sliced` is what
`TimelineRawReadSlice` answers when all are there. Between any two of them
everything else may happen.
`retired` remembers which entries had a receipt when the time was fixed; no step
looks at it.

### RolloutReducer and the code

`Transitions` is the table `_TRANSITIONS` with the loops that extend it, `Reduce`
is `reduce_rollout` in its order of checks. `Step` threads state and origin from
one output to the next call the way `tests/test_authority_properties.py` does;
`mutations` is a history variable.

## 3. Fairness

`key_reuse` checks liveness under weak fairness of `Serve(d)`,
`authority_rivals` under weak fairness of `Step(c)`, one delivery or call at a
time: the event loop runs a request whose next call has returned, and every call
has a deadline (`asyncio.timeout` around each provider call and read, a timeout
around each transaction), so a call that is never answered still returns. Nothing
is assumed of the provider, the operator, the queue or the clock, and the fault
actions are not fair. The other runs check safety only.

## 4. Runs

| Run | Instance | Distinct states | What it shows |
|---|---|---|---|
| `canary_delivery` | one canary, two deliveries, clock 0..4 with grace, backoff and expiry inside, three faults | 1 334 669 | one provider call; DENIED and FAILED_SAFE are effect-free; VERIFIED was observed; the ledger is implemented |
| `rollout_chain` | canary, promotion and recovery, three deliveries, epochs to 3, three versions, no fault | 831 248 | promotion and recovery exclude each other, calls land only on the traffic they start from, a released claim leaves nothing that can land |
| `key_reuse` | two mutations under one key, two deliveries, one fault, fair | 143 141 | no receipt serves another mutation, revocation fences unread deliveries, every delivery is answered |
| `reducer_histories` | all events with all facts, one supplied reason | | every mutation is commanded once and in order, ambiguities resolve to their own action |
| `authority_rivals` | one root; create, two revocations that share an identity, two releases; three calls, one fault, fair | 163 170 | the evidence chain neither forks nor skips, each epoch has one author, a denial stays true, a fenced claim can be finished, every call is answered |
| `service_tenure` | two creations, a release, two revocations; four calls, one fault | 523 999 | a success is stored, a creation command makes one root, the tenure is implemented, in which former roots are frozen |
| `recovery_owners` | two evaluations with different proofs and a revoked recovery, three calls, one fault | 1.6 million | CreateTask is called once per root; callers agree on the disposition |
| `recovery_abandonment` | one recovery, two abandonments, one delivery on a clock that lags by 1, one fault | 1 435 191 | an abandoned recovery never calls UpdateService; a denial after the fence is the one that finalisation accepts, unless the authority could not be read or the caller's token had ended; the abandoned record is frozen |
| `health_races` | two calls, three readings, two windows, clock 0..3, a revocation, one fault | 473 000 | the stored chain can be read, verified and replayed; a verdict stands on two adjacent windows; an unhealthy end has its intent; calls are told what is stored |
| `task_dispatch` | canaries of two epochs and their attenuations, two promotions of one key, a recovery of each kind; two calls, clock 0..2, two epochs, one fault | 967 115 | a promotion is enqueued once; identities and record have one owner; answers are stored; the verifier allows what the issuer signed; no capability is older than its epoch |
| `timeline_recording` | two calls: revocation, stale denial, promotion, export; one receipt, clock 1..2 with the retention inside, one fault | 1 316 855 | the chain is whole; no append meets a corrupt record, and an export only for an entry that was expired and unswept before it or swept while it read; verdicts stand on recorded evidence; answered calls are recorded |
| `revocation_replay` | a revocation and its replay, no fault | | violated: section 5 |

Bounds. Two deliveries suffice for every pairwise race on one receipt (first
delivery against its redelivery); the theorems cover any number. Three faults
allow a lost claim answer, a lost persist answer and a failed readback in one
behaviour. The clock of `canary_delivery` reaches the expiry, so a delivery may
arrive in the claim window, after it, before and after the grace period and
after expiry. Where time is not the question (`MaxNow = 0`, `Grace = 0`) every
claim is at once old enough to be read back, which is the harder case.
`MaxChanges` bounds only the resets; mutations add a version each. Deadlock
checking is off because a system whose tasks are all answered stops.
Deliveries and calls are interchangeable and used as symmetry sets in runs of
safety properties only.

In `authority_rivals` and `service_tenure` the calls are a creation, two rivals
and, in the second, a retry or a third rival; one fault makes one transaction
late, which is the case the compare-and-set arguments are about.
`MaxAttempts = 2` lets a release fence, and find its fence, in one call; the code
allows more attempts, which adds only repetitions of the same turn.
`MaxRoots = 2`: a root, its successor, and late calls of the first.

In the `recovery_*` runs three calls are two rivals and a latecomer that adopts;
the lifetime (1 or 2) lies inside the clock, so a record expires before, between
and after prepare, start and delivery; one fault is one lost answer, late
transaction, CreateTask timeout or crash, which is what each of the
compare-and-set arguments has to survive.

In `health_races` two windows are as many as the shortest verdict needs; the
clock passes the readiness and the deadline of both, so a window is collected in
time, at its deadline and too late; good, bad and missing readings in any order
give every streak and its interruption. One fault loses an answer, fails a read,
makes an append late or kills a call.

In `task_dispatch` the calls of one behaviour share one action (`OneAction`, a
constraint of the run): calls of different actions meet only in the authority
and the clock, which move freely anyway. `MaxDepth = 2` reaches an attenuation of
a root capability and the refusal of a third hop. The lifetime and the margins
are 1 or 2 on a clock of three ticks, so that a task is issued and sealed at the
first second, at the last and after its window.

In `timeline_recording` one receipt is a denied or a finished promotion; two
calls race on shared events (the advancement, the receipt). The retention is one
tick, so that an entry expires while a group that shares it is being adopted,
and a sweep of one record at a time is interrupted between two.
An export takes the place of one of the calls: its page of two entries starts
anywhere, and between any two of its six steps the other call records, starts over
or adopts, the retention ends and the sweep deletes.

`TokenLife` bounds how long the caller's token outlives the admission of a
delivery. In `recovery_abandonment` it is as long as the clock, so a token ends
before, between and after the lag and the expiry; in `canary_delivery` likewise;
in `rollout_chain` and `key_reuse`, where time is not the question, 1.

## 5. Findings and observations

**A replayed revocation is never answered** (run `revocation_replay`).
`EpochRevoker.revoke` (`application/revocation.py:170-241`) classifies a
committed revocation on every call, replays included. The timeline group of a
call is the evidence event, the operator's action of this attempt and the
classification. The attempt id is new for every API call
(`revocation_relay.py:115`), so in a replay the first and third are recorded and
the second is not: known, new, known is no prefix, the append is refused as a
conflict (`firestore_timeline.py:1107-1112`) and the operator is told
`OUTCOME_UNKNOWN`, every time. `contracts/revocation.py:203` says "Immutable
committed result returned by direct and replayed requests."; the test of a
replay (`tests/test_epoch_revocation.py:542-568`) runs without the workflow and the
timeline that `runtime.py:1505-1525` wires. The committed state
is not touched (`authority_rivals`): only its answer is lost.

What follows was met while modelling. No document promises otherwise, or only the
reading of one differs, so no run is made of it.

Dispatch and recovery.
- When an unhealthy evaluation has reserved the root's intent around a
  revocation, its own dispatch is refused as stale and the operator's recovery
  of the revoked root with `IDENTITY_CONFLICT` (`recovery_execution.py:1381`);
  `docs/architecture.md:108` speaks of a separately confirmed recovery.
- A recovery whose receipt is AMBIGUOUS past its deadline is accepted neither by
  dispatch nor by the abandonment (`recovery_abandonment.py:386`), to which
  `docs/runbooks.md:130` sends the operator.
- A crash between ENQUEUE_STARTED and the last transition leaves a promotion at
  `OUTCOME_UNKNOWN` for good; a PREPARED promotion is enqueued after a revocation
  (only the task's window is looked at; the executor's gate denies it); two
  promotion commands of one root with keys of their own can both be enqueued.
- A canary has no durable dispatch record: a retry has a second capability and
  task, and only the receipt claim arbitrates.
- The final gate, not the verifier, compares the epoch of the claims with the
  current one. The resolver of a recovery does not compare the time of the epoch
  with its clock, the issuer does.
- The proof of a revocation can be read only until the next one or a fence.
- A readback that observes nothing overwrites the observed etag by None, after
  which the operator's resolution is refused (`receipt_execution.py:750`).

Health.
- A window observed exactly at its collection deadline is accepted by the
  evaluation, signed HEALTHY, and refused by the proof of the promotion
  (`contracts/health_execution.py:847`): the append ends in `STORE_UNAVAILABLE`
  and the window later counts as late.
- The epoch may be revoked between the last trusted read and the append; the
  proof then stands on a chain of the old epoch, which no promotion accepts.
- A revoked-root recovery that owns the intent makes the unhealthy append fail.

Timeline.
- A later record under a dispatch's identity (AMBIGUOUS, then CREATED) and a
  stale denial that was recorded first without its authority event are conflicts
  for good, until a revocation completion records that event.
- READ operations on a completed receipt append further AMBIGUOUS or
  EVIDENCE_STALE classifications after COMPLETE.
- An export of an entry whose retention has ended is corrupt until the sweep, and
  so is one that the sweep overtakes between its reads (`CorruptOnlyUnswept`): the
  time is fixed before the documents are read, and they are read outside of a
  transaction. The service answers that the store is unavailable
  (`application/timeline.py:792`) although it is sound; an export after the sweep
  succeeds.

Denials and readbacks.
- A delivery that is admitted, claims after the fence of an abandonment and whose
  caller's token ends before the gate is denied as `CALLER_UNAUTHORIZED`, which the
  finalisation does not accept: like an unreadable authority it leaves the root
  RELEASING (`LateDenialIsExact` names both).
- A readback compares the configuration and not its author: VERIFIED may be stored
  for traffic that another mutation brought about. `docs/product-contract.md:133`
  defines it so ("Independent readback matches the exact approved postcondition.").

Reducer. `docs/product-contract.md:106` permits `ROOT_ACTIVE`, `DENIED` or
`FAILED_SAFE` out of `ROOT_PENDING`; the reducer also goes to `AMBIGUOUS` when the
provider outcome of `ROOT_CREATED` is missing (`authority/reducer.py:391`), with
an origin that no `AMBIGUITY_RESOLVED_*` event accepts. Line 117 of the document
calls an unresolved ambiguity terminal; `AMBIGUITY_UNRESOLVED` returns
`terminal = True`, and the next `AMBIGUITY_RESOLVED_*` event still leaves the state.

## 6. Proofs

All are for every value of the constants. Those about `ReceiptExecution` (any set
of mutations, keys, deliveries; any deadlines and any number of faults) use
`ConstantsAssumption` only.

`AtMostOneDispatch` is not inductive: it says nothing of who may still dispatch.
The inductive invariant (`ReceiptExecutionProofs`) adds *ownership*: a delivery
past its confirmed claim (in `prepare` ... `await`, or persisting the gate's
outcome) is the only one for its key, and while no call was made by it none was
made for the key at all; the receipt it holds belongs to its own mutation; a call
that is still `sent` keeps its owner's proposal from being effect-free.
Ownership is established by `ClaimConfirmed`, whose guard is that no receipt is
stored, and nothing else creates an owner: that is the design decision the
theorem rests on (only a *directly confirmed* create holds a lease).

- `TypeCorrect`, `AtMostOnce`, `EffectFree` follow from that invariant.
- `ImplementsTheLedger` maps the stored outcomes and the landed calls to the
  ledger; each action is a ledger step or a stutter. It needs the invariant to
  know that an effect-free outcome is recorded only while no call has landed or
  will land, plus a second small invariant (the operator's resolution holds a
  snapshot that is AMBIGUOUS).

The properties about traffic and etags need a second invariant, `TargetInv`.
Versions are only appended; the first is the stable one, the canary is the
second. A signed mutation names one of these two as its base (a canary the
first, a promotion and a recovery the second), and a sent call carries the base
that its source receipt had, so a call lands only while its base is current, and
landing leaves the base behind for good. From this follow `EffectsExclude` (two
calls with base 2 cannot both land), `LandsOnItsBase`, `ReleaseIsFinal` (a claim
is released when version 2 is history) and `VerifiedIsTrue` (an observed etag is a
version that carried what the action promises). `OneMutationPerKey` needs only
that a receipt belongs to the mutation its first claim named. `RevocationFences`
follows a delivery whose task's epoch is over, that has no call under way and has
not read an authority that says otherwise: it stays so whatever it does next, and
so it never calls (`Fenced`).

`RootAuthorityProofs` proves `TypeCorrect`, `ChainsStayWhole`,
`FormerRootsStayFrozen`, `ImplementsTheTenure` and the five properties of answers
below from `RootConstants`. Again the
properties are not inductive: a transaction writes documents that were built from
an old snapshot. The invariant adds `Fits`, what is known of the snapshot of each
kind of transaction (a creation saw a free or released claim, a revocation and a
fence an active claim of their own root, a finalisation a fenced one), for calls
that hold a snapshot and for late transactions alike, and `Untouched`, that roots
to come have no state. The comparison inside the transaction turns what was true
of the snapshot into what is true of the store: that one step is the argument.

What callers are told needs an argument about time, the invariant `HistoryTrue`
(theorem `HistoryInvariance`): everything that a call relies on goes one way only.
Claims go forward, epochs, results, receipts and the versions of the service only
grow. Hence the transactions that a denied call left in flight are *spent*: what
they compare with is past and does not come back (`DenialsStayTrue`). A stored
result is never replaced (`SuccessesStayTrue`), an epoch was opened by one
committed command that named the one before it (`EpochsStayAccounted`), and the
snapshots that creators name strictly grow, because a claim is released only on a
service that has moved on: no command creates twice (`CreationsAreOnce`). `FenceWhole`
lists what a fence leaves, which is everything the release's checks ask for
(`FencesCanFinish`).

`RecoveryDispatchProofs` proves, from `RecoveryConstants` (any commands, callers,
deliveries, abandonments, times and faults), `TypeCorrect`, `EnqueuedOnce`,
`TrueRecords`, `CallersAgree`, `AbandonedIsInert`, `LateDenialsAreExact`,
`RecordStaysFrozen` and `ReleasedOnStable`. The inductive invariant `IInv` has a conjunct per idea:

- `RecordsOK`: only the intent's command has a record, a task exists only for a
  started one, CREATED and DUPLICATE only with their task;
- `CallsOK`, `LateOK`: what a caller or a transaction that lands late still
  assumes of the record is enough to make its comparison decide: only PREPARED
  becomes started, only an unfinished start is finished;
- `OneHolder`: at most one caller is at its enqueue or has ever sent one; this is
  what `EnqueuedOnce` needs;
- `AbsOK`, `GateOK`: what each abandonment and each delivery may rely on at its
  step; a delivery past the gate's claim has its receipt stored, and an effect
  leaves a receipt;
- `FenceOK`: once the abandonment progressed, the claim is not active, the epoch
  is one above the dispatch's, the record is AMBIGUOUS and no delivery is past
  the claim (the fence saw no receipt); so every later gate denies, with the
  denial that the finalization compares, unless it could not read the authority or
  finds the caller's token ended, which are the only two checks before the epoch
  (`OnlyDeniers` says who writes a receipt after the fence).

`TaskDispatchProofs` proves `OwnedTogether`, `EnqueuedOnce`, `StoredAnswers`,
`NeverOlderThanItsEpoch` and `SignedIsAccepted` from `DispatchConstants`,
`CapabilityConstants`, `RecoveryConstants` and `NoneIsNoValue` (any calls and
commands, any bounds on clock, epoch and faults). Its three invariants:

- `IInv`: `OwnersOK` (a record exists exactly when both identities are its
  command's), `RecordsOK`, what a transaction was built from (`TxOK`, of calls and
  of late transactions alike), what a call tells of the store (`Truthful`) and of
  its request on the wire (`Wired`), and `OneHolder`: for a promotion one call at
  most is at its enqueue or has a request on the wire. `CommitForward` is the
  argument: a `begin` that commits found its record PREPARED, so nobody holds the
  promotion yet, and a `finish` writes over a start and over nothing else. Two
  requests with one authorization belong to two started records of the same
  request, hence to one command (`OwnersOK`) and to one call (`OneHolder`).
- `Timed`: every time that a call carries towards a capability is not older than
  the epoch it is for (`Under`). It needs the order of the issuer's reads (the
  clock before the authority, `TrustedState`) and, for a recovery, that the
  verifier observed after the coordinator had read the authority; `Under` is kept
  by every step because only a newer epoch has a later `changed_at`.
- `Agreed`, for `SignedIsAccepted`: every task in the queue, in a record, in a late
  transaction or on the wire is allowed by `CapabilityVerifier.verify` at every
  second of its window (`Accepted`), every signed capability has a lineage that is
  one chain of attenuations from the operator's anchor (`LineageOK`, `Good`), and
  each call carries what its next step needs for that (`Fit`). The issuer's checks
  and the verifier's are two programs. `IssuedIsWorthy` shows that what passed
  the first extends a good lineage whatever digest it will get (`Worthy`), and
  `GoodIsAccepted` that a good lineage passes the second; `PromotionEntitled`,
  `RecoveryEntitled` and `CanaryEntitled` do the same for the authorization
  beside the capability. Between two steps of a call others sign: lineages are a
  recursive function of the log, and that they keep their values when the log
  grows (`LineageGrows`, `StaysAccepted`) is shown by a least counterexample.

`HealthPipelineProofs` proves all five properties of `health_races` from
`HealthPolicyAssumption` (the policy passes its own validator) and
`PipelineConstants`: the points that Monitoring returns carry counts and
latencies, which `monitoring.py:341` and `:370` refuse when they are negative.
`IInv` says that a call at work holds a prefix of the stored chain and a proof
that was evaluated on exactly that prefix, as does a transaction that may still
land; the comparison in the append turns the prefix into the chain, which gives
`ChainStaysCanonical`, `IntentIsKept` and `AnswersStand`. `VerdictsAreSustained` adds
that a streak that is carried on has the evidence of its last window, which is a
fact about every case of the evaluation (`HealthOutcome`). `ContractsHold` goes
through the evaluation once more with `HInv`: what a reading is built into passes
the contract of an observation (`ObservationSound`), and what a sound state and a
sound observation are evaluated to passes the contract of a decision
(`HealthSound`), so the writer is never asked to sign what a reader would refuse.
Sequences that folds compute (flattened pages, canonical samples) are handled by
least counterexamples (`NatMin`), since the library's induction is out of reach.

`CompletionTimelineProofs` proves all five properties of `timeline_recording` from
`CompletionTimelineConstants` (the identities of projected records are sources).
The unit of the argument is a causal group. A group is *sound* when each of its
verdicts stands on what the timeline holds or on what precedes it in the group.
The invariant (`NumbersOk`, `ReceiptsOk`, `ChainOk`, `RawOk`, `JobsOk`, `LateOk`,
`SweepOk`, `CallsOk`) keeps every group sound, of calls, appends and late
transactions, through adoption of a prefix and starting over; a transaction
writes a whole group or nothing (`ChainStaysWhole`, `VerdictsStand`). What a call
is to answer is in its group until it is in the timeline (`AnswersLeaveRecords`). A
raw record is there, or deleted with a receipt after its expiry, in every state.

An export sees several states, so `StoreIsSound` needs a second invariant about
what was read: `ExportsFollowTheStore`. A store only moves on (`MovesOn`: entries
stay, receipts stay, the clock grows), so what an export found retired at its time
stays retired and expired, and both reads of such an entry come out as the slice
needs them. A document that does not is therefore of another entry, which by now
has a receipt or was expired without one (`WrongDocument`).

`RolloutReducerProofs` needs no assumption. `RowsAreLawful` is what every row of
the transition table obeys (which commands lie behind a place), `ReduceCases` what
one call may return; the invariant is that the mutations commanded so far are
those behind the place that the rollout is in, or came from when it is AMBIGUOUS.

Only model-checked: the liveness properties (`EveryCallAnswered`,
`EveryDeliveryIsAnswered`; fairness is out of the prover's reach).
`ReplayReturnsResult` is violated. The type invariants of the receipt, authority,
recovery and dispatch systems are theorems and not repeated in their runs.

## 7. Plan

Done: the mutation path, the authority of a root, recovery and abandonment,
dispatch with capabilities, health, completion and timeline, the reducer; the
safety properties of the runs as theorems, in eight modules of proofs. Next, in
this order:

1. Type correctness of `TaskDispatch` as a whole and of the recovery's part of its
   records.
2. The queue's retry schedule and the 200/503 mapping in time: is every claim read
   back before its capability expires?
3. The confirmation protocol of the reference reset and the pausing of the queue.

## 8. Not modelled

Cryptography and token validation (a signature is valid or the message does not
exist); HTTP routing, wiring, settings and command line; model assistance, a
read-only adviser whose output takes no part in authority
(`docs/decisions/0004`); read-only projections for operators; the web console and
infrastructure; the acceptance scripts, which drive a deployed system and keep no
state of it. `recover_orphaned` has no caller in the services and performs the
readback path of `execute`; `read_final_authority_snapshot` and
`read_issuance_state` have none either. Not modelled twice: promotion records of
the first version, recoveries of roots of the second version.

Abstractions that a reader should know. An abandonment's times of fencing and
release are not kept. A receipt or head that was updated after the start of an
abandonment by a clock that is ahead makes the fence fail; with one clock this
does not happen. A takeover's snapshot must be captured after the release; the
model admits earlier ones too, which is more behaviour than the code has. So are
the attenuated canaries of `task_dispatch`: issuer and verifier handle them, but no
route names a parent capability.
