---------------------------- MODULE TaskDispatch ----------------------------
(***************************************************************************)
(* From a canary, promotion or recovery command to its task in the queue.  *)
(*                                                                         *)
(* The coordinator has the issuer sign a capability, makes the task and    *)
(* enqueues it.  A promotion first reserves its request and its            *)
(* idempotency key together with a durable dispatch record, and only a     *)
(* directly confirmed start of that record permits CreateTask; a canary    *)
(* keeps no record.  A recovery first owns the intent of its root, has the *)
(* verifier attest the 90/10 split and is authorized by that observation;  *)
(* what becomes of its prepared record is the module RecoveryDispatch's.   *)
(* Meanwhile the epoch is revoked, the claim is fenced, answers are lost,  *)
(* processes die and transactions land late.                               *)
(*                                                                         *)
(* One action per awaited call.  The issuer reads its clock once, before   *)
(* it reads the authority; changed_at of an epoch was read before the      *)
(* transaction that wrote it.                                              *)
(***************************************************************************)
EXTENDS Capability

CONSTANTS
    Call,      \* invocations of the three dispatch routes
    Command,   \* the commands they carry: action, epoch, req, key, sched; the
               \* source and receipt of a recovery
    Service,   \* what the verifier may observe of the service: settled, traffic,
               \* concurrency, etag
    MaxNow,    \* bound on the clock
    MaxEpoch,  \* bound on the authority epoch
    MaxFaults  \* bound on lost answers, failed calls and crashes

ASSUME DispatchConstants ==
    /\ \A m \in Command : m.action \in Actions
    /\ \A m \in Command : m.action = "RECOVER_STABLE" => RecoveryCommandValid(m)
    /\ \A m \in Command : m.epoch \in Nat \ {0} /\ m.sched \in Nat
    /\ MaxNow \in Nat /\ MaxEpoch \in Nat /\ MaxFaults \in Nat

\* None is neither a command nor an authorization.
ASSUME NoneIsNoValue ==
    None \notin Command /\ \A m \in Command : CreateAuthorization(m) # None

VARIABLES
    now,        \* the clock
    authority,  \* current_epoch, its changed_at and cause, the status of the claim
    revoked,    \* the results of the committed revocations
    proofs,     \* the revocations whose proofs an operator holds
    intent,     \* the RecoveryIntentV1 of the root
    log,        \* the claims of every capability the issuer returned
    identity,   \* the command that owns each request and each idempotency key
    dispatch,   \* the dispatch record of each promotion and recovery command
    wire,       \* the CreateTask request of each call and what became of it
    queue,      \* the tasks in Cloud Tasks
    call,       \* the local state of each invocation
    late,       \* transactions whose callers stopped waiting
    faults      \* how many faults happened so far

ledger == <<identity, dispatch>>
rootState == <<authority, revoked, proofs, intent>>
world == <<now, rootState, log, wire, queue>>
vars == <<now, rootState, log, identity, dispatch, wire, queue, call, late, faults>>

Promotions == {m \in Command : m.action = "PROMOTE_CANDIDATE"}
Recoveries == {m \in Command : m.action = "RECOVER_STABLE"}
Dispositions == {"CREATED", "DUPLICATE", "AMBIGUOUS"}
NoRecord == [state |-> "ABSENT", rev |-> 0, task |-> None, prepared |-> 0]
Idle == [pc |-> "idle", cmd |-> None, par |-> 0, prep |-> 0, at |-> 0, seen |-> None,
         auth |-> None, cap |-> None, rec |-> NoRecord, op |-> "none", code |-> "none"]

Init ==
    /\ now = 0
    /\ authority = [epoch |-> 1, changed |-> 0, cause |-> "ROOT_CREATED", claim |-> "ACTIVE"]
    /\ revoked = {} /\ proofs = {} /\ intent = None
    /\ log = <<>>
    /\ identity = [REQUEST |-> [r \in {m.req : m \in Command} |-> None],
                   IDEMPOTENCY |-> [k \in {m.key : m \in Command} |-> None]]
    /\ dispatch = [m \in Promotions \cup Recoveries |-> NoRecord]
    /\ wire = [c \in Call |-> None] /\ queue = {}
    /\ call = [c \in Call |-> Idle]
    /\ late = {} /\ faults = 0

-----------------------------------------------------------------------------
\* Local states.

Cmd(c) == call[c].cmd
Applies(c) == Cmd(c).action = "APPLY_CANARY"
Promotes(c) == Cmd(c).action = "PROMOTE_CANDIDATE"
Recovers(c) == Cmd(c).action = "RECOVER_STABLE"
Go(c, next) == call' = [call EXCEPT ![c] = next]
To(c, pc) == [call[c] EXCEPT !.pc = pc, !.op = "none"]
Answered(c, code) == [Idle EXCEPT !.pc = "done", !.cmd = Cmd(c), !.code = code]
CallOnly == UNCHANGED <<world, ledger, late>>
Fault == faults < MaxFaults /\ faults' = faults + 1
NoFault == UNCHANGED faults

FirstStep == [APPLY_CANARY |-> "issue", PROMOTE_CANDIDATE |-> "read",
              RECOVER_STABLE |-> "own"]

\* A command arrives; a canary may name a capability to be attenuated.  A
\* recovery is an operator's with the proof of a revocation, or the one that the
\* terminal health decision recorded.
Begin(c, m, par) ==
    /\ call[c] = Idle
    /\ par \in IF m.action = "APPLY_CANARY" THEN 0 .. Len(log) ELSE {0}
    /\ m \in Recoveries => \/ /\ InvocationValid(m)
                              /\ \E r \in proofs : m.source = RevokedSource(r)
                           \/ intent = IntentOf(m)
    /\ Go(c, [Idle EXCEPT !.cmd = m, !.par = par, !.pc = FirstStep[m.action]])
    /\ CallOnly /\ NoFault

-----------------------------------------------------------------------------
\* The dispatch record of a promotion.

\* read_promotion_dispatch_v2: both identities and the record, in one read.
Found(m) ==
    LET owners == {identity.REQUEST[m.req], identity.IDEMPOTENCY[m.key]} IN
    IF \E o \in owners : o \notin {None, m}
    THEN IF dispatch[m] # NoRecord THEN "CORRUPT" ELSE "CONFLICT"
    ELSE IF owners = {None} /\ dispatch[m] = NoRecord THEN "NONE"
    ELSE IF None \in owners \/ dispatch[m] = NoRecord THEN "CORRUPT"
    ELSE "FOUND"

\* _read_dispatch: the denial of a read that is no record of this command.
ReadDenial(m) ==
    CASE Found(m) = "CONFLICT" -> "IDENTITY_CONFLICT"
      [] Found(m) = "CORRUPT" -> "TRUSTED_STATE_INVALID"
      [] OTHER -> "none"

\* _adopt_existing of a record that is there: a PREPARED one is continued,
\* whoever prepared it.
AdoptExisting(c, r) ==
    IF r.state = "PREPARED" THEN [To(c, "seal") EXCEPT !.rec = r]
    ELSE Answered(c, IF r.state \in Dispositions THEN r.state ELSE "OUTCOME_UNKNOWN")

ReadDispatch(c) ==
    /\ call[c].pc = "read"
    /\ Go(c, IF ReadDenial(Cmd(c)) # "none" THEN Answered(c, ReadDenial(Cmd(c)))
             ELSE IF Found(Cmd(c)) = "NONE" THEN To(c, "resolve")
             ELSE AdoptExisting(c, dispatch[Cmd(c)]))
    /\ CallOnly /\ NoFault

\* StoredPromotionAuthorizationResolver.resolve, at the time the coordinator
\* read just before.
Resolve(c) ==
    /\ call[c].pc = "resolve"
    /\ Go(c, IF /\ authority.claim = "ACTIVE" /\ ExpectedState(authority, Cmd(c))
                /\ ProofFresh(now) /\ AuthorizationValid(CreateAuthorization(Cmd(c)))
             THEN [To(c, "issue") EXCEPT !.prep = now]
             ELSE Answered(c, "TRUSTED_STATE_INVALID"))
    /\ CallOnly /\ NoFault

-----------------------------------------------------------------------------
\* The intent and the authorization of a recovery.

\* _owned_intent: the intent of the root is this command's, or a revoked root
\* gets it; create_or_adopt_recovery_intent reads again what was read before.
OwnIntent(c) ==
    /\ call[c].pc = "own"
    /\ LET mine == IntentOf(Cmd(c))
           free == intent = None /\ Cmd(c).source.basis = "REVOKED_V3" /\ IntentValid(mine)
       IN /\ intent' = IF free THEN mine ELSE intent
          /\ Go(c, IF intent = mine \/ free THEN To(c, "adopt")
                   ELSE Answered(c, IF intent = None THEN "TRUSTED_STATE_INVALID"
                                    ELSE "IDENTITY_CONFLICT"))
    /\ UNCHANGED <<now, authority, revoked, proofs, log, ledger, wire, queue, late>>
    /\ NoFault

\* A dispatch that was prepared is continued; else the resolution begins, at the
\* time the coordinator reads now.
ReadRecovery(c) ==
    /\ call[c].pc = "adopt"
    /\ Go(c, IF dispatch[Cmd(c)] # NoRecord THEN Answered(c, "ADOPTED")
             ELSE [To(c, "inputs") EXCEPT !.prep = now])
    /\ CallOnly /\ NoFault

\* resolve: the inputs are read, and the verifier is asked.
ReadInputs(c) ==
    /\ call[c].pc = "inputs"
    /\ LET m == Cmd(c) IN
       Go(c, IF /\ ResolverInputs(m, authority, intent, call[c].prep)
                /\ PrestateRequestValid(PrestateRequest(m, call[c].prep))
             THEN [To(c, "observe") EXCEPT !.seen = authority]
             ELSE Answered(c, "TRUSTED_STATE_INVALID"))
    /\ CallOnly /\ NoFault

\* VerifierRecoveryPrestateService.evaluate: the service is read in time and
\* splits its traffic 90/10, and the result is signed; or it is not so, and the
\* coordinator sees its call fail.
Observe(c) ==
    /\ call[c].pc = "observe"
    /\ LET q == PrestateRequest(Cmd(c), call[c].prep)
           inTime == q.requested <= now /\ now <= q.command.sched
       IN \E service \in Service :
            Go(c, IF inTime /\ PrestateMatches(service)
                  THEN [To(c, "inputs2") EXCEPT
                          !.auth = Attest(SigningRequest(PrestateResult(q, service.etag, now)))]
                  ELSE Answered(c, "TRANSPORT_UNAVAILABLE"))
    /\ CallOnly /\ NoFault

\* resolve: the inputs are read again and must be what they were.
Authorize(c) ==
    /\ call[c].pc = "inputs2"
    /\ LET m == Cmd(c)
           z == RecoveryAuthorizationOf(m, call[c].auth)
       IN Go(c, IF /\ ResolverInputs(m, authority, intent, call[c].prep)
                   /\ authority = call[c].seen /\ RecoveryAuthorizationValid(z)
                THEN [To(c, "issue") EXCEPT !.seen = None, !.auth = z]
                ELSE Answered(c, "TRUSTED_STATE_INVALID"))
    /\ CallOnly /\ NoFault

-----------------------------------------------------------------------------
\* The issuer.  Whatever it denies reaches the coordinator as a failed call.

Authorization(c) == IF Promotes(c) THEN CreateAuthorization(Cmd(c)) ELSE call[c].auth

\* A promotion and a recovery must have their margins.
Window(c) ==
    /\ Promotes(c) => PromotionWindow(Authorization(c), now)
    /\ Recovers(c) => RecoveryWindow(Authorization(c), now)

\* The clock is read.
Issue(c) ==
    /\ call[c].pc = "issue"
    /\ Go(c, IF Window(c)
             THEN [To(c, "trusted") EXCEPT !.at = now]
             ELSE Answered(c, "TRANSPORT_UNAVAILABLE"))
    /\ CallOnly /\ NoFault

\* The claims that the issuer would sign for call c.
Claims(c) ==
    LET at == call[c].at
        line == ResolveLineage(log, call[c].par)
        a == Authorization(c)
    IN IF Promotes(c)
       THEN BuildClaims(Cmd(c), authority, at, a.sched, Least(at + Lifetime, a.until), 0,
                        Proof.etag, a)
       ELSE IF Recovers(c)
       THEN BuildClaims(Cmd(c), authority, a.issued, a.sched,
                        Least(a.issued + Lifetime, a.until), 0, a.etag, a)
       ELSE BuildClaims(Cmd(c), authority, at, at, ParentExpiry(line, at), call[c].par,
                        Root.etag, None)

\* What the issuer reads beside the trusted state, at the time it read first.
Inputs(c) ==
    /\ Promotes(c) => PromotionReceiptValid(Cmd(c), call[c].at) /\ ProofFresh(call[c].at)
    /\ Recovers(c) => IssuerInputs(Cmd(c), Authorization(c), authority, intent, call[c].at)

\* The first trusted read, the parents and the signature.
Sign(c) ==
    /\ call[c].pc = "trusted"
    /\ LET at == call[c].at
           line == ResolveLineage(log, call[c].par)
       IN Go(c, IF /\ TrustedState(authority, at) /\ ExpectedState(authority, Cmd(c))
                   /\ LineageFits(line) /\ ParentLineageValid(line, authority, at)
                   /\ Inputs(c)
                   /\ IssueTrusted(log, line, Claims(c))
                THEN [To(c, "confirm") EXCEPT !.seen = authority, !.cap = Claims(c)]
                ELSE Answered(c, "TRANSPORT_UNAVAILABLE"))
    /\ CallOnly /\ NoFault

\* The trusted state is read again; the capability is returned when nothing
\* changed.  The same claims have the same digest.
Confirm(c) ==
    /\ call[c].pc = "confirm"
    /\ LET cap == call[c].cap
           same == authority = call[c].seen /\ Inputs(c)
       IN /\ log' = IF same /\ ~Contains(log, cap) THEN Append(log, cap) ELSE log
          /\ Go(c, IF ~same THEN Answered(c, "TRANSPORT_UNAVAILABLE")
                   ELSE IF Promotes(c) /\ ~CapabilityMatches(cap, Cmd(c), Authorization(c))
                   THEN Answered(c, "RESPONSE_INVALID")
                   ELSE IF Applies(c) /\ ~CanaryMatches(cap, Cmd(c))
                   THEN Answered(c, "RESPONSE_INVALID")
                   ELSE IF /\ Recovers(c)
                           /\ \/ ~IssuanceResultValid(cap, Authorization(c))
                              \/ ~IssuanceMatches(cap, Cmd(c), Authorization(c))
                   THEN Answered(c, "RESPONSE_INVALID")
                   ELSE [To(c, "record") EXCEPT !.seen = None])
    /\ UNCHANGED <<now, rootState, ledger, wire, queue, late>> /\ NoFault

-----------------------------------------------------------------------------
\* The task.

DigestOf(cap) == CHOOSE i \in DOMAIN log : log[i] = cap
TaskFor(c) == TaskOf(DigestOf(call[c].cap), call[c].cap, Authorization(c), c)

\* The signed capability is recorded in the timeline; the task of a promotion
\* is sealed at the time of the resolution and becomes the prepared record.
RecordPromotion(c) ==
    /\ call[c].pc = "record" /\ Promotes(c)
    /\ Go(c, IF PromotionTaskValid(TaskFor(c)) /\ Sealed(TaskFor(c), call[c].prep)
             THEN [To(c, "prepare") EXCEPT
                     !.rec = [state |-> "PREPARED", rev |-> 0, task |-> TaskFor(c),
                              prepared |-> call[c].prep],
                     !.cap = None, !.prep = 0, !.at = 0]
             ELSE Answered(c, "ISSUANCE_DENIED"))
    /\ CallOnly /\ NoFault

\* The task of a canary is sealed now and leaves at once.
RecordCanary(c) ==
    /\ call[c].pc = "record" /\ Applies(c)
    /\ IF TaskValid(TaskFor(c)) /\ Sealed(TaskFor(c), now)
       THEN /\ wire' = [wire EXCEPT ![c] = [state |-> "sent", task |-> TaskFor(c)]]
            /\ Go(c, [To(c, "await") EXCEPT !.cap = None, !.at = 0])
       ELSE UNCHANGED wire /\ Go(c, Answered(c, "DISPATCH_UNAVAILABLE"))
    /\ UNCHANGED <<now, rootState, log, ledger, queue, late>> /\ NoFault

\* The task of a recovery is sealed at the time of the resolution; of two calls
\* the first prepares the record.  Its task is on its way from then on.
RecordRecovery(c) ==
    /\ call[c].pc = "record" /\ Recovers(c)
    /\ LET t == TaskFor(c)
           m == Cmd(c)
           made == /\ dispatch[m] = NoRecord
                   /\ RecoveryTaskValid(t) /\ Sealed(t, call[c].prep)
       IN /\ dispatch' = IF made
                         THEN [dispatch EXCEPT ![m] = [state |-> "PREPARED", rev |-> 0,
                                                       task |-> t, prepared |-> call[c].prep]]
                         ELSE dispatch
          /\ queue' = IF made THEN queue \cup {t} ELSE queue
          /\ Go(c, Answered(c, IF made THEN "PREPARED"
                              ELSE IF dispatch[m] # NoRecord THEN "ADOPTED"
                              ELSE "ISSUANCE_DENIED"))
    /\ UNCHANGED <<now, rootState, log, identity, wire, late>> /\ NoFault

\* A prepared task is sealed again: the dispatch looks at the clock and at
\* nothing else.
Seal(c) ==
    /\ call[c].pc = "seal"
    /\ Go(c, IF Sealed(call[c].rec.task, now) THEN To(c, "begin")
             ELSE Answered(c, "TRUSTED_STATE_INVALID"))
    /\ CallOnly /\ NoFault

\* Mutant: a record found ENQUEUE_STARTED is enqueued again.
EnqueueAgain(c) ==
    /\ \/ call[c].pc = "enqueue"
       \/ call[c].pc = "read" /\ dispatch[Cmd(c)].state = "ENQUEUE_STARTED"
    /\ wire' = [wire EXCEPT ![c] = [state |-> "sent", task |-> dispatch[Cmd(c)].task]]
    /\ Go(c, [To(c, "await") EXCEPT !.rec = dispatch[Cmd(c)]])
    /\ UNCHANGED <<now, rootState, log, ledger, queue, late>> /\ NoFault

\* CreateTask leaves with the permit of a directly confirmed start.
Enqueue(c) ==
    /\ call[c].pc = "enqueue"
    /\ wire' = [wire EXCEPT ![c] = [state |-> "sent", task |-> call[c].rec.task]]
    /\ Go(c, To(c, "await"))
    /\ UNCHANGED <<now, rootState, log, ledger, queue, late>> /\ NoFault

\* A canary answers with the disposition, a promotion stores it first.
Dispatched(c, disposition) ==
    IF Promotes(c)
    THEN [To(c, "finish") EXCEPT !.rec = [@ EXCEPT !.state = disposition, !.rev = 2]]
    ELSE Answered(c, disposition)

\* Mutant: a timeout of CreateTask is taken for success.
TimeoutIsCreated(c) ==
    /\ call[c].pc = "await"
    /\ \/ wire[c].state = "created" /\ Go(c, Dispatched(c, "CREATED")) /\ NoFault
       \/ wire[c].state = "exists" /\ Go(c, Dispatched(c, "DUPLICATE")) /\ NoFault
       \/ Go(c, Dispatched(c, "CREATED")) /\ Fault
    /\ CallOnly

\* GoogleCloudTasksEnqueuer.enqueue: any other end than a created or an
\* existing task is AMBIGUOUS, whatever became of the request.
EnqueueReturns(c) ==
    /\ call[c].pc = "await"
    /\ \/ wire[c].state = "created" /\ Go(c, Dispatched(c, "CREATED")) /\ NoFault
       \/ wire[c].state = "exists" /\ Go(c, Dispatched(c, "DUPLICATE")) /\ NoFault
       \/ Go(c, Dispatched(c, "AMBIGUOUS")) /\ Fault
    /\ CallOnly

\* A read or a call that changes nothing here fails.
Unavailable(c) ==
    /\ call[c].pc \in {"read", "resolve", "own", "adopt", "inputs", "observe", "inputs2",
                       "issue", "trusted", "confirm", "record",
                       "readback"}
    /\ Go(c, Answered(c, "UNAVAILABLE"))
    /\ CallOnly /\ Fault

-----------------------------------------------------------------------------
\* Transactions.

Tx(c) == [op |-> call[c].pc, cmd |-> Cmd(c), rec |-> call[c].rec]
Ops == {"prepare", "begin", "finish"}

\* Mutant: only the request is looked up.
PrepareByRequest(o) ==
    /\ o.op = "prepare"
    /\ identity.REQUEST[o.cmd.req] = None /\ dispatch[o.cmd] = NoRecord

\* prepare_or_adopt_promotion_dispatch_v2: none of the three documents exists.
PrepareMatches(o) ==
    /\ o.op = "prepare"
    /\ identity.REQUEST[o.cmd.req] = None /\ identity.IDEMPOTENCY[o.cmd.key] = None
    /\ dispatch[o.cmd] = NoRecord

\* _compare_and_set_promotion_dispatch_v2: both identities are the record's and
\* the record is the one this transition starts from.
TransitionMatches(o) ==
    /\ o.op \in {"begin", "finish"}
    /\ identity.REQUEST[o.cmd.req] = o.cmd /\ identity.IDEMPOTENCY[o.cmd.key] = o.cmd
    /\ dispatch[o.cmd] = IF o.op = "begin" THEN o.rec
                         ELSE [o.rec EXCEPT !.state = "ENQUEUE_STARTED", !.rev = 1]

Matches(o) == PrepareMatches(o) \/ TransitionMatches(o)

\* _validate_promotion_replacement_v2: the record that a transaction leaves has
\* every binding of the one before and the next state and revision.
Written(o) ==
    IF o.op = "begin" THEN [o.rec EXCEPT !.state = "ENQUEUE_STARTED", !.rev = 1] ELSE o.rec

Commit(o) ==
    /\ Matches(o)
    /\ dispatch' = [dispatch EXCEPT ![o.cmd] = Written(o)]
    /\ identity' = IF o.op = "prepare"
                   THEN [identity EXCEPT !.REQUEST[o.cmd.req] = o.cmd,
                                         !.IDEMPOTENCY[o.cmd.key] = o.cmd]
                   ELSE identity

\* What a call does after its own write: a confirmed start is the permit.
Committed(c) ==
    CASE call[c].pc = "prepare" -> To(c, "seal")
      [] call[c].pc = "begin" -> [To(c, "enqueue") EXCEPT !.rec = Written(Tx(c))]
      [] call[c].pc = "finish" -> Answered(c, call[c].rec.state)

\* _read_after_transition: a start that is not confirmed is no permit, and a
\* record that is still PREPARED is not started a second time.
AfterTransition(c) ==
    LET m == Cmd(c) IN
    Answered(c, IF ReadDenial(m) # "none" THEN ReadDenial(m)
                ELSE IF Found(m) = "NONE" THEN "TRUSTED_STATE_INVALID"
                ELSE IF dispatch[m].state \in Dispositions THEN dispatch[m].state
                ELSE "OUTCOME_UNKNOWN")

\* Another preparation came first.
AfterPrepare(c) ==
    LET m == Cmd(c) IN
    IF ReadDenial(m) # "none" THEN Answered(c, ReadDenial(m))
    ELSE IF Found(m) = "NONE" THEN Answered(c, "OUTCOME_UNKNOWN")
    ELSE AdoptExisting(c, dispatch[m])

AfterConflict(c, op) == IF op = "prepare" THEN AfterPrepare(c) ELSE AfterTransition(c)

\* _resolve_ambiguous: the documents of a preparation are all there as they were
\* written, or one of them is another's, or nothing is known.
Resolved(c) ==
    LET o == [op |-> "prepare", cmd |-> Cmd(c), rec |-> call[c].rec]
        owners == {identity.REQUEST[o.cmd.req], identity.IDEMPOTENCY[o.cmd.key]}
    IN IF call[c].op # "prepare" THEN AfterTransition(c)
       ELSE IF owners = {o.cmd} /\ dispatch[o.cmd] = o.rec THEN To(c, "seal")
       ELSE IF /\ owners = {o.cmd} /\ dispatch[o.cmd].rev # 0
               /\ dispatch[o.cmd].prepared = o.rec.prepared
       THEN Answered(c, "OUTCOME_UNKNOWN")
       ELSE AfterPrepare(c)

CommitConfirmed(c) ==
    /\ call[c].pc \in Ops
    /\ Commit(Tx(c))
    /\ Go(c, Committed(c))
    /\ UNCHANGED <<world, late>> /\ NoFault

CommitRefused(c) ==
    /\ call[c].pc \in Ops /\ ~Matches(Tx(c))
    /\ Go(c, AfterConflict(c, call[c].pc))
    /\ CallOnly /\ NoFault

\* The answer of o is lost: it landed, it did not, or it will.
Lost(o) ==
    \/ Commit(o) /\ UNCHANGED late
    \/ UNCHANGED <<ledger, late>>
    \/ UNCHANGED ledger /\ late' = late \cup {o}

CommitLost(c) ==
    /\ call[c].pc \in Ops
    /\ Lost(Tx(c))
    /\ Go(c, [To(c, "readback") EXCEPT !.op = call[c].pc])
    /\ UNCHANGED world /\ Fault

ReadBack(c) ==
    /\ call[c].pc = "readback"
    /\ Go(c, Resolved(c))
    /\ CallOnly /\ NoFault

\* A request is cancelled or its process dies, with a transaction under way.
Crash(c) ==
    /\ call[c].pc \notin {"idle", "done"}
    /\ IF call[c].pc \in Ops THEN Lost(Tx(c)) ELSE UNCHANGED <<ledger, late>>
    /\ Go(c, Answered(c, "UNAVAILABLE"))
    /\ UNCHANGED world /\ Fault

\* A transaction lands after its caller stopped waiting, or is refused.
LandLate(o) ==
    /\ o \in late /\ late' = late \ {o}
    /\ IF Matches(o) THEN Commit(o) ELSE UNCHANGED ledger
    /\ UNCHANGED <<world, call>> /\ NoFault

-----------------------------------------------------------------------------
\* Cloud Tasks, the authority and the clock.

\* A task is created once under its name.
CreateTask(c) ==
    /\ wire[c] # None /\ wire[c].state = "sent"
    /\ wire' = [wire EXCEPT ![c].state = IF wire[c].task \in queue THEN "exists"
                                         ELSE "created"]
    /\ queue' = queue \cup {wire[c].task}
    /\ UNCHANGED <<now, rootState, log, ledger, call, late>> /\ NoFault

\* The transport repeats a request that was processed.
CreateTaskTwice(c) ==
    /\ wire[c] # None /\ wire[c].state = "created"
    /\ wire' = [wire EXCEPT ![c].state = "exists"]
    /\ UNCHANGED <<now, rootState, log, ledger, queue, call, late>> /\ Fault

\* A revocation or a fence commits with the time t that it read before.
AdvanceEpoch(t, claim) ==
    /\ authority.claim = "ACTIVE" /\ authority.epoch < MaxEpoch
    /\ t \in authority.changed .. now
    /\ authority' = [epoch |-> authority.epoch + 1, changed |-> t, claim |-> claim,
                     cause |-> "OPERATOR_REVOCATION"]
    /\ revoked' = IF claim = "ACTIVE"
                  THEN revoked \cup {[new |-> authority.epoch + 1, at |-> t,
                                      previous |-> authority.epoch]}
                  ELSE revoked
    /\ UNCHANGED <<now, proofs, intent, log, ledger, wire, queue, call, late>> /\ NoFault

\* read_epoch_revocation_proof: the result and the authority, in one read.
ProofState(r) == [result |-> r, authority |-> authority]

\* EpochRevocationProofService.read: a proof is given out while the authority is
\* the revocation's; who holds it keeps it.
ReadProof(r) ==
    /\ r \in revoked
    /\ RevocationProofValid(ProofState(r).result, ProofState(r).authority)
    /\ proofs' = proofs \cup {r}
    /\ UNCHANGED <<now, authority, revoked, intent, log, ledger, wire, queue, call, late>>
    /\ NoFault

\* The terminal unhealthy decision is appended together with the intent of its
\* recovery, whatever became of the epoch since it was read.
HealthTerminates(m) ==
    /\ m.source = UnhealthySource /\ intent = None /\ now >= Unhealthy.decided
    /\ IntentValid(IntentOf(m)) /\ intent' = IntentOf(m)
    /\ UNCHANGED <<now, authority, revoked, proofs, log, ledger, wire, queue, call, late>>
    /\ NoFault

Tick ==
    /\ now < MaxNow /\ now' = now + 1
    /\ UNCHANGED <<rootState, log, ledger, wire, queue, call, late>> /\ NoFault

CallStep(c) ==
    \/ ReadDispatch(c) \/ Resolve(c) \/ Issue(c) \/ Sign(c) \/ Confirm(c)
    \/ OwnIntent(c) \/ ReadRecovery(c) \/ ReadInputs(c) \/ Observe(c) \/ Authorize(c)
    \/ RecordPromotion(c) \/ RecordCanary(c) \/ RecordRecovery(c) \/ Seal(c) \/ Enqueue(c) \/ EnqueueReturns(c)
    \/ CommitConfirmed(c) \/ CommitRefused(c) \/ ReadBack(c)

CallFault(c) == Unavailable(c) \/ CommitLost(c) \/ Crash(c) \/ CreateTaskTwice(c)

Next ==
    \/ \E c \in Call, m \in Command : \E par \in 0 .. Len(log) : Begin(c, m, par)
    \/ \E c \in Call : CallStep(c) \/ CallFault(c) \/ CreateTask(c)
    \/ \E o \in late : LandLate(o)
    \/ \E t \in 0 .. MaxNow, claim \in {"ACTIVE", "RELEASING"} : AdvanceEpoch(t, claim)
    \/ \E r \in revoked : ReadProof(r)
    \/ \E m \in Recoveries : HealthTerminates(m)
    \/ Tick

Spec == Init /\ [][Next]_vars

-----------------------------------------------------------------------------
\* Properties.

\* CreateTask is called at most once for a promotion command, whichever calls,
\* crashes, lost answers and late transactions its record goes through.
PromotionEnqueuedOnce ==
    \A m \in Promotions :
      Cardinality({c \in Call : /\ wire[c] # None
                                /\ wire[c].task.auth = CreateAuthorization(m)}) <= 1

\* A request, an idempotency key and a dispatch record are owned together: the
\* corrupt states that read_promotion_dispatch_v2 looks for are not reachable.
OwnershipIsWhole == \A m \in Promotions : Found(m) # "CORRUPT"

\* A promotion that answered with a disposition answers what is stored, and what
\* is stored as CREATED or DUPLICATE is in the queue.
AnswersAreStored ==
    /\ \A c \in Call :
         /\ call[c].pc = "done" /\ Promotes(c) /\ call[c].code \in Dispositions
         => dispatch[Cmd(c)].state = call[c].code
    /\ \A m \in Promotions :
         dispatch[m].state \in {"CREATED", "DUPLICATE"} => dispatch[m].task \in queue

\* What the issuer signed and the coordinator enqueued, the executor's verifier
\* allows at every second of the task's window: their checks of lineages, hops,
\* authorizations and times agree.
IssuerAndExecutorAgree ==
    \A t \in queue : \A at \in t.sched .. t.exp - 1 : Verify(log, t, at) = "ALLOWED"

\* No capability of the current epoch is older than the epoch: the issuer reads
\* its clock before it reads the authority, and refuses when the epoch is newer.
IssuedUnderItsEpoch ==
    \A i \in DOMAIN log :
      /\ log[i].epoch <= authority.epoch
      /\ log[i].epoch = authority.epoch => log[i].issued >= authority.changed
=============================================================================
