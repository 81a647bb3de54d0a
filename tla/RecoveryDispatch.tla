-------------------------- MODULE RecoveryDispatch --------------------------
(***************************************************************************)
(* The one recovery of a rollout root: who may own it, how its task gets   *)
(* into the queue once, and how an operator abandons it.                   *)
(*                                                                         *)
(* A health evaluation that ends unhealthy reserves the root's recovery    *)
(* intent in the transaction that appends its proof; an operator who       *)
(* revoked the epoch reserves it with the recovery command.  The owner     *)
(* prepares a dispatch record, marks it ENQUEUE_STARTED, calls CreateTask  *)
(* and records what came of it.  An expired dispatch without an execution  *)
(* receipt can be abandoned: one transaction makes it AMBIGUOUS, advances  *)
(* the epoch and parks the claim, a second one releases the claim.         *)
(*                                                                         *)
(* The canary of the root is applied and VERIFIED at epoch 1.  One action  *)
(* per awaited call; transactions are shielded and may land late.  The     *)
(* executor is coarse (ReceiptExecution has its detail).  A record's       *)
(* digests, capability and task are one thing, named by its command and    *)
(* its deadline.  The coordinator has one clock, the executor another.     *)
(***************************************************************************)
EXTENDS AbandonmentDocuments, FiniteSets

CONSTANTS
    Call,         \* invocations of evaluate and of the recovery route
    Command,      \* the recovery commands they carry: source and epoch
    Abandon,      \* invocations of the abandonment route
    Delivery,     \* deliveries of the recovery task
    Lifetime,     \* RECOVERY_PRESTATE_VALIDITY_SECONDS
    Margin,       \* what a task must have left when it is addressed
    Window,       \* RECEIPT_NEW_CLAIM_RECOVERY_WINDOW_SECONDS
    TokenLife,    \* how long the token lives that Cloud Tasks sends with a delivery
    Skew,         \* how far the executor's clock may lag behind the coordinator's
    MaxAttempts,  \* MAX_RECOVERY_ABANDONMENT_ATTEMPTS
    MaxNow,       \* bound on the clock
    MaxEpoch,     \* bound on the authority epoch
    MaxFaults     \* bound on lost answers, failed calls and crashes

ASSUME RecoveryConstants ==
    /\ NoCommand \notin Command
    /\ \A m \in Command : m.source \in {"UNHEALTHY", "REVOKED"} /\ m.epoch \in Nat
    /\ \A m \in Command : m.source = "UNHEALTHY" => m.epoch = 1
    /\ Lifetime \in Nat /\ Margin \in Nat /\ Window \in Nat /\ Skew \in Nat
    /\ TokenLife \in Nat /\ MaxAttempts \in Nat /\ MaxNow \in Nat
    /\ MaxEpoch \in Nat /\ MaxFaults \in Nat

VARIABLES
    now,        \* the clock
    authority,  \* current_epoch and the status of the service claim
    intent,     \* the command in the root's RecoveryIntentV1
    dispatch,   \* the RecoveryDispatchRecordV2 of each command
    wire,       \* what became of the CreateTask request of each call
    queue,      \* commands whose task exists in Cloud Tasks
    receipt,    \* the execution receipt of the recovery
    service,    \* traffic of the Cloud Run service
    effect,     \* deliveries that called UpdateService
    progress,   \* the abandonment command that fenced the root
    released,   \* that abandonment has a result
    call,       \* the local state of each invocation
    ab,         \* the local state of each abandonment invocation
    dl,         \* the local state of each delivery
    late,       \* transactions whose callers stopped waiting
    faults      \* how many faults happened so far

ledger == <<authority, intent, dispatch, progress, released>>
world == <<wire, queue, receipt, service, effect>>
procs == <<call, ab, dl>>
vars == <<now, authority, intent, dispatch, wire, queue, receipt, service, effect,
          progress, released, call, ab, dl, late, faults>>

Dispositions == {"CREATED", "DUPLICATE", "AMBIGUOUS"}
NoAbandon == [of |-> NoCommand, epoch |-> 0, rec |-> NoDispatch]

Idle == [pc |-> "idle", cmd |-> NoCommand, seen |-> NoAuthority, rec |-> NoDispatch,
         op |-> "none", code |-> "none"]
AbIdle == [pc |-> "idle", cmd |-> NoAbandon, born |-> 0, tries |-> 0,
           seen |-> NoSnapshot, op |-> "none", code |-> "none"]
Waiting == [pc |-> "waiting", cmd |-> NoCommand, born |-> 0, seen |-> NoAuthority]

Init ==
    /\ now = 0
    /\ authority = [epoch |-> 1, claim |-> "ACTIVE"]
    /\ intent = NoCommand /\ dispatch = [m \in Command |-> NoDispatch]
    /\ wire = [c \in Call |-> "none"] /\ queue = {}
    /\ receipt = NoReceipt /\ service = "CANARY" /\ effect = {}
    /\ progress = NoAbandon /\ released = FALSE
    /\ call = [c \in Call |-> Idle] /\ ab = [a \in Abandon |-> AbIdle]
    /\ dl = [d \in Delivery |-> Waiting]
    /\ late = {} /\ faults = 0

-----------------------------------------------------------------------------
\* Local states.

Cmd(c) == call[c].cmd
Go(c, next) == call' = [call EXCEPT ![c] = next]
To(c, pc) == [call[c] EXCEPT !.pc = pc, !.op = "none"]
Answered(c, code) == [Idle EXCEPT !.pc = "done", !.cmd = Cmd(c), !.code = code]
CallOnly == UNCHANGED <<now, ledger, world, ab, dl, late>>
Fault == faults < MaxFaults /\ faults' = faults + 1
NoFault == UNCHANGED faults

\* The enqueue of a record was started: an AMBIGUOUS record of revision 1 is
\* one that was abandoned while it was PREPARED.
Started(r) == r.state = "ENQUEUE_STARTED" \/ r.rev > 1

\* The proof that ends the health chain and the intent are written together.
ChainEnded == intent # NoCommand /\ intent.source = "UNHEALTHY"

-----------------------------------------------------------------------------
\* The health evaluation that finds the canary unhealthy.

\* A revoked command quotes the revocation that made its epoch current.
Begin(c, m) ==
    /\ call[c] = Idle
    /\ m.source = "REVOKED" => authority.epoch >= m.epoch
    /\ Go(c, [Idle EXCEPT !.cmd = m,
                          !.pc = IF m.source = "REVOKED" THEN "intent" ELSE "trusted"])
    /\ CallOnly /\ NoFault

AuthorityCurrent(m) == authority = [epoch |-> m.epoch, claim |-> "ACTIVE"]

\* _read_trusted_inputs
ReadTrusted(c) ==
    /\ call[c].pc = "trusted"
    /\ Go(c, IF AuthorityCurrent(Cmd(c))
             THEN [To(c, "chain") EXCEPT !.seen = authority]
             ELSE Answered(c, "AUTHORITY_STALE"))
    /\ CallOnly /\ NoFault

\* An ended chain is adopted with the command that its intent names; otherwise
\* the target is verified, the window evaluated and the proof signed.
ReadChain(c) ==
    /\ call[c].pc = "chain"
    /\ Go(c, IF ChainEnded THEN [To(c, "readopt") EXCEPT !.cmd = intent]
             ELSE To(c, "refresh"))
    /\ CallOnly /\ NoFault

\* The trusted inputs are read again before anything is written or dispatched.
Refresh(c) ==
    /\ call[c].pc \in {"refresh", "readopt"}
    /\ Go(c, IF authority # call[c].seen THEN Answered(c, "AUTHORITY_STALE")
             ELSE To(c, IF call[c].pc = "refresh" THEN "append" ELSE "intent"))
    /\ CallOnly /\ NoFault

-----------------------------------------------------------------------------
\* RecoveryDispatchCoordinator.dispatch.

\* _owned_intent: only a revoked source may reserve here.
ReadIntent(c) ==
    /\ call[c].pc = "intent"
    /\ Go(c, IF intent = Cmd(c) THEN To(c, "read")
             ELSE IF intent # NoCommand THEN Answered(c, "IDENTITY_CONFLICT")
             ELSE IF Cmd(c).source = "REVOKED" THEN To(c, "reserve")
             ELSE Answered(c, "TRUSTED_STATE_INVALID"))
    /\ CallOnly /\ NoFault

\* Mutant: an enqueue under way is reported as ambiguous.
AdoptedEarly(r) ==
    IF r.state = "ENQUEUE_STARTED" THEN "AMBIGUOUS"
    ELSE IF r.state \in Dispositions THEN r.state ELSE "OUTCOME_UNKNOWN"

\* What a caller makes of a record it did not just write.
Adopted(r) == IF r.state \in Dispositions THEN r.state ELSE "OUTCOME_UNKNOWN"

\* The record is read; a PREPARED one is continued, whoever prepared it.
ReadDispatch(c) ==
    /\ call[c].pc = "read"
    /\ LET r == dispatch[Cmd(c)] IN
       Go(c, IF r = NoDispatch THEN To(c, "resolve")
             ELSE IF r.state = "PREPARED" THEN [To(c, "seal") EXCEPT !.rec = r]
             ELSE Answered(c, Adopted(r)))
    /\ CallOnly /\ NoFault

\* _read_inputs
InputsValid(m) == AuthorityCurrent(m) /\ intent = m

\* The first read of resolve; its time starts the validity of the proof.
Resolve(c) ==
    /\ call[c].pc = "resolve"
    /\ Go(c, IF InputsValid(Cmd(c))
             THEN [To(c, "attest") EXCEPT
                     !.rec = [state |-> "PREPARED", rev |-> 0, expires |-> now + Lifetime]]
             ELSE Answered(c, "TRUSTED_STATE_INVALID"))
    /\ CallOnly /\ NoFault

\* The verifier attests the exact canary configuration.
Attest(c) ==
    /\ call[c].pc = "attest"
    /\ Go(c, IF service = "CANARY" THEN To(c, "confirm")
             ELSE Answered(c, "ATTESTATION_INVALID"))
    /\ CallOnly /\ NoFault

\* The inputs are read again by the resolver and by the capability issuer.
Confirm(c) ==
    /\ call[c].pc \in {"confirm", "issue"}
    /\ Go(c, IF ~InputsValid(Cmd(c))
             THEN Answered(c, IF call[c].pc = "issue" THEN "ISSUANCE_DENIED"
                              ELSE "TRUSTED_STATE_INVALID")
             ELSE To(c, IF call[c].pc = "confirm" THEN "issue" ELSE "prepare"))
    /\ CallOnly /\ NoFault

\* The task is addressed: it must not be expired and have its margin left.
Seal(c) ==
    /\ call[c].pc = "seal"
    /\ LET left == call[c].rec.expires - now IN
       Go(c, IF left > 0 /\ left >= Margin THEN To(c, "begin")
             ELSE Answered(c, "TRUSTED_STATE_INVALID"))
    /\ CallOnly /\ NoFault

\* Mutant: a record found ENQUEUE_STARTED is enqueued again.
EnqueueAgain(c) ==
    /\ \/ call[c].pc = "enqueue"
       \/ call[c].pc = "read" /\ dispatch[Cmd(c)].state = "ENQUEUE_STARTED"
    /\ wire' = [wire EXCEPT ![c] = "sent"]
    /\ Go(c, [To(c, "await") EXCEPT !.rec = dispatch[Cmd(c)]])
    /\ UNCHANGED <<now, ledger, queue, receipt, service, effect, ab, dl, late>>
    /\ NoFault

\* CreateTask leaves with the permit of a directly confirmed start.
Enqueue(c) ==
    /\ call[c].pc = "enqueue"
    /\ wire' = [wire EXCEPT ![c] = "sent"]
    /\ Go(c, To(c, "await"))
    /\ UNCHANGED <<now, ledger, queue, receipt, service, effect, ab, dl, late>>
    /\ NoFault

Finishing(c, disposition) ==
    [To(c, "finish") EXCEPT !.rec = [@ EXCEPT !.state = disposition, !.rev = 2]]

\* CreateTask answers, or fails or times out whatever became of it.
EnqueueReturns(c) ==
    /\ call[c].pc = "await"
    /\ \/ wire[c] = "created" /\ Go(c, Finishing(c, "CREATED")) /\ NoFault
       \/ wire[c] = "exists" /\ Go(c, Finishing(c, "DUPLICATE")) /\ NoFault
       \/ Go(c, Finishing(c, "AMBIGUOUS")) /\ Fault
    /\ CallOnly

\* A read or a call that changes nothing fails.
Unavailable(c) ==
    /\ call[c].pc \in {"trusted", "chain", "refresh", "readopt", "intent", "read",
                       "resolve", "attest", "confirm", "issue", "readback"}
    /\ Go(c, Answered(c, "UNAVAILABLE"))
    /\ CallOnly /\ Fault

-----------------------------------------------------------------------------
\* Recovery abandonment.

Progressed == progress # NoAbandon
AbGo(a, next) == ab' = [ab EXCEPT ![a] = next]
AbTo(a, pc) == [ab[a] EXCEPT !.pc = pc, !.op = "none"]
AbAnswered(code) == [AbIdle EXCEPT !.pc = "done", !.code = code]
AbOnly == UNCHANGED <<now, ledger, world, call, dl, late>>

\* The operator names the epoch and the dispatch record it saw, or repeats the
\* command that fenced the root.
AbandonCommands ==
    {[of |-> intent, epoch |-> authority.epoch, rec |-> dispatch[intent]] :
         m \in IF intent = NoCommand THEN {} ELSE {intent}}
    \cup (IF Progressed THEN {progress} ELSE {})

BeginAbandon(a, m) ==
    /\ ab[a] = AbIdle
    /\ m \in AbandonCommands
    /\ AbGo(a, [AbIdle EXCEPT !.pc = "read", !.cmd = m, !.born = now])
    /\ AbOnly /\ NoFault

\* The record and the receipt are found through the intent.
RecoveryRead ==
    IF intent = NoCommand THEN [rec |-> NoDispatch, receipt |-> NoReceipt]
    ELSE [rec |-> dispatch[intent], receipt |-> receipt]

\* The evidence of m on the chain.
StagesStored(m) ==
    IF progress # m THEN {}
    ELSE IF released THEN FenceStages \cup ReleaseStages ELSE FenceStages

\* read_recovery_abandonment_state, in one transaction
Snapshot(m) ==
    [authority |-> authority, intent |-> intent, rec |-> RecoveryRead.rec,
     receipt |-> RecoveryRead.receipt, stages |-> StagesStored(m)]

\* One turn of _abandon_locked: what is stored of the command, then a denial,
\* then the fence, or the classification once the fence is there.
ReadAbandonment(a) ==
    /\ ab[a].pc = "read"
    /\ LET m == ab[a].cmd
           s == Snapshot(m)
           denial == StateDenial(m, s, ab[a].born) IN
       AbGo(a, IF ab[a].tries = MaxAttempts THEN AbAnswered("OUTCOME_UNKNOWN")
               ELSE IF Torn(s) \/ ~StoredExactly(m, s) THEN AbAnswered("TRUSTED_STATE_INVALID")
               ELSE IF HasResult(s) THEN AbAnswered("RELEASED")
               ELSE IF denial # "none" THEN AbAnswered(denial)
               ELSE [AbTo(a, IF HasProgress(s) THEN "classify" ELSE "fence") EXCEPT !.seen = s])
    /\ AbOnly /\ NoFault

\* The target must serve the stable baseline.  Its generation is past the one
\* of the claim since the canary was applied.
ClassifyTarget(a) ==
    /\ ab[a].pc = "classify"
    /\ LET q == ClassificationRequest(ab[a].cmd) IN
       AbGo(a, IF Accepts(q, Attestation(q, service)) THEN AbTo(a, "release")
               ELSE AbAnswered("CLASSIFICATION_DENIED"))
    /\ AbOnly /\ NoFault

AbUnavailable(a) ==
    /\ ab[a].pc \in {"read", "classify"}
    /\ AbGo(a, AbAnswered("UNAVAILABLE"))
    /\ AbOnly /\ Fault

-----------------------------------------------------------------------------
\* Transactions.  o compares what its documents were built from and writes
\* them all, or nothing.

Tx(c) == [op |-> call[c].pc, cmd |-> Cmd(c), rec |-> call[c].rec]
AbTx(a) == [op |-> ab[a].pc, cmd |-> ab[a].cmd, rec |-> ab[a].seen]

\* append_signed_health_proof, create_or_adopt_recovery_intent: neither one
\* reads the authority.
IntentMatches(o) == o.op \in {"append", "reserve"} /\ intent = NoCommand

\* prepare_or_adopt_recovery_dispatch
PrepareMatches(o) ==
    o.op = "prepare" /\ intent = o.cmd /\ dispatch[o.cmd] = NoDispatch

\* begin_recovery_enqueue
BeginMatches(o) == o.op = "begin" /\ dispatch[o.cmd] = o.rec

\* Mutant: the result is written over whatever is there.
FinishAnything(o) == o.op = "finish"

\* compare_and_set_recovery_dispatch with the terminal record
FinishMatches(o) ==
    /\ o.op = "finish"
    /\ dispatch[o.cmd] = [o.rec EXCEPT !.state = "ENQUEUE_STARTED", !.rev = 1]

\* commit_recovery_abandonment_fence
FenceMatches(o) ==
    /\ o.op = "fence" /\ FenceValid(o.cmd, o.rec, FenceCommit(o.cmd, o.rec))
    /\ ~Progressed /\ Snapshot(o.cmd) = o.rec

\* commit_recovery_abandonment_release
ReleaseMatches(o) ==
    /\ o.op = "release" /\ ReleaseValid(o.cmd, o.rec, ReleaseCommit(o.cmd, o.rec))
    /\ progress = o.cmd /\ ~released /\ Snapshot(o.cmd) = o.rec

Matches(o) ==
    \/ IntentMatches(o) \/ PrepareMatches(o) \/ BeginMatches(o) \/ FinishMatches(o)
    \/ FenceMatches(o) \/ ReleaseMatches(o)

WriteIntent(o) ==
    /\ o.op \in {"append", "reserve"}
    /\ intent' = o.cmd
    /\ UNCHANGED <<authority, dispatch, progress, released>>

\* The prepared record, the started one or the terminal one.
WriteRecord(o) ==
    /\ o.op \in {"prepare", "begin", "finish"}
    /\ dispatch' = [dispatch EXCEPT ![o.cmd] =
                      IF o.op = "begin"
                      THEN [o.rec EXCEPT !.state = "ENQUEUE_STARTED", !.rev = 1]
                      ELSE o.rec]
    /\ UNCHANGED <<authority, intent, progress, released>>

WriteFence(o) ==
    /\ o.op = "fence"
    /\ LET d == FenceCommit(o.cmd, o.rec) IN
       /\ authority' = d.fence.left
       /\ dispatch' = [dispatch EXCEPT ![o.cmd.of] = d.subject.left]
       /\ progress' = d.progress
    /\ UNCHANGED <<intent, released>>

WriteRelease(o) ==
    /\ o.op = "release"
    /\ authority' = ReleaseCommit(o.cmd, o.rec).authority
    /\ released' = TRUE
    /\ UNCHANGED <<intent, dispatch, progress>>

Commit(o) ==
    Matches(o) /\ (WriteIntent(o) \/ WriteRecord(o) \/ WriteFence(o) \/ WriteRelease(o))

Ops == {"append", "reserve", "prepare", "begin", "finish"}
AbOps == {"fence", "release"}

\* What a dispatching call does after its own write.
Committed(c) ==
    CASE call[c].pc = "append" -> To(c, "intent")
      [] call[c].pc = "reserve" -> To(c, "read")
      [] call[c].pc = "prepare" -> To(c, "seal")
      [] call[c].pc = "begin" ->
           [To(c, "enqueue") EXCEPT
              !.rec = [@ EXCEPT !.state = "ENQUEUE_STARTED", !.rev = 1]]
      [] call[c].pc = "finish" -> Answered(c, call[c].rec.state)

\* What it may do when it finds that another write came first, or when it
\* reads back after a lost answer.  Two preparations of one second need not be
\* the same document.  A start that was not directly confirmed is no permit.
Found(c, op) ==
    CASE op = "append" ->
           {IF intent = Cmd(c) THEN To(c, "intent")
            ELSE IF ChainEnded THEN [To(c, "readopt") EXCEPT !.cmd = intent]
            ELSE Answered(c, "STORE_UNAVAILABLE")}
      [] op = "reserve" ->
           {IF intent = Cmd(c) THEN To(c, "read")
            ELSE Answered(c, IF intent = NoCommand THEN "OUTCOME_UNKNOWN"
                             ELSE "IDENTITY_CONFLICT")}
      [] op = "prepare" ->
           {Answered(c, IF dispatch[Cmd(c)] = NoDispatch /\ intent = Cmd(c)
                        THEN "OUTCOME_UNKNOWN" ELSE "IDENTITY_CONFLICT")}
           \cup (IF dispatch[Cmd(c)] = call[c].rec THEN {To(c, "seal")} ELSE {})
      [] OTHER -> {Answered(c, Adopted(dispatch[Cmd(c)]))}

CommitConfirmed(c) ==
    /\ call[c].pc \in Ops
    /\ Commit(Tx(c))
    /\ Go(c, Committed(c))
    /\ UNCHANGED <<now, world, ab, dl, late>> /\ NoFault

CommitRefused(c) ==
    /\ call[c].pc \in Ops /\ ~Matches(Tx(c))
    /\ \E next \in Found(c, call[c].pc) : Go(c, next)
    /\ CallOnly /\ NoFault

\* The answer of o is lost: it landed, it did not, or it will.
Lost(o) ==
    \/ Commit(o) /\ UNCHANGED late
    \/ UNCHANGED <<ledger, late>>
    \/ UNCHANGED ledger /\ late' = late \cup {o}

CommitLost(c) ==
    /\ call[c].pc \in Ops
    /\ Lost(Tx(c))
    /\ Go(c, [To(c, "readback") EXCEPT !.op = call[c].pc])
    /\ UNCHANGED <<now, world, ab, dl>> /\ Fault

ReadBack(c) ==
    /\ call[c].pc = "readback"
    /\ \E next \in Found(c, call[c].op) : Go(c, next)
    /\ CallOnly /\ NoFault

\* A request is cancelled or its process dies, with a transaction under way.
Crash(c) ==
    /\ call[c].pc \notin {"idle", "done"}
    /\ IF call[c].pc \in Ops THEN Lost(Tx(c)) ELSE UNCHANGED <<ledger, late>>
    /\ Go(c, Answered(c, "CRASHED"))
    /\ UNCHANGED <<now, world, ab, dl>> /\ Fault

\* The fence is answered at once: the operator resets the service and repeats
\* the command.
AbConfirmed(a) ==
    /\ ab[a].pc \in AbOps
    /\ Commit(AbTx(a))
    /\ AbGo(a, AbAnswered(IF ab[a].pc = "fence" THEN "FENCED_RESET_REQUIRED"
                             ELSE "RELEASED"))
    /\ UNCHANGED <<now, world, call, dl, late>> /\ NoFault

AbRefused(a) ==
    /\ ab[a].pc \in AbOps /\ ~Matches(AbTx(a))
    /\ AbGo(a, [AbTo(a, "read") EXCEPT !.tries = @ + 1, !.seen = NoSnapshot])
    /\ AbOnly /\ NoFault

AbLost(a) ==
    /\ ab[a].pc \in AbOps
    /\ Lost(AbTx(a))
    /\ AbGo(a, [AbTo(a, "readback") EXCEPT !.op = ab[a].pc])
    /\ UNCHANGED <<now, world, call, dl>> /\ Fault

AbReadBack(a) ==
    /\ ab[a].pc = "readback"
    /\ LET m == ab[a].cmd IN AbGo(a, AbAnswered(Resolved(m, Snapshot(m), ab[a].op)))
    /\ AbOnly /\ NoFault

\* A transaction lands after its caller stopped waiting, or is refused.
LandLate(o) ==
    /\ o \in late /\ late' = late \ {o}
    /\ IF Matches(o) THEN Commit(o) ELSE UNCHANGED ledger
    /\ UNCHANGED <<now, world, procs>> /\ NoFault

-----------------------------------------------------------------------------
\* Cloud Tasks: a task is created once under its name.

CreateTask(c) ==
    /\ wire[c] = "sent"
    /\ wire' = [wire EXCEPT ![c] = IF Cmd(c) \in queue THEN "exists" ELSE "created"]
    /\ queue' = queue \cup {Cmd(c)}
    /\ UNCHANGED <<now, ledger, receipt, service, effect, procs, late>> /\ NoFault

\* The transport repeats a request that was processed.
CreateTaskTwice(c) ==
    /\ wire[c] = "created"
    /\ wire' = [wire EXCEPT ![c] = "exists"]
    /\ UNCHANGED <<now, ledger, queue, receipt, service, effect, procs, late>> /\ Fault

-----------------------------------------------------------------------------
\* The executor, in the steps that matter here.

\* What the executor's clock may show.
ExecutorNow == {t \in 0..now : t + Skew >= now}

Step(d, next) == dl' = [dl EXCEPT ![d] = next]
DlTo(d, pc) == [dl[d] EXCEPT !.pc = pc]
Ended == [Waiting EXCEPT !.pc = "done"]

\* The delivery is admitted while its token and its task are valid.  Near the
\* deadline it may only adopt.
Deliver(d, m) ==
    /\ dl[d] = Waiting /\ m \in queue
    /\ \E t \in ExecutorNow :
         /\ t < dispatch[m].expires
         /\ Step(d, [Waiting EXCEPT !.cmd = m, !.born = t,
                       !.pc = IF t + Window >= dispatch[m].expires THEN "adopt" ELSE "claim"])
    /\ UNCHANGED <<now, ledger, world, call, ab, late>> /\ NoFault

\* claim_or_adopt_receipt: only a confirmed create goes on to the gate.
ClaimReceipt(d) ==
    /\ dl[d].pc = "claim" /\ receipt = NoReceipt
    /\ receipt' = [NoReceipt EXCEPT !.outcome = "CLAIMED"]
    /\ \/ Step(d, DlTo(d, "gate")) /\ NoFault
       \/ Step(d, Ended) /\ Fault
    /\ UNCHANGED <<now, ledger, wire, queue, service, effect, call, ab, late>>

\* Another delivery has the receipt: a claim that looks orphaned is settled by
\* a readback of the target.
AdoptReceipt(d) ==
    /\ \/ dl[d].pc = "adopt"
       \/ dl[d].pc = "claim" /\ receipt # NoReceipt
    /\ \/ UNCHANGED receipt
       \/ /\ receipt.outcome = "CLAIMED"
          /\ receipt' = [NoReceipt EXCEPT !.outcome = IF service = "STABLE" THEN "VERIFIED"
                                                      ELSE "AMBIGUOUS"]
    /\ Step(d, Ended)
    /\ UNCHANGED <<now, ledger, wire, queue, service, effect, call, ab, late>> /\ NoFault

\* The last read of the FinalMutationGate.
ReadAuthority(d) ==
    /\ dl[d].pc = "gate"
    /\ Step(d, [DlTo(d, "decide") EXCEPT !.seen = authority])
    /\ UNCHANGED <<now, ledger, world, call, ab, late>> /\ NoFault

\* When the token may expire that was valid at the admission of d.
TokenEnds(d) == dl[d].born + 1 .. dl[d].born + TokenLife

\* _final_caller_denial: the token is not valid, or not yet.
CallerDenied(t, until) == ~(until - TokenLife <= t /\ t < until)

\* Mutant: the clock is looked at before the epoch.
ExpiryFirst(m, seen, t, until) ==
    IF CallerDenied(t, until) THEN "CALLER_UNAUTHORIZED"
    ELSE IF t >= dispatch[m].expires THEN "CAPABILITY_EXPIRED"
    ELSE IF seen.epoch # m.epoch THEN "EPOCH_MISMATCH"
    ELSE IF seen.claim # "ACTIVE" THEN "AUTHORITY_UNAVAILABLE"
    ELSE "NONE"

\* Mutant: only the claim is looked at, and a parked one will do.
ClaimHeld(m, seen, t, until) ==
    IF CallerDenied(t, until) THEN "CALLER_UNAUTHORIZED"
    ELSE IF seen.claim = "RELEASED" THEN "AUTHORITY_UNAVAILABLE" ELSE "NONE"

\* _final_authority_denial, in its order: the caller, the epoch, the claim, the
\* deadlines.
FinalDenial(m, seen, t, until) ==
    IF CallerDenied(t, until) THEN "CALLER_UNAUTHORIZED"
    ELSE IF seen.epoch # m.epoch THEN "EPOCH_MISMATCH"
    ELSE IF seen.claim # "ACTIVE" THEN "AUTHORITY_UNAVAILABLE"
    ELSE IF t >= dispatch[m].expires THEN "CAPABILITY_EXPIRED"
    ELSE "NONE"

\* A replacement of the receipt is written only over the claim.
Record(r) == receipt' = IF receipt.outcome = "CLAIMED" THEN r ELSE receipt

Deny(d) ==
    /\ dl[d].pc = "decide"
    /\ \E t \in ExecutorNow, until \in TokenEnds(d) :
         LET why == FinalDenial(dl[d].cmd, dl[d].seen, t, until) IN
         /\ why # "NONE"
         /\ Record([outcome |-> "DENIED", reason |-> why, seen |-> dl[d].seen.epoch])
    /\ Step(d, Ended)
    /\ UNCHANGED <<now, ledger, wire, queue, service, effect, call, ab, late>> /\ NoFault

\* The gate cannot read what it must.
GateUnavailable(d) ==
    /\ dl[d].pc = "gate"
    /\ Record([outcome |-> "DENIED", reason |-> "AUTHORITY_UNAVAILABLE", seen |-> 0])
    /\ Step(d, Ended)
    /\ UNCHANGED <<now, ledger, wire, queue, service, effect, call, ab, late>> /\ Fault

\* The gate lets the delivery through.
Permitted(d) ==
    /\ dl[d].pc = "decide"
    /\ \E t \in ExecutorNow, until \in TokenEnds(d) :
         FinalDenial(dl[d].cmd, dl[d].seen, t, until) = "NONE"

\* adapter.prepare saw other traffic than the canary's: mutate answers with
\* that rejection and calls nobody.
Reject(d) ==
    /\ Permitted(d) /\ service = "STABLE"
    /\ Step(d, DlTo(d, "refused"))
    /\ UNCHANGED <<now, ledger, world, call, ab, late>> /\ NoFault

\* UpdateService is called: it is applied, does not get through, or is refused
\* because the service was changed since.
Act(d) ==
    /\ Permitted(d)
    /\ effect' = effect \cup {d}
    /\ \/ service = "CANARY" /\ service' = "STABLE" /\ Step(d, DlTo(d, "persist")) /\ NoFault
       \/ UNCHANGED service /\ Step(d, DlTo(d, "persist")) /\ Fault
       \/ service = "STABLE" /\ UNCHANGED service /\ Step(d, DlTo(d, "refused")) /\ NoFault
    /\ UNCHANGED <<now, ledger, wire, queue, receipt, call, ab, late>>

\* The outcome is recorded: applied and read back, unknown, or safely refused.
Persist(d) ==
    /\ dl[d].pc \in {"persist", "refused"}
    /\ \E outcome \in IF dl[d].pc = "refused" THEN {"FAILED_SAFE"}
                      ELSE {"AMBIGUOUS"} \cup {o \in {"VERIFIED"} : service = "STABLE"} :
         Record([NoReceipt EXCEPT !.outcome = outcome])
    /\ Step(d, Ended)
    /\ UNCHANGED <<now, ledger, wire, queue, service, effect, call, ab, late>> /\ NoFault

DlCrash(d) ==
    /\ dl[d].pc \notin {"waiting", "done"}
    /\ Step(d, Ended)
    /\ UNCHANGED <<now, ledger, world, call, ab, late>> /\ Fault

-----------------------------------------------------------------------------
\* The operator's other doors, and time.

\* commit_epoch_revocation
Revoke ==
    /\ authority.claim = "ACTIVE" /\ authority.epoch < MaxEpoch
    /\ authority' = [authority EXCEPT !.epoch = @ + 1]
    /\ UNCHANGED <<now, intent, dispatch, progress, released, world, procs, late>>
    /\ NoFault

\* commit_service_claim_fence: of a canary stranded at its own epoch, or after
\* a verified recovery.
FenceClaim ==
    /\ authority.claim = "ACTIVE" /\ authority.epoch < MaxEpoch
    /\ authority.epoch = 1 \/ receipt.outcome = "VERIFIED"
    /\ authority' = [epoch |-> authority.epoch + 1, claim |-> "RELEASING"]
    /\ UNCHANGED <<now, intent, dispatch, progress, released, world, procs, late>>
    /\ NoFault

\* The separately audited reset puts the service back to stable.
ResetTarget ==
    /\ service = "CANARY"
    /\ service' = "STABLE"
    /\ UNCHANGED <<now, ledger, wire, queue, receipt, effect, procs, late>> /\ NoFault

Tick ==
    /\ now < MaxNow /\ now' = now + 1
    /\ UNCHANGED <<ledger, world, procs, late>> /\ NoFault

CallStep(c) ==
    \/ ReadTrusted(c) \/ ReadChain(c) \/ Refresh(c)
    \/ ReadIntent(c) \/ ReadDispatch(c) \/ Resolve(c) \/ Attest(c) \/ Confirm(c)
    \/ Seal(c) \/ Enqueue(c) \/ EnqueueReturns(c) \/ Unavailable(c)
    \/ CommitConfirmed(c) \/ CommitRefused(c) \/ CommitLost(c) \/ ReadBack(c)
    \/ Crash(c) \/ CreateTask(c) \/ CreateTaskTwice(c)

AbandonStep(a) ==
    \/ ReadAbandonment(a) \/ ClassifyTarget(a) \/ AbUnavailable(a)
    \/ AbConfirmed(a) \/ AbRefused(a) \/ AbLost(a) \/ AbReadBack(a)

DeliveryStep(d) ==
    \/ ClaimReceipt(d) \/ AdoptReceipt(d) \/ ReadAuthority(d) \/ Deny(d)
    \/ GateUnavailable(d) \/ Reject(d) \/ Act(d) \/ Persist(d) \/ DlCrash(d)

Next ==
    \/ \E c \in Call, m \in Command : Begin(c, m)
    \/ \E c \in Call : CallStep(c)
    \/ \E a \in Abandon : (\E m \in AbandonCommands : BeginAbandon(a, m)) \/ AbandonStep(a)
    \/ \E d \in Delivery : (\E m \in queue : Deliver(d, m)) \/ DeliveryStep(d)
    \/ \E o \in late : LandLate(o)
    \/ Revoke \/ FenceClaim \/ ResetTarget \/ Tick

Spec == Init /\ [][Next]_vars

-----------------------------------------------------------------------------
\* Properties.

DispatchType == [state : {"ABSENT", "PREPARED", "ENQUEUE_STARTED"} \cup Dispositions,
                 rev : Nat, expires : Nat]
AuthorityType == [epoch : Nat, claim : {"NONE", "ACTIVE", "RELEASING", "RELEASED"}]
AbandonType == [of : Command, epoch : Nat, rec : DispatchType]

\* Every document has the shape of its contract and a call carries a command
\* once it began.
TypeOK ==
    /\ now \in Nat /\ faults \in Nat /\ released \in BOOLEAN
    /\ authority \in AuthorityType
    /\ intent \in Command \cup {NoCommand}
    /\ dispatch \in [Command -> DispatchType]
    /\ wire \in [Call -> {"none", "sent", "created", "exists"}]
    /\ queue \subseteq Command /\ effect \subseteq Delivery
    /\ service \in {"CANARY", "STABLE"}
    /\ progress \in AbandonType \cup {NoAbandon}
    /\ \A c \in Call : call[c] # Idle => Cmd(c) \in Command
    /\ \A a \in Abandon : ab[a].pc \notin {"idle", "done"} => ab[a].cmd \in AbandonType
    /\ \A d \in Delivery : dl[d].pc \notin {"waiting", "done"} => dl[d].cmd \in Command

\* CreateTask is called at most once for a root, whatever evaluations,
\* operators, retries and lost answers there are: the permit of
\* begin_recovery_enqueue comes only from a directly confirmed start.
OneEnqueuePerRoot ==
    \A c, d \in Call : wire[c] # "none" /\ wire[d] # "none" => c = d

\* The dispatch record tells the truth about the queue: CREATED and DUPLICATE
\* only when the task exists, and a task exists only when the record says that
\* its enqueue was started (so abandoning a PREPARED one abandons nothing).
RecordsAreTrue ==
    \A m \in Command :
        /\ dispatch[m].state \in {"CREATED", "DUPLICATE"} => m \in queue
        /\ m \in queue => Started(dispatch[m])

\* A disposition once answered is what the record says for good, for every
\* caller, unless the recovery was abandoned.
AnswersAgree ==
    \A c \in Call :
        call[c].code \in Dispositions =>
            \/ dispatch[Cmd(c)].state = call[c].code
            \/ Progressed /\ dispatch[Cmd(c)].state = "AMBIGUOUS"

\* A recovery that was abandoned never calls UpdateService, not from a task
\* created late nor from a delivery admitted before the fence.
AbandonedNeverActs == Progressed => effect = {}

\* A denial that is recorded after the fence is the one that the finalization
\* accepts, with the fenced epoch: no deadline that passed meanwhile and no
\* other check comes first.  There are two exceptions, which leave the root
\* RELEASING: the gate could not read the authority, or the token of the
\* delivery was no longer valid, which is looked at before the epoch.
LateDenialIsExact ==
    [][Progressed /\ receipt' # receipt /\ receipt'.outcome = "DENIED" =>
         \/ ReceiptTolerated(progress, receipt')
         \/ \E d \in Delivery :
              dl[d].pc = "gate" /\ receipt'.reason = "AUTHORITY_UNAVAILABLE"
         \/ \E d \in Delivery : \E t \in ExecutorNow, until \in TokenEnds(d) :
              /\ dl[d].pc = "decide" /\ CallerDenied(t, until)
              /\ receipt'.reason = "CALLER_UNAUTHORIZED"]_vars

\* After the fence no straggling dispatcher changes the abandoned record, which
\* the finalization compares.
AbandonedRecordFrozen == [][Progressed => dispatch' = dispatch]_vars

\* A released claim leaves the service on the stable revision, for good.
ReleaseSawStable == released => service = "STABLE"

=============================================================================
