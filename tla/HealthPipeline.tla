--------------------------- MODULE HealthPipeline ---------------------------
(***************************************************************************)
(* The health evaluation of a verified canary: coordinator, verifier,      *)
(* evidence writer and Firestore chain store.                              *)
(*                                                                         *)
(* A call names the chain head that its operator has seen.  It reads the   *)
(* trusted state, relates the stored chain to the named head, has the      *)
(* verifier collect, evaluate and attest one window, reads the trusted     *)
(* state again and appends the proof if the chain is still the one it      *)
(* read.  One action per awaited call.  A store transaction that times out *)
(* goes on in the background and may land later.                           *)
(***************************************************************************)
EXTENDS HealthPolicy

CONSTANTS
    Caller,      \* concurrent evaluation calls
    Readings,    \* what Monitoring may return for a window
    MaxTime,     \* bound on the clock
    MaxFaults    \* bound on faults: lost answers, refused reads, crashes

\* Monitoring points carry a count or a latency, which are never negative.
MonitoringPage == Seq([slot : STRING, value : Nat])
ASSUME PipelineConstants ==
    /\ ReceiptAt \in Nat /\ MaxTime \in Nat /\ ReceiptAt <= MaxTime /\ MaxFaults \in Nat
    /\ \A r \in Readings : r.requests \in Seq(MonitoringPage) /\ r.latency \in Seq(MonitoringPage)

VARIABLES
    now,         \* the clock, in whole seconds
    epoch,       \* current_epoch of the root's epoch
    anchored,    \* the health anchor document exists
    chain,       \* the signed proofs under the chain head
    intent,      \* trigger of the root's one recovery intent
    late,        \* append transactions that were given up and may still land
    dispatched,  \* the recovery coordinator was handed the intent
    call,        \* the calls
    faults       \* faults so far

storage == <<anchored, chain, intent, late>>
hvars == <<now, epoch, storage, dispatched, call, faults>>

ExpectedEpoch == 1
Idle == [pc |-> "idle", seq |-> 0, snap |-> <<>>, proof |-> <<>>, out |-> None]

HealthInit ==
    /\ now = ReceiptAt /\ epoch = ExpectedEpoch
    /\ anchored = FALSE /\ chain = <<>> /\ intent = None /\ late = {}
    /\ dispatched = FALSE
    /\ call = [c \in Caller |-> Idle] /\ faults = 0

Fault == faults < MaxFaults /\ faults' = faults + 1
NoFault == UNCHANGED faults
To(c, k) == call' = [call EXCEPT ![c] = k]
Go(c, pc) == To(c, [call[c] EXCEPT !.pc = pc])

\* An answered call leaves nothing behind in the coordinator: the code of the
\* answer is named for the reader only, except where a signed proof is refused.
Answer(c, out) == To(c, Idle)
Quiet == UNCHANGED <<now, epoch>>

(* ------------------------------ the world ------------------------------ *)

Tick == now < MaxTime /\ now' = now + 1 /\ UNCHANGED <<epoch, storage, dispatched, call, faults>>

\* An operator revokes the epoch; a release of the service does too.
Revoke ==
    /\ epoch = ExpectedEpoch /\ epoch' = epoch + 1
    /\ UNCHANGED <<now, storage, dispatched, call, faults>>

\* The recovery of a revoked root takes the intent of the root.
ReserveRevoked ==
    /\ epoch # ExpectedEpoch /\ intent = None /\ intent' = "revoked"
    /\ UNCHANGED <<now, epoch, anchored, chain, late, dispatched, call, faults>>

(* ------------------------ relation and completion ---------------------- *)

\* The stored chain against the head that the call names.  Chains do not fork:
\* a head is known by its sequence.
Terminal(proofs) == proofs # <<>> /\ Last(proofs).decision.next = NoTime
Relation(proofs, seq) ==
    IF Len(proofs) = seq THEN IF Terminal(proofs) THEN "CONFLICT" ELSE "EVALUATE"
    ELSE IF Len(proofs) = seq + 1 THEN "ADOPT" ELSE "CONFLICT"

\* The root's claim is ACTIVE as long as its epoch is the expected one.
TrustedCurrent == epoch = ExpectedEpoch

\* What follows a reading of the chain.
Related(c, seq, proofs) ==
    LET go(pc) == To(c, [Idle EXCEPT !.pc = pc, !.seq = seq, !.snap = proofs])
    IN CASE Relation(proofs, seq) = "CONFLICT" -> Answer(c, "STORE_CONFLICT")
         [] Relation(proofs, seq) = "ADOPT" -> go("adopt")
         [] Relation(proofs, seq) = "EVALUATE" -> go("verify")

(* ----------------------------- coordinator ----------------------------- *)

\* The anchor of the root and receipt is created once and adopted afterwards.
CreateOrAdoptAnchor == anchored' = TRUE

\* What a call does before the verifier: it reads the root bundle and the
\* receipt, and the chain if its anchor is stored; unless that answers the call,
\* it has the target looked at independently and creates or adopts the anchor.
\* (One action: the trusted state and the chain are read again later, and the
\* answers in between depend on nothing else.)
Begin(c, seq) ==
    /\ call[c].pc \in {"idle", "done"} /\ seq \in 0..Len(chain)
    /\ \/ /\ TrustedCurrent /\ NoFault /\ CreateOrAdoptAnchor
          /\ Related(c, seq, chain)
       \/ /\ ~TrustedCurrent /\ Answer(c, "AUTHORITY_STALE") /\ NoFault /\ UNCHANGED anchored
       \/ /\ Fault /\ anchored' \in {anchored, TrustedCurrent \/ anchored}
          /\ \E out \in {"TRUSTED_STATE_UNAVAILABLE", "STORE_UNAVAILABLE",
                         "INDEPENDENT_VERIFICATION_AMBIGUOUS"} : Answer(c, out)
    /\ Quiet /\ UNCHANGED <<chain, intent, late, dispatched>>

(* ------------------------- verifier and writer ------------------------- *)

NextWindow(proofs) == PriorState(ExpectedEpoch, proofs).evaluated + 1

\* The verifier checks the predecessor and the clock before it collects.
BeginVerification(c) ==
    /\ call[c].pc = "verify"
    /\ LET proofs == call[c].snap
           k == NextWindow(proofs)
       IN IF Terminal(proofs) \/ Len(proofs) + 1 > 2 * MaxWindows \/ k > MaxWindows
          THEN Answer(c, "EVALUATION_TERMINAL") /\ NoFault
          ELSE IF (proofs # <<>> /\ now < Last(proofs).decision.next) \/ now < Ready(k)
          THEN Answer(c, "EVALUATION_NOT_READY") /\ NoFault
          ELSE \/ Go(c, "collect") /\ NoFault
               \/ Answer(c, "VERIFIER_RESPONSE_INVALID") /\ Fault
    /\ Quiet /\ UNCHANGED <<storage, dispatched>>

\* One canonical retry of a window, at its deadline.
AttemptValid(proofs, p) ==
    proofs # <<>> /\ Last(proofs).observation.window = p.observation.window
        => DeadlineRetry(Last(proofs), p)

\* The writer signs only what it evaluates to itself.
SigningRequestValid(proofs, p) ==
    /\ p.sequence = Len(proofs) + 1 /\ ~Terminal(proofs)
    /\ p.decision.prior = PriorState(ExpectedEpoch, proofs)
    /\ p.decision = EvaluateHealth(ExpectedEpoch, p.decision.prior, p.observation, p.decision.at)

\* The window is collected, evaluated at the time of its observation, signed.
PendingProofs(proofs, reading) ==
    {Proof(Len(proofs) + 1, o, EvaluateHealth(ExpectedEpoch, PriorState(ExpectedEpoch, proofs), o, now)) :
        o \in {BuildObservation(ExpectedEpoch, NextWindow(proofs), now, reading)}}

CollectAndAttest(c, reading) ==
    /\ call[c].pc = "collect" /\ ReadingValid(reading)
    /\ \E p \in PendingProofs(call[c].snap, reading) :
         IF /\ ValidProof(p) /\ SigningRequestValid(call[c].snap, p)
            /\ AttemptValid(call[c].snap, p)
         THEN To(c, [call[c] EXCEPT !.pc = "refresh", !.proof = <<p>>])
         ELSE Answer(c, "VERIFIER_RESPONSE_INVALID")
    /\ NoFault /\ Quiet /\ UNCHANGED <<storage, dispatched>>

\* A query fails or returns what it must not, or the attestation fails.
VerifierFails(c) ==
    /\ call[c].pc = "collect" /\ Fault
    /\ \E out \in {"VERIFIER_UNAVAILABLE", "VERIFIER_RESPONSE_INVALID"} : Answer(c, out)
    /\ Quiet /\ UNCHANGED <<storage, dispatched>>

(* ----------------------------- the append ------------------------------ *)

\* The trusted state must be the one that the call began with.
Refresh(c) ==
    /\ call[c].pc = "refresh"
    /\ \/ TrustedCurrent /\ Go(c, "append") /\ NoFault
       \/ ~TrustedCurrent /\ Answer(c, "AUTHORITY_STALE") /\ NoFault
       \/ Answer(c, "TRUSTED_STATE_UNAVAILABLE") /\ Fault
    /\ Quiet /\ UNCHANGED <<storage, dispatched>>

Candidate(c) == call[c].snap \o call[c].proof
IsUnhealthy(proofs) == proofs # <<>> /\ Last(proofs).decision.status = "UNHEALTHY"
IntentFree(proofs) == IsUnhealthy(proofs) => intent = None

\* Mutant: the intent is left to a later step.
LandedWithoutIntent(proofs) == chain' = proofs /\ intent' = intent

\* The transaction: proof, manifest, head and the intent of an unhealthy end.
Landed(proofs) ==
    /\ chain' = proofs
    /\ intent' = IF IsUnhealthy(proofs) THEN "unhealthy" ELSE intent

\* Mutant: the transaction does not compare the chain with the one it read.
LandAnyway(expected, proofs) == anchored /\ IntentFree(proofs)

CanLand(expected, proofs) == anchored /\ chain = expected /\ IntentFree(proofs)

AppendProof(c) ==
    /\ call[c].pc = "append"
    /\ LET proofs == Candidate(c)
       IN IF ~ValidChain(ExpectedEpoch, proofs)
          THEN /\ To(c, [call[c] EXCEPT !.pc = "done", !.out = "STORE_UNAVAILABLE"])
               /\ NoFault /\ UNCHANGED storage
          ELSE \/ /\ CanLand(call[c].snap, proofs) /\ Landed(proofs) /\ NoFault
                  /\ To(c, [call[c] EXCEPT !.pc = "record", !.snap = proofs])
                  /\ UNCHANGED <<anchored, late>>
               \/ /\ chain = proofs /\ Go(c, "resolve") /\ NoFault /\ UNCHANGED storage
               \/ /\ chain \notin {call[c].snap, proofs} /\ Go(c, "concurrent") /\ NoFault
                  /\ UNCHANGED storage
               \/ /\ chain = call[c].snap /\ ~IntentFree(proofs)
                  /\ Answer(c, "STORE_UNAVAILABLE") /\ NoFault /\ UNCHANGED storage
               \/ /\ Go(c, "resolve") /\ Fault
                  /\ late' = late \cup {[expected |-> call[c].snap, proofs |-> proofs]}
                  /\ UNCHANGED <<anchored, chain, intent>>
    /\ Quiet /\ UNCHANGED dispatched

\* A transaction that was given up lands, or finds the chain moved on.
LateAppend(t) ==
    /\ t \in late /\ late' = late \ {t}
    /\ IF CanLand(t.expected, t.proofs) THEN Landed(t.proofs) ELSE UNCHANGED <<chain, intent>>
    /\ UNCHANGED <<now, epoch, anchored, dispatched, call, faults>>

\* Mutant: a chain that has grown is taken for the one that was written.
ResolveByLength(c) ==
    /\ call[c].pc = "resolve" /\ NoFault
    /\ IF Len(chain) >= Len(Candidate(c))
       THEN To(c, [call[c] EXCEPT !.pc = "record", !.snap = Candidate(c)])
       ELSE Answer(c, "STORE_UNAVAILABLE")
    /\ Quiet /\ UNCHANGED <<storage, dispatched>>

\* After a transaction without an answer the chain decides what happened.
ResolveAppend(c) ==
    /\ call[c].pc = "resolve"
    /\ \/ /\ chain = Candidate(c) /\ To(c, [call[c] EXCEPT !.pc = "record", !.snap = chain])
          /\ NoFault
       \/ /\ chain # Candidate(c) /\ Len(chain) >= Len(Candidate(c)) /\ Go(c, "concurrent")
          /\ NoFault
       \/ /\ Len(chain) < Len(Candidate(c)) /\ Answer(c, "STORE_UNAVAILABLE") /\ NoFault
       \/ Answer(c, "STORE_UNAVAILABLE") /\ Fault
    /\ Quiet /\ UNCHANGED <<storage, dispatched>>

\* Another call's proof is adopted if it is the next one.
AdoptConcurrent(c) ==
    /\ call[c].pc = "concurrent"
    /\ \/ /\ Relation(chain, call[c].seq) = "ADOPT" /\ NoFault
          /\ To(c, [call[c] EXCEPT !.pc = "adopt", !.snap = chain])
       \/ Relation(chain, call[c].seq) # "ADOPT" /\ Answer(c, "STORE_CONFLICT") /\ NoFault
       \/ Answer(c, "STORE_UNAVAILABLE") /\ Fault
    /\ Quiet /\ UNCHANGED <<storage, dispatched>>

\* An adopted proof is verified, and the trusted state read again.
AdoptSnapshot(c) ==
    /\ call[c].pc = "adopt"
    /\ \/ IF TrustedCurrent THEN Go(c, "record") /\ NoFault
          ELSE Answer(c, "AUTHORITY_STALE") /\ NoFault
       \/ Fault /\ \E out \in {"VERIFIER_RESPONSE_INVALID", "TRUSTED_STATE_UNAVAILABLE"} : Answer(c, out)
    /\ Quiet /\ UNCHANGED <<storage, dispatched>>

\* The proof is recorded in the timeline before anybody is answered.
RecordProof(c) ==
    /\ call[c].pc = "record"
    /\ \/ IF IsUnhealthy(call[c].snap) THEN Go(c, "recover") /\ NoFault
          ELSE Answer(c, "OK") /\ NoFault
       \/ Answer(c, "STORE_UNAVAILABLE") /\ Fault
    /\ Quiet /\ UNCHANGED <<storage, dispatched>>

\* An unhealthy end records the intent and hands it to the recovery.
DispatchRecovery(c) ==
    /\ call[c].pc = "recover"
    /\ \/ dispatched' = TRUE /\ Answer(c, "OK") /\ NoFault
       \/ dispatched' = dispatched /\ Answer(c, "STORE_UNAVAILABLE") /\ Fault
       \/ dispatched' \in {dispatched, TRUE} /\ Answer(c, "RECOVERY_UNAVAILABLE") /\ Fault
    /\ Quiet /\ UNCHANGED storage

\* The process dies, or the caller goes away: nothing is answered.
Crash(c) ==
    /\ call[c].pc \notin {"idle", "done"} /\ Fault
    /\ To(c, Idle)
    /\ late' \in IF call[c].pc = "append" /\ ValidChain(ExpectedEpoch, Candidate(c))
                 THEN {late, late \cup {[expected |-> call[c].snap, proofs |-> Candidate(c)]}}
                 ELSE {late}
    /\ Quiet /\ UNCHANGED <<anchored, chain, intent, dispatched>>

(* ----------------------------------------------------------------------- *)

Evaluate(c) ==
    \/ BeginVerification(c) \/ VerifierFails(c)
    \/ \E reading \in Readings : CollectAndAttest(c, reading)
    \/ Refresh(c) \/ AppendProof(c) \/ ResolveAppend(c)
    \/ AdoptConcurrent(c) \/ AdoptSnapshot(c) \/ RecordProof(c) \/ DispatchRecovery(c)

World == Tick \/ Revoke \/ ReserveRevoked \/ \E t \in late : LateAppend(t)

HealthNext ==
    \/ World
    \/ \E c \in Caller : Evaluate(c) \/ Crash(c) \/ \E seq \in 0..Len(chain) : Begin(c, seq)

HealthSpec == HealthInit /\ [][HealthNext]_hvars

\* A reader takes the proofs that the manifest lists and validates the chain.
Reconstructs(proofs) == ValidChain(ExpectedEpoch, proofs)

(* ----------------------------- properties ------------------------------ *)

\* Every observation, decision and chain that is stored or about to be is one
\* that its contract admits, whatever was read and whenever.
HealthTypeOK ==
    /\ now \in ReceiptAt..MaxTime /\ epoch \in {1, 2}
    /\ intent \in {None, "unhealthy", "revoked"} /\ faults \in 0..MaxFaults
    /\ chain # <<>> => anchored
    /\ \A c \in Caller : \A i \in DOMAIN call[c].proof :
         /\ ValidObservation(call[c].proof[i].observation)
         /\ ValidDecision(call[c].proof[i].decision)
    /\ \A t \in late : t.proofs # <<>> /\ t.expected = Front(t.proofs)

\* The stored chain can always be read back and verified: whatever is appended,
\* it extends the chain by one proof, never after a terminal decision, and the
\* chain passes its contract and replays decision by decision, though calls
\* race, transactions land late and proofs were made on chains that moved on.
ChainCanonical ==
    [][chain' # chain =>
         /\ Front(chain') = chain /\ ~Terminal(chain)
         /\ Reconstructs(chain') /\ ReplaysExactly(ExpectedEpoch, chain')]_hvars

\* The evidence of window k that the chain holds: observed in time, complete,
\* free of conflicts and with enough requests.
Evident(k, Test(_)) ==
    \E i \in DOMAIN chain :
        LET o == chain[i].observation
        IN /\ o.window = k /\ Ready(k) <= o.observed /\ o.observed <= Deadline(k)
           /\ o.completeness = "COMPLETE" /\ ~o.conflicting /\ o.requests >= MinRequests
           /\ Test(o)

\* A chain ends HEALTHY only on two adjacent windows that were both good, and
\* UNHEALTHY only on two that were both bad: no lost, late, conflicting or
\* inconclusive window hides between them.
VerdictIsSustained ==
    LET k == Last(chain).observation.window
        good(o) == ThresholdsMet(o.errors, o.ok, o.requests, o.latency)
        bad(o) == UnhealthyReasons(o.errors, o.ok, o.requests, o.latency) # <<>>
    IN chain # <<>> =>
         /\ Last(chain).decision.status = "HEALTHY" => Evident(k, good) /\ Evident(k - 1, good)
         /\ Last(chain).decision.status = "UNHEALTHY" => Evident(k, bad) /\ Evident(k - 1, bad)

\* The recovery of an unhealthy root is never lost: the chain ends UNHEALTHY
\* exactly when the root's intent was made for it.
UnhealthyHasIntent == IsUnhealthy(chain) <=> intent = "unhealthy"

\* What a call is about to be told is what the store holds: the proof right
\* after the head that it named, whether it was appended, resolved after a lost
\* answer or adopted from a rival; a recovery is handed over for nothing else.
AnswersAreStored ==
    /\ \A c \in Caller : call[c].pc \in {"adopt", "record", "recover"} =>
         /\ call[c].seq < Len(chain)
         /\ call[c].snap = SubSeq(chain, 1, call[c].seq + 1)
    /\ dispatched => IsUnhealthy(chain) /\ intent = "unhealthy"

=============================================================================
