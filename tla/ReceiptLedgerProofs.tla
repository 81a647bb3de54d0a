------------------------- MODULE ReceiptLedgerProofs -------------------------
(***************************************************************************)
(* Receipt execution implements the mutation ledger: claims map to Claim,  *)
(* calls that land to TakeEffect, receipt writes to Record, and every      *)
(* other step changes neither outcomes nor effects.                        *)
(***************************************************************************)
EXTENDS ReceiptExecutionProofs

OutcomeBar == [k \in Key |-> receipt[k].outcome]
EffectBar == [k \in Key |-> {d \in Delivery : wire[d] = "landed" /\ K(d) = k}]

LedgerStep == Ledger!Next \/ UNCHANGED <<OutcomeBar, EffectBar>>

\* A delivery keeps the mutation it began with.
WorkKept == \A d \in Delivery : dl[d].pc # "waiting" => dl'[d].work = dl[d].work

LEMMA StepKeepsWork ==
    ASSUME IInv, NEW d \in Delivery, NEW next, Step(d, next),
           dl[d].pc # "waiting" => next.work = dl[d].work
    PROVE  WorkKept
  BY DEF IInv, TypeOK, Step, WorkKept

LEMMA ExceptKeepsWork ==
    ASSUME NEW m \in LocalType
    PROVE  /\ \A pc : [m EXCEPT !.pc = pc].work = m.work
           /\ \A pc, r : [m EXCEPT !.pc = pc, !.snap = r].work = m.work
           /\ \A pc, r : [m EXCEPT !.pc = pc, !.reject = r].work = m.work
           /\ \A pc, r : [m EXCEPT !.pc = pc, !.seen = r].work = m.work
           /\ \A pc, r : [m EXCEPT !.pc = pc, !.tries = r].work = m.work
  BY DEF LocalType

\* Nothing lands and no receipt is written.
LEMMA Stutter ==
    ASSUME IInv, WorkKept, receipt' = receipt,
           \A d \in Delivery : wire'[d] = "landed" <=> wire[d] = "landed"
    PROVE  UNCHANGED <<OutcomeBar, EffectBar>>
<1>1. \A d \in Delivery : wire[d] = "landed" => K(d)' = K(d)
  BY DEF WorkKept, IInv, LeaseUnspent, K, W
<1> QED BY <1>1 DEF OutcomeBar, EffectBar

LEMMA EffectKept ==
    ASSUME IInv, WorkKept, wire' = wire
    PROVE  UNCHANGED EffectBar
<1>1. \A d \in Delivery : wire[d] = "landed" => K(d)' = K(d)
  BY DEF WorkKept, IInv, LeaseUnspent, K, W
<1> QED BY <1>1 DEF EffectBar

\* The creation of a receipt.
LEMMA ClaimMaps ==
    ASSUME IInv, WorkKept, wire' = wire, NEW k \in Key, NEW new \in ReceiptType,
           receipt[k] = NoReceipt, new.outcome = "CLAIMED",
           receipt' = [receipt EXCEPT ![k] = new]
    PROVE  LedgerStep
<1>1. UNCHANGED EffectBar
  BY EffectKept
<1>2. OutcomeBar[k] = "ABSENT" /\ OutcomeBar' = [OutcomeBar EXCEPT ![k] = "CLAIMED"]
  BY NoReceiptType DEF OutcomeBar, IInv, TypeOK
<1>3. Ledger!Claim(k)
  BY <1>1, <1>2 DEF Ledger!Claim, OutcomeBar, EffectBar
<1> QED BY <1>3 DEF LedgerStep, Ledger!Next

\* The replacement of a receipt.
LEMMA WriteMaps ==
    ASSUME IInv, WorkKept, wire' = wire, NEW k \in Key, NEW new,
           receipt' = [receipt EXCEPT ![k] = new],
           new.outcome \in ReceiptTransitions(receipt[k].outcome),
           new.outcome \in {"DENIED", "FAILED_SAFE"} => EffectBar[k] = {}
    PROVE  LedgerStep
<1>1. UNCHANGED EffectBar
  BY EffectKept
<1>2. OutcomeBar[k] = receipt[k].outcome /\ OutcomeBar' = [OutcomeBar EXCEPT ![k] = new.outcome]
  BY DEF OutcomeBar, IInv, TypeOK
<1>3. new.outcome \in Ledger!Forward(OutcomeBar[k])
  BY <1>2 DEF Ledger!Forward, ReceiptTransitions
<1>4. Ledger!Record(k, new.outcome)
  BY <1>1, <1>2, <1>3 DEF Ledger!Record, Ledger!Effectless, OutcomeBar, EffectBar
<1> QED BY <1>3, <1>4 DEF LedgerStep, Ledger!Next, OutcomeBar

\* What an effectless proposal says is true of the key's effects.
LEMMA NoEffectYet ==
    ASSUME IInv, NEW d \in Delivery, dl[d].pc = "persist",
           dl[d].repl.outcome \in {"DENIED", "FAILED_SAFE"}
    PROVE  K(d) \in Key /\ EffectBar[K(d)] = {}
<1>1. K(d) \in Key
  BY BegunHasWork
<1>2. Owner(d) /\ wire[d] \in {"none", "rejected"}
  BY DEF IInv, HonestProposals, Owner
<1>3. \A e \in Delivery : ~ (wire[e] = "landed" /\ K(e) = K(d))
  BY <1>2 DEF IInv, OneOwner, Owner
<1> QED BY <1>1, <1>3 DEF EffectBar

LEMMA PersistMaps ==
    ASSUME IInv, WorkKept, NEW d \in Delivery, dl[d].pc = "persist",
           receipt[K(d)] = dl[d].snap, ValidReplacement(dl[d].snap, dl[d].repl),
           receipt' = [receipt EXCEPT ![K(d)] = dl[d].repl], wire' = wire
    PROVE  LedgerStep
<1>1. K(d) \in Key /\ dl[d].repl \in ReceiptType
  BY BegunHasWork
<1>2. dl[d].repl.outcome \in ReceiptTransitions(receipt[K(d)].outcome)
  BY DEF ValidReplacement
<1> QED BY <1>1, <1>2, NoEffectYet, WriteMaps

\* A call takes effect: its owner's key has a receipt that is not effectless,
\* and no other call for the key has landed.
LEMMA LandMaps ==
    ASSUME IInv, NEW d \in Delivery, Land(d)
    PROVE  LedgerStep
<1>1. Owner(d)
  BY DEF Land, Owner
<1>2. PICK k \in Key : k = K(d)
  BY <1>1, ConstantsAssumption DEF IInv, OwnerHasReceipt, K
<1>3. receipt[k].outcome \notin {"ABSENT", "DENIED", "FAILED_SAFE"}
  BY <1>1, <1>2 DEF Land, IInv, OwnerHasReceipt, EffectlessIsFinal
<1>4. \A e \in Delivery : wire[e] = "landed" => K(e) # k
  BY <1>1, <1>2 DEF Land, IInv, OneOwner, Owner
<1>5. /\ \A e \in Delivery : K(e)' = K(e)
      /\ wire' = [wire EXCEPT ![d] = "landed"] /\ receipt' = receipt
  BY DEF Land, K, W, store
<1>6. \A e \in Delivery : wire'[e] = "landed" <=> (wire[e] = "landed" \/ e = d)
  BY <1>5 DEF IInv, TypeOK
<1>7. EffectBar[k] = {} /\ OutcomeBar' = OutcomeBar
  BY <1>4, <1>5 DEF EffectBar, OutcomeBar
<1>8. EffectBar' = [EffectBar EXCEPT ![k] = {d}]
  <2>1. {e \in Delivery : wire'[e] = "landed" /\ K(e)' = k} = {d}
    BY <1>2, <1>4, <1>5, <1>6
  <2>2. ASSUME NEW j \in Key, j # k
        PROVE  {e \in Delivery : wire'[e] = "landed" /\ K(e)' = j} =
               {e \in Delivery : wire[e] = "landed" /\ K(e) = j}
    BY <1>2, <1>5, <1>6, <2>2
  <2> QED BY <2>1, <2>2 DEF EffectBar
<1>9. Ledger!TakeEffect(k, d)
  BY <1>3, <1>7, <1>8
     DEF Ledger!TakeEffect, Ledger!Effectless, OutcomeBar, EffectBar
<1> QED BY <1>9 DEF LedgerStep, Ledger!Next

-----------------------------------------------------------------------------
\* The steps of a delivery.

LEMMA LocalMaps ==
    ASSUME IInv, WorkKept, UNCHANGED <<store, cloud>>
    PROVE  LedgerStep
<1>1. receipt' = receipt /\ wire' = wire
  BY DEF store, cloud
<1> QED BY <1>1, Stutter DEF LedgerStep

\* A handler's result keeps the mutation.
LEMMA HarmlessMaps ==
    ASSUME IInv, NEW d \in Delivery, NEW next, Harmless(dl[d], next), Step(d, next)
    PROVE  WorkKept
  BY StepKeepsWork DEF Harmless

\* Every step of a delivery but its first keeps the mutation.
LEMMA ProceedKeepsWork ==
    ASSUME IInv, NEW d \in Delivery, Proceed(d)
    PROVE  WorkKept
<1>0. dl[d].pc # "waiting"
  BY DEF Proceed, ClaimConfirmed, AdoptOrConflict, Prepare, CheckSource, ReadAuthority,
         DenyAtGate, RejectPrepared, Dispatch, MutationReturns, PersistConfirmed,
         PersistConflict, Reread, ReadTarget
<1>1. /\ dl[d] \in LocalType /\ dl[d].snap \in ReceiptType
      /\ dl[d].repl \in ReceiptType /\ receipt[K(d)] \in ReceiptType
  BY <1>0, BegunHasWork
<1>2. ASSUME NEW next, Step(d, next), next.work = dl[d].work PROVE WorkKept
  BY <1>2, StepKeepsWork
<1>3. ASSUME NEW new, Step(d, PersistThen(dl[d], dl[d].snap, new, "existing"))
      PROVE  WorkKept
  <2>1. PersistThen(dl[d], dl[d].snap, new, "existing").work = dl[d].work
    BY WaitingType DEF PersistThen, LocalType
  <2> QED BY <1>2, <1>3, <2>1
<1>4. ASSUME NEW next, Step(d, next), Harmless(dl[d], next) PROVE WorkKept
  BY <1>4, HarmlessMaps
<1>5. CASE ClaimConfirmed(d)
  <2> DEFINE next == [dl[d] EXCEPT !.pc = "prepare", !.snap = Claimed(W(d), dl[d].born)]
  <2>1. Step(d, next)
    BY <1>5 DEF ClaimConfirmed
  <2>2. next.work = dl[d].work
    BY <1>1, ExceptKeepsWork
  <2> QED BY <1>2, <2>1, <2>2
<1>6. CASE AdoptOrConflict(d)
  <2>1. /\ Harmless(dl[d], Respond(dl[d]))
        /\ Harmless(dl[d], HandleExisting(dl[d], receipt[K(d)], now))
    BY <1>1, RespondHarmless, HandleExistingHarmless
  <2> QED BY <1>4, <1>6, <2>1 DEF AdoptOrConflict
<1>7. CASE Prepare(d)
  <2>1. PICK pc, reject : Step(d, [dl[d] EXCEPT !.pc = pc, !.reject = reject])
    BY <1>7 DEF Prepare
  <2>2. [dl[d] EXCEPT !.pc = pc, !.reject = reject].work = dl[d].work
    BY <1>1, ExceptKeepsWork
  <2> QED BY <1>2, <2>1, <2>2
<1>8. CASE CheckSource(d)
  BY <1>1, <1>2, <1>3, <1>8, ExceptKeepsWork DEF CheckSource, GateDeny
<1>9. CASE ReadAuthority(d)
  <2>1. PICK seen : Step(d, [dl[d] EXCEPT !.pc = "dispatch", !.seen = seen])
    BY <1>9 DEF ReadAuthority
  <2>2. [dl[d] EXCEPT !.pc = "dispatch", !.seen = seen].work = dl[d].work
    BY <1>1, ExceptKeepsWork
  <2> QED BY <1>2, <2>1, <2>2
<1>10. CASE DenyAtGate(d)
  BY <1>3, <1>10 DEF DenyAtGate, GateDeny
<1>11. CASE RejectPrepared(d)
  BY <1>3, <1>11 DEF RejectPrepared
<1>12. CASE Dispatch(d)
  BY <1>1, <1>2, <1>12, ExceptKeepsWork DEF Dispatch
<1>13. CASE MutationReturns(d)
  BY <1>3, <1>13 DEF MutationReturns
<1>14. CASE PersistConfirmed(d)
  <2>1. Harmless(dl[d], Resume(dl[d], dl[d].repl, now))
    BY <1>1, ResumeHarmless
  <2> QED BY <1>4, <1>14, <2>1 DEF PersistConfirmed
<1>15. CASE PersistConflict(d)
  BY <1>1, <1>2, <1>15, ExceptKeepsWork DEF PersistConflict
<1>16. CASE Reread(d)
  <2>1. /\ Harmless(dl[d], Respond(dl[d]))
        /\ Harmless(dl[d], Resume(dl[d], receipt[K(d)], now))
    BY <1>1, RespondHarmless, ResumeHarmless
  <2>2. [dl[d] EXCEPT !.pc = "persist", !.tries = 1].work = dl[d].work
    BY <1>1, ExceptKeepsWork
  <2> QED BY <1>2, <1>4, <1>16, <2>1, <2>2 DEF Reread
<1>17. CASE ReadTarget(d)
  <2> DEFINE exact == settled /\ Serving = PostTraffic(ActionOf[W(d)])
             ob == [exact |-> exact, etag |-> Etag]
  <2>1. exact \in BOOLEAN /\ Etag \in Nat
    BY DEF IInv, TypeOK, Etag
  <2>2. Step(d, HandleObserved(dl[d], dl[d].snap, ob))
    BY <1>17 DEF ReadTarget
  <2> HIDE DEF exact
  <2>3. ob \in [exact : BOOLEAN, etag : Nat]
    BY <2>1
  <2> HIDE DEF ob
  <2> QED BY <1>1, <1>4, <2>2, <2>3, HandleObservedHarmless
<1> QED
  BY <1>5, <1>6, <1>7, <1>8, <1>9, <1>10, <1>11, <1>12, <1>13, <1>14, <1>15, <1>16, <1>17
     DEF Proceed

LEMMA FaultKeepsWork ==
    ASSUME IInv, NEW d \in Delivery, Fault(d)
    PROVE  WorkKept
<1>0. dl[d].pc # "waiting"
  BY DEF Fault, ClaimAnswerLost, StoreUnavailable, Crash, GateUnavailable, GateRaises,
         PersistAnswerLost, PersistUnavailable, ReadTargetFails
<1>1. /\ dl[d] \in LocalType /\ dl[d].snap \in ReceiptType
      /\ W(d) \in Work /\ dl[d].born \in Nat
  BY <1>0, BegunHasWork
<1>2. ASSUME NEW next, Step(d, next), next.work = dl[d].work PROVE WorkKept
  BY <1>2, StepKeepsWork
<1>3. ASSUME NEW new, Step(d, PersistThen(dl[d], dl[d].snap, new, "existing"))
      PROVE  WorkKept
  <2>1. PersistThen(dl[d], dl[d].snap, new, "existing").work = dl[d].work
    BY WaitingType DEF PersistThen, LocalType
  <2> QED BY <1>2, <1>3, <2>1
<1>4. ASSUME NEW next, Step(d, next), Harmless(dl[d], next) PROVE WorkKept
  BY <1>4, HarmlessMaps
<1>5. Harmless(dl[d], Respond(dl[d]))
  BY <1>1, RespondHarmless
<1>6. CASE ClaimAnswerLost(d)
  <2>1. Harmless(dl[d], HandleExisting(dl[d], Claimed(W(d), dl[d].born), now))
    BY <1>1, ClaimedType, HandleExistingHarmless
  <2> QED BY <1>4, <1>5, <1>6, <2>1 DEF ClaimAnswerLost
<1>7. CASE StoreUnavailable(d) \/ Crash(d)
  BY <1>4, <1>5, <1>7 DEF StoreUnavailable, Crash
<1>8. CASE GateUnavailable(d)
  BY <1>3, <1>8 DEF GateUnavailable, GateDeny
<1>9. CASE GateRaises(d)
  BY <1>3, <1>9 DEF GateRaises
<1>10. CASE PersistAnswerLost(d) \/ PersistUnavailable(d)
  BY <1>1, <1>2, <1>10, ExceptKeepsWork DEF PersistAnswerLost, PersistUnavailable
<1>11. CASE ReadTargetFails(d)
  <2>1. NoObs \in [exact : BOOLEAN, etag : Nat]
    BY DEF NoObs, None
  <2> QED BY <1>1, <1>4, <1>11, <2>1, HandleObservedHarmless DEF ReadTargetFails
<1> QED BY <1>6, <1>7, <1>8, <1>9, <1>10, <1>11 DEF Fault

LEMMA ProceedMaps ==
    ASSUME IInv, NEW d \in Delivery, Proceed(d)
    PROVE  LedgerStep
<1>1. WorkKept
  BY ProceedKeepsWork
<1>2. CASE ClaimConfirmed(d)
  <2>1. /\ K(d) \in Key /\ Claimed(W(d), dl[d].born) \in ReceiptType
        /\ Claimed(W(d), dl[d].born).outcome = "CLAIMED"
    BY <1>2, BegunHasWork, ClaimedType DEF ClaimConfirmed
  <2> QED BY <1>1, <1>2, <2>1, ClaimMaps DEF ClaimConfirmed, cloud
<1>3. CASE PersistConfirmed(d)
  BY <1>1, <1>3, PersistMaps DEF PersistConfirmed, cloud
<1>4. CASE Dispatch(d)
  <2>1. wire[d] = "none"
    BY <1>4 DEF Dispatch, IInv, LeaseUnspent, Leased
  <2>2. \A e \in Delivery : wire'[e] = "landed" <=> wire[e] = "landed"
    BY <1>4, <2>1 DEF Dispatch, IInv, TypeOK
  <2> QED BY <1>1, <1>4, <2>2, Stutter DEF Dispatch, store, LedgerStep
<1>5. CASE UNCHANGED <<store, cloud>>
  BY <1>1, <1>5, LocalMaps
<1> QED
  BY <1>2, <1>3, <1>4, <1>5
     DEF Proceed, AdoptOrConflict, Prepare, CheckSource, ReadAuthority, DenyAtGate,
         RejectPrepared, MutationReturns, PersistConflict, Reread, ReadTarget

LEMMA FaultMaps ==
    ASSUME IInv, NEW d \in Delivery, Fault(d)
    PROVE  LedgerStep
<1>1. WorkKept
  BY FaultKeepsWork
<1>2. CASE ClaimAnswerLost(d)
  <2>1. /\ K(d) \in Key /\ Claimed(W(d), dl[d].born) \in ReceiptType
        /\ Claimed(W(d), dl[d].born).outcome = "CLAIMED"
    BY <1>2, BegunHasWork, ClaimedType DEF ClaimAnswerLost
  <2> QED BY <1>1, <1>2, <2>1, ClaimMaps DEF ClaimAnswerLost, cloud
<1>3. CASE PersistAnswerLost(d)
  BY <1>1, <1>3, PersistMaps DEF PersistAnswerLost, cloud
<1>4. CASE UNCHANGED <<store, cloud>>
  BY <1>1, <1>4, LocalMaps
<1> QED
  BY <1>2, <1>3, <1>4
     DEF Fault, StoreUnavailable, Crash, GateUnavailable, GateRaises, PersistUnavailable,
         ReadTargetFails

LEMMA DeliverMaps ==
    ASSUME IInv, NEW d \in Delivery, NEW w \in Work, Deliver(d, w)
    PROVE  LedgerStep
<1>1. WorkKept
  BY DEF Deliver, Step, IInv, TypeOK, WorkKept
<1> QED BY <1>1, LocalMaps DEF Deliver

-----------------------------------------------------------------------------
\* A resolution under way is about an ambiguous receipt.
ResolvesAmbiguous == res.pc # "idle" => res.snap.outcome = "AMBIGUOUS"

LEMMA ResolvesInit == Init => ResolvesAmbiguous
  BY DEF Init, NoRes, ResolvesAmbiguous

LEMMA ResolvesNext == IInv /\ ResolvesAmbiguous /\ [Next]_vars => ResolvesAmbiguous'
<1> SUFFICES ASSUME IInv, ResolvesAmbiguous, [Next]_vars PROVE ResolvesAmbiguous'
  OBVIOUS
<1>1. ASSUME UNCHANGED res PROVE ResolvesAmbiguous'
  BY <1>1 DEF ResolvesAmbiguous
<1>2. ASSUME Operator PROVE ResolvesAmbiguous'
  <2>1. ASSUME NEW k \in Key, ResolveStart(k) PROVE ResolvesAmbiguous'
    BY <2>1 DEF ResolveStart, ResolvesAmbiguous
  <2>2. CASE ResolveObserve
    BY <2>2 DEF ResolveObserve, ResolvesAmbiguous, IInv, TypeOK
  <2>3. CASE ResolveCommit \/ ResolveAbandon
    BY <2>3 DEF ResolveCommit, ResolveAbandon, NoRes, ResolvesAmbiguous
  <2> QED BY <1>1, <1>2, <2>1, <2>2, <2>3
          DEF Operator, Revoke, ClassifyTarget, FinalizeRelease, FenceClaim
<1>3. ASSUME NEW d \in Delivery, Proceed(d) PROVE UNCHANGED res
  BY <1>3 DEF Proceed, ClaimConfirmed, AdoptOrConflict, Prepare, CheckSource,
              ReadAuthority, DenyAtGate, RejectPrepared, Dispatch, MutationReturns,
              PersistConfirmed, PersistConflict, Reread, ReadTarget
<1>4. ASSUME NEW d \in Delivery, Fault(d) PROVE UNCHANGED res
  BY <1>4 DEF Fault, ClaimAnswerLost, StoreUnavailable, Crash, GateUnavailable,
              GateRaises, PersistAnswerLost, PersistUnavailable, ReadTargetFails
<1>5. ASSUME NEW d \in Delivery, NEW w \in Work, Deliver(d, w) PROVE UNCHANGED res
  BY <1>5 DEF Deliver
<1>6. ASSUME Tick \/ Issue \/ Provider PROVE UNCHANGED res
  BY <1>6 DEF Tick, Issue, IssueApply, IssuePromotion, IssueRecovery, Signed,
              Provider, Settle, ResetTarget, Land, Refuse
<1> QED BY <1>1, <1>2, <1>3, <1>4, <1>5, <1>6 DEF Next, Serve, vars

LEMMA ResolveCommitMaps ==
    ASSUME IInv, ResolvesAmbiguous, ResolveCommit
    PROVE  LedgerStep
<1> DEFINE new == Verified(res.snap, res.etag)
<1>1. res.snap \in ReceiptType /\ res.etag \in Nat /\ res.snap.outcome = "AMBIGUOUS"
  BY DEF ResolveCommit, ResolvesAmbiguous, IInv, TypeOK
<1>2. new.outcome = "VERIFIED"
  BY <1>1, ReadbackTypes
<1>3. /\ receipt[KeyIn(res.snap)] = res.snap
      /\ receipt' = [receipt EXCEPT ![KeyIn(res.snap)] = new]
      /\ dl' = dl /\ wire' = wire
  BY DEF ResolveCommit, cloud
<1> HIDE DEF new
<1>4. WorkKept
  BY <1>3 DEF WorkKept
<1>5. CASE KeyIn(res.snap) \in Key
  <2>1. PICK k \in Key : k = KeyIn(res.snap)
    BY <1>5
  <2>2. new.outcome \in ReceiptTransitions(receipt[k].outcome)
    BY <1>1, <1>2, <1>3, <2>1 DEF ReceiptTransitions
  <2> QED BY <1>2, <1>3, <1>4, <2>1, <2>2, WriteMaps
<1>6. CASE KeyIn(res.snap) \notin Key
  <2>1. receipt' = receipt
    BY <1>3, <1>6 DEF IInv, TypeOK
  <2> QED BY <1>3, <1>4, <2>1, Stutter DEF LedgerStep
<1> QED BY <1>5, <1>6

\* Steps outside the deliveries.
LEMMA OthersMap ==
    ASSUME IInv, ResolvesAmbiguous, Tick \/ Issue \/ Provider \/ Operator
    PROVE  LedgerStep
<1>1. ASSUME dl' = dl, receipt' = receipt, wire' = wire PROVE LedgerStep
  BY <1>1, Stutter DEF LedgerStep, WorkKept
<1>2. CASE Tick \/ Issue
  BY <1>1, <1>2 DEF Tick, Issue, IssueApply, IssuePromotion, IssueRecovery, Signed,
                    store, cloud
<1>3. ASSUME NEW d \in Delivery, Refuse(d) PROVE LedgerStep
  <2>1. \A e \in Delivery : wire'[e] = "landed" <=> wire[e] = "landed"
    BY <1>3 DEF Refuse, IInv, TypeOK
  <2> QED BY <1>3, <2>1, Stutter DEF Refuse, LedgerStep, WorkKept, store
<1>4. CASE Provider
  BY <1>1, <1>3, <1>4, LandMaps DEF Provider, Settle, ResetTarget, store
<1>5. CASE Operator
  BY <1>1, <1>5, ResolveCommitMaps
     DEF Operator, Revoke, ClassifyTarget, FinalizeRelease, FenceClaim, ResolveStart,
         ResolveObserve, ResolveAbandon, store, cloud
<1> QED BY <1>2, <1>4, <1>5

LEMMA NextMaps ==
    IInv /\ ResolvesAmbiguous /\ [Next]_vars => LedgerStep
<1> SUFFICES ASSUME IInv, ResolvesAmbiguous, [Next]_vars PROVE LedgerStep
  OBVIOUS
<1>1. CASE UNCHANGED vars
  <2>1. WorkKept /\ UNCHANGED <<store, cloud>>
    BY <1>1 DEF vars, WorkKept, store, cloud
  <2> QED BY <2>1, LocalMaps
<1>2. CASE Next
  BY <1>2, OthersMap, ProceedMaps, FaultMaps, DeliverMaps DEF Next, Serve
<1> QED BY <1>1, <1>2

LEMMA InitMaps == Init => Ledger!Init
<1> SUFFICES ASSUME Init PROVE Ledger!Init
  OBVIOUS
<1>1. OutcomeBar = [k \in Key |-> "ABSENT"]
  BY NoReceiptType DEF Init, OutcomeBar
<1>2. EffectBar = [k \in Key |-> {}]
  BY DEF Init, EffectBar
<1> QED BY <1>1, <1>2 DEF Ledger!Init, OutcomeBar, EffectBar

\* Receipt execution implements the mutation ledger: every behaviour of the
\* coordinators, the gate, the provider and the operator, with redelivery and
\* any number of faults, gives each key at most one effect, none before its
\* claim and none once it is recorded as DENIED or FAILED_SAFE.
THEOREM ImplementsTheLedger == Spec => ImplementsLedger
<1>1. Init => ResolvesAmbiguous
  BY ResolvesInit
<1>2. IInv /\ ResolvesAmbiguous /\ [Next]_vars => ResolvesAmbiguous'
  BY ResolvesNext
<1>3. IInv /\ ResolvesAmbiguous /\ [Next]_vars => [Ledger!Next]_(Ledger!vars)
  BY NextMaps DEF LedgerStep, Ledger!vars, OutcomeBar, EffectBar
<1> QED BY <1>1, <1>2, <1>3, InitMaps, OwnershipInvariant, PTL
        DEF Spec, ImplementsLedger, Ledger!Spec
=============================================================================
