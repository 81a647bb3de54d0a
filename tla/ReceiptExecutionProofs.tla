------------------------ MODULE ReceiptExecutionProofs ------------------------
(***************************************************************************)
(* Proofs about ReceiptExecution for any mutations, keys, deliveries and   *)
(* bounds.                                                                 *)
(*                                                                         *)
(* The argument is about ownership.  A delivery owns its key from the      *)
(* moment its create was directly confirmed; it alone may reach the gate,  *)
(* call the provider and write DENIED or FAILED_SAFE.  A key that has a    *)
(* receipt never gets a new owner, so what an owner knows of its own call  *)
(* when it writes an outcome stays true of every call for that key.        *)
(*                                                                         *)
(* The second argument (TargetInv) is about versions.  They are only       *)
(* appended, the canary is version 2, a signed mutation names version 1 or *)
(* 2 as its base, and what lands leaves that base behind for good.         *)
(***************************************************************************)
EXTENDS ReceiptExecution, TLAPS

\* The delivery holds a dispatch lease it has not spent.
Leased == {"prepare", "source", "authority", "dispatch"}

Owner(d) ==
    \/ wire[d] # "none"
    \/ dl[d].pc \in Leased \cup {"await"}
    \/ dl[d].pc \in {"persist", "reread"} /\ dl[d].cont = "existing"

\* A delivery that has begun works on a mutation, and an owner's key has a
\* receipt.
OwnerHasReceipt ==
    \A d \in Delivery :
        /\ dl[d].pc # "waiting" => W(d) \in Work
        /\ Owner(d) => W(d) \in Work /\ receipt[K(d)].outcome # "ABSENT"

OneOwner ==
    \A d, e \in Delivery : (Owner(d) /\ Owner(e) /\ K(d) = K(e)) => d = e

\* A lease is spent by the call, and no delivery begins with a call made.
LeaseUnspent ==
    \A d \in Delivery :
        dl[d].pc \in Leased \cup {"waiting", "claim", "adopt"} => wire[d] = "none"

\* Only an owner proposes an effectless outcome, and only of a call that was
\* not made (DENIED) or was refused (FAILED_SAFE).
HonestProposals ==
    \A d \in Delivery : dl[d].pc \in {"persist", "reread"} =>
        /\ dl[d].repl.outcome \in {"DENIED", "FAILED_SAFE"} => dl[d].cont = "existing"
        /\ dl[d].repl.outcome = "DENIED" => wire[d] = "none"
        /\ dl[d].repl.outcome = "FAILED_SAFE" => wire[d] \in {"none", "rejected"}

\* What a stored effectless outcome says holds of every call for the key, and
\* no lease is left that could falsify it.
EffectlessIsFinal ==
    \A d \in Delivery : Owner(d) =>
        /\ receipt[K(d)].outcome \in {"DENIED", "FAILED_SAFE"} => dl[d].pc \notin Leased
        /\ receipt[K(d)].outcome = "DENIED" => wire[d] = "none"
        /\ receipt[K(d)].outcome = "FAILED_SAFE" => wire[d] \in {"none", "rejected"}

\* The inductive invariant.
IInv == /\ TypeOK
        /\ OwnerHasReceipt
        /\ OneOwner
        /\ LeaseUnspent
        /\ HonestProposals
        /\ EffectlessIsFinal

-----------------------------------------------------------------------------
\* The local states the coordinator's handlers produce.

LEMMA NoReceiptType == NoReceipt \in ReceiptType /\ NoReceipt.outcome = "ABSENT"
  BY DEF NoReceipt, ReceiptType, Outcomes, Reasons, Operations, None

\* The default values of a delivery's fields.
LEMMA WaitingType == Waiting \in LocalType
<1>1. /\ NoObs \in [exact : BOOLEAN, etag : Nat]
      /\ NoSeen \in [epoch : Nat, claim : Statuses]
  BY DEF NoObs, NoSeen, Statuses, None
<1> QED BY <1>1, NoReceiptType DEF Waiting, LocalType, Pcs

LEMMA DeniedType ==
    ASSUME NEW r \in ReceiptType, NEW why \in Reasons, NEW e \in Nat
    PROVE  Denied(r, why, e) \in ReceiptType /\ Denied(r, why, e).outcome = "DENIED"
<1>1. r.rev + 1 \in Nat
  BY DEF ReceiptType
<1> QED BY <1>1 DEF ReceiptType, Denied, Outcomes

\* What the gate denies for.
LEMMA GateReason ==
    ASSUME NEW w, NEW seen, NEW t, NEW ends
    PROVE  FinalDenial(w, seen, t, ends) \in Reasons
BY DEF FinalDenial, Reasons

LEMMA ProviderResultType ==
    ASSUME NEW r \in ReceiptType, NEW o \in Outcomes, NEW why \in Reasons,
           NEW op \in Operations, NEW e \in Nat
    PROVE  /\ ProviderResult(r, o, why, op, e) \in ReceiptType
           /\ ProviderResult(r, o, why, op, e).outcome = o
<1>1. r.rev + 1 \in Nat
  BY DEF ReceiptType
<1> QED BY <1>1 DEF ReceiptType, ProviderResult

LEMMA ReadbackTypes ==
    ASSUME NEW r \in ReceiptType, NEW etag \in Nat
    PROVE  /\ Verified(r, etag) \in ReceiptType
           /\ Verified(r, etag).outcome = "VERIFIED"
           /\ Ambiguous(r, etag) \in ReceiptType
           /\ Ambiguous(r, etag).outcome = "AMBIGUOUS"
<1>1. r.rev + 1 \in Nat
  BY DEF ReceiptType
<1>2. Verified(r, etag) \in ReceiptType /\ Verified(r, etag).outcome = "VERIFIED"
  BY <1>1 DEF ReceiptType, Verified, Outcomes, Reasons
<1>3. Ambiguous(r, etag) \in ReceiptType /\ Ambiguous(r, etag).outcome = "AMBIGUOUS"
  BY <1>1 DEF ReceiptType, Ambiguous, Outcomes, Reasons
<1> QED BY <1>2, <1>3

LEMMA ClaimedType ==
    ASSUME NEW w \in Work, NEW t \in Nat
    PROVE  Claimed(w, t) \in ReceiptType /\ Claimed(w, t).outcome = "CLAIMED"
  BY DEF Claimed, NoReceipt, ReceiptType, Outcomes, Reasons, Operations, None

\* A handler that continues with a receipt answers, reads the target back or
\* proposes AMBIGUOUS or VERIFIED; it never regains a lease.
Harmless(m, next) ==
    /\ next \in LocalType
    /\ next.work = m.work
    /\ next.pc \in {"done", "readback", "persist"}
    /\ next.pc = "persist" => /\ next.cont # "existing"
                              /\ next.repl.outcome \in {"AMBIGUOUS", "VERIFIED"}

LEMMA RespondHarmless ==
    ASSUME NEW m \in LocalType PROVE Harmless(m, Respond(m))
  BY WaitingType DEF Harmless, LocalType, Respond, Pcs

LEMMA HandleExistingHarmless ==
    ASSUME NEW m \in LocalType, NEW cur \in ReceiptType, NEW t
    PROVE  Harmless(m, HandleExisting(m, cur, t))
  BY RespondHarmless, WaitingType DEF HandleExisting, Harmless, LocalType, Pcs

LEMMA HandleObservedHarmless ==
    ASSUME NEW m \in LocalType, NEW cur \in ReceiptType,
           NEW ob \in [exact : BOOLEAN, etag : Nat]
    PROVE  Harmless(m, HandleObserved(m, cur, ob))
<1>1. /\ Ambiguous(cur, ob.etag) \in ReceiptType
      /\ Ambiguous(cur, ob.etag).outcome = "AMBIGUOUS"
      /\ Verified(cur, ob.etag) \in ReceiptType
      /\ Verified(cur, ob.etag).outcome = "VERIFIED"
  <2>1. ob.etag \in Nat
    OBVIOUS
  <2> QED BY <2>1, ReadbackTypes
<1>2. ASSUME NEW new \in ReceiptType, new.outcome \in {"AMBIGUOUS", "VERIFIED"}
      PROVE  /\ Harmless(m, PersistThen(m, cur, new, "done"))
             /\ Harmless(m, [PersistThen(m, cur, new, "observed") EXCEPT !.obs = ob])
  BY <1>2, WaitingType DEF Harmless, LocalType, PersistThen, Pcs
<1> QED BY <1>1, <1>2, RespondHarmless DEF HandleObserved

LEMMA ResumeHarmless ==
    ASSUME NEW m \in LocalType, NEW cur \in ReceiptType, NEW t
    PROVE  Harmless(m, Resume(m, cur, t))
<1>1. m.obs \in [exact : BOOLEAN, etag : Nat]
  BY DEF LocalType
<1> QED BY <1>1, RespondHarmless, HandleExistingHarmless, HandleObservedHarmless DEF Resume

\* A proposal about the receipt at hand.
LEMMA PersistThenType ==
    ASSUME NEW m \in LocalType, NEW cur \in ReceiptType, NEW new \in ReceiptType
    PROVE  /\ PersistThen(m, cur, new, "existing") \in LocalType
           /\ PersistThen(m, cur, new, "existing").work = m.work
           /\ PersistThen(m, cur, new, "existing").pc = "persist"
           /\ PersistThen(m, cur, new, "existing").cont = "existing"
           /\ PersistThen(m, cur, new, "existing").repl = new
  BY WaitingType DEF PersistThen, LocalType, Pcs

-----------------------------------------------------------------------------
\* What a proposal may say of the call of its delivery.
Honest(m, fate) ==
    m.pc \in {"persist", "reread"} =>
        /\ m.repl.outcome \in {"DENIED", "FAILED_SAFE"} => m.cont = "existing"
        /\ m.repl.outcome = "DENIED" => fate = "none"
        /\ m.repl.outcome = "FAILED_SAFE" => fate \in {"none", "rejected"}

\* A receipt changes to an effectless outcome only by the owner of its key,
\* which knows that outcome to be true and has no lease left.
HonestWrites(d, next) ==
    \A k \in Key :
        /\ receipt'[k].outcome = "ABSENT" => receipt[k].outcome = "ABSENT"
        /\ receipt'[k].outcome \in {"DENIED", "FAILED_SAFE"} =>
             \/ receipt'[k].outcome = receipt[k].outcome
             \/ /\ k = K(d) /\ Owner(d) /\ next.pc \notin Leased
                /\ receipt'[k].outcome = "DENIED" => wire[d] = "none"
                /\ receipt'[k].outcome = "FAILED_SAFE" => wire[d] \in {"none", "rejected"}

\* A step of one delivery that makes no call and gains no ownership preserves
\* the invariant.
LEMMA OwnershipPreserved ==
    ASSUME IInv, TypeOK', NEW d \in Delivery, NEW next \in LocalType,
           W(d) \in Work, next.work = W(d),
           dl' = [dl EXCEPT ![d] = next],
           wire' = wire,
           next.pc \notin {"waiting", "claim", "adopt", "await"},
           next.pc \in Leased => dl[d].pc \in Leased,
           next.pc \in {"persist", "reread"} /\ next.cont = "existing" => Owner(d),
           Honest(next, wire[d]),
           HonestWrites(d, next)
    PROVE  IInv'
<1> USE DEF IInv
<1>1. /\ dl'[d] = next
      /\ \A e \in Delivery : e # d => dl'[e] = dl[e]
      /\ \A e \in Delivery : dl'[e].work = dl[e].work
  BY DEF TypeOK, W
<1>2. \A e \in Delivery : Owner(e)' => Owner(e)
  BY <1>1 DEF Owner
<1>3. \A e \in Delivery : W(e)' = W(e) /\ K(e)' = K(e)
  BY <1>1 DEF W, K
<1>4. OwnerHasReceipt'
  <2>1. \A e \in Delivery : Owner(e) => K(e) \in Key
    BY ConstantsAssumption DEF OwnerHasReceipt, K
  <2> QED BY <1>1, <1>2, <1>3, <2>1 DEF OwnerHasReceipt, HonestWrites
<1>5. OneOwner'
  BY <1>2, <1>3 DEF OneOwner
<1>6. LeaseUnspent'
  BY <1>1 DEF LeaseUnspent
<1>7. HonestProposals'
  BY <1>1 DEF HonestProposals, Honest
<1>8. EffectlessIsFinal'
  <2> SUFFICES ASSUME NEW e \in Delivery, Owner(e)'
               PROVE  /\ receipt'[K(e)].outcome \in {"DENIED", "FAILED_SAFE"} =>
                            dl'[e].pc \notin Leased
                      /\ receipt'[K(e)].outcome = "DENIED" => wire[e] = "none"
                      /\ receipt'[K(e)].outcome = "FAILED_SAFE" =>
                            wire[e] \in {"none", "rejected"}
    BY <1>3 DEF EffectlessIsFinal
  <2>1. Owner(e) /\ K(e) \in Key
    BY <1>2, ConstantsAssumption DEF OwnerHasReceipt, K
  <2>2. CASE receipt'[K(e)].outcome = receipt[K(e)].outcome
    BY <1>1, <2>1, <2>2 DEF EffectlessIsFinal
  <2>3. CASE receipt'[K(e)].outcome # receipt[K(e)].outcome
    <3>1. SUFFICES ASSUME receipt'[K(e)].outcome \in {"DENIED", "FAILED_SAFE"}
                   PROVE  /\ dl'[e].pc \notin Leased
                          /\ receipt'[K(e)].outcome = "DENIED" => wire[e] = "none"
                          /\ receipt'[K(e)].outcome = "FAILED_SAFE" =>
                                wire[e] \in {"none", "rejected"}
      OBVIOUS
    <3>2. K(e) = K(d) /\ Owner(d)
      BY <2>1, <2>3, <3>1 DEF HonestWrites
    <3>3. e = d
      BY <2>1, <3>2 DEF OneOwner
    <3> QED BY <1>1, <2>1, <2>3, <3>1, <3>3 DEF HonestWrites
  <2> QED BY <2>2, <2>3
<1> QED BY <1>4, <1>5, <1>6, <1>7, <1>8

-----------------------------------------------------------------------------
\* Steps that change nothing but the local state of one delivery.

LEMMA LocalStep ==
    ASSUME IInv, NEW d \in Delivery, NEW next \in LocalType,
           W(d) \in Work, next.work = W(d), Step(d, next),
           UNCHANGED <<now, store, cloud, res>>, faults' \in Nat,
           next.pc \notin {"waiting", "claim", "adopt", "await"},
           next.pc \in Leased => dl[d].pc \in Leased,
           next.pc \in {"persist", "reread"} /\ next.cont = "existing" => Owner(d),
           Honest(next, wire[d])
    PROVE  IInv'
<1>1. TypeOK'
  BY DEF IInv, TypeOK, Step, store, cloud, Etag
<1>2. HonestWrites(d, next)
  BY DEF HonestWrites, store
<1> QED BY <1>1, <1>2, OwnershipPreserved DEF Step, cloud

LEMMA HarmlessStep ==
    ASSUME IInv, NEW d \in Delivery, NEW next, W(d) \in Work,
           Harmless(dl[d], next), Step(d, next),
           UNCHANGED <<now, store, cloud, res>>, faults' \in Nat
    PROVE  IInv'
<1>1. /\ next \in LocalType /\ next.work = W(d)
      /\ next.pc \notin {"waiting", "claim", "adopt", "await"} \cup Leased
      /\ ~ (next.pc \in {"persist", "reread"} /\ next.cont = "existing")
      /\ Honest(next, wire[d])
  BY DEF Harmless, Honest, Leased, W
<1> QED BY <1>1, LocalStep

\* A proposal of the owner that is leaving the gate.
LEMMA GateStep ==
    ASSUME IInv, NEW d \in Delivery, NEW new \in ReceiptType,
           dl[d].pc \in Leased \cup {"await"},
           new.outcome = "DENIED" => wire[d] = "none",
           new.outcome = "FAILED_SAFE" => wire[d] \in {"none", "rejected"},
           Step(d, PersistThen(dl[d], dl[d].snap, new, "existing")),
           UNCHANGED <<now, store, cloud, res>>, faults' \in Nat
    PROVE  IInv'
<1> DEFINE next == PersistThen(dl[d], dl[d].snap, new, "existing")
<1>1. Owner(d) /\ W(d) \in Work
  BY DEF Owner, IInv, OwnerHasReceipt
<1>2. dl[d] \in LocalType /\ dl[d].snap \in ReceiptType
  <2>1. dl[d] \in LocalType
    BY DEF IInv, TypeOK
  <2> QED BY <2>1 DEF LocalType
<1>3. /\ next \in LocalType /\ next.work = W(d) /\ next.pc = "persist"
      /\ next.cont = "existing" /\ next.repl = new
  BY <1>2, PersistThenType DEF W
<1>4. Honest(next, wire[d])
  BY <1>3 DEF Honest
<1> HIDE DEF next
<1>5. Step(d, next)
  BY DEF next
<1> QED BY <1>1, <1>3, <1>4, <1>5, LocalStep DEF Leased

LEMMA BegunHasWork ==
    ASSUME IInv, NEW d \in Delivery, dl[d].pc # "waiting"
    PROVE  /\ W(d) \in Work /\ K(d) \in Key
           /\ dl[d] \in LocalType /\ dl[d].snap \in ReceiptType
           /\ dl[d].repl \in ReceiptType /\ dl[d].born \in Nat
           /\ receipt[K(d)] \in ReceiptType
<1>1. W(d) \in Work /\ K(d) \in Key
  BY ConstantsAssumption DEF IInv, OwnerHasReceipt, K
<1>2. dl[d] \in LocalType /\ receipt[K(d)] \in ReceiptType
  BY <1>1 DEF IInv, TypeOK
<1>3. /\ dl[d].snap \in ReceiptType /\ dl[d].repl \in ReceiptType
      /\ dl[d].born \in Nat
  BY <1>2 DEF LocalType
<1> QED BY <1>1, <1>2, <1>3

\* A prefix of the gate passed with the lease in hand.
LEMMA LeaseStep ==
    ASSUME IInv, NEW d \in Delivery, NEW next \in LocalType,
           dl[d].pc \in Leased, next.work = W(d), next.pc \in Leased, Step(d, next),
           UNCHANGED <<now, store, cloud, res>>, faults' \in Nat
    PROVE  IInv'
<1>1. W(d) \in Work
  BY BegunHasWork DEF Leased
<1>2. Honest(next, wire[d]) /\ next.pc \notin {"persist", "reread"}
      /\ next.pc \notin {"waiting", "claim", "adopt", "await"}
  BY DEF Honest, Leased
<1> QED BY <1>1, <1>2, LocalStep

\* Writes of the receipt by the delivery that proposed them.
LEMMA PersistStep ==
    ASSUME IInv, NEW d \in Delivery, NEW next \in LocalType,
           dl[d].pc = "persist",
           receipt[K(d)] = dl[d].snap,
           ValidReplacement(dl[d].snap, dl[d].repl),
           receipt' = [receipt EXCEPT ![K(d)] = dl[d].repl],
           next.work = W(d), Step(d, next),
           UNCHANGED <<now, authority, task, cloud, res>>, faults' \in Nat,
           next.pc \notin {"waiting", "claim", "adopt", "await"} \cup Leased,
           next.pc \in {"persist", "reread"} /\ next.cont = "existing" => Owner(d),
           Honest(next, wire[d])
    PROVE  IInv'
<1>1. W(d) \in Work /\ K(d) \in Key /\ dl[d].repl \in ReceiptType
  BY BegunHasWork
<1>2. TypeOK'
  BY <1>1 DEF IInv, TypeOK, Step, store, cloud, Etag
<1>3. HonestWrites(d, next)
  <2>1. /\ receipt'[K(d)] = dl[d].repl
        /\ \A k \in Key : k # K(d) => receipt'[k] = receipt[k]
    BY <1>1 DEF IInv, TypeOK
  <2>2. dl[d].repl.outcome # "ABSENT"
    BY DEF ValidReplacement, ReceiptTransitions
  <2>3. dl[d].repl.outcome \in {"DENIED", "FAILED_SAFE"} =>
            /\ Owner(d)
            /\ dl[d].repl.outcome = "DENIED" => wire[d] = "none"
            /\ dl[d].repl.outcome = "FAILED_SAFE" => wire[d] \in {"none", "rejected"}
    BY DEF IInv, HonestProposals, Owner
  <2> QED BY <2>1, <2>2, <2>3 DEF HonestWrites
<1> QED BY <1>1, <1>2, <1>3, OwnershipPreserved DEF Step, cloud

\* The creation of a receipt by a delivery that does not become its owner.
LEMMA OrphanClaimStep ==
    ASSUME IInv, NEW d \in Delivery, NEW next,
           dl[d].pc = "claim", receipt[K(d)] = NoReceipt,
           receipt' = [receipt EXCEPT ![K(d)] = Claimed(W(d), dl[d].born)],
           Harmless(dl[d], next), Step(d, next),
           UNCHANGED <<now, authority, task, cloud, res>>, faults' \in Nat
    PROVE  IInv'
<1>1. /\ W(d) \in Work /\ K(d) \in Key
      /\ Claimed(W(d), dl[d].born) \in ReceiptType
      /\ Claimed(W(d), dl[d].born).outcome = "CLAIMED"
  BY BegunHasWork, ClaimedType
<1>2. /\ next \in LocalType /\ next.work = W(d)
      /\ next.pc \notin {"waiting", "claim", "adopt", "await"} \cup Leased
      /\ ~ (next.pc \in {"persist", "reread"} /\ next.cont = "existing")
      /\ Honest(next, wire[d])
  BY DEF Harmless, Honest, Leased, W
<1>3. TypeOK'
  BY <1>1, <1>2 DEF IInv, TypeOK, Step, cloud, Etag
<1>4. HonestWrites(d, next)
  BY <1>1 DEF HonestWrites, IInv, TypeOK
<1> QED BY <1>1, <1>2, <1>3, <1>4, OwnershipPreserved DEF Step, cloud

-----------------------------------------------------------------------------
\* The two steps that create what is owned: the confirmed claim and the call.

LEMMA ClaimConfirmedStep ==
    ASSUME IInv, NEW d \in Delivery, ClaimConfirmed(d), faults' \in Nat
    PROVE  IInv'
<1> DEFINE new == Claimed(W(d), dl[d].born)
           next == [dl[d] EXCEPT !.pc = "prepare", !.snap = new]
<1>1. /\ W(d) \in Work /\ K(d) \in Key /\ dl[d] \in LocalType
      /\ new \in ReceiptType /\ new.outcome = "CLAIMED"
  BY BegunHasWork, ClaimedType DEF ClaimConfirmed
<1>2. next \in LocalType /\ next.pc = "prepare" /\ next.work = W(d)
  BY <1>1 DEF LocalType, Pcs, W
<1>3. /\ receipt[K(d)].outcome = "ABSENT"
      /\ receipt' = [receipt EXCEPT ![K(d)] = new]
      /\ dl' = [dl EXCEPT ![d] = next]
      /\ UNCHANGED <<now, authority, task, cloud, res>>
      /\ dl[d].pc = "claim"
  BY NoReceiptType DEF ClaimConfirmed, Step
<1> HIDE DEF new, next
<1>4. TypeOK'
  BY <1>1, <1>2, <1>3 DEF IInv, TypeOK, cloud, Etag
<1>5. /\ dl'[d] = next /\ wire' = wire
      /\ \A e \in Delivery : e # d => dl'[e] = dl[e]
      /\ \A e \in Delivery : dl'[e].work = dl[e].work
      /\ receipt'[K(d)] = new
      /\ \A k \in Key : k # K(d) => receipt'[k] = receipt[k]
  BY <1>1, <1>2, <1>3 DEF IInv, TypeOK, W, cloud
<1>6. \A e \in Delivery : W(e)' = W(e) /\ K(e)' = K(e)
  BY <1>5 DEF W, K
<1>7. \A e \in Delivery : e # d => Owner(e)' = Owner(e)
  BY <1>5 DEF Owner
<1>8. \A e \in Delivery : Owner(e) => K(e) \in Key /\ K(e) # K(d)
  BY <1>3, ConstantsAssumption DEF IInv, OwnerHasReceipt, K
<1>9. OwnerHasReceipt'
  BY <1>1, <1>3, <1>5, <1>6, <1>7, <1>8 DEF IInv, OwnerHasReceipt
<1>10. OneOwner'
  BY <1>6, <1>7, <1>8 DEF IInv, OneOwner
<1>11. LeaseUnspent'
  BY <1>3, <1>5 DEF IInv, LeaseUnspent
<1>12. HonestProposals'
  BY <1>2, <1>5 DEF IInv, HonestProposals
<1>13. EffectlessIsFinal'
  BY <1>1, <1>5, <1>6, <1>7, <1>8 DEF IInv, EffectlessIsFinal
<1> QED BY <1>4, <1>9, <1>10, <1>11, <1>12, <1>13 DEF IInv

LEMMA DispatchStep ==
    ASSUME IInv, NEW d \in Delivery, Dispatch(d), faults' \in Nat
    PROVE  IInv'
<1> DEFINE next == [dl[d] EXCEPT !.pc = "await"]
<1>1. W(d) \in Work /\ K(d) \in Key /\ dl[d] \in LocalType
  BY BegunHasWork DEF Dispatch
<1>2. next \in LocalType /\ next.pc = "await" /\ next.work = W(d)
  BY <1>1 DEF LocalType, Pcs, W
<1>3. /\ dl' = [dl EXCEPT ![d] = next]
      /\ wire' = [wire EXCEPT ![d] = "sent"]
      /\ UNCHANGED <<now, store, versions, settled, res>>
      /\ dl[d].pc = "dispatch"
  BY DEF Dispatch, Step
<1> HIDE DEF next
<1>4. TypeOK'
  BY <1>2, <1>3 DEF IInv, TypeOK, store, Etag
<1>5. /\ dl'[d] = next /\ wire'[d] = "sent" /\ receipt' = receipt
      /\ \A e \in Delivery : e # d => dl'[e] = dl[e] /\ wire'[e] = wire[e]
      /\ \A e \in Delivery : dl'[e].work = dl[e].work
  BY <1>2, <1>3 DEF IInv, TypeOK, W, store
<1>6. \A e \in Delivery : W(e)' = W(e) /\ K(e)' = K(e)
  BY <1>5 DEF W, K
<1>7. /\ Owner(d)
      /\ \A e \in Delivery : Owner(e)' => Owner(e)
  BY <1>3, <1>5 DEF Owner, Leased
<1>8. OwnerHasReceipt'
  BY <1>1, <1>5, <1>6, <1>7 DEF IInv, OwnerHasReceipt
<1>9. OneOwner'
  BY <1>6, <1>7 DEF IInv, OneOwner
<1>10. LeaseUnspent'
  BY <1>2, <1>5 DEF IInv, LeaseUnspent, Leased
<1>11. HonestProposals'
  BY <1>2, <1>5 DEF IInv, HonestProposals
<1>12. EffectlessIsFinal'
  \* The owner still had its lease, so nothing effectless is stored.
  <2>1. receipt[K(d)].outcome \notin {"DENIED", "FAILED_SAFE"}
    BY <1>3, <1>7 DEF IInv, EffectlessIsFinal, Leased
  <2> QED BY <1>2, <1>5, <1>6, <1>7, <2>1 DEF IInv, EffectlessIsFinal
<1> QED BY <1>4, <1>8, <1>9, <1>10, <1>11, <1>12 DEF IInv

-----------------------------------------------------------------------------
\* Every step of a delivery preserves the invariant.

LEMMA DeliverStep ==
    ASSUME IInv, NEW d \in Delivery, NEW w \in Work, Deliver(d, w), faults' \in Nat
    PROVE  IInv'
<1> DEFINE next == [dl[d] EXCEPT !.work = w, !.born = now,
               !.pc = IF now + Window >= task[w].expires THEN "adopt" ELSE "claim"]
<1>1. dl[d] \in LocalType /\ now \in Nat
  BY DEF IInv, TypeOK
<1>2. next \in LocalType /\ next.pc \in {"claim", "adopt"} /\ next.work = w
  BY <1>1 DEF LocalType, Pcs
<1>3. /\ dl' = [dl EXCEPT ![d] = next]
      /\ UNCHANGED <<now, store, cloud, res>>
      /\ dl[d].pc = "waiting"
  BY DEF Deliver, Step
<1> HIDE DEF next
<1>4. TypeOK'
  BY <1>2, <1>3 DEF IInv, TypeOK, store, cloud, Etag
<1>5. /\ dl'[d] = next /\ wire' = wire /\ receipt' = receipt
      /\ \A e \in Delivery : e # d => dl'[e] = dl[e]
  BY <1>2, <1>3 DEF IInv, TypeOK, store, cloud
<1>6. ~ Owner(d) /\ ~ Owner(d)'
  BY <1>2, <1>3, <1>5 DEF Owner, Leased, IInv, LeaseUnspent
<1>7. \A e \in Delivery : e # d => (Owner(e)' <=> Owner(e)) /\ W(e)' = W(e) /\ K(e)' = K(e)
  BY <1>5 DEF Owner, W, K
<1>8. OwnerHasReceipt'
  BY <1>2, <1>5, <1>6, <1>7 DEF IInv, OwnerHasReceipt, W
<1>9. OneOwner'
  BY <1>6, <1>7 DEF IInv, OneOwner
<1>10. LeaseUnspent'
  BY <1>3, <1>5 DEF IInv, LeaseUnspent
<1>11. HonestProposals'
  BY <1>2, <1>5 DEF IInv, HonestProposals
<1>12. EffectlessIsFinal'
  BY <1>5, <1>6, <1>7 DEF IInv, EffectlessIsFinal
<1> QED BY <1>4, <1>8, <1>9, <1>10, <1>11, <1>12 DEF IInv

LEMMA ProceedStep ==
    ASSUME IInv, NEW d \in Delivery, Proceed(d), faults' \in Nat
    PROVE  IInv'
<1>0. dl[d].pc # "waiting"
  BY DEF Proceed, ClaimConfirmed, AdoptOrConflict, Prepare, CheckSource, ReadAuthority,
         DenyAtGate, RejectPrepared, Dispatch, MutationReturns, PersistConfirmed,
         PersistConflict, Reread, ReadTarget
<1>1. /\ W(d) \in Work /\ K(d) \in Key /\ dl[d] \in LocalType
      /\ dl[d].snap \in ReceiptType /\ dl[d].repl \in ReceiptType
      /\ receipt[K(d)] \in ReceiptType
  BY <1>0, BegunHasWork
<1>2. /\ dl[d].seen.epoch \in Nat /\ authority.epoch \in Nat
      /\ authority.claim \in Statuses /\ Etag \in Nat /\ settled \in BOOLEAN
  <2>1. dl[d].seen.epoch \in Nat
    BY <1>1 DEF LocalType
  <2> QED BY <2>1 DEF IInv, TypeOK, Etag
<1>3. CASE ClaimConfirmed(d)
  BY <1>3, ClaimConfirmedStep
<1>4. CASE AdoptOrConflict(d)
  BY <1>1, <1>4, HandleExistingHarmless, RespondHarmless, HarmlessStep DEF AdoptOrConflict
<1>5. CASE Prepare(d)
  <2> DEFINE rejected == /\ ActionOf[W(d)] = "RECOVER_STABLE"
                         /\ ~ (/\ settled /\ Serving = "CANARY" /\ Etag = task[W(d)].etag)
             next == [dl[d] EXCEPT
               !.pc = IF ActionOf[W(d)] = "APPLY_CANARY" THEN "authority" ELSE "source",
               !.reject = rejected]
  <2>1. rejected \in BOOLEAN
    OBVIOUS
  <2>2. Step(d, next)
    BY <1>5 DEF Prepare
  <2> HIDE DEF rejected
  <2>3. next \in LocalType /\ next.work = W(d) /\ next.pc \in Leased
    BY <1>1, <2>1 DEF LocalType, Pcs, W, Leased
  <2> QED BY <1>5, <2>2, <2>3, LeaseStep DEF Prepare, Leased
<1>6. CASE CheckSource(d)
  <2>1. [dl[d] EXCEPT !.pc = "authority"] \in LocalType
        /\ [dl[d] EXCEPT !.pc = "authority"].work = W(d)
        /\ [dl[d] EXCEPT !.pc = "authority"].pc \in Leased
    BY <1>1 DEF LocalType, Pcs, W, Leased
  <2>2. CASE Step(d, [dl[d] EXCEPT !.pc = "authority"])
    BY <1>6, <2>1, <2>2, LeaseStep DEF CheckSource, Leased
  <2>3. CASE GateDeny(d, "CLAIM_BINDING_MISMATCH", None)
    <3>1. /\ Denied(dl[d].snap, "CLAIM_BINDING_MISMATCH", None) \in ReceiptType
          /\ Denied(dl[d].snap, "CLAIM_BINDING_MISMATCH", None).outcome = "DENIED"
      BY <1>1, DeniedType DEF Reasons, None
    <3>2. wire[d] = "none" /\ dl[d].pc \in Leased
      BY <1>6 DEF CheckSource, IInv, LeaseUnspent, Leased
    <3> QED BY <1>6, <2>3, <3>1, <3>2, GateStep DEF CheckSource, GateDeny
  <2> QED BY <1>6, <2>2, <2>3 DEF CheckSource
<1>7. CASE ReadAuthority(d)
  <2> DEFINE next == [dl[d] EXCEPT !.pc = "dispatch",
               !.seen = [epoch |-> authority.epoch, claim |-> authority.claim]]
  <2>1. next \in LocalType /\ next.work = W(d) /\ next.pc \in Leased
    BY <1>1, <1>2 DEF LocalType, Pcs, W, Leased
  <2> QED BY <1>7, <2>1, LeaseStep DEF ReadAuthority, Leased
<1>8. CASE DenyAtGate(d)
  <2>1. PICK why \in Reasons : GateDeny(d, why, dl[d].seen.epoch)
    BY <1>8, GateReason DEF DenyAtGate
  <2>2. /\ Denied(dl[d].snap, why, dl[d].seen.epoch) \in ReceiptType
        /\ Denied(dl[d].snap, why, dl[d].seen.epoch).outcome = "DENIED"
    BY <1>1, <1>2, DeniedType
  <2>3. wire[d] = "none" /\ dl[d].pc \in Leased
    BY <1>8 DEF DenyAtGate, IInv, LeaseUnspent, Leased
  <2> QED BY <1>8, <2>1, <2>2, <2>3, GateStep DEF DenyAtGate, GateDeny
<1>9. CASE RejectPrepared(d)
  <2> DEFINE new == ProviderResult(dl[d].snap, "FAILED_SAFE", "PROVIDER_PRECONDITION_FAILED", "NONE",
                                   dl[d].seen.epoch)
  <2>1. new \in ReceiptType /\ new.outcome = "FAILED_SAFE"
    <3>1. "FAILED_SAFE" \in Outcomes /\ "PROVIDER_PRECONDITION_FAILED" \in Reasons
          /\ "NONE" \in Operations
      BY DEF Outcomes, Reasons, Operations
    <3> QED BY <1>1, <1>2, <3>1, ProviderResultType
  <2>2. wire[d] = "none" /\ dl[d].pc \in Leased
    BY <1>9 DEF RejectPrepared, IInv, LeaseUnspent, Leased
  <2> QED BY <1>9, <2>1, <2>2, GateStep DEF RejectPrepared
<1>10. CASE Dispatch(d)
  BY <1>10, DispatchStep
<1>11. CASE MutationReturns(d)
  <2>1. PICK rep \in MutationReports(wire[d]) :
          Step(d, PersistThen(dl[d], dl[d].snap,
             ProviderResult(dl[d].snap, rep.outcome, rep.reason, rep.op,
                            dl[d].seen.epoch), "existing"))
    BY <1>11 DEF MutationReturns
  <2> DEFINE new == ProviderResult(dl[d].snap, rep.outcome, rep.reason, rep.op, dl[d].seen.epoch)
  <2>2. /\ rep.outcome \in Outcomes /\ rep.reason \in Reasons /\ rep.op \in Operations
        /\ rep.outcome # "DENIED"
        /\ rep.outcome = "FAILED_SAFE" => wire[d] = "rejected"
    BY DEF MutationReports, Outcomes, Reasons, Operations
  <2>3. new \in ReceiptType /\ new.outcome = rep.outcome
    BY <1>1, <1>2, <2>2, ProviderResultType
  <2> HIDE DEF new
  <2>4. Step(d, PersistThen(dl[d], dl[d].snap, new, "existing"))
    BY <2>1 DEF new
  <2> QED BY <1>11, <2>2, <2>3, <2>4, GateStep DEF MutationReturns
<1>12. CASE PersistConfirmed(d)
  <2>1. Harmless(dl[d], Resume(dl[d], dl[d].repl, now))
    BY <1>1, ResumeHarmless
  <2> DEFINE next == Resume(dl[d], dl[d].repl, now)
  <2> HIDE DEF next
  <2>2. /\ next \in LocalType /\ next.work = W(d)
        /\ next.pc \notin {"waiting", "claim", "adopt", "await"} \cup Leased
        /\ ~ (next.pc \in {"persist", "reread"} /\ next.cont = "existing")
        /\ Honest(next, wire[d])
    BY <2>1 DEF next, Harmless, Honest, Leased, W
  <2>3. Step(d, next)
    BY <1>12 DEF PersistConfirmed, next
  <2> QED BY <1>12, <2>2, <2>3, PersistStep DEF PersistConfirmed
<1>13. CASE PersistConflict(d)
  <2> DEFINE next == [dl[d] EXCEPT !.pc = "reread"]
  <2>1. /\ next \in LocalType /\ next.work = W(d) /\ next.pc = "reread"
        /\ next.cont = dl[d].cont /\ next.repl = dl[d].repl
    BY <1>1 DEF LocalType, Pcs, W
  <2>2. Honest(next, wire[d]) /\ (next.cont = "existing" => Owner(d))
    BY <1>13, <2>1 DEF PersistConflict, IInv, HonestProposals, Honest, Owner
  <2> QED BY <1>1, <1>13, <2>1, <2>2, LocalStep DEF PersistConflict, Leased
<1>14. CASE Reread(d)
  <2> DEFINE next == [dl[d] EXCEPT !.pc = "persist", !.tries = 1]
  <2>1. /\ next \in LocalType /\ next.work = W(d) /\ next.pc = "persist"
        /\ next.cont = dl[d].cont /\ next.repl = dl[d].repl
    BY <1>1 DEF LocalType, Pcs, W
  <2>2. Honest(next, wire[d]) /\ (next.cont = "existing" => Owner(d))
    BY <1>14, <2>1 DEF Reread, IInv, HonestProposals, Honest, Owner
  <2>3. CASE Step(d, next)
    BY <1>1, <1>14, <2>1, <2>2, <2>3, LocalStep DEF Reread, Leased
  <2>4. CASE Step(d, Respond(dl[d]))
    BY <1>1, <1>14, <2>4, RespondHarmless, HarmlessStep DEF Reread
  <2>5. CASE Step(d, Resume(dl[d], receipt[K(d)], now))
    BY <1>1, <1>14, <2>5, ResumeHarmless, HarmlessStep DEF Reread
  <2> QED BY <1>14, <2>3, <2>4, <2>5 DEF Reread
<1>15. CASE ReadTarget(d)
  <2> DEFINE exact == settled /\ Serving = PostTraffic(ActionOf[W(d)])
             ob == [exact |-> exact, etag |-> Etag]
  <2>1. exact \in BOOLEAN
    OBVIOUS
  <2>2. Step(d, HandleObserved(dl[d], dl[d].snap, ob))
    BY <1>15 DEF ReadTarget
  <2> HIDE DEF exact
  <2>3. ob \in [exact : BOOLEAN, etag : Nat]
    BY <1>2, <2>1
  <2> HIDE DEF ob
  <2>4. Harmless(dl[d], HandleObserved(dl[d], dl[d].snap, ob))
    BY <1>1, <2>3, HandleObservedHarmless
  <2> QED BY <1>1, <1>15, <2>2, <2>4, HarmlessStep DEF ReadTarget
<1> QED
  BY <1>3, <1>4, <1>5, <1>6, <1>7, <1>8, <1>9, <1>10, <1>11, <1>12, <1>13, <1>14, <1>15
     DEF Proceed

LEMMA FaultStep ==
    ASSUME IInv, NEW d \in Delivery, Fault(d), faults' \in Nat
    PROVE  IInv'
<1>0. dl[d].pc # "waiting"
  BY DEF Fault, ClaimAnswerLost, StoreUnavailable, Crash, GateUnavailable, GateRaises,
         PersistAnswerLost, PersistUnavailable, ReadTargetFails
<1>1. /\ W(d) \in Work /\ K(d) \in Key /\ dl[d] \in LocalType
      /\ dl[d].snap \in ReceiptType /\ dl[d].repl \in ReceiptType
      /\ dl[d].born \in Nat
  BY <1>0, BegunHasWork
<1>2. DEFINE reread == [dl[d] EXCEPT !.pc = "reread"]
<1>3. /\ reread \in LocalType /\ reread.work = W(d) /\ reread.pc = "reread"
      /\ reread.cont = dl[d].cont /\ reread.repl = dl[d].repl
  BY <1>1 DEF LocalType, Pcs, W
<1>4. dl[d].pc = "persist" =>
        Honest(reread, wire[d]) /\ (reread.cont = "existing" => Owner(d))
  BY <1>3 DEF IInv, HonestProposals, Honest, Owner
<1> HIDE DEF reread
<1>5. CASE ClaimAnswerLost(d)
  <2>1. /\ Claimed(W(d), dl[d].born) \in ReceiptType
        /\ Harmless(dl[d], HandleExisting(dl[d], Claimed(W(d), dl[d].born), now))
        /\ Harmless(dl[d], Respond(dl[d]))
    BY <1>1, ClaimedType, HandleExistingHarmless, RespondHarmless
  <2> QED BY <1>5, <2>1, OrphanClaimStep DEF ClaimAnswerLost
<1>6. CASE StoreUnavailable(d)
  BY <1>1, <1>6, RespondHarmless, HarmlessStep DEF StoreUnavailable
<1>7. CASE Crash(d)
  BY <1>1, <1>7, RespondHarmless, HarmlessStep DEF Crash
<1>8. CASE GateUnavailable(d)
  <2>1. /\ Denied(dl[d].snap, "AUTHORITY_UNAVAILABLE", None) \in ReceiptType
        /\ Denied(dl[d].snap, "AUTHORITY_UNAVAILABLE", None).outcome = "DENIED"
    BY <1>1, DeniedType DEF Reasons, None
  <2>2. wire[d] = "none" /\ dl[d].pc \in Leased
    BY <1>8 DEF GateUnavailable, IInv, LeaseUnspent, Leased
  <2> QED BY <1>8, <2>1, <2>2, GateStep DEF GateUnavailable, GateDeny
<1>9. CASE GateRaises(d)
  <2> DEFINE new == ProviderResult(dl[d].snap, "AMBIGUOUS", "PROVIDER_OUTCOME_AMBIGUOUS",
                                   "NONE", None)
  <2>1. new \in ReceiptType /\ new.outcome = "AMBIGUOUS"
    <3>1. /\ "AMBIGUOUS" \in Outcomes /\ "PROVIDER_OUTCOME_AMBIGUOUS" \in Reasons
          /\ "NONE" \in Operations /\ None \in Nat
      BY DEF Outcomes, Reasons, Operations, None
    <3> QED BY <1>1, <3>1, ProviderResultType
  <2> QED BY <1>9, <2>1, GateStep DEF GateRaises
<1>10. CASE PersistAnswerLost(d)
  <2>1. Step(d, reread)
    BY <1>10 DEF PersistAnswerLost, reread
  <2> QED BY <1>3, <1>4, <1>10, <2>1, PersistStep DEF PersistAnswerLost, Leased
<1>11. CASE PersistUnavailable(d)
  <2>1. Step(d, reread)
    BY <1>11 DEF PersistUnavailable, reread
  <2> QED BY <1>1, <1>3, <1>4, <1>11, <2>1, LocalStep DEF PersistUnavailable, Leased
<1>12. CASE ReadTargetFails(d)
  <2>1. NoObs \in [exact : BOOLEAN, etag : Nat]
    BY DEF NoObs, None
  <2>2. Harmless(dl[d], HandleObserved(dl[d], dl[d].snap, NoObs))
    BY <1>1, <2>1, HandleObservedHarmless
  <2> QED BY <1>1, <1>12, <2>2, HarmlessStep DEF ReadTargetFails
<1> QED
  BY <1>5, <1>6, <1>7, <1>8, <1>9, <1>10, <1>11, <1>12 DEF Fault

-----------------------------------------------------------------------------
\* The provider and the operator.

\* The call of an owner is processed: an effectless outcome was never stored
\* or proposed while the call was on its way.
LEMMA ProcessedStep ==
    ASSUME IInv, TypeOK', NEW d \in Delivery, NEW fate \in {"landed", "rejected"},
           wire[d] = "sent", wire' = [wire EXCEPT ![d] = fate],
           dl' = dl, receipt' = receipt
    PROVE  IInv'
<1>1. wire'[d] = fate /\ \A e \in Delivery : e # d => wire'[e] = wire[e]
  BY DEF IInv, TypeOK
<1>2. \A e \in Delivery : (Owner(e)' <=> Owner(e)) /\ W(e)' = W(e) /\ K(e)' = K(e)
  BY <1>1 DEF Owner, W, K
<1>3. Owner(d)
  BY DEF Owner
<1>4. OwnerHasReceipt' /\ OneOwner'
  BY <1>2 DEF IInv, OwnerHasReceipt, OneOwner
<1>5. LeaseUnspent'
  BY <1>1 DEF IInv, LeaseUnspent
<1>6. HonestProposals'
  BY <1>1 DEF IInv, HonestProposals
<1>7. EffectlessIsFinal'
  <2>1. receipt[K(d)].outcome \notin {"DENIED", "FAILED_SAFE"}
    BY <1>3 DEF IInv, EffectlessIsFinal
  <2> QED BY <1>1, <1>2, <2>1 DEF IInv, EffectlessIsFinal
<1> QED BY <1>4, <1>5, <1>6, <1>7 DEF IInv

\* Steps that touch neither deliveries, calls nor receipts.
LEMMA ElsewhereStep ==
    ASSUME IInv, TypeOK', dl' = dl, wire' = wire, receipt' = receipt
    PROVE  IInv'
<1>1. \A e \in Delivery : (Owner(e)' <=> Owner(e)) /\ W(e)' = W(e) /\ K(e)' = K(e)
  BY DEF Owner, W, K
<1> QED
  BY <1>1 DEF IInv, OwnerHasReceipt, OneOwner, LeaseUnspent, HonestProposals,
              EffectlessIsFinal

LEMMA ProviderStep ==
    ASSUME IInv, Provider, faults' \in Nat
    PROVE  IInv'
<1>1. CASE Settle
  <2>1. TypeOK'
    BY <1>1 DEF IInv, TypeOK, Settle, store, Etag
  <2> QED BY <1>1, <2>1, ElsewhereStep DEF Settle, store
<1>2. CASE ResetTarget
  <2>1. versions' \in Seq(Traffic) /\ Len(versions') > 0
    BY <1>2 DEF IInv, TypeOK, ResetTarget, AdmitTarget, Traffic
  <2>2. TypeOK'
    BY <1>2, <2>1 DEF IInv, TypeOK, ResetTarget, AdmitTarget, store, Etag
  <2> QED BY <1>2, <2>2, ElsewhereStep DEF ResetTarget, store
<1>3. ASSUME NEW d \in Delivery, Land(d) PROVE IInv'
  <2>1. W(d) \in Work
    BY <1>3 DEF Land, IInv, OwnerHasReceipt, Owner
  <2>2. PostTraffic(ActionOf[W(d)]) \in Traffic
    BY <2>1, ConstantsAssumption DEF PostTraffic, Traffic, Actions
  <2>3. versions' \in Seq(Traffic) /\ Len(versions') > 0
    BY <1>3, <2>2 DEF IInv, TypeOK, Land
  <2>4. TypeOK'
    BY <1>3, <2>3 DEF IInv, TypeOK, Land, store, Etag
  <2> QED BY <1>3, <2>4, ProcessedStep DEF Land, store
<1>4. ASSUME NEW d \in Delivery, Refuse(d) PROVE IInv'
  <2>1. TypeOK'
    BY <1>4 DEF IInv, TypeOK, Refuse, store, Etag
  <2> QED BY <1>4, <2>1, ProcessedStep DEF Refuse, store
<1> QED BY <1>1, <1>2, <1>3, <1>4 DEF Provider

\* The resolution of an ambiguous receipt writes VERIFIED, which claims
\* nothing about calls.
LEMMA ResolveCommitStep ==
    ASSUME IInv, ResolveCommit, faults' \in Nat
    PROVE  IInv'
<1> DEFINE new == Verified(res.snap, res.etag)
<1>1. res.snap \in ReceiptType /\ res.etag \in Nat
  BY DEF IInv, TypeOK
<1>2. new \in ReceiptType /\ new.outcome = "VERIFIED"
  BY <1>1, ReadbackTypes
<1>3. /\ receipt' = [receipt EXCEPT ![KeyIn(res.snap)] = new]
      /\ res' = NoRes
      /\ UNCHANGED <<now, authority, task, dl, cloud>>
  BY DEF ResolveCommit
<1> HIDE DEF new
<1>4. NoRes \in [pc : {"idle", "observe", "commit"}, snap : ReceiptType, etag : Nat]
  BY NoReceiptType DEF NoRes, None
<1>5. TypeOK'
  BY <1>2, <1>3, <1>4 DEF IInv, TypeOK, cloud, Etag
<1>6. \A k \in Key : receipt'[k].outcome \in {receipt[k].outcome, "VERIFIED"}
  BY <1>2, <1>3 DEF IInv, TypeOK
<1>7. \A e \in Delivery : (Owner(e)' <=> Owner(e)) /\ W(e)' = W(e) /\ K(e)' = K(e)
  BY <1>3 DEF Owner, W, K, cloud
<1>8. \A e \in Delivery : Owner(e) => K(e) \in Key
  BY ConstantsAssumption DEF IInv, OwnerHasReceipt, K
<1>9. OwnerHasReceipt' /\ OneOwner'
  BY <1>3, <1>6, <1>7, <1>8 DEF IInv, OwnerHasReceipt, OneOwner
<1>10. LeaseUnspent' /\ HonestProposals'
  BY <1>3 DEF IInv, LeaseUnspent, HonestProposals, cloud
<1>11. EffectlessIsFinal'
  BY <1>3, <1>6, <1>7, <1>8 DEF IInv, EffectlessIsFinal, cloud
<1> QED BY <1>5, <1>9, <1>10, <1>11 DEF IInv

LEMMA OperatorStep ==
    ASSUME IInv, Operator, faults' \in Nat
    PROVE  IInv'
<1>1. CASE Revoke
  <2>1. TypeOK'
    BY <1>1 DEF IInv, TypeOK, Revoke, cloud, Etag
  <2> QED BY <1>1, <2>1, ElsewhereStep DEF Revoke, cloud
<1>2. CASE ClassifyTarget
  <2>1. TypeOK'
    BY <1>2 DEF IInv, TypeOK, ClassifyTarget, cloud, Etag
  <2> QED BY <1>2, <2>1, ElsewhereStep DEF ClassifyTarget, cloud
<1>3. CASE FinalizeRelease
  <2>1. TypeOK'
    BY <1>3 DEF IInv, TypeOK, FinalizeRelease, cloud, Etag, Statuses
  <2> QED BY <1>3, <2>1, ElsewhereStep DEF FinalizeRelease, cloud
<1>4. ASSUME NEW k \in Key, FenceClaim(k) PROVE IInv'
  <2>1. PICK t \in TerminalStates(receipt[k]) :
          authority' = [authority EXCEPT !.epoch = @ + 1, !.claim = "RELEASING",
                                         !.terminal = t]
    BY <1>4 DEF FenceClaim
  <2>2. t \in Traffic
    BY DEF TerminalStates, Traffic
  <2>3. authority.epoch + 1 \in Nat
    BY DEF IInv, TypeOK
  <2>4. authority' \in [epoch : Nat, claim : Statuses, terminal : Traffic \cup {"NONE"},
                        classified : BOOLEAN]
    BY <2>1, <2>2, <2>3 DEF IInv, TypeOK, Statuses
  <2>5. TypeOK'
    BY <1>4, <2>4 DEF IInv, TypeOK, FenceClaim, cloud, Etag
  <2> QED BY <1>4, <2>5, ElsewhereStep DEF FenceClaim, cloud
<1>5. ASSUME NEW k \in Key, ResolveStart(k) PROVE IInv'
  <2>1. TypeOK'
    BY <1>5 DEF IInv, TypeOK, ResolveStart, store, cloud, Etag, None
  <2> QED BY <1>5, <2>1, ElsewhereStep DEF ResolveStart, store, cloud
<1>6. CASE ResolveObserve
  <2>1. Etag \in Nat /\ res' = [res EXCEPT !.pc = "commit", !.etag = Etag]
    BY <1>6 DEF IInv, TypeOK, ResolveObserve, Etag
  <2>2. res' \in [pc : {"idle", "observe", "commit"}, snap : ReceiptType, etag : Nat]
    BY <2>1 DEF IInv, TypeOK
  <2>3. TypeOK'
    BY <1>6, <2>2 DEF IInv, TypeOK, ResolveObserve, store, cloud, Etag
  <2> QED BY <1>6, <2>3, ElsewhereStep DEF ResolveObserve, store, cloud
<1>7. CASE ResolveCommit
  BY <1>7, ResolveCommitStep
<1>8. CASE ResolveAbandon
  <2>1. NoRes \in [pc : {"idle", "observe", "commit"}, snap : ReceiptType, etag : Nat]
    BY NoReceiptType DEF NoRes, None
  <2>2. TypeOK'
    BY <1>8, <2>1 DEF IInv, TypeOK, ResolveAbandon, store, cloud, Etag
  <2> QED BY <1>8, <2>2, ElsewhereStep DEF ResolveAbandon, store, cloud
<1> QED BY <1>1, <1>2, <1>3, <1>4, <1>5, <1>6, <1>7, <1>8 DEF Operator

\* Whatever the action, the task record of Signed has its type.
LEMMA SignedStep ==
    ASSUME IInv, NEW w \in Work, NEW etag \in Nat, NEW until \in Nat,
           NEW source \in Work \cup {NoWork},
           Signed(w, etag, until, source), faults' \in Nat
    PROVE  IInv'
<1> DEFINE new == [epoch |-> authority.epoch, etag |-> etag, expires |-> now + Lifetime,
                   until |-> now + until, source |-> source]
<1>1. now + Lifetime \in Nat /\ now + until \in Nat /\ authority.epoch \in Nat
  BY ConstantsAssumption DEF IInv, TypeOK
<1>2. new \in TaskType
  BY <1>1 DEF TaskType
<1>3. task' = [task EXCEPT ![w] = new]
  BY DEF Signed
<1> HIDE DEF new
<1>4. TypeOK'
  BY <1>2, <1>3 DEF IInv, TypeOK, Signed, cloud, Etag
<1> QED BY <1>4, ElsewhereStep DEF Signed, cloud

LEMMA IssueStep ==
    ASSUME IInv, Issue, faults' \in Nat
    PROVE  IInv'
<1>1. ASSUME NEW k \in Key
      PROVE  /\ receipt[k].etag \in Nat /\ receipt[k].work \in Work \cup {NoWork}
  <2>1. receipt[k] \in ReceiptType
    BY DEF IInv, TypeOK
  <2> QED BY <2>1 DEF ReceiptType
<1>2. Etag \in Nat
  BY DEF IInv, TypeOK, Etag
<1>3. ASSUME NEW w \in Work, IssueApply(w) PROVE IInv'
  BY <1>3, SignedStep, ConstantsAssumption DEF IssueApply
<1>4. ASSUME NEW w \in Work, NEW k \in Key, IssuePromotion(w, k) PROVE IInv'
  BY <1>1, <1>4, SignedStep, ConstantsAssumption DEF IssuePromotion
<1>5. ASSUME NEW w \in Work, NEW k \in Key, IssueRecovery(w, k) PROVE IInv'
  BY <1>1, <1>2, <1>5, SignedStep, ConstantsAssumption DEF IssueRecovery
<1> QED BY <1>3, <1>4, <1>5 DEF Issue

LEMMA TickStep ==
    ASSUME IInv, Tick, faults' \in Nat
    PROVE  IInv'
<1>1. TypeOK'
  BY DEF IInv, TypeOK, Tick, store, cloud, Etag
<1> QED BY <1>1, ElsewhereStep DEF Tick, store, cloud

-----------------------------------------------------------------------------
LEMMA InitInv == Init => IInv
<1> SUFFICES ASSUME Init PROVE IInv
  OBVIOUS
<1>1. Waiting.pc = "waiting" /\ Waiting \in LocalType
  BY WaitingType DEF Waiting
<1>2. NoTask \in TaskType
  BY DEF NoTask, TaskType, None
<1>3. NoRes \in [pc : {"idle", "observe", "commit"}, snap : ReceiptType, etag : Nat]
  BY NoReceiptType DEF NoRes, None
<1>4. versions \in Seq(Traffic) /\ Len(versions) > 0
  BY DEF Init, Traffic
<1>5. TypeOK
  BY <1>1, <1>2, <1>3, <1>4, NoReceiptType DEF Init, TypeOK, Etag, Statuses
<1>6. \A d \in Delivery : ~ Owner(d) /\ dl[d].pc = "waiting"
  BY <1>1 DEF Init, Owner, Leased
<1>7. LeaseUnspent /\ HonestProposals
  BY <1>6 DEF Init, LeaseUnspent, HonestProposals
<1> QED BY <1>5, <1>6, <1>7 DEF IInv, OwnerHasReceipt, OneOwner, EffectlessIsFinal

LEMMA NextInv == IInv /\ [Next]_vars => IInv'
<1> SUFFICES ASSUME IInv, [Next]_vars PROVE IInv'
  OBVIOUS
<1>1. faults \in Nat /\ faults + 1 \in Nat
  BY DEF IInv, TypeOK
<1>2. CASE UNCHANGED vars
  <2>1. TypeOK'
    BY <1>2 DEF IInv, TypeOK, vars, Etag
  <2> QED BY <1>2, <2>1, ElsewhereStep DEF vars
<1>3. CASE UNCHANGED faults /\ (Tick \/ Issue \/ Provider \/ Operator)
  BY <1>1, <1>3, TickStep, IssueStep, ProviderStep, OperatorStep
<1>4. ASSUME NEW d \in Delivery, Serve(d) PROVE IInv'
  BY <1>1, <1>4, ProceedStep DEF Serve
<1>5. ASSUME NEW d \in Delivery, UNCHANGED faults, NEW w \in Work, Deliver(d, w)
      PROVE  IInv'
  BY <1>1, <1>5, DeliverStep
<1>6. ASSUME NEW d \in Delivery, faults' = faults + 1, Fault(d) PROVE IInv'
  BY <1>1, <1>6, FaultStep
<1> QED BY <1>2, <1>3, <1>4, <1>5, <1>6 DEF Next

\* The ownership invariant holds of receipt execution, for any mutations,
\* keys, deliveries, deadlines and number of faults.
THEOREM OwnershipInvariant == Spec => []IInv
  BY InitInv, NextInv, PTL DEF Spec

\* Type correctness.
THEOREM TypeCorrect == Spec => []TypeOK
<1>1. IInv => TypeOK
  BY DEF IInv
<1> QED BY <1>1, OwnershipInvariant, PTL

\* At most one provider call per idempotency key, however a task is
\* redelivered and whatever fails.
THEOREM AtMostOnce == Spec => []AtMostOneDispatch
<1>1. IInv => AtMostOneDispatch
  BY DEF IInv, OneOwner, Owner, AtMostOneDispatch
<1> QED BY <1>1, OwnershipInvariant, PTL

\* A stored DENIED means that no call was made, a stored FAILED_SAFE that no
\* call is left that could take effect.
THEOREM EffectFree == Spec => []SafeOutcomesAreEffectFree
<1>1. IInv => SafeOutcomesAreEffectFree
  BY DEF IInv, EffectlessIsFinal, Owner, SafeOutcomesAreEffectFree
<1> QED BY <1>1, OwnershipInvariant, PTL

-----------------------------------------------------------------------------
(***************************************************************************)
(* Receipts and the target.  Versions are only appended, so an observation *)
(* of one stays true; the target leaves its baseline only by a canary      *)
(* call, the canary is version 2, and no other version is one.  Every      *)
(* signed mutation therefore names version 1 or version 2, what lands      *)
(* leaves it behind, and a release that found the target in a terminal     *)
(* state leaves both behind.                                               *)
(***************************************************************************)

\* A version has the traffic that the action leaves behind.
Holds(etag, action) == etag \in 1 .. Etag /\ versions[etag] = PostTraffic(action)

TrueReceipt(r) == r.outcome = "VERIFIED" => Holds(r.etag, ActionOf[r.work])

\* What a delivery works from: the receipt of its own mutation, true
\* proposals and true observations.
Sound(m) ==
    /\ m.pc \in {"waiting", "claim", "adopt"} => m.snap = NoReceipt /\ ~ m.obs.exact
    /\ m.snap # NoReceipt => m.snap.work = m.work
    /\ m.pc \in Leased \cup {"await", "persist", "reread", "readback"} =>
          m.snap.work = m.work
    /\ m.pc \in {"persist", "reread"} => TrueReceipt(m.repl)
    /\ m.obs.exact => Holds(m.obs.etag, ActionOf[m.work])

LocalsAreSound == \A d \in Delivery : Sound(dl[d])

\* A receipt is true and belongs to a mutation that was issued.
ReceiptsAreTrue ==
    \A k \in Key :
        /\ TrueReceipt(receipt[k])
        /\ receipt[k].outcome # "ABSENT" =>
              receipt[k].work \in Work /\ task[receipt[k].work] # NoTask

OwnersAreNamed == \A d \in Delivery : Owner(d) => receipt[K(d)].work = W(d)

ResolutionIsTrue ==
    /\ res.pc # "idle" => res.snap.outcome = "AMBIGUOUS"
    /\ res.pc = "commit" => Holds(res.etag, ActionOf[res.snap.work])

VersionsInOrder ==
    /\ versions[1] = "STABLE"
    /\ Etag >= 2 => versions[2] = "CANARY"
    /\ \A i \in 3 .. Etag : versions[i] # "CANARY"

\* The version whose traffic a mutation starts from.
BaseOf(w) == IF ActionOf[w] = "APPLY_CANARY" THEN 1 ELSE 2

TasksNameTheirBase ==
    \A w \in Work : task[w] # NoTask => task[w].etag = BaseOf(w) /\ BaseOf(w) <= Etag

BegunIsIssued == \A d \in Delivery : dl[d].pc # "waiting" => task[W(d)] # NoTask

\* A call that landed left its base behind, and no two landed on one.
LandedApart ==
    \A d, e \in Delivery :
        /\ wire[d] = "landed" => BaseOf(W(d)) < Etag
        /\ (d # e /\ wire[d] = "landed" /\ wire[e] = "landed") => BaseOf(W(d)) # BaseOf(W(e))

ReleasedBehind ==
    /\ authority.claim # "ACTIVE" => Etag >= 2 /\ authority.terminal # "CANARY"
    /\ authority.classified => Etag >= 3
    /\ authority.claim = "RELEASED" => authority.classified

\* The second inductive invariant, relative to the first.
TargetInv == /\ LocalsAreSound
             /\ ReceiptsAreTrue
             /\ OwnersAreNamed
             /\ ResolutionIsTrue
             /\ VersionsInOrder
             /\ TasksNameTheirBase
             /\ BegunIsIssued
             /\ LandedApart
             /\ ReleasedBehind

\* Answering leaves nothing to be wrong about.
LEMMA RespondSound ==
    ASSUME NEW m \in LocalType
    PROVE  Sound(Respond(m))
  BY DEF Sound, Respond, Waiting, NoObs, Leased

\* A proposal that continues the gate or a readback.
LEMMA PersistThenSound ==
    ASSUME NEW m \in LocalType, NEW cur \in ReceiptType, NEW new \in ReceiptType, NEW cont,
           cur.work = m.work, TrueReceipt(new)
    PROVE  /\ Sound(PersistThen(m, cur, new, cont))
           /\ \A ob \in [exact : BOOLEAN, etag : Nat] :
                (ob.exact => Holds(ob.etag, ActionOf[m.work])) =>
                    Sound([PersistThen(m, cur, new, cont) EXCEPT !.obs = ob])
  BY DEF Sound, PersistThen, Waiting, NoObs, Leased

LEMMA HandleExistingSound ==
    ASSUME NEW m \in LocalType, NEW cur \in ReceiptType, NEW t, cur.work = m.work
    PROVE  Sound(HandleExisting(m, cur, t))
<1> DEFINE next == [Waiting EXCEPT !.pc = "readback", !.work = m.work, !.snap = cur]
<1>1. Sound(next)
  BY DEF Sound, Waiting, NoObs, Leased
<1> HIDE DEF next
<1>2. HandleExisting(m, cur, t) \in {Respond(m), next}
  BY DEF HandleExisting, next
<1> QED BY <1>1, <1>2, RespondSound

\* An exact observation makes VERIFIED true; AMBIGUOUS says nothing.
LEMMA ObservedIsTrue ==
    ASSUME NEW cur \in ReceiptType, NEW ob \in [exact : BOOLEAN, etag : Nat]
    PROVE  /\ TrueReceipt(Ambiguous(cur, ob.etag))
           /\ (ob.exact /\ Holds(ob.etag, ActionOf[cur.work])) =>
                  TrueReceipt(Verified(cur, ob.etag))
<1>1. Ambiguous(cur, ob.etag).outcome = "AMBIGUOUS"
  BY DEF Ambiguous, ReceiptType
<1>2. /\ Verified(cur, ob.etag).etag = ob.etag
      /\ Verified(cur, ob.etag).work = cur.work
  BY DEF Verified, ReceiptType
<1> QED BY <1>1, <1>2 DEF TrueReceipt

LEMMA HandleObservedSound ==
    ASSUME NEW m \in LocalType, NEW cur \in ReceiptType,
           NEW ob \in [exact : BOOLEAN, etag : Nat],
           cur.work = m.work, ob.exact => Holds(ob.etag, ActionOf[m.work])
    PROVE  Sound(HandleObserved(m, cur, ob))
<1> DEFINE amb == Ambiguous(cur, ob.etag)
           ver == Verified(cur, ob.etag)
<1>1. amb \in ReceiptType /\ ver \in ReceiptType
  <2>1. ob.etag \in Nat
    OBVIOUS
  <2> QED BY <2>1, ReadbackTypes
<1>2. TrueReceipt(amb) /\ (ob.exact => TrueReceipt(ver))
  BY ObservedIsTrue
<1> HIDE DEF amb, ver
<1>3. /\ Sound(PersistThen(m, cur, amb, "done"))
      /\ Sound([PersistThen(m, cur, amb, "observed") EXCEPT !.obs = ob])
      /\ ob.exact => Sound(PersistThen(m, cur, ver, "done"))
  BY <1>1, <1>2, PersistThenSound
<1>4. \/ HandleObserved(m, cur, ob) = Respond(m)
      \/ HandleObserved(m, cur, ob) = [PersistThen(m, cur, amb, "observed") EXCEPT !.obs = ob]
      \/ ob.exact /\ HandleObserved(m, cur, ob) = PersistThen(m, cur, ver, "done")
      \/ HandleObserved(m, cur, ob) = PersistThen(m, cur, amb, "done")
  BY DEF HandleObserved, amb, ver
<1> QED BY <1>3, <1>4, RespondSound

LEMMA ResumeSound ==
    ASSUME NEW m \in LocalType, NEW cur \in ReceiptType, NEW t,
           cur.work = m.work, Sound(m)
    PROVE  Sound(Resume(m, cur, t))
<1>1. m.obs \in [exact : BOOLEAN, etag : Nat]
  BY DEF LocalType
<1>2. m.obs.exact => Holds(m.obs.etag, ActionOf[m.work])
  BY DEF Sound
<1>3. /\ Sound(Respond(m)) /\ Sound(HandleExisting(m, cur, t))
      /\ Sound(HandleObserved(m, cur, m.obs))
  BY <1>1, <1>2, RespondSound, HandleExistingSound, HandleObservedSound
<1> QED BY <1>3 DEF Resume

\* A change of the program counter within the lease or within a write.
LEMMA SamePlaceSound ==
    ASSUME NEW m \in LocalType, NEW next \in LocalType, Sound(m),
           next.snap = m.snap, next.work = m.work, next.repl = m.repl, next.obs = m.obs,
           \/ m.pc \in Leased /\ next.pc \in Leased \cup {"await"}
           \/ m.pc \in {"persist", "reread"} /\ next.pc \in {"persist", "reread"}
    PROVE  Sound(next)
  BY DEF Sound, Leased

-----------------------------------------------------------------------------
\* The steps of deliveries.

\* What a step of delivery d may do to calls and receipts.
MayCall(d) ==
    /\ \A e \in Delivery : wire'[e] = "landed" => wire[e] = "landed"
    /\ \A e \in Delivery : e # d => wire'[e] = wire[e]
    /\ wire'[d] # "none" => Owner(d)

MayWrite(d) ==
    \A k \in Key :
        \/ receipt'[k] = receipt[k]
        \/ /\ k = K(d) /\ TrueReceipt(receipt'[k]) /\ receipt'[k].work = W(d)
           /\ receipt[k].outcome = "ABSENT" \/ receipt[k].work = W(d)

\* A step of one delivery that lands nothing preserves the invariant.
LEMMA SoundStep ==
    ASSUME IInv, TargetInv, NEW d \in Delivery, NEW next \in LocalType,
           dl[d].pc # "waiting", next.work = W(d), Step(d, next), Sound(next),
           UNCHANGED <<authority, task, versions, res>>,
           MayCall(d), MayWrite(d),
           Owner(d)' => Owner(d) \/ receipt'[K(d)].work = W(d)
    PROVE  TargetInv'
<1>1. /\ dl'[d] = next
      /\ \A e \in Delivery : e # d => dl'[e] = dl[e]
      /\ \A e \in Delivery : W(e)' = W(e) /\ K(e)' = K(e)
  BY DEF IInv, TypeOK, Step, W, K
<1>2. W(d) \in Work /\ K(d) \in Key /\ task[W(d)] # NoTask
  BY BegunHasWork DEF TargetInv, BegunIsIssued
<1>3. Etag' = Etag
  BY DEF Etag
<1>4. \A r : TrueReceipt(r)' <=> TrueReceipt(r)
  BY <1>3 DEF TrueReceipt, Holds
<1>5. \A m : Sound(m) <=> Sound(m)'
  BY <1>3 DEF Sound, TrueReceipt, Holds
<1>6. LocalsAreSound'
  BY <1>1, <1>5 DEF TargetInv, LocalsAreSound
<1>7. ReceiptsAreTrue'
  <2> SUFFICES ASSUME NEW k \in Key
               PROVE  /\ TrueReceipt(receipt'[k])
                      /\ receipt'[k].outcome # "ABSENT" =>
                            receipt'[k].work \in Work /\ task[receipt'[k].work] # NoTask
    BY <1>4 DEF ReceiptsAreTrue
  <2>1. CASE receipt'[k] = receipt[k]
    BY <2>1 DEF TargetInv, ReceiptsAreTrue
  <2>2. CASE receipt'[k] # receipt[k]
    BY <1>2, <2>2 DEF MayWrite
  <2> QED BY <2>1, <2>2
<1>8. OwnersAreNamed'
  <2> SUFFICES ASSUME NEW e \in Delivery, Owner(e)'
               PROVE  receipt'[K(e)].work = W(e)
    BY <1>1 DEF OwnersAreNamed
  <2>1. CASE ~ Owner(e)
    <3>1. e = d
      BY <1>1, <2>1 DEF Owner, MayCall
    <3> QED BY <2>1, <3>1
  <2>2. CASE Owner(e)
    <3>1. /\ receipt[K(e)].work = W(e) /\ receipt[K(e)].outcome # "ABSENT"
          /\ K(e) \in Key
      BY <2>2, ConstantsAssumption DEF TargetInv, OwnersAreNamed, IInv, OwnerHasReceipt, K
    <3> QED BY <3>1 DEF MayWrite
  <2> QED BY <2>1, <2>2
<1>9. ResolutionIsTrue' /\ VersionsInOrder' /\ ReleasedBehind'
  BY <1>3 DEF TargetInv, ResolutionIsTrue, VersionsInOrder, ReleasedBehind, Holds
<1>10. TasksNameTheirBase'
  BY <1>3 DEF TargetInv, TasksNameTheirBase
<1>11. BegunIsIssued'
  BY <1>1, <1>2 DEF TargetInv, BegunIsIssued
<1>12. LandedApart'
  BY <1>1, <1>3 DEF TargetInv, LandedApart, MayCall
<1> QED BY <1>6, <1>7, <1>8, <1>9, <1>10, <1>11, <1>12 DEF TargetInv

\* A step that changes nothing but the local state of one delivery.
LEMMA SoundLocal ==
    ASSUME IInv, TargetInv, NEW d \in Delivery, NEW next \in LocalType,
           dl[d].pc # "waiting", next.work = W(d), Step(d, next), Sound(next),
           UNCHANGED <<now, store, cloud, res>>,
           Owner(d)' => Owner(d)
    PROVE  TargetInv'
<1>1. UNCHANGED <<authority, task, versions, res>> /\ wire' = wire /\ receipt' = receipt
  BY DEF store, cloud
<1>2. MayCall(d) /\ MayWrite(d)
  BY <1>1 DEF MayCall, MayWrite, Owner
<1> QED BY <1>1, <1>2, SoundStep

\* The same, when a handler ran that cannot make its delivery an owner.
LEMMA SoundHarmless ==
    ASSUME IInv, TargetInv, NEW d \in Delivery, NEW next,
           dl[d].pc # "waiting", Harmless(dl[d], next), Sound(next), Step(d, next),
           UNCHANGED <<now, store, cloud, res>>
    PROVE  TargetInv'
<1>1. next \in LocalType /\ next.work = W(d)
  BY DEF Harmless, W
<1>2. dl'[d] = next /\ wire' = wire
  BY DEF IInv, TypeOK, Step, cloud
<1>3. Owner(d)' => Owner(d)
  BY <1>2 DEF Owner, Harmless, Leased
<1> QED BY <1>1, <1>3, SoundLocal

\* The owner leaves the gate with a proposal other than VERIFIED.
LEMMA SoundGate ==
    ASSUME IInv, TargetInv, NEW d \in Delivery, NEW new \in ReceiptType,
           dl[d].pc \in Leased \cup {"await"}, new.outcome # "VERIFIED",
           Step(d, PersistThen(dl[d], dl[d].snap, new, "existing")),
           UNCHANGED <<now, store, cloud, res>>
    PROVE  TargetInv'
<1> DEFINE next == PersistThen(dl[d], dl[d].snap, new, "existing")
<1>1. dl[d].pc # "waiting" /\ Owner(d)
  BY DEF Leased, Owner
<1>2. dl[d] \in LocalType /\ dl[d].snap \in ReceiptType /\ dl[d].snap.work = dl[d].work
  BY <1>1, BegunHasWork DEF TargetInv, LocalsAreSound, Sound
<1>3. next \in LocalType /\ next.work = W(d)
  BY <1>2, PersistThenType DEF W
<1>4. Sound(next)
  BY <1>2, PersistThenSound DEF TrueReceipt
<1> HIDE DEF next
<1>5. Step(d, next)
  BY DEF next
<1> QED BY <1>1, <1>3, <1>4, <1>5, SoundLocal

\* The lease, or the write in hand, is kept.
LEMMA SoundSamePlace ==
    ASSUME IInv, TargetInv, NEW d \in Delivery, NEW next \in LocalType, Step(d, next),
           next.snap = dl[d].snap, next.work = dl[d].work, next.repl = dl[d].repl,
           next.obs = dl[d].obs, next.cont = dl[d].cont,
           \/ dl[d].pc \in Leased /\ next.pc \in Leased
           \/ dl[d].pc \in {"persist", "reread"} /\ next.pc \in {"persist", "reread"},
           UNCHANGED <<now, store, cloud, res>>
    PROVE  TargetInv'
<1>1. dl[d].pc # "waiting" /\ next.work = W(d)
  BY DEF Leased, W
<1>2. Sound(next)
  BY <1>1, BegunHasWork, SamePlaceSound DEF TargetInv, LocalsAreSound
<1>3. dl'[d] = next /\ wire' = wire
  BY DEF IInv, TypeOK, Step, cloud
<1>4. Owner(d)' => Owner(d)
  BY <1>3 DEF Owner, Leased
<1> QED BY <1>1, <1>2, <1>4, SoundLocal

LEMMA SoundPersist ==
    ASSUME IInv, TargetInv, NEW d \in Delivery, NEW next \in LocalType,
           dl[d].pc = "persist",
           receipt[K(d)] = dl[d].snap,
           ValidReplacement(dl[d].snap, dl[d].repl),
           receipt' = [receipt EXCEPT ![K(d)] = dl[d].repl],
           next.work = W(d), Step(d, next), Sound(next),
           UNCHANGED <<now, authority, task, cloud, res>>,
           next.pc \notin Leased \cup {"await"},
           next.pc \in {"persist", "reread"} /\ next.cont = "existing" => Owner(d)
    PROVE  TargetInv'
<1>1. K(d) \in Key /\ Sound(dl[d])
  BY BegunHasWork DEF TargetInv, LocalsAreSound
<1>2. dl[d].snap.work = W(d) /\ dl[d].repl.work = W(d) /\ TrueReceipt(dl[d].repl)
  BY <1>1 DEF Sound, ValidReplacement, W
<1>3. /\ receipt'[K(d)] = dl[d].repl
      /\ \A k \in Key : k # K(d) => receipt'[k] = receipt[k]
      /\ dl'[d] = next /\ wire' = wire
  BY <1>1 DEF IInv, TypeOK, Step, cloud
<1>4. MayWrite(d) /\ MayCall(d)
  BY <1>2, <1>3 DEF MayWrite, MayCall, Owner
<1>5. Owner(d)' => Owner(d)
  BY <1>3 DEF Owner
<1> QED BY <1>4, <1>5, SoundStep DEF cloud

\* A created receipt names the mutation of the request; its creator becomes
\* its owner or not.
LEMMA SoundClaim ==
    ASSUME IInv, TargetInv, NEW d \in Delivery, NEW next \in LocalType,
           dl[d].pc = "claim", receipt[K(d)] = NoReceipt,
           receipt' = [receipt EXCEPT ![K(d)] = Claimed(W(d), dl[d].born)],
           next.work = W(d), Step(d, next), Sound(next),
           UNCHANGED <<now, authority, task, cloud, res>>
    PROVE  TargetInv'
<1> DEFINE new == Claimed(W(d), dl[d].born)
<1>1. /\ K(d) \in Key /\ new \in ReceiptType /\ new.outcome = "CLAIMED"
      /\ new.work = W(d)
  BY BegunHasWork, ClaimedType DEF Claimed, NoReceipt
<1> HIDE DEF new
<1>2. receipt' = [receipt EXCEPT ![K(d)] = new]
  BY DEF new
<1>3. /\ receipt'[K(d)] = new
      /\ \A k \in Key : k # K(d) => receipt'[k] = receipt[k]
  BY <1>1, <1>2 DEF IInv, TypeOK
<1>4. wire' = wire /\ wire[d] = "none"
  BY DEF cloud, IInv, LeaseUnspent
<1>5. MayWrite(d) /\ MayCall(d)
  BY <1>1, <1>3, <1>4, NoReceiptType DEF MayWrite, MayCall, TrueReceipt
<1> QED BY <1>1, <1>3, <1>5, SoundStep DEF cloud

LEMMA SoundDeliver ==
    ASSUME IInv, TargetInv, NEW d \in Delivery, NEW w \in Work, Deliver(d, w)
    PROVE  TargetInv'
<1> DEFINE next == [dl[d] EXCEPT !.work = w, !.born = now,
               !.pc = IF now + Window >= task[w].expires THEN "adopt" ELSE "claim"]
<1>1. dl[d] \in LocalType /\ dl[d].pc = "waiting" /\ Sound(dl[d])
  BY DEF IInv, TypeOK, Deliver, TargetInv, LocalsAreSound
<1>2. /\ next.pc \in {"claim", "adopt"} /\ next.work = w /\ next.snap = dl[d].snap
      /\ next.obs = dl[d].obs
  BY <1>1 DEF LocalType
<1>3. dl' = [dl EXCEPT ![d] = next] /\ task[w] # NoTask
  BY DEF Deliver, Step
<1> HIDE DEF next
<1>4. UNCHANGED <<now, store, cloud, res>>
  BY DEF Deliver
<1>5. /\ dl'[d] = next
      /\ \A e \in Delivery : e # d => dl'[e] = dl[e]
  BY <1>3 DEF IInv, TypeOK
<1>6. Etag' = Etag
  BY <1>4 DEF Etag, cloud
<1>7. \A e \in Delivery : e # d => W(e)' = W(e) /\ K(e)' = K(e) /\ (Owner(e)' <=> Owner(e))
  BY <1>4, <1>5 DEF W, K, Owner, cloud
<1>8. ~ Owner(d)' /\ wire[d] = "none"
  BY <1>1, <1>2, <1>4, <1>5 DEF Owner, Leased, IInv, LeaseUnspent, cloud
<1>9. Sound(next)
  BY <1>1, <1>2 DEF Sound, Leased
<1>10. \A m : Sound(m) <=> Sound(m)'
  BY <1>4, <1>6 DEF Sound, TrueReceipt, Holds, cloud
<1>11. LocalsAreSound'
  BY <1>5, <1>9, <1>10 DEF TargetInv, LocalsAreSound
<1>12. ReceiptsAreTrue' /\ ResolutionIsTrue' /\ VersionsInOrder' /\ TasksNameTheirBase'
       /\ ReleasedBehind'
  BY <1>4, <1>6 DEF TargetInv, ReceiptsAreTrue, ResolutionIsTrue, VersionsInOrder,
        TasksNameTheirBase, ReleasedBehind, TrueReceipt, Holds, store, cloud
<1>13. OwnersAreNamed'
  BY <1>4, <1>7, <1>8 DEF TargetInv, OwnersAreNamed, store
<1>14. BegunIsIssued'
  BY <1>2, <1>3, <1>4, <1>5, <1>7 DEF TargetInv, BegunIsIssued, W, store
<1>15. LandedApart'
  <2>1. \A e \in Delivery : wire'[e] = "landed" => e # d /\ wire[e] = "landed"
    BY <1>4, <1>8 DEF cloud
  <2> QED BY <1>6, <1>7, <2>1 DEF TargetInv, LandedApart
<1> QED BY <1>11, <1>12, <1>13, <1>14, <1>15 DEF TargetInv

LEMMA SoundProceed ==
    ASSUME IInv, TargetInv, NEW d \in Delivery, Proceed(d)
    PROVE  TargetInv'
<1>0. dl[d].pc # "waiting"
  BY DEF Proceed, ClaimConfirmed, AdoptOrConflict, Prepare, CheckSource, ReadAuthority,
         DenyAtGate, RejectPrepared, Dispatch, MutationReturns, PersistConfirmed,
         PersistConflict, Reread, ReadTarget
<1>1. /\ W(d) \in Work /\ K(d) \in Key /\ dl[d] \in LocalType
      /\ dl[d].snap \in ReceiptType /\ dl[d].repl \in ReceiptType /\ dl[d].born \in Nat
      /\ receipt[K(d)] \in ReceiptType /\ dl[d].seen.epoch \in Nat
      /\ Sound(dl[d]) /\ W(d) = dl[d].work
  <2>1. dl[d].seen.epoch \in Nat
    BY <1>0, BegunHasWork DEF LocalType
  <2> QED BY <1>0, <2>1, BegunHasWork DEF TargetInv, LocalsAreSound, W
<1>2. /\ authority.epoch \in Nat /\ authority.claim \in Statuses
      /\ Etag \in Nat /\ Etag > 0 /\ settled \in BOOLEAN
  BY DEF IInv, TypeOK, Etag
<1>3. CASE ClaimConfirmed(d)
  <2> DEFINE new == Claimed(W(d), dl[d].born)
             next == [dl[d] EXCEPT !.pc = "prepare", !.snap = new]
  <2>1. new \in ReceiptType /\ new.work = W(d) /\ new # NoReceipt
    BY <1>1, ClaimedType, NoReceiptType DEF Claimed, NoReceipt
  <2>2. dl[d].pc = "claim" /\ ~ dl[d].obs.exact
    BY <1>1, <1>3 DEF ClaimConfirmed, Sound
  <2> HIDE DEF new
  <2>3. /\ next \in LocalType /\ next.work = W(d) /\ next.pc = "prepare"
        /\ next.snap = new /\ next.obs = dl[d].obs
    BY <1>1, <2>1 DEF LocalType, Pcs
  <2> HIDE DEF next
  <2>4. Sound(next)
    BY <2>1, <2>2, <2>3 DEF Sound
  <2>5. /\ Step(d, next)
        /\ receipt[K(d)] = NoReceipt
        /\ receipt' = [receipt EXCEPT ![K(d)] = Claimed(W(d), dl[d].born)]
        /\ UNCHANGED <<now, authority, task, cloud, res>>
    BY <1>3 DEF ClaimConfirmed, next, new
  <2> QED BY <2>2, <2>3, <2>4, <2>5, SoundClaim
<1>4. CASE AdoptOrConflict(d)
  <2>1. ASSUME receipt[K(d)].work = W(d), Step(d, HandleExisting(dl[d], receipt[K(d)], now))
        PROVE  TargetInv'
    BY <1>0, <1>1, <1>4, <2>1, HandleExistingHarmless, HandleExistingSound, SoundHarmless
       DEF AdoptOrConflict
  <2>2. ASSUME Step(d, Respond(dl[d])) PROVE TargetInv'
    BY <1>0, <1>1, <1>4, <2>2, RespondHarmless, RespondSound, SoundHarmless
       DEF AdoptOrConflict
  <2> QED BY <1>4, <2>1, <2>2 DEF AdoptOrConflict
<1>5. CASE Prepare(d)
  <2> DEFINE rejected == /\ ActionOf[W(d)] = "RECOVER_STABLE"
                         /\ ~ (/\ settled /\ Serving = "CANARY" /\ Etag = task[W(d)].etag)
             next == [dl[d] EXCEPT
               !.pc = IF ActionOf[W(d)] = "APPLY_CANARY" THEN "authority" ELSE "source",
               !.reject = rejected]
  <2>1. rejected \in BOOLEAN
    OBVIOUS
  <2>2. Step(d, next) /\ dl[d].pc \in Leased
    BY <1>5 DEF Prepare, Leased
  <2> HIDE DEF rejected
  <2>3. /\ next \in LocalType /\ next.pc \in Leased /\ next.snap = dl[d].snap
        /\ next.work = dl[d].work /\ next.repl = dl[d].repl /\ next.obs = dl[d].obs
        /\ next.cont = dl[d].cont
    BY <1>1, <2>1 DEF LocalType, Pcs, Leased
  <2> HIDE DEF next
  <2> QED BY <1>5, <2>2, <2>3, SoundSamePlace DEF Prepare
<1>6. CASE CheckSource(d)
  <2> DEFINE next == [dl[d] EXCEPT !.pc = "authority"]
  <2>0. dl[d].pc \in Leased
    BY <1>6 DEF CheckSource, Leased
  <2>1. /\ next \in LocalType /\ next.pc \in Leased /\ next.snap = dl[d].snap
        /\ next.work = dl[d].work /\ next.repl = dl[d].repl /\ next.obs = dl[d].obs
        /\ next.cont = dl[d].cont
    BY <1>1 DEF LocalType, Pcs, Leased
  <2> HIDE DEF next
  <2>2. ASSUME Step(d, next) PROVE TargetInv'
    BY <1>6, <2>0, <2>1, <2>2, SoundSamePlace DEF CheckSource
  <2>3. ASSUME GateDeny(d, "CLAIM_BINDING_MISMATCH", None) PROVE TargetInv'
    <3>1. /\ Denied(dl[d].snap, "CLAIM_BINDING_MISMATCH", None) \in ReceiptType
          /\ Denied(dl[d].snap, "CLAIM_BINDING_MISMATCH", None).outcome = "DENIED"
      BY <1>1, DeniedType DEF Reasons, None
    <3> QED BY <1>6, <2>0, <2>3, <3>1, SoundGate DEF CheckSource, GateDeny
  <2> QED BY <1>6, <2>2, <2>3 DEF CheckSource, next
<1>7. CASE ReadAuthority(d)
  <2> DEFINE next == [dl[d] EXCEPT !.pc = "dispatch",
               !.seen = [epoch |-> authority.epoch, claim |-> authority.claim]]
  <2>1. /\ next \in LocalType /\ next.pc \in Leased /\ next.snap = dl[d].snap
        /\ next.work = dl[d].work /\ next.repl = dl[d].repl /\ next.obs = dl[d].obs
        /\ next.cont = dl[d].cont
    BY <1>1, <1>2 DEF LocalType, Pcs, Leased
  <2>2. Step(d, next) /\ dl[d].pc \in Leased
    BY <1>7 DEF ReadAuthority, Leased
  <2> HIDE DEF next
  <2> QED BY <1>7, <2>1, <2>2, SoundSamePlace DEF ReadAuthority
<1>8. CASE DenyAtGate(d)
  <2>1. PICK why \in Reasons : GateDeny(d, why, dl[d].seen.epoch)
    BY <1>8, GateReason DEF DenyAtGate
  <2> DEFINE new == Denied(dl[d].snap, why, dl[d].seen.epoch)
  <2>2. new \in ReceiptType /\ new.outcome = "DENIED"
    BY <1>1, DeniedType
  <2>3. /\ Step(d, PersistThen(dl[d], dl[d].snap, new, "existing"))
        /\ dl[d].pc \in Leased
    BY <1>8, <2>1 DEF DenyAtGate, GateDeny, Leased
  <2> HIDE DEF new
  <2> QED BY <1>8, <2>2, <2>3, SoundGate DEF DenyAtGate
<1>9. CASE RejectPrepared(d)
  <2> DEFINE new == ProviderResult(dl[d].snap, "FAILED_SAFE", "PROVIDER_PRECONDITION_FAILED",
                                   "NONE", dl[d].seen.epoch)
  <2>1. new \in ReceiptType /\ new.outcome = "FAILED_SAFE"
    <3>1. "FAILED_SAFE" \in Outcomes /\ "PROVIDER_PRECONDITION_FAILED" \in Reasons
          /\ "NONE" \in Operations
      BY DEF Outcomes, Reasons, Operations
    <3> QED BY <1>1, <3>1, ProviderResultType
  <2>2. /\ Step(d, PersistThen(dl[d], dl[d].snap, new, "existing"))
        /\ dl[d].pc \in Leased
    BY <1>9 DEF RejectPrepared, Leased
  <2> HIDE DEF new
  <2> QED BY <1>9, <2>1, <2>2, SoundGate DEF RejectPrepared
<1>10. CASE Dispatch(d)
  <2> DEFINE next == [dl[d] EXCEPT !.pc = "await"]
  <2>1. /\ next \in LocalType /\ next.pc = "await" /\ next.snap = dl[d].snap
        /\ next.work = dl[d].work /\ next.repl = dl[d].repl /\ next.obs = dl[d].obs
    BY <1>1 DEF LocalType, Pcs
  <2>2. Step(d, next) /\ dl[d].pc \in Leased
    BY <1>10 DEF Dispatch, Leased
  <2> HIDE DEF next
  <2>3. Sound(next)
    BY <1>1, <2>1, <2>2, SamePlaceSound
  <2>4. /\ UNCHANGED <<authority, task, receipt, versions, res>>
        /\ wire' = [wire EXCEPT ![d] = "sent"]
    BY <1>10 DEF Dispatch, store
  <2>5. Owner(d)
    BY <2>2 DEF Owner
  <2>6. MayCall(d) /\ MayWrite(d)
    BY <2>4, <2>5 DEF MayCall, MayWrite, IInv, TypeOK
  <2> QED BY <1>0, <1>1, <2>1, <2>2, <2>3, <2>4, <2>5, <2>6, SoundStep
<1>11. CASE MutationReturns(d)
  <2>1. PICK rep \in MutationReports(wire[d]) :
          Step(d, PersistThen(dl[d], dl[d].snap,
             ProviderResult(dl[d].snap, rep.outcome, rep.reason, rep.op,
                            dl[d].seen.epoch), "existing"))
    BY <1>11 DEF MutationReturns
  <2> DEFINE new == ProviderResult(dl[d].snap, rep.outcome, rep.reason, rep.op, dl[d].seen.epoch)
  <2>2. /\ rep.outcome \in Outcomes /\ rep.reason \in Reasons /\ rep.op \in Operations
        /\ rep.outcome # "VERIFIED"
    BY DEF MutationReports, Outcomes, Reasons, Operations
  <2>3. new \in ReceiptType /\ new.outcome = rep.outcome
    BY <1>1, <2>2, ProviderResultType
  <2> HIDE DEF new
  <2>4. Step(d, PersistThen(dl[d], dl[d].snap, new, "existing"))
    BY <2>1 DEF new
  <2> QED BY <1>11, <2>2, <2>3, <2>4, SoundGate DEF MutationReturns
<1>12. CASE PersistConfirmed(d)
  <2> DEFINE next == Resume(dl[d], dl[d].repl, now)
  <2>1. dl[d].repl.work = dl[d].work
    BY <1>1, <1>12 DEF PersistConfirmed, ValidReplacement, Sound
  <2>2. Harmless(dl[d], next) /\ Sound(next)
    BY <1>1, <2>1, ResumeHarmless, ResumeSound
  <2>3. Step(d, next)
    BY <1>12 DEF PersistConfirmed
  <2> HIDE DEF next
  <2>4. /\ next \in LocalType /\ next.work = W(d) /\ next.pc \notin Leased \cup {"await"}
        /\ ~ (next.pc \in {"persist", "reread"} /\ next.cont = "existing")
    BY <1>1, <2>2 DEF Harmless, Leased
  <2> QED BY <1>12, <2>2, <2>3, <2>4, SoundPersist DEF PersistConfirmed
<1>13. CASE PersistConflict(d)
  <2> DEFINE next == [dl[d] EXCEPT !.pc = "reread"]
  <2>1. /\ next \in LocalType /\ next.pc = "reread" /\ next.snap = dl[d].snap
        /\ next.work = dl[d].work /\ next.repl = dl[d].repl /\ next.obs = dl[d].obs
        /\ next.cont = dl[d].cont
    BY <1>1 DEF LocalType, Pcs
  <2>2. Step(d, next) /\ dl[d].pc \in {"persist", "reread"}
    BY <1>13 DEF PersistConflict
  <2> HIDE DEF next
  <2> QED BY <1>13, <2>1, <2>2, SoundSamePlace DEF PersistConflict
<1>14. CASE Reread(d)
  <2> DEFINE next == [dl[d] EXCEPT !.pc = "persist", !.tries = 1]
             cur == receipt[K(d)]
  <2>1. /\ next \in LocalType /\ next.pc = "persist" /\ next.snap = dl[d].snap
        /\ next.work = dl[d].work /\ next.repl = dl[d].repl /\ next.obs = dl[d].obs
        /\ next.cont = dl[d].cont
    BY <1>1 DEF LocalType, Pcs
  <2>2. dl[d].pc = "reread" /\ UNCHANGED <<now, store, cloud, res>>
    BY <1>14 DEF Reread
  <2>3. \/ Step(d, next) \/ Step(d, Respond(dl[d]))
        \/ ValidMonotonicResolution(dl[d].snap, cur) /\ Step(d, Resume(dl[d], cur, now))
    BY <1>14 DEF Reread
  <2> HIDE DEF next, cur
  <2>4. CASE Step(d, next)
    BY <2>1, <2>2, <2>4, SoundSamePlace
  <2>5. CASE Step(d, Respond(dl[d]))
    BY <1>0, <1>1, <2>2, <2>5, RespondHarmless, RespondSound, SoundHarmless
  <2>6. CASE ValidMonotonicResolution(dl[d].snap, cur) /\ Step(d, Resume(dl[d], cur, now))
    <3>1. cur.work = dl[d].work /\ cur \in ReceiptType
      BY <1>1, <2>2, <2>6 DEF ValidMonotonicResolution, Sound, cur
    <3> QED BY <1>0, <1>1, <2>2, <2>6, <3>1, ResumeHarmless, ResumeSound, SoundHarmless
  <2> QED BY <2>3, <2>4, <2>5, <2>6
<1>15. CASE ReadTarget(d)
  <2> DEFINE exact == settled /\ Serving = PostTraffic(ActionOf[W(d)])
             ob == [exact |-> exact, etag |-> Etag]
  <2>1. exact \in BOOLEAN /\ (exact => Holds(Etag, ActionOf[W(d)]))
    BY <1>2 DEF Holds, Serving
  <2>2. Step(d, HandleObserved(dl[d], dl[d].snap, ob))
    BY <1>15 DEF ReadTarget
  <2> HIDE DEF exact
  <2>3. ob \in [exact : BOOLEAN, etag : Nat] /\ (ob.exact => Holds(ob.etag, ActionOf[W(d)]))
    BY <1>2, <2>1
  <2> HIDE DEF ob
  <2>4. dl[d].snap.work = dl[d].work
    BY <1>1, <1>15 DEF ReadTarget, Sound
  <2>5. /\ Harmless(dl[d], HandleObserved(dl[d], dl[d].snap, ob))
        /\ Sound(HandleObserved(dl[d], dl[d].snap, ob))
    BY <1>1, <2>3, <2>4, HandleObservedHarmless, HandleObservedSound
  <2> QED BY <1>0, <1>15, <2>2, <2>5, SoundHarmless DEF ReadTarget
<1> QED
  BY <1>3, <1>4, <1>5, <1>6, <1>7, <1>8, <1>9, <1>10, <1>11, <1>12, <1>13, <1>14, <1>15
     DEF Proceed

LEMMA SoundFault ==
    ASSUME IInv, TargetInv, NEW d \in Delivery, Fault(d)
    PROVE  TargetInv'
<1>0. dl[d].pc # "waiting"
  BY DEF Fault, ClaimAnswerLost, StoreUnavailable, Crash, GateUnavailable, GateRaises,
         PersistAnswerLost, PersistUnavailable, ReadTargetFails
<1>1. /\ W(d) \in Work /\ K(d) \in Key /\ dl[d] \in LocalType
      /\ dl[d].snap \in ReceiptType /\ dl[d].born \in Nat
      /\ Sound(dl[d]) /\ W(d) = dl[d].work
      /\ Harmless(dl[d], Respond(dl[d])) /\ Sound(Respond(dl[d]))
  BY <1>0, BegunHasWork, RespondHarmless, RespondSound DEF TargetInv, LocalsAreSound, W
<1> DEFINE reread == [dl[d] EXCEPT !.pc = "reread"]
<1>2. /\ reread \in LocalType /\ reread.pc = "reread" /\ reread.snap = dl[d].snap
      /\ reread.work = dl[d].work /\ reread.repl = dl[d].repl /\ reread.obs = dl[d].obs
      /\ reread.cont = dl[d].cont
  BY <1>1 DEF LocalType, Pcs
<1> HIDE DEF reread
<1>3. CASE ClaimAnswerLost(d)
  <2> DEFINE new == Claimed(W(d), dl[d].born)
  <2>1. new \in ReceiptType /\ new.work = dl[d].work
    BY <1>1, ClaimedType DEF Claimed, NoReceipt
  <2> HIDE DEF new
  <2>2. /\ Harmless(dl[d], HandleExisting(dl[d], new, now))
        /\ Sound(HandleExisting(dl[d], new, now))
    BY <1>1, <2>1, HandleExistingHarmless, HandleExistingSound
  <2>3. PICK next : /\ Harmless(dl[d], next) /\ Sound(next) /\ Step(d, next)
    BY <1>1, <1>3, <2>2 DEF ClaimAnswerLost, new
  <2>4. next \in LocalType /\ next.work = W(d)
    BY <1>1, <2>3 DEF Harmless
  <2> QED BY <1>3, <2>3, <2>4, SoundClaim DEF ClaimAnswerLost
<1>4. CASE StoreUnavailable(d)
  BY <1>0, <1>1, <1>4, SoundHarmless DEF StoreUnavailable
<1>5. CASE Crash(d)
  BY <1>0, <1>1, <1>5, SoundHarmless DEF Crash
<1>6. CASE GateUnavailable(d)
  <2>1. /\ Denied(dl[d].snap, "AUTHORITY_UNAVAILABLE", None) \in ReceiptType
        /\ Denied(dl[d].snap, "AUTHORITY_UNAVAILABLE", None).outcome = "DENIED"
    BY <1>1, DeniedType DEF Reasons, None
  <2>2. dl[d].pc \in Leased
    BY <1>6 DEF GateUnavailable, Leased
  <2> QED BY <1>6, <2>1, <2>2, SoundGate DEF GateUnavailable, GateDeny
<1>7. CASE GateRaises(d)
  <2> DEFINE new == ProviderResult(dl[d].snap, "AMBIGUOUS", "PROVIDER_OUTCOME_AMBIGUOUS",
                                   "NONE", None)
  <2>1. new \in ReceiptType /\ new.outcome = "AMBIGUOUS"
    <3>1. /\ "AMBIGUOUS" \in Outcomes /\ "PROVIDER_OUTCOME_AMBIGUOUS" \in Reasons
          /\ "NONE" \in Operations /\ None \in Nat
      BY DEF Outcomes, Reasons, Operations, None
    <3> QED BY <1>1, <3>1, ProviderResultType
  <2>2. Step(d, PersistThen(dl[d], dl[d].snap, new, "existing"))
    BY <1>7 DEF GateRaises
  <2> HIDE DEF new
  <2> QED BY <1>7, <2>1, <2>2, SoundGate DEF GateRaises
<1>8. CASE PersistAnswerLost(d)
  <2>1. Step(d, reread) /\ dl[d].pc = "persist"
    BY <1>8 DEF PersistAnswerLost, reread
  <2>2. Sound(reread) /\ (reread.cont = "existing" => Owner(d))
    BY <1>1, <1>2, <2>1, SamePlaceSound DEF Owner
  <2> QED BY <1>1, <1>2, <1>8, <2>1, <2>2, SoundPersist DEF PersistAnswerLost, Leased
<1>9. CASE PersistUnavailable(d)
  <2>1. Step(d, reread) /\ dl[d].pc = "persist"
    BY <1>9 DEF PersistUnavailable, reread
  <2> QED BY <1>2, <1>9, <2>1, SoundSamePlace DEF PersistUnavailable
<1>10. CASE ReadTargetFails(d)
  <2>1. NoObs \in [exact : BOOLEAN, etag : Nat] /\ ~ NoObs.exact
    BY DEF NoObs, None
  <2>2. dl[d].snap.work = dl[d].work
    BY <1>1, <1>10 DEF ReadTargetFails, Sound
  <2>3. /\ Harmless(dl[d], HandleObserved(dl[d], dl[d].snap, NoObs))
        /\ Sound(HandleObserved(dl[d], dl[d].snap, NoObs))
    BY <1>1, <2>1, <2>2, HandleObservedHarmless, HandleObservedSound
  <2> QED BY <1>0, <1>10, <2>3, SoundHarmless DEF ReadTargetFails
<1> QED
  BY <1>3, <1>4, <1>5, <1>6, <1>7, <1>8, <1>9, <1>10 DEF Fault

-----------------------------------------------------------------------------
\* The provider: a new version leaves what was seen of the others.

\* Everything but the order of the versions survives an appended version.
LEMMA AppendedVersion ==
    ASSUME IInv, TargetInv, NEW t \in Traffic, versions' = Append(versions, t),
           UNCHANGED <<authority, task, receipt, dl, res>>,
           \A d \in Delivery : wire'[d] = "none" <=> wire[d] = "none",
           VersionsInOrder', LandedApart'
    PROVE  TargetInv'
<1>1. /\ Etag \in Nat /\ Etag > 0 /\ Etag' = Etag + 1
      /\ \A i \in 1 .. Etag : versions'[i] = versions[i]
  BY DEF IInv, TypeOK, Etag
<1>2. ASSUME NEW etag, NEW action, Holds(etag, action)
      PROVE  Holds(etag, action)'
  <2>1. etag \in 1 .. Etag /\ versions[etag] = PostTraffic(action)
    BY <1>2 DEF Holds
  <2>2. versions'[etag] = versions[etag]
    BY <1>1, <2>1
  <2>3. etag \in 1 .. Etag'
    BY <1>1, <2>1
  <2> QED BY <2>1, <2>2, <2>3 DEF Holds
<1>3. \A r : TrueReceipt(r) => TrueReceipt(r)'
  BY <1>2 DEF TrueReceipt
<1>4. \A m : Sound(m) => Sound(m)'
  BY <1>2, <1>3 DEF Sound
<1>5. LocalsAreSound'
  BY <1>4 DEF TargetInv, LocalsAreSound
<1>6. ReceiptsAreTrue'
  BY <1>3 DEF TargetInv, ReceiptsAreTrue
<1>7. OwnersAreNamed' /\ BegunIsIssued'
  BY DEF TargetInv, OwnersAreNamed, BegunIsIssued, Owner, W, K
<1>8. ResolutionIsTrue'
  BY <1>2 DEF TargetInv, ResolutionIsTrue
<1>9. TasksNameTheirBase'
  <2>1. \A w \in Work : BaseOf(w) \in Nat /\ BaseOf(w)' = BaseOf(w)
    BY DEF BaseOf
  <2> QED BY <1>1, <2>1 DEF TargetInv, TasksNameTheirBase
<1>10. ReleasedBehind'
  BY <1>1 DEF TargetInv, ReleasedBehind
<1> QED BY <1>5, <1>6, <1>7, <1>8, <1>9, <1>10 DEF TargetInv

\* What lands: the traffic of its base, and what it leaves.
LEMMA SentOnBase ==
    ASSUME IInv, TargetInv, NEW d \in Delivery, wire[d] = "sent", task[W(d)].etag = Etag
    PROVE  /\ W(d) \in Work /\ Etag = BaseOf(W(d))
           /\ Serving = PreTraffic(ActionOf[W(d)])
<1>1. W(d) \in Work /\ dl[d].pc # "waiting"
  BY DEF IInv, OwnerHasReceipt, Owner, LeaseUnspent
<1>2. Etag = BaseOf(W(d))
  BY <1>1 DEF TargetInv, BegunIsIssued, TasksNameTheirBase
<1> QED BY <1>1, <1>2 DEF BaseOf, PreTraffic, Serving, TargetInv, VersionsInOrder

LEMMA SoundLand ==
    ASSUME IInv, TargetInv, NEW d \in Delivery, Land(d)
    PROVE  TargetInv'
<1> DEFINE t == PostTraffic(ActionOf[W(d)])
<1>1. /\ wire[d] = "sent" /\ W(d) \in Work /\ Etag = BaseOf(W(d))
  BY SentOnBase DEF Land
<1>2. t \in Traffic /\ (Etag = 1 => t = "CANARY") /\ (Etag # 1 => Etag = 2 /\ t # "CANARY")
  BY <1>1, ConstantsAssumption DEF PostTraffic, Traffic, Actions, BaseOf
<1>3. versions' = Append(versions, t) /\ wire' = [wire EXCEPT ![d] = "landed"]
      /\ UNCHANGED <<authority, task, receipt, dl, res>>
  BY DEF Land, store
<1> HIDE DEF t
<1>4. /\ Etag \in Nat /\ Etag > 0 /\ Etag' = Etag + 1
      /\ \A i \in 1 .. Etag : versions'[i] = versions[i]
      /\ versions'[Etag + 1] = t
  BY <1>2, <1>3 DEF IInv, TypeOK, Etag
<1>5. VersionsInOrder'
  BY <1>2, <1>4 DEF TargetInv, VersionsInOrder
<1>6. /\ wire'[d] = "landed" /\ \A e \in Delivery : e # d => wire'[e] = wire[e]
      /\ \A e \in Delivery : W(e)' = W(e)
  BY <1>3 DEF IInv, TypeOK, W
<1>7. LandedApart'
  <2>1. \A w : BaseOf(w) \in Nat /\ BaseOf(w)' = BaseOf(w)
    BY DEF BaseOf
  <2>2. \A e \in Delivery : wire[e] = "landed" => BaseOf(W(e)) < Etag
    BY DEF TargetInv, LandedApart
  <2> QED BY <1>1, <1>4, <1>6, <2>1, <2>2 DEF TargetInv, LandedApart
<1>8. \A e \in Delivery : wire'[e] = "none" <=> wire[e] = "none"
  BY <1>1, <1>6
<1> QED BY <1>2, <1>3, <1>5, <1>7, <1>8, AppendedVersion

LEMMA SoundReset ==
    ASSUME IInv, TargetInv, ResetTarget
    PROVE  TargetInv'
<1>1. /\ versions' = Append(versions, "STABLE") /\ wire' = wire /\ Serving # "STABLE"
      /\ UNCHANGED <<authority, task, receipt, dl, res>>
  BY DEF ResetTarget, AdmitTarget, store
<1>2. /\ Etag \in Nat /\ Etag > 0 /\ Etag' = Etag + 1
      /\ \A i \in 1 .. Etag : versions'[i] = versions[i]
      /\ versions'[Etag + 1] = "STABLE"
  BY <1>1 DEF IInv, TypeOK, Etag, Traffic
<1>3. Etag # 1
  BY <1>1 DEF TargetInv, VersionsInOrder, Serving
<1>4. VersionsInOrder'
  BY <1>2, <1>3 DEF TargetInv, VersionsInOrder
<1>5. LandedApart'
  <2>1. \A w : BaseOf(w) \in Nat /\ BaseOf(w)' = BaseOf(w)
    BY DEF BaseOf
  <2>2. \A e \in Delivery : W(e)' = W(e)
    BY <1>1 DEF W
  <2> QED BY <1>1, <1>2, <2>1, <2>2 DEF TargetInv, LandedApart
<1> QED BY <1>1, <1>4, <1>5, AppendedVersion DEF Traffic

-----------------------------------------------------------------------------
\* The rest of the provider, and the operator.

\* No delivery, receipt, task or version changes.
LEMMA SoundElsewhere ==
    ASSUME IInv, TargetInv, UNCHANGED <<task, receipt, dl, versions>>,
           \A d \in Delivery : /\ wire'[d] = "none" <=> wire[d] = "none"
                               /\ wire'[d] = "landed" <=> wire[d] = "landed",
           ResolutionIsTrue', ReleasedBehind'
    PROVE  TargetInv'
<1>1. Etag' = Etag
  BY DEF Etag
<1>2. \A m : Sound(m) <=> Sound(m)'
  BY <1>1 DEF Sound, TrueReceipt, Holds
<1>3. LocalsAreSound'
  BY <1>2 DEF TargetInv, LocalsAreSound
<1>4. ReceiptsAreTrue' /\ VersionsInOrder' /\ TasksNameTheirBase'
  BY <1>1 DEF TargetInv, ReceiptsAreTrue, VersionsInOrder, TasksNameTheirBase, TrueReceipt, Holds
<1>5. OwnersAreNamed' /\ BegunIsIssued'
  BY DEF TargetInv, OwnersAreNamed, BegunIsIssued, Owner, W, K
<1>6. LandedApart'
  BY <1>1 DEF TargetInv, LandedApart, W
<1> QED BY <1>3, <1>4, <1>5, <1>6 DEF TargetInv

LEMMA SoundProvider ==
    ASSUME IInv, TargetInv, Provider
    PROVE  TargetInv'
<1>1. CASE Settle
  <2>1. UNCHANGED <<authority, task, receipt, dl, wire, versions, res>>
    BY <1>1 DEF Settle, store
  <2>2. ResolutionIsTrue' /\ ReleasedBehind'
    BY <2>1 DEF TargetInv, ResolutionIsTrue, ReleasedBehind, Holds, Etag
  <2> QED BY <2>1, <2>2, SoundElsewhere
<1>2. ASSUME NEW d \in Delivery, Refuse(d) PROVE TargetInv'
  <2>1. /\ UNCHANGED <<authority, task, receipt, dl, versions, res>>
        /\ wire[d] = "sent" /\ wire'[d] = "rejected"
        /\ \A e \in Delivery : e # d => wire'[e] = wire[e]
    BY <1>2 DEF Refuse, store, IInv, TypeOK
  <2>2. ResolutionIsTrue' /\ ReleasedBehind'
    BY <2>1 DEF TargetInv, ResolutionIsTrue, ReleasedBehind, Holds, Etag
  <2> QED BY <2>1, <2>2, SoundElsewhere
<1> QED BY <1>1, <1>2, SoundLand, SoundReset DEF Provider

\* A release is fenced by a receipt that proves that the canary was applied.
LEMMA FencedAfterCanary ==
    ASSUME IInv, TargetInv, NEW k \in Key, NEW t \in TerminalStates(receipt[k])
    PROVE  Etag >= 2 /\ t # "CANARY"
<1> DEFINE r == receipt[k]
<1>1. /\ r.outcome = "VERIFIED" /\ t \in {"STABLE", "CANDIDATE"}
      /\ ActionOf[r.work] \in {"PROMOTE_CANDIDATE", "RECOVER_STABLE", "APPLY_CANARY"}
  BY DEF TerminalStates, EligibleSource
<1>2. /\ r.work \in Work /\ task[r.work] # NoTask /\ Holds(r.etag, ActionOf[r.work])
  BY <1>1 DEF TargetInv, ReceiptsAreTrue, TrueReceipt
<1>3. Etag \in Nat
  BY DEF IInv, TypeOK, Etag
<1>4. CASE ActionOf[r.work] = "RECOVER_STABLE"
  BY <1>1, <1>2, <1>3, <1>4 DEF TargetInv, TasksNameTheirBase, BaseOf
<1>5. CASE ActionOf[r.work] # "RECOVER_STABLE"
  <2>1. r.etag \in 1 .. Etag /\ versions[r.etag] # "STABLE"
    BY <1>1, <1>2, <1>5 DEF Holds, PostTraffic
  <2>2. r.etag # 1
    BY <2>1 DEF TargetInv, VersionsInOrder
  <2> QED BY <1>1, <1>3, <2>1, <2>2
<1> QED BY <1>1, <1>4, <1>5

LEMMA SoundResolveCommit ==
    ASSUME IInv, TargetInv, ResolveCommit
    PROVE  TargetInv'
<1> DEFINE new == Verified(res.snap, res.etag)
           key == KeyIn(res.snap)
<1>1. /\ receipt[key] = res.snap /\ res.snap.outcome = "AMBIGUOUS"
      /\ Holds(res.etag, ActionOf[res.snap.work])
      /\ res.snap \in ReceiptType /\ res.etag \in Nat
  BY DEF ResolveCommit, TargetInv, ResolutionIsTrue, IInv, TypeOK
<1>2. /\ new.work = res.snap.work /\ new.etag = res.etag /\ new.outcome = "VERIFIED"
  BY <1>1 DEF Verified, ReceiptType
<1>3. TrueReceipt(new)
  BY <1>1, <1>2 DEF TrueReceipt
<1>4. /\ receipt' = [receipt EXCEPT ![key] = new] /\ res' = NoRes
      /\ UNCHANGED <<authority, task, dl, wire, versions>>
  BY DEF ResolveCommit, cloud
<1> HIDE DEF new, key
<1>5. ASSUME NEW k \in Key
      PROVE  \/ receipt'[k] = receipt[k]
             \/ /\ receipt[k].outcome = "AMBIGUOUS" /\ TrueReceipt(receipt'[k])
                /\ receipt'[k].work = receipt[k].work
  <2>1. receipt \in [Key -> ReceiptType]
    BY DEF IInv, TypeOK
  <2>2. CASE k # key
    BY <1>4, <2>1, <2>2
  <2>3. CASE k = key
    <3>1. receipt'[k] = new
      BY <1>4, <2>1, <2>3
    <3> QED BY <1>1, <1>2, <1>3, <2>3, <3>1
  <2> QED BY <2>2, <2>3
<1>6. Etag' = Etag
  BY <1>4 DEF Etag
<1>7. \A r : TrueReceipt(r)' <=> TrueReceipt(r)
  BY <1>4, <1>6 DEF TrueReceipt, Holds
<1>8. LocalsAreSound'
  <2>1. \A m : Sound(m) <=> Sound(m)'
    BY <1>4, <1>6, <1>7 DEF Sound, Holds
  <2> QED BY <1>4, <2>1 DEF TargetInv, LocalsAreSound
<1>9. ReceiptsAreTrue'
  BY <1>4, <1>5, <1>7 DEF TargetInv, ReceiptsAreTrue
<1>10. OwnersAreNamed'
  <2>1. \A d \in Delivery : (Owner(d)' <=> Owner(d)) /\ W(d)' = W(d) /\ K(d)' = K(d)
    BY <1>4 DEF Owner, W, K
  <2>2. \A d \in Delivery : Owner(d) => K(d) \in Key
    BY ConstantsAssumption DEF IInv, OwnerHasReceipt, K
  <2>3. \A k \in Key : receipt'[k].work = receipt[k].work
    BY <1>5
  <2> QED BY <2>1, <2>2, <2>3 DEF TargetInv, OwnersAreNamed
<1>11. ResolutionIsTrue'
  BY <1>4 DEF ResolutionIsTrue, NoRes
<1>12. VersionsInOrder' /\ TasksNameTheirBase' /\ BegunIsIssued' /\ ReleasedBehind'
  BY <1>4, <1>6 DEF TargetInv, VersionsInOrder, TasksNameTheirBase, BegunIsIssued,
        ReleasedBehind, W
<1>13. LandedApart'
  BY <1>4, <1>6 DEF TargetInv, LandedApart, W
<1> QED BY <1>8, <1>9, <1>10, <1>11, <1>12, <1>13 DEF TargetInv

LEMMA SoundOperator ==
    ASSUME IInv, TargetInv, Operator
    PROVE  TargetInv'
<1>0. Etag \in Nat /\ Etag > 0
  BY DEF IInv, TypeOK, Etag
<1>1. ASSUME UNCHANGED <<task, receipt, dl, wire, versions, res>>, ReleasedBehind'
      PROVE  TargetInv'
  <2>1. ResolutionIsTrue'
    BY <1>1 DEF TargetInv, ResolutionIsTrue, Holds, Etag
  <2> QED BY <1>1, <2>1, SoundElsewhere
<1>2. ASSUME UNCHANGED <<authority, task, receipt, dl, wire, versions>>, ResolutionIsTrue'
      PROVE  TargetInv'
  <2>1. ReleasedBehind'
    BY <1>2 DEF TargetInv, ReleasedBehind, Etag
  <2> QED BY <1>2, <2>1, SoundElsewhere
<1>3. authority \in [epoch : Nat, claim : Statuses, terminal : Traffic \cup {"NONE"},
                     classified : BOOLEAN]
  BY DEF IInv, TypeOK
<1>4. CASE Revoke
  <2>1. UNCHANGED <<task, receipt, dl, wire, versions, res>>
    BY <1>4 DEF Revoke, cloud
  <2>2. /\ authority'.claim = authority.claim /\ authority'.terminal = authority.terminal
        /\ authority'.classified = authority.classified
    BY <1>3, <1>4 DEF Revoke
  <2>3. ReleasedBehind'
    BY <2>1, <2>2 DEF TargetInv, ReleasedBehind, Etag
  <2> QED BY <1>1, <2>1, <2>3
<1>5. CASE ClassifyTarget
  <2>1. UNCHANGED <<task, receipt, dl, wire, versions, res>>
    BY <1>5 DEF ClassifyTarget, cloud
  <2>2. /\ authority'.claim = "RELEASING" /\ authority'.terminal = authority.terminal
    BY <1>3, <1>5 DEF ClassifyTarget
  <2>3. Etag >= 3
    <3>1. Etag >= 2 /\ Serving # "CANARY"
      BY <1>5 DEF ClassifyTarget, TargetInv, ReleasedBehind
    <3> QED BY <1>0, <3>1 DEF TargetInv, VersionsInOrder, Serving
  <2>4. ReleasedBehind'
    BY <1>0, <1>5, <2>1, <2>2, <2>3 DEF ClassifyTarget, TargetInv, ReleasedBehind, Etag
  <2> QED BY <1>1, <2>1, <2>4
<1>6. CASE FinalizeRelease
  <2>1. UNCHANGED <<task, receipt, dl, wire, versions, res>>
    BY <1>6 DEF FinalizeRelease, cloud
  <2>2. /\ authority'.classified /\ authority.claim = "RELEASING"
        /\ authority'.terminal = authority.terminal /\ authority.classified
    BY <1>3, <1>6 DEF FinalizeRelease
  <2>3. ReleasedBehind'
    BY <2>1, <2>2 DEF TargetInv, ReleasedBehind, Etag
  <2> QED BY <1>1, <2>1, <2>3
<1>7. ASSUME NEW k \in Key, FenceClaim(k) PROVE TargetInv'
  <2>1. UNCHANGED <<task, receipt, dl, wire, versions, res>>
    BY <1>7 DEF FenceClaim, cloud
  <2>2. PICK t \in TerminalStates(receipt[k]) :
          authority' = [authority EXCEPT !.epoch = @ + 1, !.claim = "RELEASING",
                                         !.terminal = t]
    BY <1>7 DEF FenceClaim
  <2>3. Etag >= 2 /\ t # "CANARY"
    BY FencedAfterCanary
  <2>4. /\ authority'.claim = "RELEASING" /\ authority'.terminal = t
        /\ authority'.classified = authority.classified
    BY <1>3, <2>2
  <2>5. ReleasedBehind'
    BY <2>1, <2>3, <2>4 DEF TargetInv, ReleasedBehind, Etag
  <2> QED BY <1>1, <2>1, <2>5
<1>8. ASSUME NEW k \in Key, ResolveStart(k) PROVE TargetInv'
  <2>1. UNCHANGED <<authority, task, receipt, dl, wire, versions>>
    BY <1>8 DEF ResolveStart, store, cloud
  <2>2. ResolutionIsTrue'
    BY <1>8 DEF ResolveStart, ResolutionIsTrue
  <2> QED BY <1>2, <2>1, <2>2
<1>9. CASE ResolveObserve
  <2>1. UNCHANGED <<authority, task, receipt, dl, wire, versions>>
    BY <1>9 DEF ResolveObserve, store, cloud
  <2>2. /\ res'.snap = res.snap /\ res'.etag = Etag /\ res.pc = "observe"
        /\ Holds(Etag, ActionOf[res.snap.work])
    BY <1>0, <1>9 DEF ResolveObserve, Holds, Serving, IInv, TypeOK
  <2>3. ResolutionIsTrue'
    BY <2>1, <2>2 DEF TargetInv, ResolutionIsTrue, Holds, Etag
  <2> QED BY <1>2, <2>1, <2>3
<1>10. CASE ResolveAbandon
  <2>1. UNCHANGED <<authority, task, receipt, dl, wire, versions>> /\ res' = NoRes
    BY <1>10 DEF ResolveAbandon, store, cloud
  <2> QED BY <1>2, <2>1 DEF ResolutionIsTrue, NoRes
<1> QED
  BY <1>4, <1>5, <1>6, <1>7, <1>8, <1>9, <1>10, SoundResolveCommit DEF Operator

-----------------------------------------------------------------------------
\* What is signed names its base: a canary the first version, a promotion the
\* version its source receipt verified, a recovery the version it found.
LEMMA SoundSigned ==
    ASSUME IInv, TargetInv, NEW w \in Work, NEW etag, NEW until, NEW source,
           etag = BaseOf(w), BaseOf(w) <= Etag, Signed(w, etag, until, source)
    PROVE  TargetInv'
<1>1. /\ task[w] = NoTask
      /\ UNCHANGED <<authority, receipt, dl, wire, versions, res>>
  BY DEF Signed, cloud
<1>2. /\ task'[w] # NoTask /\ task'[w].etag = BaseOf(w)
      /\ \A v \in Work : v # w => task'[v] = task[v]
  <2>1. etag # None
    BY DEF BaseOf, None
  <2> QED BY <2>1 DEF Signed, IInv, TypeOK, NoTask
<1>3. \A v \in Work : task[v] # NoTask => task'[v] = task[v]
  BY <1>1, <1>2
<1>4. Etag' = Etag
  BY <1>1 DEF Etag
<1>5. LocalsAreSound'
  <2>1. \A m : Sound(m) <=> Sound(m)'
    BY <1>1, <1>4 DEF Sound, TrueReceipt, Holds
  <2> QED BY <1>1, <2>1 DEF TargetInv, LocalsAreSound
<1>6. ReceiptsAreTrue'
  BY <1>1, <1>3, <1>4 DEF TargetInv, ReceiptsAreTrue, TrueReceipt, Holds
<1>7. OwnersAreNamed' /\ LandedApart'
  BY <1>1, <1>4 DEF TargetInv, OwnersAreNamed, LandedApart, Owner, W, K
<1>8. ResolutionIsTrue' /\ VersionsInOrder' /\ ReleasedBehind'
  BY <1>1, <1>4 DEF TargetInv, ResolutionIsTrue, VersionsInOrder, ReleasedBehind, Holds
<1>9. TasksNameTheirBase'
  BY <1>2, <1>3, <1>4 DEF TargetInv, TasksNameTheirBase
<1>10. BegunIsIssued'
  BY <1>1, <1>3 DEF TargetInv, BegunIsIssued, IInv, OwnerHasReceipt, W
<1> QED BY <1>5, <1>6, <1>7, <1>8, <1>9, <1>10 DEF TargetInv

LEMMA SoundIssue ==
    ASSUME IInv, TargetInv, Issue
    PROVE  TargetInv'
<1>0. Etag \in Nat /\ Etag > 0
  BY DEF IInv, TypeOK, Etag
\* Only version 2 is a canary.
<1>1. \A i \in 1 .. Etag : versions[i] = "CANARY" => i = 2
  BY <1>0 DEF TargetInv, VersionsInOrder
<1>2. ASSUME NEW w \in Work, IssueApply(w) PROVE TargetInv'
  BY <1>0, <1>2, SoundSigned DEF IssueApply, BaseOf
<1>3. ASSUME NEW w \in Work, NEW k \in Key, IssuePromotion(w, k) PROVE TargetInv'
  <2>1. receipt[k].etag \in 1 .. Etag /\ versions[receipt[k].etag] = "CANARY"
    BY <1>3 DEF IssuePromotion, EligibleSource, TargetInv, ReceiptsAreTrue, TrueReceipt,
          Holds, PostTraffic
  <2>2. receipt[k].etag = BaseOf(w) /\ BaseOf(w) <= Etag
    BY <1>0, <1>1, <1>3, <2>1 DEF IssuePromotion, BaseOf
  <2> QED BY <1>3, <2>2, SoundSigned DEF IssuePromotion
<1>4. ASSUME NEW w \in Work, NEW k \in Key, IssueRecovery(w, k) PROVE TargetInv'
  <2>1. Etag = BaseOf(w) /\ BaseOf(w) <= Etag
    BY <1>0, <1>1, <1>4 DEF IssueRecovery, BaseOf, Serving
  <2> QED BY <1>4, <2>1, SoundSigned DEF IssueRecovery
<1> QED BY <1>2, <1>3, <1>4 DEF Issue

LEMMA InitTarget == Init => TargetInv
<1> SUFFICES ASSUME Init PROVE TargetInv
  OBVIOUS
<1>1. Etag = 1 /\ versions[1] = "STABLE"
  BY DEF Init, Etag
<1>2. \A d \in Delivery : dl[d] = Waiting /\ Waiting.pc = "waiting" /\ ~ Owner(d)
  BY DEF Init, Owner, Waiting, Leased
<1>3. Sound(Waiting)
  BY DEF Sound, Waiting, NoObs, Leased
<1>4. LocalsAreSound /\ OwnersAreNamed /\ BegunIsIssued
  BY <1>2, <1>3 DEF LocalsAreSound, OwnersAreNamed, BegunIsIssued
<1>5. ReceiptsAreTrue
  BY NoReceiptType DEF Init, ReceiptsAreTrue, TrueReceipt
<1>6. ResolutionIsTrue
  BY DEF Init, ResolutionIsTrue, NoRes
<1>7. VersionsInOrder /\ ReleasedBehind
  BY <1>1 DEF Init, VersionsInOrder, ReleasedBehind
<1>8. TasksNameTheirBase /\ LandedApart
  BY DEF Init, TasksNameTheirBase, LandedApart
<1> QED BY <1>4, <1>5, <1>6, <1>7, <1>8 DEF TargetInv

LEMMA NextTarget == IInv /\ TargetInv /\ [Next]_vars => TargetInv'
<1> SUFFICES ASSUME IInv, TargetInv, [Next]_vars PROVE TargetInv'
  OBVIOUS
<1>1. CASE Tick \/ UNCHANGED vars
  <2>1. UNCHANGED <<authority, task, receipt, dl, wire, versions, res>>
    BY <1>1 DEF Tick, store, cloud, vars
  <2>2. ResolutionIsTrue' /\ ReleasedBehind'
    BY <2>1 DEF TargetInv, ResolutionIsTrue, ReleasedBehind, Holds, Etag
  <2> QED BY <2>1, <2>2, SoundElsewhere
<1>2. CASE Issue \/ Provider \/ Operator
  BY <1>2, SoundIssue, SoundProvider, SoundOperator
<1>3. ASSUME NEW d \in Delivery, Serve(d) \/ Fault(d) PROVE TargetInv'
  BY <1>3, SoundProceed, SoundFault DEF Serve
<1>4. ASSUME NEW d \in Delivery, NEW w \in Work, Deliver(d, w) PROVE TargetInv'
  BY <1>4, SoundDeliver
<1> QED BY <1>1, <1>2, <1>3, <1>4 DEF Next

\* Receipts, observations and tasks stay true of the target.
THEOREM TargetInvariant == Spec => [](IInv /\ TargetInv)
<1>1. Init => TargetInv
  BY InitTarget
<1>2. IInv /\ TargetInv /\ [Next]_vars => TargetInv'
  BY NextTarget
<1> QED BY <1>1, <1>2, InitInv, NextInv, PTL DEF Spec

\* A VERIFIED receipt was true of the version it names: what a readback saw
\* before a lost write, a re-read or another's write is still what is stored.
THEOREM VerifiedIsTrue == Spec => []VerifiedWasObserved
<1>1. TargetInv => VerifiedWasObserved
  BY DEF TargetInv, ReceiptsAreTrue, TrueReceipt, Holds, VerifiedWasObserved
<1> QED BY <1>1, TargetInvariant, PTL

\* An idempotency key that two mutations name is never executed for the one
\* under the receipt of the other.
THEOREM OneMutationPerKey == Spec => []KeyNamesOneMutation
<1>1. TargetInv => KeyNamesOneMutation
  BY DEF TargetInv, LocalsAreSound, Sound, OwnersAreNamed, Owner, KeyNamesOneMutation, W
<1> QED BY <1>1, TargetInvariant, PTL

\* At most one canary and at most one of promotion and recovery take effect,
\* however many were signed, delivered and verified.
THEOREM EffectsExclude == Spec => []TerminalEffectsExclusive
<1>1. IInv /\ TargetInv => TerminalEffectsExclusive
  <2> SUFFICES ASSUME IInv, TargetInv, NEW d1 \in Delivery, NEW d2 \in Delivery,
                      d1 # d2, wire[d1] = "landed", wire[d2] = "landed"
               PROVE  {ActionOf[W(d1)], ActionOf[W(d2)]} \in
                        {{"APPLY_CANARY", "PROMOTE_CANDIDATE"},
                         {"APPLY_CANARY", "RECOVER_STABLE"}}
    BY DEF TerminalEffectsExclusive
  <2>1. W(d1) \in Work /\ W(d2) \in Work
    BY DEF IInv, OwnerHasReceipt, Owner
  <2>2. ActionOf[W(d1)] \in Actions /\ ActionOf[W(d2)] \in Actions
    BY <2>1, ConstantsAssumption
  <2>3. BaseOf(W(d1)) # BaseOf(W(d2))
    BY DEF TargetInv, LandedApart
  <2>4. \/ ActionOf[W(d1)] = "APPLY_CANARY" /\ ActionOf[W(d2)] \in Actions \ {"APPLY_CANARY"}
        \/ ActionOf[W(d2)] = "APPLY_CANARY" /\ ActionOf[W(d1)] \in Actions \ {"APPLY_CANARY"}
    BY <2>2, <2>3 DEF BaseOf
  <2> QED BY <2>4 DEF Actions
<1> QED BY <1>1, TargetInvariant, PTL

-----------------------------------------------------------------------------
\* Calls that take effect.

LEMMA OnlyLandLands ==
    ASSUME IInv, [Next]_vars, NEW d \in Delivery, wire[d] # "landed", wire'[d] = "landed"
    PROVE  Land(d)
<1>1. wire \in [Delivery -> {"none", "sent", "landed", "rejected"}]
  BY DEF IInv, TypeOK
<1>2. ~ (Tick \/ Issue \/ Operator \/ UNCHANGED vars)
  BY DEF Tick, Issue, IssueApply, IssuePromotion, IssueRecovery, Signed, Operator, Revoke,
         ClassifyTarget, FinalizeRelease, ResolveObserve, ResolveCommit, ResolveAbandon,
         FenceClaim, ResolveStart, cloud, vars
<1>3. ASSUME NEW e \in Delivery, NEW w \in Work PROVE ~ Deliver(e, w)
  BY DEF Deliver, cloud
<1>4. ASSUME NEW e \in Delivery PROVE ~ Proceed(e)
  <2>1. ~ Dispatch(e)
    BY <1>1 DEF Dispatch
  <2> QED BY <2>1 DEF Proceed, ClaimConfirmed, AdoptOrConflict, Prepare, CheckSource,
             ReadAuthority, DenyAtGate, RejectPrepared, MutationReturns, PersistConfirmed,
             PersistConflict, Reread, ReadTarget, cloud
<1>5. ASSUME NEW e \in Delivery PROVE ~ Fault(e)
  BY DEF Fault, ClaimAnswerLost, StoreUnavailable, Crash, GateUnavailable, GateRaises,
         PersistAnswerLost, PersistUnavailable, ReadTargetFails, cloud
<1>6. ~ Settle /\ ~ ResetTarget
  BY DEF Settle, ResetTarget
<1>7. ASSUME NEW e \in Delivery PROVE ~ Refuse(e)
  BY <1>1 DEF Refuse
<1>8. ASSUME NEW e \in Delivery, Land(e) PROVE e = d
  BY <1>1, <1>8 DEF Land
<1>9. Provider
  BY <1>2, <1>3, <1>4, <1>5 DEF Next, Serve
<1> QED BY <1>6, <1>7, <1>8, <1>9 DEF Provider

\* A call takes effect only on the traffic that its action starts from, even
\* if its caller gave up long ago and others changed the target meanwhile.
THEOREM LandsOnItsBase == Spec => LandsOnPreTraffic
<1>1. IInv /\ TargetInv /\ [Next]_vars =>
        [\A d \in Delivery :
           (wire[d] = "sent" /\ wire'[d] = "landed") =>
               Serving = PreTraffic(ActionOf[W(d)])]_vars
  BY OnlyLandLands, SentOnBase DEF Land
<1> QED BY <1>1, TargetInvariant, PTL DEF Spec, LandsOnPreTraffic

\* Once a claim is released, nothing signed under it can take effect any more:
\* every call names one of the first two versions, and both are history.
THEOREM ReleaseIsFinal == Spec => NothingLandsAfterRelease
<1>1. IInv /\ TargetInv /\ [Next]_vars =>
        [authority.claim = "RELEASED" =>
           \A d \in Delivery : wire'[d] = "landed" => wire[d] = "landed"]_vars
  <2> SUFFICES ASSUME IInv, TargetInv, [Next]_vars, authority.claim = "RELEASED",
                      NEW d \in Delivery, wire'[d] = "landed", wire[d] # "landed"
               PROVE  FALSE
    OBVIOUS
  <2>1. wire[d] = "sent" /\ task[W(d)].etag = Etag
    BY OnlyLandLands DEF Land
  <2>2. Etag = BaseOf(W(d))
    BY <2>1, SentOnBase
  <2>3. Etag >= 3
    BY DEF TargetInv, ReleasedBehind
  <2> QED BY <2>2, <2>3 DEF BaseOf
<1> QED BY <1>1, TargetInvariant, PTL DEF Spec, NothingLandsAfterRelease

-----------------------------------------------------------------------------
\* The epoch as a fence.

\* A delivery that can no longer pass the gate: its epoch is over, and it has
\* not read an authority that says otherwise.
Fenced(d) ==
    /\ dl[d].pc \notin {"waiting", "await"}
    /\ wire[d] = "none"
    /\ task[W(d)].epoch < authority.epoch
    /\ dl[d].pc = "dispatch" => dl[d].seen.epoch # task[W(d)].epoch

\* How a fenced delivery goes on.
StaysOut(d, next) ==
    /\ Step(d, next) /\ next.work = W(d)
    /\ next.pc \notin {"waiting", "await"}
    /\ next.pc = "dispatch" => next.seen.epoch # task[W(d)].epoch

LEMMA HarmlessStaysOut ==
    ASSUME NEW d \in Delivery, NEW next, Harmless(dl[d], next), Step(d, next)
    PROVE  StaysOut(d, next)
  BY DEF Harmless, StaysOut, W

LEMMA FencedProceeds ==
    ASSUME IInv, NEW d \in Delivery, Fenced(d), Proceed(d) \/ Fault(d)
    PROVE  /\ wire' = wire /\ UNCHANGED <<authority, task>>
           /\ \E next : StaysOut(d, next)
<1>1. /\ W(d) \in Work /\ K(d) \in Key /\ dl[d] \in LocalType
      /\ dl[d].snap \in ReceiptType /\ dl[d].repl \in ReceiptType /\ dl[d].born \in Nat
      /\ receipt[K(d)] \in ReceiptType /\ W(d) = dl[d].work
  BY BegunHasWork DEF Fenced, W
<1>2. ~ Dispatch(d) /\ ~ MutationReturns(d) /\ ~ GateRaises(d)
  BY DEF Fenced, Dispatch, Permitted, FinalDenial, MutationReturns, GateRaises
<1>3. wire' = wire /\ UNCHANGED <<authority, task>>
  BY <1>2 DEF Proceed, ClaimConfirmed, AdoptOrConflict, Prepare, CheckSource, ReadAuthority,
         DenyAtGate, RejectPrepared, PersistConfirmed, PersistConflict, Reread, ReadTarget,
         Fault, ClaimAnswerLost, StoreUnavailable, Crash, GateUnavailable,
         PersistAnswerLost, PersistUnavailable, ReadTargetFails, store, cloud
\* Proposals and the places of a write.
<1>4. ASSUME NEW cur, NEW new, NEW cont, Step(d, PersistThen(dl[d], cur, new, cont))
      PROVE  \E next : StaysOut(d, next)
  <2>1. /\ PersistThen(dl[d], cur, new, cont).pc = "persist"
        /\ PersistThen(dl[d], cur, new, cont).work = W(d)
    BY DEF PersistThen, Waiting, W
  <2> QED BY <1>4, <2>1 DEF StaysOut
<1>5. ASSUME NEW pc \in {"reread", "authority"}, Step(d, [dl[d] EXCEPT !.pc = pc])
      PROVE  \E next : StaysOut(d, next)
  <2>1. [dl[d] EXCEPT !.pc = pc].pc = pc /\ [dl[d] EXCEPT !.pc = pc].work = W(d)
    BY <1>1 DEF LocalType
  <2> QED BY <1>5, <2>1 DEF StaysOut
\* Handlers that answer, read back or propose.
<1>6. ASSUME NEW next, Harmless(dl[d], next), Step(d, next)
      PROVE  \E n : StaysOut(d, n)
  BY <1>6, HarmlessStaysOut
<1>7. Harmless(dl[d], Respond(dl[d]))
  BY <1>1, RespondHarmless
<1>8. CASE ClaimConfirmed(d)
  <2> DEFINE next == [dl[d] EXCEPT !.pc = "prepare", !.snap = Claimed(W(d), dl[d].born)]
  <2>1. next.pc = "prepare" /\ next.work = W(d)
    BY <1>1 DEF LocalType
  <2>2. Step(d, next)
    BY <1>8 DEF ClaimConfirmed
  <2> QED BY <1>3, <2>1, <2>2 DEF StaysOut
<1>9. CASE Prepare(d)
  <2> DEFINE rejected == /\ ActionOf[W(d)] = "RECOVER_STABLE"
                         /\ ~ (/\ settled /\ Serving = "CANARY" /\ Etag = task[W(d)].etag)
             next == [dl[d] EXCEPT
               !.pc = IF ActionOf[W(d)] = "APPLY_CANARY" THEN "authority" ELSE "source",
               !.reject = rejected]
  <2>1. Step(d, next)
    BY <1>9 DEF Prepare
  <2> HIDE DEF rejected
  <2>2. next.pc \in {"authority", "source"} /\ next.work = W(d)
    BY <1>1 DEF LocalType
  <2> QED BY <1>3, <2>1, <2>2 DEF StaysOut
<1>10. CASE ReadAuthority(d)
  <2> DEFINE next == [dl[d] EXCEPT !.pc = "dispatch",
               !.seen = [epoch |-> authority.epoch, claim |-> authority.claim]]
  <2>1. /\ next.pc = "dispatch" /\ next.work = W(d)
        /\ next.seen.epoch = authority.epoch
    BY <1>1 DEF LocalType
  <2>2. Step(d, next)
    BY <1>10 DEF ReadAuthority
  <2>3. task[W(d)].epoch # authority.epoch
    <3>1. task[W(d)].epoch \in Nat /\ authority.epoch \in Nat
      BY <1>1 DEF IInv, TypeOK, TaskType
    <3> QED BY <3>1 DEF Fenced
  <2> QED BY <1>3, <2>1, <2>2, <2>3 DEF StaysOut
<1>11. CASE Reread(d)
  <2> DEFINE next == [dl[d] EXCEPT !.pc = "persist", !.tries = 1]
  <2>1. next.pc = "persist" /\ next.work = W(d)
    BY <1>1 DEF LocalType
  <2>2. \/ Step(d, next) \/ Step(d, Respond(dl[d]))
        \/ Step(d, Resume(dl[d], receipt[K(d)], now))
    BY <1>11 DEF Reread
  <2>3. CASE Step(d, next)
    BY <1>3, <2>1, <2>3 DEF StaysOut
  <2>4. Harmless(dl[d], Resume(dl[d], receipt[K(d)], now))
    BY <1>1, ResumeHarmless
  <2> QED BY <1>3, <1>6, <1>7, <2>2, <2>3, <2>4
<1>12. CASE AdoptOrConflict(d)
  <2>1. Harmless(dl[d], HandleExisting(dl[d], receipt[K(d)], now))
    BY <1>1, HandleExistingHarmless
  <2> QED BY <1>3, <1>6, <1>7, <1>12, <2>1 DEF AdoptOrConflict
<1>13. CASE PersistConfirmed(d)
  <2>1. Harmless(dl[d], Resume(dl[d], dl[d].repl, now))
    BY <1>1, ResumeHarmless
  <2> QED BY <1>3, <1>6, <1>13, <2>1 DEF PersistConfirmed
<1>14. CASE ReadTarget(d)
  <2> DEFINE exact == settled /\ Serving = PostTraffic(ActionOf[W(d)])
             ob == [exact |-> exact, etag |-> Etag]
  <2>1. exact \in BOOLEAN /\ Etag \in Nat
    BY DEF IInv, TypeOK, Etag
  <2>2. Step(d, HandleObserved(dl[d], dl[d].snap, ob))
    BY <1>14 DEF ReadTarget
  <2> HIDE DEF exact
  <2>3. ob \in [exact : BOOLEAN, etag : Nat]
    BY <2>1
  <2> HIDE DEF ob
  <2>4. Harmless(dl[d], HandleObserved(dl[d], dl[d].snap, ob))
    BY <1>1, <2>3, HandleObservedHarmless
  <2> QED BY <1>3, <1>6, <2>2, <2>4
<1>15. CASE ReadTargetFails(d)
  <2>1. NoObs \in [exact : BOOLEAN, etag : Nat]
    BY DEF NoObs, None
  <2>2. Harmless(dl[d], HandleObserved(dl[d], dl[d].snap, NoObs))
    BY <1>1, <2>1, HandleObservedHarmless
  <2> QED BY <1>3, <1>6, <1>15, <2>2 DEF ReadTargetFails
<1>16. CASE ClaimAnswerLost(d)
  <2>1. Harmless(dl[d], HandleExisting(dl[d], Claimed(W(d), dl[d].born), now))
    BY <1>1, ClaimedType, HandleExistingHarmless
  <2> QED BY <1>3, <1>6, <1>7, <1>16, <2>1 DEF ClaimAnswerLost
<1>17. CASE CheckSource(d)
  BY <1>3, <1>4, <1>5, <1>17 DEF CheckSource, GateDeny
<1>18. CASE DenyAtGate(d) \/ RejectPrepared(d) \/ GateUnavailable(d)
  BY <1>3, <1>4, <1>18 DEF DenyAtGate, RejectPrepared, GateUnavailable, GateDeny
<1>19. CASE PersistConflict(d) \/ PersistAnswerLost(d) \/ PersistUnavailable(d)
  BY <1>3, <1>5, <1>19 DEF PersistConflict, PersistAnswerLost, PersistUnavailable
<1>20. CASE StoreUnavailable(d) \/ Crash(d)
  BY <1>3, <1>6, <1>7, <1>20 DEF StoreUnavailable, Crash
<1> QED
  BY <1>2, <1>8, <1>9, <1>10, <1>11, <1>12, <1>13, <1>14, <1>15, <1>16, <1>17, <1>18, <1>19,
     <1>20 DEF Proceed, Fault

\* A delivery's step is its own.
LEMMA OthersStand ==
    ASSUME IInv, NEW d \in Delivery, NEW e \in Delivery, e # d,
           Proceed(e) \/ Fault(e) \/ \E w \in Work : Deliver(e, w)
    PROVE  dl'[d] = dl[d] /\ wire'[d] = wire[d] /\ UNCHANGED <<authority, task>>
<1>1. ASSUME NEW next, Step(e, next) PROVE dl'[d] = dl[d]
  BY <1>1 DEF Step, IInv, TypeOK
<1>2. Dispatch(e) => wire'[d] = wire[d]
  BY DEF Dispatch, IInv, TypeOK
<1>3. UNCHANGED <<authority, task>> /\ wire'[d] = wire[d]
  BY <1>2 DEF Deliver, Proceed, ClaimConfirmed, AdoptOrConflict, Prepare, CheckSource,
         ReadAuthority, DenyAtGate, RejectPrepared, Dispatch, MutationReturns,
         PersistConfirmed, PersistConflict, Reread, ReadTarget, Fault, ClaimAnswerLost,
         StoreUnavailable, Crash, GateUnavailable, GateRaises, PersistAnswerLost,
         PersistUnavailable, ReadTargetFails, store, cloud
<1>4. CASE Proceed(e)
  <2>1. ClaimConfirmed(e) => dl'[d] = dl[d]
    BY <1>1 DEF ClaimConfirmed
  <2>2. AdoptOrConflict(e) => dl'[d] = dl[d]
    BY <1>1 DEF AdoptOrConflict
  <2>3. Prepare(e) => dl'[d] = dl[d]
    BY <1>1 DEF Prepare
  <2>4. CheckSource(e) => dl'[d] = dl[d]
    BY <1>1 DEF CheckSource, GateDeny
  <2>5. ReadAuthority(e) => dl'[d] = dl[d]
    BY <1>1 DEF ReadAuthority
  <2>6. DenyAtGate(e) => dl'[d] = dl[d]
    BY <1>1 DEF DenyAtGate, GateDeny
  <2>7. RejectPrepared(e) => dl'[d] = dl[d]
    BY <1>1 DEF RejectPrepared
  <2>8. Dispatch(e) => dl'[d] = dl[d]
    BY <1>1 DEF Dispatch
  <2>9. MutationReturns(e) => dl'[d] = dl[d]
    BY <1>1 DEF MutationReturns
  <2>10. PersistConfirmed(e) => dl'[d] = dl[d]
    BY <1>1 DEF PersistConfirmed
  <2>11. PersistConflict(e) => dl'[d] = dl[d]
    BY <1>1 DEF PersistConflict
  <2>12. Reread(e) => dl'[d] = dl[d]
    BY <1>1 DEF Reread
  <2>13. ReadTarget(e) => dl'[d] = dl[d]
    BY <1>1 DEF ReadTarget
  <2> QED
    BY <1>3, <1>4, <2>1, <2>2, <2>3, <2>4, <2>5, <2>6, <2>7, <2>8, <2>9, <2>10, <2>11, <2>12,
       <2>13 DEF Proceed
<1>5. CASE Fault(e)
  <2>1. ClaimAnswerLost(e) => dl'[d] = dl[d]
    BY <1>1 DEF ClaimAnswerLost
  <2>2. StoreUnavailable(e) => dl'[d] = dl[d]
    BY <1>1 DEF StoreUnavailable
  <2>3. Crash(e) => dl'[d] = dl[d]
    BY <1>1 DEF Crash
  <2>4. GateUnavailable(e) => dl'[d] = dl[d]
    BY <1>1 DEF GateUnavailable, GateDeny
  <2>5. GateRaises(e) => dl'[d] = dl[d]
    BY <1>1 DEF GateRaises
  <2>6. PersistAnswerLost(e) => dl'[d] = dl[d]
    BY <1>1 DEF PersistAnswerLost
  <2>7. PersistUnavailable(e) => dl'[d] = dl[d]
    BY <1>1 DEF PersistUnavailable
  <2>8. ReadTargetFails(e) => dl'[d] = dl[d]
    BY <1>1 DEF ReadTargetFails
  <2> QED BY <1>3, <1>5, <2>1, <2>2, <2>3, <2>4, <2>5, <2>6, <2>7, <2>8 DEF Fault
<1>6. ASSUME NEW w \in Work, Deliver(e, w) PROVE dl'[d] = dl[d]
  BY <1>1, <1>6 DEF Deliver
<1> QED BY <1>3, <1>4, <1>5, <1>6

LEMMA FencedStays ==
    ASSUME IInv, TargetInv, NEW d \in Delivery, Fenced(d), [Next]_vars
    PROVE  Fenced(d)'
<1>1. /\ W(d) \in Work /\ task[W(d)] # NoTask
      /\ authority.epoch \in Nat /\ task[W(d)].epoch \in Nat
  <2>1. W(d) \in Work
    BY BegunHasWork DEF Fenced
  <2> QED BY <2>1 DEF Fenced, TargetInv, BegunIsIssued, IInv, TypeOK, TaskType
\* The delivery stands still while the epoch moves on.
<1>2. ASSUME dl'[d] = dl[d], wire'[d] = "none",
             task'[W(d)] = task[W(d)], authority'.epoch >= authority.epoch,
             authority'.epoch \in Nat
      PROVE  Fenced(d)'
  BY <1>1, <1>2 DEF Fenced, W
<1>3. CASE Tick \/ UNCHANGED vars
  BY <1>1, <1>2, <1>3 DEF Tick, vars, store, cloud, Fenced
<1>4. CASE Issue
  <2>1. ASSUME NEW w \in Work, NEW etag, NEW until, NEW source, Signed(w, etag, until, source)
        PROVE  Fenced(d)'
    <3>1. w # W(d)
      BY <1>1, <2>1 DEF Signed
    <3>2. task'[W(d)] = task[W(d)]
      BY <2>1, <3>1 DEF Signed, IInv, TypeOK
    <3> QED BY <1>1, <1>2, <2>1, <3>2 DEF Signed, cloud, Fenced
  <2> QED BY <1>4, <2>1 DEF Issue, IssueApply, IssuePromotion, IssueRecovery
<1>5. CASE Provider
  <2>1. wire'[d] = "none" /\ dl' = dl /\ UNCHANGED <<authority, task>>
    BY <1>5 DEF Provider, Settle, ResetTarget, Land, Refuse, store, Fenced, IInv, TypeOK
  <2> QED BY <1>1, <1>2, <2>1
<1>6. CASE Operator
  <2>1. dl' = dl /\ UNCHANGED <<wire, task>>
    BY <1>6 DEF Operator, Revoke, ClassifyTarget, FinalizeRelease, ResolveObserve,
         ResolveCommit, ResolveAbandon, FenceClaim, ResolveStart, store, cloud
  <2>2. authority'.epoch \in {authority.epoch, authority.epoch + 1}
    BY <1>6 DEF Operator, Revoke, ClassifyTarget, FinalizeRelease, ResolveObserve,
         ResolveCommit, ResolveAbandon, FenceClaim, ResolveStart, store, IInv, TypeOK
  <2> QED BY <1>1, <1>2, <2>1, <2>2 DEF Fenced
<1>7. ASSUME NEW e \in Delivery, e # d,
             Proceed(e) \/ Fault(e) \/ \E w \in Work : Deliver(e, w)
      PROVE  Fenced(d)'
  BY <1>1, <1>2, <1>7, OthersStand DEF Fenced
<1>8. ASSUME Proceed(d) \/ Fault(d) PROVE Fenced(d)'
  <2>1. PICK next : StaysOut(d, next)
    BY <1>8, FencedProceeds
  <2>2. dl'[d] = next /\ wire' = wire /\ UNCHANGED <<authority, task>>
    BY <1>8, <2>1, FencedProceeds DEF StaysOut, Step, IInv, TypeOK
  <2> QED BY <2>1, <2>2 DEF StaysOut, Fenced, W
<1>9. \A w \in Work : ~ Deliver(d, w)
  BY DEF Deliver, Fenced
<1> QED BY <1>3, <1>4, <1>5, <1>6, <1>7, <1>8, <1>9 DEF Next, Serve

\* A delivery that has not made its final authority read when its epoch is
\* revoked never calls the provider, whatever else happens afterwards.
THEOREM RevocationFences == Spec => RevocationFencesUnread
<1> SUFFICES ASSUME NEW d \in Delivery
             PROVE  Spec => []((/\ dl[d].pc \in {"claim", "prepare", "source", "authority"}
                                /\ task[W(d)].epoch < authority.epoch)
                               => [](wire[d] = "none"))
  BY DEF RevocationFencesUnread
<1> DEFINE Unread == /\ dl[d].pc \in {"claim", "prepare", "source", "authority"}
                     /\ task[W(d)].epoch < authority.epoch
<1>1. IInv /\ Unread => Fenced(d)
  BY DEF IInv, LeaseUnspent, Leased, Fenced
<1>2. IInv /\ TargetInv /\ Fenced(d) /\ [Next]_vars => Fenced(d)'
  BY FencedStays
<1>3. Fenced(d) => wire[d] = "none"
  BY DEF Fenced
<1> QED BY <1>1, <1>2, <1>3, TargetInvariant, PTL DEF Spec
=============================================================================
