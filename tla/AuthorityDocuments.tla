------------------------- MODULE AuthorityDocuments -------------------------
(***************************************************************************)
(* The documents of one authority transaction, and the checks that a store *)
(* makes of them before it starts: each commit is built from the snapshot  *)
(* that the call read and from its command, and is refused as a whole when *)
(* it is not an exact step from that snapshot.                             *)
(*                                                                         *)
(* o is a transaction: the call o.by, its command o.cmd, the kind o.op and *)
(* the snapshot o.snap.  A digest stands for the document it is of, and a  *)
(* command for its request digest, so documents that embed one another are *)
(* compared directly.  Evidence is a sequence of events to append to the   *)
(* chain of the root; their numbers follow from their order.               *)
(***************************************************************************)
EXTENDS Integers, Sequences

CONSTANT NoCommand  \* not a command

Event(k, e) == [kind |-> k, epoch |-> e]

\* What no observation of the service says.
Unseen == [version |-> 0, traffic |-> "NONE"]

\* _terminal_receipt_release_mapping: the state of the root that a release
\* declares, by its command and the action of its receipt.
TerminalState(m) ==
    IF m.kind = "STRANDED" THEN "STRANDED_STABLE"
    ELSE IF m.action = "PROMOTE_CANDIDATE" THEN "PROMOTED"
    ELSE IF m.action = "RECOVER_STABLE" THEN "RECOVERED"
    ELSE "NONE"

TerminalTraffic(m) == IF TerminalState(m) = "PROMOTED" THEN "CANDIDATE" ELSE "STABLE"

-----------------------------------------------------------------------------
\* What each commit consists of.

CreatedClaim(o) ==
    [root |-> o.snap.claim.root + 1, status |-> "ACTIVE", owner |-> o.cmd,
     fence |-> NoCommand]

CreationCommit(o) ==
    [claim |-> CreatedClaim(o), epoch |-> 1, winner |-> o.cmd,
     events |-> <<Event("ROOT_CREATED", 1)>>]

RevocationCommit(o) ==
    [epoch |-> o.snap.epoch + 1, result |-> o.cmd,
     events |-> <<Event("EPOCH_ADVANCED", o.snap.epoch + 1)>>]

FenceEvents(o) ==
    <<Event("TERMINAL", o.snap.receipt), Event("EPOCH_ADVANCED", o.snap.epoch + 1)>>

FenceCommit(o) ==
    [claim |-> [o.snap.claim EXCEPT !.status = "RELEASING", !.fence = o.cmd],
     epoch |-> o.snap.epoch + 1, progress |-> o.cmd, state |-> TerminalState(o.cmd),
     events |-> FenceEvents(o)]

ReleaseEvents(o) ==
    <<Event("CLASSIFIED", o.snap.epoch), Event("RELEASED", o.snap.epoch)>>

ReleaseCommit(o) ==
    [claim |-> [o.snap.claim EXCEPT !.status = "RELEASED"],
     result |-> o.cmd, proof |-> o.snap.seen, events |-> ReleaseEvents(o)]

-----------------------------------------------------------------------------
\* Checks that several commits share.

AuthorityAdvances(old, new) == new = old + 1

\* The part of a claim that no transition of it may change.
Ownership(k) == [root |-> k.root, owner |-> k.owner]

\* service_claim_matches_root_v3: the claim was taken for the root that w made.
ClaimMatchesRoot(k, w) == k.owner = w

\* _validate_released_takeover_content_addressed, of the claim k by the claim n.
TakeoverValid(k, n) == k.status = "NONE" \/ (k.status = "RELEASED" /\ k.root # n.root)

ClaimFences(k, n) ==
    k.status = "ACTIVE" /\ n.status = "RELEASING" /\ Ownership(n) = Ownership(k)

\* _validate_claim_release: the release changes the status and nothing else, and
\* the epoch is still the one that the fence opened.
ClaimReleases(k, n, e) ==
    /\ k.status = "RELEASING" /\ n.status = "RELEASED"
    /\ Ownership(n) = Ownership(k) /\ n.fence = k.fence
    /\ e = k.fence.epoch + 1

\* The verified canary receipt that strands its root was of the epoch that the
\* command closes.
ApplyReceiptExact(o) == o.cmd.action = "APPLY_CANARY" /\ o.snap.receipt = o.cmd.epoch

\* A receipt of the terminal action, of the current epoch or an earlier one.
TerminalReceiptExact(o) == TerminalState(o.cmd) # "NONE" /\ o.snap.receipt \in 1..o.cmd.epoch

ReceiptCloses(o) ==
    IF o.cmd.kind = "STRANDED" THEN ApplyReceiptExact(o) ELSE TerminalReceiptExact(o)

-----------------------------------------------------------------------------
\* The check of each commit.

\* _validate_initial_root_creation_bundle
CreationValid(o, d) ==
    /\ d.claim.status = "ACTIVE" /\ ClaimMatchesRoot(d.claim, d.winner) /\ d.winner = o.cmd
    /\ d.epoch = 1 /\ TakeoverValid(o.snap.claim, d.claim)

\* _validate_epoch_revocation_commit
RevocationValid(o, d) ==
    /\ AuthorityAdvances(o.snap.epoch, d.epoch)
    /\ o.snap.claim.root = o.cmd.root /\ o.snap.claim.status = "ACTIVE"
    /\ o.snap.epoch = o.cmd.epoch
    /\ d.result = o.cmd /\ d.events = <<Event("EPOCH_ADVANCED", d.epoch)>>

\* The fence of the claim and the advance of the epoch are one transition.
FenceIsOneTransition(o, d) ==
    /\ ClaimFences(o.snap.claim, d.claim) /\ AuthorityAdvances(o.snap.epoch, d.epoch)
    /\ d.claim.root = o.cmd.root /\ d.claim.fence = o.cmd

\* The terminal event names the receipt, the fence event the epoch it opens.
FenceEventsValid(o, d) ==
    /\ d.events[1] = Event("TERMINAL", o.snap.receipt)
    /\ d.events[2] = Event("EPOCH_ADVANCED", d.epoch)
    /\ Len(d.events) = 2

\* _validate_service_claim_fence_commit
FenceValid(o, d) ==
    /\ o.snap.epoch = o.cmd.epoch /\ ReceiptCloses(o)
    /\ FenceIsOneTransition(o, d)
    /\ d.progress = o.cmd /\ d.state = TerminalState(o.cmd)
    /\ FenceEventsValid(o, d)

\* The progress of the release is of the command, and the authority is the one
\* that its fence wrote.
FenceStands(o) == o.snap.claim.fence = o.cmd /\ o.snap.epoch = o.cmd.epoch + 1

\* The configuration and the generation that the verifier attested.
ClassificationExact(o, d) ==
    /\ d.proof.traffic = TerminalTraffic(o.cmd)
    /\ d.proof.version > d.claim.owner.snapshot

\* Both events of the release are of the epoch that the fence opened.
ReleaseEventsValid(o, d) ==
    d.events = <<Event("CLASSIFIED", o.snap.epoch), Event("RELEASED", o.snap.epoch)>>

\* _validate_service_claim_finalize_commit
ReleaseValid(o, d) ==
    /\ ReceiptCloses(o) /\ FenceStands(o)
    /\ ClaimReleases(o.snap.claim, d.claim, o.snap.epoch) /\ d.claim.fence = o.cmd
    /\ d.result = o.cmd /\ ClassificationExact(o, d) /\ ReleaseEventsValid(o, d)

CommitValid(o) ==
    \/ o.op = "create" /\ CreationValid(o, CreationCommit(o))
    \/ o.op = "revoke" /\ RevocationValid(o, RevocationCommit(o))
    \/ o.op = "fence" /\ FenceValid(o, FenceCommit(o))
    \/ o.op = "finalize" /\ ReleaseValid(o, ReleaseCommit(o))

-----------------------------------------------------------------------------
\* The classification of the target, between the fence and the release.

\* What the coordinator asks the verifier: the state to expect, and the head of
\* the chain that the classification event will follow.
ClassificationRequest(m, s) ==
    [root |-> m.root, cmd |-> m, after |-> s.head, epoch |-> s.epoch,
     traffic |-> TerminalTraffic(m), beyond |-> s.claim.owner.snapshot]

\* The verifier attests the service v, as it read it, to the request q.
Attestation(q, v) == [request |-> q, seen |-> v, epoch |-> q.epoch, seq |-> q.after + 1]

\* ServiceClaimClassificationResultV1: the observation is what was expected.
ResultBound(a) ==
    a.seen.traffic = a.request.traffic /\ a.seen.version > a.request.beyond

\* The signed event is the one that follows the head of the request.
AttestationBound(a) == a.seq = a.request.after + 1 /\ a.epoch = a.request.epoch

\* What the client accepts: an attestation of this very request, bound.
Accepts(q, a) == a.request = q /\ ResultBound(a) /\ AttestationBound(a)
=============================================================================
