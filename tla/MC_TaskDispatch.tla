--------------------------- MODULE MC_TaskDispatch ---------------------------
(***************************************************************************)
(* A bounded instance of TaskDispatch.                                     *)
(***************************************************************************)
EXTENDS TaskDispatch

TheRoot == [version |-> "V3", approved |-> 0, etag |-> "e0", concurrency |-> 1]
TheProof == [issued |-> 0, until |-> 3, etag |-> "e1"]
TheReceipt == [epoch |-> 1, updated |-> 0, etag |-> "e0", observed |-> "e1",
               outcome |-> "VERIFIED", revision |-> 3]
Services ==
    {[settled |-> TRUE, traffic |-> <<90, 10>>, concurrency |-> 1, etag |-> "e1"],
     [settled |-> TRUE, traffic |-> <<100, 0>>, concurrency |-> 1, etag |-> "e2"]}
TheUnhealthy == [epoch |-> 1, decided |-> 0]

Canary(epoch) ==
    [action |-> "APPLY_CANARY", epoch |-> epoch, req |-> "r0", key |-> "k0", sched |-> 0]
Promotion(req, sched) ==
    [action |-> "PROMOTE_CANDIDATE", epoch |-> 1, req |-> req, key |-> "k1",
     sched |-> sched]
Recovery(source, epoch) ==
    [action |-> "RECOVER_STABLE", epoch |-> epoch, req |-> "r3", key |-> "k3", sched |-> 1,
     source |-> source, receipt |-> [epoch |-> 1, etag |-> "e0", revision |-> 3]]

\* Canaries of both epochs, and two promotions with one idempotency key, and a
\* recovery of each kind.
Commands ==
    {Canary(1), Canary(2), Promotion("r1", 1), Promotion("r2", 1),
     Recovery(UnhealthySource, 1),
     Recovery(RevokedSource([new |-> 2, at |-> 0, previous |-> 1]), 2)}

\* Calls of different actions share nothing but the authority and the clock: those
\* of one behaviour are of one action.
OneAction ==
    \A c, d \in Call : Cmd(c) # None /\ Cmd(d) # None => Cmd(c).action = Cmd(d).action

CallSymmetry == Permutations(Call)
=============================================================================
