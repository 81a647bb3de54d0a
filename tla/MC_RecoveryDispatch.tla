------------------------ MODULE MC_RecoveryDispatch ------------------------
(***************************************************************************)
(* Bounded instances of RecoveryDispatch.                                  *)
(***************************************************************************)
EXTENDS RecoveryDispatch, TLC

Unhealthy(i) == [source |-> "UNHEALTHY", epoch |-> 1, id |-> i]
Revoked == [source |-> "REVOKED", epoch |-> 2, id |-> 1]

\* Two evaluations sign different proofs; the operator revokes and recovers.
OwnerCommands == {Unhealthy(1), Unhealthy(2), Revoked}

\* One evaluation.
UnhealthyCommand == {Unhealthy(1)}

CallSymmetry ==
    Permutations(Call) \cup Permutations(Abandon) \cup Permutations(Delivery)
=============================================================================
