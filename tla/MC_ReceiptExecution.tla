------------------------- MODULE MC_ReceiptExecution -------------------------
(***************************************************************************)
(* Instances of ReceiptExecution for TLC.                                  *)
(***************************************************************************)
EXTENDS ReceiptExecution, TLC

CONSTANTS a1, a2, p1, r1, ka, kp, kr, d1, d2, d3

\* One canary.
OneKey == a1 :> ka
OneAction == a1 :> "APPLY_CANARY"

\* A canary, its promotion and its recovery.
ChainKey == a1 :> ka @@ p1 :> kp @@ r1 :> kr
ChainAction == a1 :> "APPLY_CANARY" @@ p1 :> "PROMOTE_CANDIDATE"
               @@ r1 :> "RECOVER_STABLE"

\* Two canaries that name one key.
ReusedKey == a1 :> ka @@ a2 :> ka
ReusedAction == a1 :> "APPLY_CANARY" @@ a2 :> "APPLY_CANARY"

\* Deliveries are interchangeable.
DeliverySymmetry == Permutations(Delivery)
=============================================================================
