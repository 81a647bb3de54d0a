---------------------------- MODULE ServiceTenure ----------------------------
(***************************************************************************)
(* What root creation, revocation and release promise together.  One root  *)
(* holds the service at a time.  Its epoch starts at 1 and only counts up, *)
(* one by one; the step that begins to give the service up closes the last *)
(* usable epoch with it, and nothing else happens until the service is     *)
(* given up.  Then, and only then, the next root starts.                   *)
(***************************************************************************)
EXTENDS Naturals

CONSTANT Root

VARIABLES tenure,  \* [root, status] of the service
          current  \* the epoch of each root

Init == /\ tenure = [root |-> 0, status |-> "NONE"]
        /\ current = [r \in Root |-> 0]

\* The next root takes a service that is free.
Take == /\ tenure.status \in {"NONE", "RELEASED"}
        /\ tenure.root + 1 \in Root
        /\ tenure' = [root |-> tenure.root + 1, status |-> "ACTIVE"]
        /\ current' = [current EXCEPT ![tenure.root + 1] = 1]

\* The operator revokes the current epoch of the active root.
Revoke == /\ tenure.status = "ACTIVE"
          /\ current' = [current EXCEPT ![tenure.root] = @ + 1]
          /\ UNCHANGED tenure

Fence == /\ tenure.status = "ACTIVE"
         /\ tenure' = [tenure EXCEPT !.status = "RELEASING"]
         /\ current' = [current EXCEPT ![tenure.root] = @ + 1]

Release == /\ tenure.status = "RELEASING"
           /\ tenure' = [tenure EXCEPT !.status = "RELEASED"]
           /\ UNCHANGED current

Next == Take \/ Revoke \/ Fence \/ Release

Spec == Init /\ [][Next]_<<tenure, current>>
=============================================================================
