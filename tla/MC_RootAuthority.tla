--------------------------- MODULE MC_RootAuthority ---------------------------
\* Constants of the RootAuthority runs.
EXTENDS RootAuthority, TLC

Create(i, snap) == [kind |-> "CREATE", id |-> i, root |-> 0, epoch |-> 0,
                    snapshot |-> snap, action |-> "APPLY_CANARY"]
Revoke(i, r, e) == [kind |-> "REVOKE", id |-> i, root |-> r, epoch |-> e,
                    snapshot |-> 0, action |-> "APPLY_CANARY"]
Release(i, r, e, a) == [kind |-> "RELEASE", id |-> i, root |-> r, epoch |-> e,
                        snapshot |-> 0, action |-> a]
Stranded(i, r, e) == [kind |-> "STRANDED", id |-> i, root |-> r, epoch |-> e,
                      snapshot |-> 0, action |-> "APPLY_CANARY"]

\* Rivals for one tenure: a revocation, the altered reuse of its identity, and
\* releases of the epoch before and after it.
RivalCommands == {Create(1, 1), Revoke(1, 1, 1), Revoke(1, 1, 2),
                  Release(1, 1, 1, "RECOVER_STABLE"), Stranded(2, 1, 2)}

\* A tenure and the next: the second root starts from a later version.
TenureCommands == {Create(1, 1), Create(2, 3), Release(1, 1, 1, "RECOVER_STABLE"),
                   Revoke(1, 1, 1), Revoke(2, 1, 2)}

CallSymmetry == Permutations(Call)
=============================================================================
