------------------------ MODULE DeactivateTargetProofs ------------------------
(* What CalculateDeactivateTarget guarantees for machine counts of any size. *)
EXTENDS DeactivateTarget, TLAPS

\* The number is one machinesIps can be cut at: the slice machinesIps[:n] of the
\* A + U + D machines is in range, and every deactivating machine keeps its place.
THEOREM TargetInRange ==
    ASSUME NEW A \in Nat, NEW U \in Nat, NEW D \in Nat, NEW T \in Nat
    PROVE  /\ CalculateDeactivateTarget(A, U, D, T) \in D..(A + U + D)
BY DEF CalculateDeactivateTarget, Larger, Lesser

\* The broken and deactivating machines come first, so healthy ones are reached only
\* if the number exceeds theirs: then exactly the A - T healthy machines above the
\* target are, and never one more.
THEOREM OnlySurplusHealthy ==
    ASSUME NEW A \in Nat, NEW U \in Nat, NEW D \in Nat, NEW T \in Nat,
           CalculateDeactivateTarget(A, U, D, T) > U + D
    PROVE  CalculateDeactivateTarget(A, U, D, T) - (U + D) = A - T
BY DEF CalculateDeactivateTarget, Larger, Lesser

\* With no surplus, at most two machines are taken besides those under way.
THEOREM AtMostTwoBroken ==
    ASSUME NEW A \in Nat, NEW U \in Nat, NEW D \in Nat, NEW T \in Nat,
           A + U + D <= T
    PROVE  CalculateDeactivateTarget(A, U, D, T) <= Larger(D, 2)
BY DEF CalculateDeactivateTarget, Larger, Lesser

\* Whatever the target: a machine is added to those under way only up to two of them, or
\* up to the surplus if that is larger.
THEOREM AddedWithinBound ==
    ASSUME NEW A \in Nat, NEW U \in Nat, NEW D \in Nat, NEW T \in Nat,
           CalculateDeactivateTarget(A, U, D, T) > D
    PROVE  CalculateDeactivateTarget(A, U, D, T) <= Larger(2, A + U + D - T)
BY DEF CalculateDeactivateTarget, Larger, Lesser

=============================================================================
