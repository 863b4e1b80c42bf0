-------------------------- MODULE DeactivateTarget --------------------------
(***************************************************************************)
(* How many backend machines scale_down keeps in deactivation              *)
(* (scale_down/scale_down.go).                                             *)
(***************************************************************************)
EXTENDS Integers

Larger(a, b) == IF a > b THEN a ELSE b
Lesser(a, b) == IF a < b THEN a ELSE b

\* Mutants: the documented new_D taken on top of D; the surplus forgotten.
CalculateDeactivateTarget_OnTop(A, U, D, T) ==
    D + Larger(A + U + D - T, Lesser(2 - D, U))
CalculateDeactivateTarget_NoSurplus(A, U, D, T) ==
    Larger(D, Lesser(2 - D, U))

\* A healthy, U unhealthy and D deactivating machines, T the target size.
CalculateDeactivateTarget(A, U, D, T) ==
    Larger(D, Larger(A + U + D - T, Lesser(2 - D, U)))

=============================================================================
