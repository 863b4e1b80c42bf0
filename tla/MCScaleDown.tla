----------------------------- MODULE MCScaleDown -----------------------------
(* Small instances of ScaleDown for TLC. *)
EXTENDS ScaleDown

CONSTANTS NumBackends, NumGateways, NumInitial

\* Backends first, so that they keep the lower numbers in every instance.
MCMachine == 1..(NumBackends + NumGateways)
MCNfsMachine == (NumBackends + 1)..(NumBackends + NumGateways)
MCInitial == 1..NumInitial \cup MCNfsMachine

=============================================================================
