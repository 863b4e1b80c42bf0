-------------------------- MODULE MCInstanceRefresh --------------------------
(* Small instances of InstanceRefresh for TLC. *)
EXTENDS InstanceRefresh

CONSTANT MaxInstances    \* bound: instances ever launched, the initial ones included

MCInstance == 1..MaxInstances

=============================================================================
