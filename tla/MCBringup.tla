------------------------------- MODULE MCBringup -------------------------------
(* A small instance of Gateways, and with it Bringup, for TLC. *)
EXTENDS Gateways

\* Two NUMA nodes.
MCNuma == << <<1, 3, 5>>, <<2, 4>> >>

\* One backend more than the target and one launched later, without a default
\* filesystem to tier; an NFS cluster; a cluster for another protocol and a data service.
MCDeployments == {
    [machines |-> Backend \cup Joiner, SetObs |-> TRUE, SetDefaultFs |-> FALSE],
    [machines |-> {1, 2} \cup Nfs \cup LateNfs, SetObs |-> FALSE, SetDefaultFs |-> FALSE],
    [machines |-> {1, 2} \cup Smb \cup Data, SetObs |-> TRUE, SetDefaultFs |-> TRUE]}

=============================================================================
