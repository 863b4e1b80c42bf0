------------------------------- MODULE Gateways -------------------------------
(***************************************************************************)
(* The machines that serve protocols from a Weka cluster while it comes    *)
(* up (module Bringup), and the NFS interface group they form.             *)
(*                                                                         *)
(*   deploy/deploy_protocol_gw.go            all protocol gateways         *)
(*   clusterize/configure_nfs_protocol_gw.go the NFS gateway counted last  *)
(*   join/join_nfs_protocol_gw.go            NFS gateways launched later   *)
(*   deploy/deploy_data_service.go           data services                 *)
(*                                                                         *)
(* The deploy scripts do not run under "set -e": what fails is passed over *)
(* unless it is checked for.  The script that configures NFS does.         *)
(***************************************************************************)
EXTENDS Bringup

CONSTANTS
    Nfs,        \* NFS gateways of the initial deployment
    LateNfs,    \* NFS gateways launched once the interface group is there
    Smb,        \* gateways of the other protocols
    Data        \* data services

ASSUME GatewayAssumption ==
    /\ Gateway = Nfs \cup LateNfs \cup Smb \cup Data
    /\ Nfs \cap (LateNfs \cup Smb \cup Data) = {} /\ LateNfs \cap (Smb \cup Data) = {}
    /\ Smb \cap Data = {}

VARIABLES
    gat,        \* the step the script of each gateway is at
    creds,      \* the gateways that got the credentials of the deployment user
    frontend,   \* the gateways whose container runs in the cluster
    nfs         \* the interface group: exists, ports; the gateways counted, and whether
                \* the cloud was told that NFS is configured

gwVars == <<gat, creds, frontend, nfs>>
allVars == <<vars, gwVars>>

backendPart == <<deployment, at, active, layout, drive, cluster>>

Goes(g, step) == gat' = [gat EXCEPT ![g] = step]
GwReport(g) == state' = [state EXCEPT !.Errors = @ \cup {g}]

-----------------------------------------------------------------------------
\* Without a partition for Weka the script reports and ends.
PartitionFails(g) ==
    /\ gat[g] = "wait"
    /\ Fault /\ GwReport(g)
    /\ Goes(g, "failed")
    /\ UNCHANGED <<backendPart, creds, frontend, nfs>>

\* Mutant: the wait for the cluster ends like that for its status, after so many tries.
GwAwaitClusterized_Bounded(g) ==
    /\ gat[g] = "wait"
    /\ creds' \in {creds, creds \cup {g}}
    /\ IF g \in creds' THEN UNCHANGED faults ELSE Fault
    /\ Goes(g, "setup")
    /\ UNCHANGED <<backendPart, state, frontend, nfs>>

\* Waits for the cluster for as long as it takes, then fetches the credentials, or fails to.
GwAwaitClusterized(g) ==
    /\ gat[g] = "wait"
    /\ state.Clusterized
    /\ creds' \in {creds, creds \cup {g}}
    /\ IF g \in creds' THEN UNCHANGED faults ELSE Fault
    /\ Goes(g, "setup")
    /\ UNCHANGED <<backendPart, state, frontend, nfs>>

\* The frontend container is set up and becomes READY.
SetupFrontend(g) ==
    /\ gat[g] = "setup" /\ g \notin Data
    /\ frontend' = frontend \cup {g}
    /\ Goes(g, "uid")
    /\ UNCHANGED <<backendPart, state, faults, creds, nfs>>

\* It does not within 180 seconds: reported.
SetupTimesOut(g) ==
    /\ gat[g] = "setup" /\ g \notin Data
    /\ Fault /\ GwReport(g)
    /\ Goes(g, "failed")
    /\ UNCHANGED <<backendPart, creds, frontend, nfs>>

\* A data service does not look whether its container comes up.
SetupDataService(g) ==
    /\ gat[g] = "setup" /\ g \in Data
    /\ \/ frontend' = frontend \cup {g} /\ UNCHANGED faults
       \/ UNCHANGED frontend /\ Fault
    /\ Goes(g, "done")
    /\ UNCHANGED <<backendPart, state, creds, nfs>>

\* The container is looked up, and given the primary address, with the credentials.  The
\* waits for the status of the cluster and for .config_fs that follow end after so many
\* tries whatever they saw: the test for the timeout, i > max_retries, never holds.
FindContainer(g) ==
    /\ gat[g] = "uid"
    /\ g \in creds /\ cluster.user
    /\ Goes(g, IF g \in LateNfs THEN "port" ELSE "clusterize")
    /\ UNCHANGED <<backendPart, state, faults, creds, frontend, nfs>>

FindContainerFails(g) ==
    /\ gat[g] = "uid"
    /\ IF g \in creds /\ cluster.user THEN Fault ELSE UNCHANGED faults
    /\ GwReport(g)
    /\ Goes(g, "failed")
    /\ UNCHANGED <<backendPart, creds, frontend, nfs>>

\* The cloud function counts NFS gateways and answers the last one with the script that
\* configures NFS; another protocol is set up by a script of the cloud's own.
GwClusterize(g) ==
    /\ gat[g] = "clusterize"
    /\ nfs' = IF g \in Nfs THEN [nfs EXCEPT !.counted = @ \cup {g}] ELSE nfs
    /\ Goes(g, IF g \in Nfs /\ nfs'.counted = Deployed(Nfs) THEN "group" ELSE "done")
    /\ UNCHANGED <<backendPart, state, faults, creds, frontend>>

\* The call or its answer gets lost: an empty script is run.
GwClusterizeFails(g) ==
    /\ gat[g] = "clusterize"
    /\ Fault
    /\ \/ UNCHANGED nfs
       \/ g \in Nfs /\ nfs' = [nfs EXCEPT !.counted = @ \cup {g}]
    /\ Goes(g, "failed")
    /\ UNCHANGED <<backendPart, state, creds, frontend>>

-----------------------------------------------------------------------------
(* Configuring NFS, on the gateway that was counted last.                  *)

\* A group that could not be created is passed over: the last command of the function
\* is an echo, and on the left of || "set -e" does not count.
CreateInterfaceGroup(g) ==
    /\ gat[g] = "group"
    /\ \/ nfs' = [nfs EXCEPT !.exists = TRUE] /\ UNCHANGED faults
       \/ UNCHANGED nfs /\ Fault
    /\ Goes(g, "ports")
    /\ UNCHANGED <<backendPart, state, creds, frontend>>

\* Mutant: the gateway adds its own port only.
AddPorts_Own(g) ==
    /\ gat[g] = "ports"
    /\ nfs.exists
    /\ nfs' = [nfs EXCEPT !.ports = @ \cup {g}]
    /\ Goes(g, "groupOK")
    /\ UNCHANGED <<backendPart, state, faults, creds, frontend>>

AddPorts(g) ==
    /\ gat[g] = "ports"
    /\ nfs.exists
    /\ nfs' = [nfs EXCEPT !.ports = @ \cup nfs.counted]
    /\ Goes(g, "groupOK")
    /\ UNCHANGED <<backendPart, state, faults, creds, frontend>>

\* One port fails, and with it the script, silently.
AddPortsFail(g) ==
    /\ gat[g] = "ports"
    /\ IF nfs.exists THEN Fault ELSE UNCHANGED faults
    /\ \E some \in SUBSET nfs.counted :
          /\ some # nfs.counted
          /\ ~nfs.exists => some = {}
          /\ nfs' = [nfs EXCEPT !.ports = @ \cup some]
    /\ Goes(g, "failed")
    /\ UNCHANGED <<backendPart, state, creds, frontend>>

\* The group is OK with its ports, and again with each secondary address.
GroupOK(g) ==
    /\ gat[g] = "groupOK"
    /\ Goes(g, "final")
    /\ UNCHANGED <<backendPart, state, faults, creds, frontend, nfs>>

\* It is not within ten minutes, which is reported; an address cannot be added.
GroupFails(g) ==
    /\ gat[g] = "groupOK"
    /\ Fault
    /\ GwReport(g) \/ UNCHANGED state
    /\ Goes(g, "failed")
    /\ UNCHANGED <<backendPart, creds, frontend, nfs>>

FinalizeNfs(g) ==
    /\ gat[g] = "final"
    /\ nfs' = [nfs EXCEPT !.configured = TRUE]
    /\ Goes(g, "done")
    /\ UNCHANGED <<backendPart, state, faults, creds, frontend>>

FinalizeNfsFails(g) ==
    /\ gat[g] = "final"
    /\ Fault
    /\ nfs' \in {nfs, [nfs EXCEPT !.configured = TRUE]}
    /\ Goes(g, "failed")
    /\ UNCHANGED <<backendPart, state, creds, frontend>>

-----------------------------------------------------------------------------
(* An NFS gateway that joins later.                                        *)

GwLaunch(g) ==
    /\ g \in Deployed(LateNfs) /\ gat[g] = "off"
    /\ nfs.configured
    /\ Goes(g, "wait")
    /\ UNCHANGED <<backendPart, state, faults, creds, frontend, nfs>>

\* Nobody looks whether the port could be added.
JoinPort(g) ==
    /\ gat[g] = "port"
    /\ \/ nfs' = [nfs EXCEPT !.ports = @ \cup {g}] /\ UNCHANGED faults
       \/ UNCHANGED nfs /\ Fault
    /\ Goes(g, "joinOK")
    /\ UNCHANGED <<backendPart, state, creds, frontend>>

\* The group as a whole is OK; join_nfs_finalization.
JoinNfsFinalization(g) ==
    /\ gat[g] = "joinOK"
    /\ Goes(g, "done")
    /\ UNCHANGED <<backendPart, state, faults, creds, frontend, nfs>>

\* It is not within two minutes: not reported.
JoinNfsTimesOut(g) ==
    /\ gat[g] = "joinOK"
    /\ Fault
    /\ Goes(g, "failed")
    /\ UNCHANGED <<backendPart, state, creds, frontend, nfs>>

-----------------------------------------------------------------------------
Init ==
    /\ BringupInit
    /\ gat = [g \in Gateway |-> IF g \in Deployed(Gateway \ LateNfs) THEN "wait" ELSE "off"]
    /\ creds = {} /\ frontend = {}
    /\ nfs = [exists |-> FALSE, ports |-> {}, counted |-> {}, configured |-> FALSE]

GatewayStep(g) ==
    \/ PartitionFails(g) \/ GwAwaitClusterized(g)
    \/ SetupFrontend(g) \/ SetupTimesOut(g) \/ SetupDataService(g)
    \/ FindContainer(g) \/ FindContainerFails(g) \/ GwClusterize(g) \/ GwClusterizeFails(g)
    \/ CreateInterfaceGroup(g) \/ AddPorts(g) \/ AddPortsFail(g)
    \/ GroupOK(g) \/ GroupFails(g) \/ FinalizeNfs(g) \/ FinalizeNfsFails(g)
    \/ GwLaunch(g) \/ JoinPort(g) \/ JoinNfsFinalization(g) \/ JoinNfsTimesOut(g)

Next ==
    \/ BringupNext /\ UNCHANGED gwVars
    \/ \E g \in Gateway : GatewayStep(g)

Spec == Init /\ [][Next]_allVars

\* Every script runs on by itself; the containers that were set up come up and find
\* their cluster, and adding drives comes to an end.
Fairness ==
    /\ \A m \in Backend \cup Joiner :
        /\ WF_allVars(ScriptStep(m) /\ UNCHANGED gwVars)
        /\ WF_allVars(DrivesDone(m) /\ UNCHANGED gwVars)
        /\ WF_allVars(Connect(m) /\ UNCHANGED gwVars)
        /\ \A c \in Container : WF_allVars(ContainerUp(m, c) /\ UNCHANGED gwVars)
    /\ \A g \in Gateway : WF_allVars(GatewayStep(g))

FairSpec == Spec /\ Fairness

-----------------------------------------------------------------------------
(* Properties.                                                             *)

\* Every variable has its type; an NFS gateway that is launched later never runs the
\* script that configures NFS.
TypeOK ==
    /\ BringupTypeOK
    /\ \A g \in Gateway :
          gat[g] \in {"off", "wait", "setup", "uid", "clusterize"} \cup Ended
                        \cup (IF g \in Nfs THEN {"group", "ports", "groupOK", "final"} ELSE {})
                        \cup (IF g \in LateNfs THEN {"port", "joinOK"} ELSE {})
    /\ creds \subseteq Gateway /\ frontend \subseteq Gateway
    /\ nfs.counted \subseteq Nfs /\ nfs.ports \subseteq Nfs \cup LateNfs

\* A gateway or data service sets itself up on a cluster that serves IO and has the
\* .config_fs it is configured with, although none of its own waits insists on that.
GatewayAfterConfigFs ==
    \A g \in Gateway : gat[g] \in {"setup", "uid", "clusterize", "done"} =>
        cluster.io /\ ".config_fs" \in cluster.fs

\* Once the cloud is told that NFS is configured, every NFS gateway of the deployment has
\* a container in the cluster and a port in the interface group, whatever failed before.
NfsConfiguredComplete ==
    nfs.configured => nfs.exists /\ Deployed(Nfs) \subseteq nfs.ports \cap frontend

\* No cluster, nobody who creates it, and because of a backend that failed nobody who
\* still could: the one that was to create it is gone, or too few are left.
Broken ==
    LET pending == {m \in Backend : at[m] \in {"install", "boot", "clusterize"}}
    IN  /\ ~state.Clusterized
        /\ \E m \in Backend : at[m] = "failed"
        /\ \A m \in Backend : at[m] \notin CreateStep
        /\ \/ Cardinality(state.Instances) >= Target
           \/ Cardinality(state.Instances \cup pending) < Target

\* Every script that is started ends, unless the deployment is broken: then the scripts
\* that wait for the cluster wait for good.
BringupEnds ==
    /\ \A m \in Backend \cup Joiner : at[m] # "off" ~> at[m] \in Ended \/ Broken
    /\ \A g \in Gateway : gat[g] # "off" ~> gat[g] \in Ended \/ Broken

=============================================================================
