---------------------------- MODULE BringupProofs ----------------------------
(***************************************************************************)
(* Proofs about Bringup and Gateways, for any number of machines, any      *)
(* target, any deployment and any number of failures.                      *)
(***************************************************************************)
EXTENDS Gateways, HostLayoutProofs, FiniteSetTheorems

Host == Backend \cup Joiner
JoinStep == {"isReady", "scan", "joined"}
BeforeCount == {"off", "install", "boot", "clusterize"}
BeforeIo == {"prepare", "create", "user", "postCreation", "drives", "wait", "settings",
             "preStartIo", "startIo"}
DrivesAwaited == {"settings", "preStartIo", "startIo"}
AfterIo == {"fsGroup", "configFs", "defaultFs", "finalize", "obs", "postSetup"}
AfterConfigFs == {"defaultFs", "finalize", "obs", "postSetup"}
Layouts == {NoLayout} \cup {Layout(joins, IsBM) : joins \in BOOLEAN}
Step == BeforeCount \cup {"await"} \cup JoinStep \cup CreateStep \cup Ended

GwStep == {"off", "wait", "setup", "uid", "clusterize", "group", "ports", "groupOK", "final",
           "port", "joinOK"} \cup Ended
ConfigStep == {"group", "ports", "groupOK", "final"}

ClusterType == [VMs : SUBSET Backend, members : SUBSET Host, user : BOOLEAN,
                group : BOOLEAN, io : BOOLEAN, fs : SUBSET {".config_fs", "default"},
                obs : BOOLEAN]
StateType == [Instances : SUBSET Backend, Clusterized : BOOLEAN, Errors : SUBSET Machine]
NfsType == [exists : BOOLEAN, ports : SUBSET (Nfs \cup LateNfs),
            counted : SUBSET Deployed(Nfs), configured : BOOLEAN]

\* The types of the variables of the backends.
Types ==
    /\ deployment \in Deployments
    /\ at \in [Host -> Step]
    /\ \A m \in Joiner : at[m] \in {"off", "install"} \cup JoinStep \cup Ended
    /\ active \in [Host -> SUBSET Container]
    /\ layout \in [Host -> Layouts]
    /\ drive \in [Host -> {"none", "unlisted", "adding", "added", "failed", "missed"}]
    /\ cluster \in ClusterType
    /\ state \in StateType
    /\ faults \in 0..MaxFaults

\* Machines are counted once; those the cluster is created from have all their containers
\* up, are the first to be counted, and stay out of what the others do.
CountInv ==
    /\ \A m \in Host : at[m] \in BeforeCount => m \notin state.Instances
    /\ \A m \in Host : at[m] = "clusterize" => active[m] = Container
    /\ Cardinality(state.Instances) < Target =>
          /\ cluster.VMs = {}
          /\ \A m \in state.Instances : at[m] \in Ended /\ active[m] = Container
    /\ cluster.VMs # {} => Cardinality(cluster.VMs) = Target
    /\ \A m \in cluster.VMs : at[m] \in CreateStep \cup Ended /\ active[m] = Container

\* One machine runs the create script; before, there is nothing of the cluster.
CreatorInv ==
    /\ \A m, k \in Host : at[m] \in CreateStep /\ at[k] \in CreateStep => m = k
    /\ cluster.VMs = {} =>
          /\ cluster.members = {} /\ ~cluster.io /\ ~state.Clusterized
          /\ \A m \in Host : at[m] \notin CreateStep

\* What the step of the create script says of the cluster.
ScriptInv ==
    /\ cluster.io => cluster.VMs \subseteq cluster.members
    /\ \A m \in Host :
          /\ at[m] \in CreateStep \ {"prepare", "create"} => cluster.VMs \subseteq cluster.members
          /\ at[m] \in {"prepare", "create"} => cluster.members = {}
          /\ at[m] \in BeforeIo => ~cluster.io /\ ~state.Clusterized
          /\ at[m] \in AfterIo => cluster.io
          /\ at[m] \in AfterConfigFs => ".config_fs" \in cluster.fs
          /\ at[m] \in AfterConfigFs \ {"defaultFs"} /\ deployment.SetDefaultFs =>
                "default" \in cluster.fs

\* What add_drives leaves behind when it is over.
AddDrivesOver == {"unlisted", "added", "failed", "missed"}

\* The drives of the machines named are being added from "wait" on, if their containers
\* were listed, and dealt with from "settings" on; a failure has been reported, and what
\* is passed over in silence is due to a failure.
DriveInv ==
    /\ \A k \in Host : drive[k] = "failed" => k \in state.Errors
    /\ \A k \in Host : drive[k] \in {"unlisted", "missed"} => faults > 0
    /\ \A m \in Host :
          at[m] \in {"wait"} => \A k \in cluster.VMs : drive[k] # "none"
    /\ \A m \in Host :
          at[m] \in DrivesAwaited => \A k \in cluster.VMs : drive[k] \in AddDrivesOver
    /\ cluster.io => \A k \in cluster.VMs : drive[k] \in AddDrivesOver

\* A gateway that is past its wait has seen the announcement; one that was counted has its
\* container in the cluster.
GatewayInv ==
    /\ gat \in [Gateway -> GwStep]
    /\ \A g \in Gateway : /\ gat[g] \in ConfigStep => g \in Nfs
                          /\ gat[g] \in {"port", "joinOK"} => g \in LateNfs
                          /\ g \in Nfs \ deployment.machines => gat[g] = "off"
    /\ creds \subseteq Gateway /\ frontend \subseteq Gateway
    /\ nfs \in NfsType
    /\ nfs.counted \subseteq frontend
    /\ \A g \in Gateway :
          /\ gat[g] \notin {"off", "wait", "failed"} =>
                cluster.io /\ ".config_fs" \in cluster.fs
          /\ g \in Nfs /\ gat[g] \in {"uid", "clusterize"} => g \in frontend
          /\ gat[g] \in ConfigStep => nfs.counted = Deployed(Nfs)
          /\ gat[g] \in {"groupOK", "final"} => nfs.exists /\ nfs.counted \subseteq nfs.ports

Inv ==
    /\ Types /\ CountInv /\ CreatorInv /\ ScriptInv /\ DriveInv /\ GatewayInv
    /\ ClusterizedComplete /\ NfsConfiguredComplete

-----------------------------------------------------------------------------
(* Records keep their types.                                               *)

\* Marking a step done in the cluster keeps its type.
LEMMA ClusterUpdates ==
    ASSUME NEW c \in ClusterType
    PROVE  /\ [c EXCEPT !.user = TRUE] \in ClusterType
           /\ [c EXCEPT !.group = TRUE] \in ClusterType
           /\ [c EXCEPT !.io = TRUE] \in ClusterType
           /\ [c EXCEPT !.obs = TRUE] \in ClusterType
<1>1. [c EXCEPT !.user = TRUE] \in ClusterType
  BY Zenon DEF ClusterType
<1>2. [c EXCEPT !.group = TRUE] \in ClusterType
  BY Zenon DEF ClusterType
<1>3. [c EXCEPT !.io = TRUE] \in ClusterType
  BY Zenon DEF ClusterType
<1>4. [c EXCEPT !.obs = TRUE] \in ClusterType
  BY Zenon DEF ClusterType
<1>5. QED
  BY <1>1, <1>2, <1>3, <1>4

\* So does adding machines and filesystems.
LEMMA ClusterGrows ==
    ASSUME NEW c \in ClusterType, NEW S \in SUBSET Host, NEW V \in SUBSET Backend,
           NEW F \in SUBSET {".config_fs", "default"}
    PROVE  /\ [c EXCEPT !.members = @ \cup S] \in ClusterType
           /\ [c EXCEPT !.VMs = V] \in ClusterType
           /\ [c EXCEPT !.fs = @ \cup F] \in ClusterType
BY DEF ClusterType

\* Counting a machine, filing an error and announcing the cluster keep the type of the
\* state object.
LEMMA StateUpdates ==
    ASSUME NEW s \in StateType, NEW b \in Backend, NEW h \in Machine
    PROVE  /\ [s EXCEPT !.Instances = @ \cup {b}] \in StateType
           /\ [s EXCEPT !.Errors = @ \cup {h}] \in StateType
           /\ [s EXCEPT !.Clusterized = TRUE] \in StateType
<1>1. [s EXCEPT !.Clusterized = TRUE] \in StateType
  BY Zenon DEF StateType
<1>2. [s EXCEPT !.Instances = @ \cup {b}] \in StateType
  BY DEF StateType
<1>3. [s EXCEPT !.Errors = @ \cup {h}] \in StateType
  BY DEF StateType
<1>4. QED
  BY <1>1, <1>2, <1>3

\* So does marking the interface group, and the configuration of NFS, done.
LEMMA NfsTypes ==
    ASSUME NEW n \in NfsType
    PROVE  /\ [n EXCEPT !.exists = TRUE] \in NfsType
           /\ [n EXCEPT !.configured = TRUE] \in NfsType
<1>1. [n EXCEPT !.exists = TRUE] \in NfsType
  BY Zenon DEF NfsType
<1>2. [n EXCEPT !.configured = TRUE] \in NfsType
  BY Zenon DEF NfsType
<1>3. QED
  BY <1>1, <1>2

\* The step after a step of the create script is one, or the end.
LEMMA AfterStep ==
    ASSUME NEW s \in CreateStep
    PROVE  After(s) \in CreateStep \cup {"done"}
BY DEF After, Tiered, Straight, CreateStep

-----------------------------------------------------------------------------
(* Steps of backends.                                                      *)

\* A step of a script, of its containers or of its drives.
HostStep(m) ==
    \/ ScriptStep(m) \/ DrivesDone(m) \/ Connect(m)
    \/ \E c \in Container : ContainerUp(m, c)

\* The bound on failures.
LEMMA FaultsBounded ==
    ASSUME Types, Fault
    PROVE  faults' \in 0..MaxFaults
BY BringupAssumption DEF Types, Fault, MayFail

\* Every step of a backend keeps the types.
LEMMA TypesKept ==
    ASSUME Types, NEW m \in Host, HostStep(m)
    PROVE  Types'
<1> USE DEF Types, Step, BeforeCount, JoinStep, CreateStep, Ended, Host, MoveTo
<1>1. m \in Machine /\ (m \in Joiner \/ m \in Backend)
  BY DEF Machine
<1>2. ASSUME Report(m)
      PROVE  state' \in StateType
  BY <1>1, <1>2, StateUpdates, BringupAssumption DEF Report, StateType
<1>3. CASE Install(m)
  <2>1. layout' \in [Host -> Layouts]
    <3>1. Layout(m \in Joiner, IsBM) \in Layouts
      <4> DEFINE joins == m \in Joiner
      <4>1. joins \in BOOLEAN
        OBVIOUS
      <4> HIDE DEF joins
      <4>2. Layout(joins, IsBM) \in {Layout(j, IsBM) : j \in BOOLEAN}
        BY <4>1, Zenon
      <4>3. Layout(joins, IsBM) \in Layouts
        BY <4>2, Zenon DEF Layouts
      <4>4. QED
        BY <4>3, Zenon DEF joins
    <3>2. QED
      BY <1>3, <3>1 DEF Install
  <2>2. QED
    BY <1>3, <2>1 DEF Install
<1>4. CASE InstallFails(m)
  BY <1>2, <1>4, FaultsBounded DEF InstallFails, Ends
<1>5. CASE Booted(m) \/ Wait(m) \/ Launch(m) \/ AwaitClusterized(m) \/ IsReady(m)
           \/ JoinFinalization(m)
  BY <1>5, BringupAssumption DEF Booted, Wait, Proceed, After, Straight, Launch, Deployed,
     AwaitClusterized, IsReady, JoinFinalization
<1>6. CASE AwaitFooled(m) \/ JoinFails(m)
  BY <1>6, FaultsBounded, BringupAssumption DEF AwaitFooled, JoinFails, Ends
<1>7. CASE Clusterize(m)
  <2>1. m \in Backend /\ state' = [state EXCEPT !.Instances = @ \cup {m}]
    BY <1>7, BringupAssumption DEF Clusterize
  <2>2. state' \in StateType /\ state'.Instances \in SUBSET Backend
    BY <1>1, <2>1, StateUpdates DEF StateType
  <2>3. cluster' \in ClusterType
    BY <1>7, <2>2, ClusterGrows DEF Clusterize
  <2>4. QED
    BY <1>7, <2>1, <2>2, <2>3, BringupAssumption DEF Clusterize
<1>8. CASE ClusterizeFails(m)
  <2>1. m \in Backend
    BY <1>8, BringupAssumption DEF ClusterizeFails
  <2>2. state' \in StateType
    BY <1>1, <1>2, <1>8, <2>1, StateUpdates DEF ClusterizeFails
  <2>3. QED
    BY <1>8, <2>1, <2>2, FaultsBounded DEF ClusterizeFails, Ends
<1>9. CASE QuietStep(m) \/ TieringDropped(m)
  BY <1>9, AfterStep, BringupAssumption DEF QuietStep, TieringDropped, Proceed
<1>10. CASE CreateCluster(m) \/ AddUser(m) \/ StartIo(m) \/ CreateFsGroup(m)
            \/ CreateConfigFs(m) \/ CreateDefaultFs(m) \/ SetObs(m)
  <2>1. cluster' \in ClusterType
    <3>1. cluster.VMs \in SUBSET Host
      BY DEF ClusterType
    <3>2. CASE CreateCluster(m)
      BY <3>1, <3>2, ClusterGrows DEF CreateCluster, ClusterDone
    <3>3. CASE CreateConfigFs(m) \/ CreateDefaultFs(m)
      <4>1. /\ {".config_fs"} \in SUBSET {".config_fs", "default"}
            /\ {"default"} \in SUBSET {".config_fs", "default"}
        OBVIOUS
      <4>2. \E F \in SUBSET {".config_fs", "default"} :
               cluster' = [cluster EXCEPT !.fs = @ \cup F]
        BY <3>3, <4>1, Zenon DEF CreateConfigFs, CreateDefaultFs, ClusterDone
      <4>3. QED
        BY <4>2, ClusterGrows
    <3>4. CASE AddUser(m) \/ StartIo(m) \/ CreateFsGroup(m) \/ SetObs(m)
      BY <3>4, ClusterUpdates, Zenon DEF AddUser, StartIo, CreateFsGroup, SetObs, ClusterDone
    <3>5. QED
      BY <1>10, <3>2, <3>3, <3>4
  <2>2. at[m] \in CreateStep /\ at' = [at EXCEPT ![m] = After(at[m])]
        /\ UNCHANGED <<deployment, active, layout, drive, state, faults>>
    BY <1>10 DEF CreateCluster, AddUser, StartIo, CreateFsGroup, CreateConfigFs,
                 CreateDefaultFs, SetObs, ClusterDone, Proceed
  <2>3. QED
    BY <2>1, <2>2, AfterStep, BringupAssumption
<1>11. CASE AddDrives(m)
  <2>1. PICK listed \in SUBSET cluster.members :
           /\ IF listed = cluster.members THEN UNCHANGED faults ELSE Fault
           /\ drive' = [k \in DOMAIN drive |-> CASE k \in listed -> "adding"
                                                [] k \in cluster.members \ listed -> "unlisted"
                                                [] OTHER -> drive[k]]
    BY <1>11 DEF AddDrives
  <2>2. faults' \in 0..MaxFaults
    BY <2>1, FaultsBounded
  <2>3. drive' \in [Host -> {"none", "unlisted", "adding", "added", "failed", "missed"}]
    BY <2>1
  <2>4. QED
    BY <1>11, <2>2, <2>3, AfterStep, BringupAssumption DEF AddDrives, Proceed
<1>12. CASE DrivesDone(m)
  BY <1>2, <1>12, FaultsBounded DEF DrivesDone, DrivesAdded, DrivesFailed
<1>13. CASE Finalize(m)
  BY <1>1, <1>13, AfterStep, StateUpdates, BringupAssumption DEF Finalize, Proceed
<1>14. CASE CreateFails(m)
  <2>1. m \in Backend /\ After(at[m]) \in CreateStep \cup {"done"}
    BY <1>14, AfterStep, BringupAssumption DEF CreateFails
  <2>2. state' \in StateType
    BY <1>1, <1>2, <1>14, <2>1, StateUpdates DEF CreateFails
  <2>3. faults' \in 0..MaxFaults
    BY <1>14, FaultsBounded DEF CreateFails
  <2>4. QED
    BY <1>14, <2>1, <2>2, <2>3 DEF CreateFails, Ends, Proceed
<1>15. CASE Scan(m)
  BY <1>15 DEF Scan
<1>16. CASE ScanFails(m)
  BY <1>2, <1>16, FaultsBounded DEF ScanFails
<1>17. CASE Connect(m)
  BY <1>17, ClusterGrows DEF Connect
<1>18. CASE \E c \in Container : ContainerUp(m, c)
  BY <1>18 DEF ContainerUp
<1>19. QED
  BY <1>3, <1>4, <1>5, <1>6, <1>7, <1>8, <1>9, <1>10, <1>11, <1>12, <1>13, <1>14,
     <1>15, <1>16, <1>17, <1>18 DEF HostStep, ScriptStep, DrivesDone

\* A set of containers as many as there are is all of them.
LEMMA AllContainers ==
    ASSUME NEW S \in SUBSET Container, Cardinality(S) = Cardinality(Container)
    PROVE  S = Container
<1>1. IsFiniteSet({"drives0"} \cup {"compute0"}) /\ IsFiniteSet({})
  BY FS_EmptySet, FS_Singleton, FS_AddElement
<1>2. IsFiniteSet(Container)
  <2>1. CASE FrontendCores > 0
    <3>1. Container = ({"drives0"} \cup {"compute0"}) \cup {"frontend0"}
      BY <2>1 DEF Container
    <3>2. QED
      BY <1>1, <3>1, FS_AddElement
  <2>2. CASE ~(FrontendCores > 0)
    <3>1. Container = {"drives0"} \cup {"compute0"}
      BY <2>2 DEF Container
    <3>2. QED
      BY <1>1, <3>1
  <2>3. QED
    BY <2>1, <2>2
<1>3. QED
  BY <1>2, FS_Subset

\* The machine that calls has not been counted before, and completes the target only if
\* no machine has before.
LEMMA Counting ==
    ASSUME Inv, NEW m \in Host, Clusterize(m)
    PROVE  /\ m \in Backend /\ m \notin state.Instances
           /\ Cardinality(state.Instances) \in Nat
           /\ Cardinality(state.Instances \cup {m}) = Cardinality(state.Instances) + 1
           /\ Cardinality(state.Instances \cup {m}) <= Target => cluster.VMs = {}
<1>1. m \in Backend /\ m \notin state.Instances
  BY BringupAssumption DEF Inv, Types, CountInv, Clusterize, Host, BeforeCount, JoinStep, Ended
<1>2. IsFiniteSet(state.Instances)
  BY BringupAssumption, FS_Subset DEF Inv, Types, StateType
<1>3. /\ Cardinality(state.Instances) \in Nat
      /\ Cardinality(state.Instances \cup {m}) = Cardinality(state.Instances) + 1
  BY <1>1, <1>2, FS_CardinalityType, FS_AddElement
<1>4. QED
  BY <1>1, <1>3, BringupAssumption DEF Inv, CountInv

\* The same for a call whose answer gets lost.
LEMMA CountingLost ==
    ASSUME Inv, NEW m \in Host, ClusterizeFails(m)
    PROVE  /\ m \in Backend /\ state'.Instances \subseteq state.Instances \cup {m}
           /\ Cardinality(state'.Instances) < Target => Cardinality(state.Instances) < Target
<1>1. m \in Backend /\ m \notin state.Instances
  BY BringupAssumption
     DEF Inv, Types, CountInv, ClusterizeFails, Host, BeforeCount, JoinStep, Ended
<1>2. IsFiniteSet(state.Instances)
  BY BringupAssumption, FS_Subset DEF Inv, Types, StateType
<1>3. /\ Cardinality(state.Instances) \in Nat
      /\ Cardinality(state.Instances \cup {m}) = Cardinality(state.Instances) + 1
  BY <1>1, <1>2, FS_CardinalityType, FS_AddElement
<1>4. state'.Instances = state.Instances \/ state'.Instances = state.Instances \cup {m}
  BY DEF Inv, Types, StateType, ClusterizeFails, Report
<1>5. CASE state'.Instances = state.Instances
  BY <1>1, <1>5
<1>6. CASE state'.Instances = state.Instances \cup {m}
  BY <1>1, <1>3, <1>6, BringupAssumption
<1>7. QED
  BY <1>4, <1>5, <1>6

\* How the steps of a backend fall into groups.
LEMMA HostStepCases ==
    ASSUME NEW m \in Host, HostStep(m)
    PROVE  \/ Install(m) \/ Booted(m) \/ Clusterize(m) \/ ClusterizeFails(m)
           \/ QuietStep(m) \/ TieringDropped(m) \/ Wait(m) \/ Launch(m)
           \/ AwaitClusterized(m) \/ AwaitFooled(m) \/ IsReady(m) \/ JoinFinalization(m)
           \/ InstallFails(m) \/ CreateFails(m) \/ ScanFails(m) \/ JoinFails(m)
           \/ CreateCluster(m) \/ AddUser(m) \/ StartIo(m) \/ CreateFsGroup(m)
           \/ CreateConfigFs(m) \/ CreateDefaultFs(m) \/ SetObs(m) \/ Finalize(m)
           \/ AddDrives(m) \/ DrivesAdded(m) \/ DrivesFailed(m) \/ Scan(m)
           \/ Connect(m) \/ \E c \in Container : ContainerUp(m, c)
BY DEF HostStep, ScriptStep, DrivesDone

\* A machine is not counted before it calls, it calls with all its containers, and the
\* create script names as many machines as were asked for, all of them counted.
LEMMA CountKept ==
    ASSUME Inv, NEW m \in Host, HostStep(m)
    PROVE  CountInv'
<1> USE DEF Inv, Types, CountInv, BeforeCount, CreateStep, JoinStep, Ended, Host,
            MoveTo, Fault, MayFail, Report, Ends, Proceed, ClusterDone, ClusterType, StateType
<1>1. CASE Install(m) \/ QuietStep(m) \/ TieringDropped(m) \/ Wait(m) \/ Launch(m)
           \/ AwaitClusterized(m) \/ AwaitFooled(m) \/ IsReady(m) \/ JoinFinalization(m)
  BY <1>1 DEF Install, QuietStep, TieringDropped, Wait, Launch, AwaitClusterized,
              AwaitFooled, IsReady, JoinFinalization, After, Tiered, Straight
<1>2. CASE Booted(m)
  <2>1. active[m] = Container
    BY <1>2, AllContainers DEF Booted
  <2>2. QED
    BY <1>2, <2>1 DEF Booted
<1>3. CASE Clusterize(m)
  <2> DEFINE all == state.Instances \cup {m}
  <2>1. /\ state' = [state EXCEPT !.Instances = all]
        /\ at' = [at EXCEPT ![m] = IF Cardinality(all) < Target THEN "done"
                                   ELSE IF Cardinality(all) = Target THEN "prepare" ELSE "await"]
        /\ cluster' = IF Cardinality(all) = Target THEN [cluster EXCEPT !.VMs = all] ELSE cluster
        /\ active' = active /\ active[m] = Container
    BY <1>3 DEF Clusterize
  <2>2. state'.Instances = all
    BY <2>1
  <2>3. /\ Cardinality(all) = Cardinality(state.Instances) + 1
        /\ Cardinality(state.Instances) \in Nat /\ Target \in Nat
        /\ Cardinality(all) <= Target => cluster.VMs = {}
        /\ m \notin cluster.VMs
    BY <1>3, Counting, BringupAssumption DEF Clusterize
  <2> HIDE DEF all
  <2>4. all = state.Instances \cup {m}
    BY DEF all
  <2>5. CASE Cardinality(all) < Target
    BY <2>1, <2>2, <2>3, <2>4, <2>5
  <2>6. CASE Cardinality(all) = Target
    BY <2>1, <2>2, <2>3, <2>4, <2>6
  <2>7. CASE Cardinality(all) > Target
    BY <2>1, <2>2, <2>3, <2>4, <2>7
  <2>8. Cardinality(all) \in Nat
    BY <2>3
  <2>9. QED
    BY <2>3, <2>5, <2>6, <2>7, <2>8
<1>4. CASE ClusterizeFails(m)
  <2>1. /\ at' = [at EXCEPT ![m] = "failed"] /\ at[m] = "clusterize"
        /\ UNCHANGED <<active, cluster>>
    BY <1>4 DEF ClusterizeFails
  <2>2. /\ state'.Instances \subseteq state.Instances \cup {m}
        /\ Cardinality(state'.Instances) < Target => Cardinality(state.Instances) < Target
    BY <1>4, CountingLost
  <2>3. QED
    BY <2>1, <2>2
<1>5. CASE InstallFails(m) \/ CreateFails(m) \/ ScanFails(m) \/ JoinFails(m)
  BY <1>5 DEF InstallFails, CreateFails, ScanFails, JoinFails, After, Tiered, Straight
<1>6. CASE CreateCluster(m) \/ AddUser(m) \/ StartIo(m) \/ CreateFsGroup(m)
           \/ CreateConfigFs(m) \/ CreateDefaultFs(m) \/ SetObs(m)
  BY <1>6 DEF CreateCluster, AddUser, StartIo, CreateFsGroup, CreateConfigFs, CreateDefaultFs,
              SetObs, After, Tiered, Straight
<1>7. CASE Finalize(m) \/ AddDrives(m) \/ DrivesAdded(m) \/ DrivesFailed(m) \/ Scan(m)
           \/ Connect(m)
  BY <1>7 DEF Finalize, AddDrives, DrivesAdded, DrivesFailed, Scan, Connect, After, Tiered,
              Straight
<1>8. CASE \E c \in Container : ContainerUp(m, c)
  BY <1>8 DEF ContainerUp
<1>9. QED
  BY <1>1, <1>2, <1>3, <1>4, <1>5, <1>6, <1>7, <1>8, HostStepCases

\* What the call does: it makes the machine the creator of a cluster there is nothing of,
\* or sends it away.
LEMMA Clusterizing ==
    ASSUME Inv, NEW m \in Host, Clusterize(m)
    PROVE  /\ at[m] = "clusterize" /\ m \in Backend
           /\ state'.Clusterized = state.Clusterized /\ state'.Errors = state.Errors
           /\ UNCHANGED <<deployment, active, layout, drive, faults>>
           /\ \/ /\ cluster.VMs = {} /\ at' = [at EXCEPT ![m] = "prepare"]
                 /\ cluster' = [cluster EXCEPT !.VMs = state'.Instances]
                 /\ state'.Instances # {}
                 /\ Cardinality(state'.Instances) = Target
              \/ /\ at' = [at EXCEPT ![m] = "done"] \/ at' = [at EXCEPT ![m] = "await"]
                 /\ UNCHANGED cluster
<1>1. state' = [state EXCEPT !.Instances = @ \cup {m}]
  BY DEF Clusterize
<1>2. /\ state'.Instances = state.Instances \cup {m}
      /\ state'.Clusterized = state.Clusterized /\ state'.Errors = state.Errors
  BY <1>1 DEF Inv, Types, StateType
<1>3. Cardinality(state'.Instances) \in Nat /\ Target \in Nat
  BY <1>2, Counting, BringupAssumption
<1>4. Cardinality(state'.Instances) = Target => cluster.VMs = {}
  BY <1>2, <1>3, Counting
<1>5. CASE Cardinality(state'.Instances) = Target
  <2>1. /\ at' = [at EXCEPT ![m] = "prepare"]
        /\ cluster' = [cluster EXCEPT !.VMs = state'.Instances]
    <3> DEFINE n == Cardinality(state'.Instances)
    <3>1. /\ at' = [at EXCEPT ![m] = IF n < Target THEN "done"
                                     ELSE IF n = Target THEN "prepare" ELSE "await"]
          /\ cluster' = IF n = Target THEN [cluster EXCEPT !.VMs = state'.Instances]
                                      ELSE cluster
      BY Zenon DEF Clusterize, MoveTo
    <3>2. n = Target /\ ~(n < Target)
      BY <1>3, <1>5
    <3> HIDE DEF n
    <3>3. QED
      BY <3>1, <3>2
  <2>2. at[m] = "clusterize" /\ UNCHANGED <<deployment, active, layout, drive, faults>>
    BY DEF Clusterize
  <2>3. m \in Backend /\ m \in state'.Instances
    BY <1>2, Counting
  <2>4. QED
    BY <1>2, <1>4, <1>5, <2>1, <2>2, <2>3
<1>6. CASE Cardinality(state'.Instances) # Target
  BY <1>2, <1>3, <1>6, Counting DEF Clusterize, MoveTo
<1>7. QED
  BY <1>5, <1>6

\* Only the machine that completes the target enters the create script, and only once.
LEMMA CreatorKept ==
    ASSUME Inv, NEW m \in Host, HostStep(m)
    PROVE  CreatorInv'
<1> USE DEF Inv, CreatorInv, CreateStep, Host, Types, BeforeCount, JoinStep, Ended,
            MoveTo, Fault, MayFail, Report, Ends, Proceed, After, Tiered, Straight,
            ClusterDone, ClusterType, StateType
<1>1. CASE InstallFails(m) \/ CreateFails(m) \/ ScanFails(m) \/ JoinFails(m)
           \/ ClusterizeFails(m)
  BY <1>1 DEF InstallFails, CreateFails, ScanFails, JoinFails, ClusterizeFails,
     EndsSilently, EndsReported, GoesOnReported
<1>2. CASE Install(m) \/ Booted(m) \/ QuietStep(m) \/ TieringDropped(m) \/ Wait(m) \/ Launch(m)
           \/ AwaitClusterized(m) \/ AwaitFooled(m) \/ IsReady(m) \/ JoinFinalization(m)
  BY <1>2 DEF Install, Booted, QuietStep, TieringDropped, Wait, Launch, AwaitClusterized,
     AwaitFooled, IsReady, JoinFinalization
<1>3. CASE CreateCluster(m) \/ AddUser(m) \/ StartIo(m) \/ CreateFsGroup(m)
           \/ CreateConfigFs(m) \/ CreateDefaultFs(m) \/ SetObs(m)
  BY <1>3 DEF CreateCluster, AddUser, StartIo, CreateFsGroup, CreateConfigFs, CreateDefaultFs,
     SetObs
<1>4. CASE Finalize(m) \/ AddDrives(m) \/ DrivesAdded(m) \/ DrivesFailed(m)
           \/ Scan(m) \/ Connect(m)
  BY <1>4 DEF Finalize, AddDrives, DrivesAdded, DrivesFailed, Scan, Connect
<1>5. CASE \E c \in Container : ContainerUp(m, c)
  BY <1>5 DEF ContainerUp
<1>6. CASE Clusterize(m)
  BY <1>6, Clusterizing, BringupAssumption
<1>7. QED
  BY <1>1, <1>2, <1>3, <1>4, <1>5, <1>6, HostStepCases

\* Every step of the create script finds what the steps before it have made.
LEMMA ScriptKept ==
    ASSUME Inv, NEW m \in Host, HostStep(m)
    PROVE  ScriptInv'
<1> USE DEF Inv, ScriptInv, CreatorInv, Types, Host, CreateStep, BeforeIo,
            AfterIo, AfterConfigFs, BeforeCount, JoinStep, Ended,
            MoveTo, Fault, MayFail, Report, Ends, Proceed, After, Tiered, Straight,
            ClusterDone, ClusterType, StateType
<1>1. CASE InstallFails(m) \/ CreateFails(m) \/ ScanFails(m) \/ JoinFails(m)
           \/ ClusterizeFails(m)
  BY <1>1 DEF InstallFails, CreateFails, ScanFails, JoinFails, ClusterizeFails,
     EndsSilently, EndsReported, GoesOnReported
<1>2. CASE Install(m) \/ Booted(m) \/ QuietStep(m) \/ TieringDropped(m) \/ Wait(m) \/ Launch(m)
           \/ AwaitClusterized(m) \/ AwaitFooled(m) \/ IsReady(m) \/ JoinFinalization(m)
  BY <1>2 DEF Install, Booted, QuietStep, TieringDropped, Wait, Launch, AwaitClusterized,
     AwaitFooled, IsReady, JoinFinalization
<1>3. CASE CreateCluster(m) \/ AddUser(m) \/ StartIo(m) \/ CreateFsGroup(m)
           \/ CreateConfigFs(m) \/ CreateDefaultFs(m) \/ SetObs(m)
  BY <1>3 DEF CreateCluster, AddUser, StartIo, CreateFsGroup, CreateConfigFs, CreateDefaultFs,
     SetObs
<1>4. CASE Finalize(m) \/ AddDrives(m) \/ DrivesAdded(m) \/ DrivesFailed(m)
           \/ Scan(m) \/ Connect(m)
  BY <1>4 DEF Finalize, AddDrives, DrivesAdded, DrivesFailed, Scan, Connect
<1>5. CASE \E c \in Container : ContainerUp(m, c)
  BY <1>5 DEF ContainerUp
<1>6. CASE Clusterize(m)
  BY <1>6, Clusterizing, BringupAssumption
<1>7. QED
  BY <1>1, <1>2, <1>3, <1>4, <1>5, <1>6, HostStepCases

\* Drives are dealt with before the script goes past its wait.
LEMMA DrivesKept ==
    ASSUME Inv, NEW m \in Host, HostStep(m)
    PROVE  DriveInv'
<1> USE DEF Inv, DriveInv, ScriptInv, CreatorInv, Types, Host, DrivesAwaited,
            BeforeIo, CreateStep, Ended, JoinStep, BeforeCount,
            MoveTo, Fault, MayFail, Report, Ends, Proceed, After, Tiered, Straight,
            ClusterDone, ClusterType, StateType
<1>1. CASE InstallFails(m) \/ CreateFails(m) \/ ScanFails(m) \/ JoinFails(m)
           \/ ClusterizeFails(m)
  BY <1>1 DEF InstallFails, CreateFails, ScanFails, JoinFails, ClusterizeFails,
     EndsSilently, EndsReported, GoesOnReported
<1>2. CASE Install(m) \/ Booted(m) \/ QuietStep(m) \/ TieringDropped(m) \/ Launch(m)
           \/ AwaitClusterized(m) \/ AwaitFooled(m) \/ IsReady(m) \/ JoinFinalization(m)
  BY <1>2 DEF Install, Booted, QuietStep, TieringDropped, Launch, AwaitClusterized,
     AwaitFooled, IsReady, JoinFinalization
<1>3. CASE CreateCluster(m) \/ AddUser(m) \/ StartIo(m) \/ CreateFsGroup(m)
           \/ CreateConfigFs(m) \/ CreateDefaultFs(m) \/ SetObs(m)
  BY <1>3 DEF CreateCluster, AddUser, StartIo, CreateFsGroup, CreateConfigFs, CreateDefaultFs,
     SetObs
<1>4. CASE Finalize(m) \/ DrivesAdded(m) \/ DrivesFailed(m) \/ Scan(m) \/ Connect(m)
  <2> USE BringupAssumption DEF AddDrivesOver
  <2>1. CASE Finalize(m) \/ Connect(m)
    BY <2>1 DEF Finalize, Connect
  <2>2. CASE DrivesAdded(m) \/ Scan(m)
    BY <2>2 DEF DrivesAdded, Scan
  <2>3. CASE DrivesFailed(m)
    BY <2>3 DEF DrivesFailed
  <2>4. QED
    BY <1>4, <2>1, <2>2, <2>3
<1>5. CASE \E c \in Container : ContainerUp(m, c)
  BY <1>5 DEF ContainerUp
<1>6. CASE Clusterize(m)
  BY <1>6, Clusterizing, BringupAssumption
<1>7. CASE Wait(m)
  <2>1. /\ at[m] = "wait" /\ at' = [at EXCEPT ![m] = "settings"]
        /\ UNCHANGED <<drive, cluster, state, faults>>
        /\ \A k \in Host : drive[k] # "adding"
    BY <1>7 DEF Wait
  <2>2. \A k \in cluster.VMs : drive[k] \in AddDrivesOver
    BY <2>1 DEF AddDrivesOver
  <2>3. QED
    BY <2>1, <2>2
<1>8. CASE AddDrives(m)
  <2>1. PICK listed \in SUBSET cluster.members :
           /\ IF listed = cluster.members THEN UNCHANGED faults ELSE Fault
           /\ drive' = [k \in DOMAIN drive |-> CASE k \in listed -> "adding"
                                                [] k \in cluster.members \ listed -> "unlisted"
                                                [] OTHER -> drive[k]]
    BY <1>8 DEF AddDrives
  <2>2. /\ at[m] = "drives" /\ at' = [at EXCEPT ![m] = "wait"]
        /\ UNCHANGED <<cluster, state>> /\ ~cluster.io
        /\ cluster.VMs \subseteq cluster.members
    BY <1>8 DEF AddDrives
  <2>3. \A k \in Host : k \notin cluster.members => drive'[k] = drive[k]
    BY <2>1
  <2>4. \A k \in cluster.members : drive'[k] \in {"adding", "unlisted"}
    BY <2>1
  <2>5. \A k \in Host : drive'[k] \in {"unlisted", "missed"} => faults' > 0
    <3>1. CASE listed = cluster.members
      BY <2>1, <3>1
    <3>2. CASE listed # cluster.members
      BY <2>1, <3>2, BringupAssumption
    <3>3. QED
      BY <3>1, <3>2
  <2>6. QED
    BY <2>2, <2>3, <2>4, <2>5
<1>9. QED
  BY <1>1, <1>2, <1>3, <1>4, <1>5, <1>6, <1>7, <1>8, HostStepCases

\* The announcement is made by the create script, past its filesystems, and stays true.
LEMMA ClusterizedKept ==
    ASSUME Inv, NEW m \in Host, HostStep(m)
    PROVE  ClusterizedComplete'
<1> USE DEF Inv, ClusterizedComplete, ScriptInv, CountInv, CreatorInv, Types, Host,
            CreateStep, AfterIo, AfterConfigFs, BeforeIo,
            MoveTo, Fault, MayFail, Report, Ends, Proceed, After, Tiered, Straight,
            ClusterDone, ClusterType, StateType
<1>1. CASE InstallFails(m) \/ CreateFails(m) \/ ScanFails(m) \/ JoinFails(m)
           \/ ClusterizeFails(m)
  BY <1>1 DEF InstallFails, CreateFails, ScanFails, JoinFails, ClusterizeFails,
     EndsSilently, EndsReported, GoesOnReported
<1>2. CASE Install(m) \/ Booted(m) \/ QuietStep(m) \/ TieringDropped(m) \/ Wait(m) \/ Launch(m)
           \/ AwaitClusterized(m) \/ AwaitFooled(m) \/ IsReady(m) \/ JoinFinalization(m)
  BY <1>2 DEF Install, Booted, QuietStep, TieringDropped, Wait, Launch, AwaitClusterized,
     AwaitFooled, IsReady, JoinFinalization
<1>3. CASE CreateCluster(m) \/ AddUser(m) \/ StartIo(m) \/ CreateFsGroup(m)
           \/ CreateConfigFs(m) \/ CreateDefaultFs(m) \/ SetObs(m)
  BY <1>3 DEF CreateCluster, AddUser, StartIo, CreateFsGroup, CreateConfigFs, CreateDefaultFs,
     SetObs
<1>4. CASE Finalize(m) \/ AddDrives(m) \/ DrivesAdded(m) \/ DrivesFailed(m)
           \/ Scan(m) \/ Connect(m)
  BY <1>4 DEF Finalize, AddDrives, DrivesAdded, DrivesFailed, Scan, Connect
<1>5. CASE \E c \in Container : ContainerUp(m, c)
  BY <1>5 DEF ContainerUp
<1>6. CASE Clusterize(m)
  BY <1>6, Clusterizing, BringupAssumption
<1>7. QED
  BY <1>1, <1>2, <1>3, <1>4, <1>5, <1>6, HostStepCases

\* A backend takes nothing from the cluster that gateways have relied on.
LEMMA GatewaysUndisturbed ==
    ASSUME Inv, NEW m \in Host, HostStep(m), UNCHANGED gwVars
    PROVE  GatewayInv' /\ NfsConfiguredComplete'
<1>1. /\ deployment' = deployment
      /\ cluster.io => cluster'.io
      /\ cluster.fs \subseteq cluster'.fs
  <2> USE DEF Inv, Types, ClusterType
  <2>1. CASE Clusterize(m)
    BY <2>1, Clusterizing
  <2>2. CASE \E c \in Container : ContainerUp(m, c)
    BY <2>2 DEF ContainerUp
  <2>3. CASE CreateCluster(m) \/ AddUser(m) \/ StartIo(m) \/ CreateFsGroup(m)
             \/ CreateConfigFs(m) \/ CreateDefaultFs(m) \/ SetObs(m) \/ Connect(m)
    BY <2>3 DEF CreateCluster, AddUser, StartIo, CreateFsGroup, CreateConfigFs,
       CreateDefaultFs, SetObs, ClusterDone, Connect
  <2>4. CASE UNCHANGED <<deployment, cluster>>
    BY <2>4
  <2>5. QED
    BY <2>1, <2>2, <2>3, <2>4, HostStepCases
       DEF Install, Booted, QuietStep, TieringDropped, Wait, Launch, AwaitClusterized,
           AwaitFooled, IsReady, JoinFinalization, InstallFails, CreateFails, ScanFails,
           JoinFails, ClusterizeFails, Ends, Finalize, AddDrives, DrivesAdded, DrivesFailed, Scan
<1>2. QED
  BY <1>1 DEF Inv, GatewayInv, NfsConfiguredComplete, Deployed, gwVars, NfsType

-----------------------------------------------------------------------------
(* Steps of gateways.                                                      *)

\* A gateway changes nothing of the backends and of the cluster, and nothing of the state
\* object but its errors.
LEMMA BackendsUndisturbed ==
    ASSUME Inv, NEW g \in Gateway, GatewayStep(g)
    PROVE  /\ Types' /\ CountInv' /\ CreatorInv' /\ ScriptInv' /\ DriveInv'
           /\ ClusterizedComplete'
           /\ UNCHANGED backendPart
<1>1. UNCHANGED backendPart /\ (UNCHANGED state \/ GwReport(g))
  BY DEF GatewayStep, backendPart, PartitionFails, GwAwaitClusterized, SetupFrontend,
     SetupTimesOut, SetupDataService, FindContainer, FindContainerFails, GwClusterize,
     GwClusterizeFails, CreateInterfaceGroup, AddPorts, AddPortsFail, GroupOK, GroupFails,
     FinalizeNfs, FinalizeNfsFails, GwLaunch, JoinPort, JoinNfsFinalization, JoinNfsTimesOut
<1>2. faults' \in 0..MaxFaults /\ (faults > 0 => faults' > 0)
  <2>1. UNCHANGED faults \/ Fault
    BY DEF GatewayStep, PartitionFails, GwAwaitClusterized, SetupFrontend,
       SetupTimesOut, SetupDataService, FindContainer, FindContainerFails, GwClusterize,
       GwClusterizeFails, CreateInterfaceGroup, AddPorts, AddPortsFail, GroupOK, GroupFails,
       FinalizeNfs, FinalizeNfsFails, GwLaunch, JoinPort, JoinNfsFinalization, JoinNfsTimesOut
  <2>2. QED
    BY <2>1, FaultsBounded, BringupAssumption DEF Inv, Types, Fault
<1>3. /\ state' \in StateType
      /\ state'.Instances = state.Instances /\ state'.Clusterized = state.Clusterized
      /\ state.Errors \subseteq state'.Errors
  BY <1>1 DEF Inv, Types, StateType, GwReport, Machine
<1>4. Types'
  BY <1>1, <1>2, <1>3 DEF Inv, Types, backendPart
<1>5. CountInv' /\ CreatorInv' /\ ScriptInv' /\ ClusterizedComplete'
  BY <1>1, <1>3 DEF Inv, CountInv, CreatorInv, ScriptInv, ClusterizedComplete, backendPart
<1>6. DriveInv'
  BY <1>1, <1>2, <1>3 DEF Inv, DriveInv, AddDrivesOver, backendPart
<1>7. QED
  BY <1>1, <1>4, <1>5, <1>6

\* No gateway gets past its wait before the announcement, and the NFS gateways are in the
\* interface group before the cloud is told that NFS is configured.
LEMMA GatewaysKept ==
    ASSUME Inv, NEW g \in Gateway, GatewayStep(g)
    PROVE  GatewayInv' /\ NfsConfiguredComplete'
<1> USE GatewayAssumption, BringupAssumption
    DEF Inv, GatewayInv, NfsConfiguredComplete, Goes, GwStep, ConfigStep, Ended, Deployed,
        backendPart, NfsType
<1>1. UNCHANGED backendPart
  BY BackendsUndisturbed
<1>2. CASE PartitionFails(g) \/ SetupTimesOut(g) \/ FindContainerFails(g)
           \/ GroupFails(g) \/ JoinNfsTimesOut(g)
  BY <1>1, <1>2 DEF PartitionFails, SetupTimesOut, FindContainerFails, GroupFails, JoinNfsTimesOut
<1>3. CASE GwAwaitClusterized(g)
  BY <1>1, <1>3 DEF GwAwaitClusterized, ClusterizedComplete
<1>4. CASE SetupFrontend(g) \/ SetupDataService(g) \/ FindContainer(g)
  BY <1>1, <1>4 DEF SetupFrontend, SetupDataService, FindContainer
<1>5. CASE GwClusterize(g) \/ GwClusterizeFails(g)
  BY <1>1, <1>5 DEF GwClusterize, GwClusterizeFails
<1>6. CASE CreateInterfaceGroup(g)
  <2>1. nfs' \in NfsType
    BY <1>6, NfsTypes, Zenon DEF CreateInterfaceGroup
  <2>2. nfs'.ports = nfs.ports /\ nfs'.counted = nfs.counted /\ nfs'.configured = nfs.configured
        /\ (nfs.exists => nfs'.exists)
    BY <1>6, <2>1 DEF CreateInterfaceGroup
  <2>3. QED
    BY <1>1, <1>6, <2>1, <2>2 DEF CreateInterfaceGroup
<1>7. CASE AddPorts(g) \/ AddPortsFail(g)
  BY <1>1, <1>7 DEF AddPorts, AddPortsFail
<1>8. CASE GroupOK(g)
  BY <1>1, <1>8 DEF GroupOK
<1>9. CASE GwLaunch(g) \/ JoinPort(g) \/ JoinNfsFinalization(g)
  BY <1>1, <1>9 DEF GwLaunch, JoinPort, JoinNfsFinalization
<1>10. CASE FinalizeNfs(g) \/ FinalizeNfsFails(g)
  <2>1. nfs' \in NfsType
    BY <1>10, NfsTypes, Zenon DEF FinalizeNfs, FinalizeNfsFails
  <2>2. nfs'.ports = nfs.ports /\ nfs'.counted = nfs.counted /\ nfs'.exists = nfs.exists
    BY <1>10, <2>1 DEF FinalizeNfs, FinalizeNfsFails
  <2>3. gat[g] = "final" /\ nfs.exists /\ Deployed(Nfs) \subseteq nfs.ports
        /\ Deployed(Nfs) \subseteq frontend
    BY <1>10 DEF FinalizeNfs, FinalizeNfsFails
  <2>4. QED
    BY <1>1, <1>10, <2>1, <2>2, <2>3 DEF FinalizeNfs, FinalizeNfsFails
<1>11. QED
  BY <1>2, <1>3, <1>4, <1>5, <1>6, <1>7, <1>8, <1>9, <1>10 DEF GatewayStep

-----------------------------------------------------------------------------
(* The theorems.                                                           *)

\* The invariant holds when the machines are started.
LEMMA InitInv == Init => Inv
<1> SUFFICES ASSUME Init PROVE Inv
  OBVIOUS
<1> USE BringupAssumption, GatewayAssumption
    DEF Init, BringupInit, Host, Step, BeforeCount, Ended, Deployed
<1>1. Types
  <2>1. cluster \in ClusterType
    BY Zenon DEF ClusterType
  <2>2. state \in StateType
    BY Zenon DEF StateType
  <2>3. layout \in [Host -> Layouts]
    BY DEF Layouts
  <2>4. QED
    BY <2>1, <2>2, <2>3 DEF Types, JoinStep, CreateStep
<1>2. CountInv
  BY DEF CountInv
<1>3. CreatorInv /\ ScriptInv /\ DriveInv
  BY DEF CreatorInv, ScriptInv, DriveInv, CreateStep, BeforeIo, AfterIo, AfterConfigFs,
         DrivesAwaited
<1>4. GatewayInv
  BY DEF GatewayInv, NfsType, GwStep, ConfigStep
<1>5. ClusterizedComplete /\ NfsConfiguredComplete
  BY DEF ClusterizedComplete, NfsConfiguredComplete
<1>6. QED
  BY <1>1, <1>2, <1>3, <1>4, <1>5 DEF Inv

\* Every step keeps it.
LEMMA NextInv == Inv /\ [Next]_allVars => Inv'
<1> SUFFICES ASSUME Inv, [Next]_allVars PROVE Inv'
  OBVIOUS
<1>1. CASE BringupNext /\ UNCHANGED gwVars
  <2>1. PICK m \in Host : HostStep(m)
    BY <1>1 DEF BringupNext, HostStep, Host
  <2>2. QED
    BY <1>1, <2>1, TypesKept, CountKept, CreatorKept, ScriptKept, DrivesKept,
       ClusterizedKept, GatewaysUndisturbed DEF Inv
<1>2. CASE \E g \in Gateway : GatewayStep(g)
  BY <1>2, BackendsUndisturbed, GatewaysKept DEF Inv
<1>3. CASE UNCHANGED allVars
  BY <1>3 DEF allVars, vars, gwVars, Inv, Types, CountInv, CreatorInv, ScriptInv, DriveInv,
              GatewayInv, ClusterizedComplete, NfsConfiguredComplete, Deployed,
              NfsType
<1>4. QED
  BY <1>1, <1>2, <1>3 DEF Next

\* However many machines come up, in whatever order and whatever fails: what the step of a
\* script says of the cluster, of the drives and of what has been counted is true.
THEOREM Invariance == Spec => []Inv
BY InitInv, NextInv, PTL DEF Spec

\* The cluster that is announced is complete.
THEOREM AnnouncedComplete == Spec => []ClusterizedComplete
<1>1. Inv => ClusterizedComplete
  BY DEF Inv
<1>2. QED
  BY <1>1, Invariance, PTL

\* NFS is called configured with all gateways of the deployment in its interface group.
THEOREM NfsComplete == Spec => []NfsConfiguredComplete
<1>1. Inv => NfsConfiguredComplete
  BY DEF Inv
<1>2. QED
  BY <1>1, Invariance, PTL

\* IO starts when add_drives is over for every machine the cluster was created from: its
\* drives are there, or an error names it, or, after a failure, it was passed over.
THEOREM IoHasDrives == Spec => []DrivesBeforeIo
<1>1. Inv => DrivesBeforeIo
  BY DEF Inv, Types, ClusterType, DriveInv, AddDrivesOver, DrivesBeforeIo, Host
<1>2. QED
  BY <1>1, Invariance, PTL

\* A gateway is set up on a cluster that has the filesystem its configuration goes to.
THEOREM GatewaysFindConfigFs == Spec => []GatewayAfterConfigFs
<1>1. Inv => GatewayAfterConfigFs
  BY DEF Inv, GatewayInv, GatewayAfterConfigFs
<1>2. QED
  BY <1>1, Invariance, PTL

\* No host gives a core or an interface to two containers, whatever its NUMA nodes.
THEOREM HostsShareNothing == Spec => []NothingShared
<1>1. Inv => NothingShared
  <2>1. SUFFICES ASSUME Inv, NEW m \in Host, layout[m] # NoLayout
                 PROVE  Unshared(layout[m], IsBM)
    BY DEF NothingShared, Host
  <2>2. PICK joins \in BOOLEAN : layout[m] = Layout(joins, IsBM)
    BY <2>1 DEF Inv, Types, Layouts
  <2>3. QED
    BY <2>2, LayoutUnshared, BringupAssumption
<1>2. QED
  BY <1>1, Invariance, PTL

\* The cluster is created from as many machines as the target, all their containers up.
THEOREM MembersAreReady == Spec => MembersReady
<1>1. ASSUME Inv, [Next]_allVars, cluster.members = {}, cluster'.members # {}
      PROVE  /\ Cardinality(cluster'.members) = Target
             /\ \A m \in cluster'.members : active[m] = Container
  <2>1. PICK m \in Host : HostStep(m)
    <3>1. cluster' # cluster
      BY <1>1
    <3>2. ~ \E g \in Gateway : GatewayStep(g)
      BY <1>1, <3>1, BackendsUndisturbed DEF backendPart
    <3>3. QED
      BY <1>1, <3>1, <3>2 DEF Next, BringupNext, HostStep, Host, allVars, vars
  <2>2. CreateCluster(m)
    <3>1. ~Clusterize(m)
      BY <1>1, Clusterizing DEF Inv, Types, ClusterType
    <3>2. ~(\E c \in Container : ContainerUp(m, c)) /\ ~Connect(m)
      BY <1>1 DEF ContainerUp, Connect
    <3>3. ~(AddUser(m) \/ StartIo(m) \/ CreateFsGroup(m) \/ CreateConfigFs(m)
              \/ CreateDefaultFs(m) \/ SetObs(m))
      BY <1>1 DEF AddUser, StartIo, CreateFsGroup, CreateConfigFs, CreateDefaultFs, SetObs,
                  ClusterDone, Inv, Types, ClusterType
    <3>4. cluster' # cluster
      BY <1>1
    <3>5. QED
      BY <2>1, <3>1, <3>2, <3>3, <3>4, HostStepCases
         DEF Install, Booted, QuietStep, TieringDropped, Wait, Launch, AwaitClusterized,
             AwaitFooled, IsReady, JoinFinalization, InstallFails, CreateFails, ScanFails,
             JoinFails, ClusterizeFails, Ends, Finalize, AddDrives, DrivesAdded, DrivesFailed, Scan
  <2>3. cluster'.members = cluster.VMs
    BY <1>1, <2>2 DEF CreateCluster, ClusterDone, Inv, Types, ClusterType
  <2>4. QED
    BY <1>1, <2>3 DEF Inv, CountInv
<1>2. Inv /\ [Next]_allVars =>
        [cluster.members = {} /\ cluster'.members # {} =>
            /\ Cardinality(cluster'.members) = Target
            /\ \A m \in cluster'.members : active[m] = Container]_cluster
  BY <1>1
<1>3. QED
  BY <1>2, Invariance, PTL DEF Spec, MembersReady

\* Types; the create script runs on one machine at a time, and on no machine that joins.
THEOREM TypeCorrect == Spec => []TypeOK
<1>1. ASSUME Inv PROVE TypeOK
  <2>1. Cardinality({m \in Backend : at[m] \in CreateStep}) <= 1
    <3> DEFINE creators == {m \in Backend : at[m] \in CreateStep}
    <3>1. CASE creators = {}
      BY <3>1, FS_EmptySet
    <3>2. CASE creators # {}
      <4>1. PICK k : creators = {k}
        BY <1>1, <3>2 DEF Inv, CreatorInv, Host
      <4>2. QED
        BY <4>1, FS_Singleton
    <3>3. QED
      BY <3>1, <3>2
  <2>2. BringupTypeOK
    BY <1>1, <2>1 DEF Inv, Types, BringupTypeOK, ClusterType, StateType, Host, Step,
                      BeforeCount, JoinStep
  <2>3. QED
    BY <1>1, <2>2, GatewayAssumption
       DEF Inv, GatewayInv, TypeOK, NfsType, GwStep, ConfigStep, Deployed
<1>2. QED
  BY <1>1, Invariance, PTL

=============================================================================
