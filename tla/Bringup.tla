-------------------------------- MODULE Bringup --------------------------------
(***************************************************************************)
(* How a Weka cluster comes up: the shell scripts that the library writes  *)
(* for backend machines, running side by side.                             *)
(*                                                                         *)
(*   deploy/deploy_backend.go   every backend of the initial deployment    *)
(*   clusterize/clusterize.go   the backend that completes the target size *)
(*   join/join.go               backends beyond that size, and backends    *)
(*                              launched once the cluster is there         *)
(*                                                                         *)
(* The scripts meet in two places: the Weka cluster, and the state object  *)
(* of protocol/status.go behind the cloud functions clusterize,            *)
(* clusterize_finalization, status and report, which are not in the        *)
(* repository.  Most of the scripts run under "set -e": a command that     *)
(* fails ends the script without a word unless the script says otherwise.  *)
(***************************************************************************)
EXTENDS HostLayout, FiniteSets

CONSTANTS
    Backend,        \* backends of the initial deployment
    Joiner,         \* backends launched into the clusterized cluster
    Gateway,        \* the machines of module Gateways
    Target,         \* ClusterizationTarget
    Deployments,    \* what may be deployed: machines and options of ClusterParams
    IsBM,           \* bare metal: interfaces are not numbered on
    MaxFaults       \* bound: commands, calls and drives that fail

Machine == Backend \cup Joiner \cup Gateway

ASSUME BringupAssumption ==
    /\ Backend \cap Joiner = {} /\ (Backend \cup Joiner) \cap Gateway = {}
    /\ IsFiniteSet(Backend) /\ Target \in Nat \ {0} /\ MaxFaults \in Nat /\ IsBM \in BOOLEAN
    /\ \A d \in Deployments : /\ d.machines \subseteq Machine
                              /\ {d.SetObs, d.SetDefaultFs} \subseteq BOOLEAN

VARIABLES
    deployment, \* the one of Deployments that is made
    at,         \* the step the script of each backend is at
    active,     \* the containers of each backend that run and are not deactivated
    layout,     \* the cores and interfaces its containers were given
    drive,      \* its drives: none, unlisted, adding, added, failed, missed
    cluster,    \* the Weka cluster; VMs: the machines its create script names
    state,      \* ClusterState: Instances, Clusterized, and the hosts that Errors names
    faults

vars == <<deployment, at, active, layout, drive, cluster, state, faults>>

Deployed(S) == S \cap deployment.machines

-----------------------------------------------------------------------------
(* The create script, step by step.                                        *)

CreateStep == {"prepare", "create", "user", "postCreation", "drives", "wait", "settings",
               "preStartIo", "startIo", "fsGroup", "configFs", "defaultFs", "finalize", "obs", "postSetup"}

\* The steps up to the filesystems follow one another whatever the options.
Straight == [prepare |-> "create", create |-> "user", user |-> "postCreation",
             postCreation |-> "drives", drives |-> "wait", wait |-> "settings",
             settings |-> "preStartIo", preStartIo |-> "startIo", startIo |-> "fsGroup",
             fsGroup |-> "configFs", postSetup |-> "done"]
Tiered == IF deployment.SetObs THEN "obs" ELSE "postSetup"

\* Mutant: the cluster is announced before its filesystems are there.
After_EarlyFinal(step) ==
    CASE step = "fsGroup" -> "finalize"
      [] step = "finalize" -> "configFs"
      [] step = "configFs" -> IF deployment.SetDefaultFs THEN "defaultFs" ELSE Tiered
      [] step = "defaultFs" -> Tiered
      [] step = "obs" -> "postSetup"
      [] OTHER -> Straight[step]

After(step) ==
    CASE step = "configFs" -> IF deployment.SetDefaultFs THEN "defaultFs" ELSE "finalize"
      [] step = "defaultFs" -> "finalize"
      [] step = "finalize" -> Tiered
      [] step = "obs" -> "postSetup"
      [] OTHER -> Straight[step]

\* What follows when a command of the step fails.  A step has several commands.
\*   prepare       fetching credentials is to be reported, but by a function that is only
\*                 defined further down: that ends the script, too
\*   user          logging in; adding the user the cloud functions and the joins work with
\*   postCreation  listing the users; the script of the deployment
\*   settings      cluster update, proxy, hot-spare; the raft size
\*   fsGroup       listing processes, drives and containers; creating the group
\*   defaultFs     the capacity, for which it waits; creating the filesystem
\*   finalize      muting alerts; the call, which may have been heard all the same
EndsSilently == {"prepare", "user", "postCreation", "settings", "startIo", "fsGroup",
                 "configFs", "defaultFs", "finalize"}
EndsReported == {"create", "settings", "defaultFs", "obs"}
GoesOnReported == {"user", "postCreation", "preStartIo", "fsGroup", "postSetup"}

-----------------------------------------------------------------------------
NoLayout == [c \in Container |-> [cores |-> {}, nics |-> {}]]
Ended == {"done", "failed"}

MayFail == faults < MaxFaults
Fault == MayFail /\ faults' = faults + 1

MoveTo(m, step) == at' = [at EXCEPT ![m] = step]
\* report of type "error": UpdateReport files it under the host it names.
Report(host) == state' = [state EXCEPT !.Errors = @ \cup {host}]

\* A script ends early, with or without a report.
Ends(m) == MoveTo(m, "failed") /\ UNCHANGED <<deployment, active, layout, drive, cluster>>

\* Install: partition, Weka, then "weka local setup container" for each container.  A
\* deployed backend waits for its containers, a joining one for the cluster.
\* Mutant: a machine that joins is deployed like the others.
Install_Deploys(m) ==
    /\ at[m] = "install"
    /\ layout' = [layout EXCEPT ![m] = Layout(FALSE, IsBM)]
    /\ MoveTo(m, "boot")
    /\ UNCHANGED <<deployment, active, drive, cluster, state, faults>>

Install(m) ==
    /\ at[m] = "install"
    /\ layout' = [layout EXCEPT ![m] = Layout(m \in Joiner, IsBM)]
    /\ MoveTo(m, IF m \in Joiner THEN "isReady" ELSE "boot")
    /\ UNCHANGED <<deployment, active, drive, cluster, state, faults>>

\* Only a failure to set up the partition is reported.
InstallFails(m) ==
    /\ at[m] \in {"install", "boot"}
    /\ Fault
    /\ \/ at[m] = "install" /\ Report(m)
       \/ UNCHANGED state
    /\ Ends(m)

ContainerUp(m, c) ==
    /\ at[m] \in {"boot", "isReady"}
    /\ c \notin active[m]
    /\ active' = [active EXCEPT ![m] = @ \cup {c}]
    /\ UNCHANGED <<deployment, at, layout, drive, cluster, state, faults>>

\* Mutant: total_containers stays two when there is a frontend.
Booted_TwoContainers(m) ==
    /\ at[m] = "boot"
    /\ Cardinality(active[m]) = 2
    /\ MoveTo(m, "clusterize")
    /\ UNCHANGED <<deployment, active, layout, drive, cluster, state, faults>>

\* "should not call 'clusterize' until all 2/3 containers are up"; then the devices.
Booted(m) ==
    /\ at[m] = "boot"
    /\ Cardinality(active[m]) = Cardinality(Container)
    /\ MoveTo(m, "clusterize")
    /\ UNCHANGED <<deployment, active, layout, drive, cluster, state, faults>>

\* The cloud function counts the machine and answers with a script: a greeting, the
\* create script, which names the machines counted so far, for the one that completes the
\* target, the join script beyond it.
Clusterize(m) ==
    /\ at[m] = "clusterize"
    /\ state' = [state EXCEPT !.Instances = @ \cup {m}]
    /\ LET n == Cardinality(state'.Instances)
       IN  /\ MoveTo(m, IF n < Target THEN "done" ELSE IF n = Target THEN "prepare" ELSE "await")
           /\ cluster' = IF n = Target THEN [cluster EXCEPT !.VMs = state'.Instances] ELSE cluster
    /\ UNCHANGED <<deployment, active, layout, drive, faults>>

\* The call does not get there; its answer gets lost; the answer is an error script.
ClusterizeFails(m) ==
    /\ at[m] = "clusterize"
    /\ Fault
    /\ \/ UNCHANGED state
       \/ state' = [state EXCEPT !.Instances = @ \cup {m}]
       \/ Report(m)
    /\ Ends(m)

-----------------------------------------------------------------------------
(* The create script runs on the machine that completed the target.        *)

Proceed(m) == MoveTo(m, After(at[m]))

\* Steps that change nothing the others see.
QuietStep(m) ==
    /\ at[m] \in {"prepare", "postCreation", "settings", "preStartIo", "postSetup"}
    /\ Proceed(m)
    /\ UNCHANGED <<deployment, active, layout, drive, cluster, state, faults>>

\* A step that leaves its mark on the cluster.
ClusterDone(m, step, c) ==
    /\ at[m] = step
    /\ cluster' = c
    /\ Proceed(m)
    /\ UNCHANGED <<deployment, active, layout, drive, state, faults>>

CreateCluster(m) == ClusterDone(m, "create", [cluster EXCEPT !.members = @ \cup cluster.VMs])
AddUser(m) == ClusterDone(m, "user", [cluster EXCEPT !.user = TRUE])
StartIo(m) == ClusterDone(m, "startIo", [cluster EXCEPT !.io = TRUE])
CreateFsGroup(m) == ClusterDone(m, "fsGroup", [cluster EXCEPT !.group = TRUE])
CreateConfigFs(m) ==
    cluster.group /\ ClusterDone(m, "configFs", [cluster EXCEPT !.fs = @ \cup {".config_fs"}])
CreateDefaultFs(m) ==
    cluster.group /\ ClusterDone(m, "defaultFs", [cluster EXCEPT !.fs = @ \cup {"default"}])
SetObs(m) == "default" \in cluster.fs /\ ClusterDone(m, "obs", [cluster EXCEPT !.obs = TRUE])

\* The tiering of the default filesystem is computed from a size that only its creation
\* sets.  Without it the arithmetic is a syntax error: the shell drops the rest of the
\* command, the report included, and goes on after it.
TieringDropped(m) ==
    /\ at[m] = "obs" /\ "default" \notin cluster.fs
    /\ Proceed(m)
    /\ UNCHANGED <<deployment, active, layout, drive, cluster, state, faults>>

\* add_drives runs in the background for every drive container that is listed.  The
\* status of the pipeline is that of its awk: when the listing fails or is cut short,
\* the script does not notice.
AddDrives(m) ==
    /\ at[m] = "drives"
    /\ \E listed \in SUBSET cluster.members :
          /\ IF listed = cluster.members THEN UNCHANGED faults ELSE Fault
          /\ drive' = [k \in DOMAIN drive |-> CASE k \in listed -> "adding"
                                               [] k \in cluster.members \ listed -> "unlisted"
                                               [] OTHER -> drive[k]]
    /\ Proceed(m)
    /\ UNCHANGED <<deployment, active, layout, cluster, state>>

DrivesAdded(k) ==
    /\ drive[k] = "adding"
    /\ drive' = [drive EXCEPT ![k] = "added"]
    /\ UNCHANGED <<deployment, at, active, layout, cluster, state, faults>>

\* ... and a failure is reported under the name of the host whose drives they are, unless
\* it is the name that could not be found out: that ends add_drives silently.
DrivesFailed(k) ==
    /\ drive[k] = "adding"
    /\ Fault
    /\ \/ drive' = [drive EXCEPT ![k] = "failed"] /\ Report(k)
       \/ drive' = [drive EXCEPT ![k] = "missed"] /\ UNCHANGED state
    /\ UNCHANGED <<deployment, at, active, layout, cluster>>

\* Mutant: the script does not wait for add_drives.
Wait_Not(m) ==
    /\ at[m] = "wait"
    /\ Proceed(m)
    /\ UNCHANGED <<deployment, active, layout, drive, cluster, state, faults>>

Wait(m) ==
    /\ at[m] = "wait"
    /\ \A k \in DOMAIN drive : drive[k] # "adding"
    /\ Proceed(m)
    /\ UNCHANGED <<deployment, active, layout, drive, cluster, state, faults>>

\* Mutant: clusterize_finalization is not called.
Finalize_Not(m) ==
    /\ at[m] = "finalize"
    /\ Proceed(m)
    /\ UNCHANGED <<deployment, active, layout, drive, cluster, state, faults>>

Finalize(m) ==
    /\ at[m] = "finalize"
    /\ state' = [state EXCEPT !.Clusterized = TRUE]
    /\ Proceed(m)
    /\ UNCHANGED <<deployment, active, layout, drive, cluster, faults>>

\* A command fails: because something breaks, or because of what a former step that
\* failed or was left out did not do.
Hopeless(step) == step \in {"configFs", "defaultFs"} /\ ~cluster.group

CreateFails(m) ==
    /\ at[m] \in CreateStep
    /\ IF Hopeless(at[m]) THEN UNCHANGED faults ELSE Fault
    /\ \/ at[m] \in EndsSilently /\ Ends(m) /\ UNCHANGED state
       \/ at[m] = "finalize" /\ Ends(m) /\ state' = [state EXCEPT !.Clusterized = TRUE]
       \/ at[m] \in EndsReported /\ Ends(m) /\ Report(m)
       \/ /\ at[m] \in GoesOnReported
          /\ Proceed(m) /\ Report(m)
          /\ UNCHANGED <<deployment, active, layout, drive, cluster>>

-----------------------------------------------------------------------------
(* Joining.                                                                *)

Launch(m) ==
    /\ m \in Deployed(Joiner) /\ at[m] = "off"
    /\ state.Clusterized
    /\ MoveTo(m, "install")
    /\ UNCHANGED <<deployment, active, layout, drive, cluster, state, faults>>

\* A backend beyond the target waits for the clusterization, then points its containers
\* to the cluster.
AwaitClusterized(m) ==
    /\ at[m] = "await"
    /\ state.Clusterized
    /\ MoveTo(m, "isReady")
    /\ UNCHANGED <<deployment, active, layout, drive, cluster, state, faults>>

\* A status call without an answer leaves $clusterized empty, "[ != true ]" is an error,
\* and an error ends the loop: the machine goes on as if the cluster were there.
AwaitFooled(m) ==
    /\ at[m] = "await"
    /\ Fault
    /\ MoveTo(m, "isReady")
    /\ UNCHANGED <<deployment, active, layout, drive, cluster, state>>

\* Its containers find the cluster.
Connect(m) ==
    /\ at[m] = "isReady" /\ active[m] = Container
    /\ cluster.members # {} /\ m \notin cluster.members
    /\ cluster' = [cluster EXCEPT !.members = @ \cup {m}]
    /\ UNCHANGED <<deployment, at, active, layout, drive, state, faults>>

IsReady(m) ==
    /\ at[m] = "isReady"
    /\ m \in cluster.members /\ cluster.io
    /\ MoveTo(m, "scan")
    /\ UNCHANGED <<deployment, active, layout, drive, cluster, state, faults>>

\* The drives are signed, and then scanned with the deployment user.
Scan(m) ==
    /\ at[m] = "scan"
    /\ cluster.user
    /\ drive' = [drive EXCEPT ![m] = "added"]
    /\ MoveTo(m, "joined")
    /\ UNCHANGED <<deployment, active, layout, cluster, state, faults>>

\* After 60 tries the machine reports, deactivates its containers as far as that works,
\* and ends.
ScanFails(m) ==
    /\ at[m] = "scan"
    /\ IF cluster.user THEN Fault ELSE UNCHANGED faults
    /\ Report(m)
    /\ \E kept \in SUBSET active[m] :
          /\ ~cluster.user => kept = active[m]
          /\ active' = [active EXCEPT ![m] = kept]
    /\ MoveTo(m, "failed")
    /\ UNCHANGED <<deployment, layout, drive, cluster>>

JoinFinalization(m) ==
    /\ at[m] = "joined"
    /\ MoveTo(m, "done")
    /\ UNCHANGED <<deployment, active, layout, drive, cluster, state, faults>>

\* Fetching, signing or finalizing fails, or a status that is no JSON: no report.
JoinFails(m) ==
    /\ at[m] \in {"await", "isReady", "scan", "joined"}
    /\ Fault
    /\ Ends(m) /\ UNCHANGED state

-----------------------------------------------------------------------------
BringupInit ==
    /\ deployment \in Deployments
    /\ at = [m \in Backend \cup Joiner |-> IF m \in Deployed(Backend) THEN "install" ELSE "off"]
    /\ active = [m \in Backend \cup Joiner |-> {}]
    /\ layout = [m \in Backend \cup Joiner |-> NoLayout]
    /\ drive = [m \in Backend \cup Joiner |-> "none"]
    /\ cluster = [VMs |-> {}, members |-> {}, user |-> FALSE, group |-> FALSE, io |-> FALSE,
                  fs |-> {}, obs |-> FALSE]
    /\ state = [Instances |-> {}, Clusterized |-> FALSE, Errors |-> {}]
    /\ faults = 0

\* The next step of the script of m.
ScriptStep(m) ==
    \/ Install(m) \/ InstallFails(m) \/ Booted(m)
    \/ Clusterize(m) \/ ClusterizeFails(m)
    \/ QuietStep(m) \/ CreateCluster(m) \/ AddUser(m) \/ AddDrives(m) \/ Wait(m)
    \/ StartIo(m) \/ CreateFsGroup(m) \/ CreateConfigFs(m) \/ CreateDefaultFs(m)
    \/ Finalize(m) \/ SetObs(m) \/ TieringDropped(m) \/ CreateFails(m)
    \/ Launch(m) \/ AwaitClusterized(m) \/ AwaitFooled(m)
    \/ IsReady(m) \/ Scan(m) \/ ScanFails(m) \/ JoinFinalization(m) \/ JoinFails(m)

DrivesDone(k) == DrivesAdded(k) \/ DrivesFailed(k)

BringupNext ==
    \E m \in Backend \cup Joiner :
        \/ ScriptStep(m) \/ DrivesDone(m) \/ Connect(m)
        \/ \E c \in Container : ContainerUp(m, c)

-----------------------------------------------------------------------------
(* Properties.                                                             *)

\* Every variable has its type; the create script runs once, and never on a machine
\* that joins.
BringupTypeOK ==
    /\ deployment \in Deployments
    /\ \A m \in Backend : at[m] \in {"off", "install", "boot", "clusterize", "await", "isReady",
                                     "scan", "joined"} \cup CreateStep \cup Ended
    /\ \A m \in Joiner : at[m] \in {"off", "install", "isReady", "scan", "joined"} \cup Ended
    /\ Cardinality({m \in Backend : at[m] \in CreateStep}) <= 1
    /\ active \in [Backend \cup Joiner -> SUBSET Container]
    /\ drive \in [Backend \cup Joiner -> {"none", "unlisted", "adding", "added", "failed", "missed"}]
    /\ cluster.members \subseteq Backend \cup Joiner
    /\ cluster.fs \subseteq {".config_fs", "default"}
    /\ state.Instances \subseteq Backend /\ state.Errors \subseteq Machine
    /\ faults \in 0..MaxFaults

\* A cluster is created from as many machines as were asked for, and all containers of
\* each of them run, whichever machine creates it and however long the others took.
MembersReady ==
    [][cluster.members = {} /\ cluster'.members # {} =>
          /\ Cardinality(cluster'.members) = Target
          /\ \A m \in cluster'.members : active[m] = Container]_cluster

\* IO is never started while drives are still being added.  By then each machine the
\* cluster was created from has its drives, or an error is filed that names it; only
\* when something failed may it lack them unsaid, because its container was not listed
\* or its name could not be found out.
DrivesBeforeIo ==
    cluster.io => \A m \in cluster.VMs :
                     \/ drive[m] = "added"
                     \/ drive[m] = "failed" /\ m \in state.Errors
                     \/ drive[m] \in {"unlisted", "missed"} /\ faults > 0

\* Once the cluster is announced it is complete: made of the machines it was created
\* from, serving IO, with the filesystems that gateways and data services configure
\* themselves with.
ClusterizedComplete ==
    state.Clusterized =>
        /\ cluster.VMs \subseteq cluster.members /\ Cardinality(cluster.VMs) = Target
        /\ cluster.io /\ ".config_fs" \in cluster.fs
        /\ deployment.SetDefaultFs => "default" \in cluster.fs

\* No two containers of a machine are given the same core or interface, and core 0 and
\* interface 0 are left alone.
NothingShared ==
    \A m \in Backend \cup Joiner :
        layout[m] # NoLayout => Unshared(layout[m], IsBM)

=============================================================================
