------------------------------ MODULE ScaleDown ------------------------------
(***************************************************************************)
(* scale_down/scale_down.go: one round looks at the Weka cluster and       *)
(* deactivates the backend machines that are surplus or broken, removes    *)
(* the ones whose deactivation is over, and answers which cloud instances  *)
(* are still needed.  The cloud terminates those that are not.             *)
(*                                                                         *)
(* A round works from lists it read one call after the other, while the    *)
(* cluster changes.  Every call may fail, may succeed without its answer   *)
(* arriving, and once no backend is reachable (lib/jrpc/pool.go) every     *)
(* call "succeeds" with an empty answer.  The round may be killed at any   *)
(* point; the next round starts from what it left.                         *)
(***************************************************************************)
EXTENDS Integers, FiniteSets, DeactivateTarget

CONSTANTS
    Machine,        \* machines, numbered in the order they join (AddedTime)
    NfsMachine,     \* the machines of the NFS host group; the others are Weka backends
    Initial,        \* the machines running at the start
    BackendContainer, \* names of the containers of a Weka backend; "drive" owns its drives
    Drive,          \* the drives of a backend
    WekaSizes, NfsSizes,  \* values WekaBackendsDesiredCapacity / NfsBackendsDesiredCapacity take
    UnhealthyTimeout, NfsTimeout, RemovalTimeout, \* how long DOWN is tolerated
    MaxDown,        \* bound: the longest DOWN period told apart
    FaultKinds,     \* what may break: "down", "drive", "lost", "pool", and "nfsList" for
                    \* the call that lists the NFS interface groups
    MaxFaults       \* bound: containers and drives that fail, instances and pools lost

ASSUME MachineAssumption ==
    /\ Machine \subseteq Nat /\ IsFiniteSet(Machine)
    /\ NfsMachine \subseteq Machine /\ Initial \subseteq Machine
    /\ "drive" \in BackendContainer /\ IsFiniteSet(BackendContainer) /\ IsFiniteSet(Drive)
    /\ WekaSizes \subseteq Nat \ {0}      \* HostGroupInfoResponse.Validate
    /\ NfsSizes \subseteq Nat
    /\ {UnhealthyTimeout, NfsTimeout, RemovalTimeout, MaxDown, MaxFaults} \subseteq Nat
    /\ MaxDown > 0

VARIABLES
    cont,       \* the containers Weka lists, per machine
    drive,      \* the drives Weka lists, per machine
    downFor,    \* how long the management node of a container has been DOWN
    ports,      \* machines with a port in the NFS interface group
    tagged,     \* NfsInterfaceGroupInstanceIps: machines that were put in that group
    alive,      \* the cloud instances
    young,      \* instances too new for the cloud to terminate
    desired,    \* desired capacity of the two host groups
    round,      \* the scale-down round in progress
    faults

cluster == <<cont, drive, downFor, ports, tagged>>
cloud == <<alive, young, desired>>
vars == <<cluster, cloud, round, faults>>

Group == {"weka", "nfs"}
GroupOf(m) == IF m \in NfsMachine THEN "nfs" ELSE "weka"
Containers(m) == IF m \in NfsMachine THEN {"frontend"} ELSE BackendContainer
ContainerName == BackendContainer \cup {"frontend"}
Host == {h \in Machine \X ContainerName : h[2] \in Containers(h[1])}

ContState == {"ABSENT", "ACTIVE", "DEACTIVATING", "INACTIVE", "REMOVING"}
ContStatus == {"UP", "DOWN", "INACTIVE"}
\* A drive: ShouldBeActive and its Status together.
\*   active (true, ACTIVE)   failed (true, INACTIVE)   removing (false, not yet INACTIVE)
\*   removed (false, INACTIVE)   orphan (INACTIVE, its host is gone)   none (not listed)
DriveState == {"none", "active", "failed", "removing", "removed", "orphan"}

-----------------------------------------------------------------------------
(* What a round derives from its view v of the cluster.                    *)

Listed(v) == {h \in Host : v.cont[h].State # "ABSENT"}
HostsOf(v, m) == {h \in Listed(v) : h[1] = m}
MachinesOf(H) == {h[1] : h \in H}

DrivesOf(v, h) ==
    IF h[2] = "drive" THEN {d \in Drive : v.drive[h[1]][d] \notin {"none", "orphan"}} ELSE {}
ShouldBeActive(v, h) == {d \in DrivesOf(v, h) : v.drive[h[1]][d] \in {"active", "failed"}}

\* A drive counts as failed once its grace of five minutes after it was added is over.
numNotHealthyDrives(v, h) ==
    Cardinality({d \in DrivesOf(v, h) : v.drive[h[1]][d] \in {"failed", "removed"}})
allDisksBeingRemoved(v, h) == DrivesOf(v, h) # {} /\ ShouldBeActive(v, h) = {}
anyDiskBeingRemoved(v, h) == ShouldBeActive(v, h) # DrivesOf(v, h)

managementTimedOut(v, h, timeout) == v.downFor[h] > timeout

\* The order of the states is the order of removal.
DEACTIVATING == 0
UNHEALTHY == 1
HEALTHY == 2

deriveHostState(v, h) ==
    IF h[2] = "drive" /\ allDisksBeingRemoved(v, h) THEN DEACTIVATING
    ELSE IF v.cont[h].State \in {"DEACTIVATING", "REMOVING", "INACTIVE"} THEN DEACTIVATING
    ELSE IF v.cont[h].Status = "DOWN" /\ managementTimedOut(v, h, UnhealthyTimeout) THEN UNHEALTHY
    ELSE IF numNotHealthyDrives(v, h) > 0 \/ anyDiskBeingRemoved(v, h) THEN UNHEALTHY
    ELSE HEALTHY

MachineStates(v, L, m) == {deriveHostState(v, h) : h \in {x \in L : x[1] = m}}
UnhealthyMachines(v, L) == {m \in MachinesOf(L) : UNHEALTHY \in MachineStates(v, L, m)}
DeactivatingMachines(v, L) ==
    {m \in MachinesOf(L) \ UnhealthyMachines(v, L) : DEACTIVATING \in MachineStates(v, L, m)}
HealthyMachines(v, L) == MachinesOf(L) \ (UnhealthyMachines(v, L) \cup DeactivatingMachines(v, L))

getNumToDeactivate(v, L, target) ==
    CalculateDeactivateTarget(Cardinality(HealthyMachines(v, L)),
                              Cardinality(UnhealthyMachines(v, L)),
                              Cardinality(DeactivatingMachines(v, L)), target)

\* The comparison sort.Slice is given.
HostBefore(v, a, b) ==
    LET sa == deriveHostState(v, a)      sb == deriveHostState(v, b)
        na == numNotHealthyDrives(v, a)  nb == numNotHealthyDrives(v, b)
    IN  \/ sa < sb
        \/ sa = sb /\ na > nb
        \/ sa = sb /\ na = nb /\ a[1] < b[1]

\* Machine a comes before machine b in the sorted list: its first host does.
MachineBefore(v, L, a, b) ==
    \E h \in L : /\ h[1] = a
                 /\ \A k \in L : k[1] = b => HostBefore(v, h, k)

\* S is machinesIps[:n].
FirstMachines(v, L, n, S) ==
    /\ Cardinality(S) = n
    /\ \A a \in S, b \in MachinesOf(L) \ S : MachineBefore(v, L, a, b)

\* Mutant: one container taken for all of them.
allContainersInactive_Any(v, m) == \E h \in HostsOf(v, m) : v.cont[h].State = "INACTIVE"

allContainersInactive(v, m) == \A h \in HostsOf(v, m) : v.cont[h].State = "INACTIVE"
allContainersDownOrInactive(v, m) ==
    \A h \in HostsOf(v, m) : v.cont[h].Status = "DOWN" \/ v.cont[h].State = "INACTIVE"

\* Machines of the hosts H whose deactivation is over; the rest of H is hostsList.
InactiveMachines(v, H) == {m \in MachinesOf(H) : allContainersInactive(v, m)}
HostsList(v, H) == {h \in H : h[1] \notin InactiveMachines(v, H)}

\* The same machine has one address in Weka and in the cloud.
belongsToHgIpBased(h, instances) == h[1] \in instances

getHostGroupHosts(v, instances) == {h \in Listed(v) : belongsToHgIpBased(h, instances)}
getLeftoverHosts(v, instances) == {h \in Listed(v) : ~belongsToHgIpBased(h, instances)}
getNfsHosts(H, map) == {h \in H : h[1] \in map}

-----------------------------------------------------------------------------
(* A round.  pc names the step it is about to take:                        *)
(*   hosts, drives, plan           reading the cluster                     *)
(*   weka, nfsLeft, nfs, left      working through `remove`, then `deact`  *)
(*   done                          the response is handed over             *)

Working == {"weka", "nfsLeft", "nfs", "left"}

NoView == [cont |-> [h \in Host |-> [State |-> "ABSENT", Status |-> "INACTIVE"]],
           drive |-> [m \in Machine |-> [d \in Drive |-> "none"]],
           downFor |-> [h \in Host |-> 0]]

NoRound ==
    [pc |-> "idle", live |-> TRUE, view |-> NoView, ports |-> {},
     inst |-> [g \in Group |-> {}], target |-> [g \in Group |-> 0], old |-> {}, tagged |-> {},
     remove |-> {}, deact |-> {}, leftNfs |-> {},
     hosts |-> {}, toTerminate |-> {},
     clean |-> TRUE]        \* history: no call of the round has failed so far

MayFail(kind) == kind \in FaultKinds /\ faults < MaxFaults

CloudInstances == round.inst["weka"] \cup round.inst["nfs"]

\* The fetch function of the cloud gathers what ScaleDown is called with.
Fetch ==
    /\ round.pc = "idle"
    /\ round' = [NoRound EXCEPT !.pc = "hosts",
                                !.inst = [g \in Group |-> {m \in alive : GroupOf(m) = g}],
                                !.target = desired,
                                !.old = alive \ young,
                                !.tagged = tagged]
    /\ UNCHANGED <<cluster, cloud, faults>>

\* isMBC: some container is called "drive".
isMBC(v) == \E h \in Listed(v) : h[2] = "drive"

\* The status allows scaling (isAllowedToScale), no manual override forbids it, and
\* the hosts are listed; if not, or if a call fails, the round returns an error:
\* AbortRound.  An empty pool answers with a status that does not allow scaling.
ListHosts ==
    /\ round.pc = "hosts"
    /\ LET v == [round.view EXCEPT !.cont = cont]
       IN  round' = IF round.live /\ isMBC(v) THEN [round EXCEPT !.pc = "drives", !.view = v]
                                              ELSE NoRound
    /\ UNCHANGED <<cluster, cloud, faults>>

\* Drives and nodes, the answers of two calls that fit together; from an empty pool both
\* lists come back empty.
ListDrives ==
    /\ round.pc = "drives"
    /\ round' = [round EXCEPT !.pc = "plan",
                              !.view.drive = IF round.live THEN drive ELSE @,
                              !.view.downFor = IF round.live THEN downFor ELSE @]
    /\ UNCHANGED <<cluster, cloud, faults>>

\* Mutant: drives without a host are not found.
OldDrives_None(v) == {}

OldDrives(v) == {x \in Machine \X Drive : v.drive[x[1]][x[2]] = "orphan"}

\* ScaleHgDown up to its calls: hosts H of one group, S the machines to deactivate.
ScaleHgDown(r, stage, H, target, S) ==
    LET L == HostsList(r.view, H)
    IN  /\ S \in SUBSET MachinesOf(L)
        /\ FirstMachines(r.view, L, getNumToDeactivate(r.view, L, target), S)
        /\ round' = [r EXCEPT !.pc = stage,
                              !.remove = InactiveMachines(r.view, H),
                              !.deact = S,
                              !.hosts = @ \cup MachinesOf(L)]

\* removeOldDrives (`gone` of the calls reach Weka), then the group of Weka backends.
PlanWeka(gone) ==
    /\ round.pc = "plan"
    /\ ~round.live => gone = {}
    /\ drive' = [m \in Machine |-> [d \in Drive |->
                    IF <<m, d>> \in gone /\ drive[m][d] = "orphan" THEN "none" ELSE drive[m][d]]]
    /\ LET H == getHostGroupHosts(round.view, round.inst["weka"])
           r == [round EXCEPT !.clean = @ /\ gone = OldDrives(round.view)]
       IN  \E S \in SUBSET Machine : ScaleHgDown(r, "weka", H, round.target["weka"], S)
    /\ UNCHANGED <<cont, downFor, ports, tagged, cloud, faults>>

\* Mutant: waits for the wrong status.
ReadyForRemove_Down(m) == {h \in HostsOf(round.view, m) : round.view.cont[h].Status = "DOWN"}

ReadyForRemove(m) == {h \in HostsOf(round.view, m) : round.view.cont[h].Status = "INACTIVE"}

\* Mutant: machines that are no cloud instance are handed over for termination too.
RemoveInactive_Unselected(m, exec, ok, gone) ==
    /\ round.pc \in Working /\ m \in round.remove /\ round.live /\ ok \subseteq exec
    /\ cont' = [h \in Host |-> IF h \in exec /\ cont[h].State = "INACTIVE"
                               THEN [cont[h] EXCEPT !.State = "REMOVING"] ELSE cont[h]]
    /\ round' = [round EXCEPT !.remove = @ \ {m}, !.clean = FALSE,
                              !.toTerminate = IF ok # {} THEN @ \cup {m} ELSE @]
    /\ UNCHANGED <<drive, downFor, ports, tagged, cloud, faults>>

\* removeInactive for machine m: `exec` of its calls to remove a container reach Weka,
\* the round sees `ok` of them succeed, `gone` of its drives are removed.
RemoveInactive(m, exec, ok, gone) ==
    /\ round.pc \in Working
    /\ m \in round.remove
    /\ IF round.live THEN ok \subseteq exec
                     ELSE exec = {} /\ ok = ReadyForRemove(m) /\ gone = {}
    /\ gone \subseteq UNION {DrivesOf(round.view, h) : h \in ok}
    /\ cont' = [h \in Host |-> IF h \in exec /\ cont[h].State = "INACTIVE"
                               THEN [cont[h] EXCEPT !.State = "REMOVING"] ELSE cont[h]]
    /\ drive' = [drive EXCEPT ![m] = [d \in Drive |->
                    IF d \in gone /\ @[d] \in {"failed", "removed", "orphan"} THEN "none" ELSE @[d]]]
    /\ round' = [round EXCEPT !.remove = @ \ {m},
                              !.clean = @ /\ ok = ReadyForRemove(m)
                                          /\ gone = UNION {DrivesOf(round.view, h) : h \in ok},
                              !.toTerminate = IF ok # {} THEN @ \cup ({m} \cap CloudInstances) ELSE @]
    /\ UNCHANGED <<downFor, ports, tagged, cloud, faults>>

\* deactivateMachine: its drives one by one, its NFS port, then its containers in one
\* call.  Each call may fail (`off`, port, host: those that reach Weka); the next one is
\* made all the same.
DrivesToDeactivate(m) == UNION {ShouldBeActive(round.view, h) : h \in HostsOf(round.view, m)}

DeactivateMachine(m, off, port, host) ==
    /\ round.pc \in Working
    /\ round.remove = {}
    /\ m \in round.deact
    /\ ~round.live => off = {} /\ ~port /\ ~host
    /\ port => m \in round.ports
    /\ drive' = [drive EXCEPT ![m] = [d \in Drive |->
                    IF d \notin off THEN @[d]
                    ELSE IF @[d] = "active" THEN "removing"
                    ELSE IF @[d] = "failed" THEN "removed" ELSE @[d]]]
    /\ ports' = IF port THEN ports \ {m} ELSE ports
    /\ cont' = [h \in Host |->
                    IF host /\ h \in HostsOf(round.view, m) /\ cont[h].State = "ACTIVE"
                    THEN [cont[h] EXCEPT !.State = "DEACTIVATING"] ELSE cont[h]]
    /\ round' = [round EXCEPT !.deact = @ \ {m},
                              !.clean = @ /\ off = DrivesToDeactivate(m) /\ host
                                          /\ port = (m \in round.ports)]
    /\ UNCHANGED <<downFor, tagged, cloud, faults>>

StageDone(pc) == round.pc = pc /\ round.remove = {} /\ round.deact = {}

\* The machines with a port in an NFS interface group; none from an empty pool.
GetNfsHostsMap == IF round.live THEN ports ELSE {}

\* The NFS machines that are not in the interface group.
NfsLeftovers ==
    /\ StageDone("weka")
    /\ LET map == GetNfsHostsMap
           left == MachinesOf(getHostGroupHosts(round.view, round.inst["nfs"])) \ map
       IN  round' = [round EXCEPT !.pc = "nfsLeft", !.ports = map, !.leftNfs = left,
                        !.deact = {m \in left :
                            \/ m \in round.tagged
                            \/ \E h \in HostsOf(round.view, m) :
                                  managementTimedOut(round.view, h, NfsTimeout)}]
    /\ UNCHANGED <<cluster, cloud, faults>>

ScaleNfs ==
    /\ StageDone("nfsLeft")
    /\ LET H == getNfsHosts(getHostGroupHosts(round.view, round.inst["nfs"]), round.ports)
       IN  \E S \in SUBSET Machine : ScaleHgDown(round, "nfs", H, round.target["nfs"], S)
    /\ UNCHANGED <<cluster, cloud, faults>>

\* handleLeftOverHosts up to its calls.  The order in which it walks its map makes no
\* difference: a machine of leftNfs has a single container.
HandleLeftOverHosts ==
    /\ \/ StageDone("nfs")
       \* GetNfsHostsMap failed: no NFS group this time.
       \/ StageDone("weka") /\ round.live /\ "nfsList" \in FaultKinds
    /\ LET v == round.view
           H == getLeftoverHosts(v, CloudInstances) \cup getHostGroupHosts(v, round.leftNfs)
           inactive == InactiveMachines(v, H)
           Down(h) == v.cont[h].State # "INACTIVE" /\ v.cont[h].Status = "DOWN"
           Expired(h) == Down(h) /\ managementTimedOut(v, h, RemovalTimeout)
       IN  round' = [round EXCEPT
                        !.pc = "left",
                        !.clean = @ /\ round.pc = "nfs",
                        !.remove = inactive,
                        !.deact = {m \in MachinesOf({h \in H : Expired(h)}) :
                                      allContainersDownOrInactive(v, m)},
                        !.hosts = @ \cup MachinesOf({h \in H : /\ v.cont[h].State # "INACTIVE"
                                                               /\ ~Expired(h)})]
    /\ UNCHANGED <<cluster, cloud, faults>>

\* What the cloud will take the response to mean.
Targets == {m \in CloudInstances : m \notin round.hosts \/ m \in round.toTerminate}

InUse(m) == \E c \in Containers(m) : cont[<<m, c>>].State \in {"ACTIVE", "DEACTIVATING"}

\* Mutant: only the instances of ToTerminate are looked at.
ValidateDelta_Listed ==
    /\ StageDone("left")
    /\ round' = IF \E m \in round.toTerminate : InUse(m) THEN NoRound ELSE [round EXCEPT !.pc = "done"]
    /\ UNCHANGED <<cluster, cloud, faults>>

\* validateDelta: the round is over if no target is in use by then; if one is,
\* logger.Fatal ends the process ...
ValidateDelta ==
    /\ StageDone("left")
    /\ round' = IF \E m \in Targets : InUse(m) THEN NoRound ELSE [round EXCEPT !.pc = "done"]
    /\ UNCHANGED <<cluster, cloud, faults>>

\* ... but not if the list of hosts cannot be had, or is that of an empty pool.
ValidationSkipped ==
    /\ StageDone("left")
    /\ round' = [round EXCEPT !.pc = "done", !.clean = FALSE]
    /\ UNCHANGED <<cluster, cloud, faults>>

\* An error returned, a Fatal, a kill: no response.
AbortRound ==
    /\ round.pc # "idle"
    /\ round' = NoRound
    /\ UNCHANGED <<cluster, cloud, faults>>

\* The last reachable backend is dropped from the pool.
PoolExhausted ==
    /\ round.pc # "idle" /\ round.live
    /\ MayFail("pool")
    /\ round' = [round EXCEPT !.live = FALSE, !.clean = FALSE]
    /\ faults' = faults + 1
    /\ UNCHANGED <<cluster, cloud>>

\* The terminate function of the cloud; it spares instances that were young.
Terminate ==
    /\ round.pc = "done"
    /\ LET gone == Targets \cap round.old
           hit(h) == h[1] \in gone /\ cont[h].State \in {"ACTIVE", "DEACTIVATING"}
       IN  /\ alive' = alive \ gone
           /\ downFor' = [h \in Host |-> IF hit(h) /\ downFor[h] = 0 THEN 1 ELSE downFor[h]]
           /\ cont' = [h \in Host |-> IF hit(h) THEN [cont[h] EXCEPT !.Status = "DOWN"]
                                                ELSE cont[h]]
    /\ round' = NoRound
    /\ UNCHANGED <<drive, ports, tagged, young, desired, faults>>

-----------------------------------------------------------------------------
(* The Weka cluster and the cloud around the rounds.                       *)

SetCont(h, c) == cont' = [cont EXCEPT ![h] = c]

SetDesired(g, n) ==
    /\ n # desired[g]
    /\ desired' = [desired EXCEPT ![g] = n]
    /\ UNCHANGED <<cluster, alive, young, round, faults>>

Fresh(m) ==
    /\ m \notin alive /\ m \notin ports
    /\ \A c \in Containers(m) : cont[<<m, c>>].State = "ABSENT"
    /\ \A d \in Drive : drive[m][d] = "none"

\* A new instance is none the round in progress knows: an instance id is used once.
Boot(m) ==
    /\ m \notin CloudInstances
    /\ \A k \in Machine : GroupOf(k) = GroupOf(m) /\ k >= m => Fresh(k)
    /\ Cardinality({k \in alive : GroupOf(k) = GroupOf(m)}) < desired[GroupOf(m)]
    /\ alive' = alive \cup {m}
    /\ young' = young \cup {m}
    /\ tagged' = tagged \ {m}
    /\ UNCHANGED <<cont, drive, downFor, ports, desired, round, faults>>

\* A container of a young instance joins Weka, the drive container with its drives.
\* It is none the round in progress has seen: a host id is used once.
Join(m, c) ==
    /\ m \in young
    /\ cont[<<m, c>>].State = "ABSENT" /\ round.view.cont[<<m, c>>].State = "ABSENT"
    /\ SetCont(<<m, c>>, [State |-> "ACTIVE", Status |-> "UP"])
    /\ drive' = IF c = "drive" THEN [drive EXCEPT ![m] = [d \in Drive |-> "active"]] ELSE drive
    /\ UNCHANGED <<downFor, ports, tagged, cloud, round, faults>>

\* The grace period outlasts joining, and an instance young when a round began is
\* spared by that round.
Age(m) ==
    /\ m \in young
    /\ \A c \in Containers(m) : cont[<<m, c>>].State # "ABSENT"
    /\ young' = young \ {m}
    /\ UNCHANGED <<cluster, alive, desired, round, faults>>

AddPort(m) ==
    /\ m \in NfsMachine \cap alive
    /\ m \notin ports /\ m \notin tagged
    /\ cont[<<m, "frontend">>] = [State |-> "ACTIVE", Status |-> "UP"]
    /\ ports' = ports \cup {m}
    /\ tagged' = tagged \cup {m}
    /\ UNCHANGED <<cont, drive, downFor, cloud, round, faults>>

\* A container goes down.  A node that was never fenced counts from the last change
\* of the state of its host, however long ago that was.
GoDown(h) ==
    /\ MayFail("down")
    /\ cont[h].State \in {"ACTIVE", "DEACTIVATING"} /\ cont[h].Status = "UP"
    /\ SetCont(h, [cont[h] EXCEPT !.Status = "DOWN"])
    /\ \E t \in {1, MaxDown} : downFor' = [downFor EXCEPT ![h] = t]
    /\ faults' = faults + 1
    /\ UNCHANGED <<drive, ports, tagged, cloud, round>>

StaysDown(h) ==
    /\ cont[h].Status = "DOWN" /\ downFor[h] < MaxDown
    /\ downFor' = [downFor EXCEPT ![h] = @ + 1]
    /\ UNCHANGED <<cont, drive, ports, tagged, cloud, round, faults>>

ComeBack(h) ==
    /\ cont[h].Status = "DOWN" /\ h[1] \in alive
    /\ SetCont(h, [cont[h] EXCEPT !.Status = "UP"])
    /\ downFor' = [downFor EXCEPT ![h] = 0]
    /\ UNCHANGED <<drive, ports, tagged, cloud, round, faults>>

DriveFails(m, d) ==
    /\ MayFail("drive")
    /\ drive[m][d] = "active"
    /\ drive' = [drive EXCEPT ![m][d] = "failed"]
    /\ faults' = faults + 1
    /\ UNCHANGED <<cont, downFor, ports, tagged, cloud, round>>

InService(m) ==
    /\ m \in alive
    /\ \A c \in Containers(m) : cont[<<m, c>>] = [State |-> "ACTIVE", Status |-> "UP"]
    /\ m \notin NfsMachine => \A d \in Drive : drive[m][d] = "active"
ServingBackends == {m \in Machine \ NfsMachine : InService(m)}

\* The cloud loses an instance that is in use; a backend is left to serve Weka.
InstanceLost(m) ==
    /\ MayFail("lost")
    /\ m \in alive \ young
    /\ ServingBackends \ {m} # {}
    /\ alive' = alive \ {m}
    /\ cont' = [h \in Host |-> IF h[1] = m /\ cont[h].Status = "UP"
                               THEN [cont[h] EXCEPT !.Status = "DOWN"] ELSE cont[h]]
    /\ downFor' = [h \in Host |-> IF h[1] = m /\ cont[h].Status = "UP" THEN 1 ELSE downFor[h]]
    /\ faults' = faults + 1
    /\ UNCHANGED <<drive, ports, tagged, young, desired, round>>

\* Weka empties a drive, stops a container whose drives are empty, and forgets one
\* that was removed; drives nobody removed stay behind without a host.
DriveEmptied(m, d) ==
    /\ drive[m][d] = "removing"
    /\ drive' = [drive EXCEPT ![m][d] = "removed"]
    /\ UNCHANGED <<cont, downFor, ports, tagged, cloud, round, faults>>

Deactivated(h) ==
    /\ cont[h].State = "DEACTIVATING"
    /\ h[2] = "drive" => \A d \in Drive : drive[h[1]][d] \in {"none", "removed"}
    /\ SetCont(h, [cont[h] EXCEPT !.State = "INACTIVE"])
    /\ UNCHANGED <<drive, downFor, ports, tagged, cloud, round, faults>>

Stopped(h) ==
    /\ cont[h].State = "INACTIVE" /\ cont[h].Status # "INACTIVE"
    /\ SetCont(h, [State |-> "INACTIVE", Status |-> "INACTIVE"])
    /\ downFor' = [downFor EXCEPT ![h] = 0]
    /\ UNCHANGED <<drive, ports, tagged, cloud, round, faults>>

Forgotten(h) ==
    /\ cont[h].State = "REMOVING"
    /\ SetCont(h, [State |-> "ABSENT", Status |-> "INACTIVE"])
    /\ drive' = IF h[2] = "drive"
                THEN [drive EXCEPT ![h[1]] = [d \in Drive |-> IF @[d] = "none" THEN "none" ELSE "orphan"]]
                ELSE drive
    /\ UNCHANGED <<downFor, ports, tagged, cloud, round, faults>>

-----------------------------------------------------------------------------
Init ==
    /\ cont = [h \in Host |-> IF h[1] \in Initial THEN [State |-> "ACTIVE", Status |-> "UP"]
                                                  ELSE [State |-> "ABSENT", Status |-> "INACTIVE"]]
    /\ drive = [m \in Machine |-> [d \in Drive |->
                    IF m \in Initial \ NfsMachine THEN "active" ELSE "none"]]
    /\ downFor = [h \in Host |-> 0]
    /\ ports = {} /\ tagged = {}
    /\ alive = Initial /\ young = {}
    /\ desired \in {[weka |-> w, nfs |-> n] : w \in WekaSizes, n \in NfsSizes}
    /\ round = NoRound
    /\ faults = 0

RoundStep ==
    \/ Fetch \/ ListHosts \/ ListDrives
    \/ \E gone \in SUBSET OldDrives(round.view) : PlanWeka(gone)
    \* exec and ok are bound apart: TLC finds no values for "a, b \in SUBSET {}".
    \/ \E m \in round.remove :
        \E exec \in SUBSET ReadyForRemove(m), ok \in SUBSET ReadyForRemove(m), gone \in SUBSET Drive :
           RemoveInactive(m, exec, ok, gone)
    \/ \E m \in round.deact : \E off \in SUBSET DrivesToDeactivate(m), port, host \in BOOLEAN :
           DeactivateMachine(m, off, port, host)
    \/ NfsLeftovers \/ ScaleNfs \/ HandleLeftOverHosts
    \/ ValidateDelta \/ ValidationSkipped \/ AbortRound \/ PoolExhausted
    \/ Terminate

ClusterStep ==
    \/ \E m \in Machine :
        \/ Boot(m) \/ Age(m) \/ AddPort(m) \/ InstanceLost(m)
        \/ \E c \in Containers(m) : Join(m, c)
        \/ \E d \in Drive : DriveFails(m, d) \/ DriveEmptied(m, d)
    \/ \E h \in Host : \/ GoDown(h) \/ StaysDown(h) \/ ComeBack(h)
                       \/ Deactivated(h) \/ Stopped(h) \/ Forgotten(h)
    \/ \E n \in WekaSizes : SetDesired("weka", n)
    \/ \E n \in NfsSizes : SetDesired("nfs", n)

Next == RoundStep \/ ClusterStep

Spec == Init /\ [][Next]_vars

\* A round none of whose calls failed comes to its own end, whatever that is.
UndisturbedEnd ==
    /\ round.clean
    /\ ListHosts \/ ValidateDelta \/ Terminate
    /\ round' = NoRound

\* Rounds are run again and again, infinitely many of them undisturbed, and Weka
\* finishes what it is told to do.  A new instance joins and grows old, a gateway gets
\* its port.
Fairness ==
    /\ []<><<UndisturbedEnd>>_vars
    /\ \A m \in Machine, d \in Drive : WF_vars(DriveEmptied(m, d))
    /\ \A h \in Host : WF_vars(Deactivated(h)) /\ WF_vars(Stopped(h)) /\ WF_vars(Forgotten(h))
                       /\ WF_vars(StaysDown(h))
    /\ \A m \in Machine : /\ SF_vars(Age(m)) /\ WF_vars(AddPort(m))
                          /\ \A c \in Containers(m) : WF_vars(Join(m, c))

FairSpec == Spec /\ Fairness

-----------------------------------------------------------------------------
(* Properties.                                                             *)

\* Every variable has its type.
TypeOK ==
    /\ cont \in [Host -> [State : ContState, Status : ContStatus]]
    /\ drive \in [Machine -> [Drive -> DriveState]]
    /\ downFor \in [Host -> 0..MaxDown]
    /\ ports \subseteq NfsMachine /\ tagged \subseteq NfsMachine
    /\ alive \subseteq Machine /\ young \subseteq alive
    /\ desired["weka"] \in WekaSizes /\ desired["nfs"] \in NfsSizes
    /\ round.pc \in {"idle", "hosts", "drives", "plan", "done"} \cup Working
    /\ round.remove \cup round.deact \cup round.hosts \subseteq Machine
    /\ round.toTerminate \subseteq CloudInstances
    /\ faults \in 0..MaxFaults

\* A response that reaches the cloud gives up no instance whose containers Weka still
\* uses ("Aborting scale down. Instance with IP that exists in system and belongs to
\* non-inactive container ... was targeted for termination"): no backend, whatever went
\* wrong in the round, the last check included, and no gateway unless a call failed.
ResponseSparesUsed ==
    round.pc = "done" => \A m \in Targets \cap round.old :
                            InUse(m) => m \in NfsMachine /\ ~round.clean

\* A backend whose containers and drives, as far as they have joined, are all in order;
\* a drive that was left behind by an earlier container is none of its drives.
Sound(m) ==
    LET joined == {h \in Host : h[1] = m /\ cont[h].State # "ABSENT"}
    IN  /\ m \in alive \ NfsMachine /\ joined # {}
        /\ \A h \in joined : cont[h] = [State |-> "ACTIVE", Status |-> "UP"]
        /\ \A d \in Drive : drive[m][d] \in {"none", "orphan", "active"}

\* As long as nothing breaks by itself, no sequence of interrupted rounds and lost
\* calls takes a serving backend out of service unless more than the target are
\* sound; a backend that has joined only in part counts as one of them.
ServingSpared ==
    [][faults' = 0 =>
         \A m \in ServingBackends : m \notin ServingBackends'
           => Cardinality({k \in Machine : Sound(k)}) > round.target["weka"]]_vars

Leaving == {"removing", "removed"}

\* Weka uses all of the machine: every container of it, and no drive is on its way out.
Whole(m) ==
    /\ \A c \in Containers(m) : cont[<<m, c>>].State = "ACTIVE"
    /\ \A d \in Drive : drive[m][d] \notin Leaving

\* The machine is taken out as a whole: a container that is still active is the drive
\* container, and all its drives are on their way out.
TakenOut(m) ==
    LET listed == {d \in Drive : drive[m][d] \notin {"none", "orphan"}}
    IN  /\ InUse(m)
        /\ \A c \in Containers(m) : cont[<<m, c>>].State = "ACTIVE" =>
              /\ c = "drive" /\ listed # {}
              /\ \A d \in listed : drive[m][d] \in Leaving

\* "Never more then 2 for U": a backend that is whole is not started on if that makes
\* more than two that are taken out, or more than the surplus if that is larger, however
\* many rounds were cut short or did not get their calls through.  A backend that was
\* deactivated in part only counts as unhealthy in the code and is not counted here.
StartsBounded ==
    [][\A m \in round.inst["weka"] : Whole(m) /\ ~Whole(m)' =>
          Cardinality({k \in round.inst["weka"] : TakenOut(k)'} \cup {m})
              <= Larger(2, Cardinality(round.inst["weka"]) - round.target["weka"])]_vars

\* Whatever Weka has deactivated is cleared away in the end, containers and drives,
\* even if the machine was terminated before its containers were removed.
EventuallyCleared ==
    \A h \in Host : cont[h].State = "INACTIVE" ~>
        /\ cont[h].State = "ABSENT"
        /\ h[2] = "drive" => \A d \in Drive : drive[h[1]][d] = "none"

\* Once the target of a host group stays the same, its surplus is gone in the end.
SurplusDrains ==
    \A g \in Group : \A n \in IF g = "weka" THEN WekaSizes ELSE NfsSizes :
        <>[](desired[g] = n) => <>[](Cardinality({m \in alive : GroupOf(m) = g}) <= n)

=============================================================================
