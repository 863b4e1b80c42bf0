--------------------------- MODULE ScaleDownProofs ---------------------------
(***************************************************************************)
(* Proofs about ScaleDown, for any machines, containers, drives, sizes and *)
(* timeouts, with calls that fail or get lost and rounds cut short at any  *)
(* point.                                                                  *)
(***************************************************************************)
EXTENDS ScaleDown, FiniteSetTheorems, DeactivateTargetProofs, TLAPS

\* The types of what a round holds.
Stage == {"idle", "hosts", "drives", "plan", "done"} \cup Working
Container == [State : ContState, Status : ContStatus]
View == [cont : [Host -> Container], drive : [Machine -> [Drive -> DriveState]],
         downFor : [Host -> 0..MaxDown]]
Round ==
    [pc : Stage, live : BOOLEAN, view : View, ports : SUBSET NfsMachine,
     inst : [Group -> SUBSET Machine], target : [Group -> Nat],
     old : SUBSET Machine, tagged : SUBSET Machine,
     remove : SUBSET Machine, deact : SUBSET Machine, leftNfs : SUBSET NfsMachine,
     hosts : SUBSET Machine, toTerminate : SUBSET Machine, clean : BOOLEAN]

\* Every variable has its type, the round in progress included.
TypeInv ==
    /\ cont \in [Host -> Container]
    /\ drive \in [Machine -> [Drive -> DriveState]]
    /\ downFor \in [Host -> 0..MaxDown]
    /\ ports \subseteq NfsMachine /\ tagged \subseteq NfsMachine
    /\ alive \subseteq Machine /\ young \subseteq alive
    /\ desired \in [Group -> Nat]
    /\ desired["weka"] \in WekaSizes /\ desired["nfs"] \in NfsSizes
    /\ round \in Round
    /\ faults \in 0..MaxFaults

\* What a round knows of the cloud: it hands over instances of its own list only, the
\* list of a host group holds machines of that group, and an instance it may terminate
\* has left its grace period for good.
KnownInv ==
    /\ round.toTerminate \subseteq CloudInstances
    /\ round.inst["nfs"] \subseteq NfsMachine /\ round.inst["weka"] \cap NfsMachine = {}
    /\ round.old \subseteq CloudInstances /\ round.old \cap young = {}

\* In the view v, no container of machine m is in use.
Quit(v, m) == \A h \in Host : h[1] = m => v.cont[h].State \in {"ABSENT", "INACTIVE"}

\* The hosts a round works with were read before it acts on them.  Of an instance past
\* its grace period that can be relied on in one direction: a container that was not in
\* use when the list was read is not in use now.
SeenInv ==
    round.pc \notin {"idle", "hosts"} =>
        \A h \in Host : h[1] \in round.old /\ round.view.cont[h].State \in {"ABSENT", "INACTIVE"}
            => cont[h].State \notin {"ACTIVE", "DEACTIVATING"}

\* What leads to a termination: a backend that is missing from the hosts of the response,
\* or that is to be removed or terminated, had no container in use when they were read.
QuitInv ==
    round.pc \in Working \cup {"done"} =>
        /\ \A m \in round.inst["weka"] : m \notin round.hosts => Quit(round.view, m)
        /\ \A m \in round.remove \cup round.toTerminate : Quit(round.view, m)

\* A round none of whose calls failed was validated before it ended.
CleanInv == round.pc = "done" /\ round.clean => \A m \in Targets \cap round.old : ~InUse(m)

\* A round has nothing to deactivate before it has a plan or after it has worked it off.
FreshInv ==
    /\ round.pc \notin Working => round.deact = {}
    /\ round.pc \in {"idle", "hosts", "drives", "plan"} => round.toTerminate = {}

\* The stages of a round are known by name everywhere below.
USE DEF Stage, Working

-----------------------------------------------------------------------------
(* Types, and what a round knows of the cloud.                             *)

\* The types hold at the start.
LEMMA InitTyped == ASSUME Init PROVE TypeInv /\ KnownInv
<1> USE MachineAssumption
<1>1. round \in Round
  BY DEF Init, NoRound, Round, Group, NoView, View, Container, ContState, ContStatus, DriveState
<1>2. desired \in [Group -> Nat] /\ desired["weka"] \in WekaSizes /\ desired["nfs"] \in NfsSizes
  BY DEF Init, Group
<1>3. KnownInv
  BY DEF Init, KnownInv, NoRound, CloudInstances, Group
<1> QED BY <1>1, <1>2, <1>3 DEF Init, TypeInv, Container, ContState, ContStatus, DriveState

\* The state between two rounds is one of a round.
LEMMA RoundResets == ASSUME TypeInv PROVE NoRound \in Round
BY MachineAssumption
   DEF NoRound, Round, Group, NoView, View, Container, ContState, ContStatus, DriveState

\* Fetch keeps the types and what the round knows of the cloud.
LEMMA FetchTyped == ASSUME TypeInv, KnownInv, Fetch PROVE TypeInv' /\ KnownInv'
<1>1. round' \in Round
  BY RoundResets, MachineAssumption DEF TypeInv, KnownInv, Fetch, Round, Group
<1>2. KnownInv'
  BY RoundResets DEF TypeInv, KnownInv, Fetch, Round, CloudInstances, Group, GroupOf, NoRound,
     cloud, cluster
<1> QED BY <1>1, <1>2 DEF TypeInv, Fetch, cloud, cluster

\* ListHosts keeps them.
LEMMA ListHostsTyped == ASSUME TypeInv, KnownInv, ListHosts PROVE TypeInv' /\ KnownInv'
<1> DEFINE v == [round.view EXCEPT !.cont = cont]
<1>1. v \in View
  BY DEF TypeInv, Round, View
<1>2. round' = NoRound \/ round' = [round EXCEPT !.pc = "drives", !.view = v]
  BY DEF ListHosts
<1> HIDE DEF v
<1>3. round' \in Round
  BY <1>1, <1>2, RoundResets DEF TypeInv, Round
<1>4. KnownInv'
  BY <1>1, <1>2 DEF TypeInv, KnownInv, ListHosts, Round, CloudInstances, Group, NoRound, cloud,
     cluster
<1> QED BY <1>3, <1>4 DEF TypeInv, ListHosts, cloud, cluster

\* ListDrives keeps them.
LEMMA ListDrivesTyped == ASSUME TypeInv, KnownInv, ListDrives PROVE TypeInv' /\ KnownInv'
<1> DEFINE v == [round.view EXCEPT !.drive = IF round.live THEN drive ELSE @,
                                   !.downFor = IF round.live THEN downFor ELSE @]
<1>1. v \in View
  BY DEF TypeInv, Round, View
<1>2. round' = [round EXCEPT !.pc = "plan", !.view = v]
  BY DEF ListDrives, TypeInv, Round, View
<1> HIDE DEF v
<1>3. round' \in Round
  BY <1>1, <1>2 DEF TypeInv, Round
<1>4. KnownInv'
  BY <1>1, <1>2 DEF TypeInv, KnownInv, ListDrives, Round, CloudInstances, Group, NoRound, cloud,
     cluster
<1> QED BY <1>3, <1>4 DEF TypeInv, ListDrives, cloud, cluster

\* PlanWeka keeps them.
LEMMA PlanWekaTyped ==
    ASSUME TypeInv, KnownInv, NEW gone \in SUBSET OldDrives(round.view), PlanWeka(gone)
    PROVE  TypeInv' /\ KnownInv'
<1>1. drive' \in [Machine -> [Drive -> DriveState]]
  BY DEF TypeInv, PlanWeka, DriveState
<1> DEFINE H == getHostGroupHosts(round.view, round.inst["weka"])
           r == [round EXCEPT !.clean = @ /\ gone = OldDrives(round.view)]
<1>2. H \subseteq Machine \X ContainerName
  BY DEF getHostGroupHosts, Listed, Host
<1>3. InactiveMachines(round.view, H) \subseteq Machine /\ MachinesOf(HostsList(round.view, H)) \subseteq Machine
  BY <1>2 DEF InactiveMachines, MachinesOf, HostsList
<1>4. r \in Round /\ r.inst = round.inst /\ r.old = round.old /\ r.toTerminate = round.toTerminate
      /\ r.view = round.view /\ r.hosts = round.hosts
  BY DEF TypeInv, Round
<1> HIDE DEF H, r
<1>5. PICK S \in SUBSET Machine : ScaleHgDown(r, "weka", H, round.target["weka"], S)
  BY DEF PlanWeka, H, r
<1>6. round' = [r EXCEPT !.pc = "weka", !.remove = InactiveMachines(r.view, H), !.deact = S,
                         !.hosts = @ \cup MachinesOf(HostsList(r.view, H))]
  BY <1>5 DEF ScaleHgDown
<1>7. round' \in Round
  BY <1>3, <1>4, <1>6 DEF Round
<1>8. KnownInv'
  BY <1>4, <1>6 DEF KnownInv, PlanWeka, Round, CloudInstances, cloud
<1> QED BY <1>1, <1>7, <1>8 DEF TypeInv, PlanWeka, cloud

\* ScaleNfs keeps them.
LEMMA ScaleNfsTyped == ASSUME TypeInv, KnownInv, ScaleNfs PROVE TypeInv' /\ KnownInv'
<1> DEFINE H == getNfsHosts(getHostGroupHosts(round.view, round.inst["nfs"]), round.ports)
<1>2. H \subseteq Machine \X ContainerName
  BY DEF getHostGroupHosts, getNfsHosts, Listed, Host
<1>3. InactiveMachines(round.view, H) \subseteq Machine /\ MachinesOf(HostsList(round.view, H)) \subseteq Machine
  BY <1>2 DEF InactiveMachines, MachinesOf, HostsList
<1> HIDE DEF H
<1>5. PICK S \in SUBSET Machine : ScaleHgDown(round, "nfs", H, round.target["nfs"], S)
  BY DEF ScaleNfs, H
<1>6. round' = [round EXCEPT !.pc = "nfs", !.remove = InactiveMachines(round.view, H), !.deact = S,
                         !.hosts = @ \cup MachinesOf(HostsList(round.view, H))]
  BY <1>5 DEF ScaleHgDown
<1>7. round' \in Round
  BY <1>3, <1>6 DEF Round, TypeInv
<1>8. KnownInv'
  BY <1>6 DEF KnownInv, ScaleNfs, TypeInv, Round, CloudInstances, cloud
<1> QED BY <1>7, <1>8 DEF TypeInv, ScaleNfs, cluster, cloud

\* NfsLeftovers keeps them.
LEMMA NfsLeftoversTyped == ASSUME TypeInv, KnownInv, NfsLeftovers PROVE TypeInv' /\ KnownInv'
<1>1. /\ MachinesOf(getHostGroupHosts(round.view, round.inst["nfs"])) \subseteq NfsMachine
      /\ NfsMachine \subseteq Machine
  BY MachineAssumption DEF getHostGroupHosts, belongsToHgIpBased, MachinesOf, KnownInv
<1>2. GetNfsHostsMap \subseteq NfsMachine
  BY DEF GetNfsHostsMap, TypeInv
<1>3. round' \in Round
  BY <1>1, <1>2 DEF NfsLeftovers, TypeInv, Round
<1>4. KnownInv'
  BY DEF KnownInv, NfsLeftovers, TypeInv, Round, CloudInstances, cloud
<1> QED BY <1>3, <1>4 DEF TypeInv, NfsLeftovers, cluster, cloud

\* HandleLeftOverHosts keeps them.
LEMMA HandleLeftOverHostsTyped ==
    ASSUME TypeInv, KnownInv, HandleLeftOverHosts PROVE TypeInv' /\ KnownInv'
<1> DEFINE H == getLeftoverHosts(round.view, CloudInstances) \cup getHostGroupHosts(round.view, round.leftNfs)
<1>1. H \subseteq Machine \X ContainerName
  BY DEF getHostGroupHosts, getLeftoverHosts, Listed, Host
<1> HIDE DEF H
<1>2. /\ InactiveMachines(round.view, H) \subseteq Machine
      /\ \A G \in SUBSET H : MachinesOf(G) \subseteq Machine
  BY <1>1 DEF InactiveMachines, MachinesOf
<1>3. PICK D \in SUBSET Machine, K \in SUBSET Machine, ok \in BOOLEAN :
        round' = [round EXCEPT !.pc = "left", !.clean = ok,
                    !.remove = InactiveMachines(round.view, H), !.deact = D, !.hosts = @ \cup K]
  BY <1>2 DEF HandleLeftOverHosts, H, TypeInv, Round
<1>4. round' \in Round
  BY <1>2, <1>3 DEF TypeInv, Round
<1>5. KnownInv'
  BY <1>3 DEF KnownInv, HandleLeftOverHosts, TypeInv, Round, CloudInstances, cloud
<1> QED BY <1>4, <1>5 DEF TypeInv, HandleLeftOverHosts, cluster, cloud

\* RemoveInactive keeps them: it hands over cloud instances only.
LEMMA RemoveInactiveTyped ==
    ASSUME TypeInv, KnownInv, NEW m, NEW exec, NEW ok, NEW gone, RemoveInactive(m, exec, ok, gone)
    PROVE  TypeInv' /\ KnownInv'
<1>1. m \in Machine
  BY DEF TypeInv, Round, RemoveInactive
<1>2. cont' \in [Host -> Container]
  BY DEF TypeInv, RemoveInactive, Container, ContState
<1>3. drive' \in [Machine -> [Drive -> DriveState]]
  BY <1>1 DEF TypeInv, RemoveInactive, DriveState
<1>4. PICK c \in BOOLEAN, T \in SUBSET (round.toTerminate \cup CloudInstances) :
        round' = [round EXCEPT !.remove = @ \ {m}, !.clean = c, !.toTerminate = T]
  <2>1. CASE ok # {}
    BY <2>1 DEF RemoveInactive, TypeInv, Round
  <2>2. CASE ok = {}
    BY <2>2 DEF RemoveInactive, TypeInv, Round
  <2> QED BY <2>1, <2>2
<1>5. CloudInstances \subseteq Machine
  BY DEF CloudInstances, TypeInv, Round, Group
<1>6. round' \in Round
  BY <1>4, <1>5 DEF TypeInv, Round
<1>7. KnownInv'
  BY <1>4 DEF KnownInv, RemoveInactive, TypeInv, Round, CloudInstances, cloud
<1> QED BY <1>2, <1>3, <1>6, <1>7 DEF TypeInv, RemoveInactive, cloud

\* DeactivateMachine keeps them.
LEMMA DeactivateMachineTyped ==
    ASSUME TypeInv, KnownInv, NEW m, NEW off, NEW port \in BOOLEAN, NEW host \in BOOLEAN,
           DeactivateMachine(m, off, port, host)
    PROVE  TypeInv' /\ KnownInv'
<1>1. m \in Machine
  BY DEF TypeInv, Round, DeactivateMachine
<1>2. cont' \in [Host -> Container]
  BY DEF TypeInv, DeactivateMachine, Container, ContState
<1>3. drive' \in [Machine -> [Drive -> DriveState]]
  BY <1>1 DEF TypeInv, DeactivateMachine, DriveState
<1>4. PICK c \in BOOLEAN : round' = [round EXCEPT !.deact = @ \ {m}, !.clean = c]
  BY DEF DeactivateMachine, TypeInv, Round
<1>6. round' \in Round
  BY <1>4 DEF TypeInv, Round
<1>7. KnownInv'
  BY <1>4 DEF KnownInv, DeactivateMachine, TypeInv, Round, CloudInstances, cloud
<1> QED BY <1>2, <1>3, <1>6, <1>7 DEF TypeInv, DeactivateMachine, cloud

\* The end of a round, with or without a response, and the loss of the pool keep them.
LEMMA EndTyped ==
    ASSUME TypeInv, KnownInv, ValidateDelta \/ ValidationSkipped \/ AbortRound \/ PoolExhausted
    PROVE  TypeInv' /\ KnownInv'
<1>1. UNCHANGED <<cluster, cloud>>
  BY DEF ValidateDelta, ValidationSkipped, AbortRound, PoolExhausted
<1>2. faults' \in 0..MaxFaults
  BY MachineAssumption
     DEF ValidateDelta, ValidationSkipped, AbortRound, PoolExhausted, MayFail, TypeInv
<1>3. ASSUME round' \in Round, \/ round' = NoRound
                               \/ /\ round'.toTerminate = round.toTerminate
                                  /\ round'.inst = round.inst /\ round'.old = round.old
      PROVE  TypeInv' /\ KnownInv'
  <2>1. TypeInv'
    BY <1>1, <1>2, <1>3 DEF TypeInv, cluster, cloud
  <2>2. CASE round' = NoRound
    BY <2>1, <2>2, <1>1 DEF KnownInv, CloudInstances, NoRound, Group
  <2>3. CASE round' # NoRound
    BY <2>1, <2>3, <1>1, <1>3 DEF KnownInv, CloudInstances, cloud
  <2> QED BY <2>2, <2>3
<1>4. CASE round' = NoRound
  BY <1>3, <1>4, RoundResets
<1>5. CASE round' = [round EXCEPT !.pc = "done"]
  BY <1>3, <1>5 DEF TypeInv, Round
<1>6. CASE round' = [round EXCEPT !.pc = "done", !.clean = FALSE]
  BY <1>3, <1>6 DEF TypeInv, Round
<1>7. CASE round' = [round EXCEPT !.live = FALSE, !.clean = FALSE]
  BY <1>3, <1>7 DEF TypeInv, Round
<1> QED
  BY <1>4, <1>5, <1>6, <1>7 DEF ValidateDelta, ValidationSkipped, AbortRound, PoolExhausted

\* Terminate keeps them: no instance in its grace period is terminated.
LEMMA TerminateTyped == ASSUME TypeInv, KnownInv, Terminate PROVE TypeInv' /\ KnownInv'
<1>1. round' = NoRound
  BY DEF Terminate
<1>2. cont' \in [Host -> Container] /\ downFor' \in [Host -> 0..MaxDown]
  BY MachineAssumption DEF TypeInv, Terminate, Container, ContStatus
<1>3. young' \subseteq alive'
  BY DEF Terminate, TypeInv, KnownInv
<1>4. KnownInv'
  BY <1>1 DEF KnownInv, CloudInstances, NoRound, Group
<1> QED BY <1>1, <1>2, <1>3, <1>4, RoundResets DEF TypeInv, Terminate

\* The steps of a machine and of the cloud keep them: an instance that boots during a
\* round is none the round knows.
LEMMA MachineStepTyped ==
    ASSUME TypeInv, KnownInv, NEW m \in Machine,
           \/ Boot(m) \/ Age(m) \/ AddPort(m) \/ InstanceLost(m)
           \/ \E c \in Containers(m) : Join(m, c)
           \/ \E d \in Drive : DriveFails(m, d) \/ DriveEmptied(m, d)
    PROVE  TypeInv' /\ KnownInv'
<1> USE DEF cluster, cloud
<1>1. round' = round
  BY DEF Boot, Age, AddPort, InstanceLost, Join, DriveFails, DriveEmptied
<1>2. KnownInv'
  BY <1>1 DEF KnownInv, CloudInstances, Boot, Age, AddPort, InstanceLost, Join, DriveFails,
     DriveEmptied
<1>3. CASE Boot(m) \/ Age(m) \/ AddPort(m)
  BY <1>1, <1>2, <1>3 DEF TypeInv, Boot, Age, AddPort
<1>4. CASE InstanceLost(m)
  BY <1>1, <1>2, <1>4, MachineAssumption DEF TypeInv, InstanceLost, Container, ContStatus, MayFail
<1>5. ASSUME NEW c \in Containers(m), Join(m, c) PROVE TypeInv' /\ KnownInv'
  BY <1>1, <1>2, <1>5 DEF TypeInv, Join, SetCont, Container, ContState, ContStatus, DriveState
<1>6. ASSUME NEW d \in Drive, DriveFails(m, d) PROVE TypeInv' /\ KnownInv'
  BY <1>1, <1>2, <1>6, MachineAssumption DEF TypeInv, DriveFails, MayFail, DriveState
<1>7. ASSUME NEW d \in Drive, DriveEmptied(m, d) PROVE TypeInv' /\ KnownInv'
  BY <1>1, <1>2, <1>7 DEF TypeInv, DriveEmptied, DriveState
<1> QED BY <1>3, <1>4, <1>5, <1>6, <1>7

\* The steps of a container keep them.
LEMMA HostStepTyped ==
    ASSUME TypeInv, KnownInv, NEW h \in Host,
           \/ GoDown(h) \/ StaysDown(h) \/ ComeBack(h)
           \/ Deactivated(h) \/ Stopped(h) \/ Forgotten(h)
    PROVE  TypeInv' /\ KnownInv'
<1> USE DEF cluster, cloud
<1>1. round' = round /\ alive' = alive /\ young' = young
  BY DEF GoDown, StaysDown, ComeBack, Deactivated, Stopped, Forgotten
<1>2. KnownInv'
  BY <1>1 DEF KnownInv, CloudInstances
<1>3. CASE GoDown(h) \/ StaysDown(h)
  BY <1>1, <1>2, <1>3, MachineAssumption
     DEF TypeInv, GoDown, StaysDown, SetCont, Container, ContStatus, MayFail
<1>4. CASE ComeBack(h)
  BY <1>1, <1>2, <1>4, MachineAssumption DEF TypeInv, ComeBack, SetCont, Container, ContStatus
<1>6. CASE Deactivated(h)
  BY <1>1, <1>2, <1>6 DEF TypeInv, Deactivated, SetCont, Container, ContState
<1>7. CASE Stopped(h)
  BY <1>1, <1>2, <1>7, MachineAssumption
     DEF TypeInv, Stopped, SetCont, Container, ContState, ContStatus
<1>5. CASE Forgotten(h)
  <2>1. h[1] \in Machine
    BY DEF Host
  <2> QED
    BY <1>1, <1>2, <1>5, <2>1
       DEF TypeInv, Forgotten, SetCont, Container, ContState, ContStatus, DriveState
<1> QED BY <1>3, <1>4, <1>5, <1>6, <1>7

\* A new desired capacity keeps them.
LEMMA SetDesiredTyped ==
    ASSUME TypeInv, KnownInv,
           (\E n \in WekaSizes : SetDesired("weka", n)) \/ (\E n \in NfsSizes : SetDesired("nfs", n))
    PROVE  TypeInv' /\ KnownInv'
<1>1. UNCHANGED <<cluster, alive, young, round, faults>>
  BY DEF SetDesired
<1>2. /\ desired' \in [Group -> Nat]
      /\ desired'["weka"] \in WekaSizes /\ desired'["nfs"] \in NfsSizes
  BY MachineAssumption DEF SetDesired, TypeInv, Group
<1> QED BY <1>1, <1>2 DEF TypeInv, KnownInv, CloudInstances, cluster

\* Every step keeps them.
LEMMA TypedStep == ASSUME TypeInv, KnownInv, [Next]_vars PROVE TypeInv' /\ KnownInv'
<1>1. CASE RoundStep
  <2>1. CASE \E gone \in SUBSET OldDrives(round.view) : PlanWeka(gone)
    BY <2>1, PlanWekaTyped
  <2>2. CASE \E m \in round.remove :
                \E exec \in SUBSET ReadyForRemove(m), ok \in SUBSET ReadyForRemove(m), gone \in SUBSET Drive :
                   RemoveInactive(m, exec, ok, gone)
    BY <2>2, RemoveInactiveTyped
  <2>3. CASE \E m \in round.deact : \E off \in SUBSET DrivesToDeactivate(m), port, host \in BOOLEAN :
                DeactivateMachine(m, off, port, host)
    BY <2>3, DeactivateMachineTyped
  <2> QED
    BY <1>1, <2>1, <2>2, <2>3, FetchTyped, ListHostsTyped, ListDrivesTyped, NfsLeftoversTyped,
       ScaleNfsTyped, HandleLeftOverHostsTyped, EndTyped, TerminateTyped DEF RoundStep
<1>2. CASE ClusterStep
  BY <1>2, MachineStepTyped, HostStepTyped, SetDesiredTyped DEF ClusterStep
<1>3. CASE UNCHANGED vars
  BY <1>3 DEF vars, cluster, cloud, TypeInv, KnownInv, CloudInstances
<1> QED BY <1>1, <1>2, <1>3 DEF Next

\* Every variable has its type, for any machines, containers, drives and faults; a response
\* names for termination only instances the round was called with.
THEOREM TypeCorrect == Spec => []TypeOK
<1>1. Init => TypeInv /\ KnownInv
  BY InitTyped
<1>2. (TypeInv /\ KnownInv) /\ [Next]_vars => (TypeInv /\ KnownInv)'
  BY TypedStep
<1>3. TypeInv /\ KnownInv => TypeOK
  BY DEF TypeInv, KnownInv, TypeOK, Round, Container
<1> QED BY <1>1, <1>2, <1>3, PTL DEF Spec

-----------------------------------------------------------------------------
(* No response gives up an instance in use.                                *)

\* How one container may change in a step: it joins once, while its instance is young and
\* unknown to the round; only a round starts a deactivation; from there it only goes on.
Moves(h) ==
    \/ cont'[h].State = cont[h].State
    \/ /\ cont[h].State = "ABSENT" /\ cont'[h].State = "ACTIVE"
       /\ h[1] \in young /\ round.view.cont[h].State = "ABSENT" /\ round' = round
    \/ /\ cont[h].State = "ACTIVE" /\ cont'[h].State = "DEACTIVATING"
       /\ round.pc \in Working /\ round.live /\ h[1] \in round.deact
    \/ cont[h].State = "DEACTIVATING" /\ cont'[h].State = "INACTIVE"
    \/ cont[h].State = "INACTIVE" /\ cont'[h].State = "REMOVING"
    \/ cont[h].State = "REMOVING" /\ cont'[h].State = "ABSENT"

\* Every step moves each container in one of these ways.
LEMMA ContainerMoves == ASSUME TypeInv, [Next]_vars, NEW h \in Host PROVE Moves(h)
<1> USE DEF cluster, cloud
<1>1. CASE cont' = cont
  BY <1>1 DEF Moves
<1>2. ASSUME NEW m, NEW exec, NEW ok, NEW gone, RemoveInactive(m, exec, ok, gone) PROVE Moves(h)
  BY <1>2 DEF RemoveInactive, Moves, TypeInv, Container
<1>3. ASSUME NEW m, NEW off, NEW port, NEW host, DeactivateMachine(m, off, port, host)
      PROVE  Moves(h)
  BY <1>3 DEF DeactivateMachine, HostsOf, Moves, TypeInv, Container
<1>4. CASE Terminate
  BY <1>4 DEF Terminate, Moves, TypeInv, Container
<1>5. ASSUME NEW m \in Machine, NEW c \in Containers(m), Join(m, c) PROVE Moves(h)
  <2>1. <<m, c>> \in Host
    BY DEF Host, Containers, ContainerName
  <2>2. CASE h = <<m, c>>
    <3>1. cont[h].State = "ABSENT" /\ cont'[h].State = "ACTIVE"
      BY <1>5, <2>1, <2>2 DEF Join, SetCont, TypeInv, Container
    <3>2. h[1] \in young /\ round.view.cont[h].State = "ABSENT" /\ round' = round
      BY <1>5, <2>2 DEF Join
    <3> QED BY <3>1, <3>2 DEF Moves
  <2>3. CASE h # <<m, c>>
    <3>1. cont'[h].State = cont[h].State
      BY <1>5, <2>1, <2>3 DEF Join, SetCont, TypeInv
    <3> QED BY <3>1 DEF Moves
  <2> QED BY <2>2, <2>3
<1>6. ASSUME NEW m, InstanceLost(m) PROVE Moves(h)
  BY <1>6 DEF InstanceLost, Moves, TypeInv, Container
<1>7. ASSUME NEW g \in Host, GoDown(g) \/ ComeBack(g) PROVE Moves(h)
  BY <1>7 DEF GoDown, ComeBack, SetCont, Moves, TypeInv, Container
<1>8. ASSUME NEW g \in Host, Deactivated(g) \/ Stopped(g) \/ Forgotten(g) PROVE Moves(h)
  <2>1. CASE Deactivated(g)
    BY <2>1 DEF Deactivated, SetCont, Moves, TypeInv, Container
  <2>2. CASE Stopped(g)
    BY <2>2 DEF Stopped, SetCont, Moves, TypeInv, Container
  <2>3. CASE Forgotten(g)
    BY <2>3 DEF Forgotten, SetCont, Moves, TypeInv, Container
  <2> QED BY <1>8, <2>1, <2>2, <2>3
<1>9. CASE RoundStep
  BY <1>1, <1>2, <1>3, <1>4, <1>9
     DEF RoundStep, Fetch, ListHosts, ListDrives, PlanWeka, NfsLeftovers, ScaleNfs,
        HandleLeftOverHosts,
         ValidateDelta, ValidationSkipped, AbortRound, PoolExhausted
<1>10. CASE ClusterStep
  BY <1>1, <1>5, <1>6, <1>7, <1>8, <1>10
     DEF ClusterStep, Boot, Age, AddPort, DriveFails, DriveEmptied, StaysDown, SetDesired
<1> QED BY <1>1, <1>9, <1>10 DEF Next, vars

\* A step that keeps what the round has read of the hosts and was called with.
SameReading ==
    /\ round.pc \notin {"idle", "hosts"}
    /\ round'.view.cont = round.view.cont
    /\ round'.inst = round.inst /\ round'.old = round.old /\ round'.target = round.target
    /\ round'.pc \in {"drives", "plan"} => round.pc \in {"drives", "plan"}
    /\ round'.view.drive = round.view.drive \/ ListDrives
    /\ round'.pc = "plan" => round.pc = "plan" \/ ListDrives
    /\ round'.pc \notin {"idle", "hosts", "drives"} => round.pc \notin {"idle", "hosts", "drives"} \/ ListDrives

\* A step leaves the round without a reading, takes one, or keeps the one there is.
LEMMA ReadingMoves ==
    ASSUME TypeInv, [Next]_vars
    PROVE  \/ round'.pc \in {"idle", "hosts"}
           \/ ListHosts /\ round' = [round EXCEPT !.pc = "drives", !.view.cont = cont]
           \/ SameReading
<1> USE DEF TypeInv, Round, View
<1>1. CASE round' = round
  BY <1>1 DEF SameReading
<1>2. CASE round' = NoRound
  BY <1>2 DEF NoRound
<1>3. CASE Fetch
  BY <1>3 DEF Fetch, NoRound
<1>4. CASE ListHosts
  BY <1>2, <1>4 DEF ListHosts
<1>5. CASE ListDrives
  BY <1>5 DEF ListDrives, SameReading
<1>6. ASSUME NEW gone, PlanWeka(gone) PROVE SameReading
  BY <1>6 DEF PlanWeka, ScaleHgDown, SameReading
<1>7. ASSUME NEW m, NEW exec, NEW ok, NEW gone, RemoveInactive(m, exec, ok, gone)
      PROVE  SameReading
  BY <1>7 DEF RemoveInactive, SameReading
<1>8. ASSUME NEW m, NEW off, NEW port, NEW host, DeactivateMachine(m, off, port, host)
      PROVE  SameReading
  BY <1>8 DEF DeactivateMachine, SameReading
<1>9. CASE NfsLeftovers
  BY <1>9 DEF NfsLeftovers, StageDone, SameReading
<1>10. CASE ScaleNfs
  BY <1>10 DEF ScaleNfs, StageDone, ScaleHgDown, SameReading
<1>11. CASE HandleLeftOverHosts
  BY <1>11 DEF HandleLeftOverHosts, StageDone, SameReading
<1>12. CASE ValidateDelta \/ ValidationSkipped
  <2>1. /\ round.pc = "left"
        /\ \/ round' = NoRound
           \/ round' = [round EXCEPT !.pc = "done"]
           \/ round' = [round EXCEPT !.pc = "done", !.clean = FALSE]
    BY <1>12 DEF ValidateDelta, ValidationSkipped, StageDone
  <2>2. CASE round' = [round EXCEPT !.pc = "done"]
    BY <2>1, <2>2 DEF SameReading
  <2>3. CASE round' = [round EXCEPT !.pc = "done", !.clean = FALSE]
    BY <2>1, <2>3 DEF SameReading
  <2> QED BY <1>2, <2>1, <2>2, <2>3
<1>13. CASE PoolExhausted
  <2>1. round.pc # "idle" /\ round' = [round EXCEPT !.live = FALSE, !.clean = FALSE]
    BY <1>13 DEF PoolExhausted
  <2> QED BY <2>1 DEF SameReading
<1>14. CASE RoundStep
  BY <1>2, <1>3, <1>4, <1>5, <1>6, <1>7, <1>8, <1>9, <1>10, <1>11, <1>12, <1>13, <1>14
     DEF RoundStep, AbortRound, Terminate
<1>15. CASE ClusterStep
  BY <1>1, <1>15 DEF ClusterStep, Boot, Age, AddPort, InstanceLost, Join, DriveFails,
     DriveEmptied,
        GoDown, StaysDown, ComeBack, Deactivated, Stopped, Forgotten, SetDesired
<1> QED BY <1>1, <1>14, <1>15 DEF Next, vars

\* No step brings a container of an old instance back into use.
LEMMA SeenStep ==
    ASSUME TypeInv, KnownInv, SeenInv, [Next]_vars
    PROVE  SeenInv'
<1> SUFFICES ASSUME round'.pc \notin {"idle", "hosts"}, NEW h \in Host, h[1] \in round'.old,
                    round'.view.cont[h].State \in {"ABSENT", "INACTIVE"}
             PROVE  cont'[h].State \notin {"ACTIVE", "DEACTIVATING"}
  BY DEF SeenInv
<1>1. CASE ListHosts /\ round' = [round EXCEPT !.pc = "drives", !.view.cont = cont]
  BY <1>1 DEF ListHosts, cluster, TypeInv, Round, View
<1>2. CASE SameReading
  <2>1. cont[h].State \notin {"ACTIVE", "DEACTIVATING"} /\ h[1] \notin young
    BY <1>2 DEF SameReading, SeenInv, KnownInv
  <2> QED BY <2>1, ContainerMoves DEF Moves
<1> QED BY <1>1, <1>2, ReadingMoves

\* allContainersInactive looks at every listed container of the machine.
LEMMA InactiveQuit ==
    ASSUME NEW v, NEW m, allContainersInactive(v, m)
    PROVE  Quit(v, m)
BY DEF allContainersInactive, HostsOf, Listed, Quit

\* The machines whose deactivation is over have no container in use.
LEMMA RemovedQuit ==
    ASSUME NEW v, NEW H, NEW m \in InactiveMachines(v, H)
    PROVE  Quit(v, m)
BY InactiveQuit DEF InactiveMachines

\* A machine of a host group that ScaleHgDown leaves out of the response has none either.
LEMMA UnlistedQuit ==
    ASSUME NEW v, NEW I, NEW m \in I,
           m \notin MachinesOf(HostsList(v, getHostGroupHosts(v, I)))
    PROVE  Quit(v, m)
<1> DEFINE H == getHostGroupHosts(v, I)
<1>1. CASE m \in InactiveMachines(v, H)
  BY <1>1, RemovedQuit
<1>2. CASE m \notin InactiveMachines(v, H)
  <2>1. \A h \in Host : h[1] = m => h \notin Listed(v)
    BY <1>2 DEF MachinesOf, HostsList, getHostGroupHosts, belongsToHgIpBased
  <2> QED BY <2>1 DEF Quit, Listed
<1> QED BY <1>1, <1>2

\* What ScaleHgDown makes of the round.
LEMMA ScaledQuit ==
    ASSUME TypeInv, NEW r, r \in Round, r.view.cont = round.view.cont, NEW stage, NEW H, NEW t, NEW S,
           ScaleHgDown(r, stage, H, t, S)
    PROVE  /\ \A m \in round'.remove : Quit(round'.view, m)
           /\ round'.view = r.view /\ round'.inst = r.inst /\ round'.toTerminate = r.toTerminate
           /\ round'.deact = S /\ round'.pc = stage
           /\ round'.hosts = r.hosts \cup MachinesOf(HostsList(r.view, H))
<1>1. /\ round'.remove = InactiveMachines(r.view, H)
      /\ round'.view = r.view /\ round'.inst = r.inst /\ round'.toTerminate = r.toTerminate
      /\ round'.deact = S /\ round'.pc = stage
      /\ round'.hosts = r.hosts \cup MachinesOf(HostsList(r.view, H))
  BY DEF ScaleHgDown, Round
<1> QED BY <1>1, RemovedQuit

\* Every step keeps FreshInv.
LEMMA FreshStep == ASSUME TypeInv, FreshInv, [Next]_vars PROVE FreshInv'
<1> USE DEF FreshInv
<1>1. CASE round' = round
  BY <1>1
<1>2. CASE round' = NoRound
  BY <1>2 DEF NoRound
<1>3. CASE Fetch
  BY <1>3 DEF Fetch, NoRound
<1>4. CASE ListHosts \/ ListDrives
  BY <1>2, <1>4 DEF ListHosts, ListDrives, TypeInv, Round
<1>5. CASE PoolExhausted
  BY <1>5 DEF PoolExhausted, TypeInv, Round
<1>6. CASE round.pc \in Working /\ RoundStep
  <2>1. ASSUME NEW m, NEW exec, NEW ok, NEW gone, RemoveInactive(m, exec, ok, gone)
        PROVE  round'.pc = round.pc
    BY <2>1 DEF RemoveInactive, TypeInv, Round
  <2>2. ASSUME NEW m, NEW off, NEW port, NEW host, DeactivateMachine(m, off, port, host)
        PROVE  round'.pc = round.pc
    BY <2>2 DEF DeactivateMachine, TypeInv, Round
  <2>3. ASSUME NfsLeftovers \/ ScaleNfs \/ HandleLeftOverHosts PROVE round'.pc \in Working
    BY <2>3 DEF NfsLeftovers, ScaleNfs, ScaleHgDown, HandleLeftOverHosts, TypeInv, Round
  <2>4. ASSUME ValidateDelta \/ ValidationSkipped
        PROVE  (round'.pc = "done" /\ round'.deact = {}) \/ round' = NoRound
    BY <2>4 DEF ValidateDelta, ValidationSkipped, StageDone, TypeInv, Round
  <2> QED
    BY <1>2, <1>5, <1>6, <2>1, <2>2, <2>3, <2>4
       DEF RoundStep, Fetch, ListHosts, ListDrives, PlanWeka, AbortRound, Terminate
<1>7. ASSUME NEW gone, PlanWeka(gone) PROVE FreshInv'
  BY <1>7 DEF PlanWeka, ScaleHgDown, TypeInv, Round
<1>8. CASE RoundStep
  BY <1>2, <1>3, <1>4, <1>5, <1>6, <1>7, <1>8
     DEF RoundStep, AbortRound, Terminate, RemoveInactive, DeactivateMachine, NfsLeftovers,
        ScaleNfs,
         HandleLeftOverHosts, ValidateDelta, ValidationSkipped, StageDone
<1>9. CASE ClusterStep
  BY <1>1, <1>9 DEF ClusterStep, Boot, Age, AddPort, InstanceLost, Join, DriveFails, DriveEmptied,
        GoDown, StaysDown, ComeBack, Deactivated, Stopped, Forgotten, SetDesired
<1> QED BY <1>1, <1>8, <1>9 DEF Next, vars

\* Every step keeps QuitInv: the hosts of the response only grow, and removeInactive hands
\* over only machines ScaleHgDown and handleLeftOverHosts found inactive.
LEMMA QuitStep ==
    ASSUME TypeInv, KnownInv, FreshInv, QuitInv, [Next]_vars
    PROVE  QuitInv'
<1> SUFFICES ASSUME round'.pc \in Working \cup {"done"}
             PROVE  /\ \A m \in round'.inst["weka"] : m \notin round'.hosts => Quit(round'.view, m)
                    /\ \A m \in round'.remove \cup round'.toTerminate : Quit(round'.view, m)
  BY DEF QuitInv
<1> USE DEF TypeInv, Round
<1>1. CASE round' = round
  BY <1>1 DEF QuitInv
<1>2. ASSUME NEW gone, PlanWeka(gone) PROVE QuitInv'
  <2> DEFINE H == getHostGroupHosts(round.view, round.inst["weka"])
             r == [round EXCEPT !.clean = @ /\ gone = OldDrives(round.view)]
  <2>1. /\ r \in Round /\ r.view = round.view /\ r.inst = round.inst /\ r.hosts = round.hosts
        /\ r.toTerminate = round.toTerminate
    OBVIOUS
  <2>2. PICK S : ScaleHgDown(r, "weka", H, round.target["weka"], S)
    BY <1>2 DEF PlanWeka
  <2> HIDE DEF r, H
  <2>3. /\ \A m \in round'.remove : Quit(round'.view, m)
        /\ round'.view = round.view /\ round'.inst = round.inst /\ round'.toTerminate = {}
        /\ round'.hosts = round.hosts \cup MachinesOf(HostsList(round.view, H))
    BY <1>2, <2>1, <2>2, ScaledQuit DEF FreshInv, PlanWeka
  <2>4. ASSUME NEW m \in round'.inst["weka"], m \notin round'.hosts PROVE Quit(round'.view, m)
    <3>1. m \in round.inst["weka"] /\ m \notin MachinesOf(HostsList(round.view, H))
      BY <2>3, <2>4
    <3> QED BY <3>1, <2>3, UnlistedQuit DEF H
  <2> QED BY <2>3, <2>4 DEF QuitInv
<1>3. CASE ScaleNfs
  <2> DEFINE H == getNfsHosts(getHostGroupHosts(round.view, round.inst["nfs"]), round.ports)
  <2>2. PICK S : ScaleHgDown(round, "nfs", H, round.target["nfs"], S)
    BY <1>3 DEF ScaleNfs
  <2> HIDE DEF H
  <2>3. /\ \A m \in round'.remove : Quit(round'.view, m)
        /\ round'.view = round.view /\ round'.inst = round.inst /\ round'.toTerminate = round.toTerminate
        /\ round.hosts \subseteq round'.hosts
    BY <2>2, ScaledQuit
  <2>4. round.pc \in Working
    BY <1>3 DEF ScaleNfs, StageDone
  <2> QED BY <2>3, <2>4 DEF QuitInv
<1>4. CASE NfsLeftovers
  BY <1>4 DEF NfsLeftovers, StageDone, QuitInv
<1>5. CASE HandleLeftOverHosts
  <2> DEFINE H == getLeftoverHosts(round.view, CloudInstances) \cup getHostGroupHosts(round.view, round.leftNfs)
  <2>1. /\ round.pc \in Working
        /\ round'.remove = InactiveMachines(round.view, H) /\ round'.view = round.view
        /\ round'.inst = round.inst /\ round'.toTerminate = round.toTerminate /\ round.hosts \subseteq round'.hosts
    BY <1>5 DEF HandleLeftOverHosts, StageDone
  <2> HIDE DEF H
  <2> QED BY <2>1, RemovedQuit DEF QuitInv
<1>6. ASSUME NEW m, NEW exec, NEW ok, NEW gone, RemoveInactive(m, exec, ok, gone) PROVE QuitInv'
  <2>1. /\ round.pc \in Working /\ m \in round.remove
        /\ round'.remove \subseteq round.remove /\ round'.toTerminate \subseteq round.toTerminate \cup {m}
        /\ round'.view = round.view /\ round'.inst = round.inst /\ round'.hosts = round.hosts
    BY <1>6 DEF RemoveInactive
  <2> QED BY <2>1 DEF QuitInv
<1>7. ASSUME NEW m, NEW off, NEW port, NEW host, DeactivateMachine(m, off, port, host)
      PROVE  QuitInv'
  BY <1>7 DEF DeactivateMachine, QuitInv
<1>8. CASE ValidateDelta
  BY <1>8 DEF ValidateDelta, StageDone, NoRound, QuitInv
<1>9. CASE ValidationSkipped
  BY <1>9 DEF ValidationSkipped, StageDone, QuitInv
<1>10. CASE PoolExhausted
  BY <1>10 DEF PoolExhausted, QuitInv
<1>11. CASE RoundStep
  <2>1. ASSUME ListHosts PROVE round'.pc \in {"idle", "drives"}
    BY <2>1 DEF ListHosts, NoRound
  <2>2. ASSUME Fetch \/ ListDrives PROVE round'.pc \in {"hosts", "plan"}
    BY <2>2 DEF Fetch, ListDrives, NoRound
  <2>3. ASSUME AbortRound \/ Terminate PROVE round'.pc = "idle"
    BY <2>3 DEF AbortRound, Terminate, NoRound
  <2> QED
    BY <1>2, <1>3, <1>4, <1>5, <1>6, <1>7, <1>8, <1>9, <1>10, <1>11, <2>1, <2>2, <2>3
       DEF RoundStep, QuitInv
<1>12. CASE ClusterStep
  BY <1>1, <1>12 DEF ClusterStep, Boot, Age, AddPort, InstanceLost, Join, DriveFails,
     DriveEmptied,
        GoDown, StaysDown, ComeBack, Deactivated, Stopped, Forgotten, SetDesired, QuitInv
<1> QED BY <1>1, <1>11, <1>12 DEF Next, vars, QuitInv

\* An instance past its grace period never gets back into use.
LEMMA InUseStays ==
    ASSUME TypeInv, KnownInv, [Next]_vars, NEW m \in round.old, InUse(m)'
    PROVE  InUse(m)
<1>1. m \in Machine /\ m \notin young
  BY DEF TypeInv, Round, KnownInv
<1>2. PICK c \in Containers(m) : cont'[<<m, c>>].State \in {"ACTIVE", "DEACTIVATING"}
  BY DEF InUse
<1>3. <<m, c>> \in Host
  BY <1>1 DEF Host, Containers, ContainerName
<1>4. cont[<<m, c>>].State \in {"ACTIVE", "DEACTIVATING"}
  BY <1>1, <1>2, <1>3, ContainerMoves DEF Moves
<1> QED BY <1>4 DEF InUse

\* Every step keeps CleanInv: between the check of validateDelta and the termination no
\* instance that was not in use is used again.
LEMMA CleanStep ==
    ASSUME TypeInv, KnownInv, CleanInv, [Next]_vars
    PROVE  CleanInv'
<1> SUFFICES ASSUME round'.pc = "done", round'.clean, NEW m \in (Targets \cap round.old)', InUse(m)'
             PROVE  FALSE
  BY DEF CleanInv
<1> USE DEF TypeInv, Round
<1>1. CASE round' = round
  <2>1. m \in Targets \cap round.old
    BY <1>1 DEF Targets, CloudInstances
  <2> QED BY <1>1, <2>1, InUseStays DEF CleanInv
<1>2. CASE ValidateDelta
  <2>1. round' = [round EXCEPT !.pc = "done"] /\ \A k \in Targets : ~InUse(k)
    BY <1>2 DEF ValidateDelta, NoRound
  <2>2. m \in Targets
    BY <2>1 DEF Targets, CloudInstances
  <2>3. cont' = cont
    BY <1>2 DEF ValidateDelta, cluster
  <2> QED BY <2>1, <2>2, <2>3 DEF InUse
<1>3. CASE ValidationSkipped \/ PoolExhausted
  BY <1>3 DEF ValidationSkipped, PoolExhausted
<1>4. CASE RoundStep
  <2>1. ASSUME NEW gone, PlanWeka(gone) PROVE round'.pc = "weka"
    BY <2>1 DEF PlanWeka, ScaleHgDown
  <2>2. ASSUME NEW k, NEW exec, NEW ok, NEW gone, RemoveInactive(k, exec, ok, gone)
        PROVE  round'.pc \in Working
    BY <2>2 DEF RemoveInactive
  <2>3. ASSUME NEW k, NEW off, NEW port, NEW host, DeactivateMachine(k, off, port, host)
        PROVE  round'.pc \in Working
    BY <2>3 DEF DeactivateMachine
  <2>4. ASSUME Fetch \/ ListHosts \/ ListDrives PROVE round'.pc # "done"
    <3>1. ASSUME ListHosts PROVE round'.pc \in {"idle", "drives"}
      BY <3>1 DEF ListHosts, NoRound
    <3>2. ASSUME Fetch \/ ListDrives PROVE round'.pc \in {"hosts", "plan"}
      BY <3>2 DEF Fetch, ListDrives, NoRound
    <3> QED BY <2>4, <3>1, <3>2
  <2>5. ASSUME NfsLeftovers \/ HandleLeftOverHosts PROVE round'.pc \in Working
    <3>1. ASSUME NfsLeftovers PROVE round'.pc = "nfsLeft"
      BY <3>1 DEF NfsLeftovers
    <3>2. ASSUME HandleLeftOverHosts PROVE round'.pc = "left"
      BY <3>2 DEF HandleLeftOverHosts
    <3> QED BY <2>5, <3>1, <3>2
  <2>6. ASSUME ScaleNfs PROVE round'.pc # "done"
    BY <2>6 DEF ScaleNfs, ScaleHgDown
  <2>7. ASSUME AbortRound \/ Terminate PROVE round'.pc # "done"
    BY <2>7 DEF AbortRound, Terminate, NoRound
  <2> QED BY <1>2, <1>3, <1>4, <2>1, <2>2, <2>3, <2>4, <2>5, <2>6, <2>7 DEF RoundStep
<1>5. CASE ClusterStep
  BY <1>1, <1>5 DEF ClusterStep, Boot, Age, AddPort, InstanceLost, Join, DriveFails, DriveEmptied,
        GoDown, StaysDown, ComeBack, Deactivated, Stopped, Forgotten, SetDesired
<1> QED BY <1>1, <1>4, <1>5 DEF Next, vars

\* The invariant of all rounds.
SafeInv == TypeInv /\ KnownInv /\ FreshInv /\ SeenInv /\ QuitInv /\ CleanInv

\* The invariant of all rounds holds at the start.
LEMMA SafeStart == Init => SafeInv
BY InitTyped DEF Init, NoRound, SafeInv, FreshInv, SeenInv, QuitInv, CleanInv

\* Every step keeps it.
LEMMA SafeStep == SafeInv /\ [Next]_vars => SafeInv'
BY TypedStep, FreshStep, SeenStep, QuitStep, CleanStep DEF SafeInv

\* A backend that would be terminated is not in use, whatever failed in the round.
LEMMA BackendSpared ==
    ASSUME SafeInv, round.pc = "done", NEW m \in Targets \cap round.old, InUse(m)
    PROVE  m \in NfsMachine
<1> SUFFICES ASSUME m \notin NfsMachine PROVE FALSE
  OBVIOUS
<1>1. m \in Machine /\ m \in round.inst["weka"]
  BY DEF SafeInv, TypeInv, KnownInv, Round, Targets, CloudInstances, Group
<1>2. Quit(round.view, m)
  BY <1>1 DEF SafeInv, QuitInv, Targets
<1>3. PICK c \in Containers(m) : cont[<<m, c>>].State \in {"ACTIVE", "DEACTIVATING"}
  BY DEF InUse
<1>4. <<m, c>> \in Host
  BY <1>1 DEF Host, Containers, ContainerName
<1> QED BY <1>2, <1>3, <1>4 DEF Quit, SafeInv, SeenInv

\* No response that reaches the cloud gives up a backend with a container in use, whatever
\* calls failed, were lost or came back empty and even if validateDelta could not check it;
\* nor a gateway, if no call failed.  allContainersInactive, the hosts of the response and
\* the grace period of new instances see to it.
THEOREM ResponseSafe == Spec => []ResponseSparesUsed
<1>1. SafeInv => ResponseSparesUsed
  BY BackendSpared DEF ResponseSparesUsed, SafeInv, CleanInv
<1> QED BY <1>1, SafeStart, SafeStep, PTL DEF Spec

-----------------------------------------------------------------------------
(* No serving machine is missed while nothing breaks by itself.            *)

\* The machines that serve Weka itself, and the states of a drive of one that nobody has
\* begun to take out.
Backend == Machine \ NfsMachine
Kept == {"none", "orphan", "active"}

\* In the view v, machine m was out of order or being taken out already.
Spoiled(v, m) ==
    \/ \E h \in Host : h[1] = m /\ v.cont[h].State \notin {"ABSENT", "ACTIVE"}
    \/ v.cont[<<m, "drive">>].State # "ABSENT" /\ \E d \in Drive : v.drive[m][d] \in {"removing", "removed"}

\* As long as nothing breaks by itself, no container of a backend is down, no drive has
\* failed, and a container that is not in Weka owns no drives.
CalmCluster ==
    /\ \A h \in Host : h[1] \notin NfsMachine =>
        cont[h].Status # "DOWN" /\ (cont[h].State = "ACTIVE" => cont[h].Status = "UP")
    /\ \A m \in Machine, d \in Drive : drive[m][d] # "failed"
    /\ \A m \in Backend : cont[<<m, "drive">>].State = "ABSENT" =>
            \A d \in Drive : drive[m][d] \in {"none", "orphan"}

\* How far a list of hosts read earlier still holds: what was on its way out when it was
\* read is not back in service.
CalmHosts ==
    /\ \A h \in Host : h[1] \notin NfsMachine => round.view.cont[h].Status # "DOWN"
    /\ \A h \in Host : round.view.cont[h].State \notin {"ABSENT", "ACTIVE"} => cont[h].State # "ACTIVE"

\* The same of a list of drives.
CalmDrives ==
    \A m \in Backend, d \in Drive :
        /\ round.view.drive[m][d] # "failed"
        /\ round.view.cont[<<m, "drive">>].State # "ABSENT" /\ round.view.drive[m][d] \in {"removing", "removed"}
            => drive[m][d] # "active"

\* Until the round acts nobody else deactivates anything: what was in order when the
\* lists were read, hosts or drives, is in order when the plan is made.
PlanHosts ==
    /\ \A h \in Host : /\ round.view.cont[h].State = "ACTIVE" => cont[h].State = "ACTIVE"
                       /\ round.view.cont[h].State = "ABSENT" => cont[h].State \in {"ABSENT", "ACTIVE"}
    /\ \A m \in Backend : round.view.cont[<<m, "drive">>].State = "ABSENT" => \A d \in Drive : drive[m][d] \in Kept
PlanDrives ==
    \A m \in Backend, d \in Drive : round.view.drive[m][d] \in Kept => drive[m][d] \in Kept

\* What a round knows while nothing breaks by itself.
CalmView ==
    /\ round.live
    /\ CloudInstances \subseteq alive
    /\ round.pc \notin {"idle", "hosts"} => CalmHosts
    /\ round.pc \notin {"idle", "hosts", "drives"} => CalmDrives
    /\ round.pc \in {"drives", "plan"} => PlanHosts
    /\ round.pc = "plan" => PlanDrives

\* The sound machines the round has not chosen are as many as the target.
Enough == Cardinality({k \in Machine : Sound(k)} \ round.deact) >= round.target["weka"]

\* A backend that was in order is chosen only if enough others are left; after its first
\* stage a round chooses gateways only.
SpareInv ==
    /\ (\E m \in round.deact \ NfsMachine : ~Spoiled(round.view, m)) => Enough
    /\ round.pc # "weka" => round.deact \subseteq NfsMachine

\* Faults are counted and never taken back.
LEMMA FaultsGrow == ASSUME TypeInv, [Next]_vars, faults' = 0 PROVE faults = 0
<1>1. faults' \in {faults, faults + 1}
  <2>1. CASE RoundStep
    BY <2>1 DEF RoundStep, Fetch, ListHosts, ListDrives, PlanWeka, RemoveInactive,
       DeactivateMachine, NfsLeftovers,
       ScaleNfs, HandleLeftOverHosts, ValidateDelta, ValidationSkipped, AbortRound,
       PoolExhausted, Terminate
  <2>2. CASE ClusterStep
    BY <2>2 DEF ClusterStep, Boot, Age, AddPort, InstanceLost, Join, DriveFails, DriveEmptied,
        GoDown, StaysDown, ComeBack, Deactivated, Stopped, Forgotten, SetDesired
  <2> QED BY <2>1, <2>2 DEF Next, vars
<1> QED BY <1>1 DEF TypeInv

\* None of the steps by which something breaks on its own.
NoFault ==
    /\ ~PoolExhausted
    /\ \A m \in Machine : ~InstanceLost(m) /\ \A d \in Drive : ~DriveFails(m, d)
    /\ \A h \in Host : ~GoDown(h)

\* While none is counted, nothing has broken and nothing breaks.
LEMMA CalmStepHasNoFault == ASSUME TypeInv, [Next]_vars, faults' = 0 PROVE faults = 0 /\ NoFault
<1>1. faults = 0
  BY FaultsGrow
<1> QED BY <1>1 DEF NoFault, PoolExhausted, InstanceLost, DriveFails, GoDown

\* No container of a backend goes down without a fault: Terminate hits none in use.
LEMMA CalmStatus ==
    ASSUME SafeInv, CalmCluster, [Next]_vars, NoFault, NEW h \in Host, h[1] \notin NfsMachine
    PROVE  cont'[h].Status # "DOWN" /\ (cont'[h].State = "ACTIVE" => cont'[h].Status = "UP")
<1> USE DEF CalmCluster, cluster, cloud
<1>0. TypeInv
  BY DEF SafeInv
<1>1. CASE cont' = cont
  BY <1>1
<1>2. ASSUME NEW m, NEW exec, NEW ok, NEW gone, RemoveInactive(m, exec, ok, gone)
      PROVE  cont'[h].Status # "DOWN" /\ (cont'[h].State = "ACTIVE" => cont'[h].Status = "UP")
  BY <1>0, <1>2 DEF RemoveInactive, TypeInv, Container
<1>3. ASSUME NEW m, NEW off, NEW port, NEW host, DeactivateMachine(m, off, port, host)
      PROVE  cont'[h].Status # "DOWN" /\ (cont'[h].State = "ACTIVE" => cont'[h].Status = "UP")
  BY <1>0, <1>3 DEF DeactivateMachine, TypeInv, Container
<1>4. CASE Terminate
  <2>1. h[1] \in Targets \cap round.old /\ cont[h].State \in {"ACTIVE", "DEACTIVATING"} => h[1] \in NfsMachine
    <3>1. h[2] \in Containers(h[1]) /\ h = <<h[1], h[2]>>
      BY DEF Host
    <3> QED BY <1>4, <3>1, BackendSpared DEF Terminate, InUse
  <2> QED BY <1>0, <1>4, <2>1 DEF Terminate, TypeInv, Container
<1>5. ASSUME NEW m \in Machine, NEW c \in Containers(m), Join(m, c)
      PROVE  cont'[h].Status # "DOWN" /\ (cont'[h].State = "ACTIVE" => cont'[h].Status = "UP")
  BY <1>0, <1>5 DEF Join, SetCont, TypeInv, Container
<1>6. ASSUME NEW g \in Host, ComeBack(g)
      PROVE  cont'[h].Status # "DOWN" /\ (cont'[h].State = "ACTIVE" => cont'[h].Status = "UP")
  BY <1>0, <1>6 DEF ComeBack, SetCont, TypeInv, Container
<1>7. ASSUME NEW g \in Host, Deactivated(g) \/ Stopped(g) \/ Forgotten(g)
      PROVE  cont'[h].Status # "DOWN" /\ (cont'[h].State = "ACTIVE" => cont'[h].Status = "UP")
  <2>1. CASE Deactivated(g)
    BY <1>0, <2>1 DEF Deactivated, SetCont, TypeInv, Container
  <2>2. CASE Stopped(g)
    BY <1>0, <2>2 DEF Stopped, SetCont, TypeInv, Container
  <2>3. CASE Forgotten(g)
    BY <1>0, <2>3 DEF Forgotten, SetCont, TypeInv, Container
  <2> QED BY <1>7, <2>1, <2>2, <2>3
<1>9. CASE RoundStep
  BY <1>1, <1>2, <1>3, <1>4, <1>9
     DEF RoundStep, Fetch, ListHosts, ListDrives, PlanWeka, NfsLeftovers, ScaleNfs,
        HandleLeftOverHosts,
         ValidateDelta, ValidationSkipped, AbortRound, PoolExhausted
<1>10. CASE ClusterStep
  BY <1>1, <1>5, <1>6, <1>7, <1>10
     DEF ClusterStep, NoFault, Boot, Age, AddPort, DriveFails, DriveEmptied, StaysDown, SetDesired
<1> QED BY <1>1, <1>9, <1>10 DEF Next, vars

\* How one drive of a backend may change in a step in which nothing breaks.
DriveMoves(m, d) ==
    \/ drive'[m][d] = drive[m][d]
    \/ /\ drive'[m][d] = "active" /\ cont[<<m, "drive">>].State = "ABSENT"
       /\ cont'[<<m, "drive">>].State = "ACTIVE"
       /\ round.view.cont[<<m, "drive">>].State = "ABSENT" /\ round' = round
    \/ drive'[m][d] \in {"removing", "removed"} /\ round.pc \in Working /\ m \in round.deact
    \/ drive[m][d] = "removing" /\ drive'[m][d] = "removed" /\ cont' = cont
    \/ drive'[m][d] \in {"none", "orphan"}

\* Every step without a fault moves each drive of a backend in one of these ways.
LEMMA DriveMovesCalmly ==
    ASSUME TypeInv, [Next]_vars, NoFault, NEW m \in Backend, NEW d \in Drive
    PROVE  DriveMoves(m, d)
<1> USE DEF cluster, cloud, Backend
<1>0. <<m, "drive">> \in Host
  BY MachineAssumption DEF Host, Containers, ContainerName
<1>1. CASE drive' = drive
  BY <1>1 DEF DriveMoves
<1>2. ASSUME NEW k, NEW exec, NEW ok, NEW gone, RemoveInactive(k, exec, ok, gone)
      PROVE  DriveMoves(m, d)
  BY <1>2 DEF RemoveInactive, DriveMoves, TypeInv
<1>3. ASSUME NEW k, NEW off, NEW port, NEW host, DeactivateMachine(k, off, port, host)
      PROVE  DriveMoves(m, d)
  BY <1>3 DEF DeactivateMachine, DriveMoves, TypeInv
<1>4. ASSUME NEW gone, PlanWeka(gone) PROVE DriveMoves(m, d)
  BY <1>4 DEF PlanWeka, DriveMoves, TypeInv
<1>5. ASSUME NEW k \in Machine, NEW c \in Containers(k), Join(k, c) PROVE DriveMoves(m, d)
  BY <1>0, <1>1, <1>5 DEF Join, SetCont, DriveMoves, TypeInv
<1>6. ASSUME NEW k \in Machine, NEW e \in Drive, DriveEmptied(k, e) PROVE DriveMoves(m, d)
  BY <1>6 DEF DriveEmptied, DriveMoves, TypeInv
<1>7. ASSUME NEW g \in Host, Forgotten(g) PROVE DriveMoves(m, d)
  BY <1>7 DEF Forgotten, DriveMoves, TypeInv
<1>9. CASE RoundStep
  BY <1>1, <1>2, <1>3, <1>4, <1>9
     DEF RoundStep, Fetch, ListHosts, ListDrives, NfsLeftovers, ScaleNfs, HandleLeftOverHosts,
         ValidateDelta, ValidationSkipped, AbortRound, PoolExhausted, Terminate
<1>10. CASE ClusterStep
  BY <1>1, <1>5, <1>6, <1>7, <1>10
     DEF ClusterStep, NoFault, Boot, Age, AddPort, StaysDown, ComeBack, Deactivated, Stopped,
        SetDesired
<1> QED BY <1>1, <1>9, <1>10 DEF Next, vars

\* A container that is not in Weka owns no drives: it leaves them behind when it goes.
LEMMA BareStep ==
    ASSUME TypeInv, CalmCluster, [Next]_vars, NoFault, NEW m \in Backend, NEW d \in Drive,
           cont'[<<m, "drive">>].State = "ABSENT"
    PROVE  drive'[m][d] \in {"none", "orphan"}
<1> USE DEF cluster, cloud
<1>0. <<m, "drive">> \in Host /\ m \in Machine
  BY MachineAssumption DEF Host, Containers, ContainerName, Backend
<1>1. CASE cont[<<m, "drive">>].State = "ABSENT"
  <2>1. drive[m][d] \in {"none", "orphan"}
    BY <1>1 DEF CalmCluster
  <2>2. ASSUME NEW k, NEW off, NEW port, NEW host, DeactivateMachine(k, off, port, host)
        PROVE  drive'[m][d] \in {"none", "orphan"}
    BY <1>0, <2>1, <2>2 DEF DeactivateMachine, TypeInv
  <2>3. CASE drive' = drive
    BY <2>1, <2>3
  <2>4. ASSUME NEW k, NEW exec, NEW ok, NEW gone, RemoveInactive(k, exec, ok, gone)
        PROVE  drive'[m][d] \in {"none", "orphan"}
    BY <1>0, <2>1, <2>4 DEF RemoveInactive, TypeInv
  <2>5. ASSUME NEW gone, PlanWeka(gone) PROVE drive'[m][d] \in {"none", "orphan"}
    BY <1>0, <2>1, <2>5 DEF PlanWeka
  <2>6. ASSUME NEW k \in Machine, NEW c \in Containers(k), Join(k, c)
        PROVE  drive'[m][d] \in {"none", "orphan"}
    <3>1. <<k, c>> \in Host
      BY DEF Host, Containers, ContainerName
    <3> QED BY <1>0, <2>1, <2>6, <3>1 DEF Join, SetCont, TypeInv
  <2>7. ASSUME NEW k \in Machine, NEW e \in Drive, DriveEmptied(k, e)
        PROVE  drive'[m][d] \in {"none", "orphan"}
    BY <1>0, <2>1, <2>7 DEF DriveEmptied, TypeInv
  <2>8. ASSUME NEW g \in Host, Forgotten(g) PROVE drive'[m][d] \in {"none", "orphan"}
    BY <1>0, <2>1, <2>8 DEF Forgotten, TypeInv
  <2>9. CASE RoundStep
    BY <2>2, <2>3, <2>4, <2>5, <2>9
       DEF RoundStep, Fetch, ListHosts, ListDrives, NfsLeftovers, ScaleNfs, HandleLeftOverHosts,
           ValidateDelta, ValidationSkipped, AbortRound, PoolExhausted, Terminate
  <2>10. CASE ClusterStep
    BY <2>3, <2>6, <2>7, <2>8, <2>10
       DEF ClusterStep, NoFault, Boot, Age, AddPort, StaysDown, ComeBack, Deactivated, Stopped,
          SetDesired
  <2> QED BY <2>3, <2>9, <2>10 DEF Next, vars
<1>2. CASE cont[<<m, "drive">>].State # "ABSENT"
  <2>1. ASSUME NEW g \in Host, Forgotten(g) PROVE drive'[m][d] \in {"none", "orphan"}
    BY <1>0, <1>2, <2>1 DEF Forgotten, SetCont, TypeInv, Container
  <2>2. ASSUME NEW k, NEW off, NEW port, NEW host, DeactivateMachine(k, off, port, host)
        PROVE  FALSE
    BY <1>0, <1>2, <2>2 DEF DeactivateMachine, TypeInv, Container
  <2>3. CASE cont' = cont
    BY <1>2, <2>3
  <2>4. ASSUME NEW k, NEW exec, NEW ok, NEW gone, RemoveInactive(k, exec, ok, gone) PROVE FALSE
    BY <1>0, <1>2, <2>4 DEF RemoveInactive, TypeInv, Container
  <2>5. CASE Terminate
    BY <1>0, <1>2, <2>5 DEF Terminate, TypeInv, Container
  <2>6. ASSUME NEW k \in Machine, NEW c \in Containers(k), Join(k, c) PROVE FALSE
    BY <1>0, <1>2, <2>6 DEF Join, SetCont, TypeInv, Container
  <2>7. ASSUME NEW g \in Host, ComeBack(g) PROVE FALSE
    BY <1>0, <1>2, <2>7 DEF ComeBack, SetCont, TypeInv, Container
  <2>8. ASSUME NEW g \in Host, Deactivated(g) \/ Stopped(g) PROVE FALSE
    BY <1>0, <1>2, <2>8 DEF Deactivated, Stopped, SetCont, TypeInv, Container
  <2>9. CASE RoundStep
    BY <2>2, <2>3, <2>4, <2>5, <2>9
       DEF RoundStep, Fetch, ListHosts, ListDrives, PlanWeka, NfsLeftovers, ScaleNfs,
          HandleLeftOverHosts,
           ValidateDelta, ValidationSkipped, AbortRound, PoolExhausted
  <2>10. CASE ClusterStep
    BY <2>1, <2>3, <2>6, <2>7, <2>8, <2>10
       DEF ClusterStep, NoFault, Boot, Age, AddPort, StaysDown, DriveEmptied, SetDesired
  <2> QED BY <2>3, <2>9, <2>10 DEF Next, vars
<1> QED BY <1>1, <1>2

\* No drive fails without a fault.
LEMMA NeverFailed ==
    ASSUME TypeInv, CalmCluster, [Next]_vars, NoFault, NEW m \in Machine, NEW d \in Drive
    PROVE  drive'[m][d] # "failed"
<1> USE DEF cluster, cloud, CalmCluster
<1>1. CASE drive' = drive
  BY <1>1
<1>2. ASSUME NEW k, NEW exec, NEW ok, NEW gone, RemoveInactive(k, exec, ok, gone)
      PROVE  drive'[m][d] # "failed"
  BY <1>2 DEF RemoveInactive, TypeInv
<1>3. ASSUME NEW k, NEW off, NEW port, NEW host, DeactivateMachine(k, off, port, host)
      PROVE  drive'[m][d] # "failed"
  BY <1>3 DEF DeactivateMachine, TypeInv
<1>4. ASSUME NEW gone, PlanWeka(gone) PROVE drive'[m][d] # "failed"
  BY <1>4 DEF PlanWeka, TypeInv
<1>5. ASSUME NEW k \in Machine, NEW c \in Containers(k), Join(k, c) PROVE drive'[m][d] # "failed"
  BY <1>1, <1>5 DEF Join, TypeInv
<1>6. ASSUME NEW k \in Machine, NEW e \in Drive, DriveEmptied(k, e) PROVE drive'[m][d] # "failed"
  BY <1>6 DEF DriveEmptied, TypeInv
<1>7. ASSUME NEW g \in Host, Forgotten(g) PROVE drive'[m][d] # "failed"
  BY <1>1, <1>7 DEF Forgotten, TypeInv
<1>9. CASE RoundStep
  BY <1>1, <1>2, <1>3, <1>4, <1>9
     DEF RoundStep, Fetch, ListHosts, ListDrives, NfsLeftovers, ScaleNfs, HandleLeftOverHosts,
         ValidateDelta, ValidationSkipped, AbortRound, PoolExhausted, Terminate
<1>10. CASE ClusterStep
  BY <1>1, <1>5, <1>6, <1>7, <1>10
     DEF ClusterStep, NoFault, Boot, Age, AddPort, StaysDown, ComeBack, Deactivated, Stopped,
        SetDesired
<1> QED BY <1>1, <1>9, <1>10 DEF Next, vars

\* Every step without a fault keeps CalmCluster.
LEMMA CalmClusterStep == ASSUME SafeInv, CalmCluster, [Next]_vars, NoFault PROVE CalmCluster'
<1>1. TypeInv
  BY DEF SafeInv
<1> QED BY <1>1, CalmStatus, BareStep, NeverFailed DEF CalmCluster

\* Without a fault the pool lasts, and the instances the round was called with are there
\* until it ends.
LEMMA HeldMachines ==
    ASSUME TypeInv, [Next]_vars, NoFault, round.live, CloudInstances \subseteq alive
    PROVE  round'.live /\ (CloudInstances \subseteq alive)'
<1> USE DEF TypeInv, Round
<1>1. CASE round' = NoRound
  BY <1>1 DEF NoRound, CloudInstances, Group
<1>2. ASSUME round'.inst = round.inst, round'.live = round.live, alive \subseteq alive'
      PROVE  round'.live /\ (CloudInstances \subseteq alive)'
  BY <1>2 DEF CloudInstances
<1>3. CASE Fetch
  <2>1. round'.live /\ alive' = alive
    BY <1>3 DEF Fetch, NoRound, cloud
  <2>2. round'.inst["weka"] \subseteq alive /\ round'.inst["nfs"] \subseteq alive
    BY <1>3 DEF Fetch, NoRound, Group
  <2> QED BY <2>1, <2>2 DEF CloudInstances
<1>4. CASE RoundStep /\ ~Fetch
  <2>1. CASE Terminate \/ AbortRound
    BY <1>1, <2>1 DEF Terminate, AbortRound
  <2>2. CASE ListHosts
    BY <1>1, <1>2, <2>2 DEF ListHosts, cloud
  <2>3. CASE ListDrives
    BY <1>2, <2>3 DEF ListDrives, cloud
  <2>4. ASSUME NEW gone, PlanWeka(gone) PROVE round'.live /\ (CloudInstances \subseteq alive)'
    BY <1>2, <2>4 DEF PlanWeka, ScaleHgDown, cloud
  <2>5. ASSUME NEW m, NEW exec, NEW ok, NEW gone, RemoveInactive(m, exec, ok, gone)
        PROVE  round'.live /\ (CloudInstances \subseteq alive)'
    BY <1>2, <2>5 DEF RemoveInactive, cloud
  <2>6. ASSUME NEW m, NEW off, NEW port, NEW host, DeactivateMachine(m, off, port, host)
        PROVE  round'.live /\ (CloudInstances \subseteq alive)'
    BY <1>2, <2>6 DEF DeactivateMachine, cloud
  <2>7. CASE NfsLeftovers
    BY <1>2, <2>7 DEF NfsLeftovers, cloud
  <2>8. CASE ScaleNfs
    BY <1>2, <2>8 DEF ScaleNfs, ScaleHgDown, cloud
  <2>9. CASE HandleLeftOverHosts
    BY <1>2, <2>9 DEF HandleLeftOverHosts, cloud
  <2>10. CASE ValidateDelta
    BY <1>1, <1>2, <2>10 DEF ValidateDelta, cloud
  <2>11. CASE ValidationSkipped
    BY <1>2, <2>11 DEF ValidationSkipped, cloud
  <2> QED
    BY <1>4, <2>1, <2>2, <2>3, <2>4, <2>5, <2>6, <2>7, <2>8, <2>9, <2>10, <2>11
       DEF RoundStep, NoFault
<1>5. CASE ClusterStep
  BY <1>2, <1>5 DEF ClusterStep, NoFault, Boot, Age, AddPort, Join, DriveEmptied,
        StaysDown, ComeBack, Deactivated, Stopped, Forgotten, SetDesired, cloud
<1> QED BY <1>2, <1>3, <1>4, <1>5 DEF Next, vars, cloud

\* Every step without a fault keeps CalmHosts, ...
LEMMA CalmHostsStep ==
    ASSUME TypeInv, CalmCluster, [Next]_vars, round.pc \notin {"idle", "hosts"} => CalmHosts,
           round'.pc \notin {"idle", "hosts"}
    PROVE  CalmHosts'
<1>1. CASE ListHosts /\ round' = [round EXCEPT !.pc = "drives", !.view.cont = cont]
  <2>1. cont' = cont /\ round'.view.cont = cont
    BY <1>1 DEF ListHosts, cluster, TypeInv, Round, View
  <2> QED BY <2>1 DEF CalmHosts, CalmCluster
<1>2. CASE SameReading
  <2>1. CalmHosts /\ round'.view.cont = round.view.cont
    BY <1>2 DEF SameReading
  <2>2. ASSUME NEW h \in Host, round'.view.cont[h].State \notin {"ABSENT", "ACTIVE"}
        PROVE  cont'[h].State # "ACTIVE"
    <3>1. Moves(h) /\ cont[h].State # "ACTIVE" /\ round.view.cont[h].State # "ABSENT"
      BY <2>1, <2>2, ContainerMoves DEF CalmHosts
    <3> QED BY <3>1 DEF Moves
  <2> QED BY <2>1, <2>2 DEF CalmHosts
<1> QED BY <1>1, <1>2, ReadingMoves

\* ... CalmDrives, ...
LEMMA CalmDrivesStep ==
    ASSUME TypeInv, CalmCluster, [Next]_vars, NoFault, round.live,
           round.pc \notin {"idle", "hosts", "drives"} => CalmDrives,
           round'.pc \notin {"idle", "hosts", "drives"}
    PROVE  CalmDrives'
<1>0. SameReading
  BY ReadingMoves DEF TypeInv, Round
<1>1. CASE ListDrives
  <2>1. drive' = drive /\ round'.view.drive = drive
    BY <1>1 DEF ListDrives, cluster, TypeInv, Round, View
  <2> QED BY <2>1 DEF CalmDrives, CalmCluster, Backend
<1>2. CASE ~ListDrives
  <2>1. CalmDrives /\ round'.view.cont = round.view.cont /\ round'.view.drive = round.view.drive
    BY <1>0, <1>2 DEF SameReading
  <2>2. ASSUME NEW m \in Backend, NEW d \in Drive, round'.view.cont[<<m, "drive">>].State # "ABSENT",
               round'.view.drive[m][d] \in {"removing", "removed"}
        PROVE  drive'[m][d] # "active"
    <3>1. /\ DriveMoves(m, d) /\ drive[m][d] # "active"
          /\ round.view.cont[<<m, "drive">>].State # "ABSENT"
      BY <2>1, <2>2, DriveMovesCalmly DEF CalmDrives
    <3> QED BY <3>1 DEF DriveMoves
  <2> QED BY <2>1, <2>2 DEF CalmDrives
<1> QED BY <1>1, <1>2

\* ... PlanHosts, ...
LEMMA PlanHostsStep ==
    ASSUME TypeInv, CalmCluster, [Next]_vars, NoFault,
           round.pc \in {"drives", "plan"} => PlanHosts, round'.pc \in {"drives", "plan"}
    PROVE  PlanHosts'
<1>1. CASE ListHosts /\ round' = [round EXCEPT !.pc = "drives", !.view.cont = cont]
  <2>1. cont' = cont /\ drive' = drive
    BY <1>1 DEF ListHosts, cluster
  <2>2. round'.view.cont = cont
    BY <1>1 DEF TypeInv, Round, View
  <2> QED BY <2>1, <2>2 DEF PlanHosts, CalmCluster, Kept
<1>2. CASE SameReading
  <2>1. PlanHosts /\ round'.view.cont = round.view.cont /\ round.pc \notin Working
    BY <1>2 DEF SameReading
  <2>2. ASSUME NEW h \in Host
        PROVE  /\ round'.view.cont[h].State = "ACTIVE" => cont'[h].State = "ACTIVE"
               /\ round'.view.cont[h].State = "ABSENT" => cont'[h].State \in {"ABSENT", "ACTIVE"}
    BY <2>1, ContainerMoves DEF PlanHosts, Moves
  <2>3. ASSUME NEW m \in Backend, round'.view.cont[<<m, "drive">>].State = "ABSENT", NEW d \in Drive
        PROVE  drive'[m][d] \in Kept
    <3>1. DriveMoves(m, d) /\ drive[m][d] \in Kept
      BY <2>1, <2>3, DriveMovesCalmly DEF PlanHosts
    <3> QED BY <2>1, <3>1 DEF DriveMoves, Kept
  <2> QED BY <2>1, <2>2, <2>3 DEF PlanHosts
<1> QED BY <1>1, <1>2, ReadingMoves

\* ... PlanDrives, ...
LEMMA PlanDrivesStep ==
    ASSUME TypeInv, CalmCluster, [Next]_vars, NoFault, round.live,
           round.pc = "plan" => PlanDrives, round'.pc = "plan"
    PROVE  PlanDrives'
<1>0. SameReading
  <2>1. round' = [round EXCEPT !.pc = "drives", !.view.cont = cont] => round'.pc = "drives"
    BY DEF TypeInv, Round
  <2> QED BY <2>1, ReadingMoves
<1>1. CASE ListDrives
  <2>1. drive' = drive /\ round'.view.drive = drive
    BY <1>1 DEF ListDrives, cluster, TypeInv, Round, View
  <2> QED BY <2>1 DEF PlanDrives
<1>2. CASE ~ListDrives
  <2>1. round.pc = "plan" /\ PlanDrives /\ round'.view.drive = round.view.drive
    BY <1>0, <1>2 DEF SameReading
  <2>2. ASSUME NEW m \in Backend, NEW d \in Drive, round'.view.drive[m][d] \in Kept
        PROVE  drive'[m][d] \in Kept
    <3>1. DriveMoves(m, d) /\ drive[m][d] \in Kept
      BY <2>1, <2>2, DriveMovesCalmly DEF PlanDrives
    <3> QED BY <2>1, <3>1 DEF DriveMoves, Kept
  <2> QED BY <2>2 DEF PlanDrives
<1> QED BY <1>1, <1>2

\* ... and so all a round knows.
LEMMA CalmViewStep ==
    ASSUME SafeInv, CalmCluster, CalmView, [Next]_vars, NoFault
    PROVE  CalmView'
<1>1. TypeInv
  BY DEF SafeInv
<1> QED
  BY <1>1, HeldMachines, CalmHostsStep, CalmDrivesStep, PlanHostsStep, PlanDrivesStep DEF CalmView

-----------------------------------------------------------------------------

\* The machines in order.
SoundMachines == {k \in Machine : Sound(k)}

\* Without a fault, a sound machine the round has not chosen stays sound.
LEMMA SoundStays ==
    ASSUME SafeInv, CalmCluster, [Next]_vars, NoFault, NEW k \in SoundMachines, k \notin round.deact
    PROVE  k \in SoundMachines'
<1>0. TypeInv /\ k \in Backend /\ Sound(k) /\ k \in alive
  BY DEF SafeInv, SoundMachines, Sound, Backend
<1>1. ASSUME NEW h \in Host, h[1] = k, cont'[h].State # "ABSENT"
      PROVE  cont'[h] = [State |-> "ACTIVE", Status |-> "UP"]
  <2>1. Moves(h) /\ cont[h].State \in {"ABSENT", "ACTIVE"}
    BY <1>0, <1>1, ContainerMoves DEF Sound
  <2>2. cont'[h].State = "ACTIVE"
    BY <1>1, <2>1 DEF Moves
  <2>3. cont'[h].Status = "UP"
    BY <1>0, <1>1, <2>2, CalmStatus DEF Backend
  <2>4. cont'[h] \in Container
    BY <1>0, TypedStep DEF TypeInv, SafeInv
  <2> QED BY <2>2, <2>3, <2>4 DEF Container
<1>2. \E h \in Host : h[1] = k /\ cont'[h].State # "ABSENT"
  <2>1. PICK h \in Host : h[1] = k /\ cont[h].State = "ACTIVE"
    BY <1>0 DEF Sound
  <2> QED BY <1>0, <2>1, ContainerMoves DEF Moves
<1>3. ASSUME NEW d \in Drive PROVE drive'[k][d] \in Kept
  <2>1. drive[k][d] \in Kept /\ DriveMoves(k, d)
    BY <1>0, DriveMovesCalmly DEF Sound, Kept
  <2>2. CASE drive[k][d] = "removing"
    BY <2>1, <2>2 DEF Kept
  <2> QED BY <2>1, <2>2 DEF DriveMoves, Kept
<1>4. k \in alive'
  <2>1. CASE Terminate
    <3>1. InUse(k)
      <4>1. PICK h \in Host : h[1] = k /\ cont[h].State = "ACTIVE"
        BY <1>0 DEF Sound
      <4>2. h = <<k, h[2]>> /\ h[2] \in Containers(k)
        BY <4>1 DEF Host
      <4> QED BY <4>1, <4>2 DEF InUse
    <3> QED BY <1>0, <2>1, <3>1, BackendSpared DEF Terminate, Backend
  <2>2. CASE RoundStep /\ ~Terminate
    BY <1>0, <2>2 DEF RoundStep, Fetch, ListHosts, ListDrives, PlanWeka, RemoveInactive,
       DeactivateMachine,
       NfsLeftovers, ScaleNfs, HandleLeftOverHosts, ValidateDelta, ValidationSkipped, AbortRound,
       PoolExhausted, cloud
  <2>3. CASE ClusterStep
    BY <1>0, <2>3 DEF ClusterStep, NoFault, Boot, Age, AddPort, Join, DriveEmptied,
        StaysDown, ComeBack, Deactivated, Stopped, Forgotten, SetDesired, cloud
  <2> QED BY <1>0, <2>1, <2>2, <2>3 DEF Next, vars, cloud
<1>5. (Sound(k))'
  BY <1>0, <1>1, <1>2, <1>3, <1>4 DEF Sound, Backend, Kept
<1> QED BY <1>0, <1>5 DEF SoundMachines, Backend

\* A host is in one of three states.
LEMMA States ==
    ASSUME NEW v, NEW h
    PROVE  deriveHostState(v, h) \in {DEACTIVATING, UNHEALTHY, HEALTHY}
BY DEF deriveHostState

\* A machine is healthy if all its hosts are.
LEMMA HealthyHosts ==
    ASSUME NEW v, NEW L, NEW m \in MachinesOf(L)
    PROVE  m \in HealthyMachines(v, L) <=> \A h \in L : h[1] = m => deriveHostState(v, h) = HEALTHY
<1>1. DEACTIVATING # HEALTHY /\ UNHEALTHY # HEALTHY
  BY DEF DEACTIVATING, UNHEALTHY, HEALTHY
<1> QED
  BY <1>1, States DEF HealthyMachines, UnhealthyMachines, DeactivatingMachines, MachineStates

\* The sorted list puts the hosts that are not healthy first: if a healthy machine is
\* chosen, every machine that is not healthy is.
LEMMA WorstFirst ==
    ASSUME NEW v, NEW L, NEW n, NEW S \in SUBSET MachinesOf(L), FirstMachines(v, L, n, S),
           NEW a \in S \cap HealthyMachines(v, L)
    PROVE  MachinesOf(L) \ HealthyMachines(v, L) \subseteq S
<1> SUFFICES ASSUME NEW b \in MachinesOf(L) \ S, b \notin HealthyMachines(v, L) PROVE FALSE
  OBVIOUS
<1>1. PICK h \in L : h[1] = a /\ \A k \in L : k[1] = b => HostBefore(v, h, k)
  BY DEF FirstMachines, MachineBefore
<1>2. PICK k \in L : k[1] = b /\ deriveHostState(v, k) # HEALTHY
  BY HealthyHosts
<1>3. deriveHostState(v, h) = HEALTHY
  BY <1>1, HealthyHosts
<1>4. deriveHostState(v, k) \in {DEACTIVATING, UNHEALTHY}
  BY <1>2, States
<1>5. HostBefore(v, h, k)
  BY <1>1, <1>2
<1> QED BY <1>3, <1>4, <1>5 DEF HostBefore, DEACTIVATING, UNHEALTHY, HEALTHY

\* The sizes of two disjoint sets add up.
LEMMA TwoParts ==
    ASSUME NEW X, NEW Y, IsFiniteSet(X), IsFiniteSet(Y), X \cap Y = {}
    PROVE  /\ IsFiniteSet(X \cup Y)
           /\ Cardinality(X) \in Nat /\ Cardinality(Y) \in Nat
           /\ Cardinality(X \cup Y) = Cardinality(X) + Cardinality(Y)
<1>1. IsFiniteSet(X \cup Y) /\ Cardinality(X \cup Y) = Cardinality(X) + Cardinality(Y) - Cardinality(X \cap Y)
  BY FS_Union
<1>2. Cardinality(X) \in Nat /\ Cardinality(Y) \in Nat
  BY FS_CardinalityType
<1>3. Cardinality(X \cap Y) = 0
  BY FS_EmptySet
<1> QED BY <1>1, <1>2, <1>3

\* If a healthy machine is chosen at all, as many healthy ones as the target are left:
\* calculateDeactivateTarget counts the surplus after all the others.
LEMMA HealthyLeft ==
    ASSUME NEW v, NEW L, IsFiniteSet(MachinesOf(L)), NEW T \in Nat, NEW S \in SUBSET MachinesOf(L),
           FirstMachines(v, L, getNumToDeactivate(v, L, T), S), S \cap HealthyMachines(v, L) # {}
    PROVE  Cardinality(HealthyMachines(v, L) \ S) = T
<1> DEFINE M == MachinesOf(L)
           A == HealthyMachines(v, L)
           U == UnhealthyMachines(v, L)
           D == DeactivatingMachines(v, L)
<1>1. /\ A \subseteq M /\ U \subseteq M /\ D \subseteq M
      /\ U \cap D = {} /\ M \ A = U \cup D
  BY DEF HealthyMachines, UnhealthyMachines, DeactivatingMachines
<1>2. U \cup D \subseteq S
  BY <1>1, WorstFirst
<1>3. Cardinality(S) = CalculateDeactivateTarget(Cardinality(A), Cardinality(U), Cardinality(D), T)
  BY DEF FirstMachines, getNumToDeactivate
<1> HIDE DEF M, A, U, D
<1>4. /\ IsFiniteSet(M) /\ IsFiniteSet(A) /\ IsFiniteSet(U) /\ IsFiniteSet(D) /\ IsFiniteSet(S)
      /\ IsFiniteSet(S \cap A) /\ IsFiniteSet(A \ S)
  <2>1. IsFiniteSet(M) /\ S \subseteq M
    BY DEF M
  <2> QED BY <1>1, <2>1, FS_Subset
<1>5. Cardinality(U \cup D) = Cardinality(U) + Cardinality(D) /\ IsFiniteSet(U \cup D)
  BY <1>1, <1>4, TwoParts
<1>6. Cardinality(S) = Cardinality(U \cup D) + Cardinality(S \cap A)
  <2>1. S \subseteq M
    BY DEF M
  <2>2. S = (U \cup D) \cup (S \cap A) /\ (U \cup D) \cap (S \cap A) = {}
    BY <1>1, <1>2, <2>1
  <2>3. Cardinality((U \cup D) \cup (S \cap A)) = Cardinality(U \cup D) + Cardinality(S \cap A)
    BY <1>4, <1>5, <2>2, TwoParts
  <2> QED BY <2>2, <2>3
<1>7. Cardinality(A) = Cardinality(S \cap A) + Cardinality(A \ S)
  <2>1. A = (S \cap A) \cup (A \ S) /\ (S \cap A) \cap (A \ S) = {}
    OBVIOUS
  <2>2. Cardinality((S \cap A) \cup (A \ S)) = Cardinality(S \cap A) + Cardinality(A \ S)
    BY <1>4, <2>1, TwoParts
  <2> QED BY <2>1, <2>2
<1>8. Cardinality(S \cap A) # 0
  <2>1. S \cap A # {}
    BY DEF A
  <2> QED BY <1>4, <2>1, FS_EmptySet
<1>9. /\ Cardinality(A) \in Nat /\ Cardinality(U) \in Nat /\ Cardinality(D) \in Nat /\ Cardinality(S) \in Nat
      /\ Cardinality(S \cap A) \in Nat /\ Cardinality(A \ S) \in Nat
  BY <1>4, FS_CardinalityType
<1>10. Cardinality(S) - (Cardinality(U) + Cardinality(D)) = Cardinality(A) - T
  <2>1. CalculateDeactivateTarget(Cardinality(A), Cardinality(U), Cardinality(D), T) > Cardinality(U) + Cardinality(D)
    BY <1>3, <1>5, <1>6, <1>8, <1>9
  <2> QED BY <1>3, <1>9, <2>1, OnlySurplusHealthy
<1> QED BY <1>5, <1>6, <1>7, <1>9, <1>10 DEF A

\* A machine that counts as healthy when the plan is made is sound at that moment, though
\* its hosts and its drives were read earlier, one after the other.
LEMMA PlannedSound ==
    ASSUME SafeInv, CalmCluster, CalmView, round.pc = "plan",
           NEW H, H = getHostGroupHosts(round.view, round.inst["weka"]),
           NEW k \in HealthyMachines(round.view, HostsList(round.view, H))
    PROVE  k \in SoundMachines
<1> DEFINE v == round.view
           L == HostsList(v, H)
<1> USE DEF Working
<1>0. TypeInv /\ KnownInv /\ CalmHosts /\ CalmDrives /\ PlanHosts /\ PlanDrives
  BY DEF SafeInv, CalmView
<1>1. k \in MachinesOf(L)
  BY DEF HealthyMachines
<1>2. PICK g \in L : g[1] = k
  BY <1>1 DEF MachinesOf
<1>3. g \in Host /\ k \in round.inst["weka"] /\ \A h \in Host : h[1] = k /\ h \in Listed(v) => h \in L
  BY <1>2 DEF HostsList, getHostGroupHosts, belongsToHgIpBased, Listed
<1>4. k \in Backend /\ k \in alive /\ k \in Machine
  BY <1>0, <1>3 DEF KnownInv, TypeInv, Round, Backend, CalmView, CloudInstances, Group
<1>5. \A h \in Host : h[1] = k /\ h \in Listed(v) => deriveHostState(v, h) = HEALTHY
  BY <1>1, <1>3, HealthyHosts
<1>6. ASSUME NEW h \in Host, h[1] = k, h \in Listed(v)
      PROVE  /\ v.cont[h].State = "ACTIVE"
             /\ ~anyDiskBeingRemoved(v, h)
  <2>1. v.cont[h].State \in ContState \ {"ABSENT"}
    BY <1>0, <1>6 DEF TypeInv, Round, View, Container, Listed
  <2> QED BY <1>5, <1>6, <2>1 DEF deriveHostState, DEACTIVATING, UNHEALTHY, HEALTHY, ContState
<1>7. ASSUME NEW h \in Host, h[1] = k, cont[h].State # "ABSENT"
      PROVE  cont[h] = [State |-> "ACTIVE", Status |-> "UP"]
  <2>1. v.cont[h].State \in {"ABSENT", "ACTIVE"}
    BY <1>6, <1>7 DEF Listed
  <2>2. cont[h].State = "ACTIVE"
    BY <1>0, <1>7, <2>1 DEF PlanHosts
  <2>3. cont[h].Status = "UP"
    BY <1>4, <1>7, <2>2 DEF CalmCluster, Backend
  <2> QED BY <1>0, <2>2, <2>3 DEF TypeInv, Container
<1>8. ASSUME NEW d \in Drive PROVE drive[k][d] \in Kept
  <2> DEFINE h == <<k, "drive">>
  <2>1. h \in Host
    BY <1>4, MachineAssumption DEF Backend, Host, Containers, ContainerName
  <2>2. CASE h \notin Listed(v)
    BY <1>0, <1>4, <2>1, <2>2 DEF Listed, PlanHosts
  <2>3. CASE h \in Listed(v)
    <3>1. d \in DrivesOf(v, h) => v.drive[k][d] \in {"active", "failed"}
      BY <1>6, <2>1, <2>3 DEF anyDiskBeingRemoved, ShouldBeActive
    <3>2. v.drive[k][d] # "failed"
      BY <1>0, <1>4 DEF CalmDrives
    <3>3. v.drive[k][d] \in Kept
      BY <3>1, <3>2 DEF DrivesOf, Kept
    <3> QED BY <1>0, <1>4, <3>3 DEF PlanDrives
  <2> QED BY <2>2, <2>3
<1>9. cont[g].State # "ABSENT"
  <2>1. v.cont[g].State = "ACTIVE"
    BY <1>2, <1>3, <1>6 DEF HostsList, getHostGroupHosts
  <2> QED BY <1>0, <1>3, <2>1 DEF PlanHosts
<1> QED BY <1>2, <1>3, <1>4, <1>7, <1>8, <1>9 DEF SoundMachines, Sound, Backend, Kept

\* A machine that does not count as healthy was out of order when it was read.
LEMMA Unhealthy ==
    ASSUME SafeInv, CalmHosts, CalmDrives, NEW H, NEW I, I \cap NfsMachine = {},
           H = getHostGroupHosts(round.view, I), round.pc = "plan",
           NEW m \in MachinesOf(HostsList(round.view, H)),
           m \notin HealthyMachines(round.view, HostsList(round.view, H))
    PROVE  Spoiled(round.view, m)
<1> DEFINE v == round.view
           L == HostsList(v, H)
<1>0. TypeInv
  BY DEF SafeInv
<1>1. PICK h \in L : h[1] = m /\ deriveHostState(v, h) # HEALTHY
  BY HealthyHosts
<1>2. h \in Host /\ h \in Listed(v) /\ m \in Machine /\ m \notin NfsMachine /\ h = <<h[1], h[2]>>
  BY <1>1 DEF HostsList, getHostGroupHosts, belongsToHgIpBased, Listed, Host
<1>3. v.cont[h].State \in ContState \ {"ABSENT"} /\ v.cont[h].Status # "DOWN"
  BY <1>0, <1>1, <1>2 DEF TypeInv, Round, View, Container, Listed, CalmHosts
<1>4. CASE v.cont[h].State # "ACTIVE"
  BY <1>1, <1>2, <1>3, <1>4 DEF Spoiled
<1>5. CASE v.cont[h].State = "ACTIVE"
  <2>1. h[2] = "drive" /\ \E d \in DrivesOf(v, h) : v.drive[m][d] \notin {"active", "failed"} \/ v.drive[m][d] \in {"failed", "removed"}
    <3> DEFINE Bad == {d \in DrivesOf(v, h) : v.drive[h[1]][d] \in {"failed", "removed"}}
    <3>1. \/ allDisksBeingRemoved(v, h) /\ h[2] = "drive"
          \/ numNotHealthyDrives(v, h) > 0
          \/ anyDiskBeingRemoved(v, h)
      BY <1>1, <1>3, <1>5 DEF deriveHostState
    <3>2. numNotHealthyDrives(v, h) > 0 => Bad # {}
      <4>1. Bad = {} => numNotHealthyDrives(v, h) = 0
        BY FS_EmptySet DEF numNotHealthyDrives
      <4> QED BY <4>1
    <3>3. CASE Bad # {}
      <4>1. PICK d \in Bad : TRUE
        BY <3>3
      <4> QED BY <1>1, <4>1 DEF DrivesOf
    <3>4. CASE DrivesOf(v, h) # {} /\ ShouldBeActive(v, h) = {}
      <4>1. PICK d \in DrivesOf(v, h) : TRUE
        BY <3>4
      <4>2. d \notin ShouldBeActive(v, h)
        BY <3>4
      <4> QED BY <1>1, <4>1, <4>2 DEF DrivesOf, ShouldBeActive
    <3>5. CASE ShouldBeActive(v, h) # DrivesOf(v, h)
      <4>1. PICK d \in DrivesOf(v, h) : d \notin ShouldBeActive(v, h)
        BY <3>5 DEF ShouldBeActive
      <4> QED BY <1>1, <4>1 DEF DrivesOf, ShouldBeActive
    <3> QED BY <3>1, <3>2, <3>3, <3>4, <3>5 DEF allDisksBeingRemoved, anyDiskBeingRemoved
  <2>2. PICK d \in DrivesOf(v, h) : v.drive[m][d] \notin {"active", "failed"} \/ v.drive[m][d] \in {"failed", "removed"}
    BY <2>1
  <2>3. d \in Drive /\ v.drive[m][d] \notin {"none", "orphan"}
    BY <1>1, <2>1, <2>2 DEF DrivesOf
  <2>4. v.drive[m][d] \in DriveState /\ v.drive[m][d] # "failed"
    <3>1. v.drive[m][d] \in DriveState
      BY <1>0, <1>2, <2>3 DEF TypeInv, Round, View
    <3>2. v.drive[m][d] # "failed"
      BY <1>2, <2>3 DEF CalmDrives, Backend
    <3> QED BY <3>1, <3>2
  <2>5. v.drive[m][d] \in {"removing", "removed"}
    BY <2>2, <2>3, <2>4 DEF DriveState
  <2>6. v.cont[<<m, "drive">>].State # "ABSENT"
    BY <1>1, <1>2, <1>3, <2>1
  <2> QED BY <2>3, <2>5, <2>6 DEF Spoiled
<1> QED BY <1>4, <1>5

\* There are finitely many machines.
LEMMA MachinesFinite == \A S \in SUBSET Machine : IsFiniteSet(S)
BY MachineAssumption, FS_Subset

\* A step that chooses no other machine leaves enough.
LEMMA EnoughKept ==
    ASSUME SafeInv, CalmCluster, [Next]_vars, NoFault, Enough,
           round'.target = round.target,
           \A k \in SoundMachines : k \notin round.deact => k \notin round'.deact
    PROVE  Enough'
<1>1. SoundMachines \ round.deact \subseteq SoundMachines' \ round'.deact
  BY SoundStays
<1>2. SoundMachines' \ round'.deact \in SUBSET Machine
  BY DEF SoundMachines
<1> DEFINE X == SoundMachines \ round.deact
           Y == SoundMachines' \ round'.deact
<1>3. Cardinality(X) <= Cardinality(Y) /\ Cardinality(X) \in Nat /\ Cardinality(Y) \in Nat
  <2> HIDE DEF X, Y
  <2>1. X \subseteq Y /\ IsFiniteSet(Y)
    BY <1>1, <1>2, MachinesFinite DEF X, Y
  <2> QED BY <2>1, FS_Subset, FS_CardinalityType
<1>4. round.target["weka"] \in Nat
  BY DEF SafeInv, TypeInv, Round, Group
<1>5. Cardinality(X) >= round.target["weka"]
  BY DEF Enough, SoundMachines
<1>6. Cardinality(Y) >= round'.target["weka"]
  BY <1>3, <1>4, <1>5
<1> QED BY <1>6 DEF Enough, SoundMachines

\* The plan for the backends leaves enough.
LEMMA PlanSpares ==
    ASSUME SafeInv, CalmCluster, CalmView, [Next]_vars, NoFault, NEW gone, PlanWeka(gone)
    PROVE  SpareInv'
<1> USE DEF Working
<1>0. TypeInv /\ KnownInv /\ CalmHosts /\ CalmDrives /\ round.pc = "plan" /\ round.deact = {}
  BY DEF SafeInv, CalmView, PlanWeka, FreshInv
<1> DEFINE H == getHostGroupHosts(round.view, round.inst["weka"])
           r == [round EXCEPT !.clean = @ /\ gone = OldDrives(round.view)]
           v == round.view
           L == HostsList(v, H)
           T == round.target["weka"]
<1>1. r.view = v
  BY <1>0 DEF TypeInv, Round
<1>2. PICK S : ScaleHgDown(r, "weka", H, T, S)
  BY DEF PlanWeka
<1>3. round'.pc = "weka" /\ round'.deact = S /\ round'.view = v /\ round'.target = round.target
  BY <1>0, <1>2 DEF ScaleHgDown, TypeInv, Round
<1>4. S \subseteq MachinesOf(L) /\ FirstMachines(v, L, getNumToDeactivate(v, L, T), S)
  BY <1>1, <1>2 DEF ScaleHgDown
<1>5. MachinesOf(L) \subseteq Machine /\ T \in Nat
  <2>1. MachinesOf(L) \subseteq Machine
    BY DEF MachinesOf, HostsList, getHostGroupHosts, Listed, Host
  <2>2. T \in Nat
    BY <1>0 DEF TypeInv, Round, Group
  <2> QED BY <2>1, <2>2
<1> SUFFICES ASSUME NEW m \in round'.deact \ NfsMachine, ~Spoiled(round'.view, m) PROVE Enough'
  BY <1>3 DEF SpareInv
<1>6. m \in S \cap HealthyMachines(v, L)
  <2>1. round.inst["weka"] \cap NfsMachine = {}
    BY <1>0 DEF KnownInv
  <2> QED BY <1>0, <1>3, <1>4, <2>1, Unhealthy
<1>7. Cardinality(HealthyMachines(v, L) \ S) = T
  BY <1>4, <1>5, <1>6, HealthyLeft, MachinesFinite
<1>8. HealthyMachines(v, L) \ S \subseteq SoundMachines' \ round'.deact
  BY <1>0, <1>3, PlannedSound, SoundStays
<1> DEFINE X == HealthyMachines(v, L) \ S
           Y == SoundMachines' \ round'.deact
<1>9. Cardinality(X) <= Cardinality(Y) /\ Cardinality(Y) \in Nat
  <2>1. Y \in SUBSET Machine
    BY DEF SoundMachines
  <2> HIDE DEF X, Y
  <2>2. X \subseteq Y /\ IsFiniteSet(Y)
    BY <1>8, <2>1, MachinesFinite DEF X, Y
  <2> QED BY <2>2, FS_Subset, FS_CardinalityType
<1>10. Cardinality(Y) >= T
  BY <1>5, <1>7, <1>9
<1> QED BY <1>3, <1>10 DEF Enough, SoundMachines

\* Every step without a fault keeps SpareInv: deactivateMachine works the choice off, and
\* the later stages choose gateways only, as no other host is down.
LEMMA SpareStep ==
    ASSUME SafeInv, CalmCluster, CalmView, SpareInv, [Next]_vars, NoFault
    PROVE  SpareInv'
<1> USE DEF TypeInv, Round
<1>0. TypeInv /\ KnownInv
  BY DEF SafeInv
<1>1. ASSUME round'.deact \subseteq NfsMachine PROVE SpareInv'
  BY <1>1 DEF SpareInv
<1>2. ASSUME round'.deact \subseteq round.deact, round'.view = round.view, round'.target = round.target,
             round'.pc = round.pc
      PROVE  SpareInv'
  BY <1>2, EnoughKept DEF SpareInv
<1>3. CASE round' = NoRound
  BY <1>1, <1>3 DEF NoRound
<1>4. CASE round' = round
  BY <1>2, <1>4
<1>5. CASE Fetch
  BY <1>1, <1>5 DEF Fetch, NoRound
<1>6. CASE ListHosts \/ ListDrives
  <2>1. round.deact = {}
    BY <1>6 DEF SafeInv, FreshInv, ListHosts, ListDrives
  <2>2. CASE ListHosts
    BY <1>0, <1>1, <1>3, <2>1, <2>2 DEF ListHosts
  <2>3. CASE ListDrives
    BY <1>0, <1>1, <2>1, <2>3 DEF ListDrives
  <2> QED BY <1>6, <2>2, <2>3
<1>7. ASSUME NEW m, NEW exec, NEW ok, NEW gone, RemoveInactive(m, exec, ok, gone) PROVE SpareInv'
  BY <1>0, <1>2, <1>7 DEF RemoveInactive
<1>8. ASSUME NEW m, NEW off, NEW port, NEW host, DeactivateMachine(m, off, port, host)
      PROVE  SpareInv'
  BY <1>0, <1>2, <1>8 DEF DeactivateMachine
<1>9. CASE NfsLeftovers
  <2>1. round'.deact \subseteq MachinesOf(getHostGroupHosts(round.view, round.inst["nfs"]))
    BY <1>0, <1>9 DEF NfsLeftovers
  <2>2. round'.deact \subseteq NfsMachine
    BY <1>0, <2>1 DEF MachinesOf, getHostGroupHosts, belongsToHgIpBased, KnownInv
  <2> QED BY <1>1, <2>2
<1>10. CASE ScaleNfs
  <2> DEFINE H == getNfsHosts(getHostGroupHosts(round.view, round.inst["nfs"]), round.ports)
  <2>1. PICK S : ScaleHgDown(round, "nfs", H, round.target["nfs"], S)
    BY <1>10 DEF ScaleNfs
  <2>2. round'.deact = S /\ S \subseteq MachinesOf(HostsList(round.view, H))
    BY <1>0, <2>1 DEF ScaleHgDown
  <2>3. MachinesOf(HostsList(round.view, H)) \subseteq NfsMachine
    BY <1>0 DEF MachinesOf, HostsList, getNfsHosts, getHostGroupHosts, belongsToHgIpBased,
       KnownInv
  <2> QED BY <1>1, <2>2, <2>3
<1>11. CASE HandleLeftOverHosts
  <2>1. CalmHosts
    BY <1>11 DEF HandleLeftOverHosts, StageDone, CalmView
  <2>2. ASSUME NEW m \in round'.deact
        PROVE  \E h \in Host : h[1] = m /\ round.view.cont[h].Status = "DOWN"
    BY <1>0, <1>11, <2>2
       DEF HandleLeftOverHosts, MachinesOf, getLeftoverHosts, getHostGroupHosts, Listed
  <2> QED BY <1>1, <2>1, <2>2 DEF CalmHosts
<1>12. CASE ValidateDelta
  BY <1>0, <1>1, <1>3, <1>12 DEF ValidateDelta, StageDone
<1>13. CASE ValidationSkipped
  BY <1>0, <1>1, <1>13 DEF ValidationSkipped, StageDone
<1>14. CASE RoundStep
  BY <1>3, <1>5, <1>6, <1>7, <1>8, <1>9, <1>10, <1>11, <1>12, <1>13, <1>14, PlanSpares
     DEF RoundStep, NoFault, AbortRound, Terminate
<1>15. CASE ClusterStep
  BY <1>4, <1>15 DEF ClusterStep, Boot, Age, AddPort, InstanceLost, Join, DriveFails,
     DriveEmptied,
        GoDown, StaysDown, ComeBack, Deactivated, Stopped, Forgotten, SetDesired
<1> QED BY <1>4, <1>14, <1>15 DEF Next, vars

\* Without a fault, a drive in use is deactivated by a round only.
LEMMA ServedDrive ==
    ASSUME TypeInv, CalmCluster, [Next]_vars, NoFault, NEW m \in Backend, m \notin round.deact,
           cont[<<m, "drive">>].State = "ACTIVE", NEW d \in Drive, drive[m][d] = "active"
    PROVE  drive'[m][d] = "active"
<1> USE DEF cluster, cloud
<1>1. CASE drive' = drive
  BY <1>1
<1>2. ASSUME NEW k, NEW exec, NEW ok, NEW gone, RemoveInactive(k, exec, ok, gone)
      PROVE  drive'[m][d] = "active"
  BY <1>2 DEF RemoveInactive, TypeInv, Backend
<1>3. ASSUME NEW k, NEW off, NEW port, NEW host, DeactivateMachine(k, off, port, host)
      PROVE  drive'[m][d] = "active"
  BY <1>3 DEF DeactivateMachine, TypeInv, Backend
<1>4. ASSUME NEW gone, PlanWeka(gone) PROVE drive'[m][d] = "active"
  BY <1>4 DEF PlanWeka, TypeInv, Backend
<1>5. ASSUME NEW k \in Machine, NEW c \in Containers(k), Join(k, c) PROVE drive'[m][d] = "active"
  BY <1>1, <1>5 DEF Join, TypeInv, Backend
<1>6. ASSUME NEW k \in Machine, NEW e \in Drive, DriveEmptied(k, e) PROVE drive'[m][d] = "active"
  BY <1>6 DEF DriveEmptied, TypeInv, Backend
<1>7. ASSUME NEW g \in Host, Forgotten(g) PROVE drive'[m][d] = "active"
  <2>1. g[2] = "drive" => g[1] # m
    BY <1>7 DEF Forgotten, Host
  <2> QED BY <1>1, <1>7, <2>1 DEF Forgotten, TypeInv, Backend
<1>9. CASE RoundStep
  BY <1>1, <1>2, <1>3, <1>4, <1>9
     DEF RoundStep, Fetch, ListHosts, ListDrives, NfsLeftovers, ScaleNfs, HandleLeftOverHosts,
         ValidateDelta, ValidationSkipped, AbortRound, PoolExhausted, Terminate
<1>10. CASE ClusterStep
  BY <1>1, <1>5, <1>6, <1>7, <1>10
     DEF ClusterStep, NoFault, Boot, Age, AddPort, StaysDown, ComeBack, Deactivated, Stopped,
        SetDesired
<1> QED BY <1>1, <1>9, <1>10 DEF Next, vars

\* The inductive invariant: whatever the rounds do, SafeInv; and as long as nothing has
\* broken by itself, what is needed to see that no serving machine is missed.
IInv == SafeInv /\ (faults = 0 => CalmCluster /\ CalmView /\ SpareInv)

\* The inductive invariant holds at the start.
LEMMA CalmStart == Init => IInv
<1> SUFFICES ASSUME Init PROVE IInv
  OBVIOUS
<1>1. SafeInv
  BY SafeStart
<1>2. CalmCluster
  BY MachineAssumption DEF Init, CalmCluster, Backend, Host, Containers, ContainerName
<1>3. CalmView /\ SpareInv
  BY DEF Init, NoRound, CalmView, SpareInv, CloudInstances, Group
<1> QED BY <1>1, <1>2, <1>3 DEF IInv

\* Every step keeps it.
LEMMA CalmStep == IInv /\ [Next]_vars => IInv'
<1> SUFFICES ASSUME IInv, [Next]_vars PROVE IInv'
  OBVIOUS
<1>1. SafeInv /\ SafeInv' /\ TypeInv
  BY SafeStep DEF IInv, SafeInv
<1>2. CASE faults' = 0
  <2>1. NoFault /\ CalmCluster /\ CalmView /\ SpareInv
    BY <1>1, <1>2, CalmStepHasNoFault DEF IInv
  <2> QED BY <1>1, <2>1, CalmClusterStep, CalmViewStep, SpareStep DEF IInv
<1> QED BY <1>1, <1>2 DEF IInv

\* Without a fault, a serving machine the round has not chosen goes on serving.
LEMMA ServiceStays ==
    ASSUME SafeInv, CalmCluster, [Next]_vars, NoFault, NEW m \in ServingBackends, m \notin round.deact
    PROVE  m \in ServingBackends'
<1>0. TypeInv /\ m \in Backend /\ InService(m)
  BY DEF SafeInv, ServingBackends, Backend
<1>1. \A c \in Containers(m) : <<m, c>> \in Host
  BY <1>0 DEF Backend, Host, Containers, ContainerName
<1>2. "drive" \in Containers(m)
  BY <1>0, MachineAssumption DEF Backend, Containers
<1>3. m \in SoundMachines
  <2>1. \A h \in Host : h[1] = m => cont[h] = [State |-> "ACTIVE", Status |-> "UP"]
    BY <1>0 DEF InService, Host
  <2>2. \E h \in Host : h[1] = m
    BY <1>1, <1>2
  <2> QED BY <1>0, <2>1, <2>2 DEF SoundMachines, Sound, InService, Backend
<1>4. (Sound(m))'
  BY <1>3, SoundStays DEF SoundMachines
<1>5. ASSUME NEW c \in Containers(m) PROVE cont'[<<m, c>>] = [State |-> "ACTIVE", Status |-> "UP"]
  <2>1. cont[<<m, c>>].State = "ACTIVE"
    BY <1>0 DEF InService
  <2>2. cont'[<<m, c>>].State # "ABSENT"
    BY <1>1, <2>1, <1>0, ContainerMoves DEF Moves
  <2> QED BY <1>1, <1>4, <2>2 DEF Sound
<1>6. ASSUME NEW d \in Drive PROVE drive'[m][d] = "active"
  <2>1. drive[m][d] = "active"
    BY <1>0 DEF InService, Backend
  <2>2. cont[<<m, "drive">>].State = "ACTIVE"
    BY <1>0, <1>2 DEF InService
  <2> QED BY <1>0, <2>1, <2>2, ServedDrive
<1>7. m \in alive'
  BY <1>4 DEF Sound
<1> QED BY <1>0, <1>5, <1>6, <1>7 DEF ServingBackends, InService, Backend

\* A step that takes a machine out of service has more sound machines than the target to
\* take it from.
LEMMA SparedStep ==
    ASSUME IInv, [Next]_vars, faults' = 0, NEW m \in ServingBackends, m \notin ServingBackends'
    PROVE  Cardinality(SoundMachines) > round.target["weka"]
<1>0. SafeInv /\ TypeInv /\ CalmCluster /\ CalmView /\ SpareInv /\ NoFault /\ m \in Backend /\ InService(m)
  BY CalmStepHasNoFault DEF IInv, SafeInv, ServingBackends, Backend
<1>1. m \in round.deact
  BY <1>0, ServiceStays
<1>2. round.pc \in Working
  BY <1>0, <1>1 DEF SafeInv, FreshInv
<1>3. \A h \in Host : h[1] = m => cont[h].State = "ACTIVE"
  BY <1>0 DEF InService, Host
<1>4. ~Spoiled(round.view, m)
  BY <1>0, <1>2, <1>3 DEF Spoiled, CalmView, CalmHosts, CalmDrives, InService, Backend
<1>5. Enough
  BY <1>0, <1>1, <1>4 DEF SpareInv, Backend
<1>6. m \in SoundMachines
  <2>1. <<m, "drive">> \in Host
    BY <1>0, MachineAssumption DEF Backend, Host, Containers, ContainerName
  <2>2. \A h \in Host : h[1] = m => cont[h] = [State |-> "ACTIVE", Status |-> "UP"]
    BY <1>0 DEF InService, Host
  <2> QED BY <1>0, <2>1, <2>2 DEF SoundMachines, Sound, InService, Backend
<1> DEFINE X == SoundMachines \ round.deact
           Y == SoundMachines
<1>7. Cardinality(X) < Cardinality(Y) /\ Cardinality(X) \in Nat /\ Cardinality(Y) \in Nat
  <2>1. X \subseteq Y /\ X # Y /\ Y \in SUBSET Machine
    BY <1>1, <1>6 DEF SoundMachines
  <2> HIDE DEF X, Y
  <2>2. IsFiniteSet(Y) /\ IsFiniteSet(X)
    BY <2>1, MachinesFinite
  <2>3. Cardinality(X) <= Cardinality(Y) /\ Cardinality(X) # Cardinality(Y)
    BY <2>1, <2>2, FS_Subset
  <2> QED BY <2>2, <2>3, FS_CardinalityType
<1>8. round.target["weka"] \in Nat
  BY <1>0 DEF TypeInv, Round, Group
<1>9. Cardinality(X) >= round.target["weka"]
  BY <1>5 DEF Enough, SoundMachines
<1> QED BY <1>7, <1>8, <1>9

\* As long as nothing breaks by itself, no sequence of interrupted rounds and lost calls
\* takes a serving backend out of service unless more machines are sound than the target
\* of the round asks for.
THEOREM CalmRoundsSpare == Spec => ServingSpared
<1>1. IInv /\ [Next]_vars =>
        [faults' = 0 => \A m \in ServingBackends : m \notin ServingBackends'
           => Cardinality({k \in Machine : Sound(k)}) > round.target["weka"]]_vars
  BY SparedStep DEF SoundMachines
<1> QED BY <1>1, CalmStart, CalmStep, PTL DEF Spec, ServingSpared

-----------------------------------------------------------------------------
(* Backends that Weka uses as a whole are started on within bounds.        *)

\* The drive container of a backend, its state, and the one the round has read.
Box(m) == <<m, "drive">>
BoxState(m) == cont[Box(m)].State
SeenState(m) == round.view.cont[Box(m)].State

\* In the view v, a container of the machine counts as deactivating.
OnWay(v, m) == \E h \in Listed(v) : h[1] = m /\ deriveHostState(v, h) = DEACTIVATING

\* Until the round acts, its lists show everything that is being taken out.
ReadInv ==
    /\ round.pc \in {"drives", "plan"} =>
        /\ \A h \in Host : cont[h].State = "DEACTIVATING" => round.view.cont[h].State = "DEACTIVATING"
        /\ \A m \in Backend : BoxState(m) = "ACTIVE" =>
              SeenState(m) \in {"ACTIVE", "ABSENT"}
        /\ \A m \in Backend : BoxState(m) = "ACTIVE" /\ SeenState(m) = "ABSENT" =>
              \A d \in Drive : drive[m][d] \notin Leaving
    /\ round.pc = "plan" /\ round.live => \A m \in Backend, d \in Drive :
        BoxState(m) = "ACTIVE" /\ SeenState(m) # "ABSENT" =>
            /\ drive[m][d] \in Leaving => round.view.drive[m][d] \in Leaving
            /\ round.view.drive[m][d] \in {"active", "failed"} => drive[m][d] \in {"active", "failed"}

\* What was read on its way out is not back.
OnwardInv ==
    /\ round.pc \notin {"idle", "hosts"} => \A h \in Host :
        round.view.cont[h].State \notin {"ABSENT", "ACTIVE"} => cont[h].State # "ACTIVE"
    /\ round.pc \notin {"idle", "hosts", "drives"} /\ round.live => \A m \in Backend, d \in Drive :
        SeenState(m) # "ABSENT" /\ round.view.drive[m][d] \in Leaving /\ BoxState(m) = "ACTIVE"
            => drive[m][d] \in Leaving

\* After the first stage no backend of the list of instances is deactivated.
StageInv ==
    round.pc \in {"nfsLeft", "nfs", "left"} => round.deact \cap round.inst["weka"] = {}

\* The backends of the list that are taken out, the bound on them, and what keeps the round
\* within it: if it is still to start on a machine that was not on its way out when it was
\* read, all it has chosen and all that is taken out are within the bound together.
Going == {k \in round.inst["weka"] : TakenOut(k)}
Limit == Larger(2, Cardinality(round.inst["weka"]) - round.target["weka"])
BoundInv ==
    round.pc = "weka" /\ round.live /\ (\E m \in round.deact : ~OnWay(round.view, m)) =>
        Cardinality(Going \cup round.deact) <= Limit

\* The container of a backend is a host of it.
LEMMA BoxHost ==
    ASSUME NEW m \in Backend
    PROVE  Box(m) \in Host /\ Box(m)[1] = m /\ Box(m)[2] = "drive" /\ m \in Machine /\ m \notin NfsMachine
BY MachineAssumption DEF Box, Host, Containers, ContainerName, Backend

\* How one drive of a backend may change in a step: only a round, through its calls, begins
\* to take one out, and only a removal or a new container makes up for it.
DriveSteps(m, d) ==
    \/ drive'[m][d] = drive[m][d] /\ ~(BoxState(m) = "ABSENT" /\ BoxState(m)' = "ACTIVE")
    \/ drive[m][d] = "active" /\ drive'[m][d] = "failed" /\ cont' = cont
    \/ drive'[m][d] = "active" /\ BoxState(m) = "ABSENT" /\ BoxState(m)' = "ACTIVE"
    \/ drive'[m][d] \in Leaving /\ round.pc \in Working /\ round.live /\ m \in round.deact
    \/ drive[m][d] = "removing" /\ drive'[m][d] = "removed" /\ cont' = cont
    \/ /\ drive'[m][d] = "none" /\ round.pc \in Working /\ m \in round.remove
       /\ SeenState(m) # "ABSENT"
    \/ drive[m][d] = "orphan" /\ drive'[m][d] = "none" /\ cont' = cont
    \/ drive'[m][d] \in {"none", "orphan"} /\ BoxState(m)' = "ABSENT"

\* Every step changes each drive in one of these ways.
LEMMA DriveStepsAlways ==
    ASSUME TypeInv, [Next]_vars, NEW m \in Backend, NEW d \in Drive
    PROVE  DriveSteps(m, d)
<1> USE DEF cluster, cloud, Backend
<1>0. Box(m) \in Host /\ Moves(Box(m)) /\ m \in Machine
  BY BoxHost, ContainerMoves
<1>1. ASSUME drive'[m][d] = drive[m][d], \A c \in Containers(m) : ~Join(m, c)
      PROVE  DriveSteps(m, d)
  <2>1. ~(BoxState(m) = "ABSENT" /\ BoxState(m)' = "ACTIVE")
    <3> SUFFICES ASSUME BoxState(m) = "ABSENT", BoxState(m)' = "ACTIVE" PROVE FALSE
      OBVIOUS
    <3>1. ASSUME NEW k, NEW exec, NEW ok, NEW gone, RemoveInactive(k, exec, ok, gone) PROVE FALSE
      BY <1>0, <3>1 DEF RemoveInactive, TypeInv, Container, BoxState
    <3>2. ASSUME NEW k, NEW off, NEW port, NEW host, DeactivateMachine(k, off, port, host)
          PROVE  FALSE
      BY <1>0, <3>2 DEF DeactivateMachine, TypeInv, Container, BoxState
    <3>3. CASE Terminate
      BY <1>0, <3>3 DEF Terminate, TypeInv, Container, BoxState
    <3>4. ASSUME NEW k \in Machine, NEW c \in Containers(k), Join(k, c) PROVE FALSE
      BY <1>0, <1>1, <3>4 DEF Join, SetCont, TypeInv, Container, BoxState, Box
    <3>5. ASSUME NEW k, InstanceLost(k) PROVE FALSE
      BY <1>0, <3>5 DEF InstanceLost, TypeInv, Container, BoxState
    <3>6. ASSUME NEW g \in Host, GoDown(g) \/ ComeBack(g) PROVE FALSE
      BY <1>0, <3>6 DEF GoDown, ComeBack, SetCont, TypeInv, Container, BoxState
    <3>7. ASSUME NEW g \in Host, Deactivated(g) \/ Stopped(g) \/ Forgotten(g) PROVE FALSE
      BY <1>0, <3>7 DEF Deactivated, Stopped, Forgotten, SetCont, TypeInv, Container, BoxState
    <3>8. CASE cont' = cont
      BY <3>8 DEF BoxState
    <3>9. CASE RoundStep
      BY <3>1, <3>2, <3>3, <3>8, <3>9
         DEF RoundStep, Fetch, ListHosts, ListDrives, PlanWeka, NfsLeftovers, ScaleNfs,
             HandleLeftOverHosts, ValidateDelta, ValidationSkipped, AbortRound, PoolExhausted
    <3>10. CASE ClusterStep
      BY <3>4, <3>5, <3>6, <3>7, <3>8, <3>10
         DEF ClusterStep, Boot, Age, AddPort, DriveFails, DriveEmptied, StaysDown, SetDesired
    <3> QED BY <3>8, <3>9, <3>10 DEF Next, vars
  <2> QED BY <1>1, <2>1 DEF DriveSteps
<1>2. ASSUME \A c \in Containers(m) : ~Join(m, c) PROVE DriveSteps(m, d)
  <2>1. CASE drive' = drive
    BY <1>1, <1>2, <2>1
  <2>2. ASSUME NEW k, NEW exec, NEW ok \in SUBSET ReadyForRemove(k), NEW gone,
               RemoveInactive(k, exec, ok, gone), drive'[m][d] # drive[m][d]
        PROVE  DriveSteps(m, d)
    <3>1. /\ k = m /\ d \in gone /\ drive'[m][d] = "none"
          /\ round.pc \in Working /\ m \in round.remove
      BY <1>0, <2>2 DEF RemoveInactive, TypeInv
    <3>2. PICK h \in ok : d \in DrivesOf(round.view, h)
      BY <2>2, <3>1 DEF RemoveInactive
    <3>3. h \in Listed(round.view) /\ h = Box(m)
      BY <3>1, <3>2 DEF ReadyForRemove, HostsOf, Listed, Host, DrivesOf, Box
    <3> QED BY <3>1, <3>3 DEF DriveSteps, SeenState, Listed
  <2>3. ASSUME NEW k, NEW off, NEW port, NEW host, DeactivateMachine(k, off, port, host)
        PROVE  DriveSteps(m, d)
    BY <1>0, <1>1, <1>2, <2>3 DEF DeactivateMachine, DriveSteps, TypeInv, Leaving
  <2>4. ASSUME NEW gone, PlanWeka(gone) PROVE DriveSteps(m, d)
    BY <1>0, <1>1, <1>2, <2>4 DEF PlanWeka, DriveSteps, TypeInv
  <2>5. ASSUME NEW k \in Machine, NEW c \in Containers(k), Join(k, c) PROVE DriveSteps(m, d)
    BY <1>0, <1>1, <1>2, <2>5 DEF Join, TypeInv
  <2>6. ASSUME NEW k \in Machine, NEW e \in Drive, DriveEmptied(k, e) PROVE DriveSteps(m, d)
    BY <1>0, <1>1, <1>2, <2>6 DEF DriveEmptied, DriveSteps, TypeInv
  <2>7. ASSUME NEW k \in Machine, NEW e \in Drive, DriveFails(k, e) PROVE DriveSteps(m, d)
    BY <1>0, <1>1, <1>2, <2>7 DEF DriveFails, DriveSteps, TypeInv
  <2>8. ASSUME NEW g \in Host, Forgotten(g) PROVE DriveSteps(m, d)
    <3>1. CASE g = Box(m)
      BY <1>0, <2>8, <3>1 DEF Forgotten, SetCont, DriveSteps, TypeInv, BoxState, Box, Container
    <3>2. CASE g # Box(m)
      <4>1. g[2] = "drive" => g[1] # m
        BY <3>2 DEF Host, Box
      <4> QED BY <1>0, <1>1, <1>2, <2>8, <4>1 DEF Forgotten, TypeInv
    <3> QED BY <3>1, <3>2
  <2>9. CASE RoundStep
    BY <1>1, <1>2, <2>1, <2>2, <2>3, <2>4, <2>9
       DEF RoundStep, Fetch, ListHosts, ListDrives, NfsLeftovers, ScaleNfs, HandleLeftOverHosts,
           ValidateDelta, ValidationSkipped, AbortRound, PoolExhausted, Terminate
  <2>10. CASE ClusterStep
    BY <2>1, <2>5, <2>6, <2>7, <2>8, <2>10
       DEF ClusterStep, Boot, Age, AddPort, InstanceLost, GoDown, StaysDown, ComeBack,
           Deactivated, Stopped, SetDesired
  <2> QED BY <2>1, <2>9, <2>10 DEF Next, vars
<1>3. ASSUME NEW c \in Containers(m), Join(m, c) PROVE DriveSteps(m, d)
  <2>1. CASE c = "drive"
    BY <1>0, <1>3, <2>1 DEF Join, SetCont, DriveSteps, TypeInv, BoxState, Box
  <2>2. CASE c # "drive"
    BY <1>0, <1>3, <2>2 DEF Join, SetCont, DriveSteps, TypeInv, BoxState, Box
  <2> QED BY <2>1, <2>2
<1> QED BY <1>2, <1>3

\* A step of a round that goes on with what it was called with.
OngoingRound ==
    /\ round.pc # "idle" /\ round'.inst = round.inst /\ round'.target = round.target
    /\ round'.live => round.live
    /\ round'.pc = "hosts" => round.pc = "hosts"

\* A step ends the round, begins one, or goes on with it.
LEMMA RoundStays ==
    ASSUME TypeInv, [Next]_vars, round'.pc # "idle"
    PROVE  \/ Fetch
           \/ OngoingRound
<1> USE DEF TypeInv, Round, OngoingRound
<1>1. CASE round' = round
  BY <1>1
<1>2. CASE round' = NoRound
  BY <1>2 DEF NoRound
<1>3. CASE ListHosts
  BY <1>2, <1>3 DEF ListHosts
<1>4. CASE PoolExhausted
  BY <1>4 DEF PoolExhausted
<1>6. CASE ListDrives \/ ValidateDelta \/ ValidationSkipped
  <2>1. CASE ListDrives
    BY <2>1 DEF ListDrives
  <2>2. CASE ValidateDelta
    BY <1>2, <2>2 DEF ValidateDelta, StageDone
  <2>3. CASE ValidationSkipped
    BY <2>3 DEF ValidationSkipped, StageDone
  <2> QED BY <1>6, <2>1, <2>2, <2>3
<1>7. ASSUME NEW gone, PlanWeka(gone)
      PROVE  OngoingRound
  BY <1>7 DEF PlanWeka, ScaleHgDown
<1>8. ASSUME NEW m, NEW exec, NEW ok, NEW gone, RemoveInactive(m, exec, ok, gone)
      PROVE  OngoingRound
  BY <1>8 DEF RemoveInactive
<1>9. ASSUME NEW m, NEW off, NEW port, NEW host, DeactivateMachine(m, off, port, host)
      PROVE  OngoingRound
  BY <1>9 DEF DeactivateMachine
<1>10. CASE NfsLeftovers
  BY <1>10 DEF NfsLeftovers, StageDone
<1>11. CASE ScaleNfs
  BY <1>11 DEF ScaleNfs, StageDone, ScaleHgDown
<1>12. CASE HandleLeftOverHosts
  BY <1>12 DEF HandleLeftOverHosts, StageDone
<1>13. CASE RoundStep
  BY <1>2, <1>3, <1>4, <1>6, <1>7, <1>8, <1>9, <1>10, <1>11, <1>12, <1>13
     DEF RoundStep, AbortRound, Terminate
<1>14. CASE ClusterStep
  BY <1>1, <1>14 DEF ClusterStep, Boot, Age, AddPort, InstanceLost, Join, DriveFails,
     DriveEmptied, GoDown, StaysDown, ComeBack, Deactivated, Stopped, Forgotten, SetDesired
<1> QED BY <1>1, <1>13, <1>14 DEF Next, vars

\* A pool that has a backend left had one before.
LEMMA StillLive ==
    ASSUME TypeInv, [Next]_vars, SameReading, round'.live, round'.pc \notin {"idle", "hosts"}
    PROVE  round.live
<1>1. ~Fetch
  BY DEF Fetch, SameReading
<1> QED BY <1>1, RoundStays DEF OngoingRound

\* Every step keeps ReadInv: nothing begins to be taken out between the list of hosts and
\* the plan, as that is done by a round only.
LEMMA ReadStep ==
    ASSUME TypeInv, KnownInv, ReadInv, [Next]_vars
    PROVE  ReadInv'
<1>1. ASSUME round'.pc \in {"drives", "plan"}, NEW h \in Host, cont'[h].State = "DEACTIVATING"
      PROVE  round'.view.cont[h].State = "DEACTIVATING"
  <2>1. CASE ListHosts /\ round' = [round EXCEPT !.pc = "drives", !.view.cont = cont]
    <3>1. cont' = cont
      BY <2>1 DEF ListHosts, cluster
    <3>2. round'.view.cont = cont
      BY <2>1 DEF TypeInv, Round, View
    <3> QED BY <1>1, <3>1, <3>2
  <2>2. CASE SameReading
    <3>1. round.pc \in {"drives", "plan"} /\ round'.view.cont = round.view.cont
      BY <1>1, <2>2 DEF SameReading
    <3> QED BY <1>1, <3>1, ContainerMoves DEF Moves, ReadInv
  <2> QED BY <1>1, <2>1, <2>2, ReadingMoves
<1>2. ASSUME round'.pc \in {"drives", "plan"}, NEW m \in Backend, BoxState(m)' = "ACTIVE"
      PROVE  /\ SeenState(m)' \in {"ACTIVE", "ABSENT"}
             /\ SeenState(m)' = "ABSENT" => \A d \in Drive : drive'[m][d] \notin Leaving
  <2>1. CASE ListHosts /\ round' = [round EXCEPT !.pc = "drives", !.view.cont = cont]
    <3>1. cont' = cont
      BY <2>1 DEF ListHosts, cluster
    <3>2. round'.view.cont = cont
      BY <2>1 DEF TypeInv, Round, View
    <3> QED BY <1>2, <3>1, <3>2 DEF SeenState, BoxState
  <2>2. CASE SameReading
    <3>1. round.pc \in {"drives", "plan"} /\ SeenState(m)' = SeenState(m)
      BY <1>2, <2>2 DEF SameReading, SeenState
    <3>2. /\ BoxState(m) = "ACTIVE" => SeenState(m) \in {"ACTIVE", "ABSENT"}
          /\ BoxState(m) = "ACTIVE" /\ SeenState(m) = "ABSENT" =>
                 \A d \in Drive : drive[m][d] \notin Leaving
      BY <3>1 DEF ReadInv
    <3>3. Moves(Box(m))
      BY BoxHost, ContainerMoves
    <3>4. SeenState(m)' \in {"ACTIVE", "ABSENT"}
      BY <1>2, <3>1, <3>2, <3>3 DEF Moves, BoxState, SeenState
    <3>5. ASSUME SeenState(m)' = "ABSENT", NEW d \in Drive
          PROVE  drive'[m][d] \notin Leaving
      <4>1. DriveSteps(m, d)
        BY DriveStepsAlways
      <4>2. BoxState(m) \in {"ACTIVE", "ABSENT"}
        BY <1>2, <3>3 DEF Moves, BoxState
      <4> QED BY <1>2, <3>1, <3>2, <3>5, <4>1, <4>2 DEF DriveSteps, Leaving, BoxState
    <3> QED BY <3>4, <3>5
  <2> QED BY <1>2, <2>1, <2>2, ReadingMoves
<1>3. ASSUME round'.pc = "plan", round'.live, NEW m \in Backend, NEW d \in Drive,
             BoxState(m)' = "ACTIVE", SeenState(m)' # "ABSENT"
      PROVE  /\ drive'[m][d] \in Leaving => round'.view.drive[m][d] \in Leaving
             /\ round'.view.drive[m][d] \in {"active", "failed"} => drive'[m][d] \in {"active", "failed"}
  <2>1. CASE ListDrives
    <3>1. round.live
      BY <1>3, <2>1 DEF ListDrives, TypeInv, Round
    <3>2. drive' = drive /\ round'.view.drive = drive
      BY <2>1, <3>1 DEF ListDrives, cluster, TypeInv, Round, View
    <3> QED BY <3>2
  <2>2. CASE ~ListDrives
    <3>0. SameReading
      <4>1. round' = [round EXCEPT !.pc = "drives", !.view.cont = cont] => round'.pc = "drives"
        BY DEF TypeInv, Round
      <4> QED BY <1>3, <4>1, ReadingMoves
    <3>1. /\ round.pc = "plan" /\ round'.view.drive = round.view.drive
          /\ SeenState(m)' = SeenState(m)
      BY <1>3, <2>2, <3>0 DEF SameReading, SeenState
    <3>2. round.live
      BY <1>3, <3>0, StillLive
    <3>3. Moves(Box(m)) /\ DriveSteps(m, d)
      BY BoxHost, ContainerMoves, DriveStepsAlways
    <3>4. BoxState(m) = "ACTIVE"
      BY <1>3, <3>1, <3>3 DEF Moves, BoxState, SeenState
    <3>5. /\ drive[m][d] \in Leaving => round.view.drive[m][d] \in Leaving
          /\ round.view.drive[m][d] \in {"active", "failed"} => drive[m][d] \in {"active", "failed"}
      BY <1>3, <3>1, <3>2, <3>4 DEF ReadInv
    <3>6. /\ drive'[m][d] \in Leaving => drive[m][d] \in Leaving
          /\ drive[m][d] \in {"active", "failed"} => drive'[m][d] \in {"active", "failed"}
      BY <1>3, <3>1, <3>3, <3>4 DEF DriveSteps, Leaving, BoxState
    <3> QED BY <3>1, <3>5, <3>6
  <2> QED BY <2>1, <2>2
<1> QED BY <1>1, <1>2, <1>3 DEF ReadInv

\* Every step keeps OnwardInv: the drives of a machine are removed once it is inactive.
LEMMA OnwardStep ==
    ASSUME TypeInv, KnownInv, QuitInv, OnwardInv, [Next]_vars
    PROVE  OnwardInv'
<1>1. ASSUME round'.pc \notin {"idle", "hosts"}, NEW h \in Host,
             round'.view.cont[h].State \notin {"ABSENT", "ACTIVE"}
      PROVE  cont'[h].State # "ACTIVE"
  <2>1. CASE ListHosts /\ round' = [round EXCEPT !.pc = "drives", !.view.cont = cont]
    <3>1. cont' = cont
      BY <2>1 DEF ListHosts, cluster
    <3>2. round'.view.cont = cont
      BY <2>1 DEF TypeInv, Round, View
    <3> QED BY <1>1, <3>1, <3>2
  <2>2. CASE SameReading
    <3>1. round.pc \notin {"idle", "hosts"} /\ round'.view.cont = round.view.cont
      BY <2>2 DEF SameReading
    <3>2. Moves(h) /\ cont[h].State # "ACTIVE"
      BY <1>1, <3>1, ContainerMoves DEF OnwardInv
    <3> QED BY <1>1, <3>1, <3>2 DEF Moves
  <2> QED BY <1>1, <2>1, <2>2, ReadingMoves
<1>2. ASSUME round'.pc \notin {"idle", "hosts", "drives"}, round'.live, NEW m \in Backend, NEW d \in Drive,
             SeenState(m)' # "ABSENT", round'.view.drive[m][d] \in Leaving, BoxState(m)' = "ACTIVE"
      PROVE  drive'[m][d] \in Leaving
  <2>0. SameReading
    <3>1. round' = [round EXCEPT !.pc = "drives", !.view.cont = cont] => round'.pc = "drives"
      BY DEF TypeInv, Round
    <3> QED BY <1>2, <3>1, ReadingMoves
  <2>1. CASE ListDrives
    <3>1. round.live
      BY <1>2, <2>1 DEF ListDrives, TypeInv, Round
    <3>2. drive' = drive /\ round'.view.drive = drive
      BY <2>1, <3>1 DEF ListDrives, cluster, TypeInv, Round, View
    <3> QED BY <1>2, <3>2
  <2>2. CASE ~ListDrives
    <3>1. /\ round.pc \notin {"idle", "hosts", "drives"} /\ round'.view.drive = round.view.drive
          /\ SeenState(m)' = SeenState(m)
      BY <1>2, <2>0, <2>2 DEF SameReading, SeenState
    <3>2. round.live
      BY <1>2, <2>0, StillLive
    <3>3. Box(m) \in Host /\ Box(m)[1] = m /\ Moves(Box(m)) /\ DriveSteps(m, d)
      BY BoxHost, ContainerMoves, DriveStepsAlways
    <3>4. BoxState(m) = "ACTIVE"
      BY <1>2, <3>1, <3>3 DEF Moves, BoxState, SeenState
    <3>5. drive[m][d] \in Leaving
      BY <1>2, <3>1, <3>2, <3>4 DEF OnwardInv
    <3>6. ~(round.pc \in Working /\ m \in round.remove)
      BY <1>2, <3>1, <3>3, <3>4 DEF OnwardInv, QuitInv, Quit, SeenState, BoxState
    <3> QED BY <1>2, <3>3, <3>4, <3>5, <3>6 DEF DriveSteps, Leaving, BoxState
  <2> QED BY <2>1, <2>2
<1> QED BY <1>1, <1>2 DEF OnwardInv

\* A step that leaves the round at its stage and chooses nothing.
WorkOn ==
    /\ round.pc \in Working /\ round'.pc = round.pc
    /\ round'.view = round.view /\ round'.inst = round.inst /\ round'.target = round.target
    /\ round'.deact \subseteq round.deact
    /\ round'.live => round.live

\* A round that works has entered its stage in this step or leaves it as it was.
LEMMA WorkSteps ==
    ASSUME TypeInv, [Next]_vars, round'.pc \in Working
    PROVE  \/ \E gone : PlanWeka(gone)
           \/ NfsLeftovers \/ ScaleNfs \/ HandleLeftOverHosts
           \/ WorkOn
<1> USE DEF TypeInv, Round, WorkOn
<1>1. CASE round' = round
  BY <1>1
<1>2. CASE round' = NoRound
  BY <1>2 DEF NoRound
<1>3. ASSUME NEW m, NEW exec, NEW ok, NEW gone, RemoveInactive(m, exec, ok, gone) PROVE WorkOn
  BY <1>3 DEF RemoveInactive
<1>4. ASSUME NEW m, NEW off, NEW port, NEW host, DeactivateMachine(m, off, port, host) PROVE WorkOn
  BY <1>4 DEF DeactivateMachine
<1>5. CASE PoolExhausted
  BY <1>5 DEF PoolExhausted
<1>6. ~Fetch /\ ~ListHosts /\ ~ListDrives
  <2>1. ASSUME ListHosts PROVE round'.pc \in {"idle", "drives"}
    BY <2>1 DEF ListHosts, NoRound
  <2>2. ASSUME Fetch \/ ListDrives PROVE round'.pc \in {"hosts", "plan"}
    BY <2>2 DEF Fetch, ListDrives, NoRound
  <2> QED BY <2>1, <2>2
<1>7. ~ValidateDelta /\ ~ValidationSkipped
  <2>1. ASSUME ValidateDelta PROVE round'.pc \in {"idle", "done"}
    BY <2>1 DEF ValidateDelta, NoRound
  <2>2. ASSUME ValidationSkipped PROVE round'.pc = "done"
    BY <2>2 DEF ValidationSkipped
  <2> QED BY <2>1, <2>2
<1>8. CASE RoundStep
  BY <1>2, <1>3, <1>4, <1>5, <1>6, <1>7, <1>8 DEF RoundStep, AbortRound, Terminate
<1>9. CASE ClusterStep
  BY <1>1, <1>9 DEF ClusterStep, Boot, Age, AddPort, InstanceLost, Join, DriveFails,
     DriveEmptied, GoDown, StaysDown, ComeBack, Deactivated, Stopped, Forgotten, SetDesired
<1> QED BY <1>1, <1>8, <1>9 DEF Next, vars

\* Every step keeps StageInv: the later stages choose gateways, and machines that are none
\* of the instances.
LEMMA StageStep ==
    ASSUME TypeInv, KnownInv, StageInv, [Next]_vars
    PROVE  StageInv'
<1> SUFFICES ASSUME round'.pc \in {"nfsLeft", "nfs", "left"}
             PROVE  round'.deact \cap round'.inst["weka"] = {}
  BY DEF StageInv
<1> USE DEF TypeInv, Round
<1>0. round.inst["weka"] \cap NfsMachine = {} /\ round.inst["nfs"] \subseteq NfsMachine
  BY DEF KnownInv
<1>1. CASE WorkOn
  BY <1>1 DEF WorkOn, StageInv
<1>2. ASSUME NEW gone, PlanWeka(gone) PROVE FALSE
  BY <1>2 DEF PlanWeka, ScaleHgDown
<1>3. CASE NfsLeftovers
  <2>1. /\ round'.deact \subseteq MachinesOf(getHostGroupHosts(round.view, round.inst["nfs"]))
        /\ round'.inst = round.inst
    BY <1>3 DEF NfsLeftovers
  <2>2. round'.deact \subseteq NfsMachine
    BY <1>0, <2>1 DEF MachinesOf, getHostGroupHosts, belongsToHgIpBased
  <2> QED BY <1>0, <2>1, <2>2
<1>4. CASE ScaleNfs
  <2> DEFINE H == getNfsHosts(getHostGroupHosts(round.view, round.inst["nfs"]), round.ports)
  <2>1. PICK S : ScaleHgDown(round, "nfs", H, round.target["nfs"], S)
    BY <1>4 DEF ScaleNfs
  <2>2. /\ round'.deact = S /\ S \subseteq MachinesOf(HostsList(round.view, H))
        /\ round'.inst = round.inst
    BY <2>1 DEF ScaleHgDown
  <2>3. MachinesOf(HostsList(round.view, H)) \subseteq NfsMachine
    BY <1>0 DEF MachinesOf, HostsList, getNfsHosts, getHostGroupHosts, belongsToHgIpBased
  <2> QED BY <1>0, <2>2, <2>3
<1>5. CASE HandleLeftOverHosts
  <2> DEFINE H == getLeftoverHosts(round.view, CloudInstances) \cup getHostGroupHosts(round.view, round.leftNfs)
  <2>1. \A h \in H : h[1] \notin round.inst["weka"]
    BY <1>0 DEF getLeftoverHosts, getHostGroupHosts, belongsToHgIpBased, CloudInstances
  <2>2. /\ \E K \in SUBSET H : round'.deact \subseteq MachinesOf(K)
        /\ round'.inst = round.inst
    BY <1>5 DEF HandleLeftOverHosts
  <2> QED BY <2>1, <2>2 DEF MachinesOf
<1> QED BY <1>1, <1>2, <1>3, <1>4, <1>5, WorkSteps

\* A machine gets to be taken out by a call of a round only.
LEMMA OutStep ==
    ASSUME TypeInv, QuitInv, OnwardInv, [Next]_vars, NEW m \in Backend, TakenOut(m)'
    PROVE  TakenOut(m) \/ (round.pc \in Working /\ round.live /\ m \in round.deact)
<1> SUFFICES ASSUME ~(round.pc \in Working /\ round.live /\ m \in round.deact)
             PROVE  TakenOut(m)
  OBVIOUS
<1>0. Box(m) \in Host /\ Box(m)[1] = m /\ m \in Machine /\ Moves(Box(m))
  BY BoxHost, ContainerMoves
<1>1. ASSUME NEW c \in Containers(m) PROVE <<m, c>> \in Host /\ Moves(<<m, c>>) /\ <<m, c>>[1] = m
  <2>1. <<m, c>> \in Host
    BY <1>0 DEF Host, Containers, ContainerName
  <2> QED BY <2>1, ContainerMoves
<1>2. \A d \in Drive : DriveSteps(m, d)
  BY DriveStepsAlways
<1>3. ASSUME NEW c \in Containers(m), cont'[<<m, c>>].State = "ACTIVE"
      PROVE  /\ c = "drive" /\ BoxState(m)' = "ACTIVE"
             /\ \E d \in Drive : drive'[m][d] \in Leaving
             /\ \A d \in Drive : drive'[m][d] \in {"none", "orphan"} \cup Leaving
  BY <1>3 DEF TakenOut, BoxState, Box
<1>4. ASSUME NEW c \in Containers(m), cont'[<<m, c>>].State = "ACTIVE"
      PROVE  cont[<<m, c>>].State = "ACTIVE"
  <2>1. cont[<<m, c>>].State \in {"ABSENT", "ACTIVE"}
    BY <1>1, <1>4 DEF Moves
  <2>2. ASSUME cont[<<m, c>>].State = "ABSENT" PROVE FALSE
    <3>1. BoxState(m) = "ABSENT" /\ BoxState(m)' = "ACTIVE"
      BY <1>3, <1>4, <2>2 DEF BoxState, Box
    <3>2. PICK d \in Drive : drive'[m][d] \in Leaving
      BY <1>3, <1>4
    <3> QED BY <1>2, <3>1, <3>2 DEF DriveSteps, Leaving, BoxState
  <2> QED BY <2>1, <2>2
<1>5. InUse(m)
  <2>1. PICK c \in Containers(m) : cont'[<<m, c>>].State \in {"ACTIVE", "DEACTIVATING"}
    BY DEF TakenOut, InUse
  <2>2. cont[<<m, c>>].State \in {"ACTIVE", "DEACTIVATING"}
    BY <1>1, <1>4, <2>1 DEF Moves
  <2> QED BY <2>1, <2>2 DEF InUse
<1>6. ASSUME NEW c \in Containers(m), cont[<<m, c>>].State = "ACTIVE"
      PROVE  /\ c = "drive" /\ \E d \in Drive : drive[m][d] \in Leaving
             /\ \A d \in Drive : drive[m][d] \in {"none", "orphan"} \cup Leaving
  <2>1. cont'[<<m, c>>].State = "ACTIVE"
    BY <1>1, <1>6 DEF Moves
  <2>2. c = "drive" /\ BoxState(m) = "ACTIVE" /\ BoxState(m)' = "ACTIVE"
    BY <1>3, <1>6, <2>1 DEF BoxState, Box
  <2>3. ~(round.pc \in Working /\ m \in round.remove /\ SeenState(m) # "ABSENT")
    BY <1>0, <2>2 DEF QuitInv, Quit, OnwardInv, SeenState, BoxState
  <2>4. PICK d \in Drive : drive'[m][d] \in Leaving
    BY <1>3, <2>1
  <2>5. drive[m][d] \in Leaving
    BY <1>2, <2>2, <2>4 DEF DriveSteps, Leaving, BoxState
  <2>6. ASSUME NEW e \in Drive PROVE drive[m][e] \in {"none", "orphan"} \cup Leaving
    <3>1. drive'[m][e] \in {"none", "orphan"} \cup Leaving
      BY <1>3, <2>1
    <3>2. DriveSteps(m, e)
      BY <1>2
    <3> QED BY <2>2, <2>3, <3>1, <3>2 DEF DriveSteps, Leaving, BoxState
  <2> QED BY <2>2, <2>5, <2>6
<1>7. \A c \in Containers(m) : cont[<<m, c>>].State = "ACTIVE" =>
        LET listed == {d \in Drive : drive[m][d] \notin {"none", "orphan"}}
        IN  c = "drive" /\ listed # {} /\ \A d \in listed : drive[m][d] \in Leaving
  <2> SUFFICES ASSUME NEW c \in Containers(m), cont[<<m, c>>].State = "ACTIVE"
               PROVE  LET listed == {d \in Drive : drive[m][d] \notin {"none", "orphan"}}
                      IN  c = "drive" /\ listed # {} /\ \A d \in listed : drive[m][d] \in Leaving
    OBVIOUS
  <2>1. PICK d \in Drive : drive[m][d] \in Leaving
    BY <1>6
  <2>2. drive[m][d] \notin {"none", "orphan"}
    BY <2>1 DEF Leaving
  <2> QED BY <1>6, <2>2
<1> QED BY <1>5, <1>7 DEF TakenOut

\* The hosts of the plan for the backends.
PlannedHosts == HostsList(round.view, getHostGroupHosts(round.view, round.inst["weka"]))

\* A backend of the list that is taken out is among them, as one that is deactivating.
LEMMA TakenOutSeen ==
    ASSUME TypeInv, KnownInv, ReadInv, round.pc = "plan", round.live, NEW m \in Going
    PROVE  \E h \in PlannedHosts : h[1] = m /\ deriveHostState(round.view, h) = DEACTIVATING
<1> DEFINE v == round.view
           b == Box(m)
<1>0. m \in Backend /\ m \in round.inst["weka"] /\ TakenOut(m) /\ InUse(m)
  BY DEF Going, TakenOut, TypeInv, Round, Group, KnownInv, Backend
<1>1. b \in Host /\ b[1] = m /\ b[2] = "drive" /\ m \in Machine
  BY <1>0, BoxHost
<1>2. PICK c \in Containers(m) : cont[<<m, c>>].State \in {"ACTIVE", "DEACTIVATING"}
  BY <1>0 DEF InUse
<1>3. ASSUME NEW h \in Host, h[1] = m, v.cont[h].State \notin {"ABSENT", "INACTIVE"}
      PROVE  h \in PlannedHosts
  <2>1. h \in Listed(v) /\ h \in HostsOf(v, m)
    BY <1>3 DEF Listed, HostsOf
  <2>2. ~allContainersInactive(v, m)
    BY <1>3, <2>1 DEF allContainersInactive
  <2> QED BY <1>0, <1>3, <2>1, <2>2
          DEF PlannedHosts, HostsList, getHostGroupHosts, belongsToHgIpBased, InactiveMachines
<1>4. CASE cont[<<m, c>>].State = "DEACTIVATING"
  <2> DEFINE h == <<m, c>>
  <2>1. h \in Host /\ h[1] = m
    BY <1>1 DEF Host, Containers, ContainerName
  <2>2. v.cont[h].State = "DEACTIVATING"
    BY <1>4, <2>1 DEF ReadInv
  <2>3. deriveHostState(v, h) = DEACTIVATING
    BY <2>2 DEF deriveHostState
  <2> QED BY <1>3, <2>1, <2>2, <2>3
<1>5. CASE cont[<<m, c>>].State = "ACTIVE"
  <2> DEFINE listed == {d \in Drive : drive[m][d] \notin {"none", "orphan"}}
  <2>1. c = "drive" /\ listed # {} /\ \A d \in listed : drive[m][d] \in Leaving
    BY <1>0, <1>5 DEF TakenOut
  <2>2. BoxState(m) = "ACTIVE"
    BY <1>5, <2>1 DEF BoxState, Box
  <2>3. PICK d \in Drive : drive[m][d] \in Leaving
    BY <2>1
  <2>4. SeenState(m) = "ACTIVE"
    BY <1>0, <2>2, <2>3 DEF ReadInv
  <2>5. v.drive[m][d] \in Leaving
    BY <1>0, <2>2, <2>3, <2>4 DEF ReadInv
  <2>6. ASSUME NEW e \in Drive, v.drive[m][e] \in {"active", "failed"} PROVE FALSE
    <3>1. drive[m][e] \in {"active", "failed"}
      BY <1>0, <2>2, <2>4, <2>6 DEF ReadInv
    <3> QED BY <2>1, <3>1 DEF Leaving
  <2>7. allDisksBeingRemoved(v, b)
    <3>1. d \in DrivesOf(v, b)
      BY <1>1, <2>5 DEF DrivesOf, Leaving
    <3>2. ShouldBeActive(v, b) = {}
      BY <1>1, <2>6 DEF ShouldBeActive, DrivesOf
    <3> QED BY <3>1, <3>2 DEF allDisksBeingRemoved
  <2>8. deriveHostState(v, b) = DEACTIVATING
    BY <1>1, <2>7 DEF deriveHostState
  <2> QED BY <1>1, <1>3, <2>4, <2>8 DEF SeenState
<1> QED BY <1>2, <1>4, <1>5

\* The sorted list puts the machines with a host that is deactivating first.
LEMMA DeactivatingFirst ==
    ASSUME NEW v, NEW L, NEW n, NEW S \in SUBSET MachinesOf(L), FirstMachines(v, L, n, S),
           NEW m \in S, \A h \in L : h[1] = m => deriveHostState(v, h) # DEACTIVATING,
           NEW k \in L, deriveHostState(v, k) = DEACTIVATING
    PROVE  k[1] \in S
<1> SUFFICES ASSUME k[1] \notin S PROVE FALSE
  OBVIOUS
<1>1. k[1] \in MachinesOf(L)
  BY DEF MachinesOf
<1>2. PICK h \in L : h[1] = m /\ HostBefore(v, h, k)
  BY <1>1 DEF FirstMachines, MachineBefore
<1> QED BY <1>2, States DEF HostBefore, DEACTIVATING, UNHEALTHY, HEALTHY

\* If a machine is chosen that is not on its way out, the choice is within the bound.
LEMMA ChoiceBounded ==
    ASSUME NEW v, NEW L, NEW I, IsFiniteSet(I), MachinesOf(L) \subseteq I, NEW T \in Nat,
           NEW S \in SUBSET MachinesOf(L), FirstMachines(v, L, getNumToDeactivate(v, L, T), S),
           NEW m \in S, \A h \in L : h[1] = m => deriveHostState(v, h) # DEACTIVATING
    PROVE  Cardinality(S) <= Larger(2, Cardinality(I) - T)
<1> DEFINE M == MachinesOf(L)
           A == HealthyMachines(v, L)
           U == UnhealthyMachines(v, L)
           D == DeactivatingMachines(v, L)
           n == getNumToDeactivate(v, L, T)
<1>1. U \cap D = {} /\ A \cap (U \cup D) = {} /\ M = A \cup (U \cup D)
  BY DEF HealthyMachines, UnhealthyMachines, DeactivatingMachines
<1>2. n = CalculateDeactivateTarget(Cardinality(A), Cardinality(U), Cardinality(D), T)
  BY DEF getNumToDeactivate
<1>3. Cardinality(S) = n /\ S \subseteq M
  BY DEF FirstMachines
<1>4. D \subseteq S \ {m}
  <2> SUFFICES ASSUME NEW k \in D PROVE k \in S /\ k # m
    OBVIOUS
  <2>1. PICK h \in L : h[1] = k /\ deriveHostState(v, h) = DEACTIVATING
    BY DEF DeactivatingMachines, MachineStates
  <2> QED BY <2>1, DeactivatingFirst
<1>5. M \subseteq I
  OBVIOUS
<1> HIDE DEF M, A, U, D, n
<1>6. IsFiniteSet(M) /\ IsFiniteSet(A) /\ IsFiniteSet(U) /\ IsFiniteSet(D) /\ IsFiniteSet(S)
  <2>1. IsFiniteSet(M)
    BY <1>5, FS_Subset
  <2> QED BY <1>1, <1>3, <2>1, FS_Subset
<1>7. Cardinality(U \cup D) = Cardinality(U) + Cardinality(D) /\ IsFiniteSet(U \cup D)
  BY <1>1, <1>6, TwoParts
<1>8. Cardinality(M) = Cardinality(A) + Cardinality(U \cup D)
  BY <1>1, <1>6, <1>7, TwoParts
<1>9. /\ Cardinality(A) \in Nat /\ Cardinality(U) \in Nat /\ Cardinality(D) \in Nat
      /\ Cardinality(I) \in Nat /\ Cardinality(M) \in Nat /\ Cardinality(M) <= Cardinality(I)
  BY <1>5, <1>6, FS_CardinalityType, FS_Subset
<1>10. Cardinality(S) > Cardinality(D)
  <2>1. IsFiniteSet(S \ {m}) /\ Cardinality(S \ {m}) = Cardinality(S) - 1 /\ Cardinality(S) \in Nat
    BY <1>6, FS_RemoveElement, FS_CardinalityType
  <2>2. Cardinality(D) <= Cardinality(S \ {m}) /\ Cardinality(S \ {m}) \in Nat
    BY <1>4, <2>1, FS_Subset, FS_CardinalityType
  <2> QED BY <1>9, <2>1, <2>2
<1>11. n <= Larger(2, Cardinality(A) + Cardinality(U) + Cardinality(D) - T)
  BY <1>2, <1>3, <1>9, <1>10, AddedWithinBound
<1>12. Cardinality(A) + Cardinality(U) + Cardinality(D) <= Cardinality(I)
  BY <1>7, <1>8, <1>9
<1>13. n \in Nat
  BY <1>3, <1>6, FS_CardinalityType
<1> QED BY <1>3, <1>9, <1>11, <1>12, <1>13 DEF Larger

\* A smaller set of machines stays within the bound.
LEMMA FewerWithin ==
    ASSUME NEW Y \in SUBSET Machine, NEW X \in SUBSET Y, NEW b \in Int, Cardinality(Y) <= b
    PROVE  Cardinality(X) <= b
<1>1. IsFiniteSet(Y)
  BY MachinesFinite
<1> QED BY <1>1, FS_Subset, FS_CardinalityType

\* The bound is a number.
LEMMA LimitType == ASSUME TypeInv PROVE Limit \in Int
<1>1. round.inst["weka"] \in SUBSET Machine /\ round.target["weka"] \in Nat
  BY DEF TypeInv, Round, Group
<1>2. Cardinality(round.inst["weka"]) \in Nat
  BY <1>1, MachinesFinite, FS_CardinalityType
<1> QED BY <1>1, <1>2 DEF Limit, Larger

\* What a step takes out of the backends of the list was taken out or chosen before.
LEMMA GoingNext ==
    ASSUME TypeInv, KnownInv, QuitInv, OnwardInv, [Next]_vars
    PROVE  /\ {k \in round.inst["weka"] : TakenOut(k)'} \subseteq Going \cup round.deact
           /\ round.pc \notin Working => {k \in round.inst["weka"] : TakenOut(k)'} \subseteq Going
<1>1. round.inst["weka"] \subseteq Backend
  BY DEF TypeInv, Round, Group, KnownInv, Backend
<1> QED BY <1>1, OutStep DEF Going

\* The plan for the backends keeps the bound.
LEMMA BoundPlan ==
    ASSUME TypeInv, KnownInv, QuitInv, ReadInv, OnwardInv, [Next]_vars,
           NEW gone, PlanWeka(gone), round.live
    PROVE  BoundInv'
<1> DEFINE v == round.view
           L == PlannedHosts
           I == round.inst["weka"]
           T == round.target["weka"]
           r == [round EXCEPT !.clean = @ /\ gone = OldDrives(round.view)]
<1>0. round.pc = "plan"
  BY DEF PlanWeka
<1>1. r.view = v
  BY DEF TypeInv, Round
<1>2. PICK S : ScaleHgDown(r, "weka", getHostGroupHosts(v, I), T, S)
  BY DEF PlanWeka
<1>3. /\ round'.deact = S /\ round'.view = v /\ round'.inst = round.inst
      /\ round'.target = round.target
  BY <1>2 DEF ScaleHgDown, TypeInv, Round
<1>4. S \in SUBSET MachinesOf(L) /\ FirstMachines(v, L, getNumToDeactivate(v, L, T), S)
  BY <1>1, <1>2 DEF ScaleHgDown, PlannedHosts
<1>5. MachinesOf(L) \subseteq I /\ I \in SUBSET Machine /\ IsFiniteSet(I) /\ T \in Nat
  <2>1. MachinesOf(L) \subseteq I
    BY DEF MachinesOf, PlannedHosts, HostsList, getHostGroupHosts, belongsToHgIpBased
  <2>2. I \in SUBSET Machine /\ T \in Nat
    BY DEF TypeInv, Round, Group
  <2> QED BY <2>1, <2>2, MachinesFinite
<1> SUFFICES ASSUME NEW m \in S, ~OnWay(v, m) PROVE (Cardinality(Going \cup round.deact) <= Limit)'
  BY <1>3 DEF BoundInv
<1>6. \A h \in L : h \in Listed(v)
  BY DEF PlannedHosts, HostsList, getHostGroupHosts
<1>7. \A h \in L : h[1] = m => deriveHostState(v, h) # DEACTIVATING
  BY <1>6 DEF OnWay
<1>8. Cardinality(S) <= Limit
  BY <1>4, <1>5, <1>7, ChoiceBounded DEF Limit
<1>9. Going \subseteq S
  <2> SUFFICES ASSUME NEW k \in Going PROVE k \in S
    OBVIOUS
  <2>1. PICK h \in L : h[1] = k /\ deriveHostState(v, h) = DEACTIVATING
    BY <1>0, TakenOutSeen
  <2> QED BY <1>4, <1>7, <2>1, DeactivatingFirst
<1>10. Going' \subseteq Going
  BY <1>0, <1>3, GoingNext DEF Going
<1>11. (Going \cup round.deact)' \in SUBSET S
  BY <1>3, <1>9, <1>10
<1>12. Limit' = Limit
  BY <1>3 DEF Limit
<1>13. S \in SUBSET Machine
  BY <1>4, <1>5
<1>14. Cardinality((Going \cup round.deact)') <= Limit
  BY <1>8, <1>11, <1>13, LimitType, FewerWithin
<1> QED BY <1>12, <1>14

\* Every step keeps BoundInv.
LEMMA BoundStep ==
    ASSUME TypeInv, KnownInv, QuitInv, ReadInv, OnwardInv, BoundInv, [Next]_vars
    PROVE  BoundInv'
<1> SUFFICES ASSUME round'.pc = "weka", round'.live,
                    NEW m \in round'.deact, ~OnWay(round'.view, m)
             PROVE  (Cardinality(Going \cup round.deact) <= Limit)'
  BY DEF BoundInv
<1>1. ASSUME NEW gone, PlanWeka(gone) PROVE (Cardinality(Going \cup round.deact) <= Limit)'
  <2>1. round.live
    BY <1>1 DEF PlanWeka, ScaleHgDown, TypeInv, Round
  <2>2. BoundInv'
    BY <1>1, <2>1, BoundPlan
  <2> QED BY <2>2 DEF BoundInv
<1>2. CASE WorkOn
  <2>1. /\ round.pc = "weka" /\ round.live /\ m \in round.deact /\ ~OnWay(round.view, m)
        /\ round'.inst = round.inst /\ round'.target = round.target
        /\ round'.deact \subseteq round.deact
    BY <1>2 DEF WorkOn
  <2>2. Cardinality(Going \cup round.deact) <= Limit
    BY <2>1 DEF BoundInv
  <2>3. (Going \cup round.deact)' \in SUBSET (Going \cup round.deact)
    BY <2>1, GoingNext DEF Going
  <2>4. Going \cup round.deact \in SUBSET Machine
    BY DEF Going, TypeInv, Round, Group
  <2>5. Cardinality((Going \cup round.deact)') <= Limit
    BY <2>2, <2>3, <2>4, LimitType, FewerWithin
  <2>6. Limit' = Limit
    BY <2>1 DEF Limit
  <2> QED BY <2>5, <2>6
<1>3. ~NfsLeftovers /\ ~ScaleNfs /\ ~HandleLeftOverHosts
  <2>1. NfsLeftovers => round'.pc = "nfsLeft"
    BY DEF NfsLeftovers, TypeInv, Round
  <2>2. ScaleNfs => round'.pc = "nfs"
    BY DEF ScaleNfs, ScaleHgDown, TypeInv, Round
  <2>3. HandleLeftOverHosts => round'.pc = "left"
    BY DEF HandleLeftOverHosts, TypeInv, Round
  <2> QED BY <2>1, <2>2, <2>3
<1> QED BY <1>1, <1>2, <1>3, WorkSteps

\* A backend that is whole is started on by a call of the first stage, and the lists of the
\* round did not show it on its way out.
LEMMA WholeStarted ==
    ASSUME TypeInv, KnownInv, OnwardInv, StageInv, [Next]_vars,
           NEW m \in round.inst["weka"], Whole(m), ~Whole(m)'
    PROVE  round.pc = "weka" /\ round.live /\ m \in round.deact /\ ~OnWay(round.view, m)
<1>0. m \in Backend /\ Box(m) \in Host /\ "drive" \in Containers(m) /\ m \in Machine
  <2>1. m \in Backend
    BY DEF TypeInv, Round, Group, KnownInv, Backend
  <2> QED BY <2>1, BoxHost, MachineAssumption DEF Containers, Backend
<1>1. round.pc \in Working /\ round.live /\ m \in round.deact
  <2>1. ASSUME NEW c \in Containers(m), cont'[<<m, c>>].State # "ACTIVE"
        PROVE  round.pc \in Working /\ round.live /\ m \in round.deact
    <3>1. <<m, c>> \in Host /\ <<m, c>>[1] = m
      BY <1>0 DEF Host, Containers, ContainerName
    <3>2. cont[<<m, c>>].State = "ACTIVE"
      BY DEF Whole
    <3> QED BY <2>1, <3>1, <3>2, ContainerMoves DEF Moves
  <2>2. ASSUME NEW d \in Drive, drive'[m][d] \in Leaving
        PROVE  round.pc \in Working /\ round.live /\ m \in round.deact
    <3>1. drive[m][d] \notin Leaving
      BY DEF Whole
    <3> QED BY <1>0, <2>2, <3>1, DriveStepsAlways DEF DriveSteps, Leaving
  <2> QED BY <2>1, <2>2 DEF Whole
<1>2. round.pc = "weka"
  BY <1>1 DEF StageInv
<1>3. ~OnWay(round.view, m)
  <2> SUFFICES ASSUME NEW h \in Listed(round.view), h[1] = m,
                      deriveHostState(round.view, h) = DEACTIVATING
               PROVE  FALSE
    BY DEF OnWay
  <2>1. h \in Host /\ round.view.cont[h].State # "ABSENT" /\ h[2] \in Containers(m) /\ h = <<m, h[2]>>
    BY DEF Listed, Host
  <2>2. cont[h].State = "ACTIVE"
    BY <2>1 DEF Whole
  <2>3. round.view.cont[h].State \in {"ABSENT", "ACTIVE"}
    BY <1>2, <2>1, <2>2 DEF OnwardInv
  <2>4. h = Box(m) /\ allDisksBeingRemoved(round.view, h)
    BY <2>1, <2>3 DEF deriveHostState, DEACTIVATING, UNHEALTHY, HEALTHY, Box
  <2>5. PICK d \in DrivesOf(round.view, h) : d \notin ShouldBeActive(round.view, h)
    BY <2>4 DEF allDisksBeingRemoved
  <2>6. d \in Drive /\ round.view.drive[m][d] \notin {"none", "orphan", "active", "failed"}
    BY <2>5 DEF DrivesOf, ShouldBeActive
  <2>7. round.view.drive[m][d] \in DriveState
    BY <1>0, <2>6 DEF TypeInv, Round, View
  <2>8. round.view.drive[m][d] \in Leaving
    BY <2>6, <2>7 DEF DriveState, Leaving
  <2>9. drive[m][d] \in Leaving
    BY <1>0, <1>1, <1>2, <2>1, <2>2, <2>4, <2>6, <2>8 DEF OnwardInv, SeenState, BoxState
  <2> QED BY <2>6, <2>9 DEF Whole
<1> QED BY <1>1, <1>2, <1>3

\* The inductive invariant.
StartInv == SafeInv /\ ReadInv /\ OnwardInv /\ StageInv /\ BoundInv

\* It holds at the start.
LEMMA StartStart == Init => StartInv
BY SafeStart DEF Init, NoRound, StartInv, ReadInv, OnwardInv, StageInv, BoundInv

\* Every step keeps it.
LEMMA StartStep == StartInv /\ [Next]_vars => StartInv'
<1> SUFFICES ASSUME StartInv, [Next]_vars PROVE StartInv'
  OBVIOUS
<1>1. /\ TypeInv /\ KnownInv /\ QuitInv /\ SafeInv'
      /\ ReadInv /\ OnwardInv /\ StageInv /\ BoundInv
  BY SafeStep DEF StartInv, SafeInv
<1> QED BY <1>1, ReadStep, OnwardStep, StageStep, BoundStep DEF StartInv

\* No sequence of rounds, cut short or cut off from the cluster at any point, starts on a
\* backend that Weka uses as a whole if that takes more out than two, or than the surplus:
\* every round counts what earlier ones have started, as its lists were read after they
\* ended, machines that are deactivating come first in the sorted list, and
\* calculateDeactivateTarget adds to them within the bound only.
THEOREM StartsWithinBound == Spec => StartsBounded
<1>1. StartInv /\ [Next]_vars =>
        [\A m \in round.inst["weka"] : Whole(m) /\ ~Whole(m)' =>
            Cardinality({k \in round.inst["weka"] : TakenOut(k)'} \cup {m})
              <= Larger(2, Cardinality(round.inst["weka"]) - round.target["weka"])]_vars
  <2> SUFFICES ASSUME StartInv, [Next]_vars, NEW m \in round.inst["weka"], Whole(m), ~Whole(m)'
               PROVE  Cardinality({k \in round.inst["weka"] : TakenOut(k)'} \cup {m}) <= Limit
    BY DEF Limit
  <2>0. TypeInv /\ KnownInv /\ QuitInv /\ OnwardInv /\ StageInv /\ BoundInv
    BY DEF StartInv, SafeInv
  <2>1. round.pc = "weka" /\ round.live /\ m \in round.deact /\ ~OnWay(round.view, m)
    BY <2>0, WholeStarted
  <2>2. Cardinality(Going \cup round.deact) <= Limit
    BY <2>0, <2>1 DEF BoundInv
  <2>3. {k \in round.inst["weka"] : TakenOut(k)'} \cup {m} \in SUBSET (Going \cup round.deact)
    BY <2>0, <2>1, GoingNext
  <2>4. Going \cup round.deact \in SUBSET Machine
    BY <2>0 DEF Going, TypeInv, Round, Group
  <2> QED BY <2>0, <2>2, <2>3, <2>4, LimitType, FewerWithin
<1> QED BY <1>1, StartStart, StartStep, PTL DEF Spec, StartsBounded

=============================================================================
