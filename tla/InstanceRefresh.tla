--------------------------- MODULE InstanceRefresh ---------------------------
(***************************************************************************)
(* The rolling replacement of the backend instances of a Weka cluster:     *)
(* instance_refresh/instance_refresh.go and the persisted state of         *)
(* protocol/instance_refresh.go.                                           *)
(*                                                                         *)
(* The package is a pure state machine.  A cloud function (outside the     *)
(* repository) runs it periodically: it loads the persisted state, lists   *)
(* the instances of the scale set, asks Weka for its status, calls         *)
(* AdvanceStateMachine, and stores the new state and the new DesiredSize.  *)
(* The two stores are separate objects, and the function may fail or be    *)
(* killed at any point between its steps.                                  *)
(*                                                                         *)
(* Around it the scale set launches instances up to DesiredSize, instances *)
(* join the Weka cluster and add drives, and scale_down deactivates the    *)
(* surplus, oldest first.                                                  *)
(***************************************************************************)
EXTENDS Integers, FiniteSets, DeactivateTarget

CONSTANTS
    Instance,            \* instance ids, in launch order (a finite set of naturals)
    InitialSize,         \* size of the cluster before the first refresh
    Intervals,           \* ScaleUpInterval values a refresh may be started with
    ContainersPerVm,
    DrivesPerVm,
    Gateways,            \* protocolGatewayContainers
    MaxStarts,           \* bound: refreshes started
    MaxCrashes,          \* bound: backend machines that fail on their own
    MaxFailures          \* bound: failed runs of the cloud function

ASSUME InstanceAssumption ==
    /\ Instance \subseteq Nat
    /\ IsFiniteSet(Instance)
ASSUME SizeAssumption ==
    /\ InitialSize \in Nat \ {0}
    /\ Intervals \subseteq Nat \ {0}
    /\ ContainersPerVm \in Nat \ {0}
    /\ DrivesPerVm \in Nat \ {0}
    /\ Gateways \in Nat
    /\ MaxStarts \in Nat /\ MaxCrashes \in Nat /\ MaxFailures \in Nat

VARIABLES
    state,      \* the persisted InstanceRefreshState
    desired,    \* the persisted DesiredSize of the scale set
    run,        \* the run of the cloud function in progress, if any
    stage,      \* where each instance is in its life
    starts, crashes, failures   \* what the bounds count

vars == <<state, desired, run, stage, starts, crashes, failures>>

-----------------------------------------------------------------------------
(* The persisted state and the phases.                                     *)

ActivePhase == {"provisioning", "waitingScaleUp", "waitingScaleDown", "terminating"}
TerminalPhase == {"completed", "cancelled"}
Phase == ActivePhase \cup TerminalPhase \cup {"idle"}

RefreshState ==
    [Phase : Phase, OriginalSize : Nat, ScaleUpInterval : Nat,
     CurrentIteration : Nat, TotalIterations : Nat,
     OriginalInstanceIds : SUBSET Instance]

IsInProgress(s) == s.Phase \in ActivePhase
CanTrigger(s) == ~IsInProgress(s)

\* Sizes are positive, so zero stands for a nil *int.
Nil == 0

-----------------------------------------------------------------------------
(* Arithmetic of the schedule.                                             *)

\* Mutant: the remainder of the division gets no iteration.
CalculateTotalIterations_Floor(clusterSize, scaleUpInterval) ==
    IF scaleUpInterval <= 0 THEN 0 ELSE clusterSize \div scaleUpInterval

CalculateTotalIterations(clusterSize, scaleUpInterval) ==
    IF scaleUpInterval <= 0 THEN 0
    ELSE (clusterSize \div scaleUpInterval)
           + (IF clusterSize % scaleUpInterval # 0 THEN 1 ELSE 0)

GetScaledUpSize(originalSize, scaleUpInterval, currentIteration, totalIterations) ==
    LET remaining == originalSize - (currentIteration - 1) * scaleUpInterval
    IN  IF currentIteration = totalIterations /\ remaining < scaleUpInterval
        THEN originalSize + remaining
        ELSE originalSize + scaleUpInterval

ScaledUpSize(s) ==
    GetScaledUpSize(s.OriginalSize, s.ScaleUpInterval, s.CurrentIteration, s.TotalIterations)

CountReplacedInstances(originalIds, currentIds) == Cardinality(originalIds \ currentIds)

GetExpectedReplaced(s) ==
    Lesser(s.CurrentIteration * s.ScaleUpInterval, Cardinality(s.OriginalInstanceIds))

GetExpectedDesiredSize(s) ==
    IF s.Phase \in {"provisioning", "waitingScaleUp"} THEN ScaledUpSize(s) ELSE s.OriginalSize

CalculateTargetContainers(vmCount) == vmCount * ContainersPerVm + Gateways

CheckClusterHealthy(status, expectedSize) ==
    /\ status.IoStarted
    /\ status.StatusOK
    /\ status.ContainersActive = CalculateTargetContainers(expectedSize)
    /\ status.ContainersTotal = CalculateTargetContainers(expectedSize)
    /\ status.DrivesActive = expectedSize * DrivesPerVm
    /\ status.DrivesTotal = expectedSize * DrivesPerVm

-----------------------------------------------------------------------------
(* The state machine.  An operator that changes the persisted state maps   *)
(* the state before to the state after.                                    *)

InitializeState(originalSize, scaleUpInterval, originalInstanceIds) ==
    [Phase |-> "provisioning",
     OriginalSize |-> originalSize,
     ScaleUpInterval |-> scaleUpInterval,
     CurrentIteration |-> 1,
     TotalIterations |-> CalculateTotalIterations(originalSize, scaleUpInterval),
     OriginalInstanceIds |-> originalInstanceIds]

TransitionTo(s, phase) == [s EXCEPT !.Phase = phase]
MarkCompleted(s) == TransitionTo(s, "completed")
MarkCancelled(s) == TransitionTo(s, "cancelled")

\* Mutant: the iteration is not counted.
StartNextIteration_Uncounted(s) == TransitionTo(s, "provisioning")

StartNextIteration(s) ==
    [s EXCEPT !.Phase = "provisioning", !.CurrentIteration = @ + 1]

\* Mutant: one iteration too many.
ShouldContinue_OneMore(s) == s.CurrentIteration <= s.TotalIterations

ShouldContinue(s) == s.CurrentIteration < s.TotalIterations

\* What AdvanceStateMachine hands back: the state, whether it asks for it to be
\* stored, the size to set (or Nil).  The error of the over-replaced case carries
\* no state change, so it is the result (s, TRUE, OriginalSize).
Outcome(s, changed, size) == [state |-> s, changed |-> changed, size |-> size]

\* Mutant: the last iteration asks for the scaled-up size like the others.
completeIterationAndProceed_AlwaysUp(s) ==
    IF ShouldContinue(s)
    THEN LET next == StartNextIteration(s) IN Outcome(next, TRUE, ScaledUpSize(next))
    ELSE Outcome(MarkCompleted(s), TRUE, ScaledUpSize(s))

completeIterationAndProceed(s) ==
    IF ShouldContinue(s)
    THEN LET next == StartNextIteration(s) IN Outcome(next, TRUE, ScaledUpSize(next))
    ELSE Outcome(MarkCompleted(s), TRUE, Nil)

\* Mutants: scaling down does not wait for Weka; waiting for one instance too many.
AdvanceScaleUp_Unchecked(s, status, ids) ==
    IF Cardinality(ids) < ScaledUpSize(s)
    THEN Outcome(TransitionTo(s, "provisioning"), s.Phase # "provisioning", ScaledUpSize(s))
    ELSE Outcome(TransitionTo(s, "waitingScaleDown"), TRUE, s.OriginalSize)
AdvanceScaleUp_OffByOne(s, status, ids) ==
    IF Cardinality(ids) <= ScaledUpSize(s)
    THEN Outcome(TransitionTo(s, "provisioning"), s.Phase # "provisioning", ScaledUpSize(s))
    ELSE Outcome(TransitionTo(s, "waitingScaleUp"), TRUE, ScaledUpSize(s))

AdvanceScaleUp(s, status, ids) ==
    LET size == ScaledUpSize(s) IN
    IF Cardinality(ids) < size
      THEN Outcome(TransitionTo(s, "provisioning"), s.Phase # "provisioning", size)
    ELSE IF s.Phase # "waitingScaleUp"
      THEN Outcome(TransitionTo(s, "waitingScaleUp"), TRUE, size)
    ELSE IF ~CheckClusterHealthy(status, size)
      THEN Outcome(s, FALSE, size)
    ELSE Outcome(TransitionTo(s, "waitingScaleDown"), TRUE, s.OriginalSize)

OverReplaced(s, ids) ==
    CountReplacedInstances(s.OriginalInstanceIds, ids) > GetExpectedReplaced(s)

\* Mutant: a batch is closed when the size is right, whoever was replaced.
BatchReplaced_BySize(s, ids) == Cardinality(ids) = s.OriginalSize

BatchReplaced(s, ids) ==
    /\ CountReplacedInstances(s.OriginalInstanceIds, ids) = GetExpectedReplaced(s)
    /\ Cardinality(ids) = s.OriginalSize

AdvanceWaitingScaleDown(s, status, ids) ==
    IF ~CheckClusterHealthy(status, s.OriginalSize)
      THEN Outcome(s, FALSE, s.OriginalSize)
    ELSE IF OverReplaced(s, ids)
      THEN Outcome(s, TRUE, s.OriginalSize)
    ELSE IF BatchReplaced(s, ids)
      THEN completeIterationAndProceed(s)
    ELSE Outcome(TransitionTo(s, "terminating"), TRUE, s.OriginalSize)

AdvanceTerminating(s, ids) ==
    IF OverReplaced(s, ids)
      THEN Outcome(s, TRUE, s.OriginalSize)
    ELSE IF ~BatchReplaced(s, ids)
      THEN Outcome(s, FALSE, s.OriginalSize)
    ELSE completeIterationAndProceed(s)

AdvanceStateMachine(s, status, ids) ==
    CASE s.Phase \in {"provisioning", "waitingScaleUp"} -> AdvanceScaleUp(s, status, ids)
      [] s.Phase = "waitingScaleDown" -> AdvanceWaitingScaleDown(s, status, ids)
      [] s.Phase = "terminating" -> AdvanceTerminating(s, ids)
      [] OTHER -> Outcome(s, FALSE, Nil)

-----------------------------------------------------------------------------
(* The instances and the Weka cluster they form.                           *)
(*   none          not launched yet                                        *)
(*   booting       in the scale set, not in the Weka cluster               *)
(*   joined        its containers are active, its drives not added yet     *)
(*   up            containers and drives active                            *)
(*   down          failed: containers and drives inactive                  *)
(*   deactivating  chosen by scale_down                                    *)
(*   left          removed from Weka, still in the scale set               *)
(*   gone          terminated                                              *)

Stage == {"none", "booting", "joined", "up", "down", "deactivating", "left", "gone"}

InStage(S) == {i \in Instance : stage[i] \in S}
Instances == InStage({"booting", "joined", "up", "down", "deactivating", "left"})
Members == InStage({"joined", "up", "down", "deactivating"})

\* What Weka reports, given what it says of itself and how many gateway
\* containers are active at the moment.
WekaStatus(ioStarted, statusOK, gatewaysActive) ==
    [IoStarted |-> ioStarted,
     StatusOK |-> statusOK,
     ContainersActive |-> Cardinality(InStage({"joined", "up"})) * ContainersPerVm + gatewaysActive,
     ContainersTotal |-> Cardinality(Members) * ContainersPerVm + Gateways,
     DrivesActive |-> Cardinality(InStage({"up"})) * DrivesPerVm,
     DrivesTotal |-> Cardinality(InStage({"up", "down", "deactivating"})) * DrivesPerVm]

Move(i, to) == stage' = [stage EXCEPT ![i] = to]

\* The scale set launches instances until it has DesiredSize of them.
Launch(i) ==
    /\ Cardinality(Instances) < desired
    /\ stage[i] = "none"
    /\ \A j \in Instance : j < i => stage[j] # "none"
    /\ Move(i, "booting")
    /\ UNCHANGED <<state, desired, run, starts, crashes, failures>>

Join(i) ==
    /\ stage[i] = "booting"
    /\ Move(i, "joined")
    /\ UNCHANGED <<state, desired, run, starts, crashes, failures>>

AddDrives(i) ==
    /\ stage[i] = "joined"
    /\ Move(i, "up")
    /\ UNCHANGED <<state, desired, run, starts, crashes, failures>>

\* scale_down: as many machines deactivating as CalculateDeactivateTarget says,
\* failed ones first, then the oldest.
Deactivate(i) ==
    LET active == Cardinality(InStage({"joined", "up"}))
        unhealthy == InStage({"down"})
        deactivating == Cardinality(InStage({"deactivating"}))
    IN  /\ deactivating < CalculateDeactivateTarget(active, Cardinality(unhealthy), deactivating, desired)
        /\ IF unhealthy # {} THEN i \in unhealthy ELSE stage[i] \in {"joined", "up"}
        /\ \A j \in (IF unhealthy # {} THEN unhealthy ELSE InStage({"joined", "up"})) : i <= j
        /\ Move(i, "deactivating")
        /\ UNCHANGED <<state, desired, run, starts, crashes, failures>>

RemoveFromWeka(i) ==
    /\ stage[i] = "deactivating"
    /\ Move(i, "left")
    /\ UNCHANGED <<state, desired, run, starts, crashes, failures>>

Terminate(i) ==
    /\ stage[i] = "left"
    /\ Move(i, "gone")
    /\ UNCHANGED <<state, desired, run, starts, crashes, failures>>

\* A backend machine fails on its own ...
Crash(i) ==
    /\ crashes < MaxCrashes
    /\ stage[i] \in {"joined", "up"}
    /\ Move(i, "down")
    /\ crashes' = crashes + 1
    /\ UNCHANGED <<state, desired, run, starts, failures>>

\* ... and may come back before scale_down gets to it.
Recover(i) ==
    /\ stage[i] = "down"
    /\ Move(i, "up")
    /\ UNCHANGED <<state, desired, run, starts, crashes, failures>>

-----------------------------------------------------------------------------
(* The cloud function.  It holds the lock of the state object for a run,   *)
(* so runs, starts and cancels do not overlap; the cluster goes on         *)
(* changing between the steps of a run.                                    *)

NoState ==
    [Phase |-> "idle", OriginalSize |-> 0, ScaleUpInterval |-> 0,
     CurrentIteration |-> 0, TotalIterations |-> 0, OriginalInstanceIds |-> {}]

NoRun == [pc |-> "idle", ids |-> {}, next |-> NoState, size |-> Nil]

Start(interval) ==
    /\ run = NoRun
    /\ CanTrigger(state)
    /\ starts < MaxStarts
    /\ Cardinality(Instances) = desired        \* a settled scale set
    /\ state' = InitializeState(desired, interval, Instances)
    /\ starts' = starts + 1
    /\ UNCHANGED <<desired, run, stage, crashes, failures>>

\* Cancel stores the cancelled state, then the size that goes with it.
Cancel ==
    /\ run = NoRun
    /\ IsInProgress(state)
    /\ state' = MarkCancelled(state)
    /\ run' = [NoRun EXCEPT !.pc = "writeSize", !.size = GetExpectedDesiredSize(state')]
    /\ UNCHANGED <<desired, stage, starts, crashes, failures>>

\* A run loads the state and lists the instances ...
ListInstances ==
    /\ run = NoRun
    /\ IsInProgress(state)
    /\ run' = [NoRun EXCEPT !.pc = "advance", !.ids = Instances]
    /\ UNCHANGED <<state, desired, stage, starts, crashes, failures>>

\* ... asks Weka for its status and advances the state machine ...
Advance(ioStarted, statusOK, gatewaysActive) ==
    /\ run.pc = "advance"
    /\ LET outcome == AdvanceStateMachine(state, WekaStatus(ioStarted, statusOK, gatewaysActive), run.ids)
       IN  run' = [NoRun EXCEPT !.pc = IF outcome.changed THEN "writeState" ELSE "writeSize",
                                !.next = outcome.state,
                                !.size = outcome.size]
    /\ UNCHANGED <<state, desired, stage, starts, crashes, failures>>

\* ... stores the state ...
WriteState ==
    /\ run.pc = "writeState"
    /\ state' = run.next
    /\ run' = [run EXCEPT !.pc = "writeSize"]
    /\ UNCHANGED <<desired, stage, starts, crashes, failures>>

\* ... and stores the size, if there is one and it differs.
WriteSize ==
    /\ run.pc = "writeSize"
    /\ desired' = IF run.size = Nil THEN desired ELSE run.size
    /\ run' = NoRun
    /\ UNCHANGED <<state, stage, starts, crashes, failures>>

\* A call or a write fails, or the function is killed: what is stored stays.
FailRun ==
    /\ run.pc # "idle"
    /\ failures < MaxFailures
    /\ run' = NoRun
    /\ failures' = failures + 1
    /\ UNCHANGED <<state, desired, stage, starts, crashes>>

-----------------------------------------------------------------------------
Init ==
    /\ state = NoState
    /\ desired = InitialSize
    /\ run = NoRun
    /\ stage \in [Instance -> {"none", "up"}]
    /\ Cardinality(Instances) = InitialSize
    /\ \A i, j \in Instance : stage[i] = "up" /\ j < i => stage[j] = "up"
    /\ starts = 0 /\ crashes = 0 /\ failures = 0

Function ==
    \/ \E k \in Intervals : Start(k)
    \/ Cancel
    \/ ListInstances
    \/ \E io, ok \in BOOLEAN, gw \in 0..Gateways : Advance(io, ok, gw)
    \/ WriteState
    \/ WriteSize
    \/ FailRun

Cluster ==
    \E i \in Instance :
        \/ Launch(i) \/ Join(i) \/ AddDrives(i)
        \/ Deactivate(i) \/ RemoveFromWeka(i) \/ Terminate(i)
        \/ Crash(i) \/ Recover(i)

Next == Function \/ Cluster

Spec == Init /\ [][Next]_vars

\* The cloud function is scheduled again and again and its bounded failures end,
\* Weka is healthy at infinitely many of its runs, and the scale set, the joining
\* machines and scale_down go on working.
Fairness ==
    /\ WF_vars(ListInstances)
    /\ WF_vars(\E io, ok \in BOOLEAN, gw \in 0..Gateways : Advance(io, ok, gw))
    /\ SF_vars(Advance(TRUE, TRUE, Gateways))
    /\ WF_vars(WriteState)
    /\ WF_vars(WriteSize)
    /\ \A i \in Instance :
        /\ WF_vars(Launch(i)) /\ WF_vars(Join(i)) /\ WF_vars(AddDrives(i))
        /\ WF_vars(Deactivate(i)) /\ WF_vars(RemoveFromWeka(i)) /\ WF_vars(Terminate(i))

FairSpec == Spec /\ Fairness

-----------------------------------------------------------------------------
(* Properties.                                                             *)

\* Every variable has its type, the size of the scale set is never zero and the
\* iteration never exceeds the total.
TypeOK ==
    /\ state \in RefreshState
    /\ state.CurrentIteration <= state.TotalIterations
    /\ desired \in Nat \ {0}
    /\ run \in [pc : {"idle", "advance", "writeState", "writeSize"},
                ids : SUBSET Instance, next : RefreshState, size : Nat]
    /\ stage \in [Instance -> Stage]
    /\ starts \in 0..MaxStarts
    /\ crashes \in 0..MaxCrashes
    /\ failures \in 0..MaxFailures

\* A refresh stored as completed has replaced every instance it started with,
\* whatever machines failed, whatever writes were lost and however stale the
\* instance list of the run was (AdvanceStateMachine, GetExpectedReplaced).
CompletedMeansReplaced ==
    state.Phase = "completed" => state.OriginalInstanceIds \cap Instances = {}

\* While a refresh is in progress and no machine has failed on its own, a machine that
\* holds data is deactivated only when more machines than the original size do.
CapacityKept ==
    [][\A i \in Instance :
         IsInProgress(state) /\ crashes = 0 /\ stage[i] = "up" /\ stage'[i] = "deactivating"
           => Cardinality(InStage({"up"})) > state.OriginalSize]_vars

\* A completed refresh leaves the scale set at the size it had when it began: "if a
\* previous write failed, the next run will correct the DesiredSize".
SizeCorrected ==
    state.Phase = "completed" /\ run.pc = "idle" => desired = state.OriginalSize

\* As long as no machine fails on its own, it does: a write that fails leaves the
\* cluster unhealthy at the wrong size, so that a later run corrects it.
SizeRestored == crashes = 0 => SizeCorrected

\* The refresh moves on to its next batch only when the originals the closed batch
\* was due are really gone from the scale set, even though the run that decides it
\* works on an instance list taken before it asked Weka and stored the state.
BatchClosedWhenDue ==
    [][\A s \in {state} :
         state' = StartNextIteration(s)
           => CountReplacedInstances(s.OriginalInstanceIds, Instances) >= GetExpectedReplaced(s)]_vars

\* A refresh in progress ends, unless a machine fails on its own: that can put it ahead
\* of its batch, where it stays until it is cancelled.
RefreshEnds == IsInProgress(state) ~> state.Phase \in TerminalPhase \/ crashes > 0

\* The refresh implements the abstract rolling replacement.
Rolling == INSTANCE RollingReplacement WITH
    Ids <- Instance,
    BatchSizes <- Intervals,
    status <- IF IsInProgress(state) THEN "running"
              ELSE IF state.Phase = "idle" THEN "none" ELSE state.Phase,
    interval <- state.ScaleUpInterval,
    batch <- state.CurrentIteration,
    original <- state.OriginalInstanceIds,
    old <- IF IsInProgress(state) THEN state.OriginalInstanceIds \cap Instances ELSE {},
    lost <- crashes

\* Batches are closed when full, never overrun by more than the machines that failed,
\* and completion means every original instance is gone: the specification of
\* RollingReplacement.
RollingSpec == Rolling!Spec

=============================================================================
