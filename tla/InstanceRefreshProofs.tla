------------------------ MODULE InstanceRefreshProofs ------------------------
(***************************************************************************)
(* Proofs about InstanceRefresh, for clusters and intervals of any size    *)
(* and any number of failures of machines and of the cloud function.       *)
(***************************************************************************)
EXTENDS InstanceRefresh, FiniteSetTheorems, TLAPS

-----------------------------------------------------------------------------
(* Arithmetic of the schedule.                                             *)

\* Enough iterations are planned to cover the whole cluster, and none to spare.
LEMMA IterationsCoverCluster ==
    ASSUME NEW n \in Nat \ {0}, NEW k \in Nat \ {0}
    PROVE  /\ CalculateTotalIterations(n, k) \in Nat \ {0}
           /\ CalculateTotalIterations(n, k) * k >= n
           /\ (CalculateTotalIterations(n, k) - 1) * k < n
<1> DEFINE q == n \div k   r == n % k
<1>1. /\ q \in Nat /\ r \in Nat
      /\ n = k * q + r
      /\ r < k
  OBVIOUS
<1>2. CASE r = 0
  <2>1. CalculateTotalIterations(n, k) = q
    BY <1>2, <1>1 DEF CalculateTotalIterations
  <2>2. q # 0
    BY <1>1, <1>2
  <2>3. (q - 1) * k = k * q - k
    BY <1>1
  <2> QED
    BY <2>1, <2>2, <2>3, <1>1, <1>2
<1>3. CASE r # 0
  <2>1. CalculateTotalIterations(n, k) = q + 1
    BY <1>3, <1>1 DEF CalculateTotalIterations
  <2>2. (q + 1) * k = k * q + k
    BY <1>1
  <2> QED
    BY <2>1, <2>2, <1>1, <1>3
<1> QED
  BY <1>2, <1>3


\* What a schedule of the state machine always satisfies.
Schedule(s) ==
    /\ s.OriginalSize = Cardinality(s.OriginalInstanceIds)
    /\ s.OriginalSize # 0 /\ s.ScaleUpInterval # 0
    /\ s.TotalIterations = CalculateTotalIterations(s.OriginalSize, s.ScaleUpInterval)
    /\ s.CurrentIteration \in 1..s.TotalIterations
    /\ s.Phase # "idle"

Due(n, k, c) == Lesser(c * k, n)

\* An iteration before the last one scales up by a full ScaleUpInterval
\* (GetScaledUpSize).
LEMMA EarlierIterationsAreFull ==
    ASSUME NEW n \in Nat \ {0}, NEW k \in Nat \ {0},
           NEW c \in 1..CalculateTotalIterations(n, k)
    PROVE  /\ (c - 1) * k < n
           /\ c < CalculateTotalIterations(n, k) => c * k < n
<1> DEFINE t == CalculateTotalIterations(n, k)
<1>1. t \in Nat \ {0} /\ (t - 1) * k < n
  BY IterationsCoverCluster
<1>2. \A a, b \in Nat : a <= b => a * k <= b * k
  OBVIOUS
<1>3. c \in Nat /\ c - 1 \in Nat /\ c - 1 <= t - 1 /\ t - 1 \in Nat
  BY <1>1
<1>4. (c - 1) * k <= (t - 1) * k
  BY <1>2, <1>3
<1>5. (c - 1) * k < n
  BY <1>1, <1>3, <1>4
<1>6. CASE c < t
  <2>1. c <= t - 1
    BY <1>6, <1>1, <1>3
  <2>2. c * k <= (t - 1) * k
    BY <2>1, <1>2, <1>3
  <2> QED
    BY <2>2, <1>1, <1>3, <1>5
<1> QED
  BY <1>5, <1>6

\* The batches fit together: what an iteration scales up by is what it adds to the
\* number of instances that must have been replaced, at least one and at most
\* ScaleUpInterval (GetScaledUpSize against GetExpectedReplaced).
THEOREM ScaleUpMatchesDue ==
    ASSUME NEW n \in Nat \ {0}, NEW k \in Nat \ {0},
           NEW c \in 1..CalculateTotalIterations(n, k)
    PROVE  /\ GetScaledUpSize(n, k, c, CalculateTotalIterations(n, k)) - n
                = Due(n, k, c) - Due(n, k, c - 1)
           /\ GetScaledUpSize(n, k, c, CalculateTotalIterations(n, k)) \in (n + 1)..(n + k)
<1> DEFINE t == CalculateTotalIterations(n, k)   p == (c - 1) * k
<1>1. /\ t \in Nat \ {0} /\ t * k >= n
      /\ c \in Nat \ {0}
  BY IterationsCoverCluster
<1>2. p < n /\ (c < t => c * k < n)
  BY EarlierIterationsAreFull
<1>3. c * k = p + k /\ p \in Nat
  BY <1>1
<1>4. Due(n, k, c - 1) = p
  BY <1>2, <1>3 DEF Due, Lesser
<1>5. CASE c < t
  <2>1. Due(n, k, c) = p + k
    BY <1>2, <1>3, <1>5 DEF Due, Lesser
  <2>2. GetScaledUpSize(n, k, c, t) = n + k
    BY <1>1, <1>5 DEF GetScaledUpSize
  <2> QED
    BY <2>1, <2>2, <1>3, <1>4
<1>6. CASE c = t
  <2>1. p + k >= n
    BY <1>1, <1>3, <1>6
  <2>2. Due(n, k, c) = n
    BY <2>1, <1>3 DEF Due, Lesser
  <2>3. GetScaledUpSize(n, k, c, t) = IF n - p < k THEN n + (n - p) ELSE n + k
    BY <1>6 DEF GetScaledUpSize
  <2> QED
    BY <2>1, <2>2, <2>3, <1>2, <1>3, <1>4
<1> QED
  BY <1>1, <1>5, <1>6

-----------------------------------------------------------------------------
(* One call of AdvanceStateMachine.                                        *)

Replaced(s, ids) == CountReplacedInstances(s.OriginalInstanceIds, ids)

\* The outcome t of a call on state s with the instance list ids.
GoodOutcome(s, ids, t) ==
    /\ t.state \in RefreshState /\ Schedule(t.state)
    /\ t.state.OriginalInstanceIds = s.OriginalInstanceIds
    /\ t.size \in Nat
    /\ t.state.Phase = "completed" => Replaced(s, ids) = Cardinality(s.OriginalInstanceIds)
    /\ t.state.CurrentIteration # s.CurrentIteration =>
          /\ t.state = StartNextIteration(s)
          /\ Replaced(s, ids) = GetExpectedReplaced(s)

\* What ScaleUpMatchesDue says of the fields of a state in progress.
LEMMA ScheduleFacts ==
    ASSUME NEW s \in RefreshState, Schedule(s)
    PROVE  /\ s.OriginalSize \in Nat \ {0} /\ s.ScaleUpInterval \in Nat \ {0}
           /\ s.CurrentIteration \in Nat \ {0} /\ s.TotalIterations \in Nat
           /\ s.CurrentIteration <= s.TotalIterations
           /\ Cardinality(s.OriginalInstanceIds) \in Nat
           /\ ScaledUpSize(s) \in Nat \ {0}
BY ScaleUpMatchesDue DEF Schedule, RefreshState, ScaledUpSize

\* A change of phase within the iteration is a sound outcome of AdvanceStateMachine.
LEMMA TransitionGood ==
    ASSUME NEW s \in RefreshState, Schedule(s), NEW ids,
           NEW p \in ActivePhase, NEW changed, NEW size \in Nat
    PROVE  GoodOutcome(s, ids, Outcome(TransitionTo(s, p), changed, size))
BY DEF GoodOutcome, Outcome, TransitionTo, Schedule, RefreshState, ActivePhase, Phase

\* So is leaving the state as it is.
LEMMA StayGood ==
    ASSUME NEW s \in RefreshState, Schedule(s), s.Phase # "completed", NEW ids,
           NEW changed, NEW size \in Nat
    PROVE  GoodOutcome(s, ids, Outcome(s, changed, size))
BY DEF GoodOutcome, Outcome

\* What StartNextIteration changes and what it keeps.
LEMMA NextIterationFields ==
    ASSUME NEW s \in RefreshState
    PROVE  /\ StartNextIteration(s) \in RefreshState
           /\ StartNextIteration(s).Phase = "provisioning"
           /\ StartNextIteration(s).CurrentIteration = s.CurrentIteration + 1
           /\ StartNextIteration(s).TotalIterations = s.TotalIterations
           /\ StartNextIteration(s).OriginalSize = s.OriginalSize
           /\ StartNextIteration(s).ScaleUpInterval = s.ScaleUpInterval
           /\ StartNextIteration(s).OriginalInstanceIds = s.OriginalInstanceIds
<1> DEFINE r == StartNextIteration(s)
<1>1. s.CurrentIteration + 1 \in Nat /\ "provisioning" \in Phase
  BY DEF RefreshState, Phase, ActivePhase
<1>2. r.Phase = "provisioning" /\ r.CurrentIteration = s.CurrentIteration + 1
  BY DEF StartNextIteration, RefreshState
<1>3. /\ r.OriginalSize = s.OriginalSize /\ r.ScaleUpInterval = s.ScaleUpInterval
      /\ r.TotalIterations = s.TotalIterations
      /\ r.OriginalInstanceIds = s.OriginalInstanceIds
  BY DEF StartNextIteration, RefreshState
<1>4. r \in RefreshState
  BY <1>1 DEF StartNextIteration, RefreshState
<1> QED
  BY <1>2, <1>3, <1>4

\* A batch that is closed was replaced as due; in the last iteration that is the
\* whole cluster.
LEMMA CompleteGood ==
    ASSUME NEW s \in RefreshState, Schedule(s), NEW ids, BatchReplaced(s, ids)
    PROVE  GoodOutcome(s, ids, completeIterationAndProceed(s))
<1>0. /\ s.CurrentIteration \in Nat \ {0} /\ s.TotalIterations \in Nat
      /\ s.CurrentIteration <= s.TotalIterations
      /\ s.OriginalSize \in Nat \ {0} /\ s.ScaleUpInterval \in Nat \ {0}
      /\ Cardinality(s.OriginalInstanceIds) \in Nat
  BY ScheduleFacts
<1>1. Replaced(s, ids) = GetExpectedReplaced(s)
  BY DEF BatchReplaced, Replaced
<1>2. CASE ShouldContinue(s)
  <2> DEFINE next == StartNextIteration(s)
  <2>1. /\ next \in RefreshState /\ next.Phase = "provisioning"
        /\ next.OriginalInstanceIds = s.OriginalInstanceIds
    BY NextIterationFields
  <2>2. Schedule(next)
    BY <1>0, <1>2, NextIterationFields DEF ShouldContinue, Schedule
  <2>3. ScaledUpSize(next) \in Nat
    BY <2>1, <2>2, ScheduleFacts
  <2>4. completeIterationAndProceed(s) = Outcome(next, TRUE, ScaledUpSize(next))
    BY <1>2 DEF completeIterationAndProceed
  <2> HIDE DEF next
  <2>5. next = StartNextIteration(s)
    BY DEF next
  <2> QED
    BY <1>1, <2>1, <2>2, <2>3, <2>4, <2>5 DEF GoodOutcome, Outcome
<1>3. CASE ~ShouldContinue(s)
  <2> DEFINE done == MarkCompleted(s)
  <2>1. s.CurrentIteration = s.TotalIterations
    BY <1>0, <1>3 DEF ShouldContinue
  <2>2. s.CurrentIteration * s.ScaleUpInterval >= Cardinality(s.OriginalInstanceIds)
    BY <1>0, <2>1, IterationsCoverCluster DEF Schedule
  <2>3. GetExpectedReplaced(s) = Cardinality(s.OriginalInstanceIds)
    BY <1>0, <2>2 DEF GetExpectedReplaced, Lesser
  <2>4. /\ done \in RefreshState /\ Schedule(done)
        /\ done.OriginalInstanceIds = s.OriginalInstanceIds
        /\ done.CurrentIteration = s.CurrentIteration
    BY DEF MarkCompleted, TransitionTo, Schedule, RefreshState, Phase, TerminalPhase
  <2>5. completeIterationAndProceed(s) = Outcome(done, TRUE, Nil)
    BY <1>3 DEF completeIterationAndProceed
  <2> HIDE DEF done
  <2> QED
    BY <1>1, <2>3, <2>4, <2>5 DEF GoodOutcome, Outcome, Nil
<1> QED
  BY <1>2, <1>3

\* Every outcome of AdvanceStateMachine is sound for the instance list it was given.
LEMMA AdvanceGood ==
    ASSUME NEW s \in RefreshState, Schedule(s), IsInProgress(s), NEW ids, NEW status
    PROVE  GoodOutcome(s, ids, AdvanceStateMachine(s, status, ids))
<1>1. s.OriginalSize \in Nat /\ ScaledUpSize(s) \in Nat /\ s.Phase # "completed"
  BY ScheduleFacts DEF IsInProgress, ActivePhase
<1>2. CASE s.Phase \in {"provisioning", "waitingScaleUp"}
  <2>1. GoodOutcome(s, ids, AdvanceScaleUp(s, status, ids))
    BY <1>1, TransitionGood, StayGood DEF AdvanceScaleUp, ActivePhase
  <2> QED
    BY <1>2, <2>1 DEF AdvanceStateMachine
<1>3. CASE s.Phase = "waitingScaleDown"
  <2>1. GoodOutcome(s, ids, AdvanceWaitingScaleDown(s, status, ids))
    BY <1>1, TransitionGood, StayGood, CompleteGood DEF AdvanceWaitingScaleDown, ActivePhase
  <2> QED
    BY <1>3, <2>1 DEF AdvanceStateMachine
<1>4. CASE s.Phase = "terminating"
  <2>1. GoodOutcome(s, ids, AdvanceTerminating(s, ids))
    BY <1>1, StayGood, CompleteGood DEF AdvanceTerminating
  <2> QED
    BY <1>4, <2>1 DEF AdvanceStateMachine
<1> QED
  BY <1>2, <1>3, <1>4 DEF IsInProgress, ActivePhase

-----------------------------------------------------------------------------
(* The inductive invariant.  What a run read is never fresher than the     *)
(* cluster, so an original missing from its list must be gone for good;    *)
(* and what a run is about to store must still be justified when it does.  *)

Gone(S) == \A i \in S : stage[i] = "gone"

Originals == state.OriginalInstanceIds

StateInv ==
    /\ state = NoState \/ Schedule(state)
    /\ \A i \in Originals : stage[i] # "none"
    /\ state.Phase = "completed" => Gone(Originals)

ListInv == run.pc = "advance" => IsInProgress(state) /\ Gone(Originals \ run.ids)

PendingInv ==
    run.pc = "writeState" =>
        /\ IsInProgress(state)
        /\ Schedule(run.next)
        /\ run.next.OriginalInstanceIds = Originals
        /\ run.next.Phase = "completed" => Gone(Originals)
        /\ run.next.CurrentIteration # state.CurrentIteration =>
              /\ run.next = StartNextIteration(state)
              /\ CountReplacedInstances(Originals, Instances) >= GetExpectedReplaced(state)

IInv == TypeOK /\ StateInv /\ ListInv /\ PendingInv

-----------------------------------------------------------------------------
(* Steps of the cluster.                                                   *)

\* Instances come and go, but none comes back and none is unlaunched.
Onward ==
    \A i \in Instance : /\ stage[i] = "gone" => stage'[i] = "gone"
                        /\ stage[i] # "none" => stage'[i] # "none"

\* A step of the cluster leaves the cloud function alone, and an instance that is gone
\* or was launched stays so.
LEMMA ClusterStep ==
    ASSUME TypeOK, Cluster
    PROVE  /\ UNCHANGED <<state, desired, run, starts, failures>>
           /\ crashes' \in 0..MaxCrashes
           /\ stage' \in [Instance -> Stage]
           /\ Onward
<1> SUFFICES ASSUME NEW i \in Instance,
                    \/ Launch(i) \/ Join(i) \/ AddDrives(i)
                    \/ Deactivate(i) \/ RemoveFromWeka(i) \/ Terminate(i)
                    \/ Crash(i) \/ Recover(i)
             PROVE  /\ UNCHANGED <<state, desired, run, starts, failures>>
                    /\ crashes' \in 0..MaxCrashes
                    /\ \E from \in Stage \ {"gone"}, to \in Stage \ {"none"} :
                          stage[i] = from /\ stage' = [stage EXCEPT ![i] = to]
  BY DEF Cluster, TypeOK, Onward, Stage
<1> USE DEF TypeOK, Stage, Move
<1>1. CASE Launch(i)
  BY <1>1 DEF Launch
<1>2. CASE Join(i)
  BY <1>2 DEF Join
<1>3. CASE AddDrives(i)
  BY <1>3 DEF AddDrives
<1>4. CASE Deactivate(i)
  BY <1>4 DEF Deactivate, InStage
<1>5. CASE RemoveFromWeka(i)
  BY <1>5 DEF RemoveFromWeka
<1>6. CASE Terminate(i)
  BY <1>6 DEF Terminate
<1>7. CASE Crash(i)
  <2>1. crashes' \in 0..MaxCrashes
    BY <1>7, SizeAssumption DEF Crash
  <2>2. stage[i] \in {"joined", "up"} /\ stage' = [stage EXCEPT ![i] = "down"]
    BY <1>7 DEF Crash
  <2>3. UNCHANGED <<state, desired, run, starts, failures>>
    BY <1>7 DEF Crash
  <2> QED
    BY <2>1, <2>2, <2>3
<1>8. CASE Recover(i)
  BY <1>8 DEF Recover
<1> QED
  BY <1>1, <1>2, <1>3, <1>4, <1>5, <1>6, <1>7, <1>8

\* The scale set has finitely many instances.
LEMMA InstancesFinite ==
    ASSUME NEW S \in SUBSET Instance
    PROVE  IsFiniteSet(S) /\ Cardinality(S) \in Nat
BY InstanceAssumption, FS_Subset, FS_CardinalityType

\* Instances that are gone are counted as replaced, and stay so.
LEMMA GoneAreReplaced ==
    ASSUME TypeOK, NEW orig \in SUBSET Instance, NEW ids, Gone(orig \ ids)
    PROVE  CountReplacedInstances(orig, Instances) >= CountReplacedInstances(orig, ids)
<1>1. orig \ ids \subseteq orig \ Instances
  BY DEF Gone, Instances, InStage
<1>2. IsFiniteSet(orig \ Instances)
  BY InstancesFinite
<1> QED
  BY <1>1, <1>2, FS_Subset, FS_CardinalityType DEF CountReplacedInstances

\* An instance that was replaced when a list was taken is replaced ever after.
LEMMA ReplacedOnward ==
    ASSUME TypeOK, Onward, NEW orig \in SUBSET Instance,
           \A i \in orig : stage[i] # "none"
    PROVE  CountReplacedInstances(orig, Instances') >= CountReplacedInstances(orig, Instances)
<1>1. orig \ Instances \subseteq orig \ Instances'
  BY DEF TypeOK, Onward, Instances, InStage, Stage
<1>2. IsFiniteSet(orig \ Instances')
  BY InstancesFinite
<1> QED
  BY <1>1, <1>2, FS_Subset, FS_CardinalityType DEF CountReplacedInstances

\* Nothing the cloud function knows or is about to store is invalidated by the cluster.
LEMMA ClusterKeepsIInv ==
    ASSUME IInv, UNCHANGED <<state, desired, run, starts, failures>>,
           crashes' \in 0..MaxCrashes, stage' \in [Instance -> Stage], Onward
    PROVE  IInv'
<1>0. Originals \subseteq Instance
  BY DEF IInv, TypeOK, RefreshState, Originals
<1>1. TypeOK'
  BY DEF IInv, TypeOK
<1>2. \A S \in SUBSET Originals : Gone(S) => Gone(S)'
  BY <1>0 DEF Gone, Onward
<1>3. StateInv'
  BY <1>0, <1>2 DEF IInv, StateInv, Originals, Onward
<1>4. ListInv'
  BY <1>2 DEF IInv, ListInv, Originals
<1>5. PendingInv'
  <2>1. CountReplacedInstances(Originals, Instances') >= CountReplacedInstances(Originals, Instances)
    BY <1>0, ReplacedOnward DEF IInv, StateInv
  <2>2. /\ CountReplacedInstances(Originals, Instances) \in Nat
        /\ CountReplacedInstances(Originals, Instances') \in Nat
    BY <1>0, InstancesFinite DEF CountReplacedInstances
  <2>3. run.pc = "writeState" => GetExpectedReplaced(state) \in Nat
    BY ScheduleFacts, InstancesFinite
    DEF IInv, TypeOK, StateInv, PendingInv, GetExpectedReplaced, Lesser, Schedule, NoState,
        IsInProgress, ActivePhase
  <2> QED
    BY <1>2, <2>1, <2>2, <2>3 DEF IInv, PendingInv, Originals
<1> QED
  BY <1>1, <1>3, <1>4, <1>5 DEF IInv

-----------------------------------------------------------------------------
(* Steps of the cloud function: none moves an instance.                    *)

\* The state before the first refresh has the type of a state.
LEMMA NoStateType == NoState \in RefreshState
BY DEF NoState, RefreshState, Phase

\* Having no run in progress has the type of a run.
LEMMA NoRunType ==
    NoRun \in [pc : {"idle", "advance", "writeState", "writeSize"},
              ids : SUBSET Instance, next : RefreshState, size : Nat]
BY NoStateType DEF NoRun, Nil

\* Once a run has ended there is nothing it could still store.
LEMMA NoRunKeepsIInv ==
    ASSUME IInv, run' = NoRun, TypeOK', UNCHANGED <<state, stage>>
    PROVE  IInv'
<1>1. run'.pc = "idle"
  BY DEF NoRun
<1> QED
  BY <1>1 DEF IInv, StateInv, ListInv, PendingInv, Originals, Gone

\* The trigger: a new refresh starts on a schedule that covers the cluster.
LEMMA StartKeepsIInv ==
    ASSUME IInv, NEW k \in Intervals, Start(k)
    PROVE  IInv' /\ state' # StartNextIteration(state)
<1> DEFINE s == InitializeState(desired, k, Instances)
<1>1. /\ state' = s /\ starts' = starts + 1 /\ starts < MaxStarts
      /\ UNCHANGED <<desired, run, stage, crashes, failures>>
      /\ run = NoRun /\ Cardinality(Instances) = desired
  BY DEF Start
<1>2. /\ k \in Nat \ {0} /\ desired \in Nat \ {0} /\ Instances \subseteq Instance
  BY SizeAssumption DEF IInv, TypeOK, Instances, InStage
<1>3. CalculateTotalIterations(desired, k) \in Nat \ {0}
  BY <1>2, IterationsCoverCluster
<1>4. /\ s \in RefreshState /\ Schedule(s)
      /\ s.CurrentIteration = 1 /\ s.Phase = "provisioning"
      /\ s.OriginalInstanceIds = Instances /\ s.OriginalSize = desired
  BY <1>1, <1>2, <1>3 DEF InitializeState, RefreshState, Schedule, Phase, ActivePhase
<1> HIDE DEF s
<1>5. starts' \in 0..MaxStarts
  BY <1>1, SizeAssumption DEF IInv, TypeOK
<1>6. TypeOK'
  BY <1>1, <1>3, <1>4, <1>5 DEF IInv, TypeOK, Schedule
<1>7. StateInv'
  BY <1>1, <1>4 DEF StateInv, Originals, Instances, InStage
<1>8. ListInv' /\ PendingInv'
  BY <1>1 DEF ListInv, PendingInv, NoRun
<1>9. state' # StartNextIteration(state)
  <2>1. SUFFICES ASSUME s = StartNextIteration(state)
                 PROVE  FALSE
    BY <1>1
  <2>2. /\ s.CurrentIteration = state.CurrentIteration + 1
        /\ s.OriginalSize = state.OriginalSize
    BY <2>1, NextIterationFields DEF IInv, TypeOK
  <2>3. state = NoState
    BY <1>4, <2>2, ScheduleFacts DEF IInv, TypeOK, StateInv
  <2> QED
    BY <1>2, <1>4, <2>2, <2>3 DEF NoState
<1> QED
  BY <1>6, <1>7, <1>8, <1>9 DEF IInv

\* The cancellation stores a state that claims nothing.
LEMMA CancelKeepsIInv ==
    ASSUME IInv, Cancel
    PROVE  IInv' /\ state' # StartNextIteration(state)
<1> DEFINE s == MarkCancelled(state)
<1>1. /\ state' = s
      /\ run' = [NoRun EXCEPT !.pc = "writeSize", !.size = GetExpectedDesiredSize(s)]
      /\ UNCHANGED <<desired, stage, starts, crashes, failures>>
      /\ IsInProgress(state)
  BY DEF Cancel
<1>2. state \in RefreshState /\ Schedule(state)
  BY <1>1 DEF IInv, TypeOK, StateInv, IsInProgress, ActivePhase, NoState
<1>3. /\ s \in RefreshState /\ Schedule(s) /\ s.Phase = "cancelled"
      /\ s.OriginalInstanceIds = state.OriginalInstanceIds
  BY <1>2 DEF MarkCancelled, TransitionTo, RefreshState, Schedule, Phase, TerminalPhase
<1>4. GetExpectedDesiredSize(s) \in Nat
  BY <1>3, ScheduleFacts DEF GetExpectedDesiredSize
<1> HIDE DEF s
<1>5. TypeOK'
  <2>1. s.CurrentIteration <= s.TotalIterations
    BY <1>3, ScheduleFacts
  <2> QED
    BY <1>1, <1>3, <1>4, <2>1, NoStateType DEF IInv, TypeOK, NoRun
<1>6. StateInv'
  BY <1>1, <1>3 DEF IInv, StateInv, Originals
<1>7. ListInv' /\ PendingInv'
  BY <1>1 DEF ListInv, PendingInv, NoRun
<1>8. state' # StartNextIteration(state)
  BY <1>1, <1>2, <1>3, NextIterationFields
<1> QED
  BY <1>5, <1>6, <1>7, <1>8 DEF IInv

\* A list just taken is the scale set itself.
LEMMA ListInstancesKeepsIInv ==
    ASSUME IInv, ListInstances
    PROVE  IInv'
<1>1. /\ run' = [NoRun EXCEPT !.pc = "advance", !.ids = Instances]
      /\ IsInProgress(state)
      /\ UNCHANGED <<state, desired, stage, starts, crashes, failures>>
  BY DEF ListInstances
<1>2. TypeOK'
  <2>1. Instances \subseteq Instance
    BY DEF Instances, InStage
  <2>2. /\ run'.pc = "advance" /\ run'.ids = Instances
        /\ run' \in [pc : {"idle", "advance", "writeState", "writeSize"},
                    ids : SUBSET Instance, next : RefreshState, size : Nat]
    BY <1>1, <2>1, NoRunType DEF NoRun
  <2> QED
    BY <1>1, <2>2 DEF IInv, TypeOK
<1>3. StateInv' /\ PendingInv'
  BY <1>1 DEF IInv, StateInv, PendingInv, Originals, Gone, NoRun
<1>4. ListInv'
  <2>1. run'.ids = Instances
    BY <1>1 DEF NoRun
  <2>2. Originals \subseteq Instance /\ \A i \in Originals : stage[i] # "none"
    BY DEF IInv, TypeOK, RefreshState, StateInv, Originals
  <2>3. Gone(Originals \ Instances)
    BY <2>2 DEF IInv, TypeOK, Gone, Instances, InStage, Stage
  <2> QED
    BY <1>1, <2>1, <2>3 DEF ListInv, Gone, Originals, IsInProgress
<1> QED
  BY <1>2, <1>3, <1>4 DEF IInv

\* The heart of the argument: what AdvanceStateMachine concludes from an instance
\* list that may be stale is true of the cluster as it is now.
LEMMA AdvanceKeepsIInv ==
    ASSUME IInv, NEW io, NEW ok, NEW gw, Advance(io, ok, gw)
    PROVE  IInv'
<1> DEFINE t == AdvanceStateMachine(state, WekaStatus(io, ok, gw), run.ids)
<1>1. /\ run.pc = "advance"
      /\ run' = [NoRun EXCEPT !.pc = IF t.changed THEN "writeState" ELSE "writeSize",
                              !.next = t.state, !.size = t.size]
      /\ UNCHANGED <<state, desired, stage, starts, crashes, failures>>
  BY DEF Advance
<1>2. /\ IsInProgress(state) /\ Gone(Originals \ run.ids)
      /\ state \in RefreshState /\ Schedule(state) /\ Originals \subseteq Instance
  BY <1>1 DEF IInv, ListInv, StateInv, TypeOK, RefreshState, IsInProgress, ActivePhase, NoState,
              Originals
<1>3. GoodOutcome(state, run.ids, t)
  BY <1>2, AdvanceGood
<1> HIDE DEF t
<1>4. Originals \ Instances \in SUBSET Instance /\ Originals \ run.ids \in SUBSET Instance
  BY <1>2
<1>5. /\ CountReplacedInstances(Originals, Instances) >= Replaced(state, run.ids)
      /\ CountReplacedInstances(Originals, Instances) \in Nat
  BY <1>2, <1>4, GoneAreReplaced, InstancesFinite
  DEF IInv, Replaced, Originals, CountReplacedInstances
<1>6. Replaced(state, run.ids) = Cardinality(Originals) => Gone(Originals)
  BY <1>2, FS_Subset, InstancesFinite DEF Replaced, CountReplacedInstances, Originals, Gone
<1>7. TypeOK'
  <2>1. t.state \in RefreshState /\ t.size \in Nat
    BY <1>3 DEF GoodOutcome
  <2> QED
    BY <1>1, <2>1, NoStateType DEF IInv, TypeOK, NoRun
<1>8. StateInv' /\ ListInv'
  BY <1>1 DEF IInv, StateInv, ListInv, Originals, Gone, NoRun
<1>9. PendingInv'
  <2>1. run'.next = t.state
    BY <1>1 DEF NoRun
  <2>2. /\ Schedule(t.state) /\ t.state.OriginalInstanceIds = Originals
        /\ t.state.Phase = "completed" => Gone(Originals)
        /\ t.state.CurrentIteration # state.CurrentIteration =>
              /\ t.state = StartNextIteration(state)
              /\ CountReplacedInstances(Originals, Instances) >= GetExpectedReplaced(state)
    BY <1>3, <1>5, <1>6 DEF GoodOutcome, Originals
  <2> QED
    BY <1>1, <1>2, <2>1, <2>2
    DEF PendingInv, Originals, Gone, IsInProgress, Instances, InStage
<1> QED
  BY <1>7, <1>8, <1>9 DEF IInv

\* Storing a sound outcome gives a sound state.
LEMMA WriteStateKeepsIInv ==
    ASSUME IInv, WriteState
    PROVE  /\ IInv'
           /\ state' = StartNextIteration(state) =>
                 CountReplacedInstances(Originals, Instances) >= GetExpectedReplaced(state)
<1>1. /\ run.pc = "writeState" /\ state' = run.next /\ run' = [run EXCEPT !.pc = "writeSize"]
      /\ UNCHANGED <<desired, stage, starts, crashes, failures>>
  BY DEF WriteState
<1>2. /\ run.next \in RefreshState /\ Schedule(run.next)
      /\ run.next.OriginalInstanceIds = Originals
      /\ run.next.Phase = "completed" => Gone(Originals)
  BY <1>1 DEF IInv, PendingInv, TypeOK
<1>3. run.next.CurrentIteration <= run.next.TotalIterations
  BY <1>2, ScheduleFacts
<1>4. TypeOK'
  BY <1>1, <1>2, <1>3 DEF IInv, TypeOK
<1>5. StateInv'
  BY <1>1, <1>2 DEF IInv, StateInv, Originals, Gone
<1>6. ListInv' /\ PendingInv'
  BY <1>1 DEF IInv, TypeOK, ListInv, PendingInv
<1>7. ASSUME state' = StartNextIteration(state)
      PROVE  CountReplacedInstances(Originals, Instances) >= GetExpectedReplaced(state)
  <2>1. state \in RefreshState /\ state.CurrentIteration \in Nat
    BY DEF IInv, TypeOK, RefreshState
  <2>2. run.next.CurrentIteration # state.CurrentIteration
    BY <1>1, <1>7, <2>1, NextIterationFields
  <2> QED
    BY <1>1, <2>2 DEF IInv, PendingInv
<1> QED
  BY <1>4, <1>5, <1>6, <1>7 DEF IInv

\* Storing the size, or failing, ends the run.
LEMMA EndOfRunKeepsIInv ==
    ASSUME IInv, WriteSize \/ FailRun
    PROVE  IInv' /\ state' = state
<1>1. CASE WriteSize
  <2>1. desired' \in Nat \ {0}
    BY <1>1 DEF WriteSize, IInv, TypeOK, Nil
  <2>2. run' = NoRun /\ UNCHANGED <<state, stage, starts, crashes, failures>>
    BY <1>1 DEF WriteSize
  <2>3. TypeOK'
    BY <2>1, <2>2, NoRunType DEF IInv, TypeOK
  <2> QED
    BY <2>2, <2>3, NoRunKeepsIInv
<1>2. CASE FailRun
  <2>1. failures' \in 0..MaxFailures
    BY <1>2, SizeAssumption DEF FailRun, IInv, TypeOK
  <2>2. run' = NoRun /\ UNCHANGED <<state, desired, stage, starts, crashes>>
    BY <1>2 DEF FailRun
  <2>3. TypeOK'
    BY <2>1, <2>2, NoRunType DEF IInv, TypeOK
  <2> QED
    BY <2>2, <2>3, NoRunKeepsIInv
<1> QED
  BY <1>1, <1>2

-----------------------------------------------------------------------------
(* The theorems.                                                           *)

\* The invariant holds before the first refresh.
LEMMA InitIInv == Init => IInv
<1> SUFFICES ASSUME Init PROVE IInv
  OBVIOUS
<1>1. state = NoState /\ run = NoRun /\ desired = InitialSize
  BY DEF Init
<1>2. TypeOK
  <2>1. state \in RefreshState /\ state.CurrentIteration <= state.TotalIterations
    BY <1>1, NoStateType DEF NoState
  <2>2. stage \in [Instance -> Stage]
    BY DEF Init, Stage
  <2>3. starts \in 0..MaxStarts /\ crashes \in 0..MaxCrashes /\ failures \in 0..MaxFailures
    BY SizeAssumption DEF Init
  <2> QED
    BY <1>1, <2>1, <2>2, <2>3, NoRunType, SizeAssumption DEF TypeOK
<1> QED
  BY <1>1, <1>2 DEF IInv, StateInv, ListInv, PendingInv, Originals, Gone, NoState, NoRun

\* Every step keeps the invariant.
LEMMA StepIInv ==
    ASSUME IInv, [Next]_vars
    PROVE  /\ IInv'
           /\ state' = StartNextIteration(state) =>
                 CountReplacedInstances(Originals, Instances) >= GetExpectedReplaced(state)
<1>1. state \in RefreshState /\ state.CurrentIteration \in Nat
  BY DEF IInv, TypeOK, RefreshState
<1>2. state # StartNextIteration(state)
  BY <1>1, NextIterationFields
<1>3. CASE UNCHANGED vars
  BY <1>2, <1>3 DEF vars, IInv, TypeOK, StateInv, ListInv, PendingInv, Originals, Gone,
                    Instances, InStage
<1>4. CASE Cluster
  BY <1>2, <1>4, ClusterStep, ClusterKeepsIInv DEF IInv
<1>5. CASE Function
  BY <1>2, <1>5, StartKeepsIInv, CancelKeepsIInv, ListInstancesKeepsIInv, AdvanceKeepsIInv,
     WriteStateKeepsIInv, EndOfRunKeepsIInv DEF Function, ListInstances, Advance
<1> QED
  BY <1>3, <1>4, <1>5 DEF Next

\* The inductive invariant holds in every reachable state: the schedule of a refresh in
\* progress is consistent, all batches before the current one are gone, and what a run
\* has listed or is about to store never claims more than what has happened
\* (AdvanceStateMachine between its loads and its stores).
THEOREM Invariance == Spec => []IInv
BY InitIInv, StepIInv, PTL DEF Spec

\* Every variable keeps its type; the size of the scale set is never zero and a
\* refresh never counts more iterations than it planned.
THEOREM TypeCorrect == Spec => []TypeOK
<1>1. IInv => TypeOK
  BY DEF IInv
<1> QED
  BY <1>1, Invariance, PTL

\* A refresh stored as completed has replaced every instance it began with, whatever
\* fails and however stale the lists its runs worked on.
THEOREM CompletionIsReal == Spec => []CompletedMeansReplaced
<1>1. IInv => CompletedMeansReplaced
  BY DEF IInv, StateInv, CompletedMeansReplaced, Gone, Originals, Instances, InStage
<1> QED
  BY <1>1, Invariance, PTL

\* A batch is left behind only when the instances due by its end are gone.
THEOREM BatchesCloseWhenDue == Spec => BatchClosedWhenDue
<1>1. IInv /\ [Next]_vars =>
        [\A s \in {state} :
           state' = StartNextIteration(s)
             => CountReplacedInstances(s.OriginalInstanceIds, Instances) >= GetExpectedReplaced(s)]_vars
  BY StepIInv DEF Originals
<1> QED
  BY <1>1, Invariance, PTL DEF Spec, BatchClosedWhenDue

-----------------------------------------------------------------------------
(* How many instances are where, f giving the stage of each.               *)

\* The instances of X that are in a stage of S.
Within(X, f, S) == {j \in X : f[j] \in S}

Count(f, S) == Cardinality(Within(Instance, f, S))

Size(f) == Count(f, {"booting", "joined", "up", "down", "deactivating", "left"})
Live(f) == Count(f, {"booting", "joined", "up", "down"})
Away(f) == Count(f, {"deactivating", "left"})
Coming(f) == Count(f, {"booting", "joined"})
Active(f) == Count(f, {"joined", "up"})
Up(f) == Count(f, {"up"})
Down(f) == Count(f, {"down"})

\* The instances of X that scale_down has withdrawn, whether they are gone yet or not.
WithdrawnStage == {"deactivating", "left", "gone"}
Withdrawn(X, f) == Cardinality(Within(X, f, WithdrawnStage))

\* f and g differ in the stage of instance i only.
Moved(f, i, to, g) ==
    g \in [Instance -> Stage] /\ g[i] = to /\ \A j \in Instance \ {i} : g[j] = f[j]

\* One instance changing stage changes by one the number of instances of a set X that are
\* in a set S of stages, if it is in X and enters or leaves S.
LEMMA MoveCounts ==
    ASSUME NEW X \in SUBSET Instance, NEW f \in [Instance -> Stage], NEW S,
           NEW i \in Instance, NEW to, NEW g, Moved(f, i, to, g)
    PROVE  /\ Cardinality(Within(X, g, S))
                = IF i \in X
                  THEN Cardinality(Within(X, f, S))
                         + (IF to \in S THEN 1 ELSE 0) - (IF f[i] \in S THEN 1 ELSE 0)
                  ELSE Cardinality(Within(X, f, S))
           /\ Cardinality(Within(X, f, S)) \in Nat
<1> DEFINE A == Within(X, f, S)
           B == Within(X, g, S)
           R == A \ {i}
<1>1. IsFiniteSet(R) /\ Cardinality(R) \in Nat /\ Cardinality(A) \in Nat
  BY InstancesFinite DEF Within
<1>2. i \notin R => Cardinality(R \cup {i}) = Cardinality(R) + 1
  BY <1>1, FS_AddElement
<1>3. ASSUME i \in X
      PROVE  /\ A = IF f[i] \in S THEN R \cup {i} ELSE R
             /\ B = IF to \in S THEN R \cup {i} ELSE R
  BY <1>3 DEF Within, Moved
<1>4. ASSUME i \notin X
      PROVE  A = B
  BY <1>4 DEF Within, Moved
<1>5. i \notin R
  OBVIOUS
<1> HIDE DEF A, B, R
<1>6. ASSUME i \in X
      PROVE  Cardinality(B) = Cardinality(A) + (IF to \in S THEN 1 ELSE 0)
                                             - (IF f[i] \in S THEN 1 ELSE 0)
  <2>1. CASE f[i] \in S
    <3>1. Cardinality(A) = Cardinality(R) + 1
      BY <1>2, <1>3, <1>5, <1>6, <2>1
    <3>2. Cardinality(B) = IF to \in S THEN Cardinality(R) + 1 ELSE Cardinality(R)
      BY <1>2, <1>3, <1>5, <1>6
    <3> QED
      BY <1>1, <2>1, <3>1, <3>2
  <2>2. CASE f[i] \notin S
    <3>1. Cardinality(A) = Cardinality(R)
      BY <1>3, <1>6, <2>2
    <3>2. Cardinality(B) = IF to \in S THEN Cardinality(R) + 1 ELSE Cardinality(R)
      BY <1>2, <1>3, <1>5, <1>6
    <3> QED
      BY <1>1, <2>2, <3>1, <3>2
  <2> QED
    BY <2>1, <2>2
<1> QED
  BY <1>1, <1>4, <1>6 DEF A, B

\* What one instance changing stage does to the counts.
LEMMA MoveTallies ==
    ASSUME NEW f \in [Instance -> Stage], NEW i \in Instance, NEW to, NEW g, Moved(f, i, to, g),
           NEW X \in SUBSET Instance
    PROVE  /\ \A S \in SUBSET Stage :
                 Count(g, S) = Count(f, S) + (IF to \in S THEN 1 ELSE 0)
                                           - (IF f[i] \in S THEN 1 ELSE 0)
           /\ Withdrawn(X, g) = IF i \in X
                                THEN Withdrawn(X, f)
                                       + (IF to \in WithdrawnStage THEN 1 ELSE 0)
                                       - (IF f[i] \in WithdrawnStage THEN 1 ELSE 0)
                                ELSE Withdrawn(X, f)
BY MoveCounts DEF Count, Withdrawn

\* Stages that exclude each other are counted one by one.
LEMMA CountUnion ==
    ASSUME NEW f, NEW S, NEW T, S \cap T = {}
    PROVE  Count(f, S \cup T) = Count(f, S) + Count(f, T)
<1> DEFINE In(Q) == Within(Instance, f, Q)
<1>1. In(S \cup T) = In(S) \cup In(T) /\ In(S) \cap In(T) = {}
  BY DEF Within
<1>2. IsFiniteSet(In(S)) /\ IsFiniteSet(In(T))
  BY InstancesFinite DEF Within
<1> HIDE DEF In
<1>3. Cardinality(In(S) \cup In(T)) = Cardinality(In(S)) + Cardinality(In(T)) - Cardinality({})
  BY <1>1, <1>2, FS_Union
<1>4. Cardinality(In(S)) \in Nat /\ Cardinality(In(T)) \in Nat
  BY <1>2, FS_CardinalityType
<1>5. Cardinality(In(S \cup T)) = Cardinality(In(S)) + Cardinality(In(T)) - 0
  BY <1>1, <1>3, FS_EmptySet
<1> QED
  BY <1>4, <1>5 DEF Count, In

\* How the counts relate.
LEMMA Tallies ==
    ASSUME NEW f
    PROVE  /\ Live(f) \in Nat /\ Away(f) \in Nat /\ Coming(f) \in Nat
           /\ Active(f) \in Nat /\ Up(f) \in Nat /\ Down(f) \in Nat
           /\ Size(f) = Live(f) + Away(f)
           /\ Live(f) = Coming(f) + Up(f) + Down(f)
           /\ Up(f) <= Active(f) /\ Active(f) <= Coming(f) + Up(f)
           /\ Coming(f) = 0 <=> Within(Instance, f, {"booting", "joined"}) = {}
           /\ Down(f) = 0 <=> Within(Instance, f, {"down"}) = {}
<1>1. \A S : IsFiniteSet(Within(Instance, f, S)) /\ Count(f, S) \in Nat
  BY InstancesFinite DEF Count, Within
<1>2. Size(f) = Live(f) + Away(f)
  <2>1. {"booting", "joined", "up", "down", "deactivating", "left"}
          = {"booting", "joined", "up", "down"} \cup {"deactivating", "left"}
    OBVIOUS
  <2> QED
    BY <2>1, CountUnion DEF Size, Live, Away
<1>3. Live(f) = Coming(f) + Up(f) + Down(f)
  <2>1. /\ {"booting", "joined", "up", "down"} = {"booting", "joined"} \cup {"up", "down"}
        /\ {"up", "down"} = {"up"} \cup {"down"}
    OBVIOUS
  <2>2. Live(f) = Coming(f) + Count(f, {"up", "down"})
    BY <2>1, CountUnion DEF Live, Coming
  <2>3. Count(f, {"up", "down"}) = Up(f) + Down(f)
    BY <2>1, CountUnion DEF Up, Down
  <2> QED
    BY <1>1, <2>2, <2>3 DEF Coming, Up, Down
<1>4. Active(f) = Count(f, {"joined"}) + Up(f)
  <2>1. {"joined", "up"} = {"joined"} \cup {"up"}
    OBVIOUS
  <2> QED
    BY <2>1, CountUnion DEF Active, Up
<1>5. Coming(f) = Count(f, {"booting"}) + Count(f, {"joined"})
  <2>1. {"booting", "joined"} = {"booting"} \cup {"joined"}
    OBVIOUS
  <2> QED
    BY <2>1, CountUnion DEF Coming
<1>6. Up(f) <= Active(f) /\ Active(f) <= Coming(f) + Up(f)
  BY <1>1, <1>4, <1>5 DEF Up
<1>7. /\ Coming(f) = 0 <=> Within(Instance, f, {"booting", "joined"}) = {}
      /\ Down(f) = 0 <=> Within(Instance, f, {"down"}) = {}
  BY <1>1, FS_EmptySet DEF Coming, Down, Count
<1> QED
  BY <1>1, <1>2, <1>3, <1>6, <1>7 DEF Live, Away, Coming, Active, Up, Down

\* The same, count by count.
LEMMA MoveEffects ==
    ASSUME NEW f \in [Instance -> Stage], NEW i \in Instance, NEW to, NEW g, Moved(f, i, to, g)
    PROVE  LET In(s, S) == IF s \in S THEN 1 ELSE 0
               Gain(S) == In(to, S) - In(f[i], S)
           IN  /\ Live(g) = Live(f) + Gain({"booting", "joined", "up", "down"})
               /\ Away(g) = Away(f) + Gain({"deactivating", "left"})
               /\ Coming(g) = Coming(f) + Gain({"booting", "joined"})
               /\ Up(g) = Up(f) + Gain({"up"})
               /\ Down(g) = Down(f) + Gain({"down"})
<1> DEFINE In(s, S) == IF s \in S THEN 1 ELSE 0
           Gain(S) == In(to, S) - In(f[i], S)
<1>1. ASSUME NEW S \in SUBSET Stage
      PROVE  Count(g, S) = Count(f, S) + Gain(S)
  <2>1. Count(f, S) \in Nat
    BY InstancesFinite DEF Count, Within
  <2> QED
    BY <2>1, MoveTallies
<1> HIDE DEF Gain
<1>2. Live(g) = Live(f) + Gain({"booting", "joined", "up", "down"})
  BY <1>1 DEF Live, Stage
<1>3. Away(g) = Away(f) + Gain({"deactivating", "left"})
  BY <1>1 DEF Away, Stage
<1>4. Coming(g) = Coming(f) + Gain({"booting", "joined"})
  BY <1>1 DEF Coming, Stage
<1>5. Up(g) = Up(f) + Gain({"up"})
  BY <1>1 DEF Up, Stage
<1>6. Down(g) = Down(f) + Gain({"down"})
  BY <1>1 DEF Down, Stage
<1> QED
  BY <1>2, <1>3, <1>4, <1>5, <1>6 DEF Gain

-----------------------------------------------------------------------------
(* The invariant of the sizes: how desired, the instances there are and    *)
(* the instances withdrawn from Weka keep in step.                         *)

UpPhase == {"provisioning", "waitingScaleUp"}
DownPhase == {"waitingScaleDown", "terminating"}

\* The instances withdrawn or failed, and n more, are within what the batches so far
\* account for, the crashes apart.
Budget(s, f, c, n) ==
    Withdrawn(s.OriginalInstanceIds, f) + Down(f) + n
        <= s.OriginalSize + GetExpectedReplaced(s) + c

\* The instances that live, or that are or will be asked for, are within it.
BudgetInv ==
    IsInProgress(state) =>
        /\ Budget(state, stage, crashes, Live(stage))
        /\ Budget(state, stage, crashes, desired)
        /\ Budget(state, stage, crashes, GetExpectedDesiredSize(state))

\* While scaling up there is no surplus, or the larger size is already asked for.
GrowthInv ==
    state.Phase \in UpPhase =>
        Size(stage) <= desired \/ desired >= ScaledUpSize(state)

\* What is down or withdrawn beyond the surplus is accounted for by the crashes.
LossInv ==
    /\ Down(stage) <= crashes
    /\ \/ Down(stage) + Away(stage) <= crashes
       \/ desired + Down(stage) <= crashes + Live(stage)

\* A run stores the size that goes with the state it stores; after the refresh it never
\* asks for more than is wanted already.
SizeInv ==
    /\ IsInProgress(state) => desired >= state.OriginalSize
    /\ run.pc = "writeSize" => run.size \in {Nil, GetExpectedDesiredSize(state)}
    /\ run.pc = "writeSize" /\ ~IsInProgress(state) => run.size <= desired
    /\ run.pc = "writeState" => run.size \in {Nil, GetExpectedDesiredSize(run.next)}
    /\ run.pc = "writeState" /\ run.next.Phase = "completed" => run.size = Nil

\* How a state that AdvanceStateMachine returns goes on from the one it was given.
FollowsOn(s, t) ==
    /\ t.ScaleUpInterval = s.ScaleUpInterval
    /\ t.Phase \in ActivePhase \cup {"completed"}
    /\ t.Phase \in UpPhase /\ t.CurrentIteration = s.CurrentIteration => s.Phase \in UpPhase
    /\ t.Phase = "terminating" => s.Phase \in DownPhase

\* The list of a run has no fewer instances than there are now, unless those are wanted.
RunInv ==
    /\ run.pc = "advance" => Size(stage) <= Cardinality(run.ids) \/ Size(stage) <= desired
    /\ run.pc = "writeState" =>
          /\ FollowsOn(state, run.next)
          /\ run.next.CurrentIteration # state.CurrentIteration => Size(stage) <= desired

\* Every instance that is wanted is up.
AllServe == Coming(stage) = 0 /\ Up(stage) >= desired

\* Before any machine fails: the size is one of the two the refresh asks for, nothing is
\* launched while scaling down and all that is wanted is up, and the end of a batch finds
\* the size back at the original.
CalmInv ==
    crashes = 0 =>
        /\ IsInProgress(state) => desired \in {state.OriginalSize, ScaledUpSize(state)}
        /\ state.Phase \in UpPhase => Size(stage) <= desired
        /\ state.Phase \in DownPhase => AllServe
        /\ state.Phase \in {"terminating", "completed"} => desired = state.OriginalSize
        /\ run.pc = "writeState" =>
              /\ run.next.Phase = "waitingScaleDown" => AllServe
              /\ \/ run.next.Phase \in {"terminating", "completed"}
                 \/ run.next.CurrentIteration # state.CurrentIteration
                 => desired = state.OriginalSize

CapInv == BudgetInv /\ GrowthInv /\ LossInv /\ SizeInv /\ RunInv /\ CalmInv

\* What the state of a refresh in progress says in numbers.
LEMMA ProgressNumbers ==
    ASSUME NEW s \in RefreshState, Schedule(s)
    PROVE  /\ s.OriginalSize \in Nat \ {0} /\ ScaledUpSize(s) \in Nat
           /\ GetExpectedReplaced(s) \in Nat
           /\ ScaledUpSize(s) > s.OriginalSize
           /\ s.Phase \in UpPhase => GetExpectedDesiredSize(s) = ScaledUpSize(s)
           /\ s.Phase \notin UpPhase => GetExpectedDesiredSize(s) = s.OriginalSize
<1>1. /\ s.OriginalSize \in Nat \ {0} /\ s.ScaleUpInterval \in Nat \ {0}
      /\ s.CurrentIteration \in 1..CalculateTotalIterations(s.OriginalSize, s.ScaleUpInterval)
      /\ s.CurrentIteration \in Nat /\ Cardinality(s.OriginalInstanceIds) \in Nat
  BY ScheduleFacts DEF Schedule
<1>2. ScaledUpSize(s) \in (s.OriginalSize + 1)..(s.OriginalSize + s.ScaleUpInterval)
  BY <1>1, ScaleUpMatchesDue DEF Schedule, ScaledUpSize
<1>3. GetExpectedReplaced(s) \in Nat
  BY <1>1 DEF GetExpectedReplaced, Lesser
<1> QED
  BY <1>1, <1>2, <1>3 DEF GetExpectedDesiredSize, UpPhase

\* A refresh in progress has such a state, and every number has its type.
LEMMA ProgressState ==
    ASSUME IInv
    PROVE  /\ IsInProgress(state) => state \in RefreshState /\ Schedule(state)
           /\ Originals \in SUBSET Instance
           /\ desired \in Nat /\ crashes \in Nat /\ Cardinality(run.ids) \in Nat
           /\ Live(stage) \in Nat /\ Away(stage) \in Nat /\ Down(stage) \in Nat
           /\ Withdrawn(Originals, stage) \in Nat
           /\ Cardinality(Instances) = Size(stage)
<1>1. IsInProgress(state) => state \in RefreshState /\ Schedule(state)
  BY DEF IInv, TypeOK, StateInv, IsInProgress, ActivePhase, NoState
<1>2. Originals \in SUBSET Instance
  BY DEF IInv, TypeOK, RefreshState, Originals
<1>3. Within(Originals, stage, WithdrawnStage) \in SUBSET Instance
  BY <1>2 DEF Within
<1>4. Withdrawn(Originals, stage) \in Nat
  BY <1>3, InstancesFinite DEF Withdrawn
<1>5. desired \in Nat /\ crashes \in Nat /\ Cardinality(run.ids) \in Nat
  BY InstancesFinite DEF IInv, TypeOK
<1>6. Cardinality(Instances) = Size(stage)
  BY DEF Instances, InStage, Size, Count, Within
<1> QED
  BY <1>1, <1>2, <1>4, <1>5, <1>6, Tallies

-----------------------------------------------------------------------------
(* Steps of the cluster.                                                   *)

\* What a step of the cluster from f to g does to the counts, d being the size wanted and
\* c, e the crashes before and after: there are more instances only if they are wanted,
\* and fewer serve only if they failed or were a surplus.
Losses(f, g, X, c, e, d) ==
    \/ Withdrawn(X, g) + Down(g) <= Withdrawn(X, f) + Down(f) + (e - c)
    \/ Withdrawn(X, g) + Down(g) <= Withdrawn(X, f) + Down(f) + 1 /\ Live(f) > d

LivesOn(f, g, X, c, e, d) ==
    \/ Withdrawn(X, g) + Down(g) + Live(g) <= Withdrawn(X, f) + Down(f) + Live(f) + (e - c)
    \/ Withdrawn(X, g) + Down(g) <= Withdrawn(X, f) + Down(f) /\ Live(g) <= d

CountsStep ==
    /\ crashes' \in Nat /\ crashes <= crashes'
    /\ Size(stage') <= Size(stage) \/ Size(stage') <= desired
    /\ LivesOn(stage, stage', Originals, crashes, crashes', desired)
    /\ Losses(stage, stage', Originals, crashes, crashes', desired)
    /\ LossInv'
    /\ crashes' = 0 /\ AllServe => AllServe'

\* Such a step stays within the budget.
LEMMA BudgetKept ==
    ASSUME NEW s, s.OriginalSize \in Nat, GetExpectedReplaced(s) \in Nat,
           NEW c \in Nat, NEW e \in Nat, c <= e, NEW d \in Nat, NEW f, NEW g,
           LivesOn(f, g, s.OriginalInstanceIds, c, e, d),
           Losses(f, g, s.OriginalInstanceIds, c, e, d),
           Withdrawn(s.OriginalInstanceIds, f) \in Nat, Withdrawn(s.OriginalInstanceIds, g) \in Nat,
           NEW n \in Nat, Live(f) > d => n <= Live(f) - 1,
           Budget(s, f, c, Live(f)), Budget(s, f, c, d), Budget(s, f, c, n)
    PROVE  Budget(s, g, e, Live(g)) /\ Budget(s, g, e, n)
<1>1. Live(f) \in Nat /\ Live(g) \in Nat /\ Down(f) \in Nat /\ Down(g) \in Nat
  BY Tallies
<1>2. Budget(s, g, e, Live(g))
  BY <1>1 DEF Budget, LivesOn
<1>3. Budget(s, g, e, n)
  BY <1>1 DEF Budget, Losses
<1> QED
  BY <1>2, <1>3

\* A step that changes the counts in this way keeps CapInv.
LEMMA CountsKeepCapInv ==
    ASSUME IInv, CapInv, UNCHANGED <<state, desired, run>>, CountsStep
    PROVE  CapInv'
<1>1. /\ desired \in Nat /\ crashes \in Nat /\ crashes' \in Nat /\ Cardinality(run.ids) \in Nat
      /\ Live(stage) \in Nat /\ Away(stage) \in Nat
      /\ Withdrawn(Originals, stage) \in Nat /\ Originals \in SUBSET Instance
  BY ProgressState DEF CountsStep
<1>2. /\ Size(stage) \in Nat /\ Size(stage') \in Nat /\ Size(stage) >= Live(stage)
  BY Tallies
<1>3. Size(stage') <= Size(stage) \/ Size(stage') <= desired
  BY DEF CountsStep
<1>4. ASSUME IsInProgress(state)
      PROVE  BudgetInv'
  <2>1. /\ state.OriginalSize \in Nat /\ ScaledUpSize(state) \in Nat
        /\ GetExpectedReplaced(state) \in Nat
        /\ state.Phase \in UpPhase => GetExpectedDesiredSize(state) = ScaledUpSize(state)
        /\ state.Phase \notin UpPhase => GetExpectedDesiredSize(state) = state.OriginalSize
    BY <1>4, ProgressState, ProgressNumbers
  <2>2. ASSUME Live(stage) > desired
        PROVE  GetExpectedDesiredSize(state) <= desired
    <3>1. state.Phase \in UpPhase => desired >= ScaledUpSize(state)
      BY <1>1, <1>2, <2>2 DEF CapInv, GrowthInv
    <3>2. desired >= state.OriginalSize
      BY <1>4 DEF CapInv, SizeInv
    <3> QED
      BY <2>1, <3>1, <3>2
  <2>3. GetExpectedDesiredSize(state) \in Nat
    BY <2>1
  <2>4. Withdrawn(Originals, stage') \in Nat
    <3>1. Within(Originals, stage', WithdrawnStage) \in SUBSET Instance
      BY <1>1 DEF Within
    <3> QED
      BY <3>1, InstancesFinite DEF Withdrawn
  <2>5. /\ Budget(state, stage, crashes, Live(stage))
        /\ Budget(state, stage, crashes, desired)
        /\ Budget(state, stage, crashes, GetExpectedDesiredSize(state))
    BY <1>4 DEF CapInv, BudgetInv
  <2>6. /\ LivesOn(stage, stage', Originals, crashes, crashes', desired)
        /\ Losses(stage, stage', Originals, crashes, crashes', desired)
        /\ crashes <= crashes'
    BY DEF CountsStep
  <2> DEFINE n == GetExpectedDesiredSize(state)
  <2>7. /\ Live(stage) > desired => n <= Live(stage) - 1
        /\ Live(stage) > desired => desired <= Live(stage) - 1
    BY <1>1, <2>2, <2>3
  <2>8. /\ Budget(state, stage', crashes', Live(stage'))
        /\ Budget(state, stage', crashes', desired)
    BY <1>1, <2>1, <2>4, <2>5, <2>6, <2>7, BudgetKept DEF Originals
  <2> HIDE DEF n
  <2>9. Budget(state, stage', crashes', n)
    BY <1>1, <2>1, <2>3, <2>4, <2>5, <2>6, <2>7, BudgetKept DEF Originals, n
  <2> QED
    BY <2>8, <2>9 DEF BudgetInv, n
<1>5. BudgetInv'
  BY <1>4 DEF BudgetInv
<1>6. GrowthInv'
  BY <1>1, <1>2, <1>3 DEF CapInv, GrowthInv
<1>7. LossInv'
  BY DEF CountsStep
<1>8. SizeInv'
  BY DEF CapInv, SizeInv
<1>9. RunInv'
  BY <1>1, <1>2, <1>3 DEF CapInv, RunInv
<1>10. CalmInv'
  <2>1. crashes' = 0 => crashes = 0 /\ (AllServe => AllServe')
    BY <1>1 DEF CountsStep
  <2> QED
    BY <1>1, <1>2, <1>3, <2>1 DEF CapInv, CalmInv
<1> QED
  BY <1>5, <1>6, <1>7, <1>8, <1>9, <1>10 DEF CapInv

\* Every step of the cluster changes the counts in this way.
LEMMA ClusterCounts ==
    ASSUME IInv, CapInv, Cluster
    PROVE  CountsStep
<1> SUFFICES ASSUME NEW i \in Instance,
                    \/ Launch(i) \/ Join(i) \/ AddDrives(i)
                    \/ Deactivate(i) \/ RemoveFromWeka(i) \/ Terminate(i)
                    \/ Crash(i) \/ Recover(i)
             PROVE  CountsStep
  BY DEF Cluster
<1>1. /\ stage \in [Instance -> Stage]
      /\ \A k \in Originals : stage[k] # "none"
      /\ desired \in Nat /\ crashes \in Nat /\ Originals \in SUBSET Instance
      /\ Withdrawn(Originals, stage) \in Nat
      /\ Cardinality(Instances) = Size(stage)
  BY ProgressState DEF IInv, TypeOK, StateInv
<1>2. LossInv
  BY DEF CapInv
<1> DEFINE f == stage   g == stage'
           In(s, S) == IF s \in S THEN 1 ELSE 0
<1>3. ASSUME NEW from, NEW to \in Stage, stage[i] = from, Move(i, to)
      PROVE  /\ Moved(f, i, to, g)
             /\ Withdrawn(Originals, g) =
                  IF i \in Originals
                  THEN Withdrawn(Originals, f) + In(to, WithdrawnStage) - In(from, WithdrawnStage)
                  ELSE Withdrawn(Originals, f)
  <2>1. Moved(f, i, to, g)
    BY <1>1, <1>3 DEF Moved, Move
  <2> QED
    BY <1>1, <1>3, <2>1, MoveTallies
<1>4. /\ Live(f) \in Nat /\ Away(f) \in Nat /\ Coming(f) \in Nat /\ Up(f) \in Nat /\ Down(f) \in Nat
      /\ Live(g) \in Nat /\ Away(g) \in Nat /\ Coming(g) \in Nat /\ Up(g) \in Nat /\ Down(g) \in Nat
      /\ Size(f) = Live(f) + Away(f) /\ Size(g) = Live(g) + Away(g)
      /\ Live(f) = Coming(f) + Up(f) + Down(f) /\ Live(g) = Coming(g) + Up(g) + Down(g)
  BY Tallies
<1> DEFINE Step(c, e) ==
             /\ Size(g) <= Size(f) \/ Size(g) <= desired
             /\ LivesOn(f, g, Originals, c, e, desired)
             /\ Losses(f, g, Originals, c, e, desired)
             /\ Down(g) <= e
             /\ Down(g) + Away(g) <= e \/ desired + Down(g) <= e + Live(g)
             /\ e = 0 /\ Coming(f) = 0 /\ Up(f) >= desired => Coming(g) = 0 /\ Up(g) >= desired
<1>5. ASSUME desired' = desired, NEW e \in Nat, crashes' = e, crashes <= e, Step(crashes, e)
      PROVE  CountsStep
  BY <1>5 DEF CountsStep, LossInv, AllServe
<1>6. CASE Launch(i)
  <2>1. /\ stage[i] = "none" /\ Move(i, "booting") /\ UNCHANGED <<desired, crashes>>
        /\ Size(f) < desired
    BY <1>1, <1>6 DEF Launch
  <2>2. /\ Live(g) = Live(f) + 1 /\ Away(g) = Away(f)
        /\ Coming(g) = Coming(f) + 1 /\ Up(g) = Up(f) /\ Down(g) = Down(f)
    BY <1>1, <1>3, <1>4, <2>1, MoveEffects DEF Stage
  <2>3. Withdrawn(Originals, g) = Withdrawn(Originals, f)
    BY <1>1, <1>3, <2>1 DEF Stage
  <2>4. Step(crashes, crashes)
    BY <1>1, <1>2, <1>4, <2>1, <2>2, <2>3 DEF LossInv, Losses, LivesOn
  <2> QED
    BY <1>1, <1>5, <2>1, <2>4
<1>7. CASE Join(i) \/ AddDrives(i)
  <2>1. /\ \/ stage[i] = "booting" /\ Move(i, "joined")
           \/ stage[i] = "joined" /\ Move(i, "up")
        /\ UNCHANGED <<desired, crashes>>
    BY <1>7 DEF Join, AddDrives
  <2>2. /\ Live(g) = Live(f) /\ Away(g) = Away(f) /\ Down(g) = Down(f)
        /\ Coming(g) <= Coming(f) /\ Up(g) >= Up(f)
    <3>1. CASE stage[i] = "booting" /\ Move(i, "joined")
      BY <1>1, <1>3, <1>4, <3>1, MoveEffects DEF Stage
    <3>2. CASE stage[i] = "joined" /\ Move(i, "up")
      BY <1>1, <1>3, <1>4, <3>2, MoveEffects DEF Stage
    <3> QED
      BY <2>1, <3>1, <3>2
  <2>3. Withdrawn(Originals, g) = Withdrawn(Originals, f)
    BY <1>1, <1>3, <2>1 DEF Stage, WithdrawnStage
  <2>4. Step(crashes, crashes)
    BY <1>1, <1>2, <1>4, <2>1, <2>2, <2>3 DEF LossInv, Losses, LivesOn
  <2> QED
    BY <1>1, <1>5, <2>1, <2>4
<1>8. CASE Deactivate(i)
  <2> DEFINE active == Cardinality(InStage({"joined", "up"}))
             unhealthy == InStage({"down"})
             deactivating == Cardinality(InStage({"deactivating"}))
  <2>1. /\ deactivating < CalculateDeactivateTarget(active, Cardinality(unhealthy), deactivating, desired)
        /\ IF unhealthy # {} THEN i \in unhealthy ELSE stage[i] \in {"joined", "up"}
        /\ Move(i, "deactivating") /\ UNCHANGED <<desired, crashes>>
    BY <1>8 DEF Deactivate
  <2>2. /\ unhealthy = Within(Instance, f, {"down"})
        /\ active = Active(f) /\ deactivating \in Nat
    BY InstancesFinite DEF InStage, Within, Active, Count
  <2>3. CASE unhealthy # {}
    <3>1. stage[i] = "down"
      BY <2>1, <2>3 DEF InStage
    <3>2. /\ Live(g) = Live(f) - 1 /\ Away(g) = Away(f) + 1 /\ Down(g) = Down(f) - 1
          /\ Coming(g) = Coming(f) /\ Up(g) = Up(f)
      BY <1>1, <1>3, <1>4, <2>1, <3>1, MoveEffects DEF Stage
    <3>3. Withdrawn(Originals, g) \in {Withdrawn(Originals, f), Withdrawn(Originals, f) + 1}
      BY <1>1, <1>3, <2>1, <3>1 DEF Stage, WithdrawnStage
    <3>4. Step(crashes, crashes)
      BY <1>1, <1>2, <1>4, <2>1, <3>2, <3>3 DEF LossInv, Losses, LivesOn
    <3> QED
      BY <1>1, <1>5, <2>1, <3>4
  <2>4. CASE unhealthy = {}
    <3>1. Down(f) = 0 /\ stage[i] \in {"joined", "up"}
      BY <2>1, <2>2, <2>4, Tallies
    <3>2. Active(f) > desired
      <4>1. Cardinality(unhealthy) = 0
        BY <2>4, FS_EmptySet
      <4>2. Active(f) \in Nat
        BY Tallies
      <4> QED
        BY <1>1, <2>1, <2>2, <4>1, <4>2 DEF CalculateDeactivateTarget, Larger, Lesser
    <3>3. /\ Live(g) = Live(f) - 1 /\ Away(g) = Away(f) + 1 /\ Down(g) = Down(f)
          /\ Up(g) >= Up(f) - 1
          /\ Coming(f) = 0 => Coming(g) = 0
      <4>1. CASE stage[i] = "joined"
        BY <1>1, <1>3, <1>4, <2>1, <4>1, MoveEffects DEF Stage
      <4>2. CASE stage[i] = "up"
        BY <1>1, <1>3, <1>4, <2>1, <4>2, MoveEffects DEF Stage
      <4> QED
        BY <3>1, <4>1, <4>2
    <3>4. Withdrawn(Originals, g) \in {Withdrawn(Originals, f), Withdrawn(Originals, f) + 1}
      BY <1>1, <1>3, <2>1, <3>1 DEF Stage, WithdrawnStage
    <3>5. Active(f) <= Coming(f) + Up(f)
      BY Tallies
    <3>6. Active(f) \in Nat
      BY Tallies
    <3>7. Step(crashes, crashes)
      BY <1>1, <1>2, <1>4, <2>1, <3>1, <3>2, <3>3, <3>4, <3>5, <3>6 DEF LossInv, Losses, LivesOn
    <3> QED
      BY <1>1, <1>5, <2>1, <3>7
  <2> QED
    BY <2>3, <2>4
<1>9. CASE RemoveFromWeka(i) \/ Terminate(i)
  <2>1. /\ \/ stage[i] = "deactivating" /\ Move(i, "left")
           \/ stage[i] = "left" /\ Move(i, "gone")
        /\ UNCHANGED <<desired, crashes>>
    BY <1>9 DEF RemoveFromWeka, Terminate
  <2>2. /\ Live(g) = Live(f) /\ Away(g) <= Away(f) /\ Down(g) = Down(f)
        /\ Coming(g) = Coming(f) /\ Up(g) = Up(f)
    <3>1. CASE stage[i] = "deactivating" /\ Move(i, "left")
      BY <1>1, <1>3, <1>4, <3>1, MoveEffects DEF Stage
    <3>2. CASE stage[i] = "left" /\ Move(i, "gone")
      BY <1>1, <1>3, <1>4, <3>2, MoveEffects DEF Stage
    <3> QED
      BY <2>1, <3>1, <3>2
  <2>3. Withdrawn(Originals, g) = Withdrawn(Originals, f)
    BY <1>1, <1>3, <2>1 DEF Stage, WithdrawnStage
  <2>4. Step(crashes, crashes)
    BY <1>1, <1>2, <1>4, <2>1, <2>2, <2>3 DEF LossInv, Losses, LivesOn
  <2> QED
    BY <1>1, <1>5, <2>1, <2>4
<1>10. CASE Crash(i)
  <2>1. /\ stage[i] \in {"joined", "up"} /\ Move(i, "down")
        /\ desired' = desired /\ crashes' = crashes + 1
    BY <1>10 DEF Crash
  <2>2. /\ Live(g) = Live(f) /\ Away(g) = Away(f) /\ Down(g) = Down(f) + 1
    <3>1. CASE stage[i] = "joined"
      BY <1>1, <1>3, <1>4, <2>1, <3>1, MoveEffects DEF Stage
    <3>2. CASE stage[i] = "up"
      BY <1>1, <1>3, <1>4, <2>1, <3>2, MoveEffects DEF Stage
    <3> QED
      BY <2>1, <3>1, <3>2
  <2>3. Withdrawn(Originals, g) = Withdrawn(Originals, f)
    BY <1>1, <1>3, <2>1 DEF Stage, WithdrawnStage
  <2>4. Step(crashes, crashes + 1)
    BY <1>1, <1>2, <1>4, <2>1, <2>2, <2>3 DEF LossInv, Losses, LivesOn
  <2> QED
    BY <1>1, <1>5, <2>1, <2>4
<1>11. CASE Recover(i)
  <2>1. stage[i] = "down" /\ Move(i, "up") /\ UNCHANGED <<desired, crashes>>
    BY <1>11 DEF Recover
  <2>2. /\ Live(g) = Live(f) /\ Away(g) = Away(f) /\ Down(g) = Down(f) - 1
        /\ Coming(g) = Coming(f) /\ Up(g) = Up(f) + 1
    BY <1>1, <1>3, <1>4, <2>1, MoveEffects DEF Stage
  <2>3. Withdrawn(Originals, g) = Withdrawn(Originals, f)
    BY <1>1, <1>3, <2>1 DEF Stage, WithdrawnStage
  <2>4. Step(crashes, crashes)
    BY <1>1, <1>2, <1>4, <2>1, <2>2, <2>3 DEF LossInv, Losses, LivesOn
  <2> QED
    BY <1>1, <1>5, <2>1, <2>4
<1> QED
  BY <1>6, <1>7, <1>8, <1>9, <1>10, <1>11

-----------------------------------------------------------------------------
(* Steps of the cloud function.                                            *)

\* What AdvanceStateMachine waits for before it moves on, and the size it asks for: the
\* outcome t of a call on state s with the status and the instance list of the run.
Proceeds(s, status, ids, t) ==
    /\ FollowsOn(s, t.state)
    /\ t.size \in {Nil, GetExpectedDesiredSize(t.state)}
    /\ t.state.Phase = "completed" => t.size = Nil
    /\ ~t.changed => t.state = s
    /\ t.state.Phase = "waitingScaleDown" =>
          \/ s.Phase = "waitingScaleDown"
          \/ s.Phase \in UpPhase /\ CheckClusterHealthy(status, ScaledUpSize(s))
    /\ t.state.Phase \in {"terminating", "completed"} \/ t.state.CurrentIteration # s.CurrentIteration
          => \/ s.Phase = "terminating"
             \/ s.Phase = "waitingScaleDown" /\ CheckClusterHealthy(status, s.OriginalSize)
    /\ t.state.CurrentIteration # s.CurrentIteration => Cardinality(ids) = s.OriginalSize

\* The phases that a change of phase within the iteration leads to.
LEMMA TransitionFields ==
    ASSUME NEW s \in RefreshState, NEW p
    PROVE  /\ TransitionTo(s, p).Phase = p
           /\ TransitionTo(s, p).CurrentIteration = s.CurrentIteration
           /\ TransitionTo(s, p).TotalIterations = s.TotalIterations
           /\ TransitionTo(s, p).OriginalSize = s.OriginalSize
           /\ TransitionTo(s, p).ScaleUpInterval = s.ScaleUpInterval
           /\ TransitionTo(s, p).OriginalInstanceIds = s.OriginalInstanceIds
           /\ ScaledUpSize(TransitionTo(s, p)) = ScaledUpSize(s)
<1>1. /\ TransitionTo(s, p).Phase = p
      /\ TransitionTo(s, p).CurrentIteration = s.CurrentIteration
      /\ TransitionTo(s, p).TotalIterations = s.TotalIterations
      /\ TransitionTo(s, p).OriginalSize = s.OriginalSize
      /\ TransitionTo(s, p).ScaleUpInterval = s.ScaleUpInterval
      /\ TransitionTo(s, p).OriginalInstanceIds = s.OriginalInstanceIds
  BY DEF TransitionTo, RefreshState
<1> QED
  BY <1>1 DEF ScaledUpSize

\* Closing a batch asks for the size of the next one, or for none after the last.
LEMMA CompleteProceeds ==
    ASSUME NEW s \in RefreshState, Schedule(s), s.Phase \in DownPhase, NEW status, NEW ids,
           s.Phase = "waitingScaleDown" => CheckClusterHealthy(status, s.OriginalSize),
           BatchReplaced(s, ids)
    PROVE  Proceeds(s, status, ids, completeIterationAndProceed(s))
<1>1. Cardinality(ids) = s.OriginalSize
  BY DEF BatchReplaced
<1>2. \/ s.Phase = "terminating"
      \/ s.Phase = "waitingScaleDown" /\ CheckClusterHealthy(status, s.OriginalSize)
  <2>1. s.Phase \in {"terminating", "waitingScaleDown"}
    BY DEF DownPhase
  <2> QED
    BY <2>1
<1>3. CASE ShouldContinue(s)
  <2> DEFINE next == StartNextIteration(s)
  <2>1. /\ next.Phase = "provisioning" /\ next.CurrentIteration = s.CurrentIteration + 1
        /\ next.ScaleUpInterval = s.ScaleUpInterval
    BY NextIterationFields
  <2>2. s.CurrentIteration \in Nat
    BY DEF RefreshState
  <2> HIDE DEF next
  <2>3. completeIterationAndProceed(s) = Outcome(next, TRUE, ScaledUpSize(next))
    BY <1>3 DEF completeIterationAndProceed, next
  <2>4. GetExpectedDesiredSize(next) = ScaledUpSize(next)
    BY <2>1 DEF GetExpectedDesiredSize
  <2>5. FollowsOn(s, next)
    BY <2>1, <2>2 DEF FollowsOn, ActivePhase
  <2> QED
    BY <1>1, <1>2, <2>1, <2>3, <2>4, <2>5 DEF Proceeds, Outcome
<1>4. CASE ~ShouldContinue(s)
  <2> DEFINE done == MarkCompleted(s)
  <2>1. /\ done.Phase = "completed" /\ done.CurrentIteration = s.CurrentIteration
        /\ done.ScaleUpInterval = s.ScaleUpInterval
    BY TransitionFields DEF MarkCompleted
  <2> HIDE DEF done
  <2>2. completeIterationAndProceed(s) = Outcome(done, TRUE, Nil)
    BY <1>4 DEF completeIterationAndProceed, done
  <2>3. FollowsOn(s, done)
    BY <2>1 DEF FollowsOn, UpPhase
  <2> QED
    BY <1>2, <2>1, <2>2, <2>3 DEF Proceeds, Outcome
<1> QED
  BY <1>3, <1>4

\* AdvanceStateMachine proceeds in this way from every phase.
LEMMA AdvanceProceeds ==
    ASSUME NEW s \in RefreshState, Schedule(s), IsInProgress(s), NEW ids, NEW status
    PROVE  Proceeds(s, status, ids, AdvanceStateMachine(s, status, ids))
<1> USE DEF UpPhase, DownPhase
<1>1. ASSUME s.Phase \in UpPhase, NEW p \in UpPhase,
             NEW changed \in BOOLEAN, changed \/ TransitionTo(s, p) = s
      PROVE  Proceeds(s, status, ids, Outcome(TransitionTo(s, p), changed, ScaledUpSize(s)))
  <2> DEFINE r == TransitionTo(s, p)
  <2>1. /\ r.Phase = p /\ r.CurrentIteration = s.CurrentIteration
        /\ r.ScaleUpInterval = s.ScaleUpInterval /\ ScaledUpSize(r) = ScaledUpSize(s)
    BY TransitionFields
  <2> HIDE DEF r
  <2>2. FollowsOn(s, r)
    BY <1>1, <2>1 DEF FollowsOn, ActivePhase
  <2>3. GetExpectedDesiredSize(r) = ScaledUpSize(s)
    BY <2>1 DEF GetExpectedDesiredSize
  <2>4. changed \/ r = s
    BY <1>1 DEF r
  <2>5. Proceeds(s, status, ids, Outcome(r, changed, ScaledUpSize(s)))
    BY <2>1, <2>2, <2>3, <2>4 DEF Proceeds, Outcome
  <2> QED
    BY <2>5 DEF r
<1>2. ASSUME NEW changed, NEW size \in {Nil, GetExpectedDesiredSize(s)}
      PROVE  \/ Proceeds(s, status, ids, Outcome(s, changed, size))
             \/ s.Phase = "terminating" \/ s.Phase = "completed"
  BY <1>2 DEF Proceeds, Outcome, FollowsOn, IsInProgress, ActivePhase
<1>3. CASE s.Phase \in UpPhase
  <2>1. TransitionTo(s, s.Phase) = s
    BY DEF TransitionTo, RefreshState
  <2>2. GetExpectedDesiredSize(s) = ScaledUpSize(s)
    BY <1>3 DEF GetExpectedDesiredSize
  <2>3. ASSUME CheckClusterHealthy(status, ScaledUpSize(s))
        PROVE  Proceeds(s, status, ids,
                        Outcome(TransitionTo(s, "waitingScaleDown"), TRUE, s.OriginalSize))
    BY <1>3, <2>3, TransitionFields
    DEF Proceeds, Outcome, FollowsOn, ActivePhase, GetExpectedDesiredSize
  <2>4. Proceeds(s, status, ids, AdvanceScaleUp(s, status, ids))
    BY <1>1, <1>2, <1>3, <2>1, <2>2, <2>3 DEF AdvanceScaleUp
  <2> QED
    BY <1>3, <2>4 DEF AdvanceStateMachine
<1>4. CASE s.Phase = "waitingScaleDown"
  <2>1. GetExpectedDesiredSize(s) = s.OriginalSize
    BY <1>4 DEF GetExpectedDesiredSize
  <2>2. ASSUME CheckClusterHealthy(status, s.OriginalSize)
        PROVE  Proceeds(s, status, ids,
                        Outcome(TransitionTo(s, "terminating"), TRUE, s.OriginalSize))
    BY <1>4, <2>2, TransitionFields
    DEF Proceeds, Outcome, FollowsOn, ActivePhase, GetExpectedDesiredSize
  <2>3. Proceeds(s, status, ids, AdvanceWaitingScaleDown(s, status, ids))
    BY <1>2, <1>4, <2>1, <2>2, CompleteProceeds DEF AdvanceWaitingScaleDown
  <2> QED
    BY <1>4, <2>3 DEF AdvanceStateMachine
<1>5. CASE s.Phase = "terminating"
  <2>1. GetExpectedDesiredSize(s) = s.OriginalSize
    BY <1>5 DEF GetExpectedDesiredSize
  <2>2. ASSUME NEW changed
        PROVE  Proceeds(s, status, ids, Outcome(s, changed, s.OriginalSize))
    BY <1>5, <2>1 DEF Proceeds, Outcome, FollowsOn, ActivePhase
  <2>3. Proceeds(s, status, ids, AdvanceTerminating(s, ids))
    BY <1>5, <2>2, CompleteProceeds DEF AdvanceTerminating
  <2> QED
    BY <1>5, <2>3 DEF AdvanceStateMachine
<1> QED
  BY <1>3, <1>4, <1>5 DEF IsInProgress, ActivePhase

\* A count of drives that is right by DrivesPerVm a machine is right by machines.
LEMMA HealthyIsUp ==
    ASSUME IInv, NEW io, NEW ok, NEW gw, NEW n \in Nat,
           CheckClusterHealthy(WekaStatus(io, ok, gw), n)
    PROVE  Up(stage) = n
<1>1. Up(stage) * DrivesPerVm = n * DrivesPerVm
  BY DEF CheckClusterHealthy, WekaStatus, Up, Count, Within, InStage
<1>2. DrivesPerVm \in Nat \ {0} /\ Up(stage) \in Nat
  BY SizeAssumption, Tallies
<1>3. \A a, b \in Nat, k \in Nat \ {0} : a * k = b * k => a = b
  <2>1. ASSUME NEW a \in Nat, NEW b \in Nat, NEW k \in Nat \ {0}, a < b
        PROVE  a * k # b * k
    <3>1. b * k = a * k + (b - a) * k
      BY <2>1
    <3>2. (b - a) * k >= 1
      BY <2>1
    <3>3. a * k \in Nat /\ (b - a) * k \in Nat
      BY <2>1
    <3> QED
      BY <3>1, <3>2, <3>3
  <2> SUFFICES ASSUME NEW a \in Nat, NEW b \in Nat, NEW k \in Nat \ {0}, a # b
               PROVE  a * k # b * k
    OBVIOUS
  <2> QED
    BY <2>1
<1> QED
  BY <1>1, <1>2, <1>3

\* The first batch scales up by what it must replace, every later one by what it adds.
LEMMA BatchNumbers ==
    ASSUME NEW s \in RefreshState, Schedule(s)
    PROVE  /\ s.CurrentIteration = 1 => ScaledUpSize(s) = s.OriginalSize + GetExpectedReplaced(s)
           /\ \A r \in RefreshState :
                 /\ Schedule(r)
                 /\ r.OriginalSize = s.OriginalSize /\ r.ScaleUpInterval = s.ScaleUpInterval
                 /\ s.CurrentIteration = r.CurrentIteration + 1
                 => /\ ScaledUpSize(s) = s.OriginalSize + GetExpectedReplaced(s)
                                                        - GetExpectedReplaced(r)
                    /\ GetExpectedReplaced(r) < r.OriginalSize
<1> DEFINE n == s.OriginalSize   k == s.ScaleUpInterval   c == s.CurrentIteration
<1>1. /\ n \in Nat \ {0} /\ k \in Nat \ {0} /\ c \in Nat \ {0}
      /\ c \in 1..CalculateTotalIterations(n, k)
      /\ s.TotalIterations = CalculateTotalIterations(n, k)
  BY ScheduleFacts DEF Schedule
<1>2. GetExpectedReplaced(s) = Due(n, k, c)
  BY DEF GetExpectedReplaced, Due, Schedule
<1> HIDE DEF n, k, c
<1>3. GetScaledUpSize(n, k, c, CalculateTotalIterations(n, k)) - n = Due(n, k, c) - Due(n, k, c - 1)
  BY <1>1, ScaleUpMatchesDue
<1>4. /\ ScaledUpSize(s) = GetScaledUpSize(n, k, c, CalculateTotalIterations(n, k))
      /\ ScaledUpSize(s) \in Nat
  BY <1>1, ScheduleFacts DEF ScaledUpSize, n, k, c
<1>5. c * k \in Nat /\ (c - 1) * k \in Nat
  BY <1>1
<1>6. Due(n, k, c) \in Nat /\ Due(n, k, c - 1) \in Nat
  BY <1>1, <1>5 DEF Due, Lesser
<1>7. ScaledUpSize(s) = n + Due(n, k, c) - Due(n, k, c - 1)
  BY <1>1, <1>3, <1>4, <1>6
<1>8. c = 1 => Due(n, k, c - 1) = 0
  <2>1. 0 * k = 0
    BY <1>1
  <2> QED
    BY <1>1, <2>1 DEF Due, Lesser
<1>9. ASSUME NEW r \in RefreshState, Schedule(r),
             r.OriginalSize = s.OriginalSize, r.ScaleUpInterval = s.ScaleUpInterval,
             s.CurrentIteration = r.CurrentIteration + 1
      PROVE  /\ GetExpectedReplaced(r) = Due(n, k, c - 1)
             /\ GetExpectedReplaced(r) < r.OriginalSize
  <2>1. GetExpectedReplaced(r) = Due(n, k, r.CurrentIteration)
    BY <1>9 DEF GetExpectedReplaced, Due, Schedule, n, k
  <2>2. r.CurrentIteration \in Nat
    BY <1>9 DEF RefreshState
  <2>3. r.CurrentIteration = c - 1
    BY <1>9, <2>2 DEF c
  <2>4. (c - 1) * k < n
    BY <1>1, EarlierIterationsAreFull
  <2> QED
    BY <1>1, <1>5, <1>9, <2>1, <2>3, <2>4 DEF Due, Lesser, n
<1> QED
  BY <1>2, <1>6, <1>7, <1>8, <1>9 DEF n, c

\* The instances of a settled scale set that scale_down has withdrawn are those still on
\* their way out.
LEMMA WithdrawnOfAll == Withdrawn(Instances, stage) = Away(stage)
<1>1. Within(Instances, stage, WithdrawnStage) = Within(Instance, stage, {"deactivating", "left"})
  BY DEF Within, Instances, InStage, WithdrawnStage
<1> QED
  BY <1>1 DEF Withdrawn, Away, Count

\* A refresh starts on a settled scale set, so what is on its way out has failed.
LEMMA StartKeepsCapInv ==
    ASSUME IInv, CapInv, NEW k \in Intervals, Start(k)
    PROVE  CapInv'
<1> DEFINE s == InitializeState(desired, k, Instances)
<1>1. /\ state' = s /\ run = NoRun
      /\ UNCHANGED <<desired, run, stage, crashes>>
      /\ Cardinality(Instances) = desired
  BY DEF Start
<1>2. /\ s.Phase = "provisioning" /\ s.OriginalSize = desired /\ s.CurrentIteration = 1
      /\ s.OriginalInstanceIds = Instances
  BY DEF InitializeState
<1> HIDE DEF s
<1>3. IInv'
  BY StartKeepsIInv
<1>4. s \in RefreshState /\ Schedule(s)
  BY <1>1, <1>2, <1>3 DEF IInv, TypeOK, StateInv, NoState
<1>5. /\ ScaledUpSize(s) = desired + GetExpectedReplaced(s)
      /\ GetExpectedReplaced(s) \in Nat
      /\ GetExpectedDesiredSize(s) = ScaledUpSize(s)
  BY <1>2, <1>4, BatchNumbers, ProgressNumbers DEF UpPhase
<1>6. /\ desired \in Nat /\ crashes \in Nat /\ Live(stage) \in Nat /\ Away(stage) \in Nat
      /\ Down(stage) \in Nat /\ Size(stage) = desired /\ Size(stage) = Live(stage) + Away(stage)
  BY <1>1, ProgressState, Tallies
<1>7. Away(stage) + Down(stage) <= crashes
  BY <1>6 DEF CapInv, LossInv
<1>8. /\ Budget(s, stage, crashes, Live(stage))
      /\ Budget(s, stage, crashes, desired)
      /\ Budget(s, stage, crashes, GetExpectedDesiredSize(s))
  BY <1>2, <1>5, <1>6, <1>7, WithdrawnOfAll DEF Budget
<1>9. BudgetInv'
  BY <1>1, <1>8 DEF BudgetInv
<1>10. GrowthInv' /\ LossInv'
  BY <1>1, <1>6 DEF GrowthInv, LossInv, CapInv
<1>11. SizeInv' /\ RunInv'
  BY <1>1, <1>2, <1>6 DEF SizeInv, RunInv, NoRun
<1>12. CalmInv'
  BY <1>1, <1>2, <1>6 DEF CalmInv, NoRun, DownPhase
<1> QED
  BY <1>9, <1>10, <1>11, <1>12 DEF CapInv

\* Cancelling asks for the original size, which is never more than is wanted.
LEMMA CancelKeepsCapInv ==
    ASSUME IInv, CapInv, Cancel
    PROVE  CapInv'
<1> DEFINE s == MarkCancelled(state)
<1>1. /\ state' = s /\ IsInProgress(state)
      /\ run'.pc = "writeSize" /\ run'.size = GetExpectedDesiredSize(s)
      /\ UNCHANGED <<desired, stage, crashes>>
  BY DEF Cancel, NoRun
<1>2. state \in RefreshState /\ Schedule(state)
  BY <1>1, ProgressState
<1>3. s.Phase = "cancelled" /\ s.OriginalSize = state.OriginalSize
  BY <1>2, TransitionFields DEF MarkCancelled
<1> HIDE DEF s
<1>4. GetExpectedDesiredSize(s) = state.OriginalSize
  BY <1>3 DEF GetExpectedDesiredSize
<1>5. ~IsInProgress(s)
  BY <1>3 DEF IsInProgress, ActivePhase
<1>6. desired >= state.OriginalSize
  BY <1>1 DEF CapInv, SizeInv
<1>7. BudgetInv' /\ GrowthInv' /\ LossInv' /\ RunInv'
  BY <1>1, <1>3, <1>5 DEF BudgetInv, GrowthInv, LossInv, RunInv, CapInv, UpPhase
<1>8. SizeInv'
  BY <1>1, <1>4, <1>5, <1>6 DEF SizeInv
<1>9. CalmInv'
  BY <1>1, <1>3, <1>5 DEF CalmInv, UpPhase, DownPhase
<1> QED
  BY <1>7, <1>8, <1>9 DEF CapInv

\* A list just taken has every instance there is.
LEMMA ListInstancesKeepsCapInv ==
    ASSUME IInv, CapInv, ListInstances
    PROVE  CapInv'
<1>1. /\ run'.pc = "advance" /\ run'.ids = Instances
      /\ UNCHANGED <<state, desired, stage, crashes>>
  BY DEF ListInstances, NoRun
<1>2. Cardinality(Instances) = Size(stage) /\ Size(stage) \in Nat
  BY ProgressState, Tallies
<1>3. BudgetInv' /\ GrowthInv' /\ LossInv'
  BY <1>1 DEF BudgetInv, GrowthInv, LossInv, CapInv
<1>4. SizeInv' /\ RunInv'
  BY <1>1, <1>2 DEF SizeInv, RunInv, CapInv
<1>5. CalmInv'
  BY <1>1 DEF CalmInv, CapInv, AllServe
<1> QED
  BY <1>3, <1>4, <1>5 DEF CapInv

\* A state to be stored is justified by what the run has seen of the cluster.
LEMMA AdvanceKeepsCapInv ==
    ASSUME IInv, CapInv, NEW io, NEW ok, NEW gw, Advance(io, ok, gw)
    PROVE  CapInv'
<1> DEFINE status == WekaStatus(io, ok, gw)
           t == AdvanceStateMachine(state, status, run.ids)
<1>1. /\ run.pc = "advance"
      /\ run'.pc = IF t.changed THEN "writeState" ELSE "writeSize"
      /\ run'.next = t.state /\ run'.size = t.size
      /\ UNCHANGED <<state, desired, stage, crashes>>
  BY DEF Advance, NoRun
<1>2. /\ IsInProgress(state) /\ state \in RefreshState /\ Schedule(state)
  BY <1>1, ProgressState DEF IInv, ListInv
<1>3. Proceeds(state, status, run.ids, t)
  BY <1>2, AdvanceProceeds
<1>4. \A n \in Nat : CheckClusterHealthy(status, n) => Up(stage) = n
  BY HealthyIsUp
<1> HIDE DEF status, t
<1>5. /\ state.OriginalSize \in Nat /\ ScaledUpSize(state) \in Nat
      /\ ScaledUpSize(state) > state.OriginalSize
      /\ desired \in Nat /\ crashes \in Nat /\ Cardinality(run.ids) \in Nat
      /\ Coming(stage) \in Nat /\ Up(stage) \in Nat /\ Down(stage) \in Nat /\ Away(stage) \in Nat
      /\ Size(stage) = Live(stage) + Away(stage)
      /\ Live(stage) = Coming(stage) + Up(stage) + Down(stage)
  BY <1>2, ProgressState, ProgressNumbers, Tallies
<1>6. BudgetInv' /\ GrowthInv' /\ LossInv'
  BY <1>1 DEF BudgetInv, GrowthInv, LossInv, CapInv
<1>7. SizeInv'
  <2>1. /\ run'.size \in {Nil, GetExpectedDesiredSize(run'.next)}
        /\ run'.next.Phase = "completed" => run'.size = Nil
        /\ run'.pc = "writeSize" => run'.next = state
    BY <1>1, <1>3 DEF Proceeds
  <2> QED
    BY <1>1, <1>2, <2>1 DEF SizeInv, CapInv
<1>8. RunInv'
  <2>1. t.state.CurrentIteration # state.CurrentIteration => Size(stage) <= desired
    BY <1>1, <1>2, <1>3, <1>5 DEF Proceeds, CapInv, RunInv, SizeInv
  <2>2. FollowsOn(state, t.state)
    BY <1>3 DEF Proceeds
  <2> QED
    BY <1>1, <2>1, <2>2 DEF RunInv
<1>9. CalmInv'
  <2>1. SUFFICES ASSUME crashes = 0
                 PROVE  CalmInv'
    BY <1>1 DEF CalmInv
  <2>2. /\ desired \in {state.OriginalSize, ScaledUpSize(state)}
        /\ state.Phase \in UpPhase => Size(stage) <= desired
        /\ state.Phase \in DownPhase => AllServe
        /\ state.Phase = "terminating" => desired = state.OriginalSize
    BY <1>2, <2>1 DEF CapInv, CalmInv
  <2>3. t.state.Phase = "waitingScaleDown" => AllServe
    <3>1. CASE state.Phase = "waitingScaleDown"
      BY <2>2, <3>1 DEF DownPhase
    <3>2. CASE state.Phase \in UpPhase /\ CheckClusterHealthy(status, ScaledUpSize(state))
      BY <1>4, <1>5, <2>2, <3>2 DEF AllServe
    <3> QED
      BY <1>3, <3>1, <3>2 DEF Proceeds
  <2>4. \/ t.state.Phase \in {"terminating", "completed"}
        \/ t.state.CurrentIteration # state.CurrentIteration
        => desired = state.OriginalSize
    <3>1. ASSUME state.Phase = "waitingScaleDown", CheckClusterHealthy(status, state.OriginalSize)
          PROVE  desired = state.OriginalSize
      BY <1>2, <1>4, <1>5, <2>2, <3>1 DEF CapInv, SizeInv, AllServe, DownPhase
    <3> QED
      BY <1>3, <2>2, <3>1 DEF Proceeds
  <2>5. run'.next = t.state
    BY <1>1
  <2>6. AllServe' <=> AllServe
    BY <1>1 DEF AllServe
  <2> QED
    BY <1>1, <1>2, <2>2, <2>3, <2>4, <2>5, <2>6 DEF CalmInv, IsInProgress, CapInv
<1> QED
  BY <1>6, <1>7, <1>8, <1>9 DEF CapInv

\* What is stored continues the refresh within its budget: a new batch adds to the budget
\* as much as to the size.
LEMMA WriteStateKeepsCapInv ==
    ASSUME IInv, CapInv, WriteState
    PROVE  CapInv'
<1> DEFINE s == run.next
<1>1. /\ run.pc = "writeState" /\ state' = s
      /\ run'.pc = "writeSize" /\ run'.size = run.size
      /\ UNCHANGED <<desired, stage, crashes>>
  BY DEF WriteState, IInv, TypeOK
<1>2. /\ IsInProgress(state) /\ state \in RefreshState /\ Schedule(state)
      /\ s \in RefreshState /\ Schedule(s)
      /\ s.OriginalInstanceIds = state.OriginalInstanceIds
      /\ s.CurrentIteration # state.CurrentIteration => s = StartNextIteration(state)
      /\ FollowsOn(state, s)
  BY <1>1, ProgressState DEF IInv, PendingInv, TypeOK, Originals, CapInv, RunInv
<1>3. /\ s.OriginalSize = state.OriginalSize
      /\ s.ScaleUpInterval = state.ScaleUpInterval
      /\ s.TotalIterations = state.TotalIterations
  BY <1>2 DEF Schedule, FollowsOn
<1>4. /\ s.CurrentIteration = state.CurrentIteration =>
            /\ GetExpectedReplaced(s) = GetExpectedReplaced(state)
            /\ ScaledUpSize(s) = ScaledUpSize(state)
      /\ s.CurrentIteration # state.CurrentIteration =>
            /\ s.Phase = "provisioning" /\ s.CurrentIteration = state.CurrentIteration + 1
            /\ ScaledUpSize(s) = s.OriginalSize + GetExpectedReplaced(s)
                                                - GetExpectedReplaced(state)
  BY <1>2, <1>3, BatchNumbers, NextIterationFields DEF GetExpectedReplaced, ScaledUpSize
<1>5. /\ state.OriginalSize \in Nat /\ ScaledUpSize(state) \in Nat /\ ScaledUpSize(s) \in Nat
      /\ GetExpectedReplaced(state) \in Nat /\ GetExpectedReplaced(s) \in Nat
      /\ ScaledUpSize(s) > s.OriginalSize
      /\ s.Phase \in UpPhase => GetExpectedDesiredSize(s) = ScaledUpSize(s)
      /\ s.Phase \notin UpPhase => GetExpectedDesiredSize(s) = s.OriginalSize
      /\ state.Phase \in UpPhase => GetExpectedDesiredSize(state) = ScaledUpSize(state)
  BY <1>2, ProgressNumbers
<1>6. /\ desired \in Nat /\ crashes \in Nat /\ Live(stage) \in Nat /\ Down(stage) \in Nat
      /\ Withdrawn(Originals, stage) \in Nat
  BY ProgressState
<1>7. desired >= state.OriginalSize
  BY <1>2 DEF CapInv, SizeInv
<1>8. /\ run.size \in {Nil, GetExpectedDesiredSize(s)}
      /\ s.Phase = "completed" => run.size = Nil
  BY <1>1 DEF CapInv, SizeInv
<1>9. s.CurrentIteration # state.CurrentIteration => Size(stage) <= desired
  BY <1>1 DEF CapInv, RunInv
<1>10. /\ s.Phase \in ActivePhase \cup {"completed"}
       /\ s.Phase \in UpPhase /\ s.CurrentIteration = state.CurrentIteration => state.Phase \in UpPhase
       /\ s.Phase = "terminating" => state.Phase \in DownPhase
  BY <1>2 DEF FollowsOn
<1> HIDE DEF s
<1>11. ASSUME IsInProgress(s)
       PROVE  /\ Budget(s, stage, crashes, Live(stage))
              /\ Budget(s, stage, crashes, desired)
              /\ Budget(s, stage, crashes, GetExpectedDesiredSize(s))
  <2>1. /\ Budget(state, stage, crashes, Live(stage))
        /\ Budget(state, stage, crashes, desired)
        /\ Budget(state, stage, crashes, GetExpectedDesiredSize(state))
    BY <1>2 DEF CapInv, BudgetInv
  <2> DEFINE w == Withdrawn(Originals, stage) + Down(stage)
             n == state.OriginalSize
             r == GetExpectedReplaced(state)
  <2>2. /\ w + Live(stage) <= n + r + crashes
        /\ w + desired <= n + r + crashes
        /\ w + GetExpectedDesiredSize(state) <= n + r + crashes
    BY <2>1 DEF Budget, Originals
  <2>3. w \in Nat /\ n \in Nat /\ r \in Nat
    BY <1>5, <1>6
  <2> HIDE DEF w, n, r
  <2>4. CASE s.CurrentIteration = state.CurrentIteration
    <3>1. GetExpectedReplaced(s) = r /\ s.OriginalSize = n
      BY <1>3, <1>4, <2>4 DEF n, r
    <3>2. w + GetExpectedDesiredSize(s) <= n + r + crashes
      <4>1. CASE s.Phase \in UpPhase
        BY <1>4, <1>5, <1>10, <2>2, <2>4, <4>1
      <4>2. CASE s.Phase \notin UpPhase
        <5>1. GetExpectedDesiredSize(s) = n /\ n <= desired
          BY <1>3, <1>5, <1>7, <4>2 DEF n
        <5> QED
          BY <1>6, <2>2, <2>3, <5>1
      <4> QED
        BY <4>1, <4>2
    <3> QED
      BY <1>2, <2>2, <3>1, <3>2 DEF Budget, w, Originals
  <2>5. CASE s.CurrentIteration # state.CurrentIteration
    <3>1. /\ s.OriginalSize = n
          /\ GetExpectedDesiredSize(s) = n + GetExpectedReplaced(s) - r
      BY <1>3, <1>4, <1>5, <2>5 DEF n, r, UpPhase
    <3>2. GetExpectedReplaced(s) > r
      BY <1>3, <1>4, <1>5, <2>5 DEF r
    <3>3. n <= desired
      BY <1>7 DEF n
    <3>4. /\ w + Live(stage) <= n + GetExpectedReplaced(s) + crashes
          /\ w + desired <= n + GetExpectedReplaced(s) + crashes
          /\ w + GetExpectedDesiredSize(s) <= n + GetExpectedReplaced(s) + crashes
      BY <1>5, <1>6, <2>2, <2>3, <3>1, <3>2, <3>3
    <3> QED
      BY <1>2, <3>1, <3>4 DEF Budget, w, Originals
  <2> QED
    BY <2>4, <2>5
<1>12. BudgetInv'
  BY <1>1, <1>11 DEF BudgetInv
<1>13. GrowthInv' /\ LossInv'
  BY <1>1, <1>4, <1>9, <1>10 DEF GrowthInv, LossInv, CapInv
<1>14. SizeInv'
  <2>1. ~IsInProgress(s) => s.Phase = "completed"
    BY <1>10 DEF IsInProgress
  <2> QED
    BY <1>1, <1>3, <1>6, <1>7, <1>8, <2>1 DEF SizeInv, Nil
<1>15. RunInv'
  BY <1>1 DEF RunInv
<1>16. CalmInv'
  <2>1. SUFFICES ASSUME crashes = 0
                 PROVE  CalmInv'
    BY <1>1 DEF CalmInv
  <2>2. /\ desired \in {state.OriginalSize, ScaledUpSize(state)}
        /\ state.Phase \in UpPhase => Size(stage) <= desired
        /\ state.Phase \in DownPhase => AllServe
        /\ s.Phase = "waitingScaleDown" => AllServe
        /\ \/ s.Phase \in {"terminating", "completed"}
           \/ s.CurrentIteration # state.CurrentIteration
           => desired = state.OriginalSize
    BY <1>1, <1>2, <2>1 DEF CapInv, CalmInv, s
  <2>3. desired \in {s.OriginalSize, ScaledUpSize(s)}
    BY <1>3, <1>4, <2>2
  <2>4. s.Phase \in UpPhase => Size(stage) <= desired
    BY <1>9, <1>10, <2>2
  <2>5. s.Phase \in DownPhase => AllServe
    BY <1>10, <2>2 DEF DownPhase
  <2>6. AllServe' <=> AllServe
    BY <1>1 DEF AllServe
  <2> QED
    BY <1>1, <1>3, <2>2, <2>3, <2>4, <2>5, <2>6 DEF CalmInv
<1> QED
  BY <1>12, <1>13, <1>14, <1>15, <1>16 DEF CapInv

\* The size a run stores is the one the stored state asks for; it is raised only when
\* there is no surplus.
LEMMA WriteSizeKeepsCapInv ==
    ASSUME IInv, CapInv, WriteSize
    PROVE  CapInv'
<1> DEFINE d == IF run.size = Nil THEN desired ELSE run.size
<1>1. /\ run.pc = "writeSize" /\ desired' = d /\ run'.pc = "idle"
      /\ UNCHANGED <<state, stage, crashes>>
  BY DEF WriteSize, NoRun
<1>2. /\ desired \in Nat /\ crashes \in Nat
      /\ Live(stage) \in Nat /\ Away(stage) \in Nat /\ Down(stage) \in Nat
      /\ Size(stage) = Live(stage) + Away(stage)
      /\ run.size \in Nat
  BY ProgressState, Tallies DEF IInv, TypeOK
<1>3. /\ d \in {desired, GetExpectedDesiredSize(state)}
      /\ ~IsInProgress(state) => d <= desired
      /\ d \in Nat
  BY <1>1, <1>2 DEF CapInv, SizeInv
<1> HIDE DEF d
<1>4. ASSUME IsInProgress(state)
      PROVE  /\ state.OriginalSize \in Nat /\ ScaledUpSize(state) \in Nat
             /\ ScaledUpSize(state) > state.OriginalSize
             /\ state.Phase \in UpPhase => GetExpectedDesiredSize(state) = ScaledUpSize(state)
             /\ state.Phase \notin UpPhase => GetExpectedDesiredSize(state) = state.OriginalSize
             /\ desired >= state.OriginalSize
  BY <1>4, ProgressState, ProgressNumbers DEF CapInv, SizeInv
<1>5. BudgetInv'
  <2>1. IsInProgress(state) => Budget(state, stage, crashes, d)
    BY <1>3 DEF CapInv, BudgetInv
  <2> QED
    BY <1>1, <2>1 DEF CapInv, BudgetInv
<1>6. state.Phase \in UpPhase => IsInProgress(state)
  BY DEF UpPhase, IsInProgress, ActivePhase
<1>7. GrowthInv'
  <2>1. state.Phase \in UpPhase => Size(stage) <= d \/ d >= ScaledUpSize(state)
    BY <1>2, <1>3, <1>4, <1>6 DEF CapInv, GrowthInv
  <2> QED
    BY <1>1, <2>1 DEF GrowthInv
<1>8. LossInv'
  <2>1. d <= desired \/ Size(stage) <= desired
    <3>1. CASE state.Phase \in UpPhase
      BY <1>2, <1>3, <1>4, <1>6, <3>1 DEF CapInv, GrowthInv
    <3>2. CASE state.Phase \notin UpPhase
      BY <1>2, <1>3, <1>4, <3>2
    <3> QED
      BY <3>1, <3>2
  <2>2. LossInv
    BY DEF CapInv
  <2>3. \/ Down(stage) + Away(stage) <= crashes
        \/ d + Down(stage) <= crashes + Live(stage)
    BY <1>2, <1>3, <2>1, <2>2 DEF LossInv
  <2> QED
    BY <1>1, <2>2, <2>3 DEF LossInv
<1>9. SizeInv'
  <2>1. IsInProgress(state) => d >= state.OriginalSize
    BY <1>2, <1>3, <1>4
  <2> QED
    BY <1>1, <2>1 DEF SizeInv
<1>10. RunInv'
  BY <1>1 DEF RunInv
<1>11. CalmInv'
  <2>1. SUFFICES ASSUME crashes = 0
                 PROVE  CalmInv'
    BY <1>1 DEF CalmInv
  <2>2. CalmInv
    BY DEF CapInv
  <2>3. IsInProgress(state) => d \in {state.OriginalSize, ScaledUpSize(state)}
    BY <1>3, <1>4, <2>1, <2>2 DEF CalmInv
  <2>4. state.Phase \in UpPhase => Size(stage) <= d
    BY <1>2, <1>3, <1>4, <1>6, <2>1, <2>2 DEF CalmInv
  <2>5. state.Phase \in DownPhase => IsInProgress(state) /\ state.Phase \notin UpPhase
    BY DEF DownPhase, UpPhase, IsInProgress, ActivePhase
  <2>6. state.Phase \in DownPhase => Coming(stage) = 0 /\ Up(stage) >= d
    <3>1. Up(stage) \in Nat
      BY Tallies
    <3> QED
      BY <1>2, <1>3, <1>4, <2>1, <2>2, <2>5, <3>1 DEF CalmInv, AllServe
  <2>7. state.Phase \in {"terminating", "completed"} => d = state.OriginalSize
    <3>1. CASE state.Phase = "terminating"
      BY <1>3, <1>4, <2>1, <2>2, <2>5, <3>1 DEF CalmInv, DownPhase
    <3>2. CASE state.Phase = "completed"
      <4>1. GetExpectedDesiredSize(state) = state.OriginalSize
        BY <3>2 DEF GetExpectedDesiredSize
      <4> QED
        BY <1>3, <2>1, <2>2, <3>2, <4>1 DEF CalmInv
    <3> QED
      BY <3>1, <3>2
  <2> QED
    BY <1>1, <2>3, <2>4, <2>6, <2>7 DEF CalmInv, AllServe
<1> QED
  BY <1>5, <1>7, <1>8, <1>9, <1>10, <1>11 DEF CapInv

\* A run that fails leaves what is stored as it is.
LEMMA FailRunKeepsCapInv ==
    ASSUME CapInv, UNCHANGED <<state, desired, stage, crashes>>, run' = NoRun \/ run' = run
    PROVE  CapInv'
<1>1. BudgetInv' /\ GrowthInv' /\ LossInv'
  BY DEF CapInv, BudgetInv, GrowthInv, LossInv
<1>2. run'.pc = "idle" \/ run' = run
  BY DEF NoRun
<1>3. AllServe' <=> AllServe
  BY DEF AllServe
<1>4. SizeInv' /\ RunInv' /\ CalmInv'
  BY <1>2, <1>3 DEF CapInv, SizeInv, RunInv, CalmInv
<1> QED
  BY <1>1, <1>4 DEF CapInv

\* Before the first refresh everything that is launched is up.
LEMMA InitCapInv == Init => CapInv
<1> SUFFICES ASSUME Init PROVE CapInv
  OBVIOUS
<1>1. state.Phase = "idle" /\ run.pc = "idle" /\ crashes = 0 /\ stage \in [Instance -> {"none", "up"}]
  BY DEF Init, NoState, NoRun
<1>2. Down(stage) = 0 /\ Away(stage) = 0
  <2>1. /\ Within(Instance, stage, {"down"}) = {}
        /\ Within(Instance, stage, {"deactivating", "left"}) = {}
    BY <1>1 DEF Within
  <2> QED
    BY <2>1, FS_EmptySet DEF Down, Away, Count
<1>3. LossInv
  BY <1>1, <1>2 DEF LossInv
<1> QED
  BY <1>1, <1>3 DEF CapInv, BudgetInv, GrowthInv, SizeInv, RunInv, CalmInv, IsInProgress,
                    ActivePhase, UpPhase, DownPhase

\* Every step keeps the invariant of the sizes.
LEMMA StepCapInv ==
    ASSUME IInv, CapInv, [Next]_vars
    PROVE  CapInv'
<1>1. CASE UNCHANGED vars
  BY <1>1, FailRunKeepsCapInv DEF vars
<1>2. CASE Cluster
  <2>1. UNCHANGED <<state, desired, run>>
    BY <1>2, ClusterStep DEF IInv
  <2> QED
    BY <1>2, <2>1, ClusterCounts, CountsKeepCapInv
<1>3. CASE FailRun
  BY <1>3, FailRunKeepsCapInv DEF FailRun
<1>4. CASE Function
  BY <1>3, <1>4, StartKeepsCapInv, CancelKeepsCapInv, ListInstancesKeepsCapInv,
     AdvanceKeepsCapInv, WriteStateKeepsCapInv, WriteSizeKeepsCapInv DEF Function
<1> QED
  BY <1>1, <1>2, <1>4 DEF Next

\* At every moment of a refresh the instances withdrawn or failed and those that are, or
\* are wanted, stay within what the batches so far account for and the crashes; while
\* nothing fails, nothing is launched while scaling down and every instance that is
\* wanted is up (AdvanceStateMachine, CalculateDeactivateTarget).
THEOREM SizesInStep == Spec => [](IInv /\ CapInv)
<1>1. Init => IInv /\ CapInv
  BY InitIInv, InitCapInv
<1>2. IInv /\ CapInv /\ [Next]_vars => (IInv /\ CapInv)'
  BY StepIInv, StepCapInv
<1> QED
  BY <1>1, <1>2, PTL DEF Spec

\* As long as no machine fails, a completed refresh leaves the scale set at the size it
\* began with, whatever writes were lost.
THEOREM CompletedRefreshRestoresSize == Spec => []SizeRestored
<1>1. IInv /\ CapInv => SizeRestored
  BY DEF CapInv, CalmInv, SizeRestored, SizeCorrected
<1> QED
  BY <1>1, SizesInStep, PTL

\* While a refresh is in progress and no machine has failed, a machine that holds data is
\* deactivated only when more machines than the original size do.
THEOREM CapacityIsKept == Spec => CapacityKept
<1> DEFINE Keeps(i) == IsInProgress(state) /\ crashes = 0 /\ stage[i] = "up" /\ stage'[i] = "deactivating"
                         => Cardinality(InStage({"up"})) > state.OriginalSize
<1>1. ASSUME IInv, CapInv, Next, NEW i \in Instance,
             IsInProgress(state), crashes = 0, stage[i] = "up", stage'[i] = "deactivating"
      PROVE  Cardinality(InStage({"up"})) > state.OriginalSize
  <2>1. Cluster
    BY <1>1 DEF Next, Function, Start, Cancel, ListInstances, Advance, WriteState, WriteSize, FailRun
  <2>2. stage \in [Instance -> Stage]
    BY <1>1 DEF IInv, TypeOK
  <2>3. PICK k \in Instance : Deactivate(k)
    <3>1. PICK k \in Instance :
             \/ Launch(k) \/ Join(k) \/ AddDrives(k)
             \/ Deactivate(k) \/ RemoveFromWeka(k) \/ Terminate(k)
             \/ Crash(k) \/ Recover(k)
      BY <2>1 DEF Cluster
    <3>2. \A to : Move(k, to) => stage'[i] \in {stage[i], to}
      BY <1>1, <2>2 DEF Move
    <3> QED
      BY <1>1, <3>1, <3>2 DEF Launch, Join, AddDrives, RemoveFromWeka, Terminate, Crash, Recover
  <2>4. Up(stage) = Cardinality(InStage({"up"}))
    BY DEF Up, Count, Within, InStage
  <2>5. /\ Coming(stage) \in Nat /\ Up(stage) \in Nat /\ Active(stage) \in Nat
        /\ Live(stage) \in Nat /\ Away(stage) \in Nat /\ Down(stage) \in Nat
        /\ Size(stage) = Live(stage) + Away(stage)
        /\ Live(stage) = Coming(stage) + Up(stage) + Down(stage)
        /\ Active(stage) <= Coming(stage) + Up(stage)
        /\ Down(stage) = 0 <=> InStage({"down"}) = {}
        /\ desired \in Nat
    BY <1>1, Tallies, ProgressState DEF InStage, Within
  <2>6. InStage({"down"}) = {}
    BY <1>1, <2>5 DEF CapInv, LossInv
  <2>7. Active(stage) > desired
    <3>1. /\ Cardinality(InStage({"deactivating"})) \in Nat
          /\ Cardinality(InStage({"down"})) = 0
          /\ Cardinality(InStage({"joined", "up"})) = Active(stage)
      BY <2>6, InstancesFinite, FS_EmptySet DEF InStage, Active, Count, Within
    <3> QED
      BY <2>3, <2>5, <3>1 DEF Deactivate, CalculateDeactivateTarget, Larger, Lesser
  <2>8. state.Phase \notin UpPhase
    BY <1>1, <2>5, <2>7 DEF CapInv, CalmInv
  <2>9. Coming(stage) = 0 /\ desired >= state.OriginalSize
    <3>1. state.Phase \in DownPhase
      BY <1>1, <2>8 DEF IsInProgress, ActivePhase, UpPhase, DownPhase
    <3> QED
      BY <1>1, <3>1 DEF CapInv, CalmInv, SizeInv, AllServe
  <2>10. state.OriginalSize \in Nat
    BY <1>1 DEF IInv, TypeOK, RefreshState
  <2> QED
    BY <2>4, <2>5, <2>7, <2>9, <2>10
<1>2. IInv /\ CapInv /\ [Next]_vars => [\A i \in Instance : Keeps(i)]_vars
  BY <1>1
<1> QED
  BY <1>2, SizesInStep, PTL DEF Spec, CapacityKept

-----------------------------------------------------------------------------
(* The refinement: every step of the refresh, and of the cluster under it, *)
(* is a step of the rolling replacement or leaves it as it is.             *)

\* The original instances that are gone are no more than the batches so far are due, the
\* crashes apart.
WithinBatch ==
    IsInProgress(state) =>
        Cardinality(Originals) - Cardinality(Originals \cap Instances)
            <= GetExpectedReplaced(state) + crashes

\* They were all withdrawn, so the budget covers them.
LEMMA RetiredWithinBatch ==
    ASSUME IInv, CapInv, IsInProgress(state)
    PROVE  /\ Cardinality(Originals) - Cardinality(Originals \cap Instances)
                 = CountReplacedInstances(Originals, Instances)
           /\ CountReplacedInstances(Originals, Instances) <= GetExpectedReplaced(state) + crashes
           /\ CountReplacedInstances(Originals, Instances) \in Nat
           /\ Cardinality(Originals) = state.OriginalSize
<1>1. /\ Originals \in SUBSET Instance /\ state \in RefreshState /\ Schedule(state)
      /\ desired \in Nat /\ crashes \in Nat /\ Down(stage) \in Nat
      /\ Withdrawn(Originals, stage) \in Nat
  BY ProgressState
<1>2. state.OriginalSize \in Nat /\ GetExpectedReplaced(state) \in Nat
  BY <1>1, ProgressNumbers
<1>3. /\ IsFiniteSet(Originals) /\ Cardinality(Originals) \in Nat
      /\ Cardinality(Originals \cap Instances) \in Nat
      /\ Cardinality(Originals \ Instances) \in Nat
  BY <1>1, InstancesFinite
<1>4. Cardinality(Originals \ Instances) = Cardinality(Originals) - Cardinality(Originals \cap Instances)
  BY <1>3, FS_Difference
<1>5. Cardinality(Originals \ Instances) <= Withdrawn(Originals, stage)
  <2>1. Originals \ Instances \subseteq Within(Originals, stage, WithdrawnStage)
    <3>1. \A i \in Originals : stage[i] \in Stage /\ stage[i] # "none"
      BY <1>1 DEF IInv, TypeOK, StateInv
    <3> QED
      BY <1>1, <3>1 DEF Instances, InStage, Within, WithdrawnStage, Stage
  <2>2. IsFiniteSet(Within(Originals, stage, WithdrawnStage))
    BY <1>3, FS_Subset DEF Within
  <2> QED
    BY <2>1, <2>2, FS_Subset DEF Withdrawn
<1>6. Withdrawn(Originals, stage) + Down(stage) + desired
        <= state.OriginalSize + GetExpectedReplaced(state) + crashes
  BY DEF CapInv, BudgetInv, Budget, Originals
<1>7. desired >= state.OriginalSize
  BY DEF CapInv, SizeInv
<1>8. Cardinality(Originals) = state.OriginalSize
  BY <1>1 DEF Schedule, Originals
<1>9. Withdrawn(Originals, stage) <= GetExpectedReplaced(state) + crashes
  BY <1>1, <1>2, <1>6, <1>7
<1> QED
  BY <1>1, <1>2, <1>3, <1>4, <1>5, <1>8, <1>9 DEF CountReplacedInstances

\* So it is in every state.
LEMMA AlwaysWithinBatch == IInv /\ CapInv => WithinBatch
<1> SUFFICES ASSUME IInv, CapInv, IsInProgress(state)
             PROVE  Cardinality(Originals) - Cardinality(Originals \cap Instances)
                      <= GetExpectedReplaced(state) + crashes
  BY DEF WithinBatch
<1> QED
  BY RetiredWithinBatch

\* What the cluster does to the original instances: they go, or a machine fails and all
\* stay.
LEMMA ClusterRetires ==
    ASSUME IInv, Cluster
    PROVE  \/ crashes' = crashes /\ Originals \cap Instances' \subseteq Originals \cap Instances
           \/ crashes' = crashes + 1 /\ Instances' = Instances
<1>1. stage \in [Instance -> Stage] /\ \A i \in Originals : stage[i] # "none"
  BY DEF IInv, TypeOK, StateInv
<1>2. PICK i \in Instance :
             \/ Launch(i) \/ Join(i) \/ AddDrives(i)
             \/ Deactivate(i) \/ RemoveFromWeka(i) \/ Terminate(i)
             \/ Crash(i) \/ Recover(i)
  BY DEF Cluster
<1> USE DEF Move, Instances, InStage
<1>3. CASE Crash(i)
  BY <1>1, <1>3 DEF Crash
<1>4. ASSUME NEW to, Move(i, to), stage[i] # "none" \/ i \notin Originals,
             stage[i] # "gone", crashes' = crashes
      PROVE  crashes' = crashes /\ Originals \cap Instances' \subseteq Originals \cap Instances
  BY <1>1, <1>4 DEF Stage
<1>5. CASE Launch(i)
  BY <1>1, <1>4, <1>5 DEF Launch
<1>6. CASE Join(i) \/ AddDrives(i) \/ RemoveFromWeka(i) \/ Terminate(i) \/ Recover(i)
  BY <1>4, <1>6 DEF Join, AddDrives, RemoveFromWeka, Terminate, Recover
<1>7. CASE Deactivate(i)
  <2>1. stage[i] \in {"down", "joined", "up"} /\ Move(i, "deactivating") /\ crashes' = crashes
    BY <1>7 DEF Deactivate
  <2> QED
    BY <1>4, <2>1
<1> QED
  BY <1>2, <1>3, <1>5, <1>6, <1>7

\* The refinement counts instances as this module does.
LEMMA RollingCardinality == \A S : Rolling!Cardinality(S) = Cardinality(S)
BY DEF Rolling!Cardinality, Cardinality

\* Its batches are due what the code expects to be replaced.
LEMMA RollingDue ==
    ASSUME TypeOK
    PROVE  Rolling!Due = GetExpectedReplaced(state)
<1>1. state.CurrentIteration * state.ScaleUpInterval \in Nat
  BY DEF TypeOK, RefreshState
<1>2. Cardinality(state.OriginalInstanceIds) \in Nat
  BY InstancesFinite DEF TypeOK, RefreshState
<1>3. \A p, q \in Nat : (IF p > q THEN q ELSE p) = Lesser(p, q)
  BY DEF Lesser
<1> QED
  BY <1>1, <1>2, <1>3, RollingCardinality DEF Rolling!Due, GetExpectedReplaced

\* The cluster retires instances within the batch, or loses a machine.
LEMMA ClusterRolls ==
    ASSUME IInv, Cluster, WithinBatch'
    PROVE  [Rolling!Next]_(Rolling!vars)
<1>1. UNCHANGED <<state, desired, run>>
  BY ClusterStep DEF IInv
<1>2. CASE crashes' = crashes + 1 /\ Instances' = Instances
  <2>1. Rolling!Lose
    BY <1>1, <1>2 DEF Rolling!Lose
  <2> QED
    BY <2>1 DEF Rolling!Next
<1>3. CASE crashes' = crashes /\ Originals \cap Instances' \subseteq Originals \cap Instances
  <2>1. CASE IsInProgress(state)
    <3>1. Cardinality(Originals) - Cardinality(Originals \cap Instances')
            <= GetExpectedReplaced(state) + crashes
      BY <1>1, <1>3, <2>1 DEF WithinBatch, Originals
    <3>2. Rolling!Due = GetExpectedReplaced(state)
      BY RollingDue DEF IInv
    <3>3. Rolling!Retire
      <4> DEFINE old == Originals \cap Instances   left == Originals \cap Instances'
      <4>1. left \in SUBSET old /\ crashes' = crashes
        BY <1>3
      <4>2. /\ IsInProgress(state) /\ IsInProgress(state')
            /\ state'.OriginalInstanceIds = Originals
            /\ Originals = state.OriginalInstanceIds
        BY <1>1, <2>1 DEF Originals
      <4>3. Rolling!Retired(left) <= Rolling!Due + crashes
        BY <3>1, <3>2, RollingCardinality DEF Rolling!Retired, Originals
      <4> QED
        BY <1>1, <4>1, <4>2, <4>3 DEF Rolling!Retire
    <3> QED
      BY <3>3 DEF Rolling!Next
  <2>2. CASE ~IsInProgress(state)
    BY <1>1, <1>3, <2>2 DEF Rolling!vars
  <2> QED
    BY <2>1, <2>2
<1> QED
  BY <1>2, <1>3, ClusterRetires

\* A start begins a rolling replacement of every instance there is.
LEMMA StartRolls ==
    ASSUME IInv, NEW k \in Intervals, Start(k)
    PROVE  Rolling!Begin
<1> DEFINE s == InitializeState(desired, k, Instances)
<1>1. state' = s /\ UNCHANGED <<stage, crashes>> /\ ~IsInProgress(state)
  BY DEF Start, CanTrigger
<1>2. /\ s.Phase = "provisioning" /\ s.ScaleUpInterval = k /\ s.CurrentIteration = 1
      /\ s.OriginalInstanceIds = Instances
  BY DEF InitializeState
<1> HIDE DEF s
<1>3. IsInProgress(s)
  BY <1>2 DEF IsInProgress, ActivePhase
<1>4. Instances' = Instances /\ Instances \in SUBSET Instance
  BY <1>1 DEF Instances, InStage
<1>5. (IF IsInProgress(state) THEN "running" ELSE IF state.Phase = "idle" THEN "none" ELSE state.Phase)
        # "running"
  BY <1>1 DEF IInv, TypeOK, RefreshState, Phase, TerminalPhase, IsInProgress, ActivePhase
<1> QED
  BY <1>1, <1>2, <1>3, <1>4, <1>5 DEF Rolling!Begin

\* A cancellation abandons the rolling replacement.
LEMMA CancelRolls ==
    ASSUME IInv, Cancel
    PROVE  Rolling!Abandon
<1>1. state' = MarkCancelled(state) /\ IsInProgress(state) /\ UNCHANGED <<stage, crashes>>
  BY DEF Cancel
<1>2. state \in RefreshState
  BY DEF IInv, TypeOK
<1>3. /\ state'.Phase = "cancelled" /\ state'.ScaleUpInterval = state.ScaleUpInterval
      /\ state'.CurrentIteration = state.CurrentIteration
      /\ state'.OriginalInstanceIds = state.OriginalInstanceIds
  BY <1>1, <1>2, TransitionFields DEF MarkCancelled
<1>4. ~IsInProgress(state')
  BY <1>3 DEF IsInProgress, ActivePhase
<1> QED
  BY <1>1, <1>3, <1>4 DEF Rolling!Abandon

\* Storing the outcome of a run closes a batch that is full, ends a refresh that has
\* replaced everything, or changes nothing the rolling replacement sees.
LEMMA WriteStateRolls ==
    ASSUME IInv, CapInv, WriteState, IInv'
    PROVE  [Rolling!Next]_(Rolling!vars)
<1>1. /\ run.pc = "writeState" /\ state' = run.next /\ UNCHANGED <<stage, crashes>>
  BY DEF WriteState
<1>2. /\ IsInProgress(state) /\ state \in RefreshState /\ Schedule(state)
      /\ state' \in RefreshState /\ Schedule(state')
      /\ state'.OriginalInstanceIds = state.OriginalInstanceIds
      /\ state'.CurrentIteration # state.CurrentIteration =>
            /\ state' = StartNextIteration(state)
            /\ CountReplacedInstances(Originals, Instances) >= GetExpectedReplaced(state)
      /\ state'.ScaleUpInterval = state.ScaleUpInterval
      /\ state'.Phase \in ActivePhase \cup {"completed"}
      /\ state'.Phase = "completed" => Gone(Originals)
  BY <1>1, ProgressState DEF IInv, PendingInv, TypeOK, Originals, CapInv, RunInv, FollowsOn
<1>3. Instances' = Instances
  BY <1>1 DEF Instances, InStage
<1>4. CASE state'.Phase = "completed"
  <2>1. Originals \cap Instances = {}
    BY <1>2, <1>4 DEF Gone, Instances, InStage
  <2>2. ~IsInProgress(state')
    BY <1>4 DEF IsInProgress, ActivePhase
  <2>3. state'.CurrentIteration = state.CurrentIteration
    BY <1>2, <1>4, NextIterationFields
  <2>4. Rolling!Finish
    BY <1>1, <1>2, <1>3, <1>4, <2>1, <2>2, <2>3 DEF Rolling!Finish, Originals
  <2> QED
    BY <2>4 DEF Rolling!Next
<1>5. CASE state'.Phase \in ActivePhase /\ state'.CurrentIteration = state.CurrentIteration
  <2>1. IsInProgress(state')
    BY <1>5 DEF IsInProgress
  <2> QED
    BY <1>1, <1>2, <1>3, <1>5, <2>1 DEF Rolling!vars
<1>6. CASE state'.Phase \in ActivePhase /\ state'.CurrentIteration # state.CurrentIteration
  <2>1. IsInProgress(state')
    BY <1>6 DEF IsInProgress
  <2>2. /\ state'.CurrentIteration = state.CurrentIteration + 1
        /\ state'.OriginalSize = state.OriginalSize
    BY <1>2, <1>6, NextIterationFields
  <2>3. GetExpectedReplaced(state) < state.OriginalSize
    BY <1>2, <2>2, BatchNumbers
  <2>4. /\ CountReplacedInstances(Originals, Instances) >= GetExpectedReplaced(state)
        /\ CountReplacedInstances(Originals, Instances) <= GetExpectedReplaced(state) + crashes
        /\ Cardinality(Originals) - Cardinality(Originals \cap Instances)
              = CountReplacedInstances(Originals, Instances)
        /\ Cardinality(Originals) = state.OriginalSize
        /\ CountReplacedInstances(Originals, Instances) \in Nat
    BY <1>2, <1>6, RetiredWithinBatch
  <2>5. Rolling!Retired(Originals \cap Instances) >= Rolling!Due
    BY <2>4, RollingDue, RollingCardinality DEF Rolling!Retired, Originals, IInv
  <2>6. crashes = 0 => Originals \cap Instances # {}
    <3>1. /\ state.OriginalSize \in Nat /\ GetExpectedReplaced(state) \in Nat
      BY <1>2, ProgressNumbers
    <3>2. SUFFICES ASSUME crashes = 0, Originals \cap Instances = {}
                   PROVE  FALSE
      OBVIOUS
    <3>3. Cardinality(Originals \cap Instances) = 0
      BY <3>2, FS_EmptySet
    <3>4. CountReplacedInstances(Originals, Instances) = state.OriginalSize
      BY <2>4, <3>1, <3>3
    <3>5. CountReplacedInstances(Originals, Instances) <= GetExpectedReplaced(state)
      BY <2>4, <3>1, <3>2
    <3> QED
      BY <2>3, <3>1, <3>4, <3>5
  <2>7. Rolling!NextBatch
    BY <1>1, <1>2, <1>3, <2>1, <2>2, <2>5, <2>6 DEF Rolling!NextBatch, Originals
  <2> QED
    BY <2>7 DEF Rolling!Next
<1> QED
  BY <1>2, <1>4, <1>5, <1>6

\* Every step of the refresh is a step of the rolling replacement, or none.
LEMMA StepRolls ==
    ASSUME IInv, CapInv, [Next]_vars, IInv', WithinBatch'
    PROVE  [Rolling!Next]_(Rolling!vars)
<1>1. ASSUME UNCHANGED <<state, stage, crashes>>
      PROVE  UNCHANGED Rolling!vars
  <2>1. Instances' = Instances
    BY <1>1 DEF Instances, InStage
  <2> QED
    BY <1>1, <2>1 DEF Rolling!vars
<1>2. CASE UNCHANGED vars
  BY <1>1, <1>2 DEF vars
<1>3. CASE Cluster
  BY <1>3, ClusterRolls
<1>4. CASE Function
  <2>1. ASSUME NEW k \in Intervals, Start(k) PROVE Rolling!Next
    BY <2>1, StartRolls DEF Rolling!Next
  <2>2. CASE Cancel
    BY <2>2, CancelRolls DEF Rolling!Next
  <2>3. CASE WriteState
    BY <2>3, WriteStateRolls
  <2>4. CASE ListInstances \/ WriteSize \/ FailRun
            \/ \E io, ok \in BOOLEAN, gw \in 0..Gateways : Advance(io, ok, gw)
    <3>1. UNCHANGED <<state, stage, crashes>>
      BY <2>4 DEF ListInstances, WriteSize, FailRun, Advance
    <3> QED
      BY <1>1, <3>1
  <2> QED
    BY <1>4, <2>1, <2>2, <2>3, <2>4 DEF Function
<1> QED
  BY <1>2, <1>3, <1>4 DEF Next

\* Nothing is being replaced before the first refresh.
LEMMA InitRolls == Init => Rolling!Init
<1> SUFFICES ASSUME Init PROVE Rolling!Init
  OBVIOUS
<1>1. state = NoState /\ crashes = 0
  BY DEF Init
<1>2. ~IsInProgress(state) /\ state.Phase = "idle"
  BY <1>1 DEF IsInProgress, ActivePhase, NoState
<1> QED
  BY <1>1, <1>2 DEF Rolling!Init, NoState

\* The refresh implements the rolling replacement: batches are closed when full and never
\* overrun by more than the machines that failed, and completion means that every original
\* instance is gone (AdvanceStateMachine, over a cluster that goes on changing).
THEOREM RefreshRolls == Spec => RollingSpec
<1>1. IInv /\ CapInv => WithinBatch
  BY AlwaysWithinBatch
<1>2. (IInv /\ CapInv) /\ (IInv /\ CapInv)' /\ WithinBatch' /\ [Next]_vars
        => [Rolling!Next]_(Rolling!vars)
  BY StepRolls
<1> QED
  BY <1>1, <1>2, InitRolls, SizesInStep, PTL DEF Spec, RollingSpec, Rolling!Spec

=============================================================================
