# Verification of go-cloud-lib

`go-cloud-lib` is the library the cloud deployments of Weka share. Its code that makes
decisions is small and runs inside cloud functions that may be killed at any moment, against a
cluster that changes meanwhile: replacing the instances of a cluster batch by batch, scaling it
down, and talking JSON-RPC to whichever backend answers. The rest writes shell scripts, which
run side by side on the machines of a deployment until a cluster has come up.
This directory holds TLA+ specifications of both, TLC configurations that check them
on small instances, and proofs checked by TLAPS.

Paths below are relative to the repository; `src/` is its root.

## 1. Inventory

| component | source | state it keeps | operations | hard because |
|---|---|---|---|---|
| instance refresh | `instance_refresh/instance_refresh.go`, `protocol/instance_refresh.go` | the persisted `InstanceRefreshState` and, next to it, the `DesiredSize` of the scale set | `InitializeState`, `AdvanceStateMachine`, `MarkCancelled`, `CanTrigger`, `GetExpectedDesiredSize` | state and size are stored one after the other, either may be lost; the list of instances is older than the status it is compared with |
| scale down | `scale_down/scale_down.go` | none of its own: what earlier rounds left in Weka | `ScaleDown` (one round: lists, deactivations, removals, response) | lists age while the round works; a machine is deactivated by several calls; a round may die between any two; `validateDelta` is the last guard |
| JSON-RPC pool | `lib/jrpc/pool.go` | `Ips`, `Active`, `Clients` | `Call`, `Drop` | failing over repeats a call that may have been executed; an empty pool answers with success |
| JSON-RPC client over HTTP | `lib/jrpc/jrpc.go`, `auth.go` | the one-place channel of replies, the copy buffer, the token | `Call`, `Notify`, `Close`, `tokenSource.Token` | a reply goes from the call that received it through a buffer all calls share and a pipe to `Run`, and back to the call through a channel, while either may give up |
| JSON-RPC connection | `lib/jsonrpc2/` | `pending`, `handling`, the state of each request | `Call`, `Notify`, `Cancel`, `Run`, `Request.Parallel`, `Request.Reply` | goroutine per request, started in a chain; replies written concurrently |
| deploy scripts | `deploy/` | the containers of a machine, the cores and interfaces they hold | the scripts of a backend, a protocol gateway, a data service | machines start together; `set -e` in some scripts and not in others; waits of every kind |
| clusterize script | `clusterize/` | the Weka cluster: members, IO, filesystems, the NFS group | the script of the machine that completes the target; the NFS configuration | some twenty steps, each of which may fail in its own way, and others waiting for the end of them |
| join scripts | `join/` | as deploy | joining backends, joining NFS gateways | join a cluster that may not serve yet |
| shell functions | `bash_functions/`, `functions_def/` | the next free core | `get_core_ids`, `getNetStrForDpdk`, the partition script, `weka_rest` | indices into lists, in shell |
| status and protocol records | `protocol/status.go`, `protocol/protocol.go`, `common/`, `report/` | `ClusterState` (kept by the caller) | `UpdateReport`, `AddClusterUpdate` | errors are filed under the host name the report gives |
| Weka API types | `lib/weka/`, `lib/types/` | none | parsing | |
| utilities, events, logging, examples | `lib/math`, `lib/strings`, `utils/`, `weka_events/`, `logging/`, `examples/`, `main.go` | none | | |

How they interact: a cloud function outside the repository calls the refresh state machine and
stores what it returns; the scale set follows `DesiredSize`; another cloud function calls
`ScaleDown` with the instances it listed and passes the response to a function that terminates
instances. `ScaleDown` makes every request through a `Pool`, which builds one `BaseClient` per
address; a `BaseClient` is a `jsonrpc2.Conn` over an `httpStream` over an `oauth2` transport whose
token source itself calls through a second, unauthenticated `Conn`. In a deployment every machine
runs a script of its own. The scripts meet in the Weka cluster itself and in `ClusterState`, behind
four cloud functions outside the repository: `clusterize` counts machines and answers each with the
script it is to run next, `clusterize_finalization` announces the cluster, `status` is what the others
wait for, `report` files progress and errors.

What makes each correct:

* **Refresh** – a refresh reported completed has replaced every original instance; batches are
  closed only when done and cover the cluster; capacity never drops below the original size; the
  size ends up where it was; a refresh ends.
* **Scale down** – no machine in use is given up; only surplus or broken machines are
  deactivated, and without a surplus no further one is started on beside two; whatever was deactivated is cleaned up in the
  end, wherever rounds were cut short; the surplus drains.
* **Pool** – no address is lost or used after being dropped; failing over ends; a call nobody
  executed succeeds only when the pool is empty.
* **Client and connection** – each call gets its own answer; no call that gives up can block the
  others; a timeout ends a call; requests are handled in order, answered exactly once, and what
  is written does not get mixed up.
* **Bring-up** – exactly one machine creates the cluster, from as many ready machines as were asked
  for; IO waits for the drives; what is announced is complete; gateways serve what is there; the
  containers of a host share nothing; every script ends.

## 2. Modules

| module | models | proved about |
|---|---|---|
| `InstanceRefresh` | the refresh state machine, the cloud function that drives it (with its two separate writes), the scale set, joining machines, deactivation | yes |
| `RollingReplacement` | abstract: what a refresh promises | |
| `MCInstanceRefresh` | instances for TLC | |
| `InstanceRefreshProofs` | lemmas and theorems, the refinement included | |
| `DeactivateTarget` | `CalculateDeactivateTarget`, `Max`, `Min`; used by both `InstanceRefresh` and `ScaleDown` | yes |
| `DeactivateTargetProofs` | theorems on it | |
| `ScaleDown`, `MCScaleDown` | a whole round of `ScaleDown`, and Weka and the cloud around it | yes |
| `ScaleDownProofs` | lemmas and theorems | |
| `JrpcPool`, `MCJrpcPool` | `Pool.Call`, `Pool.Drop` | yes |
| `JrpcPoolProofs` | lemmas and theorems | |
| `JrpcConn`, `MCJrpcConn` | a client: `Conn.Call`, `httpStream`, token source, the response half of `Conn.Run` | yes |
| `JrpcConnProofs` | lemmas and theorems | |
| `JrpcServe`, `MCJrpcServe` | the serving half of a `Conn`: the request half of `Run`, `Request`, `Cancel`, `Notify`, `headerStream` | yes |
| `JrpcServeProofs` | lemmas and theorems | |
| `HostLayout` | which cores and interfaces the containers of a backend are given | yes |
| `HostLayoutProofs` | lemmas and the theorem | |
| `Bringup` | the scripts of backends: deploy, create, join | with `Gateways` |
| `Gateways`, `MCBringup` | the scripts of gateways and data services, and the NFS group; extends `Bringup`, and holds the specification of both | yes |
| `BringupProofs` | lemmas and theorems | |

Definitions whose name ends in `_Something` and whose comment begins with "Mutant" are broken
versions of the definition that follows them; `PROJECT.json` pairs each property with one that
must break it.

### InstanceRefresh

`state` is the persisted `InstanceRefreshState` without its timestamps, `desired` the persisted
`DesiredSize`. A nil `*int` is `0` (`Nil`): sizes are positive. The operators from `TransitionTo` to
`AdvanceStateMachine` map the state before to the state after, with the size to store, one per
branch of the Go function. `run` is a run of the cloud function: `ListInstances` (load and list),
`Advance` (ask Weka, call `AdvanceStateMachine`), `WriteState`, `WriteSize`; `FailRun` ends it before
either write. This function and its order (state before size, under a lock so that runs do
not overlap) are not in the repository; they are taken from the comments at
`instance_refresh.go:291` and `:313`, and are marked external. `stage` gives the life of
every instance: launched, joined, with drives (`up`), deactivating, out of Weka, terminated, or
crashed. `Deactivate` is `ScaleHgDown` reduced to what a refresh sees of it: surplus machines,
oldest first, by `CalculateDeactivateTarget`.

`RollingReplacement` says the same with sets: originals retire in batches of at most `interval`,
a batch is closed when it has retired all it is due, and machines that fail by themselves (`lost`) put
a refresh ahead of its batches by no more than their number. `RollingSpec` maps `old` to the originals
still in the scale set and `lost` to `crashes`.

### ScaleDown

A round is the record `round`; `round.pc` is where it is, `round.view` what it read. The outcomes of its
calls are chosen freely. Those for one machine are taken in one step: `RemoveInactive(m, exec, ok, gone)` and
`DeactivateMachine(m, off, port, host)` say which of the calls for machine `m` reached Weka and which
the round saw succeed, so that a lost answer is different from a failed call and every part of them
may have been done. Hosts and drives are read in two steps; the second, `ListDrives`, stands for two
calls (`scale_down.go:599` to `:609`) and gives answers that fit together. A drive is `failed` once it is INACTIVE
beyond the five minutes `numNotHealthyDrives` grants a new one (`:89`). `round.live` turns FALSE
when the pool runs out of addresses; from then on calls succeed with an empty answer, as
`Pool.Call` does. `AbortRound` is an error return, `logger.Fatal` or a kill, at any step.
`ValidationSkipped` is the branch of `validateDelta` that returns when the host list fails.

What Weka and the cloud do (boot, join, empty a drive, finish a deactivation, forget a container,
lose an instance) is external. Times are small numbers: `downFor` counts how long a management
node has been DOWN, compared with three timeouts. A machine has the same address in Weka and in
the cloud. A machine number stands for one instance after another, each launched when nothing of the one
before is left in Weka; but ids are used once, so `Boot` does not launch an instance, and `Join` does
not add a container, that the round in progress has met under the same number.

Left out: containers in mode `client`, the status DEGRADED (treated as DOWN), events, and
which of two equal keys `sort.Slice` puts first (keys are unique here, by `AddedTime`).

### JrpcPool, JrpcConn, JrpcServe

`JrpcPool` keeps `Ips` in order, since `Drop` overwrites the dropped entry with the last one. One call
at a time, as every user of a pool in the repository has it. An attempt may be executed and
still answer with an error.

`JrpcConn` follows a call through the places named at its head; `reader` is the goroutine of
`Conn.Run`, `replies` the channel of capacity one between `httpStream.Write` and `Read`. A pipe is
known by the call that writes it, the bytes of a response by the call it answers. `buf` is the array of
`httpStream` through which `io.CopyBuffer` copies every response: `ReadBody` fills it, over bytes another call
may not have handed over yet, and `Piped` hands over what it then holds, up to `MaxChunks` times. From what
came through, `Run` decodes a response (`Lookup`) or none (`Undecodable`); only when all of it came from one
response are its id and its answer known to belong together (`Decoded`). `overwritten` is a history
variable: the calls whose bytes were lost in this way. `CopiesApart` says there are none so far. The token source is a lock plus a valid-or-not token; whether the call under it is a login
or a refresh is not told apart.

`JrpcServe` numbers requests as they arrive; `place` is where the goroutine of each is; `closes` counts
closes of its `nextRequest` channel (two would panic). `writing`, `outMu`, `open` are the two halves
of `headerStream.Write` under its lock; `failed` are the writers whose write failed, after which the stream
goes on being used, as the TODO at `jsonrpc2.go:282` has it.

### HostLayout, Bringup, Gateways

`HostLayout` has no variables: `Layout(joins, isBM)` gives for each container the cores that
`get_core_ids` picks and the interfaces, as indices of `all_interfaces`, that `getNetStrForDpdk` names.
`CoreIdxBegin` is the shell variable `core_idx_begin` at the call for a container; `NoCore` is the empty
string found past the end of a list.

In `Bringup`, `at` is the step the script of each backend is at. The steps of the create script
(`CreateStep`) follow one another by `After`; a step stands for the commands between two that others
can see, and `EndsSilently`, `EndsReported` and `GoesOnReported` say what follows when one of them
fails: under `set -e` the script ends without a word; `|| (report ... && exit 1)` ends it with a report;
a bare `report`, or an `exit` in a subshell whose status is not looked at, lets it go on. A step with
several commands may be in more than one of the three. `Hopeless` steps fail because of an earlier one.
`active` are the containers of a machine that run, `layout` what they were given, `drive` what has become of
its drives (`unlisted`: the list of containers did not name it, and `add_drives` never ran for it; `missed`:
the lookup in `add_drives` ended it before it could report), `cluster` the Weka
cluster, `state` the part of `ClusterState` the scripts depend on. Machines that are only launched into a
cluster (`Joiner`) start `off`.

`Gateways` adds `gat`, the step of each gateway or data service, `creds` (who got the credentials of the
deployment user), `frontend` (whose container runs in the cluster) and `nfs`, the interface group.
The deploy scripts of gateways do not run under `set -e`: what is not checked for is passed over, so
e.g. a gateway without credentials goes on to `uid` and fails there.

External: the four cloud functions, modelled by the answers the scripts expect (for `clusterize`, the
greeting, the create script or the join script, by the number of machines counted); the scripts a
deployment brings along, which succeed or fail; Weka itself. `Init` leaves no container running, and a
machine's name in reports is the machine.

Abstractions: installing Weka and setting up containers is one step, backends are modelled with DPDK;
a `report` reaches its function; the script base given to `join` is taken to set `-e`, as the others do;
the two waits of a gateway for the cluster and for `.config_fs` are no steps, since the script goes on
whatever they saw (see findings).

## 3. Runs

All with two workers, each well below five minutes.

| run | instance | shows |
|---|---|---|
| `refresh` | 3 backends, intervals 1, 2 and 4, 7 instances ever, a crash, a failed run | implements `RollingReplacement`; `CompletedMeansReplaced`, `BatchClosedWhenDue` whatever fails; `CapacityKept`, `SizeRestored`, `RefreshEnds` as long as no machine fails by itself |
| `refresh_size` | 2 backends, a crash and a failed run | violation: see findings |
| `scale_surplus` | 3 backends with a drive each, targets 2 and 3, any loss of calls and rounds, one fault (a container down, a drive, an instance lost, the NFS listing) | `ServingSpared`, `StartsBounded` |
| `scale_faults` | 2 backends of 2 containers, one fault (a container down, an instance lost, the pool run out), validation that may be skipped | `ResponseSparesUsed` for backends |
| `scale_live` | 3 backends, target 2, an instance lost | `EventuallyCleared`, `SurplusDrains` |
| `scale_live_nfs` | 1 backend, 1 gateway, target 0 or 1, an instance lost, NFS listing that may fail | the same for gateways, and `ResponseSparesUsed` for them |
| `pool` | 3 addresses, 3 calls | `OnlyDroppedMissing`, `SentOncePerBackend`, `SilentOnlyWhenEmpty`, `CallEnds` |
| `conn` | 2 calls, one retry in all, timeouts, Close, parent cancelled | `OwnAnswer`, `SendNeverBlocks`, `PipeHasWriter`, `RunKeepsReading`, `TimeoutEndsCall` |
| `conn_shared` | 2 calls | violation: see findings |
| `conn_login` | 1 call, a login never answered | violation: see findings |
| `serve` | 2 requests, 2 ids, 1 notification | `StartInOrder`, `AnsweredOnce`, `CancelFindsCall`, `FramesWhole`, `EveryRequestStarts` |
| `bringup` | target 2, two NUMA nodes, one fault, and one of three deployments: 3 backends and a joiner, tiering without a default filesystem; 2 backends, 2 NFS gateways and a late one; 2 backends, a gateway of another protocol and a data service, with both options | `MembersReady`, `DrivesBeforeIo`, `ClusterizedComplete`, `NothingShared`, `GatewayAfterConfigFs`, `NfsConfiguredComplete`, `BringupEnds` |

The passing runs also check a type invariant, except where it is proved and would only repeat it
(`pool`, `conn`), or checked by another run of the module.

`CHECK_DEADLOCK FALSE` is set where the system may stop: refreshes are bounded (`MaxStarts`), a
client makes each of its calls once, a pool `MaxCalls`, the other side sends `MaxRequests`, and scripts
end.

**Why the bounds are enough.** Refresh: three instances with intervals 1, 2, 4 give exact
batches, a smaller last batch and an interval above the size; one refresh of three launches three
more and replaces a crashed one, which seven covers; the proofs take over for other sizes. Scale down: rounds are unbounded, so any number of interrupted rounds is covered;
what is bounded is machines (the decisions depend on counts against a target and on "two", so
three machines tell apart two, more than two, and surplus) and faults that happen by themselves.
Three backends of which one has a fault and a target of two show a surplus, a broken machine and a round
that would start on a third; machines of two containers, deactivated in part, occur in `scale_faults` only, and
the proofs of `ServingSpared` and `StartsBounded` take over for them. `MaxDown` is one above the timeouts, so "timed
out" and "not yet" both occur. Pool: with three addresses the dropped one can be first, middle or last.
Connection: interference is between two calls, one that gave up and one that did not; a response
fills the buffer once (`MaxChunks`), as most do, and in the proofs any number of times.
Serving: the chain of `nextRequest` links neighbours only; two requests with the same or with
different ids, one writer besides them, show every pair. Bring-up: with a target of two there is a machine that
is counted and waits, one that creates the cluster, and one beyond the target; a fault at every
command and at every order of the scripts shows what one failure does to the others, which is
what the scripts are written for; the safety properties are proved for any number of failures and
machines. One gateway of each kind, two where they count each other. The kinds of machine are
spread over three deployments because they act on each other only through the cluster and `state`.

**Fairness.**

* Refresh: the cloud function is scheduled for ever and its failures are bounded; Weka is healthy
  at infinitely many of its runs (strong fairness of `Advance` with a healthy status, since a run
  may always see an unhealthy one); the cluster makes progress. The comment at `instance_refresh.go:313`
  presumes a next run.
* Scale down: infinitely many rounds are undisturbed, i.e. none of their calls fails
  (`[]<><<UndisturbedEnd>>`), which is what a periodically scheduled function on a network that
  works again and again gives; Weka finishes what it is told. Nothing is assumed of the rounds in between.
* Pool: `WF(Call)`, a loop of one goroutine; each attempt is taken to end by its timeout. That holds of a
  `BaseClient` as far as `TimeoutEndsCall` does: `conn_login` and `conn_shared` show when it does not, and then
  failing over does not end either.
* Connection: goroutines run, timers fire; what depends on the server ends when its context does.
  Nothing is assumed of a server that does not answer, except the login in `conn`
  (`LoginAnswered`), which `conn_login` takes away.
* Bring-up: each script runs on by itself; containers that were set up come up and find their cluster,
  and adding drives comes to an end, as the unbounded waits in the scripts presume. Nothing is assumed of
  faults. `BringupEnds` excepts a deployment that is `Broken`: the creator has failed, or too few
  machines are left to complete the target; then the scripts that wait for the announcement wait for good.
* Serving: goroutines run, and a handler that is serial goes parallel, replies or returns, as the
  contract of `Handler` requires. Handlers that have become parallel and writes may never end.

## 4. What is proved

`InstanceRefreshProofs` (for every initial size, interval, number of instances, crashes and failed
runs):

* `TypeCorrect` – `Spec => []TypeOK`.
* `CompletionIsReal` – `Spec => []CompletedMeansReplaced`.
* `BatchesCloseWhenDue` – `Spec => BatchClosedWhenDue`.
* `ScaleUpMatchesDue` – what an iteration scales up by (`GetScaledUpSize`) is exactly what it adds
  to the number due (`GetExpectedReplaced`), for every size and interval, the short last batch included.

Neither invariant is inductive. A run decides on a list it took earlier, so the invariant has to say
that an instance missing from that list cannot come back (`ListInv`); a run stores a state computed
from the one it loaded, so it has to say the pending state is a legal successor (`PendingInv`); and
completion happens at the last iteration, so the schedule must be known to cover the cluster
(`StateInv`, with `IterationsCoverCluster`: `total * interval >= size`). Their conjunction with `TypeOK` is
`IInv`, proved by one lemma per action; `Invariance` is `Spec => []IInv`. The model assumes what the
caller guarantees: runs do not overlap, and `DesiredSize` instances are listed at the trigger, so
that the number of original ids is the original size.

Sizes need a second invariant:

* `SizesInStep` – `Spec => [](IInv /\ CapInv)`.
* `CompletedRefreshRestoresSize` – `Spec => []SizeRestored`.
* `CapacityIsKept` – the action property `CapacityKept`.
* `RefreshRolls` – `Spec => RollingSpec`: the refresh implements `RollingReplacement`.

`SizeRestored` and `CapacityKept` are about a state, a size and instances that change one after the
other. `CapInv` is the balance between them. `BudgetInv`: what has been withdrawn or has failed, with what lives, or is
wanted, or will be asked for by the stored state, is at most the original size and what the batches so far
are due, plus the crashes. `GrowthInv` and `LossInv` say that there is no surplus while scaling up, and that what is
missing beyond the surplus has failed. `SizeInv` and `RunInv` tie the size still to be written to the state it
belongs to, and the list of a run to the cluster it has aged against. `CalmInv` is what holds before any
machine fails: the size is one of the two of the iteration, and whatever is wanted serves once the phase has
moved on. `SizeRestored` and `CapacityKept` excuse a refresh in which a machine has failed by itself, as
`refresh_size` shows they have to. The budget, with its crashes, excuses nothing, and so the refinement, in
which `lost` stands for them, needs no such condition: the initial states map to initial states and every
step to a step of `RollingReplacement` or a stutter, by `AlwaysWithinBatch`, which says that the originals gone are
no more than the batches are due and the crashes together.

`ScaleDownProofs` (any machines, containers, drives, sizes and timeouts; calls that fail or get lost,
pools that run out, rounds ended at any point, any number of faults):

* `TypeCorrect` – `[]TypeOK`.
* `ResponseSafe` – `[]ResponseSparesUsed`.
* `CalmRoundsSpare` – the action property `ServingSpared`.
* `StartsWithinBound` – the action property `StartsBounded`.

What all of them have to say is what a view taken earlier in a round still tells of the present. `Moves` lists
how a container may change in a step, `ContainerMoves` proves it of every action: it goes from one state to
the next and never back, and it joins only under an id the round has not seen. So a view tells the
present in one direction: what was not in use is not in use, if its instance is past its grace
period (`SeenInv`). `ResponseSafe` needs besides that everything a round gives up was seen to be out of
use: whatever is missing from the response was inactive when read, or never listed, and the instance
was old (`QuitInv`, `KnownInv`); for gateways, which are left out of a response on purpose, only the last
check counts (`CleanInv`). With the types these make `SafeInv`.

`ServingSpared` speaks of steps before anything has broken. `IInv` adds to `SafeInv`, under `faults = 0`, that no
container is down and no drive has failed (`CalmCluster`), that what was read on its way out is not back,
and that until the plan is made nobody has started anything (`CalmView`: with `round.live`, rounds are the
only ones that do). Then a machine that counts as healthy in the plan is sound at that moment, though hosts
and drives were read one after the other (`PlannedSound`); if one is chosen, the target number are not
(`HealthyLeft`, from `OnlySurplusHealthy` and the order of the list, `WorstFirst`); and they are left alone until the
round has worked off its choice (`SpareInv`).

`StartsBounded` is about the start on a backend of the list that is whole: that it makes no more than two that
are taken out, or than the surplus if that is larger, whatever breaks. It counts the machines that are taken
out as a whole; the code takes one that was deactivated in part for unhealthy, so those may be more (see
findings). Leftover machines are taken out besides, and are none of the list. `StartInv` adds to `SafeInv`: until the plan is made, the
round's lists show everything that is being taken out, since they are younger than the last deactivation and
rounds do not overlap (`ReadInv`); what was read on its way out does not come back (`OnwardInv`); only the first
stage chooses backends of the list (`StageInv`). Then the plan knows every machine that counts (`TakenOutSeen`). If it
goes beyond those under way, these come first in its list (`DeactivatingFirst`), and `calculateDeactivateTarget`
gives no more than the bound (`ChoiceBounded`, from `AddedWithinBound`): what is taken out and what is chosen are
within it together until the round has worked off its choice (`BoundInv`). And a whole backend is started on by such a
round only (`WholeStarted`).

`JrpcConnProofs` (any number of calls and retries; timeouts, `Close` and cancellation at any point):

* `TypeCorrect`; `HandOverNeverBlocks` – `[]SendNeverBlocks`; `PipesHaveWriters` – `[]PipeHasWriter`;
  `AnswersAreOwn` – `[]OwnAnswer`. All but the first and third speak of the time before two copies meet in the
  buffer (`CopiesApart`); `conn_shared` shows what becomes of them after.

The channel of a call has room for one response, so what has to be shown is that there is never a
second one. `ApartInv` follows the response: while the copies stay apart the buffer belongs to the call that is
to hand it over, and the response is in the channel of replies, or in the hands of `Run`, or in the channel of
its call, and never in two of them. `PipeInv` says that a pipe keeps its writer until it is closed, `ReaderInv`
that `Run` has one at a time, `ExecutedInv` that a response exists only for an executed request. `Invariance` is
`Spec => []IInv`.

`JrpcServeProofs` (any number of requests, ids and notifications; handlers that do anything; writes
that fail at any point):

* `TypeCorrect` (no channel is closed twice), `OneSerialRequest` – `[]StartInOrder`, `CallsAnsweredOnce` –
  `[]AnsweredOnce`, `CancelReachesCall` – `[]CancelFindsCall`, and the action property
  `FramesStayWhole` – `FramesWhole`.

`ProgressInv` ties the state of a request to the place of its goroutine and to its channel:
without it nothing stops a second close. `AnswerInv` accounts for an answer from the moment
`Reply` marks the request to the end of the body. `FrameInv` says that a header without a body
belongs to the holder of the lock, or was left behind by a write that failed.
`AnswersTravelOnce` is `Spec => []IInv`. The one assumption beyond the types is that notifications are
not requests (`ServeAssumption`).

`JrpcPoolProofs` (any number of addresses and calls):

* `TypeCorrect`; `NothingLostOrKept` – `[]OnlyDroppedMissing`; `NeverSentTwice` – `[]SentOncePerBackend`;
  `SilenceMeansEmpty` – `[]SilentOnlyWhenEmpty`.

`Drop` overwrites the entry it drops with the last one and cuts the slice, which removes exactly
that address only if `Ips` has no duplicates (`SwapRemoval`); that a call is sent to nobody twice needs
that whoever it has been sent to is dropped by now or is the one being asked. `PoolInv` says both.

`HostLayoutProofs` (any NUMA layout, any number of cores):

* `LayoutUnshared` – the containers of a host share no core and, except on bare metal, no interface, and
  leave core 0 and interface 0 alone. `CoreAtInjective` is the heart of it: the alternation between two
  nodes by `i % 2` and `i \div 2` never gives an index the core of another.

`BringupProofs` (any number of machines, target, deployments and faults):

* `TypeCorrect`; `MembersAreReady` – the action property `MembersReady`; `IoHasDrives` – `[]DrivesBeforeIo`;
  `AnnouncedComplete` – `[]ClusterizedComplete`; `GatewaysFindConfigFs` – `[]GatewayAfterConfigFs`; `NfsComplete` – `[]NfsConfiguredComplete`; `HostsShareNothing` – `[]NothingShared`.

What is promised at the announcement is done by steps long before it, so the invariant has to say
what each step of the one create script can rely on (`ScriptInv`), that there is only one such script and
nothing of a cluster before it (`CreatorInv`), and why: a machine is counted once, by its own call, and
the number counted passes the target once (`CountInv`, with the lemmas `Counting` and `CountingLost` on
cardinalities). `DriveInv` follows the drives from the list of containers past the wait, with a failure for each that has none
and no error; `GatewayInv` the
gateways, which rely on the announcement alone. `Invariance` is `Spec => []Inv`.

Every invariant and action property the runs check is proved, and so is the refinement. Only
model-checked: all liveness (`RefreshEnds`, `EventuallyCleared`, `SurplusDrains`, `CallEnds`, `RunKeepsReading`,
`TimeoutEndsCall`, `EveryRequestStarts`, `BringupEnds`): fairness and ENABLED, like induction over data, are
out of the prover's reach.

## 5. Findings

* `refresh_size`: `instance_refresh.go:313` promises that the next run corrects a `DesiredSize` whose
  write failed. If the write of the original size is lost and a machine fails and is
  removed in place of the surplus one, the next run sees a healthy cluster of the original size,
  completes, and returns no size. The scale set stays scaled up.
* `conn_login`: the timeout of a call does not cover the login it waits for
  (`auth.go:49` runs under the client's context; the `Timeout` given to the http.Client at `jrpc.go:311`
  is not used by oauth2). The token source is locked meanwhile, so every other call on the client
  that needs a token waits too (the run has one call).
* `conn_shared`: `httpStream.Write` is called concurrently, as `stream.go:27` says it may be, and copies every
  response through the one array `h.buf` (`jrpc.go:73`, `:167`). `Run` takes the pipe of a call; a second call offers
  its own and reads its response into the buffer before the first has handed its bytes over. A call may get
  the answer to another request, or none. In the run both pipes carry the same response: `Run` sends it
  twice, the call it belongs to has given up with the first still in its channel, and the second send, which "will
  not block" (`jsonrpc2.go:161`), blocks `Run` for good. What else is claimed of a client (`OwnAnswer`,
  `SendNeverBlocks`, `RunKeepsReading`, `TimeoutEndsCall`) is claimed as long as the copies stay apart, which they do
  for callers that make one call at a time, as the pool of `ScaleDown` does.

Met while modelling, without a run of its own:

* The comment at `scale_down.go:161` takes `max(A+U+D-T, min(2-D, U), 0)`, the code at `:205` has `D`
  in the place of `0` and uses the result as the number of machines in deactivation in all.
* `anyDiskBeingRemoved` makes a machine of several drives that was deactivated in part UNHEALTHY,
  not DEACTIVATING; a later round may start a third. The same comes of a machine of several containers, one of
  which was removed and has joined again while another is still deactivating, if its drive then fails.
  `StartsBounded` therefore counts only machines that are taken out as a whole.
* A backend that has joined in part counts as healthy; if the target is lowered at that moment, a
  serving one may be chosen. `ServingSpared` counts both kinds.
* If `GetNfsHostsMap` fails, no gateway is in the response and `validateDelta` is all that keeps it from giving
  them up; a DOWN gateway or backend past its removal timeout is likewise left out of the response on purpose.
* After a cancelled parent context a call may block in `io.CopyBuffer` (`jrpc.go:167`): `Run` has ended but
  the replies channel still had room. `TimeoutEndsCall` is claimed for open clients.
* `Conn.handling` is keyed by id: a request whose id is reused while its handler still runs removes
  the entry of its successor, which can then not be cancelled.

In the scripts, where nothing in the repository says otherwise and a failure is modelled as it is:

* `clusterize.go:81` to `:97` call `report`, which is defined at `:107`: a failure to fetch the credentials
  ends the script with "command not found", unreported, and the cluster is never created.
* `clusterize.go:159`: the containers are listed in a pipeline whose status is that of its `awk`. If the listing fails or
  is cut short, the containers it leaves out get no drives, nothing is reported, and IO starts.
* `clusterize.go:165`: a lookup that fails ends `add_drives` under `set -e` before it can report, and the
  `wait` does not look at its status. IO starts without these drives.
* `clusterize.go:235`: the error text of `jq` goes into `unprovisioned_bytes`, so that after ten minutes the test
  for an empty value does not hold, and creating the filesystem fails instead, unreported.
* `clusterize.go:273`: tiering computes with `unprovisioned_bytes`, which only the creation of the default
  filesystem sets. With `SetObs` and without `SetDefaultFs` the arithmetic is a syntax error, at which the shell drops
  the whole `if`, its reports included: nothing is tiered, nothing is said, and the script goes on behind it.
* `configure_nfs_protocol_gw.go:120`: a group that could not be created is passed over, since the last
  command of the function is an `echo` and `set -e` does not count on the left of `||`.
* `deploy_protocol_gw.go:221` and `:240`: `i > max_retries` after a loop that ends at `i = max_retries`; the
  timeouts never fire. The same at `configure_nfs_protocol_gw.go:95`, in a function nobody calls.
  `GatewayAfterConfigFs` holds all the same, by the order of the create script.
* `deploy_protocol_gw.go:83`, `join.go:201` and others wait without a timeout: when the creator fails, they wait for
  good. `join.go:201` has `$clusterized` unquoted: a `status` call without an answer ends the wait.
* `join.go:312`: `grep "$HOSTNAME"` also matches hosts whose names contain this one, whose containers are then
  deactivated. Names are not modelled.
* `join_nfs_protocol_gw.go:58`: nobody looks whether the port was added; `NfsConfiguredComplete` claims nothing of late gateways.
* `get_bash_function.go:55`: one core is taken even when none is asked for, and only the first two NUMA nodes
  are used; a list that is too short gives an empty core id.
* `deploy_backend.go:121`: `| tee` hides how the script that the cloud answered with ended.

## 6. Not modelled

`lib/weka`, `lib/types`: types; id parsing has a unit test. Events and logging: output, whose errors are
ignored. `examples/`, `main.go`: no behaviour of their own. In modelled components: timestamps and
progress figures of a refresh, credentials, the debug transport, `BaseClient.Notify` (`Call` without the
answer), values of headers, `plainStream`; of the scripts, the functions that read addresses and `weka_rest`,
whose failing is that of the commands that use them, backends without DPDK, and the part of
`ClusterState` nobody acts upon (progress, debug messages, updates of the cluster).

## 7. Plan

1. `InstanceRefresh` with its proofs, `DeactivateTarget` (done).
2. `ScaleDown` (done), `JrpcPool`, `JrpcConn`, `JrpcServe` (done).
3. `HostLayout`, `Bringup`, `Gateways` with their proofs, the proofs of `JrpcPool` (done).
4. Left to model: the two kinds of token call (after one login only refreshes are tried, `auth.go:51`); a
   composition in which the pool of a round and its effect on the round are one model.
5. The proofs of `ScaleDown`, and of the sizes and the refinement of `InstanceRefresh` (done).
6. Left open: a bound on machines deactivated in part, which the code counts as unhealthy; what a client
   still promises once copies have met in its buffer.
