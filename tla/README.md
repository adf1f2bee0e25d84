# A verification development for chaosblade-operator

The chaosblade operator injects faults ("experiments") into a Kubernetes
cluster. A user writes a `ChaosBlade` object; the operator selects resources,
runs the chaosblade tool in pods or on nodes to start the faults, records their
identifiers in the object's status, and stops them when the object is edited or
deleted. What can go wrong is mostly a question of order: the API server, the
informer cache, the work queue, the reconciler, the clean-up loop, the watchers
of timed experiments and the user all act on the same object.

Paths below are relative to the repository (`src/` in `PROJECT.json`).

## 1. Inventory

| Component | State | Operations | Interacts with |
|---|---|---|---|
| Blade controller (`pkg/controller/chaosblade/controller.go`) | none of its own: the object's phase, statuses, finalizer and `preSpec` annotation | `Reconcile`, `finalizeChaosBlade` | API server (versioned writes), cache (reads), dispatcher |
| Predicates (`predicate.go`) | the annotation of the *cached* object | `Create`, `Update`, `Delete` | informer, work queue |
| Clean-up loop (`controller.go:115-167`) | the list it is going through | list, patch | cache, API server |
| Dispatcher and scope controllers (`exec/controller.go`, `exec/{pod,node,container}/controller.go`) | none | `Create`, `Destroy` of one experiment | selection, executors |
| Resource selection (`exec/model/{controller,filter,filter_pod,context}.go`, `exec/node/filter.go`, `exec/container/controller.go`) | none: pure | filters, counts, identifiers | API server |
| Executors (`exec/model/executor_nsexec.go`, `executor_copy.go`, `parallelizer.go`) | shared result variables and a mutex | `Exec` | goroutine pool, `pods/exec` |
| Timeout watcher (`exec/model/executor.go:45-152`) | one goroutine per timed experiment | query, mark, delete | tool, cache, API server |
| Tool deployment (`exec/model/{deploy,copy,download}.go`) | files in the target container | check, make directory, copy, download, unpack | `pods/exec` |
| Daemonset pod names (`exec/model/executor.go:249-288`) | a global map | look up, refresh | API server |
| Pod actions (`exec/pod/{delete,failexp}.go`) | annotations and images of pods | delete, fail, restore | API server |
| Pod-io action and hook server (`exec/pod/fsexp.go`, `pkg/hookfs/*`) | a `sync.Map` from method to fault | inject, recover, hooks | HTTP between operator and sidecar |
| Sidecar webhook (`pkg/webhook/pod/mutator.go`) | none: rewrites a pod | `Handle` | admission |
| Channel client, catalogue of experiments, flags, `main`, charts, generated code | - | wiring and declarations | - |

### What is hard

* **Stale reads.** `Reconcile` reads the cache; what it decides may be out of
  date, and the effects of its commands cannot be rolled back when the write
  that records them is refused. All errors are logged and dropped: no branch of
  `Reconcile` asks to be run again.
* **State in the cache only.** The specification needed to destroy what an edit
  replaces is an annotation of the cached object until `Reconcile` stores it.
* **Filtered events.** The predicates decide which changes are looked at;
  nothing else wakes the reconciler (no periodic requeue).
* **Restarts.** Everything arrives as a Create event after a restart.
* **Other writers.** The clean-up loop patches by name, without a version; a
  watcher writes the phase; both race the reconciler.
* **Partial failure.** An experiment has several resources, a blade several
  experiments; some commands succeed and some do not.
* **Shared memory.** The goroutines of one `Exec` share a flag and a slice.
* **Two processes.** Inject and recover requests are served concurrently by the
  hook server while file operations look faults up.

### What makes each component correct

* *Life of a blade*: when the object is gone nothing it started is running;
  Destroyed means stopped and is final; old and new experiments of an edit do
  not overlap; the finalizer protects what is recorded; a deletion completes; an
  edit takes effect.
* *Executors*: one status per resource, which is its command's result; one
  failure fails the experiment; the call returns.
* *Hook server*: an answered recovery has removed the experiment's faults.
* *Selection*: a count never exceeds what was matched; an identifier parses
  back to what it was made from; a destroy addresses what a create recorded.
* *Tool deployment*: a deployment that is reported successful leaves complete
  files, but for what an earlier one has spoiled; an override repairs that.
* *Daemonset pod names*: success means that every selected resource was reached,
  however often the tool's pods and the map of their names are replaced meanwhile.
* *Pod actions*: a pod is broken once, its old image is kept, and no broken pod is
  left when the experiments are over; a destroy touches no pod of anybody else.
* *Webhook*: calling it twice is calling it once; the sidecar never comes without
  the container it serves.

The full list of hazards, each at its line, is in `PROJECT.json`.

## 2. Modules

| Module | Models | Proved in |
|---|---|---|
| `BladeLifecycle` | one blade name: API server, informer, predicates, reconciler, clean-up loop, watchers, restarts | `BladeLifecycleProofs` (types, versions, phases, finalizer), `BladeSafetyProofs` (what runs and what is recorded) |
| `BladeContract` | abstract: what a blade promises, without the machinery | |
| `BladeRefinement` | `BladeLifecycle` implements `BladeContract` | `BladeRefinementProofs` |
| `ParallelExec` | the goroutines of one call of `Exec` | with `ToolPodExec` |
| `ToolPodExec` | a whole call of `Exec`: identifiers, daemonset pod names, goroutines, watcher | `ToolPodExecProofs` |
| `ToolDeploy` | deployment of the tool in one container by several calls | `ToolDeployProofs` |
| `ResourceSelect` | flags, filters, counts, metas and identifiers, as operators | in `PodExperimentsProofs` and `PodSelectionProofs` |
| `PodExperiments` | experiments from selection to destruction, with the actions `fail` and `delete` | `PodExperimentsProofs` (what becomes of the pods), `PodSelectionProofs` (what is selected and found again) |
| `PodMutator` | the webhook's `mutatePodsFn` | with `HookFaults` |
| `HookFaults` | a pod's admission, and its I/O faults | `HookFaultsProofs` |
| `MC...` | instances for TLC: specifications, messages, pods, requests | |

`ToolPodExec` extends `ParallelExec`, `PodExperiments` extends `ResourceSelect`,
`HookFaults` extends `PodMutator`. `BladeLifecycle` keeps of the others what a
blade sees of them: the outcome of each command and of each experiment.

### BladeLifecycle

*State.* `server` is the object at the API server (`NoBlade` when there is
none) and `rv` the last resource version; `watch` the versions on their way to
the informer, `cache` its copy, `notes` the `<<old, new>>` pairs the handler has
not seen; `queued` whether the name is in the work queue (a set, so one bit);
`rec` the call of `Reconcile` under way with its copy `cb` of the object and the
statuses `out` it has collected; `active` the faults in effect in the cluster,
each with the specification that asked for it; `watchers` the timeout
goroutines; `doomed` whether the clean-up loop has the blade in its list. `left`
holds the bounds of the environment and `trouble` is a history variable.

*Actions.* One per step of the code between two points where another actor can
come in: each API call, each experiment of a loop, each handled event.

| Action | Code |
|---|---|
| `CreateBlade`, `EditSpec`, `Touch`, `DeleteBlade` | the user (external) |
| `Deliver`, `Relist`, `Resync` | the informer (external) |
| `Handle` | the predicates and the queue; `Update` also writes `preSpec` into the cached object |
| `Reconcile` | the reads and the choice of a branch (`Branch`, `Forward`, `Finalize`) |
| `CreateExperiment`, `DestroyExperiment` | one turn of the loops over the experiments |
| `DestroyPanic` | `oldSpec.Experiments[idx]` out of range, recovered and requeued |
| `Annotate`, `WriteStatus`, `WriteFinalizer` | the writes; refused when the copy is not current |
| `CleanUpList`, `CleanUpPatch` | the clean-up loop |
| `WatcherMarks`, `WatcherDeletes`, `WatcherGivesUp` | `checkExperimentStatus` |
| `FaultTimeout` | the tool ends a timed fault by itself (external) |
| `Restart` | the operator stops anywhere and starts with an empty cache |

The outcome of one experiment is left open as far as the code leaves it open: which
of its resources were hit, which commands reported success, and the
experiment's own flag, which the executors do not always derive from them (see
`ParallelExec`). What the model leaves out: more than one worker changes nothing
for one name, because the queue hands a name to one worker at a time; other
blades share nothing with this one except the pods; the content of annotations
other than `preSpec`.

*The history variable.* Most safety properties of this code are false without
qualification: a refused status write really loses faults. `trouble` names the
causes, each set at the step where it happens:
`createLost` (the write of the new identifiers was refused or the operator
stopped before it), `noReply` (a create command took effect but was reported
failed), `destroyFailed` (a recorded fault outlived its destroy),
`specMismatch` (a fault was destroyed with another specification than its own,
or not at all because the numbers of experiments differ), `watcherMarked` and
`cleaned` (the blade was ended while faults were left), and `nameReused` (a blade
was created while the clean-up loop still had its name in the list: the loop patches
by name, `controller.go:152-162`, and takes the finalizer from whatever object has
that name by then). The properties then say
that there is *no other cause*: in any order of all the other events nothing is
lost. `DeletedMeansStopped` is the unqualified promise, and it fails.

### BladeContract and BladeRefinement

The contract has five variables: the phase, the finalizer (`held`), whether the
deletion was asked for, whether some experiment of the blade is in effect (`on`),
and `excused`, set when one of the causes above has been met. It says in which
order the phases come, that experiments start only under the finalizer, that
whoever ends a blade finds its experiments over, and that the finalizer goes only
from a blade that is over or given up. `BladeRefinement` maps the object at the
API server to the first three, `active # {}` to `on` and `trouble # {}` to
`excused`; `ImplementsContract` is a property of the runs `edits`, `faults`,
`recreate` and `reuse`, and a theorem: every step of the informer, the predicates,
the reconciler, the watchers and the clean-up loop is either a step of the contract
or a stutter.

### ParallelExec and ToolPodExec

`ParallelExec` is the pool: `toExec` is the closed channel, `pc`, `item`, `execOk`
the goroutines' locals, `success` and `statuses` the captured variables, `seen`
what a goroutine has read of them under the lock (a read-modify-write is two
steps, which is what the lock is for). `Check` includes the one write to `success`
outside the lock. Both executors have the same loop and the same lines.

`ToolPodExec` is the call around it. `kind` says how identifiers are made: on a
node, by the container runtime through the tool's daemonset pod (`cri`, and
`network` for docker's network destroy, which skips what it cannot find), or in
the container with a copied tool. Names of daemonset pods are generations, 0 for
no name. `Lookup`, `List`, `Assign` and `Result` are the four accesses of
`GetChaosBladeDaemonsetPodName` to the map and the API server; `OtherLists` and
`OtherAssigns` are another call doing the same, `ToolPodGoes` and `ToolPodComes`
the cluster. An error makes the whole call fail with no statuses (`Refuse`).
`execCommands` sends a command to the pod named in the identifier, or to the
resource's own pod when there is no name (`Reachable`). After a create with a
timeout `checkExperimentStatus` queries the k-th status in the pod of the k-th
identifier, which after the goroutines need not be that of the status: `AskedAt` is
where it is asked, `OnRecord` what the tool there knows - of experiments created in
that place and of no others - and `Answer` what comes back.
`WatcherMissesNone` does not speak of the statuses the watcher goes by but of the
commands that have injected a fault (`ran`): it would be violated by a status that
was lost, by a watcher that ends its round too early and by an answer taken for
another resource's.

`AnyFailureFails` excepts a pod found missing: `executor_copy.go:109` then sets
`success = true`, which can overwrite the failure of another resource, against the
comment at line 125, "If false occurs once, the result is fails". Before the
exception was made TLC found just that. `SuccessCoversAll` excepts it too, and
docker's network destroy.

### ToolDeploy

`files` and `archive` hold what is in the container under each name: nothing, a
part or all. A call goes through the files of its action one by one: the test for
the name (`CheckFile`), the start of the command (`Begin`: from here the name
exists), its end (`Write`), and for a downloaded archive the unpacking. Two calls
may write the same file. Commands may break at any point; any text on the error
output makes a command a failure whatever it did (`channel/client.go`); an error
while the operator reads its own files is only logged, and the copy counts as a
success. What the properties except is kept in two history variables: `spoiled`,
the files a deployment left incomplete, and `clean`, the calls nothing interfered
with.

### ResourceSelect and PodExperiments

`ResourceSelect` follows the data from the flags of an experiment to the metas an
executor gets: legality of the flags, listing by name (one label is enough) or by
labels (all are needed), groups, counts and percentages, the containers by id, name or index with the loop-carried error of
`exec/container/controller.go`, and the identifiers and their parsing.
A selection ends in resources, a failure or a panic (a negative count). The loops
that append to a list are written by positions: `Pick` takes the elements at some
positions in their order, `Concat` puts lists one after the other. `Text` is a
string, `Blank` the empty one.

A percentage is a product of floating-point numbers that is then rounded, halves
away from zero (`controller.go:131`). The product may miss a half it should end
with: 57% of 50 pods is 28.499... and gives 28. Such a pair is a member of the
constant `FallsShort`, and `Share` rounds it down; no other pair can come out
differently, since a product that is no half is at least a hundredth away from one
and a half that comes out too large is rounded up anyway. The proofs leave the set
open; the instance has exactly the pairs that double precision gives for its sizes.

`PodExperiments` puts experiments on pods that change. `pods` are the API server's
objects with versions; `images` and `notes` count the suffixes on the images and
the annotation in which `failPod` keeps the old one. `FailGet`/`FailUpdate` and
`DestroyGet`/`DestroyDelete` are separate steps, as they are separate requests;
pods are evicted, go, and come back under the same name in between. `sent`, `hit`
and `trouble` are history variables: what the executor was handed, which pods an
experiment broke, whether a request was refused or its reply lost. Requests of the
selection fail as well: a named pod or node whose Get fails is skipped, whatever the
error (`filter_pod.go:122-126`), so that the selection goes on with the other names
(`Readings`; `CreateFrom` is a creation with the flags so read); a List that fails
ends the creation (`Outcomes`).

Its constants are assumed to be what a cluster can be (`ClustersAssumption`: pods of
a namespace have different names, containers of a pod as well, and a running
container has an id - Kubernetes guarantees the names and the kubelet reports the id
of what it runs; no experiment has touched the pods yet), nodes whose name is a text
(`NodesAssumption`), and requests whose flags are lists and numbers
(`RequestsAssumption`). Labels, flags and counts are arbitrary.

### PodMutator and HookFaults

`mutatePodsFn` goes through the volume mounts of the pod's first container and joins
the sidecar on the *last* of them that matches the annotations; in the model
`Targets` are the positions that match, `Target` the last one, `Refuses` the
conditions under which the pod is left alone or rejected.

The pod starts as it is handed in; `Handle` is one call of the webhook, which the
API server may repeat (`Bypass` when it is not enabled, the default).
`injectFaultCache` is the server's `sync.Map`; a request in `handlers` visits its
methods one at a time, concurrently with others; `stage` is what the operator
believes of each experiment. A client may give up before the reply, whether or not
the request arrived, and the sidecar may restart. `op` is an operation in a hook of
the file system: it begins (`PreHook`), loads the fault of its method once
(`doInjectFault`, `hook.go:454`), and returns its error after the delay
(`HookReturns`, `hook.go:483-486`). Requests are answered between any two of these
steps, so an operation may return a fault after the answer to its recovery;
`NoFaultAfterRecovery` says that only one that began before the answer can. There is
one operation at a time, because operations change nothing that anything else reads.

`RunningIsInEffect` is the other direction, with what the shared map makes of it: an
inject replaces the fault another experiment has on a method and a recovery deletes
every fault, whoever's it is, so an experiment reported as running may have lost its
faults - to those and to a restart of the sidecar (`lost`), and to nothing else.

The promise "recover all fault" (`server.go:93`) holds for the methods in
`defaultHookPoints` (`types.go:19`) only. `open` and `chmod` have hooks and are not
in that list; `RecoversAll` is stated for the listed methods, and the instance
has an `open` fault, which stays.

## 3. Runs

| Run | Instance | Question and result |
|---|---|---|
| `edits` | specs of 1 and 2 experiments, one edit, commands that succeed, fairness | all orders of user, informer, handler and reconciler: nothing is lost except by a named cause; no overlap of old and new; Destroyed is final; every step is one the contract allows; a deletion completes; an edit takes effect |
| `faults` | one timed spec, API faults, command faults | nothing is lost but by a named cause, Destroyed means stopped and every step is one the contract allows, with every failure and every other writer |
| `recreate` | two objects in turn under one name, one restart | a slow reconciler, the queue and the cache meet the new object and do it no harm |
| `reuse` | two objects in turn under one name, experiments that select nothing, API faults, one touch, one restart | what the clean-up loop, which patches by name, does to the second object is within the contract but for the named causes |
| `faulty_delete` | two resources, command faults | a deletion completes even when the destroy fails, through the clean-up loop |
| `exec` | 3 resources on 2 nodes, 2 goroutines, one replacement of a tool's pod | one status each, the flag is the conjunction, success means every resource was reached, nothing runs twice, the watcher leaves no fault that is in effect, `Exec` returns |
| `hooks` | 4 pods as handed in, 2 experiments, 4 methods | an answered recovery is complete and stays so, no operation begun afterwards returns the fault; a running experiment loses its faults only to another one or to a restart; the webhook called again does no harm |
| `pods` | 2 clusters of 3 and 4 pods and 2 of 7 and 25, 2 nodes, one request with flags of every kind - every percentage from 1 to 120 of the large ones, whole and in groups - or two that meet on the same pods | only what was asked for is hit, limits are kept and shares are a nearest number, identifiers find their targets; images are broken once and none stays broken |
| `tools` | a copy, a download, an override and a call without url, 4 files of which one is not shipped, one restart | a reported success means complete files, but for spoiled ones; an override repairs |
| `delete_race` | one spec | **fails**: a deletion during the creation leaves the faults running |
| `delete_stuck` | one restart | **fails**: a deletion asked for around a restart is never carried out |
| `edit_lost` | one edit, one touch | **fails**: the edit is forgotten when another change of the object follows it |

Each property of a passing run has a mutant in `PROJECT.json`: an operator of the
module, marked `Mutant:`, that changes a definition the way a plausible bug would,
and under which the run fails. Mutants are no part of a specification.

The failing runs are the findings of `PROJECT.json`, with the line of the
documentation or comment each contradicts.

To repeat a run, `tlc -config <Cfg>.cfg <module>` with the names of `PROJECT.json`;
`tlapm <Module>.tla` for each of the eight `...Proofs` modules checks the proofs.

*Bounds.* In `BladeLifecycle` `MaxCreates`, `MaxEdits`, `MaxTouches`, `MaxCrashes`
and `MaxRes` bound the environment only; the operator itself is never cut off. One
edit is enough for a stale `preSpec`, a specification of another length and a
second reconcile; one touch (in `reuse` and `edit_lost`) for a refused write at
any point, which API faults give as well; two objects for every confusion of one
name's generations; no, one or two experiments or resources for every partial
failure. Resource versions, identifiers and the queues of events are unbounded and
stay finite through these bounds.

In `ToolPodExec` three resources on two nodes give two identifiers on one node and
one elsewhere, more identifiers than goroutines (two, the least that race) and a
status out of order. `MaxGenerations = 2` is one replacement, on either
node; a name that is stale, missing or replaced between refresh and read needs no
more. In `ToolDeploy` three writers of the three kinds
meet on the same names, `MaxRestarts = 1` puts a restart anywhere. In
`PodExperiments` `MaxEvictions = 1` and a stable name replace a pod between any two
requests; the arithmetic of shares needs sizes and few steps, so the larger clusters
have pods that are not ready and fail at once: 58% of 25 pods is the first
share, in the smallest cluster, where double precision loses a half. In `HookFaults` two experiments on one method are what a recovery can
confuse; the counts of handlers are bounded by the stages of the experiments.

Deadlock is not checked: a cluster with nothing left to do is a legal end, and a
call that has returned does no more.

*Fairness.* In `BladeLifecycle` weak fairness of the informer (`Deliver`), of the
handler goroutine (`Handle`), of the worker with its calls (`Reconciler`: client-go
retries its watch, and each API call and command has a timeout) and of the clean-up
ticker. None for users, resyncs, watchers, expiry or restarts. In `ToolPodExec`
weak fairness of the making of the identifiers (`Make`: its requests time out), of
every goroutine and of the caller; none for other calls, the cluster, expiry and
the watcher. The other modules state no liveness and no fairness.

Liveness is checked where the code can provide it: without API failures, since a
failed write is never retried.

## 4. Proofs

The theorems hold for every value of the constants: any specifications of any size,
any resources, nodes, pods, files, requests and goroutines, any bounds on the
environment, with or without failures. The assumptions on the constants are the named
`ASSUME`s of the modules, which TLC evaluates in the runs. In each module an
inductive invariant is proved first, one lemma per action or group of actions, and
the theorems follow from it.

### The life of a blade

`BladeLifecycleProofs`:

* `TypeCorrect`: `Spec => []TypeOK`.
* `VersionsAreCoherent`: `Spec => []Coherent`. A copy with the resource version
  of the server's object agrees with it on everything but the `preSpec`
  annotation, wherever it is (watch, cache, `Reconcile`), and none is newer than
  `rv`. This is what makes the version check mean something, and it is not
  obvious: `Update` of the predicates writes into the cached object without a
  new version, which is why the annotation is excepted.
* `DestroyedStaysDestroyed`: `Spec => DestroyedIsFinal`. No step takes an object
  out of phase Destroyed, although the reconciler and the watchers write phases
  from copies that may be arbitrarily old.
* `FinalizerIsKept`: `Spec => ReconcileKeepsFinalizer`. Only the clean-up loop can
  take the finalizer from an object that is not Destroyed at the API server, for
  any number of objects created one after another under the name.

The inductive invariant is
`IInv == TypeOK /\ LoopOK /\ Coherent /\ NotOver`. `LoopOK` says that a destroy
loop has collected fewer statuses than the object has, without which indexing the
next one is not type correct. `NotOver` says that a call that may still write a
phase started from a copy that is not Destroyed, and a call that removes the
finalizer from one that is; with `Coherent`, a copy that passes the version check
agrees with the server's object, so the same holds of that object.

`BladeSafetyProofs` adds what runs in the cluster:

* `RemovalIsClean`: `Spec => []CleanRemoval`,
  `DestroyedIsTrue`: `Spec => []DestroyedMeansStopped`,
  `ExperimentsDoNotOverlap`: `Spec => []NoOverlap`.

None of the three is inductive: each depends on where a fault is recorded and on what
the call of `Reconcile` under way is about to write over that record. `SInv` says so:
`ObjectOK` and `NumbersOK` (an absent object is the empty one, recorded identifiers
have been given out), `CallOK` (from which branch of `Reconcile` the status about to
be written comes, which fixes the phase it replaces), and, as long as no cause has
been met, `HeldOK` (the finalizer is there wherever something may be in effect),
`LoopStops` (the destroy loop has ended every fault of the statuses it has passed),
`Stopped` (in phases where nothing should be in effect nothing recorded is) and
`Accounted` (every fault in effect is recorded by the object or by the call under
way). The lemma everything rests on, `Overtaken`, is that a copy made before a write is
not current after it: a call that the write has overtaken can change the record no more.

`BladeRefinementProofs` has `ContractIsKept`: `Spec => ImplementsContract`. The
contract wants the finalizer under every experiment that starts, and `Reconcile`
starts experiments from a copy that may be old. So `RInv` is about versions: only the
last one of the watch stream is the server's (`Ordered`), a call that can still write
has read the latest (`UpToDate`) and comes from a known phase (`PathOK`), a version
that makes `Reconcile` create and one that makes the clean-up loop give the blade up
are never around together (`Apart`), and without a cause the finalizer stays while the
first kind is on its way (`Guarded`) and the blade the loop has selected stays what it
was selected for (`Selected`). Then each action maps to a step of the contract: the
user's to `UserContract`, the informer's and the watchers' to a stutter or a change of
phase, those of the reconciler one by one.

The first attempt at this proof failed at `Guarded`, for a reason: a blade created
under a name that the clean-up loop still had in its list lost its finalizer to the
patch by name. TLC then found it as well, once experiments that select no resource
were part of an instance; the cause `nameReused` and the run `reuse` come from that.

### Executors and the tool

`ToolPodExecProofs`, for `Exec` with any number of resources, nodes and goroutines:
`TypeCorrect`, `EveryIdentifierReportedOnce` (`OneStatusEach`), `FailuresAreKept`
(`AnyFailureFails`), `SuccessMeansAll` (`SuccessCoversAll`), `CommandsRunOnce`
(`NoSecondRun`) and `WatcherConcludesRightly` (`WatcherMissesNone`). In
`IInv == TypeOK /\ MakingOK /\ PoolOK` an identifier is in exactly one place - the
channel (`QueueOK`), the hands of one goroutine (`HeldOK`), one status
(`ReportedOK`, `NoneLost`); results of commands are on their way to the statuses or
there (`RanOK`); and what the goroutine holding the lock has read is still so, the flag
excepted, which the unlocked write for a missing pod may have set (`LockOK`,
`Honest`). When `Exec` returns the channel is empty and nobody holds an identifier, so
each is in a status (`AtTheEnd`), and the status of a command that succeeded is
successful: what the watcher has asked for is all there was to ask; that there are no more statuses than identifiers is
then a matter of counting.

`ToolDeployProofs`: `TypeCorrect`, `DeployedIsComplete` (`CompleteUnlessSpoiled`) and
`OverrideCompletes` (`OverrideRepairs`). The invariant explains an incomplete file by a
writer or a spoiler (`PartIsExplained`), keeps what a call has passed by
(`PassedIsThere`), and says of an undisturbed call that no other is writing
(`CleanIsAlone`) and of an undisturbed override what it has completed
(`OverrideProgress`; a file an action needs twice is written twice, so the invariant
has to allow that it is incomplete again).

### Pods and their faults

`PodExperimentsProofs`, for any cluster of distinct pods that no experiment has touched
yet (`ClustersAssumption`) and any requests:

* `ImagesBrokenOnce`: `Spec => []BrokenOnce`.
* `NoPodStaysBroken`: `Spec => []NoneLeftBroken`.
* `OthersAreSpared`: `Spec => DestroySparesOthers`.

`NoneLeftBroken` speaks of the end and needs an account of the way there: while no
call has failed, every broken pod that is not being deleted is named by something a
fail experiment has still to destroy (`Claimed`; what that is, `Owed`, are the
successful statuses until the destroy starts, then the rest of its list). It is kept
because an Update is accepted only for the current version of the pod of the same
generation, because the identifier written for it names that pod again when parsed
(`IdentifierNames`), because the destroy's list is exactly the successful statuses
(`DestroyMetasFacts`), and because the environment breaks nothing and gives a name
only to a later generation (`Keeps`). `HitBefore` and `NotOlder` relate what is owed to
the pods hit, which is what spares the others.

`PodSelectionProofs` goes through the selection and the identifiers, for any cluster,
nodes and requests as above:

* `EverythingKept`: `Spec => []Kept`, the second inductive invariant (below).
* `TypesOK`: `Spec => []TypeOK`.
* `TargetsFoundAgain`: `Spec => DestroyFindsTargets`.
* `OnlyTheAsked`: `Spec => OnlyWhatWasAsked`.
* `LimitsRespected`: `Spec => EvictLimits`.

`DestroyFindsTargets` relates the statuses at the end of a creation to what the
creation was handed at its start, and nothing in `IInv` does. `Kept` adds for every
experiment that its statuses, followed by what it has still to do, are what it was
handed, place by place and in order (`Tracks`), that what it was handed is fit to be
written as an identifier (`Sound`), and that pods and the copies of them have kept
their names and containers (`PodsTyped`, `CopyTyped`). `GetIdentifier` leaves empty
parts out and `ParseIdentifier` tells parts by their place, so the two are not
inverse to each other: a container without an id but with a runtime would come back
with the runtime as its id. `RoundTrip` says when they are, and that a
selection makes only such metas (`MetaSound`, `OutcomesSane`) is where the assumption
that a running container has an id is needed, together with the error that
`getMatchedContainerMetaList` carries from one container to the next.

`OnlyWhatWasAsked` and `EvictLimits` are about one step, `Create`, but about all it
selects: `PickFacts` and `ConcatFacts` say what the lists contain, `PodResourcesFacts`,
`FilterFacts`, `MatchedFacts`, `PodMetasFacts` and `ContainerMetasFacts` what each
stage of the selection lets through. In scope container a container that was asked for
and cannot be used makes the selection fail instead of being left out, which is why
none that was asked for can be missing in a pod the experiment acts on. For the limits
`ShareFacts` and `CountFacts` give the bounds of `GetResourceCount` for any set
`FallsShort`, `UpToFacts` and `SelectionsFacts` that of each group as many entries are
chosen, first ones or at random, `ReadingFacts` that flags with fewer names are still
flags that ask for nothing else, and `TakenFacts` and `PodsWithin` count the pods
taken from a group through one-to-one maps between positions in the list, entries of
the group and metas: a pod that is named twice is two places in the list, and may be
taken twice.

`HookFaultsProofs` proves for any pods handed in, any experiments, lists of methods
and paths (assuming only that `defaultHookPoints` and the messages name methods the
file system has, and that a pod comes without the sidecar):

* `MutateTwice`, a lemma: the webhook does not change what it has made.
* `TypeCorrect`: `Spec => []TypeOK`, which for the pod rests on `MutateTwice`.
* `RecoveryIsComplete`: `Spec => []RecoversAll`.
* `RecoveredStaysRecovered`: `Spec => []NoFaultAfterRecovery`.
* `OnlyOthersTakeFaults`: `Spec => []RunningIsInEffect`.
* `SidecarServesApp`: `Spec => []SidecarJoinsApp`. The invariant `Admitted` says that
  the pod is the one handed in or what one call of the webhook makes of it; the last
  matching mount exists because the set of positions is finite (`LastTarget`).

`RecoversAll` is not inductive: an inject request still being served could put back
what a recovery has deleted. The invariant `IInv` adds to the types, for every
experiment, that no request of it is at the server while no answer is awaited
(`Served`), that the one awaited is the only one (`OneRequest`; this is why a
request the client has given up on is harmless: its experiment is never recovered
afterwards), and that a fault still there during the recovery is one the handler
has yet to visit (`Remaining`).

`NoFaultAfterRecovery` rests on it in the step between beginning and lookup
(`OperationSound`): what is then in the map is of no experiment whose recovery was
answered before. It also needs that an entry is of an experiment that has asked for
the method (`AskedFor`). For `RunningIsInEffect` the invariant has to follow a request
through its list (`InEffect`): a method it has visited is the experiment's own or has
been taken (`Taken`), and what has been taken stays so, whoever takes it next.

### Model-checked only

* Liveness: `DeletionCompletes`, `SpecTakesEffect` and `Returns` rest on fairness and
  `ENABLED`, which the prover does not handle.
* The properties of the findings, which are false.

Every other property of the runs is a theorem.

## 5. Not modelled

* *The text of command lines*, JSON and log messages: a command is its result.
* *The order of the groups* in a selection (a Go map) and so of the resources
  selected from them.
* *The form of container ids*: the prefixes of docker and containerd are stripped
  and docker's ids shortened; an id in the model is what is left. Ids of other
  runtimes are treated as docker's and not modelled.
* *The channel client's stream*; its outcomes are those of the commands.
* *The fuse mount itself* and the percentage of a fault: hit or not hit.
* *The goroutine a watcher leaves behind* (`executor.go:145`) and the one of an
  aborted copy (`copy.go:152`): leaks of memory without effect on any state here.
* *The catalogue of experiments, start-up, charts and generated code*:
  declarations and wiring. *The daemonset deployment*: its only call is commented
  out.

## 6. Plan

The models are complete as far as the list in section 5, and every safety property of
a passing run is a theorem. What could be added:

1. The liveness properties by hand, with a ranking of the work left, once the prover
   handles `ENABLED`.
2. The channel client's stream, to derive the outcomes of commands that
   `BladeLifecycle`, `ToolPodExec` and `ToolDeploy` leave open.
