# A verification project for the Habitat operator

The Habitat operator watches custom objects of type `Habitat` and keeps, for
each, a `StatefulSet`, its pods and, for each namespace, one `ConfigMap` with
the IP of a running pod (the *peer IP*).  This directory holds TLA+ models of
its control, TLC configurations that check them on small instances, and proofs
that TLAPS checks for every instance.

Paths below are relative to `src/`; `controller.go`, `stateful_sets.go` and
`utils.go` are in `pkg/controller/v1beta2/`, `main.go` in
`cmd/habitat-operator/`.

## 1. Inventory

| component | where | state it keeps | operations | status |
|---|---|---|---|---|
| start-up and shutdown | `main.go:64-158, 175-231`, `controller.go:158-262` | context, wait groups, informer factories, the life cycle of each informer | `run`, `v1beta2`, `Run`, `Start`, `cacheHabitats`..., signal handler | modelled |
| CRD registration | `utils.go:86-146`, `main.go:160-173` | none (the CRD in the cluster) | create, poll until established, delete on time-out | modelled |
| informers | vendored `tools/cache` | a store per resource | list, watch, re-list, resync, notify | modelled |
| event handlers | `controller.go:264-409`, `stateful_sets.go:365-423` | none | add/update/delete of Habitats, ConfigMaps, pods, StatefulSets | modelled |
| work queue | vendored `util/workqueue` | queue, dirty and processing sets, delayed entries | `Add`, `Get`, `Done`, `AddRateLimited`, `Forget`, `ShutDown` | modelled |
| worker pool | `controller.go:158-212, 547-584` | the key each worker holds | `worker`, `processNextItem` | modelled |
| reconciliation | `controller.go:442-525, 589-669` | locals of the call | `conform`, `handleConfigMap` | modelled |
| StatefulSet construction | `stateful_sets.go:32-351`, `utils.go:47-72` | none | `newStatefulSet`, `validateCustomObject` | modelled |
| informer factory | `pkg/client/informers/externalversions` | informers and which are started | `Start`, `InformerFor` | modelled |
| API types | `pkg/apis` | none | the spec, its status, deep copies | partly |
| generated clients and listers | `pkg/client` | none | HTTP requests, reads of a store | not modelled |

How they interact.  `run` registers the CRD, starts the informer factories and
`controller.Run` in goroutines of their own, and waits for a signal.  `Run`
registers handlers with the informers of the factories, runs the informers,
waits for their stores to be filled and starts the workers.  The informers
mirror the API server and call the handlers; the handlers put a Habitat's key
on the work queue; the workers, one per CPU, take keys from the queue and run
`conform`, which reads the Habitat from the informer's store and writes the
StatefulSet, the pods and the ConfigMap through the API server; those writes
come back as events.  The stores, the queue and the ConfigMap *objects* in the
store are shared memory between the goroutines; the CRD is shared by all
operators of a cluster.

What is hard about it: several workers share a namespace's ConfigMap
(`controller.go:442`); `writeLeaderIP` changes a cached object that others hold
(433); `conform` is a sequence of API calls without transactions, each of which
can fail, and the operator may die between any two; caches lag behind; events
are coalesced, lost on a re-list or dropped by handlers; keys are marked again
while they are processed; an informer may be run twice, by its factory
(`main.go:214-222`) and by `Run`; the CRD is deleted by name on a time-out.
`PROJECT.json` lists the hazards line by line with the properties that cover
each.

What makes each component correct:

* work queue and pool: a marked key is processed, never by two workers at once,
  never forgotten while it is processed; failures come back; shutdown ends.
* handlers and reconciliation: when nothing is left to do, every Habitat is
  deployed as its last version says, its pods have the current template, and
  the peer IP is a running pod's; no older version overwrites a newer one;
  nothing of a deleted Habitat stays; all this again after failures.
* start-up and shutdown: no worker runs before the caches are filled, a handler
  misses nothing that its informer knows, whoever runs the informer; a signal
  ends the process, without a panic, when everything has stopped.
* CRD registration: one operator at a time waits for the CRD; what has been
  registered is not deleted; in the end the CRD is served and all operators run.
* StatefulSet construction: what the pods mount is there and unambiguous; what
  only scales replaces no pods; the secrets that pods need were looked up.

## 2. Modules

| module | models |
|---|---|
| `HabitatKeys` | the set of keys, shared by the modules below |
| `WorkQueue` | the rate-limited delaying queue, one action per critical section |
| `PendingWork` | abstract specification: what queue and workers promise the handlers |
| `WorkerPool` | `Run`'s workers and `processNextItem` over `WorkQueue`; cancellation and shutdown |
| `Cluster` | external: API server, watch streams, users, StatefulSet controller, kubelets, garbage collector |
| `HabitatController` | informer caches, event handlers, and every API call of `conform`, over `WorkQueue` and `Cluster` |
| `StatefulSetSpec` | `newStatefulSet` and `validateCustomObject` as operators on the full spec |
| `MCController` | instances of `HabitatController` for TLC, and the link from its specs to `StatefulSetSpec` |
| `Startup`, `MCStartup` | one process from `main` to its exit, with the life cycle of its informers; its instances |
| `CRDRegistration` | several operators that register the CRD, crash and are restarted |
| `WorkQueueProofs`, `WorkerPoolProofs` | proofs about the queue and the pool |
| `HabitatControllerProofs` | proofs about the controller and its cluster: mutual exclusion, refinement of `PendingWork`, types |
| `DeploymentProofs` | what is deployed: no lost wakeup, no forgotten pod, no foreign Habitat, no older version |
| `PeerProofs` | the peer ConfigMap: its cache, the running leader, the peer IP at rest |
| `StartupProofs`, `CRDRegistrationProofs`, `StatefulSetSpecProofs` | proofs about start-up, registration, construction |

### WorkQueue and WorkerPool

The variables have the names of the fields in `queue.go` and
`delaying_queue.go`; `waitingEntries` is the heap with its index.  `AddAfter`
sends on a bounded channel and is released by the shutdown.  The duration of a
delay is abstracted: a delayed entry may be ready at any time.  `Forget` only
resets the back-off and is left out for the same reason.  In `WorkerPool` any
key can be added at any time and `conform` returns nil or an error.

`Work` is `PendingWork` with `dirty` as what is pending, `processing` as what is
running, and channel and heap together as what is delayed.  `Promise` states in
`WorkerPool` that the pool implements it, and in `HabitatController` that the
controller does, but for crashes, which start it again.  The proofs need that a
queued key is dirty and not processed, which is why the comment at
`queue.go:48-50` is an invariant here (`QueuedIsDirtyAndIdle`, as an equality:
the other direction says that no mark is stranded).

### Cluster and HabitatController

A key is a Habitat's name in its namespace, and names its StatefulSet.  A spec
is `[valid, needsSecret, template, storage, count]`: whether
`validateCustomObject` accepts it, whether a secret has to be found, what goes
into the pod template, what goes into the (immutable) volume claims, and the
replicas.  Objects carry the identifiers the control depends on: a Habitat its
`uid` and generation, a ConfigMap its resource version, a pod its IP, fresh
with every start of the pod.

The informers' stores are `habCache`, `cmCache` and `podCache` (of which only
the phase is ever compared; the StatefulSet store is not read).  Changes travel
in `habWatch`, `cmWatch`, `podWatch` in order per object, and in no order
between objects or informers; StatefulSet events carry no information that a
handler uses, so `stsWatch` is only a flag.  The buffer between a store and its
handler is merged with the watch stream, except that `handleCM` enqueues one
Habitat after the other (`cmTodo`).  Each of the four informers may list anew
when its watch breaks (`RelistHabs`, `RelistCMs`, `RelistPods`, `RelistSts`) and
loses the events in between: what has gone leaves the store, but all handlers
drop the `DeletedFinalStateUnknown` that tells of it; an object that was replaced
looks like an update; and a StatefulSet that has not changed is dropped by
`handleStsUpdate`.  A list is taken to return the current state, and an informer
to have one stream: section 6 says what an informer that runs twice adds.

A worker's `wpc` is the API call it is about to make, `job` has `conform`'s
locals.  The ConfigMap in `job` is the cached object itself: `WriteLeader`
changes it for the store and for every worker that holds the same object, and
`UpdateCM` sends what it is by then.  A re-list brings a ConfigMap that has not
changed as another object of the same version, which `cmCopy` and `job.copy`
number (`SameCM`, `CachedCM`).  A call may fail without effect
(`ApiCallFails`), or take effect and lose its answer (`Returns`); `Crash`
empties everything the process has and lists again.  A crash of the Go runtime
on concurrent map writes (433) is one of these crashes.

The disturbances an instance looks at are given by `Scenarios`: each is a set of
Habitats that exist, whether they are deployed, and a `budget` that bounds every
kind of disturbance (the kinds are explained in `Cluster`).  A behaviour starts
in one of the scenarios.  Everything else in the model is bounded by these:
generations, resource versions, IPs, queue lengths.

Definitions whose comment begins with *Mutant of* or *Bug* are not part of any
specification: each is a plausible slip in the definition after it, kept to
show that the property named in `PROJECT.json` notices it.

### StatefulSetSpec

`HabitatSpecs` is the type `V1beta2` with a set for each pointer;
`StatefulSetOf` is what `newStatefulSet` makes of a Habitat: arguments, volumes,
mounts of both containers, volume claims, the count as an `int32`.  `Buildable`
is what makes it fail.  Strings are values: only which of them are equal
matters, and for the name of a ring's secret whether `ringRegexp` matches it
(`RingOf`).

`HabitatController` knows a spec only by five fields.  That these are enough is
`SpecsAssumption` in `MCController`, which TLC evaluates in every run of the
controller: each spec of the instance stands for a full one, two have the same
`template` exactly if `newStatefulSet` makes the same pod template of them (what
`conform` compares at `controller.go:644`), the same `storage` exactly if the
claims are equal, and `valid`, `needsSecret` and `count` say what the code
finds.

### Startup

`main` and `exit` follow `run` of `main.go`; `ctl` and `next` follow
`controller.Run` with `cacheHabitats`, `cacheStatefulSets`, `cacheConfigMaps`
and `watchPods`, in that order (`Order`).  `sent`, `pending`, `relayed` are the
signals before, in and behind the channel `term`.

An informer has up to two `Run`s, named `<<i, "factory">>` and
`<<i, "controller">>`: `FactoryStart` runs those that are registered by then,
`SpawnRuns` (and `AddHandler` for the pods' informer) runs them again.  `run` is
where a `Run` is: `spawned`, `built` (it has made a FIFO and a controller and
set `s.controller`, here `owner`), `looping` in `processLoop`, `checked` and
`waiting` (the two steps by which `Pop` goes to sleep), `closing`, `done`.  `on`
is the controller a `Run` works with, which is the *other* one's if that has
overwritten `s.controller` in between.  `listed` holds the controllers for
which `HasSynced` answers yes.  `proc`, `pops`, `channels` are the processor of
each `Run`, the `pop` goroutines of the listener, and its two channels; closing
one a second time, or sending on a closed one, panics.

Of the data there is one object per informer, in the API server from the start:
`store` and `told` say which informer has it, and which handler was told.
Workers are counted only (`alive`); `WorkerPool` has their details.

### CRDRegistration

`op[o]` is where operator `o` is in `createCRD` and `CreateCRD`; `crd` is the
CRD, which exists before it is established, and after its deletion until its
finalizer has run.  `Answered` has the steps in which a call does what it says,
`Failed` the errors, lost answers, time-outs and crashes.  An operator that has
exited is restarted (`Restart`).  `registered` and `misled` are history: whether
some `CreateCRD` has seen this CRD established, and who took a terminating one
for his own.

## 3. Runs

Deadlock is not checked: a controller with nothing to do waits, and after
cancellation pool and process are meant to stop.

| run | instance | shows |
|---|---|---|
| `WorkerPool` | 2 workers, 2 keys, channel of 1, cancellation at any time | structure of the queue, mutual exclusion, implementation of `PendingWork`, every mark served (also during shutdown), failures retried, workers return |
| `TwoWorkers` | 2 workers, 2 Habitats of one namespace; scenarios `DyingPod` (one pod between them, which dies) and `Rollout` (empty caches, an edit of the template) | types, `OneWorkerPerHabitat`; `CachedCMIsStored`: whenever no worker is about to update, the cached ConfigMap equals the stored one of the same version; `RestMeansDeployed`, `RestMeansPodsCurrent`, `NoRollback` |
| `Lifecycle` | 1 worker; `Rebirth` (deletion, re-creation, a change of `customVersion`; what the old Habitat owned is collected once the informer has heard of the deletion), `Overtaken` (deletion and re-creation without pods, up to two collections also before that) and `Tampering` (a user's change or deletion of the StatefulSet, a status update, a dying pod) | the new Habitat is deployed under its own owner reference, the user's change overwritten, the peer IP valid |
| `Failures` | 1 worker; `Scaling` (2 pods, one dies, an extra resync) and `Misfortune` (two edits to valid, invalid, refused and secret-needing specs, two failed or lost calls, a crash, one informer's re-list) | what is valid is deployed at rest; the leader is replaced exactly when it does not run; from crash to crash the controller implements `PendingWork` |
| `Liveness` | 1 worker, 2 Habitats; `Recovery` (an edit, a crash), `BrokenWatch` (an edit, a re-list of any one informer), `Deletion`, `Handover` (to another `customVersion` and back, with an edit) | `EventuallyDeployed`, `EventuallyPeerValid`, `EventuallyCollected` |
| `Startup` | an awaited informer of a factory, 3 workers, 2 signals at any moment | workers wait for the caches, late handlers miss nothing, only an informer that runs twice panics, everything has stopped before the process ends by itself, and it ends |
| `Registration` | 3 operators, one of which assumes the CRD; 2 faults, 2 time-outs, 2 crashes | `OneRegistrar`, `RegisteredStays`, `EventuallyServed` |
| `LeaderRace`, `FailedWrite`, `HalfRollout`, `ForeignVersion`, `Termination` | see section 5 | disagreements between code and documentation |

The properties of the form *RestMeans...* say that no wakeup is lost: in a state
where the queue is empty, no event is on its way and the garbage collector has
nothing to do, the promise holds.  They are stronger than the liveness
properties where no periodic resync may be waited for.

Why the bounds are enough to be interesting: races here are between two workers
or between one worker and one change of the cluster at a chosen point of
`conform`; one disturbance of each kind at every point, alone and in the
combinations above, exercises them.  Two pods are what it takes to choose a
leader wrongly, two Habitats what it takes to share a ConfigMap, two keys and
two workers with a channel of one what it takes to block in `AddAfter`.
`ChanCap` is 2 in the controller runs, so the channel there never is what
blocks a single worker.  Informers share nothing but `Run`'s sequence, so one,
run twice, shows what can happen to each; with a second one, the pods', the run
takes 5.6 million states and over five minutes, and was checked apart: the same
invariants hold.  Three signals add nothing, since the second ends the process.
Three operators are what it takes for one to wait, one to find the CRD and one
to assume it; each bound of 2 is one more than the failure that a retry meets.

Fairness.  In the controller, goroutines that can run do (`WorkerStep`,
`WaitingLoop...`, `StopQueue`); watch streams and handlers deliver (`HabEvent`,
`CMEvent`, `PodEvent`, `StsEvent`, `CMEnqueues`); the ConfigMap informer resyncs
periodically (`CMResync`, in `Liveness` as often as the clock wants while the
controller is idle); the cluster's own controllers do their work.  No user,
failure or status update is obliged to happen.  In `Startup` each goroutine is
scheduled, and the exits of a polling loop have fairness of their own, as the
loop alone would satisfy that of the goroutine; signals are not obliged to come,
and lists and watches not to return anything.  In `CRDRegistration` operators
go on with the calls that can succeed, Kubernetes restarts what has exited, and
the API server establishes and finalizes; faults, time-outs and crashes are
bounded.  All weak: no action has to win a race against one that can disable it
for ever.

## 4. Proofs

For any set of keys and workers and any channel capacity:

* `WorkQueueProofs`: each operation of the queue preserves `QInv`: types, the
  equality `QueuedIsDirtyAndIdle` and `QueuedOnce`.  The equality alone is not
  inductive: `Get` removes the head of the queue, and unless the key occurs
  once it would still be queued while processed.  Under `QInv` each operation is
  a step of `PendingWork` or leaves its variables alone (`AddRefines`,
  `GetRefines`...): `ReceiveWaiting` takes an entry out of the channel, which
  stays delayed because it enters the heap or is in the channel twice.
* `WorkerPoolProofs`: the inductive invariant `IInv` is `QInv`, the types of
  the workers, `ProcessingIsHeld` and `OneWorkerPerKey`.  The last needs the
  others: a worker takes a queued key, which is not processed, hence held by
  nobody.  Then `TypeCorrect`, `QueueIsDirtyAndIdle`, `NoDuplicates`,
  `NothingStranded`, `MutualExclusion`, and `ImplementsPendingWork`.

For any cluster, specs, workers and scenarios, over failed calls, lost answers,
lost events and crashes:

* `HabitatControllerProofs`: the same argument for the controller, where the
  workers move through the calls of `conform` and a crash empties queue and
  workers together: `MutexInv`, and from it `OneWorkerAtATime` and
  `ImplementsPendingWork`.  `TypeCorrect` is about the controller with its
  cluster.  Types alone are not inductive: that `UpdateSts` writes a StatefulSet
  needs that its worker has a Habitat, which is `JobOK`: `conform` has a Habitat
  from its validation on, and a cached ConfigMap from `FindCM` on.
* `DeploymentProofs`, `DeployedAtRest`: `RestMeansDeployed`.  The invariant
  `WakeupInv` says where the memory is that the cached version of a Habitat has
  still to be deployed (`Remembered`): its key is marked, a StatefulSet event is
  on its way, a worker is about to read the cache or has read this version and
  will write it, or the StatefulSet is as that version says.  Every failure path
  ends in `Requeue`, every change of the StatefulSet by anyone raises its event,
  and every change of the cache marks the key.  Two steps break this account and
  are excluded (`Forgets`); section 5 names both, and without either exclusion
  the statement is false: `HandedOver`, an edit that hands the Habitat over to
  this operator by `customVersion` alone (`controller.go:672`), and
  `StsDeletionLost`, a re-list that finds a StatefulSet gone
  (`stateful_sets.go:408-413`).  What holds in spite of all disturbances is
  `HeardInv`: the cache of Habitats is the stored one or an event is on its way.
* `DeploymentProofs`, `PodsCurrentAtRest`: `RestMeansPodsCurrent`.  `RolloutInv`
  says of each pod that it has the template of its StatefulSet or a worker is
  about to delete the pods (`Replaces`), and of each worker between `GetSts` and
  `UpdateSts` that what it has read is the template still there (`Compares`),
  which needs mutual exclusion.  Excluded are the two steps that break it:
  `RolloutBroken`, an update or deletion whose answer is lost or which is never
  made, and `TemplateTampered`, a user's rewriting of the template.  The run
  `HalfRollout` shows the first to be needed, section 5 the second.  A crash is
  a broken rollout only between the two calls.
* `DeploymentProofs`, `DeploysOnlyOwn`: `OnlyOwnVersion`, though `conform` reads
  the Habitat again without looking at `customVersion`.  `OwnVersionInv`: a key
  is added only for a Habitat of the operator's own version, and no version
  behind an own one (in the watch, the store of the informer or the API server)
  is another's; so whatever `conform` finds is its own.  Excluded is
  `HandedAway`, an edit that gives a Habitat to another version; the run
  `ForeignVersion` shows that this is needed.  A Habitat that is created has the
  operator's own version in the model; one deleted and created again for
  another version would be a hand-over, too.
* `DeploymentProofs`, `NeverRollsBack`: `NoRollback`.  A version of a Habitat
  travels from the API server through the watch and the informer's
  store into the locals of a worker and then into the StatefulSet.  `OrderInv`
  says of each stage that nothing upstream of it is older.  Each step only
  moves a version one stage further (`VersionStep`), and generations at the
  source only grow (`StreamFromStable`), so a stage's bound stays a bound.  The
  last stage needs `OneWorkerPerHabitat`: two workers with two versions of one
  Habitat could write them in either order, as the update carries no resource
  version.
* `PeerProofs`, `CacheIsTrue`: `CachedCMIsStored`, as long as no update
  of a ConfigMap fails.  `SharedCMInv`: resource versions on the way only grow,
  and whoever holds the same copy of a version holds the same object,
  so that an assignment is seen by all of them.  `SentCMInv` adds, for each
  copy, that what differs from the stored value of the same version is about to be sent.
  `FailedWrite`, the step excluded, is what the run of that name finds.
* `PeerProofs`, `AloneKeepsLeader`: `LeaderNotEvicted`, as long as no two
  workers run `conform` in one namespace at once (`AloneInNamespace`); the run
  `LeaderRace` shows that this is needed.  It holds for one worker
  (`OneWorkerKeepsLeader`), and for any number of them if no two Habitats share
  a namespace (`OneHabitatKeepsLeader`).  `PastInv`: an IP that is cached,
  listed or stored was given to a pod before, and pods get fresh ones, so
  none that has been seen starts to run later.  `LeaderInv`: the list that a
  worker has made contains every running IP that is stored or cached, and when a
  worker is about to assign to or update the stored version of the ConfigMap,
  the IP in there does not run; this relies on `SharedCMInv`, as an update goes
  through only if the version it holds is the stored one.
* `PeerProofs`, `PeerValidAtRest`: `RestMeansPeerValid`.  The difficulty is that
  the ConfigMap belongs to no key: which worker has to look at it again, and who
  tells him?  `PeerInv` answers with an account of the wakeup for each change of
  the pods and of the ConfigMap.  `PodStream`: the news of a pod that is on its
  way ends with the pod's phase, and no two successive items are alike, so that
  `podNeedsUpdate` takes none for nothing.  `CMUpToDate`: the cached
  ConfigMap is the stored one or an event is on its way.  `Called`: somebody is
  still to look at the namespace, because a key is marked, a ConfigMap event is
  being handled, or pod news is on its way.  `Settled`: the
  peer IP is right, or the ConfigMap is on its way, or the namespace is called
  for, or a worker in it has not finished.  `Knows` gives a worker that finishes
  the right to be silent: what it has listed, chosen, and is about to send or to
  keep is a running IP, unless the namespace has been called for since
  (`FinishSettles`).  A step after which the namespace is not called for has
  changed no running pod (`QuietStep`).  Six things are excluded, and TLC
  violates `RestMeansPeerValid` itself when any one of them is allowed:
  - two workers in one namespace (not `AloneInNamespace`): the stale assignment
    of section 5, in 44 steps;
  - `FailedWrite`, the run of that name;
  - `PodEventsLost`: a broken watch whose re-list finds a pod gone loses the news;
  - `CMDeletionLost`: a re-list finds a ConfigMap gone, and the other Habitats of
    its namespace are not told (section 5);
  - `HandedOver`: a pod dies while the Habitat is another version's, and the
    edit that hands it back wakes nobody;
  - `Dismissed`: a wakeup is dropped because the Habitat it is about is
    not in the cache any more, while another Habitat of the namespace uses
    the same ConfigMap (section 5).

  Everything else may happen at any time: crashes, calls of other kinds that
  fail before or after their effect, users that interfere, re-lists that lose
  events of Habitats or deletions of StatefulSets, or change nothing.  One
  worker is alone (`OneWorkerPeerValid`).  If no two
  Habitats share a namespace, any number of workers is, and nothing is ever
  `Dismissed` (`OneHabitatPeerValid`).

For any informers, factories, workers and number of signals, `StartupProofs`
has `TypeCorrect`, `WorkersWaitForCaches`, `LateHandlersCatchUp`,
`OneRunNeverPanics` and `NothingRunsOn`.  Its invariant `IInv` has, besides the types, a part for
each thing the steps rely on:

* `SpawnedOnce`: what `FactoryStart`, `AddHandler` and `SpawnRuns` are still to
  spawn has not been spawned; without it a `Run` could start over, and close
  what it has closed.
* `ProcInRun`, `OwnersKnown`: the processor lives in its `Run` and closes
  nothing before that stops; a `Run` that has begun has made a controller.
* `PopsKnown`: who started the `pop`s of a listener and who closed its
  channels.  A second close takes two processors that have been up, hence two
  `Run`s, which is `PanicMeansDoubleRun`.
* `PolledIsFilled`: `WaitForCacheSync` has got past an informer only when its
  store was filled, whichever controller answered; stores are not emptied.

`NothingRunsOn` is `DoneBeforeExit` and adds `EndsClean`: a `Run` ends with its
processor closed and the `pop`s of its informer gone, only a second `Run` starts
new ones, and `controller.Run` returns when all of its own have ended.  `IInv` was an
invariant of TLC on one and on two informers before it was proved.

For any operators and bounds, `CRDRegistrationProofs` has `TypeCorrect`,
`RegistrarIsAlone` and `RegistrationLasts`.  The last two need each other (`RegistrarsCRD`): who waits for
the CRD has created it, so it exists and nobody else can create one; and it is
not registered yet, since only he would see it established.

For every spec, `StatefulSetSpecProofs` has `MountsResolve` (each mount refers to
exactly one of a volume and a claim), `VolumesAreDistinct`, `CountKeepsTemplate`,
`ReplicasWrap` (what the truncation to `int32` does) and `SecretsAreChecked`: of
a StatefulSet that is built, every volume with configuration or files is filled
from a secret that was found where the pods are, and that of the ring key from
one that was found in the namespace `default`.

The assumptions are about the constants: `ChanCapAssumption`, that the channel
has a capacity of at least one; `ClusterAssumption`, types of the cluster's
constants, that `None` is no object, and that a Habitat that exists initially
has its first generation; `InformersAssumption`, that `Order` has each informer
once; `BoundsAssumption` and `OperatorsAssumption`, types; `RingAssumption`, that
no name of a volume of the operator ends with the revision of a key;
`WidthAssumption`.  The cluster is as `Cluster` describes it, and `appliedGen` is
a history variable that no step reads.

Model-checked only: all liveness, which with its fairness is out of the prover's
reach, and that the exclusions above are needed, which the runs that expect a
violation show, and for the others TLC on small instances named above or in
section 5.  Every safety invariant and action property of a run has a theorem,
some with exclusions that the runs' instances respect by their scenarios.
`NoRollback` and its proof take each informer to deliver one
stream in order: of an informer that runs twice, two reflectors may fill one
store (see section 6).

## 5. Disagreements found

* `LeaderRace`: with two workers, the running pod's IP can be removed from the
  ConfigMap by a worker that listed the pods earlier, against the comment at
  `controller.go:459-460`.  A later ConfigMap event repairs it.
* `FailedWrite`: `writeLeaderIP` changes the cached ConfigMap before it sends
  it.  If the update fails, every retry and resync finds the new IP in the
  cache, believes the leader to be up, and never sends it (`doc/design.md:43-47`).
  The same assignment also races between workers without any failure: on the
  instance of `TwoWorkers`, `RestMeansPeerValid` is violated when worker 2
  assigns a stale IP to the object after worker 1 assigned the right one and
  before worker 1 sends it; both send what is stored already, and only the next
  resync repairs it.
* `HalfRollout`: a crash or error between the update of the StatefulSet and the
  deletion of its pods leaves pods of the old template for good, against
  `stateful_sets.go:152-155` and `doc/design.md:23-27`.
* `ForeignVersion`: only `enqueue` looks at `customVersion` (`controller.go:533`);
  `conform` reads the Habitat again (590) and deploys one that has been handed
  to another version while its key was queued, against `doc/design.md:70-72`.
* `Termination`: an informer that its factory has found registered is run a
  second time by `controller.Run`.  On the first signal both stop the same
  listener, and the second to close its channel panics, against the "exiting
  gracefully" of `main.go:143`.

More follows from the code without a run of its own:

* Cancelled before the caches have synced, `controller.Run` returns without
  `queue.ShutDown` and without waiting for its informers (`controller.go:186-188`).
* `DeltaFIFO.Close` broadcasts without the lock that `Pop` holds between its
  look at `closed` and its wait (`delta_fifo.go:141-146, 427-431`).  A wake-up
  that comes in between is lost, `wg.Wait` of `Run` waits for the informer, and
  the process stays until a second signal: hence the exception in
  `StopsUnlessMissed`.
* An operator that starts while the CRD is terminating takes AlreadyExists for
  success (`main.go:165`) and runs without a CRD: the exception in
  `EventuallyServed`.
* The deletion of a pod wakes only the key of the Habitat it belongs to, and
  nobody when that one is not cached any more (`controller.go:395-405`; `conform`
  returns early for it as well, 594-598).  Of two Habitats in a namespace, delete
  the one whose pod is the leader: if the ConfigMap is owned by the other, its
  dead IP stays there.  On the instance `Running(PodAndNone, {"delete"})`,
  `RestMeansPeerValid` is violated without any failure.  The ConfigMap's resync
  repairs it: `EventuallyPeerValid` holds there (611,000 states, too long for
  `Liveness`).
* A pod's deletion that is noticed by a re-list only arrives as
  `DeletedFinalStateUnknown`, which `handlePodDelete` drops
  (`controller.go:385-389`): the dead leader stays until the resync, too.
* So does the deletion of a StatefulSet, dropped by `handleStsDelete`
  (`stateful_sets.go:408-413`): a Habitat whose StatefulSet somebody deletes
  while the watch is broken is not deployed again before the resync of its
  namespace's ConfigMap.  On the instance `Running(OnlyH1, {"tamper", "relist"})`
  two steps violate `RestMeansDeployed`.
* And the deletion of a ConfigMap, dropped by `handleCM`
  (`controller.go:302-307`).  Delete the Habitat that owns it, and the other
  Habitats of the namespace are left without a peer ConfigMap; as none is cached,
  there is none whose resync would wake them: nine steps violate
  `RestMeansPeerValid` on the instance `Running(Each(NoPod), {"delete", "relist"})`
  with two Habitats, where it holds without the re-list.  One Habitat that is
  deleted and created again loses its ConfigMap in the same way (24 steps).
* An edit of `customVersion` alone wakes no worker (`controller.go:672`); the
  ConfigMap's resync makes good for it (`Handover`).
* A pod that starts from a user's template between the read and the update of
  the StatefulSet (`controller.go:627-633`) is not replaced: with `Tampering`,
  `RestMeansPodsCurrent` is violated in 33 steps.
* The ring's secret is looked up in the namespace `default`
  (`stateful_sets.go:306`), but mounted from that of the Habitat.
* A count above the largest `int32` becomes a negative number of replicas
  (`stateful_sets.go:37`).

## 6. Not modelled, and the plan

Left out for good: events recorded for users, logging, metrics; the generated
clients, listers and deep copies, which have no control of their own; the type
`HabitatStatus`, which nothing reads or writes; the flags and the client
configuration, of which only the failure is modelled (`BootFails`).

Not modelled yet, in the order of the plan:

1. The effect of an informer that runs twice on its store: two reflectors list
   and watch on their own, so an older version may follow a newer one in the
   store until the slower has caught up.  `Startup` has the life cycle of both
   `Run`s but no versions, `HabitatController` has versions but one stream.
2. `HabitatController` implements `WorkerPool` itself (its `conform` refines
   "returns nil or an error").  This takes a history variable for the key that a
   worker has last held, which the controller forgets.  That both
   implement `PendingWork` is proved.
