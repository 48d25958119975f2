# Verification of service-provider-ksm

TLA+ models of the KubeStateMetrics service provider, checked with TLC and
proved about with TLAPS. `src/` below is the repository. Line numbers without
a path are those of `src/internal/controller/kubestatemetrics_controller.go`.

## The system

The provider runs on the OpenMCP platform. A user creates a `KubeStateMetrics`
object on the *onboarding* cluster; the controller asks for access to the
object's *MCP* cluster with an AccessRequest on the *platform* cluster, deploys
kube-state-metrics there, reports the outcome in the object's status, and takes
everything down again when the object is deleted.

| Component | State it keeps | Operations | Interacts with |
|---|---|---|---|
| KubeStateMetrics controller (`internal/controller/kubestatemetrics_controller.go`) | the object's finalizer and status; the worker's local copies during a pass; the workqueue (key queued, delayed requeue) | `Reconcile`, `setupClusterAccess`, `handleDelete`, `deployKubeStateMetrics`, `cleanupKubeStateMetrics`, `resolveConfig` | calls the onboarding, platform and MCP API servers; woken by the watch on its objects and by its own requeues |
| Desired state (same file) | none | target namespace, ConfigMap hash, derived flags, pod template, labels | used by the controller |
| Status helpers (`pkg/runtime/status.go`) | phase, Ready condition, observedGeneration | `StatusProgressing`, `StatusReady`, `StatusTerminating` | used by the controller and by SPReconciler |
| SPReconciler (`pkg/runtime/spreconciler.go`) | the same kind of object; the current ProviderConfig in an atomic pointer | `Reconcile`, `createOrUpdate`, `delete`, `areAccessRequestsInDeletion`, `clusters`, `updateStatus`, the channel handler | calls a domain reconciler and a ClusterAccessProvider through interfaces; fed by PCReconciler through a channel |
| PCReconciler (`pkg/runtime/pcreconciler.go`) | none of its own; the channel | `Reconcile` | reads the ProviderConfig, sends it to SPReconciler |
| ProviderConfig controller (`internal/controller/providerconfig_controller.go`) | none | logs a line | watches the platform cluster |
| Commands (`cmd/service-provider-ksm/main.go`) | the process; TLS options of two servers; what the manager runs | `init`: wait for the onboarding cluster, install CRDs, register the GVK; `run`: wait for it too, assemble the TLS options, build the manager with two controllers, start it | platform and onboarding clusters; each other, through the CRDs |
| Cluster access (library openmcp-operator) | AccessRequests | `Reconcile`, `MCPCluster`, `ReconcileDelete` | external; the platform grants and revokes |

The binary runs the KubeStateMetrics controller and the ProviderConfig
controller. SPReconciler and PCReconciler are exported by the repository and
covered by its unit tests but not wired into `main.go`; the two are modelled
because they are the repository's own statement of what such a loop should do,
and the contrast with the hand-written controller is instructive.

What is hard here:

- **Partial failure.** A pass makes up to fifteen API calls on three clusters;
  each may fail, and a restart may come between any two. What was done so far
  must be completed or undone by a later pass.
- **Interleaving.** Users edit, delete and re-create the object during a pass;
  updates carry a resourceVersion and conflict, status patches do not.
- **Ordering.** Access must outlive the objects it is needed to remove, and the
  finalizer must outlive the access.
- **Liveness without watches.** The ConfigMap and the MCP objects are polled.
- **Stale reads.** The readiness check reads replica counts that may belong to
  an older pod template; the status is sent as a diff against an older copy.
- **Two processes.** Leader election is off by default: in a rolling update the
  old and the new process work on the same object. `init` and `run` are started
  in no particular order.
- **Feed of the ProviderConfig.** Events through a channel, with failed reads
  sent as "none", and a fan-out that may fail.

What makes each component correct, in short: the controller leaves nothing
behind, never runs the workload without its permissions, reports what is
deployed, and converges; the generic loop does the same through its interfaces
and follows the current ProviderConfig; the feed ends up with the current
ProviderConfig; the renderer derives the documented flags and a hash that
changes with the data; `init` announces the provider only when its CRDs are
there, and `run` ends up running both controllers with its servers configured
as its flags say.

## Modules

| Module | Models | Built on |
|---|---|---|
| `KsmDesired` | desired state and status as constant-level operators | - |
| `KsmController` | the controller, one object, its worker, the three clusters' relevant state, users, platform, crashes | `KsmDesired`, `ServiceLifecycle` |
| `ServiceLifecycle` | the abstract specification: what a provider promises of one object | - |
| `MCKsmController` | instances for TLC | `KsmController` |
| `KsmHandover` | two processes with the controller on one object | two instances of `KsmController` |
| `KsmRender` | arguments, labels, selector and hash, rendered again after changes | `KsmDesired` |
| `MCKsmRender` | an instance for TLC | `KsmRender` |
| `StatusClock` | the Ready condition with its transition time | - |
| `Bootstrap` | the commands `init` and `run` | - |
| `KsmControllerProofs` | theorems about the controller's passes | `KsmController` |
| `KsmCleanupProofs` | theorems about what is left on the MCP cluster, and the refinement | `KsmControllerProofs` |
| `KsmDeployProofs` | theorems about what is deployed and published | `KsmCleanupProofs` |
| `KsmRenderProofs` | theorems about the rendering | `KsmRender` |
| `BootstrapProofs` | theorems about the two commands | `Bootstrap` |
| `ProviderConfigFeed` | PCReconciler, the channel, the handler's first half | - |
| `SPRuntime` | SPReconciler for one object, with the feed | `ProviderConfigFeed`, `ServiceLifecycle` |
| `MCSPRuntime` | instances for TLC | `SPRuntime` |
| `ProviderConfigFeedProofs` | theorem about the feed | `ProviderConfigFeed` |
| `SPRuntimeProofs` | theorems about the generic loop | `SPRuntime`, `ProviderConfigFeedProofs` |

### KsmController

State. `obj` is the object on the onboarding cluster: generation, spec,
deletion timestamp, the controller's own finalizer, whether a finalizer of
somebody else is there, and status. `dirty` and `timer` are the workqueue; `pc`
names the API call the worker makes next and `held` its local copies (`ksm`,
the status of `oldKsm`, the result of `resolveConfig`). `stale` says that the
object was written by somebody else since the worker's last read or write: it
stands for the comparison of resourceVersions, so `Update` succeeds exactly
when it is false. `access` is the AccessRequest; `objects`, `subject`,
`rollout` and `config` are what exists on the MCP cluster: the managed objects,
the subject of the ClusterRoleBinding, per namespace the Deployment's template,
the template of the pods that last became ready and their readiness, and the
user's ConfigMap.

Actions. Every API call is an action, with a second one (`...Fails`) for its
failure; what the code does locally between two calls is part of the first.

- `GetObject` is lines 96-121: the four ways a read object is treated, with
  `StatusProgressing(ksm, "Reconciling")` on the copy. The client of the
  onboarding cluster reads the API server and not a cache (its cluster is never
  added to the manager), so the read is current when it is made.
- `AddFinalizer`, `UpdateTerminating`, `RemoveFinalizer`: the three writes that
  carry a resourceVersion. The failure of the status write is ignored, as in
  the code; the other two end the pass with an error.
- `ReconcileAccess`, `MCPCluster` and their failures are `setupClusterAccess`,
  shared by live and deleting passes, which answer its outcomes differently.
- `ApplyNamespace` ... `CheckReadiness` are `deployKubeStateMetrics` in its
  order. `CreateOrUpdate` is atomic: the objects on the MCP cluster have one
  writer per name, and an update that loses against somebody else fails, which
  `DeployFails` allows.
- `PatchStatus` is every way out of a live pass after that. It sends the fields
  that changed between the two local copies (`MergePatch`), the conditions as
  one list: they are all sent when anything of them changed. In a pass that ends
  Ready the condition went to False and back, so its transition time is new,
  the patch is never empty and its event may wake the controller again.
- `DeleteService` ... `DeleteServiceAccount` are the cleanup in its order, and
  `ReleaseAccess` is `ReconcileDelete`.
- Users create, edit, move (`spec.namespace`), delete the object, write the
  ConfigMap and remove managed objects; the platform grants and revokes; the
  Deployment controller rolls pods out, during which readiness may come and go
  (`RolloutWave`); a pod fails; the process restarts.

Abstractions. The workload part of a spec (image, replicas, args, resources,
selectors, security context) is one model value: the controller copies it and
nothing in it decides anything (an empty image is refused by the CRD's
validation). SHA-256 is injective, and a hash is represented by the bytes it
digests. A Deployment's readiness is one Boolean. RequeueAfter of different
lengths and the error back-off are the same `timer`. The library's
`ReconcileDelete` is modelled in both plausible forms, by `ReleaseAtOnce`:
the AccessRequest is gone when the call returns, or the call deletes it and asks
to be called again until it is found gone, which is what lines 227-229 are for.
While a revoked AccessRequest still exists its kubeconfig may work.

### SPRuntime and ProviderConfigFeed

`pcObject` is the ProviderConfig on the platform cluster; `pcQueued`, `pcCall`,
`notify`, `pcRetry` are PCReconciler's queue and pass; `channel` holds what was
sent; `stored` is SPReconciler's pointer; `listing` says that the handler has
stored an event and is about to list the objects. A delayed requeue is a queued
key: when the worker takes it is open anyway.

In `SPRuntime` the object has a phase for a status, `access` is one
AccessRequest per cluster (`mcp`, and `workload` with `WithWorkloadCluster`),
and `deployed` is the ProviderConfig the domain reconciler last deployed the
service with. The domain reconciler may succeed, ask to be called again, or
fail before or after its effect. The handler's List may fail each time, without
a budget, as it does when `emptyObj` makes objects without a kind; `unlisted`
remembers that it failed for the last event. `AddFinalizer` is `controllerutil.CreateOrUpdate`:
it reads the object again, so what follows works on a fresh copy while the
branch (live or deleting) was chosen by the first read; if the object is gone,
the creation that `CreateOrUpdate` then tries is refused because the copy has a
resourceVersion. `PatchStatus` leaves the worker with the server's answer, so a
later `Update` does not conflict with writes before the patch. `Polling` is the
set of ProviderConfigs whose interval is not 0.

### ServiceLifecycle

Three variables: `owner` (the object with the provider's finalizer: none, live
or leaving), `access` (none, waiting, open) and `deployed`. Its eight actions
say in which order they may change: claim, request, open, deploy; leave,
withdraw, release, forget. `KsmController` and `SPRuntime` map their states to
it (`OwnerState`, `AccessState`) and have the property `ImplementsLifecycle`:
every step of theirs is one of the eight or changes none of the three. For the
controller `deployed` is "some managed object other than the Namespace exists",
so that the steps in the middle of a deployment or a cleanup are stutters; for
the generic loop, whose access is one AccessRequest per cluster, `access` is
open only when all are granted.

The property is more than the invariants: it forbids that anything is taken from
an object that is not deleted, that a deletion is undone, and that two of the
three change at once.

### KsmHandover

The new process is `KsmController` itself. The old one is a second instance of
it with its own `pc`, copies and `stale`, on the same object, access and MCP
cluster; its queue is always full, so it makes a pass whenever it is there, at
most `MaxOldPasses` of them, and is cut off at any call or not at all. A write
of one process makes the other's copy stale and its key queued. What the two
calls of a `CreateOrUpdate` may see of each other is a conflict, which ends a
pass as any error does.

Only liveness is promised here: `NoOrphans` and `AccessHeldOnlyUnderFinalizer`
do *not* hold. A live pass of the old process that goes on after the new one
has let the object go asks for access again and deploys again, and nothing is
left that would clean up. With `--leader-elect` this cannot happen.

### KsmRender

The inputs are an image reference (registry with or without a port, tag, digest),
arguments, a node selector and a ConfigMap; `Render` writes the Deployment, and
`Change` replaces one input. An image is the sequence of tokens its text is made
of, so that `SplitLast` does what the loop does. `Rendered` takes the flags by
successive prepends as the code does, while the property compares with the
README's table of scenarios. `PodsDependOnTemplate` is what justifies that
`KsmController` keeps only `Template` of all this.

### StatusClock

The passes over one deployed object with a clock of whole seconds, as
`metav1.Time` is stored. `SetStatusCondition` moves the time of the local copy
when its status changes, which happens twice in every Ready pass.

### Bootstrap

One process per command. `initPc` and `runPc` name the call made next, `Down`
that the process is not there; it is started again. `requests` are the two
AccessRequests for the onboarding cluster, which stay when a process gives up on
them. `crds` and `registered` are what `init` leaves behind. `memory` and
`tlsOpts` model the slices of TLS options as Go has them, an array with a
capacity and cells, and a length: the slices of both servers start as one
(`webhookTLSOpts := tlsOpts`) and both may be appended to. `runnables` is what
was added to the manager, `started` the controllers whose sources have synced;
a source syncs once its CRD is there, the client knows the type, and the cache
of its cluster runs, and the process exits if one does not. All combinations of
flags are initial states.

## Runs

The runs of the controllers and of `Bootstrap` have `CHECK_DEADLOCK FALSE`: with
its budget of user actions and faults spent, a system without an object, or with
both commands done, rightly stops.

| Run | Checks | Instance, and what it shows |
|---|---|---|
| `KsmLifecycle` | `TypeOK`, `NoOrphans`, `AccessOutlivesObjects`, `RbacCoversWorkload`, `ReadyDescribesDeployment`, `ImplementsLifecycle` | one namespace, two workloads (symmetric), one ConfigMap content, 4 user actions of create, edit, delete, config, 2 faults of onboarding, mcp, crash; `ReconcileDelete` waits |
| `KsmConverge` | `AccessHeldOnlyUnderFinalizer`, `NeverForgotten`, `Converges`, `DeletionCompletes` | two namespaces, creation, edits of the namespace, ConfigMap writes, removals by others and deletion (3), one fault of any kind; `ReconcileDelete` waits |
| `KsmHandover` | `Converges`, `DeletionCompletes` | creation, deletion, re-creation (3), one pass of the old process, whole or cut off; no other faults; `ReconcileDelete` waits |
| `KsmRender` | `ArgsFollowScenario`, `VersionOfTaggedImage`, `RestartsOnConfigChange`, `PodsDependOnTemplate` | 16 workloads, 36 ConfigMaps and none; every rendering and every change of one input |
| `Runtime` | `TypeOK`, `SettledConfigIsCurrent`, `ServiceIsOwned`, `AccessIsOwned`, `DeletionNeverRenewsAccess`, `ImplementsLifecycle`, `ConfigReachesService`, `DeletionCompletes` | both clusters, two ProviderConfigs, one with a poll interval, 2 user actions, 2 writes, 1 fault, any number of failed Lists; `ReconcileDelete` waits |
| `Bootstrap` | `TypeOK`, `RegisteredMeansInstalled`, `ServersAsConfigured`, `InitCompletes`, `RunServes` | all flags, 3 faults in either process |
| `KsmOrphanAccess` | `NoOrphans` (violated) | one failed access call during a deletion: cleanup is skipped, everything on the MCP cluster stays |
| `KsmOrphanRename` | `NoOrphans` (violated) | create, edit of `spec.namespace`, delete: the old namespace's objects stay |
| `KsmEndlessDeletion` | `DeletionEnds` (violated) | create, delete, no fault; `ReconcileDelete` waits: the AccessRequest is found gone, created, released and waited for, again and again |
| `KsmStaleReady` | `ReadyMeansRolledOut` (violated) | Ready for a new generation whose pods are not rolled out |
| `RenderVersion` | `VersionIsTag` (violated) | the digest of an image becomes the version label, which the API server refuses; so does the path after a registry's port |
| `StatusClock` | `TransitionMovesTheTime` (violated) | a pass over a Ready object moves its lastTransitionTime |

The bounds. One object is enough: passes of different objects share no state
(one MCP cluster per object, one key per worker). Three user actions allow
create, change, delete and, with four, a re-creation that meets the remains of
its predecessor; two faults allow a failure and a second one during the retry.
Two workloads are enough to tell old from new; two namespaces, old place from
new. The channel holds one event, so that sending blocks. `KsmLifecycle` leaves
out two things on purpose, and the violation runs show why: failures of the
access calls (`KsmOrphanAccess`) and edits of the namespace (`KsmOrphanRename`).
Deletions by third parties on the MCP cluster are left out there too, since they
may break `RbacCoversWorkload` without the controller's doing. `Runtime` allows
two user actions, which are creation and deletion or an edit; what re-creations
add to its safety properties is covered by the theorems, which bound nothing.
In `KsmHandover` users leave the namespace to its default and nothing is edited,
since what the processes do to each other's creations and deletions does not
depend on it. `KsmConverge` has one fault: the liveness properties are about
what follows the last one, and what several faults do to its two invariants is
covered by their theorems. The values of `KsmRender`'s
ConfigMaps hold newlines and what looks like lines of other keys, whole and
without their newline, because that is where a hash over concatenated lines can
go wrong.

Fairness. `FairSpec` gives weak fairness to the worker as a whole (the manager
runs it whenever a key is queued, and each call returns), to delayed requeues,
to the platform's granting and revoking, to the removal of foreign finalizers,
and to a rollout's completion. Nothing is assumed of users, of faults, or of
the waves of a rollout. In `SPRuntime` PCReconciler's worker and the handler are
goroutines of their own and get weak fairness of their own. In `KsmHandover` the
old process's pass goes on unless it is cut off, but need never start. In
`Bootstrap` the kubelet starts both containers again and each makes its calls;
that a wait for a granted AccessRequest ends before its timeout follows from
weak fairness of the call, since giving up on one that is granted is not
possible, and nothing is assumed of faults beyond their bound.

In the generic loop `KsmOrphanAccess` has no counterpart:
`areAccessRequestsInDeletion` is checked first, and a deleting pass that cannot
set up its clusters ends with the error (`ServiceIsOwned`,
`DeletionNeverRenewsAccess`). The controller makes no such check: a deleting pass
that finds its AccessRequest gone creates it again.

The repository does not say which form of `ReconcileDelete` the library has, but
the code has a branch for the one that waits. All passing runs of the controller
take that form; the other is taken by `KsmOrphanAccess`, `KsmOrphanRename` and
`KsmStaleReady`, whose traces do not need it, and is covered by the theorems.
With the waiting form the deletion of a single object may go round without end
(`KsmEndlessDeletion`). `DeletionCompletes` of the controller says that this is
the only way a deletion can fail to end: an object that stays deleted forever
has its AccessRequest created and gone infinitely often, so failures, conflicts,
restarts and a second process keep no deletion from its end by themselves.
`KsmConverge` and `KsmHandover` check it.

"Any provider config change results in a reconcile request"
(`pcreconciler.go:33-34`) is more than the code keeps, since the handler of the
channel drops the requests when its List fails (`spreconciler.go:376`).
`ConfigReachesService` states what is left of it: the service follows the
current ProviderConfig unless the last List failed and the ProviderConfig it was
deployed with has no poll interval (`LeftBehind`). Neither the fan-out nor the
polling alone would do, as one of the two ProviderConfigs does not poll and a
List may fail.

## Proofs

All theorems hold for every value of the constants, under the assumptions the
modules name: `DefaultNamespaceAssumption` (the default namespace is one of the
namespaces), `BoundsAssumption`, `RuntimeAssumption` and `FeedAssumption` (types
of the bounds and switches; one cluster or two), and the two `NullsAssumption`s
(the values for "no object" and "no pass" are not objects or passes). For
`KsmRender` they are that tags are strings without a colon and not empty
(`TagsAssumption`, the grammar of references), that arguments are strings
(`WorkloadsAssumption`), and that the data of a ConfigMap map some of the three
keys to sequences (`ConfigDataAssumption`); lists and values have any length.
Sets of
namespaces, workloads and ConfigMap data, the budgets of user actions and
faults, and the kinds of fault are arbitrary.

Some theorems about the controller have hypotheses of their own, stated in
`KsmCleanupProofs` and named in the third column. They are restrictions of the
environment, not of the code, and the code needs them:

- `AccessAnswers`: the calls about the AccessRequest do not fail (`"access"` is
  not among the faults). `reconcileDelete` takes the finalizer off although it
  could not set up the access, and leaves everything behind; `KsmOrphanAccess`
  is the run that finds it. Every other call may fail at any time.
- `NamespaceStays`: users do not edit `spec.namespace`. The cleanup looks only
  where the spec points now; `KsmOrphanRename` is the run.
- `NobodyElseRemoves`: the managed objects are removed by nobody but the
  controller. Somebody who deletes the ClusterRole takes the permissions from
  under the Deployment until the next pass.

`KsmLifecycle` checks the same properties on an instance that satisfies all
three.

| Module | Theorem | Establishes (hypotheses) |
|---|---|---|
| `KsmControllerProofs` | `TypeCorrect` | `TypeOK` |
| | `PassIsGuarded` | `FinalizerGuardsPass`: a pass that acts does so under the finalizer |
| | `AccessReleased` | `AccessHeldOnlyUnderFinalizer` |
| | `NoLostWakeUp` | `NeverForgotten` |
| `KsmCleanupProofs` | `AccessOutlives` | `AccessOutlivesObjects` (`AccessAnswers`, `NamespaceStays`) |
| | `NothingLeftBehind` | `NoOrphans` (`AccessAnswers`, `NamespaceStays`) |
| | `ControllerImplementsLifecycle` | `ImplementsLifecycle`: the controller implements `ServiceLifecycle` (all three) |
| `KsmDeployProofs` | `PermissionsFirst` | `RbacCoversWorkload` (all three) |
| | `ReadyIsDescribed` | `ReadyDescribesDeployment` (`NobodyElseRemoves`) |
| `KsmRenderProofs` | `ArgumentsFollow` | `ArgsFollowScenario` |
| | `LabelIsTag` | `VersionOfTaggedImage` |
| | `PodsFollowTemplate` | `PodsDependOnTemplate` |
| | `ChangesRestart` | `RestartsOnConfigChange` |
| `BootstrapProofs` | `BootstrapTypeCorrect` | `TypeOK` |
| | `InstalledBeforeRegistered` | `RegisteredMeansInstalled` |
| | `ServersHaveTheirOptions` | `ServersAsConfigured` |
| `ProviderConfigFeedProofs` | `ConfigSettles` | `SettledConfigIsCurrent` of the feed alone |
| `SPRuntimeProofs` | `RuntimeConfigSettles` | `SPRuntime` implements the feed, hence `SettledConfigIsCurrent` |
| | `RuntimeTypeCorrect` | `TypeOK`, with the channel within its capacity |
| | `NoServiceLeftBehind` | `ServiceIsOwned` |
| | `NoAccessLeftBehind` | `AccessIsOwned` |
| | `NoRenewal` | `DeletionNeverRenewsAccess` |
| | `RuntimeImplementsLifecycle` | `ImplementsLifecycle`: `SPRuntime` implements `ServiceLifecycle` |

**The controller.** The inductive invariant is
`IInv == TypeOK /\ PassGuarded /\ AccessGuarded /\ NeverForgotten`.
`AccessHeldOnlyUnderFinalizer` is not inductive: the step that takes the
finalizer off keeps it only because the access is absent by then
(`AccessGuarded`), and the step that creates an AccessRequest keeps it only
because the pass it belongs to runs under the finalizer (`PassGuarded`). That in
turn needs that nobody but `RemoveFinalizer` takes the finalizer off
(`OwnedStep`), and that the update which adds it is refused when the copy is
stale. `AccessCreated` says that only `ReconcileAccess` creates an AccessRequest.
The proof has one lemma per part of the invariant, and in it one step per
action.

**What is left behind.** `CleanupInv` adds four things to `IInv`. `CopyAgrees`:
a pass stays live or deleting as it began, its copy, stale or not, names the
object's namespace, and a live pass never meets an AccessRequest under
revocation. `AccessFits`: access is revoked only for an object that is being
deleted, and is granted while anything is left. `InPlace`: what exists belongs
where the spec points. `CleanupOrder`: which kinds each call of the cleanup
finds gone, so that after the last one nothing is left and the access may be
released. Neither theorem could be proved without the order: the release is
safe only because the six removals before it, in one pass and in one namespace,
each succeeded or found nothing.

**What runs and what is published.** `RbacInv` adds to `CleanupInv` the
deployment's order, which service account, role and binding exist at which call
(`DeployOrder`); the binding's subject is part of it. That a cleanup removes the
Deployment before the binding is `CleanupOrder` again. For
`ReadyDescribesDeployment`, `StatusInv` ties the two copies of a pass to the
server's object and to the Deployment: the old copy is the status the server
has, since nobody else writes it, so that the diff sent leaves exactly the
pass's own copy (`StatusFits`); that copy says Ready only once readiness was
found, and names its own generation (`PhaseFits`); and it holds the source and
hash of the ConfigMap resolved in this pass, from which the Deployment in place
was rendered (`ConfigFits`). It needs neither of the first two hypotheses.

**The rendering.** The state machine needs only that the Deployment is what its
last inputs make (`RenderInv`); the rest is about the operators.
`ArgsAreFlagsThenOwn` turns the prepends into one list of flags before the own
arguments. `AfterLastColon` says that `splitLast` finds the last colon of any
reference. `HashTellsDataApart` is the argument for `computeConfigMapHash`: take
two serialisations that are equal and begin with a line of the same key; if one
value were shorter, its newline would lie within the other value or at its end,
and what comes next, another key and an equals sign, would have to lie there
too, which a plain value excludes (`PlainValueEnds`). So the lines come apart
one by one (`LinesComeApart`), and with three keys no induction is needed.

**The commands.** `InstalledFirst`: registered, or about to be, the provider has
both its kinds installed.
`SlicesFit` describes the slices of the two servers and the arrays behind them:
once built, each holds its own server's options, and, the point of the proof, a
server that has not appended yet holds a slice that fills its array, so that an
`append` of the other server's certificate copies and never writes into the
shared array. `WatchersAdded` says which certificate watchers the manager has.

**The feed.** `FeedInv` says that the current ProviderConfig is under way: the
key is queued, the object is about to be read, the event about to be sent is the
current one or a retry follows it, or the last event sent (the pointer, when the
channel is empty) is the current one. A full channel, the nil sent for a failed
read and a restart all preserve it. The generic loop's steps are steps of the
feed or leave its variables alone (`StepOfFeed`), so its specification implies
the feed's and inherits the theorem.

**The generic loop.** `IInv == TypeOK /\ FreshCopyExists /\ PassHasConfig /\
Ownership`. Here even the types need an argument: the last update writes the
worker's copy, and only a copy that is not stale is of an object that exists
(`FreshCopyExists`); a deployment uses the pass's copy of the ProviderConfig,
which is there because a pass without one ends at the status patch
(`PassHasConfig`). `Ownership` adds to the two safety properties what each call
may rely on: that access is requested and used under the finalizer, that the
service is gone when release begins and the access is absent when the finalizer
goes, that a deleting pass cannot meet an object of the same name that is owned
and not deleted, and what `areAccessRequestsInDeletion` has established.

**The refinements.** Under `IInv`, a step of the generic loop changes at most one
of the three mapped values. `OwnerMapped`, `AccessMapped` and `ServiceMapped`
say what each kind of step does to one of them (`SameMapping` to none):
finalizers come and go with `AddFinalizer`, users and `RemoveFinalizer`, access
with `ReconcileAccess`, the platform and `ReleaseAccess`, the service with
`CreateOrUpdate` and `Delete`. What the lifecycle demands of the other two at
that moment is `Ownership`: the finalizer goes only when access is absent,
access is released only when the service is gone, and the service changes only
while every access is granted. `StepOfLifecycle` puts them together. The controller's refinement
goes the same way under `CleanupInv`, with lemmas of the same names
(`OneWritten` says that one value changes at most); there the service is what
is left on the MCP cluster, and `InPlace` and `CleanupOrder` take the place of
`Ownership`.

Only model-checked: all liveness properties, that is `Converges`,
`DeletionCompletes` of the controller alone, handed over and in the generic
loop, `ConfigReachesService`, `InitCompletes` and `RunServes`; they rest on
fairness and `ENABLED`, with which the prover does not reason. Every invariant
and every action property of a passing run is a theorem.

## Not modelled

- The constants of the manifests (probes, ports, strategy) and the fields copied
  from the spec as they are (resources, pull secrets, security context).
- The ProviderConfig controller's `Reconcile`, which only logs; the documented
  `pollInterval` and `defaultVersion` are read by nothing the binary runs
  (161-165 requeue after fixed times).
- Generated deep copies, logging, the parsing of flags, the health probes and
  the variations of the metrics server's options that are not about its
  certificate: authentication and a server that is switched off (`main.go:305-317`).
- The rules of the AccessRequest and of the ClusterRole (590-636, 274-298): they
  are constants, and one that is missing fails the first deployment.
- The end-to-end tests; their table of scenarios is what `KsmRender` compares
  the arguments with.

## Plan

1. `KsmDesired`, `KsmController` with its runs, `KsmControllerProofs` - done.
2. `ProviderConfigFeed`, `SPRuntime` with their runs and theorems - done.
3. `ServiceLifecycle`, implemented by both; the theorem for `SPRuntime` - done.
4. `KsmRender`, `StatusClock`, `KsmHandover`, `Bootstrap` - done.
5. The theorems for the controller's cleanup, deployment and refinement, for
   `KsmRender` and for `Bootstrap` - done.
6. Next: the safety part of `KsmHandover`, which of the controller's invariants
   survive a second process.
