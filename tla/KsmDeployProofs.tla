---------------------------- MODULE KsmDeployProofs ----------------------------
(***************************************************************************)
(* Proofs about what the controller deploys and what it then publishes:    *)
(* the workload always has its permissions, and a status that says Ready   *)
(* describes the Deployment that is there.                                 *)
(***************************************************************************)
EXTENDS KsmCleanupProofs

-------------------------------------------------------------------------------
(* The permissions of the workload                                         *)

(* What a deployment has created so far and still finds.                   *)
Applied(kind, calls) == pc \in calls => Managed(kind, namespace) \in objects

BeforeDeployment ==
  {"ApplyClusterRole", "ApplyClusterRoleBinding", "ResolveConfig",
   "ApplyDeployment"}

DeployOrder ==
  /\ Applied("ServiceAccount", BeforeDeployment)
  /\ Applied("ClusterRole", BeforeDeployment \ {"ApplyClusterRole"})
  /\ Applied("ClusterRoleBinding", {"ResolveConfig", "ApplyDeployment"})
  /\ pc \in {"ResolveConfig", "ApplyDeployment"} => subject = namespace

RbacInv == CleanupInv /\ DeployOrder /\ RbacCoversWorkload

(* Who writes the binding's subject.                                       *)
LEMMA SubjectWriters ==
  ASSUME [Next]_vars, subject' # subject
  PROVE  ApplyClusterRoleBinding \/ DeleteClusterRoleBinding \/ Drift
<1> USE DEF mcpVars
<1>1. CASE Start \/ GetObject \/ GetFails \/ AddFinalizer \/ UpdateFails
           \/ UpdateTerminating \/ UpdateTerminatingFails \/ TimerFires
           \/ Access
  BY <1>1 DEF Start, GetObject, GetFails, AddFinalizer, UpdateFails,
       UpdateTerminating, UpdateTerminatingFails, TimerFires, FailPass, Access,
       ReconcileAccess, ReconcileAccessFails, MCPCluster, MCPClusterFails,
       ReportError
<1>2. CASE Deploy \/ Cleanup
  BY <1>2 DEF Deploy, ApplyNamespace, ApplyServiceAccount, ApplyClusterRole,
       ResolveConfig, ApplyDeployment, ApplyService, ApplyPodDisruptionBudget,
       CheckReadiness, DeployFails, ReportError, Cleanup, DeleteService,
       DeletePodDisruptionBudget, DeleteDeployment, DeleteClusterRole,
       DeleteServiceAccount, CleanupFails, FailPass
<1>3. CASE PatchStatus \/ PatchStatusFails \/ Release
  BY <1>3 DEF PatchStatus, PatchStatusFails, Release, ReleaseAccess,
       ReleaseAccessFails, RemoveFinalizer, FailPass
<1>4. CASE Users
  BY <1>4 DEF Users, UserCreate, UserEdit, UserRenamespace, UserDelete,
       ObjectWritten, ConfigWrite
<1>5. CASE Environment
  BY <1>5 DEF Environment, Grant, Revoked, ForeignRelease, ObjectWritten,
       Crash, RolloutWave, RolloutDone, PodFails
<1>6. CASE UNCHANGED vars
  BY <1>6 DEF vars
<1> QED BY <1>1, <1>2, <1>3, <1>4, <1>5, <1>6 DEF Next, Reconcile

(* The calls of a deployment follow one another.                           *)
LEMMA DeployEntered ==
  ASSUME [Next]_vars, pc' \in BeforeDeployment, ~(pc' = pc /\ held' = held)
  PROVE  ApplyServiceAccount \/ ApplyClusterRole \/ ApplyClusterRoleBinding
         \/ ResolveConfig
<1> USE DEF BeforeDeployment, EndPass, FailPass, Continue
<1>1. CASE Start \/ GetObject \/ GetFails \/ AddFinalizer \/ UpdateFails
           \/ UpdateTerminating \/ UpdateTerminatingFails \/ TimerFires
           \/ Access
  BY <1>1 DEF Start, GetObject, GetFails, AddFinalizer, UpdateFails,
       UpdateTerminating, UpdateTerminatingFails, TimerFires, Access,
       ReconcileAccess, ReconcileAccessFails, MCPCluster, MCPClusterFails,
       ReportError
<1>2. CASE Deploy \/ Cleanup
  BY <1>2 DEF Deploy, ApplyNamespace, ApplyDeployment, ApplyService,
       ApplyPodDisruptionBudget, CheckReadiness, DeployFails, ReportError,
       Cleanup, DeleteService, DeletePodDisruptionBudget, DeleteDeployment,
       DeleteClusterRoleBinding, DeleteClusterRole, DeleteServiceAccount,
       CleanupFails, OnMCP
<1>3. CASE PatchStatus \/ PatchStatusFails \/ Release
  BY <1>3 DEF PatchStatus, PatchStatusFails, Release, ReleaseAccess,
       ReleaseAccessFails, RemoveFinalizer
<1>4. CASE Users
  BY <1>4 DEF Users, UserCreate, UserEdit, UserRenamespace, UserDelete,
       ObjectWritten, ConfigWrite, Drift
<1>5. CASE Environment
  BY <1>5 DEF Environment, Grant, Revoked, ForeignRelease, ObjectWritten,
       Crash, RolloutWave, RolloutDone, PodFails
<1>6. CASE UNCHANGED vars
  BY <1>6 DEF vars
<1> QED BY <1>1, <1>2, <1>3, <1>4, <1>5, <1>6 DEF Next, Reconcile

(* But for a cleanup and somebody else, nothing is ever removed.           *)
LEMMA ObjectsStay ==
  ASSUME NobodyElseRemoves, [Next]_vars, ~Removes
  PROVE  objects \subseteq objects'
<1>1. ~Drift
  BY DEF Drift, User, NobodyElseRemoves
<1>2. CASE Applies \/ ConfigWrite
  BY <1>2 DEF Applies, ApplyNamespace, ApplyServiceAccount, ApplyClusterRole,
       ApplyClusterRoleBinding, ApplyDeployment, ApplyService,
       ApplyPodDisruptionBudget, CreateOrUpdate, ConfigWrite
<1> QED BY <1>1, <1>2, Writers

(* What a deployment has created it keeps until it ends: the cleanup is    *)
(* not under way.                                                          *)
LEMMA DeployOrderStep ==
  NobodyElseRemoves /\ IInv /\ DeployOrder /\ [Next]_vars => DeployOrder'
<1> SUFFICES ASSUME NobodyElseRemoves, IInv, DeployOrder, [Next]_vars,
                    pc' \in BeforeDeployment
             PROVE  DeployOrder'
  BY DEF DeployOrder, Applied, BeforeDeployment
<1>1. CASE pc' = pc /\ held' = held
  <2>1. /\ ~Removes /\ ~ApplyClusterRoleBinding /\ ~DeleteClusterRoleBinding
        /\ ~Drift
    BY <1>1 DEF Removes, DeleteService, DeletePodDisruptionBudget,
         DeleteDeployment, DeleteClusterRoleBinding, DeleteClusterRole,
         DeleteServiceAccount, ApplyClusterRoleBinding, OnMCP, Continue, Drift,
         User, NobodyElseRemoves
  <2>2. objects \subseteq objects' /\ subject' = subject /\ namespace' = namespace
    BY <1>1, <2>1, ObjectsStay, SubjectWriters DEF namespace
  <2> QED BY <1>1, <2>2 DEF DeployOrder, Applied
<1>2. CASE ApplyServiceAccount \/ ApplyClusterRole \/ ApplyClusterRoleBinding
           \/ ResolveConfig
  <2>1. namespace' = namespace
    BY <1>2, CopyKept
       DEF ApplyServiceAccount, ApplyClusterRole, ApplyClusterRoleBinding,
           ResolveConfig, UpdateTerminating, OnMCP, Continue, PastFinalizer,
           namespace
  <2> USE <2>1 DEF DeployOrder, Applied, BeforeDeployment, OnMCP, Continue,
                  CreateOrUpdate
  <2>2. CASE ApplyServiceAccount
    BY <2>2 DEF ApplyServiceAccount
  <2>3. CASE ApplyClusterRole
    BY <2>3 DEF ApplyClusterRole
  <2>4. CASE ApplyClusterRoleBinding
    BY <2>4 DEF ApplyClusterRoleBinding
  <2>5. CASE ResolveConfig
    BY <2>5 DEF ResolveConfig
  <2> QED BY <1>2, <2>2, <2>3, <2>4, <2>5
<1> QED BY <1>1, <1>2, DeployEntered

(* The Deployment comes after its permissions and goes before them.        *)
LEMMA RbacStep ==
  NobodyElseRemoves /\ RbacInv /\ [Next]_vars => RbacCoversWorkload'
<1> DEFINE Permissions(ns) ==
             {Managed("ServiceAccount", ns), Managed("ClusterRole", ns),
              Managed("ClusterRoleBinding", ns)}
<1> SUFFICES ASSUME NobodyElseRemoves, RbacInv, [Next]_vars,
                    NEW ns \in Namespaces,
                    Managed("Deployment", ns) \in objects'
             PROVE  Permissions(ns) \subseteq objects' /\ subject' = ns
  BY DEF RbacCoversWorkload
<1> USE DEF RbacInv
<1>1. ~Drift
  BY DEF Drift, User, NobodyElseRemoves
<1>2. CASE Managed("Deployment", ns) \notin objects
  <2>1. CASE ApplyDeployment
    <3>1. /\ pc = "ApplyDeployment"
          /\ objects' = objects \cup {Managed("Deployment", namespace)}
          /\ subject' = subject
      BY <2>1 DEF ApplyDeployment, OnMCP, CreateOrUpdate
    <3>2. ns = namespace
      BY <1>2, <3>1 DEF Managed, ClusterScoped
    <3> QED BY <3>1, <3>2 DEF DeployOrder, Applied, BeforeDeployment
  <2>2. CASE Applies /\ ~ApplyDeployment
    <3>1. PICK kind : /\ kind # "Deployment"
                      /\ objects' = objects \cup {Managed(kind, namespace)}
      BY <2>2 DEF Applies, ApplyNamespace, ApplyServiceAccount,
           ApplyClusterRole, ApplyClusterRoleBinding, ApplyService,
           ApplyPodDisruptionBudget, CreateOrUpdate
    <3> QED BY <1>2, <3>1, ManagedDiffers
  <2>3. CASE ConfigWrite
    <3>1. PICK place : objects' = objects \cup {Managed("Namespace", place)}
      BY <2>3 DEF ConfigWrite
    <3> QED BY <1>2, <3>1, ManagedDiffers
  <2>4. CASE Removes
    BY <1>2, <2>4 DEF Removes, DeleteService, DeletePodDisruptionBudget,
         DeleteDeployment, DeleteClusterRoleBinding, DeleteClusterRole,
         DeleteServiceAccount, Remove
  <2> QED BY <1>1, <1>2, <2>1, <2>2, <2>3, <2>4, Writers
<1>3. CASE Managed("Deployment", ns) \in objects
  <2>1. Permissions(ns) \subseteq objects /\ subject = ns
    BY <1>3 DEF RbacCoversWorkload
  <2>2. ASSUME PastFinalizer PROVE namespace = ns
    <3>1. Managed("Deployment", ns) \in Leftovers
      BY <1>3, ManagedDiffers DEF Leftovers
    <3>2. namespace = TargetNamespace(obj.spec)
      BY <2>2, SameNamespace
    <3>3. Managed("Deployment", ns) \in FullDeployment(namespace)
      BY <3>1, <3>2 DEF CleanupInv, InPlace
    <3> QED BY <3>3 DEF FullDeployment, Managed, ClusterScoped
  <2>3. CASE Removes
    <3>1. pc \in CleanupCalls /\ PastFinalizer
      BY <2>3 DEF Removes, DeleteService, DeletePodDisruptionBudget,
           DeleteDeployment, DeleteClusterRoleBinding, DeleteClusterRole,
           DeleteServiceAccount, OnMCP, CleanupCalls, PastFinalizer
    <3>2. ~DeleteClusterRoleBinding /\ ~DeleteClusterRole /\ ~DeleteServiceAccount
      BY <1>3, <2>2, <3>1
         DEF CleanupInv, CleanupOrder, Cleaned, DeleteClusterRoleBinding,
             DeleteClusterRole, DeleteServiceAccount, OnMCP
    <3>3. PICK kind \in {"Service", "PodDisruptionBudget", "Deployment"} :
            objects' = objects \ {Managed(kind, namespace)} /\ subject' = subject
      BY <2>3, <3>2 DEF Removes, DeleteService, DeletePodDisruptionBudget,
           DeleteDeployment, Remove
    <3>4. Permissions(ns) \subseteq objects'
      BY <2>1, <3>3, ManagedDiffers
    <3> QED BY <2>1, <3>3, <3>4
  <2>4. CASE ~Removes
    <3>1. Permissions(ns) \subseteq objects'
      BY <2>1, <2>4, ObjectsStay
    <3>2. CASE ApplyClusterRoleBinding
      BY <2>2, <3>1, <3>2 DEF ApplyClusterRoleBinding, OnMCP, PastFinalizer
    <3>3. CASE ~ApplyClusterRoleBinding
      BY <1>1, <2>1, <2>4, <3>1, <3>3, SubjectWriters DEF Removes
    <3> QED BY <3>2, <3>3
  <2> QED BY <2>3, <2>4
<1> QED BY <1>2, <1>3

(* kube-state-metrics never runs without the permissions it scrapes with,  *)
(* through every failure, restart and repeated deletion                    *)
(* (controller.go:264-298, 497-504).                                       *)
THEOREM PermissionsFirst ==
  ASSUME AccessAnswers, NamespaceStays, NobodyElseRemoves
  PROVE  Spec => []RbacCoversWorkload
<1>1. Init => DeployOrder /\ RbacCoversWorkload
  BY DEF Init, DeployOrder, Applied, BeforeDeployment, RbacCoversWorkload
<1>2. CleanupInv /\ [Next]_vars => CleanupInv'
  BY CleanupStep
<1>3. RbacInv /\ [Next]_vars => RbacInv'
  BY <1>2, DeployOrderStep, RbacStep DEF RbacInv, CleanupInv
<1>4. RbacInv => RbacCoversWorkload
  BY DEF RbacInv
<1> QED BY <1>1, <1>3, <1>4, InitCleanupInv, PTL DEF Spec, RbacInv

-------------------------------------------------------------------------------
(* What Ready says                                                         *)

LivePass == PastFinalizer /\ ~Deleting

(* Nobody else writes the status: what a live pass knew of it still holds, *)
(* so the diff it sends leaves exactly its own copy.                       *)
StatusFits == LivePass => held.old = obj.status

(* A live pass says Ready only once it has found the Deployment ready, and *)
(* its copy names its own generation as observed.                          *)
PhaseFits ==
  LivePass => /\ held.ksm.status.phase = "Ready" => pc = "PatchStatus"
              /\ held.ksm.status.observed = held.ksm.generation

Publishing == pc = "PatchStatus" /\ held.ksm.status.phase = "Ready"
Written == pc \in {"ApplyService", "ApplyPodDisruptionBudget", "CheckReadiness"}
           \/ Publishing
Resolved == pc = "ApplyDeployment" \/ Written

(* The copy names the ConfigMap data that were resolved, and the           *)
(* Deployment is the one rendered from them.                               *)
ConfigFits ==
  /\ Resolved => /\ held.ksm.status.source = SourceOf(held.config)
                 /\ held.ksm.status.hash = HashOf(held.config)
  /\ Written =>
       rollout[namespace].template = Template(held.ksm.spec, held.config)

StatusInv == IInv /\ KindFits /\ StatusFits /\ PhaseFits /\ ConfigFits

(* What the setters write, and what they leave.                            *)
LEMMA SettersWrite ==
  ASSUME NEW status \in Statuses, NEW generation, NEW phase, NEW reason
  PROVE  LET set == SetCondition(status, generation, phase, reason)
         IN  /\ set.phase = phase /\ set.observed = generation
             /\ set.source = status.source /\ set.hash = status.hash
BY DEF SetCondition, Statuses

(* A diff against what the server has replaces it.                         *)
LEMMA MergePatchReplaces ==
  ASSUME NEW old \in Statuses, NEW new \in Statuses
  PROVE  MergePatch(old, old, new) = new
BY DEF MergePatch, Statuses

(* Who changes the copy of a pass that goes on.                            *)
LEMMA CopyWriters ==
  ASSUME [Next]_vars, PastFinalizer, PastFinalizer', held' # held
  PROVE  UpdateTerminating \/ UpdateTerminatingFails \/ ReconcileAccessFails
         \/ DeployFails \/ ResolveConfig \/ CheckReadiness
<1> USE DEF PastFinalizer, EndPass, FailPass
<1>1. CASE Start \/ GetObject \/ GetFails \/ AddFinalizer \/ UpdateFails
           \/ TimerFires \/ PatchStatus \/ PatchStatusFails
  BY <1>1 DEF Start, GetObject, GetFails, AddFinalizer, UpdateFails, TimerFires,
       PatchStatus, PatchStatusFails
<1>2. CASE Access
  BY <1>2 DEF Access, ReconcileAccess, MCPCluster, MCPClusterFails
<1>3. CASE Deploy
  BY <1>3 DEF Deploy, ApplyNamespace, ApplyServiceAccount, ApplyClusterRole,
       ApplyClusterRoleBinding, ApplyDeployment, ApplyService,
       ApplyPodDisruptionBudget
<1>4. CASE Cleanup \/ Release
  BY <1>4 DEF Cleanup, DeleteService, DeletePodDisruptionBudget,
       DeleteDeployment, DeleteClusterRoleBinding, DeleteClusterRole,
       DeleteServiceAccount, CleanupFails, Release, ReleaseAccess,
       ReleaseAccessFails, RemoveFinalizer
<1>5. CASE Users
  BY <1>5 DEF Users, UserCreate, UserEdit, UserRenamespace, UserDelete,
       ObjectWritten, ConfigWrite, Drift
<1>6. CASE Environment
  BY <1>6 DEF Environment, Grant, Revoked, ForeignRelease, ObjectWritten,
       Crash, RolloutWave, RolloutDone, PodFails
<1>7. CASE UNCHANGED vars
  BY <1>7 DEF vars
<1> QED BY <1>1, <1>2, <1>3, <1>4, <1>5, <1>6, <1>7 DEF Next, Reconcile

(* The status is the last thing a live pass writes.                        *)
LEMMA PatchEnds ==
  ASSUME [Next]_vars, pc = "PatchStatus", PastFinalizer'
  PROVE  pc' = pc /\ held' = held
<1> USE DEF PastFinalizer, EndPass, FailPass
<1>1. CASE Start \/ GetObject \/ GetFails \/ AddFinalizer \/ UpdateFails
           \/ TimerFires \/ PatchStatus \/ PatchStatusFails
           \/ UpdateTerminating \/ UpdateTerminatingFails
  BY <1>1 DEF Start, GetObject, GetFails, AddFinalizer, UpdateFails, TimerFires,
       PatchStatus, PatchStatusFails, UpdateTerminating, UpdateTerminatingFails
<1>2. CASE Access
  BY <1>2 DEF Access, ReconcileAccess, ReconcileAccessFails, MCPCluster,
       MCPClusterFails
<1>3. CASE Deploy
  BY <1>3 DEF Deploy, ApplyNamespace, ApplyServiceAccount, ApplyClusterRole,
       ApplyClusterRoleBinding, ResolveConfig, ApplyDeployment, ApplyService,
       ApplyPodDisruptionBudget, CheckReadiness, DeployFails, DeployCalls, OnMCP
<1>4. CASE Cleanup \/ Release
  BY <1>4 DEF Cleanup, DeleteService, DeletePodDisruptionBudget,
       DeleteDeployment, DeleteClusterRoleBinding, DeleteClusterRole,
       DeleteServiceAccount, CleanupFails, CleanupCalls, OnMCP, Release,
       ReleaseAccess, ReleaseAccessFails, RemoveFinalizer
<1>5. CASE Users
  BY <1>5 DEF Users, UserCreate, UserEdit, UserRenamespace, UserDelete,
       ObjectWritten, ConfigWrite, Drift
<1>6. CASE Environment
  BY <1>6 DEF Environment, Grant, Revoked, ForeignRelease, ObjectWritten,
       Crash, RolloutWave, RolloutDone, PodFails
<1>7. CASE UNCHANGED vars
  BY <1>7 DEF vars
<1> QED BY <1>1, <1>2, <1>3, <1>4, <1>5, <1>6, <1>7 DEF Next, Reconcile

(* A live pass was live before, and has the copy of the status it began    *)
(* with.                                                                   *)
LEMMA LivePassKept ==
  ASSUME IInv, KindFits, [Next]_vars, PastFinalizer, LivePass'
  PROVE  /\ LivePass /\ ~UpdateTerminating /\ ~UpdateTerminatingFails
         /\ held'.ksm.spec = held.ksm.spec /\ held'.old = held.old
         /\ held'.ksm.generation = held.ksm.generation
<1>1. PastFinalizer'
  BY DEF LivePass
<1>2. CASE UpdateTerminating /\ held' = [held EXCEPT !.ksm = obj']
  <2>1. obj.deleting /\ Owned /\ Owned'
    BY <1>1, <1>2, PassGuardedStep
       DEF UpdateTerminating, KindFits, DeletingCalls, PastFinalizer, IInv,
           PassGuarded, FinalizerGuardsPass
  <2>2. obj'.deleting /\ held'.ksm = obj'
    BY <1>2, <2>1, OwnedObjectKept, HeldType DEF IInv, PastFinalizer, Passes
  <2> QED BY <2>2 DEF LivePass, Deleting
<1>3. CASE held'.ksm.deleting = held.ksm.deleting
  <2>1. ~Deleting
    BY <1>3 DEF LivePass, Deleting
  <2>2. pc # "UpdateTerminating"
    BY <2>1 DEF KindFits, DeletingCalls
  <2> QED BY <1>1, <2>1, <2>2, CopyKept
          DEF LivePass, UpdateTerminating, UpdateTerminatingFails
<1> QED BY <1>1, <1>2, <1>3, CopyKept

LEMMA StatusFitsStep ==
  IInv /\ KindFits /\ StatusFits /\ [Next]_vars => StatusFits'
<1> SUFFICES ASSUME IInv, KindFits, StatusFits, [Next]_vars, LivePass'
             PROVE  held'.old = obj'.status
  BY DEF StatusFits
<1>1. PastFinalizer'
  BY DEF LivePass
<1>2. CASE ~PastFinalizer
  BY <1>1, <1>2, PassBegins
<1>3. CASE PastFinalizer
  <2>1. LivePass /\ ~UpdateTerminating /\ held'.old = held.old
    BY <1>3, LivePassKept
  <2>2. ~PatchStatus
    BY <1>1 DEF PatchStatus, EndPass, PastFinalizer
  <2>3. Owned /\ Owned'
    BY <1>1, <1>3, PassGuardedStep
       DEF PastFinalizer, IInv, PassGuarded, FinalizerGuardsPass
  <2> QED BY <2>1, <2>2, <2>3, OwnedObjectKept DEF StatusFits
<1> QED BY <1>2, <1>3

(* An error is reported under the generation of the copy.                  *)
LEMMA ErrorReported ==
  ASSUME IInv, PastFinalizer, ~Deleting, ReconcileAccessFails \/ DeployFails
  PROVE  /\ pc' = "PatchStatus"
         /\ held'.ksm.status.phase = "Progressing"
         /\ held'.ksm.status.observed = held.ksm.generation
<1>1. PICK reason : ReportError(reason)
  BY DEF ReconcileAccessFails, DeployFails
<1>2. held \in Passes /\ held.ksm \in Objects /\ held.ksm.status \in Statuses
  BY HeldType DEF IInv, PastFinalizer
<1>3. held' = [held EXCEPT !.ksm.status =
                 StatusProgressing(@, held.ksm.generation, reason)]
  BY <1>1 DEF ReportError
<1>4. held'.ksm.status
        = StatusProgressing(held.ksm.status, held.ksm.generation, reason)
  BY <1>2, <1>3 DEF Passes, Objects
<1> QED BY <1>1, <1>2, <1>4, SettersWrite DEF ReportError, StatusProgressing

(* The readiness check sets the phase, and leaves the config's fields.     *)
LEMMA ReadinessChecked ==
  ASSUME IInv, PastFinalizer, CheckReadiness
  PROVE  /\ pc' = "PatchStatus" /\ held'.config = held.config
         /\ held'.ksm.status.observed = held.ksm.generation
         /\ held'.ksm.status.source = held.ksm.status.source
         /\ held'.ksm.status.hash = held.ksm.status.hash
<1> DEFINE status == held.ksm.status
           generation == held.ksm.generation
<1>1. held \in Passes /\ held.ksm \in Objects /\ status \in Statuses
  BY HeldType DEF IInv, PastFinalizer
<1>2. held' = [held EXCEPT !.ksm.status =
                 IF rollout[namespace].ready
                 THEN StatusReady(@, generation)
                 ELSE StatusProgressing(@, generation, "WaitingForPods")]
  BY DEF CheckReadiness
<1>3. /\ held'.config = held.config
      /\ held'.ksm.status \in {StatusReady(status, generation),
           StatusProgressing(status, generation, "WaitingForPods")}
  BY <1>1, <1>2 DEF Passes, Objects
<1>4. pc' = "PatchStatus"
  BY DEF CheckReadiness, OnMCP, Continue
<1> QED BY <1>1, <1>3, <1>4, SettersWrite DEF StatusReady, StatusProgressing

(* What the ConfigMap says goes into the copy, and nothing else changes.   *)
LEMMA ConfigResolved ==
  ASSUME IInv, PastFinalizer, ResolveConfig
  PROVE  /\ pc' = "ApplyDeployment"
         /\ held'.ksm.status.source = SourceOf(held'.config)
         /\ held'.ksm.status.hash = HashOf(held'.config)
         /\ held'.ksm.status.phase = held.ksm.status.phase
         /\ held'.ksm.status.observed = held.ksm.status.observed
<1>1. held \in Passes /\ held.ksm \in Objects /\ held.ksm.status \in Statuses
  BY HeldType DEF IInv, PastFinalizer
<1>2. /\ pc' = "ApplyDeployment"
      /\ held' = [held EXCEPT
           !.config = config[namespace],
           !.ksm.status.source = SourceOf(config[namespace]),
           !.ksm.status.hash = HashOf(config[namespace])]
  BY DEF ResolveConfig, OnMCP, Continue
<1> QED BY <1>1, <1>2 DEF Passes, Objects, Statuses

(* A pass that has just begun, or goes on, says Ready only at its end.     *)
LEMMA PhaseFitsStep ==
  IInv /\ KindFits /\ PhaseFits /\ [Next]_vars => PhaseFits'
<1> SUFFICES ASSUME IInv, KindFits, PhaseFits, [Next]_vars, LivePass'
             PROVE  /\ held'.ksm.status.phase = "Ready" => pc' = "PatchStatus"
                    /\ held'.ksm.status.observed = held'.ksm.generation
  BY DEF PhaseFits
<1>1. PastFinalizer'
  BY DEF LivePass
<1>2. CASE ~PastFinalizer
  <2>1. /\ GetObject \/ AddFinalizer
        /\ obj' \in Objects /\ ~obj'.deleting
    BY <1>1, <1>2, PassBegins DEF LivePass, Deleting
  <2>2. held' = Reconciling(obj')
    BY <1>1, <2>1 DEF GetObject, AddFinalizer, WriteObject, PastFinalizer
  <2>3. /\ held'.ksm.generation = obj'.generation
        /\ held'.ksm.status
             = StatusProgressing(obj'.status, obj'.generation, "Reconciling")
    BY <2>1, <2>2 DEF Reconciling, NewPass, Objects
  <2>4. obj'.status \in Statuses
    BY <2>1 DEF Objects
  <2> QED BY <2>3, <2>4, SettersWrite DEF StatusProgressing
<1>3. CASE PastFinalizer
  <2>1. /\ LivePass /\ ~Deleting
        /\ ~UpdateTerminating /\ ~UpdateTerminatingFails
        /\ held'.ksm.generation = held.ksm.generation
    BY <1>3, LivePassKept DEF LivePass
  <2>2. CASE held' = held
    BY <1>1, <2>1, <2>2, PatchEnds DEF PhaseFits
  <2>3. CASE ReconcileAccessFails \/ DeployFails
    BY <1>3, <2>1, <2>3, ErrorReported
  <2>4. CASE CheckReadiness
    BY <1>3, <2>1, <2>4, ReadinessChecked
  <2>5. CASE ResolveConfig
    <3>1. pc # "PatchStatus"
      BY <2>5 DEF ResolveConfig, OnMCP
    <3> QED BY <1>3, <2>1, <2>5, <3>1, ConfigResolved DEF PhaseFits
  <2> QED BY <1>1, <1>3, <2>1, <2>2, <2>3, <2>4, <2>5, CopyWriters
<1> QED BY <1>2, <1>3

(* A Deployment's template is written by the controller alone.             *)
LEMMA TemplateKept ==
  ASSUME NobodyElseRemoves, IInv, [Next]_vars, ~ApplyDeployment,
         ~DeleteDeployment, NEW ns \in Namespaces
  PROVE  rollout'[ns].template = rollout[ns].template
<1> USE DEF mcpVars
<1>1. CASE Start \/ GetObject \/ GetFails \/ AddFinalizer \/ UpdateFails
           \/ UpdateTerminating \/ UpdateTerminatingFails \/ TimerFires
           \/ Access
  BY <1>1 DEF Start, GetObject, GetFails, AddFinalizer, UpdateFails,
       UpdateTerminating, UpdateTerminatingFails, TimerFires, FailPass, Access,
       ReconcileAccess, ReconcileAccessFails, MCPCluster, MCPClusterFails,
       ReportError
<1>2. CASE Deploy \/ Cleanup
  BY <1>2 DEF Deploy, ApplyNamespace, ApplyServiceAccount, ApplyClusterRole,
       ApplyClusterRoleBinding, ResolveConfig, ApplyService,
       ApplyPodDisruptionBudget, CheckReadiness, DeployFails, ReportError,
       Cleanup, DeleteService, DeletePodDisruptionBudget,
       DeleteClusterRoleBinding, DeleteClusterRole, DeleteServiceAccount,
       CleanupFails, FailPass
<1>3. CASE PatchStatus \/ PatchStatusFails \/ Release
  BY <1>3 DEF PatchStatus, PatchStatusFails, Release, ReleaseAccess,
       ReleaseAccessFails, RemoveFinalizer, FailPass
<1>4. CASE Users
  BY <1>4 DEF Users, UserCreate, UserEdit, UserRenamespace, UserDelete,
       ObjectWritten, ConfigWrite, Drift, User, NobodyElseRemoves
<1>5. CASE Grant \/ Revoked \/ ForeignRelease \/ Crash
  BY <1>5 DEF Grant, Revoked, ForeignRelease, ObjectWritten, Crash
<1>6. CASE \E place \in Namespaces :
             RolloutWave(place) \/ RolloutDone(place) \/ PodFails(place)
  <2>1. rollout \in [Namespaces -> Rollouts]
    BY DEF IInv, TypeOK, MCPTypeOK
  <2>2. PICK place \in Namespaces :
          RolloutWave(place) \/ RolloutDone(place) \/ PodFails(place)
    BY <1>6
  <2>3. rollout'[ns].template = rollout[ns].template
    BY <2>1, <2>2 DEF RolloutWave, RolloutDone, PodFails, Rollouts
  <2> QED BY <2>3
<1>7. CASE UNCHANGED vars
  BY <1>7 DEF vars
<1> QED BY <1>1, <1>2, <1>3, <1>4, <1>5, <1>6, <1>7
        DEF Next, Reconcile, Environment

(* The steps after resolveConfig come one after the other.                 *)
LEMMA ResolvedEntered ==
  ASSUME IInv, KindFits, [Next]_vars, Resolved', ~(pc' = pc /\ held' = held)
  PROVE  ResolveConfig \/ ApplyDeployment \/ ApplyService
         \/ ApplyPodDisruptionBudget \/ CheckReadiness
<1> USE DEF Resolved, Written, Publishing, EndPass, FailPass, Continue
<1>1. CASE Start \/ GetObject \/ GetFails \/ AddFinalizer \/ UpdateFails
           \/ UpdateTerminating \/ UpdateTerminatingFails \/ TimerFires
           \/ ReconcileAccess \/ MCPCluster \/ MCPClusterFails
  BY <1>1 DEF Start, GetObject, GetFails, AddFinalizer, UpdateFails,
       UpdateTerminating, UpdateTerminatingFails, TimerFires, ReconcileAccess,
       MCPCluster, MCPClusterFails
<1>2. CASE ReconcileAccessFails \/ DeployFails
  <2>1. CASE Deleting
    <3>1. pc \notin DeployCalls
      BY <2>1 DEF KindFits, PastFinalizer, LiveCalls, DeployCalls
    <3>2. pc' = "ReleaseAccess"
      BY <1>2, <2>1, <3>1 DEF ReconcileAccessFails, DeployFails
    <3> QED BY <3>2
  <2>2. CASE ~Deleting
    <3>1. PastFinalizer
      BY <1>2 DEF ReconcileAccessFails, DeployFails, DeployCalls, PastFinalizer
    <3> QED BY <1>2, <2>2, <3>1, ErrorReported
  <2> QED BY <2>1, <2>2
<1>3. CASE ApplyNamespace \/ ApplyServiceAccount \/ ApplyClusterRole
           \/ ApplyClusterRoleBinding \/ Cleanup
  BY <1>3 DEF ApplyNamespace, ApplyServiceAccount, ApplyClusterRole,
       ApplyClusterRoleBinding, Cleanup, DeleteService,
       DeletePodDisruptionBudget, DeleteDeployment, DeleteClusterRoleBinding,
       DeleteClusterRole, DeleteServiceAccount, CleanupFails, OnMCP
<1>4. CASE PatchStatus \/ PatchStatusFails \/ Release
  BY <1>4 DEF PatchStatus, PatchStatusFails, Release, ReleaseAccess,
       ReleaseAccessFails, RemoveFinalizer
<1>5. CASE Users
  BY <1>5 DEF Users, UserCreate, UserEdit, UserRenamespace, UserDelete,
       ObjectWritten, ConfigWrite, Drift
<1>6. CASE Environment
  BY <1>6 DEF Environment, Grant, Revoked, ForeignRelease, ObjectWritten,
       Crash, RolloutWave, RolloutDone, PodFails
<1>7. CASE UNCHANGED vars
  BY <1>7 DEF vars
<1> QED BY <1>1, <1>2, <1>3, <1>4, <1>5, <1>6, <1>7
        DEF Next, Reconcile, Access, Deploy

(* From resolveConfig to the end of the pass the copy, the config and the  *)
(* Deployment agree.                                                       *)
LEMMA ConfigFitsStep ==
  NobodyElseRemoves /\ StatusInv /\ [Next]_vars => ConfigFits'
<1> SUFFICES ASSUME NobodyElseRemoves, StatusInv, [Next]_vars, Resolved'
             PROVE  /\ held'.ksm.status.source = SourceOf(held'.config)
                    /\ held'.ksm.status.hash = HashOf(held'.config)
                    /\ Written' => rollout'[namespace'].template
                                     = Template(held'.ksm.spec, held'.config)
  BY DEF ConfigFits, Resolved
<1> USE DEF StatusInv
<1>1. CASE pc' = pc /\ held' = held
  <2>1. Resolved /\ (Written' => Written) /\ namespace' = namespace
    BY <1>1 DEF Resolved, Written, Publishing, namespace
  <2>2. namespace \in Namespaces
    BY <2>1, HeldType DEF IInv, Resolved, Written, Publishing
  <2>3. ~ApplyDeployment /\ ~DeleteDeployment
    BY <1>1 DEF ApplyDeployment, DeleteDeployment, OnMCP, Continue
  <2> QED BY <1>1, <2>1, <2>2, <2>3, TemplateKept DEF ConfigFits
<1>2. CASE ResolveConfig
  <2>1. PastFinalizer
    BY <1>2 DEF ResolveConfig, OnMCP, PastFinalizer
  <2> QED BY <1>2, <2>1, ConfigResolved DEF Written, Publishing
<1>3. CASE ApplyDeployment
  <2>1. /\ pc = "ApplyDeployment" /\ held' = held
        /\ rollout' = [rollout EXCEPT
             ![namespace].template = Template(held.ksm.spec, held.config)]
    BY <1>3 DEF ApplyDeployment, OnMCP
  <2>2. namespace \in Namespaces /\ rollout \in [Namespaces -> Rollouts]
    BY <2>1, HeldType DEF IInv, TypeOK, MCPTypeOK
  <2>3. rollout'[namespace].template = Template(held.ksm.spec, held.config)
    BY <2>1, <2>2 DEF Rollouts
  <2> QED BY <2>1, <2>3 DEF ConfigFits, Resolved, namespace
<1>4. CASE ApplyService \/ ApplyPodDisruptionBudget
  <2>1. Written /\ held' = held /\ UNCHANGED rollout
    BY <1>4 DEF ApplyService, ApplyPodDisruptionBudget, OnMCP, Written
  <2>2. namespace' = namespace
    BY <2>1 DEF namespace
  <2> QED BY <2>1, <2>2 DEF ConfigFits, Resolved
<1>5. CASE CheckReadiness
  <2>1. Written /\ PastFinalizer /\ UNCHANGED rollout
    BY <1>5 DEF CheckReadiness, OnMCP, Written, PastFinalizer
  <2>2. PastFinalizer' /\ held'.ksm.spec = held.ksm.spec
    BY <1>5, <2>1, ReadinessChecked, CopyKept
       DEF PastFinalizer, CheckReadiness, OnMCP, UpdateTerminating
  <2> QED BY <1>5, <2>1, <2>2, ReadinessChecked
          DEF ConfigFits, Resolved, namespace
<1> QED BY <1>1, <1>2, <1>3, <1>4, <1>5, ResolvedEntered

(* What a pass sends is what it holds, and what it holds is in place.      *)
LEMMA ReadyIsTrue ==
  ASSUME StatusInv, [Next]_vars, pc = "PatchStatus",
         obj'.status # obj.status, obj'.status.phase = "Ready"
  PROVE  /\ rollout[namespace].template = Template(held.ksm.spec, held.config)
         /\ obj'.status.observed = held.ksm.generation
         /\ obj'.status.hash = HashOf(held.config)
         /\ obj'.status.source = SourceOf(held.config)
<1> USE DEF StatusInv
<1>1. LivePass /\ Owned /\ Owned'
  <2>1. Owned
    BY DEF IInv, PassGuarded, FinalizerGuardsPass
  <2> QED BY <2>1, OwnedStep DEF IInv, RemoveFinalizer, LivePass, PastFinalizer,
            KindFits, LiveCalls
<1>2. PatchStatus
  BY <1>1, OwnedObjectKept DEF UpdateTerminating
<1>3. obj \in Objects /\ obj.status \in Statuses /\ held.ksm.status \in Statuses
  BY <1>1, HeldType DEF Owned, IInv, TypeOK, ObjectTypeOK, Objects
<1>4. obj' = [obj EXCEPT
        !.status = MergePatch(obj.status, held.old, held.ksm.status)]
  BY <1>2 DEF PatchStatus
<1>5. obj'.status = held.ksm.status
  BY <1>1, <1>3, <1>4, MergePatchReplaces DEF StatusFits, Objects
<1> QED BY <1>1, <1>5 DEF PhaseFits, ConfigFits, Resolved, Written, Publishing

(* A status that turns Ready names the generation, the source and the hash *)
(* from which the Deployment in place was rendered (controller.go:145-154, *)
(* 307-309, 328-340).                                                      *)
THEOREM ReadyIsDescribed ==
  ASSUME NobodyElseRemoves
  PROVE  Spec => ReadyDescribesDeployment
<1> DEFINE ns == TargetNamespace(held.ksm.spec)
           Described ==
             pc = "PatchStatus" /\ obj'.status # obj.status
             /\ obj'.status.phase = "Ready" =>
               /\ rollout[ns].template.workload = held.ksm.spec.workload
               /\ obj'.status.observed = held.ksm.generation
               /\ rollout[ns].template.hash = obj'.status.hash
               /\ rollout[ns].template.mounted = (obj'.status.source = "mcp")
<1>1. Init => StatusInv
  <2>1. ASSUME Init PROVE pc = "Idle"
    BY <2>1 DEF Init
  <2> QED BY <2>1, InitIInv
          DEF StatusInv, KindFits, StatusFits, PhaseFits, ConfigFits, LivePass,
              PastFinalizer, Resolved, Written, Publishing
<1>2. StatusInv /\ [Next]_vars => StatusInv'
  <2>1. IInv /\ [Next]_vars => IInv'
    BY TypeStep, PassGuardedStep, AccessGuardedStep, NeverForgottenStep DEF IInv
  <2> QED BY <2>1, KindFitsStep, StatusFitsStep, PhaseFitsStep, ConfigFitsStep
          DEF StatusInv
<1>3. StatusInv /\ [Next]_vars => [Described]_vars
  <2> SUFFICES ASSUME StatusInv, [Next]_vars, pc = "PatchStatus",
                      obj'.status # obj.status, obj'.status.phase = "Ready"
               PROVE  /\ rollout[ns].template.workload = held.ksm.spec.workload
                      /\ obj'.status.observed = held.ksm.generation
                      /\ rollout[ns].template.hash = obj'.status.hash
                      /\ rollout[ns].template.mounted
                           = (obj'.status.source = "mcp")
    OBVIOUS
  <2>1. rollout[ns].template = Template(held.ksm.spec, held.config)
    BY ReadyIsTrue DEF namespace
  <2>2. rollout[ns].template.mounted = (held.config # NoConfig)
    BY <2>1 DEF Template
  <2>3. (obj'.status.source = "mcp") = (held.config # NoConfig)
    BY ReadyIsTrue DEF SourceOf
  <2> QED BY <2>1, <2>2, <2>3, ReadyIsTrue DEF Template
<1> QED BY <1>1, <1>2, <1>3, PTL DEF Spec, ReadyDescribesDeployment
===============================================================================
