----------------------------- MODULE KsmController -----------------------------
(***************************************************************************)
(* The KubeStateMetrics controller of internal/controller: one object of   *)
(* the onboarding cluster, the AccessRequest that opens the MCP cluster,   *)
(* the objects written there, and the controller's single worker for the   *)
(* object's key.  Every call to an API server is a step of its own, so     *)
(* users, the other controllers and crashes interleave with a pass.        *)
(***************************************************************************)
EXTENDS KsmDesired

CONSTANTS
  NoObject,        \* the object does not exist on the onboarding cluster
  NoPass,          \* the worker holds no local copy
  NoTemplate,      \* no Deployment, or none of its pods has become ready yet
  UserActions,     \* what users may do, a subset of AllUserActions
  MaxUserActions,  \* bound on the number of user actions
  Faults,          \* what may go wrong, a subset of AllFaults
  MaxFaults,       \* bound on the number of faults
  ForeignFinalizers, \* whether an object may carry somebody else's finalizer
  ReleaseAtOnce    \* ReconcileDelete removes the AccessRequest within the call

AllUserActions ==
  {"create", "edit", "renamespace", "delete", "config", "drift"}
AllFaults == {"onboarding", "access", "mcp", "pod", "crash"}

ASSUME BoundsAssumption ==
  /\ UserActions \subseteq AllUserActions /\ MaxUserActions \in Nat
  /\ Faults \subseteq AllFaults /\ MaxFaults \in Nat
  /\ ForeignFinalizers \subseteq BOOLEAN /\ ForeignFinalizers # {}
  /\ ReleaseAtOnce \in BOOLEAN

VARIABLES
  obj,      \* the KubeStateMetrics object, or NoObject
  dirty,    \* the workqueue holds the object's key
  timer,    \* a delayed requeue (RequeueAfter or error back-off) is scheduled
  pc,       \* the call the worker makes next
  held,     \* the worker's local copies, or NoPass
  stale,    \* the object changed since the worker last read or wrote it
  access,   \* the AccessRequest on the platform cluster
  objects,  \* managed objects that exist on the MCP cluster
  subject,  \* namespace of the ClusterRoleBinding's subject ("" if none)
  rollout,  \* per namespace, the Deployment's template, pods and readiness
  config,   \* per namespace, the user's kube-state-metrics-config
  userActions, faults  \* how many have happened

queueVars == <<dirty, timer>>
mcpVars == <<objects, subject, rollout, config>>
countVars == <<userActions, faults>>
vars == <<obj, queueVars, pc, held, stale, access, mcpVars, countVars>>

-------------------------------------------------------------------------------
(* Types                                                                   *)

Objects == [generation : Nat, spec : Specs, deleting : BOOLEAN,
            finalizer : BOOLEAN, foreign : BOOLEAN, status : Statuses]

(* ksm is the object as the pass changes it, old the status oldKsm had,    *)
(* config what resolveConfig returned.                                     *)
Passes == [ksm : Objects, old : Statuses, config : Configs]

ASSUME NullsAssumption == NoObject \notin Objects /\ NoPass \notin Passes

(* ready is Status.ReadyReplicas = Status.Replicas > 0; running is the     *)
(* template of the pods that last became ready.                            *)
Rollouts == [template : Templates \cup {NoTemplate},
             running  : Templates \cup {NoTemplate}, ready : BOOLEAN]
NoRollout == [template |-> NoTemplate, running |-> NoTemplate, ready |-> FALSE]

AccessStates == {"absent", "pending", "granted", "revoking"}

Calls == {"Idle", "Get", "AddFinalizer", "UpdateTerminating",
          "ReconcileAccess", "MCPCluster",
          "ApplyNamespace", "ApplyServiceAccount", "ApplyClusterRole",
          "ApplyClusterRoleBinding", "ResolveConfig", "ApplyDeployment",
          "ApplyService", "ApplyPodDisruptionBudget", "CheckReadiness",
          "PatchStatus",
          "DeleteService", "DeletePodDisruptionBudget", "DeleteDeployment",
          "DeleteClusterRoleBinding", "DeleteClusterRole",
          "DeleteServiceAccount", "ReleaseAccess", "RemoveFinalizer"}

ObjectTypeOK ==
  /\ obj \in Objects \cup {NoObject}
  /\ dirty \in BOOLEAN /\ timer \in BOOLEAN

PassTypeOK ==
  /\ pc \in Calls
  /\ held \in Passes \cup {NoPass}
  /\ pc \in {"Idle", "Get"} <=> held = NoPass
  /\ stale \in BOOLEAN

MCPTypeOK ==
  /\ access \in AccessStates
  /\ objects \subseteq ManagedObjects
  /\ subject \in Namespaces \cup {""}
  /\ rollout \in [Namespaces -> Rollouts]
  /\ config \in [Namespaces -> Configs]

CountTypeOK ==
  /\ userActions \in 0..MaxUserActions
  /\ faults \in 0..MaxFaults

TypeOK == ObjectTypeOK /\ PassTypeOK /\ MCPTypeOK /\ CountTypeOK

Init ==
  /\ obj = NoObject
  /\ dirty = FALSE /\ timer = FALSE
  /\ pc = "Idle" /\ held = NoPass /\ stale = FALSE
  /\ access = "absent"
  /\ objects = {} /\ subject = ""
  /\ rollout = [ns \in Namespaces |-> NoRollout]
  /\ config = [ns \in Namespaces |-> NoConfig]
  /\ userActions = 0 /\ faults = 0

-------------------------------------------------------------------------------
(* Building blocks of a pass                                               *)

Fault(kind) == kind \in Faults /\ faults < MaxFaults /\ faults' = faults + 1
NoFault == UNCHANGED faults

namespace == TargetNamespace(held.ksm.spec)

(* The worker writes the object: its own copy is current afterwards, and   *)
(* the watch enqueues the key if anything changed.                         *)
WriteObject(new) ==
  /\ obj' = new
  /\ dirty' = (dirty \/ new # obj)

EndPass(requeue) ==
  /\ pc' = "Idle" /\ held' = NoPass /\ stale' = FALSE
  /\ timer' = (timer \/ requeue)

(* return ctrl.Result{}, err: the key comes back after a back-off.         *)
FailPass ==
  /\ EndPass(TRUE)
  /\ UNCHANGED <<obj, dirty, access, mcpVars, userActions>>

(* deployKubeStateMetrics returned an error, or setupClusterAccess did:    *)
(* the status records it and is patched before the pass fails.             *)
ReportError(reason) ==
  /\ held' = [held EXCEPT
       !.ksm.status = StatusProgressing(@, held.ksm.generation, reason)]
  /\ pc' = "PatchStatus"
  /\ UNCHANGED <<obj, queueVars, stale, mcpVars, userActions>>

(* The kubeconfig of the AccessRequest is what every MCP call rests on.    *)
MCPReachable == access \in {"granted", "revoking"}

Continue(next) == pc' = next /\ UNCHANGED stale

-------------------------------------------------------------------------------
(* Reconcile: workqueue and the first read                                 *)

Start ==
  /\ pc = "Idle" /\ dirty
  /\ pc' = "Get" /\ dirty' = FALSE
  /\ UNCHANGED <<obj, timer, held, stale, access, mcpVars, countVars>>

TimerFires ==
  /\ timer
  /\ timer' = FALSE /\ dirty' = TRUE
  /\ UNCHANGED <<obj, pc, held, stale, access, mcpVars, countVars>>

(* StatusProgressing(ksm, "Reconciling") on the local copy, after oldKsm   *)
(* has been taken; a deletion leaves the copy as it was read.              *)
NewPass(ksm) == [ksm |-> ksm, old |-> ksm.status, config |-> NoConfig]
Reconciling(ksm) ==
  [NewPass(ksm) EXCEPT
     !.ksm.status = StatusProgressing(@, ksm.generation, "Reconciling")]

GetObject ==
  /\ pc = "Get"
  /\ obj # NoObject /\ NoFault
  /\ \/ /\ ~obj.deleting /\ ~obj.finalizer
        /\ held' = NewPass(obj) /\ pc' = "AddFinalizer"
     \/ /\ ~obj.deleting /\ obj.finalizer
        /\ held' = Reconciling(obj) /\ pc' = "ReconcileAccess"
     \/ /\ obj.deleting /\ obj.finalizer
        /\ held' = NewPass(obj) /\ pc' = "UpdateTerminating"
     \/ /\ obj.deleting /\ ~obj.finalizer
        /\ held' = NoPass /\ pc' = "Idle"
  /\ stale' = FALSE
  /\ UNCHANGED <<obj, queueVars, access, mcpVars, userActions>>

GetFails ==
  /\ pc = "Get"
  /\ \/ obj = NoObject /\ NoFault /\ EndPass(FALSE)
     \/ obj # NoObject /\ Fault("onboarding") /\ EndPass(TRUE)
  /\ UNCHANGED <<obj, dirty, access, mcpVars, userActions>>

AddFinalizer ==
  /\ pc = "AddFinalizer"
  /\ ~stale /\ NoFault
  /\ WriteObject([obj EXCEPT !.finalizer = TRUE])
  /\ held' = Reconciling([obj EXCEPT !.finalizer = TRUE])
  /\ Continue("ReconcileAccess")
  /\ UNCHANGED <<timer, access, mcpVars, userActions>>

(* Update carries the resourceVersion: an object changed, deleted or       *)
(* re-created since the read gives Conflict or NotFound.                   *)
UpdateFails ==
  /\ pc \in {"AddFinalizer", "RemoveFinalizer"}
  /\ \/ stale /\ NoFault
     \/ Fault("onboarding")
  /\ FailPass

UpdateTerminating ==
  /\ pc = "UpdateTerminating"
  /\ ~stale /\ NoFault
  /\ WriteObject([obj EXCEPT !.status = StatusTerminating(@, obj.generation)])
  /\ held' = [held EXCEPT !.ksm = obj']
  /\ Continue("ReconcileAccess")
  /\ UNCHANGED <<timer, access, mcpVars, userActions>>

(* The failed status write is logged and the deletion goes on.             *)
UpdateTerminatingFails ==
  /\ pc = "UpdateTerminating"
  /\ \/ stale /\ NoFault
     \/ Fault("onboarding")
  /\ held' = [held EXCEPT
       !.ksm.status = StatusTerminating(@, held.ksm.generation)]
  /\ Continue("ReconcileAccess")
  /\ UNCHANGED <<obj, queueVars, access, mcpVars, userActions>>

-------------------------------------------------------------------------------
(* setupClusterAccess, called by a live pass and by a deleting one, which  *)
(* answer its three outcomes (error, "come back later", cluster)           *)
(* differently.                                                            *)

Deleting == held.ksm.deleting

(* Mutant: the requeue of the pending access is not passed on.             *)
ReconcileAccess_NoRequeue ==
  /\ pc = "ReconcileAccess" /\ NoFault
  /\ IF access \in {"absent", "pending"}
     THEN /\ access' = "pending"
          /\ IF Deleting
             THEN Continue("ReleaseAccess") /\ UNCHANGED <<timer, held>>
             ELSE EndPass(FALSE)
     ELSE Continue("MCPCluster") /\ UNCHANGED <<timer, held, access>>
  /\ UNCHANGED <<obj, dirty, mcpVars, userActions>>

(* ClusterAccessReconciler.Reconcile makes sure there is an AccessRequest; *)
(* until it is granted the caller is told to come back later.              *)
ReconcileAccess ==
  /\ pc = "ReconcileAccess" /\ NoFault
  /\ IF access \in {"absent", "pending"}
     THEN /\ access' = "pending"
          /\ IF Deleting
             THEN Continue("ReleaseAccess") /\ UNCHANGED <<timer, held>>
             ELSE EndPass(TRUE)
     ELSE Continue("MCPCluster") /\ UNCHANGED <<timer, held, access>>
  /\ UNCHANGED <<obj, dirty, mcpVars, userActions>>

(* The request fails before or after the AccessRequest has been created.   *)
ReconcileAccessFails ==
  /\ pc = "ReconcileAccess" /\ Fault("access")
  /\ \/ UNCHANGED access
     \/ access = "absent" /\ access' = "pending"
  /\ IF Deleting
     THEN /\ Continue("ReleaseAccess")
          /\ UNCHANGED <<obj, queueVars, held, mcpVars, userActions>>
     ELSE ReportError("ClusterAccessError")

MCPCluster ==
  /\ pc = "MCPCluster"
  /\ MCPReachable /\ NoFault
  /\ Continue(IF Deleting THEN "DeleteService" ELSE "ApplyNamespace")
  /\ UNCHANGED <<obj, queueVars, held, access, mcpVars, userActions>>

(* No kubeconfig: the error is swallowed, a live pass comes back after 30  *)
(* seconds and a deleting pass skips the cleanup.                          *)
MCPClusterFails ==
  /\ pc = "MCPCluster"
  /\ \/ Fault("access")
     \/ ~MCPReachable /\ NoFault
  /\ IF Deleting
     THEN Continue("ReleaseAccess") /\ UNCHANGED <<timer, held>>
     ELSE EndPass(TRUE)
  /\ UNCHANGED <<obj, dirty, access, mcpVars, userActions>>

-------------------------------------------------------------------------------
(* deployKubeStateMetrics: CreateOrUpdate of one object after the other    *)

NamespaceExists == Managed("Namespace", namespace) \in objects

(* The frame of a successful call on the MCP cluster.                      *)
OnMCP(call, next) ==
  /\ pc = call /\ MCPReachable /\ NoFault
  /\ Continue(next)
  /\ UNCHANGED <<obj, queueVars, access, config, userActions>>

CreateOrUpdate(kind) == objects' = objects \cup {Managed(kind, namespace)}

ApplyNamespace ==
  /\ OnMCP("ApplyNamespace", "ApplyServiceAccount")
  /\ CreateOrUpdate("Namespace")
  /\ UNCHANGED <<held, subject, rollout>>

ApplyServiceAccount ==
  /\ OnMCP("ApplyServiceAccount", "ApplyClusterRole") /\ NamespaceExists
  /\ CreateOrUpdate("ServiceAccount")
  /\ UNCHANGED <<held, subject, rollout>>

ApplyClusterRole ==
  /\ OnMCP("ApplyClusterRole", "ApplyClusterRoleBinding")
  /\ CreateOrUpdate("ClusterRole")
  /\ UNCHANGED <<held, subject, rollout>>

ApplyClusterRoleBinding ==
  /\ OnMCP("ApplyClusterRoleBinding", "ResolveConfig")
  /\ CreateOrUpdate("ClusterRoleBinding")
  /\ subject' = namespace
  /\ UNCHANGED <<held, rollout>>

(* Mutant: the status is written only under "if hasConfig".                *)
ResolveConfig_KeepsHash ==
  /\ OnMCP("ResolveConfig", "ApplyDeployment")
  /\ held' = IF config[namespace] = NoConfig THEN held
             ELSE [held EXCEPT
               !.config = config[namespace],
               !.ksm.status.source = "mcp",
               !.ksm.status.hash = HashOf(config[namespace])]
  /\ UNCHANGED <<objects, subject, rollout>>

ResolveConfig ==
  /\ OnMCP("ResolveConfig", "ApplyDeployment")
  /\ held' = [held EXCEPT
       !.config = config[namespace],
       !.ksm.status.source = SourceOf(config[namespace]),
       !.ksm.status.hash = HashOf(config[namespace])]
  /\ UNCHANGED <<objects, subject, rollout>>

ApplyDeployment ==
  /\ OnMCP("ApplyDeployment", "ApplyService") /\ NamespaceExists
  /\ CreateOrUpdate("Deployment")
  /\ rollout' = [rollout EXCEPT
       ![namespace].template = Template(held.ksm.spec, held.config)]
  /\ UNCHANGED <<held, subject>>

ApplyService ==
  /\ OnMCP("ApplyService", "ApplyPodDisruptionBudget") /\ NamespaceExists
  /\ CreateOrUpdate("Service")
  /\ UNCHANGED <<held, subject, rollout>>

ApplyPodDisruptionBudget ==
  /\ OnMCP("ApplyPodDisruptionBudget", "CheckReadiness") /\ NamespaceExists
  /\ CreateOrUpdate("PodDisruptionBudget")
  /\ UNCHANGED <<held, subject, rollout>>

(* Readiness is read from the Deployment's status, whatever generation of  *)
(* the Deployment that status speaks of.                                   *)
CheckReadiness ==
  /\ OnMCP("CheckReadiness", "PatchStatus")
  /\ Managed("Deployment", namespace) \in objects
  /\ LET generation == held.ksm.generation
     IN  held' = [held EXCEPT !.ksm.status =
           IF rollout[namespace].ready
           THEN StatusReady(@, generation)
           ELSE StatusProgressing(@, generation, "WaitingForPods")]
  /\ UNCHANGED <<objects, subject, rollout>>

DeployCalls ==
  {"ApplyNamespace", "ApplyServiceAccount", "ApplyClusterRole",
   "ApplyClusterRoleBinding", "ResolveConfig", "ApplyDeployment",
   "ApplyService", "ApplyPodDisruptionBudget", "CheckReadiness"}

(* Mutant: a failure on the RBAC objects is logged and skipped.            *)
DeployFails_RbacSkipped ==
  /\ pc \in {"ApplyServiceAccount", "ApplyClusterRole", "ApplyClusterRoleBinding"}
  /\ Fault("mcp") /\ Continue("ResolveConfig")
  /\ UNCHANGED <<obj, queueVars, held, access, mcpVars, userActions>>

(* Any call may fail; each does once another process has withdrawn the     *)
(* access; what lives in the namespace cannot be created when somebody     *)
(* removed it, and the Deployment may be gone when it is read.             *)
DeployFails ==
  /\ pc \in DeployCalls
  /\ \/ Fault("mcp")
     \/ ~MCPReachable /\ NoFault
     \/ /\ pc \in {"ApplyServiceAccount", "ApplyDeployment", "ApplyService",
                   "ApplyPodDisruptionBudget"}
        /\ ~NamespaceExists /\ NoFault
     \/ /\ pc = "CheckReadiness"
        /\ Managed("Deployment", namespace) \notin objects /\ NoFault
  /\ ReportError("DeploymentError")
  /\ UNCHANGED access

(* Mutant: no periodic requeue once the object is ready.                   *)
PatchStatus_NoPolling ==
  /\ pc = "PatchStatus" /\ obj # NoObject /\ NoFault
  /\ LET new == MergePatch(obj.status, held.old, held.ksm.status)
     IN  /\ obj' = [obj EXCEPT !.status = new]
         /\ \/ dirty' = (dirty \/ new # obj.status)
            \/ held.ksm.status.phase = "Ready" /\ dirty' = TRUE
  /\ EndPass(held.ksm.status.phase # "Ready")
  /\ UNCHANGED <<access, mcpVars, userActions>>

(* Every exit of a live pass after the deployment: the status is patched   *)
(* and the key comes back (10 seconds, 1 minute, or the error back-off).   *)
(* When Ready is published again the local copy went Ready, Progressing,   *)
(* Ready, so lastTransitionTime has moved and the write may enqueue the    *)
(* key although nothing else changed.                                      *)
PatchStatus ==
  /\ pc = "PatchStatus" /\ obj # NoObject /\ NoFault
  /\ LET new == MergePatch(obj.status, held.old, held.ksm.status)
     IN  /\ obj' = [obj EXCEPT !.status = new]
         /\ \/ dirty' = (dirty \/ new # obj.status)
            \/ held.ksm.status.phase = "Ready" /\ dirty' = TRUE
  /\ EndPass(TRUE)
  /\ UNCHANGED <<access, mcpVars, userActions>>

PatchStatusFails ==
  /\ pc = "PatchStatus"
  /\ \/ obj = NoObject /\ NoFault
     \/ Fault("onboarding")
  /\ FailPass

-------------------------------------------------------------------------------
(* cleanupKubeStateMetrics and the rest of handleDelete                    *)

(* NotFound is as good as deleted; the Namespace stays.                    *)
Remove(kind) == objects' = objects \ {Managed(kind, namespace)}

DeleteService ==
  /\ OnMCP("DeleteService", "DeletePodDisruptionBudget")
  /\ Remove("Service")
  /\ UNCHANGED <<held, subject, rollout>>

DeletePodDisruptionBudget ==
  /\ OnMCP("DeletePodDisruptionBudget", "DeleteDeployment")
  /\ Remove("PodDisruptionBudget")
  /\ UNCHANGED <<held, subject, rollout>>

DeleteDeployment ==
  /\ OnMCP("DeleteDeployment", "DeleteClusterRoleBinding")
  /\ Remove("Deployment")
  /\ rollout' = [rollout EXCEPT ![namespace] = NoRollout]
  /\ UNCHANGED <<held, subject>>

DeleteClusterRoleBinding ==
  /\ OnMCP("DeleteClusterRoleBinding", "DeleteClusterRole")
  /\ Remove("ClusterRoleBinding")
  /\ subject' = ""
  /\ UNCHANGED <<held, rollout>>

DeleteClusterRole ==
  /\ OnMCP("DeleteClusterRole", "DeleteServiceAccount")
  /\ Remove("ClusterRole")
  /\ UNCHANGED <<held, subject, rollout>>

DeleteServiceAccount ==
  /\ OnMCP("DeleteServiceAccount", "ReleaseAccess")
  /\ Remove("ServiceAccount")
  /\ UNCHANGED <<held, subject, rollout>>

CleanupCalls ==
  {"DeleteService", "DeletePodDisruptionBudget", "DeleteDeployment",
   "DeleteClusterRoleBinding", "DeleteClusterRole", "DeleteServiceAccount"}

(* Mutant: a failed removal is logged and the deletion goes on.            *)
CleanupFails_Ignored ==
  /\ pc \in CleanupCalls
  /\ \/ Fault("mcp")
     \/ ~MCPReachable /\ NoFault
  /\ Continue("ReleaseAccess")
  /\ UNCHANGED <<obj, queueVars, held, access, mcpVars, userActions>>

(* Mutant: NotFound is an error like any other.                            *)
CleanupFails_OnNotFound ==
  /\ pc \in CleanupCalls
  /\ \/ Fault("mcp")
     \/ ~MCPReachable /\ NoFault
     \/ /\ pc = "DeleteService" /\ NoFault
        /\ Managed("Service", namespace) \notin objects
  /\ FailPass

CleanupFails ==
  /\ pc \in CleanupCalls
  /\ \/ Fault("mcp")
     \/ ~MCPReachable /\ NoFault
  /\ FailPass

(* Mutant: the requeue that ReconcileDelete asks for is ignored.           *)
ReleaseAccess_DoesNotWait ==
  /\ pc = "ReleaseAccess" /\ NoFault
  /\ access' = IF access \in {"granted", "revoking"} /\ ~ReleaseAtOnce
               THEN "revoking" ELSE "absent"
  /\ Continue("RemoveFinalizer")
  /\ UNCHANGED <<obj, queueVars, held, mcpVars, userActions>>

(* ClusterAccessReconciler.ReconcileDelete: done when nothing is left to   *)
(* wait for.  With ReleaseAtOnce the AccessRequest is gone when the call   *)
(* returns; otherwise the call deletes it and asks to be called again      *)
(* until it is found gone.  One that was never granted carries no platform *)
(* finalizer and vanishes with the delete, which is not yet "found gone".  *)
ReleaseAccess ==
  /\ pc = "ReleaseAccess" /\ NoFault
  /\ access' = IF access \in {"granted", "revoking"} /\ ~ReleaseAtOnce
               THEN "revoking" ELSE "absent"
  /\ IF ReleaseAtOnce \/ access = "absent"
     THEN Continue("RemoveFinalizer") /\ UNCHANGED <<timer, held>>
     ELSE EndPass(TRUE)
  /\ UNCHANGED <<obj, dirty, mcpVars, userActions>>

(* Mutant: the failed release is logged, the finalizer removed anyway.     *)
ReleaseAccessFails_Ignored ==
  /\ pc = "ReleaseAccess" /\ Fault("access")
  /\ Continue("RemoveFinalizer")
  /\ UNCHANGED <<obj, queueVars, held, access, mcpVars, userActions>>

ReleaseAccessFails ==
  /\ pc = "ReleaseAccess" /\ Fault("access")
  /\ FailPass

(* The object goes with its last finalizer.                                *)
RemoveFinalizer ==
  /\ pc = "RemoveFinalizer"
  /\ ~stale /\ NoFault
  /\ WriteObject(IF obj.foreign THEN [obj EXCEPT !.finalizer = FALSE]
                 ELSE NoObject)
  /\ EndPass(FALSE)
  /\ UNCHANGED <<access, mcpVars, userActions>>

-------------------------------------------------------------------------------
(* Users                                                                   *)

User(kind) ==
  /\ kind \in UserActions /\ userActions < MaxUserActions
  /\ userActions' = userActions + 1
  /\ NoFault

(* Somebody else writes the object: the watch enqueues the key, and the    *)
(* worker's copy has an old resourceVersion.                               *)
ObjectWritten ==
  /\ dirty' = TRUE
  /\ stale' = (pc \notin {"Idle", "Get"})
  /\ UNCHANGED <<timer, pc, held, access, mcpVars>>

UserCreate ==
  /\ obj = NoObject /\ User("create")
  /\ \E spec \in Specs, foreign \in ForeignFinalizers :
       obj' = [generation |-> 1, spec |-> spec, deleting |-> FALSE,
               finalizer |-> FALSE, foreign |-> foreign, status |-> NoStatus]
  /\ ObjectWritten

UserEdit ==
  /\ obj # NoObject /\ User("edit")
  /\ \E workload \in Workloads \ {obj.spec.workload} :
       obj' = [obj EXCEPT !.spec.workload = workload, !.generation = @ + 1]
  /\ ObjectWritten

UserRenamespace ==
  /\ obj # NoObject /\ User("renamespace")
  /\ \E ns \in (Namespaces \cup {""}) \ {obj.spec.namespace} :
       obj' = [obj EXCEPT !.spec.namespace = ns, !.generation = @ + 1]
  /\ ObjectWritten

UserDelete ==
  /\ obj # NoObject /\ ~obj.deleting /\ User("delete")
  /\ obj' = IF obj.finalizer \/ obj.foreign
            THEN [obj EXCEPT !.deleting = TRUE, !.generation = @ + 1]
            ELSE NoObject
  /\ ObjectWritten

(* A user writes or removes kube-state-metrics-config on the MCP cluster,  *)
(* creating the namespace when need be.  The controller is not told.       *)
ConfigWrite ==
  /\ User("config")
  /\ \E ns \in Namespaces : \E data \in Configs \ {config[ns]} :
       /\ config' = [config EXCEPT ![ns] = data]
       /\ objects' = objects \cup {Managed("Namespace", ns)}
  /\ UNCHANGED <<obj, queueVars, pc, held, stale, access, subject, rollout>>

(* Somebody deletes a managed object on the MCP cluster.  A Namespace      *)
(* takes everything in it along.                                           *)
Drift ==
  /\ User("drift")
  /\ \E object \in objects :
       LET ns == object[2]
           emptied == object[1] = "Namespace"
           gone == IF emptied THEN {o \in objects : o[2] = ns} ELSE {object}
       IN  /\ objects' = objects \ gone
           /\ subject' = IF object[1] = "ClusterRoleBinding" THEN "" ELSE subject
           /\ rollout' = [n \in Namespaces |->
                IF <<"Deployment", n>> \in gone THEN NoRollout ELSE rollout[n]]
           /\ config' = [n \in Namespaces |->
                IF emptied /\ n = ns THEN NoConfig ELSE config[n]]
  /\ UNCHANGED <<obj, queueVars, pc, held, stale, access>>

-------------------------------------------------------------------------------
(* The platform, the MCP cluster's own controllers, and crashes            *)

Grant ==
  /\ access = "pending" /\ access' = "granted"
  /\ UNCHANGED <<obj, queueVars, pc, held, stale, mcpVars, countVars>>

Revoked ==
  /\ access = "revoking" /\ access' = "absent"
  /\ UNCHANGED <<obj, queueVars, pc, held, stale, mcpVars, countVars>>

(* Whoever put the other finalizer takes it off a deleted object.          *)
ForeignRelease ==
  /\ obj # NoObject /\ obj.deleting /\ obj.foreign
  /\ obj' = IF obj.finalizer THEN [obj EXCEPT !.foreign = FALSE] ELSE NoObject
  /\ ObjectWritten
  /\ UNCHANGED countVars

(* While new pods replace old ones, the replicas that exist may or may not *)
(* all be ready.                                                           *)
RollingOut(ns) == /\ rollout[ns].template # NoTemplate
                  /\ rollout[ns].running # rollout[ns].template

RolloutWave(ns) ==
  /\ RollingOut(ns) /\ rollout[ns].running # NoTemplate
  /\ rollout' = [rollout EXCEPT ![ns].ready = ~@]
  /\ UNCHANGED <<obj, queueVars, pc, held, stale, access, objects, subject,
                 config, countVars>>

RolloutDone(ns) ==
  /\ rollout[ns].template # NoTemplate
  /\ RollingOut(ns) \/ ~rollout[ns].ready
  /\ rollout' = [rollout EXCEPT ![ns].running = rollout[ns].template,
                                ![ns].ready = TRUE]
  /\ UNCHANGED <<obj, queueVars, pc, held, stale, access, objects, subject,
                 config, countVars>>

PodFails(ns) ==
  /\ rollout[ns].ready /\ Fault("pod")
  /\ rollout' = [rollout EXCEPT ![ns].ready = FALSE]
  /\ UNCHANGED <<obj, queueVars, pc, held, stale, access, objects, subject,
                 config, userActions>>

(* A restart loses the pass and the queue; the informer's first list       *)
(* enqueues every object that exists.                                      *)
Crash ==
  /\ Fault("crash")
  /\ pc' = "Idle" /\ held' = NoPass /\ stale' = FALSE
  /\ timer' = FALSE /\ dirty' = (obj # NoObject)
  /\ UNCHANGED <<obj, access, mcpVars, userActions>>

-------------------------------------------------------------------------------
Access == \/ ReconcileAccess \/ ReconcileAccessFails
          \/ MCPCluster \/ MCPClusterFails

Deploy == \/ ApplyNamespace \/ ApplyServiceAccount \/ ApplyClusterRole
          \/ ApplyClusterRoleBinding \/ ResolveConfig \/ ApplyDeployment
          \/ ApplyService \/ ApplyPodDisruptionBudget \/ CheckReadiness
          \/ DeployFails

Cleanup == \/ DeleteService \/ DeletePodDisruptionBudget \/ DeleteDeployment
           \/ DeleteClusterRoleBinding \/ DeleteClusterRole
           \/ DeleteServiceAccount \/ CleanupFails

Release == \/ ReleaseAccess \/ ReleaseAccessFails
           \/ RemoveFinalizer

Reconcile == \/ Start \/ GetObject \/ GetFails \/ AddFinalizer \/ UpdateFails
             \/ UpdateTerminating \/ UpdateTerminatingFails
             \/ Access \/ Deploy \/ PatchStatus \/ PatchStatusFails
             \/ Cleanup \/ Release

Users == \/ UserCreate \/ UserEdit \/ UserRenamespace \/ UserDelete
         \/ ConfigWrite \/ Drift

Environment == \/ Grant \/ Revoked \/ ForeignRelease \/ Crash
               \/ \E ns \in Namespaces :
                    RolloutWave(ns) \/ RolloutDone(ns) \/ PodFails(ns)

Next == Reconcile \/ TimerFires \/ Users \/ Environment

Spec == Init /\ [][Next]_vars

(* The manager runs its worker and its timers; the platform grants and     *)
(* revokes; foreign finalizers go; pods that are rolled out become ready.  *)
(* Nothing is assumed of users, faults, or a rollout's waves.              *)
Fairness ==
  /\ WF_vars(Reconcile) /\ WF_vars(TimerFires)
  /\ WF_vars(Grant) /\ WF_vars(Revoked) /\ WF_vars(ForeignRelease)
  /\ \A ns \in Namespaces : WF_vars(RolloutDone(ns))

FairSpec == Spec /\ Fairness

-------------------------------------------------------------------------------
(* Properties                                                              *)

Owned == obj # NoObject /\ obj.finalizer

(* The pass acts on the MCP cluster or on the AccessRequest only while the *)
(* object still carries the controller's finalizer: the finalizer is       *)
(* persisted (Update, controller.go:112-117) before the first access call, *)
(* and nothing that is done afterwards can be left without an owner.       *)
FinalizerGuardsPass ==
  pc \notin {"Idle", "Get", "AddFinalizer"} => Owned

(* An AccessRequest never outlives the object it was made for: whatever    *)
(* fails and wherever the process restarts, handleDelete drops the         *)
(* finalizer only after ReconcileDelete reported that nothing is left      *)
(* (controller.go:222-237).                                                *)
AccessHeldOnlyUnderFinalizer == access # "absent" => Owned

(* Nothing is left behind on the MCP cluster: as long as a managed object  *)
(* other than the Namespace exists there, the object with its finalizer    *)
(* exists too, so a deletion is still going to clean up                    *)
(* (cleanupKubeStateMetrics, controller.go:491-513).                       *)
Leftovers == {object \in objects : object[1] # "Namespace"}
NoOrphans == Leftovers # {} => Owned

(* The way to the MCP cluster stays open while there is something to clean *)
(* up: the AccessRequest is deleted only after the whole cleanup, through  *)
(* retries, restarts and repeated deleting passes, since cleanup without   *)
(* access is skipped, not awaited (controller.go:209-229).                 *)
AccessOutlivesObjects == Leftovers # {} => access = "granted"

(* kube-state-metrics never runs without the permissions it scrapes with:  *)
(* the Deployment is created after its ServiceAccount, the ClusterRole and *)
(* a binding to that very ServiceAccount, and removed before them, through *)
(* every failure and restart in between (controller.go:264-298, 497-504).  *)
RbacCoversWorkload ==
  \A ns \in Namespaces :
    Managed("Deployment", ns) \in objects =>
      /\ {Managed("ServiceAccount", ns), Managed("ClusterRole", ns),
          Managed("ClusterRoleBinding", ns)} \subseteq objects
      /\ subject = ns

(* No wake-up is lost: while the object carries the finalizer, the key is  *)
(* queued, a requeue is scheduled or a pass is under way.  The ConfigMap   *)
(* and the MCP objects are not watched, so every exit of Reconcile has to  *)
(* come back by itself (controller.go:129-165, 225-234).                   *)
NeverForgotten == Owned => dirty \/ timer \/ pc # "Idle"

(* When a pass publishes Ready, the Deployment in place was rendered from  *)
(* the spec of the generation the status names as observed, and from the   *)
(* ConfigMap data whose hash the status names, although the status is sent *)
(* as a diff against an old copy (controller.go:307-309, 328-340, 145-154).*)
ReadyDescribesDeployment ==
  [][ LET ns == TargetNamespace(held.ksm.spec)
      IN  pc = "PatchStatus" /\ obj'.status # obj.status
          /\ obj'.status.phase = "Ready" =>
            /\ rollout[ns].template.workload = held.ksm.spec.workload
            /\ obj'.status.observed = held.ksm.generation
            /\ rollout[ns].template.hash = obj'.status.hash
            /\ rollout[ns].template.mounted = (obj'.status.source = "mcp")
    ]_vars

(* Ready speaks of the pods: when a pass finds the Deployment ready, its   *)
(* pods run the template that the pass has just written ("Update status    *)
(* based on deployment readiness", controller.go:145, 481-485).            *)
ReadyMeansRolledOut ==
  [][ LET ns == TargetNamespace(held.ksm.spec)
      IN  pc = "CheckReadiness" /\ held'.ksm.status.phase = "Ready" =>
            rollout[ns].running = rollout[ns].template
    ]_vars

(* What is promised of one object.                                         *)
OwnerState == IF ~Owned THEN "none" ELSE IF obj.deleting THEN "leaving" ELSE "live"
AccessState ==
  IF access = "absent" THEN "none"
  ELSE IF access = "granted" THEN "open" ELSE "waiting"

Lifecycle == INSTANCE ServiceLifecycle
  WITH owner <- OwnerState, access <- AccessState, deployed <- Leftovers # {}

(* The controller keeps the promise of a service provider as long as no    *)
(* access call fails during a deletion and the namespace is not edited:    *)
(* finalizer, access and objects come in this order and go in the opposite *)
(* one, through failures, restarts and repeated passes, and nothing is     *)
(* taken from an object that is not deleted (controller.go:93-238).        *)
ImplementsLifecycle == Lifecycle!Spec

(* A live object whose controller has caught up with it.                   *)
Live == obj # NoObject /\ ~obj.deleting

Converged ==
  /\ Live /\ obj.finalizer
  /\ LET ns == TargetNamespace(obj.spec)
         wanted == Template(obj.spec, config[ns])
     IN  /\ FullDeployment(ns) \subseteq objects
         /\ subject = ns
         /\ rollout[ns].template = wanted /\ rollout[ns].running = wanted
         /\ obj.status = [phase |-> "Ready", reason |-> "ReconcileSuccess",
                          observed |-> obj.generation,
                          source |-> SourceOf(config[ns]), hash |-> wanted.hash]

(* An object that stays is eventually deployed as its current spec and the *)
(* current ConfigMap say, its pods run that template, and its status says  *)
(* so, however edits, ConfigMap writes and failures are interleaved with   *)
(* the passes (controller.go:93-166).                                      *)
Converges == <>[]Live => <>[]Converged

Deleted == obj # NoObject /\ obj.deleting

(* A deleted object goes: the tests delete their objects and wait until    *)
(* they are gone (kubestatemetrics_test.go:157-170).  With a library that  *)
(* asks to be called again (controller.go:227-229) this is not so.         *)
DeletionEnds == ~<>[]Deleted

(* Failures, conflicts and restarts do not keep a deletion from its end.   *)
(* One thing does: a deleting pass that finds the AccessRequest gone asks  *)
(* for it again (controller.go:210), only to release it and come back.     *)
(* An object that stays deleted forever is one whose AccessRequest goes    *)
(* and comes back again and again (controller.go:195-238).                 *)
DeletionCompletes ==
  <>[]Deleted => []<>(access = "absent") /\ []<>(access = "pending")
===============================================================================
