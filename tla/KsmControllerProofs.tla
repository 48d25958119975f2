-------------------------- MODULE KsmControllerProofs --------------------------
(***************************************************************************)
(* Proofs about the KubeStateMetrics controller: its types, that an        *)
(* AccessRequest never outlives the object, and that no wake-up is lost.   *)
(***************************************************************************)
EXTENDS KsmController, TLAPS

-------------------------------------------------------------------------------
(* Lemmas about the desired state and the status                           *)

(* The target namespace of a spec is a namespace of the MCP cluster.       *)
LEMMA TargetType ==
  ASSUME NEW spec \in Specs
  PROVE  TargetNamespace(spec) \in Namespaces
BY DefaultNamespaceAssumption DEF DefaultNamespaceAssumption, TargetNamespace, Specs

(* A managed object is a pair of a kind and a place.                       *)
LEMMA ManagedType ==
  ASSUME NEW kind \in Kinds, NEW ns \in Namespaces
  PROVE  Managed(kind, ns) \in ManagedObjects
BY DEF Managed, ManagedObjects, ClusterScoped

(* The three status setters keep a status a status.                        *)
LEMMA StatusTypes ==
  ASSUME NEW status \in Statuses, NEW generation \in Nat, NEW reason \in Reasons
  PROVE  /\ StatusProgressing(status, generation, reason) \in Statuses
         /\ StatusReady(status, generation) \in Statuses
         /\ StatusTerminating(status, generation) \in Statuses
BY DEF StatusProgressing, StatusReady, StatusTerminating, SetCondition,
       Statuses, Phases, Reasons

(* So does the patch.                                                      *)
LEMMA MergePatchType ==
  ASSUME NEW server \in Statuses, NEW old \in Statuses, NEW new \in Statuses
  PROVE  MergePatch(server, old, new) \in Statuses
BY DEF MergePatch, Statuses

(* A new object's status is a status.                                      *)
LEMMA NoStatusType == NoStatus \in Statuses
<1>1. NoConfig \in Configs /\ HashOf(NoConfig) = <<>>
  BY DEF Configs, HashOf
<1>2. <<>> \in Hashes
  BY <1>1 DEF Hashes
<1> QED BY <1>2 DEF NoStatus, Statuses, Phases, Reasons

(* What is read from a ConfigMap, and what is rendered from it.            *)
LEMMA ConfigTypes ==
  ASSUME NEW spec \in Specs, NEW data \in Configs
  PROVE  /\ HashOf(data) \in Hashes
         /\ SourceOf(data) \in {"", "mcp"}
         /\ Template(spec, data) \in Templates
BY DEF Hashes, SourceOf, Templates

-------------------------------------------------------------------------------
(* The inductive invariant                                                 *)

(* What a pass knows of the object it works on.  The object cannot go, nor *)
(* lose the finalizer, while a pass relies on it; before the finalizer is  *)
(* written, a copy that is not stale is of an object that is still there   *)
(* and not being deleted.                                                  *)
PassGuarded ==
  /\ FinalizerGuardsPass
  /\ pc = "AddFinalizer" =>
       /\ obj # NoObject => ~obj.finalizer
       /\ ~stale => obj # NoObject /\ ~obj.deleting
  /\ pc = "Idle" \/ pc = "Get" => ~stale

AccessGuarded ==
  /\ AccessHeldOnlyUnderFinalizer
  /\ pc = "RemoveFinalizer" => access = "absent"

IInv == TypeOK /\ PassGuarded /\ AccessGuarded /\ NeverForgotten

(* The initial state satisfies it.                                         *)
LEMMA InitIInv == Init => IInv
<1> SUFFICES ASSUME Init PROVE IInv
  OBVIOUS
<1>1. TypeOK
  <2>1. rollout \in [Namespaces -> Rollouts]
    BY DEF Init, NoRollout, Rollouts
  <2>2. config \in [Namespaces -> Configs]
    BY DEF Init, Configs
  <2>3. pc \in Calls /\ access \in AccessStates
    BY DEF Init, Calls, AccessStates
  <2>4. userActions \in 0..MaxUserActions /\ faults \in 0..MaxFaults
    <3>1. userActions = 0 /\ faults = 0
      BY DEF Init
    <3> QED BY <3>1, BoundsAssumption
  <2> QED BY <2>1, <2>2, <2>3, <2>4 DEF Init, TypeOK, ObjectTypeOK, PassTypeOK, MCPTypeOK,
                                          CountTypeOK
<1>2. PassGuarded /\ AccessGuarded /\ NeverForgotten
  BY DEF Init, PassGuarded, AccessGuarded, FinalizerGuardsPass,
         AccessHeldOnlyUnderFinalizer, NeverForgotten, Owned
<1> QED BY <1>1, <1>2 DEF IInv

-------------------------------------------------------------------------------
(* Types                                                                   *)

(* A worker that is past its first read holds a copy of an object.         *)
LEMMA HeldType ==
  ASSUME TypeOK, pc \notin {"Idle", "Get"}
  PROVE  /\ held \in Passes /\ held.ksm \in Objects /\ held.old \in Statuses
         /\ held.ksm.spec \in Specs /\ held.ksm.status \in Statuses
         /\ held.ksm.generation \in Nat /\ namespace \in Namespaces
BY TargetType DEF TypeOK, PassTypeOK, namespace, Passes, Objects

(* The copy stays one when its status is replaced.                         *)
LEMMA HeldStatusType ==
  ASSUME NEW pass \in Passes, NEW status \in Statuses
  PROVE  [pass EXCEPT !.ksm.status = status] \in Passes
BY DEF Passes, Objects

(* A pass starts with well-formed copies.                                  *)
LEMMA NewPassType ==
  ASSUME NEW ksm \in Objects
  PROVE  NewPass(ksm) \in Passes /\ Reconciling(ksm) \in Passes
<1>1. NewPass(ksm) \in Passes
  BY DEF NewPass, Passes, Objects, Configs
<1>2. StatusProgressing(ksm.status, ksm.generation, "Reconciling") \in Statuses
  BY StatusTypes DEF Objects, Reasons
<1> QED BY <1>1, <1>2, HeldStatusType DEF Reconciling, NewPass

(* A write by a user counts the generation up.                             *)
LEMMA GenerationType ==
  ASSUME NEW object \in Objects
  PROVE  object.generation + 1 \in Nat
BY DEF Objects

(* A user's edit leaves an object with the finalizers it had.              *)
LEMMA EditType ==
  ASSUME NEW object \in Objects, NEW edited,
         \/ \E workload \in Workloads : edited =
              [object EXCEPT !.spec.workload = workload, !.generation = @ + 1]
         \/ \E ns \in Namespaces \cup {""} : edited =
              [object EXCEPT !.spec.namespace = ns, !.generation = @ + 1]
  PROVE  /\ edited \in Objects /\ edited.finalizer = object.finalizer
         /\ edited.deleting = object.deleting
<1> DEFINE next == object.generation + 1
<1>1. next \in Nat
  BY GenerationType
<1>2. PICK spec \in Specs :
        edited = [object EXCEPT !.spec = spec, !.generation = next]
  <2>1. object.spec \in Specs
    BY DEF Objects
  <2>2. CASE \E workload \in Workloads : edited =
               [object EXCEPT !.spec.workload = workload, !.generation = @ + 1]
    <3> PICK workload \in Workloads : edited =
               [object EXCEPT !.spec.workload = workload, !.generation = @ + 1]
      BY <2>2
    <3>1. [object.spec EXCEPT !.workload = workload] \in Specs
      BY <2>1 DEF Specs
    <3> QED BY <3>1 DEF Objects
  <2>3. CASE \E ns \in Namespaces \cup {""} : edited =
               [object EXCEPT !.spec.namespace = ns, !.generation = @ + 1]
    <3> PICK ns \in Namespaces \cup {""} : edited =
               [object EXCEPT !.spec.namespace = ns, !.generation = @ + 1]
      BY <2>3
    <3>1. [object.spec EXCEPT !.namespace = ns] \in Specs
      BY <2>1 DEF Specs
    <3> QED BY <3>1 DEF Objects
  <2> QED BY <2>2, <2>3
<1> HIDE DEF next
<1> QED BY <1>1, <1>2 DEF Objects

(* Every step counts at most one user action and one fault, within bounds. *)
LEMMA CountStep == CountTypeOK /\ [Next]_vars => CountTypeOK'
<1> SUFFICES ASSUME CountTypeOK, [Next]_vars PROVE CountTypeOK'
  OBVIOUS
<1> DEFINE FaultsOK == \/ faults' = faults
                       \/ faults < MaxFaults /\ faults' = faults + 1
           UsersOK == \/ userActions' = userActions
                      \/ /\ userActions < MaxUserActions
                         /\ userActions' = userActions + 1
<1>1. CASE Start \/ GetObject \/ GetFails \/ AddFinalizer \/ UpdateFails
           \/ UpdateTerminating \/ UpdateTerminatingFails \/ TimerFires
  <2>1. FaultsOK /\ UsersOK
    BY <1>1 DEF Start, GetObject, GetFails, AddFinalizer, UpdateFails,
         UpdateTerminating, UpdateTerminatingFails, TimerFires, FailPass,
         NoFault, Fault, countVars
  <2> QED BY <2>1, BoundsAssumption DEF CountTypeOK
<1>2. CASE Access \/ PatchStatus \/ PatchStatusFails \/ Release
  <2>1. FaultsOK /\ UsersOK
    BY <1>2 DEF Access, ReconcileAccess, ReconcileAccessFails, MCPCluster,
         MCPClusterFails, PatchStatus, PatchStatusFails, Release,
         ReleaseAccess, ReleaseAccessFails, RemoveFinalizer, ReportError,
         FailPass, NoFault, Fault
  <2> QED BY <2>1, BoundsAssumption DEF CountTypeOK
<1>3. CASE Deploy \/ Cleanup
  <2>1. FaultsOK /\ UsersOK
    BY <1>3 DEF Deploy, ApplyNamespace, ApplyServiceAccount, ApplyClusterRole,
         ApplyClusterRoleBinding, ResolveConfig, ApplyDeployment, ApplyService,
         ApplyPodDisruptionBudget, CheckReadiness, DeployFails, Cleanup,
         DeleteService, DeletePodDisruptionBudget, DeleteDeployment,
         DeleteClusterRoleBinding, DeleteClusterRole, DeleteServiceAccount,
         CleanupFails, OnMCP, ReportError, FailPass, NoFault, Fault
  <2> QED BY <2>1, BoundsAssumption DEF CountTypeOK
<1>4. CASE Users
  <2>1. FaultsOK /\ UsersOK
    BY <1>4 DEF Users, UserCreate, UserEdit, UserRenamespace, UserDelete,
         ConfigWrite, Drift, User, NoFault
  <2> QED BY <2>1, BoundsAssumption DEF CountTypeOK
<1>5. CASE Environment
  <2>1. FaultsOK /\ UsersOK
    BY <1>5 DEF Environment, Grant, Revoked, ForeignRelease, Crash,
         RolloutWave, RolloutDone, PodFails, Fault, countVars
  <2> QED BY <2>1, BoundsAssumption DEF CountTypeOK
<1>6. CASE UNCHANGED vars
  BY <1>6 DEF vars, countVars, CountTypeOK
<1> QED BY <1>1, <1>2, <1>3, <1>4, <1>5, <1>6 DEF Next, Reconcile

(* The object stays an object whoever writes it.                           *)
LEMMA ObjectStep == TypeOK /\ PassGuarded /\ [Next]_vars => ObjectTypeOK'
<1> SUFFICES ASSUME TypeOK, PassGuarded, [Next]_vars PROVE ObjectTypeOK'
  OBVIOUS
<1> USE DEF TypeOK, ObjectTypeOK, EndPass, FailPass, queueVars
<1>1. CASE Start \/ GetObject \/ GetFails \/ UpdateFails \/ TimerFires
           \/ UpdateTerminatingFails
  BY <1>1 DEF Start, GetObject, GetFails, UpdateFails, TimerFires,
       UpdateTerminatingFails
<1>2. CASE AddFinalizer
  BY <1>2 DEF AddFinalizer, WriteObject, PassGuarded, Objects
<1>3. CASE UpdateTerminating
  <2>1. obj \in Objects
    BY <1>3 DEF UpdateTerminating, PassGuarded, FinalizerGuardsPass, Owned
  <2>2. StatusTerminating(obj.status, obj.generation) \in Statuses
    BY <2>1, StatusTypes DEF Objects, Reasons
  <2> QED BY <1>3, <2>1, <2>2 DEF UpdateTerminating, WriteObject, Objects
<1>4. CASE Access
  BY <1>4 DEF Access, ReconcileAccess, ReconcileAccessFails, MCPCluster,
       MCPClusterFails, ReportError
<1>5. CASE Deploy
  BY <1>5 DEF Deploy, ApplyNamespace, ApplyServiceAccount, ApplyClusterRole,
       ApplyClusterRoleBinding, ResolveConfig, ApplyDeployment, ApplyService,
       ApplyPodDisruptionBudget, CheckReadiness, DeployFails, OnMCP, ReportError
<1>6. CASE PatchStatus
  <2>1. obj \in Objects /\ held \in Passes
    BY <1>6, HeldType DEF PatchStatus, PassGuarded, FinalizerGuardsPass, Owned
  <2>2. MergePatch(obj.status, held.old, held.ksm.status) \in Statuses
    BY <2>1, MergePatchType DEF Objects, Passes
  <2> QED BY <1>6, <2>1, <2>2 DEF PatchStatus, Objects
<1>7. CASE PatchStatusFails \/ Cleanup \/ ReleaseAccess \/ ReleaseAccessFails
  BY <1>7 DEF PatchStatusFails, Cleanup, DeleteService,
       DeletePodDisruptionBudget, DeleteDeployment, DeleteClusterRoleBinding,
       DeleteClusterRole, DeleteServiceAccount, CleanupFails, OnMCP,
       ReleaseAccess, ReleaseAccessFails
<1>8. CASE RemoveFinalizer
  BY <1>8 DEF RemoveFinalizer, WriteObject, PassGuarded, FinalizerGuardsPass,
       Owned, Objects
<1>9. CASE UserCreate
  BY <1>9, NoStatusType, BoundsAssumption DEF UserCreate, ObjectWritten, Objects
<1>10. CASE UserEdit \/ UserRenamespace
  <2>1. obj' \in Objects
    BY <1>10, EditType DEF UserEdit, UserRenamespace
  <2> QED BY <1>10, <2>1 DEF UserEdit, UserRenamespace, ObjectWritten
<1>12. CASE UserDelete
  <2>1. obj \in Objects /\ obj.generation + 1 \in Nat
    BY <1>12 DEF UserDelete, Objects
  <2> QED BY <1>12, <2>1 DEF UserDelete, ObjectWritten, Objects
<1>13. CASE ConfigWrite \/ Drift
  BY <1>13 DEF ConfigWrite, Drift
<1>14. CASE ForeignRelease
  BY <1>14 DEF ForeignRelease, ObjectWritten, Objects
<1>15. CASE Grant \/ Revoked \/ Crash
  BY <1>15 DEF Grant, Revoked, Crash
<1>16. CASE \E ns \in Namespaces :
              RolloutWave(ns) \/ RolloutDone(ns) \/ PodFails(ns)
  BY <1>16 DEF RolloutWave, RolloutDone, PodFails
<1>17. CASE UNCHANGED vars
  BY <1>17 DEF vars
<1> QED BY <1>1, <1>2, <1>3, <1>4, <1>5, <1>6, <1>7, <1>8, <1>9, <1>10,
           <1>12, <1>13, <1>14, <1>15, <1>16, <1>17
        DEF Next, Reconcile, Release, Users, Environment

(* The worker's copies stay well-formed, and exist exactly during a pass.  *)
LEMMA PassStep == TypeOK /\ PassGuarded /\ [Next]_vars => PassTypeOK'
<1> SUFFICES ASSUME TypeOK, PassGuarded, [Next]_vars PROVE PassTypeOK'
  OBVIOUS
<1> USE DEF TypeOK, PassTypeOK, EndPass, FailPass, Continue, Calls
<1>1. CASE Start \/ TimerFires \/ GetFails \/ UpdateFails
  BY <1>1 DEF Start, TimerFires, GetFails, UpdateFails
<1>2. CASE GetObject
  <2>1. obj \in Objects
    BY <1>2 DEF GetObject, ObjectTypeOK
  <2>2. NewPass(obj) \in Passes /\ Reconciling(obj) \in Passes
    BY <2>1, NewPassType
  <2> QED BY <1>2, <2>2, NullsAssumption DEF GetObject
<1>3. CASE AddFinalizer
  <2>1. obj \in Objects
    BY <1>3 DEF AddFinalizer, ObjectTypeOK, PassGuarded
  <2>2. [obj EXCEPT !.finalizer = TRUE] \in Objects
    BY <2>1 DEF Objects
  <2>3. held' \in Passes
    BY <1>3, <2>2, NewPassType DEF AddFinalizer
  <2> QED BY <1>3, <2>3, NullsAssumption DEF AddFinalizer
<1>4. CASE UpdateTerminating
  <2>1. obj' \in Objects
    <3>1. ObjectTypeOK'
      BY ObjectStep
    <3>2. obj # NoObject /\ obj \in Objects
      BY <1>4 DEF UpdateTerminating, PassGuarded, FinalizerGuardsPass, Owned,
           ObjectTypeOK
    <3>3. StatusTerminating(obj.status, obj.generation) \in Statuses
      BY <3>2, StatusTypes DEF Objects, Reasons
    <3> QED BY <1>4, <3>2, <3>3 DEF UpdateTerminating, WriteObject, Objects
  <2>2. held' \in Passes
    BY <1>4, <2>1, HeldType DEF UpdateTerminating, Passes
  <2> QED BY <1>4, <2>2, NullsAssumption DEF UpdateTerminating
<1>5. CASE UpdateTerminatingFails
  <2>1. held' \in Passes
    <3>1. StatusTerminating(held.ksm.status, held.ksm.generation) \in Statuses
      BY <1>5, HeldType, StatusTypes DEF UpdateTerminatingFails, Reasons
    <3> QED BY <1>5, <3>1, HeldType, HeldStatusType DEF UpdateTerminatingFails
  <2> QED BY <1>5, <2>1, NullsAssumption DEF UpdateTerminatingFails
<1>6. ASSUME NEW reason \in Reasons, pc \notin {"Idle", "Get"},
             ReportError(reason)
      PROVE  PassTypeOK'
  <2>1. held' \in Passes
    <3>1. StatusProgressing(held.ksm.status, held.ksm.generation, reason)
            \in Statuses
      BY <1>6, HeldType, StatusTypes
    <3> QED BY <1>6, <3>1, HeldType, HeldStatusType DEF ReportError
  <2> QED BY <1>6, <2>1, NullsAssumption DEF ReportError
<1>7. CASE ReconcileAccess \/ MCPCluster \/ MCPClusterFails
  BY <1>7 DEF ReconcileAccess, MCPCluster, MCPClusterFails
<1>8. CASE ReconcileAccessFails
  <2>1. CASE Deleting
    BY <1>8, <2>1 DEF ReconcileAccessFails
  <2>2. CASE ~Deleting
    BY <1>8, <2>2, <1>6 DEF ReconcileAccessFails, Reasons
  <2> QED BY <2>1, <2>2
<1>9. CASE ApplyNamespace \/ ApplyServiceAccount \/ ApplyClusterRole
           \/ ApplyClusterRoleBinding \/ ApplyDeployment \/ ApplyService
           \/ ApplyPodDisruptionBudget
  BY <1>9 DEF ApplyNamespace, ApplyServiceAccount, ApplyClusterRole,
       ApplyClusterRoleBinding, ApplyDeployment, ApplyService,
       ApplyPodDisruptionBudget, OnMCP
<1>10. CASE ResolveConfig
  <2> DEFINE data == config[namespace]
  <2>1. data \in Configs /\ held \in Passes
    BY <1>10, HeldType DEF ResolveConfig, OnMCP, MCPTypeOK
  <2>2. HashOf(data) \in Hashes /\ SourceOf(data) \in {"", "mcp"}
    BY <2>1, ConfigTypes DEF Hashes, SourceOf
  <2>3. held' = [held EXCEPT !.config = data,
                   !.ksm.status.source = SourceOf(data),
                   !.ksm.status.hash = HashOf(data)]
    BY <1>10 DEF ResolveConfig
  <2> HIDE DEF data
  <2>4. held' \in Passes
    BY <2>1, <2>2, <2>3 DEF Passes, Objects, Statuses
  <2> QED BY <1>10, <2>4, NullsAssumption DEF ResolveConfig, OnMCP
<1>11. CASE CheckReadiness
  <2>1. PICK status \in Statuses : held' = [held EXCEPT !.ksm.status = status]
    <3>1. /\ StatusReady(held.ksm.status, held.ksm.generation) \in Statuses
          /\ StatusProgressing(held.ksm.status, held.ksm.generation,
                               "WaitingForPods") \in Statuses
      BY <1>11, HeldType, StatusTypes DEF CheckReadiness, OnMCP, Reasons
    <3> QED BY <1>11, <3>1 DEF CheckReadiness
  <2>2. held' \in Passes
    BY <1>11, <2>1, HeldType, HeldStatusType DEF CheckReadiness, OnMCP
  <2> QED BY <1>11, <2>2, NullsAssumption DEF CheckReadiness, OnMCP
<1>12. CASE DeployFails
  BY <1>12, <1>6 DEF DeployFails, DeployCalls, Reasons
<1>13. CASE PatchStatus \/ PatchStatusFails \/ Cleanup \/ Release
  BY <1>13 DEF PatchStatus, PatchStatusFails, Cleanup, DeleteService,
       DeletePodDisruptionBudget, DeleteDeployment, DeleteClusterRoleBinding,
       DeleteClusterRole, DeleteServiceAccount, CleanupFails, OnMCP, Release,
       ReleaseAccess, ReleaseAccessFails, RemoveFinalizer
<1>14. CASE Users
  BY <1>14 DEF Users, UserCreate, UserEdit, UserRenamespace, UserDelete,
       ObjectWritten, ConfigWrite, Drift
<1>15. CASE Environment
  BY <1>15 DEF Environment, Grant, Revoked, ForeignRelease, ObjectWritten,
       Crash, RolloutWave, RolloutDone, PodFails
<1>16. CASE UNCHANGED vars
  BY <1>16 DEF vars
<1> QED BY <1>1, <1>2, <1>3, <1>4, <1>5, <1>7, <1>8, <1>9, <1>10, <1>11, <1>12,
           <1>13, <1>14, <1>15, <1>16
        DEF Next, Reconcile, Access, Deploy

(* What exists on the MCP cluster are managed objects, rolled-out          *)
(* templates and user data, whoever writes it.                             *)
LEMMA MCPStep == TypeOK /\ PassGuarded /\ [Next]_vars => MCPTypeOK'
<1> SUFFICES ASSUME TypeOK, PassGuarded, [Next]_vars PROVE MCPTypeOK'
  OBVIOUS
<1> USE DEF TypeOK, MCPTypeOK, AccessStates, mcpVars
<1>1. CASE Start \/ GetObject \/ GetFails \/ AddFinalizer \/ UpdateFails
           \/ UpdateTerminating \/ UpdateTerminatingFails \/ TimerFires
  BY <1>1 DEF Start, GetObject, GetFails, AddFinalizer, UpdateFails, FailPass,
       UpdateTerminating, UpdateTerminatingFails, TimerFires
<1>2. CASE Access \/ PatchStatus \/ PatchStatusFails \/ Release
  BY <1>2 DEF Access, ReconcileAccess, ReconcileAccessFails, MCPCluster,
       MCPClusterFails, PatchStatus, PatchStatusFails, Release, ReleaseAccess,
       ReleaseAccessFails, RemoveFinalizer, ReportError, FailPass
<1>3. ASSUME NEW kind \in Kinds, pc \notin {"Idle", "Get"},
             CreateOrUpdate(kind)
      PROVE  objects' \subseteq ManagedObjects
  BY <1>3, HeldType, ManagedType DEF CreateOrUpdate
<1>4. CASE ApplyNamespace \/ ApplyServiceAccount \/ ApplyClusterRole
           \/ ApplyService \/ ApplyPodDisruptionBudget
  <2>1. objects' \subseteq ManagedObjects
    BY <1>3, <1>4 DEF ApplyNamespace, ApplyServiceAccount, ApplyClusterRole,
         ApplyService, ApplyPodDisruptionBudget, OnMCP, Kinds, ClusterScoped
  <2> QED BY <1>4, <2>1 DEF ApplyNamespace, ApplyServiceAccount,
            ApplyClusterRole, ApplyService, ApplyPodDisruptionBudget, OnMCP
<1>5. CASE ApplyClusterRoleBinding
  <2>1. objects' \subseteq ManagedObjects
    BY <1>3, <1>5 DEF ApplyClusterRoleBinding, OnMCP, Kinds, ClusterScoped
  <2>2. namespace \in Namespaces
    BY <1>5, HeldType DEF ApplyClusterRoleBinding, OnMCP
  <2> QED BY <1>5, <2>1, <2>2 DEF ApplyClusterRoleBinding, OnMCP
<1>6. CASE ApplyDeployment
  <2>1. objects' \subseteq ManagedObjects
    BY <1>3, <1>6 DEF ApplyDeployment, OnMCP, Kinds
  <2>2. namespace \in Namespaces
        /\ Template(held.ksm.spec, held.config) \in Templates
    BY <1>6, HeldType, ConfigTypes DEF ApplyDeployment, OnMCP, Passes
  <2>3. rollout' \in [Namespaces -> Rollouts]
    BY <1>6, <2>2 DEF ApplyDeployment, Rollouts
  <2> QED BY <1>6, <2>1, <2>3 DEF ApplyDeployment, OnMCP
<1>7. CASE ResolveConfig \/ CheckReadiness \/ DeployFails \/ CleanupFails
  BY <1>7 DEF ResolveConfig, CheckReadiness, DeployFails, CleanupFails, OnMCP,
       ReportError, FailPass
<1>8. CASE DeleteService \/ DeletePodDisruptionBudget \/ DeleteClusterRole
           \/ DeleteServiceAccount \/ DeleteClusterRoleBinding
  BY <1>8 DEF DeleteService, DeletePodDisruptionBudget, DeleteClusterRole,
       DeleteServiceAccount, DeleteClusterRoleBinding, OnMCP, Remove
<1>9. CASE DeleteDeployment
  <2>1. rollout' \in [Namespaces -> Rollouts]
    BY <1>9 DEF DeleteDeployment, Rollouts, NoRollout
  <2> QED BY <1>9, <2>1 DEF DeleteDeployment, OnMCP, Remove
<1>10. CASE UserCreate \/ UserEdit \/ UserRenamespace \/ UserDelete
            \/ ForeignRelease \/ Grant \/ Revoked \/ Crash
  BY <1>10 DEF UserCreate, UserEdit, UserRenamespace, UserDelete,
       ForeignRelease, ObjectWritten, Grant, Revoked, Crash
<1>11. CASE ConfigWrite
  <2> PICK ns \in Namespaces, data \in Configs :
        /\ config' = [config EXCEPT ![ns] = data]
        /\ objects' = objects \cup {Managed("Namespace", ns)}
    BY <1>11 DEF ConfigWrite
  <2>1. objects' \subseteq ManagedObjects
    BY ManagedType DEF Kinds
  <2> QED BY <1>11, <2>1 DEF ConfigWrite
<1>12. CASE Drift
  <2>1. objects' \subseteq objects /\ subject' \in {"", subject}
    BY <1>12 DEF Drift
  <2>2. PICK gone \in SUBSET objects :
          rollout' = [n \in Namespaces |->
            IF <<"Deployment", n>> \in gone THEN NoRollout ELSE rollout[n]]
    <3>1. PICK object \in objects :
            LET gone == IF object[1] = "Namespace"
                        THEN {o \in objects : o[2] = object[2]} ELSE {object}
            IN  rollout' = [n \in Namespaces |->
                  IF <<"Deployment", n>> \in gone THEN NoRollout ELSE rollout[n]]
      BY <1>12, Zenon DEF Drift
    <3> QED BY <3>1
  <2>3. NoRollout \in Rollouts
    BY DEF NoRollout, Rollouts
  <2>4. rollout' \in [Namespaces -> Rollouts]
    BY <2>2, <2>3
  <2>5. PICK object \in objects :
          config' = [n \in Namespaces |->
            IF object[1] = "Namespace" /\ n = object[2] THEN NoConfig ELSE config[n]]
    BY <1>12 DEF Drift
  <2>6. config' \in [Namespaces -> Configs]
    BY <2>5 DEF Configs
  <2> QED BY <1>12, <2>1, <2>4, <2>6 DEF Drift
<1>13. CASE \E ns \in Namespaces :
              RolloutWave(ns) \/ RolloutDone(ns) \/ PodFails(ns)
  <2> PICK ns \in Namespaces :
        RolloutWave(ns) \/ RolloutDone(ns) \/ PodFails(ns)
    BY <1>13
  <2>1. rollout[ns] \in Rollouts
    OBVIOUS
  <2>2. PICK next \in Rollouts : rollout' = [rollout EXCEPT ![ns] = next]
    BY <2>1 DEF RolloutWave, RolloutDone, PodFails, Rollouts
  <2> QED BY <2>2 DEF RolloutWave, RolloutDone, PodFails
<1>14. CASE UNCHANGED vars
  BY <1>14 DEF vars
<1> QED BY <1>1, <1>2, <1>4, <1>5, <1>6, <1>7, <1>8, <1>9, <1>10, <1>11, <1>12,
           <1>13, <1>14
        DEF Next, Reconcile, Deploy, Cleanup, Users, Environment

(* Every step keeps the types.                                             *)
LEMMA TypeStep == TypeOK /\ PassGuarded /\ [Next]_vars => TypeOK'
BY CountStep, ObjectStep, PassStep, MCPStep DEF TypeOK

-------------------------------------------------------------------------------
(* The guards of a pass                                                    *)

(* The worker writes the finalizer before it acts, nobody else takes it    *)
(* off, and whoever writes the object makes the worker's copy stale.       *)
LEMMA PassGuardedStep == TypeOK /\ PassGuarded /\ [Next]_vars => PassGuarded'
<1> SUFFICES ASSUME TypeOK, PassGuarded, [Next]_vars PROVE PassGuarded'
  OBVIOUS
<1> USE DEF PassGuarded, FinalizerGuardsPass, Owned, EndPass, FailPass, Continue
<1>1. CASE Start \/ TimerFires \/ GetObject \/ GetFails \/ UpdateFails
           \/ UpdateTerminatingFails
  BY <1>1 DEF Start, TimerFires, GetObject, GetFails, UpdateFails,
       UpdateTerminatingFails
<1>2. CASE AddFinalizer \/ UpdateTerminating
  <2>1. obj \in Objects
    BY <1>2 DEF AddFinalizer, UpdateTerminating, TypeOK, ObjectTypeOK
  <2>2. obj' \in Objects /\ obj'.finalizer
    <3>1. CASE AddFinalizer
      BY <3>1, <2>1 DEF AddFinalizer, WriteObject, Objects
    <3>2. CASE UpdateTerminating
      <4>1. StatusTerminating(obj.status, obj.generation) \in Statuses
        BY <2>1, StatusTypes DEF Objects, Reasons
      <4> QED BY <3>2, <2>1, <4>1 DEF UpdateTerminating, WriteObject, Objects
    <3> QED BY <1>2, <3>1, <3>2
  <2> QED BY <1>2, <2>2, NullsAssumption DEF AddFinalizer, UpdateTerminating
<1>3. CASE Access
  BY <1>3 DEF Access, ReconcileAccess, ReconcileAccessFails, MCPCluster,
       MCPClusterFails, ReportError
<1>4. CASE Deploy
  BY <1>4 DEF Deploy, ApplyNamespace, ApplyServiceAccount, ApplyClusterRole,
       ApplyClusterRoleBinding, ResolveConfig, ApplyDeployment, ApplyService,
       ApplyPodDisruptionBudget, CheckReadiness, DeployFails, DeployCalls,
       OnMCP, ReportError
<1>5. CASE PatchStatus \/ PatchStatusFails \/ Release
  BY <1>5 DEF PatchStatus, PatchStatusFails, Release, ReleaseAccess,
       ReleaseAccessFails, RemoveFinalizer
<1>6. CASE Cleanup
  BY <1>6 DEF Cleanup, DeleteService, DeletePodDisruptionBudget,
       DeleteDeployment, DeleteClusterRoleBinding, DeleteClusterRole,
       DeleteServiceAccount, CleanupFails, OnMCP
<1>7. ASSUME ObjectWritten, NEW object \in Objects, obj' = object,
             object.finalizer <=> Owned
      PROVE  PassGuarded'
  BY <1>7, NullsAssumption DEF ObjectWritten
<1>8. CASE UserCreate
  <2>1. PICK spec \in Specs, foreign \in ForeignFinalizers :
          obj' = [generation |-> 1, spec |-> spec, deleting |-> FALSE,
                  finalizer |-> FALSE, foreign |-> foreign, status |-> NoStatus]
    BY <1>8 DEF UserCreate
  <2>2. obj' \in Objects /\ ~obj'.finalizer
    BY <2>1, NoStatusType, BoundsAssumption DEF Objects
  <2> QED BY <1>7, <1>8, <2>2 DEF UserCreate
<1>9. CASE UserEdit \/ UserRenamespace
  <2>1. obj' \in Objects /\ obj'.finalizer = obj.finalizer
    BY <1>9, EditType DEF UserEdit, UserRenamespace, TypeOK, ObjectTypeOK
  <2> QED BY <1>7, <1>9, <2>1 DEF UserEdit, UserRenamespace, TypeOK,
            ObjectTypeOK, Objects
<1>10. CASE UserDelete
  <2>1. obj \in Objects
    BY <1>10 DEF UserDelete, TypeOK, ObjectTypeOK
  <2>2. CASE obj.finalizer \/ obj.foreign
    <3>1. obj' \in Objects /\ obj'.finalizer = obj.finalizer
      BY <1>10, <2>1, <2>2, GenerationType DEF UserDelete, Objects
    <3> QED BY <1>7, <1>10, <2>1, <3>1 DEF UserDelete, Objects
  <2>3. CASE ~(obj.finalizer \/ obj.foreign)
    BY <1>10, <2>3 DEF UserDelete, ObjectWritten
  <2> QED BY <2>2, <2>3
<1>11. CASE ForeignRelease
  <2>1. obj \in Objects
    BY <1>11 DEF ForeignRelease, TypeOK, ObjectTypeOK
  <2>2. CASE obj.finalizer
    <3>1. obj' \in Objects /\ obj'.finalizer
      BY <1>11, <2>1, <2>2 DEF ForeignRelease, Objects
    <3> QED BY <1>7, <1>11, <2>1, <2>2, <3>1 DEF ForeignRelease, Objects
  <2>3. CASE ~obj.finalizer
    BY <1>11, <2>3 DEF ForeignRelease, ObjectWritten
  <2> QED BY <2>2, <2>3
<1>12. CASE ConfigWrite \/ Drift \/ Grant \/ Revoked \/ Crash
  <2>1. CASE Crash
    BY <2>1 DEF Crash
  <2>2. CASE ~Crash
    <3>1. UNCHANGED <<obj, pc, stale>>
      BY <1>12, <2>2 DEF ConfigWrite, Drift, Grant, Revoked
    <3> QED BY <3>1
  <2> QED BY <2>1, <2>2
<1>13. CASE \E ns \in Namespaces :
              RolloutWave(ns) \/ RolloutDone(ns) \/ PodFails(ns)
  BY <1>13 DEF RolloutWave, RolloutDone, PodFails
<1>14. CASE UNCHANGED vars
  BY <1>14 DEF vars
<1> QED BY <1>1, <1>2, <1>3, <1>4, <1>5, <1>6, <1>8, <1>9, <1>10, <1>11, <1>12,
           <1>13, <1>14
        DEF Next, Reconcile, Users, Environment

-------------------------------------------------------------------------------
(* The AccessRequest and the finalizer                                     *)

(* Every writer of the object but RemoveFinalizer keeps the finalizer that *)
(* is there: an owned object stays owned.                                  *)
LEMMA OwnedStep ==
  TypeOK /\ PassGuarded /\ [Next]_vars /\ Owned /\ ~Owned' => RemoveFinalizer
<1> SUFFICES ASSUME TypeOK, PassGuarded, [Next]_vars, Owned, ~RemoveFinalizer
             PROVE  Owned'
  BY DEF Owned
<1> USE DEF Owned
<1>1. obj \in Objects
  BY DEF TypeOK, ObjectTypeOK
<1>2. CASE obj' = obj
  BY <1>2
<1>3. CASE AddFinalizer
  <2>1. pc' = "ReconcileAccess"
    BY <1>3 DEF AddFinalizer, Continue
  <2> QED BY <2>1, PassGuardedStep DEF PassGuarded, FinalizerGuardsPass
<1>4. CASE UpdateTerminating
  <2>1. pc' = "ReconcileAccess"
    BY <1>4 DEF UpdateTerminating, Continue
  <2> QED BY <2>1, PassGuardedStep DEF PassGuarded, FinalizerGuardsPass
<1>5. CASE PatchStatus
  <2>1. PICK status \in Statuses : obj' = [obj EXCEPT !.status = status]
    BY <1>5, <1>1, HeldType, MergePatchType DEF PatchStatus, Objects
  <2>2. obj' \in Objects /\ obj'.finalizer
    BY <1>1, <2>1 DEF Objects
  <2> QED BY <2>2, NullsAssumption
<1>6. CASE Users
  <2>1. CASE UserEdit \/ UserRenamespace
    <3>1. obj' \in Objects /\ obj'.finalizer
      BY <2>1, <1>1, EditType DEF UserEdit, UserRenamespace
    <3> QED BY <3>1, NullsAssumption
  <2>2. CASE UserDelete
    <3>1. obj' \in Objects /\ obj'.finalizer
      BY <2>2, <1>1, GenerationType DEF UserDelete, Objects
    <3> QED BY <3>1, NullsAssumption
  <2>3. CASE UserCreate \/ ConfigWrite \/ Drift
    BY <2>3 DEF UserCreate, ConfigWrite, Drift
  <2> QED BY <1>6, <2>1, <2>2, <2>3 DEF Users
<1>7. CASE Environment
  <2>1. CASE ForeignRelease
    <3>1. obj' \in Objects /\ obj'.finalizer
      BY <2>1, <1>1 DEF ForeignRelease, Objects
    <3> QED BY <3>1, NullsAssumption
  <2>2. CASE ~ForeignRelease
    <3>1. obj' = obj
      BY <1>7, <2>2 DEF Environment, Grant, Revoked, Crash, RolloutWave,
           RolloutDone, PodFails
    <3> QED BY <3>1
  <2> QED BY <2>1, <2>2
<1>8. CASE UNCHANGED vars
  BY <1>8 DEF vars
<1>9. CASE /\ Reconcile \/ TimerFires
           /\ ~AddFinalizer /\ ~UpdateTerminating /\ ~PatchStatus
  <2>1. CASE Start \/ GetObject \/ GetFails \/ UpdateFails
             \/ UpdateTerminatingFails \/ TimerFires \/ PatchStatusFails
             \/ Release
    <3>1. obj' = obj
      BY <2>1 DEF Start, GetObject, GetFails, UpdateFails, TimerFires,
           UpdateTerminatingFails, PatchStatusFails, Release, ReleaseAccess,
           ReleaseAccessFails, FailPass, EndPass
    <3> QED BY <3>1
  <2>2. CASE Access
    <3>1. obj' = obj
      BY <2>2 DEF Access, ReconcileAccess, ReconcileAccessFails, MCPCluster,
           MCPClusterFails, ReportError
    <3> QED BY <3>1
  <2>3. CASE Deploy \/ Cleanup
    <3>1. obj' = obj
      BY <2>3 DEF Deploy, ApplyNamespace, ApplyServiceAccount,
           ApplyClusterRole, ApplyClusterRoleBinding, ResolveConfig,
           ApplyDeployment, ApplyService, ApplyPodDisruptionBudget,
           CheckReadiness, DeployFails, Cleanup, DeleteService,
           DeletePodDisruptionBudget, DeleteDeployment,
           DeleteClusterRoleBinding, DeleteClusterRole, DeleteServiceAccount,
           CleanupFails, OnMCP, ReportError, FailPass
    <3> QED BY <3>1
  <2> QED BY <1>9, <2>1, <2>2, <2>3 DEF Reconcile
<1> QED BY <1>3, <1>4, <1>5, <1>6, <1>7, <1>8, <1>9 DEF Next

(* An AccessRequest comes into being in ReconcileAccess only.              *)
LEMMA AccessCreated ==
  ASSUME [Next]_vars, access = "absent", access' # "absent"
  PROVE  ReconcileAccess \/ ReconcileAccessFails
<1>1. CASE Access
  BY <1>1 DEF Access, MCPCluster, MCPClusterFails
<1>2. CASE Deploy \/ Cleanup
  BY <1>2 DEF Deploy, ApplyNamespace, ApplyServiceAccount,
       ApplyClusterRole, ApplyClusterRoleBinding, ResolveConfig,
       ApplyDeployment, ApplyService, ApplyPodDisruptionBudget,
       CheckReadiness, DeployFails, Cleanup, DeleteService,
       DeletePodDisruptionBudget, DeleteDeployment,
       DeleteClusterRoleBinding, DeleteClusterRole, DeleteServiceAccount,
       CleanupFails, OnMCP, ReportError, FailPass
<1>3. CASE Users
  BY <1>3 DEF Users, UserCreate, UserEdit, UserRenamespace, UserDelete,
       ObjectWritten, ConfigWrite, Drift
<1>4. CASE Environment
  BY <1>4 DEF Environment, Grant, Revoked, ForeignRelease, ObjectWritten,
       Crash, RolloutWave, RolloutDone, PodFails
<1>5. CASE UNCHANGED vars
  BY <1>5 DEF vars
<1>6. CASE Start \/ GetObject \/ GetFails \/ AddFinalizer \/ UpdateFails
           \/ UpdateTerminating \/ UpdateTerminatingFails \/ TimerFires
           \/ PatchStatus \/ PatchStatusFails \/ Release
  BY <1>6 DEF Start, GetObject, GetFails, AddFinalizer, UpdateFails,
       UpdateTerminating, UpdateTerminatingFails, TimerFires, PatchStatus,
       PatchStatusFails, Release, ReleaseAccess, ReleaseAccessFails,
       RemoveFinalizer, FailPass
<1> QED BY <1>1, <1>2, <1>3, <1>4, <1>5, <1>6 DEF Next, Reconcile

(* Only ReconcileAccess creates an AccessRequest, in a pass that the       *)
(* finalizer guards; the finalizer goes only where none is left.           *)
LEMMA AccessGuardedStep ==
  TypeOK /\ PassGuarded /\ AccessGuarded /\ [Next]_vars => AccessGuarded'
<1> SUFFICES ASSUME TypeOK, PassGuarded, AccessGuarded, [Next]_vars
             PROVE  AccessGuarded'
  OBVIOUS
<1> USE DEF AccessGuarded, AccessHeldOnlyUnderFinalizer
<1>1. access # "absent" => Owned'
  <2> SUFFICES ASSUME access # "absent", ~Owned' PROVE FALSE
    OBVIOUS
  <2>1. RemoveFinalizer
    BY OwnedStep
  <2> QED BY <2>1 DEF RemoveFinalizer
<1>2. access = "absent" /\ access' # "absent" => Owned'
  <2> SUFFICES ASSUME access = "absent", access' # "absent" PROVE Owned'
    OBVIOUS
  <2>1. ReconcileAccess \/ ReconcileAccessFails
    BY AccessCreated
  <2>2. Owned
    BY <2>1 DEF ReconcileAccess, ReconcileAccessFails, PassGuarded,
         FinalizerGuardsPass
  <2>3. ~RemoveFinalizer
    BY <2>1 DEF ReconcileAccess, ReconcileAccessFails, RemoveFinalizer
  <2> QED BY <2>2, <2>3, OwnedStep
<1>3. pc' = "RemoveFinalizer" => access' = "absent"
  <2> SUFFICES ASSUME pc' = "RemoveFinalizer" PROVE access' = "absent"
    OBVIOUS
  <2>1. pc = "RemoveFinalizer" \/ ReleaseAccess
    <3>1. CASE Access
      BY <3>1 DEF Access, ReconcileAccess, ReconcileAccessFails, MCPCluster,
           MCPClusterFails, ReportError, EndPass, Continue
    <3>2. CASE Deploy
      BY <3>2 DEF Deploy, ApplyNamespace, ApplyServiceAccount,
           ApplyClusterRole, ApplyClusterRoleBinding, ResolveConfig,
           ApplyDeployment, ApplyService, ApplyPodDisruptionBudget,
           CheckReadiness, DeployFails, OnMCP, ReportError, Continue
    <3>3. CASE Cleanup
      BY <3>3 DEF Cleanup, DeleteService, DeletePodDisruptionBudget,
           DeleteDeployment, DeleteClusterRoleBinding, DeleteClusterRole,
           DeleteServiceAccount, CleanupFails, OnMCP, FailPass, EndPass,
           Continue
    <3>4. CASE Users
      BY <3>4 DEF Users, UserCreate, UserEdit, UserRenamespace, UserDelete,
           ObjectWritten, ConfigWrite, Drift
    <3>5. CASE Environment
      BY <3>5 DEF Environment, Grant, Revoked, ForeignRelease, ObjectWritten,
           Crash, RolloutWave, RolloutDone, PodFails
    <3>6. CASE UNCHANGED vars
      BY <3>6 DEF vars
    <3>7. CASE Start \/ GetObject \/ GetFails \/ AddFinalizer \/ UpdateFails
               \/ UpdateTerminating \/ UpdateTerminatingFails \/ TimerFires
               \/ PatchStatus \/ PatchStatusFails \/ Release
      BY <3>7 DEF Start, GetObject, GetFails, AddFinalizer, UpdateFails,
           UpdateTerminating, UpdateTerminatingFails, TimerFires, PatchStatus,
           PatchStatusFails, Release, ReleaseAccessFails,
           RemoveFinalizer, FailPass, EndPass, Continue
    <3> QED BY <3>1, <3>2, <3>3, <3>4, <3>5, <3>6, <3>7 DEF Next, Reconcile
  <2>2. CASE ReleaseAccess
    BY <2>2 DEF ReleaseAccess, EndPass
  <2>3. CASE pc = "RemoveFinalizer" /\ access' # "absent"
    <3>1. access = "absent"
      BY <2>3
    <3> QED BY <2>3, <3>1, AccessCreated DEF ReconcileAccess,
              ReconcileAccessFails
  <2> QED BY <2>1, <2>2, <2>3
<1> QED BY <1>1, <1>2, <1>3

-------------------------------------------------------------------------------
(* Wake-ups                                                                *)

(* A pass that ends leaves a requeue behind, or the key queued by its own  *)
(* write, or an object that is not the controller's to look after.         *)
LEMMA NeverForgottenStep ==
  TypeOK /\ PassGuarded /\ NeverForgotten /\ [Next]_vars => NeverForgotten'
<1> SUFFICES ASSUME TypeOK, PassGuarded, NeverForgotten, [Next]_vars
             PROVE  NeverForgotten'
  OBVIOUS
<1> USE DEF NeverForgotten, Owned, EndPass, FailPass, Continue, queueVars
<1>1. CASE Start \/ TimerFires \/ GetObject \/ GetFails \/ UpdateFails
           \/ UpdateTerminatingFails
  BY <1>1 DEF Start, TimerFires, GetObject, GetFails, UpdateFails,
       UpdateTerminatingFails
<1>2. CASE AddFinalizer \/ UpdateTerminating
  BY <1>2 DEF AddFinalizer, UpdateTerminating
<1>3. CASE Access
  BY <1>3 DEF Access, ReconcileAccess, ReconcileAccessFails, MCPCluster,
       MCPClusterFails, ReportError
<1>4. CASE Deploy
  BY <1>4 DEF Deploy, ApplyNamespace, ApplyServiceAccount, ApplyClusterRole,
       ApplyClusterRoleBinding, ResolveConfig, ApplyDeployment, ApplyService,
       ApplyPodDisruptionBudget, CheckReadiness, DeployFails,
       OnMCP, ReportError
<1>5. CASE PatchStatus \/ PatchStatusFails \/ ReleaseAccess
           \/ ReleaseAccessFails
  BY <1>5 DEF PatchStatus, PatchStatusFails, ReleaseAccess, ReleaseAccessFails
<1>6. CASE RemoveFinalizer
  <2>1. obj \in Objects
    BY <1>6 DEF RemoveFinalizer, PassGuarded, FinalizerGuardsPass, TypeOK,
         ObjectTypeOK
  <2>2. obj' # NoObject => ~obj'.finalizer
    BY <1>6, <2>1 DEF RemoveFinalizer, WriteObject, Objects
  <2> QED BY <2>2
<1>7. CASE Cleanup
  BY <1>7 DEF Cleanup, DeleteService, DeletePodDisruptionBudget,
       DeleteDeployment, DeleteClusterRoleBinding, DeleteClusterRole,
       DeleteServiceAccount, CleanupFails, OnMCP
<1>8. CASE Users
  BY <1>8 DEF Users, UserCreate, UserEdit, UserRenamespace, UserDelete,
       ObjectWritten, ConfigWrite, Drift
<1>9. CASE Environment
  BY <1>9 DEF Environment, Grant, Revoked, ForeignRelease, ObjectWritten,
       Crash, RolloutWave, RolloutDone, PodFails
<1>10. CASE UNCHANGED vars
  BY <1>10 DEF vars
<1> QED BY <1>1, <1>2, <1>3, <1>4, <1>5, <1>6, <1>7, <1>8, <1>9, <1>10
        DEF Next, Reconcile, Release

-------------------------------------------------------------------------------
(* Theorems                                                                *)

(* The invariant is inductive.                                             *)
LEMMA IInvInductive == Spec => []IInv
<1>1. IInv /\ [Next]_vars => IInv'
  BY TypeStep, PassGuardedStep, AccessGuardedStep, NeverForgottenStep DEF IInv
<1> QED BY <1>1, InitIInv, PTL DEF Spec

(* Every variable keeps its type, for every set of namespaces, workloads,  *)
(* ConfigMap data, users and faults.                                       *)
THEOREM TypeCorrect == Spec => []TypeOK
<1>1. IInv => TypeOK
  BY DEF IInv
<1> QED BY <1>1, IInvInductive, PTL

(* A pass acts on the MCP cluster or on the AccessRequest only while the   *)
(* object carries the controller's finalizer (controller.go:112-117).      *)
THEOREM PassIsGuarded == Spec => []FinalizerGuardsPass
<1>1. IInv => FinalizerGuardsPass
  BY DEF IInv, PassGuarded
<1> QED BY <1>1, IInvInductive, PTL

(* The AccessRequest never outlives the object: handleDelete drops the     *)
(* finalizer only after ReconcileDelete reported that nothing is left      *)
(* (controller.go:222-237), and no pass renews it afterwards.              *)
THEOREM AccessReleased == Spec => []AccessHeldOnlyUnderFinalizer
<1>1. IInv => AccessHeldOnlyUnderFinalizer
  BY DEF IInv, AccessGuarded
<1> QED BY <1>1, IInvInductive, PTL

(* An object with the finalizer is always going to be looked at again:     *)
(* every exit of Reconcile requeues (controller.go:129-165, 225-234).      *)
THEOREM NoLostWakeUp == Spec => []NeverForgotten
<1>1. IInv => NeverForgotten
  BY DEF IInv
<1> QED BY <1>1, IInvInductive, PTL
===============================================================================
