--------------------------- MODULE KsmCleanupProofs ---------------------------
(***************************************************************************)
(* Proofs about what the controller leaves on the MCP cluster: nothing     *)
(* without an owner, nothing out of reach, and all of it in the order of   *)
(* the abstract lifecycle.  None of it holds without the hypotheses stated *)
(* below: the runs KsmOrphanAccess and KsmOrphanRename drop one each.      *)
(***************************************************************************)
EXTENDS KsmControllerProofs

(* setupClusterAccess does not fail during a deletion: its error, unlike   *)
(* that of the cleanup, lets the finalizer go (controller.go:209-220).     *)
AccessAnswers == "access" \notin Faults

(* The cleanup looks only where the spec points now (controller.go:492).   *)
NamespaceStays == "renamespace" \notin UserActions

-------------------------------------------------------------------------------
(* The inductive invariant                                                 *)

LiveCalls == DeployCalls \cup {"PatchStatus"}
DeletingCalls ==
  CleanupCalls \cup {"UpdateTerminating", "ReleaseAccess", "RemoveFinalizer"}

PastFinalizer == pc \notin {"Idle", "Get", "AddFinalizer"}

(* A pass stays live or deleting as it began, and a deleting one works on  *)
(* an object that is being deleted.                                        *)
KindFits ==
  PastFinalizer =>
    /\ Deleting => obj.deleting
    /\ pc \in DeletingCalls => Deleting
    /\ pc \in LiveCalls => ~Deleting

(* The copy of a pass, stale or not, names the namespace of the object,    *)
(* and a live pass never meets an AccessRequest that is being revoked.     *)
CopyAgrees ==
  /\ KindFits
  /\ PastFinalizer =>
       /\ held.ksm.spec.namespace = obj.spec.namespace
       /\ ~Deleting => access # "revoking"

AccessFits ==
  /\ access = "revoking" => obj.deleting
  /\ AccessOutlivesObjects

(* Whatever exists belongs where the spec of the object points.            *)
InPlace ==
  Leftovers # {} => Leftovers \subseteq FullDeployment(TargetNamespace(obj.spec))

(* What a cleanup has removed so far.                                      *)
Cleaned(kind, calls) == pc \in calls => Managed(kind, namespace) \notin objects

CleanupOrder ==
  /\ Cleaned("Service", CleanupCalls \ {"DeleteService"})
  /\ Cleaned("PodDisruptionBudget",
             CleanupCalls \ {"DeleteService", "DeletePodDisruptionBudget"})
  /\ Cleaned("Deployment", {"DeleteClusterRoleBinding", "DeleteClusterRole",
                            "DeleteServiceAccount"})
  /\ Cleaned("ClusterRoleBinding", {"DeleteClusterRole", "DeleteServiceAccount"})
  /\ Cleaned("ClusterRole", {"DeleteServiceAccount"})
  /\ pc \in {"ReleaseAccess", "RemoveFinalizer"} => Leftovers = {}

CleanupInv == IInv /\ CopyAgrees /\ AccessFits /\ InPlace /\ CleanupOrder

(* The initial state satisfies it.                                         *)
LEMMA InitCleanupInv == Init => CleanupInv
<1> SUFFICES ASSUME Init PROVE CleanupInv
  OBVIOUS
<1>1. IInv
  BY InitIInv
<1>2. Leftovers = {}
  BY DEF Init, Leftovers
<1>3. pc = "Idle" /\ access = "absent"
  BY DEF Init
<1> QED BY <1>1, <1>2, <1>3 DEF CleanupInv, CopyAgrees, KindFits, PastFinalizer,
           AccessFits, AccessOutlivesObjects, InPlace, CleanupOrder, Cleaned, CleanupCalls

-------------------------------------------------------------------------------
(* What stays as it is                                                     *)

(* Who writes what.                                                        *)
WritesObject ==
  \/ AddFinalizer \/ UpdateTerminating \/ PatchStatus \/ RemoveFinalizer
  \/ UserCreate \/ UserEdit \/ UserRenamespace \/ UserDelete \/ ForeignRelease

WritesAccess == \/ ReconcileAccess \/ ReconcileAccessFails \/ ReleaseAccess
                \/ Grant \/ Revoked

Applies == \/ ApplyNamespace \/ ApplyServiceAccount \/ ApplyClusterRole
           \/ ApplyClusterRoleBinding \/ ApplyDeployment \/ ApplyService
           \/ ApplyPodDisruptionBudget

Removes == \/ DeleteService \/ DeletePodDisruptionBudget \/ DeleteDeployment
           \/ DeleteClusterRoleBinding \/ DeleteClusterRole
           \/ DeleteServiceAccount

LEMMA Writers ==
  ASSUME [Next]_vars
  PROVE  /\ obj' # obj => WritesObject
         /\ access' # access => WritesAccess
         /\ objects' # objects => Applies \/ Removes \/ ConfigWrite \/ Drift
<1> USE DEF WritesObject, WritesAccess, Applies, Removes, mcpVars
<1>1. CASE Start \/ GetObject \/ GetFails \/ AddFinalizer \/ UpdateFails
           \/ UpdateTerminating \/ UpdateTerminatingFails \/ TimerFires
  BY <1>1 DEF Start, GetObject, GetFails, AddFinalizer, UpdateFails,
       UpdateTerminating, UpdateTerminatingFails, TimerFires, FailPass
<1>2. CASE Access
  BY <1>2 DEF Access, ReconcileAccess, ReconcileAccessFails, MCPCluster,
       MCPClusterFails, ReportError
<1>3. CASE Deploy
  BY <1>3 DEF Deploy, ApplyNamespace, ApplyServiceAccount, ApplyClusterRole,
       ApplyClusterRoleBinding, ResolveConfig, ApplyDeployment, ApplyService,
       ApplyPodDisruptionBudget, CheckReadiness, DeployFails, OnMCP, ReportError
<1>4. CASE PatchStatus \/ PatchStatusFails \/ Release
  BY <1>4 DEF PatchStatus, PatchStatusFails, Release, ReleaseAccess,
       ReleaseAccessFails, RemoveFinalizer, FailPass
<1>5. CASE Cleanup
  BY <1>5 DEF Cleanup, DeleteService, DeletePodDisruptionBudget,
       DeleteDeployment, DeleteClusterRoleBinding, DeleteClusterRole,
       DeleteServiceAccount, CleanupFails, OnMCP, FailPass
<1>6. CASE Users
  BY <1>6 DEF Users, UserCreate, UserEdit, UserRenamespace, UserDelete,
       ObjectWritten, ConfigWrite, Drift
<1>7. CASE Environment
  BY <1>7 DEF Environment, Grant, Revoked, ForeignRelease, ObjectWritten,
       Crash, RolloutWave, RolloutDone, PodFails
<1>8. CASE UNCHANGED vars
  BY <1>8 DEF vars
<1> QED BY <1>1, <1>2, <1>3, <1>4, <1>5, <1>6, <1>7, <1>8 DEF Next, Reconcile

(* A pass that acts has an object, with the finalizer.                     *)
LEMMA ObjectOfPass ==
  ASSUME IInv, PastFinalizer
  PROVE  obj \in Objects /\ obj # NoObject /\ obj.finalizer
BY DEF IInv, PastFinalizer, PassGuarded, FinalizerGuardsPass, Owned, TypeOK,
       ObjectTypeOK

(* Whoever writes an object that carries the finalizer leaves its          *)
(* namespace, a deletion, and, but for the controller, the status alone.   *)
LEMMA OwnedObjectKept ==
  ASSUME IInv, [Next]_vars, Owned, Owned'
  PROVE  /\ NamespaceStays => obj'.spec.namespace = obj.spec.namespace
         /\ obj.deleting => obj'.deleting
         /\ obj'.status = obj.status \/ PatchStatus \/ UpdateTerminating
<1> USE DEF Owned
<1>1. obj \in Objects /\ obj.spec \in Specs
  BY DEF IInv, TypeOK, ObjectTypeOK, Objects
<1>2. CASE obj' = obj
  BY <1>2
<1>3. CASE AddFinalizer
  BY <1>1, <1>3 DEF AddFinalizer, WriteObject, Objects
<1>4. CASE UpdateTerminating
  BY <1>1, <1>4 DEF UpdateTerminating, WriteObject, Objects
<1>5. CASE PatchStatus
  <2>1. PICK status : obj' = [obj EXCEPT !.status = status]
    BY <1>5 DEF PatchStatus
  <2> QED BY <1>1, <1>5, <2>1 DEF Objects
<1>6. CASE RemoveFinalizer
  BY <1>1, <1>6 DEF RemoveFinalizer, WriteObject, Objects
<1>7. CASE UserEdit
  <2>1. PICK workload \in Workloads :
          obj' = [obj EXCEPT !.spec.workload = workload, !.generation = @ + 1]
    BY <1>7 DEF UserEdit
  <2>2. obj'.spec.namespace = obj.spec.namespace /\ obj'.deleting = obj.deleting
        /\ obj'.status = obj.status
    BY <1>1, <2>1 DEF Objects, Specs
  <2> QED BY <2>2
<1>8. CASE UserRenamespace
  <2>1. ~NamespaceStays
    BY <1>8 DEF UserRenamespace, User, NamespaceStays
  <2>2. PICK ns : obj' = [obj EXCEPT !.spec.namespace = ns, !.generation = @ + 1]
    BY <1>8 DEF UserRenamespace
  <2>3. obj'.deleting = obj.deleting /\ obj'.status = obj.status
    BY <1>1, <2>2 DEF Objects
  <2> QED BY <2>1, <2>3
<1>9. CASE UserDelete
  BY <1>1, <1>9 DEF UserDelete, Objects
<1>10. CASE ForeignRelease
  BY <1>1, <1>10 DEF ForeignRelease, Objects
<1>11. CASE /\ obj' # obj /\ ~AddFinalizer /\ ~UpdateTerminating /\ ~PatchStatus
            /\ ~RemoveFinalizer /\ ~UserEdit /\ ~UserRenamespace /\ ~UserDelete
            /\ ~ForeignRelease
  BY <1>11, Writers DEF WritesObject, UserCreate
<1> QED BY <1>2, <1>3, <1>4, <1>5, <1>6, <1>7, <1>8, <1>9, <1>10, <1>11

(* A pass begins with what it has read or written.                         *)
LEMMA PassBegins ==
  ASSUME IInv, [Next]_vars, ~PastFinalizer, PastFinalizer'
  PROVE  /\ GetObject \/ AddFinalizer
         /\ obj' \in Objects
         /\ held'.ksm.spec = obj'.spec /\ held'.ksm.deleting = obj'.deleting
         /\ held'.old = obj'.status
         /\ pc' \in {"ReconcileAccess", "UpdateTerminating"}
         /\ pc' = "UpdateTerminating" <=> obj'.deleting
<1>1. GetObject \/ AddFinalizer
  <2> USE DEF PastFinalizer, EndPass, FailPass
  <2>1. CASE Start \/ GetFails \/ UpdateFails \/ UpdateTerminating
             \/ UpdateTerminatingFails \/ TimerFires \/ Access
    BY <2>1 DEF Start, GetFails, UpdateFails, UpdateTerminating, TimerFires,
         UpdateTerminatingFails, Access, ReconcileAccess, ReconcileAccessFails,
         MCPCluster, MCPClusterFails
  <2>2. CASE Deploy \/ Cleanup \/ PatchStatus \/ PatchStatusFails \/ Release
    BY <2>2 DEF Deploy, ApplyNamespace, ApplyServiceAccount, ApplyClusterRole,
         ApplyClusterRoleBinding, ResolveConfig, ApplyDeployment, ApplyService,
         ApplyPodDisruptionBudget, CheckReadiness, DeployFails, DeployCalls,
         OnMCP, PatchStatus, PatchStatusFails, Cleanup, DeleteService,
         DeletePodDisruptionBudget, DeleteDeployment, DeleteClusterRoleBinding,
         DeleteClusterRole, DeleteServiceAccount, CleanupFails, Release,
         ReleaseAccess, ReleaseAccessFails, RemoveFinalizer
  <2>3. CASE Users
    BY <2>3 DEF Users, UserCreate, UserEdit, UserRenamespace, UserDelete,
         ObjectWritten, ConfigWrite, Drift
  <2>4. CASE Environment
    BY <2>4 DEF Environment, Grant, Revoked, ForeignRelease, ObjectWritten,
         Crash, RolloutWave, RolloutDone, PodFails
  <2>5. CASE UNCHANGED vars
    BY <2>5 DEF vars
  <2> QED BY <2>1, <2>2, <2>3, <2>4, <2>5 DEF Next, Reconcile
<1>2. ASSUME NEW ksm \in Objects
      PROVE  /\ NewPass(ksm).ksm = ksm /\ NewPass(ksm).old = ksm.status
             /\ Reconciling(ksm).ksm.spec = ksm.spec
             /\ Reconciling(ksm).ksm.deleting = ksm.deleting
             /\ Reconciling(ksm).old = ksm.status
  BY DEF NewPass, Reconciling, Objects
<1>3. CASE GetObject
  <2>1. obj \in Objects /\ obj' = obj
    BY <1>3 DEF GetObject, IInv, TypeOK, ObjectTypeOK
  <2> QED BY <1>1, <1>2, <1>3, <2>1 DEF GetObject, PastFinalizer
<1>4. CASE AddFinalizer
  <2>1. obj \in Objects /\ ~obj.deleting
    BY <1>4 DEF AddFinalizer, IInv, TypeOK, ObjectTypeOK, PassGuarded
  <2>2. obj' = [obj EXCEPT !.finalizer = TRUE] /\ pc' = "ReconcileAccess"
        /\ held' = Reconciling([obj EXCEPT !.finalizer = TRUE])
    BY <1>4 DEF AddFinalizer, WriteObject, Continue
  <2>3. obj' \in Objects /\ ~obj'.deleting
    BY <2>1, <2>2 DEF Objects
  <2> QED BY <1>1, <1>2, <2>2, <2>3
<1> QED BY <1>1, <1>3, <1>4

(* During a pass the copy changes in its status only.                      *)
LEMMA CopyKept ==
  ASSUME IInv, [Next]_vars, PastFinalizer, PastFinalizer'
  PROVE  \/ /\ held'.ksm.spec = held.ksm.spec
            /\ held'.ksm.deleting = held.ksm.deleting
            /\ held'.old = held.old
            /\ held'.ksm.generation = held.ksm.generation
         \/ UpdateTerminating /\ held' = [held EXCEPT !.ksm = obj']
<1> DEFINE Same == /\ held'.ksm.spec = held.ksm.spec
                   /\ held'.ksm.deleting = held.ksm.deleting
                   /\ held'.old = held.old
                   /\ held'.ksm.generation = held.ksm.generation
<1> USE DEF PastFinalizer, EndPass, FailPass
<1>1. held \in Passes /\ held.ksm \in Objects
  BY HeldType DEF IInv
<1>2. ASSUME NEW status, held' = [held EXCEPT !.ksm.status = status]
      PROVE  Same
  BY <1>1, <1>2 DEF Passes, Objects
<1>3. CASE Start \/ GetObject \/ GetFails \/ AddFinalizer \/ UpdateFails
           \/ TimerFires \/ PatchStatus \/ PatchStatusFails
  BY <1>3 DEF Start, GetObject, GetFails, AddFinalizer, UpdateFails, TimerFires,
       PatchStatus, PatchStatusFails
<1>4. CASE UpdateTerminating
  BY <1>4 DEF UpdateTerminating
<1>5. CASE UpdateTerminatingFails
  BY <1>2, <1>5 DEF UpdateTerminatingFails
<1>6. CASE Access
  BY <1>2, <1>6 DEF Access, ReconcileAccess, ReconcileAccessFails, MCPCluster,
       MCPClusterFails, ReportError
<1>7. CASE ApplyNamespace \/ ApplyServiceAccount \/ ApplyClusterRole
           \/ ApplyClusterRoleBinding \/ ApplyDeployment \/ ApplyService
           \/ ApplyPodDisruptionBudget
  BY <1>7 DEF ApplyNamespace, ApplyServiceAccount, ApplyClusterRole,
       ApplyClusterRoleBinding, ApplyDeployment, ApplyService,
       ApplyPodDisruptionBudget
<1>8. CASE ResolveConfig
  <2>1. PICK data, source, hash :
          held' = [held EXCEPT !.config = data, !.ksm.status.source = source,
                               !.ksm.status.hash = hash]
    BY <1>8 DEF ResolveConfig
  <2> QED BY <1>1, <2>1 DEF Passes, Objects
<1>9. CASE CheckReadiness
  <2>1. PICK status : held' = [held EXCEPT !.ksm.status = status]
    BY <1>9 DEF CheckReadiness
  <2> QED BY <1>2, <2>1
<1>10. CASE DeployFails
  BY <1>2, <1>10 DEF DeployFails, ReportError
<1>11. CASE Cleanup \/ Release
  BY <1>11 DEF Cleanup, DeleteService, DeletePodDisruptionBudget,
       DeleteDeployment, DeleteClusterRoleBinding, DeleteClusterRole,
       DeleteServiceAccount, CleanupFails, Release, ReleaseAccess,
       ReleaseAccessFails, RemoveFinalizer
<1>12. CASE Users
  BY <1>12 DEF Users, UserCreate, UserEdit, UserRenamespace, UserDelete,
       ObjectWritten, ConfigWrite, Drift
<1>13. CASE Environment
  BY <1>13 DEF Environment, Grant, Revoked, ForeignRelease, ObjectWritten,
       Crash, RolloutWave, RolloutDone, PodFails
<1>14. CASE UNCHANGED vars
  BY <1>14 DEF vars
<1> QED BY <1>3, <1>4, <1>5, <1>6, <1>7, <1>8, <1>9, <1>10, <1>11, <1>12, <1>13,
           <1>14
        DEF Next, Reconcile, Deploy

(* A pass stays live or deleting, as it began.                             *)
LEMMA KindKept ==
  ASSUME [Next]_vars, PastFinalizer
  PROVE  /\ pc' \in LiveCalls => pc \in LiveCalls \/ ~Deleting
         /\ pc' \in DeletingCalls => pc \in DeletingCalls \/ Deleting
<1> USE DEF PastFinalizer, LiveCalls, DeletingCalls, DeployCalls, CleanupCalls,
            EndPass, FailPass, Continue
<1>1. CASE Start \/ GetObject \/ GetFails \/ AddFinalizer \/ UpdateFails
           \/ TimerFires \/ PatchStatus \/ PatchStatusFails
           \/ UpdateTerminating \/ UpdateTerminatingFails
  BY <1>1 DEF Start, GetObject, GetFails, AddFinalizer, UpdateFails, TimerFires,
       PatchStatus, PatchStatusFails, UpdateTerminating, UpdateTerminatingFails
<1>2. CASE Access
  BY <1>2 DEF Access, ReconcileAccess, ReconcileAccessFails, MCPCluster,
       MCPClusterFails, ReportError
<1>3. CASE Deploy
  BY <1>3 DEF Deploy, ApplyNamespace, ApplyServiceAccount, ApplyClusterRole,
       ApplyClusterRoleBinding, ResolveConfig, ApplyDeployment, ApplyService,
       ApplyPodDisruptionBudget, CheckReadiness, DeployFails, OnMCP, ReportError
<1>4. CASE Cleanup \/ Release
  BY <1>4 DEF Cleanup, DeleteService, DeletePodDisruptionBudget,
       DeleteDeployment, DeleteClusterRoleBinding, DeleteClusterRole,
       DeleteServiceAccount, CleanupFails, OnMCP, Release, ReleaseAccess,
       ReleaseAccessFails, RemoveFinalizer
<1>5. CASE Users
  BY <1>5 DEF Users, UserCreate, UserEdit, UserRenamespace, UserDelete,
       ObjectWritten, ConfigWrite, Drift
<1>6. CASE Environment
  BY <1>6 DEF Environment, Grant, Revoked, ForeignRelease, ObjectWritten,
       Crash, RolloutWave, RolloutDone, PodFails
<1>7. CASE UNCHANGED vars
  BY <1>7 DEF vars
<1> QED BY <1>1, <1>2, <1>3, <1>4, <1>5, <1>6, <1>7 DEF Next, Reconcile

(* Access begins to be revoked by a deleting pass, which ends with that.   *)
LEMMA RevocationBegins ==
  ASSUME [Next]_vars, access # "revoking", access' = "revoking"
  PROVE  ReleaseAccess /\ pc = "ReleaseAccess" /\ pc' = "Idle"
BY Writers DEF WritesAccess, ReconcileAccess, ReconcileAccessFails,
     ReleaseAccess, Grant, Revoked, EndPass

(* A deletion that a pass has seen is not taken back, and the two kinds of *)
(* passes make no call of the other.                                       *)
LEMMA KindFitsStep == IInv /\ KindFits /\ [Next]_vars => KindFits'
<1> SUFFICES ASSUME IInv, KindFits, [Next]_vars, PastFinalizer'
             PROVE  /\ Deleting' => obj'.deleting
                    /\ pc' \in DeletingCalls => Deleting'
                    /\ pc' \in LiveCalls => ~Deleting'
  BY DEF KindFits
<1>1. Owned'
  BY TypeStep, PassGuardedStep
     DEF IInv, PastFinalizer, PassGuarded, FinalizerGuardsPass
<1>2. CASE ~PastFinalizer
  <2>1. /\ held'.ksm.deleting = obj'.deleting
        /\ pc' \in {"ReconcileAccess", "UpdateTerminating"}
        /\ pc' = "UpdateTerminating" <=> obj'.deleting
    BY <1>2, PassBegins
  <2> QED BY <2>1 DEF Deleting, LiveCalls, DeletingCalls, DeployCalls,
            CleanupCalls
<1>3. CASE PastFinalizer
  <2>1. obj.deleting => obj'.deleting
    BY <1>1, <1>3, ObjectOfPass, OwnedObjectKept DEF Owned
  <2>2. CASE UpdateTerminating /\ held' = [held EXCEPT !.ksm = obj']
    <3>1. obj.deleting /\ pc' = "ReconcileAccess"
      BY <1>3, <2>2 DEF UpdateTerminating, KindFits, DeletingCalls, Continue
    <3>2. held'.ksm = obj'
      BY <1>3, <2>2, HeldType DEF IInv, PastFinalizer, Passes
    <3> QED BY <2>1, <3>1, <3>2 DEF Deleting, LiveCalls, DeletingCalls,
              DeployCalls, CleanupCalls
  <2>3. CASE held'.ksm.deleting = held.ksm.deleting
    BY <1>3, <2>1, <2>3, KindKept DEF KindFits, Deleting
  <2> QED BY <1>3, <2>2, <2>3, CopyKept
<1> QED BY <1>2, <1>3

(* The copy keeps agreeing with the object: nobody replaces or moves an    *)
(* object that carries the finalizer.                                      *)
LEMMA CopyAgreesStep ==
  NamespaceStays /\ CleanupInv /\ [Next]_vars => CopyAgrees'
<1> SUFFICES ASSUME NamespaceStays, CleanupInv, [Next]_vars, PastFinalizer'
             PROVE  /\ held'.ksm.spec.namespace = obj'.spec.namespace
                    /\ ~Deleting' => access' # "revoking"
  BY KindFitsStep DEF CleanupInv, CopyAgrees
<1> USE DEF CleanupInv
<1>1. IInv'
  BY TypeStep, PassGuardedStep, AccessGuardedStep, NeverForgottenStep DEF IInv
<1>2. Owned'
  BY <1>1 DEF PastFinalizer, IInv, PassGuarded, FinalizerGuardsPass
<1>3. CASE ~PastFinalizer
  <2>1. /\ held'.ksm.spec = obj'.spec /\ held'.ksm.deleting = obj'.deleting
        /\ GetObject \/ AddFinalizer
    BY <1>3, PassBegins
  <2>2. access' = "revoking" => obj'.deleting
    <3>1. access' = access
      BY <2>1 DEF GetObject, AddFinalizer
    <3>2. CASE GetObject
      BY <3>1, <3>2 DEF GetObject, AccessFits
    <3>3. CASE AddFinalizer
      BY <3>1, <3>3 DEF AddFinalizer, IInv, PassGuarded, AccessGuarded,
           AccessHeldOnlyUnderFinalizer, Owned
    <3> QED BY <2>1, <3>2, <3>3
  <2> QED BY <2>1, <2>2 DEF Deleting
<1>4. CASE PastFinalizer
  <2>1. Owned
    BY <1>4, ObjectOfPass DEF Owned
  <2>2. obj'.spec.namespace = obj.spec.namespace
    BY <1>2, <2>1, OwnedObjectKept
  <2>3. CASE UpdateTerminating /\ held' = [held EXCEPT !.ksm = obj']
    <3>1. held'.ksm = obj'
      BY <1>4, <2>3, HeldType DEF IInv, PastFinalizer, Passes
    <3>2. Deleting /\ obj.deleting
      BY <1>4, <2>3 DEF UpdateTerminating, CopyAgrees, KindFits, DeletingCalls
    <3>3. obj'.deleting
      BY <1>2, <2>1, <3>2, OwnedObjectKept
    <3> QED BY <3>1, <3>3 DEF Deleting
  <2>4. CASE held'.ksm.spec = held.ksm.spec /\ held'.ksm.deleting = held.ksm.deleting
    <3>1. access' = "revoking" => access = "revoking"
      BY RevocationBegins DEF PastFinalizer
    <3> QED BY <1>4, <2>2, <2>4, <3>1 DEF CopyAgrees, Deleting
  <2> QED BY <1>4, <2>3, <2>4, CopyKept
<1> QED BY <1>3, <1>4

-------------------------------------------------------------------------------
(* What exists on the MCP cluster                                          *)

(* The namespace a pass works in is that of the object.                    *)
LEMMA SameNamespace ==
  ASSUME CleanupInv, PastFinalizer
  PROVE  namespace = TargetNamespace(obj.spec) /\ namespace \in Namespaces
<1>1. held.ksm.spec.namespace = obj.spec.namespace
  BY DEF CleanupInv, CopyAgrees
<1>2. namespace \in Namespaces
  BY HeldType DEF CleanupInv, IInv, PastFinalizer
<1> QED BY <1>1, <1>2 DEF namespace, TargetNamespace

(* Only a live pass with access adds to what has to be cleaned up, and it  *)
(* adds one object in its namespace.                                       *)
LEMMA LeftoversGrow ==
  ASSUME [Next]_vars, ~(Leftovers' \subseteq Leftovers)
  PROVE  /\ Applies /\ pc \in DeployCalls /\ pc' \in DeployCalls
         /\ MCPReachable /\ UNCHANGED <<obj, access, held>>
         /\ \E kind \in Kinds : Leftovers' \subseteq Leftovers \cup {Managed(kind, namespace)}
<1>1. objects' # objects
  BY DEF Leftovers
<1>2. CASE Removes
  BY <1>2 DEF Removes, DeleteService, DeletePodDisruptionBudget,
       DeleteDeployment, DeleteClusterRoleBinding, DeleteClusterRole,
       DeleteServiceAccount, Remove, Leftovers
<1>3. CASE ConfigWrite
  <2>1. PICK ns \in Namespaces : objects' = objects \cup {Managed("Namespace", ns)}
    BY <1>3 DEF ConfigWrite
  <2>2. Managed("Namespace", ns)[1] = "Namespace"
    BY DEF Managed
  <2> QED BY <2>1, <2>2 DEF Leftovers
<1>4. CASE Drift
  BY <1>4 DEF Drift, Leftovers
<1>5. CASE Applies
  <2>1. PICK kind \in Kinds : objects' = objects \cup {Managed(kind, namespace)}
    BY <1>5 DEF Applies, ApplyNamespace, ApplyServiceAccount, ApplyClusterRole,
         ApplyClusterRoleBinding, ApplyDeployment, ApplyService,
         ApplyPodDisruptionBudget, CreateOrUpdate, Kinds, ClusterScoped
  <2>2. Leftovers' \subseteq Leftovers \cup {Managed(kind, namespace)}
    BY <2>1 DEF Leftovers
  <2>3. /\ pc \in DeployCalls /\ pc' \in DeployCalls
        /\ MCPReachable /\ UNCHANGED <<obj, access, held>>
    BY <1>5 DEF Applies, ApplyNamespace, ApplyServiceAccount, ApplyClusterRole,
         ApplyClusterRoleBinding, ApplyDeployment, ApplyService,
         ApplyPodDisruptionBudget, OnMCP, Continue, DeployCalls
  <2> QED BY <1>5, <2>2, <2>3
<1> QED BY <1>1, <1>2, <1>3, <1>4, <1>5, Writers

(* Access is withdrawn only where nothing is left, and a pass that adds    *)
(* something has access that nobody is withdrawing.                        *)
LEMMA AccessFitsStep == CleanupInv /\ [Next]_vars => AccessFits'
<1> SUFFICES ASSUME CleanupInv, [Next]_vars
             PROVE  /\ access' = "revoking" => obj'.deleting
                    /\ Leftovers' # {} => access' = "granted"
  BY DEF AccessFits, AccessOutlivesObjects
<1> USE DEF CleanupInv
<1>1. IInv'
  BY TypeStep, PassGuardedStep, AccessGuardedStep, NeverForgottenStep DEF IInv
<1>2. ASSUME access' = "revoking" PROVE obj'.deleting
  <2>1. CASE access = "revoking"
    <3>1. Owned /\ Owned' /\ obj.deleting
      BY <1>1, <1>2, <2>1 DEF IInv, AccessGuarded, AccessHeldOnlyUnderFinalizer,
           AccessFits
    <3> QED BY <3>1, OwnedObjectKept
  <2>2. CASE access # "revoking"
    <3>1. ReleaseAccess /\ pc = "ReleaseAccess"
      BY <1>2, <2>2, RevocationBegins
    <3>2. obj.deleting /\ obj' = obj
      BY <3>1 DEF ReleaseAccess, CopyAgrees, KindFits, PastFinalizer, DeletingCalls
    <3> QED BY <3>2
  <2> QED BY <2>1, <2>2
<1>3. ASSUME Leftovers' # {} PROVE access' = "granted"
  <2>1. CASE Leftovers' \subseteq Leftovers
    <3>1. access = "granted" /\ pc # "ReleaseAccess"
      BY <1>3, <2>1 DEF AccessFits, AccessOutlivesObjects, CleanupOrder
    <3> QED BY <3>1, Writers DEF WritesAccess, ReconcileAccess,
              ReconcileAccessFails, ReleaseAccess, Grant, Revoked
  <2>2. CASE ~(Leftovers' \subseteq Leftovers)
    <3>1. pc \in DeployCalls /\ MCPReachable /\ access' = access
      BY <2>2, LeftoversGrow
    <3>2. access # "revoking"
      BY <3>1 DEF CopyAgrees, KindFits, PastFinalizer, LiveCalls, DeployCalls
    <3> QED BY <3>1, <3>2 DEF MCPReachable
  <2> QED BY <2>1, <2>2
<1> QED BY <1>2, <1>3

(* Nothing exists outside the namespace of the object.                     *)
LEMMA InPlaceStep == NamespaceStays /\ CleanupInv /\ [Next]_vars => InPlace'
<1> SUFFICES ASSUME NamespaceStays, CleanupInv, [Next]_vars, Leftovers' # {}
             PROVE  Leftovers' \subseteq FullDeployment(TargetNamespace(obj'.spec))
  BY DEF InPlace
<1>1. CASE Leftovers' \subseteq Leftovers
  <2>1. access = "granted" /\ access' = "granted"
    BY <1>1, AccessFitsStep DEF CleanupInv, AccessFits, AccessOutlivesObjects
  <2>2. Owned /\ Owned'
    BY <2>1, AccessGuardedStep DEF CleanupInv, IInv, AccessGuarded,
         AccessHeldOnlyUnderFinalizer
  <2>3. obj'.spec.namespace = obj.spec.namespace
    BY <2>2, OwnedObjectKept DEF CleanupInv
  <2>4. TargetNamespace(obj'.spec) = TargetNamespace(obj.spec)
    BY <2>3 DEF TargetNamespace
  <2> QED BY <1>1, <2>4 DEF CleanupInv, InPlace
<1>2. CASE ~(Leftovers' \subseteq Leftovers)
  <2>1. pc \in DeployCalls /\ obj' = obj
    BY <1>2, LeftoversGrow
  <2>2. PICK kind \in Kinds :
          Leftovers' \subseteq Leftovers \cup {Managed(kind, namespace)}
    BY <1>2, LeftoversGrow
  <2>3. namespace = TargetNamespace(obj.spec)
    BY <2>1, SameNamespace DEF PastFinalizer, DeployCalls
  <2> QED BY <2>1, <2>2, <2>3 DEF CleanupInv, InPlace, FullDeployment
<1> QED BY <1>1, <1>2

(* A kind in a place is one object, and two kinds are never the same.      *)
LEMMA ManagedDiffers ==
  ASSUME NEW kind, NEW other, NEW ns, NEW place, kind # other
  PROVE  /\ Managed(kind, ns)[1] = kind
         /\ Managed(kind, ns) # Managed(other, place)
BY DEF Managed

(* The cleanup is entered and left at its ends.                            *)
LEMMA CleanupEntered ==
  ASSUME [Next]_vars,
         pc' \in CleanupCalls \cup {"ReleaseAccess", "RemoveFinalizer"},
         ~(pc' = pc /\ held' = held)
  PROVE  \/ Removes \/ ReleaseAccess \/ ReconcileAccess \/ ReconcileAccessFails
         \/ MCPCluster \/ MCPClusterFails
<1> USE DEF CleanupCalls, EndPass, FailPass, Continue
<1>1. CASE Start \/ GetObject \/ GetFails \/ AddFinalizer \/ UpdateFails
           \/ TimerFires \/ PatchStatus \/ PatchStatusFails
           \/ UpdateTerminating \/ UpdateTerminatingFails
  BY <1>1 DEF Start, GetObject, GetFails, AddFinalizer, UpdateFails, TimerFires,
       PatchStatus, PatchStatusFails, UpdateTerminating, UpdateTerminatingFails
<1>2. CASE Deploy
  BY <1>2 DEF Deploy, ApplyNamespace, ApplyServiceAccount, ApplyClusterRole,
       ApplyClusterRoleBinding, ResolveConfig, ApplyDeployment, ApplyService,
       ApplyPodDisruptionBudget, CheckReadiness, DeployFails, OnMCP, ReportError
<1>3. CASE Cleanup \/ Release
  BY <1>3 DEF Cleanup, Removes, CleanupFails, Release, ReleaseAccessFails,
       RemoveFinalizer
<1>4. CASE Users
  BY <1>4 DEF Users, UserCreate, UserEdit, UserRenamespace, UserDelete,
       ObjectWritten, ConfigWrite, Drift
<1>5. CASE Environment
  BY <1>5 DEF Environment, Grant, Revoked, ForeignRelease, ObjectWritten,
       Crash, RolloutWave, RolloutDone, PodFails
<1>6. CASE UNCHANGED vars
  BY <1>6 DEF vars
<1> QED BY <1>1, <1>2, <1>3, <1>4, <1>5, <1>6 DEF Next, Reconcile, Access

(* What the steps of a cleanup have removed stays removed, since nobody    *)
(* else creates it, and when a pass comes to ReleaseAccess nothing is      *)
(* left: the whole cleanup is done, or there was no access to begin with.  *)
LEMMA CleanupOrderStep ==
  AccessAnswers /\ CleanupInv /\ [Next]_vars => CleanupOrder'
<1> SUFFICES ASSUME AccessAnswers, CleanupInv, [Next]_vars PROVE CleanupOrder'
  OBVIOUS
<1> DEFINE Stage == CleanupCalls \cup {"ReleaseAccess", "RemoveFinalizer"}
<1>1. CASE pc' \notin Stage
  BY <1>1 DEF CleanupOrder, Cleaned, CleanupCalls
<1>2. CASE pc' = pc /\ held' = held /\ pc' \in Stage
  <2>1. \A object : object[1] # "Namespace" /\ object \notin objects
                      => object \notin objects'
    <3>1. Leftovers' \subseteq Leftovers
      BY <1>2, LeftoversGrow DEF DeployCalls, CleanupCalls
    <3> QED BY <3>1 DEF Leftovers
  <2>2. namespace' = namespace
    BY <1>2 DEF namespace
  <2>3. \A kind, calls :
          kind # "Namespace" /\ Cleaned(kind, calls) => Cleaned(kind, calls)'
    BY <1>2, <2>1, <2>2, ManagedDiffers DEF Cleaned
  <2>4. Leftovers = {} => Leftovers' = {}
    BY <2>1 DEF Leftovers
  <2> QED BY <1>2, <2>3, <2>4 DEF CleanupInv, CleanupOrder
<1>3. CASE Removes
  <2>1. namespace' = namespace
    BY <1>3 DEF Removes, DeleteService, DeletePodDisruptionBudget,
         DeleteDeployment, DeleteClusterRoleBinding, DeleteClusterRole,
         DeleteServiceAccount, namespace
  <2> USE <2>1 DEF CleanupInv, CleanupOrder, Cleaned, OnMCP, Continue, Remove
  <2>2. CASE DeleteService
    BY <2>2 DEF DeleteService, CleanupCalls
  <2>3. CASE DeletePodDisruptionBudget
    BY <2>3 DEF DeletePodDisruptionBudget, CleanupCalls
  <2>4. CASE DeleteDeployment
    BY <2>4 DEF DeleteDeployment, CleanupCalls
  <2>5. CASE DeleteClusterRoleBinding
    BY <2>5 DEF DeleteClusterRoleBinding, CleanupCalls
  <2>6. CASE DeleteClusterRole
    BY <2>6 DEF DeleteClusterRole, CleanupCalls
  <2>7. CASE DeleteServiceAccount
    <3>1. /\ pc = "DeleteServiceAccount" /\ pc' = "ReleaseAccess"
          /\ objects' = objects \ {Managed("ServiceAccount", namespace)}
      BY <2>7 DEF DeleteServiceAccount
    <3>2. \A kind \in Kinds \ {"Namespace"} : Managed(kind, namespace) \notin objects'
      BY <3>1 DEF CleanupCalls, Kinds, ClusterScoped
    <3>3. Leftovers # {} => Leftovers \subseteq FullDeployment(namespace)
      BY <3>1, SameNamespace DEF InPlace, PastFinalizer
    <3>4. Leftovers' = {}
      <4> SUFFICES ASSUME NEW object \in Leftovers' PROVE FALSE
        OBVIOUS
      <4>1. object \in Leftovers /\ object \in objects' /\ object[1] # "Namespace"
        BY <3>1 DEF Leftovers
      <4>2. PICK kind \in Kinds : object = Managed(kind, namespace)
        BY <3>3, <4>1 DEF FullDeployment
      <4> QED BY <3>2, <4>1, <4>2, ManagedDiffers DEF Managed
    <3> QED BY <3>1, <3>4 DEF CleanupCalls
  <2> QED BY <1>3, <2>2, <2>3, <2>4, <2>5, <2>6, <2>7 DEF Removes
<1>4. CASE ReleaseAccess
  <2>1. pc' \in {"RemoveFinalizer", "Idle"} /\ Leftovers' = {}
    BY <1>4 DEF ReleaseAccess, EndPass, Continue, mcpVars, Leftovers, CleanupInv,
         CleanupOrder
  <2> QED BY <2>1 DEF CleanupOrder, Cleaned, CleanupCalls
<1>5. CASE ReconcileAccess \/ MCPClusterFails
  <2>1. pc' \notin CleanupCalls \cup {"RemoveFinalizer"}
    BY <1>5 DEF ReconcileAccess, MCPClusterFails, EndPass, Continue, CleanupCalls
  <2>2. pc' = "ReleaseAccess" => Leftovers' = {}
    <3> SUFFICES ASSUME pc' = "ReleaseAccess" PROVE Leftovers' = {}
      OBVIOUS
    <3>1. access # "granted"
      BY <1>5 DEF ReconcileAccess, MCPClusterFails, EndPass, Continue, Fault,
           AccessAnswers, MCPReachable
    <3>2. Leftovers' = Leftovers
      BY <1>5 DEF ReconcileAccess, MCPClusterFails, mcpVars, Leftovers
    <3> QED BY <3>1, <3>2 DEF CleanupInv, AccessFits, AccessOutlivesObjects
  <2> QED BY <2>1, <2>2 DEF CleanupOrder, Cleaned, CleanupCalls
<1>6. CASE MCPCluster
  <2>1. pc' \in {"DeleteService", "ApplyNamespace"}
    BY <1>6 DEF MCPCluster, Continue
  <2> QED BY <2>1 DEF CleanupOrder, Cleaned, CleanupCalls
<1>7. ~ReconcileAccessFails
  BY DEF ReconcileAccessFails, Fault, AccessAnswers
<1> QED BY <1>1, <1>2, <1>3, <1>4, <1>5, <1>6, <1>7, CleanupEntered

-------------------------------------------------------------------------------
(* Theorems                                                                *)

(* The invariant is inductive under the two hypotheses.                    *)
LEMMA CleanupStep ==
  AccessAnswers /\ NamespaceStays /\ CleanupInv /\ [Next]_vars => CleanupInv'
<1>1. IInv /\ [Next]_vars => IInv'
  BY TypeStep, PassGuardedStep, AccessGuardedStep, NeverForgottenStep DEF IInv
<1> QED BY <1>1, CopyAgreesStep, AccessFitsStep, InPlaceStep, CleanupOrderStep
        DEF CleanupInv

LEMMA CleanupInvariant ==
  ASSUME AccessAnswers, NamespaceStays
  PROVE  Spec => []CleanupInv
<1>1. CleanupInv /\ [Next]_vars => CleanupInv'
  BY CleanupStep
<1> QED BY <1>1, InitCleanupInv, PTL DEF Spec

(* The AccessRequest stays granted as long as something is left to clean   *)
(* up, whatever other calls fail and wherever the process restarts         *)
(* (controller.go:209-229).                                                *)
THEOREM AccessOutlives ==
  ASSUME AccessAnswers, NamespaceStays
  PROVE  Spec => []AccessOutlivesObjects
<1>1. CleanupInv => AccessOutlivesObjects
  BY DEF CleanupInv, AccessFits
<1> QED BY <1>1, CleanupInvariant, PTL

(* Nothing is left behind on the MCP cluster: what exists there has an     *)
(* object that carries the finalizer (controller.go:491-513).              *)
THEOREM NothingLeftBehind ==
  ASSUME AccessAnswers, NamespaceStays
  PROVE  Spec => []NoOrphans
<1>1. CleanupInv => NoOrphans
  BY DEF CleanupInv, AccessFits, AccessOutlivesObjects, NoOrphans, IInv,
     AccessGuarded, AccessHeldOnlyUnderFinalizer
<1> QED BY <1>1, CleanupInvariant, PTL

-------------------------------------------------------------------------------
(* The refinement of ServiceLifecycle                                      *)

(* The managed objects go through the controller alone.  A Drift takes     *)
(* them from an object that nobody deletes.                                *)
NobodyElseRemoves == "drift" \notin UserActions

(* An object comes under the finalizer by AddFinalizer, while it is live.  *)
LEMMA ClaimedByAddFinalizer ==
  ASSUME IInv, [Next]_vars, ~Owned, Owned'
  PROVE  AddFinalizer /\ ~obj'.deleting
<1> USE DEF Owned
<1>1. obj' # obj
  OBVIOUS
<1>2. obj \in Objects \cup {NoObject}
  BY DEF IInv, TypeOK, ObjectTypeOK
<1>3. pc \in {"Idle", "Get", "AddFinalizer"}
  BY DEF IInv, PassGuarded, FinalizerGuardsPass
<1>4. ~UpdateTerminating /\ ~PatchStatus /\ ~RemoveFinalizer
  BY <1>3 DEF UpdateTerminating, PatchStatus, RemoveFinalizer
<1>5. ~UserCreate
  BY DEF UserCreate
<1>6. ~UserEdit /\ ~UserRenamespace
  <2>1. obj \in Objects /\ obj # NoObject => ~obj.finalizer
    OBVIOUS
  <2> QED BY <1>2, <2>1, EditType DEF UserEdit, UserRenamespace
<1>7. ~UserDelete /\ ~ForeignRelease
  BY <1>2 DEF UserDelete, ForeignRelease, Objects
<1>8. AddFinalizer
  BY <1>1, <1>4, <1>5, <1>6, <1>7, Writers DEF WritesObject
<1>9. obj \in Objects /\ ~obj.deleting /\ obj' = [obj EXCEPT !.finalizer = TRUE]
  BY <1>2, <1>8 DEF AddFinalizer, WriteObject, IInv, PassGuarded
<1> QED BY <1>8, <1>9 DEF Objects

(* What is promised speaks of the finalizer, the deletion, the access and  *)
(* the presence of managed objects only.                                   *)
LEMMA SameMapping ==
  ASSUME UNCHANGED <<OwnerState, AccessState>>, Leftovers' # {} <=> Leftovers # {}
  PROVE  UNCHANGED Lifecycle!vars
BY DEF Lifecycle!vars

(* The steps that write the object claim it, mark it as leaving, let it go *)
(* or leave its owner alone.                                               *)
LEMMA OwnerMapped ==
  ASSUME CleanupInv, [Next]_vars, UNCHANGED <<access, objects>>
  PROVE  [Lifecycle!Next]_(Lifecycle!vars)
<1> USE DEF CleanupInv
<1>1. AccessState' = AccessState /\ Leftovers' = Leftovers
  BY DEF AccessState, Leftovers
<1>2. CASE OwnerState' = OwnerState
  BY <1>1, <1>2, SameMapping
<1>3. CASE ~Owned /\ Owned'
  <2>1. OwnerState = "none" /\ OwnerState' = "live"
    BY <1>3, ClaimedByAddFinalizer DEF OwnerState
  <2> QED BY <1>1, <2>1 DEF Lifecycle!Next, Lifecycle!Claim
<1>4. CASE Owned /\ Owned' /\ OwnerState' # OwnerState
  <2>1. OwnerState = "live" /\ OwnerState' = "leaving"
    BY <1>4, OwnedObjectKept DEF OwnerState
  <2> QED BY <1>1, <2>1 DEF Lifecycle!Next, Lifecycle!Leave
<1>5. CASE Owned /\ ~Owned'
  <2>1. pc = "RemoveFinalizer"
    BY <1>5, OwnedStep DEF IInv, RemoveFinalizer
  <2>2. obj.deleting /\ access = "absent" /\ Leftovers = {}
    BY <2>1 DEF IInv, AccessGuarded, CopyAgrees, KindFits, PastFinalizer, DeletingCalls,
         CleanupOrder
  <2>3. OwnerState = "leaving" /\ OwnerState' = "none" /\ AccessState = "none"
    BY <1>5, <2>2 DEF OwnerState, AccessState
  <2> QED BY <1>1, <2>2, <2>3 DEF Lifecycle!Next, Lifecycle!Forget
<1>6. CASE ~Owned /\ ~Owned'
  <2>1. OwnerState' = OwnerState
    BY <1>6 DEF OwnerState
  <2> QED BY <1>2, <2>1
<1> QED BY <1>2, <1>3, <1>4, <1>5, <1>6

(* Access is requested and opened for an object that has the finalizer,    *)
(* and given up once the deletion has removed everything.                  *)
LEMMA AccessMapped ==
  ASSUME AccessAnswers, CleanupInv, [Next]_vars, UNCHANGED <<obj, objects>>
  PROVE  [Lifecycle!Next]_(Lifecycle!vars)
<1> USE DEF CleanupInv
<1>1. OwnerState' = OwnerState /\ Leftovers' = Leftovers
  BY DEF OwnerState, Owned, Leftovers
<1>2. CASE AccessState' = AccessState
  BY <1>1, <1>2, SameMapping
<1>3. CASE ReconcileAccess \/ Grant
  <2>1. Owned
    BY <1>3 DEF IInv, PassGuarded, FinalizerGuardsPass, AccessGuarded,
         AccessHeldOnlyUnderFinalizer, ReconcileAccess, Grant
  <2>2. \/ AccessState' = AccessState
        \/ AccessState = "none" /\ AccessState' = "waiting"
        \/ AccessState = "waiting" /\ AccessState' = "open"
    BY <1>3 DEF ReconcileAccess, Grant, AccessState
  <2> QED BY <1>1, <1>2, <2>1, <2>2
          DEF OwnerState, Lifecycle!Next, Lifecycle!Request, Lifecycle!Open
<1>4. CASE ReleaseAccess \/ Revoked
  <2>1. AccessState' = AccessState \/ access # "absent"
    BY <1>4 DEF ReleaseAccess, Revoked, AccessState
  <2>2. Leftovers = {}
    BY <1>4 DEF ReleaseAccess, Revoked, CleanupOrder, AccessFits,
         AccessOutlivesObjects
  <2>3. obj.deleting
    BY <1>4 DEF ReleaseAccess, Revoked, CopyAgrees, KindFits, PastFinalizer,
         DeletingCalls, AccessFits
  <2>4. access # "absent" => OwnerState = "leaving" /\ AccessState # "none"
    BY <2>3 DEF OwnerState, AccessState, IInv, AccessGuarded,
         AccessHeldOnlyUnderFinalizer
  <2>5. AccessState' \in {"none", "waiting"}
    BY <1>4 DEF ReleaseAccess, Revoked, AccessState
  <2> QED BY <1>1, <1>2, <2>1, <2>2, <2>4, <2>5
          DEF Lifecycle!Next, Lifecycle!Release
<1>5. ~ReconcileAccessFails
  BY DEF ReconcileAccessFails, Fault, AccessAnswers
<1>6. CASE access' = access
  BY <1>2, <1>6 DEF AccessState
<1> QED BY <1>3, <1>4, <1>5, <1>6, Writers DEF WritesAccess

(* The service is deployed through open access and withdrawn, through open *)
(* access, from an object that is being deleted.                           *)
LEMMA ServiceMapped ==
  ASSUME NobodyElseRemoves, CleanupInv, [Next]_vars, UNCHANGED <<obj, access>>
  PROVE  [Lifecycle!Next]_(Lifecycle!vars)
<1> USE DEF CleanupInv
<1>1. UNCHANGED <<OwnerState, AccessState>>
  BY DEF OwnerState, Owned, AccessState
<1>2. CASE Leftovers' # {} <=> Leftovers # {}
  BY <1>1, <1>2, SameMapping
<1>3. CASE Leftovers = {} /\ Leftovers' # {}
  <2>1. pc \in DeployCalls /\ MCPReachable
    BY <1>3, LeftoversGrow
  <2>2. Owned /\ access = "granted"
    BY <2>1 DEF MCPReachable, DeployCalls, LiveCalls, CopyAgrees, KindFits, PastFinalizer,
         IInv, PassGuarded, FinalizerGuardsPass
  <2>3. OwnerState # "none" /\ AccessState = "open"
    BY <2>2 DEF OwnerState, AccessState
  <2> QED BY <1>1, <1>3, <2>3 DEF Lifecycle!Next, Lifecycle!Deploy
<1>4. CASE Leftovers # {} /\ Leftovers' = {}
  <2>1. ~Drift
    BY DEF Drift, User, NobodyElseRemoves
  <2>2. ~(Applies \/ ConfigWrite)
    BY <1>4 DEF Applies, ApplyNamespace, ApplyServiceAccount, ApplyClusterRole,
         ApplyClusterRoleBinding, ApplyDeployment, ApplyService,
         ApplyPodDisruptionBudget, CreateOrUpdate, ConfigWrite, Leftovers
  <2>3. objects' # objects
    BY <1>4 DEF Leftovers
  <2>4. pc \in CleanupCalls
    BY <2>1, <2>2, <2>3, Writers
       DEF Removes, DeleteService, DeletePodDisruptionBudget, DeleteDeployment,
           DeleteClusterRoleBinding, DeleteClusterRole, DeleteServiceAccount,
           OnMCP, CleanupCalls
  <2>5. Owned /\ obj.deleting /\ access = "granted"
    BY <1>4, <2>4 DEF CopyAgrees, KindFits, PastFinalizer, DeletingCalls, CleanupCalls,
         AccessFits, AccessOutlivesObjects, IInv, PassGuarded,
         FinalizerGuardsPass
  <2>6. OwnerState = "leaving" /\ AccessState = "open"
    BY <2>5 DEF OwnerState, AccessState
  <2> QED BY <1>1, <1>4, <2>6 DEF Lifecycle!Next, Lifecycle!Withdraw
<1> QED BY <1>2, <1>3, <1>4

(* No step writes two of them.                                             *)
LEMMA OneWritten ==
  ASSUME [Next]_vars
  PROVE  \/ UNCHANGED <<access, objects>>
         \/ UNCHANGED <<obj, objects>>
         \/ UNCHANGED <<obj, access>>
<1> USE DEF mcpVars
<1>1. WritesObject => UNCHANGED <<access, objects>>
  BY DEF WritesObject, AddFinalizer, UpdateTerminating, PatchStatus,
       RemoveFinalizer, UserCreate, UserEdit, UserRenamespace, UserDelete,
       ForeignRelease, ObjectWritten
<1>2. WritesAccess => UNCHANGED <<obj, objects>>
  BY DEF WritesAccess, ReconcileAccess, ReconcileAccessFails, ReportError,
       ReleaseAccess, Grant, Revoked
<1> QED BY <1>1, <1>2, Writers

(* Every step of the controller is a step of the promise, or none.         *)
LEMMA StepOfLifecycle ==
  AccessAnswers /\ NobodyElseRemoves /\ CleanupInv /\ [Next]_vars
    => [Lifecycle!Next]_(Lifecycle!vars)
BY OneWritten, OwnerMapped, AccessMapped, ServiceMapped

(* The controller implements the lifecycle that every service provider     *)
(* promises, for any users, namespaces, failures of the API servers and    *)
(* restarts (controller.go:93-238).                                        *)
THEOREM ControllerImplementsLifecycle ==
  ASSUME AccessAnswers, NamespaceStays, NobodyElseRemoves
  PROVE  Spec => ImplementsLifecycle
<1>1. Init => Lifecycle!Init
  BY DEF Init, Lifecycle!Init, OwnerState, AccessState, Owned, Leftovers
<1>2. CleanupInv /\ [Next]_vars => [Lifecycle!Next]_(Lifecycle!vars)
  BY StepOfLifecycle
<1> QED BY <1>1, <1>2, CleanupInvariant, PTL
        DEF Spec, ImplementsLifecycle, Lifecycle!Spec
===============================================================================
