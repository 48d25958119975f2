------------------------------- MODULE SPRuntime -------------------------------
(***************************************************************************)
(* The generic reconcile loop SPReconciler of pkg/runtime, for one object  *)
(* of the service provider's API, with the ProviderConfig it is fed.  The  *)
(* domain reconciler it calls and the ClusterAccessProvider are modelled   *)
(* from the interfaces they are called through.                            *)
(***************************************************************************)
EXTENDS ProviderConfigFeed

CONSTANTS
  NoObject, NoPass,
  Nothing,         \* the service is not deployed
  Clusters,        \* {"mcp"}, with "workload" when withWorkloadCluster
  Polling,         \* the ProviderConfigs whose PollInterval is not 0
  ForeignFinalizers,
  ReleaseAtOnce,   \* ReconcileDelete removes AccessRequests within the call
  MaxUserActions   \* bound on creations, edits and deletions of the object

ASSUME RuntimeAssumption ==
  /\ Clusters \in {{"mcp"}, {"mcp", "workload"}}
  /\ Polling \subseteq ProviderConfigs /\ Nothing \notin ProviderConfigs
  /\ ForeignFinalizers \subseteq BOOLEAN /\ ReleaseAtOnce \in BOOLEAN
  /\ MaxUserActions \in Nat

VARIABLES
  obj,       \* the object on the onboarding cluster, or NoObject
  queued,    \* SPReconciler's queue holds its key, at once or after a delay
  call,      \* the call the worker makes next
  pass,      \* the worker's local copies, or NoPass
  stale,     \* the object changed since the worker last read or wrote it
  access,    \* the AccessRequest of each cluster
  deployed,  \* the ProviderConfig the service was last deployed with
  unlisted,  \* the handler could not list the objects for the last event
  userActions

spVars == <<obj, queued, call, pass, stale, access, deployed, unlisted,
            userActions>>
vars == <<feedVars, faults, spVars>>

-------------------------------------------------------------------------------
Phases == {"", "ConfigMissing", "Progressing", "Ready", "Terminating"}
Objects == [deleting : BOOLEAN, finalizer : BOOLEAN, foreign : BOOLEAN,
            phase : Phases]

(* deleting is the branch Reconcile takes, phase the one of the object as  *)
(* the pass changes it, old the one of oldObj, config the copy of the      *)
(* ProviderConfig, next what follows the status patch.                     *)
Passes == [deleting : BOOLEAN, phase : Phases, old : Phases, config : Events,
           next : {"Requeue", "Poll", "ReleaseAccess"}]

ASSUME NullsAssumption == NoObject \notin Objects /\ NoPass \notin Passes

Calls == {"Idle", "Get", "AddFinalizer", "CheckAccess", "ReconcileAccess",
          "GetClusters", "CreateOrUpdate", "Delete", "PatchStatus",
          "ReleaseAccess", "RemoveFinalizer"}

AccessStates == {"absent", "pending", "granted", "revoking"}

TypeOK ==
  /\ FeedTypeOK
  /\ obj \in Objects \cup {NoObject}
  /\ queued \in BOOLEAN /\ stale \in BOOLEAN
  /\ call \in Calls /\ pass \in Passes \cup {NoPass}
  /\ call \in {"Idle", "Get"} <=> pass = NoPass
  /\ access \in [Clusters -> AccessStates]
  /\ deployed \in ProviderConfigs \cup {Nothing}
  /\ unlisted \in BOOLEAN /\ userActions \in 0..MaxUserActions

Init ==
  /\ FeedInit
  /\ obj = NoObject /\ queued = FALSE
  /\ call = "Idle" /\ pass = NoPass /\ stale = FALSE
  /\ access = [c \in Clusters |-> "absent"]
  /\ deployed = Nothing /\ unlisted = FALSE /\ userActions = 0

-------------------------------------------------------------------------------
EndPass(requeue) ==
  /\ call' = "Idle" /\ pass' = NoPass /\ stale' = FALSE
  /\ queued' = (queued \/ requeue)

(* The fallback result: RequeueAfter: PollInterval(), where 0 is never.    *)
Polls == pass.config \in Polling

Requeue == EndPass(TRUE) /\ UNCHANGED <<obj, access, deployed>>

Continue(next) == call' = next /\ UNCHANGED stale

-------------------------------------------------------------------------------
(* Reconcile                                                               *)

Start ==
  /\ call = "Idle" /\ queued
  /\ call' = "Get" /\ queued' = FALSE /\ NoFault
  /\ UNCHANGED <<obj, pass, stale, access, deployed>>

NewPass(phase) == [deleting |-> obj.deleting, phase |-> phase,
                   old |-> obj.phase, config |-> stored, next |-> "Requeue"]

(* Get, and the Load of the ProviderConfig that follows it.                *)
GetObject ==
  /\ call = "Get" /\ obj # NoObject /\ NoFault
  /\ \/ /\ stored = NoProviderConfig
        /\ pass' = NewPass("ConfigMissing") /\ call' = "PatchStatus"
     \/ /\ stored # NoProviderConfig
        /\ pass' = NewPass(obj.phase)
        /\ call' = IF obj.deleting THEN "CheckAccess" ELSE "AddFinalizer"
  /\ stale' = FALSE
  /\ UNCHANGED <<obj, queued, access, deployed>>

GetFails ==
  /\ call = "Get"
  /\ \/ obj = NoObject /\ NoFault /\ EndPass(FALSE)
     \/ obj # NoObject /\ Fault /\ EndPass(TRUE)
  /\ UNCHANGED <<obj, access, deployed>>

(* Mutant: the finalizer is set on the copy and never stored.              *)
AddFinalizer_NotStored ==
  /\ call = "AddFinalizer" /\ NoFault
  /\ obj # NoObject /\ (obj.deleting => obj.finalizer)
  /\ pass' = [pass EXCEPT !.phase = obj.phase]
  /\ call' = "ReconcileAccess" /\ stale' = FALSE
  /\ UNCHANGED <<obj, queued, access, deployed>>

(* createOrUpdate reads the object again and updates it if the finalizer   *)
(* is missing, which the API server refuses on a deleted object.           *)
AddFinalizer ==
  /\ call = "AddFinalizer" /\ NoFault
  /\ obj # NoObject /\ (obj.deleting => obj.finalizer)
  /\ obj' = [obj EXCEPT !.finalizer = TRUE]
  /\ queued' = (queued \/ ~obj.finalizer)
  /\ pass' = [pass EXCEPT !.phase = obj.phase]
  /\ call' = "ReconcileAccess" /\ stale' = FALSE
  /\ UNCHANGED <<access, deployed>>

AddFinalizerFails ==
  /\ call = "AddFinalizer"
  /\ \/ obj = NoObject /\ NoFault
     \/ obj # NoObject /\ obj.deleting /\ ~obj.finalizer /\ NoFault
     \/ Fault
  /\ Requeue

(* Mutant: only a deletion timestamp counts, not a missing AccessRequest.  *)
CheckAccess_TimestampOnly ==
  /\ call = "CheckAccess"
  /\ \/ /\ NoFault
        /\ Continue(IF \E c \in Clusters : access[c] = "revoking"
                    THEN "ReleaseAccess" ELSE "ReconcileAccess")
        /\ UNCHANGED <<obj, queued, pass, access, deployed>>
     \/ Fault /\ Requeue

(* areAccessRequestsInDeletion.                                            *)
CheckAccess ==
  /\ call = "CheckAccess"
  /\ \/ /\ NoFault
        /\ Continue(IF \E c \in Clusters : access[c] \in {"absent", "revoking"}
                    THEN "ReleaseAccess" ELSE "ReconcileAccess")
        /\ UNCHANGED <<obj, queued, pass, access, deployed>>
     \/ Fault /\ Requeue

(* clusters: until every AccessRequest is granted the pass comes back      *)
(* later; an error may come before or after some of them were created.     *)
ReconcileAccess ==
  /\ call = "ReconcileAccess"
  /\ LET Created(cs) == [c \in Clusters |->
           IF c \in cs /\ access[c] = "absent" THEN "pending" ELSE access[c]]
     IN  \/ /\ access' = Created(Clusters) /\ NoFault
            /\ IF \E c \in Clusters : access'[c] = "pending"
               THEN EndPass(TRUE)
               ELSE Continue("GetClusters") /\ UNCHANGED <<queued, pass>>
         \/ /\ \E cs \in SUBSET Clusters : access' = Created(cs)
            /\ Fault /\ EndPass(TRUE)
  /\ UNCHANGED <<obj, deployed>>

(* The kubeconfigs and the secret keys of all clusters.                    *)
GetClusters ==
  /\ call = "GetClusters"
  /\ \/ /\ NoFault /\ \A c \in Clusters : access[c] \in {"granted", "revoking"}
        /\ Continue(IF pass.deleting THEN "Delete" ELSE "CreateOrUpdate")
        /\ UNCHANGED <<obj, queued, pass, access, deployed>>
     \/ /\ Fault \/ (NoFault /\ \E c \in Clusters : access[c] = "absent")
        /\ Requeue

-------------------------------------------------------------------------------
(* The domain reconciler's answers: done; done for now, "come back later"; *)
(* or an error on the way.                                                 *)

Answer(phase, next) ==
  /\ pass' = [pass EXCEPT !.phase = phase, !.next = next]
  /\ Continue("PatchStatus")
  /\ UNCHANGED <<obj, queued, access>>

CreateOrUpdate ==
  /\ call = "CreateOrUpdate"
  /\ \/ deployed' = pass.config /\ NoFault /\ Answer("Ready", "Poll")
     \/ deployed' = pass.config /\ Fault /\ Answer("Progressing", "Requeue")
     \/ UNCHANGED deployed /\ Fault /\ Answer("Progressing", "Requeue")

(* Mutant: "come back later" is taken for done.                            *)
Delete_IgnoresRequeue ==
  /\ call = "Delete"
  /\ \/ deployed' = Nothing /\ NoFault /\ Answer("Terminating", "ReleaseAccess")
     \/ UNCHANGED deployed /\ Fault /\ Answer("Terminating", "ReleaseAccess")

Delete ==
  /\ call = "Delete"
  /\ \/ deployed' = Nothing /\ NoFault /\ Answer("Terminating", "ReleaseAccess")
     \/ deployed' = Nothing /\ Fault /\ Answer("Terminating", "Requeue")
     \/ UNCHANGED deployed /\ Fault /\ Answer("Terminating", "Requeue")

(* What follows the patch, with a copy that is stale or not.               *)
Proceed(isStale) ==
  \/ /\ pass.next = "ReleaseAccess"
     /\ call' = "ReleaseAccess" /\ stale' = isStale
     /\ queued' = (queued \/ obj' # obj) /\ UNCHANGED pass
  \/ /\ pass.next # "ReleaseAccess"
     /\ EndPass(pass.next = "Requeue" \/ Polls \/ obj' # obj)

(* updateStatus: nothing is sent if the status is as it was, and a failed  *)
(* patch is logged only.  After a patch the copy is the server's answer.   *)
PatchStatus ==
  /\ call = "PatchStatus"
  /\ LET sent == pass.phase # pass.old /\ obj # NoObject
     IN  \/ /\ sent /\ NoFault
            /\ obj' = [obj EXCEPT !.phase = pass.phase]
            /\ Proceed(FALSE)
         \/ /\ IF sent THEN Fault ELSE NoFault
            /\ UNCHANGED obj
            /\ Proceed(stale)
  /\ UNCHANGED <<access, deployed>>

(* Mutant: the requeue that ReconcileDelete asks for is ignored.           *)
ReleaseAccess_DoesNotWait ==
  /\ call = "ReleaseAccess"
  /\ LET Released(cs) == [c \in Clusters |->
           IF c \notin cs THEN access[c]
           ELSE IF access[c] \in {"granted", "revoking"} /\ ~ReleaseAtOnce
                THEN "revoking" ELSE "absent"]
     IN  \/ /\ access' = Released(Clusters) /\ NoFault
            /\ Continue("RemoveFinalizer") /\ UNCHANGED <<queued, pass>>
         \/ /\ \E cs \in SUBSET Clusters : access' = Released(cs)
            /\ Fault /\ EndPass(TRUE)
  /\ UNCHANGED <<obj, deployed>>

(* ReconcileDelete is done when no AccessRequest is left to wait for.      *)
ReleaseAccess ==
  /\ call = "ReleaseAccess"
  /\ LET Released(cs) == [c \in Clusters |->
           IF c \notin cs THEN access[c]
           ELSE IF access[c] \in {"granted", "revoking"} /\ ~ReleaseAtOnce
                THEN "revoking" ELSE "absent"]
     IN  \/ /\ access' = Released(Clusters) /\ NoFault
            /\ IF ReleaseAtOnce \/ \A c \in Clusters : access[c] = "absent"
               THEN Continue("RemoveFinalizer") /\ UNCHANGED <<queued, pass>>
               ELSE EndPass(TRUE)
         \/ /\ \E cs \in SUBSET Clusters : access' = Released(cs)
            /\ Fault /\ EndPass(TRUE)
  /\ UNCHANGED <<obj, deployed>>

(* Mutant: a conflict is ignored.                                          *)
RemoveFinalizer_NoRetry ==
  /\ call = "RemoveFinalizer"
  /\ \/ /\ ~stale /\ NoFault
        /\ obj' = IF obj.foreign THEN [obj EXCEPT !.finalizer = FALSE]
                  ELSE NoObject
        /\ EndPass(Polls \/ obj' # obj)
     \/ /\ (stale /\ NoFault) \/ Fault
        /\ EndPass(FALSE) /\ UNCHANGED obj
  /\ UNCHANGED <<access, deployed>>

RemoveFinalizer ==
  /\ call = "RemoveFinalizer"
  /\ \/ /\ ~stale /\ NoFault
        /\ obj' = IF obj.foreign THEN [obj EXCEPT !.finalizer = FALSE]
                  ELSE NoObject
        /\ EndPass(Polls \/ obj' # obj)
     \/ /\ (stale /\ NoFault) \/ Fault
        /\ EndPass(TRUE) /\ UNCHANGED obj
  /\ UNCHANGED <<access, deployed>>

-------------------------------------------------------------------------------
(* Users, the platform, the handler of ProviderConfig events, restarts     *)

ObjectWritten ==
  /\ userActions < MaxUserActions /\ userActions' = userActions + 1
  /\ queued' = TRUE /\ stale' = (call \notin {"Idle", "Get"})
  /\ NoFault
  /\ UNCHANGED <<call, pass, access, deployed>>

UserCreate ==
  /\ obj = NoObject
  /\ \E foreign \in ForeignFinalizers :
       obj' = [deleting |-> FALSE, finalizer |-> FALSE, foreign |-> foreign,
               phase |-> ""]
  /\ ObjectWritten

UserEdit == obj # NoObject /\ UNCHANGED obj /\ ObjectWritten

UserDelete ==
  /\ obj # NoObject /\ ~obj.deleting
  /\ obj' = IF obj.finalizer \/ obj.foreign
            THEN [obj EXCEPT !.deleting = TRUE] ELSE NoObject
  /\ ObjectWritten

ForeignRelease ==
  /\ obj # NoObject /\ obj.deleting /\ obj.foreign
  /\ obj' = IF obj.finalizer THEN [obj EXCEPT !.foreign = FALSE] ELSE NoObject
  /\ queued' = TRUE /\ stale' = (call \notin {"Idle", "Get"}) /\ NoFault
  /\ UNCHANGED <<call, pass, access, deployed>>

Platform ==
  /\ \E c \in Clusters :
       \/ access[c] = "pending" /\ access' = [access EXCEPT ![c] = "granted"]
       \/ access[c] = "revoking" /\ access' = [access EXCEPT ![c] = "absent"]
  /\ NoFault
  /\ UNCHANGED <<obj, queued, call, pass, stale, deployed>>

(* Mutant: the check of List's error is the wrong way round.               *)
ListObjects_Inverted ==
  /\ EndListing /\ NoFault
  /\ \/ UNCHANGED queued /\ unlisted' = FALSE
     \/ queued' = (queued \/ obj # NoObject) /\ unlisted' = TRUE
  /\ UNCHANGED <<obj, call, pass, stale, access, deployed>>

(* "Reconcile all existing objects": a failed List enqueues none.  It may  *)
(* fail once, or always when emptyObj makes objects without a kind; no     *)
(* budget bounds it.                                                       *)
ListObjects ==
  /\ EndListing /\ NoFault
  /\ \/ queued' = (queued \/ obj # NoObject) /\ unlisted' = FALSE
     \/ UNCHANGED queued /\ unlisted' = TRUE
  /\ UNCHANGED <<obj, call, pass, stale, access, deployed>>

Crash ==
  /\ FeedRestarts /\ Fault
  /\ call' = "Idle" /\ pass' = NoPass /\ stale' = FALSE
  /\ queued' = (obj # NoObject) /\ unlisted' = FALSE
  /\ UNCHANGED <<obj, access, deployed>>

-------------------------------------------------------------------------------
Reconcile ==
  \/ Start \/ GetObject \/ GetFails \/ AddFinalizer \/ AddFinalizerFails
  \/ CheckAccess \/ ReconcileAccess \/ GetClusters \/ CreateOrUpdate \/ Delete
  \/ PatchStatus \/ ReleaseAccess \/ RemoveFinalizer

Next ==
  \/ FeedStep /\ UNCHANGED spVars
  \/ (ListObjects \/ Crash) /\ UNCHANGED userActions
  \/ (Reconcile \/ Platform \/ ForeignRelease)
     /\ UNCHANGED <<feedVars, unlisted, userActions>>
  \/ (UserCreate \/ UserEdit \/ UserDelete) /\ UNCHANGED <<feedVars, unlisted>>

Spec == Init /\ [][Next]_vars

(* The manager runs the two workers, the handler and the timers; the       *)
(* platform grants and revokes; foreign finalizers go.  Nothing is assumed *)
(* of users, of the platform operator or of faults.                        *)
Fairness ==
  /\ WF_vars(Reconcile /\ UNCHANGED <<feedVars, unlisted, userActions>>)
  /\ WF_vars((PCStart \/ PCGet \/ PCSend) /\ UNCHANGED spVars)
  /\ WF_vars(StoreConfig /\ UNCHANGED spVars)
  /\ WF_vars(ListObjects /\ UNCHANGED userActions)
  /\ WF_vars(Platform /\ UNCHANGED <<feedVars, unlisted, userActions>>)
  /\ WF_vars(ForeignRelease /\ UNCHANGED <<feedVars, unlisted, userActions>>)

FairSpec == Spec /\ Fairness

-------------------------------------------------------------------------------
(* Properties                                                              *)

Owned == obj # NoObject /\ obj.finalizer

(* Nothing is left behind: while the service is deployed, the object with  *)
(* its finalizer exists and every AccessRequest needed to remove it is     *)
(* granted, whatever fails: a deleting pass that cannot set the clusters   *)
(* up returns the error and never reaches ReconcileDelete (233-253).       *)
ServiceIsOwned ==
  deployed # Nothing => Owned /\ \A c \in Clusters : access[c] = "granted"

(* No AccessRequest outlives the object: the finalizer goes only when      *)
(* ReconcileDelete had nothing left to wait for (250-264).                 *)
AccessIsOwned == (\E c \in Clusters : access[c] # "absent") => Owned

(* "It is used to prevent renewing cluster access when deleting an         *)
(* ServiceProviderAPI object": a deleting pass creates no AccessRequest    *)
(* (areAccessRequestsInDeletion, 288-309).                                 *)
DeletionNeverRenewsAccess ==
  [][ (\E c \in Clusters : access[c] = "absent" /\ access'[c] = "pending")
      => ~pass.deleting ]_vars

(* What is promised of one object.                                         *)
OwnerState == IF ~Owned THEN "none" ELSE IF obj.deleting THEN "leaving" ELSE "live"
AccessState ==
  IF \A c \in Clusters : access[c] = "absent" THEN "none"
  ELSE IF \A c \in Clusters : access[c] = "granted" THEN "open" ELSE "waiting"

Lifecycle == INSTANCE ServiceLifecycle
  WITH owner <- OwnerState, access <- AccessState,
       deployed <- (deployed # Nothing)

(* The loop keeps the promise: whatever fails and wherever the process     *)
(* restarts, nothing is done for an object before its finalizer is stored, *)
(* the service is deployed through complete access only and withdrawn only *)
(* from a deleted object, access goes after the service, the finalizer     *)
(* after the access (spreconciler.go:171-266).                             *)
ImplementsLifecycle == Lifecycle!Spec

Live(c) == /\ obj # NoObject /\ ~obj.deleting
           /\ pcObject = [content |-> c, deleting |-> FALSE]

(* A service that stays is eventually deployed with the ProviderConfig     *)
(* that stays, by the requests its change makes, without any polling.      *)
(* "Any provider config change results in a reconcile request for every    *)
(* existing service provider api object" (pcreconciler.go:33-34) is more   *)
(* than the code keeps: requests are dropped when the List fails           *)
(* (spreconciler.go:376).  Even then only a service deployed with a        *)
(* ProviderConfig that has no poll interval is left behind.                *)
LeftBehind == unlisted /\ deployed \in ProviderConfigs \ Polling

ConfigReachesService ==
  \A c \in ProviderConfigs : <>[]Live(c) => <>[](deployed = c) \/ <>[]LeftBehind

(* A deleted object eventually goes, as long as there is a ProviderConfig, *)
(* without which no pass gets beyond reading the object (180-184).         *)
DeletionCompletes ==
  <>[](Published(pcObject) # NoProviderConfig) =>
    ~<>[](obj # NoObject /\ obj.deleting)
===============================================================================
